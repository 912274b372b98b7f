----------------------------- MODULE SheetSync -----------------------------
(***************************************************************************)
(* The hand-run tools of google-maps-bot that send completed businesses    *)
(* away: two that write a Google sheet (sync_to_google_sheets.py with a    *)
(* service account, sync_to_google_sheets_oauth.py with a login; the same  *)
(* loop), and one that upserts into AfraKala (sync_to_afrakala.py).  They  *)
(* share one sync_status column, the website crawler adds rows to the      *)
(* table they join with, and nothing keeps two of them apart.              *)
(*                                                                         *)
(* A step is one transaction of the database, one call of the sheet or one *)
(* request to AfraKala.  The batch limits (50 and 100 rows) are above the  *)
(* number of businesses.  The sheet is written by the tools only.          *)
(***************************************************************************)
EXTENDS Naturals, Sequences, FiniteSets, SequencesExt, Selection

CONSTANTS
    Place,          \* rows of businesses, in the order of their ids
    PlaceKey,       \* lookup keys
    SheetTool,      \* runs of the two sheet tools
    Uploader,       \* runs of the AfraKala tool
    Nameless,       \* places without a name, which AfraKala is not sent
    WithWebsite,    \* places whose website column is not empty
    Attempts,       \* max_retries of _send_with_retry (3)
    MaxCrawls,      \* bound: rows of website_extractions for a place
    MaxMishaps      \* bound: tools that die and calls that raise

Header == "lookup_key"

ASSUME SheetAssumption ==
    /\ Place \subseteq Nat /\ IsFiniteSet(Place)
    /\ Header \notin PlaceKey
    /\ Nameless \subseteq Place
    /\ WithWebsite \subseteq Place
    /\ SheetTool \cap Uploader = {}
    /\ Attempts \in Nat \ {0}
    /\ MaxCrawls \in Nat
    /\ MaxMishaps \in Nat

VARIABLES
    keyOf,          \* Place -> its lookup key (two places may share one)
    extracted,      \* places whose status is "done"
    crawls,         \* Place -> its rows in website_extractions
    toCrawl,        \* what the crawler has still to visit
    hasColumn,      \* the businesses table has its sync_status column
    syncStatus,     \* Place -> the sync_status column (NULL is "pending")
    sheet,          \* the first column of the sheet, row by row
    upserted,       \* places AfraKala has
    tool,           \* tool -> where it is
    batch,          \* tool -> the rows of its SELECT still in use
    appending,      \* SheetTool -> rows_to_append
    updating,       \* SheetTool -> rows_to_update: row numbers and keys
    sends,          \* Uploader -> attempts made for the head of its batch
    staleAppend,    \* some rows were appended behind another tool's cache
    mishaps         \* mishaps so far

placeVars == <<keyOf, extracted, crawls, toCrawl, hasColumn>>
planVars == <<batch, appending, updating, sends>>
sheetVars == <<placeVars, syncStatus, sheet, upserted, tool, planVars, staleAppend,
               mishaps>>

Tool == SheetTool \cup Uploader

SheetTypeOK ==
    /\ keyOf \in [Place -> PlaceKey]
    /\ extracted \subseteq Place
    /\ crawls \in [Place -> 0 .. MaxCrawls]
    /\ hasColumn \in BOOLEAN
    /\ syncStatus \in [Place -> {"pending", "synced", "failed"}]
    /\ sheet \in Seq(PlaceKey \cup {Header})
    /\ upserted \subseteq Place
    /\ tool \in [Tool -> {"idle", "header", "open", "cache", "append", "update", "mark",
                          "send", "sent", "given up"}]
    /\ batch \in [Tool -> Seq(Place)]
    /\ sends \in [Uploader -> 0 .. Attempts]
    /\ staleAppend \in BOOLEAN
    /\ mishaps \in 0 .. MaxMishaps

SheetInit ==
    /\ keyOf \in [Place -> PlaceKey]
    /\ extracted = {}
    /\ crawls = [b \in Place |-> 0]
    /\ toCrawl = <<>>
    /\ hasColumn = FALSE
    /\ syncStatus = [b \in Place |-> "pending"]
    /\ sheet = <<>>
    /\ upserted = {}
    /\ tool = [t \in Tool |-> "idle"]
    /\ batch = [t \in Tool |-> <<>>]
    /\ appending = [t \in SheetTool |-> <<>>]
    /\ updating = [t \in SheetTool |-> <<>>]
    /\ sends = [t \in Uploader |-> 0]
    /\ staleAppend = FALSE
    /\ mishaps = 0

-----------------------------------------------------------------------------

ToolGoes(t, from, to) == tool[t] = from /\ tool' = [tool EXCEPT ![t] = to]
Mishap == mishaps < MaxMishaps /\ mishaps' = mishaps + 1
InOrder(rowsOf) == FirstById(rowsOf, Cardinality(rowsOf))

\* mark_success of a harvest completes a place.
CompletePlace(b) ==
    /\ b \notin extracted
    /\ extracted' = extracted \cup {b}
    /\ UNCHANGED <<hasColumn, keyOf, crawls, toCrawl, syncStatus, sheet,
                   upserted, tool, planVars, staleAppend, mishaps>>

\* No code of this tree adds the column the tools select by; somebody does,
\* with the schema of another driver.
AddSyncColumn ==
    /\ ~hasColumn
    /\ hasColumn' = TRUE
    /\ UNCHANGED <<keyOf, extracted, crawls, toCrawl, syncStatus, sheet,
                   upserted, tool, planVars, staleAppend, mishaps>>

\* WebsiteCrawler.run takes every completed place that has a website, crawled
\* before or not ...
StartCrawler ==
    /\ toCrawl = <<>>
    /\ toCrawl' = InOrder(Unjoined(extracted \cap WithWebsite))
    /\ UNCHANGED <<hasColumn, keyOf, extracted, crawls, syncStatus, sheet,
                   upserted, tool, planVars, staleAppend, mishaps>>

\* ... crawl_business answers for each, whatever raises on the way, and
\* _save_extraction inserts a row, failed crawls included.
SaveExtraction ==
    /\ toCrawl # <<>>
    /\ crawls[Head(toCrawl)] < MaxCrawls
    /\ crawls' = [crawls EXCEPT ![Head(toCrawl)] = @ + 1]
    /\ toCrawl' = Tail(toCrawl)
    /\ UNCHANGED <<hasColumn, keyOf, extracted, syncStatus, sheet, upserted,
                   tool, planVars, staleAppend, mishaps>>

\* The SELECT of sync_pending: completed places that are not marked, with a
\* row for each of their rows in website_extractions (LEFT JOIN).
PendingRows ==
    LET pending == {b \in extracted : syncStatus[b] = "pending"}
    IN  InOrder(UNION {LeftJoined(b, crawls[b]) : b \in pending})

-----------------------------------------------------------------------------
(* The sheet tools *)

\* _get_sheet: an empty sheet gets its headers first.
OpenSheet(t) ==
    /\ ToolGoes(t, "idle", IF sheet = <<>> THEN "header" ELSE "open")
    /\ UNCHANGED <<placeVars, syncStatus, sheet, upserted, planVars,
                   staleAppend, mishaps>>

AddHeader(t) ==
    /\ ToolGoes(t, "header", "open")
    /\ sheet' = Append(sheet, Header)
    /\ UNCHANGED <<placeVars, syncStatus, upserted, planVars, staleAppend,
                   mishaps>>

SelectPending(t) ==
    /\ hasColumn
    /\ ToolGoes(t, "open", IF PendingRows = <<>> THEN "idle" ELSE "cache")
    /\ batch' = [batch EXCEPT ![t] = PendingRows]
    /\ UNCHANGED <<placeVars, syncStatus, sheet, upserted, appending, updating,
                   sends, staleAppend, mishaps>>

\* The SELECT raises: there is no sync_status column.
SelectRaises(t) ==
    /\ ~hasColumn
    /\ ToolGoes(t, "open", "idle")
    /\ UNCHANGED <<placeVars, syncStatus, sheet, upserted, planVars,
                   staleAppend, mishaps>>

\* Mutant: the cache is read from the third row on.
RowsOfSkipping(k) == {i \in 3 .. Len(sheet) : sheet[i] = k}

\* The row numbers _build_row_cache meets for a key; the last one stays.
RowsOf(k) == {i \in 2 .. Len(sheet) : sheet[i] = k}
RowOf(k) == CHOOSE i \in RowsOf(k) : \A j \in RowsOf(k) : j <= i

FirstWrite(append, update) ==
    IF append # <<>> THEN "append" ELSE IF update # <<>> THEN "update" ELSE "mark"

\* A row whose key the cache knows is an update, any other is appended.  The
\* placeholder a row leaves for its key is None, which reads as unknown.
PlanRows(t) ==
    LET key(i) == keyOf[batch[t][i]]
        known == {i \in 1 .. Len(batch[t]) : RowsOf(key(i)) # {}}
        append == InOrder(Unjoined(1 .. Len(batch[t]) \ known))
        update == InOrder(Unjoined(known))
    IN  /\ ToolGoes(t, "cache", FirstWrite(append, update))
        /\ appending' = [appending EXCEPT ![t] = [i \in DOMAIN append |-> key(append[i])]]
        /\ updating' = [updating EXCEPT ![t] =
               [i \in DOMAIN update |-> <<RowOf(key(update[i])), key(update[i])>>]]
        /\ UNCHANGED <<placeVars, syncStatus, sheet, upserted, batch, sends,
                       staleAppend, mishaps>>

AppendRows(t) ==
    /\ ToolGoes(t, "append", FirstWrite(<<>>, updating[t]))
    /\ sheet' = sheet \o appending[t]
    /\ appending' = [appending EXCEPT ![t] = <<>>]
    /\ staleAppend' = (staleAppend \/ \E s \in SheetTool \ {t} : tool[s] = "append")
    /\ UNCHANGED <<placeVars, syncStatus, upserted, batch, updating, sends,
                   mishaps>>

UpdateRow(t) ==
    /\ updating[t] # <<>>
    /\ ToolGoes(t, "update", FirstWrite(<<>>, Tail(updating[t])))
    /\ sheet' = [sheet EXCEPT ![Head(updating[t])[1]] = Head(updating[t])[2]]
    /\ updating' = [updating EXCEPT ![t] = Tail(@)]
    /\ UNCHANGED <<placeVars, syncStatus, upserted, batch, appending, sends,
                   staleAppend, mishaps>>

\* A call of the sheet or the database raises, or the process dies: the tool
\* ends where it is, with what it wrote so far.
CallRaises(t) ==
    /\ Mishap
    /\ tool[t] \in {"header", "open", "cache", "append", "update", "mark"}
    /\ tool' = [tool EXCEPT ![t] = "idle"]
    /\ appending' = [appending EXCEPT ![t] = <<>>]
    /\ updating' = [updating EXCEPT ![t] = <<>>]
    /\ batch' = [batch EXCEPT ![t] = <<>>]
    /\ UNCHANGED <<placeVars, syncStatus, sheet, upserted, sends, staleAppend>>

\* _mark_synced: the ids of the batch, whatever their status is by now.
MarkBatch(t) ==
    /\ ToolGoes(t, "mark", "idle")
    /\ syncStatus' = [b \in Place |->
           IF b \in ToSet(batch[t]) THEN "synced" ELSE syncStatus[b]]
    /\ batch' = [batch EXCEPT ![t] = <<>>]
    /\ UNCHANGED <<placeVars, sheet, upserted, appending, updating, sends,
                   staleAppend, mishaps>>

-----------------------------------------------------------------------------
(* The AfraKala tool *)

\* What the loop does with the next row of its batch, or it is over.
Attend(rows) ==
    CASE rows = <<>> -> "idle"
      [] rows # <<>> /\ Head(rows) \in Nameless -> "given up"
      [] OTHER -> "send"

StartUpload(u) ==
    /\ hasColumn
    /\ ToolGoes(u, "idle", Attend(PendingRows))
    /\ PendingRows # <<>>
    /\ batch' = [batch EXCEPT ![u] = PendingRows]
    /\ UNCHANGED <<placeVars, syncStatus, sheet, upserted, appending, updating,
                   sends, staleAppend, mishaps>>

\* _post_to_api answers success: the row is there, inserted or updated.
Upsert(u) ==
    /\ ToolGoes(u, "send", "sent")
    /\ upserted' = upserted \cup {Head(batch[u])}
    /\ UNCHANGED <<placeVars, syncStatus, sheet, planVars, staleAppend,
                   mishaps>>

\* An error status, a timeout (the row may be there all the same) or no
\* connection: tried again until the attempts are used up.
UpsertFails(u) ==
    /\ Mishap
    /\ ToolGoes(u, "send", IF sends[u] + 1 = Attempts THEN "given up" ELSE "send")
    /\ \E taken \in SUBSET {Head(batch[u])} : upserted' = upserted \cup taken
    /\ sends' = [sends EXCEPT ![u] = @ + 1]
    /\ UNCHANGED <<placeVars, syncStatus, sheet, batch, appending, updating,
                   staleAppend>>

\* _mark_synced and _mark_failed of one row, unconditional both.
MarkOne(u, from, mark) ==
    /\ ToolGoes(u, from, Attend(Tail(batch[u])))
    /\ syncStatus' = [syncStatus EXCEPT ![Head(batch[u])] = mark]
    /\ batch' = [batch EXCEPT ![u] = Tail(@)]
    /\ sends' = [sends EXCEPT ![u] = 0]
    /\ UNCHANGED <<placeVars, sheet, upserted, appending, updating, staleAppend,
                   mishaps>>

MarkUploaded(u) == MarkOne(u, "sent", "synced")
MarkUploadFailed(u) == MarkOne(u, "given up", "failed")

StopUpload(u) ==
    /\ Mishap
    /\ tool[u] # "idle"
    /\ tool' = [tool EXCEPT ![u] = "idle"]
    /\ batch' = [batch EXCEPT ![u] = <<>>]
    /\ sends' = [sends EXCEPT ![u] = 0]
    /\ UNCHANGED <<placeVars, syncStatus, sheet, upserted, appending, updating,
                   staleAppend>>

SheetSteps(t) ==
    \/ OpenSheet(t) \/ AddHeader(t) \/ SelectPending(t) \/ SelectRaises(t)
    \/ PlanRows(t) \/ AppendRows(t) \/ UpdateRow(t) \/ CallRaises(t) \/ MarkBatch(t)

UploadSteps(u) ==
    \/ StartUpload(u) \/ Upsert(u) \/ UpsertFails(u)
    \/ MarkUploaded(u) \/ MarkUploadFailed(u) \/ StopUpload(u)

SheetNext ==
    \/ \E b \in Place : CompletePlace(b)
    \/ AddSyncColumn
    \/ StartCrawler
    \/ SaveExtraction
    \/ \E t \in SheetTool : SheetSteps(t)
    \/ \E u \in Uploader : UploadSteps(u)

SheetSpec == SheetInit /\ [][SheetNext]_sheetVars

-----------------------------------------------------------------------------
(* Properties *)

\* A place is marked synced only when it is somewhere: its key is on the sheet
\* or AfraKala has it, whatever dies, raises or overlaps on the way.
SyncedIsDelivered ==
    /\ SheetTypeOK
    /\ \A b \in Place : syncStatus[b] = "synced" =>
           keyOf[b] \in ToSet(sheet) \/ b \in upserted

\* A key stands twice on the sheet only when two sheet tools overlapped, two
\* places share the key, or a place has two rows in website_extractions.  In
\* particular a tool that dies between appending and marking costs no row.
SecondRowIsExplained ==
    \A k \in PlaceKey :
        LET owners == {b \in Place : keyOf[b] = k}
        IN  Cardinality({i \in 1 .. Len(sheet) : sheet[i] = k}) > 1 =>
                staleAppend \/ Cardinality(owners) > 1 \/ \E b \in owners : crawls[b] > 1

\* The sheet and AfraKala hold what the database says of them, and a reader of
\* the sheet meets a place twice only for a reason that can be named.
SheetIsFaithful == SyncedIsDelivered /\ SecondRowIsExplained
=============================================================================
