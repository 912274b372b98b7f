----------------------------- MODULE LeadViews -----------------------------
(***************************************************************************)
(* What readers of the harvester's database are shown of a business        *)
(* (afra_market_data/drivers/google_maps/app): the workbook of             *)
(* excel_exporter.py, the batch payload of api_mapper.py and               *)
(* output_model.py, and the counts of database.py, while overlapping runs  *)
(* extract businesses from their pages and crawl their websites.  Each     *)
(* view is one SELECT, so it is an operator over the tables.               *)
(*                                                                         *)
(* A field is abstracted to what the views tell apart: a phone is missing, *)
(* mobile or a landline, a website and the finds of a crawl are there or   *)
(* not.  The listing gives neither, and nothing ever writes rating, city   *)
(* or province.                                                            *)
(***************************************************************************)
EXTENDS Integers, FiniteSets, Sequences

CONSTANTS
    Lead,           \* rows of businesses
    Extractor,      \* processes in extract_businesses
    Crawler,        \* processes in WebsiteCrawler.run
    MaxTries        \* bound: rounds a business is in

ASSUME ViewAssumption == MaxTries \in Nat /\ IsFiniteSet(Lead)

VARIABLES
    row,            \* Lead -> its row of businesses
    finds,          \* Lead -> what the rows of website_extractions found, in order
    todo,           \* Extractor -> the businesses of its round still to be read
    chosen,         \* Crawler -> the businesses its SELECT returned
    tries,          \* Lead -> rounds it was in (bounds the behaviour)
    shared,         \* businesses two extractors had in a round at once (history)
    doubled         \* businesses two crawlers had chosen at once (history)

viewVars == <<row, finds, todo, chosen, tries, shared, doubled>>

Find == {"email", "social", "extra"}
Phone == {"none", "mobile", "landline"}

ViewTypeOK ==
    /\ row \in [Lead -> [status : {"pending", "done", "failed"}, phone : Phone, site : BOOLEAN]]
    /\ \A l \in Lead : \A i \in 1 .. Len(finds[l]) : finds[l][i] \subseteq Find
    /\ todo \in [Extractor -> SUBSET Lead]
    /\ chosen \in [Crawler -> SUBSET Lead]

ViewInit ==
    /\ row = [l \in Lead |-> [status |-> "pending", phone |-> "none", site |-> FALSE]]
    /\ finds = [l \in Lead |-> <<>>]
    /\ todo = [e \in Extractor |-> {}]
    /\ chosen = [c \in Crawler |-> {}]
    /\ tries = [l \in Lead |-> 0]
    /\ shared = {} /\ doubled = {}

-----------------------------------------------------------------------------
(* What changes the tables.                                                *)

Having(status) == {l \in Lead : row[l].status = status /\ tries[l] < MaxTries}

\* Mutant: any that has retries left, whatever its status.
NextRoundAll == SUBSET {l \in Lead : tries[l] < MaxTries}

\* get_next_business_for_processing: one that failed, or the first that wait.
NextRound ==
    IF Having("failed") # {} THEN {{l} : l \in Having("failed")} ELSE SUBSET Having("pending")

FetchBatch(e) ==
    /\ todo[e] = {}
    /\ \E round \in NextRound \ {{}} :
           /\ todo' = [todo EXCEPT ![e] = round]
           /\ tries' = [l \in Lead |-> IF l \in round THEN tries[l] + 1 ELSE tries[l]]
           /\ shared' = shared \cup {l \in round : \E o \in Extractor : l \in todo[o]}
    /\ UNCHANGED <<row, finds, chosen, doubled>>

Settle(e, l, values) ==
    /\ row' = [row EXCEPT ![l] = values]
    /\ todo' = [todo EXCEPT ![e] = @ \ {l}]
    /\ UNCHANGED <<finds, chosen, tries, shared, doubled>>

\* The page is a business page without a captcha: whatever the page shows
\* replaces the fields, and what cannot be read is blank.
PageRead(e) ==
    \E l \in todo[e], p \in Phone, s \in BOOLEAN :
        Settle(e, l, [status |-> "done", phone |-> p, site |-> s])

\* An error, a page that is not a business's, or a captcha: mark_failed.
PageRefused(e) == \E l \in todo[e] : Settle(e, l, [row[l] EXCEPT !.status = "failed"])

SelectSites(c) ==
    LET sites == {l \in Lead : row[l].status = "done" /\ row[l].site /\ finds[l] = <<>>} IN
    /\ chosen[c] = {}
    /\ chosen' = [chosen EXCEPT ![c] = sites]
    /\ doubled' = doubled \cup {l \in sites : \E o \in Crawler : l \in chosen[o]}
    /\ UNCHANGED <<row, finds, todo, tries, shared>>

\* A site that does not answer leaves a row too, without finds.
CrawlSite(c) ==
    /\ \E l \in chosen[c], found \in {{}, {"email", "social"}, Find} :
           /\ finds' = [finds EXCEPT ![l] = Append(@, found)]
           /\ chosen' = [chosen EXCEPT ![c] = @ \ {l}]
    /\ UNCHANGED <<row, todo, tries, shared, doubled>>

Killed(p) ==
    /\ \/ p \in Extractor /\ todo[p] # {}
          /\ todo' = [todo EXCEPT ![p] = {}] /\ UNCHANGED chosen
       \/ p \in Crawler /\ chosen[p] # {}
          /\ chosen' = [chosen EXCEPT ![p] = {}] /\ UNCHANGED todo
    /\ UNCHANGED <<row, finds, tries, shared, doubled>>

ViewNext ==
    \/ \E e \in Extractor : FetchBatch(e) \/ PageRead(e) \/ PageRefused(e)
    \/ \E c \in Crawler : SelectSites(c) \/ CrawlSite(c)
    \/ \E p \in Extractor \cup Crawler : Killed(p)

ViewSpec == ViewInit /\ [][ViewNext]_viewVars

-----------------------------------------------------------------------------
(* The views.                                                              *)

Listed == {l \in Lead : row[l].status = "done"}

If(condition, points) == IF condition THEN points ELSE 0

\* BusinessRecord.__post_init__, for one row of the join.
Score(l, found) ==
    If(row[l].phone # "none", 1) + If(row[l].site, 1) + If("email" \in found, 2)
        + If("social" \in found, 1) + If("extra" \in found, 1)

Grade(l, found) ==
    LET s == Score(l, found) IN IF s >= 5 THEN "high" ELSE IF s >= 3 THEN "medium" ELSE "low"

\* ApiMapper: the LEFT JOIN gives a record per row of website_extractions.
Joined(l) == IF finds[l] = <<>> THEN <<{}>> ELSE finds[l]

Record(l, found) ==
    [lead |-> l, phone |-> row[l].phone # "none", mobile |-> row[l].phone = "mobile",
     meta |-> Grade(l, found)]

Records(l) == [i \in DOMAIN Joined(l) |-> Record(l, Joined(l)[i])]

\* get_stats of the mapper counts records, those of the database businesses.
RecordsGraded(grade) ==
    Cardinality({p \in Listed \X (1 .. 2 * MaxTries) :
                    p[2] \in DOMAIN Records(p[1]) /\ Records(p[1])[p[2]].meta = grade})
DoneCount == Cardinality(Listed)

\* export_to_excel: the table alone, and a grade of its own.
Quality(l) ==
    IF row[l].phone # "none" /\ row[l].site THEN "high"
    ELSE IF row[l].phone # "none" \/ row[l].site THEN "medium"
    ELSE "low"

-----------------------------------------------------------------------------
(* Properties.                                                             *)

\* Who reads the workbook and who gets the payload see the same harvest: each
\* settled business is in both, more than once in the payload only if two
\* crawlers had chosen it, so with one crawler the grades the mapper counts
\* sum up to the businesses that are done.  A record has finds only of a website
\* it shows, unless two extractors read the page and the second blanked what
\* the first had found; even then none is high where the workbook says low.
ViewsAgree ==
    /\ ViewTypeOK
    /\ \A l \in Listed : \A i \in DOMAIN Records(l) :
        /\ i > 1 => l \in doubled
        /\ Joined(l)[i] # {} /\ ~row[l].site => l \in shared
        /\ Records(l)[i].meta = "high" => Quality(l) # "low"
    /\ doubled = {} =>
        RecordsGraded("high") + RecordsGraded("medium") + RecordsGraded("low") = DoneCount

=============================================================================
