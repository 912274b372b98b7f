----------------------------- MODULE AdPipeline -----------------------------
(***************************************************************************)
(* DivarExtractionPipeline.run (divar/pipeline.py): a listing page is      *)
(* crawled, the page of every ad on it is extracted, the leads are         *)
(* deduplicated (data/deduplication.py) and written to a CSV and a JSONL   *)
(* file (export/final_exporter.py).  Everything is in memory until then,   *)
(* and pipelines of different processes write the same two files.          *)
(*                                                                         *)
(* A lead is the set of the ads merged into it and its extracted_status.   *)
(* The order of the ads matters to no value modelled here: the merge takes *)
(* the longer of two strings.                                              *)
(***************************************************************************)
EXTENDS Naturals, FiniteSets

CONSTANTS
    Pipeline,       \* processes that run a pipeline
    Ad,             \* ads on the listing page, with their urls
    MaxRuns         \* bound: runs of the pipelines

ASSUME AdAssumption == MaxRuns \in Nat

VARIABLES
    sameOffer,      \* ads that show the same phone, title and city
    stage,          \* Pipeline -> where its run is
    listed,         \* Pipeline -> the ads the listing crawl found
    todo,           \* Pipeline -> those not yet extracted
    details,        \* Pipeline -> what was extracted
    raised,         \* Pipeline -> ads whose extraction raised
    csv, jsonl,     \* the exported leads, or Unreadable
    exported,       \* the run that last returned from its export (history)
    disturbed,      \* an export was cut short, or overlapped another (history)
    runs            \* runs so far

adVars == <<sameOffer, stage, listed, todo, details, raised, csv, jsonl, exported,
            disturbed, runs>>

\* What a reader finds in a file whose writing was cut short: no lead.
Unreadable == {[ads |-> {}, status |-> "cut short"]}
Status == {"ok", "partial", "ok_with_warnings", "navigation_failed"}

\* What DivarDetailExtractor.extract makes of an ad: its status, and whether a
\* city is among the texts its helpers read off the page; the other texts only
\* tell one offer from another, which sameOffer says.
Detail == [ad : Ad, status : Status, city : BOOLEAN]
Lead == [ads : SUBSET Ad, status : Status]

PipelineTypeOK ==
    /\ sameOffer \subseteq Ad
    /\ stage \in [Pipeline -> {"idle", "details", "csv", "jsonl"}]
    /\ listed \in [Pipeline -> SUBSET Ad]
    /\ \A p \in Pipeline : todo[p] \subseteq listed[p] /\ raised[p] \subseteq listed[p]
    /\ \A p \in Pipeline : details[p] \subseteq Detail
    /\ \A f \in {csv, jsonl} : f = Unreadable \/ f \subseteq Lead
    /\ disturbed \in BOOLEAN
    /\ runs \in 0 .. MaxRuns

PipelineInit ==
    /\ sameOffer \in SUBSET Ad
    /\ stage = [p \in Pipeline |-> "idle"]
    /\ listed = [p \in Pipeline |-> {}]
    /\ todo = [p \in Pipeline |-> {}]
    /\ details = [p \in Pipeline |-> {}]
    /\ raised = [p \in Pipeline |-> {}]
    /\ csv = {}
    /\ jsonl = {}
    /\ exported = [listed |-> {}, raised |-> {}]
    /\ disturbed = FALSE
    /\ runs = 0

-----------------------------------------------------------------------------
(* Deduplication.                                                          *)

\* Mutant: the empty identity of a page that did not open is used as it is.
KeyOfText(d) ==
    IF d.status \in {"ok", "ok_with_warnings"}
    THEN <<"offer", IF d.ad \in sameOffer THEN sameOffer ELSE {d.ad}>>
    ELSE <<"city", {}>>

\* _identity_key: phone, title and city; the url only if all three are empty.
\* An ad without phone and title ("partial") is known by its city alone.
IdentityKey(d) ==
    IF d.status \in {"ok", "ok_with_warnings"}
    THEN <<"offer", IF d.ad \in sameOffer THEN sameOffer ELSE {d.ad}>>
    ELSE IF d.city THEN <<"city", {}>>
    ELSE <<"url", {d.ad}>>

Length(status) ==
    CASE status = "ok" -> 2 [] status = "partial" -> 7
      [] status = "ok_with_warnings" -> 16 [] status = "navigation_failed" -> 17

\* _merge: of two strings the longer one, the status too.
Merged(ds) ==
    [ads |-> {d.ad : d \in ds},
     status |-> CHOOSE s \in {d.status : d \in ds} :
                    \A d \in ds : Length(d.status) <= Length(s)]

\* deduplicate.
UniqueLeads(ds) ==
    {Merged({e \in ds : IdentityKey(e) = IdentityKey(d)}) : d \in ds}

-----------------------------------------------------------------------------

Enter(p, from, to) == stage[p] = from /\ stage' = [stage EXCEPT ![p] = to]
Others(p, at) == \E q \in Pipeline \ {p} : stage[q] \in at

\* crawl: the ads found, at most max_ads of them.
Crawl(p) ==
    /\ Enter(p, "idle", "details")
    /\ runs < MaxRuns
    /\ runs' = runs + 1
    /\ \E found \in SUBSET Ad :
           /\ listed' = [listed EXCEPT ![p] = found]
           /\ todo' = [todo EXCEPT ![p] = found]
    /\ details' = [details EXCEPT ![p] = {}]
    /\ raised' = [raised EXCEPT ![p] = {}]
    /\ UNCHANGED <<sameOffer, csv, jsonl, exported, disturbed>>

\* The page does not open, or the pool has no context: run returns the error,
\* or raises, and exports nothing.
CrawlFails(p) ==
    /\ stage[p] = "idle"
    /\ runs < MaxRuns
    /\ runs' = runs + 1
    /\ UNCHANGED <<sameOffer, stage, listed, todo, details, raised, csv, jsonl, exported, disturbed>>

\* extract answers for an ad, with whatever the page shows; _detail_to_lead.
Extract(p) ==
    /\ stage[p] = "details"
    /\ \E a \in todo[p], status \in Status, city \in BOOLEAN :
           /\ status = "navigation_failed" => ~city
           /\ todo' = [todo EXCEPT ![p] = @ \ {a}]
           /\ details' = [details EXCEPT
                            ![p] = @ \cup {[ad |-> a, status |-> status, city |-> city]}]
    /\ UNCHANGED <<sameOffer, stage, listed, raised, csv, jsonl, exported, disturbed, runs>>

\* No context for the ad, or it does not close: a failed ad, an error.
ExtractRaises(p) ==
    /\ stage[p] = "details"
    /\ \E a \in todo[p] :
           /\ todo' = [todo EXCEPT ![p] = @ \ {a}]
           /\ raised' = [raised EXCEPT ![p] = @ \cup {a}]
    /\ UNCHANGED <<sameOffer, stage, listed, details, csv, jsonl, exported, disturbed, runs>>

\* The loop is over; export opens the CSV file for writing.
OpenCsv(p) ==
    /\ Enter(p, "details", "csv")
    /\ todo[p] = {}
    /\ csv' = Unreadable
    /\ disturbed' = (disturbed \/ Others(p, {"csv", "jsonl"}))
    /\ UNCHANGED <<sameOffer, listed, todo, details, raised, jsonl, exported, runs>>

\* Its rows are in the file, which is closed; the JSONL file is opened.
WriteCsv(p) ==
    /\ Enter(p, "csv", "jsonl")
    /\ csv' = IF Others(p, {"csv"}) THEN Unreadable ELSE UniqueLeads(details[p])
    /\ jsonl' = Unreadable
    /\ UNCHANGED <<sameOffer, listed, todo, details, raised, exported, disturbed, runs>>

\* The run returns its result.  Alone, it leaves both files as it wrote them.
WriteJsonl(p) ==
    /\ Enter(p, "jsonl", "idle")
    /\ jsonl' = IF Others(p, {"jsonl"}) THEN Unreadable ELSE UniqueLeads(details[p])
    /\ exported' = [listed |-> listed[p], raised |-> raised[p]]
    /\ UNCHANGED <<sameOffer, listed, todo, details, raised, csv, disturbed, runs>>

\* export_enabled is off.
ReturnUnexported(p) ==
    /\ Enter(p, "details", "idle")
    /\ todo[p] = {}
    /\ UNCHANGED <<sameOffer, listed, todo, details, raised, csv, jsonl, exported, disturbed, runs>>

\* The process dies, and with it whatever it has extracted.
DiePipeline(p) ==
    /\ stage[p] # "idle"
    /\ stage' = [stage EXCEPT ![p] = "idle"]
    /\ disturbed' = (disturbed \/ stage[p] \in {"csv", "jsonl"})
    /\ UNCHANGED <<sameOffer, listed, todo, details, raised, csv, jsonl, exported, runs>>

PipelineNext ==
    \E p \in Pipeline :
        \/ Crawl(p) \/ CrawlFails(p) \/ Extract(p) \/ ExtractRaises(p)
        \/ OpenCsv(p) \/ WriteCsv(p) \/ WriteJsonl(p) \/ ReturnUnexported(p)
        \/ DiePipeline(p)

PipelineSpec == PipelineInit /\ [][PipelineNext]_adVars

-----------------------------------------------------------------------------
(* Properties.                                                             *)

\* While nobody exports, and unless a death or another pipeline disturbed an
\* export, both files hold the same leads, those of the run that returned
\* last: every ad it listed and could extract is in exactly one of them, and
\* ads are merged only if they show the same offer, or neither phone nor
\* title.
ExportTellsRun ==
    (~disturbed /\ \A p \in Pipeline : stage[p] \notin {"csv", "jsonl"}) =>
        /\ PipelineTypeOK
        /\ csv = jsonl
        /\ UNION {l.ads : l \in csv} = exported.listed \ exported.raised
        /\ \A l, k \in csv : l # k => l.ads \cap k.ads = {}
        /\ \A l \in csv :
            Cardinality(l.ads) > 1 => l.ads \subseteq sameOffer \/ l.status = "partial"
=============================================================================
