--------------------------- MODULE RuntimeProbes ---------------------------
(***************************************************************************)
(* How a runtime tells the outside that it drains: the controller of       *)
(* infra/draining.py, whose marker file the processes of one host share,   *)
(* behind the readiness probe and the metrics of infra/health_api.py.      *)
(* Each process serves probes in threads of their own while its main       *)
(* thread starts or stops draining, so a step is one access to what they   *)
(* share: the process's event, the file, or the dictionary of metrics.     *)
(***************************************************************************)
EXTENDS Naturals, FiniteSets

CONSTANTS
    Runtime,        \* processes with AFRA_DRAIN_FILE in common
    Thread,         \* threads of one runtime that count into its metrics
    Metric,         \* names they count
    MaxCounts       \* bound: increments

ASSUME ProbeAssumption == MaxCounts \in Nat /\ IsFiniteSet(Metric) /\ "none" \notin Metric

VARIABLES
    event,          \* Runtime -> _draining is set
    marker,         \* the drain file exists
    main,           \* Runtime -> where its main thread is
    probe,          \* Runtime -> where its probe of /readyz is
    told,           \* a start of draining has returned, no stop began since (history)
    refuse,         \* Runtime -> told held ever since its probe came (history)
    metrics,        \* Metric -> its value, 0 while it has no entry
    counting,       \* Thread -> the metric it counts and the value it read
    counts,         \* Metric -> increments finished (history)
    crossed,        \* metrics two threads counted at once (history)
    scrape,         \* entries when the scrape of /metrics began, or NoScrape
    raises          \* scrapes that raised (history)

drainVars == <<event, marker, main, probe, told, refuse>>
countVars == <<metrics, counting, counts, crossed, scrape, raises>>
probeVars == <<drainVars, countVars>>

NoScrape == Cardinality(Metric) + 1
NotCounting == [metric |-> "none", read |-> 0]
Entries == Cardinality({m \in Metric : metrics[m] > 0})

ProbeTypeOK ==
    /\ event \in [Runtime -> BOOLEAN] /\ marker \in BOOLEAN
    /\ main \in [Runtime -> {"runs", "starting", "stopping", "unlinking", "raised"}]
    /\ probe \in [Runtime -> {"none", "came", "unset", "ready", "refused"}]
    /\ metrics \in [Metric -> 0 .. MaxCounts]
    /\ scrape \in 0 .. NoScrape

ProbeInit ==
    /\ event = [r \in Runtime |-> FALSE] /\ marker \in BOOLEAN
    /\ main = [r \in Runtime |-> "runs"]
    /\ probe = [r \in Runtime |-> "none"]
    /\ told = FALSE /\ refuse = [r \in Runtime |-> FALSE]
    /\ metrics = [m \in Metric |-> 0] /\ counts = [m \in Metric |-> 0]
    /\ counting = [t \in Thread |-> NotCounting]
    /\ crossed = {} /\ scrape = NoScrape /\ raises = 0

-----------------------------------------------------------------------------
(* GracefulDrainingController.                                             *)

At(r, from, to) == main[r] = from /\ main' = [main EXCEPT ![r] = to]
Stopping == \E r \in Runtime : main[r] \in {"stopping", "unlinking"}

SetEvent(r) ==
    /\ At(r, "runs", "starting")
    /\ event' = [event EXCEPT ![r] = TRUE]
    /\ UNCHANGED <<marker, probe, told, refuse>>

WriteMarker(r) ==
    /\ At(r, "starting", "runs")
    /\ marker' = TRUE
    /\ told' = ~Stopping
    /\ UNCHANGED <<event, probe, refuse>>

ClearEvent(r) ==
    /\ At(r, "runs", "stopping")
    /\ event' = [event EXCEPT ![r] = FALSE]
    /\ told' = FALSE /\ refuse' = [q \in Runtime |-> FALSE]
    /\ UNCHANGED <<marker, probe>>

FindMarker(r) ==
    /\ At(r, "stopping", IF marker THEN "unlinking" ELSE "runs")
    /\ UNCHANGED <<event, marker, probe, told, refuse>>

\* Another runtime may have removed it since: unlink raises.
Unlink(r) ==
    /\ At(r, "unlinking", IF marker THEN "runs" ELSE "raised")
    /\ marker' = FALSE
    /\ UNCHANGED <<event, probe, told, refuse>>

\* The process dies, or is replaced after an error; the file stays.
Restarted(r) ==
    /\ main' = [main EXCEPT ![r] = "runs"]
    /\ event' = [event EXCEPT ![r] = FALSE]
    /\ probe' = [probe EXCEPT ![r] = "none"]
    /\ UNCHANGED <<marker, told, refuse>>

-----------------------------------------------------------------------------
(* /readyz: RuntimeHealthState.is_ready over readiness, is_draining.       *)

ProbeComes(r) ==
    /\ probe[r] \in {"none", "ready", "refused"}
    /\ probe' = [probe EXCEPT ![r] = "came"]
    /\ refuse' = [refuse EXCEPT ![r] = told]
    /\ UNCHANGED <<event, marker, main, told>>

ReadEvent(r) ==
    /\ probe[r] = "came"
    /\ probe' = [probe EXCEPT ![r] = IF event[r] THEN "refused" ELSE "unset"]
    /\ UNCHANGED <<event, marker, main, told, refuse>>

\* Mutant: the event decides alone.
ReadMarkerNever(r) ==
    /\ probe[r] = "unset"
    /\ probe' = [probe EXCEPT ![r] = "ready"]
    /\ UNCHANGED <<event, marker, main, told, refuse>>

ReadMarker(r) ==
    /\ probe[r] = "unset"
    /\ probe' = [probe EXCEPT ![r] = IF marker THEN "refused" ELSE "ready"]
    /\ UNCHANGED <<event, marker, main, told, refuse>>

-----------------------------------------------------------------------------
(* Metrics.                                                                *)

Counting(m) == {t \in Thread : counting[t].metric = m}

\* increment_metric reads the entry, or 0, and writes it back plus one.
ReadMetric(t, m) ==
    /\ counting[t] = NotCounting
    /\ Cardinality(Counting(m)) + counts[m] < MaxCounts
    /\ counting' = [counting EXCEPT ![t] = [metric |-> m, read |-> metrics[m]]]
    /\ crossed' = IF Counting(m) = {} THEN crossed ELSE crossed \cup {m}
    /\ UNCHANGED <<metrics, counts, scrape, raises>>

WriteMetric(t) ==
    /\ counting[t] # NotCounting
    /\ metrics' = [metrics EXCEPT ![counting[t].metric] = counting[t].read + 1]
    /\ counts' = [counts EXCEPT ![counting[t].metric] = @ + 1]
    /\ counting' = [counting EXCEPT ![t] = NotCounting]
    /\ UNCHANGED <<crossed, scrape, raises>>

ScrapeComes ==
    /\ scrape = NoScrape /\ scrape' = Entries
    /\ UNCHANGED <<metrics, counting, counts, crossed, raises>>

\* _prometheus_metrics iterates over the dictionary, which raises when an
\* entry was added since the iteration began.
ScrapeEnds ==
    /\ scrape # NoScrape /\ scrape' = NoScrape
    /\ raises' = IF Entries = scrape THEN raises ELSE raises + 1
    /\ UNCHANGED <<metrics, counting, counts, crossed>>

-----------------------------------------------------------------------------

DrainNext ==
    \E r \in Runtime :
        \/ SetEvent(r) \/ WriteMarker(r) \/ ClearEvent(r) \/ FindMarker(r) \/ Unlink(r)
        \/ Restarted(r) \/ ProbeComes(r) \/ ReadEvent(r) \/ ReadMarker(r)

CountNext ==
    \/ ScrapeComes \/ ScrapeEnds
    \/ \E t \in Thread : WriteMetric(t) \/ \E m \in Metric : ReadMetric(t, m)

ProbeNext == (DrainNext /\ UNCHANGED countVars) \/ (CountNext /\ UNCHANGED drainVars)
ProbeSpec == ProbeInit /\ [][ProbeNext]_probeVars

-----------------------------------------------------------------------------
(* Properties.                                                             *)

\* "stop accepting new jobs ... and expose readiness=false" (draining.py lines
\* 4-6): a probe that comes after a start of draining has returned is refused
\* by every runtime that shares the file, those that restarted since too,
\* until somebody begins to stop draining; a stop that races with a start may
\* take its marker away.  The metrics lose an increment only to one of another
\* thread at the same time, and a scrape only to a metric counted for the
\* first time: no more of them than there are metrics.
ProbesAreHonest ==
    /\ ProbeTypeOK
    /\ told => marker
    /\ \A r \in Runtime : probe[r] = "ready" => ~refuse[r]
    /\ \A m \in Metric \ crossed : metrics[m] = counts[m]
    /\ raises <= Entries

=============================================================================
