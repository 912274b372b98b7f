---------------------------- MODULE JobDelivery ----------------------------
(***************************************************************************)
(* What the durable job runtime promises of a job, without topics, offsets,*)
(* workers or a log (the processing contract at the head of                *)
(* durable_job_runtime.py): a submitted job is worked on until its handler *)
(* has completed or it has been buried in the dead-letter topic.           *)
(***************************************************************************)
CONSTANT Job

VARIABLES submitted, finished, buried

vars == <<submitted, finished, buried>>

Init == submitted = {} /\ finished = {} /\ buried = {}

Submit(j) ==
    /\ j \notin submitted
    /\ submitted' = submitted \cup {j}
    /\ UNCHANGED <<finished, buried>>

Finish(j) ==
    /\ j \in submitted \ finished
    /\ finished' = finished \cup {j}
    /\ UNCHANGED <<submitted, buried>>

Bury(j) ==
    /\ j \in submitted \ buried
    /\ buried' = buried \cup {j}
    /\ UNCHANGED <<submitted, finished>>

Next == \E j \in Job : Submit(j) \/ Finish(j) \/ Bury(j)

Spec == Init /\ [][Next]_vars
=============================================================================
