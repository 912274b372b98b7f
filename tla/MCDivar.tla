------------------------------ MODULE MCDivar ------------------------------
(***************************************************************************)
(* Model-checking instance of what a Divar worker keeps, in memory, files  *)
(* and Redis.  The parts share no state, so a behaviour follows one of     *)
(* them, its focus, and the run explores the sum of their states rather    *)
(* than the product.                                                       *)
(***************************************************************************)
EXTENDS TokenBucket, SessionProfiles, AdPipeline, AdRuns, TrafficGuard, WalStore, TLC

CONSTANTS p1, x1, x2, y1, y2

VARIABLE focus

divarVars == <<bucketVars, profileVars, adVars, runVars, guardVars, walVars, focus>>

MCHome == [c \in Caller |-> p1]
Symmetry == Permutations({x1, x2}) \cup Permutations({y1, y2})

DivarInit ==
    /\ focus \in {"limiter", "profiles", "pipeline", "storage", "proxies", "throttler", "wal"}
    /\ BucketInit /\ (focus # "limiter" => withFallback = {})
    /\ ProfileInit
    /\ PipelineInit /\ (focus # "pipeline" => sameOffer = {})
    /\ RunInit
    /\ GuardInit
    /\ WalInit

DivarNext ==
    /\ UNCHANGED focus
    /\ \/ /\ focus = "limiter" /\ BucketNext
          /\ UNCHANGED <<profileVars, adVars, runVars, guardVars, walVars>>
       \/ /\ focus = "profiles" /\ ProfileNext
          /\ UNCHANGED <<bucketVars, adVars, runVars, guardVars, walVars>>
       \/ /\ focus = "pipeline" /\ PipelineNext
          /\ UNCHANGED <<bucketVars, profileVars, runVars, guardVars, walVars>>
       \/ /\ focus = "storage" /\ RunNext
          /\ UNCHANGED <<bucketVars, profileVars, adVars, guardVars, walVars>>
       \/ /\ focus = "proxies" /\ ProxyNext
          /\ UNCHANGED <<bucketVars, profileVars, adVars, runVars, signals, walVars>>
       \/ /\ focus = "throttler" /\ ThrottleNext
          /\ UNCHANGED <<bucketVars, profileVars, adVars, runVars, proxyVars, walVars>>
       \/ /\ focus = "wal" /\ WalNext
          /\ UNCHANGED <<bucketVars, profileVars, adVars, runVars, guardVars>>

DivarSpec == DivarInit /\ [][DivarNext]_divarVars

=============================================================================
