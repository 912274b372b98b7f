---------------------------- MODULE TokenBucket ----------------------------
(***************************************************************************)
(* The distributed rate limiter of divar_bot                               *)
(* (infra/distributed_rate_limiter.py): a token bucket in Redis, shared by *)
(* the fleet, and one in the memory of every process for the calls that    *)
(* Redis does not answer.  Both do the same arithmetic, the Lua script and *)
(* LocalTokenBucket.acquire; they differ in the clock they are given and   *)
(* in that the Redis key expires.                                          *)
(*                                                                         *)
(* The unit of time is the one in which Rate tokens are refilled, so that  *)
(* the arithmetic stays in the integers (by default 0.5 tokens a second).  *)
(* A caller is a thread of a process; the bucket serves one call at a time *)
(* (Redis, and the lock of the local bucket), but the clock was read       *)
(* before: time.time() by the client, monotonic() ahead of the lock.       *)
(***************************************************************************)
EXTENDS Integers

CONSTANTS
    Process,        \* processes of the fleet
    Caller,         \* threads that call acquire
    Home,           \* Caller -> its process
    Redis,          \* the name of the shared bucket
    Requests,       \* the numbers of tokens that are asked for
    Capacity,       \* policy.capacity
    Rate,           \* policy.refill_per_second
    Ttl,            \* the expiry of the Redis key
    MaxSkew,        \* how far ahead of time a client's clock may be
    MaxDelay,       \* how long a request may be on its way to Redis
    MaxTime,        \* bound: the end of time
    MaxRewound,     \* bound: total by which a bucket's clock is set back
    MaxRestarts     \* bound: restarts of a process

\* Ttl is twice the time a bucket takes to fill, if Rate is 0.01 a second or
\* more (line 188); clocks and the network stay within half of that.
ASSUME BucketAssumption ==
    /\ Home \in [Caller -> Process]
    /\ Redis \notin Process
    /\ Capacity \in Nat \ {0}
    /\ Rate \in Nat
    /\ Ttl \in Nat
    /\ MaxSkew \in Nat
    /\ MaxDelay \in Nat
    /\ MaxSkew + MaxDelay <= Ttl
    /\ (Ttl - MaxSkew - MaxDelay) * Rate >= Capacity
    /\ Requests \subseteq 1 .. Capacity
    /\ MaxTime \in Nat
    /\ MaxRewound \in Nat
    /\ MaxRestarts \in Nat

Bucket == {Redis} \cup Process

VARIABLES
    withFallback,   \* processes with local_fallback_enabled
    time,           \* true time
    bucket,         \* Bucket -> tokens and the time they were counted
    expires,        \* when Redis drops the key
    call,           \* Caller -> the request it is in
    issued,         \* Bucket -> tokens it handed out (history)
    rewound,        \* Bucket -> by how much its clock was set back (history)
    restarts        \* Bucket -> how often its process was restarted (history)

bucketVars == <<withFallback, time, bucket, expires, call, issued, rewound, restarts>>

\* A bucket that does not exist, a caller that has no request.
NoBucket == [tokens |-> 0, at |-> -1]
NoCall == [at |-> "idle", tokens |-> 0, now |-> 0]

BucketTypeOK ==
    /\ withFallback \subseteq Process
    /\ time \in 0 .. MaxTime
    /\ bucket \in [Bucket -> [tokens : 0 .. Capacity, at : Nat] \cup {NoBucket}]
    /\ expires \in Nat
    /\ call \in [Caller -> [at : {"redis", "fallback", "lock"}, tokens : Requests, now : Nat]
                            \cup {NoCall}]
    /\ issued \in [Bucket -> Nat]
    /\ rewound \in [Bucket -> Nat]
    /\ restarts \in [Bucket -> Nat]

BucketInit ==
    /\ withFallback \in SUBSET Process
    /\ time = 0
    /\ bucket = [b \in Bucket |-> NoBucket]
    /\ expires = 0
    /\ call = [c \in Caller |-> NoCall]
    /\ issued = [b \in Bucket |-> 0]
    /\ rewound = [b \in Bucket |-> 0]
    /\ restarts = [b \in Bucket |-> 0]

-----------------------------------------------------------------------------

Smaller(a, b) == IF a <= b THEN a ELSE b

\* The tokens of a bucket at the time a request names: full if the bucket is
\* new, and never fewer because the time is an earlier one.
Level(b, now) ==
    IF bucket[b] = NoBucket THEN Capacity
    ELSE IF now <= bucket[b].at THEN bucket[b].tokens
    ELSE Smaller(Capacity, bucket[b].tokens + Rate * (now - bucket[b].at))

SetBack(b, now) ==
    IF bucket[b] # NoBucket /\ now < bucket[b].at THEN bucket[b].at - now ELSE 0

\* Mutant: a refused request takes what there is.
RemainingCharged(level, tokens) == IF tokens <= level THEN level - tokens ELSE 0

\* What the bucket keeps.
Remaining(level, tokens) == IF tokens <= level THEN level - tokens ELSE level

\* When the bucket's count is from: now, on both paths.
CountedAt(b, now, admitted) == now

\* One request is served by a bucket: the Lua script, and the body of
\* LocalTokenBucket.acquire.
Serve(c, b) ==
    LET now == call[c].now
        tokens == call[c].tokens
        level == Level(b, now)
        admitted == tokens <= level
    IN  /\ rewound[b] + SetBack(b, now) <= MaxRewound
        /\ bucket' = [bucket EXCEPT ![b] = [tokens |-> Remaining(level, tokens),
                                            at |-> CountedAt(b, now, admitted)]]
        /\ issued' = [issued EXCEPT ![b] = @ + (IF admitted THEN tokens ELSE 0)]
        /\ rewound' = [rewound EXCEPT ![b] = @ + SetBack(b, now)]

Waits(c, at) == call' = [call EXCEPT ![c].at = at]
Answered(c) == call' = [call EXCEPT ![c] = NoCall]

-----------------------------------------------------------------------------

\* acquire: the client reads time.time() and sends the script.
Call(c) ==
    /\ call[c] = NoCall
    /\ \E n \in Requests, skew \in 0 .. MaxSkew :
           call' = [call EXCEPT ![c] = [at |-> "redis", tokens |-> n, now |-> time + skew]]
    /\ UNCHANGED <<withFallback, time, bucket, expires, issued, rewound, restarts>>

\* Redis runs the script and the answer arrives, or is lost.
EvalScript(c) ==
    /\ call[c].at = "redis"
    /\ Serve(c, Redis)
    /\ expires' = time + Ttl
    /\ Answered(c) \/ Waits(c, "fallback")
    /\ UNCHANGED <<withFallback, time, restarts>>

\* No connection, or no package: the script is not run.
RedisFails(c) ==
    /\ call[c].at = "redis"
    /\ Waits(c, "fallback")
    /\ UNCHANGED <<withFallback, time, bucket, expires, issued, rewound, restarts>>

\* The exception goes to the caller.
Raise(c) ==
    /\ call[c].at = "fallback"
    /\ Home[c] \notin withFallback
    /\ Answered(c)
    /\ UNCHANGED <<withFallback, time, bucket, expires, issued, rewound, restarts>>

\* LocalTokenBucket.acquire reads the clock, and then waits for the lock.
ReadClock(c) ==
    /\ call[c].at = "fallback"
    /\ Home[c] \in withFallback
    /\ call' = [call EXCEPT ![c].at = "lock", ![c].now = time]
    /\ UNCHANGED <<withFallback, time, bucket, expires, issued, rewound, restarts>>

LocalAcquire(c) ==
    /\ call[c].at = "lock"
    /\ Serve(c, Home[c])
    /\ Answered(c)
    /\ UNCHANGED <<withFallback, time, expires, restarts>>

\* A process starts anew, with an empty LocalTokenBucket.
Restart(p) ==
    /\ bucket[p] # NoBucket
    /\ restarts[p] < MaxRestarts
    /\ bucket' = [bucket EXCEPT ![p] = NoBucket]
    /\ call' = [c \in Caller |-> IF Home[c] = p THEN NoCall ELSE call[c]]
    /\ restarts' = [restarts EXCEPT ![p] = @ + 1]
    /\ UNCHANGED <<withFallback, time, expires, issued, rewound>>

\* Time passes, and Redis drops the key when its time has come.
Tick ==
    /\ time < MaxTime
    /\ \A c \in Caller : call[c].at = "redis" => time < call[c].now + MaxDelay
    /\ time' = time + 1
    /\ bucket' = IF time + 1 >= expires THEN [bucket EXCEPT ![Redis] = NoBucket] ELSE bucket
    /\ UNCHANGED <<withFallback, expires, call, issued, rewound, restarts>>

BucketNext ==
    \/ Tick
    \/ \E p \in Process : Restart(p)
    \/ \E c \in Caller :
        \/ Call(c) \/ EvalScript(c) \/ RedisFails(c)
        \/ Raise(c) \/ ReadClock(c) \/ LocalAcquire(c)

BucketSpec == BucketInit /\ [][BucketNext]_bucketVars

-----------------------------------------------------------------------------
(* Properties.                                                             *)

\* No bucket hands out more than its capacity, once more for each restart of
\* its process, and what the time refills: the reordering of calls that read
\* the clock early costs at most the time by which they set it back, an
\* expired key costs nothing, and refused calls earn nothing.
LimitsHold ==
    /\ BucketTypeOK
    /\ \A b \in Bucket :
        issued[b] <= Capacity * (1 + restarts[b]) + Rate * (time + MaxSkew + rewound[b])

\* Whoever was told to wait is not put off by the calls that are refused
\* meanwhile, nor by an expired key or a restart: only an admission, or a
\* clock that is set back, leaves fewer tokens for a later time.
OnlyAdmissionsDelay ==
    [][\A b \in Bucket :
         issued'[b] = issued[b] /\ rewound'[b] = rewound[b]
             => \A t \in time' .. MaxTime + MaxSkew : Level(b, t)' >= Level(b, t)]_bucketVars

\* The limiter keeps its promise both ways, whichever store answers a call:
\* never more than the rate allows, and no wait but for someone's admission.
LimiterIsFair == []LimitsHold /\ OnlyAdmissionsDelay
=============================================================================
