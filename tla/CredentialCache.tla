-------------------------- MODULE CredentialCache --------------------------
(***************************************************************************)
(* Credentials of one identity: RuntimeCredentialResolver.resolve of       *)
(* app/infra/credentials/resolver.py over EncryptedCredentialCache of      *)
(* encrypted_cache.py, as coroutines of one event loop.  A step is what    *)
(* runs between two waits: the cache's methods await nothing, so a lookup  *)
(* or a store is atomic, while a call of the provider or a sleep lets the  *)
(* other resolutions run.  The provider rotates the credential; a          *)
(* credential is known by its version.  Encryption is left out: what is    *)
(* stored is what is read.                                                 *)
(***************************************************************************)
EXTENDS Naturals

CONSTANTS
    Resolution,     \* calls of resolve
    MaxRetry,       \* AFRA_SECRET_MAX_RETRY
    Timeout,        \* AFRA_SECRET_RESOLUTION_TIMEOUT_SECONDS
    CacheTtl,       \* AFRA_SECRET_CACHE_TTL_SECONDS
    Degraded,       \* AFRA_SECRET_DEGRADED_MODE_ENABLED
    MaxVersion,     \* bound: versions of the credential
    MaxSeconds      \* bound: the time

ASSUME CredentialAssumption ==
    /\ {MaxRetry, Timeout, CacheTtl, MaxSeconds} \subseteq Nat /\ MaxVersion \in Nat \ {0}
    /\ Degraded \in BOOLEAN

VARIABLES
    second,         \* time.time()
    replaced,       \* version -> when the provider replaced it; the last is current
    current,        \* the provider's version
    entry,          \* _store[identity]: version and expires_at, version 0 for none
    call            \* Resolution -> where it is, when it began, its attempts, what its
                    \* wait ends by, and its answer

credentialVars == <<second, replaced, current, entry, call>>

Point == {"idle", "asked", "answered", "sleeping", "cached", "resolved", "degraded", "raised"}
NoEntry == [version |-> 0, expires |-> 0]
Idling == [at |-> "idle", since |-> 0, attempts |-> 0, until |-> 0, version |-> 0]

CredentialTypeOK ==
    /\ current \in 1 .. MaxVersion /\ replaced \in [1 .. MaxVersion -> 0 .. MaxSeconds]
    /\ entry.version \in 0 .. current
    /\ \A r \in Resolution : call[r].at \in Point /\ call[r].attempts \in 0 .. MaxRetry

CredentialInit ==
    /\ second = 0 /\ current = 1
    /\ replaced = [v \in 1 .. MaxVersion |-> 0]
    /\ entry = NoEntry
    /\ call = [r \in Resolution |-> Idling]

-----------------------------------------------------------------------------

\* The sleep after an attempt: min(2 ** attempts, 10).
Pause(attempts) == IF attempts < 4 THEN <<2, 4, 8>>[attempts] ELSE 10

Proceeds(r, to, v) == call' = [call EXCEPT ![r].at = to, ![r].version = v]

\* Mutant: an expired entry is a miss, but stays.
LookupKeeps == entry

\* EncryptedCredentialCache.get: an entry past its time is removed.
Lookup == IF entry.expires < second THEN NoEntry ELSE entry

Ask(r, attempt) ==
    call' = [call EXCEPT ![r].at = "asked", ![r].attempts = attempt, ![r].until = second + Timeout]

\* The first attempt follows the lookup.
Begin(r) ==
    call' = [call EXCEPT ![r] = [at |-> "asked", since |-> second, attempts |-> 1,
                                 until |-> second + Timeout, version |-> 0]]

\* What follows the last attempt: get_stale, which asks for no expiry.
GiveUp(r) ==
    IF Degraded /\ entry'.version # 0 THEN Proceeds(r, "degraded", entry'.version)
    ELSE Proceeds(r, "raised", 0)

Resolve(r) ==
    /\ call[r].at = "idle"
    /\ entry' = Lookup
    /\ \/ entry.version # 0 /\ entry.expires >= second
          /\ Proceeds(r, "cached", entry.version)
       \/ /\ entry.version = 0 \/ entry.expires < second
          /\ IF MaxRetry > 0 THEN Begin(r) ELSE GiveUp(r)
    /\ UNCHANGED <<second, replaced, current>>

\* The provider reads the credential; its answer is on the way.
Answers(r) ==
    /\ call[r].at = "asked"
    /\ Proceeds(r, "answered", current)
    /\ UNCHANGED <<second, replaced, current, entry>>

Stores(r) ==
    /\ call[r].at = "answered"
    /\ entry' = [version |-> call[r].version, expires |-> second + CacheTtl]
    /\ Proceeds(r, "resolved", call[r].version)
    /\ UNCHANGED <<second, replaced, current>>

\* The provider raises, or wait_for times out, an answer on its way or not.
Fails(r) ==
    /\ call[r].at \in {"asked", "answered"}
    /\ call' = [call EXCEPT ![r].at = "sleeping",
                            ![r].until = second + Pause(call[r].attempts)]
    /\ UNCHANGED <<second, replaced, current, entry>>

\* asyncio.sleep is over: it also follows the last attempt.
Retries(r) ==
    /\ call[r].at = "sleeping" /\ second = call[r].until
    /\ UNCHANGED <<second, replaced, current, entry>>
    /\ IF call[r].attempts < MaxRetry THEN Ask(r, call[r].attempts + 1) ELSE GiveUp(r)

\* The caller has used what it got and will ask again.
Returns(r) ==
    /\ call[r].at \in {"cached", "resolved", "degraded", "raised"}
    /\ call' = [call EXCEPT ![r] = Idling]
    /\ UNCHANGED <<second, replaced, current, entry>>

Rotate ==
    /\ current < MaxVersion
    /\ current' = current + 1
    /\ replaced' = [replaced EXCEPT ![current] = second]
    /\ UNCHANGED <<second, entry, call>>

Resolving(r) == call[r].at \in {"asked", "answered", "sleeping"}

\* The event loop is on time: no wait outlives its deadline, no sleep its end.
Elapse ==
    /\ second < MaxSeconds
    /\ \A r \in Resolution : Resolving(r) => second < call[r].until
    /\ \A r \in Resolution : call[r].at \notin {"cached", "resolved", "degraded"}
    /\ second' = second + 1
    /\ UNCHANGED <<replaced, current, entry, call>>

CredentialNext ==
    \/ Rotate \/ Elapse
    \/ \E r \in Resolution :
           Resolve(r) \/ Answers(r) \/ Stores(r) \/ Fails(r) \/ Retries(r) \/ Returns(r)

CredentialSpec == CredentialInit /\ [][CredentialNext]_credentialVars

-----------------------------------------------------------------------------
(* Properties.                                                             *)

\* For how long the provider has had a newer version.
Age(v) == IF v = current THEN 0 ELSE second - replaced[v]

\* The longest that n attempts and the sleeps after them last.
Longest(n) == n * Timeout + (IF n < 4 THEN <<0, 2, 6, 14>>[n + 1] ELSE 10 * n - 16)

\* What a caller gets is never older than the configuration allows, whichever
\* resolutions overlap.  A slow answer may overwrite a newer credential, so a
\* cached one may have been replaced for the ttl and a timeout, no longer.  And
\* a degraded one for the longest resolution and a timeout: the lookup that
\* starts every resolution removes what has expired, so what get_stale finds
\* was stored by another resolution since.  The degraded mode is no reserve
\* for an outage that lasts.
CredentialsAreFresh ==
    /\ CredentialTypeOK
    /\ \A r \in Resolution :
        LET c == call[r] IN
        /\ c.at = "resolved" => Age(c.version) <= Timeout
        /\ c.at = "cached" => Age(c.version) <= CacheTtl + Timeout
        /\ c.at = "degraded" => Age(c.version) <= Longest(MaxRetry) + Timeout

=============================================================================
