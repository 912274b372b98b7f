---------------------------- MODULE TrafficGuard ----------------------------
(***************************************************************************)
(* What keeps a Divar crawler from being banned: the rotation of proxies   *)
(* by their health (divar/proxy_rotation.py) and the throttler that weighs *)
(* captchas, restriction pages and failures (divar/anti_ban_throttling.py).*)
(* Both live in the memory of one process and are called by its workers;   *)
(* the repository has no caller, so who calls is external: a worker takes  *)
(* a proxy, and reports on it once, when its page has ended.               *)
(*                                                                         *)
(* Health counts twentieths and risk hundredths.                           *)
(***************************************************************************)
EXTENDS Integers, FiniteSets

CONSTANTS
    Fetcher,        \* workers of the process
    Proxy,          \* proxies of DIVAR_PROXY_LIST
    NoProxy,
    CooldownLength, \* cooldown_seconds of a failure
    MaxClock,       \* bound: the time
    MaxSignals      \* bound: signals of each kind

Signal == {"captcha", "restriction", "failure", "success", "proxy", "session"}

ASSUME GuardAssumption ==
    /\ NoProxy \notin Proxy
    /\ CooldownLength \in Nat /\ MaxClock \in Nat /\ MaxSignals \in Nat

VARIABLES
    clock,          \* time.time()
    health,         \* Proxy -> health_score
    until,          \* Proxy -> cooldown_until
    holds,          \* Fetcher -> the proxy it uses, or NoProxy
    strikes,        \* Proxy -> failures reported since the last success (history)
    rested,         \* Fetcher -> its proxy was rested and in health when taken (history)
    signals         \* Signal -> how many were recorded

proxyVars == <<clock, health, until, holds, strikes, rested>>
guardVars == <<proxyVars, signals>>

GuardTypeOK ==
    /\ health \in [Proxy -> 0 .. 20]
    /\ until \in [Proxy -> 0 .. MaxClock + CooldownLength]
    /\ holds \in [Fetcher -> Proxy \cup {NoProxy}]
    /\ signals \in [Signal -> 0 .. MaxSignals]

GuardInit ==
    /\ clock = 0
    /\ health = [p \in Proxy |-> 20]
    /\ until = [p \in Proxy |-> 0]
    /\ holds = [f \in Fetcher |-> NoProxy]
    /\ strikes = [p \in Proxy |-> 0]
    /\ rested = [f \in Fetcher |-> TRUE]
    /\ signals = [s \in Signal |-> 0]

-----------------------------------------------------------------------------
(* Proxies.                                                                *)

Least(a, b) == IF a < b THEN a ELSE b
Most(a, b) == IF a > b THEN a ELSE b

\* Mutant: the cooldown is over, and that is enough.
CooledDown(p) == clock >= until[p]

\* ProxyEndpoint.available.
IsUsable(p) == clock >= until[p] /\ health[p] > 3

\* allocate: the weights are positive, so any usable proxy may be drawn.
TakeProxy(f) ==
    /\ holds[f] = NoProxy
    /\ \E p \in Proxy :
           /\ IsUsable(p)
           /\ holds' = [holds EXCEPT ![f] = p]
           /\ rested' = [rested EXCEPT ![f] = strikes[p] < 5 /\ clock >= until[p]]
    /\ UNCHANGED <<clock, health, until, strikes>>

\* The page came; other holders of the proxy may have failed since.
ProxySucceeds(f) ==
    /\ holds[f] # NoProxy
    /\ health' = [health EXCEPT ![holds[f]] = Least(20, @ + 1)]
    /\ strikes' = [strikes EXCEPT ![holds[f]] = 0]
    /\ holds' = [holds EXCEPT ![f] = NoProxy]
    /\ UNCHANGED <<clock, until, rested>>

ProxyFails(f) ==
    /\ holds[f] # NoProxy
    /\ health' = [health EXCEPT ![holds[f]] = Most(0, @ - 4)]
    /\ until' = [until EXCEPT ![holds[f]] = clock + CooldownLength]
    /\ strikes' = [strikes EXCEPT ![holds[f]] = Least(5, @ + 1)]
    /\ holds' = [holds EXCEPT ![f] = NoProxy]
    /\ UNCHANGED <<clock, rested>>

Pass == clock < MaxClock /\ clock' = clock + 1 /\ UNCHANGED <<health, until, holds, strikes, rested>>

-----------------------------------------------------------------------------
(* The throttler.                                                          *)

Capped(count, weight, cap) == Least(cap, count * weight)
Attempts(s) == Most(1, s["success"] + s["failure"])

\* The failure rate's part of the risk, times the attempts, to stay in integers.
RiskOf(s) == Least(30 * Attempts(s), 50 * s["failure"])

\* The part that nothing lowers: no signal is ever forgotten.
Lasting(s) ==
    Capped(s["captcha"], 15, 40) + Capped(s["restriction"], 12, 30)
        + Capped(s["proxy"], 5, 20) + Capped(s["session"], 5, 20)

RiskAtLeast(s, level) == Lasting(s) * Attempts(s) + RiskOf(s) >= level * Attempts(s)

\* decide.
Decision(s) ==
    IF RiskAtLeast(s, 85) THEN "pause_runtime"
    ELSE IF RiskAtLeast(s, 60) THEN "slow_down"
    ELSE IF RiskAtLeast(s, 35) THEN "reduce_parallelism"
    ELSE "continue"

RecordSignal(s) ==
    /\ signals[s] < MaxSignals
    /\ signals' = [signals EXCEPT ![s] = @ + 1]

ProxyNext ==
    Pass \/ \E f \in Fetcher : TakeProxy(f) \/ ProxySucceeds(f) \/ ProxyFails(f)

ThrottleNext == \E s \in Signal : RecordSignal(s)

GuardNext == (ProxyNext /\ UNCHANGED signals) \/ (ThrottleNext /\ UNCHANGED proxyVars)
GuardSpec == GuardInit /\ [][GuardNext]_guardVars

-----------------------------------------------------------------------------
(* Properties.                                                             *)

Severity == [d \in {"continue", "reduce_parallelism", "slow_down", "pause_runtime"} |->
    CASE d = "continue" -> 0 [] d = "reduce_parallelism" -> 1 [] d = "slow_down" -> 2 [] OTHER -> 3]

\* However the reports of several holders of a proxy interleave, nobody is
\* given one that failed five times since it last succeeded, or within the
\* cooldown of its last failure.  And the throttler becomes milder only by a
\* success, and then by what the rate of failures weighs: what captchas,
\* restriction pages and lost proxies and sessions weigh is never taken back,
\* so a runtime they have paused stays paused.
TrafficIsGuarded ==
    /\ [](GuardTypeOK /\ \A f \in Fetcher : holds[f] # NoProxy => rested[f])
    /\ [][/\ Severity[Decision(signals)'] < Severity[Decision(signals)] =>
                 signals'["success"] > signals["success"]
          /\ Lasting(signals) >= 85 => Decision(signals)' = "pause_runtime"]_guardVars

=============================================================================
