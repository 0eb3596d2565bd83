--------------------------- MODULE CircuitBreaker ---------------------------
(***************************************************************************)
(* discord/gateway/circuit-breaker.ts: circuits keyed by guild and         *)
(* feature.  The breaker's map is a function from keys to circuits, None   *)
(* where the map has no entry; each method is an operator from one such    *)
(* function to the next.                                                   *)
(***************************************************************************)
EXTENDS Integers

CONSTANTS
    CircuitKeys,
    None,
    FailureThreshold,   \* CircuitSettings.failureThreshold
    CircuitWindowMs,    \* CircuitSettings.windowMs
    CooldownMs          \* CircuitSettings.cooldownMs

ASSUME CircuitAssumption ==
    FailureThreshold \in Nat \ {0} /\ CircuitWindowMs \in Nat /\ CooldownMs \in Nat \ {0}

NoCircuits == [k \in CircuitKeys |-> None]

IsOpen(cs, k) == cs[k] # None /\ cs[k].openedAt # None

CooledDown(cs, k, now) == now - cs[k].openedAt >= CooldownMs

Allows(cs, k, now) ==
    IsOpen(cs, k) => CooledDown(cs, k, now) /\ ~ cs[k].probing

\* `allows` takes the probe slot of an open circuit it lets a call through.
AfterAllows(cs, k, now) ==
    IF IsOpen(cs, k) /\ Allows(cs, k, now)
    THEN [cs EXCEPT ![k].probing = TRUE] ELSE cs

ReleaseProbe(cs, k) ==
    IF cs[k] = None THEN cs ELSE [cs EXCEPT ![k].probing = FALSE]

RecordSuccess(cs, k) == [cs EXCEPT ![k] = None]

FirstTouch(now) ==
    [failures |-> 0, windowStartedAt |-> now, openedAt |-> None]

\* A failure of an open circuit restarts its cooldown; one of a closed
\* circuit is counted, in a fresh window when the last one is over.
RecordFailure(cs, k, now) ==
    LET old     == IF cs[k] = None THEN FirstTouch(now) ELSE cs[k]
        expired == now - old.windowStartedAt > CircuitWindowMs
        counted == IF expired THEN 1 ELSE old.failures + 1
        trips   == counted >= FailureThreshold
    IN  [cs EXCEPT ![k] =
            IF old.openedAt # None
            THEN [failures |-> old.failures, windowStartedAt |-> old.windowStartedAt,
                  openedAt |-> now, probing |-> FALSE, lastTouchedAt |-> now]
            ELSE [failures |-> counted,
                  windowStartedAt |-> IF expired THEN now ELSE old.windowStartedAt,
                  openedAt |-> IF trips THEN now ELSE None,
                  probing |-> FALSE, lastTouchedAt |-> now]]

Longest == IF CooldownMs > CircuitWindowMs THEN CooldownMs ELSE CircuitWindowMs

SweepCircuits(cs, now) ==
    [k \in CircuitKeys |->
        IF cs[k] # None /\ cs[k].lastTouchedAt < now - 2 * Longest THEN None ELSE cs[k]]
=============================================================================
