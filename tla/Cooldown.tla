------------------------------ MODULE Cooldown ------------------------------
(***************************************************************************)
(* platform/ratelimit/memory.cooldown.ts, for one key: a fixed window that *)
(* opens with the first attempt and counts every attempt, refused or not.  *)
(***************************************************************************)
EXTENDS Integers

CONSTANTS None, Limit, WindowMs

ASSUME CooldownAssumption == {Limit, WindowMs} \subseteq Nat \ {0}

NoWindow == None

Open(w, now) == w # None /\ w.expiresAt > now

\* Mutant of AfterHit: only the attempt that opens the window is counted.
AfterHitUncounted(w, now) ==
    IF Open(w, now) THEN w ELSE [count |-> 1, expiresAt |-> now + WindowMs]

AfterHit(w, now) ==
    IF Open(w, now) THEN [w EXCEPT !.count = @ + 1]
    ELSE [count |-> 1, expiresAt |-> now + WindowMs]

\* The verdict on an attempt, from the window it leaves behind; the attempt
\* that opens a window is allowed whatever the limit.
AllowsHit(w, now) == ~ Open(w, now) \/ AfterHit(w, now).count <= Limit

SweepWindow(w, now) == IF Open(w, now) THEN w ELSE NoWindow
=============================================================================
