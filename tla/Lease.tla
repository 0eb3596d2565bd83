------------------------------- MODULE Lease -------------------------------
(***************************************************************************)
(* What the Lock port promises over Redis (platform/locks/lock.contract.ts *)
(* and redis.lock.ts): one key that nobody takes while it is taken, that   *)
(* only the one who took it prolongs or gives back, and that is free again *)
(* at the latest when its time is over, whatever became of its owner.      *)
(* Those who took it may believe in it for longer than it lasts.           *)
(***************************************************************************)
EXTENDS Naturals

CONSTANTS Clients, None, Ttl

VARIABLES
    owner,          \* who took the key, or None
    left,           \* the time it has left
    believers       \* who took it and has not given it up

leaseVars == <<owner, left, believers>>

Init == owner = None /\ left = 0 /\ believers = {}

Take(c) ==
    /\ owner = None /\ c \notin believers
    /\ owner' = c /\ left' = Ttl /\ believers' = believers \cup {c}

Extend(c) ==
    /\ owner = c /\ c \in believers
    /\ left' = Ttl
    /\ UNCHANGED <<owner, believers>>

\* What is given back late, when somebody else has the key, is not given back.
Return(c) ==
    /\ c \in believers
    /\ believers' = believers \ {c}
    /\ IF owner = c THEN owner' = None /\ left' = 0 ELSE UNCHANGED <<owner, left>>

\* A holder dies or gives up without a word to Redis.
Forget ==
    /\ believers' \subseteq believers
    /\ UNCHANGED <<owner, left>>

Pass ==
    /\ owner # None
    /\ IF left > 0 THEN left' = left - 1 /\ UNCHANGED owner ELSE owner' = None /\ left' = 0
    /\ UNCHANGED believers

Next == (\E c \in Clients : Take(c) \/ Extend(c) \/ Return(c)) \/ Forget \/ Pass

Spec == Init /\ [][Next]_leaseVars
=============================================================================
