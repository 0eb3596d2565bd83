----------------------------- MODULE AtomicWork -----------------------------
(***************************************************************************)
(* What the database port (platform/database/database.contract.ts)         *)
(* promises about the work a caller hands it: the work takes effect as a   *)
(* whole; a transaction or a session's write at most once, a statement     *)
(* through the pool as often as it was sent; and the caller hears of       *)
(* success only when the effect is there.  Of a failure it learns nothing: *)
(* the effect may have come before it, and may still come after it.        *)
(***************************************************************************)
EXTENDS Naturals

CONSTANTS
    Callers,
    Kinds,          \* kinds of work
    MostEffects     \* MostEffects[k]: how often work of kind k may take effect

VARIABLES
    asked,          \* asked[c]: the kind of c's work, or "none" yet
    effect,         \* effect[c]: how often the whole of c's work took effect
    told            \* told[c]: what c was told

abstractVars == <<asked, effect, told>>

Init ==
    /\ asked = [c \in Callers |-> "none"]
    /\ effect = [c \in Callers |-> 0]
    /\ told = [c \in Callers |-> "nothing"]

Ask(c) ==
    /\ asked[c] = "none"
    /\ \E k \in Kinds : asked' = [asked EXCEPT ![c] = k]
    /\ UNCHANGED <<effect, told>>

TakeEffect(c) ==
    /\ asked[c] # "none"
    /\ effect[c] < MostEffects[asked[c]]
    /\ effect' = [effect EXCEPT ![c] = @ + 1]
    /\ UNCHANGED <<asked, told>>

Tell(c) ==
    /\ asked[c] # "none"
    /\ told[c] = "nothing"
    /\ \/ /\ MostEffects[asked[c]] > 0 => effect[c] > 0
          /\ told' = [told EXCEPT ![c] = "done"]
       \/ told' = [told EXCEPT ![c] = "failed"]
    /\ UNCHANGED <<asked, effect>>

Next == \E c \in Callers : Ask(c) \/ TakeEffect(c) \/ Tell(c)

Spec == Init /\ [][Next]_abstractVars
=============================================================================
