----------------------------- MODULE MC_Welcome -----------------------------
(* WelcomeSettings for TLC: operations are alike, and so are messages.       *)
EXTENDS WelcomeSettings, TLC

Alike == Permutations(Ops) \cup Permutations(Messages)
=============================================================================
