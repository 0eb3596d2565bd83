---------------------------- MODULE GuildBudget ----------------------------
(***************************************************************************)
(* discord/gateway/guild-budget.ts: a rolling count of calls.  A window is *)
(* the sequence of the times recorded in it, oldest first.                 *)
(*                                                                         *)
(* The class trims a window whenever it reads it and again in its sweep;   *)
(* nothing but the count of the trimmed window is ever read, so a window   *)
(* is kept trimmed by every record and the sweep is the trim of them all.  *)
(***************************************************************************)
EXTENDS Integers, Sequences

\* How many times `trim` splices off: those before the first one after the
\* cutoff, the cutoff itself included.
Outside(times, cutoff) ==
    CHOOSE n \in 0..Len(times) :
        /\ \A i \in 1..n : times[i] <= cutoff
        /\ n < Len(times) => times[n + 1] > cutoff

Trim(times, windowMs, now) ==
    SubSeq(times, Outside(times, now - windowMs) + 1, Len(times))

Usage(times, windowMs, now) == Len(Trim(times, windowMs, now))

\* How many more calls fit; negative once critical work has gone over.
Capacity(times, windowMs, maxActions, now) == maxActions - Usage(times, windowMs, now)

\* n calls recorded at one moment.
Record(times, windowMs, now, n) ==
    Trim(times, windowMs, now) \o [i \in 1..n |-> now]
=============================================================================
