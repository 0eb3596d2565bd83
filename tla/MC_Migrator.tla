---------------------------- MODULE MC_Migrator -----------------------------
(* Two builds: a release, and one in which its second file was edited or   *)
(* another branch took its id.  The instance that starts twice is of       *)
(* either, each time; the other, which starts once, and the command line,  *)
(* which reverts once, are of the release.                                 *)
EXTENDS Migrator, TLC

CONSTANTS i1, i2, cli

MCBuilds == {<<"a", "b">>, <<"a", "c">>}
MCDeploys == i1 :> MCBuilds @@ i2 :> {<<"a", "b">>} @@ cli :> {<<"a", "b">>}
MCBoots == i1 :> 2 @@ i2 :> 1 @@ cli :> 1
=============================================================================
