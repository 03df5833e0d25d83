--------------------------- MODULE MC_PtySession ---------------------------
(***************************************************************************)
(* PtySession on small instances.                                          *)
(***************************************************************************)
EXTENDS PtySession, TLC

\* The attaches of a run are alike; sound for safety properties only.
Perms == Permutations(Attach)

\* Where clients ask to resume from: nowhere, or after a byte they have had.
AskedAll   == {Unset}
AskedSmall == {Unset, 1}
=============================================================================
