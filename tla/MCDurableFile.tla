---------------------------- MODULE MCDurableFile ----------------------------
(***************************************************************************)
(* Instances of DurableFile for TLC.                                       *)
(***************************************************************************)
EXTENDS DurableFile, TLC

Symmetric == Permutations(Procs)

==============================================================================
