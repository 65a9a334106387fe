---------------------------- MODULE MCSnapshotSync ----------------------------
(***************************************************************************)
(* Instances of SnapshotSync for TLC: the older pull request, 1, is pushed *)
(* to twice, and its second head is listed without a SHA pair; the newer   *)
(* one, 2, keeps its head and is opened and closed.                        *)
(***************************************************************************)
EXTENDS SnapshotSync

Pushes == <<3, 1>>

Hidden == {<<1, 2>>}

==============================================================================
