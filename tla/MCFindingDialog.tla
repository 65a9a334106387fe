--------------------------- MODULE MCFindingDialog ---------------------------
(***************************************************************************)
(* Instances of FindingDialog for TLC, over the manifests of MCFileReview. *)
(***************************************************************************)
EXTENDS FindingDialog, MCFileReview

==============================================================================
