---------------------------- MODULE MCTriageStore ----------------------------
(***************************************************************************)
(* Instances of TriageStore for TLC.  Model values stand for PRs,          *)
(* revisions, keys and workers; PRs, keys and workers are symmetric where  *)
(* no property of the run is a liveness property.                          *)
(***************************************************************************)
EXTENDS TriageStore, TLC

\* Every PR open or closed, at every revision.
AllListings == [PRs -> Revs \cup {None}]

\* Every PR stays open and moves between revisions.
OpenListings == [PRs -> Revs]

Symmetric == Permutations(PRs) \cup Permutations(Keys)
                 \cup Permutations(Workers)

==============================================================================
