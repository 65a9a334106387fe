---------------------------- MODULE EvidenceCache ----------------------------
(***************************************************************************)
(* What the cache of one repository promises its readers, whoever syncs    *)
(* it: a growing sequence of immutable snapshots, numbered in the order in *)
(* which they became active.  A snapshot lists pull requests at exact      *)
(* revisions; of some it has evidence, which is then wholly the content of *)
(* the listed revision.  How a snapshot comes about is left open.          *)
(***************************************************************************)
EXTENDS Naturals, Sequences

CONSTANTS
    PRs,            \* numbers of the pull requests
    Heads,          \* the revisions a pull request goes through
    None            \* "no revision known"

VARIABLE published  \* the snapshots, the last one active

Listings == UNION {[S -> Heads \cup {None}] : S \in SUBSET PRs}

Versioned(listing) == {n \in DOMAIN listing : listing[n] # None}

Snapshot(listing, S) ==
    [generation |-> Len(published) + 1,
     listing |-> listing,
     evidence |-> [n \in S |-> {listing[n]}]]

Publish ==
    /\ Len(published') = Len(published) + 1
    /\ \E listing \in Listings : \E S \in SUBSET Versioned(listing) :
          published' = Append(published, Snapshot(listing, S))

CacheInit == published = << >>

CacheSpec == CacheInit /\ [][Publish]_published

==============================================================================
