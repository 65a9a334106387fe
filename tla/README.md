# Verification of the triage store

This directory holds TLA+ specifications of the program in `src/`: a local
triage workspace for the open pull requests of one GitHub repository. It
fetches the PRs into an immutable local cache, groups them by similarity,
ranks related PRs, and lets humans and agents record local review decisions in
one JSON document. Nothing is ever written to GitHub. All the program's
promises are therefore about its own files: that a decision is about the
revisions its author saw, that it is recorded once, that a refresh never moves
a decision to other code, and that concurrent processes (an HTTP server with
many handler threads, CLI runs, agents) do not lose or mix each other's writes.

## 1. Inventory

| Component | Source | State | Operations |
|---|---|---|---|
| Store document | `triage/store.py` | `store_version`, `snapshot_version`, PR rows with their exact revisions, groups, reserved group numbers, dispositions, rules, proposals, events, idempotency maps, file reviews and findings | publish a run, save dispositions, decide a group, draft / edit / accept / reject a proposal, file-review writes, backup, restore |
| Review rules | `triage/queue.py`, parts of `store.py`, `models.py` | none | which dispositions are well formed, active, in which pile a group is shown |
| Pipeline run | `triage/pipeline.py`, `assign.py` | a run's captured versions, retry count, planned grouping | ingest, read, assign, publish, retry on `stale_store_version` |
| Clustering | `triage/cluster.py`, `unionfind.py` | union-find forest, prefix index, within one call | join, find, components; place around the kept groups |
| Durable file | `store.py` 262-554 | the store file, its temporaries, `.bak`, `.pre-restore`, the lock | atomic replace, backup, restore, reads |
| File review | `store.py` 2781-3758, `reviews.py` | per-file reviews, findings, coverage, drafts, its idempotency map | review, find, resolve / reopen / dismiss, draft, adopt |
| GitHub snapshot | `triage/gh.py`, `github.py` | staged generations, `active.json` | sync: list, stage, reconcile, publish |
| Fetch job | `triage/server.py` 160-381 | one progress record per workspace | start, progress, finish, poll |
| Ranking and enrichment | `triage/rank.py` | provider cache on disk, in-flight table | lookup, lead, follow, merge |
| Workspace router | `triage/workspaces.py` | table of stores, identity cache keyed on file stat | resolve |
| Read service, MCP | `service.py`, `mcp_server.py` | none | paginated reads; writes through the store |
| HTTP, CLI, web client | `server.py`, `cli.py`, `web/` | page state, retry keys | compose and deliver requests |

How they interact: every writer takes an exclusive lock on the document, reads
it, checks the request against it, and replaces the file; a request carries the
`store_version` and `snapshot_version` of the page it was composed on, an
idempotency key and, over HTTP, the exact revision of every PR it mentions.
The pipeline reads the cache and the store without that lock and publishes
under it, conditional on the versions it read. Reads take a shared lock.

The server runs one fetch job for all workspaces, which refreshes the cache and
runs the pipeline; pages learn of its end by polling. A refresh takes a lock
per repository that the command line takes too. Agents read in pages through
a bridge that outlives the server; each continuation names the versions of the
answer that advertised it. Callers of an enrichment share runs and the slots
of one provider.

What is hard: requests that arrive late, twice, or after a lost answer; a
publication that moves revisions, members and group numbers under an open page
or an open proposal; two runs over different fetches; a restore that brings an
old document back with its counters and idempotency records; completeness of
evidence that changes between draft and acceptance; bounded retries under
continuous writes; a GitHub repository that moves between two pages of a
listing, two pages of files, and two rounds; a poll that finds the record of
another job, or none; reads whose two loads of the store fall on either side of
a write; time-outs that leave a request at the provider; a restart under all of
these. Every such place is listed in `PROJECT.json` under
`hazards`, with the property that covers it.

## 2. Modules

    ReviewRules          pure rules                  (queue.py, store.py validation)
      ReviewLedger       abstract specification      EXTENDS ReviewRules
      TriageStore        the store and its writers   EXTENDS ReviewRules,
                                                     INSTANCE ReviewLedger
        MCTriageStore            instances for TLC
        TriageStoreProofs        types
          TriageStoreSafety      safety theorems
            TriageStoreRefinement  TriageStore implements ReviewLedger
    Clustering           components, placing (cluster.py, unionfind.py, assign.py)
                                                     INSTANCE ReviewRules
      MCClustering             instances for TLC
      ClusteringProofs         the pruned join, components, placements
    FileReview           file-level review of one PR (store.py 2533-3758)
      MCFileReview             instances for TLC
      FileReviewProofs         types and safety theorems
      FindingDialog      the browser's Add-finding dialog over FileReview
        MCFindingDialog        instances for TLC
    DurableFile          how the document gets onto the disk (store.py 262-646)
      MCDurableFile            instances for TLC
      DurableFileProofs        types, backups, acknowledged writes, the predecessor
    EvidenceCache        abstract specification of the GitHub cache
      SnapshotSync       a refresh of it (gh.py)     INSTANCE EvidenceCache
        MCSnapshotSync           instances for TLC
        SnapshotSyncProofs       types, safety, SnapshotSync implements EvidenceCache
    ServedStore          versions and snapshots, as the server shows them
      FetchJob           the fetch job and the pages that poll (server.py, app.js)
      Reads              paged reads of agents (service.py, mcp_server.py)
      Enrichment         shared provider runs (rank.py)
        Serving          the three together, with restarts
          MCServing              instances for TLC
          ServingProofs          safety theorems

**ReviewRules** states the data. A *revision* (head SHA, base SHA, content
digest, source) is one element of `Revs`: the digest is taken as injective, and
because it covers the bytes that decide completeness, completeness is a
property of the revision (`CompleteRevs`). The operators follow the helpers of
`store.py` (`_normalize_disposition_items` = `WellFormed` + `BindRevisions`,
`_check_duplicate_cycles` = `Acyclic`, `_existing_current_dispositions` =
`ExistingCurrent`) and of `queue.py` (`active_dispositions`,
`rule_applies_to_group`, `build_queue`). A chain of duplicates has one outgoing
reference per PR, so a set of PRs that the references map onto itself is a
union of cycles; that definition needs no recursion and can be proved about.

**TriageStore** has one variable per part of the document and one action per
writer. The lock makes each writer atomic, so an action holds the writer's
replay check, version checks, item checks and commit together; a refused write
is a stutter. What interleaves is modelled apart:

* `Compose` captures a form from the page as it is now; `sent` keeps it for
  ever, and `Deliver` may take it at any later time, any number of times:
  late, duplicated and reordered requests and clients that retry after a lost
  answer are all in there. Forms may reuse a key.
* A pipeline run is `Ingest`, `LoadVersions`, `Assign`, then one of
  `SaveRunState`, `RetryRun`, `FailRun`. `Assign` merges the reads of the
  reserved numbers and of the groups, which happen after the read of the
  versions and before the publication.
* `Refresh` publishes any listing as the new cache snapshot.
* `BackupStore` keeps the whole content, `RestoreStore` puts any kept content
  back under a version above both (the real code takes the maximum of the next
  counter and the clock in milliseconds, hence *any* greater version).

`MaxVersion` is `MAX_SAFE_INTEGER` of the code (`_next_version` refuses to go
beyond it). Event and proposal ids, UUIDs in the code, are the version of the
commit that made them. `sent`, `saved` and `history` are auxiliary in that they
record the environment: requests under way, backup files, and every event ever
committed, also those a restore takes back.

Left out of TriageStore: `last_queue`, which is written and never read (the UI
recomputes the piles, `PileOf`); the second copy of the revision binding in
`groups_by_repo` (`last_prs` is the authority; a failed re-verification of the
pinned bytes refuses the write, a stutter); timestamps, notes and reasons;
`save_store` and `upsert_rule`, which only tests and scripts call; the recorded
paths, so the outcome of grouping is a choice among `Placements`, whose rule
`PlacedAround` (ReviewRules) is what Clustering is checked and proved to keep.

**Clustering** is one call of `assign_incremental` with the `cluster_prs` it makes,
on any files, kept groups and order of the list. Sets of paths that are equal
are joined first (`JoinEqual`); then each distinct set is looked up in the prefix
index (`Probe`), compared with those that share one of its rarest paths
(`JoinAlike`, `PassOver`) and indexed (`Index`). A join is two finds and a link, a
find one step per path halving (`Climb`), so that the forest is seen in between
(`Link`); `Find` and `Found` read the components off. `Attach`, `OpenGroup` and
`LeaveAlone` place one cluster each, in the code's order, against groups that
earlier ones have enlarged. `NextNumber` counts from the reserved numbers. The
code numbers the leftovers after the loop, here each gets its number when it
is reached: the order is the same, and leftover groups are no targets. The
threshold is a fraction and compared exactly: 18/25 in the code, where the
quotients and `math.ceil(0.72 * n)` are floating-point; the latter was
evaluated to agree for every n below 200000. Paths are numbered alphabetically. Groups of
equal closeness go by their numbers; the code sorts names, which differs from
G1000 on. A call is for one repository. (The docstring's "or exact fingerprint"
has no counterpart in the code.) `Connected` and `Homes` are the definitions it
is held against: reachability in the graph of all alike pairs, and the kept
groups closest to a whole component.

**ReviewLedger** is what all of this promises: verdicts on shown revisions,
entered by one atomic judgement, never erased or moved by a new revision, put
back only with a kept copy. `ImplementsLedger` is the refinement, with `shown`
mapped to the rows, `verdicts` to the dispositions without their event ids,
`kept` to the backups.

**FileReview** models the five writers of file-level review for one pull
request, an action each: `SaveFileReview`, `SaveFileFinding`,
`UpdateFileFinding`, `DraftFileReview`, `AdoptDraftFinding`. They share the
store's two versions, one idempotency map and one append-only audit trail, and
bind every record to one exact revision. `Manifest` gives the changed files of
each revision with their former names and the state of their patch; `FileOf`
resolves a name the way `_canonical_file_record` does (the current path first, then
the former name), so along a chain of renames one name means two files in two
revisions. Everything else that moves the store's version, the writers of
other PRs and of dispositions included, is `WriteElsewhere`, and a pipeline
publication is `Republish`; unavailable or mismatching pinned evidence refuses a
write, which is a stutter. An event, and what it creates, is numbered by the
version of its commit (UUIDs in the code); a drafted finding is known by the
path it was drafted under, so a draft of the model has one finding per path.
Texts, severities and line positions are not distinguished, timestamps and
paging of the reads are left out. `FilesReviewed`, `HumanReviewed` and their
agent counterparts are the two ways the code counts: over rows in the lists
and the header, over manifest files in the panel.

**FindingDialog** puts the page in front of `SaveFileFinding`: the page holds
a state read some time ago, the dialog remembers the page it was opened on,
`fileReviewRetries` keeps the key of an unconfirmed request so that the same
text on the same view is posted under the same key. A submission may commit at
any later time or never (`Store`), and its answer may arrive, be refused or be
lost (`Confirmed`, `Conflicting`, `Unconfirmed`). Requests of the browser are in
`sent` of FileReview; only findings are posted.

**DurableFile** opens up what the other modules take as one step: a commit, a
restore or a backup. A commit reads the store, syncs a temporary file (both
`BeginCommit`), validates the store's bytes once more (`ValidatePrevious`), reads
them again (`ReadPrevious`), keeps what this last read found as `.bak`
(`PreservePrevious`), syncs the directory (`SyncAside`), replaces the store
(`Replace`), syncs again and returns (`Finish`). A restore reads its source and
the store's bytes (`BeginRestore`), reads the store again for its version
(`NumberRestored`), sets the bytes aside as `.pre-restore` (`KeepCurrent`) and goes
on like a commit; a backup has only the last two steps. Two directories carry the difference that matters: `shown` is what processes
see, `stable` what is on the medium; a sync makes them equal, `PowerLoss` undoes
any of the replacements since. `Stop` ends an operation between any two steps,
by an error or a kill; both leave the names as they are and free the lock, which
is why the lock needs no variable. `Damage` spoils the store's bytes at any
time, also between two reads of one operation. Documents are told apart by their
version and by the write their data stems from; `acked`, `before` and `raced` (damage
fell between `ValidatePrevious` and `ReadPrevious`) are auxiliary. Assumed: the clock in
milliseconds is ahead of every version (it would take a write per millisecond
since 1970 to overtake it), and the directory sync works (`_fsync_directory`
ignores its errors). Left out: other destinations, symbolic links, and
`demo --reset`, which unlinks the demo store without the lock.

**SnapshotSync** refines the step that TriageStore calls `Refresh`. GitHub is a
head per pull request and a set of open ones, and moves at any time (`Push`,
`Open`, `Close`). A process takes the lock (`Begin`), reads the open list a page
at a time (`ReadPage`; `RefuseListing` when a number comes twice; the last page
is part of `EndListing`, `Reconcile` or `Materialise`), stages files for every
number in scope (`Reuse` from this refresh or from the active snapshot,
`Download` and `EndDownload` for the first and the last page of files: the
request names a number, so the bytes are those of the head at that moment),
lists again, stages again what moved while rounds are left (`Reconcile`), and
otherwise writes (`Materialise`) and activates (`Activate`) the snapshot. `Fail`
is a failed request, a failed write or a kill at any point. Heads are numbered
in the order of the pushes: a head that is pushed away and later pushed back is
outside the model, and so is the one thing that could make a confirming listing
vouch for bytes it did not see. Transports differ only in how a page arrives or
fails; retries and ETags are inside that. `steady` and `shifted` are auxiliary.

**EvidenceCache** is what readers rely on: an append-only sequence of immutable
snapshots, numbered in order, each with files wholly of the revisions it lists.
`ImplementsCache` is the refinement; the mapping forgets how the bytes were
staged and keeps which heads they are of.

**ServedStore** is what the next three share: per workspace a sequence of store
versions, each with the cache snapshot of its rows, the last cache snapshot, and
the epoch of the server. It summarises TriageStore (a version names one content,
`VersionNamesContent`) and EvidenceCache (snapshots are numbered in order).
`WriteElsewhere` and `SyncElsewhere` are every other writer and process.

**FetchJob** has the job (`StartFetch`, `Ingest`, `RunPipeline`, `FinishFetch` and
their failures), the one progress record of the server, the kept records of the
last ended jobs, and the pages: `StartFetch`, `StartFails` and `RefuseFetch` are the
three outcomes of a POST, `Poll` what the server answers, and `Hears...` what the
page makes of an answer that comes later. The user may switch workspaces at any
moment. Phases, counts and messages of the progress are only shown. Workers
write the record without asking whose it is: `OneJob` is why that is right.

**Reads** has one action per step of a call: the bridge's token (`RenewToken`,
`Deny`), the server's check of the expected versions and first load (`RefuseRead`,
`LoadContext`), for some operations a second load (`Reread`) and its comparison
(`RefuseMoved`), the answer (`AnswerRead`). `FollowUp` takes any continuation
advertised and not yet followed, in any order, with the versions or without. The
twelve reads differ in which lists they page and in how often they load the
store: one list (`search_prs` and four like it), several (`get_group`), a patch in
chunks of bytes (`read_patch`), a second load that is compared
(`get_file_review`), and one compared by a third load (`find_related`). `ChunkAt`
moves the ends of a chunk off the middle of a character.

**Enrichment** has callers that lead or follow a run (`Lead`, `Follow`), the checks of the
store's version before, between and after (`NoticeChange`, `Prepare`, `Proceed`),
the provider's slots (`Send`, `ProviderBusy`, `SendFails`, `EndRequest`), time-outs that
leave the request behind (`LeaveRequest`, `LeaveLeader`), and the end of a run in its
two steps (`SetEvent`, then `Leave`), between which a late caller still follows.
Vectors, scores and the content of the cache file are left out: a batch is
cached (`UseCached`) or has to be sent. All documents are one batch; the code sends
several requests one after another under the same slot rules and the same deadline
when they do not fit into one (`_embed_batch`), and a failure of any ends the run.

**Serving** composes the three and restarts them together (`Restart`): threads,
records and the in-flight table are gone, calls under way fail, pages and
bridges go on with an old token. Which clients a behaviour has is chosen in
`Init`: what pages, agents and callers do to each other goes through versions and
snapshots, and `OtherStep` does all of that to each kind alone.

## 3. Runs

| Run | Question | Bounds worth knowing |
|---|---|---|
| `dispositions` | Dispositions (reject, duplicate) and group decisions, late, stale, repeated, with shared keys, in either order on the same group, against a run that republishes moved revisions | 2 PRs, one complete and one incomplete revision, 2 requests, 4 versions |
| `proposals` | Draft, edit, accept, reject racing a republication and a backup that is put back; is it the ledger? | 3 requests with 3 keys: a draft and two competing transitions; 1 backup, 4 versions: a write, a restore and a write fit |
| `pipelines` | Two runs over two cache snapshots in which PRs open, close and move, with a decision that makes their versions stale; does every run end? | 8 group numbers, so numbers do not run out; 1 retry |
| `file_review` | Humans mark files, find and act on findings, agents draft and humans decide, dialogs lose their answers, while the revision moves along a rename chain | 2 revisions, 3 paths, every patch state, 3 keys, 3 versions; one of three workloads of 2 or 3 requests, or 2 dialogs with 2 texts and 2 posted |
| `durable_file` | Two processes commit, back up and restore, cut short anywhere by errors, kills and power losses, with two damages | 4 writes or restores begun: enough for a write, a cut-short one, a restore and a write after it |
| `snapshot_sync` | A server and a command line refresh while pull requests are pushed to, opened and closed; is it the cache, and does every refresh end? | 2 PRs, one pushed to twice and once listed without a SHA pair; 1 PR per page, limits none and 1, 2 rounds, 2 snapshots: a reuse from the active one and a round after a round |
| `serving` | Pages that fetch two workspaces, or an agent that follows every continuation, or callers that share a provider slot, while others write and sync and the server restarts | 2 pages, 2 jobs, 1 record kept (the code: 8, so the last is pushed out here by the second), 1 restart; lists that grow or shrink from one version to the next; a 5-byte patch with two-byte characters in chunks of 3; 2 callers, 1 slot |
| `clustering` | Are clusters the components of all pairs, whatever the pruning, and does each go where the files and kept groups say, within what TriageStore allows? | 4 PRs, a threshold of 3/4, sets of 0, 1, 3 and 4 of 4 paths: sets of three are alike only through the four, so components are not cliques; 2 groups kept by none, one or two PRs; 2 orders; 2 reserved numbers |
| `older_fetch`, `group_kept`, `stale_rows`, `nothing_saved` | Statements of comments and docstrings that the code does not keep | smallest instance that shows it |

The run `dispositions` has neither a restore nor drafts, so what `JudgedAsSeen` says
of versions that a restore puts back, and `DecidedOnCompleteEvidence` of a draft that
is accepted later, rests on the theorems of section 5 alone, whose next-state
relation has both (`JudgedWhatWasSeen`, `DecidedOnEvidence`).

Every bound is a constant: `MaxVersion`, `MaxSent`, `MaxFetch`, `MaxCopies`,
`MaxGroup`, `MaxRetries` (the code's 3), `MaxOpened`, `MaxPosted`, `MaxClock`,
`MaxDamages`, `MaxHead`, `MaxPublished`, `MaxSnapshot`, `MaxJobs`, `MaxRestarts`, and the
sets `Ops`, `Kinds`, `Decisions`, `Listings`, `Offers`, `Workloads`, `Limits`, `Operations`,
`Populations`, `FileSets`, `Keepings`, `Orders` that say which inputs an instance has.
`PageSize`, `MAX_RECONCILIATION_ROUNDS`, `KEPT`, `Slots` and `PatchLimit` are constants
of the code, made small so that they are reached. In `file_review` a behaviour has
requests of other clients or dialogs, not both (`Alone`): what others write while
a dialog is open is `WriteElsewhere`. They are enough because each property relates at most two
requests, one publication and one restore; the theorems of section 5 remove
the bounds for all of them but the liveness properties. All runs set `CHECK_DEADLOCK FALSE`: once every
bounded resource is used up (or no request is sent), the store is at rest,
which is no fault. PRs, keys and workers are symmetric where only safety is
checked (`pipelines` has no symmetry, nor has `clustering`, whose PRs are numbers); in the file runs only the keys are, since
the manifests name the other values.

*Fairness*: what is weakly fair is what runs by itself. `RunStep(w)`: a started
run is one synchronous call. `SyncStep(p)`: a refresh has timeouts on every
request. `JobTurn`: the job is a thread of the server. `PageTurn(p)`: a polling page
has a timer and its requests end. `CallerTurn(c)`: whatever a thread of an
enrichment waits for has a time-out. Nothing makes a client send, a user click,
a refresh or a restart happen, GitHub stop moving, or the provider answer. Under
it every run ends (`RunEnds`), since retries are bounded and a newer snapshot ends
the run; every refresh ends (`SyncEnds`), since rounds are bounded however GitHub
moves; every page that polls hears an end (`PollEnds`), with three exceptions
below; every caller is answered (`CallersAnswered`), although the provider may
never be.

## 4. Where the code differs from what it says

* **An older fetch can overwrite a newer one** (`older_fetch`). The run reads
  `expected_snapshot_version` from the store after its PRs were fetched, and
  again on each retry. If the newer fetch is published before that read, the
  check passes and the older rows replace the newer ones, which the comment at
  `pipeline.py:291` says cannot happen.
* **A refresh regroups unchanged PRs** (`group_kept`). `assign_incremental`
  compares the whole revision evidence, `cache_snapshot_id` included; every
  refresh changes that id, so every complete PR is clustered afresh and gets a
  new number. Its docstring promises the opposite; group decisions stop
  applying to unchanged groups.
* **Old rows block new writes** (`stale_rows`). The commit validates duplicate
  cycles over all rows, those about superseded revisions included, so a
  duplicate that passes every check against the current revisions can be
  refused with a corruption error.
* **The dialog says that nothing was saved when it was** (`nothing_saved`).
  `submitFinding` takes any change of the store version for a change of the
  revision. If a submission commits and its answer is lost, its own write moved
  the version; after a background reload the retry is refused with "The revision
  changed ... Nothing was saved; close and re-open", and who follows that advice
  records the finding twice. (`OneFindingPerDialog` still holds: the second
  copy is another dialog's.)

Other places worth knowing, which properties name as exceptions or which lie
at the edge of a model:

* *A page shift loses a pull request.* When one is closed between two pages of
  the listing, those after it move up, and one that stayed open is on no page.
  Twice in a row and the snapshot is published without it, marked
  `list_complete`, where the README says that every PR of the complete list
  remains present. `MissedOnlyByShift` shows that nothing else loses one.
* *A fetch that never ends.* If the job's thread cannot be started, the record
  says "running" until the server restarts, and refuses every other fetch. If
  the server restarts between two polls, or more than eight later jobs push the
  record out, the page polls an idle record for ever. `PollEnds` excludes
  exactly these.
* *A missing backup restores an empty store.* A file that does not exist reads
  as an empty store, and `restore_store` does not ask whether its source exists
  (`BeginRestore`): a mistyped path replaces the store by an empty one and
  reports success, where `src/README.md:414` says that the backup is validated.
  The store is still in `.pre-restore`.
* *Whose version.* The answer of a draft repeats the store's version after the
  write's lock was released, so it may name a later write's version.
* *A leaked lock.* If `.sync.lock` cannot be opened, the thread lock taken before
  it is never released (`gh.py`), and this process never syncs that repository
  again. `Begin` takes both locks in one step and does not have this failure.
* *Egress after the check.* The store is read "immediately before egress", but
  the documents are sent in a second request after the query's answer; a write
  in between is noticed only after them. The answer is refused all the same.
* *Damaged bytes in the backup.* Before a commit replaces `.bak` it validates the
  store (`store.py:544`), "deliberate: never replace a known-good backup with
  corrupt bytes from the primary file" (`store.py:542-543`). But line 545 then
  opens the file a second time and copies what it finds now. The lock does not
  keep out what damages files, and bytes spoiled between the two reads replace
  the good backup. If the commit then fails or is killed, neither the store nor
  `.bak` can be read, and unless a restore had left a `.pre-restore`, the last
  document is nowhere. So `KnownGoodBackup` makes no claim once
  damage fell into this window (`raced`), and `LossCostsOneWrite` asks that `.bak`
  is readable; without the one or the other condition TLC finds the trace (`BeginCommit`, `ValidatePrevious`,
  `Damage`, `ReadPrevious`, `PreservePrevious`) at once. Copying the bytes that were
  validated would remove both.
* *A restore over damaged bytes.* `LossCostsOneWrite` stops at one more place: a
  restore sets the current bytes aside before it replaces the store. When these
  are damaged and the source is `.pre-restore` itself, a kill in between leaves its
  document nowhere.

## 5. Proofs

All theorems are for every value of the constants. Those of TriageStore assume only
`RevsAssumption`, `NoneAssumption`, `BoundsAssumption` and `OfferedAssumption`
(complete revisions are revisions, `None` is neither a PR nor a revision,
bounds are naturals, clients are offered kinds that exist), which TLC evaluates
in every run.

`StepKinds` divides the steps into five: a delivered request, a publication, a
backup, a restore, and steps that leave the store alone. `WriteStep` says that
every write happens at exactly the version its form names and makes the next
one. On these two rest (in TriageStore):

* `TypeCorrect`: `TypeOK`, one lemma per writer.
* `VersionsNameContents`: whatever changes the document moves the version up.
* `AppliedOnce`: from `EffectsInv`, an event's id is its request's version
  plus one, at most the present version, and unique in its family.
  The invariant is about `history`, not `events`, because a restore takes
  events back; versions never go back, so the id cannot be issued again.
* `RetriesRecognised`, `OneRowEach`, `DecidedOnEvidence`, `UnjudgedStays`: each
  invariant is stated of a content (`Recognised`, `OneRow`, `Evidenced`,
  `Judged`) and proved of the document *and of every backup*; without the
  second half it is not inductive, since a restore makes a backup the document.
* `JudgedWhatWasSeen`: from `SeenInv`. A request whose version is still current
  describes the store as it is; everything that changes the store moves the
  version above every request under way. Proposal ids must be unique and below
  the version, in backups as well, for a transition to be about its own group.
* `AcceptedOnlyAsDrafted`: from `AcceptInv`. A proposal is marked accepted and its
  disposition event is written in one step; what is not inductive is that no other
  event names it. So a proposal's number is above 0, which stands for "none", and at
  most the version; events name no number above the version, the next number is free
  of events (`Accounted`), and requests to dispose directly carry 0. All of it of the
  document and of every copy of it.
* `PlansStayValid`: from `PlanInv`, a run's version never exceeds the store's.
  `NumbersRetire` follows, as long as no copy is put back; a restore also puts
  back the reserved numbers, so there the statement is false.
* `LedgerImplemented`: the refinement. `ShownInv` says that every PR in a group
  has a row, in the store, in backups and in the plans of runs; then the items
  of a write, bound to the revisions, are well formed among all PRs shown, and
  taking verdicts commutes with replacing rows and keeps them acyclic.

For Clustering the assumptions are `InputsAssumption` (numbers are naturals, sets
of paths are finite, no two PRs have one place in a list) and
`ThresholdAssumption` (a fraction above 0 and at most 1).

* `PrefixesMeet`: of two alike sets, order the common paths by rarity. The rarest
  one is in both prefixes: a set has too few paths outside the common ones to
  push it out, which is what rounding up the bound guarantees (`RoundsUp`,
  `OutsidePrefix`). `SizesReach`: the size bound turns no alike pair away.
* `ClustersFound`: from `ForestInv`. Two PRs are in one tree when no set closed
  under parents in both directions separates them (`Together`), so trees need no
  recursion: halving keeps them (`HalvingKeepsTrees`), linking roots joins two
  (`LinkingJoinsTrees`), and a tree has one root (`OneRoot`). That components are
  in one tree is the invariant's other half: whatever is alike and compared is
  in one tree or a pending join (`Bound`), and by `PrefixesMeet` whatever is
  alike gets compared.
* `PlacedByFiles`: from `GroupInv`. A PR placed earlier is not alike to one that
  waits, or they would be in one component (`WholeInv`), so it changes no best
  group (`ClosestAreHomes`); `AssignedAsDefined` alone is not inductive.
* `OutcomeIsAllowed`: new numbers follow one another (`NumbersInv`), homes are
  groups with a kept member.

For FileReview the assumptions are `AbsenceAssumption`, `ManifestAssumption`
(a manifest is finite and a path occurs once in it: GitHub's files API lists each
path once, and the code relies on it without checking), `OffersAssumption`,
`LimitsAssumption` and, with the dialog, `OpenedAssumption`. `WriterRecords` says
once what the five writers share: they admit the request, audit it and move the
version. The theorems hold of the store alone (`Spec`) and behind the dialog
(`DialogSpec`), which changes who asks and not what a writer does: both are
behaviours of the store under clients that may ask for anything (`OpenSpec`,
`OpenClients`), and the invariants are proved of that.

* `TypeCorrect`, one lemma per writer; `RetriesRecognised` (keys and audit trail
  are extended together and never cut); `EvidenceFirst`, through `FileOfKnown`: a
  name that resolves stands for an entry of the bound revision's manifest.
* `AdoptionsOnce`: from `Links`. Draft and finding ids are unique and never
  above the version (so a new one is fresh); a finding that names a drafted one
  is the very finding recorded in it (`Traced`), and an accepted drafted finding
  has one (`Adopted`). `AdoptedOnce` alone is not inductive: it takes the
  freshness of the version to know that nothing points to a new draft, and the
  uniqueness of names to know which drafted finding changes.
* `WritesBound`: from `EventsBound` and `Links`. `HistoryStays`: per writer, since
  a row is replaced only when both path and revision are the same.
* `TrailExplains`: from `Trail` and `Links`. The trail grows at its end
  (`TrailOrder`), so an event just written is the last about its record, and every
  other record keeps its reasons: a review row names the last mark of its file
  (`ReviewRows`), a finding's status is what the last action about it says
  (`FindingStatuses`), a coverage row answers to the last draft that claims its file
  (`CoverageRows`). Actions are about findings there were, so a new finding starts
  without any.
* `CountersEqual`: from `RowsOfFiles` and `Trail`. Every row of the present revision
  is on a file of the manifest and there is one row per file, so the files and the
  rows counted are in bijection; both sets are finite because the manifest is.
* `OneFindingEach`: from `Traffic`, which is about the page, the requests and the
  keys together. All submissions of one dialog quote the version that its page was
  loaded at, a change of text takes another key at the same version, and a version
  is used up by the write that quotes it: so of all the keys that a dialog ever
  sent, one at most is on record.

For DurableFile the assumptions are `ContentsAssumption` (absent and unreadable
files are told apart from documents) and `BoundsAssumption`.

* `TypeCorrect`; `BackupsGood`, from `GoodInv`: what a commit has validated stays
  readable until its copy has read it, and what it has read stays readable, unless
  damage fell between the two (`raced`). Damage at any other moment of a commit,
  and whatever a backup or a restore writes, leaves `.bak` as good as it was.
* `ReportedStays`, `VersionsDiffer`: from `AloneInv` (a writer is alone, no version
  is above the clock) and `ReportedInv`. Neither property is inductive: a write in
  progress must have a version above all that was reported, shown and stable
  until it is the store (`Fresh`), and a power loss must not bring back a newer
  store than the one shown (`Ordered`).
* `PredecessorReadable`: from `RememberedInv`. When a write is ready to replace the
  store, the bytes it replaces are in `.bak` or `.pre-restore` *on the medium*
  (`SetAside`); afterwards each of these is only overwritten by something at least
  as new, or spoilt (`Since`; spoilt bytes get there by a restore over a damaged
  store or through the window above), and a power loss mixes old and new names, so `Kept`
  must hold of both directories at once.

For SnapshotSync the assumptions are `NumbersAssumption` (numbers are naturals and
finitely many), `NobodyAssumption` and `BoundsAssumption`. The first three theorems
come from `SyncInv`:

* the holder of the lock is the only process that is not idle, so the snapshot
  it began from is still the last, and `generation` is `Len(published) + 1`;
* what is being read and what is staged has bytes of heads between the listed
  revision and the present head (`Between`), because a head only grows and a
  listing is never ahead of it (`NotAhead`);
* a confirming listing that names the same revision caps them: bytes between a
  revision and itself are of it (`StagedOK`). That is why staged files need no
  revision of their own, and why listing again is needed at all;
* in scope, whatever is not still to be staged has files for its listed
  revision (`CompleteOK`).

`TypeCorrect` needs the first (a base is a snapshot that exists). `BareOnlyMoving`
follows from the last two: without a round left nothing is claimed, with one left
the confirmed list is the staged one. `CacheImplemented`: only `Activate` changes
`published`, and by then `WritingOK` makes it the next snapshot of EvidenceCache.

`MissedOnlyShifted` is a counting argument, from `NoneMissed`. Between two pages,
whoever stayed open and is not listed yet has at least as many newer ones before it
as the pages read hold (`ListedSoFar`): somebody new only moves it further down
(`RankGrows`), and a page read holds every place it stands for. A page that is not
full is the last one, because the places of a finite set have no gaps (`RanksFill`,
`FullPage`); so when the listing ends, nobody is left who still awaits a page
(`LastPageIsLast`). A close moves the others up, and there the argument stops, as the
program does.

For Serving the assumptions are `NoneAssumption`, `BoundsAssumption`,
`FetchAssumption`, `ReadsAssumption`, `EnrichmentAssumption` and `PatchAssumption`:
a patch begins at a boundary of its characters, and from any boundary but the last
a chunk reaches another one, since it takes four bytes or more
(`MIN_PATCH_CHUNK`).

* `OneJob`, `ReadyIsSynced`: from `FetchInv`. A running job is the newest and the
  record is about it (`JobsInv`, `RecordsInv`); kept records are ordered by job and
  older than a running one (`OrderInv`), so the newest record of a workspace is of no
  earlier job than the one a page wants; what a page wants, was told and heard are
  jobs of its own workspace (`PagesInv`). That versions stay (`Grows`) keeps
  "is in the store" true while an answer is under way.
* `DeniedByRestart`: from `TokenInv`, a token renewed within a call is at least
  of the epoch the call began in.
* `ProviderIsBounded`: from `ProviderInv`, requests and free slots make up the slots,
  whoever waits; a time-out moves neither.
* `AnswersFit`: from `CallersInv`. A follower asked what its leader asked, and an
  outcome is of the target and version its maker asked for; who asked goes on
  asking for the same (`GoesOn`), also when a restart cuts it off.
* `WholeAnswers`: from `ReadsInv`. Of every call that was answered, all that its part
  of each list holds was kept, from the pinned version, and the cursor where the
  part goes on was asked for or will be (`KeptOK`); nothing else was kept (`GotOK`).
  The pin is set by the first answer and what a later call loads is compared with
  it (`PinOK`, `LoadOK`); stores only grow, so the pinned version stays
  (`StoresGrow`). When nothing is left to ask, `PartsCover` gives the whole: an
  entry is before a part, in it, or after its end, and the parts' ends move up
  (`PagesAreParts`, `ChunksAreParts`), so by following them from the start every
  entry is come to: of the cursors asked for, take the greatest that does not lie
  past the entry (`GreatestUpTo`). No induction over the calls is needed.
* `ServingTyped`: `TypeOK` of the whole composition follows from the four invariants;
  that slots stay between none and all needs `ProviderBounded`.

Every invariant and every action property that a passing run checks is proved, and
so are both refinements. Only model-checked are the liveness properties `RunEnds`,
`SyncEnds`, `PollEnds` and `CallersAnswered`, which need fairness and `ENABLED` and are
out of the prover's reach, and the four divergences, which are counterexamples.

Only proved, in no run: `OneRowPerPR` and `DeniedOnlyByRestart`, whose theorems cover
every instance.

## 6. Plan and what is not modelled

Planned next: the merge and pruning of the enrichment cache file by several
processes, and what can be proved towards the liveness properties without fairness
(that the counters by which a refresh and a poll end only go down).

Not modelled, and why:

* Workspace router: a lookup from repository names to store files, with a cache
  keyed on file stat that only saves reading them again.
* The pool of request handlers, host and origin checks, parsing and argument
  handling: no state that the properties are about.
* Scores, chunks and vectors (numerics); summaries and classification (text for
  display, a constant); rendering.
* Scripts, packaging, vendored and generated code.
