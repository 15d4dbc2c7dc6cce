# Bulldozer: models, checks and proofs

Bulldozer is a GitHub App in Go that merges pull requests when their checks
have succeeded, and keeps them up to date with their base. It stores nothing
and polls nothing: every webhook is handled from what GitHub answers at that
time. Two things make that hard. The answers are stale when they are used,
while several workers handle events of the same pull request, developers push,
merge and delete, and every call may fail. And whatever Bulldozer is to do has
to follow from some event that it did not lose.

This directory holds TLA+ modules of that behaviour, TLC configurations for
small instances of them, and TLAPS proofs for all instances. `PROJECT.json`
lists, for machines, the runs, the lines of code each definition stands for, a
mutation of the code for every property, findings, hazards and theorems.

## Inventory

| part | code | state | operations |
| --- | --- | --- | --- |
| dispatcher, scheduler | `server/server.go`, vendored `go-githubapp` | a bounded queue, a fixed number of workers | accept or drop an event, run it, recover a panic |
| event handlers | `server/handler/*.go` | none | for check_run, status, push, pull_request, issue_comment and review events: find the pull requests, fetch the configuration, update, then merge |
| pull request context | `pull/` | a snapshot of the pull request; cached comments, commits, branch protection, statuses | paged reads; the list of open pull requests |
| signals, evaluation | `bulldozer/signals.go`, `evaluate.go` | none | ignored? triggered? statuses complete? merge, update, with which method? |
| merge | `bulldozer/merge.go` | attempts of one run | up to five attempts, merge or ff-only, delete the branch |
| update | `bulldozer/update.go` | none | compare with the base, merge the base into the head |
| configuration | `bulldozer/config*.go`, `handler/fetcher.go`, `handler/base.go` | the server's default | repository, shared or default configuration, v1 or v0 |
| server, command line, health, metrics | `cmd/`, `server/`, `version/` | none of the protocol | start-up |

An event is queued by the dispatcher and taken by a worker. Its handler lists
or names pull requests, makes one context for each, decides on the update, and
if nothing was updated on the merge, and runs `MergePR`, which returns when the
pull request is merged or given up. Components interact by calls within one
worker; workers interact only through GitHub, and through the server's default
configuration, which they share. Bulldozer's own merges and updates are events
for it again.

What makes each part correct:

- **merge**: a branch is deleted only after its work is on the base and only
  when the configuration wants it; an open pull request onto the branch keeps
  it alive; the base never loses commits; a run ends, and not without a reason.
- **decision on statuses**: what lands was verified, as far as the API allows.
- **evaluation and signals**: exactly what the configuration says; ignore wins;
  a failing call never causes a merge.
- **configuration**: the file of the target branch decides; a broken file stops
  the bot; both old formats keep their meaning.
- **context**: a list has all that was there when the event was taken up or is an
  error; both decisions of one event see the same answers.
- **update**: it ends, it is only made when the base has something new, and
  who is to be updated is.
- **handlers, dispatcher**: when all events are handled, what is ready has been
  merged, unless an event was dropped, failed or was lost; all of them come to
  an end.

The hazards are in `PROJECT.json`, each at its line, with the properties that
cover it or the reason why none does.

## Modules

| module | models | builds on |
| --- | --- | --- |
| `GitHub` | the repository: pull requests, refs, ancestry, mergeability; the steps of developers and of GitHub, the effects of API calls (external) | |
| `Landing` | what Bulldozer promises to do to the repository, without its calls: the abstract specification | `GitHub` |
| `Merge` | `MergePR` by several workers, one action per API call; implements `Landing` | `GitHub` |
| `ProcessPullRequest` | the decision on status checks, composed with the merge; implements `Merge` | `Merge` |
| `Bulldozer` | the whole server: queue, workers, handlers and their loops, updates, wake-ups; implements `Landing` | `Landing` |
| `Signals`, `Evaluate` | the decisions as functions of a configuration and of the context's answers | |
| `Config` | which configuration applies and what it means, in both formats; the squash message | `Evaluate` |
| `PullContext` | the paged and cached reads of one event | |
| `MCMerge`, `MCProcess`, `MCBulldozer`, `MCEvaluate`, `MCPullContext` | instances for TLC; `MCEvaluate` also has the life of a pull request and the properties of the functions | |
| `GitHubProofs`, `MergeProofs`, `LandingProofs`, `ProcessProofs`, `PullContextProofs`, `EvaluateProofs`, `BulldozerProofs`, `WakeUpProofs` | theorems | the module of the name; `ProcessProofs` builds on `MergeProofs`, `LandingProofs` on `ProcessProofs`, `EvaluateProofs` on `MCEvaluate`, `WakeUpProofs` on `BulldozerProofs` |

**GitHub.** A commit is the set of changes that can be reached from it, so that
ancestry is inclusion. A merge commit adds the element `p` and the commits of
the head, squash and rebase add only `p`. An update of a head with its base adds
the commits of the base and a merge commit of its own, one of `MergeCommits`
(`MergeInto`, for `POST /merges` and for GitHub's update button). `mergeable` becomes unknown when the
head or the base moves, and a background step computes it. Force pushes of
developers, reopening and retargeting are left out.

**Landing.** A worker takes up a pull request (`TakeUp`), lands its work on the
base in one step (`Land`) or leaves the repository alone (`Abandon`), and after
that deletes the branch once or keeps it. `UpdateHead` merges the base of an
opened pull request into its head. That the worker may not learn of its own
merge is a third outcome of `Land`. What is promised is `LandedWorkStays`: the
work of a job that deletes a branch is on the base, and still is when the branch
is deleted.

**Merge.** `pc[w]` is the call worker `w` makes next: `attempt` is
`pullCtx.MergeState`, `merge` the merge request or, for ff-only, reading the
base ref, `update_ref` moving it, `targeted` is `IsTargeted`, `delete` is
`DeleteHead`. `run[w]` has the snapshot (`head`), the method, the counter, and
two history fields. `Fetch` starts a run, `Decline` and `BeginMerge` stand for
the decision before the first attempt and for everything that can fail before
it. `Faults` is what may go wrong: lost requests or answers, unexpected
statuses, refusals, restarts. The four seconds between attempts are the chance
for others to act. `AbstractPhase` and `AbstractJob` map it to `Landing`.

**ProcessPullRequest** adds which checks are successful for which commits, and
what the worker read of them: `FetchPullRequest`, two steps of
`CurrentSuccessStatuses`, then `AcceptPullRequest` or `RejectPullRequest`. It
uses the actions of `Merge` and is shown to implement its specification,
fairness included.

**Bulldozer.** `queue` is the scheduler's channel. `at[w]` and `task[w]` are
where the handler of a worker is and what it knows:

| `at` | code | actions |
| --- | --- | --- |
| `idle` | the worker waits on the channel | `Take` |
| `list` | `ListOpenPullRequestsForSHA`, `...ForRef`, a page at a time | `ListPage`, `Return` |
| `loop` | the loop over pull requests; `MergePR` runs within it, as the steps of `Landing` | `NextListed`, `NextNumber`, `LoopEnds`, `Return`; `Merge`, `GiveUp`, `AttemptDelete`, `Panic` |
| `get`, `compare`, `update` | the calls of `UpdatePR` | `GetForUpdate`, `CompareCommits`, `UpdateBranch`, `UpdateFails` |
| `decide` | `ProcessPullRequest` | `ProcessPullRequest`, `ProcessFails` |

A handler works on the snapshot of a list or on what it has just fetched
(`View`), and reads comments and statuses when it needs them. `Wakes` says which
events may be followed by an update, by a merge or by both. What others do
(`Opens`, `Pushes`, `UpdateByUser`, `Give`, `Report`) sends the events that
GitHub sends for it, and so do Bulldozer's own merges and updates (`Moves`).
`lost` is history: the wake-ups that are missed because an event was dropped, a
call failed, a list shifted, a run gave up or the server restarted. It shrinks
when a handler looks at the pull request again.

The configuration of the loops is `MergeTriggers` and `UpdateTriggers`, a label, a
comment, both or none. As in `MatchesAny`, any one of them is enough (`Matched`),
and where there is none there is nothing to wait for. The label is that of the
snapshot, comments are read when they are needed (`Shown`). A review is no trigger:
GitHub asks for it (`ReviewRequired`, in `Accepts`), while its event wakes Bulldozer
up. The method is chosen anew with every decision, as conditional methods may depend
on the commits. `Accepts` is what GitHub carries out: a merge of an open pull request
without conflicts, or for ff-only a base that is contained in the head of the
snapshot, whatever has become of the pull request by then. A run without failing calls
ends without a merge (`GiveUp`) only when it is refused, the pull request is not open
any more, or GitHub does not call it clean.

**Signals, Evaluate** have one operator per function of the code, with its name.
An answer that may be an error is one of `"match"`, `"nomatch"`, `"error"` or
`"yes"`, `"no"`, `"error"`. Texts are sets of words, labels are compared by
their lower case, regular expressions are the sets of branches they match.

**Config.** A file is a record of its format and contents, or absent, unreadable
or invalid. `ParseConfig` and `LoadConfig` with the old names of sections and the
three modes of 0.4, `FetchConfigForPR` with the repository's file, the shared one
and the server's default, and `SquashMessage` are functions with the names and
the order of the code.

**PullContext** makes the reads of one event in the order of the code, each from
the cache or page by page; a list is its number of pages. Which reads are made
depends on the configuration (`needed`) and on what was decided (`Settle`).

## Runs

| run | instance | shows |
| --- | --- | --- |
| `merge_workers` | one pull request, onto a base with push restrictions and with a user's token, two workers, three pushes, an update by a developer, two attempts, no faults; 3.2 million states | `LandedBeforeDelete`, `BranchesOnlyGrow`, `GivesUpOnlyForAReason`, `MergedThenDeleted` |
| `merge_faults` | a pull request from a fork stacked on another, one worker, push restrictions, every fault, two attempts; 480,000 states | `TypeOK`, `LandedBeforeDelete`, `BystandersKeepTheirBase`, `RunEnds`, and `ImplementsLanding`: the calls of `MergePR` amount to the abstract merge |
| `process` | one pull request, one worker, two pushes, an update by a developer, a status and a check run; 660,000 states | `FastForwardsOnlyVerifiedCommits`, `MergesVerifiedHeadsUnlessPushed`, `ImplementsMerge` |
| `bulldozer` | two pull requests with one push each, one worker, a queue of one event, lists of one pull request a page, a fork, a required review, squash, every mishap; merges and updates for all, three merge commits; 380,000 states | `NoMergeIsMissed`, `NoUpdateIsMissed`, `LandedWorkStays`, `EventsAreHandled`, `ImplementsLanding` |
| `bulldozer_workers` | one pull request, pushes to its head and its base, two workers, a queue of two, a label or a comment as trigger of the merge and the label as that of updates, ff-only, a check run as required check, no mishaps; 3.4 million states | `NoMergeIsMissed`, `NoUpdateIsMissed` |
| `evaluate` | every moment of a pull request of at most two commits, 23,000 views, against about forty configurations, written in either format and in files that are absent, broken or unreadable | the nine properties of `MCEvaluate` |
| `context` | lists of zero to two pages, every subset of the optional reads, three lists that grow | `ReadsAreComplete`, `CommentsAreCompleteAtFirst`, `AnswersAreStable` |

What the properties of the server say:

- `NoMergeIsMissed`: when the queue is empty and all workers wait, a pull request
  that is ready (open, with some trigger if there are any and what GitHub asks for,
  its head verified) is one with a lost wake-up. It depends on the order of events
  and reads everywhere: a status that is reported between the listing and the
  decision, a label that the snapshot does not have, a head that moves while a
  merge is under way, the other worker that updates what this one decides on.
- `NoUpdateIsMissed`: the same for a pull request that is not up to date, when
  updates are asked for by a label or for all. That a comment asks for updates
  only with the next event is documented (README.md:315-330).

  Neither of the two says that nothing is missed at all: events that were dropped,
  pull requests or configurations that could not be fetched, shifted pages, and runs
  that gave up are recorded in `lost`, as is what a restart took along. The code has
  no second chance for them but the next event, and no document says that it has; the
  properties say that there are no other causes. The hazards of these causes have notes
  and no property.
- `LandedWorkStays`: whatever the handlers, updates and restarts did before, a
  worker that goes on to the deletion has its pull request merged, and neither its
  own updates nor another worker took that work off the base again.
- `EventsAreHandled`: queue and workers come to rest again and again; updates,
  which are events, do not set each other off for ever.

`bulldozer` reaches a full queue, a page that shifts because a pull request on an
earlier one was closed, a panic in the middle of a loop, a lost answer of an
update, and a restart at every point. Without mishaps `lost` is only filled by a
full queue, by shifted pages and by runs that give up for a reason, which is why
`bulldozer_workers` has no mishaps. There the method is ff-only, which a
push to the base makes impossible until the next update: the refused run gives up and
goes on, and does not hold its worker up.

`merge_workers` has the base restricted and a user's token: a client that is not the
one that may write would be refused and give up, which `GivesUpOnlyForAReason` does
not take for a reason.

Bounds. Two attempts instead of five have a first, a retried and a last one.
Two workers are enough for every interleaving of one handler with another on the
same pull request. Three pushes leave one for the head before the snapshot, one
for the head after it and one for the base. Two pages are the least with a page
that arrives and one that fails, or shifts, after it. Two checks are the least
that one can be missing of, one of each API call. A queue of one drops every
event that comes while another waits; a queue of two holds the pair of events
of one push. Opening, giving a condition and reporting a check happen at most
once for each pull request and commit, so that only `Changes` and `MergeCommits` bound
the events. `MergeCommits` has three elements in `bulldozer` and `bulldozer_workers`,
and no state of them uses all three up: updates end on their own and not because of the
bound. In `merge_workers`, `process` and the runs that expect a violation it has one,
for one update by a developer; in `merge_faults` none, so that the run stays
within minutes, as what such an update does to the calls of `MergePR` is what a
push does. `EventsAreHandled` speaks of pull requests onto one base: two onto each
other's heads are updated for ever, by the code as well.
What the proofs cover does not depend on any of these.

Five runs expect a violation. Each shows the code doing other than a document
or a comment of the repository says:

- `merge_ff_push`: an ff-only merge lands the snapshot's head; a push after it
  stays on the branch, which is deleted (README.md:189).
- `merge_panic`: `DeleteHead` reads the status of a nil response (merge.go:108).
- `evaluate_max_commits`: `max_commits` matches when the commits cannot be
  listed (signals.go:344, evaluate.go:53).
- `context_comments`: after a failed page the next call returns a part of the
  comments without an error (github_context.go:105, evaluate.go:31).
- `process_head`: a merge request names no head, so what is pushed after the
  evaluation is merged without its `required_statuses` (README.md:183).

`merge_*`, `process*` and `bulldozer*` say `CHECK_DEADLOCK FALSE` because pushes
and attempts are bounded, the pull requests end merged or closed and the server
then waits; `context` because the event has been handled.

## Fairness

`WF_vars(Step(w))` for every worker in `Merge` and `ProcessPullRequest`, and
`WF_bulldozerVars(Handle(w))` in `Bulldozer`, nothing else: a call of the API
client returns or fails, a goroutine that can run does, and a worker takes an
event when there is one. The first is an assumption and not the code's doing: the
client is made without a timeout (`server.go:59-67`). Nothing is assumed of developers, of GitHub's
background jobs, or of further events: mergeability may stay unknown for ever.
`RunEnds` and `EventsAreHandled` need no more. `Landing` is a safety
specification: that a worker gets free again is up to the modules that
implement it.

## Proofs

All proofs hold for every shape of pull requests, every number of workers,
pages, attempts and merge commits, every queue and every set of faults, from the
assumptions on the constants alone: `TopologyAssumption` and `CommitAssumption`
(GitHub: what tells commits apart are different things), `MergeAssumption`,
`ProcessAssumption`, `PagesAssumption` and `MarkersAssumption` (PullContext),
`SignalsAssumption` (types, and that every label has a lower case),
`ConfigAssumption` (the defaults of version 0.4 are labels and words, and those
labels are in lower case), `MCAssumption` (what `MCEvaluate` enumerates is among
the words, labels and branches), `BulldozerAssumption`. TLC evaluates each of them
in some run.

`GitHubProofs` has what every effect of the API and every step of others keeps:
types, branches that only grow (`Grows`), pull requests that do not reopen
(`Settled`).

`MergeProofs`:

- `TypeCorrectness`: `TypeOK`, by one step per action. It includes that the
  counter stays below the limit.
- `LandedBeforeDeleteHolds` and `BystandersHold`: the inductive invariant is
  `TypeOK /\ DeleteInv`. `DeleteInv` says of every worker what justifies the
  call it makes next; a foreign step keeps it because of `Grows` and `Settled`.
  The invariants alone are not inductive: that the work is on the base at
  `targeted` depends on what `merge` and `update_ref` did.
- `BranchesOnlyGrowHolds`: no step takes commits off a branch; for the ff-only
  merge this is the guard of an update without force.
- `GivesUpForAReason` and `DeletedOnceMerged` have `Faults = {}` as a hypothesis,
  as `merge_workers` has: with failing calls a run may end for reasons of others.
  The invariant adds that a run is about a pull request that was opened
  (`OpenedInv`), without which a refusal would not show what state it is in. A
  restricted base is a reason to give up only where no user's token is configured.
  The rest is per action: what an action may do to the run (`Proceeds`), and which
  replies a GitHub without faults gives.

`LandingProofs`: `MergeImplementsLanding`. Each step of `Merge` is mapped through
`AbstractPhase` and `AbstractJob`: the answer of a merge that took place is
`Land`, the deletion is `DeleteBranch`, ends are `Abandon` or `KeepBranch`, and
the other calls do not show. `DeleteInv` is what says that the branch which is
deleted is that of the job. `ProcessImplementsLanding` follows with
`ImplementsMergeSafety`.

`ProcessProofs`:

- `ImplementsMergeSafety`: every step of the handler is a step of `Merge` or
  leaves its variables alone. With it the lemmas of `MergeProofs` carry over, as
  in `ProcessLandsBeforeDelete`, `ProcessGivesUpForAReason` and
  `ProcessDeletesOnceMerged`.
- `FastForwardsVerified` and `MergesVerified`: the inductive invariant
  `VerifiedInv` says that what is successful now has been successful (`PassingInv`),
  that a worker that decides has read only successes of its snapshot's head
  (`ReadInv`), and that a worker that tries to merge has a snapshot whose head was
  successful in every required check (`TryingInv`). The last part is what `UpdateRef`
  lands; it survives retries because no step of `MergePR` changes the snapshot
  (`MergePRProceeds`).

`PullContextProofs`: `ContextTypeOK`, `ContextReadsAreComplete`,
`ContextCommentsAreComplete`, `ContextAnswersAreStable`. Complete means all that was
there when the context was created, that is when the handler began. The three properties
speak of answers only, so that the invariant adds where answers come from:
what a request in progress has collected (`CallInv`), what a cached field has
(`CacheInv`, for comments only while none of their reads failed), and that an
answer stays in the cache and is not asked for again (`StableInv`).

`EvaluateProofs` has two layers. The first is about the functions, for every
configuration and every answer of the context, lists of conditional methods and of
files of any length included: `MergeDecision`, `UpdateDecision`,
`FailuresOnlyStopDecisions`, `SuccessKeepsDecision`, `MethodDecision`,
`V0KeepsItsMeaning`, `LegacyApplies`, `FirstFileDecides`, `SquashKeepsToOptions`.
`MethodDecision` says which method is used when no call fails, and of failing calls
only that the result is a method or an error. `V0KeepsItsMeaning` has merging, updating, the method
and the deletion of merged branches.
The code asks the signals of a list one after the other and stops at the first that
matches or fails. `AnyIsFirst` says what that comes to: the answer is that of the
least signal which does not answer no (`Least`), which makes the order visible where
a call fails, and an "any of them" where none does (`AnyShows`). Signal sets are
`Askable`: none asks for a comment that is the empty text. Such a signal matches an
empty body once there is any comment, which the promise does not speak of.

The second layer carries them to the properties of `evaluate`: `AlwaysSeen` is the
invariant that at every moment of a pull request's life the answers are ones a
context can give (`SeenInv`), and the configurations of the run are `Askable`, so
that `MergesAlways`, `UpdatesAlways`, `FailuresAlwaysOnlyStop`,
`MethodAlwaysTheFirst`, `V0AlwaysKeepsItsMeaning`, `LegacyAlwaysApplies`,
`SquashesAlwaysKeepToOptions`, `BrokenConfigurationsAlwaysStop` and
`SuccessesNeverRevoke` are instances of the first layer.

`BulldozerProofs`:

- `BulldozerTypeCorrectness`. The invariant adds that pull requests which events
  and tasks name have been opened, and that a head a handler remembers is still
  on its branch (`KnownEvent`, `KnownView`): without it `TakeUp` could not be shown
  to hand a head over that the pull request had.
- `BulldozerImplementsLanding`: handlers, updates, panics and restarts included,
  every step is one of `Landing` or leaves the repository and the jobs alone.
- `LandingKeepsWork`: `LandedWorkStays` holds of `Landing` itself. The invariant
  `WorkInv` says of a job that has not landed that the head it was handed over
  is still on its branch, which is why an ff-only merge or a merge commit lands
  all of it; `Grows` and `Settled` keep what has landed.
- `BulldozerKeepsWork`: the server inherits it through the refinement, and
  `BulldozerTakesNothingBack` that no step takes a commit off a branch or reopens
  a pull request.

`WakeUpProofs`: `NoMergeMissed` and `NoUpdateMissed`. At rest there is nothing to
hold on to, so the invariant says where every wake-up is at any time: whoever is
`Wanted` for a merge or an update is `Pending`, that is in an event that waits
(`Stirs`), on a page that is still to come or would be noted as missed
(`ToBeListed`), in the rest of a loop (`InLoop`), at a stage of a handler that
still has the right snapshot of it (`InView`), in a merge of the right head
(`MergesNow`), or lost. A step either leaves that alone (`FreshKeeps`,
`PendingStays`), moves it on, or brings an event of its own (`MovesCarry`:
when a head moves, whoever waits for its merge is in a synchronize event, and when
a base moves, whoever waits for an update is in a push event). `TaskInv` has what a
handler may rely on: the first page begins with an empty list, and the head that
was compared is between that of the snapshot and the branch. The last part is why
a merge under way is not dropped when the update finds nothing to do any more.

Only model-checked: `RunEnds`, `EventsAreHandled`, and the fairness that
`ImplementsMerge` claims for `Merge` (its steps are proved in
`ImplementsMergeSafety`). They need fairness and `ENABLED`, which are out of the
prover's reach. Every other property of a passing run is stated by a theorem. Induction
over data is out of its reach as well; no theorem needs it, as `Signals`, `Evaluate`
and `Config` say of a list which of its elements decides and do not recur over it.

## Observations

Behaviour met while modelling that no run lists as a finding:

- README.md:315-318 says that updates follow a label, the opening of a pull
  request or a push to the target. They follow successful statuses and check
  runs too (`status.go:71`, `check_run.go:80`); `Updates` has all five.
- A list of open pull requests is read page by page without a cursor
  (`pull_requests.go:26`, `:78`): a pull request that closes meanwhile shifts the
  later pages and an open one is not in the list. `ListPage` records it in `lost`.
- The answer of an update's merge may be lost after it took effect: the handler
  then goes on to the merge of the snapshot (`UpdateBranch`).
- `update.go:40` asks whether the head's repository is a fork; that of a deleted
  fork is nil, and the update goes to a branch of that name in the repository.
- The server's default configuration is not parsed like a file (`server.go:88`):
  the old names `whitelist` and `blacklist` have no effect in it.

## Not modelled

- Time, HTTP, YAML, logging, metrics, webhook signatures, and the start-up of the
  server with its command line: they hold no state of the protocol.
- Events that their handler ignores: pending or failed checks, closed pull
  requests, deleted branches.
- GitHub's redelivery of webhooks by hand. The order of deliveries is that of the
  steps that cause them; with one event for each change a later delivery is a
  later step.
- A conditional merge method and the configuration in the loops of `Bulldozer`:
  there the configuration is constant, a label and a comment are the triggers, and
  any method may be the one; which of them apply is the subject of `Evaluate` and
  `Config`.
- Updates along a stack of pull requests (one onto the head of another), as a run: a
  push to the base of the lower one gives over three million states without any mishap,
  too many for `EventsAreHandled`. The proofs have every shape.
- Edits and deletions of comments between two pages; force pushes by developers;
  reopening and retargeting; two pull requests from one head (merging one deletes
  the branch of the other, `merge.go:106`), which `GitHub` and the proofs about
  `Merge` allow and `BulldozerAssumption` excludes, as a push would then be one
  synchronize event for each.
- How a regular expression is put between `^` and `$` (`signals.go:325`).
