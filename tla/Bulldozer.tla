------------------------------ MODULE Bulldozer ------------------------------
(***************************************************************************)
(* The server as a whole: GitHub's events, the scheduler's bounded queue   *)
(* and its workers, the six event handlers with their loops over pull      *)
(* requests, and the calls of UpdatePR.  A merge is the one of module      *)
(* Landing, which module Merge implements call by call.                    *)
(*                                                                         *)
(* Bulldozer stores nothing and polls nothing, so that whatever it is to   *)
(* do has to follow from some event that it did not lose.  The module says *)
(* what wakes it up, what it reads then, and when.                         *)
(*                                                                         *)
(* The configuration is the same throughout and a few constants.  Events   *)
(* that their handler ignores (pending checks, closed pull requests, the   *)
(* deletion of a branch, on which nothing is open by then) are left out.   *)
(* The order of a loop is left open.                                       *)
(***************************************************************************)
EXTENDS Landing, Sequences

CONSTANTS
    Number,                 \* the numbers of the pull requests
    PushedTo,               \* the branch each change is pushed to
    MergeTriggers,          \* any of them has a pull request merged
    UpdateTriggers,         \* any of them has it updated
    ReviewRequired,         \* does GitHub ask for a review before a merge?
    Updating,               \* does the configuration ask for updates?
    DisableUpdateFeature,   \* are updates disabled for the whole server?
    RequiredCheck,          \* how the required check reports
    DeleteAfterMerge,
    QueueSize,              \* events that may wait for a worker
    PageSize,               \* pull requests on one page of a list
    Mishaps,                \* what may go wrong
    NoTask, NoView          \* the values of a worker that has none

(* A label, as a snapshot has it, or a comment, which is read when it is   *)
(* needed: any of those configured is a trigger, and none means that there *)
(* is no trigger to wait for.  A review is up to GitHub alone.  Each is    *)
(* also an event.                                                          *)
Triggers == {"labeled", "issue_comment"}

Conditions == Triggers \cup {"pull_request_review"}

(* What it makes a difference to give.                                     *)
Relevant ==
    MergeTriggers \cup UpdateTriggers
        \cup (IF ReviewRequired THEN {"pull_request_review"} ELSE {})

PullRequestEvents == Conditions \cup {"opened", "synchronize", "check_run"}

ASSUME BulldozerAssumption ==
    /\ Number \in [PRs -> Nat]
    /\ \A p, q \in PRs : p # q => Number[p] # Number[q] /\ HeadOf[p] # HeadOf[q]
    /\ PushedTo \in [Changes -> Branches]
    /\ MergeTriggers \subseteq Triggers
    /\ UpdateTriggers \subseteq Triggers
    /\ {ReviewRequired, Updating, DisableUpdateFeature, DeleteAfterMerge} \subseteq BOOLEAN
    /\ RequiredCheck \in {"status", "check_run"}
    /\ MergeMethods # {}
    /\ QueueSize \in Nat
    /\ PageSize \in Nat \ {0}
    /\ Mishaps \subseteq {"api", "transport", "restart"}

VARIABLES
    given,      \* given[p]: the labels, comments and reviews p has been given
    passing,    \* the commits the required check is successful for
    queue,      \* the events that wait for a worker
    at,         \* at[w]: where the handler of worker w is
    task,       \* task[w]: the event it handles and what it knows
    lost        \* history: what may have been missed since it was looked at

handlerVars == <<queue, at, task>>
bulldozerVars == <<landingVars, given, passing, handlerVars, lost>>

Event == [kind : {"push"}, branch : Branches]
           \cup [kind : {"status"}, sha : Commit]
           \cup [kind : PullRequestEvents, prs : SUBSET PRs]

(* What an answer of the API says of a pull request.                       *)
View == [pr : PRs, head : Commit, labeled : BOOLEAN]

(* listed and todo are what the loop has still to go through, snapshots of *)
(* a list or numbers of the payload; view is the pull request it has got   *)
(* to, head the head that UpdatePR compares.  page and present are those   *)
(* of a list; present is history.                                          *)
Task == [event : Event, listed : SUBSET View, todo : SUBSET PRs, view : View \cup {NoView},
         head : Commit, page : Nat, present : SUBSET PRs]

Stages == {"idle", "list", "loop", "get", "compare", "update", "decide"}

BulldozerTypeOK ==
    /\ LandingTypeOK
    /\ given \in [PRs -> SUBSET Relevant]
    /\ passing \in SUBSET Commit
    /\ queue \in Seq(Event) /\ Len(queue) <= QueueSize
    /\ at \in [Workers -> Stages]
    /\ task \in [Workers -> Task \cup {NoTask}]
    /\ lost \in SUBSET (PRs \X {"merge", "update"})
    /\ \A w \in Workers :
         /\ at[w] # "idle" => task[w] \in Task
         /\ at[w] \in {"get", "compare", "update", "decide"} => task[w].view \in View
         /\ at[w] \notin {"loop"} => phase[w] = "idle"

BulldozerInit ==
    /\ LandingInit
    /\ given = [p \in PRs |-> {}]
    /\ passing = {}
    /\ queue = <<>>
    /\ at = [w \in Workers |-> "idle"]
    /\ task = [w \in Workers |-> NoTask]
    /\ lost = {}

-----------------------------------------------------------------------------
(* Which events are about which pull requests, and what they wake.         *)

Lists(e) == e.kind \in {"push", "status"}

(* A mutation of Updates: a push updates nothing.                          *)
UpdatesButPushes(e) ==
    /\ e.kind \in {"status", "check_run", "opened", "labeled"}
    /\ ~ DisableUpdateFeature

(* The events that may be followed by an update, ...                       *)
Updates(e) ==
    /\ e.kind \in {"push", "status", "check_run", "opened", "labeled"}
    /\ ~ DisableUpdateFeature

(* A mutation of Merges: only checks are followed by a merge.              *)
MergesAfterChecks(e) == e.kind \in {"status", "check_run"}

(* ... and if nothing was updated by a merge.                              *)
Merges(e) == e.kind # "push"

(* A mutation of Matches: the pull requests from a branch are looked for.  *)
MatchesHead(e, p, head) ==
    IF e.kind = "push" THEN HeadOf[p] = e.branch ELSE head = e.sha

(* ListOpenPullRequestsForRef and ListOpenPullRequestsForSHA.              *)
Matches(e, p, head) ==
    IF e.kind = "push" THEN BaseOf[p] = e.branch ELSE head = e.sha

About(e) ==
    IF Lists(e) THEN {p \in PRs : Matches(e, p, tip[HeadOf[p]])} ELSE e.prs

Wakes(e) == (IF Merges(e) THEN {"merge"} ELSE {})
              \cup (IF Updates(e) THEN {"update"} ELSE {})

Now(p) == [pr |-> p, head |-> tip[HeadOf[p]], labeled |-> "labeled" \in given[p]]

-----------------------------------------------------------------------------
(* A mutation of Accepted: the queue is not bounded.                       *)
AcceptedAll(events) == events

(* queueScheduler.Schedule, for each event: what finds no room is dropped. *)
Accepted(events) ==
    LET room == QueueSize - Len(queue)
    IN  IF Len(events) <= room THEN events ELSE SubSeq(events, 1, room)

Deliver(events) ==
    /\ queue' = queue \o Accepted(events)
    /\ lost' = lost \cup UNION {About(events[i]) \X Wakes(events[i]) :
                                  i \in DOMAIN events \ DOMAIN Accepted(events)}

(* The events of a branch that moves: one of the pull request that is open *)
(* from it, and its own.                                                   *)
Moves(b) ==
    LET prs == {p \in PRs : Open(p) /\ HeadOf[p] = b}
    IN  Deliver((IF prs = {} THEN <<>> ELSE <<[kind |-> "synchronize", prs |-> prs]>>)
                  \o <<[kind |-> "push", branch |-> b]>>)

-----------------------------------------------------------------------------
(* A worker between two calls.                                             *)

Goto(w, stage, t) ==
    /\ at' = [at EXCEPT ![w] = stage]
    /\ task' = [task EXCEPT ![w] = t]

End(w) == Goto(w, "idle", NoTask)

Misses(prs, what) == lost' = lost \cup prs \X what

(* The wake-ups that task t is about to act on have not been missed.       *)
Looks(t, prs) == lost' = lost \ (prs \X Wakes(t.event))

(* What is left of task t when it is given up.                             *)
Remaining(w) ==
    (IF at[w] = "list" THEN About(task[w].event) ELSE {})
      \cup task[w].todo \cup {s.pr : s \in task[w].listed}

Take(w) ==
    /\ at[w] = "idle"
    /\ queue # <<>>
    /\ queue' = Tail(queue)
    /\ LET e == Head(queue)
           t == [event |-> e, listed |-> {}, todo |-> IF Lists(e) THEN {} ELSE e.prs,
                 view |-> NoView, head |-> {}, page |-> 1, present |-> {}]
       IN  IF e.kind = "push" /\ DisableUpdateFeature THEN End(w)
           ELSE Goto(w, IF Lists(e) THEN "list" ELSE "loop", t)
    /\ UNCHANGED <<landingVars, given, passing, lost>>

(* Open pull requests are listed page by page, the newest first.           *)
OnPage(n) ==
    {p \in PRs : /\ Open(p)
                 /\ Cardinality({q \in PRs : Open(q) /\ Number[q] > Number[p]})
                       \div PageSize = n - 1}

IsLastPage(n) == Cardinality({p \in PRs : Open(p)}) <= n * PageSize

(* ListOpenPullRequests, one page, and the filter of its callers.  What    *)
(* closes meanwhile shifts the pages: after the last one some that were    *)
(* open all the time may not be in the list.                               *)
ListPage(w) ==
    /\ at[w] = "list"
    /\ LET t == task[w]
           matching(prs) == {p \in prs : Open(p) /\ Matches(t.event, p, tip[HeadOf[p]])}
           found == matching(OnPage(t.page))
           listed == t.listed \cup {Now(p) : p \in found}
           present == IF t.page = 1 THEN matching(PRs) ELSE matching(t.present)
           missed == present \ {s.pr : s \in listed}
       IN  IF IsLastPage(t.page)
             THEN /\ Goto(w, "loop", [t EXCEPT !.listed = listed, !.page = 1, !.present = {}])
                  /\ lost' = (lost \ (found \X Wakes(t.event)))
                                 \cup missed \X Wakes(t.event)
             ELSE /\ Goto(w, "list", [t EXCEPT !.listed = listed, !.page = @ + 1,
                                               !.present = present])
                  /\ lost' = lost \ (found \X Wakes(t.event))
    /\ UNCHANGED <<landingVars, given, passing, queue>>

-----------------------------------------------------------------------------
(* The loop over pull requests; MergePR runs within it.                    *)

Looping(w) == at[w] = "loop" /\ phase[w] = "idle"

Shown(view, c) == IF c = "labeled" THEN view.labeled ELSE c \in given[view.pr]

(* A mutation of Matched: all of the signals are asked for.                *)
MatchedAll(view, triggers) == \A c \in triggers : Shown(view, c)

(* IsPRTriggered where triggers are configured: the label of the view, or  *)
(* the comments of now.                                                    *)
Matched(view, triggers) == triggers # {} => \E c \in triggers : Shown(view, c)

(* ShouldUpdatePR.                                                         *)
WantsUpdate(view) == Updating /\ Matched(view, UpdateTriggers)

(* ShouldMergePR: the head of the view, and the statuses of now.           *)
WantsMerge(view) == Matched(view, MergeTriggers) /\ view.head \in passing

(* The loop goes on with the next pull request.                            *)
Continue(w) == Goto(w, "loop", [task[w] EXCEPT !.view = NoView, !.head = {}])

(* Nothing was updated: the same event may merge.                          *)
NotUpdated(w, t) == IF Merges(t.event) THEN Goto(w, "decide", [t EXCEPT !.head = {}])
                    ELSE Goto(w, "loop", [t EXCEPT !.view = NoView, !.head = {}])

Consider(w, t) ==
    IF Updates(t.event) /\ WantsUpdate(t.view) THEN Goto(w, "get", t) ELSE NotUpdated(w, t)

(* A mutation of NextListed: the loop does not get on.                     *)
NextListedAgain(w) ==
    /\ Looping(w)
    /\ \E s \in task[w].listed : Consider(w, [task[w] EXCEPT !.view = s])
    /\ UNCHANGED <<landingVars, given, passing, queue, lost>>

NextListed(w) ==
    /\ Looping(w)
    /\ \E s \in task[w].listed :
         Consider(w, [task[w] EXCEPT !.listed = @ \ {s}, !.view = s])
    /\ UNCHANGED <<landingVars, given, passing, queue, lost>>

NextNumber(w) ==
    /\ Looping(w)
    /\ \E p \in task[w].todo :
         /\ Consider(w, [task[w] EXCEPT !.todo = @ \ {p}, !.view = Now(p)])
         /\ Looks(task[w], {p})
    /\ UNCHANGED <<landingVars, given, passing, queue>>

LoopEnds(w) ==
    /\ Looping(w)
    /\ Remaining(w) = {}
    /\ End(w)
    /\ UNCHANGED <<landingVars, given, passing, queue, lost>>

(* A client, a list, a pull request or a configuration cannot be had: the  *)
(* handler returns, and leaves the rest of its loop.  For a push there is  *)
(* one configuration, fetched before the loop.                             *)
Return(w) ==
    /\ "api" \in Mishaps
    /\ \/ at[w] = "list"
       \/ Looping(w) /\ Remaining(w) # {} /\ task[w].event.kind # "push"
    /\ End(w)
    /\ Misses(Remaining(w), Wakes(task[w].event))
    /\ UNCHANGED <<landingVars, given, passing, queue>>

-----------------------------------------------------------------------------
(* UpdatePR.                                                               *)

(* The pull request is read again.                                         *)
GetForUpdate(w) ==
    /\ at[w] = "get"
    /\ LET t == task[w]
           p == t.view.pr
       IN  IF Closed(p) \/ HeadOf[p] \in Forks THEN NotUpdated(w, t)
           ELSE Goto(w, "compare", [t EXCEPT !.head = tip[HeadOf[p]]])
    /\ UNCHANGED <<landingVars, given, passing, queue, lost>>

CompareCommits(w) ==
    /\ at[w] = "compare"
    /\ LET t == task[w]
           base == BaseOf[t.view.pr]
       IN  /\ base \in exists
           /\ IF tip[base] \subseteq t.head THEN NotUpdated(w, t) ELSE Goto(w, "update", t)
    /\ UNCHANGED <<landingVars, given, passing, queue, lost>>

(* A mutation of UpdateBranch: head and base are swapped in the request.   *)
UpdateBranchSwapped(w) ==
    /\ at[w] = "update"
    /\ LET head == HeadOf[task[w].view.pr]
           base == BaseOf[task[w].view.pr]
       IN  /\ Continue(w)
           /\ MergeInto(base, head) /\ Moves(base)
    /\ UNCHANGED <<phase, job, given, passing>>

(* The merge of the base into the head: 201, or 204 when there is nothing  *)
(* to merge any more, which counts as an update too.                       *)
UpdateBranch(w) ==
    /\ at[w] = "update"
    /\ LET t == task[w]
           head == HeadOf[t.view.pr]
           base == BaseOf[t.view.pr]
       IN  /\ {head, base} \subseteq exists
           /\ mergeable[t.view.pr] # "conflict"
           /\ \/ Continue(w)
              \/ ("transport" \in Mishaps /\ NotUpdated(w, t))
           /\ IF tip[base] \subseteq tip[head] THEN UNCHANGED <<ghVars, queue, lost>>
              ELSE MergeInto(head, base) /\ Moves(head)
    /\ UNCHANGED <<phase, job, given, passing>>

(* A call of UpdatePR fails, or GitHub finds a conflict, as it may while   *)
(* it has not said that there is none: the error is logged.                *)
UpdateFails(w) ==
    /\ at[w] \in {"get", "compare", "update"}
    /\ LET p == task[w].view.pr
       IN  /\ \/ "api" \in Mishaps
              \/ at[w] # "get" /\ ~ {HeadOf[p], BaseOf[p]} \subseteq exists
              \/ at[w] = "update" /\ mergeable[p] # "clean"
           /\ NotUpdated(w, task[w])
           /\ Misses({p}, {"update"})
    /\ UNCHANGED <<landingVars, given, passing, queue>>

-----------------------------------------------------------------------------
(* ProcessPullRequest.                                                     *)

(* Whether there is a merge is decided; MergePR runs if there is.  The     *)
(* method may depend on the commits.                                       *)
ProcessPullRequest(w) ==
    /\ at[w] = "decide"
    /\ LET v == task[w].view
       IN  IF WantsMerge(v)
             THEN \E method \in MergeMethods :
                    TakeUp(w, v.pr, v.head, method,
                           DeleteAfterMerge /\ HeadOf[v.pr] \notin Forks)
             ELSE UNCHANGED landingVars
    /\ Continue(w)
    /\ UNCHANGED <<given, passing, queue, lost>>

ProcessFails(w) ==
    /\ "api" \in Mishaps
    /\ at[w] = "decide"
    /\ Continue(w)
    /\ Misses({task[w].view.pr}, {"merge"})
    /\ UNCHANGED <<landingVars, given, passing, queue>>

(* GitHub carries the merge of job j out.  For a fast forward it is asked  *)
(* to move the base, whatever has become of the pull request by then.      *)
Accepts(j) ==
    /\ ReviewRequired => "pull_request_review" \in given[j.pr]
    /\ IF j.method = "ff-only"
         THEN BaseOf[j.pr] \in exists /\ tip[BaseOf[j.pr]] \subseteq j.head
         ELSE Open(j.pr) /\ mergeable[j.pr] # "conflict"

Merge(w) ==
    /\ Land(w)
    /\ Accepts(job[w])
    /\ phase'[w] = "merging" => "transport" \in Mishaps
    /\ phase'[w] = "idle" => ~ job[w].deletes
    /\ Moves(BaseOf[job[w].pr])
    /\ UNCHANGED <<given, passing, at, task>>

(* MergePR ends without a merge that it knows of: not while GitHub says    *)
(* that it would carry it out, unless calls fail.                          *)
GiveUp(w) ==
    /\ Abandon(w)
    /\ LET p == job[w].pr
       IN  /\ \/ Mishaps \cap {"api", "transport"} # {}
              \/ ~ Accepts(job[w]) \/ ~ Open(p) \/ mergeable[p] # "clean"
           /\ IF Open(p) THEN Misses({p}, {"merge"}) ELSE UNCHANGED lost
    /\ UNCHANGED <<given, passing, handlerVars>>

AttemptDelete(w) ==
    /\ \/ DeleteBranch(w) /\ OpenOnto(HeadOf[job[w].pr]) = {}
       \/ KeepBranch(w)
    /\ UNCHANGED <<given, passing, handlerVars, lost>>

(* DeleteHead gets no answer and panics: the scheduler recovers, but the   *)
(* rest of the loop is gone.                                               *)
Panic(w) ==
    /\ "transport" \in Mishaps
    /\ DeleteBranch(w) \/ KeepBranch(w)
    /\ End(w)
    /\ Misses(Remaining(w), Wakes(task[w].event))
    /\ UNCHANGED <<given, passing, queue>>

-----------------------------------------------------------------------------
(* Steps of others, with the events they send.                             *)

Opens(p) ==
    /\ OpenPR(p)
    /\ Deliver(<<[kind |-> "opened", prs |-> {p}]>>)
    /\ UNCHANGED <<phase, job, given, passing, at, task>>

Quiet(p) ==
    /\ ClosePR(p) \/ DetectMerged(p) \/ ComputeMergeable(p)
    /\ UNCHANGED <<phase, job, given, passing, handlerVars, lost>>

Pushes(c) ==
    /\ Push(PushedTo[c], c)
    /\ Moves(PushedTo[c])
    /\ UNCHANGED <<phase, job, given, passing, at, task>>

UpdateByUser(p) ==
    /\ UserUpdatesBranch(p)
    /\ Moves(HeadOf[p])
    /\ UNCHANGED <<phase, job, given, passing, at, task>>

Give(p, c) ==
    /\ Open(p)
    /\ c \in Relevant \ given[p]
    /\ given' = [given EXCEPT ![p] = @ \cup {c}]
    /\ Deliver(<<[kind |-> c, prs |-> {p}]>>)
    /\ UNCHANGED <<landingVars, passing, at, task>>

(* The required check succeeds for the head of p.  GitHub names no pull    *)
(* request from a fork in the event of a check run.                        *)
Report(p) ==
    /\ tip[HeadOf[p]] \notin passing \cup {{}}
    /\ LET sha == tip[HeadOf[p]]
           named == {q \in PRs : Open(q) /\ tip[HeadOf[q]] = sha /\ HeadOf[q] \notin Forks}
       IN  /\ passing' = passing \cup {sha}
           /\ Deliver(<<IF RequiredCheck = "status" THEN [kind |-> "status", sha |-> sha]
                        ELSE [kind |-> "check_run", prs |-> named]>>)
    /\ UNCHANGED <<landingVars, given, at, task>>

(* The process is restarted: the queue and the tasks were in memory.       *)
Restart ==
    /\ "restart" \in Mishaps
    /\ StopAll
    /\ queue' = <<>>
    /\ at' = [w \in Workers |-> "idle"]
    /\ task' = [w \in Workers |-> NoTask]
    /\ lost' = PRs \X {"merge", "update"}
    /\ UNCHANGED <<given, passing>>

Handle(w) ==
    \/ Take(w) \/ ListPage(w) \/ NextListed(w) \/ NextNumber(w) \/ LoopEnds(w) \/ Return(w)
    \/ GetForUpdate(w) \/ CompareCommits(w) \/ UpdateBranch(w) \/ UpdateFails(w)
    \/ ProcessPullRequest(w) \/ ProcessFails(w)
    \/ Merge(w) \/ GiveUp(w) \/ AttemptDelete(w) \/ Panic(w)

BulldozerNext ==
    \/ \E w \in Workers : Handle(w)
    \/ \E p \in PRs : \/ Opens(p) \/ Quiet(p) \/ UpdateByUser(p) \/ Report(p)
                      \/ \E c \in Conditions : Give(p, c)
    \/ \E c \in Changes : Pushes(c)
    \/ Restart

(* Calls return or fail, and a worker takes an event when there is one.    *)
BulldozerSpec ==
    /\ BulldozerInit
    /\ [][BulldozerNext]_bulldozerVars
    /\ \A w \in Workers : WF_bulldozerVars(Handle(w))

-----------------------------------------------------------------------------
(* Properties.                                                             *)

AtRest == queue = <<>> /\ \A w \in Workers : at[w] = "idle"

(* All that keeps p from being merged is that nobody does it.              *)
Ready(p) ==
    /\ Open(p) /\ ~ Contained(p)
    /\ MergeTriggers = {} \/ MergeTriggers \cap given[p] # {}
    /\ ReviewRequired => "pull_request_review" \in given[p]
    /\ tip[HeadOf[p]] \in passing
    /\ mergeable[p] = "clean"

(* No wake-up is missed: when all events are handled, a pull request that  *)
(* is ready is one that since Bulldozer last looked at it was in an event  *)
(* that was dropped, failed or was lost in a restart, or had a merge       *)
(* refused or given up.  A pull request from a fork needs a status, as no  *)
(* check run names it.                                                     *)
NoMergeIsMissed ==
    AtRest => \A p \in PRs :
        /\ Ready(p)
        /\ HeadOf[p] \in Forks => RequiredCheck = "status"
        => <<p, "merge">> \in lost

(* When all events are handled, an open pull request that is to be updated *)
(* without or for its label has all of its base, or the update failed or   *)
(* its event was lost.  That a comment that asks for updates only takes    *)
(* effect later is documented (README.md:315-330).                         *)
NoUpdateIsMissed ==
    AtRest /\ Updating /\ ~ DisableUpdateFeature =>
        \A p \in PRs :
            /\ Open(p) /\ HeadOf[p] \notin Forks
            /\ UpdateTriggers = {} \/ "labeled" \in UpdateTriggers \cap given[p]
            => tip[BaseOf[p]] \subseteq tip[HeadOf[p]] \/ <<p, "update">> \in lost

(* Every event is handled, and the handlers come to an end: an update,     *)
(* which is itself an event, does not set off updates for ever.            *)
EventsAreHandled == []<>AtRest

(* Whatever is dropped, fails or is started again, the handlers do to the  *)
(* repository what module Landing promises and nothing else: updates merge *)
(* the base of an opened pull request into its head and no other branch    *)
(* into another, and a merge is one landing and at most one deletion.      *)
ImplementsLanding == LandingSpec
=============================================================================
