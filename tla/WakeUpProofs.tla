---------------------------- MODULE WakeUpProofs ----------------------------
(***************************************************************************)
(* No wake-up is missed (module Bulldozer), for any pull requests, pages,  *)
(* workers, queue and configuration.  Whoever has something to wait for is *)
(* in an event that is queued, in a task that will get to it, in a merge,  *)
(* or is recorded as lost: that is inductive, and at rest only the last of *)
(* the four is left.                                                       *)
(***************************************************************************)
EXTENDS BulldozerProofs

Whats == {"merge", "update"}

ReadyToMerge(p) ==
    /\ Open(p) /\ ~ Contained(p)
    /\ MergeTriggers = {} \/ MergeTriggers \cap given[p] # {}
    /\ ReviewRequired => "pull_request_review" \in given[p]
    /\ tip[HeadOf[p]] \in passing
    /\ HeadOf[p] \in Forks => RequiredCheck = "status"

ToBeUpdated(p) ==
    /\ Updating /\ ~ DisableUpdateFeature
    /\ Open(p) /\ HeadOf[p] \notin Forks
    /\ UpdateTriggers = {} \/ "labeled" \in UpdateTriggers \cap given[p]
    /\ ~ (tip[BaseOf[p]] \subseteq tip[HeadOf[p]])

Wanted(p, what) ==
    (what = "merge" /\ ReadyToMerge(p)) \/ (what = "update" /\ ToBeUpdated(p))

(* Event e leads to p, and nothing that happens to p before it is handled  *)
(* changes that without another event.                                     *)
Stirs(e, p, what) ==
    /\ what \in Wakes(e)
    /\ e.kind = "push" => BaseOf[p] = e.branch
    /\ e.kind = "status" => what = "merge" /\ e.sha = tip[HeadOf[p]]
    /\ ~ Lists(e) => p \in e.prs

TriggersFor(what) == IF what = "merge" THEN MergeTriggers ELSE UpdateTriggers

(* Snapshot s still says of p what there is to know.                       *)
Fits(s, p, what) ==
    /\ s.pr = p
    /\ Matched(s, TriggersFor(what))
    /\ what = "merge" => s.head = tip[HeadOf[p]]

(* p is on a page that task t has not seen, or would be noted as missed.   *)
ToBeListed(t, p, what) ==
    /\ Stirs(t.event, p, what)
    /\ t.page = 1 \/ (p \in t.present /\ \A s \in t.listed : s.pr # p)

(* The loop of task t will get to p.                                       *)
InLoop(t, p, what) ==
    /\ what \in Wakes(t.event)
    /\ p \in t.todo \/ \E s \in t.listed : Fits(s, p, what)

(* Task t has got to p.                                                    *)
InView(t, p, what) ==
    /\ what \in Wakes(t.event)
    /\ Fits(t.view, p, what)

Reaches(stage, t, p, what) ==
    \/ stage = "list" /\ ToBeListed(t, p, what)
    \/ stage # "idle" /\ InLoop(t, p, what)
    \/ stage \in {"get", "compare", "update"} /\ InView(t, p, what)
    \/ stage = "decide" /\ what = "merge" /\ InView(t, p, what)

MergesNow(w, p, what) ==
    /\ what = "merge"
    /\ phase[w] = "merging"
    /\ job[w].pr = p
    /\ job[w].head = tip[HeadOf[p]]

Queued(p, what) == \E i \in 1 .. Len(queue) : Stirs(queue[i], p, what)

Pending(p, what) ==
    \/ <<p, what>> \in lost
    \/ Queued(p, what)
    \/ \E w \in Workers : Reaches(at[w], task[w], p, what) \/ MergesNow(w, p, what)

Woken == \A p \in PRs, what \in Whats : Wanted(p, what) => Pending(p, what)

(* What a handler remembers of a list and of the head that it compares.    *)
TaskInv(stage, t) ==
    /\ stage = "list" => Lists(t.event) /\ t.page >= 1 /\ (t.page = 1 => t.listed = {})
    /\ stage \in {"compare", "update"} =>
         t.view.head \subseteq t.head /\ t.head \subseteq tip[HeadOf[t.view.pr]]
    /\ stage = "update" => ~ (tip[BaseOf[t.view.pr]] \subseteq t.head)

Tasks == \A w \in Workers : TaskInv(at[w], task[w])

WInv == IInv /\ Tasks /\ Woken

-----------------------------------------------------------------------------
(* At rest only what is recorded as lost is pending.                       *)

LEMMA WokenMeans == WInv => NoMergeIsMissed /\ NoUpdateIsMissed
<1> SUFFICES ASSUME WInv, AtRest
             PROVE  \A p \in PRs, what \in Whats : Wanted(p, what) => <<p, what>> \in lost
  <2>1. ASSUME \A p \in PRs, what \in Whats : Wanted(p, what) => <<p, what>> \in lost
        PROVE  NoMergeIsMissed
      BY <2>1 DEF NoMergeIsMissed, Ready, Wanted, ReadyToMerge, Whats
  <2>2. ASSUME \A p \in PRs, what \in Whats : Wanted(p, what) => <<p, what>> \in lost
        PROVE  NoUpdateIsMissed
      BY <2>2 DEF NoUpdateIsMissed, Wanted, ToBeUpdated, Whats
  <2>3. ~ AtRest => NoMergeIsMissed /\ NoUpdateIsMissed
      BY DEF NoMergeIsMissed, NoUpdateIsMissed
  <2> QED
      BY <2>1, <2>2, <2>3
<1> SUFFICES ASSUME NEW p \in PRs, NEW what \in Whats, Wanted(p, what)
             PROVE  <<p, what>> \in lost
    OBVIOUS
<1>1. Pending(p, what)
    BY DEF WInv, Woken
<1>2. ~ Queued(p, what)
  <2>1. queue = <<>>
      BY DEF AtRest
  <2>2. Len(queue) = 0
      BY <2>1
  <2> QED
      BY <2>2 DEF Queued
<1>3. ASSUME NEW w \in Workers
      PROVE  ~ Reaches(at[w], task[w], p, what) /\ ~ MergesNow(w, p, what)
  <2>1. at[w] = "idle" /\ phase[w] = "idle"
      BY DEF AtRest, WInv, IInv, WorkersInv
  <2> QED
      BY <2>1 DEF Reaches, MergesNow
<1> QED
    BY <1>1, <1>2, <1>3 DEF Pending

-----------------------------------------------------------------------------
(* What a step leaves pending.                                             *)

(* What a snapshot of p says stays true: the head, for a merge, and the    *)
(* labels and comments.                                                    *)
Fresh(p, what) ==
    /\ given[p] \subseteq given'[p]
    /\ what = "merge" => tip'[HeadOf[p]] = tip[HeadOf[p]]

LEMMA FreshKeeps ==
    ASSUME NEW p, NEW what, Fresh(p, what)
    PROVE  /\ \A e : Stirs(e, p, what) => Stirs(e, p, what)'
           /\ \A s : Fits(s, p, what) => Fits(s, p, what)'
           /\ \A t : InLoop(t, p, what) => InLoop(t, p, what)'
           /\ \A t : InView(t, p, what) => InView(t, p, what)'
           /\ \A stage, t : Reaches(stage, t, p, what) => Reaches(stage, t, p, what)'
<1>1. \A e : Wakes(e)' = Wakes(e) /\ Lists(e)' = Lists(e)
    BY DEF Wakes, Merges, Updates, Lists
<1>2. \A e : Stirs(e, p, what) => Stirs(e, p, what)'
    BY <1>1 DEF Stirs, Fresh
<1>3. \A s : Fits(s, p, what) => Fits(s, p, what)'
    BY DEF Fits, Fresh, Matched, Shown
<1>4. \A t : InLoop(t, p, what) => InLoop(t, p, what)'
    BY <1>1, <1>3 DEF InLoop
<1>5. \A t : InView(t, p, what) => InView(t, p, what)'
    BY <1>1, <1>3 DEF InView
<1>6. \A t : ToBeListed(t, p, what) => ToBeListed(t, p, what)'
    BY <1>2 DEF ToBeListed
<1>7. ASSUME NEW stage, NEW t, Reaches(stage, t, p, what)
      PROVE  Reaches(stage, t, p, what)'
    BY <1>4, <1>5, <1>6, <1>7 DEF Reaches
<1> QED
    BY <1>2, <1>3, <1>4, <1>5, <1>7

(* A worker that is now at this stage with this task makes p pending.      *)
LEMMA ReachesPends ==
    ASSUME NEW p, NEW what, NEW w \in Workers, NEW stage, NEW t,
           at'[w] = stage, task'[w] = t, Reaches(stage, t, p, what)'
    PROVE  Pending(p, what)'
<1>1. Reaches(at[w], task[w], p, what)'
    BY DEF Reaches, ToBeListed, InLoop, InView, Fits, Matched, Shown, Stirs
<1> QED
    BY <1>1 DEF Pending

LEMMA LostPends == ASSUME NEW p, NEW what, <<p, what>> \in lost' PROVE Pending(p, what)'
BY DEF Pending

LEMMA QueuedPends ==
    ASSUME NEW p, NEW what, NEW e, Stirs(e, p, what)',
           NEW i \in 1 .. Len(queue'), queue'[i] = e
    PROVE  Pending(p, what)'
<1>1. Stirs(queue[i], p, what)'
    BY DEF Stirs
<1> QED
    BY <1>1 DEF Pending, Queued

QueueKept == \A i \in 1 .. Len(queue) : i \in 1 .. Len(queue') /\ queue'[i] = queue[i]

(* Of the others nothing changes: what is pending stays so unless it was   *)
(* lost or up to worker w.                                                 *)
LEMMA PendingStays ==
    ASSUME NEW p, NEW what, Pending(p, what), Fresh(p, what), QueueKept,
           NEW W \in SUBSET Workers,
           \A v \in Workers \ W : /\ at'[v] = at[v] /\ task'[v] = task[v]
                                  /\ phase'[v] = phase[v] /\ job'[v] = job[v],
           <<p, what>> \in lost => Pending(p, what)',
           \A w \in W : Reaches(at[w], task[w], p, what) \/ MergesNow(w, p, what)
                            => Pending(p, what)'
    PROVE  Pending(p, what)'
<1>1. CASE Queued(p, what)
  <2>1. PICK i \in 1 .. Len(queue) : Stirs(queue[i], p, what)
      BY <1>1 DEF Queued
  <2>2. PICK e : e = queue[i]
      OBVIOUS
  <2>3. Stirs(e, p, what)'
      BY <2>1, <2>2, FreshKeeps
  <2>4. i \in 1 .. Len(queue') /\ queue'[i] = e
      BY <2>2 DEF QueueKept
  <2> QED
      BY <2>3, <2>4, QueuedPends
<1>2. ASSUME NEW v \in Workers \ W, Reaches(at[v], task[v], p, what)
      PROVE  Pending(p, what)'
  <2>1. PICK stage, t : stage = at[v] /\ t = task[v]
      OBVIOUS
  <2>2. Reaches(stage, t, p, what)'
      BY <1>2, <2>1, FreshKeeps
  <2>3. at'[v] = stage /\ task'[v] = t
      BY <2>1
  <2> QED
      BY <2>2, <2>3, ReachesPends
<1>3. ASSUME NEW v \in Workers \ W, MergesNow(v, p, what)
      PROVE  Pending(p, what)'
  <2>1. MergesNow(v, p, what)'
      BY <1>3 DEF MergesNow, Fresh
  <2> QED
      BY <2>1 DEF Pending
<1> QED
    BY <1>1, <1>2, <1>3 DEF Pending

-----------------------------------------------------------------------------
(* What is known of tasks stays true.                                      *)

LEMMA TaskInvPersists ==
    ASSUME Grows, NEW stage, NEW t, WorkerInv(stage, t), TaskInv(stage, t)
    PROVE  TaskInv(stage, t)'
<1>1. Lists(t.event)' = Lists(t.event)
    BY DEF Lists
<1>2. ASSUME stage \in {"compare", "update"}
      PROVE  /\ tip[HeadOf[t.view.pr]] \subseteq tip'[HeadOf[t.view.pr]]
             /\ tip[BaseOf[t.view.pr]] \subseteq tip'[BaseOf[t.view.pr]]
  <2>1. t.view.pr \in PRs
      BY <1>2 DEF WorkerInv, WithView, View
  <2> QED
      BY <2>1, TopologyAssumption DEF Grows
<1> QED
    BY <1>1, <1>2 DEF TaskInv

LEMMA GotoFacts ==
    ASSUME IInv, NEW w \in Workers, NEW stage, NEW t, Goto(w, stage, t)
    PROVE  /\ at'[w] = stage /\ task'[w] = t
           /\ \A v \in Workers : v # w => at'[v] = at[v] /\ task'[v] = task[v]
BY DEF IInv, WorkersInv, Goto

LEMMA TasksGoto ==
    ASSUME WInv, Grows, NEW w \in Workers, NEW stage, NEW t, Goto(w, stage, t),
           TaskInv(stage, t)'
    PROVE  Tasks'
<1> SUFFICES ASSUME NEW v \in Workers PROVE TaskInv(at[v], task[v])'
    BY DEF Tasks
<1>1. IInv
    BY DEF WInv
<1>2. CASE v = w
  <2>1. at'[v] = stage /\ task'[v] = t
      BY <1>1, <1>2, GotoFacts
  <2> QED
      BY <2>1 DEF TaskInv, Lists
<1>3. CASE v # w
  <2>1. PICK s, r : s = at[v] /\ r = task[v]
      OBVIOUS
  <2>2. WorkerInv(s, r) /\ TaskInv(s, r)
      BY <2>1 DEF WInv, IInv, WorkersInv, Tasks
  <2>3. TaskInv(s, r)'
      BY <2>2, TaskInvPersists
  <2>4. at'[v] = s /\ task'[v] = r
      BY <1>1, <1>3, <2>1, GotoFacts
  <2> QED
      BY <2>3, <2>4 DEF TaskInv, Lists
<1> QED
    BY <1>2, <1>3

LEMMA TasksStay ==
    ASSUME WInv, Grows, UNCHANGED <<at, task>>
    PROVE  Tasks'
<1> SUFFICES ASSUME NEW v \in Workers PROVE TaskInv(at[v], task[v])'
    BY DEF Tasks
<1>1. PICK s, r : s = at[v] /\ r = task[v]
    OBVIOUS
<1>2. WorkerInv(s, r) /\ TaskInv(s, r)
    BY <1>1 DEF WInv, IInv, WorkersInv, Tasks
<1>3. TaskInv(s, r)'
    BY <1>2, TaskInvPersists
<1> QED
    BY <1>1, <1>3 DEF TaskInv, Lists

(* At the other stages there is nothing to know.                           *)
LEMMA TasksGotoPlain ==
    ASSUME WInv, Grows, NEW w \in Workers, NEW stage, NEW t, Goto(w, stage, t),
           stage \notin {"list", "compare", "update"}
    PROVE  Tasks'
<1>1. TaskInv(stage, t)'
    BY DEF TaskInv
<1> QED
    BY <1>1, TasksGoto

-----------------------------------------------------------------------------
(* Steps and what is wanted after them.                                    *)

(* Nothing is wanted that was not, and what is known of heads stays true.  *)
LEMMA NoNewWants ==
    ASSUME UNCHANGED <<tip, given, passing>>, NEW p, NEW what,
           Open(p)' => Open(p), Wanted(p, what)'
    PROVE  Wanted(p, what) /\ Fresh(p, what)
BY DEF Wanted, ReadyToMerge, ToBeUpdated, Contained, Fresh

(* A worker goes on: p is pending unless the worker forgot it.             *)
LEMMA HandlerPends ==
    ASSUME WInv, NEW p \in PRs, NEW what \in Whats, Wanted(p, what), Fresh(p, what), QueueKept,
           NEW w \in Workers, NEW stage, NEW t, Goto(w, stage, t), phase[w] = "idle",
           \A v \in Workers : v # w => phase'[v] = phase[v] /\ job'[v] = job[v],
           <<p, what>> \in lost => <<p, what>> \in lost' \/ Reaches(stage, t, p, what),
           Reaches(at[w], task[w], p, what) =>
               <<p, what>> \in lost' \/ Reaches(stage, t, p, what) \/ MergesNow(w, p, what)'
    PROVE  Pending(p, what)'
<1>1. at'[w] = stage /\ task'[w] = t
      /\ \A v \in Workers : v # w => at'[v] = at[v] /\ task'[v] = task[v]
    BY GotoFacts DEF WInv
<1>2. Reaches(stage, t, p, what) => Pending(p, what)'
    BY <1>1, FreshKeeps, ReachesPends
<1>3. <<p, what>> \in lost' => Pending(p, what)'
    BY LostPends
<1>4. MergesNow(w, p, what)' => Pending(p, what)'
    BY DEF Pending
<1>5. ~ MergesNow(w, p, what)
    BY DEF MergesNow
<1>6. Pending(p, what)
    BY DEF WInv, Woken
<1>7. {w} \in SUBSET Workers /\ \A v \in Workers \ {w} : v # w
    OBVIOUS
<1> QED
    BY <1>1, <1>2, <1>3, <1>4, <1>5, <1>6, <1>7, PendingStays

-----------------------------------------------------------------------------
(* Events.                                                                 *)

LEMMA WakesFacts ==
    /\ \A e : "merge" \in Wakes(e) <=> e.kind # "push"
    /\ \A e : "update" \in Wakes(e) <=> Updates(e)
    /\ \A e : Wakes(e)' = Wakes(e) /\ Lists(e)' = Lists(e)
BY DEF Wakes, Merges, Updates, Lists

(* An event that is delivered finds room, or what it was about is lost.    *)
LEMMA DeliverFacts ==
    ASSUME IInv, NEW events \in Seq(Event), Deliver(events)
    PROVE  /\ QueueKept
           /\ lost \subseteq lost'
           /\ \A k \in 1 .. Len(events), p \in PRs, what \in Whats :
                p \in About(events[k]) /\ Stirs(events[k], p, what)' => Pending(p, what)'
<1> DEFINE accepted == Accepted(events)
           room == QueueSize - Len(queue)
<1>1. /\ queue \in Seq(Event) /\ Len(queue) \in Nat /\ Len(queue) <= QueueSize
      /\ QueueSize \in Nat /\ room \in Nat /\ Len(events) \in Nat
    BY BulldozerAssumption, LenProperties DEF IInv, QueueInv
<1>2. /\ accepted \in Seq(Event) /\ Len(accepted) \in Nat
      /\ \A k \in 1 .. Len(accepted) : accepted[k] = events[k]
  <2>1. CASE Len(events) <= room
    <3>1. accepted = events
        BY <2>1 DEF Accepted
    <3> QED
        BY <1>1, <2>1, <3>1
  <2>2. CASE ~ (Len(events) <= room)
    <3>1. accepted = SubSeq(events, 1, room)
        BY <2>2 DEF Accepted
    <3>2. \A i \in 1 .. room : i \in 1 .. Len(events)
        BY <1>1, <2>2
    <3>3. \A i \in 1 .. room : events[i] \in Event
        BY <3>2, ElementOfSeq
    <3>4. /\ accepted \in Seq(Event)
          /\ Len(accepted) = IF 1 <= room THEN room - 1 + 1 ELSE 0
          /\ \A i \in 1 .. room - 1 + 1 : accepted[i] = events[1 + i - 1]
        BY <1>1, <3>1, <3>3, SubSeqProperties
    <3>5. Len(accepted) = room
        BY <1>1, <3>4
    <3>6. ASSUME NEW k \in 1 .. Len(accepted)
          PROVE  accepted[k] = events[k]
      <4>1. k \in 1 .. room - 1 + 1 /\ 1 + k - 1 = k
          BY <1>1, <3>5
      <4> QED
          BY <3>4, <4>1
    <3> QED
        BY <1>1, <3>4, <3>5, <3>6
  <2> QED
      BY <2>1, <2>2
<1>3. queue' = queue \o accepted
    BY DEF Deliver
<1>4. lost' = lost \cup UNION {About(events[i]) \X Wakes(events[i]) :
                                 i \in DOMAIN events \ DOMAIN accepted}
    BY DEF Deliver
<1> HIDE DEF accepted
<1>5. /\ Len(queue') = Len(queue) + Len(accepted)
      /\ \A i \in 1 .. Len(queue) + Len(accepted) :
            queue'[i] = IF i <= Len(queue) THEN queue[i] ELSE accepted[i - Len(queue)]
    BY <1>1, <1>2, <1>3, ConcatProperties
<1>6. QueueKept
  <2>1. ASSUME NEW i \in 1 .. Len(queue)
        PROVE  i \in 1 .. Len(queue') /\ queue'[i] = queue[i]
    <3>1. i \in 1 .. Len(queue) + Len(accepted) /\ i <= Len(queue)
        BY <1>1, <1>2
    <3> QED
        BY <1>5, <3>1
  <2> QED
      BY <2>1 DEF QueueKept
<1>7. ASSUME NEW k \in 1 .. Len(events), NEW p \in PRs, NEW what \in Whats,
             p \in About(events[k]), Stirs(events[k], p, what)'
      PROVE  Pending(p, what)'
  <2>1. PICK e : e = events[k]
      OBVIOUS
  <2>2. Stirs(e, p, what)' /\ p \in About(e)
      BY <1>7, <2>1 DEF Stirs, Lists, Wakes, Merges, Updates
  <2>3. CASE k \in 1 .. Len(accepted)
    <3>1. PICK i : i = Len(queue) + k
        OBVIOUS
    <3>2. /\ i \in 1 .. Len(queue) + Len(accepted) /\ ~ (i <= Len(queue))
          /\ i - Len(queue) = k
        BY <1>1, <1>2, <2>3, <3>1
    <3>3. i \in 1 .. Len(queue') /\ queue'[i] = e
        BY <1>2, <1>5, <2>1, <2>3, <3>2
    <3> QED
        BY <2>2, <3>3, QueuedPends
  <2>4. CASE k \notin 1 .. Len(accepted)
    <3>1. k \in DOMAIN events \ DOMAIN accepted
        BY <1>2, <2>4, LenProperties
    <3>2. what \in Wakes(e)
        BY <2>2 DEF Stirs, Wakes, Merges, Updates
    <3>3. <<p, what>> \in About(e) \X Wakes(e)
        BY <2>2, <3>2
    <3>4. <<p, what>> \in lost'
        BY <1>4, <2>1, <3>1, <3>3
    <3> QED
        BY <3>4, LostPends
  <2> QED
      BY <2>3, <2>4
<1> QED
    BY <1>4, <1>6, <1>7

(* One event.                                                              *)
LEMMA OneEventFacts ==
    ASSUME IInv, NEW e \in Event, Deliver(<<e>>)
    PROVE  /\ QueueKept
           /\ lost \subseteq lost'
           /\ \A p \in PRs, what \in Whats :
                p \in About(e) /\ Stirs(e, p, what)' => Pending(p, what)'
<1>1. PICK events : events = <<e>>
    OBVIOUS
<1>2. events \in Seq(Event) /\ 1 \in 1 .. Len(events) /\ events[1] = e
    BY <1>1
<1>3. Deliver(events)
    BY <1>1
<1>4. ASSUME NEW p \in PRs, NEW what \in Whats, p \in About(e), Stirs(e, p, what)'
      PROVE  Pending(p, what)'
  <2>1. p \in About(events[1]) /\ Stirs(events[1], p, what)'
      BY <1>2, <1>4 DEF Stirs, Lists, Wakes, Merges, Updates
  <2> QED
      BY <1>2, <1>3, <2>1, DeliverFacts
<1> QED
    BY <1>2, <1>3, <1>4, DeliverFacts

(* Branch b moves: what is wanted of its pull requests now is in the       *)
(* events, and of the others nothing changes.                              *)
LEMMA MovesCarry ==
    ASSUME IInv, NEW b \in Branches, Moves(b), Grows, UNCHANGED <<given, passing>>,
           \A c \in Branches : c # b => tip'[c] = tip[c]
    PROVE  /\ QueueKept
           /\ lost \subseteq lost'
           /\ \A p \in PRs, what \in Whats :
                Wanted(p, what)' /\ (Open(p)' => Open(p))
                => Pending(p, what)' \/ (Wanted(p, what) /\ Fresh(p, what))
<1>1. PICK prs : prs = {p \in PRs : Open(p) /\ HeadOf[p] = b}
    OBVIOUS
<1>2. PICK synchronize : synchronize = [kind |-> "synchronize", prs |-> prs]
    OBVIOUS
<1>3. PICK push : push = [kind |-> "push", branch |-> b]
    OBVIOUS
<1>4. /\ synchronize \in Event /\ synchronize.prs = prs
      /\ synchronize.kind = "synchronize"
  <2>1. "synchronize" \in PullRequestEvents /\ prs \in SUBSET PRs
      BY <1>1 DEF PullRequestEvents
  <2> QED
      BY <1>2, <2>1, EventFacts
<1>5. push \in Event /\ push.kind = "push" /\ push.branch = b
    BY <1>3, EventFacts
<1>9. Deliver((IF prs = {} THEN <<>> ELSE <<synchronize>>) \o <<push>>)
    BY <1>1, <1>2, <1>3 DEF Moves
<1>10. PICK events : events = (IF prs = {} THEN <<>> ELSE <<synchronize>>) \o <<push>>
    OBVIOUS
<1>11. /\ events \in Seq(Event)
       /\ \E k \in 1 .. Len(events) : events[k] = push
       /\ prs # {} => \E k \in 1 .. Len(events) : events[k] = synchronize
  <2>1. CASE prs = {}
    <3>1. events = <<push>>
        BY <1>5, <1>10, <2>1
    <3>2. events \in Seq(Event) /\ 1 \in 1 .. Len(events) /\ events[1] = push
        BY <1>5, <3>1
    <3> QED
        BY <2>1, <3>2
  <2>2. CASE prs # {}
    <3>1. events = <<synchronize>> \o <<push>>
        BY <1>10, <2>2
    <3>2. /\ <<synchronize>> \in Seq(Event) /\ Len(<<synchronize>>) = 1
          /\ <<synchronize>>[1] = synchronize
        BY <1>4
    <3>3. <<push>> \in Seq(Event) /\ Len(<<push>>) = 1 /\ <<push>>[1] = push
        BY <1>5
    <3>4. /\ events \in Seq(Event) /\ Len(events) = 2
          /\ events[1] = synchronize /\ events[2] = push
        BY <3>1, <3>2, <3>3, ConcatProperties
    <3>5. 1 \in 1 .. Len(events) /\ 2 \in 1 .. Len(events)
        BY <3>4
    <3> QED
        BY <3>4, <3>5
  <2> QED
      BY <2>1, <2>2
<1>12. ASSUME NEW p \in PRs, NEW what \in Whats, NEW e \in {push, synchronize},
              e = synchronize => prs # {}, p \in About(e), Stirs(e, p, what)'
       PROVE  Pending(p, what)'
  <2>1. PICK k \in 1 .. Len(events) : events[k] = e
      BY <1>11, <1>12
  <2>2. p \in About(events[k]) /\ Stirs(events[k], p, what)'
      BY <1>12, <2>1 DEF Stirs, Lists, Wakes, Merges, Updates
  <2> QED
      BY <1>9, <1>10, <1>11, <2>2, DeliverFacts
<1>13. ASSUME NEW p \in PRs, Wanted(p, "merge")', Open(p)' => Open(p)
       PROVE  Pending(p, "merge")' \/ (Wanted(p, "merge") /\ Fresh(p, "merge"))
  <2>1. ReadyToMerge(p)' /\ Open(p)
      BY <1>13 DEF Wanted, ReadyToMerge
  <2>2. CASE HeadOf[p] = b
    <3>1. p \in prs /\ prs # {}
        BY <1>1, <2>1, <2>2
    <3>2. Stirs(synchronize, p, "merge")'
        BY <1>4, <3>1 DEF Stirs, Lists, Wakes, Merges
    <3>3. p \in About(synchronize)
        BY <1>4, <3>1 DEF About, Lists
    <3> QED
        BY <1>12, <3>1, <3>2, <3>3 DEF Whats
  <2>3. CASE HeadOf[p] # b
    <3>1. tip'[HeadOf[p]] = tip[HeadOf[p]] /\ tip[BaseOf[p]] \subseteq tip'[BaseOf[p]]
        BY <2>3, TopologyAssumption DEF Grows
    <3>2. ReadyToMerge(p)
        BY <2>1, <3>1 DEF ReadyToMerge, Contained
    <3> QED
        BY <3>1, <3>2 DEF Wanted, Fresh
  <2> QED
      BY <2>2, <2>3
<1>14. ASSUME NEW p \in PRs, Wanted(p, "update")', Open(p)' => Open(p)
       PROVE  Pending(p, "update")' \/ (Wanted(p, "update") /\ Fresh(p, "update"))
  <2>1. ToBeUpdated(p)' /\ Open(p)
      BY <1>14 DEF Wanted, ToBeUpdated
  <2>2. CASE BaseOf[p] = b
    <3>1. Stirs(push, p, "update")'
        BY <1>5, <2>1, <2>2 DEF Stirs, Lists, Wakes, Updates, ToBeUpdated
    <3>2. p \in About(push)
        BY <1>5, <2>2 DEF About, Lists, Matches
    <3>3. push # synchronize
        BY <1>4, <1>5
    <3> QED
        BY <1>12, <3>1, <3>2, <3>3 DEF Whats
  <2>3. CASE BaseOf[p] # b
    <3>1. tip'[BaseOf[p]] = tip[BaseOf[p]] /\ tip[HeadOf[p]] \subseteq tip'[HeadOf[p]]
        BY <2>3, TopologyAssumption DEF Grows
    <3>2. ToBeUpdated(p)
        BY <2>1, <3>1 DEF ToBeUpdated
    <3> QED
        BY <3>2 DEF Wanted, Fresh
  <2> QED
      BY <2>2, <2>3
<1>15. QueueKept /\ lost \subseteq lost'
    BY <1>9, <1>10, <1>11, DeliverFacts
<1> QED
    BY <1>13, <1>14, <1>15 DEF Whats

-----------------------------------------------------------------------------
(* The loop goes on with task t: what it has still to get to it keeps, and *)
(* what it has got to it does not drop.                                    *)

Plain == {"loop", "get", "decide"}

LEMMA NotUpdatedGoes ==
    ASSUME NEW w, NEW t \in Task, NotUpdated(w, t)
    PROVE  \E stage, r :
             /\ stage \in Plain
             /\ Goto(w, stage, r)
             /\ \A p, what : InLoop(t, p, what) => Reaches(stage, r, p, what)
             /\ \A p : InView(t, p, "merge") => Reaches(stage, r, p, "merge")
<1>1. CASE Merges(t.event)
  <2>1. PICK r : r = [t EXCEPT !.head = {}]
      OBVIOUS
  <2>2. /\ r.event = t.event /\ r.listed = t.listed /\ r.todo = t.todo
        /\ r.view = t.view
      BY <2>1 DEF Task
  <2>3. Goto(w, "decide", r)
      BY <1>1, <2>1 DEF NotUpdated
  <2>4. \A p, what : InLoop(t, p, what) => Reaches("decide", r, p, what)
      BY <2>2 DEF InLoop, Reaches
  <2>5. \A p : InView(t, p, "merge") => Reaches("decide", r, p, "merge")
      BY <2>2 DEF InView, Reaches
  <2> QED
      BY <2>3, <2>4, <2>5 DEF Plain
<1>2. CASE ~ Merges(t.event)
  <2>1. PICK r : r = [t EXCEPT !.view = NoView, !.head = {}]
      OBVIOUS
  <2>2. r.event = t.event /\ r.listed = t.listed /\ r.todo = t.todo
      BY <2>1 DEF Task
  <2>3. Goto(w, "loop", r)
      BY <1>2, <2>1 DEF NotUpdated
  <2>4. \A p, what : InLoop(t, p, what) => Reaches("loop", r, p, what)
      BY <2>2 DEF InLoop, Reaches
  <2>5. \A p : ~ InView(t, p, "merge")
      BY <1>2 DEF InView, Wakes, Updates, Merges
  <2> QED
      BY <2>3, <2>4, <2>5 DEF Plain
<1> QED
    BY <1>1, <1>2

LEMMA ContinueGoes ==
    ASSUME NEW w, task[w] \in Task, Continue(w)
    PROVE  \E r : /\ Goto(w, "loop", r)
                  /\ \A p, what : InLoop(task[w], p, what) => Reaches("loop", r, p, what)
<1>1. PICK t : t = task[w]
    OBVIOUS
<1>2. PICK r : r = [t EXCEPT !.view = NoView, !.head = {}]
    OBVIOUS
<1>3. r.event = t.event /\ r.listed = t.listed /\ r.todo = t.todo
    BY <1>1, <1>2 DEF Task
<1>4. Goto(w, "loop", r)
    BY <1>1, <1>2 DEF Continue
<1>5. \A p, what : InLoop(t, p, what) => Reaches("loop", r, p, what)
    BY <1>3 DEF InLoop, Reaches
<1> QED
    BY <1>1, <1>4, <1>5

(* What is wanted of p is decided on a snapshot that still fits.           *)
LEMMA ConsiderGoes ==
    ASSUME NEW w, NEW t \in Task, t.view \in View, Consider(w, t)
    PROVE  \E stage, r :
             /\ stage \in Plain
             /\ Goto(w, stage, r)
             /\ \A p, what : InLoop(t, p, what) => Reaches(stage, r, p, what)
             /\ \A p \in PRs, what \in Whats :
                  Wanted(p, what) /\ InView(t, p, what) => Reaches(stage, r, p, what)
<1>1. CASE Updates(t.event) /\ WantsUpdate(t.view)
  <2>1. Goto(w, "get", t)
      BY <1>1 DEF Consider
  <2>2. \A p, what : InLoop(t, p, what) \/ InView(t, p, what) => Reaches("get", t, p, what)
      BY DEF Reaches
  <2> QED
      BY <2>1, <2>2 DEF Plain
<1>2. CASE ~ (Updates(t.event) /\ WantsUpdate(t.view))
  <2>1. NotUpdated(w, t)
      BY <1>2 DEF Consider
  <2>2. PICK stage, r :
             /\ stage \in Plain
             /\ Goto(w, stage, r)
             /\ \A p, what : InLoop(t, p, what) => Reaches(stage, r, p, what)
             /\ \A p : InView(t, p, "merge") => Reaches(stage, r, p, "merge")
      BY <2>1, NotUpdatedGoes
  <2>3. ASSUME NEW p \in PRs, Wanted(p, "update"), InView(t, p, "update")
        PROVE  FALSE
    <3>1. Updates(t.event) /\ ToBeUpdated(p) /\ Fits(t.view, p, "update")
        BY <2>3, WakesFacts DEF Wanted, InView
    <3>2. WantsUpdate(t.view)
        BY <3>1 DEF WantsUpdate, ToBeUpdated, Fits, TriggersFor
    <3> QED
        BY <1>2, <3>1, <3>2
  <2> QED
      BY <2>2, <2>3 DEF Whats
<1> QED
    BY <1>1, <1>2

LEMMA NowFits ==
    ASSUME NEW p \in PRs, NEW what \in Whats, Wanted(p, what)
    PROVE  Fits(Now(p), p, what)
<1>1. TriggersFor(what) = {} \/ TriggersFor(what) \cap given[p] # {}
    BY DEF Wanted, ReadyToMerge, ToBeUpdated, TriggersFor, Whats
<1>2. /\ Now(p).pr = p /\ Now(p).head = tip[HeadOf[p]]
      /\ "labeled" \in given[p] => Now(p).labeled
    BY DEF Now
<1>3. Matched(Now(p), TriggersFor(what))
    BY <1>1, <1>2 DEF Matched, Shown
<1> QED
    BY <1>2, <1>3 DEF Fits

(* Steps of a handler that leave the repository and the queue alone.       *)
LEMMA HandlerStep ==
    ASSUME WInv, Kept, NEW w \in Workers, NEW stage, NEW t, Goto(w, stage, t),
           UNCHANGED <<ghVars, given, passing, queue>>, phase[w] = "idle",
           TaskInv(stage, t),
           \A v \in Workers : v # w => phase'[v] = phase[v] /\ job'[v] = job[v],
           \A p \in PRs, what \in Whats : Wanted(p, what) =>
             /\ <<p, what>> \in lost => <<p, what>> \in lost' \/ Reaches(stage, t, p, what)
             /\ Reaches(at[w], task[w], p, what) =>
                  <<p, what>> \in lost' \/ Reaches(stage, t, p, what) \/ MergesNow(w, p, what)'
    PROVE  Tasks' /\ Woken'
<1>1. UNCHANGED <<tip, prState, given, passing>> /\ QueueKept
    BY DEF ghVars, QueueKept
<1>2. Woken'
  <2> SUFFICES ASSUME NEW p \in PRs, NEW what \in Whats, Wanted(p, what)'
               PROVE  Pending(p, what)'
      BY DEF Woken
  <2>1. Wanted(p, what) /\ Fresh(p, what)
      BY <1>1, NoNewWants DEF Open
  <2> QED
      BY <1>1, <2>1, HandlerPends
<1>3. Tasks'
  <2>1. TaskInv(stage, t)'
      BY <1>1 DEF TaskInv, Lists
  <2> QED
      BY <2>1, TasksGoto DEF Kept
<1> QED
    BY <1>2, <1>3

-----------------------------------------------------------------------------
(* One lemma for each action of a handler.                                 *)

LEMMA IdlePhase ==
    ASSUME WInv, NEW w \in Workers, at[w] # "loop" \/ Looping(w)
    PROVE  phase[w] = "idle"
BY DEF WInv, IInv, WorkersInv, Looping

LEMMA TakeWakes ==
    ASSUME WInv, Kept, NEW w \in Workers, Take(w)
    PROVE  Tasks' /\ Woken'
<1>1. PICK e : e = Head(queue)
    OBVIOUS
<1>2. PICK t : t = [event |-> e, listed |-> {}, todo |-> IF Lists(e) THEN {} ELSE e.prs,
                    view |-> NoView, head |-> {}, page |-> 1, present |-> {}]
    OBVIOUS
<1>3. /\ at[w] = "idle" /\ queue # <<>> /\ queue' = Tail(queue)
      /\ UNCHANGED <<landingVars, given, passing, lost>>
      /\ IF e.kind = "push" /\ DisableUpdateFeature THEN End(w)
         ELSE Goto(w, IF Lists(e) THEN "list" ELSE "loop", t)
    BY <1>1, <1>2 DEF Take
<1>4. /\ t.event = e /\ t.listed = {} /\ t.todo = IF Lists(e) THEN {} ELSE e.prs
      /\ t.page = 1
    BY <1>2
<1>5. queue \in Seq(Event) /\ Len(queue) \in Nat \ {0} /\ e = queue[1]
    BY <1>1, <1>3, LenProperties, EmptySeq DEF WInv, IInv, QueueInv
<1>6. /\ Len(queue') = Len(queue) - 1
      /\ \A i \in 1 .. Len(queue') : queue'[i] = queue[i + 1]
    BY <1>3, <1>5, HeadTailProperties
<1>7. PICK stage, r : /\ Goto(w, stage, r)
                      /\ \/ e.kind = "push" /\ DisableUpdateFeature /\ stage = "idle"
                         \/ stage = (IF Lists(e) THEN "list" ELSE "loop") /\ r = t
    BY <1>3 DEF End
<1>8. /\ at'[w] = stage /\ task'[w] = r
      /\ \A v \in Workers : v # w => at'[v] = at[v] /\ task'[v] = task[v]
    BY <1>7, GotoFacts DEF WInv
<1>9. UNCHANGED <<tip, prState, phase, job, given, passing, lost>>
    BY <1>3 DEF landingVars, ghVars
<1>10. ASSUME NEW p \in PRs, NEW what \in Whats, Stirs(e, p, what)
       PROVE  Reaches(stage, r, p, what)
  <2>1. CASE e.kind = "push" /\ DisableUpdateFeature
      BY <1>10, <2>1, WakesFacts DEF Stirs, Updates, Whats
  <2>2. CASE Lists(e) /\ stage = "list" /\ r = t
      BY <1>4, <1>10, <2>2 DEF Reaches, ToBeListed
  <2>3. CASE ~ Lists(e) /\ stage = "loop" /\ r = t
      BY <1>4, <1>10, <2>3 DEF Reaches, InLoop, Stirs
  <2> QED
      BY <1>7, <2>1, <2>2, <2>3
<1>11. Tasks'
  <2>1. TaskInv(stage, r)'
      BY <1>4, <1>7 DEF TaskInv, Lists
  <2> QED
      BY <1>7, <2>1, TasksGoto DEF Kept
<1>12. ASSUME NEW p \in PRs, NEW what \in Whats, Wanted(p, what)'
       PROVE  Pending(p, what)'
  <2>1. Wanted(p, what) /\ Fresh(p, what)
      BY <1>9, <1>12, NoNewWants DEF Open
  <2>2. CASE <<p, what>> \in lost
      BY <1>9, <2>2, LostPends
  <2>3. ASSUME NEW i \in 1 .. Len(queue), Stirs(queue[i], p, what)
        PROVE  Pending(p, what)'
    <3>1. CASE i = 1
      <4>1. Reaches(stage, r, p, what)
          BY <1>5, <1>10, <2>3, <3>1
      <4>2. Reaches(stage, r, p, what)'
          BY <2>1, <4>1, FreshKeeps
      <4> QED
          BY <1>8, <4>2, ReachesPends
    <3>2. CASE i # 1
      <4>1. PICK k : k = i - 1
          OBVIOUS
      <4>2. k \in 1 .. Len(queue') /\ k + 1 = i
          BY <1>5, <1>6, <3>2, <4>1
      <4>3. PICK x : x = queue[i]
          OBVIOUS
      <4>4. queue'[k] = x
          BY <1>6, <4>2, <4>3
      <4>5. Stirs(x, p, what)'
          BY <2>1, <2>3, <4>3, FreshKeeps
      <4> QED
          BY <4>2, <4>4, <4>5, QueuedPends
    <3> QED
        BY <3>1, <3>2
  <2>4. ASSUME NEW v \in Workers, Reaches(at[v], task[v], p, what)
        PROVE  Pending(p, what)'
    <3>1. v # w
        BY <1>3, <2>4 DEF Reaches
    <3>2. PICK s, x : s = at[v] /\ x = task[v]
        OBVIOUS
    <3>3. Reaches(s, x, p, what)'
        BY <2>1, <2>4, <3>2, FreshKeeps
    <3> QED
        BY <1>8, <3>1, <3>2, <3>3, ReachesPends
  <2>5. ASSUME NEW v \in Workers, MergesNow(v, p, what)
        PROVE  Pending(p, what)'
    <3>1. MergesNow(v, p, what)'
        BY <1>9, <2>5 DEF MergesNow
    <3> QED
        BY <3>1 DEF Pending
  <2>6. Pending(p, what)
      BY <2>1 DEF WInv, Woken
  <2> QED
      BY <2>2, <2>3, <2>4, <2>5, <2>6 DEF Pending, Queued
<1> QED
    BY <1>11, <1>12 DEF Woken

LEMMA ListPageWakes ==
    ASSUME WInv, Kept, NEW w \in Workers, ListPage(w)
    PROVE  Tasks' /\ Woken'
<1> DEFINE T == task[w]
           matching(prs) == {p \in prs : Open(p) /\ Matches(T.event, p, tip[HeadOf[p]])}
<1>1. PICK t : t = task[w]
    OBVIOUS
<1>2. PICK found : found = matching(OnPage(t.page))
    OBVIOUS
<1>3. PICK listed : listed = t.listed \cup {Now(p) : p \in found}
    OBVIOUS
<1>4. PICK present : present = IF t.page = 1 THEN matching(PRs) ELSE matching(t.present)
    OBVIOUS
<1>5. PICK missed : missed = present \ {s.pr : s \in listed}
    OBVIOUS
<1>6. PICK next : next = t.page + 1
    OBVIOUS
<1>7. PICK last : last = [t EXCEPT !.listed = listed, !.page = 1, !.present = {}]
    OBVIOUS
<1>8. PICK more : more = [t EXCEPT !.listed = listed, !.page = next, !.present = present]
    OBVIOUS
<1>9. /\ at[w] = "list" /\ UNCHANGED <<landingVars, given, passing, queue>>
      /\ \/ /\ Goto(w, "loop", last)
            /\ lost' = (lost \ (found \X Wakes(t.event))) \cup missed \X Wakes(t.event)
         \/ /\ Goto(w, "list", more)
            /\ lost' = lost \ (found \X Wakes(t.event))
    BY <1>1, <1>2, <1>3, <1>4, <1>5, <1>6, <1>7, <1>8 DEF ListPage
<1>10. t \in Task /\ TaskInv("list", t) /\ t.page \in Nat
    BY <1>1, <1>9, TaskFacts DEF WInv, Tasks
<1>11. Lists(t.event) /\ t.page >= 1 /\ (t.page = 1 => t.listed = {})
    BY <1>10 DEF TaskInv
<1>12. next > 1 /\ next \in Nat
    BY <1>6, <1>10, <1>11
<1>13. last.event = t.event /\ last.listed = listed /\ last.todo = t.todo
    BY <1>7, <1>10 DEF Task
<1>14. /\ more.event = t.event /\ more.listed = listed /\ more.todo = t.todo
       /\ more.page = next /\ more.present = present
    BY <1>8, <1>10 DEF Task
<1>15. PICK stage, r : /\ Goto(w, stage, r)
                       /\ \/ /\ stage = "loop" /\ r = last
                             /\ lost' = (lost \ (found \X Wakes(t.event)))
                                            \cup missed \X Wakes(t.event)
                          \/ /\ stage = "list" /\ r = more
                             /\ lost' = lost \ (found \X Wakes(t.event))
    BY <1>9
<1>16. r.event = t.event /\ r.listed = listed /\ r.todo = t.todo /\ stage # "idle"
    BY <1>13, <1>14, <1>15
<1>17. TaskInv(stage, r)
    BY <1>11, <1>12, <1>14, <1>15 DEF TaskInv
<1>18. ASSUME NEW p \in found, NEW what \in Whats, Wanted(p, what), what \in Wakes(t.event)
       PROVE  Reaches(stage, r, p, what)
  <2>1. p \in PRs /\ Now(p) \in listed
      BY <1>2, <1>3 DEF OnPage
  <2>2. Fits(Now(p), p, what)
      BY <1>18, <2>1, NowFits
  <2> QED
      BY <1>16, <1>18, <2>1, <2>2 DEF Reaches, InLoop
<1>19. ASSUME NEW p \in PRs, NEW what \in Whats, InLoop(t, p, what)
       PROVE  Reaches(stage, r, p, what)
    BY <1>3, <1>16, <1>19 DEF Reaches, InLoop
<1>20. ASSUME NEW p \in PRs, NEW what \in Whats, Wanted(p, what), ToBeListed(t, p, what)
       PROVE  <<p, what>> \in lost' \/ Reaches(stage, r, p, what)
  <2>1. Stirs(t.event, p, what) /\ what \in Wakes(t.event)
      BY <1>20 DEF ToBeListed, Stirs
  <2>2. Open(p) /\ Matches(t.event, p, tip[HeadOf[p]])
    <3>1. Open(p)
        BY <1>20 DEF Wanted, ReadyToMerge, ToBeUpdated
    <3> QED
        BY <1>11, <2>1, <3>1 DEF Stirs, Matches, Lists
  <2>3. CASE p \in found
      BY <1>18, <1>20, <2>1, <2>3
  <2>4. CASE p \notin found
    <3>1. p \in present
        BY <1>1, <1>4, <1>20, <2>2 DEF ToBeListed
    <3>2. \A s \in t.listed : s.pr # p
        BY <1>11, <1>20 DEF ToBeListed
    <3>3. \A s \in listed : s.pr # p
        BY <1>3, <2>4, <3>2 DEF Now
    <3>4. p \in missed
        BY <1>5, <3>1, <3>3
    <3>5. CASE stage = "list" /\ r = more
      <4>1. Stirs(r.event, p, what)
          BY <1>16, <2>1
      <4>2. ToBeListed(r, p, what)
          BY <1>14, <3>1, <3>3, <3>5, <4>1 DEF ToBeListed
      <4> QED
          BY <3>5, <4>2 DEF Reaches
    <3>6. CASE lost' = (lost \ (found \X Wakes(t.event))) \cup missed \X Wakes(t.event)
        BY <2>1, <3>4, <3>6
    <3> QED
        BY <1>15, <3>5, <3>6
  <2> QED
      BY <2>3, <2>4
<1>21. ASSUME NEW p \in PRs, NEW what \in Whats, Wanted(p, what)
       PROVE  /\ <<p, what>> \in lost => <<p, what>> \in lost' \/ Reaches(stage, r, p, what)
              /\ Reaches(at[w], task[w], p, what) =>
                   <<p, what>> \in lost' \/ Reaches(stage, r, p, what)
  <2>1. <<p, what>> \in lost => <<p, what>> \in lost' \/ Reaches(stage, r, p, what)
    <3>1. <<p, what>> \in lost /\ <<p, what>> \notin lost' =>
             p \in found /\ what \in Wakes(t.event)
        BY <1>15
    <3> QED
        BY <1>18, <1>21, <3>1
  <2>2. Reaches(at[w], task[w], p, what) => ToBeListed(t, p, what) \/ InLoop(t, p, what)
      BY <1>1, <1>9 DEF Reaches
  <2> QED
      BY <1>19, <1>20, <1>21, <2>1, <2>2
<1>22. UNCHANGED <<ghVars, phase, job, given, passing, queue>>
    BY <1>9 DEF landingVars
<1>23. phase[w] = "idle"
    BY <1>9, IdlePhase
<1> QED
    BY <1>15, <1>17, <1>21, <1>22, <1>23, HandlerStep

(* The loop takes something up: the rest of it stays.                      *)
LEMMA NextListedWakes ==
    ASSUME WInv, Kept, NEW w \in Workers, NextListed(w)
    PROVE  Tasks' /\ Woken'
<1>1. PICK t : t = task[w]
    OBVIOUS
<1>2. /\ at[w] = "loop" /\ phase[w] = "idle"
      /\ UNCHANGED <<landingVars, given, passing, queue, lost>>
    BY DEF NextListed, Looping
<1>3. PICK s \in t.listed : Consider(w, [t EXCEPT !.listed = @ \ {s}, !.view = s])
    BY <1>1 DEF NextListed
<1>4. PICK u : u = [t EXCEPT !.listed = @ \ {s}, !.view = s]
    OBVIOUS
<1>5. t \in Task /\ t.listed \subseteq View /\ s \in View
    BY <1>1, <1>2, TaskFacts DEF WInv
<1>6. /\ u \in Task /\ u.event = t.event /\ u.listed = t.listed \ {s}
      /\ u.todo = t.todo /\ u.view = s
    BY <1>4, <1>5 DEF Task
<1>7. PICK stage, r :
             /\ stage \in Plain
             /\ Goto(w, stage, r)
             /\ \A p, what : InLoop(u, p, what) => Reaches(stage, r, p, what)
             /\ \A p \in PRs, what \in Whats :
                  Wanted(p, what) /\ InView(u, p, what) => Reaches(stage, r, p, what)
    BY <1>3, <1>4, <1>5, <1>6, ConsiderGoes
<1>8. ASSUME NEW p \in PRs, NEW what \in Whats, Wanted(p, what)
      PROVE  Reaches(at[w], task[w], p, what) => Reaches(stage, r, p, what)
  <2>1. Reaches(at[w], task[w], p, what) => InLoop(t, p, what)
      BY <1>1, <1>2 DEF Reaches
  <2>2. InLoop(t, p, what) => InLoop(u, p, what) \/ InView(u, p, what)
      BY <1>6 DEF InLoop, InView
  <2> QED
      BY <1>7, <1>8, <2>1, <2>2
<1>9. TaskInv(stage, r)
    BY <1>7 DEF TaskInv, Plain
<1>10. UNCHANGED <<ghVars, phase, job, given, passing, queue, lost>>
    BY <1>2 DEF landingVars
<1> QED
    BY <1>2, <1>7, <1>8, <1>9, <1>10, HandlerStep

LEMMA NextNumberWakes ==
    ASSUME WInv, Kept, NEW w \in Workers, NextNumber(w)
    PROVE  Tasks' /\ Woken'
<1>1. PICK t : t = task[w]
    OBVIOUS
<1>2. /\ at[w] = "loop" /\ phase[w] = "idle"
      /\ UNCHANGED <<landingVars, given, passing, queue>>
    BY DEF NextNumber, Looping
<1>3. PICK q \in t.todo : /\ Consider(w, [t EXCEPT !.todo = @ \ {q}, !.view = Now(q)])
                          /\ lost' = lost \ ({q} \X Wakes(t.event))
    BY <1>1 DEF NextNumber, Looks
<1>4. PICK u : u = [t EXCEPT !.todo = @ \ {q}, !.view = Now(q)]
    OBVIOUS
<1>5. t \in Task /\ q \in PRs /\ prState[q] # "none"
  <2>1. t \in Task /\ t.todo \subseteq PRs /\ WorkerInv("loop", t)
      BY <1>1, <1>2, TaskFacts DEF WInv, IInv, WorkersInv
  <2> QED
      BY <2>1 DEF WorkerInv
<1>6. Now(q) \in View
    BY <1>5, NowFacts DEF WInv
<1>7. /\ u \in Task /\ u.event = t.event /\ u.listed = t.listed
      /\ u.todo = t.todo \ {q} /\ u.view = Now(q)
    BY <1>4, <1>5, <1>6 DEF Task
<1>8. PICK stage, r :
             /\ stage \in Plain
             /\ Goto(w, stage, r)
             /\ \A p, what : InLoop(u, p, what) => Reaches(stage, r, p, what)
             /\ \A p \in PRs, what \in Whats :
                  Wanted(p, what) /\ InView(u, p, what) => Reaches(stage, r, p, what)
    BY <1>3, <1>4, <1>6, <1>7, ConsiderGoes
<1>9. ASSUME NEW what \in Whats, Wanted(q, what), what \in Wakes(t.event)
      PROVE  Reaches(stage, r, q, what)
  <2>1. Fits(Now(q), q, what)
      BY <1>5, <1>9, NowFits
  <2>2. InView(u, q, what)
      BY <1>7, <1>9, <2>1 DEF InView
  <2> QED
      BY <1>5, <1>8, <1>9, <2>2
<1>10. ASSUME NEW p \in PRs, NEW what \in Whats, Wanted(p, what)
       PROVE  /\ <<p, what>> \in lost => <<p, what>> \in lost' \/ Reaches(stage, r, p, what)
              /\ Reaches(at[w], task[w], p, what) => Reaches(stage, r, p, what)
  <2>1. CASE p = q /\ what \in Wakes(t.event)
      BY <1>9, <1>10, <2>1
  <2>2. CASE ~ (p = q /\ what \in Wakes(t.event))
    <3>1. <<p, what>> \in lost => <<p, what>> \in lost'
        BY <1>3, <2>2
    <3>2. Reaches(at[w], task[w], p, what) => InLoop(t, p, what)
        BY <1>1, <1>2 DEF Reaches
    <3>3. InLoop(t, p, what) => InLoop(u, p, what)
        BY <1>7, <2>2 DEF InLoop
    <3> QED
        BY <1>8, <3>1, <3>2, <3>3
  <2> QED
      BY <2>1, <2>2
<1>11. TaskInv(stage, r)
    BY <1>8 DEF TaskInv, Plain
<1>12. UNCHANGED <<ghVars, phase, job, given, passing, queue>>
    BY <1>2 DEF landingVars
<1> QED
    BY <1>2, <1>8, <1>10, <1>11, <1>12, HandlerStep

LEMMA LoopEndsWakes ==
    ASSUME WInv, Kept, NEW w \in Workers, LoopEnds(w)
    PROVE  Tasks' /\ Woken'
<1>1. /\ at[w] = "loop" /\ phase[w] = "idle" /\ Goto(w, "idle", NoTask)
      /\ UNCHANGED <<landingVars, given, passing, queue, lost>>
    BY DEF LoopEnds, Looping, End
<1>2. task[w].todo = {} /\ task[w].listed = {}
    BY DEF LoopEnds, Remaining
<1>3. \A p, what : ~ Reaches(at[w], task[w], p, what)
    BY <1>1, <1>2 DEF Reaches, InLoop
<1>4. TaskInv("idle", NoTask)
    BY DEF TaskInv
<1>5. UNCHANGED <<ghVars, phase, job, given, passing, queue, lost>>
    BY <1>1 DEF landingVars
<1> QED
    BY <1>1, <1>3, <1>4, <1>5, HandlerStep

(* What is left of a task is what it could still have reached.             *)
LEMMA RemainingReached ==
    ASSUME WInv, NEW w \in Workers, at[w] \in {"list", "loop"},
           NEW p \in PRs, NEW what \in Whats, Reaches(at[w], task[w], p, what)
    PROVE  <<p, what>> \in Remaining(w) \X Wakes(task[w].event)
<1>1. CASE InLoop(task[w], p, what)
    BY <1>1 DEF InLoop, Fits, Remaining
<1>2. CASE at[w] = "list" /\ ToBeListed(task[w], p, what)
  <2>1. Stirs(task[w].event, p, what) /\ Lists(task[w].event)
      BY <1>2 DEF ToBeListed, WInv, Tasks, TaskInv
  <2>2. p \in About(task[w].event)
      BY <2>1 DEF Stirs, About, Matches, Lists
  <2> QED
      BY <1>2, <2>1, <2>2 DEF Stirs, Remaining
<1> QED
    BY <1>1, <1>2 DEF Reaches

LEMMA ReturnWakes ==
    ASSUME WInv, Kept, NEW w \in Workers, Return(w)
    PROVE  Tasks' /\ Woken'
<1>1. /\ at[w] \in {"list", "loop"} /\ Goto(w, "idle", NoTask)
      /\ at[w] = "loop" => phase[w] = "idle"
      /\ UNCHANGED <<landingVars, given, passing, queue>>
      /\ lost' = lost \cup Remaining(w) \X Wakes(task[w].event)
    BY DEF Return, Looping, End, Misses
<1>2. phase[w] = "idle"
    BY <1>1, IdlePhase
<1>3. TaskInv("idle", NoTask)
    BY DEF TaskInv
<1>4. UNCHANGED <<ghVars, phase, job, given, passing, queue>>
    BY <1>1 DEF landingVars
<1>5. ASSUME NEW p \in PRs, NEW what \in Whats
      PROVE  /\ <<p, what>> \in lost => <<p, what>> \in lost'
             /\ Reaches(at[w], task[w], p, what) => <<p, what>> \in lost'
    BY <1>1, RemainingReached
<1> QED
    BY <1>1, <1>2, <1>3, <1>4, <1>5, HandlerStep

-----------------------------------------------------------------------------
(* The calls of UpdatePR and of ProcessPullRequest.                        *)

LEMMA GetForUpdateWakes ==
    ASSUME WInv, Kept, NEW w \in Workers, GetForUpdate(w)
    PROVE  Tasks' /\ Woken'
<1>1. PICK t : t = task[w]
    OBVIOUS
<1>2. PICK q : q = t.view.pr
    OBVIOUS
<1>3. /\ at[w] = "get" /\ UNCHANGED <<landingVars, given, passing, queue, lost>>
      /\ IF Closed(q) \/ HeadOf[q] \in Forks THEN NotUpdated(w, t)
         ELSE Goto(w, "compare", [t EXCEPT !.head = tip[HeadOf[q]]])
    BY <1>1, <1>2 DEF GetForUpdate
<1>4. t \in Task /\ t.view \in View /\ KnownView(t.view) /\ phase[w] = "idle"
    BY <1>1, <1>3, TaskFacts, IdlePhase DEF WInv, WithView
<1>5. UNCHANGED <<ghVars, phase, job, given, passing, queue, lost>>
    BY <1>3 DEF landingVars
<1>6. \A p, what : Reaches(at[w], task[w], p, what) => InLoop(t, p, what) \/ InView(t, p, what)
    BY <1>1, <1>3 DEF Reaches
<1>7. CASE Closed(q) \/ HeadOf[q] \in Forks
  <2>1. PICK stage, r :
             /\ stage \in Plain
             /\ Goto(w, stage, r)
             /\ \A p, what : InLoop(t, p, what) => Reaches(stage, r, p, what)
             /\ \A p : InView(t, p, "merge") => Reaches(stage, r, p, "merge")
      BY <1>3, <1>4, <1>7, NotUpdatedGoes
  <2>2. \A p \in PRs : ~ (Wanted(p, "update") /\ InView(t, p, "update"))
      BY <1>2, <1>7 DEF Wanted, ToBeUpdated, InView, Fits, Closed, Open
  <2>3. TaskInv(stage, r)
      BY <2>1 DEF TaskInv, Plain
  <2>4. \A p \in PRs, what \in Whats :
          Wanted(p, what) /\ Reaches(at[w], task[w], p, what) => Reaches(stage, r, p, what)
      BY <1>6, <2>1, <2>2 DEF Whats
  <2> QED
      BY <1>4, <1>5, <2>1, <2>3, <2>4, HandlerStep
<1>8. CASE ~ (Closed(q) \/ HeadOf[q] \in Forks)
  <2>1. PICK r : r = [t EXCEPT !.head = tip[HeadOf[q]]]
      OBVIOUS
  <2>2. Goto(w, "compare", r)
      BY <1>3, <1>8, <2>1
  <2>3. /\ r.event = t.event /\ r.listed = t.listed /\ r.todo = t.todo /\ r.view = t.view
        /\ r.head = tip[HeadOf[q]]
      BY <1>4, <2>1 DEF Task
  <2>4. TaskInv("compare", r)
      BY <1>2, <1>4, <2>3 DEF TaskInv, KnownView
  <2>5. \A p, what : InLoop(t, p, what) \/ InView(t, p, what) => Reaches("compare", r, p, what)
      BY <2>3 DEF Reaches, InLoop, InView
  <2> QED
      BY <1>4, <1>5, <1>6, <2>2, <2>4, <2>5, HandlerStep
<1> QED
    BY <1>7, <1>8

LEMMA CompareCommitsWakes ==
    ASSUME WInv, Kept, NEW w \in Workers, CompareCommits(w)
    PROVE  Tasks' /\ Woken'
<1>1. PICK t : t = task[w]
    OBVIOUS
<1>2. PICK q : q = t.view.pr
    OBVIOUS
<1>3. /\ at[w] = "compare" /\ UNCHANGED <<landingVars, given, passing, queue, lost>>
      /\ IF tip[BaseOf[q]] \subseteq t.head THEN NotUpdated(w, t) ELSE Goto(w, "update", t)
    BY <1>1, <1>2 DEF CompareCommits
<1>4. t \in Task /\ t.view \in View /\ phase[w] = "idle" /\ TaskInv("compare", t)
    BY <1>1, <1>3, TaskFacts, IdlePhase DEF WInv, WithView, Tasks
<1>5. UNCHANGED <<ghVars, phase, job, given, passing, queue, lost>>
    BY <1>3 DEF landingVars
<1>6. \A p, what : Reaches(at[w], task[w], p, what) => InLoop(t, p, what) \/ InView(t, p, what)
    BY <1>1, <1>3 DEF Reaches
<1>7. CASE tip[BaseOf[q]] \subseteq t.head
  <2>1. PICK stage, r :
             /\ stage \in Plain
             /\ Goto(w, stage, r)
             /\ \A p, what : InLoop(t, p, what) => Reaches(stage, r, p, what)
             /\ \A p : InView(t, p, "merge") => Reaches(stage, r, p, "merge")
      BY <1>3, <1>4, <1>7, NotUpdatedGoes
  <2>2. tip[BaseOf[q]] \subseteq tip[HeadOf[q]]
      BY <1>2, <1>4, <1>7 DEF TaskInv
  <2>3. \A p \in PRs : ~ (Wanted(p, "update") /\ InView(t, p, "update"))
      BY <1>2, <2>2 DEF Wanted, ToBeUpdated, InView, Fits
  <2>4. TaskInv(stage, r)
      BY <2>1 DEF TaskInv, Plain
  <2>5. \A p \in PRs, what \in Whats :
          Wanted(p, what) /\ Reaches(at[w], task[w], p, what) => Reaches(stage, r, p, what)
      BY <1>6, <2>1, <2>3 DEF Whats
  <2> QED
      BY <1>4, <1>5, <2>1, <2>4, <2>5, HandlerStep
<1>8. CASE ~ (tip[BaseOf[q]] \subseteq t.head)
  <2>1. Goto(w, "update", t)
      BY <1>3, <1>8
  <2>2. TaskInv("update", t)
      BY <1>2, <1>4, <1>8 DEF TaskInv
  <2>3. \A p, what : InLoop(t, p, what) \/ InView(t, p, what) => Reaches("update", t, p, what)
      BY DEF Reaches
  <2> QED
      BY <1>4, <1>5, <1>6, <2>1, <2>2, <2>3, HandlerStep
<1> QED
    BY <1>7, <1>8

LEMMA UpdateFailsWakes ==
    ASSUME WInv, Kept, NEW w \in Workers, UpdateFails(w)
    PROVE  Tasks' /\ Woken'
<1>1. PICK t : t = task[w]
    OBVIOUS
<1>2. PICK q : q = t.view.pr
    OBVIOUS
<1>3. /\ at[w] \in {"get", "compare", "update"} /\ NotUpdated(w, t)
      /\ UNCHANGED <<landingVars, given, passing, queue>>
      /\ lost' = lost \cup {q} \X {"update"}
    BY <1>1, <1>2 DEF UpdateFails, Misses
<1>4. t \in Task /\ phase[w] = "idle"
    BY <1>1, <1>3, TaskFacts, IdlePhase DEF WInv
<1>5. UNCHANGED <<ghVars, phase, job, given, passing, queue>>
    BY <1>3 DEF landingVars
<1>6. \A p, what : Reaches(at[w], task[w], p, what) => InLoop(t, p, what) \/ InView(t, p, what)
    BY <1>1, <1>3 DEF Reaches
<1>7. PICK stage, r :
           /\ stage \in Plain
           /\ Goto(w, stage, r)
           /\ \A p, what : InLoop(t, p, what) => Reaches(stage, r, p, what)
           /\ \A p : InView(t, p, "merge") => Reaches(stage, r, p, "merge")
    BY <1>3, <1>4, NotUpdatedGoes
<1>8. \A p : InView(t, p, "update") => <<p, "update">> \in lost'
    BY <1>2, <1>3 DEF InView, Fits
<1>9. TaskInv(stage, r)
    BY <1>7 DEF TaskInv, Plain
<1>10. \A p \in PRs, what \in Whats :
         /\ <<p, what>> \in lost => <<p, what>> \in lost'
         /\ Reaches(at[w], task[w], p, what) => <<p, what>> \in lost' \/ Reaches(stage, r, p, what)
    BY <1>3, <1>6, <1>7, <1>8 DEF Whats
<1> QED
    BY <1>4, <1>5, <1>7, <1>9, <1>10, HandlerStep

LEMMA ProcessFailsWakes ==
    ASSUME WInv, Kept, NEW w \in Workers, ProcessFails(w)
    PROVE  Tasks' /\ Woken'
<1>1. PICK t : t = task[w]
    OBVIOUS
<1>3. /\ at[w] = "decide" /\ Continue(w)
      /\ UNCHANGED <<landingVars, given, passing, queue>>
      /\ lost' = lost \cup {t.view.pr} \X {"merge"}
    BY <1>1 DEF ProcessFails, Misses
<1>4. task[w] \in Task /\ phase[w] = "idle"
    BY <1>3, TaskFacts, IdlePhase DEF WInv
<1>5. UNCHANGED <<ghVars, phase, job, given, passing, queue>>
    BY <1>3 DEF landingVars
<1>6. PICK r : /\ Goto(w, "loop", r)
               /\ \A p, what : InLoop(task[w], p, what) => Reaches("loop", r, p, what)
    BY <1>3, <1>4, ContinueGoes
<1>7. \A p, what : Reaches(at[w], task[w], p, what) =>
                      InLoop(task[w], p, what) \/ (what = "merge" /\ InView(t, p, what))
    BY <1>1, <1>3 DEF Reaches
<1>8. \A p : InView(t, p, "merge") => <<p, "merge">> \in lost'
    BY <1>3 DEF InView, Fits
<1>9. TaskInv("loop", r)
    BY DEF TaskInv
<1>10. \A p \in PRs, what \in Whats :
         /\ <<p, what>> \in lost => <<p, what>> \in lost'
         /\ Reaches(at[w], task[w], p, what) => <<p, what>> \in lost' \/ Reaches("loop", r, p, what)
    BY <1>3, <1>6, <1>7, <1>8
<1> QED
    BY <1>4, <1>5, <1>6, <1>9, <1>10, HandlerStep

LEMMA ProcessPullRequestWakes ==
    ASSUME WInv, Kept, NEW w \in Workers, ProcessPullRequest(w)
    PROVE  Tasks' /\ Woken'
<1>1. PICK t : t = task[w]
    OBVIOUS
<1>2. PICK v : v = t.view
    OBVIOUS
<1>3. /\ at[w] = "decide" /\ Continue(w)
      /\ UNCHANGED <<given, passing, queue, lost>>
      /\ IF WantsMerge(v)
           THEN \E method \in MergeMethods :
                  TakeUp(w, v.pr, v.head, method, DeleteAfterMerge /\ HeadOf[v.pr] \notin Forks)
           ELSE UNCHANGED landingVars
    BY <1>1, <1>2 DEF ProcessPullRequest
<1>4. task[w] \in Task /\ phase[w] = "idle"
    BY <1>3, TaskFacts, IdlePhase DEF WInv
<1>5. /\ UNCHANGED ghVars
      /\ \A x \in Workers : x # w => phase'[x] = phase[x] /\ job'[x] = job[x]
    BY <1>3 DEF landingVars, TakeUp, Become, WInv, IInv, LandingTypeOK
<1>6. PICK r : /\ Goto(w, "loop", r)
               /\ \A p, what : InLoop(task[w], p, what) => Reaches("loop", r, p, what)
    BY <1>3, <1>4, ContinueGoes
<1>7. \A p, what : Reaches(at[w], task[w], p, what) =>
                      InLoop(task[w], p, what) \/ (what = "merge" /\ InView(t, p, what))
    BY <1>1, <1>3 DEF Reaches
<1>8. ASSUME NEW p \in PRs, Wanted(p, "merge"), InView(t, p, "merge")
      PROVE  MergesNow(w, p, "merge")'
  <2>1. ReadyToMerge(p) /\ Fits(v, p, "merge")
      BY <1>2, <1>8 DEF Wanted, InView
  <2>2. WantsMerge(v)
      BY <2>1 DEF WantsMerge, ReadyToMerge, Fits, TriggersFor
  <2>3. /\ phase'[w] = "merging" /\ job'[w].pr = v.pr /\ job'[w].head = v.head
      BY <1>3, <2>2 DEF TakeUp, Become, WInv, IInv, LandingTypeOK
  <2>4. tip' = tip /\ v.pr = p /\ v.head = tip[HeadOf[p]]
      BY <1>5, <2>1 DEF ghVars, Fits
  <2> QED
      BY <2>3, <2>4 DEF MergesNow
<1>9. TaskInv("loop", r)
    BY DEF TaskInv
<1>10. \A p \in PRs, what \in Whats : Wanted(p, what) =>
         /\ <<p, what>> \in lost => <<p, what>> \in lost'
         /\ Reaches(at[w], task[w], p, what) =>
               Reaches("loop", r, p, what) \/ MergesNow(w, p, what)'
  <2>1. ASSUME NEW p \in PRs, NEW what \in Whats, Wanted(p, what),
               Reaches(at[w], task[w], p, what)
        PROVE  Reaches("loop", r, p, what) \/ MergesNow(w, p, what)'
    <3>1. CASE InLoop(task[w], p, what)
        BY <1>6, <3>1
    <3>2. CASE what = "merge" /\ InView(t, p, what)
      <4>1. MergesNow(w, p, "merge")'
          BY <1>8, <2>1, <3>2
      <4> QED
          BY <3>2, <4>1 DEF MergesNow
    <3> QED
        BY <1>7, <2>1, <3>1, <3>2
  <2> QED
      BY <1>3, <2>1
<1> QED
    BY <1>3, <1>4, <1>5, <1>6, <1>9, <1>10, HandlerStep

(* An update: who waits for it has all of the base then, and who waits for *)
(* the merge of the head that was compared has a synchronize event.        *)
LEMMA UpdateBranchWakes ==
    ASSUME WInv, Kept, NEW w \in Workers, UpdateBranch(w)
    PROVE  Tasks' /\ Woken'
<1>1. PICK t : t = task[w]
    OBVIOUS
<1>2. PICK q : q = t.view.pr
    OBVIOUS
<1>3. /\ at[w] = "update" /\ UNCHANGED <<phase, job, given, passing>>
      /\ Continue(w) \/ NotUpdated(w, t)
      /\ IF tip[BaseOf[q]] \subseteq tip[HeadOf[q]] THEN UNCHANGED <<ghVars, queue, lost>>
         ELSE MergeInto(HeadOf[q], BaseOf[q]) /\ Moves(HeadOf[q])
    BY <1>1, <1>2 DEF UpdateBranch
<1>4. /\ t \in Task /\ t.view \in View /\ q \in PRs /\ phase[w] = "idle"
      /\ TaskInv("update", t)
    BY <1>1, <1>2, <1>3, TaskFacts, IdlePhase DEF WInv, WithView, Tasks
<1>5. HeadOf[q] \in Branches /\ BaseOf[q] \in Branches
    BY <1>4, TopologyAssumption
<1>6. \A p, what : Reaches(at[w], task[w], p, what) => InLoop(t, p, what) \/ InView(t, p, what)
    BY <1>1, <1>3 DEF Reaches
<1>7. PICK stage, r :
           /\ stage \in Plain
           /\ Goto(w, stage, r)
           /\ \A p, what : InLoop(t, p, what) => Reaches(stage, r, p, what)
  <2>1. CASE Continue(w)
    <3>1. PICK r : /\ Goto(w, "loop", r)
                   /\ \A p, what : InLoop(task[w], p, what) => Reaches("loop", r, p, what)
        BY <1>1, <1>4, <2>1, ContinueGoes
    <3> QED
        BY <1>1, <3>1 DEF Plain
  <2>2. CASE NotUpdated(w, t)
      BY <1>4, <2>2, NotUpdatedGoes
  <2> QED
      BY <1>3, <2>1, <2>2
<1>8. TaskInv(stage, r)
    BY <1>7 DEF TaskInv, Plain
<1>9. /\ t.view.head \subseteq t.head /\ t.head \subseteq tip[HeadOf[q]]
      /\ ~ (tip[BaseOf[q]] \subseteq t.head)
    BY <1>2, <1>4 DEF TaskInv
<1>10. CASE tip[BaseOf[q]] \subseteq tip[HeadOf[q]]
  <2>1. UNCHANGED <<ghVars, queue, lost>>
      BY <1>3, <1>10
  <2>2. \A p \in PRs : ~ (Wanted(p, "update") /\ InView(t, p, "update"))
      BY <1>2, <1>10 DEF Wanted, ToBeUpdated, InView, Fits
  <2>3. \A p \in PRs : ~ InView(t, p, "merge")
    <3> SUFFICES ASSUME NEW p \in PRs, InView(t, p, "merge") PROVE FALSE
        OBVIOUS
    <3>1. t.view.head = tip[HeadOf[q]]
        BY <1>2 DEF InView, Fits
    <3> QED
        BY <1>9, <1>10, <3>1
  <2>4. \A p \in PRs, what \in Whats :
          Wanted(p, what) /\ Reaches(at[w], task[w], p, what) => Reaches(stage, r, p, what)
      BY <1>6, <1>7, <2>2, <2>3 DEF Whats
  <2> QED
      BY <1>3, <1>4, <1>7, <1>8, <2>1, <2>4, HandlerStep
<1>11. CASE ~ (tip[BaseOf[q]] \subseteq tip[HeadOf[q]])
  <2>1. MergeInto(HeadOf[q], BaseOf[q]) /\ Moves(HeadOf[q])
      BY <1>3, <1>11
  <2>2. /\ tip[BaseOf[q]] \subseteq tip'[HeadOf[q]]
        /\ \A c \in Branches : c # HeadOf[q] => tip'[c] = tip[c]
      BY <1>5, <2>1, MergeIntoMoves DEF WInv, IInv, LandingTypeOK
  <2>3. tip'[BaseOf[q]] = tip[BaseOf[q]] \/ BaseOf[q] = HeadOf[q]
      BY <1>5, <2>2
  <2>4. /\ QueueKept
        /\ lost \subseteq lost'
        /\ \A p \in PRs, what \in Whats :
             Wanted(p, what)' => Pending(p, what)' \/ (Wanted(p, what) /\ Fresh(p, what))
      BY <1>3, <1>5, <2>1, <2>2, MovesCarry DEF MergeInto, WInv, Kept, Open
  <2>5. ASSUME NEW p \in PRs, NEW what \in Whats, Wanted(p, what)'
        PROVE  Pending(p, what)'
    <3>1. CASE Wanted(p, what) /\ Fresh(p, what)
      <4>1. ~ (InView(t, p, what) /\ what = "update")
          BY <1>2, <2>2, <2>3, <2>5 DEF InView, Fits, Wanted, ToBeUpdated
      <4>2. ~ (InView(t, p, what) /\ what = "merge")
          BY <1>2, <1>11, <2>2, <3>1 DEF InView, Fits, Fresh
      <4>3. Reaches(at[w], task[w], p, what) => Reaches(stage, r, p, what)
          BY <1>6, <1>7, <4>1, <4>2 DEF Whats
      <4> QED
          BY <1>3, <1>4, <1>7, <2>4, <3>1, <4>3, HandlerPends
    <3> QED
        BY <2>4, <2>5, <3>1
  <2>6. Tasks'
      BY <1>7, TasksGotoPlain DEF Plain, Kept
  <2> QED
      BY <2>5, <2>6 DEF Woken
<1> QED
    BY <1>10, <1>11

-----------------------------------------------------------------------------
(* MergePR, in the loop.                                                   *)

(* The tasks stay, and so do the merges of the others.                     *)
LEMMA MergerPends ==
    ASSUME WInv, NEW p \in PRs, NEW what \in Whats, Wanted(p, what), Fresh(p, what),
           QueueKept, NEW w \in Workers, UNCHANGED <<at, task>>, lost \subseteq lost',
           \A v \in Workers : v # w => phase'[v] = phase[v] /\ job'[v] = job[v],
           MergesNow(w, p, what) => Pending(p, what)'
    PROVE  Pending(p, what)'
<1>1. PICK stage, t : stage = at[w] /\ t = task[w]
    OBVIOUS
<1>2. Reaches(stage, t, p, what) => Pending(p, what)'
  <2>1. at'[w] = stage /\ task'[w] = t
      BY <1>1
  <2> QED
      BY <2>1, FreshKeeps, ReachesPends
<1>3. <<p, what>> \in lost => Pending(p, what)'
    BY LostPends
<1>4. Pending(p, what) /\ {w} \in SUBSET Workers
    BY DEF WInv, Woken
<1> QED
    BY <1>1, <1>2, <1>3, <1>4, PendingStays

(* A merge: the pull request is merged, or contained in its base.          *)
LEMMA MergeWakes ==
    ASSUME WInv, Kept, NEW w \in Workers, Merge(w)
    PROVE  Tasks' /\ Woken'
<1>1. PICK j : j = job[w]
    OBVIOUS
<1>2. /\ phase[w] = "merging" /\ PutOnBase(j) /\ Moves(BaseOf[j.pr])
      /\ UNCHANGED <<given, passing, at, task>>
      /\ Become(w, "landed", j) \/ Finish(w) \/ UNCHANGED <<phase, job>>
    BY <1>1 DEF Merge, Land
<1>3. j \in Job /\ j.pr \in PRs
    BY <1>1, <1>2 DEF WInv, IInv, LandingTypeOK, Job
<1>4. HeadOf[j.pr] \in Branches /\ BaseOf[j.pr] \in Branches
    BY <1>3, TopologyAssumption
<1>5. \A v \in Workers : v # w => phase'[v] = phase[v] /\ job'[v] = job[v]
    BY <1>2 DEF Become, Finish, WInv, IInv, LandingTypeOK
<1>6. \/ prState' = [prState EXCEPT ![j.pr] = "merged"]
      \/ tip'[BaseOf[j.pr]] = j.head /\ UNCHANGED prState
    BY <1>2, <1>4 DEF PutOnBase, LandMerge, SetRef, WInv, IInv, LandingTypeOK, GitHubTypeOK
<1>7. \A c \in Branches : c # BaseOf[j.pr] => tip'[c] = tip[c]
    BY <1>2, <1>4 DEF PutOnBase, LandMerge, SetRef, WInv, IInv, LandingTypeOK, GitHubTypeOK
<1>8. \A p \in PRs : Open(p)' => Open(p)
    BY <1>3, <1>6 DEF Open, WInv, IInv, LandingTypeOK, GitHubTypeOK
<1>9. /\ QueueKept
      /\ lost \subseteq lost'
      /\ \A p \in PRs, what \in Whats :
           Wanted(p, what)' => Pending(p, what)' \/ (Wanted(p, what) /\ Fresh(p, what))
    BY <1>2, <1>4, <1>7, <1>8, MovesCarry DEF WInv, Kept
<1>10. ASSUME NEW p \in PRs, NEW what \in Whats, Wanted(p, what)'
       PROVE  Pending(p, what)'
  <2>1. CASE Wanted(p, what) /\ Fresh(p, what)
    <3>1. ~ MergesNow(w, p, what)
      <4> SUFFICES ASSUME MergesNow(w, p, what) PROVE FALSE
          OBVIOUS
      <4>1. what = "merge" /\ p = j.pr /\ j.head = tip[HeadOf[p]]
          BY <1>1 DEF MergesNow
      <4>2. tip'[HeadOf[p]] = tip[HeadOf[p]]
          BY <2>1, <4>1 DEF Fresh
      <4>3. ReadyToMerge(p)'
          BY <1>10, <4>1 DEF Wanted
      <4>4. prState'[p] = "open"
          BY <4>3 DEF ReadyToMerge, Open
      <4>5. ~ (tip'[HeadOf[p]] \subseteq tip'[BaseOf[p]])
          BY <4>3 DEF ReadyToMerge, Contained
      <4>6. tip'[BaseOf[p]] = j.head
          BY <1>3, <1>6, <4>1, <4>4 DEF WInv, IInv, LandingTypeOK, GitHubTypeOK
      <4> QED
          BY <4>1, <4>2, <4>5, <4>6
    <3> QED
        BY <1>2, <1>5, <1>9, <2>1, <3>1, MergerPends
  <2> QED
      BY <1>9, <1>10, <2>1
<1>11. Tasks'
    BY <1>2, TasksStay DEF Kept
<1> QED
    BY <1>10, <1>11 DEF Woken

LEMMA GiveUpWakes ==
    ASSUME WInv, Kept, NEW w \in Workers, GiveUp(w)
    PROVE  Tasks' /\ Woken'
<1>1. PICK q : q = job[w].pr
    OBVIOUS
<1>2. /\ UNCHANGED <<ghVars, given, passing, queue, at, task>> /\ Finish(w)
      /\ IF Open(q) THEN lost' = lost \cup {q} \X {"merge"} ELSE UNCHANGED lost
    BY <1>1 DEF GiveUp, Abandon, handlerVars, Misses
<1>3. \A v \in Workers : v # w => phase'[v] = phase[v] /\ job'[v] = job[v]
    BY <1>2 DEF Become, Finish, WInv, IInv, LandingTypeOK
<1>4. QueueKept /\ lost \subseteq lost' /\ UNCHANGED <<tip, prState>>
    BY <1>2 DEF QueueKept, ghVars
<1>5. ASSUME NEW p \in PRs, NEW what \in Whats, Wanted(p, what)'
      PROVE  Pending(p, what)'
  <2>1. Wanted(p, what) /\ Fresh(p, what)
      BY <1>2, <1>4, <1>5, NoNewWants DEF Open
  <2>2. MergesNow(w, p, what) => <<p, what>> \in lost'
      BY <1>1, <1>2, <2>1 DEF MergesNow, Wanted, ReadyToMerge
  <2> QED
      BY <1>2, <1>3, <1>4, <2>1, <2>2, LostPends, MergerPends
<1>6. Tasks'
    BY <1>2, TasksStay DEF Kept
<1> QED
    BY <1>5, <1>6 DEF Woken

(* The deletion of a branch opens nothing.                                 *)
LEMMA DeletionCalm ==
    ASSUME WInv, NEW w \in Workers, DeleteBranch(w) \/ KeepBranch(w)
    PROVE  /\ phase[w] = "landed" /\ UNCHANGED tip
           /\ \A p \in PRs : Open(p)' => Open(p)
           /\ \A v \in Workers : v # w => phase'[v] = phase[v] /\ job'[v] = job[v]
<1>1. CASE DeleteBranch(w)
    BY <1>1 DEF DeleteBranch, RemoveBranch, Finish, Become, Open, WInv, IInv, LandingTypeOK
<1>2. CASE KeepBranch(w)
    BY <1>2 DEF KeepBranch, ghVars, Finish, Become, Open, WInv, IInv, LandingTypeOK
<1> QED
    BY <1>1, <1>2

LEMMA AttemptDeleteWakes ==
    ASSUME WInv, Kept, NEW w \in Workers, AttemptDelete(w)
    PROVE  Tasks' /\ Woken'
<1>1. /\ DeleteBranch(w) \/ KeepBranch(w)
      /\ UNCHANGED <<given, passing, queue, at, task, lost>>
    BY DEF AttemptDelete, handlerVars
<1>2. QueueKept /\ lost \subseteq lost'
    BY <1>1 DEF QueueKept
<1>3. ASSUME NEW p \in PRs, NEW what \in Whats, Wanted(p, what)'
      PROVE  Pending(p, what)'
  <2>1. Wanted(p, what) /\ Fresh(p, what)
      BY <1>1, <1>3, DeletionCalm, NoNewWants
  <2>2. ~ MergesNow(w, p, what)
      BY <1>1, DeletionCalm DEF MergesNow
  <2> QED
      BY <1>1, <1>2, <2>1, <2>2, DeletionCalm, MergerPends
<1>4. Tasks'
    BY <1>1, TasksStay DEF Kept
<1> QED
    BY <1>3, <1>4 DEF Woken

LEMMA PanicWakes ==
    ASSUME WInv, Kept, NEW w \in Workers, Panic(w)
    PROVE  Tasks' /\ Woken'
<1>1. /\ DeleteBranch(w) \/ KeepBranch(w)
      /\ Goto(w, "idle", NoTask)
      /\ UNCHANGED <<given, passing, queue>>
      /\ lost' = lost \cup Remaining(w) \X Wakes(task[w].event)
    BY DEF Panic, End, Misses
<1>2. at[w] = "loop"
    BY <1>1, DeletionCalm DEF WInv, IInv, WorkersInv
<1>3. QueueKept /\ {w} \in SUBSET Workers
    BY <1>1 DEF QueueKept
<1>4. \A v \in Workers : v # w => at'[v] = at[v] /\ task'[v] = task[v]
    BY <1>1, GotoFacts DEF WInv
<1>5. ASSUME NEW p \in PRs, NEW what \in Whats, Wanted(p, what)'
      PROVE  Pending(p, what)'
  <2>1. Wanted(p, what) /\ Fresh(p, what)
      BY <1>1, <1>5, DeletionCalm, NoNewWants
  <2>2. ~ MergesNow(w, p, what)
      BY <1>1, DeletionCalm DEF MergesNow
  <2>3. Reaches(at[w], task[w], p, what) => <<p, what>> \in lost'
      BY <1>1, <1>2, RemainingReached
  <2>4. <<p, what>> \in lost => <<p, what>> \in lost'
      BY <1>1
  <2>5. Pending(p, what)
      BY <2>1 DEF WInv, Woken
  <2>6. \A v \in Workers \ {w} : /\ at'[v] = at[v] /\ task'[v] = task[v]
                                 /\ phase'[v] = phase[v] /\ job'[v] = job[v]
      BY <1>1, <1>4, DeletionCalm
  <2> QED
      BY <1>3, <2>1, <2>2, <2>3, <2>4, <2>5, <2>6, LostPends, PendingStays
<1>6. Tasks'
    BY <1>1, TasksGotoPlain DEF Kept
<1> QED
    BY <1>5, <1>6 DEF Woken

-----------------------------------------------------------------------------
(* Steps of others.                                                        *)

(* The workers do nothing: what was pending stays so.                      *)
LEMMA OthersPend ==
    ASSUME WInv, NEW p \in PRs, NEW what \in Whats, Wanted(p, what), Fresh(p, what),
           QueueKept, lost \subseteq lost', UNCHANGED <<at, task, phase, job>>
    PROVE  Pending(p, what)'
<1>1. {} \in SUBSET Workers /\ Pending(p, what)
    BY DEF WInv, Woken
<1>2. <<p, what>> \in lost => Pending(p, what)'
    BY LostPends
<1> QED
    BY <1>1, <1>2, PendingStays

LEMMA OpensWakes ==
    ASSUME WInv, Kept, NEW q \in PRs, Opens(q)
    PROVE  Tasks' /\ Woken'
<1>1. PICK e : e = [kind |-> "opened", prs |-> {q}]
    OBVIOUS
<1>2. /\ prState' = [prState EXCEPT ![q] = "open"]
      /\ UNCHANGED <<tip, phase, job, given, passing, at, task>>
      /\ Deliver(<<e>>)
    BY <1>1 DEF Opens, OpenPR
<1>3. e \in Event /\ e.kind = "opened" /\ e.prs = {q}
  <2>1. "opened" \in PullRequestEvents /\ {q} \in SUBSET PRs
      BY DEF PullRequestEvents
  <2> QED
      BY <1>1, <2>1, EventFacts
<1>4. /\ QueueKept
      /\ lost \subseteq lost'
      /\ \A p \in PRs, what \in Whats :
           p \in About(e) /\ Stirs(e, p, what)' => Pending(p, what)'
    BY <1>2, <1>3, OneEventFacts DEF WInv
<1>5. ASSUME NEW p \in PRs, NEW what \in Whats, Wanted(p, what)'
      PROVE  Pending(p, what)'
  <2>1. CASE p = q
    <3>1. what \in Wakes(e)
        BY <1>3, <1>5, WakesFacts DEF Updates, Wanted, ToBeUpdated
    <3>2. Stirs(e, p, what)' /\ p \in About(e)
        BY <1>3, <2>1, <3>1 DEF Stirs, About, Lists, Wakes, Merges, Updates
    <3> QED
        BY <1>4, <3>2
  <2>2. CASE p # q
    <3>1. Open(p)' => Open(p)
        BY <1>2, <2>2 DEF Open, WInv, IInv, LandingTypeOK, GitHubTypeOK
    <3>2. Wanted(p, what) /\ Fresh(p, what)
        BY <1>2, <1>5, <3>1, NoNewWants
    <3> QED
        BY <1>2, <1>4, <3>2, OthersPend
  <2> QED
      BY <2>1, <2>2
<1>6. Tasks'
    BY <1>2, TasksStay DEF Kept
<1> QED
    BY <1>5, <1>6 DEF Woken

LEMMA QuietWakes ==
    ASSUME WInv, Kept, NEW q \in PRs, Quiet(q)
    PROVE  Tasks' /\ Woken'
<1>1. UNCHANGED <<tip, phase, job, given, passing, queue, at, task, lost>>
    BY DEF Quiet, ClosePR, DetectMerged, ComputeMergeable, handlerVars
<1>2. \A p \in PRs : Open(p)' => Open(p)
    BY DEF Quiet, ClosePR, DetectMerged, ComputeMergeable, Open, WInv, IInv, LandingTypeOK,
           GitHubTypeOK
<1>3. QueueKept /\ lost \subseteq lost'
    BY <1>1 DEF QueueKept
<1>4. ASSUME NEW p \in PRs, NEW what \in Whats, Wanted(p, what)'
      PROVE  Pending(p, what)'
  <2>1. Wanted(p, what) /\ Fresh(p, what)
      BY <1>1, <1>2, <1>4, NoNewWants
  <2> QED
      BY <1>1, <1>3, <2>1, OthersPend
<1>5. Tasks'
    BY <1>1, TasksStay DEF Kept
<1> QED
    BY <1>4, <1>5 DEF Woken

(* A branch is pushed to, or updated.                                      *)
LEMMA MovesWakes ==
    ASSUME WInv, Kept, NEW b \in Branches, Moves(b),
           UNCHANGED <<prState, phase, job, given, passing, at, task>>,
           \A c \in Branches : c # b => tip'[c] = tip[c]
    PROVE  Tasks' /\ Woken'
<1>1. \A p \in PRs : Open(p)' => Open(p)
    BY DEF Open
<1>2. /\ QueueKept
      /\ lost \subseteq lost'
      /\ \A p \in PRs, what \in Whats :
           Wanted(p, what)' => Pending(p, what)' \/ (Wanted(p, what) /\ Fresh(p, what))
    BY <1>1, MovesCarry DEF WInv, Kept
<1>3. Woken'
    BY <1>2, OthersPend DEF Woken
<1>4. Tasks'
    BY TasksStay DEF Kept
<1> QED
    BY <1>3, <1>4

LEMMA PushesWakes ==
    ASSUME WInv, Kept, NEW c \in Changes, Pushes(c)
    PROVE  Tasks' /\ Woken'
<1>1. PICK b : b = PushedTo[c]
    OBVIOUS
<1>2. b \in Branches
    BY <1>1, BulldozerAssumption
<1>3. /\ Push(b, c) /\ Moves(b) /\ UNCHANGED <<phase, job, given, passing, at, task>>
    BY <1>1 DEF Pushes
<1>4. UNCHANGED prState /\ \A x \in Branches : x # b => tip'[x] = tip[x]
    BY <1>3 DEF Push, WInv, IInv, LandingTypeOK, GitHubTypeOK
<1> QED
    BY <1>2, <1>3, <1>4, MovesWakes

LEMMA UpdateByUserWakes ==
    ASSUME WInv, Kept, NEW q \in PRs, UpdateByUser(q)
    PROVE  Tasks' /\ Woken'
<1>1. PICK b : b = HeadOf[q]
    OBVIOUS
<1>2. b \in Branches
    BY <1>1, TopologyAssumption
<1>3. /\ MergeInto(b, BaseOf[q]) /\ Moves(b)
      /\ UNCHANGED <<phase, job, given, passing, at, task>>
    BY <1>1 DEF UpdateByUser, UserUpdatesBranch
<1>4. UNCHANGED prState
    BY <1>3 DEF MergeInto
<1>5. \A x \in Branches : x # b => tip'[x] = tip[x]
    BY <1>2, <1>3, MergeIntoMoves, TopologyAssumption DEF WInv, IInv, LandingTypeOK
<1> QED
    BY <1>2, <1>3, <1>4, <1>5, MovesWakes

LEMMA GiveWakes ==
    ASSUME WInv, Kept, NEW q \in PRs, NEW c \in Conditions, Give(q, c)
    PROVE  Tasks' /\ Woken'
<1>1. PICK e : e = [kind |-> c, prs |-> {q}]
    OBVIOUS
<1>2. /\ given' = [given EXCEPT ![q] = @ \cup {c}] /\ Deliver(<<e>>)
      /\ UNCHANGED <<landingVars, passing, at, task>>
    BY <1>1 DEF Give
<1>3. e \in Event /\ e.kind = c /\ e.prs = {q} /\ ~ Lists(e)
  <2>1. c \in PullRequestEvents /\ {q} \in SUBSET PRs
      BY DEF PullRequestEvents
  <2>2. c \notin {"push", "status"}
      BY DEF Conditions, Triggers
  <2> QED
      BY <1>1, <2>1, <2>2, EventFacts DEF Lists
<1>4. /\ QueueKept
      /\ lost \subseteq lost'
      /\ \A p \in PRs, what \in Whats :
           p \in About(e) /\ Stirs(e, p, what)' => Pending(p, what)'
    BY <1>2, <1>3, OneEventFacts DEF WInv
<1>5. UNCHANGED <<tip, prState, phase, job>>
    BY <1>2 DEF landingVars, ghVars
<1>6. ASSUME NEW p \in PRs, NEW what \in Whats, Wanted(p, what)'
      PROVE  Pending(p, what)'
  <2>1. CASE p = q /\ what \in Wakes(e)
    <3>1. Stirs(e, p, what)' /\ p \in About(e)
        BY <1>3, <2>1, WakesFacts DEF Stirs, About, Lists
    <3> QED
        BY <1>4, <3>1
  <2>2. CASE ~ (p = q /\ what \in Wakes(e))
    <3>1. CASE p = q
      <4>1. "merge" \in Wakes(e)
          BY <1>3, WakesFacts DEF Lists
      <4>2. what = "update" /\ ~ Updates(e) /\ ToBeUpdated(p)'
          BY <1>6, <2>2, <3>1, <4>1, WakesFacts DEF Whats, Wanted
      <4>3. c # "labeled"
          BY <1>3, <4>2 DEF Updates, ToBeUpdated
      <4>4. given'[p] = given[p] \cup {c}
          BY <1>2, <3>1 DEF WInv, IInv, DataInv
      <4>5. UpdateTriggers = {} \/ "labeled" \in UpdateTriggers \cap given[p]
          BY <4>2, <4>3, <4>4 DEF ToBeUpdated
      <4>6. ToBeUpdated(p)
          BY <1>5, <4>2, <4>5 DEF ToBeUpdated, Open
      <4>7. Wanted(p, what) /\ Fresh(p, what)
          BY <4>2, <4>4, <4>6 DEF Wanted, Fresh
      <4> QED
          BY <1>2, <1>4, <1>5, <4>7, OthersPend
    <3>2. CASE p # q
      <4>1. given'[p] = given[p]
          BY <1>2, <3>2 DEF WInv, IInv, DataInv
      <4>2. Wanted(p, what) /\ Fresh(p, what)
          BY <1>2, <1>5, <1>6, <4>1
             DEF Wanted, ReadyToMerge, ToBeUpdated, Contained, Fresh, Open
      <4> QED
          BY <1>2, <1>4, <1>5, <4>2, OthersPend
    <3> QED
        BY <3>1, <3>2
  <2> QED
      BY <2>1, <2>2
<1>7. Tasks'
    BY <1>2, TasksStay DEF Kept
<1> QED
    BY <1>6, <1>7 DEF Woken

LEMMA ReportWakes ==
    ASSUME WInv, Kept, NEW q \in PRs, Report(q)
    PROVE  Tasks' /\ Woken'
<1>1. PICK sha : sha = tip[HeadOf[q]]
    OBVIOUS
<1>2. PICK named : named = {x \in PRs : Open(x) /\ tip[HeadOf[x]] = sha /\ HeadOf[x] \notin Forks}
    OBVIOUS
<1>3. PICK e : e = IF RequiredCheck = "status" THEN [kind |-> "status", sha |-> sha]
                   ELSE [kind |-> "check_run", prs |-> named]
    OBVIOUS
<1>4. /\ passing' = passing \cup {sha} /\ Deliver(<<e>>)
      /\ UNCHANGED <<landingVars, given, at, task>>
    BY <1>1, <1>2, <1>3 DEF Report
<1>5. UNCHANGED <<tip, prState, phase, job>>
    BY <1>4 DEF landingVars, ghVars
<1>6. sha \in Commit
    BY <1>1, TopologyAssumption DEF WInv, IInv, LandingTypeOK, GitHubTypeOK
<1>7. /\ e \in Event
      /\ RequiredCheck = "status" => e.kind = "status" /\ e.sha = sha
      /\ RequiredCheck # "status" => e.kind = "check_run" /\ e.prs = named
  <2>1. CASE RequiredCheck = "status"
    <3>1. e = [kind |-> "status", sha |-> sha]
        BY <1>3, <2>1
    <3> QED
        BY <1>6, <2>1, <3>1, EventFacts
  <2>2. CASE RequiredCheck # "status"
    <3>1. e = [kind |-> "check_run", prs |-> named]
        BY <1>3, <2>2
    <3>2. "check_run" \in PullRequestEvents /\ named \in SUBSET PRs
        BY <1>2 DEF PullRequestEvents
    <3> QED
        BY <2>2, <3>1, <3>2, EventFacts
  <2> QED
      BY <2>1, <2>2
<1>8. /\ QueueKept
      /\ lost \subseteq lost'
      /\ \A p \in PRs, what \in Whats :
           p \in About(e) /\ Stirs(e, p, what)' => Pending(p, what)'
    BY <1>4, <1>7, OneEventFacts DEF WInv
<1>9. ASSUME NEW p \in PRs, NEW what \in Whats, Wanted(p, what)'
      PROVE  Pending(p, what)'
  <2>1. CASE what = "merge" /\ tip[HeadOf[p]] = sha
    <3>1. ReadyToMerge(p)'
        BY <1>9, <2>1 DEF Wanted
    <3>2. Open(p) /\ (HeadOf[p] \in Forks => RequiredCheck = "status")
        BY <1>5, <3>1 DEF ReadyToMerge, Open
    <3>3. "merge" \in Wakes(e)
        BY <1>7, WakesFacts
    <3>4. p \in About(e) /\ Stirs(e, p, "merge")'
      <4>1. CASE RequiredCheck = "status"
          BY <1>5, <1>7, <2>1, <3>3, <4>1, WakesFacts DEF About, Stirs, Lists, Matches
      <4>2. CASE RequiredCheck # "status"
        <5>1. p \in named
            BY <1>2, <2>1, <3>2, <4>2
        <5> QED
            BY <1>7, <3>3, <4>2, <5>1, WakesFacts DEF About, Stirs, Lists
      <4> QED
          BY <4>1, <4>2
    <3> QED
        BY <1>8, <2>1, <3>4 DEF Whats
  <2>2. CASE ~ (what = "merge" /\ tip[HeadOf[p]] = sha)
    <3>1. Wanted(p, what) /\ Fresh(p, what)
        BY <1>4, <1>5, <1>9, <2>2
           DEF Wanted, ReadyToMerge, ToBeUpdated, Contained, Fresh, Open, Whats
    <3> QED
        BY <1>4, <1>5, <1>8, <3>1, OthersPend
  <2> QED
      BY <2>1, <2>2
<1>10. Tasks'
    BY <1>4, TasksStay DEF Kept
<1> QED
    BY <1>9, <1>10 DEF Woken

LEMMA RestartWakes ==
    ASSUME WInv, Restart
    PROVE  Tasks' /\ Woken'
<1>1. Woken'
    BY DEF Restart, Woken, Pending, Whats
<1>2. Tasks'
    BY DEF Restart, Tasks, TaskInv
<1> QED
    BY <1>1, <1>2

-----------------------------------------------------------------------------
(* The invariant.                                                          *)

LEMMA HandleWakes ==
    ASSUME WInv, Kept, NEW w \in Workers, Handle(w)
    PROVE  Tasks' /\ Woken'
BY TakeWakes, ListPageWakes, NextListedWakes, NextNumberWakes, LoopEndsWakes, ReturnWakes,
   GetForUpdateWakes, CompareCommitsWakes, UpdateBranchWakes, UpdateFailsWakes,
   ProcessPullRequestWakes, ProcessFailsWakes, MergeWakes, GiveUpWakes, AttemptDeleteWakes,
   PanicWakes DEF Handle

LEMMA StutterWakes ==
    ASSUME WInv, UNCHANGED bulldozerVars
    PROVE  Tasks' /\ Woken'
<1>1. UNCHANGED <<prState, tip, phase, job, given, passing, queue, at, task, lost>>
    BY DEF bulldozerVars, handlerVars, landingVars, ghVars
<1>2. Tasks'
    BY <1>1 DEF WInv, Tasks, TaskInv, Lists
<1>3. Woken'
  <2>1. QueueKept /\ \A p \in PRs : Open(p)' => Open(p)
      BY <1>1 DEF QueueKept, Open
  <2> QED
      BY <1>1, <2>1, NoNewWants, OthersPend DEF Woken
<1> QED
    BY <1>2, <1>3

LEMMA WInvInit == BulldozerInit => WInv
<1> SUFFICES ASSUME BulldozerInit PROVE WInv
    OBVIOUS
<1>1. Tasks
    BY DEF BulldozerInit, Tasks, TaskInv
<1>2. Woken
    BY DEF BulldozerInit, LandingInit, GitHubInit, Woken, Wanted, ReadyToMerge, ToBeUpdated, Open
<1> QED
    BY <1>1, <1>2, InitInv DEF WInv

LEMMA WInvStep == WInv /\ [BulldozerNext]_bulldozerVars => WInv'
<1> SUFFICES ASSUME WInv, [BulldozerNext]_bulldozerVars
             PROVE  Tasks' /\ Woken' /\ IInv'
    BY DEF WInv
<1>1. IInv' /\ [LandingNext]_landingVars
    BY Step DEF WInv
<1>2. Kept
    BY <1>1, LandingKeeps DEF WInv, IInv
<1>3. CASE \E w \in Workers : Handle(w)
    BY <1>1, <1>2, <1>3, HandleWakes
<1>4. CASE \E p \in PRs : \/ Opens(p) \/ Quiet(p) \/ UpdateByUser(p) \/ Report(p)
                          \/ \E c \in Conditions : Give(p, c)
    BY <1>1, <1>2, <1>4, OpensWakes, QuietWakes, UpdateByUserWakes, ReportWakes, GiveWakes
<1>5. CASE \E c \in Changes : Pushes(c)
    BY <1>1, <1>2, <1>5, PushesWakes
<1>6. CASE Restart
    BY <1>1, <1>6, RestartWakes
<1>7. CASE UNCHANGED bulldozerVars
    BY <1>1, <1>7, StutterWakes
<1> QED
    BY <1>3, <1>4, <1>5, <1>6, <1>7 DEF BulldozerNext

LEMMA AlwaysWoken == BulldozerSpec => []WInv
BY WInvInit, WInvStep, PTL DEF BulldozerSpec

-----------------------------------------------------------------------------
(* However the handlers of any number of workers interleave with each      *)
(* other, with pushes, reports and lists that shift, when all events are   *)
(* handled a pull request that is ready is not merged only if an event,    *)
(* a call or a run that was about it is recorded as lost.                  *)
THEOREM NoMergeMissed == BulldozerSpec => []NoMergeIsMissed
<1>1. WInv => NoMergeIsMissed
    BY WokenMeans
<1> QED
    BY <1>1, AlwaysWoken, PTL

(* The same for updates: whoever is to be updated has all of the base, or  *)
(* an event or a call of the update is recorded as lost.                   *)
THEOREM NoUpdateMissed == BulldozerSpec => []NoUpdateIsMissed
<1>1. WInv => NoUpdateIsMissed
    BY WokenMeans
<1> QED
    BY <1>1, AlwaysWoken, PTL
=============================================================================
