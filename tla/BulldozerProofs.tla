--------------------------- MODULE BulldozerProofs ---------------------------
(***************************************************************************)
(* Theorems about Bulldozer, for any pull requests, workers, configuration *)
(* and queue: its state is well formed, and all that the handlers do to    *)
(* the repository is what module Landing promises.                         *)
(***************************************************************************)
EXTENDS Bulldozer, GitHubProofs, SequenceTheorems

-----------------------------------------------------------------------------
(* The promise keeps the repository and the jobs well typed, and takes     *)
(* nothing back.                                                           *)

Kept == LandingTypeOK' /\ Grows /\ Settled

LEMMA BecomeTypes ==
    ASSUME LandingTypeOK, NEW w \in Workers, NEW stage \in Phases, NEW j \in Job \cup {NoJob},
           stage # "idle" => j \in Job, Become(w, stage, j)
    PROVE  /\ phase' \in [Workers -> Phases]
           /\ job' \in [Workers -> Job \cup {NoJob}]
           /\ \A v \in Workers : phase'[v] # "idle" => job'[v] \in Job
BY DEF LandingTypeOK, Become

LEMMA FinishTypes ==
    ASSUME LandingTypeOK, NEW w \in Workers, Finish(w)
    PROVE  /\ phase' \in [Workers -> Phases]
           /\ job' \in [Workers -> Job \cup {NoJob}]
           /\ \A v \in Workers : phase'[v] # "idle" => job'[v] \in Job
<1>1. "idle" \in Phases /\ NoJob \in Job \cup {NoJob}
    BY DEF Phases
<1> QED
    BY <1>1, BecomeTypes DEF Finish

LEMMA PutOnBaseKeeps ==
    ASSUME GitHubTypeOK, NEW j \in Job, PutOnBase(j)
    PROVE  GitHubTypeOK' /\ Grows /\ Settled
<1>1. j.pr \in PRs /\ j.head \in Commit /\ BaseOf[j.pr] \in Branches
    BY TopologyAssumption DEF Job
<1>2. CASE LandMerge(j.pr, j.method)
    BY <1>1, <1>2, LandMergeTypes, LandMergeKeeps
<1>3. CASE tip[BaseOf[j.pr]] \subseteq j.head /\ SetRef(BaseOf[j.pr], j.head)
  <2>1. GitHubTypeOK'
      BY <1>1, <1>3, SetRefTypes
  <2>2. Grows /\ Settled
      BY <1>1, <1>3 DEF GitHubTypeOK, Grows, Settled, SetRef
  <2> QED
      BY <2>1, <2>2
<1> QED
    BY <1>2, <1>3 DEF PutOnBase

LEMMA LandingKeeps == LandingTypeOK /\ [LandingNext]_landingVars => Kept
<1> SUFFICES ASSUME LandingTypeOK, [LandingNext]_landingVars PROVE Kept
    OBVIOUS
<1>0. GitHubTypeOK
    BY DEF LandingTypeOK
<1>q. ASSUME GitHubTypeOK', Grows, Settled,
             phase' \in [Workers -> Phases], job' \in [Workers -> Job \cup {NoJob}],
             \A v \in Workers : phase'[v] # "idle" => job'[v] \in Job
      PROVE  Kept
    BY <1>q DEF Kept, LandingTypeOK
<1>r. UNCHANGED ghVars => GitHubTypeOK' /\ Grows /\ Settled
    BY <1>0, UnchangedTypes, UnchangedKeeps
<1>s. UNCHANGED <<phase, job>> =>
          /\ phase' \in [Workers -> Phases] /\ job' \in [Workers -> Job \cup {NoJob}]
          /\ \A v \in Workers : phase'[v] # "idle" => job'[v] \in Job
    BY DEF LandingTypeOK
<1>1. ASSUME NEW w \in Workers, Land(w) PROVE Kept
  <2>1. job[w] \in Job /\ PutOnBase(job[w])
      BY <1>1 DEF Land, LandingTypeOK
  <2>2. GitHubTypeOK' /\ Grows /\ Settled
      BY <1>0, <2>1, PutOnBaseKeeps
  <2>3. CASE Become(w, "landed", job[w])
    <3>1. "landed" \in Phases /\ job[w] \in Job \cup {NoJob}
        BY <2>1 DEF Phases
    <3> QED
        BY <1>q, <2>1, <2>2, <2>3, <3>1, BecomeTypes
  <2>4. CASE Finish(w)
      BY <1>q, <2>2, <2>4, FinishTypes
  <2>5. CASE UNCHANGED <<phase, job>>
      BY <1>q, <1>s, <2>2, <2>5
  <2> QED
      BY <1>1, <2>3, <2>4, <2>5 DEF Land
<1>2. ASSUME NEW w \in Workers, Abandon(w) \/ KeepBranch(w) PROVE Kept
    BY <1>2, <1>q, <1>r, FinishTypes DEF Abandon, KeepBranch
<1>3. ASSUME NEW w \in Workers, DeleteBranch(w) PROVE Kept
  <2>1. job[w] \in Job /\ RemoveBranch(HeadOf[job[w].pr]) /\ Finish(w)
      BY <1>3 DEF DeleteBranch, LandingTypeOK
  <2>2. HeadOf[job[w].pr] \in Branches
      BY <2>1, TopologyAssumption DEF Job
  <2>3. GitHubTypeOK' /\ Grows /\ Settled
      BY <1>0, <2>1, <2>2, RemoveBranchTypes, RemoveBranchKeeps
  <2> QED
      BY <1>q, <2>1, <2>3, FinishTypes
<1>4. ASSUME NEW w \in Workers, NEW p \in PRs, NEW method \in MergeMethods,
             NEW deletes \in BOOLEAN, NEW head \in SUBSET tip[HeadOf[p]],
             TakeUp(w, p, head, method, deletes)
      PROVE  Kept
  <2> DEFINE j == [pr |-> p, head |-> head, method |-> method, deletes |-> deletes]
  <2>1. head \in Commit
      BY <1>0, TopologyAssumption DEF GitHubTypeOK, Commit
  <2>2. j \in Job
      BY <2>1 DEF Job
  <2>3. Become(w, "merging", j) /\ UNCHANGED ghVars
      BY <1>4 DEF TakeUp
  <2> HIDE DEF j
  <2>4. "merging" \in Phases /\ j \in Job \cup {NoJob}
      BY <2>2 DEF Phases
  <2> QED
      BY <1>q, <1>r, <2>2, <2>3, <2>4, BecomeTypes
<1>5. ASSUME NEW p \in PRs, UpdateHead(p) PROVE Kept
  <2>1. HeadOf[p] \in Branches /\ BaseOf[p] \in Branches
      BY TopologyAssumption
  <2>2. GitHubTypeOK' /\ Grows /\ Settled
      BY <1>0, <1>5, <2>1, MergeIntoTypes, MergeIntoKeeps DEF UpdateHead
  <2> QED
      BY <1>5, <1>q, <1>s, <2>2 DEF UpdateHead
<1>6. ASSUME StopAll PROVE Kept
  <2>1. /\ phase' \in [Workers -> Phases] /\ job' \in [Workers -> Job \cup {NoJob}]
        /\ \A v \in Workers : phase'[v] = "idle"
      BY <1>6 DEF StopAll, Phases
  <2> QED
      BY <1>6, <1>q, <1>r, <2>1 DEF StopAll
<1>7. ASSUME GitHubNext, UNCHANGED <<phase, job>> PROVE Kept
    BY <1>0, <1>7, <1>q, <1>s, GitHubTypes, GitHubKeeps
<1>8. ASSUME UNCHANGED landingVars PROVE Kept
    BY <1>8, <1>q, <1>r, <1>s DEF landingVars
<1> QED
    BY <1>1, <1>2, <1>3, <1>4, <1>5, <1>6, <1>7, <1>8 DEF LandingNext, LandingStep

-----------------------------------------------------------------------------
(* What is promised: a branch is deleted only with its work on the base.   *)

(* Until it lands, the head that was handed over is on the branch; then it *)
(* is what LandedWorkStays says.                                           *)
WorkOf(w) ==
    /\ phase[w] = "merging" => job[w].head \subseteq tip[HeadOf[job[w].pr]]
    /\ phase[w] = "landed" => job[w].deletes /\ OnBase(job[w])

WorkInv == LandingTypeOK /\ \A w \in Workers : WorkOf(w)

LEMMA OnBaseStays ==
    ASSUME NEW j \in Job, OnBase(j), Grows, Settled PROVE OnBase(j)'
<1>1. j.pr \in PRs /\ BaseOf[j.pr] \in Branches
    BY TopologyAssumption DEF Job
<1> QED
    BY <1>1 DEF OnBase, Grows, Settled

LEMMA WorkKept ==
    ASSUME WorkInv, Grows, Settled, NEW w \in Workers,
           phase'[w] = phase[w], job'[w] = job[w]
    PROVE  WorkOf(w)'
<1>1. PICK j : j = job[w]
    OBVIOUS
<1>2. ASSUME phase[w] # "idle" PROVE j \in Job /\ HeadOf[j.pr] \in Branches
  <2>1. j \in Job
      BY <1>1, <1>2 DEF WorkInv, LandingTypeOK
  <2> QED
      BY <2>1, TopologyAssumption DEF Job
<1>3. /\ phase[w] = "merging" => j.head \subseteq tip[HeadOf[j.pr]]
      /\ phase[w] = "landed" => j.deletes /\ OnBase(j)
    BY <1>1 DEF WorkInv, WorkOf
<1>4. phase'[w] = "merging" => j.head \subseteq tip'[HeadOf[j.pr]]
    BY <1>2, <1>3 DEF Grows
<1>5. phase'[w] = "landed" => j.deletes /\ OnBase(j)'
    BY <1>2, <1>3, OnBaseStays
<1> QED
    BY <1>1, <1>4, <1>5 DEF WorkOf, OnBase

(* What a worker gets is on its branch, what it lands is on the base.      *)
LEMMA PutOnBaseLands ==
    ASSUME GitHubTypeOK, NEW j \in Job, j.head \subseteq tip[HeadOf[j.pr]], PutOnBase(j)
    PROVE  OnBase(j)'
<1>1. j.pr \in PRs /\ BaseOf[j.pr] \in Branches
    BY TopologyAssumption DEF Job
<1>2. CASE j.method # "ff-only" /\ LandMerge(j.pr, j.method)
  <2>1. /\ prState'[j.pr] = "merged"
        /\ tip'[BaseOf[j.pr]] = tip[BaseOf[j.pr]] \cup {j.pr}
                                  \cup (IF j.method = "merge" THEN tip[HeadOf[j.pr]] ELSE {})
      BY <1>1, <1>2 DEF GitHubTypeOK, LandMerge
  <2> QED
      BY <1>2, <2>1 DEF OnBase
<1>3. CASE j.method = "ff-only" /\ SetRef(BaseOf[j.pr], j.head)
  <2>1. tip'[BaseOf[j.pr]] = j.head
      BY <1>1, <1>3 DEF GitHubTypeOK, SetRef
  <2> QED
      BY <1>3, <2>1 DEF OnBase
<1> QED
    BY <1>2, <1>3 DEF PutOnBase

LEMMA BecomeShows ==
    ASSUME LandingTypeOK, NEW w \in Workers, NEW stage, NEW j, Become(w, stage, j)
    PROVE  /\ phase'[w] = stage /\ job'[w] = j
           /\ \A v \in Workers \ {w} : phase'[v] = phase[v] /\ job'[v] = job[v]
BY DEF LandingTypeOK, Become

LEMMA WorkStep == WorkInv /\ [LandingNext]_landingVars => WorkInv'
<1> SUFFICES ASSUME WorkInv, [LandingNext]_landingVars PROVE WorkInv'
    OBVIOUS
<1>0. LandingTypeOK /\ GitHubTypeOK /\ LandingTypeOK' /\ Grows /\ Settled
    BY LandingKeeps DEF WorkInv, Kept, LandingTypeOK
<1>q. ASSUME NEW w \in Workers, WorkOf(w)',
             \A v \in Workers \ {w} : phase'[v] = phase[v] /\ job'[v] = job[v]
      PROVE  WorkInv'
  <2>1. ASSUME NEW v \in Workers PROVE WorkOf(v)'
      BY <1>0, <1>q, WorkKept
  <2> QED
      BY <1>0, <2>1 DEF WorkInv
<1>e. ASSUME NEW w \in Workers, Finish(w) PROVE WorkInv'
  <2>1. phase'[w] = "idle" /\ \A v \in Workers \ {w} : phase'[v] = phase[v] /\ job'[v] = job[v]
      BY <1>0, <1>e, BecomeShows DEF Finish
  <2>2. WorkOf(w)'
      BY <2>1 DEF WorkOf
  <2> QED
      BY <1>q, <2>1, <2>2
<1>s. ASSUME UNCHANGED <<phase, job>> PROVE WorkInv'
  <2>1. ASSUME NEW v \in Workers PROVE WorkOf(v)'
      BY <1>0, <1>s, WorkKept
  <2> QED
      BY <1>0, <2>1 DEF WorkInv
<1>1. ASSUME NEW w \in Workers, Land(w) PROVE WorkInv'
  <2>1. PICK j : j = job[w]
      OBVIOUS
  <2>2. j \in Job /\ PutOnBase(j) /\ j.head \subseteq tip[HeadOf[j.pr]]
      BY <1>1, <2>1 DEF Land, WorkInv, WorkOf, LandingTypeOK
  <2>3. CASE j.deletes /\ Become(w, "landed", j)
    <3>1. OnBase(j)'
        BY <1>0, <2>2, PutOnBaseLands
    <3>2. /\ phase'[w] = "landed" /\ job'[w] = j
          /\ \A v \in Workers \ {w} : phase'[v] = phase[v] /\ job'[v] = job[v]
        BY <1>0, <2>3, BecomeShows
    <3>3. WorkOf(w)'
        BY <2>3, <3>1, <3>2 DEF WorkOf, OnBase
    <3> QED
        BY <1>q, <3>2, <3>3
  <2> QED
      BY <1>1, <1>e, <1>s, <2>1, <2>3 DEF Land
<1>2. ASSUME NEW w \in Workers, Abandon(w) \/ DeleteBranch(w) \/ KeepBranch(w) PROVE WorkInv'
    BY <1>2, <1>e DEF Abandon, DeleteBranch, KeepBranch
<1>3. ASSUME NEW w \in Workers, NEW p \in PRs, NEW method \in MergeMethods,
             NEW deletes \in BOOLEAN, NEW head \in SUBSET tip[HeadOf[p]],
             TakeUp(w, p, head, method, deletes)
      PROVE  WorkInv'
  <2>1. PICK j : j = [pr |-> p, head |-> head, method |-> method, deletes |-> deletes]
      OBVIOUS
  <2>2. Become(w, "merging", j) /\ UNCHANGED ghVars
      BY <1>3, <2>1 DEF TakeUp
  <2>3. /\ phase'[w] = "merging" /\ job'[w] = j
        /\ \A v \in Workers \ {w} : phase'[v] = phase[v] /\ job'[v] = job[v]
      BY <1>0, <2>2, BecomeShows
  <2>4. j.head \subseteq tip'[HeadOf[j.pr]]
      BY <2>1, <2>2 DEF ghVars
  <2>5. WorkOf(w)'
      BY <2>3, <2>4 DEF WorkOf
  <2> QED
      BY <1>q, <2>3, <2>5
<1>4. ASSUME StopAll PROVE WorkInv'
  <2>1. ASSUME NEW v \in Workers PROVE WorkOf(v)'
      BY <1>4 DEF StopAll, WorkOf
  <2> QED
      BY <1>0, <2>1 DEF WorkInv
<1>5. ASSUME NEW p \in PRs, UpdateHead(p) PROVE WorkInv'
    BY <1>5, <1>s DEF UpdateHead
<1>6. CASE UNCHANGED landingVars
    BY <1>6, <1>s DEF landingVars
<1> QED
    BY <1>1, <1>2, <1>3, <1>4, <1>5, <1>6, <1>s DEF LandingNext, LandingStep

(* Module Landing itself, whatever implements it: a branch is deleted only *)
(* by a job that is to delete it and whose work is on the base, and stays  *)
(* there until the deletion.                                               *)
THEOREM LandingKeepsWork == LandingSpec => []LandedWorkStays
<1>1. LandingInit => WorkInv
  <2> SUFFICES ASSUME LandingInit PROVE WorkInv
      OBVIOUS
  <2>1. LandingTypeOK
      BY DEF LandingInit, LandingTypeOK, GitHubInit, GitHubTypeOK, Commit, Phases
  <2>2. \A w \in Workers : WorkOf(w)
      BY DEF LandingInit, WorkOf
  <2> QED
      BY <2>1, <2>2 DEF WorkInv
<1>2. WorkInv => LandedWorkStays
    BY DEF WorkInv, WorkOf, LandedWorkStays
<1> QED
    BY <1>1, <1>2, WorkStep, PTL DEF LandingSpec

-----------------------------------------------------------------------------
(* The invariant: pull requests that events and tasks name have been       *)
(* opened, and a head that a handler remembers is still on its branch.     *)

KnownEvent(e) == e.kind \in PullRequestEvents => \A p \in e.prs : prState[p] # "none"

KnownView(v) == prState[v.pr] # "none" /\ v.head \subseteq tip[HeadOf[v.pr]]

WithView == {"get", "compare", "update", "decide"}

WorkerInv(stage, t) ==
    /\ stage # "idle" => /\ t \in Task
                         /\ KnownEvent(t.event)
                         /\ \A s \in t.listed : KnownView(s)
                         /\ \A p \in t.todo : prState[p] # "none"
    /\ stage \in WithView => t.view \in View /\ KnownView(t.view)

WorkersInv ==
    /\ at \in [Workers -> Stages]
    /\ task \in [Workers -> Task \cup {NoTask}]
    /\ \A w \in Workers :
         /\ WorkerInv(at[w], task[w])
         /\ at[w] # "loop" => phase[w] = "idle"

QueueInv ==
    /\ queue \in Seq(Event)
    /\ Len(queue) <= QueueSize
    /\ \A i \in 1 .. Len(queue) : KnownEvent(queue[i])

DataInv ==
    /\ given \in [PRs -> SUBSET Relevant]
    /\ passing \in SUBSET Commit

LostInv == lost \in SUBSET (PRs \X {"merge", "update"})

IInv == LandingTypeOK /\ DataInv /\ QueueInv /\ WorkersInv /\ LostInv

LEMMA InvTypes == IInv => BulldozerTypeOK
BY DEF IInv, DataInv, QueueInv, WorkersInv, WorkerInv, LostInv, WithView, BulldozerTypeOK

(* What was known of an event, a snapshot or a task stays true.            *)
LEMMA KnowledgePersists ==
    ASSUME Grows, Settled
    PROVE  /\ \A e \in Event : KnownEvent(e) => KnownEvent(e)'
           /\ \A v \in View : KnownView(v) => KnownView(v)'
           /\ \A stage, t : WorkerInv(stage, t) => WorkerInv(stage, t)'
<1>1. ASSUME NEW e \in Event, KnownEvent(e) PROVE KnownEvent(e)'
  <2>1. e.kind \in PullRequestEvents => e.prs \subseteq PRs
      BY DEF Event, PullRequestEvents, Conditions, Triggers
  <2> QED
      BY <1>1, <2>1 DEF KnownEvent, Settled
<1>2. ASSUME NEW v \in View, KnownView(v) PROVE KnownView(v)'
  <2>1. v.pr \in PRs /\ HeadOf[v.pr] \in Branches
      BY TopologyAssumption DEF View
  <2> QED
      BY <1>2, <2>1 DEF KnownView, Grows, Settled
<1>3. ASSUME NEW stage, NEW t, WorkerInv(stage, t) PROVE WorkerInv(stage, t)'
  <2>1. t \in Task => t.event \in Event /\ t.listed \subseteq View /\ t.todo \subseteq PRs
      BY DEF Task
  <2> QED
      BY <1>1, <1>2, <1>3, <2>1 DEF WorkerInv, Settled
<1> QED
    BY <1>1, <1>2, <1>3

LEMMA InitInv == BulldozerInit => IInv
<1> SUFFICES ASSUME BulldozerInit PROVE IInv
    OBVIOUS
<1>1. LandingTypeOK
    BY DEF BulldozerInit, LandingInit, GitHubInit, LandingTypeOK, GitHubTypeOK, Commit, Phases
<1>2. QueueInv
  <2>1. queue = <<>> /\ QueueSize \in Nat
      BY BulldozerAssumption DEF BulldozerInit
  <2>2. queue \in Seq(Event) /\ Len(queue) = 0
      BY <2>1
  <2> QED
      BY <2>1, <2>2 DEF QueueInv
<1>3. WorkersInv
    BY DEF BulldozerInit, LandingInit, WorkersInv, WorkerInv, WithView, Stages
<1>4. DataInv /\ LostInv
    BY DEF BulldozerInit, DataInv, LostInv
<1> QED
    BY <1>1, <1>2, <1>3, <1>4 DEF IInv

-----------------------------------------------------------------------------
(* What each part of a step keeps.                                         *)

(* The worker goes on to a stage with a task that fits it.                 *)
LEMMA GotoKeeps ==
    ASSUME IInv, Kept, NEW w \in Workers, NEW stage \in Stages, NEW t \in Task \cup {NoTask},
           WorkerInv(stage, t)', Goto(w, stage, t),
           stage # "loop" => phase'[w] = "idle",
           \A v \in Workers : v # w => phase'[v] = phase[v]
    PROVE  WorkersInv'
<1>1. /\ at \in [Workers -> Stages] /\ task \in [Workers -> Task \cup {NoTask}]
      /\ at' = [at EXCEPT ![w] = stage] /\ task' = [task EXCEPT ![w] = t]
    BY DEF IInv, WorkersInv, Goto
<1>2. at' \in [Workers -> Stages] /\ task' \in [Workers -> Task \cup {NoTask}]
    BY <1>1
<1>3. at'[w] = stage /\ task'[w] = t
    BY <1>1
<1>4. ASSUME NEW v \in Workers
      PROVE  WorkerInv(at[v], task[v])' /\ (at'[v] # "loop" => phase'[v] = "idle")
  <2>1. CASE v = w
      BY <1>3, <2>1 DEF WorkerInv, KnownEvent, KnownView
  <2>2. CASE v # w
    <3>1. at'[v] = at[v] /\ task'[v] = task[v] /\ phase'[v] = phase[v]
        BY <1>1, <2>2
    <3>2. WorkerInv(at[v], task[v]) /\ (at[v] # "loop" => phase[v] = "idle")
        BY DEF IInv, WorkersInv
    <3>3. \A s, r : WorkerInv(s, r) => WorkerInv(s, r)'
        BY KnowledgePersists DEF Kept
    <3>4. PICK s, r : s = at[v] /\ r = task[v]
        OBVIOUS
    <3>5. WorkerInv(s, r)'
        BY <3>2, <3>3, <3>4
    <3> QED
        BY <3>1, <3>2, <3>4, <3>5 DEF WorkerInv, KnownEvent, KnownView
  <2> QED
      BY <2>1, <2>2
<1> QED
    BY <1>2, <1>4 DEF WorkersInv

LEMMA EndKeeps ==
    ASSUME IInv, Kept, NEW w \in Workers, End(w), phase'[w] = "idle",
           \A v \in Workers : v # w => phase'[v] = phase[v]
    PROVE  WorkersInv'
<1>1. "idle" \in Stages /\ "idle" \notin WithView
    BY DEF Stages, WithView
<1>2. WorkerInv("idle", NoTask)'
    BY <1>1 DEF WorkerInv
<1> QED
    BY <1>1, <1>2, GotoKeeps DEF End

(* The workers stay where they are.                                        *)
LEMMA WorkersStay ==
    ASSUME IInv, Kept, UNCHANGED <<at, task>>,
           \A w \in Workers : phase'[w] = "idle" \/ phase'[w] = phase[w] \/ at[w] = "loop"
    PROVE  WorkersInv'
<1>1. ASSUME NEW w \in Workers
      PROVE  WorkerInv(at[w], task[w])' /\ (at'[w] # "loop" => phase'[w] = "idle")
  <2>1. WorkerInv(at[w], task[w]) /\ (at[w] # "loop" => phase[w] = "idle")
      BY DEF IInv, WorkersInv
  <2>2. \A s, r : WorkerInv(s, r) => WorkerInv(s, r)'
      BY KnowledgePersists DEF Kept
  <2>3. PICK s, r : s = at[w] /\ r = task[w]
      OBVIOUS
  <2>4. WorkerInv(s, r)'
      BY <2>1, <2>2, <2>3
  <2> QED
      BY <2>1, <2>3, <2>4 DEF WorkerInv, KnownEvent, KnownView
<1> QED
    BY <1>1 DEF IInv, WorkersInv

LEMMA QueueStays ==
    ASSUME IInv, Kept, UNCHANGED queue
    PROVE  QueueInv'
<1>1. queue \in Seq(Event) /\ Len(queue) <= QueueSize
    BY DEF IInv, QueueInv
<1>2. ASSUME NEW i \in 1 .. Len(queue) PROVE KnownEvent(queue[i])'
  <2>1. queue[i] \in Event /\ KnownEvent(queue[i])
      BY <1>1 DEF IInv, QueueInv
  <2>2. \A e \in Event : KnownEvent(e) => KnownEvent(e)'
      BY KnowledgePersists DEF Kept
  <2>3. PICK e \in Event : e = queue[i]
      BY <2>1
  <2>4. KnownEvent(e)'
      BY <2>1, <2>2, <2>3
  <2> QED
      BY <2>3, <2>4 DEF KnownEvent
<1> QED
    BY <1>1, <1>2 DEF QueueInv

(* Events, and which pull requests they are about.                         *)
LEMMA EventFacts ==
    /\ \A b \in Branches : [kind |-> "push", branch |-> b] \in Event
    /\ \A c \in Commit : [kind |-> "status", sha |-> c] \in Event
    /\ \A k \in PullRequestEvents, prs \in SUBSET PRs : [kind |-> k, prs |-> prs] \in Event
    /\ \A e \in Event : About(e) \subseteq PRs /\ Wakes(e) \subseteq {"merge", "update"}
<1>1. \A b \in Branches : [kind |-> "push", branch |-> b] \in Event
    BY DEF Event
<1>2. \A c \in Commit : [kind |-> "status", sha |-> c] \in Event
    BY DEF Event
<1>3. \A k \in PullRequestEvents, prs \in SUBSET PRs : [kind |-> k, prs |-> prs] \in Event
    BY DEF Event
<1>4. ASSUME NEW e \in Event
      PROVE  About(e) \subseteq PRs /\ Wakes(e) \subseteq {"merge", "update"}
  <2>1. ~ Lists(e) => e.prs \subseteq PRs
      BY DEF Event, Lists, PullRequestEvents, Conditions, Triggers
  <2>2. About(e) \subseteq PRs
      BY <2>1 DEF About
  <2>3. Wakes(e) \subseteq {"merge", "update"}
      BY DEF Wakes
  <2> QED
      BY <2>2, <2>3
<1> QED
    BY <1>1, <1>2, <1>3, <1>4

LEMMA MissesKeeps ==
    ASSUME IInv, NEW prs \in SUBSET PRs, NEW what \in SUBSET {"merge", "update"},
           Misses(prs, what)
    PROVE  LostInv'
BY DEF IInv, LostInv, Misses

(* What finds room is queued.                                              *)
LEMMA DeliverKeeps ==
    ASSUME IInv, Kept, NEW events \in Seq(Event), Deliver(events),
           \A i \in 1 .. Len(events) : KnownEvent(events[i])'
    PROVE  QueueInv' /\ LostInv'
<1> DEFINE accepted == Accepted(events)
           room == QueueSize - Len(queue)
<1>1. /\ queue \in Seq(Event) /\ Len(queue) \in Nat /\ Len(queue) <= QueueSize
      /\ QueueSize \in Nat /\ room \in Nat /\ Len(events) \in Nat
    BY BulldozerAssumption, LenProperties DEF IInv, QueueInv
<1>2. /\ accepted \in Seq(Event) /\ Len(accepted) <= room
      /\ \A i \in 1 .. Len(accepted) : i \in 1 .. Len(events) /\ accepted[i] = events[i]
  <2>1. CASE Len(events) <= room
    <3>1. accepted = events
        BY <2>1 DEF Accepted
    <3> QED
        BY <2>1, <3>1
  <2>2. CASE ~ (Len(events) <= room)
    <3>1. accepted = SubSeq(events, 1, room)
        BY <2>2 DEF Accepted
    <3>2. \A i \in 1 .. room : i \in 1 .. Len(events)
        BY <1>1, <2>2
    <3>3. \A i \in 1 .. room : events[i] \in Event
        BY <3>2, ElementOfSeq
    <3>4. /\ accepted \in Seq(Event)
          /\ Len(accepted) = IF 1 <= room THEN room - 1 + 1 ELSE 0
          /\ \A i \in 1 .. room - 1 + 1 : accepted[i] = events[1 + i - 1]
        BY <1>1, <3>1, <3>3, SubSeqProperties
    <3>5. Len(accepted) = room
        BY <1>1, <3>4
    <3>6. ASSUME NEW i \in 1 .. Len(accepted)
          PROVE  i \in 1 .. Len(events) /\ accepted[i] = events[i]
      <4>1. i \in 1 .. room /\ i \in 1 .. room - 1 + 1 /\ 1 + i - 1 = i
          BY <1>1, <3>5
      <4> QED
          BY <3>2, <3>4, <4>1
    <3> QED
        BY <1>1, <3>4, <3>5, <3>6
  <2> QED
      BY <2>1, <2>2
<1>3. queue' = queue \o accepted
    BY DEF Deliver
<1> HIDE DEF accepted
<1>4. /\ queue' \in Seq(Event) /\ Len(queue') = Len(queue) + Len(accepted)
      /\ \A i \in 1 .. Len(queue) + Len(accepted) :
            queue'[i] = IF i <= Len(queue) THEN queue[i] ELSE accepted[i - Len(queue)]
    BY <1>1, <1>2, <1>3, ConcatProperties
<1>5. Len(accepted) \in Nat
    BY <1>2, LenProperties
<1>6. ASSUME NEW i \in 1 .. Len(queue') PROVE KnownEvent(queue[i])'
  <2>1. i \in 1 .. Len(queue) + Len(accepted)
      BY <1>4
  <2>2. CASE i <= Len(queue)
    <3>1. i \in 1 .. Len(queue) /\ queue'[i] = queue[i]
        BY <1>1, <1>4, <2>1, <2>2
    <3>2. PICK e \in Event : e = queue[i]
        BY <1>1, <3>1, ElementOfSeq
    <3>3. KnownEvent(e)'
        BY <3>1, <3>2, KnowledgePersists DEF IInv, QueueInv, Kept
    <3> QED
        BY <3>1, <3>2, <3>3 DEF KnownEvent
  <2>3. CASE ~ (i <= Len(queue))
    <3>1. PICK k : k = i - Len(queue)
        OBVIOUS
    <3>2. k \in 1 .. Len(accepted)
        BY <1>1, <1>5, <2>1, <2>3, <3>1
    <3>3. queue'[i] = events[k] /\ k \in 1 .. Len(events)
        BY <1>2, <1>4, <2>1, <2>3, <3>1, <3>2
    <3> QED
        BY <3>3 DEF KnownEvent
  <2> QED
      BY <2>2, <2>3
<1>7. QueueInv'
    BY <1>1, <1>2, <1>4, <1>5, <1>6, BulldozerAssumption DEF QueueInv
<1>8. LostInv'
  <2>1. ASSUME NEW i \in DOMAIN events PROVE About(events[i]) \X Wakes(events[i])
                                              \subseteq PRs \X {"merge", "update"}
    <3>1. events[i] \in Event
        BY LenProperties
    <3>2. About(events[i]) \subseteq PRs /\ Wakes(events[i]) \subseteq {"merge", "update"}
        BY <3>1, EventFacts
    <3> QED
        BY <3>2
  <2>2. lost' = lost \cup UNION {About(events[i]) \X Wakes(events[i]) :
                                   i \in DOMAIN events \ DOMAIN Accepted(events)}
      BY DEF Deliver
  <2> QED
      BY <2>1, <2>2 DEF IInv, LostInv
<1> QED
    BY <1>7, <1>8

LEMMA MovesKeeps ==
    ASSUME IInv, Kept, NEW b \in Branches, Moves(b)
    PROVE  QueueInv' /\ LostInv'
<1>1. PICK prs : prs = {p \in PRs : Open(p) /\ HeadOf[p] = b}
    OBVIOUS
<1>2. PICK synchronize : synchronize = [kind |-> "synchronize", prs |-> prs]
    OBVIOUS
<1>3. PICK push : push = [kind |-> "push", branch |-> b]
    OBVIOUS
<1>4. synchronize \in Event /\ synchronize.prs = prs
  <2>1. "synchronize" \in PullRequestEvents /\ prs \in SUBSET PRs
      BY <1>1 DEF PullRequestEvents
  <2> QED
      BY <1>2, <2>1, EventFacts
<1>5. push \in Event /\ push.kind = "push"
    BY <1>3, EventFacts
<1>6. \A p \in prs : prState'[p] # "none"
    BY <1>1 DEF Kept, Settled, Open
<1>7. KnownEvent(synchronize)'
    BY <1>4, <1>6 DEF KnownEvent
<1>8. KnownEvent(push)'
    BY <1>5 DEF KnownEvent, PullRequestEvents, Conditions, Triggers
<1>9. Deliver((IF prs = {} THEN <<>> ELSE <<synchronize>>) \o <<push>>)
    BY <1>1, <1>2, <1>3 DEF Moves
<1>10. PICK events : events = (IF prs = {} THEN <<>> ELSE <<synchronize>>) \o <<push>>
    OBVIOUS
<1>11. /\ events \in Seq(Event) /\ \A i \in 1 .. Len(events) : events[i] \in {synchronize, push}
  <2>1. CASE prs = {}
    <3>1. events = <<push>>
        BY <1>5, <1>10, <2>1
    <3> QED
        BY <1>5, <3>1
  <2>2. CASE prs # {}
    <3>1. events = <<synchronize>> \o <<push>>
        BY <1>10, <2>2
    <3>2. /\ <<synchronize>> \in Seq(Event) /\ Len(<<synchronize>>) = 1
          /\ <<synchronize>>[1] = synchronize
        BY <1>4
    <3>3. <<push>> \in Seq(Event) /\ Len(<<push>>) = 1 /\ <<push>>[1] = push
        BY <1>5
    <3>4. /\ events \in Seq(Event) /\ Len(events) = 2
          /\ events[1] = synchronize /\ events[2] = push
        BY <3>1, <3>2, <3>3, ConcatProperties
    <3> QED
        BY <3>4
  <2> QED
      BY <2>1, <2>2
<1>12. \A i \in 1 .. Len(events) : KnownEvent(events[i])'
    BY <1>7, <1>8, <1>11
<1> QED
    BY <1>9, <1>10, <1>11, <1>12, DeliverKeeps

LEMMA QuietKept ==
    ASSUME IInv, UNCHANGED landingVars
    PROVE  Kept /\ UNCHANGED phase
BY LandingKeeps DEF IInv, landingVars

(* A snapshot of an open pull request.                                     *)
LEMMA NowFacts ==
    ASSUME IInv, NEW p \in PRs, prState[p] # "none"
    PROVE  Now(p) \in View /\ KnownView(Now(p)) /\ Now(p).pr = p
<1>1. tip[HeadOf[p]] \in Commit
    BY TopologyAssumption DEF IInv, LandingTypeOK, GitHubTypeOK
<1>2. Now(p) \in View
    BY <1>1 DEF Now, View
<1>3. Now(p).pr = p /\ Now(p).head = tip[HeadOf[p]]
    BY DEF Now
<1> QED
    BY <1>2, <1>3 DEF KnownView

-----------------------------------------------------------------------------
(* Where the loop goes on, with a task t that is known.                    *)

LEMMA LoopKeeps ==
    ASSUME IInv, Kept, UNCHANGED phase, NEW w \in Workers, NEW t \in Task,
           WorkerInv("loop", t), Goto(w, "loop", t)
    PROVE  WorkersInv'
<1>1. WorkerInv("loop", t)'
    BY KnowledgePersists DEF Kept
<1> QED
    BY <1>1, GotoKeeps DEF Stages

LEMMA StageKeeps ==
    ASSUME IInv, Kept, UNCHANGED phase, NEW w \in Workers, phase[w] = "idle",
           NEW stage \in Stages, NEW t \in Task, WorkerInv(stage, t), Goto(w, stage, t)
    PROVE  WorkersInv'
<1>1. WorkerInv(stage, t)'
    BY KnowledgePersists DEF Kept
<1> QED
    BY <1>1, GotoKeeps

(* A task without its view, or without the head that was read.             *)
LEMMA PlainTask ==
    ASSUME NEW t \in Task, WorkerInv("loop", t)
    PROVE  /\ [t EXCEPT !.view = NoView, !.head = {}] \in Task
           /\ WorkerInv("loop", [t EXCEPT !.view = NoView, !.head = {}])
           /\ [t EXCEPT !.head = {}] \in Task
           /\ WorkerInv("decide", t) => WorkerInv("decide", [t EXCEPT !.head = {}])
<1>1. {} \in Commit
    BY DEF Commit
<1>2. /\ [t EXCEPT !.view = NoView, !.head = {}] \in Task
      /\ [t EXCEPT !.view = NoView, !.head = {}].event = t.event
      /\ [t EXCEPT !.view = NoView, !.head = {}].listed = t.listed
      /\ [t EXCEPT !.view = NoView, !.head = {}].todo = t.todo
    BY <1>1 DEF Task
<1>3. /\ [t EXCEPT !.head = {}] \in Task
      /\ [t EXCEPT !.head = {}].event = t.event
      /\ [t EXCEPT !.head = {}].listed = t.listed
      /\ [t EXCEPT !.head = {}].todo = t.todo
      /\ [t EXCEPT !.head = {}].view = t.view
    BY <1>1 DEF Task
<1> QED
    BY <1>2, <1>3 DEF WorkerInv, WithView

LEMMA NotUpdatedKeeps ==
    ASSUME IInv, Kept, UNCHANGED phase, NEW w \in Workers, phase[w] = "idle",
           NEW t \in Task, WorkerInv("decide", t), NotUpdated(w, t)
    PROVE  WorkersInv'
<1>1. WorkerInv("loop", t)
    BY DEF WorkerInv, WithView
<1>2. CASE Goto(w, "decide", [t EXCEPT !.head = {}])
    BY <1>1, <1>2, PlainTask, StageKeeps DEF Stages
<1>3. CASE Goto(w, "loop", [t EXCEPT !.view = NoView, !.head = {}])
    BY <1>1, <1>3, PlainTask, LoopKeeps
<1> QED
    BY <1>2, <1>3 DEF NotUpdated

LEMMA ConsiderKeeps ==
    ASSUME IInv, Kept, UNCHANGED phase, NEW w \in Workers, phase[w] = "idle",
           NEW t \in Task, WorkerInv("decide", t), Consider(w, t)
    PROVE  WorkersInv'
<1>1. WorkerInv("get", t)
    BY DEF WorkerInv, WithView
<1>2. CASE Goto(w, "get", t)
    BY <1>1, <1>2, StageKeeps DEF Stages
<1> QED
    BY <1>2, NotUpdatedKeeps DEF Consider

LEMMA ContinueKeeps ==
    ASSUME IInv, Kept, NEW w \in Workers, at[w] # "idle", Continue(w),
           \A v \in Workers : v # w => phase'[v] = phase[v]
    PROVE  WorkersInv'
<1>1. PICK t : t = [task[w] EXCEPT !.view = NoView, !.head = {}]
    OBVIOUS
<1>2. task[w] \in Task /\ WorkerInv("loop", task[w])
    BY DEF IInv, WorkersInv, WorkerInv, WithView
<1>3. t \in Task /\ WorkerInv("loop", t)
    BY <1>1, <1>2, PlainTask
<1>4. WorkerInv("loop", t)'
    BY <1>3, KnowledgePersists DEF Kept
<1> QED
    BY <1>1, <1>3, <1>4, GotoKeeps DEF Continue, Stages

-----------------------------------------------------------------------------
(* One lemma for each action: it keeps the invariant, and its effect on    *)
(* the repository is one that module Landing allows.                       *)

LEMMA TaskFacts ==
    ASSUME IInv, NEW w \in Workers, at[w] # "idle"
    PROVE  /\ task[w] \in Task
           /\ task[w].event \in Event /\ KnownEvent(task[w].event)
           /\ task[w].listed \subseteq View /\ task[w].todo \subseteq PRs
           /\ task[w].page \in Nat
           /\ Remaining(w) \subseteq PRs
           /\ Wakes(task[w].event) \subseteq {"merge", "update"}
           /\ at[w] \in WithView => /\ task[w].view \in View
                                    /\ KnownView(task[w].view)
                                    /\ task[w].view.pr \in PRs
<1>1. task[w] \in Task /\ WorkerInv(at[w], task[w])
    BY DEF IInv, WorkersInv, WorkerInv
<1>2. /\ task[w].event \in Event /\ task[w].listed \subseteq View /\ task[w].todo \subseteq PRs
      /\ task[w].page \in Nat
    BY <1>1 DEF Task
<1>3. Remaining(w) \subseteq PRs
  <2>1. \A s \in task[w].listed : s.pr \in PRs
      BY <1>2 DEF View
  <2> QED
      BY <1>2, <2>1, EventFacts DEF Remaining
<1> QED
    BY <1>1, <1>2, <1>3, EventFacts DEF WorkerInv, View

LEMMA TakeStep ==
    ASSUME IInv, NEW w \in Workers, Take(w)
    PROVE  IInv' /\ UNCHANGED landingVars
<1> DEFINE e == Head(queue)
           t == [event |-> e, listed |-> {}, todo |-> IF Lists(e) THEN {} ELSE e.prs,
                 view |-> NoView, head |-> {}, page |-> 1, present |-> {}]
<1>1. UNCHANGED landingVars /\ UNCHANGED <<given, passing, lost>>
    BY DEF Take
<1>2. Kept /\ UNCHANGED phase
    BY <1>1, QuietKept
<1>3. queue \in Seq(Event) /\ queue # <<>> /\ queue' = Tail(queue) /\ Len(queue) \in Nat
    BY LenProperties DEF IInv, QueueInv, Take
<1>4. /\ e \in Event /\ queue' \in Seq(Event) /\ Len(queue') = Len(queue) - 1
      /\ \A i \in 1 .. Len(queue') : queue'[i] = queue[i + 1]
    BY <1>3, HeadTailProperties
<1>5. Len(queue) \in Nat \ {0} /\ e = queue[1]
    BY <1>3, EmptySeq
<1>6. KnownEvent(e)
    BY <1>5 DEF IInv, QueueInv
<1>7. QueueInv'
  <2>1. ASSUME NEW i \in 1 .. Len(queue') PROVE KnownEvent(queue[i])'
    <3>1. i + 1 \in 1 .. Len(queue)
        BY <1>4, <1>5
    <3>2. PICK x \in Event : x = queue[i + 1] /\ KnownEvent(x)
        BY <1>3, <3>1, ElementOfSeq DEF IInv, QueueInv
    <3>3. KnownEvent(x)'
        BY <1>2, <3>2, KnowledgePersists DEF Kept
    <3>4. queue'[i] = x
        BY <1>4, <3>2
    <3> QED
        BY <3>3, <3>4 DEF KnownEvent
  <2>2. Len(queue') <= QueueSize
      BY <1>4, <1>5, BulldozerAssumption DEF IInv, QueueInv
  <2> QED
      BY <1>4, <2>1, <2>2 DEF QueueInv
<1>8. t \in Task /\ WorkerInv("loop", t) /\ WorkerInv("list", t)
  <2>1. ~ Lists(e) => e.kind \in PullRequestEvents /\ e.prs \in SUBSET PRs
      BY <1>4 DEF Event, Lists, PullRequestEvents, Conditions, Triggers
  <2>2. ~ Lists(e) => \A p \in e.prs : prState[p] # "none"
      BY <1>6, <2>1 DEF KnownEvent
  <2>3. {} \in Commit /\ {} \in SUBSET View /\ {} \in SUBSET PRs /\ 1 \in Nat
      BY DEF Commit
  <2>4. PICK todo : todo = IF Lists(e) THEN {} ELSE e.prs
      OBVIOUS
  <2>5. todo \in SUBSET PRs /\ \A p \in todo : prState[p] # "none"
    <3>1. CASE Lists(e)
        BY <2>4, <3>1
    <3>2. CASE ~ Lists(e)
        BY <2>1, <2>2, <2>4, <3>2
    <3> QED
        BY <3>1, <3>2
  <2>6. t = [event |-> e, listed |-> {}, todo |-> todo,
             view |-> NoView, head |-> {}, page |-> 1, present |-> {}]
      BY <2>4
  <2> HIDE DEF e, t
  <2>7. t \in Task
      BY <1>4, <2>3, <2>6, <2>5 DEF Task
  <2>8. t.event = e /\ t.listed = {} /\ t.todo = todo
      BY <2>6
  <2> QED
      BY <1>6, <2>7, <2>8, <2>5 DEF WorkerInv, WithView
<1>9. \/ End(w)
      \/ Goto(w, "list", t)
      \/ Goto(w, "loop", t)
    BY DEF Take
<1> HIDE DEF e, t
<1>10. phase[w] = "idle" /\ \A v \in Workers : phase'[v] = phase[v]
    BY <1>2 DEF Take, IInv, WorkersInv
<1>11. WorkersInv'
  <2>1. CASE End(w)
      BY <1>2, <1>10, <2>1, EndKeeps
  <2>2. CASE Goto(w, "list", t)
      BY <1>2, <1>8, <1>10, <2>2, StageKeeps DEF Stages
  <2>3. CASE Goto(w, "loop", t)
      BY <1>2, <1>8, <2>3, LoopKeeps
  <2> QED
      BY <1>9, <2>1, <2>2, <2>3
<1> QED
    BY <1>1, <1>2, <1>7, <1>11 DEF IInv, DataInv, LostInv, Kept

LEMMA ListPageStep ==
    ASSUME IInv, NEW w \in Workers, ListPage(w)
    PROVE  IInv' /\ UNCHANGED landingVars
<1> DEFINE t == task[w]
           matching(prs) == {p \in prs : Open(p) /\ Matches(t.event, p, tip[HeadOf[p]])}
           found == matching(OnPage(t.page))
           listed == t.listed \cup {Now(p) : p \in found}
           present == IF t.page = 1 THEN matching(PRs) ELSE matching(t.present)
           missed == present \ {s.pr : s \in listed}
           last == [t EXCEPT !.listed = listed, !.page = 1, !.present = {}]
           next == t.page + 1
           more == [t EXCEPT !.listed = listed, !.page = next, !.present = present]
<1>1. UNCHANGED landingVars /\ UNCHANGED <<given, passing, queue>> /\ at[w] = "list"
    BY DEF ListPage
<1>2. Kept /\ UNCHANGED phase
    BY <1>1, QuietKept
<1>3. /\ t \in Task /\ t.listed \subseteq View /\ t.page \in Nat /\ t.present \subseteq PRs
      /\ WorkerInv("list", t) /\ Wakes(t.event) \subseteq {"merge", "update"}
      /\ phase[w] = "idle"
    BY <1>1, TaskFacts DEF IInv, WorkersInv, Task
<1>4. found \subseteq PRs /\ \A p \in found : prState[p] # "none"
    BY DEF OnPage, Open
<1>5. present \subseteq PRs /\ missed \subseteq PRs
    BY <1>3
<1>6. \A s \in listed : s \in View /\ KnownView(s)
    BY <1>3, <1>4, NowFacts DEF WorkerInv
<1>7. \/ /\ Goto(w, "loop", last)
         /\ lost' = (lost \ (found \X Wakes(t.event))) \cup missed \X Wakes(t.event)
      \/ /\ Goto(w, "list", more)
         /\ lost' = lost \ (found \X Wakes(t.event))
    BY DEF ListPage
<1>14. next \in Nat
    BY <1>3
<1> HIDE DEF t, found, listed, present, missed, next
<1>8. /\ last \in Task
      /\ last.event = t.event /\ last.listed = listed /\ last.todo = t.todo
    BY <1>3, <1>6 DEF Task
<1>9. /\ more \in Task
      /\ more.event = t.event /\ more.listed = listed /\ more.todo = t.todo
    BY <1>3, <1>5, <1>6, <1>14 DEF Task
<1> HIDE DEF last, more
<1>10. WorkerInv("loop", last) /\ WorkerInv("list", more)
    BY <1>3, <1>6, <1>8, <1>9 DEF WorkerInv, WithView
<1>11. LostInv'
    BY <1>3, <1>5, <1>7 DEF IInv, LostInv
<1>12. WorkersInv'
  <2>1. CASE Goto(w, "loop", last)
      BY <1>2, <1>8, <1>10, <2>1, LoopKeeps
  <2>2. CASE Goto(w, "list", more)
      BY <1>2, <1>3, <1>9, <1>10, <2>2, StageKeeps DEF Stages
  <2> QED
      BY <1>7, <2>1, <2>2
<1>13. QueueInv'
    BY <1>1, <1>2, QueueStays
<1> QED
    BY <1>1, <1>2, <1>11, <1>12, <1>13 DEF IInv, DataInv, Kept

(* The rest of a step that leaves the repository, the queue and what is    *)
(* lost alone.                                                             *)
LEMMA QuietStep ==
    ASSUME IInv, UNCHANGED <<landingVars, given, passing, queue>>, WorkersInv', LostInv'
    PROVE  IInv' /\ UNCHANGED landingVars
<1>1. Kept
    BY QuietKept
<1>2. QueueInv'
    BY <1>1, QueueStays
<1> QED
    BY <1>1, <1>2 DEF IInv, DataInv, Kept

LEMMA NextListedStep ==
    ASSUME IInv, NEW w \in Workers, NextListed(w)
    PROVE  IInv' /\ UNCHANGED landingVars
<1>1. /\ UNCHANGED <<landingVars, given, passing, queue, lost>>
      /\ at[w] = "loop" /\ phase[w] = "idle"
    BY DEF NextListed, Looping
<1>2. Kept /\ UNCHANGED phase
    BY <1>1, QuietKept
<1>3. task[w] \in Task /\ WorkerInv("loop", task[w])
    BY <1>1, TaskFacts DEF IInv, WorkersInv
<1>4. PICK s \in task[w].listed :
          Consider(w, [task[w] EXCEPT !.listed = @ \ {s}, !.view = s])
    BY DEF NextListed
<1>5. PICK t : t = [task[w] EXCEPT !.listed = @ \ {s}, !.view = s]
    OBVIOUS
<1>6. /\ t \in Task /\ t.event = task[w].event /\ t.listed = task[w].listed \ {s}
      /\ t.todo = task[w].todo /\ t.view = s
    BY <1>3, <1>5 DEF Task
<1>7. s \in View /\ KnownView(s)
    BY <1>3 DEF WorkerInv, Task
<1>8. WorkerInv("decide", t)
    BY <1>3, <1>6, <1>7 DEF WorkerInv, WithView
<1>9. WorkersInv'
    BY <1>1, <1>2, <1>4, <1>5, <1>6, <1>8, ConsiderKeeps
<1> QED
    BY <1>1, <1>9, QuietStep DEF IInv, LostInv

LEMMA NextNumberStep ==
    ASSUME IInv, NEW w \in Workers, NextNumber(w)
    PROVE  IInv' /\ UNCHANGED landingVars
<1>1. /\ UNCHANGED <<landingVars, given, passing, queue>>
      /\ at[w] = "loop" /\ phase[w] = "idle"
    BY DEF NextNumber, Looping
<1>2. Kept /\ UNCHANGED phase
    BY <1>1, QuietKept
<1>3. task[w] \in Task /\ WorkerInv("loop", task[w])
    BY <1>1, TaskFacts DEF IInv, WorkersInv
<1>4. PICK p \in task[w].todo :
          /\ Consider(w, [task[w] EXCEPT !.todo = @ \ {p}, !.view = Now(p)])
          /\ Looks(task[w], {p})
    BY DEF NextNumber
<1>5. PICK v, t : v = Now(p) /\ t = [task[w] EXCEPT !.todo = @ \ {p}, !.view = v]
    OBVIOUS
<1>6. p \in PRs /\ prState[p] # "none"
    BY <1>3 DEF WorkerInv, Task
<1>7. v \in View /\ KnownView(v)
    BY <1>5, <1>6, NowFacts
<1>8. /\ t \in Task /\ t.event = task[w].event /\ t.listed = task[w].listed
      /\ t.todo = task[w].todo \ {p} /\ t.view = v
    BY <1>3, <1>5, <1>7 DEF Task
<1>9. WorkerInv("decide", t)
    BY <1>3, <1>7, <1>8 DEF WorkerInv, WithView
<1>10. WorkersInv'
    BY <1>1, <1>2, <1>4, <1>5, <1>8, <1>9, ConsiderKeeps
<1>11. LostInv'
    BY <1>4 DEF Looks, IInv, LostInv
<1> QED
    BY <1>1, <1>10, <1>11, QuietStep

LEMMA LoopEndsStep ==
    ASSUME IInv, NEW w \in Workers, LoopEnds(w)
    PROVE  IInv' /\ UNCHANGED landingVars
<1>1. /\ UNCHANGED <<landingVars, given, passing, queue, lost>>
      /\ phase[w] = "idle" /\ End(w)
    BY DEF LoopEnds, Looping
<1>2. Kept /\ UNCHANGED phase
    BY <1>1, QuietKept
<1>3. WorkersInv'
    BY <1>1, <1>2, EndKeeps
<1> QED
    BY <1>1, <1>3, QuietStep DEF IInv, LostInv

LEMMA ReturnStep ==
    ASSUME IInv, NEW w \in Workers, Return(w)
    PROVE  IInv' /\ UNCHANGED landingVars
<1>1. /\ UNCHANGED <<landingVars, given, passing, queue>>
      /\ at[w] # "idle" /\ phase[w] = "idle" /\ End(w)
      /\ Misses(Remaining(w), Wakes(task[w].event))
    BY DEF Return, Looping, IInv, WorkersInv
<1>2. Kept /\ UNCHANGED phase
    BY <1>1, QuietKept
<1>3. WorkersInv'
    BY <1>1, <1>2, EndKeeps
<1>4. LostInv'
    BY <1>1, TaskFacts, MissesKeeps
<1> QED
    BY <1>1, <1>3, <1>4, QuietStep

-----------------------------------------------------------------------------
(* UpdatePR.                                                               *)

LEMMA ViewTask ==
    ASSUME IInv, NEW w \in Workers, at[w] \in WithView
    PROVE  /\ task[w] \in Task /\ phase[w] = "idle"
           /\ \A stage \in WithView : WorkerInv(stage, task[w])
<1>1. at[w] # "idle" /\ at[w] # "loop"
    BY DEF WithView
<1>2. WorkerInv(at[w], task[w]) /\ phase[w] = "idle"
    BY <1>1 DEF IInv, WorkersInv
<1> QED
    BY <1>1, <1>2 DEF WorkerInv, WithView

LEMMA GetForUpdateStep ==
    ASSUME IInv, NEW w \in Workers, GetForUpdate(w)
    PROVE  IInv' /\ UNCHANGED landingVars
<1> DEFINE head == tip[HeadOf[task[w].view.pr]]
<1>1. UNCHANGED <<landingVars, given, passing, queue, lost>> /\ at[w] \in WithView
    BY DEF GetForUpdate, WithView
<1>2. Kept /\ UNCHANGED phase
    BY <1>1, QuietKept
<1>3. /\ task[w] \in Task /\ phase[w] = "idle" /\ task[w].view.pr \in PRs
      /\ WorkerInv("decide", task[w]) /\ WorkerInv("compare", task[w])
    BY <1>1, ViewTask, TaskFacts DEF WithView
<1>4. head \in Commit
    BY <1>3, TopologyAssumption DEF IInv, LandingTypeOK, GitHubTypeOK
<1>5. PICK t : t = [task[w] EXCEPT !.head = head]
    OBVIOUS
<1>6. /\ t \in Task /\ t.event = task[w].event /\ t.listed = task[w].listed
      /\ t.todo = task[w].todo /\ t.view = task[w].view
    BY <1>3, <1>4, <1>5 DEF Task
<1>7. WorkerInv("compare", t)
    BY <1>3, <1>6 DEF WorkerInv, WithView
<1>8. NotUpdated(w, task[w]) \/ Goto(w, "compare", t)
    BY <1>5 DEF GetForUpdate
<1>9. WorkersInv'
    BY <1>2, <1>3, <1>6, <1>7, <1>8, NotUpdatedKeeps, StageKeeps DEF Stages
<1> QED
    BY <1>1, <1>9, QuietStep DEF IInv, LostInv

LEMMA CompareCommitsStep ==
    ASSUME IInv, NEW w \in Workers, CompareCommits(w)
    PROVE  IInv' /\ UNCHANGED landingVars
<1>1. UNCHANGED <<landingVars, given, passing, queue, lost>> /\ at[w] \in WithView
    BY DEF CompareCommits, WithView
<1>2. Kept /\ UNCHANGED phase
    BY <1>1, QuietKept
<1>3. /\ task[w] \in Task /\ phase[w] = "idle"
      /\ WorkerInv("decide", task[w]) /\ WorkerInv("update", task[w])
    BY <1>1, ViewTask DEF WithView
<1>4. NotUpdated(w, task[w]) \/ Goto(w, "update", task[w])
    BY DEF CompareCommits
<1>5. WorkersInv'
    BY <1>2, <1>3, <1>4, NotUpdatedKeeps, StageKeeps DEF Stages
<1> QED
    BY <1>1, <1>5, QuietStep DEF IInv, LostInv

LEMMA UpdateBranchStep ==
    ASSUME IInv, NEW w \in Workers, UpdateBranch(w)
    PROVE  IInv' /\ [LandingNext]_landingVars
<1> DEFINE p == task[w].view.pr
<1>1. at[w] \in WithView /\ at[w] # "idle" /\ UNCHANGED <<phase, job, given, passing>>
    BY DEF UpdateBranch, WithView
<1>2. /\ task[w] \in Task /\ phase[w] = "idle" /\ WorkerInv("decide", task[w])
      /\ p \in PRs /\ prState[p] # "none"
    BY <1>1, ViewTask, TaskFacts DEF WithView, KnownView
<1>3. HeadOf[p] \in Branches /\ BaseOf[p] \in Branches
    BY <1>2, TopologyAssumption
<1>4. \/ UNCHANGED <<ghVars, queue, lost>>
      \/ MergeInto(HeadOf[p], BaseOf[p]) /\ Moves(HeadOf[p])
    BY DEF UpdateBranch
<1>5. [LandingNext]_landingVars
    BY <1>1, <1>2, <1>4 DEF LandingNext, UpdateHead, landingVars
<1>6. Kept
    BY <1>5, LandingKeeps DEF IInv
<1>7. QueueInv' /\ LostInv'
    BY <1>3, <1>4, <1>6, MovesKeeps, QueueStays DEF IInv, LostInv
<1>8. Continue(w) \/ NotUpdated(w, task[w])
    BY DEF UpdateBranch
<1>9. WorkersInv'
    BY <1>1, <1>2, <1>6, <1>8, ContinueKeeps, NotUpdatedKeeps
<1> QED
    BY <1>1, <1>5, <1>6, <1>7, <1>9 DEF IInv, DataInv, Kept

LEMMA UpdateFailsStep ==
    ASSUME IInv, NEW w \in Workers, UpdateFails(w)
    PROVE  IInv' /\ UNCHANGED landingVars
<1>1. UNCHANGED <<landingVars, given, passing, queue>> /\ at[w] \in WithView /\ at[w] # "idle"
    BY DEF UpdateFails, WithView
<1>2. Kept /\ UNCHANGED phase
    BY <1>1, QuietKept
<1>3. /\ task[w] \in Task /\ phase[w] = "idle" /\ WorkerInv("decide", task[w])
      /\ task[w].view.pr \in PRs
    BY <1>1, ViewTask, TaskFacts DEF WithView
<1>4. NotUpdated(w, task[w]) /\ Misses({task[w].view.pr}, {"update"})
    BY DEF UpdateFails
<1>5. WorkersInv'
    BY <1>2, <1>3, <1>4, NotUpdatedKeeps
<1>6. LostInv'
    BY <1>3, <1>4, MissesKeeps
<1> QED
    BY <1>1, <1>5, <1>6, QuietStep

-----------------------------------------------------------------------------
(* ProcessPullRequest.                                                     *)

LEMMA BecomeOthers ==
    ASSUME IInv, NEW w \in Workers, NEW stage, NEW j, Become(w, stage, j)
    PROVE  phase'[w] = stage /\ \A v \in Workers : v # w => phase'[v] = phase[v]
BY DEF IInv, LandingTypeOK, Become

LEMMA ProcessPullRequestStep ==
    ASSUME IInv, NEW w \in Workers, ProcessPullRequest(w)
    PROVE  IInv' /\ [LandingNext]_landingVars
<1> DEFINE v == task[w].view
           deletes == DeleteAfterMerge /\ HeadOf[v.pr] \notin Forks
<1>1. /\ UNCHANGED <<given, passing, queue, lost>> /\ at[w] \in WithView /\ at[w] # "idle"
      /\ Continue(w)
      /\ \/ UNCHANGED landingVars
         \/ \E method \in MergeMethods : TakeUp(w, v.pr, v.head, method, deletes)
    BY DEF ProcessPullRequest, WithView
<1>2. v.pr \in PRs /\ v.head \in SUBSET tip[HeadOf[v.pr]] /\ phase[w] = "idle"
    BY <1>1, TaskFacts, ViewTask DEF KnownView
<1>3. deletes \in BOOLEAN
    BY BulldozerAssumption
<1> HIDE DEF v, deletes
<1>4. [LandingNext]_landingVars
    BY <1>1, <1>2, <1>3 DEF LandingNext
<1>5. Kept
    BY <1>4, LandingKeeps DEF IInv
<1>6. \A u \in Workers : u # w => phase'[u] = phase[u]
  <2>1. CASE UNCHANGED landingVars
      BY <2>1 DEF landingVars
  <2>2. CASE \E method \in MergeMethods : TakeUp(w, v.pr, v.head, method, deletes)
      BY <2>2, BecomeOthers DEF TakeUp
  <2> QED
      BY <1>1, <2>1, <2>2
<1>7. WorkersInv'
    BY <1>1, <1>5, <1>6, ContinueKeeps
<1>8. QueueInv'
    BY <1>1, <1>5, QueueStays
<1> QED
    BY <1>1, <1>4, <1>5, <1>7, <1>8 DEF IInv, DataInv, LostInv, Kept

LEMMA ProcessFailsStep ==
    ASSUME IInv, NEW w \in Workers, ProcessFails(w)
    PROVE  IInv' /\ UNCHANGED landingVars
<1>1. /\ UNCHANGED <<landingVars, given, passing, queue>> /\ at[w] \in WithView /\ at[w] # "idle"
      /\ Continue(w) /\ Misses({task[w].view.pr}, {"merge"})
    BY DEF ProcessFails, WithView
<1>2. Kept /\ UNCHANGED phase
    BY <1>1, QuietKept
<1>3. task[w].view.pr \in PRs
    BY <1>1, TaskFacts
<1>4. WorkersInv'
    BY <1>1, <1>2, ContinueKeeps
<1>5. LostInv'
    BY <1>1, <1>3, MissesKeeps
<1> QED
    BY <1>1, <1>4, <1>5, QuietStep

(* A worker that merges is within its loop.                                *)
LEMMA JobFacts ==
    ASSUME IInv, NEW w \in Workers, phase[w] # "idle"
    PROVE  /\ at[w] = "loop" /\ job[w] \in Job /\ job[w].pr \in PRs
           /\ HeadOf[job[w].pr] \in Branches /\ BaseOf[job[w].pr] \in Branches
<1>1. at[w] = "loop" /\ job[w] \in Job
    BY DEF IInv, WorkersInv, LandingTypeOK
<1> QED
    BY <1>1, TopologyAssumption DEF Job

LEMMA MergeStep ==
    ASSUME IInv, NEW w \in Workers, Merge(w)
    PROVE  IInv' /\ [LandingNext]_landingVars
<1>1. /\ Land(w) /\ Moves(BaseOf[job[w].pr]) /\ phase[w] # "idle"
      /\ UNCHANGED <<given, passing, at, task>>
    BY DEF Merge, Land
<1>2. [LandingNext]_landingVars
    BY <1>1 DEF LandingNext, LandingStep
<1>3. Kept
    BY <1>2, LandingKeeps DEF IInv
<1>4. QueueInv' /\ LostInv'
    BY <1>1, <1>3, JobFacts, MovesKeeps
<1>5. \A v \in Workers : v # w => phase'[v] = phase[v]
    BY <1>1, BecomeOthers DEF Land, Finish
<1>6. WorkersInv'
    BY <1>1, <1>3, <1>5, JobFacts, WorkersStay
<1> QED
    BY <1>1, <1>2, <1>3, <1>4, <1>6 DEF IInv, DataInv, Kept

LEMMA GiveUpStep ==
    ASSUME IInv, NEW w \in Workers, GiveUp(w)
    PROVE  IInv' /\ [LandingNext]_landingVars
<1>1. /\ Abandon(w) /\ phase[w] # "idle"
      /\ UNCHANGED <<given, passing, queue, at, task>>
      /\ Misses({job[w].pr}, {"merge"}) \/ UNCHANGED lost
    BY DEF GiveUp, Abandon, handlerVars
<1>2. [LandingNext]_landingVars
    BY <1>1 DEF LandingNext, LandingStep
<1>3. Kept
    BY <1>2, LandingKeeps DEF IInv
<1>4. QueueInv' /\ LostInv'
    BY <1>1, <1>3, JobFacts, QueueStays, MissesKeeps DEF IInv, LostInv
<1>5. \A v \in Workers : v # w => phase'[v] = phase[v]
    BY <1>1, BecomeOthers DEF Abandon, Finish
<1>6. WorkersInv'
    BY <1>1, <1>3, <1>5, JobFacts, WorkersStay
<1> QED
    BY <1>1, <1>2, <1>3, <1>4, <1>6 DEF IInv, DataInv, Kept

(* The deletion, whether the answer arrives or not.                        *)
LEMMA DeletionFacts ==
    ASSUME IInv, NEW w \in Workers, DeleteBranch(w) \/ KeepBranch(w)
    PROVE  /\ [LandingNext]_landingVars /\ Kept
           /\ phase[w] # "idle" /\ phase'[w] = "idle"
           /\ \A v \in Workers : v # w => phase'[v] = phase[v]
<1>1. [LandingNext]_landingVars
    BY DEF LandingNext, LandingStep
<1>2. Kept
    BY <1>1, LandingKeeps DEF IInv
<1>3. Finish(w) /\ phase[w] # "idle"
    BY DEF DeleteBranch, KeepBranch
<1> QED
    BY <1>1, <1>2, <1>3, BecomeOthers DEF Finish

LEMMA AttemptDeleteStep ==
    ASSUME IInv, NEW w \in Workers, AttemptDelete(w)
    PROVE  IInv' /\ [LandingNext]_landingVars
<1>1. /\ DeleteBranch(w) \/ KeepBranch(w)
      /\ UNCHANGED <<given, passing, queue, at, task, lost>>
    BY DEF AttemptDelete, handlerVars
<1>2. Kept
    BY <1>1, DeletionFacts
<1>3. WorkersInv' /\ QueueInv'
    BY <1>1, <1>2, DeletionFacts, WorkersStay, QueueStays
<1> QED
    BY <1>1, <1>2, <1>3, DeletionFacts DEF IInv, DataInv, LostInv, Kept

LEMMA PanicStep ==
    ASSUME IInv, NEW w \in Workers, Panic(w)
    PROVE  IInv' /\ [LandingNext]_landingVars
<1>1. /\ DeleteBranch(w) \/ KeepBranch(w)
      /\ UNCHANGED <<given, passing, queue>> /\ End(w)
      /\ Misses(Remaining(w), Wakes(task[w].event))
    BY DEF Panic
<1>2. Kept
    BY <1>1, DeletionFacts
<1>3. WorkersInv' /\ QueueInv'
    BY <1>1, <1>2, DeletionFacts, EndKeeps, QueueStays
<1>4. at[w] # "idle"
    BY <1>1, DeletionFacts, JobFacts
<1>5. LostInv'
    BY <1>1, <1>4, TaskFacts, MissesKeeps
<1> QED
    BY <1>1, <1>2, <1>3, <1>5, DeletionFacts DEF IInv, DataInv, Kept

-----------------------------------------------------------------------------
(* The others.                                                             *)

LEMMA OneEvent ==
    ASSUME IInv, Kept, NEW e \in Event, KnownEvent(e)', Deliver(<<e>>)
    PROVE  QueueInv' /\ LostInv'
<1>1. PICK events : events = <<e>>
    OBVIOUS
<1>2. events \in Seq(Event) /\ Len(events) = 1 /\ events[1] = e
    BY <1>1
<1>3. \A i \in 1 .. Len(events) : KnownEvent(events[i])'
    BY <1>2
<1> QED
    BY <1>1, <1>2, <1>3, DeliverKeeps

LEMMA OthersStep ==
    ASSUME IInv, NEW p \in PRs,
           Opens(p) \/ Quiet(p) \/ UpdateByUser(p) \/ Report(p)
               \/ (\E c \in Conditions : Give(p, c))
    PROVE  IInv' /\ [LandingNext]_landingVars
<1>1. CASE Opens(p)
  <2>1. /\ OpenPR(p) /\ UNCHANGED <<phase, job, given, passing, at, task>>
        /\ Deliver(<<[kind |-> "opened", prs |-> {p}]>>)
      BY <1>1 DEF Opens
  <2>2. [LandingNext]_landingVars
      BY <2>1 DEF LandingNext, GitHubNext
  <2>3. Kept
      BY <2>2, LandingKeeps DEF IInv
  <2>4. PICK e : e = [kind |-> "opened", prs |-> {p}]
      OBVIOUS
  <2>5. e \in Event
      BY <2>4, EventFacts DEF PullRequestEvents
  <2>6. KnownEvent(e)'
      BY <2>1, <2>4 DEF KnownEvent, OpenPR, IInv, LandingTypeOK, GitHubTypeOK
  <2>7. QueueInv' /\ LostInv' /\ WorkersInv'
      BY <2>1, <2>3, <2>4, <2>5, <2>6, OneEvent, WorkersStay
  <2> QED
      BY <2>1, <2>2, <2>3, <2>7 DEF IInv, DataInv, Kept
<1>2. CASE Quiet(p)
  <2>1. /\ ClosePR(p) \/ DetectMerged(p) \/ ComputeMergeable(p)
        /\ UNCHANGED <<phase, job, given, passing, queue, at, task, lost>>
      BY <1>2 DEF Quiet, handlerVars
  <2>2. [LandingNext]_landingVars
      BY <2>1 DEF LandingNext, GitHubNext
  <2>3. Kept
      BY <2>2, LandingKeeps DEF IInv
  <2>4. QueueInv' /\ WorkersInv'
      BY <2>1, <2>3, QueueStays, WorkersStay
  <2> QED
      BY <2>1, <2>2, <2>3, <2>4 DEF IInv, DataInv, LostInv, Kept
<1>3. CASE UpdateByUser(p)
  <2>1. /\ UserUpdatesBranch(p) /\ Moves(HeadOf[p])
        /\ UNCHANGED <<phase, job, given, passing, at, task>>
      BY <1>3 DEF UpdateByUser
  <2>2. [LandingNext]_landingVars
      BY <2>1 DEF LandingNext, GitHubNext
  <2>3. Kept
      BY <2>2, LandingKeeps DEF IInv
  <2>4. HeadOf[p] \in Branches
      BY TopologyAssumption
  <2>5. QueueInv' /\ LostInv' /\ WorkersInv'
      BY <2>1, <2>3, <2>4, MovesKeeps, WorkersStay
  <2> QED
      BY <2>1, <2>2, <2>3, <2>5 DEF IInv, DataInv, Kept
<1>4. CASE Report(p)
  <2> DEFINE sha == tip[HeadOf[p]]
             named == {q \in PRs : Open(q) /\ tip[HeadOf[q]] = sha /\ HeadOf[q] \notin Forks}
  <2>1. /\ UNCHANGED <<landingVars, given, at, task>> /\ passing' = passing \cup {sha}
        /\ Deliver(<<IF RequiredCheck = "status" THEN [kind |-> "status", sha |-> sha]
                     ELSE [kind |-> "check_run", prs |-> named]>>)
      BY <1>4 DEF Report
  <2>2. Kept /\ UNCHANGED phase
      BY <2>1, QuietKept
  <2>3. sha \in Commit
      BY TopologyAssumption DEF IInv, LandingTypeOK, GitHubTypeOK
  <2>4. PICK e : e = IF RequiredCheck = "status" THEN [kind |-> "status", sha |-> sha]
                     ELSE [kind |-> "check_run", prs |-> named]
      OBVIOUS
  <2>5. e \in Event
      BY <2>3, <2>4, EventFacts DEF PullRequestEvents
  <2>6. KnownEvent(e)'
    <3>1. CASE RequiredCheck = "status"
        BY <2>4, <3>1 DEF KnownEvent, PullRequestEvents, Conditions, Triggers
    <3>2. CASE RequiredCheck # "status"
      <4>1. \A q \in e.prs : prState'[q] # "none"
          BY <2>1, <2>4, <3>2 DEF Open, landingVars, ghVars
      <4> QED
          BY <4>1 DEF KnownEvent
    <3> QED
        BY <3>1, <3>2
  <2>7. QueueInv' /\ LostInv' /\ WorkersInv'
      BY <2>1, <2>2, <2>4, <2>5, <2>6, OneEvent, WorkersStay
  <2>8. DataInv'
      BY <2>1, <2>3 DEF IInv, DataInv
  <2> QED
      BY <2>1, <2>2, <2>7, <2>8 DEF IInv, Kept
<1>5. ASSUME NEW c \in Conditions, Give(p, c)
      PROVE  IInv' /\ [LandingNext]_landingVars
  <2>1. /\ Open(p) /\ UNCHANGED <<landingVars, passing, at, task>>
        /\ c \in Relevant
        /\ given' = [given EXCEPT ![p] = given[p] \cup {c}]
        /\ Deliver(<<[kind |-> c, prs |-> {p}]>>)
      BY <1>5 DEF Give
  <2>2. Kept /\ UNCHANGED phase
      BY <2>1, QuietKept
  <2>3. PICK e : e = [kind |-> c, prs |-> {p}]
      OBVIOUS
  <2>4. e \in Event
      BY <2>3, EventFacts DEF PullRequestEvents
  <2>5. KnownEvent(e)'
      BY <2>1, <2>3 DEF KnownEvent, Open, landingVars, ghVars
  <2>6. QueueInv' /\ LostInv' /\ WorkersInv'
      BY <2>1, <2>2, <2>3, <2>4, <2>5, OneEvent, WorkersStay
  <2>7. DataInv'
      BY <2>1 DEF IInv, DataInv
  <2> QED
      BY <2>1, <2>2, <2>6, <2>7 DEF IInv, Kept
<1> QED
    BY <1>1, <1>2, <1>3, <1>4, <1>5

LEMMA PushesStep ==
    ASSUME IInv, NEW c \in Changes, Pushes(c)
    PROVE  IInv' /\ [LandingNext]_landingVars
<1>1. /\ Push(PushedTo[c], c) /\ Moves(PushedTo[c])
      /\ UNCHANGED <<phase, job, given, passing, at, task>>
    BY DEF Pushes
<1>2. PushedTo[c] \in Branches
    BY BulldozerAssumption
<1>3. [LandingNext]_landingVars
    BY <1>1, <1>2 DEF LandingNext, GitHubNext
<1>4. Kept
    BY <1>3, LandingKeeps DEF IInv
<1>5. QueueInv' /\ LostInv' /\ WorkersInv'
    BY <1>1, <1>2, <1>4, MovesKeeps, WorkersStay
<1> QED
    BY <1>1, <1>3, <1>4, <1>5 DEF IInv, DataInv, Kept

LEMMA RestartStep ==
    ASSUME IInv, Restart
    PROVE  IInv' /\ [LandingNext]_landingVars
<1>1. StopAll /\ UNCHANGED <<given, passing>> /\ queue' = <<>>
    BY DEF Restart
<1>2. [LandingNext]_landingVars
    BY <1>1 DEF LandingNext
<1>3. Kept
    BY <1>2, LandingKeeps DEF IInv
<1>4. QueueInv'
  <2>1. queue' \in Seq(Event) /\ Len(queue') = 0
      BY <1>1
  <2> QED
      BY <2>1, BulldozerAssumption DEF QueueInv
<1>5. WorkersInv'
    BY DEF Restart, StopAll, WorkersInv, WorkerInv, WithView, Stages
<1>6. LostInv'
    BY DEF Restart, LostInv
<1> QED
    BY <1>1, <1>2, <1>3, <1>4, <1>5, <1>6 DEF IInv, DataInv, Kept

-----------------------------------------------------------------------------
LEMMA HandleStep ==
    ASSUME IInv, NEW w \in Workers, Handle(w)
    PROVE  IInv' /\ [LandingNext]_landingVars
BY TakeStep, ListPageStep, NextListedStep, NextNumberStep, LoopEndsStep, ReturnStep,
   GetForUpdateStep, CompareCommitsStep, UpdateBranchStep, UpdateFailsStep,
   ProcessPullRequestStep, ProcessFailsStep, MergeStep, GiveUpStep, AttemptDeleteStep,
   PanicStep DEF Handle

LEMMA Step == IInv /\ [BulldozerNext]_bulldozerVars => IInv' /\ [LandingNext]_landingVars
<1> SUFFICES ASSUME IInv, [BulldozerNext]_bulldozerVars
             PROVE  IInv' /\ [LandingNext]_landingVars
    OBVIOUS
<1>1. CASE BulldozerNext
    BY <1>1, HandleStep, OthersStep, PushesStep, RestartStep DEF BulldozerNext
<1>2. CASE UNCHANGED bulldozerVars
  <2>1. UNCHANGED <<landingVars, given, passing, queue, at, task, lost>>
      BY <1>2 DEF bulldozerVars, handlerVars
  <2>2. Kept /\ UNCHANGED phase
      BY <2>1, QuietKept
  <2>3. WorkersInv'
      BY <2>1, <2>2, WorkersStay
  <2> QED
      BY <2>1, <2>3, QuietStep DEF IInv, LostInv
<1> QED
    BY <1>1, <1>2

LEMMA Invariance == BulldozerSpec => []IInv
<1>1. IInv /\ [BulldozerNext]_bulldozerVars => IInv'
    BY Step
<1> QED
    BY InitInv, <1>1, PTL DEF BulldozerSpec

(* The queue never holds more events than the scheduler's bound, every     *)
(* handler has what its stage needs, and only a worker within its loop     *)
(* merges (server.go, scheduler.go, the handlers).                         *)
THEOREM BulldozerTypeCorrectness == BulldozerSpec => []BulldozerTypeOK
BY Invariance, InvTypes, PTL

(* Whatever events arrive, get dropped or are handled twice, whatever      *)
(* fails and whenever the server restarts: the repository is only changed  *)
(* as module Landing promises.                                             *)
THEOREM BulldozerImplementsLanding == BulldozerSpec => ImplementsLanding
<1>1. BulldozerInit => LandingInit
    BY DEF BulldozerInit
<1>2. IInv /\ [BulldozerNext]_bulldozerVars => [LandingNext]_landingVars
    BY Step
<1> QED
    BY Invariance, <1>1, <1>2, PTL DEF BulldozerSpec, ImplementsLanding, LandingSpec

(* The server, whatever is dropped, fails or is started again: no worker   *)
(* is about to delete a branch (attemptDelete) whose work is not on the    *)
(* base.                                                                   *)
THEOREM BulldozerKeepsWork == BulldozerSpec => []LandedWorkStays
BY BulldozerImplementsLanding, LandingKeepsWork, PTL DEF ImplementsLanding

(* No step of the server or of the others takes a commit off a branch, and *)
(* a pull request that is merged or closed stays so.                       *)
THEOREM BulldozerTakesNothingBack == BulldozerSpec => [][Grows /\ Settled]_landingVars
<1>1. IInv /\ [BulldozerNext]_bulldozerVars => [Grows /\ Settled]_landingVars
  <2>1. IInv => LandingTypeOK
      BY DEF IInv
  <2> QED
      BY <2>1, Step, LandingKeeps DEF Kept
<1> QED
    BY <1>1, Invariance, PTL DEF BulldozerSpec
=============================================================================
