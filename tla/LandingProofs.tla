---------------------------- MODULE LandingProofs ----------------------------
(***************************************************************************)
(* Module Merge implements module Landing: every API call of MergePR is a  *)
(* step of the promise, or none that shows.  So does ProcessPullRequest,   *)
(* through Merge.                                                          *)
(***************************************************************************)
EXTENDS ProcessProofs

PhaseOf(label) ==
    CASE label \in {"evaluate", "attempt", "merge", "update_ref"} -> "merging"
      [] label \in {"targeted", "delete"} -> "landed"
      [] OTHER -> "idle"

JobOf(label, r) ==
    IF PhaseOf(label) = "idle" THEN NoRun
    ELSE [pr |-> r.pr, head |-> r.head, method |-> r.method, deletes |-> Deletable(r)]

-----------------------------------------------------------------------------
(* The abstract view after a step of one worker.                           *)

LEMMA GotoMaps ==
    ASSUME TypeOK, NEW w \in Workers, NEW label, NEW r, Goto(w, label, r)
    PROVE  Landing!Become(w, PhaseOf(label), JobOf(label, r))
<1>1. \A v \in Workers : AbstractPhase[v] = PhaseOf(pc[v])
    BY DEF AbstractPhase, PhaseOf
<1>2. \A v \in Workers : AbstractJob[v] = JobOf(pc[v], run[v])
    BY <1>1 DEF AbstractJob, JobOf
<1>3. \A v \in Workers : AbstractPhase'[v] = PhaseOf(pc'[v])
    BY DEF AbstractPhase, PhaseOf
<1>4. \A v \in Workers : AbstractJob'[v] = JobOf(pc'[v], run'[v])
    BY <1>3 DEF AbstractJob, JobOf, Deletable
<1>5. pc'[w] = label /\ run'[w] = r
    BY DEF TypeOK, Goto
<1>6. \A v \in Workers \ {w} : pc'[v] = pc[v] /\ run'[v] = run[v]
    BY DEF TypeOK, Goto
<1>7. AbstractPhase' = [AbstractPhase EXCEPT ![w] = PhaseOf(label)]
  <2>1. /\ AbstractPhase = [v \in Workers |-> AbstractPhase[v]]
        /\ AbstractPhase' = [v \in Workers |-> AbstractPhase'[v]]
      BY DEF AbstractPhase
  <2>2. \A v \in Workers : AbstractPhase'[v] =
            IF v = w THEN PhaseOf(label) ELSE AbstractPhase[v]
      BY <1>1, <1>3, <1>5, <1>6
  <2> QED
      BY <2>1, <2>2
<1>8. AbstractJob' = [AbstractJob EXCEPT ![w] = JobOf(label, r)]
  <2>1. /\ AbstractJob = [v \in Workers |-> AbstractJob[v]]
        /\ AbstractJob' = [v \in Workers |-> AbstractJob'[v]]
      BY DEF AbstractJob
  <2>2. \A v \in Workers : AbstractJob'[v] =
            IF v = w THEN JobOf(label, r) ELSE AbstractJob[v]
      BY <1>2, <1>4, <1>5, <1>6
  <2> QED
      BY <2>1, <2>2
<1> QED
    BY <1>7, <1>8 DEF Landing!Become

LEMMA AbstractViews ==
    ASSUME NEW w \in Workers
    PROVE  AbstractPhase[w] = PhaseOf(pc[w]) /\ AbstractJob[w] = JobOf(pc[w], run[w])
BY DEF AbstractPhase, AbstractJob, PhaseOf, JobOf

(* A step that does not show.                                              *)
LEMMA StaysHidden ==
    ASSUME TypeOK, NEW w \in Workers, NEW label, NEW r, Goto(w, label, r),
           PhaseOf(label) = PhaseOf(pc[w]), JobOf(label, r) = JobOf(pc[w], run[w])
    PROVE  UNCHANGED <<AbstractPhase, AbstractJob>>
<1>1. /\ AbstractPhase' = [AbstractPhase EXCEPT ![w] = AbstractPhase[w]]
      /\ AbstractJob' = [AbstractJob EXCEPT ![w] = AbstractJob[w]]
    BY GotoMaps, AbstractViews DEF Landing!Become
<1>2. /\ AbstractPhase = [AbstractPhase EXCEPT ![w] = AbstractPhase[w]]
      /\ AbstractJob = [AbstractJob EXCEPT ![w] = AbstractJob[w]]
    BY DEF AbstractPhase, AbstractJob
<1> QED
    BY <1>1, <1>2

LEMMA EndMaps ==
    ASSUME TypeOK, NEW w \in Workers, End(w)
    PROVE  Landing!Finish(w)
<1>1. Landing!Become(w, PhaseOf("idle"), JobOf("idle", NoRun))
    BY GotoMaps DEF End
<1> QED
    BY <1>1 DEF Landing!Finish, PhaseOf, JobOf

Merging == {"evaluate", "attempt", "merge", "update_ref"}

(* The run of w, with what a merge request and its retries change in it.   *)
SameJob(w, r) ==
    /\ r \in Run
    /\ r.pr = run[w].pr
    /\ r.head = run[w].head
    /\ r.method = run[w].method
    /\ r.deleteAfterMerge = run[w].deleteAfterMerge

LEMMA JobFields ==
    ASSUME NEW label, NEW r, PhaseOf(label) # "idle"
    PROVE  /\ JobOf(label, r).pr = r.pr
           /\ JobOf(label, r).head = r.head
           /\ JobOf(label, r).method = r.method
BY DEF JobOf, Deletable

LEMMA MergingView ==
    ASSUME TypeOK, NEW w \in Workers, pc[w] \in Merging
    PROVE  /\ run[w] \in Run /\ SameJob(w, run[w])
           /\ AbstractPhase[w] = "merging"
           /\ AbstractJob[w] = [pr |-> run[w].pr, head |-> run[w].head,
                                method |-> run[w].method, deletes |-> Deletable(run[w])]
<1>1. run[w] \in Run
    BY DEF TypeOK, Merging
<1>2. SameJob(w, run[w])
    BY <1>1 DEF SameJob
<1>3. AbstractPhase[w] = "merging"
    BY DEF AbstractPhase, Merging
<1>4. AbstractJob[w] = [pr |-> run[w].pr, head |-> run[w].head,
                        method |-> run[w].method, deletes |-> Deletable(run[w])]
    BY <1>3 DEF AbstractJob
<1> QED
    BY <1>1, <1>2, <1>3, <1>4

LEMMA SameJobOf ==
    ASSUME NEW w \in Workers, NEW r, SameJob(w, r), NEW label, NEW other,
           PhaseOf(label) # "idle", PhaseOf(other) # "idle"
    PROVE  JobOf(label, r) = JobOf(other, run[w])
BY DEF SameJob, JobOf, Deletable

LEMMA RetryMaps ==
    ASSUME TypeOK, NEW w \in Workers, pc[w] \in Merging, NEW r, SameJob(w, r), Retry(w, r)
    PROVE  Landing!Finish(w) \/ UNCHANGED <<AbstractPhase, AbstractJob>>
<1> DEFINE again == [r EXCEPT !.attempts = @ + 1]
<1>1. CASE End(w)
    BY <1>1, EndMaps
<1>2. CASE Goto(w, "attempt", again)
  <2>1. /\ again.pr = r.pr /\ again.head = r.head /\ again.method = r.method
        /\ again.deleteAfterMerge = r.deleteAfterMerge
      BY DEF SameJob, Run
  <2> HIDE DEF again
  <2>2. JobOf("attempt", again) = JobOf(pc[w], run[w])
      BY <2>1 DEF JobOf, PhaseOf, SameJob, Merging, Deletable
  <2>3. PhaseOf("attempt") = PhaseOf(pc[w])
      BY DEF PhaseOf, Merging
  <2> QED
      BY <1>2, <2>2, <2>3, StaysHidden
<1> QED
    BY <1>1, <1>2 DEF Retry

LEMMA RefusedMaps ==
    ASSUME TypeOK, NEW w \in Workers, pc[w] \in Merging, NEW replies, Refused(w, replies)
    PROVE  Landing!Abandon(w) \/ UNCHANGED Landing!landingVars
<1>1. Retry(w, run[w]) \/ End(w)
    BY DEF Refused
<1>2. Landing!Finish(w) \/ UNCHANGED <<AbstractPhase, AbstractJob>>
    BY <1>1, MergingView, RetryMaps, EndMaps
<1>3. UNCHANGED ghVars /\ AbstractPhase[w] = "merging"
    BY MergingView DEF Refused
<1> QED
    BY <1>2, <1>3 DEF Landing!Abandon, Landing!landingVars, Landing!ghVars, ghVars

(* The merge took effect: it was acknowledged, or the answer was lost.     *)
LEMMA LandMaps ==
    ASSUME TypeOK, NEW w \in Workers, pc[w] \in Merging, NEW r, SameJob(w, r),
           Landing!PutOnBase(AbstractJob[w]), Merged(w, r) \/ Retry(w, r)
    PROVE  Landing!Land(w)
<1> DEFINE acknowledged == [r EXCEPT !.bystanders = OpenOnto(HeadOf[r.pr])]
<1>1. AbstractPhase[w] = "merging" /\ (Deletable(r) => AbstractJob[w].deletes)
  <2>1. AbstractPhase[w] = "merging"
      BY MergingView
  <2>2. AbstractJob[w] = [pr |-> run[w].pr, head |-> run[w].head,
                          method |-> run[w].method, deletes |-> Deletable(run[w])]
      BY MergingView
  <2>3. Deletable(r) => Deletable(run[w])
      BY DEF SameJob, Deletable
  <2>4. Deletable(run[w]) => AbstractJob[w].deletes
      BY <2>2
  <2> QED
      BY <2>1, <2>3, <2>4
<1>2. CASE Retry(w, r)
    BY <1>1, <1>2, RetryMaps DEF Landing!Land
<1>3. CASE End(w)
    BY <1>1, <1>3, EndMaps DEF Landing!Land
<1>4. CASE Deletable(r) /\ Goto(w, "targeted", acknowledged)
  <2>1. /\ acknowledged.pr = r.pr /\ acknowledged.head = r.head
        /\ acknowledged.method = r.method
        /\ acknowledged.deleteAfterMerge = r.deleteAfterMerge
      BY DEF SameJob, Run
  <2> HIDE DEF acknowledged
  <2>2. JobOf("targeted", acknowledged) = AbstractJob[w]
      BY <2>1, MergingView DEF JobOf, PhaseOf, SameJob, Deletable
  <2>3. Landing!Become(w, "landed", AbstractJob[w])
      BY <1>4, <2>2, GotoMaps DEF PhaseOf
  <2> QED
      BY <1>1, <1>4, <2>3 DEF Landing!Land
<1> QED
    BY <1>2, <1>3, <1>4 DEF Merged, Deletable

(* The effects of the two kinds of merge are those of the promise.         *)
LEMMA DefaultMergeLands ==
    ASSUME TypeOK, NEW w \in Workers, pc[w] = "merge", run[w].method # "ff-only",
           CanLand(run[w].pr), LandMerge(run[w].pr, run[w].method)
    PROVE  Landing!PutOnBase(AbstractJob[w])
<1>1. AbstractJob[w].pr = run[w].pr /\ AbstractJob[w].method = run[w].method
    BY AbstractViews, JobFields DEF PhaseOf
<1>2. Landing!Open(run[w].pr) /\ Landing!LandMerge(run[w].pr, run[w].method)
    BY DEF CanLand, Open, LandMerge, Forget, Landing!Open, Landing!LandMerge, Landing!Forget
<1> QED
    BY <1>1, <1>2 DEF Landing!PutOnBase

LEMMA UpdateRefLands ==
    ASSUME TypeOK, NEW w \in Workers, pc[w] = "update_ref", run[w].method = "ff-only",
           CanUpdateRef(BaseOf[run[w].pr], run[w].head, UpdateRefForce),
           SetRef(BaseOf[run[w].pr], run[w].head)
    PROVE  Landing!PutOnBase(AbstractJob[w])
<1>1. /\ AbstractJob[w].pr = run[w].pr
      /\ AbstractJob[w].method = run[w].method
      /\ AbstractJob[w].head = run[w].head
    BY AbstractViews, JobFields DEF PhaseOf
<1>2. /\ tip[BaseOf[run[w].pr]] \subseteq run[w].head
      /\ Landing!SetRef(BaseOf[run[w].pr], run[w].head)
    BY DEF CanUpdateRef, UpdateRefForce, SetRef, Forget, Landing!SetRef, Landing!Forget
<1> QED
    BY <1>1, <1>2 DEF Landing!PutOnBase

LEMMA EnvironmentMaps == GitHubNext => Landing!GitHubNext
<1>1. ASSUME NEW p \in PRs
      PROVE  /\ OpenPR(p) => Landing!OpenPR(p)
             /\ ClosePR(p) => Landing!ClosePR(p)
             /\ ComputeMergeable(p) => Landing!ComputeMergeable(p)
             /\ DetectMerged(p) => Landing!DetectMerged(p)
    BY DEF OpenPR, ClosePR, ComputeMergeable, DetectMerged, Open, Contained,
           Landing!OpenPR, Landing!ClosePR, Landing!ComputeMergeable,
           Landing!DetectMerged, Landing!Open, Landing!Contained
<1>2. ASSUME NEW p \in PRs, UserMerge(p) PROVE Landing!UserMerge(p)
    BY <1>2 DEF UserMerge, LandMerge, Open, Forget,
                Landing!UserMerge, Landing!LandMerge, Landing!Open, Landing!Forget
<1>3. ASSUME NEW p \in PRs, UserUpdatesBranch(p) PROVE Landing!UserUpdatesBranch(p)
    BY <1>3 DEF UserUpdatesBranch, MergeInto, Open, Forget, Landing!UserUpdatesBranch,
                Landing!MergeInto, Landing!Open, Landing!Forget,
                Unused, NextMergeCommit, Landing!Unused, Landing!NextMergeCommit
<1>4. ASSUME NEW b \in Branches, UserDeletesBranch(b) PROVE Landing!UserDeletesBranch(b)
    BY <1>4 DEF UserDeletesBranch, RemoveBranch, Open, Contained, Landing!UserDeletesBranch,
                Landing!RemoveBranch, Landing!Open, Landing!Contained
<1>5. ASSUME NEW b \in Branches, NEW c \in Changes, Push(b, c) PROVE Landing!Push(b, c)
    BY <1>5 DEF Push, Forget, Landing!Push, Landing!Forget
<1> QED
    BY <1>1, <1>2, <1>3, <1>4, <1>5 DEF GitHubNext, Landing!GitHubNext

-----------------------------------------------------------------------------
(* Every step of Merge is a step of Landing, or does not show there.       *)
LEMMA SimulationStep ==
    ASSUME TypeOK, DeleteInv, [Next]_vars
    PROVE  [Landing!LandingNext]_(Landing!landingVars)
<1> DEFINE Hidden == UNCHANGED Landing!landingVars
<1>h. UNCHANGED ghVars /\ UNCHANGED <<AbstractPhase, AbstractJob>> => Hidden
    BY DEF Landing!landingVars, Landing!ghVars, ghVars
<1>g. UNCHANGED ghVars => UNCHANGED Landing!ghVars
    BY DEF Landing!ghVars, ghVars
<1>1. ASSUME NEW w \in Workers, NEW p \in PRs, Fetch(w, p) PROVE Landing!LandingNext
  <2>1. PICK method \in MergeMethods, deleteAfterMerge \in BOOLEAN :
          Goto(w, "evaluate",
               [pr |-> p, head |-> tip[HeadOf[p]], method |-> method,
                deleteAfterMerge |-> deleteAfterMerge, attempts |-> 0,
                landed |-> FALSE, bystanders |-> {}])
      BY <1>1 DEF Fetch
  <2> DEFINE deletes == deleteAfterMerge /\ HeadOf[p] \notin Forks
  <2>2. Landing!Become(w, "merging", [pr |-> p, head |-> tip[HeadOf[p]], method |-> method,
                                      deletes |-> deletes])
      BY <2>1, GotoMaps DEF PhaseOf, JobOf, Deletable
  <2>3. AbstractPhase[w] = "idle"
      BY <1>1 DEF Fetch, AbstractPhase
  <2>4. Landing!TakeUp(w, p, tip[HeadOf[p]], method, deletes)
      BY <1>1, <1>g, <2>2, <2>3 DEF Fetch, Landing!TakeUp
  <2>5. deletes \in BOOLEAN /\ tip[HeadOf[p]] \in SUBSET tip[HeadOf[p]]
      OBVIOUS
  <2> QED
      BY <2>4, <2>5 DEF Landing!LandingNext
<1>2. ASSUME NEW w \in Workers, Decline(w) PROVE Landing!LandingStep(w)
  <2>1. AbstractPhase[w] = "merging"
      BY <1>2, MergingView DEF Decline, Merging
  <2> QED
      BY <1>2, <1>g, <2>1, EndMaps DEF Decline, Landing!Abandon, Landing!LandingStep
<1>3. ASSUME NEW w \in Workers, BeginMerge(w) PROVE Hidden
    BY <1>3, <1>h, StaysHidden DEF BeginMerge, PhaseOf, JobOf
<1>4. ASSUME NEW w \in Workers, GetMergeState(w) PROVE Landing!LandingStep(w) \/ Hidden
  <2>1. pc[w] = "attempt" /\ UNCHANGED ghVars
      BY <1>4 DEF GetMergeState
  <2>2. AbstractPhase[w] = "merging" /\ SameJob(w, run[w])
      BY <2>1, MergingView DEF Merging
  <2>3. CASE End(w) \/ Retry(w, run[w])
    <3>1. Landing!Finish(w) \/ UNCHANGED <<AbstractPhase, AbstractJob>>
        BY <2>1, <2>2, <2>3, EndMaps, RetryMaps DEF Merging
    <3> QED
        BY <1>g, <1>h, <2>1, <2>2, <3>1 DEF Landing!Abandon, Landing!LandingStep
  <2>4. CASE Goto(w, "merge", run[w])
      BY <1>h, <2>1, <2>4, StaysHidden DEF PhaseOf, JobOf
  <2> QED
      BY <1>4, <2>3, <2>4 DEF GetMergeState
<1>5. ASSUME NEW w \in Workers, DefaultMerge(w) PROVE Landing!LandingStep(w) \/ Hidden
  <2> DEFINE r == [run[w] EXCEPT !.landed = TRUE]
  <2>1. pc[w] = "merge" /\ run[w].method # "ff-only" /\ run[w] \in Run
      BY <1>5, MergingView DEF DefaultMerge, Merging
  <2>2. SameJob(w, r)
      BY <2>1 DEF SameJob, Run
  <2>3. CASE /\ CanLand(run[w].pr) /\ LandMerge(run[w].pr, run[w].method)
             /\ Merged(w, r) \/ Retry(w, r)
      BY <2>1, <2>2, <2>3, DefaultMergeLands, LandMaps DEF Merging, Landing!LandingStep
  <2>4. CASE Refused(w, MergeRefusals(run[w].pr))
      BY <2>1, <2>4, RefusedMaps DEF Merging, Landing!LandingStep
  <2> QED
      BY <1>5, <2>3, <2>4 DEF DefaultMerge
<1>6. ASSUME NEW w \in Workers, GetBaseRef(w) PROVE Landing!LandingStep(w) \/ Hidden
  <2>1. pc[w] = "merge"
      BY <1>6 DEF GetBaseRef
  <2>2. CASE Goto(w, "update_ref", run[w]) /\ UNCHANGED ghVars
      BY <1>h, <2>1, <2>2, StaysHidden DEF PhaseOf, JobOf
  <2>3. CASE \E replies : Refused(w, replies)
      BY <2>1, <2>3, RefusedMaps DEF Merging, Landing!LandingStep
  <2> QED
      BY <1>6, <2>2, <2>3 DEF GetBaseRef
<1>7. ASSUME NEW w \in Workers, UpdateRef(w) PROVE Landing!LandingStep(w) \/ Hidden
  <2> DEFINE r == [run[w] EXCEPT !.landed = TRUE]
  <2>1. pc[w] = "update_ref" /\ run[w] \in Run
      BY <1>7, MergingView DEF UpdateRef, Merging
  <2>2. run[w].method = "ff-only"
      BY <2>1 DEF DeleteInv, CallJustified
  <2>3. SameJob(w, r) /\ r.pr = run[w].pr /\ r.head = run[w].head
      BY <2>1 DEF SameJob, Run
  <2>4. CASE /\ CanUpdateRef(BaseOf[run[w].pr], r.head, UpdateRefForce)
             /\ SetRef(BaseOf[run[w].pr], r.head)
             /\ Merged(w, r) \/ Retry(w, r)
    <3>1. Landing!PutOnBase(AbstractJob[w])
        BY <2>1, <2>2, <2>3, <2>4, UpdateRefLands
    <3> QED
        BY <2>1, <2>3, <2>4, <3>1, LandMaps DEF Merging, Landing!LandingStep
  <2>5. CASE \E replies : Refused(w, replies)
      BY <2>1, <2>5, RefusedMaps DEF Merging, Landing!LandingStep
  <2> QED
      BY <1>7, <2>4, <2>5 DEF UpdateRef
<1>8. ASSUME NEW w \in Workers, CheckTargeted(w) PROVE Landing!LandingStep(w) \/ Hidden
  <2>1. AbstractPhase[w] = "landed" /\ UNCHANGED ghVars
      BY <1>8 DEF CheckTargeted, AbstractPhase
  <2>2. CASE End(w)
      BY <1>g, <2>1, <2>2, EndMaps DEF Landing!KeepBranch, Landing!LandingStep
  <2>3. CASE Goto(w, "delete", run[w])
      BY <1>8, <1>h, <2>1, <2>3, StaysHidden DEF CheckTargeted, PhaseOf, JobOf
  <2> QED
      BY <1>8, <2>2, <2>3 DEF CheckTargeted
<1>9. ASSUME NEW w \in Workers, DeleteHead(w) PROVE Landing!LandingStep(w)
  <2>1. pc[w] = "delete" /\ AbstractPhase[w] = "landed"
      BY <1>9 DEF DeleteHead, AbstractPhase
  <2>2. AbstractJob[w].pr = run[w].pr
      BY <2>1, AbstractViews, JobFields DEF PhaseOf
  <2>3. Landing!Finish(w)
    <3>1. CASE End(w)
        BY <3>1, EndMaps
    <3>2. CASE Goto(w, "panicked", run[w])
      <4>1. PhaseOf("panicked") = "idle" /\ JobOf("panicked", run[w]) = NoRun
          BY DEF PhaseOf, JobOf
      <4> QED
          BY <3>2, <4>1, GotoMaps DEF Landing!Finish
    <3> QED
        BY <1>9, <3>1, <3>2 DEF DeleteHead
  <2>4. CASE UNCHANGED ghVars
      BY <1>g, <2>1, <2>3, <2>4 DEF Landing!KeepBranch, Landing!LandingStep
  <2>5. CASE RemoveBranch(HeadOf[run[w].pr])
    <3>1. Landing!RemoveBranch(HeadOf[run[w].pr])
        BY <2>5 DEF RemoveBranch, Open, Contained, Landing!RemoveBranch, Landing!Open,
                    Landing!Contained
    <3> QED
        BY <2>1, <2>2, <2>3, <3>1 DEF Landing!DeleteBranch, Landing!LandingStep
  <2> QED
      BY <1>9, <2>4, <2>5 DEF DeleteHead
<1>10. ASSUME NEW w \in Workers, Recover(w) PROVE Hidden
    BY <1>10, <1>h, StaysHidden DEF Recover, End, PhaseOf, JobOf
<1>11. CASE Environment
  <2>1. UNCHANGED <<AbstractPhase, AbstractJob>>
      BY <1>11 DEF Environment, AbstractPhase, AbstractJob, Deletable
  <2> QED
      BY <1>11, <2>1, EnvironmentMaps DEF Environment, Landing!LandingNext
<1>12. CASE Restart
  <2>1. /\ AbstractPhase' = [w \in Workers |-> "idle"]
        /\ AbstractJob' = [w \in Workers |-> NoRun]
      BY <1>12 DEF Restart, AbstractPhase, AbstractJob
  <2> QED
      BY <1>12, <1>g, <2>1 DEF Restart, Landing!StopAll, Landing!LandingNext
<1>13. CASE UNCHANGED vars
  <2>1. UNCHANGED <<AbstractPhase, AbstractJob>>
      BY <1>13 DEF vars, AbstractPhase, AbstractJob, Deletable
  <2> QED
      BY <1>13, <1>h, <2>1 DEF vars
<1>14. ASSUME NEW w \in Workers, Step(w) PROVE Landing!LandingStep(w) \/ Hidden
    BY <1>14, <1>2, <1>3, <1>4, <1>5, <1>6, <1>7, <1>8, <1>9, <1>10 DEF Step, MergePR
<1> QED
    BY <1>1, <1>11, <1>12, <1>13, <1>14 DEF Next, Landing!LandingNext

LEMMA LandsSafely == MergeSafety => ImplementsLanding
<1>1. Init => Landing!LandingInit
    BY DEF Init, GitHubInit, AbstractPhase, AbstractJob, Landing!LandingInit,
           Landing!GitHubInit
<1>2. TypeOK /\ DeleteInv /\ [Next]_vars => [Landing!LandingNext]_(Landing!landingVars)
    BY SimulationStep
<1> QED
    BY <1>1, <1>2, DeleteInvariant, PTL DEF MergeSafety, ImplementsLanding, Landing!LandingSpec

(* The calls of MergePR, with all that may fail between them, amount to    *)
(* what Landing promises: one landing, and at most one deletion after it,  *)
(* for every shape of pull requests and any number of workers.             *)
THEOREM MergeImplementsLanding == Spec => ImplementsLanding
BY SpecIsSafe, LandsSafely, PTL

(* So does the handler that fetches a pull request, reads its statuses and *)
(* decides (ProcessPullRequest): only the calls of its merge show.         *)
THEOREM ProcessImplementsLanding == ProcessSpec => ImplementsLanding
BY ImplementsMergeSafety, LandsSafely, PTL DEF MergeSafety
=============================================================================
