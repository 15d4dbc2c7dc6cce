----------------------------- MODULE MergeProofs -----------------------------
(***************************************************************************)
(* Theorems about Merge, for every shape of pull requests, any set of      *)
(* workers and any selection of faults.                                    *)
(***************************************************************************)
EXTENDS Merge, GitHubProofs

-----------------------------------------------------------------------------
(* Type correctness.                                                       *)

(* Moving a worker to a call with a well-typed run, or ending its run,     *)
(* keeps the control state well typed.                                     *)
ControlTypeOK ==
    /\ pc \in [Workers -> PC]
    /\ run \in [Workers -> Run \cup {NoRun}]
    /\ \A w \in Workers : pc[w] # "idle" => run[w] \in Run

LEMMA GotoTypes ==
    ASSUME ControlTypeOK, NEW w \in Workers, NEW label \in PC, NEW r \in Run,
           Goto(w, label, r)
    PROVE  ControlTypeOK'
BY DEF ControlTypeOK, Goto

LEMMA EndTypes ==
    ASSUME ControlTypeOK, NEW w \in Workers, End(w)
    PROVE  ControlTypeOK'
BY DEF ControlTypeOK, Goto, End, PC

LEMMA RetryTypes ==
    ASSUME ControlTypeOK, NEW w \in Workers, NEW r \in Run, Retry(w, r)
    PROVE  ControlTypeOK'
<1> DEFINE again == [r EXCEPT !.attempts = @ + 1]
<1>1. CASE r.attempts + 1 >= MaxPullRequestPollCount
    BY <1>1, EndTypes DEF Retry
<1>2. CASE ~ (r.attempts + 1 >= MaxPullRequestPollCount)
  <2>1. again \in Run
      BY <1>2, MergeAssumption DEF Run
  <2>2. Goto(w, "attempt", again)
      BY <1>2 DEF Retry
  <2> QED
      BY <2>1, <2>2, GotoTypes DEF PC
<1> QED
    BY <1>1, <1>2

LEMMA MergedTypes ==
    ASSUME ControlTypeOK, NEW w \in Workers, NEW r \in Run, Merged(w, r)
    PROVE  ControlTypeOK'
<1> DEFINE acknowledged == [r EXCEPT !.bystanders = OpenOnto(HeadOf[r.pr])]
<1>1. acknowledged \in Run
    BY DEF Run, OpenOnto
<1>2. CASE Goto(w, "targeted", acknowledged)
    BY <1>1, <1>2, GotoTypes DEF PC
<1>3. CASE End(w)
    BY <1>3, EndTypes
<1> QED
    BY <1>2, <1>3 DEF Merged

LEMMA RefusedTypes ==
    ASSUME TypeOK, NEW w \in Workers, run[w] \in Run, NEW replies, Refused(w, replies)
    PROVE  TypeOK'
<1>1. ControlTypeOK /\ GitHubTypeOK /\ UNCHANGED ghVars
    BY DEF TypeOK, ControlTypeOK, Refused
<1>2. Retry(w, run[w]) \/ End(w)
    BY DEF Refused
<1>3. ControlTypeOK'
    BY <1>1, <1>2, RetryTypes, EndTypes
<1> QED
    BY <1>1, <1>3 DEF TypeOK, ControlTypeOK, GitHubTypeOK, ghVars

-----------------------------------------------------------------------------
(* Every step keeps the state well typed.                                  *)
LEMMA TypeStep == TypeOK /\ [Next]_vars => TypeOK'
<1> SUFFICES ASSUME TypeOK, [Next]_vars PROVE TypeOK'
    OBVIOUS
<1> USE DEF PC
<1>0. GitHubTypeOK /\ ControlTypeOK
    BY DEF TypeOK, ControlTypeOK
<1>q. ASSUME GitHubTypeOK', ControlTypeOK' PROVE TypeOK'
    BY <1>q DEF TypeOK, ControlTypeOK
<1>1. ASSUME NEW w \in Workers, NEW p \in PRs, Fetch(w, p) PROVE TypeOK'
  <2>1. PICK method \in MergeMethods, deleteAfterMerge \in BOOLEAN :
          Goto(w, "evaluate",
               [pr |-> p, head |-> tip[HeadOf[p]], method |-> method,
                deleteAfterMerge |-> deleteAfterMerge, attempts |-> 0,
                landed |-> FALSE, bystanders |-> {}])
      BY <1>1 DEF Fetch
  <2>2. [pr |-> p, head |-> tip[HeadOf[p]], method |-> method,
         deleteAfterMerge |-> deleteAfterMerge, attempts |-> 0,
         landed |-> FALSE, bystanders |-> {}] \in Run
      BY <1>0, TopologyAssumption, MergeAssumption DEF Run, GitHubTypeOK
  <2>3. ControlTypeOK'
      BY <1>0, <2>1, <2>2, GotoTypes
  <2> QED
      BY <1>0, <1>1, <1>q, <2>3, UnchangedTypes DEF Fetch
<1>2. ASSUME NEW w \in Workers, Decline(w) PROVE TypeOK'
    BY <1>0, <1>2, <1>q, EndTypes, UnchangedTypes DEF Decline
<1>3. ASSUME NEW w \in Workers, BeginMerge(w) PROVE TypeOK'
  <2>1. run[w] \in Run
      BY <1>0, <1>3 DEF BeginMerge, ControlTypeOK
  <2> QED
      BY <1>0, <1>3, <1>q, <2>1, GotoTypes, UnchangedTypes DEF BeginMerge
<1>4. ASSUME NEW w \in Workers, GetMergeState(w) PROVE TypeOK'
  <2>1. run[w] \in Run
      BY <1>0, <1>4 DEF GetMergeState, ControlTypeOK
  <2>2. End(w) \/ Retry(w, run[w]) \/ Goto(w, "merge", run[w])
      BY <1>4 DEF GetMergeState
  <2>3. ControlTypeOK'
      BY <1>0, <2>1, <2>2, EndTypes, RetryTypes, GotoTypes
  <2> QED
      BY <1>0, <1>4, <1>q, <2>3, UnchangedTypes DEF GetMergeState
<1>5. ASSUME NEW w \in Workers, DefaultMerge(w) PROVE TypeOK'
  <2> DEFINE p == run[w].pr
             r == [run[w] EXCEPT !.landed = TRUE]
  <2>1. run[w] \in Run
      BY <1>0, <1>5 DEF DefaultMerge, ControlTypeOK
  <2>2. p \in PRs /\ r \in Run
      BY <2>1 DEF Run
  <2>3. CASE LandMerge(p, run[w].method) /\ (Merged(w, r) \/ Retry(w, r))
    <3>1. ControlTypeOK'
        BY <1>0, <2>2, <2>3, MergedTypes, RetryTypes
    <3>2. GitHubTypeOK'
        BY <1>0, <2>2, <2>3, LandMergeTypes
    <3> QED
        BY <1>q, <3>1, <3>2
  <2>4. CASE Refused(w, MergeRefusals(p))
      BY <2>1, <2>4, RefusedTypes
  <2> QED
      BY <1>5, <2>3, <2>4 DEF DefaultMerge
<1>6. ASSUME NEW w \in Workers, GetBaseRef(w) PROVE TypeOK'
  <2>1. run[w] \in Run
      BY <1>0, <1>6 DEF GetBaseRef, ControlTypeOK
  <2>2. CASE Goto(w, "update_ref", run[w]) /\ UNCHANGED ghVars
    <3>1. ControlTypeOK'
        BY <1>0, <2>1, <2>2, GotoTypes
    <3> QED
        BY <1>0, <1>q, <2>2, <3>1, UnchangedTypes
  <2>3. CASE \E replies : Refused(w, replies)
      BY <2>1, <2>3, RefusedTypes
  <2> QED
      BY <1>6, <2>2, <2>3 DEF GetBaseRef
<1>7. ASSUME NEW w \in Workers, UpdateRef(w) PROVE TypeOK'
  <2> DEFINE base == BaseOf[run[w].pr]
             r == [run[w] EXCEPT !.landed = TRUE]
  <2>1. run[w] \in Run
      BY <1>0, <1>7 DEF UpdateRef, ControlTypeOK
  <2>2. base \in Branches /\ r \in Run /\ r.head \in Commit
      BY <2>1, TopologyAssumption DEF Run
  <2>3. CASE SetRef(base, r.head) /\ (Merged(w, r) \/ Retry(w, r))
    <3>1. ControlTypeOK'
        BY <1>0, <2>2, <2>3, MergedTypes, RetryTypes
    <3>2. GitHubTypeOK'
        BY <1>0, <2>2, <2>3, SetRefTypes
    <3> QED
        BY <1>q, <3>1, <3>2
  <2>4. CASE \E replies : Refused(w, replies)
      BY <2>1, <2>4, RefusedTypes
  <2> QED
      BY <1>7, <2>3, <2>4 DEF UpdateRef
<1>8. ASSUME NEW w \in Workers, CheckTargeted(w) PROVE TypeOK'
  <2>1. run[w] \in Run
      BY <1>0, <1>8 DEF CheckTargeted, ControlTypeOK
  <2>2. ControlTypeOK'
      BY <1>0, <1>8, <2>1, EndTypes, GotoTypes DEF CheckTargeted
  <2> QED
      BY <1>0, <1>8, <1>q, <2>2, UnchangedTypes DEF CheckTargeted
<1>9. ASSUME NEW w \in Workers, DeleteHead(w) PROVE TypeOK'
  <2>1. run[w] \in Run
      BY <1>0, <1>9 DEF DeleteHead, ControlTypeOK
  <2>2. HeadOf[run[w].pr] \in Branches
      BY <2>1, TopologyAssumption DEF Run
  <2>3. End(w) \/ Goto(w, "panicked", run[w])
      BY <1>9 DEF DeleteHead
  <2>4. RemoveBranch(HeadOf[run[w].pr]) \/ UNCHANGED ghVars
      BY <1>9 DEF DeleteHead
  <2>5. ControlTypeOK'
      BY <1>0, <2>1, <2>3, EndTypes, GotoTypes
  <2>6. GitHubTypeOK'
      BY <1>0, <2>2, <2>4, RemoveBranchTypes, UnchangedTypes
  <2> QED
      BY <1>q, <2>5, <2>6
<1>10. ASSUME NEW w \in Workers, Recover(w) PROVE TypeOK'
    BY <1>0, <1>10, <1>q, EndTypes, UnchangedTypes DEF Recover
<1>11. CASE Environment
    BY <1>0, <1>11, GitHubTypes DEF Environment, TypeOK
<1>12. CASE Restart
  <2>1. ControlTypeOK'
      BY <1>0, <1>12 DEF Restart, ControlTypeOK
  <2> QED
      BY <1>0, <1>12, <1>q, <2>1, UnchangedTypes DEF Restart
<1>13. CASE UNCHANGED vars
    BY <1>13 DEF vars, ghVars, TypeOK, GitHubTypeOK
<1> QED
    BY <1>1, <1>2, <1>3, <1>4, <1>5, <1>6, <1>7, <1>8, <1>9, <1>10, <1>11,
       <1>12, <1>13 DEF Next, Step, MergePR

(* The state is well typed, for any number of workers and pull requests:   *)
(* in particular a run never makes more than MaxPullRequestPollCount       *)
(* attempts, and every call is made on behalf of a run.                    *)
THEOREM TypeCorrectness == Spec => []TypeOK
<1>1. Init => TypeOK
    BY DEF Init, GitHubInit, TypeOK, GitHubTypeOK, Commit, PC
<1>2. TypeOK /\ [Next]_vars => TypeOK'
    BY TypeStep
<1> QED
    BY <1>1, <1>2, PTL DEF Spec

-----------------------------------------------------------------------------
(* Without force the new commit contains the old one.                      *)
LEMMA UpdateRefKeeps ==
    ASSUME GitHubTypeOK, NEW b \in Branches, NEW commit \in Commit,
           CanUpdateRef(b, commit, UpdateRefForce), SetRef(b, commit)
    PROVE  Grows /\ Settled /\ tip'[b] = commit
BY DEF GitHubTypeOK, Grows, Settled, CanUpdateRef, UpdateRefForce, SetRef

-----------------------------------------------------------------------------
(* The invariant behind the deletion of branches.  For the bystanders it   *)
(* has to say more than BystandersKeepTheirBase: they were opened, so that *)
(* one that is not open when the list is read is never open again.         *)

Deleting == {"targeted", "delete", "panicked"}

Gone(p) == prState[p] \notin {"none", "open"}

CallJustified(label, r) ==
    /\ label = "update_ref" => r.method = "ff-only"
    /\ label \in Deleting =>
         /\ Deletable(r)
         /\ WorkOnBase(r)
         /\ \A p \in r.bystanders :
              /\ prState[p] # "none"
              /\ label = "delete" /\ BaseOf[p] = HeadOf[r.pr] => Gone(p)

DeleteInv == \A w \in Workers : CallJustified(pc[w], run[w])

LEMMA ReadyPersists ==
    ASSUME Grows, Settled, TypeOK, NEW label \in Deleting, NEW r \in Run, CallJustified(label, r)
    PROVE  CallJustified(label, r)'
<1>1. r.head \subseteq tip[BaseOf[r.pr]] => r.head \subseteq tip'[BaseOf[r.pr]]
    BY TopologyAssumption DEF Grows, Run
<1>2. WorkOnBase(r)'
    BY <1>1 DEF CallJustified, WorkOnBase, Settled, Run
<1>3. ASSUME NEW p \in r.bystanders
      PROVE  prState'[p] # "none" /\ (Gone(p) => Gone(p)')
    BY <1>3 DEF CallJustified, Settled, Gone, Run
<1> QED
    BY <1>2, <1>3 DEF CallJustified, Deletable, Deleting

(* The other workers are not disturbed by a step of worker w.              *)
LEMMA OthersPersist ==
    ASSUME TypeOK, DeleteInv, Grows, Settled, NEW w \in Workers,
           \E label, r : Goto(w, label, r),
           CallJustified(pc[w], run[w])'
    PROVE  DeleteInv'
<1> SUFFICES ASSUME NEW v \in Workers, v # w
             PROVE  CallJustified(pc[v], run[v])'
    BY DEF DeleteInv
<1>1. pc'[v] = pc[v] /\ run'[v] = run[v]
    BY DEF TypeOK, Goto
<1>2. CASE pc[v] \in Deleting
  <2>1. run[v] \in Run
      BY <1>2 DEF TypeOK, Deleting
  <2>2. CallJustified(pc[v], run[v])
      BY DEF DeleteInv
  <2> QED
      BY <1>1, <1>2, <2>1, <2>2, ReadyPersists
<1>3. CASE pc[v] \notin Deleting
    BY <1>1, <1>3 DEF CallJustified, DeleteInv
<1> QED
    BY <1>2, <1>3

(* A step of w to call label with the run r.                               *)
LEMMA GotoStep ==
    ASSUME TypeOK, DeleteInv, Grows, Settled, NEW w \in Workers, NEW label, NEW r,
           Goto(w, label, r), CallJustified(label, r)'
    PROVE  DeleteInv'
<1>1. pc'[w] = label /\ run'[w] = r
    BY DEF TypeOK, Goto
<1>2. CallJustified(pc[w], run[w])'
    BY <1>1
<1> QED
    BY <1>2, OthersPersist

(* A step of w to call label that leaves its run as it is.                 *)
LEMMA GoOnStep ==
    ASSUME TypeOK, DeleteInv, Grows, Settled, NEW w \in Workers, NEW label,
           Goto(w, label, run[w]), CallJustified(label, run[w])'
    PROVE  DeleteInv'
<1>1. pc'[w] = label
    BY DEF TypeOK, Goto
<1>2. CallJustified(pc[w], run[w])'
    BY <1>1
<1> QED
    BY <1>2, OthersPersist

(* Steps of w after which it is not about to delete anything.              *)
LEMMA QuietStep ==
    ASSUME TypeOK, DeleteInv, Grows, Settled, NEW w \in Workers, NEW label, NEW r,
           label \notin Deleting \cup {"update_ref"}, Goto(w, label, r)
    PROVE  DeleteInv'
<1>1. CallJustified(label, r)'
    BY DEF CallJustified
<1> QED
    BY <1>1, GotoStep

LEMMA EndStep ==
    ASSUME TypeOK, DeleteInv, Grows, Settled, NEW w \in Workers, End(w)
    PROVE  DeleteInv'
BY QuietStep DEF End, Deleting

LEMMA RetryStep ==
    ASSUME TypeOK, DeleteInv, Grows, Settled, NEW w \in Workers, NEW r, Retry(w, r)
    PROVE  DeleteInv'
<1>1. CASE End(w)
    BY <1>1, EndStep
<1>2. CASE Goto(w, "attempt", [r EXCEPT !.attempts = @ + 1])
    BY <1>2, QuietStep DEF Deleting
<1> QED
    BY <1>1, <1>2 DEF Retry

LEMMA RefusedStep ==
    ASSUME TypeOK, DeleteInv, NEW w \in Workers, NEW replies, Refused(w, replies)
    PROVE  DeleteInv'
<1>1. Grows /\ Settled
    BY UnchangedKeeps DEF Refused
<1>2. Retry(w, run[w]) \/ End(w)
    BY DEF Refused
<1> QED
    BY <1>1, <1>2, RetryStep, EndStep

(* The merge was acknowledged: what it landed is on the base now, and the  *)
(* bystanders are pull requests that are open.                             *)
LEMMA MergedStep ==
    ASSUME TypeOK, DeleteInv, Grows, Settled, NEW w \in Workers, NEW r \in Run,
           Merged(w, r), WorkOnBase(r)'
    PROVE  DeleteInv'
<1> DEFINE acknowledged == [r EXCEPT !.bystanders = OpenOnto(HeadOf[r.pr])]
<1>1. CASE End(w)
    BY <1>1, EndStep
<1>2. CASE Deletable(r) /\ Goto(w, "targeted", acknowledged)
  <2>1. /\ acknowledged.pr = r.pr
        /\ acknowledged.head = r.head
        /\ acknowledged.method = r.method
        /\ acknowledged.deleteAfterMerge = r.deleteAfterMerge
        /\ acknowledged.bystanders = OpenOnto(HeadOf[r.pr])
      BY DEF Run
  <2>2. \A p \in OpenOnto(HeadOf[r.pr]) : prState'[p] # "none"
      BY DEF OpenOnto, Open, Settled
  <2> HIDE DEF acknowledged
  <2> DEFINE bs == OpenOnto(HeadOf[r.pr])
  <2>3. ASSUME NEW a, a = acknowledged
        PROVE  CallJustified("targeted", a)'
      BY <1>2, <2>1, <2>2, <2>3 DEF CallJustified, Deletable, WorkOnBase
  <2>4. PICK a : a = acknowledged
      OBVIOUS
  <2> QED
      BY <1>2, <2>3, <2>4, GotoStep
<1> QED
    BY <1>1, <1>2 DEF Merged, Deletable

LEMMA DeleteStep == TypeOK /\ DeleteInv /\ [Next]_vars => DeleteInv' /\ Grows /\ Settled
<1> SUFFICES ASSUME TypeOK, DeleteInv, [Next]_vars PROVE DeleteInv' /\ Grows /\ Settled
    OBVIOUS
<1> USE DEF Deleting
<1>0. GitHubTypeOK
    BY DEF TypeOK
<1>u. UNCHANGED ghVars => Grows /\ Settled
    BY UnchangedKeeps
<1>1. ASSUME NEW w \in Workers, NEW p \in PRs, Fetch(w, p)
      PROVE  DeleteInv' /\ Grows /\ Settled
    BY <1>1, <1>u, QuietStep DEF Fetch
<1>2. ASSUME NEW w \in Workers, Decline(w) PROVE DeleteInv' /\ Grows /\ Settled
    BY <1>2, <1>u, EndStep DEF Decline
<1>3. ASSUME NEW w \in Workers, BeginMerge(w) PROVE DeleteInv' /\ Grows /\ Settled
    BY <1>3, <1>u, QuietStep DEF BeginMerge
<1>4. ASSUME NEW w \in Workers, GetMergeState(w) PROVE DeleteInv' /\ Grows /\ Settled
  <2>1. UNCHANGED ghVars
      BY <1>4 DEF GetMergeState
  <2>2. End(w) \/ Retry(w, run[w]) \/ Goto(w, "merge", run[w])
      BY <1>4 DEF GetMergeState
  <2> QED
      BY <1>u, <2>1, <2>2, EndStep, RetryStep, QuietStep
<1>5. ASSUME NEW w \in Workers, DefaultMerge(w) PROVE DeleteInv' /\ Grows /\ Settled
  <2> DEFINE p == run[w].pr
             r == [run[w] EXCEPT !.landed = TRUE]
  <2>1. run[w] \in Run /\ run[w].method # "ff-only"
      BY <1>5 DEF DefaultMerge, TypeOK
  <2>2. p \in PRs /\ r \in Run /\ r.pr = p /\ r.method # "ff-only"
      BY <2>1 DEF Run
  <2>3. CASE LandMerge(p, run[w].method) /\ (Merged(w, r) \/ Retry(w, r))
    <3>1. Grows /\ Settled /\ prState'[p] = "merged"
        BY <1>0, <2>2, <2>3, LandMergeKeeps
    <3>2. ASSUME NEW a, a = r PROVE WorkOnBase(a)'
        BY <2>2, <3>1, <3>2 DEF WorkOnBase
    <3>3. PICK a : a = r
        OBVIOUS
    <3>4. WorkOnBase(a)' /\ a \in Run /\ (Merged(w, a) \/ Retry(w, a))
        BY <2>2, <2>3, <3>2, <3>3
    <3> QED
        BY <3>1, <3>4, MergedStep, RetryStep
  <2>4. CASE \E replies : Refused(w, replies)
      BY <1>u, <2>4, RefusedStep DEF Refused
  <2> QED
      BY <1>5, <2>3, <2>4 DEF DefaultMerge
<1>6. ASSUME NEW w \in Workers, GetBaseRef(w) PROVE DeleteInv' /\ Grows /\ Settled
  <2>1. CASE Goto(w, "update_ref", run[w]) /\ UNCHANGED ghVars
    <3>1. CallJustified("update_ref", run[w])'
        BY <1>6, <2>1 DEF GetBaseRef, CallJustified, Goto, TypeOK
    <3> QED
        BY <1>u, <2>1, <3>1, GoOnStep
  <2>2. CASE \E replies : Refused(w, replies)
      BY <1>u, <2>2, RefusedStep DEF Refused
  <2> QED
      BY <1>6, <2>1, <2>2 DEF GetBaseRef
<1>7. ASSUME NEW w \in Workers, UpdateRef(w) PROVE DeleteInv' /\ Grows /\ Settled
  <2> DEFINE base == BaseOf[run[w].pr]
             r == [run[w] EXCEPT !.landed = TRUE]
  <2>1. run[w] \in Run
      BY <1>7 DEF UpdateRef, TypeOK
  <2>2. /\ r \in Run
        /\ r.head \in Commit
        /\ base = BaseOf[r.pr]
        /\ base \in Branches
      BY <2>1, TopologyAssumption DEF Run
  <2>3. CASE /\ CanUpdateRef(base, r.head, UpdateRefForce) /\ SetRef(base, r.head)
             /\ Merged(w, r) \/ Retry(w, r)
    <3>1. Grows /\ Settled /\ tip'[base] = r.head
        BY <1>0, <2>2, <2>3, UpdateRefKeeps
    <3>2. r.method = "ff-only"
        BY <1>7, <2>1 DEF UpdateRef, DeleteInv, CallJustified, Run
    <3>3. ASSUME NEW a, a = r PROVE WorkOnBase(a)'
        BY <2>2, <3>1, <3>2, <3>3 DEF WorkOnBase
    <3>4. PICK a : a = r
        OBVIOUS
    <3>5. WorkOnBase(a)' /\ a \in Run /\ (Merged(w, a) \/ Retry(w, a))
        BY <2>2, <2>3, <3>3, <3>4
    <3> QED
        BY <3>1, <3>5, MergedStep, RetryStep
  <2>4. CASE \E replies : Refused(w, replies)
      BY <1>u, <2>4, RefusedStep DEF Refused
  <2> QED
      BY <1>7, <2>3, <2>4 DEF UpdateRef
<1>8. ASSUME NEW w \in Workers, CheckTargeted(w) PROVE DeleteInv' /\ Grows /\ Settled
  <2>1. UNCHANGED ghVars /\ run[w] \in Run /\ CallJustified("targeted", run[w])
      BY <1>8 DEF CheckTargeted, TypeOK, DeleteInv
  <2>2. CASE End(w)
      BY <1>u, <2>1, <2>2, EndStep
  <2>3. CASE OpenOnto(HeadOf[run[w].pr]) = {} /\ Goto(w, "delete", run[w])
    <3>1. run'[w] = run[w]
        BY <2>3 DEF Goto, TypeOK
    <3>2. \A p \in run[w].bystanders : BaseOf[p] = HeadOf[run[w].pr] => Gone(p)
        BY <2>1, <2>3 DEF CallJustified, Gone, OpenOnto, Open, Run
    <3>3. CallJustified("delete", run[w])
        BY <2>1, <3>2 DEF CallJustified
    <3>4. CallJustified("delete", run[w])'
        BY <1>u, <2>1, <3>1, <3>3, ReadyPersists
    <3> QED
        BY <1>u, <2>1, <2>3, <3>4, GoOnStep
  <2> QED
      BY <1>8, <2>2, <2>3 DEF CheckTargeted
<1>9. ASSUME NEW w \in Workers, DeleteHead(w) PROVE DeleteInv' /\ Grows /\ Settled
  <2>1. run[w] \in Run /\ CallJustified("delete", run[w])
      BY <1>9 DEF DeleteHead, TypeOK, DeleteInv
  <2>2. HeadOf[run[w].pr] \in Branches
      BY <2>1, TopologyAssumption DEF Run
  <2>3. Grows /\ Settled
      BY <1>0, <1>9, <1>u, <2>2, RemoveBranchKeeps DEF DeleteHead
  <2>4. CASE End(w)
      BY <2>3, <2>4, EndStep
  <2>5. CASE Goto(w, "panicked", run[w])
    <3>1. run'[w] = run[w]
        BY <2>5 DEF Goto, TypeOK
    <3>2. CallJustified("panicked", run[w])
        BY <2>1 DEF CallJustified
    <3>3. CallJustified("panicked", run[w])'
        BY <2>1, <2>3, <3>1, <3>2, ReadyPersists
    <3> QED
        BY <2>3, <2>5, <3>3, GoOnStep
  <2> QED
      BY <1>9, <2>4, <2>5 DEF DeleteHead
<1>10. ASSUME NEW w \in Workers, Recover(w) PROVE DeleteInv' /\ Grows /\ Settled
    BY <1>10, <1>u, EndStep DEF Recover
<1>11. CASE Environment
  <2>1. Grows /\ Settled /\ pc' = pc /\ run' = run
      BY <1>0, <1>11, GitHubKeeps DEF Environment
  <2>2. ASSUME NEW w \in Workers PROVE CallJustified(pc[w], run[w])'
      BY <2>1, ReadyPersists DEF DeleteInv, CallJustified, TypeOK
  <2> QED
      BY <2>1, <2>2 DEF DeleteInv
<1>12. CASE Restart
    BY <1>12, <1>u DEF Restart, DeleteInv, CallJustified
<1>13. CASE UNCHANGED vars
  <2>1. Grows /\ Settled /\ pc' = pc /\ run' = run
      BY <1>13, <1>u DEF vars
  <2>2. ASSUME NEW w \in Workers PROVE CallJustified(pc[w], run[w])'
      BY <2>1, ReadyPersists DEF DeleteInv, CallJustified, TypeOK
  <2> QED
      BY <2>1, <2>2 DEF DeleteInv
<1> QED
    BY <1>1, <1>2, <1>3, <1>4, <1>5, <1>6, <1>7, <1>8, <1>9, <1>10, <1>11,
       <1>12, <1>13 DEF Next, Step, MergePR

(* Merge without its fairness, as far as the safety properties need it.    *)
MergeSafety == Init /\ [][Next]_vars

LEMMA SpecIsSafe == Spec => MergeSafety
BY PTL DEF Spec, MergeSafety

(* The invariant, with types.                                              *)
LEMMA DeleteInvariant == MergeSafety => [](TypeOK /\ DeleteInv)
<1>1. Init => TypeOK /\ DeleteInv
    BY DEF Init, GitHubInit, TypeOK, GitHubTypeOK, Commit, PC, DeleteInv,
           CallJustified, Deleting
<1>2. TypeOK /\ DeleteInv /\ [Next]_vars => (TypeOK /\ DeleteInv)'
    BY TypeStep, DeleteStep
<1> QED
    BY <1>1, <1>2, PTL DEF MergeSafety

(* A worker is about to delete a branch only for a run that wants it       *)
(* deleted, outside of forks, and whose work is on the base.               *)
THEOREM LandedBeforeDeleteHolds == Spec => []LandedBeforeDelete
<1>1. DeleteInv => LandedBeforeDelete
    BY DEF DeleteInv, CallJustified, Deleting, LandedBeforeDelete
<1> QED
    BY <1>1, SpecIsSafe, DeleteInvariant, PTL

(* The pull requests onto the branch that were open when the merge was     *)
(* acknowledged are no longer open when the branch is deleted.             *)
THEOREM BystandersHold == Spec => []BystandersKeepTheirBase
<1>1. DeleteInv => BystandersKeepTheirBase
    BY DEF DeleteInv, CallJustified, Deleting, Gone, OpenOnto, Open,
           BystandersKeepTheirBase
<1> QED
    BY <1>1, SpecIsSafe, DeleteInvariant, PTL

(* No step, the ff-only update of the base included, takes a commit off a  *)
(* branch.                                                                 *)
THEOREM BranchesOnlyGrowHolds == Spec => BranchesOnlyGrow
<1>1. TypeOK /\ DeleteInv /\ [Next]_vars
        => [\A b \in Branches : tip[b] \subseteq tip'[b]]_vars
    BY DeleteStep DEF Grows
<1> QED
    BY <1>1, SpecIsSafe, DeleteInvariant, PTL DEF MergeSafety, BranchesOnlyGrow
-----------------------------------------------------------------------------
(* Where a worker goes on to.  It keeps its pull request, and, while it    *)
(* tries to merge, the head.                                               *)

Trying == {"attempt", "merge", "update_ref"}

Proceeds(w) ==
    \E label \in PC \ {"evaluate"} : \E r :
        /\ Goto(w, label, r)
        /\ label # "idle" => r.pr = run[w].pr
        /\ label \in Trying => pc[w] \in Trying /\ r.head = run[w].head

LEMMA EndProceeds == ASSUME NEW w, End(w) PROVE Proceeds(w)
BY DEF End, Proceeds, PC, Trying

LEMMA RetryProceeds ==
    ASSUME NEW w, NEW r \in Run, pc[w] \in Trying, r.pr = run[w].pr,
           r.head = run[w].head, Retry(w, r)
    PROVE  Proceeds(w)
<1> DEFINE again == [r EXCEPT !.attempts = @ + 1]
<1>1. again.head = r.head /\ again.pr = r.pr
    BY DEF Run
<1>2. End(w) \/ Goto(w, "attempt", again)
    BY DEF Retry
<1> HIDE DEF again
<1> QED
    BY <1>1, <1>2, EndProceeds DEF Proceeds, PC, Trying

LEMMA MergedProceeds ==
    ASSUME NEW w, NEW r \in Run, r.pr = run[w].pr, Merged(w, r)
    PROVE  Proceeds(w)
<1>1. End(w) \/ \E s : s.pr = r.pr /\ Goto(w, "targeted", s)
    BY DEF Merged, Run
<1> QED
    BY <1>1, EndProceeds DEF Proceeds, PC, Trying

LEMMA RefusedProceeds ==
    ASSUME NEW w, run[w] \in Run, pc[w] \in Trying, NEW replies, Refused(w, replies)
    PROVE  Proceeds(w)
BY EndProceeds, RetryProceeds DEF Refused

LEMMA MergePRProceeds ==
    ASSUME TypeOK, NEW w \in Workers, MergePR(w)
    PROVE  Proceeds(w) /\ pc[w] # "evaluate"
<1> USE DEF Trying
<1>0. pc[w] # "idle" => run[w] \in Run
    BY DEF TypeOK
<1>1. CASE GetMergeState(w)
  <2>1. End(w) \/ Retry(w, run[w]) \/ Goto(w, "merge", run[w])
      BY <1>1 DEF GetMergeState
  <2> QED
      BY <1>0, <1>1, <2>1, EndProceeds, RetryProceeds DEF GetMergeState, Proceeds, PC
<1>2. CASE DefaultMerge(w)
  <2> DEFINE r == [run[w] EXCEPT !.landed = TRUE]
  <2>1. /\ run[w] \in Run
        /\ r \in Run
        /\ r.head = run[w].head
        /\ r.pr = run[w].pr
        /\ pc[w] = "merge"
      BY <1>0, <1>2 DEF DefaultMerge, Run
  <2>2. Merged(w, r) \/ Retry(w, r) \/ \E replies : Refused(w, replies)
      BY <1>2 DEF DefaultMerge
  <2> HIDE DEF r
  <2> QED
      BY <2>1, <2>2, MergedProceeds, RetryProceeds, RefusedProceeds
<1>3. CASE GetBaseRef(w)
  <2>1. run[w] \in Run /\ pc[w] = "merge"
      BY <1>0, <1>3 DEF GetBaseRef
  <2>2. Goto(w, "update_ref", run[w]) \/ \E replies : Refused(w, replies)
      BY <1>3 DEF GetBaseRef
  <2> QED
      BY <2>1, <2>2, RefusedProceeds DEF Proceeds, PC
<1>4. CASE UpdateRef(w)
  <2> DEFINE r == [run[w] EXCEPT !.landed = TRUE]
  <2>1. /\ run[w] \in Run
        /\ r \in Run
        /\ r.head = run[w].head
        /\ r.pr = run[w].pr
        /\ pc[w] = "update_ref"
      BY <1>0, <1>4 DEF UpdateRef, Run
  <2>2. Merged(w, r) \/ Retry(w, r) \/ \E replies : Refused(w, replies)
      BY <1>4 DEF UpdateRef
  <2> HIDE DEF r
  <2> QED
      BY <2>1, <2>2, MergedProceeds, RetryProceeds, RefusedProceeds
<1>5. CASE CheckTargeted(w)
    BY <1>5, EndProceeds DEF CheckTargeted, Proceeds, PC
<1>6. CASE DeleteHead(w)
  <2>1. End(w) \/ Goto(w, "panicked", run[w])
      BY <1>6 DEF DeleteHead
  <2> QED
      BY <1>6, <2>1, EndProceeds DEF DeleteHead, Proceeds, PC
<1>7. CASE Recover(w)
    BY <1>7, EndProceeds DEF Recover
<1> QED
    BY <1>1, <1>2, <1>3, <1>4, <1>5, <1>6, <1>7 DEF MergePR

-----------------------------------------------------------------------------
(* Why a run ends, for a GitHub without faults and refusals.  A run is     *)
(* about a pull request that has been opened, so that one which is not     *)
(* open is closed or merged.                                               *)

OpenedInv == \A w \in Workers : pc[w] # "idle" => prState[run[w].pr] # "none"

LEMMA OpenedStep == TypeOK /\ DeleteInv /\ OpenedInv /\ [Next]_vars => OpenedInv'
<1> SUFFICES ASSUME TypeOK, DeleteInv, OpenedInv, [Next]_vars,
                    NEW v \in Workers, pc'[v] # "idle"
             PROVE  prState'[run'[v].pr] # "none"
    BY DEF OpenedInv
<1>0. Settled
    BY DeleteStep
<1>k. ASSUME pc[v] # "idle", run'[v].pr = run[v].pr
      PROVE  prState'[run'[v].pr] # "none"
    BY <1>0, <1>k DEF OpenedInv, Settled, TypeOK, Run
<1>1. ASSUME NEW w \in Workers, NEW p \in PRs, Fetch(w, p)
      PROVE  prState'[run'[v].pr] # "none"
  <2>1. prState' = prState /\ prState[p] # "none"
      BY <1>1 DEF Fetch, ghVars
  <2>2. CASE v = w
    <3>1. run'[w].pr = p
        BY <1>1 DEF Fetch, Goto, TypeOK
    <3> QED
        BY <2>1, <2>2, <3>1
  <2>3. CASE v # w
      BY <1>1, <1>k, <2>3 DEF Fetch, Goto, TypeOK
  <2> QED
      BY <2>2, <2>3
<1>2. ASSUME NEW w \in Workers, Decline(w) \/ BeginMerge(w)
      PROVE  prState'[run'[v].pr] # "none"
  <2>1. CASE v = w
      BY <1>2, <1>k, <2>1 DEF Decline, BeginMerge, End, Goto, TypeOK
  <2>2. CASE v # w
      BY <1>2, <1>k, <2>2 DEF Decline, BeginMerge, End, Goto, TypeOK
  <2> QED
      BY <2>1, <2>2
<1>3. ASSUME NEW w \in Workers, MergePR(w)
      PROVE  prState'[run'[v].pr] # "none"
  <2>1. Proceeds(w)
      BY <1>3, MergePRProceeds
  <2>2. PICK label, r : /\ Goto(w, label, r)
                        /\ label # "idle" => r.pr = run[w].pr
      BY <2>1 DEF Proceeds
  <2>3. pc[w] # "idle"
      BY <1>3 DEF MergePR, GetMergeState, DefaultMerge, GetBaseRef, UpdateRef,
                  CheckTargeted, DeleteHead, Recover
  <2>4. CASE v = w
      BY <1>k, <2>2, <2>3, <2>4 DEF Goto, TypeOK
  <2>5. CASE v # w
      BY <1>k, <2>2, <2>5 DEF Goto, TypeOK
  <2> QED
      BY <2>4, <2>5
<1>4. CASE Environment
    BY <1>k, <1>4 DEF Environment
<1>5. CASE Restart
    BY <1>5 DEF Restart
<1>6. CASE UNCHANGED vars
    BY <1>k, <1>6 DEF vars
<1> QED
    BY <1>1, <1>2, <1>3, <1>4, <1>5, <1>6 DEF Next, Step

LEMMA OpenedInvariant == MergeSafety => []OpenedInv
<1>1. Init => OpenedInv
    BY DEF Init, OpenedInv
<1>2. TypeOK /\ DeleteInv /\ OpenedInv /\ [Next]_vars => OpenedInv'
    BY OpenedStep
<1> QED
    BY <1>1, <1>2, DeleteInvariant, PTL DEF MergeSafety

(* A request that is not carried out is retried, but for the last attempt  *)
(* and for a refusal, which has a reason of its own.                       *)
LEMMA RetryEnds ==
    ASSUME TypeOK, NEW w \in Workers, NEW r \in Run, Retry(w, r), pc'[w] = "idle"
    PROVE  r.attempts + 1 = MaxPullRequestPollCount
<1>1. r.attempts \in 0 .. MaxPullRequestPollCount - 1 /\ MaxPullRequestPollCount \in Nat
    BY MergeAssumption DEF Run
<1>2. CASE r.attempts + 1 >= MaxPullRequestPollCount
    BY <1>1, <1>2
<1>3. CASE ~ (r.attempts + 1 >= MaxPullRequestPollCount)
    BY <1>3 DEF Retry, Goto, TypeOK
<1> QED
    BY <1>2, <1>3

Reasonable(w) ==
    LET r == run[w]
        p == r.pr
    IN  \/ prState'[p] \in {"closed", "merged"}
        \/ r.method = "ff-only" /\ r.head \subseteq tip'[BaseOf[p]]
        \/ mergeable[p] = "conflict"
        \/ BaseOf[p] \in Restricted /\ ~ UserToken
        \/ r.attempts + 1 = MaxPullRequestPollCount

LEMMA GivesUpReasonably ==
    ASSUME Faults = {}, TypeOK, DeleteInv, OpenedInv, NEW w \in Workers, MergePR(w),
           pc[w] \in Trying, pc'[w] = "idle"
    PROVE  Reasonable(w)
<1> USE DEF Trying
<1>0. run[w] \in Run /\ run[w].pr \in PRs /\ FaultReplies = {}
    BY DEF TypeOK, Run, FaultReplies
<1>1. prState[run[w].pr] \in {"open", "closed", "merged"}
    BY <1>0 DEF OpenedInv, TypeOK, GitHubTypeOK
<1>2. CASE GetMergeState(w)
  <2>1. prState' = prState
      BY <1>2 DEF GetMergeState, ghVars
  <2>2. Closed(run[w].pr) \/ Retry(w, run[w]) \/ mergeable[run[w].pr] = "conflict"
           \/ Goto(w, "merge", run[w])
      BY <1>0, <1>2 DEF GetMergeState
  <2>3. ~ Goto(w, "merge", run[w])
      BY DEF Goto, TypeOK
  <2> QED
      BY <1>0, <2>1, <2>2, <2>3, RetryEnds DEF Reasonable, Closed
<1>3. CASE DefaultMerge(w)
  <2>1. CASE LandMerge(run[w].pr, run[w].method)
      BY <1>0, <2>1, LandMergeKeeps DEF TypeOK, Reasonable
  <2>2. CASE Refused(w, MergeRefusals(run[w].pr))
    <3>1. PICK reply \in MergeRefusals(run[w].pr) :
            IF Retries(reply) THEN Retry(w, run[w]) ELSE End(w)
        BY <2>2 DEF Refused
    <3>2. CASE Retries(reply)
        BY <1>0, <3>1, <3>2, RetryEnds DEF Reasonable
    <3>3. CASE ~ Retries(reply)
      <4>1. ~ CanLand(run[w].pr)
          BY <1>0, <3>3 DEF MergeRefusals, Retries
      <4>2. prState' = prState
          BY <2>2 DEF Refused, ghVars
      <4> QED
          BY <1>1, <4>1, <4>2 DEF CanLand, MayWrite, Client, Open, Reasonable
    <3> QED
        BY <3>2, <3>3
  <2> QED
      BY <1>3, <2>1, <2>2 DEF DefaultMerge
<1>4. CASE GetBaseRef(w)
  <2>1. ~ Goto(w, "update_ref", run[w])
      BY DEF Goto, TypeOK
  <2>2. Retry(w, run[w])
      BY <1>0, <1>4, <2>1 DEF GetBaseRef, Refused, Retries
  <2> QED
      BY <1>0, <2>2, RetryEnds DEF Reasonable
<1>5. CASE UpdateRef(w)
  <2>1. CASE SetRef(BaseOf[run[w].pr], [run[w] EXCEPT !.landed = TRUE].head)
    <3>1. run[w].method = "ff-only"
        BY <1>5 DEF UpdateRef, DeleteInv, CallJustified
    <3>2. tip'[BaseOf[run[w].pr]] = run[w].head
        BY <1>0, <2>1, TopologyAssumption DEF SetRef, TypeOK, GitHubTypeOK, Run
    <3> QED
        BY <3>1, <3>2 DEF Reasonable
  <2>2. CASE \E replies \in SUBSET {"unexpected"} : Refused(w, replies)
    <3>1. Retry(w, run[w])
        BY <2>2 DEF Refused, Retries
    <3> QED
        BY <1>0, <3>1, RetryEnds DEF Reasonable
  <2> QED
      BY <1>0, <1>5, <2>1, <2>2 DEF UpdateRef
<1> QED
    BY <1>2, <1>3, <1>4, <1>5 DEF MergePR, CheckTargeted, DeleteHead, Recover

LEMMA GivesUpStep ==
    ASSUME Faults = {}, TypeOK, DeleteInv, OpenedInv, [Next]_vars, NEW v \in Workers,
           pc[v] \in Trying, pc'[v] = "idle"
    PROVE  Reasonable(v)
<1>1. ASSUME NEW w \in Workers, NEW label, NEW r, Goto(w, label, r) PROVE v = w
    BY <1>1 DEF Goto, TypeOK, Trying
<1>2. ASSUME NEW w \in Workers, NEW p \in PRs, Fetch(w, p) PROVE FALSE
    BY <1>1, <1>2 DEF Fetch, Trying
<1>3. ASSUME NEW w \in Workers, Decline(w) \/ BeginMerge(w) PROVE FALSE
    BY <1>1, <1>3 DEF Decline, BeginMerge, End, Trying
<1>4. ASSUME NEW w \in Workers, MergePR(w) PROVE Reasonable(v)
  <2>1. v = w
      BY <1>1, <1>4, MergePRProceeds DEF Proceeds
  <2> QED
      BY <1>4, <2>1, GivesUpReasonably
<1>5. ASSUME Environment \/ UNCHANGED vars PROVE FALSE
    BY <1>5 DEF Environment, vars, Trying
<1> QED
    BY <1>2, <1>3, <1>4, <1>5 DEF Next, Step, Restart

LEMMA GivesUpSafely == Faults = {} /\ MergeSafety => GivesUpOnlyForAReason
<1> SUFFICES ASSUME Faults = {} PROVE MergeSafety => GivesUpOnlyForAReason
    OBVIOUS
<1>1. TypeOK /\ DeleteInv /\ OpenedInv /\ [Next]_vars
        => [\A w \in Workers :
              /\ pc[w] \in {"attempt", "merge", "update_ref"}
              /\ pc'[w] = "idle"
              => LET r == run[w]
                     p == r.pr
                 IN  \/ prState'[p] \in {"closed", "merged"}
                     \/ r.method = "ff-only" /\ r.head \subseteq tip'[BaseOf[p]]
                     \/ mergeable[p] = "conflict"
                     \/ BaseOf[p] \in Restricted /\ ~ UserToken
                     \/ r.attempts + 1 = MaxPullRequestPollCount]_vars
    BY GivesUpStep DEF Reasonable, Trying
<1> QED
    BY <1>1, DeleteInvariant, OpenedInvariant, PTL DEF MergeSafety, GivesUpOnlyForAReason

(* For a GitHub without faults, a run that has begun to merge ends only    *)
(* when its pull request is merged, its snapshot is on the base, it is     *)
(* closed or conflicts, the base is restricted and there is no user's      *)
(* token, or all attempts are used up, whatever others do meanwhile.       *)
THEOREM GivesUpForAReason == Faults = {} /\ Spec => GivesUpOnlyForAReason
BY GivesUpSafely, SpecIsSafe, PTL

-----------------------------------------------------------------------------
(* How a run ends that is about to delete its branch.                      *)

LEMMA DeletedStep ==
    ASSUME Faults = {}, TypeOK, [Next]_vars, NEW v \in Workers,
           pc[v] \in {"targeted", "delete"}, pc'[v] = "idle"
    PROVE  \/ HeadOf[run[v].pr] \notin exists'
           \/ OpenOnto(HeadOf[run[v].pr]) # {}
<1>1. ASSUME NEW w \in Workers, NEW label, NEW r, Goto(w, label, r) PROVE v = w
    BY <1>1 DEF Goto, TypeOK
<1>2. ASSUME NEW w \in Workers, NEW p \in PRs, Fetch(w, p) PROVE FALSE
    BY <1>1, <1>2 DEF Fetch
<1>3. ASSUME NEW w \in Workers, Decline(w) \/ BeginMerge(w) PROVE FALSE
    BY <1>1, <1>3 DEF Decline, BeginMerge, End
<1>4. ASSUME NEW w \in Workers, MergePR(w)
      PROVE  \/ HeadOf[run[v].pr] \notin exists'
             \/ OpenOnto(HeadOf[run[v].pr]) # {}
  <2>1. v = w
      BY <1>1, <1>4, MergePRProceeds DEF Proceeds
  <2>2. FaultReplies = {}
      BY DEF FaultReplies
  <2>3. CheckTargeted(v) \/ DeleteHead(v)
      BY <1>4, <2>1 DEF MergePR, GetMergeState, DefaultMerge, GetBaseRef, UpdateRef, Recover
  <2>4. CASE CheckTargeted(v)
      BY <2>2, <2>4 DEF CheckTargeted, Goto, TypeOK
  <2>5. CASE DeleteHead(v)
      BY <2>5 DEF DeleteHead, RemoveBranch, ghVars
  <2> QED
      BY <2>3, <2>4, <2>5
<1>5. ASSUME Environment \/ UNCHANGED vars PROVE FALSE
    BY <1>5 DEF Environment, vars
<1> QED
    BY <1>2, <1>3, <1>4, <1>5 DEF Next, Step, Restart

LEMMA DeletesSafely == Faults = {} /\ MergeSafety => MergedThenDeleted
<1> SUFFICES ASSUME Faults = {} PROVE MergeSafety => MergedThenDeleted
    OBVIOUS
<1>1. TypeOK /\ [Next]_vars
        => [\A w \in Workers :
              /\ pc[w] \in {"targeted", "delete"}
              /\ pc'[w] = "idle"
              => \/ HeadOf[run[w].pr] \notin exists'
                 \/ OpenOnto(HeadOf[run[w].pr]) # {}]_vars
    BY DeletedStep
<1> QED
    BY <1>1, DeleteInvariant, PTL DEF MergeSafety, MergedThenDeleted

(* For a GitHub without faults, a run that merged a pull request whose     *)
(* branch is to be deleted ends with that branch gone, whoever deleted it, *)
(* or leaves it to another pull request that is open onto it.              *)
THEOREM DeletedOnceMerged == Faults = {} /\ Spec => MergedThenDeleted
BY DeletesSafely, SpecIsSafe, PTL
=============================================================================
