---------------------------- MODULE ProcessProofs ----------------------------
(***************************************************************************)
(* Theorems about ProcessPullRequest: it takes no step that Merge does not *)
(* allow, and what a merge lands was verified, for any sets of checks.     *)
(***************************************************************************)
EXTENDS ProcessPullRequest, MergeProofs

-----------------------------------------------------------------------------
(* Every step of the handler is a step of Merge or leaves its variables.   *)
LEMMA StepImplements == [ProcessNext]_processVars => [Next]_vars
<1> SUFFICES ASSUME [ProcessNext]_processVars PROVE [Next]_vars
    OBVIOUS
<1>1. ASSUME NEW w \in Workers, ProcessStep(w) PROVE [Next]_vars
    BY <1>1 DEF ProcessStep, CurrentSuccessStatuses, RejectPullRequest,
                AcceptPullRequest, MergePullRequest, Next, Step
<1>2. ASSUME NEW w \in Workers, NEW p \in PRs, FetchPullRequest(w, p) PROVE Next
    BY <1>2 DEF FetchPullRequest, Next
<1>3. ASSUME NEW c, NEW b, Report(c, b) PROVE UNCHANGED vars
    BY <1>3 DEF Report
<1>4. CASE Environment
    BY <1>4 DEF Next
<1>5. CASE ProcessRestart
    BY <1>5 DEF ProcessRestart, Next
<1>6. CASE UNCHANGED processVars
    BY <1>6 DEF processVars
<1> QED
    BY <1>1, <1>2, <1>3, <1>4, <1>5, <1>6 DEF ProcessNext

(* The handler does what Merge allows: what holds of all behaviours of     *)
(* Merge's next-state relation holds of it.                                *)
THEOREM ImplementsMergeSafety == ProcessSpec => Init /\ [][Next]_vars
<1>1. ProcessInit => Init
    BY DEF ProcessInit
<1>2. [ProcessNext]_processVars => [Next]_vars
    BY StepImplements
<1> QED
    BY <1>1, <1>2, PTL DEF ProcessSpec

-----------------------------------------------------------------------------
(* Type correctness.                                                       *)

LEMMA ProcessTypeStep ==
    ProcessTypeOK /\ [ProcessNext]_processVars => ProcessTypeOK'
<1> SUFFICES ASSUME ProcessTypeOK, [ProcessNext]_processVars PROVE ProcessTypeOK'
    OBVIOUS
<1> USE ProcessAssumption DEF Stages, Read
<1>0. TypeOK /\ TypeOK'
    BY StepImplements, TypeStep DEF ProcessTypeOK
<1>t. pc \in [Workers -> PC]
    BY <1>0 DEF TypeOK
<1>1. ASSUME NEW w \in Workers, NEW p \in PRs, FetchPullRequest(w, p) PROVE ProcessTypeOK'
    BY <1>0, <1>t, <1>1 DEF FetchPullRequest, Fetch, Goto, ProcessTypeOK
<1>2. ASSUME NEW w \in Workers, CurrentSuccessStatuses(w) PROVE ProcessTypeOK'
  <2>1. success[w] \in Read
      BY <1>2 DEF CurrentSuccessStatuses, ProcessTypeOK
  <2>2. \A checks \in {StatusContexts, CheckNames} :
           SuccessStatuses(w, checks) \subseteq Checks
      BY DEF SuccessStatuses, Checks
  <2>3. \E read \in Read :
           success' = [success EXCEPT ![w] = read]
      BY <1>2, <2>1, <2>2 DEF CurrentSuccessStatuses
  <2>4. success[w] # NoStatuses
      BY <1>2 DEF CurrentSuccessStatuses, ProcessTypeOK
  <2>5. success'[w] # NoStatuses
      BY <1>2, <2>1, <2>2, <2>4 DEF CurrentSuccessStatuses, ProcessTypeOK
  <2> QED
      BY <1>0, <1>2, <2>3, <2>5 DEF CurrentSuccessStatuses, ProcessTypeOK, vars
<1>3. ASSUME NEW w \in Workers, RejectPullRequest(w) \/ AcceptPullRequest(w)
      PROVE  ProcessTypeOK'
    BY <1>0, <1>t, <1>3 DEF RejectPullRequest, AcceptPullRequest, Decline, BeginMerge,
                            End, Goto, Forgets, ProcessTypeOK
<1>4. ASSUME NEW w \in Workers, MergePullRequest(w) PROVE ProcessTypeOK'
    BY <1>0, <1>t, <1>4, MergePRProceeds
       DEF MergePullRequest, Proceeds, Goto, ProcessTypeOK
<1>5. ASSUME NEW c \in Checks, NEW p \in PRs, Report(c, HeadOf[p]) PROVE ProcessTypeOK'
  <2>1. tip[HeadOf[p]] \in Commit
      BY <1>0, TopologyAssumption DEF TypeOK, GitHubTypeOK
  <2>2. pc' = pc /\ success' = success
      BY <1>5 DEF Report, vars
  <2>3. passing' \in [Checks -> SUBSET Commit] /\ passed' \in [Checks -> SUBSET Commit]
      BY <1>5, <2>1 DEF Report, ProcessTypeOK
  <2> QED
      BY <1>0, <2>2, <2>3 DEF ProcessTypeOK
<1>6. CASE Environment /\ UNCHANGED <<passing, passed, success>>
    BY <1>0, <1>6 DEF Environment, ProcessTypeOK
<1>7. CASE ProcessRestart
    BY <1>0, <1>7 DEF ProcessRestart, Restart, ProcessTypeOK
<1>8. CASE UNCHANGED processVars
    BY <1>0, <1>8 DEF processVars, vars, ProcessTypeOK
<1> QED
    BY <1>1, <1>2, <1>3, <1>4, <1>5, <1>6, <1>7, <1>8 DEF ProcessNext, ProcessStep

(* The state is well typed; a worker that decides has statuses to read.    *)
THEOREM ProcessTypeCorrectness == ProcessSpec => []ProcessTypeOK
<1>1. ProcessInit => ProcessTypeOK
  <2>1. Init => TypeOK
      BY DEF Init, GitHubInit, TypeOK, GitHubTypeOK, Commit, PC
  <2> QED
      BY <2>1 DEF ProcessInit, ProcessTypeOK, Init
<1>2. ProcessTypeOK /\ [ProcessNext]_processVars => ProcessTypeOK'
    BY ProcessTypeStep
<1> QED
    BY <1>1, <1>2, PTL DEF ProcessSpec

-----------------------------------------------------------------------------
(* What was verified.  A worker that decides has read successes of its     *)
(* snapshot, a worker that tries to merge has a verified snapshot.         *)

PassingInv == \A c \in Checks : passing[c] \subseteq passed[c]

ReadInv ==
    \A w \in Workers :
        pc[w] = "evaluate" => \A c \in success[w].names : run[w].head \in passed[c]

TryingInv == \A w \in Workers : pc[w] \in Trying => Verified(run[w].head)

VerifiedInv == PassingInv /\ ReadInv /\ TryingInv

LEMMA VerifiedStep ==
    ProcessTypeOK /\ VerifiedInv /\ [ProcessNext]_processVars => VerifiedInv'
<1> SUFFICES ASSUME ProcessTypeOK, VerifiedInv, [ProcessNext]_processVars
             PROVE  VerifiedInv'
    OBVIOUS
<1> USE DEF VerifiedInv
<1>t. /\ pc \in [Workers -> PC]
      /\ run \in [Workers -> Run \cup {NoRun}]
      /\ passed \in [Checks -> SUBSET Commit]
      /\ passing \in [Checks -> SUBSET Commit]
      /\ DOMAIN success = Workers
      /\ RequiredStatuses \subseteq Checks
    BY ProcessAssumption DEF ProcessTypeOK, TypeOK
<1>1. ASSUME NEW w \in Workers, NEW p \in PRs, FetchPullRequest(w, p) PROVE VerifiedInv'
  <2>1. passing' = passing /\ passed' = passed /\ pc' = [pc EXCEPT ![w] = "evaluate"]
      BY <1>1 DEF FetchPullRequest, Fetch, Goto
  <2>2. success'[w].names = {} /\ \A v \in Workers \ {w} : success'[v] = success[v]
      BY <1>t, <1>1 DEF FetchPullRequest
  <2>3. \A v \in Workers \ {w} : run'[v] = run[v] /\ pc'[v] = pc[v]
      BY <1>t, <1>1 DEF FetchPullRequest, Fetch, Goto
  <2>4. pc'[w] = "evaluate"
      BY <1>t, <2>1
  <2> QED
      BY <2>1, <2>2, <2>3, <2>4 DEF PassingInv, ReadInv, TryingInv, Trying, Verified
<1>2. ASSUME NEW w \in Workers, CurrentSuccessStatuses(w) PROVE VerifiedInv'
  <2>1. passing' = passing /\ passed' = passed /\ pc' = pc /\ run' = run
      BY <1>2 DEF CurrentSuccessStatuses, vars
  <2>2. \A v \in Workers \ {w} : success'[v] = success[v]
      BY <1>t, <1>2 DEF CurrentSuccessStatuses
  <2>3. ASSUME NEW c \in success'[w].names PROVE run[w].head \in passed[c]
    <3>1. \/ c \in success[w].names
          \/ \E checks \in {StatusContexts, CheckNames} : c \in SuccessStatuses(w, checks)
        BY <1>t, <1>2, <2>3 DEF CurrentSuccessStatuses
    <3>2. CASE c \in success[w].names
        BY <1>2, <3>2 DEF CurrentSuccessStatuses, ReadInv
    <3>3. CASE \E checks \in {StatusContexts, CheckNames} : c \in SuccessStatuses(w, checks)
        BY <3>3 DEF SuccessStatuses, PassingInv, Checks
    <3> QED
        BY <3>1, <3>2, <3>3
  <2> QED
      BY <2>1, <2>2, <2>3 DEF PassingInv, ReadInv, TryingInv, Verified
<1>3. ASSUME NEW w \in Workers, RejectPullRequest(w) PROVE VerifiedInv'
    BY <1>t, <1>3 DEF RejectPullRequest, Decline, End, Goto, Forgets,
                      PassingInv, ReadInv, TryingInv, Trying, Verified
<1>4. ASSUME NEW w \in Workers, AcceptPullRequest(w) PROVE VerifiedInv'
  <2>1. Verified(run[w].head)
      BY <1>4 DEF AcceptPullRequest, BeginMerge, Satisfied, ReadInv, Verified
  <2> QED
      BY <1>t, <1>4, <2>1 DEF AcceptPullRequest, BeginMerge, Goto, Forgets,
                              PassingInv, ReadInv, TryingInv, Trying, Verified
<1>5. ASSUME NEW w \in Workers, MergePullRequest(w) PROVE VerifiedInv'
  <2>1. Proceeds(w) /\ passing' = passing /\ passed' = passed /\ success' = success
      BY <1>5, MergePRProceeds DEF MergePullRequest, ProcessTypeOK
  <2> QED
      BY <1>t, <2>1 DEF Proceeds, Goto, PassingInv, ReadInv, TryingInv, Verified
<1>6. ASSUME NEW c \in Checks, NEW p \in PRs, Report(c, HeadOf[p]) PROVE VerifiedInv'
  <2>1. pc' = pc /\ run' = run /\ success' = success
      BY <1>6 DEF Report, vars
  <2>2. \A d \in Checks : passed[d] \subseteq passed'[d]
      BY <1>t, <1>6 DEF Report
  <2>3. PassingInv'
      BY <1>t, <1>6 DEF Report, PassingInv
  <2>4. \A v \in Workers : pc[v] = "evaluate" => success[v].names \subseteq Checks
      BY DEF ProcessTypeOK, Read
  <2> QED
      BY <1>t, <2>1, <2>2, <2>3, <2>4 DEF ReadInv, TryingInv, Verified
<1>7. CASE Environment /\ UNCHANGED <<passing, passed, success>>
    BY <1>7 DEF Environment, PassingInv, ReadInv, TryingInv, Verified
<1>8. CASE ProcessRestart
    BY <1>8 DEF ProcessRestart, Restart, PassingInv, ReadInv, TryingInv, Trying, Verified
<1>9. CASE UNCHANGED processVars
    BY <1>9 DEF processVars, vars, PassingInv, ReadInv, TryingInv, Verified
<1> QED
    BY <1>1, <1>2, <1>3, <1>4, <1>5, <1>6, <1>7, <1>8, <1>9 DEF ProcessNext, ProcessStep

LEMMA VerifiedInvariant == ProcessSpec => [](ProcessTypeOK /\ VerifiedInv)
<1>1. ProcessInit => VerifiedInv
    BY DEF ProcessInit, Init, VerifiedInv, PassingInv, ReadInv, TryingInv, Trying
<1>2. VerifiedInv /\ ProcessTypeOK /\ [ProcessNext]_processVars => VerifiedInv'
    BY VerifiedStep
<1> QED
    BY <1>1, <1>2, ProcessTypeCorrectness, PTL DEF ProcessSpec

-----------------------------------------------------------------------------
(* What a merge lands.                                                     *)

(* Only worker w itself moves a branch in a step that moves w.             *)
LEMMA LandingStep ==
    ASSUME ProcessTypeOK, [ProcessNext]_processVars, NEW w \in Workers, Lands(w)
    PROVE  MergePR(w)
<1> USE DEF Lands
<1>1. ASSUME NEW v \in Workers, ProcessStep(v) PROVE MergePR(v)
    BY <1>1 DEF ProcessStep, CurrentSuccessStatuses, RejectPullRequest, Decline,
                AcceptPullRequest, BeginMerge, MergePullRequest, vars, ghVars
<1>2. ASSUME NEW v \in Workers, ProcessStep(v) PROVE v = w
  <2>1. Proceeds(v)
      BY <1>1, <1>2, MergePRProceeds DEF ProcessTypeOK
  <2> QED
      BY <2>1 DEF Proceeds, Goto, ProcessTypeOK, TypeOK
<1>3. ASSUME NEW v \in Workers, NEW p \in PRs, FetchPullRequest(v, p) PROVE FALSE
    BY <1>3 DEF FetchPullRequest, Fetch, ghVars
<1>4. ASSUME NEW c \in Checks, NEW p \in PRs, Report(c, HeadOf[p]) PROVE FALSE
    BY <1>4 DEF Report, vars
<1>5. ~ Environment /\ ~ ProcessRestart /\ ~ UNCHANGED processVars
    BY DEF Environment, ProcessRestart, Restart, ghVars, processVars, vars
<1> QED
    BY <1>1, <1>2, <1>3, <1>4, <1>5 DEF ProcessNext

LEMMA FastForwardStep ==
    ASSUME ProcessTypeOK, VerifiedInv, [ProcessNext]_processVars,
           NEW w \in Workers, pc[w] = "update_ref", Lands(w)
    PROVE  Verified(tip'[BaseOf[run[w].pr]])
<1> DEFINE base == BaseOf[run[w].pr]
           r == [run[w] EXCEPT !.landed = TRUE]
<1>1. UpdateRef(w)
    BY LandingStep DEF MergePR, GetMergeState, DefaultMerge, GetBaseRef,
                       CheckTargeted, DeleteHead, Recover
<1>2. run[w] \in Run /\ tip \in [Branches -> Commit]
    BY DEF ProcessTypeOK, TypeOK, GitHubTypeOK
<1>3. base \in Branches /\ r.head = run[w].head
    BY <1>2, TopologyAssumption DEF Run
<1>4. SetRef(base, r.head)
    BY <1>1 DEF UpdateRef, Refused, Lands, ghVars
<1>5. tip'[base] = run[w].head
    BY <1>2, <1>3, <1>4 DEF SetRef
<1> QED
    BY <1>5 DEF VerifiedInv, TryingInv, Trying

(* An ff-only merge moves the base only to commits that every required     *)
(* check has been successful for.                                          *)
THEOREM FastForwardsVerified == ProcessSpec => FastForwardsOnlyVerifiedCommits
<1>1. ProcessTypeOK /\ VerifiedInv /\ [ProcessNext]_processVars
        => [\A w \in Workers :
              pc[w] = "update_ref" /\ Lands(w)
                => Verified(tip'[BaseOf[run[w].pr]])]_processVars
    BY FastForwardStep
<1> QED
    BY <1>1, VerifiedInvariant, PTL DEF ProcessSpec, FastForwardsOnlyVerifiedCommits

(* Any other merge lands such a head, or one that was pushed after the     *)
(* pull request had been fetched.                                          *)
THEOREM MergesVerified == ProcessSpec => MergesVerifiedHeadsUnlessPushed
<1>1. VerifiedInv
        => [\A w \in Workers :
              pc[w] = "merge" /\ Lands(w) =>
                  LET head == tip[HeadOf[run[w].pr]]
                  IN  Verified(head) \/ head # run[w].head]_processVars
    BY DEF VerifiedInv, TryingInv, Trying
<1> QED
    BY <1>1, VerifiedInvariant, PTL DEF ProcessSpec, MergesVerifiedHeadsUnlessPushed

(* With the decision on statuses in place, too: a branch is only deleted   *)
(* when its work is on the base, ...                                       *)
THEOREM ProcessLandsBeforeDelete == ProcessSpec => []LandedBeforeDelete
<1>1. DeleteInv => LandedBeforeDelete
    BY DEF DeleteInv, CallJustified, Deleting, LandedBeforeDelete
<1> QED
    BY <1>1, ImplementsMergeSafety, DeleteInvariant, PTL DEF MergeSafety

(* ... for a GitHub without faults a merge is given up for a reason only   *)
(* (attemptMerge), ...                                                     *)
THEOREM ProcessGivesUpForAReason == Faults = {} /\ ProcessSpec => GivesUpOnlyForAReason
BY ImplementsMergeSafety, GivesUpSafely, PTL DEF MergeSafety

(* ... and for such a GitHub a merged branch that is to be deleted is      *)
(* deleted (attemptDelete).                                                *)
THEOREM ProcessDeletesOnceMerged == Faults = {} /\ ProcessSpec => MergedThenDeleted
BY ImplementsMergeSafety, DeletesSafely, PTL DEF MergeSafety
=============================================================================
