-------------------------- MODULE ProcessPullRequest --------------------------
(***************************************************************************)
(* server/handler/base.go, ProcessPullRequest: the decision to merge that  *)
(* module Merge leaves open, with the status checks it rests on.           *)
(*                                                                         *)
(* The handler fetches the pull request and keeps it.  ShouldMergePR asks  *)
(* for the statuses, then for the check runs, of the head it had at that   *)
(* time, in two API calls; MergePR then merges it by its number, or moves  *)
(* the base to that head.  Meanwhile checks report on commits, successes   *)
(* become failures when they run again, and developers push.               *)
(*                                                                         *)
(* What else decides (configuration, signals, merge method) is in module   *)
(* Evaluate: here it may decline at any time.                              *)
(***************************************************************************)
EXTENDS Merge

CONSTANTS
    StatusContexts,         \* the contexts of commit statuses
    CheckNames,             \* the names of check runs
    RequiredStatuses,       \* required by configuration or branch protection
    AllowMergeWithNoChecks, \* may a pull request merge when none is required?
    NoStatuses              \* no status was read yet

Checks == StatusContexts \cup CheckNames

(* combinedStatus is read before checkRuns; then everything has been read. *)
Stages == {"combinedStatus", "checkRuns", "read"}

(* The successful statuses read until then.                                *)
Read == [stage : Stages, names : SUBSET Checks]

ASSUME ProcessAssumption ==
    /\ RequiredStatuses \subseteq Checks
    /\ NoStatuses \notin Read
    /\ AllowMergeWithNoChecks \in BOOLEAN

VARIABLES
    passing,    \* passing[c]: the commits check c is successful for now
    passed,     \* history: the commits check c has been successful for
    success     \* success[w]: the successful statuses that worker w has read

processVars == <<vars, passing, passed, success>>

ProcessTypeOK ==
    /\ TypeOK
    /\ passing \in [Checks -> SUBSET Commit]
    /\ passed \in [Checks -> SUBSET Commit]
    /\ success \in [Workers -> Read \cup {NoStatuses}]
    /\ \A w \in Workers : pc[w] = "evaluate" => success[w] # NoStatuses

ProcessInit ==
    /\ Init
    /\ passing = [c \in Checks |-> {}]
    /\ passed = [c \in Checks |-> {}]
    /\ success = [w \in Workers |-> NoStatuses]

-----------------------------------------------------------------------------
Forgets(w) == success' = [success EXCEPT ![w] = NoStatuses]

(* A mutation of FetchPullRequest: a worker keeps the statuses it has.     *)
FetchWithoutStatuses(w, p) ==
    /\ Fetch(w, p)
    /\ UNCHANGED <<passing, passed, success>>

(* The handler makes a new context for the pull request, with empty caches. *)
FetchPullRequest(w, p) ==
    /\ Fetch(w, p)
    /\ success' = [success EXCEPT ![w] = [stage |-> "combinedStatus", names |-> {}]]
    /\ UNCHANGED <<passing, passed>>

(* A mutation of SuccessStatuses: the branch is asked about, and not the   *)
(* commit it pointed to.                                                   *)
SuccessStatusesOfBranch(w, checks) ==
    {c \in checks : tip[HeadOf[run[w].pr]] \in passing[c]}

(* The checks among those of one API call that succeeded for HeadSHA().    *)
SuccessStatuses(w, checks) == {c \in checks : run[w].head \in passing[c]}

CurrentSuccessStatuses(w) ==
    /\ pc[w] = "evaluate"
    /\ \/ /\ success[w].stage = "combinedStatus"
          /\ success' = [success EXCEPT ![w] =
                           [stage |-> "checkRuns",
                            names |-> SuccessStatuses(w, StatusContexts)]]
       \/ /\ success[w].stage = "checkRuns"
          /\ success' = [success EXCEPT ![w] =
                           [stage |-> "read",
                            names |-> @.names \cup SuccessStatuses(w, CheckNames)]]
    /\ UNCHANGED <<vars, passing, passed>>

(* A mutation of Satisfied: one successful check is enough.                *)
SatisfiedByOne(names) == RequiredStatuses \cap names # {}

Satisfied(names) ==
    /\ RequiredStatuses # {} \/ AllowMergeWithNoChecks
    /\ RequiredStatuses \subseteq names

(* The decision is no, or cannot be made: an unsatisfied check, anything   *)
(* that is not modelled here, or an error.                                 *)
RejectPullRequest(w) ==
    /\ Decline(w)
    /\ Forgets(w)
    /\ UNCHANGED <<passing, passed>>

(* A mutation of AcceptPullRequest: the first attempt does not read the    *)
(* merge state.                                                            *)
AcceptWithoutMergeState(w) ==
    /\ pc[w] = "evaluate"
    /\ success[w].stage = "read"
    /\ Satisfied(success[w].names)
    /\ Goto(w, "merge", run[w])
    /\ Forgets(w)
    /\ UNCHANGED <<ghVars, passing, passed>>

AcceptPullRequest(w) ==
    /\ BeginMerge(w)
    /\ success[w].stage = "read"
    /\ Satisfied(success[w].names)
    /\ Forgets(w)
    /\ UNCHANGED <<passing, passed>>

MergePullRequest(w) == MergePR(w) /\ UNCHANGED <<passing, passed, success>>

(* A check reports on the head of a branch, perhaps not for the first      *)
(* time.  Checks are run on heads that somebody pushed something to.       *)
Report(c, b) ==
    /\ tip[b] # {}
    /\ \/ /\ passing' = [passing EXCEPT ![c] = @ \cup {tip[b]}]
          /\ passed' = [passed EXCEPT ![c] = @ \cup {tip[b]}]
       \/ /\ passing' = [passing EXCEPT ![c] = @ \ {tip[b]}]
          /\ UNCHANGED passed
    /\ UNCHANGED <<vars, success>>

ProcessRestart ==
    /\ Restart
    /\ success' = [w \in Workers |-> NoStatuses]
    /\ UNCHANGED <<passing, passed>>

ProcessStep(w) ==
    \/ CurrentSuccessStatuses(w)
    \/ RejectPullRequest(w)
    \/ AcceptPullRequest(w)
    \/ MergePullRequest(w)

ProcessNext ==
    \/ \E w \in Workers : ProcessStep(w) \/ \E p \in PRs : FetchPullRequest(w, p)
    \/ \E c \in Checks, p \in PRs : Report(c, HeadOf[p])
    \/ Environment /\ UNCHANGED <<passing, passed, success>>
    \/ ProcessRestart

ProcessSpec ==
    /\ ProcessInit
    /\ [][ProcessNext]_processVars
    /\ \A w \in Workers : WF_processVars(ProcessStep(w))

-----------------------------------------------------------------------------
(* Properties.                                                             *)

(* Every required check has been successful for the commit.                *)
Verified(commit) == \A c \in RequiredStatuses : commit \in passed[c]

(* In this step worker w moves the base of its pull request.               *)
Lands(w) == pc'[w] # pc[w] /\ tip' # tip

(* An ff-only merge moves the base to a commit that every required check   *)
(* has been successful for, whatever was pushed or failed since.           *)
FastForwardsOnlyVerifiedCommits ==
    [][\A w \in Workers :
          pc[w] = "update_ref" /\ Lands(w) => Verified(tip'[BaseOf[run[w].pr]])]_processVars

(* A merge lands a head that every required check has been successful for, *)
(* if nobody pushed to it since the pull request was fetched.              *)
MergesVerifiedHeadsUnlessPushed ==
    [][\A w \in Workers :
          pc[w] = "merge" /\ Lands(w) =>
              LET head == tip[HeadOf[run[w].pr]]
              IN  Verified(head) \/ head # run[w].head]_processVars

(* The handler's steps are steps of module Merge, with its fairness.       *)
ImplementsMerge == Spec

(* README.md:183: "required_statuses" are "status contexts that must pass  *)
(* before bulldozer can merge": the head that a merge lands has been       *)
(* successful in all of them.  For checks that only the configuration      *)
(* requires, as GitHub itself refuses a merge without those that branch    *)
(* protection requires.                                                    *)
MergesOnlyVerifiedHeads ==
    [][\A w \in Workers :
          pc[w] = "merge" /\ Lands(w) => Verified(tip[HeadOf[run[w].pr]])]_processVars
=============================================================================
