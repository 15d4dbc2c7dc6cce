------------------------------- MODULE Landing -------------------------------
(***************************************************************************)
(* What Bulldozer promises to do to the repository, without its API calls: *)
(* it updates heads with their base, and a worker that is to merge a pull  *)
(* request lands its work on the base in one step or leaves the repository *)
(* alone, and deletes the branch at most once and only after the work      *)
(* landed.  Module Merge implements it; module Bulldozer is built on it.   *)
(* That a worker gets free again is a property of those modules.           *)
(***************************************************************************)
EXTENDS GitHub

CONSTANTS
    Workers,        \* the scheduler's worker goroutines
    MergeMethods,   \* the merge methods configurations may choose
    NoJob           \* the job of a worker that merges nothing

VARIABLES
    phase,  \* phase[w]: what worker w has still to do
    job     \* job[w]: the pull request it merges

landingVars == <<ghVars, phase, job>>

Job == [pr : PRs, head : Commit, method : MergeMethods, deletes : BOOLEAN]

Phases == {"idle", "merging", "landed"}

LandingTypeOK ==
    /\ GitHubTypeOK
    /\ phase \in [Workers -> Phases]
    /\ job \in [Workers -> Job \cup {NoJob}]
    /\ \A w \in Workers : phase[w] # "idle" => job[w] \in Job

LandingInit ==
    /\ GitHubInit
    /\ phase = [w \in Workers |-> "idle"]
    /\ job = [w \in Workers |-> NoJob]

-----------------------------------------------------------------------------
Become(w, stage, j) ==
    /\ phase' = [phase EXCEPT ![w] = stage]
    /\ job' = [job EXCEPT ![w] = j]

Finish(w) == Become(w, "idle", NoJob)

(* The worker gets pull request p with a head that it had at some time.    *)
TakeUp(w, p, head, method, deletes) ==
    /\ phase[w] = "idle"
    /\ prState[p] # "none"
    /\ head \subseteq tip[HeadOf[p]]
    /\ Become(w, "merging",
              [pr |-> p, head |-> head, method |-> method, deletes |-> deletes])
    /\ UNCHANGED ghVars

(* The work of j is put on the base: whatever the head is by now, or, for  *)
(* a fast forward, the head that was handed over.                          *)
PutOnBase(j) ==
    \/ /\ j.method # "ff-only"
       /\ Open(j.pr)
       /\ LandMerge(j.pr, j.method)
    \/ /\ j.method = "ff-only"
       /\ tip[BaseOf[j.pr]] \subseteq j.head
       /\ SetRef(BaseOf[j.pr], j.head)

(* A mutation of Land: a merge that was refused counts as one.             *)
LandRefused(w) ==
    /\ phase[w] = "merging"
    /\ PutOnBase(job[w]) \/ UNCHANGED ghVars
    /\ \/ job[w].deletes /\ Become(w, "landed", job[w])
       \/ Finish(w)
       \/ UNCHANGED <<phase, job>>

(* The worker may not learn that the merge took place: then it goes on     *)
(* trying, or gives up.                                                    *)
Land(w) ==
    /\ phase[w] = "merging"
    /\ PutOnBase(job[w])
    /\ \/ job[w].deletes /\ Become(w, "landed", job[w])
       \/ Finish(w)
       \/ UNCHANGED <<phase, job>>

Abandon(w) ==
    /\ phase[w] = "merging"
    /\ Finish(w)
    /\ UNCHANGED ghVars

DeleteBranch(w) ==
    /\ phase[w] = "landed"
    /\ RemoveBranch(HeadOf[job[w].pr])
    /\ Finish(w)

KeepBranch(w) ==
    /\ phase[w] = "landed"
    /\ Finish(w)
    /\ UNCHANGED ghVars

(* An update, which is nothing to a merge that is under way: the base of a *)
(* pull request is merged into its head, whatever became of it meanwhile.  *)
UpdateHead(p) ==
    /\ prState[p] # "none"
    /\ MergeInto(HeadOf[p], BaseOf[p])
    /\ UNCHANGED <<phase, job>>

StopAll ==
    /\ phase' = [w \in Workers |-> "idle"]
    /\ job' = [w \in Workers |-> NoJob]
    /\ UNCHANGED ghVars

-----------------------------------------------------------------------------
LandingStep(w) == Land(w) \/ Abandon(w) \/ DeleteBranch(w) \/ KeepBranch(w)

LandingNext ==
    \/ \E w \in Workers :
         \/ LandingStep(w)
         \/ \E p \in PRs, method \in MergeMethods, deletes \in BOOLEAN :
              \E head \in SUBSET tip[HeadOf[p]] : TakeUp(w, p, head, method, deletes)
    \/ \E p \in PRs : UpdateHead(p)
    \/ StopAll
    \/ GitHubNext /\ UNCHANGED <<phase, job>>

LandingSpec == LandingInit /\ [][LandingNext]_landingVars

-----------------------------------------------------------------------------
(* Properties.                                                             *)

(* What job j was to put on the base is there, as a commit of its own or   *)
(* with the commits of the head that was handed over.                      *)
OnBase(j) ==
    /\ j.method # "ff-only" => prState[j.pr] = "merged" /\ j.pr \in tip[BaseOf[j.pr]]
    /\ j.method \in {"merge", "ff-only"} => j.head \subseteq tip[BaseOf[j.pr]]

(* A worker that may delete a branch is to delete it, and the work of its  *)
(* job is on the base: it got there, and no merge, update, fast forward,   *)
(* deletion or restart of another worker or a developer took it away.      *)
LandedWorkStays ==
    \A w \in Workers : phase[w] = "landed" => job[w].deletes /\ OnBase(job[w])
=============================================================================
