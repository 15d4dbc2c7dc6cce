------------------------------- MODULE GitHub -------------------------------
(***************************************************************************)
(* The repository on GitHub, as Bulldozer sees and changes it through the  *)
(* REST API.  The module has two parts: the steps of everybody who is not  *)
(* Bulldozer (developers, GitHub's own background jobs), and the effects   *)
(* of the API calls, which the modules of the bot's code use in their own  *)
(* actions.  It is external to src/: the states and effects are those the  *)
(* client code in pull/ and bulldozer/ relies on.                          *)
(*                                                                         *)
(* A commit is the set of changes reachable from it, so "a is an ancestor  *)
(* of b" is a \subseteq b.  A change is a push; a merge that makes a       *)
(* commit of its own for pull request p adds the element p, and the merge  *)
(* of one branch into another adds one of MergeCommits.                    *)
(*                                                                         *)
(* Left out: force pushes by developers, reopening and retargeting pull    *)
(* requests, and everything of a commit that is not its ancestry.          *)
(***************************************************************************)
EXTENDS Naturals, FiniteSets

CONSTANTS
    PRs,            \* the pull requests that may be opened
    Branches,       \* the branches, those of forks included
    Changes,        \* the pushes developers may make; bounds their number
    MergeCommits,   \* the commits of updates of heads; bounds their number
    Forks,          \* the branches that live in a fork of the repository
    HeadOf,         \* the branch a pull request is opened from
    BaseOf          \* the branch a pull request is opened against

(* A pull request joins two branches, and its base is in the repository    *)
(* itself; two pull requests may share a head or a base.                   *)
ASSUME TopologyAssumption ==
    /\ HeadOf \in [PRs -> Branches]
    /\ BaseOf \in [PRs -> Branches \ Forks]
    /\ \A p \in PRs : HeadOf[p] # BaseOf[p]

(* What makes a commit differ from its parents says which of them it is.   *)
ASSUME CommitAssumption ==
    Changes \cap PRs = {} /\ MergeCommits \cap (Changes \cup PRs) = {}

VARIABLES
    prState,    \* prState[p]: not opened yet, open, closed unmerged, merged
    exists,     \* the branches that have a ref now
    tip,        \* tip[b]: the commit b points, or last pointed, to
    mergeable   \* mergeable[p]: GitHub's answer, computed in the background

ghVars == <<prState, exists, tip, mergeable>>

Commit == SUBSET (Changes \cup PRs \cup MergeCommits)

GitHubTypeOK ==
    /\ prState \in [PRs -> {"none", "open", "closed", "merged"}]
    /\ exists \in SUBSET Branches
    /\ tip \in [Branches -> Commit]
    /\ mergeable \in [PRs -> {"unknown", "clean", "conflict"}]

GitHubInit ==
    /\ prState = [p \in PRs |-> "none"]
    /\ exists = Branches
    /\ tip = [b \in Branches |-> {}]
    /\ mergeable = [p \in PRs |-> "unknown"]

Open(p) == prState[p] = "open"

(* A merged pull request is "closed" in the API too.                       *)
Closed(p) == prState[p] \in {"closed", "merged"}

(* Everything on the head branch of p is on its base.                      *)
Contained(p) == tip[HeadOf[p]] \subseteq tip[BaseOf[p]]

(* The open pull requests that branch b is the base of.                    *)
OpenOnto(b) == {p \in PRs : Open(p) /\ BaseOf[p] = b}

-----------------------------------------------------------------------------
(* Effects of the API calls.                                               *)

(* mergeable is null again for the pull requests branch b belongs to.      *)
Forget(b) ==
    mergeable' = [p \in PRs |->
                    IF b \in {HeadOf[p], BaseOf[p]} THEN "unknown"
                                                    ELSE mergeable[p]]

(* PUT /pulls/{p}/merge: a merge commit keeps the commits of the head,     *)
(* squash and rebase write new ones.  It merges whatever the head is now.  *)
LandMerge(p, method) ==
    /\ prState' = [prState EXCEPT ![p] = "merged"]
    /\ tip' = [tip EXCEPT ![BaseOf[p]] =
                 @ \cup {p} \cup (IF method = "merge" THEN tip[HeadOf[p]] ELSE {})]
    /\ Forget(BaseOf[p])
    /\ UNCHANGED exists

(* PATCH /git/refs/heads/{b}: the branch is moved to the given commit.     *)
SetRef(b, commit) ==
    /\ tip' = [tip EXCEPT ![b] = commit]
    /\ Forget(b)
    /\ UNCHANGED <<prState, exists>>

Unused == MergeCommits \ UNION {tip[b] : b \in Branches}

(* Which of them is next says nothing about the repository.                *)
NextMergeCommit == CHOOSE m \in Unused : TRUE

(* POST /merges: the commits of branch other are merged into branch b,     *)
(* with a merge commit, also where a fast forward would do.                *)
MergeInto(b, other) ==
    /\ Unused # {}
    /\ tip' = [tip EXCEPT ![b] = @ \cup tip[other] \cup {NextMergeCommit}]
    /\ Forget(b)
    /\ UNCHANGED <<prState, exists>>

(* DELETE /git/refs/heads/{b}: GitHub closes the pull requests from or     *)
(* onto b, as merged when the base has all of the head already.            *)
RemoveBranch(b) ==
    /\ exists' = exists \ {b}
    /\ prState' = [p \in PRs |->
                     IF ~ (Open(p) /\ b \in {HeadOf[p], BaseOf[p]}) THEN prState[p]
                     ELSE IF Contained(p) THEN "merged" ELSE "closed"]
    /\ UNCHANGED <<tip, mergeable>>

-----------------------------------------------------------------------------
(* Steps of developers.                                                    *)

OpenPR(p) ==
    /\ prState[p] = "none"
    /\ {HeadOf[p], BaseOf[p]} \subseteq exists
    /\ ~ Contained(p)
    /\ prState' = [prState EXCEPT ![p] = "open"]
    /\ UNCHANGED <<exists, tip, mergeable>>

ClosePR(p) ==
    /\ Open(p)
    /\ prState' = [prState EXCEPT ![p] = "closed"]
    /\ UNCHANGED <<exists, tip, mergeable>>

(* A push of a new change; it creates the branch again if it was deleted.  *)
Push(b, c) ==
    /\ \A other \in Branches : c \notin tip[other]
    /\ tip' = [tip EXCEPT ![b] = @ \cup {c}]
    /\ exists' = exists \cup {b}
    /\ Forget(b)
    /\ UNCHANGED prState

UserMerge(p) ==
    /\ Open(p)
    /\ mergeable[p] = "clean"
    /\ LandMerge(p, "merge")

(* The button that updates the branch of a pull request from its base.     *)
UserUpdatesBranch(p) ==
    /\ Open(p)
    /\ mergeable[p] = "clean"
    /\ ~ tip[BaseOf[p]] \subseteq tip[HeadOf[p]]
    /\ MergeInto(HeadOf[p], BaseOf[p])

UserDeletesBranch(b) ==
    /\ b \in exists
    /\ RemoveBranch(b)

(* Steps of GitHub itself.                                                 *)

ComputeMergeable(p) ==
    /\ Open(p)
    /\ mergeable[p] = "unknown"
    /\ \E answer \in {"clean", "conflict"} :
         /\ tip[BaseOf[p]] \subseteq tip[HeadOf[p]] => answer = "clean"
         /\ mergeable' = [mergeable EXCEPT ![p] = answer]
    /\ UNCHANGED <<prState, exists, tip>>

(* The base was pushed to and now has the whole head: p shows as merged.   *)
DetectMerged(p) ==
    /\ Open(p)
    /\ Contained(p)
    /\ prState' = [prState EXCEPT ![p] = "merged"]
    /\ UNCHANGED <<exists, tip, mergeable>>

GitHubNext ==
    \/ \E p \in PRs : \/ OpenPR(p)
                      \/ ClosePR(p)
                      \/ UserMerge(p)
                      \/ UserUpdatesBranch(p)
                      \/ ComputeMergeable(p)
                      \/ DetectMerged(p)
    \/ \E b \in Branches : \/ UserDeletesBranch(b)
                           \/ \E c \in Changes : Push(b, c)
=============================================================================
