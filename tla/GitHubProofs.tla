---------------------------- MODULE GitHubProofs ----------------------------
(***************************************************************************)
(* What every step of the repository keeps, for the proofs about the       *)
(* modules that change it.                                                 *)
(***************************************************************************)
EXTENDS GitHub, TLAPS

(* The merge of a branch into another: one commit more, on that branch     *)
(* only, and all that either of them had.                                  *)
LEMMA MergeIntoMoves ==
    ASSUME GitHubTypeOK, NEW b \in Branches, NEW other \in Branches, MergeInto(b, other)
    PROVE  /\ tip' \in [Branches -> Commit]
           /\ tip[b] \subseteq tip'[b] /\ tip[other] \subseteq tip'[b]
           /\ \A x \in Branches : x # b => tip'[x] = tip[x]
<1>1. PICK m : m = NextMergeCommit
    OBVIOUS
<1>2. m \in MergeCommits
  <2>1. \E c \in Unused : TRUE
      BY DEF MergeInto
  <2> QED
      BY <1>1, <2>1 DEF NextMergeCommit, Unused
<1>3. tip' = [tip EXCEPT ![b] = tip[b] \cup tip[other] \cup {m}]
    BY <1>1 DEF MergeInto
<1>4. tip \in [Branches -> Commit]
    BY DEF GitHubTypeOK
<1>5. tip[b] \cup tip[other] \cup {m} \in Commit
    BY <1>2, <1>4 DEF Commit
<1> QED
    BY <1>3, <1>4, <1>5

LEMMA MergeIntoTypes ==
    ASSUME GitHubTypeOK, NEW b \in Branches, NEW other \in Branches, MergeInto(b, other)
    PROVE  GitHubTypeOK'
<1>1. tip' \in [Branches -> Commit]
    BY MergeIntoMoves
<1> QED
    BY <1>1 DEF GitHubTypeOK, MergeInto, Forget

(* What developers and GitHub do keeps the repository well typed.          *)
LEMMA GitHubTypes == GitHubTypeOK /\ GitHubNext => GitHubTypeOK'
<1> USE TopologyAssumption DEF GitHubTypeOK, Commit
<1> SUFFICES ASSUME GitHubTypeOK, GitHubNext PROVE GitHubTypeOK'
    OBVIOUS
<1>1. ASSUME NEW p \in PRs, OpenPR(p) PROVE GitHubTypeOK'
    BY <1>1 DEF OpenPR
<1>2. ASSUME NEW p \in PRs, ClosePR(p) PROVE GitHubTypeOK'
    BY <1>2 DEF ClosePR
<1>3. ASSUME NEW p \in PRs, UserMerge(p) PROVE GitHubTypeOK'
    BY <1>3 DEF UserMerge, LandMerge, Forget
<1>4. ASSUME NEW p \in PRs, ComputeMergeable(p) PROVE GitHubTypeOK'
    BY <1>4 DEF ComputeMergeable
<1>5. ASSUME NEW p \in PRs, DetectMerged(p) PROVE GitHubTypeOK'
    BY <1>5 DEF DetectMerged
<1>6. ASSUME NEW b \in Branches, UserDeletesBranch(b) PROVE GitHubTypeOK'
    BY <1>6 DEF UserDeletesBranch, RemoveBranch
<1>7. ASSUME NEW b \in Branches, NEW c \in Changes, Push(b, c) PROVE GitHubTypeOK'
    BY <1>7 DEF Push, Forget
<1>8. ASSUME NEW p \in PRs, UserUpdatesBranch(p) PROVE GitHubTypeOK'
    BY <1>8, MergeIntoTypes DEF UserUpdatesBranch
<1> QED
    BY <1>1, <1>2, <1>3, <1>4, <1>5, <1>6, <1>7, <1>8 DEF GitHubNext

(* One lemma per kind of step for the types of the repository.             *)

LEMMA LandMergeTypes ==
    ASSUME GitHubTypeOK, NEW p \in PRs, NEW method, LandMerge(p, method)
    PROVE  GitHubTypeOK'
BY TopologyAssumption DEF GitHubTypeOK, Commit, LandMerge, Forget

LEMMA SetRefTypes ==
    ASSUME GitHubTypeOK, NEW b \in Branches, NEW commit \in Commit, SetRef(b, commit)
    PROVE  GitHubTypeOK'
BY DEF GitHubTypeOK, SetRef, Forget

LEMMA RemoveBranchTypes ==
    ASSUME GitHubTypeOK, NEW b \in Branches, RemoveBranch(b)
    PROVE  GitHubTypeOK'
BY DEF GitHubTypeOK, RemoveBranch

LEMMA UnchangedTypes == GitHubTypeOK /\ UNCHANGED ghVars => GitHubTypeOK'
BY DEF GitHubTypeOK, ghVars

-----------------------------------------------------------------------------
(* What every step leaves standing: commits stay on their branches, and a  *)
(* pull request that was opened, closed or merged stays so.                *)

Grows == \A b \in Branches : tip[b] \subseteq tip'[b]

Settled ==
    \A p \in PRs :
        /\ prState[p] # "none" => prState'[p] # "none"
        /\ prState[p] \notin {"none", "open"} => prState'[p] \notin {"none", "open"}
        /\ prState[p] = "merged" => prState'[p] = "merged"

LEMMA LandMergeKeeps ==
    ASSUME GitHubTypeOK, NEW p \in PRs, NEW method, LandMerge(p, method)
    PROVE  Grows /\ Settled /\ prState'[p] = "merged"
BY TopologyAssumption DEF GitHubTypeOK, Grows, Settled, LandMerge

LEMMA RemoveBranchKeeps ==
    ASSUME GitHubTypeOK, NEW b \in Branches, RemoveBranch(b)
    PROVE  Grows /\ Settled
<1>1. Grows
    BY DEF Grows, RemoveBranch
<1>2. ASSUME NEW p \in PRs
      PROVE  \/ prState'[p] = prState[p]
             \/ Open(p) /\ prState'[p] \in {"merged", "closed"}
    BY DEF RemoveBranch
<1>3. Settled
    BY <1>2 DEF Settled, Open
<1> QED
    BY <1>1, <1>3

LEMMA MergeIntoKeeps ==
    ASSUME GitHubTypeOK, NEW b \in Branches, NEW other \in Branches, MergeInto(b, other)
    PROVE  Grows /\ Settled
<1>1. Grows
    BY MergeIntoMoves DEF Grows
<1>2. Settled
    BY DEF Settled, MergeInto
<1> QED
    BY <1>1, <1>2

LEMMA UnchangedKeeps == UNCHANGED ghVars => Grows /\ Settled
BY DEF ghVars, Grows, Settled

LEMMA GitHubKeeps == GitHubTypeOK /\ GitHubNext => Grows /\ Settled
<1> SUFFICES ASSUME GitHubTypeOK, GitHubNext PROVE Grows /\ Settled
    OBVIOUS
<1>1. ASSUME NEW p \in PRs, OpenPR(p) \/ ClosePR(p) \/ DetectMerged(p)
      PROVE  Grows /\ Settled
    BY <1>1 DEF GitHubTypeOK, OpenPR, ClosePR, DetectMerged, Open, Grows, Settled
<1>2. ASSUME NEW p \in PRs, UserMerge(p) PROVE Grows /\ Settled
    BY <1>2, LandMergeKeeps DEF UserMerge
<1>3. ASSUME NEW p \in PRs, ComputeMergeable(p) PROVE Grows /\ Settled
    BY <1>3 DEF ComputeMergeable, Grows, Settled
<1>4. ASSUME NEW b \in Branches, UserDeletesBranch(b) PROVE Grows /\ Settled
    BY <1>4, RemoveBranchKeeps DEF UserDeletesBranch
<1>5. ASSUME NEW b \in Branches, NEW c \in Changes, Push(b, c)
      PROVE  Grows /\ Settled
    BY <1>5 DEF GitHubTypeOK, Push, Grows, Settled
<1>6. ASSUME NEW p \in PRs, UserUpdatesBranch(p) PROVE Grows /\ Settled
    BY <1>6, MergeIntoKeeps, TopologyAssumption DEF UserUpdatesBranch
<1> QED
    BY <1>1, <1>2, <1>3, <1>4, <1>5, <1>6 DEF GitHubNext
=============================================================================
