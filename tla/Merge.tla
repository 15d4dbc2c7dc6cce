-------------------------------- MODULE Merge --------------------------------
(***************************************************************************)
(* bulldozer/merge.go: merging one pull request and deleting its branch,   *)
(* by several workers at once (two events of one pull request are handled  *)
(* concurrently), against a repository that others change meanwhile.       *)
(*                                                                         *)
(* A worker fetches the pull request (a snapshot that the handler keeps),  *)
(* decides whether and how to merge it, then runs MergePR: a loop of       *)
(* attempts, each reading the merge state and asking GitHub to merge, and  *)
(* after success the check for other pull requests onto the branch and     *)
(* its deletion.  There is one action per API call, since everybody else   *)
(* may act between two calls.  The decision is left open here; module      *)
(* ProcessPullRequest resolves it.                                         *)
(*                                                                         *)
(* Time is not modelled: the 4 seconds between attempts are the chance of  *)
(* other steps to happen in between.  Listing the open pull requests is    *)
(* one step although it may take several pages.                            *)
(***************************************************************************)
EXTENDS GitHub

CONSTANTS
    Workers,                  \* the scheduler's worker goroutines
    MergeMethods,             \* the merge methods configurations may choose
    Restricted,               \* base branches with push restrictions
    UserToken,                \* is push_restriction_user_token configured?
    MaxPullRequestPollCount,  \* attempts per run
    Faults,                   \* what may go wrong, see FaultKinds
    NoRun                     \* the run of an idle worker

(* "transport": a request or its answer is lost; "api": GitHub answers     *)
(* with an unexpected status or a rate limit; "refusal": GitHub rejects a  *)
(* merge for a condition it does not report as mergeability, a missing     *)
(* review for instance; "restart": the process is restarted.               *)
FaultKinds == {"transport", "api", "refusal", "restart"}

ASSUME MergeAssumption ==
    /\ MergeMethods \subseteq {"merge", "squash", "rebase", "ff-only"}
    /\ Restricted \subseteq Branches
    /\ UserToken \in BOOLEAN
    /\ MaxPullRequestPollCount \in Nat \ {0}
    /\ Faults \subseteq FaultKinds

VARIABLES
    pc,     \* pc[w]: the API call worker w makes next
    run     \* run[w]: what worker w knows of the pull request it handles

vars == <<ghVars, pc, run>>

(* head is the snapshot of HeadSHA().  landed and bystanders are history:  *)
(* whether a merge request of this run took effect, and the pull requests  *)
(* that were open onto the head branch when the merge was acknowledged.    *)
Run == [pr : PRs, head : Commit, method : MergeMethods,
        deleteAfterMerge : BOOLEAN, attempts : 0 .. MaxPullRequestPollCount - 1,
        landed : BOOLEAN, bystanders : SUBSET PRs]

PC == {"idle", "evaluate", "attempt", "merge", "update_ref", "targeted",
       "delete", "panicked"}

TypeOK ==
    /\ GitHubTypeOK
    /\ pc \in [Workers -> PC]
    /\ run \in [Workers -> Run \cup {NoRun}]
    /\ \A w \in Workers : pc[w] # "idle" => run[w] \in Run

Init ==
    /\ GitHubInit
    /\ pc = [w \in Workers |-> "idle"]
    /\ run = [w \in Workers |-> NoRun]

-----------------------------------------------------------------------------
(* Control flow of MergePR.                                                *)

Goto(w, label, r) ==
    /\ pc' = [pc EXCEPT ![w] = label]
    /\ run' = [run EXCEPT ![w] = r]

End(w) == Goto(w, "idle", NoRun)

(* Two mutations of Retry: a limit that is off by one, and none at all.    *)
RetryOnceMore(w, r) ==
    IF r.attempts + 1 > MaxPullRequestPollCount
      THEN End(w)
      ELSE Goto(w, "attempt", [r EXCEPT !.attempts = @ + 1])

RetryUncounted(w, r) == Goto(w, "attempt", r)

(* attemptMerge asked for a retry: one attempt more, up to the limit.      *)
Retry(w, r) ==
    IF r.attempts + 1 >= MaxPullRequestPollCount
      THEN End(w)
      ELSE Goto(w, "attempt", [r EXCEPT !.attempts = @ + 1])

(* A mutation of Merged: branches of forks are not left out.               *)
MergedInForksToo(w, r) ==
    IF r.deleteAfterMerge
      THEN Goto(w, "targeted",
                [r EXCEPT !.bystanders = OpenOnto(HeadOf[r.pr])])
      ELSE End(w)

(* attemptMerge reported success: the branch is deleted if the             *)
(* configuration says so, and never when it is in a fork.                  *)
Merged(w, r) ==
    IF r.deleteAfterMerge /\ HeadOf[r.pr] \notin Forks
      THEN Goto(w, "targeted",
                [r EXCEPT !.bystanders = OpenOnto(HeadOf[r.pr])])
      ELSE End(w)

(* The answers of a merge request that attemptMerge tries again: no HTTP   *)
(* answer, 405 because the base moved, and any status it does not know.    *)
Retries(reply) == reply \in {"transport", "base_modified", "unexpected"}

Refused(w, replies) ==
    /\ \E reply \in replies : IF Retries(reply) THEN Retry(w, run[w]) ELSE End(w)
    /\ UNCHANGED ghVars

(* A mutation of Client: the restrictions of the base are not looked at.   *)
ClientOfTheApp(p) == "app"

(* PushRestrictionMerger: the token's user merges into restricted bases.   *)
Client(p) == IF UserToken /\ BaseOf[p] \in Restricted THEN "user" ELSE "app"

MayWrite(p) == BaseOf[p] \in Restricted => Client(p) = "user"

FaultReplies == (IF "transport" \in Faults THEN {"transport"} ELSE {})
                  \cup (IF "api" \in Faults THEN {"unexpected"} ELSE {})

-----------------------------------------------------------------------------
(* A handler gets pull request p and keeps this view of it.                *)
Fetch(w, p) ==
    /\ pc[w] = "idle"
    /\ prState[p] # "none"
    /\ \E method \in MergeMethods, deleteAfterMerge \in BOOLEAN :
         Goto(w, "evaluate",
              [pr |-> p, head |-> tip[HeadOf[p]], method |-> method,
               deleteAfterMerge |-> deleteAfterMerge, attempts |-> 0,
               landed |-> FALSE, bystanders |-> {}])
    /\ UNCHANGED ghVars

(* ProcessPullRequest decides not to merge, or fails before the first      *)
(* attempt: the configuration, a signal, the merge method, a title.        *)
Decline(w) ==
    /\ pc[w] = "evaluate"
    /\ End(w)
    /\ UNCHANGED ghVars

BeginMerge(w) ==
    /\ pc[w] = "evaluate"
    /\ Goto(w, "attempt", run[w])
    /\ UNCHANGED ghVars

(* A mutation of GetMergeState: closed is taken for merged.                *)
GetMergeStateClosedIsMerged(w) ==
    /\ pc[w] = "attempt"
    /\ LET p == run[w].pr
       IN  \/ Closed(p) /\ Merged(w, run[w])
           \/ ~ Closed(p) /\ mergeable[p] = "unknown" /\ Retry(w, run[w])
           \/ ~ Closed(p) /\ mergeable[p] = "conflict" /\ End(w)
           \/ ~ Closed(p) /\ mergeable[p] = "clean" /\ Goto(w, "merge", run[w])
    /\ UNCHANGED ghVars

(* attemptMerge reads the merge state afresh.                              *)
GetMergeState(w) ==
    /\ pc[w] = "attempt"
    /\ LET p == run[w].pr
       IN  \/ FaultReplies # {} /\ End(w)
           \/ Closed(p) /\ End(w)
           \/ ~ Closed(p) /\ mergeable[p] = "unknown" /\ Retry(w, run[w])
           \/ ~ Closed(p) /\ mergeable[p] = "conflict" /\ End(w)
           \/ ~ Closed(p) /\ mergeable[p] = "clean" /\ Goto(w, "merge", run[w])
    /\ UNCHANGED ghVars

(* GitHub merges p: it is open, has no known conflict, and the client may  *)
(* write to the base.                                                      *)
CanLand(p) == Open(p) /\ mergeable[p] # "conflict" /\ MayWrite(p)

(* The statuses of a merge request that is not carried out.                *)
MergeRefusals(p) ==
    FaultReplies
      \cup (IF mergeable[p] = "unknown" THEN {"base_modified"} ELSE {})
      \cup (IF "refusal" \in Faults \/ ~ CanLand(p) THEN {"rejected", "conflict"} ELSE {})

(* defaultMerge: no expected head is sent with the request.                *)
DefaultMerge(w) ==
    /\ pc[w] = "merge"
    /\ run[w].method # "ff-only"
    /\ LET p == run[w].pr
           r == [run[w] EXCEPT !.landed = TRUE]
       IN  \/ /\ CanLand(p)
              /\ LandMerge(p, run[w].method)
              /\ Merged(w, r) \/ ("transport" \in Faults /\ Retry(w, r))
           \/ Refused(w, MergeRefusals(p))

(* ffOnlyMerge, first call: the base ref.                                  *)
GetBaseRef(w) ==
    /\ pc[w] = "merge"
    /\ run[w].method = "ff-only"
    /\ \/ /\ BaseOf[run[w].pr] \in exists
          /\ Goto(w, "update_ref", run[w])
          /\ UNCHANGED ghVars
       \/ Refused(w, FaultReplies \cup
                       (IF BaseOf[run[w].pr] \in exists THEN {} ELSE {"unexpected"}))

(* Without force, a ref only moves to a descendant of where it points.     *)
CanUpdateRef(b, commit, force) == b \in exists /\ (force \/ tip[b] \subseteq commit)

(* A mutation of UpdateRefForce: the ref moves wherever it points to.      *)
UpdateRefForced == TRUE

(* The force argument that ffOnlyMerge passes.                             *)
UpdateRefForce == FALSE

(* ffOnlyMerge, second call: the base ref is moved to the snapshot of the  *)
(* head.                                                                   *)
UpdateRef(w) ==
    /\ pc[w] = "update_ref"
    /\ LET base == BaseOf[run[w].pr]
           r == [run[w] EXCEPT !.landed = TRUE]
           ok == CanUpdateRef(base, r.head, UpdateRefForce) /\ MayWrite(r.pr)
       IN  \/ /\ ok
              /\ SetRef(base, r.head)
              /\ Merged(w, r) \/ ("transport" \in Faults /\ Retry(w, r))
           \/ Refused(w, FaultReplies \cup (IF ok THEN {} ELSE {"unexpected"}))

(* A mutation of CheckTargeted: it asks about the base of the pull request *)
(* instead of its head.                                                    *)
CheckBaseTargeted(w) ==
    /\ pc[w] = "targeted"
    /\ \/ OpenOnto(BaseOf[run[w].pr]) # {} /\ End(w)
       \/ OpenOnto(BaseOf[run[w].pr]) = {} /\ Goto(w, "delete", run[w])
    /\ UNCHANGED ghVars

(* attemptDelete: are there open pull requests onto the branch?            *)
CheckTargeted(w) ==
    /\ pc[w] = "targeted"
    /\ \/ FaultReplies # {} /\ End(w)
       \/ OpenOnto(HeadOf[run[w].pr]) # {} /\ End(w)
       \/ OpenOnto(HeadOf[run[w].pr]) = {} /\ Goto(w, "delete", run[w])
    /\ UNCHANGED ghVars

(* DeleteHead: 422 means that the branch is gone already; without an HTTP  *)
(* answer the response is nil and reading its status panics.               *)
DeleteHead(w) ==
    /\ pc[w] = "delete"
    /\ LET head == HeadOf[run[w].pr]
       IN  \/ /\ head \in exists
              /\ RemoveBranch(head)
              /\ End(w) \/ ("transport" \in Faults /\ Goto(w, "panicked", run[w]))
           \/ /\ head \notin exists \/ "api" \in Faults
              /\ End(w)
              /\ UNCHANGED ghVars
           \/ /\ "transport" \in Faults
              /\ Goto(w, "panicked", run[w])
              /\ UNCHANGED ghVars

(* The scheduler recovers the panic; what was left of the event is lost.   *)
Recover(w) ==
    /\ pc[w] = "panicked"
    /\ End(w)
    /\ UNCHANGED ghVars

(* The process is restarted: the runs and the event queue were in memory.  *)
Restart ==
    /\ "restart" \in Faults
    /\ pc' = [w \in Workers |-> "idle"]
    /\ run' = [w \in Workers |-> NoRun]
    /\ UNCHANGED ghVars

-----------------------------------------------------------------------------
(* The calls MergePR makes.                                                *)
MergePR(w) ==
    \/ GetMergeState(w)
    \/ DefaultMerge(w)
    \/ GetBaseRef(w)
    \/ UpdateRef(w)
    \/ CheckTargeted(w)
    \/ DeleteHead(w)
    \/ Recover(w)

Step(w) == Decline(w) \/ BeginMerge(w) \/ MergePR(w)

Environment == GitHubNext /\ UNCHANGED <<pc, run>>

Next ==
    \/ \E w \in Workers : Step(w) \/ \E p \in PRs : Fetch(w, p)
    \/ Environment
    \/ Restart

(* A worker that has a run goes on with it: API calls return, or fail.     *)
Spec == Init /\ [][Next]_vars /\ \A w \in Workers : WF_vars(Step(w))
-----------------------------------------------------------------------------
(* Properties.                                                             *)

Active(w) == run[w] # NoRun

Deletable(r) == r.deleteAfterMerge /\ HeadOf[r.pr] \notin Forks

(* The work of a run is on the base: for a fast forward the snapshot of    *)
(* the head, whatever GitHub says of the pull request by now.              *)
WorkOnBase(r) ==
    IF r.method = "ff-only" THEN r.head \subseteq tip[BaseOf[r.pr]]
                            ELSE prState[r.pr] = "merged"

(* MergePR reaches attemptDelete only for a branch that the configuration  *)
(* wants deleted, that is not in a fork, and whose work is on the base by  *)
(* then, after any number of retries, lost answers and foreign steps.      *)
LandedBeforeDelete ==
    \A w \in Workers :
        pc[w] \in {"targeted", "delete", "panicked"} =>
            Deletable(run[w]) /\ WorkOnBase(run[w])

(* A pull request that was open onto the head branch when the merge was    *)
(* acknowledged is not open any more when the branch is about to be        *)
(* deleted: attemptDelete leaves the base of a stacked pull request alone. *)
BystandersKeepTheirBase ==
    \A w \in Workers :
        pc[w] = "delete" =>
            \A p \in run[w].bystanders : p \notin OpenOnto(HeadOf[run[w].pr])

(* No step of a merge takes a commit off a branch: in particular the       *)
(* ff-only merge with a stale snapshot of the head never moves the base    *)
(* back over what others merged since.                                     *)
BranchesOnlyGrow == [][\A b \in Branches : tip[b] \subseteq tip'[b]]_vars

(* MergePR stops without having merged only because the pull request is    *)
(* closed or conflicts, the base is restricted and no user's token is      *)
(* configured, or all attempts are used: a mergeability still unknown and  *)
(* a base that moved are retried, and a token that is configured is used.  *)
(* For a GitHub without faults and refusals.                               *)
GivesUpOnlyForAReason ==
    [][\A w \in Workers :
          /\ pc[w] \in {"attempt", "merge", "update_ref"}
          /\ pc'[w] = "idle"
          => LET r == run[w]
                 p == r.pr
             IN  \/ prState'[p] \in {"closed", "merged"}
                 \/ r.method = "ff-only" /\ r.head \subseteq tip'[BaseOf[p]]
                 \/ mergeable[p] = "conflict"
                 \/ BaseOf[p] \in Restricted /\ ~ UserToken
                 \/ r.attempts + 1 = MaxPullRequestPollCount]_vars

(* Every run ends, however long mergeability stays unknown and however     *)
(* often GitHub fails: no worker is held by one pull request for good.     *)
RunEnds == \A w \in Workers : pc[w] # "idle" ~> pc[w] = "idle"

(* With delete_after_merge, a run that merged a pull request ends with the *)
(* branch deleted, unless another pull request is open onto it.  For a     *)
(* GitHub without faults and refusals.                                     *)
MergedThenDeleted ==
    [][\A w \in Workers :
          /\ pc[w] \in {"targeted", "delete"}
          /\ pc'[w] = "idle"
          => \/ HeadOf[run[w].pr] \notin exists'
             \/ OpenOnto(HeadOf[run[w].pr]) # {}]_vars

(* The abstract view of a worker: the attempts of a run are one phase, the *)
(* check for other pull requests and the deletion another.                 *)
AbstractPhase ==
    [w \in Workers |->
       CASE pc[w] \in {"evaluate", "attempt", "merge", "update_ref"} -> "merging"
         [] pc[w] \in {"targeted", "delete"} -> "landed"
         [] OTHER -> "idle"]

AbstractJob ==
    [w \in Workers |->
       IF AbstractPhase[w] = "idle" THEN NoRun
       ELSE [pr |-> run[w].pr, head |-> run[w].head, method |-> run[w].method,
             deletes |-> Deletable(run[w])]]

Landing == INSTANCE Landing WITH phase <- AbstractPhase, job <- AbstractJob,
                                 NoJob <- NoRun

(* Through lost answers, retries, panics and restarts, the calls of        *)
(* MergePR amount to one landing and at most one deletion after it.        *)
ImplementsLanding == Landing!LandingSpec

-----------------------------------------------------------------------------
(* Two claims of the documentation and of a comment that the code does not *)
(* keep; each has a run that shows how.                                    *)

(* The deletion of a branch by worker w in this step.                      *)
Deletes(w) ==
    pc[w] = "delete" /\ pc'[w] # "delete" /\ exists' # exists

(* README.md:189: "bulldozer will delete branches after their pull         *)
(* requests merge": when the branch goes, no open pull request from it is  *)
(* left with commits that its base does not have.                          *)
DeletesOnlyMergedBranches ==
    [][\A w \in Workers : Deletes(w) =>
          \A p \in PRs : Open(p) /\ HeadOf[p] = HeadOf[run[w].pr] => Contained(p)]_vars

(* merge.go:188: MergePR "logs any errors that it encounters".             *)
ErrorsAreLogged == \A w \in Workers : pc[w] # "panicked"
=============================================================================
