------------------------------ MODULE Evaluate ------------------------------
(***************************************************************************)
(* bulldozer/evaluate.go, and DetermineMergeMethod of merge.go: whether a  *)
(* pull request is merged or updated, and with which method, as functions  *)
(* of a configuration and of the answers v of the pull request's context.  *)
(***************************************************************************)
EXTENDS Signals

TravisBase == "continuous-integration/travis-ci"
TravisVariants == {"continuous-integration/travis-ci/push",
                   "continuous-integration/travis-ci/pr"}

Decision == {"yes", "no", "error"}

Decide(condition) == IF condition THEN "yes" ELSE "no"

(* A mutation of statusSetDifference: the difference the wrong way round.  *)
statusSetDifferenceSwapped(required, actual) == actual \ required

(* statusSetDifference: a Travis variant stands for the base context.      *)
statusSetDifference(required, actual) ==
    required \ (actual \cup (IF actual \cap TravisVariants # {} THEN {TravisBase} ELSE {}))

IsPRIgnored(s, v) == MatchesAny(s, v)
IsPRTriggered(s, v) == MatchesAny(s, v)
IsMergeMethodTriggered(s, v) == MatchesAll(s, v)

(* The ignore signals, then the trigger signals, settle the question or    *)
(* leave it open, for a merge and for an update alike.                     *)
BySignals(config, v) ==
    LET ignored   == IF Enabled(config.ignore) THEN IsPRIgnored(config.ignore, v)
                                               ELSE "nomatch"
        triggered == IF Enabled(config.trigger) THEN IsPRTriggered(config.trigger, v)
                                                ELSE "match"
    IN  IF ignored # "nomatch" THEN (IF ignored = "error" THEN "error" ELSE "no")
        ELSE IF triggered # "match" THEN (IF triggered = "error" THEN "error" ELSE "no")
        ELSE "open"

(* Required and successful status checks decide what is left.              *)
ByStatuses(required, v) ==
    IF "statuses" \in v.failing THEN "error"
    ELSE Decide(statusSetDifference(required, v.statuses) = {})

ShouldMergePR(config, v) ==
    LET required == v.required \cup config.requiredStatuses
    IN  IF BySignals(config, v) # "open" THEN BySignals(config, v)
        ELSE IF "required" \in v.failing THEN "error"
        ELSE IF required = {} /\ ~ config.allowMergeWithNoChecks THEN "no"
        ELSE ByStatuses(required, v)

(* A mutation of ShouldUpdatePR: drafts are left out before the trigger    *)
(* is looked at.                                                           *)
ShouldUpdatePRDraftsFirst(config, v) ==
    IF /\ ~ Enabled(config.ignore)
       /\ ~ Enabled(config.trigger)
       /\ config.ignoreDrafts = "unset"
       /\ config.requiredStatuses = {}
      THEN "no"
    ELSE IF config.ignoreDrafts = "true" /\ v.draft THEN "no"
    ELSE IF BySignals(config, v) # "open" THEN BySignals(config, v)
    ELSE IF Enabled(config.trigger) \/ config.requiredStatuses = {} THEN "yes"
    ELSE ByStatuses(config.requiredStatuses, v)

(* Updates have to be asked for; a matching trigger is enough for one.     *)
ShouldUpdatePR(config, v) ==
    IF /\ ~ Enabled(config.ignore)
       /\ ~ Enabled(config.trigger)
       /\ config.ignoreDrafts = "unset"
       /\ config.requiredStatuses = {}
      THEN "no"
    ELSE IF BySignals(config, v) # "open" THEN BySignals(config, v)
    ELSE IF Enabled(config.trigger) THEN "yes"
    ELSE IF config.ignoreDrafts = "true" /\ v.draft THEN "no"
    ELSE IF config.requiredStatuses = {} THEN "yes"
    ELSE ByStatuses(config.requiredStatuses, v)

-----------------------------------------------------------------------------
ValidMethods == {"merge", "squash", "rebase", "ff-only"}

(* DetermineMergeMethod: the first conditional method whose signals all    *)
(* match, else the method of the base branch, else the general one; a name *)
(* that is no method means a merge commit.                                 *)
DetermineMergeMethod(config, v) ==
    LET outcome(i) == IsMergeMethodTriggered(config.mergeMethods[i].trigger, v)
        decisive == {i \in DOMAIN config.mergeMethods : outcome(i) # "nomatch"}
        first == CHOOSE i \in decisive : \A j \in decisive : i <= j
        unconditional == IF v.base \in DOMAIN config.branchMethod
                           THEN config.branchMethod[v.base] ELSE config.method
        chosen == IF decisive = {} THEN unconditional
                                   ELSE config.mergeMethods[first].method
    IN  IF decisive # {} /\ outcome(first) = "error" THEN "error"
        ELSE IF chosen \in ValidMethods THEN chosen ELSE "merge"
=============================================================================
