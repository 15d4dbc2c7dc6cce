------------------------------- MODULE MCMerge -------------------------------
(* Small instances of Merge: the shapes of pull requests that matter.      *)
EXTENDS Merge, TLC

CONSTANTS p1, p2, w1, w2, c1, c2, c3

(* p2 is stacked on p1: its base is the branch p1 is opened from.          *)
StackedBranches == {"main", "feature", "stack"}
StackedHead == p1 :> "feature" @@ p2 :> "stack"
StackedBase == p1 :> "main" @@ p2 :> "feature"

(* One pull request.                                                       *)
SingleBranches == {"main", "feature"}
SingleHead == p1 :> "feature"
SingleBase == p1 :> "main"

WorkerSymmetry == Permutations(Workers)
=============================================================================
