------------------------------ MODULE MCProcess ------------------------------
(* A small instance of ProcessPullRequest: one pull request.               *)
EXTENDS ProcessPullRequest, TLC

CONSTANTS p1, w1, w2, c1, c2

SingleBranches == {"main", "feature"}
SingleHead == p1 :> "feature"
SingleBase == p1 :> "main"
=============================================================================
