---------------------------- MODULE MCPullContext ----------------------------
(***************************************************************************)
(* Instances of PullContext for TLC: lists of none to two pages, and the   *)
(* last list of each method grows.                                         *)
(***************************************************************************)
EXTENDS PullContext

(* The lists that are read first have m pages, the lists that are read     *)
(* second n, for all small m and n.                                        *)
First == {"reviewComments", "combinedStatus", "commits"}

Sizes == {[l \in Lists |-> IF l = "protection" THEN 1
                           ELSE IF l \in First THEN m ELSE n] :
              <<m, n>> \in (0 .. 2) \X (0 .. 2)}

Grows == {"issueComments", "checkRuns", "commits"}
=============================================================================
