----------------------------- MODULE MCBulldozer -----------------------------
(* Small instances of Bulldozer.                                           *)
EXTENDS Bulldozer, TLC

CONSTANTS p1, p2, w1, w2, c1, c2, c3

(* Two pull requests onto the same base, each with one push; p2 is newer.  *)
TwoBranches == {"main", "one", "two"}
TwoHead == p1 :> "one" @@ p2 :> "two"
TwoBase == p1 :> "main" @@ p2 :> "main"
TwoNumber == p1 :> 1 @@ p2 :> 2
TwoPushedTo == c1 :> "one" @@ c2 :> "two"

(* One pull request; head and base are pushed to.                          *)
OneBranches == {"main", "one"}
OneHead == p1 :> "one"
OneBase == p1 :> "main"
OneNumber == p1 :> 1
OnePushedTo == c1 :> "one" @@ c3 :> "main"

WorkerSymmetry == Permutations(Workers)
=============================================================================
