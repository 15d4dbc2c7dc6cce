------------------------------ MODULE Signals ------------------------------
(***************************************************************************)
(* bulldozer/signals.go: which signals a pull request shows.               *)
(*                                                                         *)
(* A text (the body of a pull request, a comment) is the set of the words  *)
(* that somebody may look for in it: it contains word s when s is in the   *)
(* set, it equals a signal when the sets are equal, and the empty text is  *)
(* the empty set.  Labels are compared by the key their lower case gives   *)
(* them, a pattern stands for the branches that regexp matches with it.    *)
(***************************************************************************)
EXTENDS Naturals, Sequences

CONSTANTS
    Words,          \* what substring signals look for
    Labels,         \* labels as they are spelled
    Fold,           \* Fold[l]: the label l in lower case
    BaseBranches,   \* names of target branches
    Patterns,       \* regular expressions on branch names
    MatchedBy,      \* MatchedBy[r]: the branches r matches; {} for an invalid r
    Contexts        \* the contexts of status checks that CI systems report

ASSUME SignalsAssumption ==
    /\ DOMAIN Fold = Labels
    /\ MatchedBy \in [Patterns -> SUBSET BaseBranches]

Text == SUBSET Words

Calls == {"comments", "commits", "required", "statuses"}

(* What the pull.Context of one pull request answers; calls in failing     *)
(* return an error instead.                                                *)
View == [labels : SUBSET Labels, body : Text, comments : SUBSET Text,
         base : BaseBranches, commits : Nat, autoMerge : BOOLEAN,
         draft : BOOLEAN, required : SUBSET Contexts,
         statuses : SUBSET Contexts, failing : SUBSET Calls]

(* A set of signals; MaxCommits 0 and an empty list switch a signal off.   *)
SignalSet == [labels : SUBSET Labels, commentSubstrings : SUBSET Words,
              comments : SUBSET Text, prBodySubstrings : SUBSET Words,
              branches : SUBSET BaseBranches, branchPatterns : SUBSET Patterns,
              maxCommits : Nat, autoMerge : BOOLEAN]

NoSignals == [labels |-> {}, commentSubstrings |-> {}, comments |-> {},
              prBodySubstrings |-> {}, branches |-> {}, branchPatterns |-> {},
              maxCommits |-> 0, autoMerge |-> FALSE]

SignalOutcome == {"match", "nomatch", "error"}

SignalEnabled(s, kind) ==
    CASE kind = "maxCommits" -> s.maxCommits > 0
      [] kind = "autoMerge"  -> s.autoMerge
      [] OTHER               -> s[kind] # {}

(* Signals.Enabled                                                         *)
Enabled(s) == \E kind \in DOMAIN s : SignalEnabled(s, kind)

Matching(condition) == IF condition THEN "match" ELSE "nomatch"

(* A mutation of WithComments: an error counts as no match.                *)
WithCommentsFailingOpen(v, condition) ==
    Matching("comments" \notin v.failing /\ condition /\ (v.comments # {} \/ v.body # {}))

(* CommentsSignal and CommentSubstringsSignal ask for the comments first;  *)
(* then both look at the body as well.                                     *)
WithComments(v, condition) ==
    IF "comments" \in v.failing THEN "error"
    ELSE Matching(condition /\ (v.comments # {} \/ v.body # {}))

(* A mutation of CommentEquals: the body is not compared.                  *)
CommentEqualsNotBody(s, v) == s.comments \cap v.comments # {}

CommentEquals(s, v) == s.comments \cap (v.comments \cup {v.body}) # {}

(* The Matches method of each signal, when the signal is enabled.  The     *)
(* error of Commits is dropped, and no commits are fewer than any maximum. *)
MatchesSignal(s, kind, v) ==
    CASE kind = "labels" ->
            Matching(\E l \in s.labels, m \in v.labels : Fold[l] = Fold[m])
      [] kind = "commentSubstrings" ->
            WithComments(v, \E word \in s.commentSubstrings :
                              \E text \in v.comments \cup {v.body} : word \in text)
      [] kind = "comments" ->
            WithComments(v, CommentEquals(s, v))
      [] kind = "prBodySubstrings" ->
            Matching(s.prBodySubstrings \cap v.body # {})
      [] kind = "branches" ->
            Matching(v.base \in s.branches)
      [] kind = "branchPatterns" ->
            Matching(\E r \in s.branchPatterns : v.base \in MatchedBy[r])
      [] kind = "maxCommits" ->
            Matching("commits" \in v.failing \/ v.commits <= s.maxCommits)
      [] kind = "autoMerge" ->
            Matching(v.autoMerge)

(* Matches: a signal that is not enabled never matches, and asks nothing.  *)
Matches(s, kind, v) ==
    IF SignalEnabled(s, kind) THEN MatchesSignal(s, kind, v) ELSE "nomatch"

-----------------------------------------------------------------------------
(* The first kind of the given order whose outcome is decisive settles the *)
(* result; later signals are not asked.                                    *)
FirstDecisive(order, Decisive(_), default, Result(_)) ==
    LET decisive == {i \in DOMAIN order : Decisive(order[i])}
    IN  IF decisive = {} THEN default
        ELSE Result(order[CHOOSE i \in decisive : \A j \in decisive : i <= j])

(* A mutation of AllKinds: a signal is forgotten.                          *)
AllKindsButMaxCommits ==
    <<"labels", "commentSubstrings", "comments", "prBodySubstrings",
      "branches", "branchPatterns", "autoMerge">>

(* The signals in the order of MatchesAll.                                 *)
AllKinds == <<"labels", "commentSubstrings", "comments", "prBodySubstrings",
              "branches", "branchPatterns", "maxCommits", "autoMerge">>

(* MatchesAny asks for no maximum of commits.                              *)
AnyKinds == <<"labels", "commentSubstrings", "comments", "prBodySubstrings",
              "branches", "branchPatterns", "autoMerge">>

(* MatchesAny: does some signal match?                                     *)
MatchesAny(s, v) ==
    LET Decisive(kind) == Matches(s, kind, v) # "nomatch"
        Result(kind) == Matches(s, kind, v)
    IN  FirstDecisive(AnyKinds, Decisive, "nomatch", Result)

(* MatchesAll: do all the enabled signals match, and is there one?         *)
MatchesAll(s, v) ==
    LET Decisive(kind) == SignalEnabled(s, kind) /\ Matches(s, kind, v) # "match"
        Result(kind) == Matches(s, kind, v)
    IN  IF ~ Enabled(s) THEN "nomatch"
        ELSE FirstDecisive(AllKinds, Decisive, "match", Result)
=============================================================================
