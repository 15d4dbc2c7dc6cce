--------------------------- MODULE EvaluateProofs ---------------------------
(***************************************************************************)
(* Theorems about Signals, Evaluate and Config, for every configuration    *)
(* and every pull request, written with any words, labels, branches,       *)
(* patterns and checks; from them the properties of MCEvaluate.            *)
(***************************************************************************)
EXTENDS MCEvaluate, WellFoundedInduction, TLAPS

-----------------------------------------------------------------------------
(* What FirstDecisive chooses.                                             *)

Least(D) == CHOOSE i \in D : \A j \in D : i <= j

LEMMA LeastIndex ==
    ASSUME NEW D \in SUBSET Nat, D # {}
    PROVE  Least(D) \in D /\ \A j \in D : Least(D) <= j
<1>1. PICK i \in D : \A j \in D : ~ (<<j, i>> \in OpToRel(<, Nat))
    BY NatLessThanWellFounded, WFMin
<1>2. ASSUME NEW j \in D PROVE i <= j
  <2>1. i \in Nat /\ j \in Nat
      OBVIOUS
  <2>2. <<j, i>> \notin OpToRel(<, Nat)
      BY <1>1, Zenon
  <2>3. ~ (j < i)
      BY <2>1, <2>2 DEF OpToRel
  <2> QED
      BY <2>1, <2>3
<1> QED
    BY <1>2 DEF Least

-----------------------------------------------------------------------------
(* The signals one by one.                                                 *)

(* A comment that is looked for has some text.                             *)
Askable == {s \in SignalSet : {} \notin s.comments}

LEMMA EnabledKinds ==
    ASSUME NEW s \in SignalSet
    PROVE  /\ DOMAIN s = {AllKinds[i] : i \in 1 .. 8}
           /\ SignalEnabled(s, "labels") <=> s.labels # {}
           /\ SignalEnabled(s, "commentSubstrings") <=> s.commentSubstrings # {}
           /\ SignalEnabled(s, "comments") <=> s.comments # {}
           /\ SignalEnabled(s, "prBodySubstrings") <=> s.prBodySubstrings # {}
           /\ SignalEnabled(s, "branches") <=> s.branches # {}
           /\ SignalEnabled(s, "branchPatterns") <=> s.branchPatterns # {}
           /\ SignalEnabled(s, "maxCommits") <=> s.maxCommits > 0
           /\ SignalEnabled(s, "autoMerge") <=> s.autoMerge
<1>1. DOMAIN s = {AllKinds[i] : i \in 1 .. 8}
    BY DEF SignalSet, AllKinds
<1> QED
    BY <1>1 DEF SignalEnabled

(* Signals are enabled exactly if something is configured.                 *)
LEMMA EnabledIsSome ==
    ASSUME NEW s \in SignalSet
    PROVE  Enabled(s) <=> s # NoSignals
<1>1. Enabled(s) <=> \/ s.labels # {} \/ s.commentSubstrings # {} \/ s.comments # {}
                     \/ s.prBodySubstrings # {} \/ s.branches # {}
                     \/ s.branchPatterns # {} \/ s.maxCommits > 0 \/ s.autoMerge
  <2>1. DOMAIN s = {"labels", "commentSubstrings", "comments", "prBodySubstrings",
                    "branches", "branchPatterns", "maxCommits", "autoMerge"}
      BY DEF SignalSet
  <2> QED
      BY <2>1, EnabledKinds DEF Enabled
<1>2. s.maxCommits \in Nat /\ s.autoMerge \in BOOLEAN
    BY DEF SignalSet
<1>3. s = NoSignals <=> /\ s.labels = {} /\ s.commentSubstrings = {} /\ s.comments = {}
                        /\ s.prBodySubstrings = {} /\ s.branches = {}
                        /\ s.branchPatterns = {} /\ s.maxCommits = 0
                        /\ s.autoMerge = FALSE
    BY DEF SignalSet, NoSignals
<1>4. s.maxCommits > 0 <=> s.maxCommits # 0
    BY <1>2
<1> QED
    BY <1>1, <1>2, <1>3, <1>4

(* What each signal of MatchesAny answers.                                 *)
LEMMA PlainSignals ==
    ASSUME NEW s \in SignalSet, NEW v \in View
    PROVE  /\ Matches(s, "labels", v)
                = Matching(\E l \in s.labels : \E m \in v.labels : Fold[l] = Fold[m])
           /\ Matches(s, "prBodySubstrings", v) = Matching(v.body \cap s.prBodySubstrings # {})
           /\ Matches(s, "branches", v) = Matching(v.base \in s.branches)
           /\ Matches(s, "branchPatterns", v)
                = Matching(\E r \in s.branchPatterns : v.base \in MatchedBy[r])
           /\ Matches(s, "autoMerge", v) = Matching(s.autoMerge /\ v.autoMerge)
           /\ Matches(s, "maxCommits", v) =
                Matching(/\ s.maxCommits > 0
                         /\ "commits" \in v.failing \/ v.commits <= s.maxCommits)
BY EnabledKinds DEF Matches, MatchesSignal, Matching

LEMMA CommentSignals ==
    ASSUME NEW s \in Askable, NEW v \in View
    PROVE  /\ Matches(s, "commentSubstrings", v) =
                IF s.commentSubstrings # {} /\ "comments" \in v.failing THEN "error"
                ELSE Matching(\E text \in v.comments \cup {v.body} :
                                text \cap s.commentSubstrings # {})
           /\ Matches(s, "comments", v) =
                IF s.comments # {} /\ "comments" \in v.failing THEN "error"
                ELSE Matching(\E text \in v.comments \cup {v.body} : text \in s.comments)
<1>0. s \in SignalSet /\ {} \notin s.comments
    BY DEF Askable
<1>1. (\E word \in s.commentSubstrings : \E text \in v.comments \cup {v.body} : word \in text)
        <=> \E text \in v.comments \cup {v.body} : text \cap s.commentSubstrings # {}
    OBVIOUS
<1>2. (\E text \in v.comments \cup {v.body} : text \cap s.commentSubstrings # {})
        => v.comments # {} \/ v.body # {}
    OBVIOUS
<1>3. (\E text \in v.comments \cup {v.body} : text \in s.comments)
        <=> s.comments \cap (v.comments \cup {v.body}) # {}
    OBVIOUS
<1>4. (\E text \in v.comments \cup {v.body} : text \in s.comments)
        => v.comments # {} \/ v.body # {}
    BY <1>0
<1> QED
    BY <1>0, <1>1, <1>2, <1>3, <1>4, EnabledKinds
       DEF Matches, MatchesSignal, CommentEquals, WithComments, Matching

-----------------------------------------------------------------------------
(* Several signals: the order in which they are asked does not matter to   *)
(* who is shown what, only to whether a failure is noticed.                *)

AnyAsked == {AnyKinds[i] : i \in 1 .. 7}
AllAsked == {AllKinds[i] : i \in 1 .. 8}

Decisive(s, v) == {i \in 1 .. 7 : Matches(s, AnyKinds[i], v) # "nomatch"}

LEMMA AnyIsFirst ==
    ASSUME NEW s, NEW v
    PROVE  MatchesAny(s, v) =
             IF Decisive(s, v) = {} THEN "nomatch"
             ELSE Matches(s, AnyKinds[Least(Decisive(s, v))], v)
<1> DEFINE D == {i \in DOMAIN AnyKinds : Matches(s, AnyKinds[i], v) # "nomatch"}
<1>1. MatchesAny(s, v) = IF D = {} THEN "nomatch" ELSE Matches(s, AnyKinds[Least(D)], v)
    BY Zenon DEF MatchesAny, FirstDecisive, Least
<1>2. D = Decisive(s, v)
    BY DEF AnyKinds, Decisive
<1> HIDE DEF D
<1> QED
    BY <1>1, <1>2

LEMMA AnyIsSome ==
    ASSUME NEW s, NEW v
    PROVE  \/ /\ MatchesAny(s, v) = "nomatch"
              /\ \A kind \in AnyAsked : Matches(s, kind, v) = "nomatch"
           \/ \E kind \in AnyAsked :
                MatchesAny(s, v) = Matches(s, kind, v) /\ Matches(s, kind, v) # "nomatch"
<1> DEFINE D == Decisive(s, v)
           first == Least(D)
<1>1. D \in SUBSET (1 .. 7)
    BY DEF Decisive
<1>2. MatchesAny(s, v) = IF D = {} THEN "nomatch" ELSE Matches(s, AnyKinds[first], v)
    BY AnyIsFirst
<1>3. CASE D = {}
    BY <1>2, <1>3 DEF AnyAsked, Decisive
<1>4. CASE D # {}
  <2>1. first \in D
      BY <1>1, <1>4, LeastIndex
  <2>2. first \in 1 .. 7 /\ Matches(s, AnyKinds[first], v) # "nomatch"
      BY <2>1 DEF Decisive
  <2> QED
      BY <1>2, <1>4, <2>2 DEF AnyAsked
<1> QED
    BY <1>3, <1>4

LEMMA AllAreSome ==
    ASSUME NEW s, NEW v, Enabled(s)
    PROVE  \/ /\ MatchesAll(s, v) = "match"
              /\ \A kind \in AllAsked : SignalEnabled(s, kind) => Matches(s, kind, v) = "match"
           \/ \E kind \in AllAsked :
                /\ SignalEnabled(s, kind)
                /\ MatchesAll(s, v) = Matches(s, kind, v)
                /\ Matches(s, kind, v) # "match"
<1> DEFINE D == {i \in DOMAIN AllKinds : /\ SignalEnabled(s, AllKinds[i])
                                         /\ Matches(s, AllKinds[i], v) # "match"}
           first == Least(D)
<1>1. DOMAIN AllKinds = 1 .. 8
    BY DEF AllKinds
<1>2. MatchesAll(s, v) = IF D = {} THEN "match" ELSE Matches(s, AllKinds[first], v)
    BY Zenon DEF MatchesAll, FirstDecisive, Least
<1>3. CASE D = {}
    BY <1>1, <1>2, <1>3 DEF AllAsked
<1>4. CASE D # {}
  <2>1. first \in D
      BY <1>1, <1>4, LeastIndex
  <2> QED
      BY <1>1, <1>2, <1>4, <2>1 DEF AllAsked
<1> QED
    BY <1>3, <1>4

LEMMA AskedKinds ==
    /\ AnyAsked = {"labels", "commentSubstrings", "comments", "prBodySubstrings",
                   "branches", "branchPatterns", "autoMerge"}
    /\ AllAsked = AnyAsked \cup {"maxCommits"}
<1>1. 1 .. 7 = {1, 2, 3, 4, 5, 6, 7} /\ 1 .. 8 = {1, 2, 3, 4, 5, 6, 7, 8}
    OBVIOUS
<1> QED
    BY <1>1 DEF AnyAsked, AllAsked, AnyKinds, AllKinds

(* Only signals on comments that are configured can fail.                  *)
LEMMA OutcomesOfKinds ==
    ASSUME NEW s \in Askable, NEW v \in View, NEW kind \in AllAsked
    PROVE  /\ Matches(s, kind, v) \in SignalOutcome
           /\ Matches(s, kind, v) = "error" =>
                "comments" \in v.failing /\ (s.comments # {} \/ s.commentSubstrings # {})
<1>1. s \in SignalSet
    BY DEF Askable
<1> QED
    BY <1>1, PlainSignals, CommentSignals, AskedKinds DEF Matching, SignalOutcome

(* MatchesAny: a match is a signal that is shown, no match means that      *)
(* there is none, whatever fails.                                          *)
LEMMA AnyShows ==
    ASSUME NEW s \in Askable, NEW v \in View
    PROVE  /\ MatchesAny(s, v) \in SignalOutcome
           /\ MatchesAny(s, v) = "match" => ShowsAny(s, v)
           /\ MatchesAny(s, v) = "nomatch" => ~ ShowsAny(s, v)
           /\ MatchesAny(s, v) = "error" =>
                "comments" \in v.failing /\ (s.comments # {} \/ s.commentSubstrings # {})
<1>1. s \in SignalSet
    BY DEF Askable
<1>2. ShowsAny(s, v) <=>
        \/ \E l \in s.labels : \E m \in v.labels : Fold[l] = Fold[m]
        \/ \E text \in v.comments \cup {v.body} : text \cap s.commentSubstrings # {}
        \/ \E text \in v.comments \cup {v.body} : text \in s.comments
        \/ v.body \cap s.prBodySubstrings # {}
        \/ v.base \in s.branches
        \/ \E r \in s.branchPatterns : v.base \in MatchedBy[r]
        \/ s.autoMerge /\ v.autoMerge
  <2>1. \A text : text \cap s.commentSubstrings # {} => text # {}
      OBVIOUS
  <2>2. \A text : text \in s.comments => text # {}
      BY DEF Askable
  <2>3. v.base \in UNION {MatchedBy[r] : r \in s.branchPatterns}
          <=> \E r \in s.branchPatterns : v.base \in MatchedBy[r]
      OBVIOUS
  <2> QED
      BY <2>1, <2>2, <2>3 DEF ShowsAny
<1>3. ASSUME NEW kind \in AnyAsked, Matches(s, kind, v) = "match" PROVE ShowsAny(s, v)
    BY <1>1, <1>2, <1>3, PlainSignals, CommentSignals, AskedKinds DEF Matching
<1>4. ASSUME \A kind \in AnyAsked : Matches(s, kind, v) = "nomatch" PROVE ~ ShowsAny(s, v)
    BY <1>1, <1>2, <1>4, PlainSignals, CommentSignals, AskedKinds DEF Matching
<1> QED
    BY <1>3, <1>4, AnyIsSome, OutcomesOfKinds, AskedKinds DEF SignalOutcome

(* MatchesAll, when no call fails.                                         *)
LEMMA AllShow ==
    ASSUME NEW s \in Askable, NEW v \in View
    PROVE  /\ MatchesAll(s, v) \in SignalOutcome
           /\ v.failing = {} =>
                MatchesAll(s, v) = (IF ShowsAll(s, v) THEN "match" ELSE "nomatch")
<1>1. s \in SignalSet
    BY DEF Askable
<1>2. CASE ~ Enabled(s)
    BY <1>1, <1>2, EnabledIsSome DEF MatchesAll, SignalOutcome, ShowsAll
<1>3. CASE Enabled(s)
  <2>1. MatchesAll(s, v) \in SignalOutcome
      BY <1>3, AllAreSome, OutcomesOfKinds DEF SignalOutcome
  <2>2. s # NoSignals
      BY <1>1, <1>3, EnabledIsSome
  <2>3. ASSUME v.failing = {}, NEW kind \in AllAsked, SignalEnabled(s, kind),
               Matches(s, kind, v) # "match"
        PROVE  Matches(s, kind, v) = "nomatch" /\ ~ ShowsAll(s, v)
    <3>1. "comments" \notin v.failing /\ "commits" \notin v.failing
        BY <2>3
    <3>2. Matches(s, kind, v) = "nomatch"
        BY <2>3, <3>1, OutcomesOfKinds DEF SignalOutcome
    <3>3. CASE kind = "commentSubstrings"
      <4>1. ~ \E text \in v.comments \cup {v.body} : text \cap s.commentSubstrings # {}
          BY <2>3, <3>1, <3>2, <3>3, CommentSignals DEF Matching
      <4>2. s.commentSubstrings \cap (v.body \cup UNION v.comments) = {}
          BY <4>1
      <4> QED
          BY <1>1, <2>3, <3>2, <3>3, <4>2, EnabledKinds DEF ShowsAll
    <3>4. CASE kind = "comments"
      <4>1. ~ \E text \in v.comments \cup {v.body} : text \in s.comments
          BY <2>3, <3>1, <3>2, <3>4, CommentSignals DEF Matching
      <4>2. s.comments \cap (v.comments \cup {v.body}) = {}
          BY <4>1
      <4> QED
          BY <1>1, <2>3, <3>2, <3>4, <4>2, EnabledKinds DEF ShowsAll
    <3>5. CASE kind \in {"labels", "prBodySubstrings"}
      <4>1. v.body \cap s.prBodySubstrings = s.prBodySubstrings \cap v.body
          OBVIOUS
      <4> QED
          BY <1>1, <2>3, <3>2, <3>5, <4>1, PlainSignals, EnabledKinds DEF Matching, ShowsAll
    <3>6. CASE kind \in {"branches", "branchPatterns"}
        BY <1>1, <2>3, <3>2, <3>6, PlainSignals, EnabledKinds DEF Matching, ShowsAll
    <3>7. CASE kind \in {"maxCommits", "autoMerge"}
        BY <1>1, <2>3, <3>1, <3>2, <3>7, PlainSignals, EnabledKinds DEF Matching, ShowsAll
    <3> QED
        BY <3>2, <3>3, <3>4, <3>5, <3>6, <3>7, AskedKinds
  <2>4. ASSUME v.failing = {},
               \A kind \in AllAsked : SignalEnabled(s, kind) => Matches(s, kind, v) = "match"
        PROVE  ShowsAll(s, v)
    <3>1. /\ s.labels # {} => \E l \in s.labels : \E m \in v.labels : Fold[l] = Fold[m]
          /\ s.prBodySubstrings # {} => s.prBodySubstrings \cap v.body # {}
          /\ s.branches # {} => v.base \in s.branches
          /\ s.branchPatterns # {} => \E r \in s.branchPatterns : v.base \in MatchedBy[r]
          /\ s.maxCommits > 0 => v.commits <= s.maxCommits
          /\ s.autoMerge => v.autoMerge
        BY <1>1, <2>4, PlainSignals, EnabledKinds, AskedKinds DEF Matching
    <3>2. s.comments # {} => s.comments \cap (v.comments \cup {v.body}) # {}
      <4>1. s.comments # {} => \E text \in v.comments \cup {v.body} : text \in s.comments
          BY <1>1, <2>4, CommentSignals, EnabledKinds, AskedKinds DEF Matching
      <4> QED
          BY <4>1
    <3>3. s.commentSubstrings # {} => s.commentSubstrings \cap (v.body \cup UNION v.comments) # {}
      <4>1. s.commentSubstrings # {} =>
              \E text \in v.comments \cup {v.body} : text \cap s.commentSubstrings # {}
          BY <1>1, <2>4, CommentSignals, EnabledKinds, AskedKinds DEF Matching
      <4> QED
          BY <4>1
    <3> QED
        BY <2>2, <3>1, <3>2, <3>3 DEF ShowsAll
  <2> QED
      BY <1>3, <2>1, <2>3, <2>4, AllAreSome
<1> QED
    BY <1>2, <1>3

-----------------------------------------------------------------------------
(* The decisions.                                                          *)

LEMMA MissingStatuses ==
    ASSUME NEW required, NEW v
    PROVE  statusSetDifference(required, v.statuses) = {}
             <=> \A context \in required : Passed(context, v)
BY DEF statusSetDifference, Passed

LEMMA OpenBySignals ==
    ASSUME NEW c, c.ignore \in Askable, c.trigger \in Askable, NEW v \in View
    PROVE  /\ BySignals(c, v) \in {"open", "no", "error"}
           /\ BySignals(c, v) = "open" =>
                /\ ~ ShowsAny(c.ignore, v)
                /\ c.trigger # NoSignals => ShowsAny(c.trigger, v)
           /\ /\ v.failing = {}
              /\ ~ ShowsAny(c.ignore, v)
              /\ c.trigger # NoSignals => ShowsAny(c.trigger, v)
              => BySignals(c, v) = "open"
<1>1. /\ Enabled(c.ignore) <=> c.ignore # NoSignals
      /\ Enabled(c.trigger) <=> c.trigger # NoSignals
    BY EnabledIsSome DEF Askable
<1>2. ~ ShowsAny(NoSignals, v)
    BY DEF ShowsAny, NoSignals
<1>3. v.failing = {} => "comments" \notin v.failing
    OBVIOUS
<1>4. PICK i, t : i = c.ignore /\ t = c.trigger
    OBVIOUS
<1>5. i \in Askable /\ t \in Askable
    BY <1>4
<1> QED
    BY <1>1, <1>2, <1>3, <1>4, <1>5, AnyShows
       DEF BySignals, IsPRIgnored, IsPRTriggered, SignalOutcome

(* For every configuration and every pull request: it is merged exactly if *)
(* the configuration wants that (ShouldMergePR).                           *)
THEOREM MergeDecision ==
    ASSUME NEW c, c.ignore \in Askable, c.trigger \in Askable,
           c.allowMergeWithNoChecks \in BOOLEAN, NEW v \in View
    PROVE  MergesAsSaid(c, v)
<1> DEFINE required == v.required \cup c.requiredStatuses
<1>1. ByStatuses(required, v) = "yes" => \A context \in required : Passed(context, v)
    BY MissingStatuses DEF ByStatuses, Decide
<1>2. v.failing = {} /\ (\A context \in required : Passed(context, v))
        => ByStatuses(required, v) = "yes"
    BY MissingStatuses DEF ByStatuses, Decide
<1>3. v.failing = {} => "required" \notin v.failing
    OBVIOUS
<1> HIDE DEF required
<1>4. ShouldMergePR(c, v) =
        IF BySignals(c, v) # "open" THEN BySignals(c, v)
        ELSE IF "required" \in v.failing THEN "error"
        ELSE IF required = {} /\ ~ c.allowMergeWithNoChecks THEN "no"
        ELSE ByStatuses(required, v)
    BY DEF ShouldMergePR, required
<1>5. MergeWanted(c, v) <=>
        /\ ~ ShowsAny(c.ignore, v)
        /\ c.trigger # NoSignals => ShowsAny(c.trigger, v)
        /\ required # {} \/ c.allowMergeWithNoChecks
        /\ \A context \in required : Passed(context, v)
    BY DEF MergeWanted, required
<1> QED
    BY <1>1, <1>2, <1>3, <1>4, <1>5, OpenBySignals DEF MergesAsSaid

(* For every configuration and every pull request: it is updated exactly   *)
(* if the configuration asks for that (ShouldUpdatePR).                    *)
THEOREM UpdateDecision ==
    ASSUME NEW c, c.ignore \in Askable, c.trigger \in Askable, NEW v \in View
    PROVE  UpdatesAsSaid(c, v)
<1>1. ByStatuses(c.requiredStatuses, v) = "yes"
        => \A context \in c.requiredStatuses : Passed(context, v)
    BY MissingStatuses DEF ByStatuses, Decide
<1>2. v.failing = {} /\ (\A context \in c.requiredStatuses : Passed(context, v))
        => ByStatuses(c.requiredStatuses, v) = "yes"
    BY MissingStatuses DEF ByStatuses, Decide
<1>3. /\ Enabled(c.ignore) <=> c.ignore # NoSignals
      /\ Enabled(c.trigger) <=> c.trigger # NoSignals
    BY EnabledIsSome DEF Askable
<1>4. ShouldUpdatePR(c, v) =
        IF /\ c.ignore = NoSignals /\ c.trigger = NoSignals
           /\ c.ignoreDrafts = "unset" /\ c.requiredStatuses = {} THEN "no"
        ELSE IF BySignals(c, v) # "open" THEN BySignals(c, v)
        ELSE IF c.trigger # NoSignals THEN "yes"
        ELSE IF c.ignoreDrafts = "true" /\ v.draft THEN "no"
        ELSE IF c.requiredStatuses = {} THEN "yes"
        ELSE ByStatuses(c.requiredStatuses, v)
    BY <1>3 DEF ShouldUpdatePR
<1> QED
    BY <1>1, <1>2, <1>4, OpenBySignals DEF UpdatesAsSaid, UpdateWanted

LEMMA UndisturbedView ==
    ASSUME NEW v \in View
    PROVE  /\ Undisturbed(v) \in View
           /\ Undisturbed(v).failing = {}
           /\ Undisturbed(v).draft = v.draft
           /\ Undisturbed(v).required = v.required
           /\ \A s : ShowsAny(s, Undisturbed(v)) <=> ShowsAny(s, v)
           /\ \A context : Passed(context, Undisturbed(v)) <=> Passed(context, v)
<1>1. Undisturbed(v) \in View
    BY DEF View, Undisturbed
<1>2. /\ Undisturbed(v).failing = {}
      /\ Undisturbed(v).draft = v.draft
      /\ Undisturbed(v).required = v.required
      /\ Undisturbed(v).labels = v.labels
      /\ Undisturbed(v).body = v.body
      /\ Undisturbed(v).comments = v.comments
      /\ Undisturbed(v).base = v.base
      /\ Undisturbed(v).autoMerge = v.autoMerge
      /\ Undisturbed(v).statuses = v.statuses
    BY DEF View, Undisturbed
<1> QED
    BY <1>1, <1>2 DEF ShowsAny, Passed

(* A call that fails never makes Bulldozer merge or update: what it does   *)
(* then it would have done if all calls had succeeded.                     *)
THEOREM FailuresOnlyStopDecisions ==
    ASSUME NEW c, c.ignore \in Askable, c.trigger \in Askable, NEW v \in View
    PROVE  /\ c.allowMergeWithNoChecks \in BOOLEAN =>
                (ShouldMergePR(c, v) = "yes" => ShouldMergePR(c, Undisturbed(v)) = "yes")
           /\ ShouldUpdatePR(c, v) = "yes" => ShouldUpdatePR(c, Undisturbed(v)) = "yes"
<1>1. PICK u : u = Undisturbed(v)
    OBVIOUS
<1>2. /\ u \in View /\ u.failing = {} /\ u.draft = v.draft /\ u.required = v.required
      /\ \A s : ShowsAny(s, u) <=> ShowsAny(s, v)
      /\ \A context : Passed(context, u) <=> Passed(context, v)
    BY <1>1, UndisturbedView
<1>3. MergeWanted(c, u) <=> MergeWanted(c, v)
    BY <1>2 DEF MergeWanted
<1>4. UpdateWanted(c, u) <=> UpdateWanted(c, v)
    BY <1>2 DEF UpdateWanted
<1>5. c.allowMergeWithNoChecks \in BOOLEAN => MergesAsSaid(c, u) /\ MergesAsSaid(c, v)
    BY <1>2, MergeDecision
<1>6. UpdatesAsSaid(c, u) /\ UpdatesAsSaid(c, v)
    BY <1>2, UpdateDecision
<1> QED
    BY <1>1, <1>2, <1>3, <1>4, <1>5, <1>6 DEF MergesAsSaid, UpdatesAsSaid

(* The statuses of a pull request are nothing to its signals.              *)
LEMMA SignalsIgnoreStatuses ==
    ASSUME NEW v \in View, NEW statuses, NEW s
    PROVE  MatchesAny(s, [v EXCEPT !.statuses = statuses]) = MatchesAny(s, v)
<1>1. PICK u : u = [v EXCEPT !.statuses = statuses]
    OBVIOUS
<1>2. /\ u.labels = v.labels /\ u.body = v.body /\ u.comments = v.comments
      /\ u.base = v.base /\ u.commits = v.commits /\ u.failing = v.failing
      /\ u.autoMerge = v.autoMerge
    BY <1>1 DEF View
<1>3. \A kind \in AnyAsked : Matches(s, kind, u) = Matches(s, kind, v)
    BY <1>2, AskedKinds DEF Matches, MatchesSignal, CommentEquals, WithComments
<1>4. \A i \in 1 .. 7 : AnyKinds[i] \in AnyAsked
    BY DEF AnyAsked
<1>5. Decisive(s, u) = Decisive(s, v)
    BY <1>3, <1>4 DEF Decisive
<1>6. Decisive(s, v) # {} => Least(Decisive(s, v)) \in 1 .. 7
  <2>1. Decisive(s, v) \in SUBSET (1 .. 7)
      BY DEF Decisive
  <2> QED
      BY <2>1, LeastIndex
<1> QED
    BY <1>1, <1>3, <1>4, <1>5, <1>6, AnyIsFirst

(* More successful statuses, and nothing else, never revoke a decision to  *)
(* merge, for any configuration and whatever fails.                        *)
THEOREM SuccessKeepsDecision ==
    ASSUME NEW c, NEW v \in View, NEW statuses, v.statuses \subseteq statuses,
           ShouldMergePR(c, v) = "yes"
    PROVE  ShouldMergePR(c, [v EXCEPT !.statuses = statuses]) = "yes"
<1>1. PICK u : u = [v EXCEPT !.statuses = statuses]
    OBVIOUS
<1>2. u.required = v.required /\ u.failing = v.failing /\ u.statuses = statuses
    BY <1>1 DEF View
<1>3. BySignals(c, u) = BySignals(c, v)
    BY <1>1, SignalsIgnoreStatuses DEF BySignals, IsPRIgnored, IsPRTriggered
<1>4. \A context : Passed(context, v) => Passed(context, u)
    BY <1>2 DEF Passed
<1>5. ASSUME NEW required, ByStatuses(required, v) = "yes"
      PROVE  ByStatuses(required, u) = "yes"
    BY <1>2, <1>4, <1>5, MissingStatuses DEF ByStatuses, Decide
<1> QED
    BY <1>1, <1>2, <1>3, <1>5 DEF ShouldMergePR

-----------------------------------------------------------------------------
(* The method of a merge.                                                  *)

(* A conditional method, with a name from Names.                            *)
Conditional(Names) == [method : Names, trigger : Askable]

Used(method) == IF method \in ValidMethods THEN method ELSE "merge"

Unconditional(c, v) ==
    IF v.base \in DOMAIN c.branchMethod THEN c.branchMethod[v.base] ELSE c.method

DecisiveMethods(c, v) ==
    {i \in DOMAIN c.mergeMethods : MatchesAll(c.mergeMethods[i].trigger, v) # "nomatch"}

LEMMA MethodIsFirst ==
    ASSUME NEW c, NEW v
    PROVE  DetermineMergeMethod(c, v) =
             LET D == DecisiveMethods(c, v)
             IN  IF D = {} THEN Used(Unconditional(c, v))
                 ELSE IF MatchesAll(c.mergeMethods[Least(D)].trigger, v) = "error" THEN "error"
                 ELSE Used(c.mergeMethods[Least(D)].method)
<1> DEFINE D == {i \in DOMAIN c.mergeMethods :
                    IsMergeMethodTriggered(c.mergeMethods[i].trigger, v) # "nomatch"}
           chosen == IF D = {} THEN Unconditional(c, v) ELSE c.mergeMethods[Least(D)].method
<1>1. DetermineMergeMethod(c, v) =
        IF D # {} /\ IsMergeMethodTriggered(c.mergeMethods[Least(D)].trigger, v) = "error"
          THEN "error"
        ELSE IF chosen \in ValidMethods THEN chosen ELSE "merge"
    BY Zenon DEF DetermineMergeMethod, Least, Unconditional
<1>2. D = DecisiveMethods(c, v)
    BY DEF IsMergeMethodTriggered, DecisiveMethods
<1> HIDE DEF D
<1> QED
    BY <1>1, <1>2 DEF Used, IsMergeMethodTriggered

(* For every list of conditional methods and every pull request: when no   *)
(* call fails the first of them whose signals are all shown is used, and   *)
(* if there is none the method of the base branch or the general one; a    *)
(* merge is never asked for with anything but a method (Used).             *)
THEOREM MethodDecision ==
    ASSUME NEW c, NEW Names, c.mergeMethods \in Seq(Conditional(Names)), NEW v \in View
    PROVE  LET shown == {i \in DOMAIN c.mergeMethods : ShowsAll(c.mergeMethods[i].trigger, v)}
           IN  /\ DetermineMergeMethod(c, v) \in ValidMethods \cup {"error"}
               /\ v.failing = {} =>
                    /\ shown = {} => DetermineMergeMethod(c, v) = Used(Unconditional(c, v))
                    /\ \A i \in shown : (\A j \in shown : i <= j) =>
                         DetermineMergeMethod(c, v) = Used(c.mergeMethods[i].method)
<1> DEFINE D == DecisiveMethods(c, v)
           shown == {i \in DOMAIN c.mergeMethods : ShowsAll(c.mergeMethods[i].trigger, v)}
           first == Least(D)
<1>0. ASSUME NEW i \in DOMAIN c.mergeMethods PROVE c.mergeMethods[i].trigger \in Askable
  <2>1. PICK m : m = c.mergeMethods
      OBVIOUS
  <2>2. m \in Seq(Conditional(Names)) /\ i \in DOMAIN m
      BY <1>0, <2>1
  <2>3. m[i] \in Conditional(Names)
      BY <2>2
  <2> QED
      BY <2>1, <2>3 DEF Conditional
<1>1. D \in SUBSET Nat /\ shown \in SUBSET Nat
    BY DEF DecisiveMethods
<1>2. \A m : Used(m) \in ValidMethods
    BY DEF Used, ValidMethods
<1>3. DetermineMergeMethod(c, v) =
        IF D = {} THEN Used(Unconditional(c, v))
        ELSE IF MatchesAll(c.mergeMethods[first].trigger, v) = "error" THEN "error"
        ELSE Used(c.mergeMethods[first].method)
    BY MethodIsFirst
<1>4. ASSUME v.failing = {} PROVE D = shown
  <2>1. ASSUME NEW i \in DOMAIN c.mergeMethods PROVE i \in D <=> i \in shown
    <3>1. c.mergeMethods[i].trigger \in Askable
        BY <1>0
    <3>2. MatchesAll(c.mergeMethods[i].trigger, v)
            = (IF ShowsAll(c.mergeMethods[i].trigger, v) THEN "match" ELSE "nomatch")
        BY <1>4, <3>1, AllShow
    <3> QED
        BY <3>2 DEF DecisiveMethods
  <2> QED
      BY <2>1 DEF DecisiveMethods
<1>5. ASSUME v.failing = {}, NEW i \in shown, \A j \in shown : i <= j
      PROVE  DetermineMergeMethod(c, v) = Used(c.mergeMethods[i].method)
  <2>1. D = shown
      BY <1>4, <1>5
  <2>2. first \in shown /\ first <= i
      BY <1>1, <1>5, <2>1, LeastIndex
  <2>3. first = i
      BY <1>1, <1>5, <2>2
  <2>4. c.mergeMethods[i].trigger \in Askable /\ ShowsAll(c.mergeMethods[i].trigger, v)
      BY <1>0, <1>5
  <2>5. MatchesAll(c.mergeMethods[i].trigger, v) = "match"
      BY <1>5, <2>4, AllShow
  <2> QED
      BY <1>3, <2>1, <2>2, <2>3, <2>5
<1> HIDE DEF D, first
<1> QED
    BY <1>2, <1>3, <1>4, <1>5

-----------------------------------------------------------------------------
(* Configurations of version 0.4.                                          *)

DefaultLabels == UpdateLabels \cup MergeLabels \cup IgnoreLabels

LabelsOnly(labels) == [NoSignals EXCEPT !.labels = labels]

LEMMA NothingShows ==
    ASSUME NEW v PROVE NoSignals \in Askable /\ ~ ShowsAny(NoSignals, v)
BY DEF NoSignals, Askable, SignalSet, Text, ShowsAny

LEMMA LabelsShow ==
    ASSUME NEW labels \in SUBSET DefaultLabels, labels # {}, NEW v
    PROVE  /\ LabelsOnly(labels) \in Askable
           /\ LabelsOnly(labels) # NoSignals
           /\ ShowsAny(LabelsOnly(labels), v) <=> \E l \in v.labels : Fold[l] \in labels
<1>1. PICK s : s = LabelsOnly(labels)
    OBVIOUS
<1>2. s = [labels |-> labels, commentSubstrings |-> {}, comments |-> {},
           prBodySubstrings |-> {}, branches |-> {}, branchPatterns |-> {},
           maxCommits |-> 0, autoMerge |-> FALSE]
    BY <1>1 DEF LabelsOnly, NoSignals
<1>3. s \in Askable
    BY <1>2, ConfigAssumption DEF Askable, SignalSet, Text, DefaultLabels
<1>4. s # NoSignals
    BY <1>2 DEF NoSignals
<1>5. \A l \in labels : Fold[l] = l
    BY ConfigAssumption DEF DefaultLabels
<1>6. ShowsAny(s, v) <=> \E l \in labels : \E m \in v.labels : Fold[l] = Fold[m]
    BY <1>2 DEF ShowsAny
<1>7. (\E l \in labels : \E m \in v.labels : Fold[l] = Fold[m])
        <=> \E m \in v.labels : Fold[m] \in labels
    BY <1>5
<1> QED
    BY <1>1, <1>3, <1>4, <1>6, <1>7

LEMMA MergeWordShows ==
    ASSUME NEW v
    PROVE  LET s == [NoSignals EXCEPT !.commentSubstrings = {MergeWord}]
           IN  /\ s \in Askable
               /\ s # NoSignals
               /\ ShowsAny(s, v) <=> \E text \in v.comments \cup {v.body} : MergeWord \in text
<1>1. PICK s : s = [NoSignals EXCEPT !.commentSubstrings = {MergeWord}]
    OBVIOUS
<1>2. s = [labels |-> {}, commentSubstrings |-> {MergeWord}, comments |-> {},
           prBodySubstrings |-> {}, branches |-> {}, branchPatterns |-> {},
           maxCommits |-> 0, autoMerge |-> FALSE]
    BY <1>1 DEF NoSignals
<1>3. s \in Askable
    BY <1>2, ConfigAssumption DEF Askable, SignalSet, Text
<1>4. s # NoSignals
    BY <1>2 DEF NoSignals
<1>5. ShowsAny(s, v) <=> \E text \in v.comments \cup {v.body} : text \cap {MergeWord} # {}
    BY <1>2 DEF ShowsAny
<1>6. \A text : text \cap {MergeWord} # {} <=> MergeWord \in text
    OBVIOUS
<1> QED
    BY <1>1, <1>3, <1>4, <1>5, <1>6

(* What such a configuration is read as.                                   *)
ReadAsV0(config, mode, strategy, deletes) ==
    /\ config.merge.trigger = ModeSignals(mode).trigger
    /\ config.merge.ignore = ModeSignals(mode).ignore
    /\ config.merge.requiredStatuses = {}
    /\ config.merge.allowMergeWithNoChecks = FALSE
    /\ config.merge.mergeMethods = <<>>
    /\ config.merge.branchMethod = <<>>
    /\ config.merge.method = strategy
    /\ config.merge.deleteAfterMerge = deletes
    /\ config.update.trigger = LabelsOnly(UpdateLabels)
    /\ config.update.ignore = NoSignals
    /\ config.update.ignoreDrafts = "unset"
    /\ config.update.requiredStatuses = {}

LEMMA V0Read ==
    ASSUME NEW mode \in Modes, NEW strategy, NEW deletes
    PROVE  ReadAsV0(ParseConfig(V0(mode, strategy, deletes)).config, mode, strategy, deletes)
<1>1. PICK doc : doc = V0(mode, strategy, deletes)
    OBVIOUS
<1>2. /\ doc.format = "v0" /\ doc.mode = mode /\ doc.strategy = strategy
      /\ doc.deleteAfterMerge = deletes
    BY <1>1 DEF V0
<1>3. ParseConfig(doc).config = parseConfigV0(doc)
    BY <1>2 DEF ParseConfig, Found
<1>4. /\ parseConfigV0(doc).merge.trigger = ModeSignals(mode).trigger
      /\ parseConfigV0(doc).merge.ignore = ModeSignals(mode).ignore
      /\ parseConfigV0(doc).merge.requiredStatuses = {}
      /\ parseConfigV0(doc).merge.allowMergeWithNoChecks = FALSE
      /\ parseConfigV0(doc).merge.mergeMethods = <<>>
      /\ parseConfigV0(doc).merge.branchMethod = <<>>
      /\ parseConfigV0(doc).merge.method = strategy
      /\ parseConfigV0(doc).merge.deleteAfterMerge = deletes
    BY <1>2 DEF parseConfigV0, MergeSection
<1>5. /\ parseConfigV0(doc).update.trigger = LabelsOnly(UpdateLabels)
      /\ parseConfigV0(doc).update.ignore = NoSignals
      /\ parseConfigV0(doc).update.ignoreDrafts = "unset"
      /\ parseConfigV0(doc).update.requiredStatuses = {}
    BY DEF parseConfigV0, UpdateSection, LabelsOnly
<1>6. ReadAsV0(parseConfigV0(doc), mode, strategy, deletes)
    BY <1>4, <1>5 DEF ReadAsV0
<1> QED
    BY <1>1, <1>3, <1>6

LEMMA ModeShows ==
    ASSUME NEW mode \in Modes, NEW v
    PROVE  LET s == ModeSignals(mode)
           IN  /\ s.trigger \in Askable /\ s.ignore \in Askable
               /\ (~ ShowsAny(s.ignore, v) /\ (s.trigger # NoSignals => ShowsAny(s.trigger, v)))
                    <=> CASE mode = "whitelist" -> \E l \in v.labels : Fold[l] \in MergeLabels
                          [] mode = "blacklist" -> \A l \in v.labels : Fold[l] \notin IgnoreLabels
                          [] mode = "pr_body"   ->
                                \E text \in v.comments \cup {v.body} : MergeWord \in text
<1>1. /\ MergeLabels \in SUBSET DefaultLabels /\ MergeLabels # {}
      /\ IgnoreLabels \in SUBSET DefaultLabels /\ IgnoreLabels # {}
    BY DEF DefaultLabels, MergeLabels, IgnoreLabels
<1>2. CASE mode = "whitelist"
  <2>1. /\ ModeSignals(mode).trigger = LabelsOnly(MergeLabels)
        /\ ModeSignals(mode).ignore = NoSignals
      BY <1>2 DEF ModeSignals, LabelsOnly
  <2> QED
      BY <1>1, <1>2, <2>1, NothingShows, LabelsShow
<1>3. CASE mode = "blacklist"
  <2>1. /\ ModeSignals(mode).trigger = NoSignals
        /\ ModeSignals(mode).ignore = LabelsOnly(IgnoreLabels)
      BY <1>3 DEF ModeSignals, LabelsOnly
  <2> QED
      BY <1>1, <1>3, <2>1, NothingShows, LabelsShow
<1>4. CASE mode = "pr_body"
  <2>1. /\ ModeSignals(mode).trigger = [NoSignals EXCEPT !.commentSubstrings = {MergeWord}]
        /\ ModeSignals(mode).ignore = NoSignals
      BY <1>4 DEF ModeSignals
  <2> QED
      BY <1>4, <2>1, NothingShows, MergeWordShows
<1> QED
    BY <1>2, <1>3, <1>4 DEF Modes

(* A configuration of version 0.4 keeps its meaning, for every mode, every *)
(* name of a strategy, with and without the deletion of merged branches,   *)
(* and for every pull request (config_v0.go).                              *)
THEOREM V0KeepsItsMeaning ==
    ASSUME NEW mode \in Modes, NEW strategy, NEW deletes, NEW v \in View
    PROVE  V0MeansTheSame(V0(mode, strategy, deletes), v)
<1>1. PICK doc : doc = V0(mode, strategy, deletes)
    OBVIOUS
<1>2. PICK config, m, u : config = ParseConfig(doc).config /\ m = config.merge /\ u = config.update
    OBVIOUS
<1>3. doc.mode = mode /\ doc.strategy = strategy /\ doc.deleteAfterMerge = deletes
    BY <1>1 DEF V0
<1>4. /\ m.trigger = ModeSignals(mode).trigger /\ m.ignore = ModeSignals(mode).ignore
      /\ m.requiredStatuses = {} /\ m.allowMergeWithNoChecks = FALSE
      /\ m.mergeMethods = <<>> /\ m.branchMethod = <<>> /\ m.method = strategy
      /\ u.trigger = LabelsOnly(UpdateLabels) /\ u.ignore = NoSignals
      /\ u.ignoreDrafts = "unset" /\ u.requiredStatuses = {}
      /\ m.deleteAfterMerge = deletes
  <2>1. ReadAsV0(config, mode, strategy, deletes)
      BY <1>1, <1>2, V0Read
  <2> QED
      BY <1>2, <2>1 DEF ReadAsV0
<1>5. MergeWanted(m, v) <=> WantedByMode(mode, v)
  <2>1. (~ ShowsAny(m.ignore, v) /\ (m.trigger # NoSignals => ShowsAny(m.trigger, v)))
          <=> CASE mode = "whitelist" -> \E l \in v.labels : Fold[l] \in MergeLabels
                [] mode = "blacklist" -> \A l \in v.labels : Fold[l] \notin IgnoreLabels
                [] mode = "pr_body"   ->
                      \E text \in v.comments \cup {v.body} : MergeWord \in text
      BY <1>4, ModeShows
  <2>2. v.required \cup m.requiredStatuses = v.required /\ ~ m.allowMergeWithNoChecks
      BY <1>4
  <2> QED
      BY <2>1, <2>2, Zenon DEF MergeWanted, WantedByMode
<1>6. MergesAsSaid(m, v)
  <2>1. m.trigger \in Askable /\ m.ignore \in Askable /\ m.allowMergeWithNoChecks \in BOOLEAN
      BY <1>4, ModeShows
  <2> QED
      BY <2>1, MergeDecision
<1>7. ShouldUpdatePR(u, v) = "yes" <=> \E l \in v.labels : Fold[l] \in UpdateLabels
  <2>1. UpdateLabels \in SUBSET DefaultLabels /\ UpdateLabels # {}
      BY DEF DefaultLabels, UpdateLabels
  <2>2. /\ u.trigger \in Askable /\ u.ignore \in Askable /\ u.trigger # NoSignals
        /\ ShowsAny(u.trigger, v) <=> \E l \in v.labels : Fold[l] \in UpdateLabels
        /\ ~ ShowsAny(u.ignore, v)
      BY <1>4, <2>1, LabelsShow, NothingShows
  <2>3. u.trigger.comments = {} /\ u.trigger.commentSubstrings = {}
      BY <1>4 DEF LabelsOnly, NoSignals
  <2>4. MatchesAny(u.trigger, v) = "match" <=> \E l \in v.labels : Fold[l] \in UpdateLabels
      BY <2>2, <2>3, AnyShows DEF SignalOutcome
  <2>5. Enabled(u.trigger) /\ ~ Enabled(u.ignore)
      BY <1>4, <2>2, EnabledIsSome DEF Askable
  <2> QED
      BY <2>4, <2>5 DEF ShouldUpdatePR, BySignals, IsPRTriggered
<1>8. DetermineMergeMethod(m, v) = IF strategy \in ValidMethods THEN strategy ELSE "merge"
  <2>1. DecisiveMethods(m, v) = {} /\ Unconditional(m, v) = strategy
      BY <1>4 DEF DecisiveMethods, Unconditional
  <2> QED
      BY <2>1, MethodIsFirst DEF Used
<1> QED
  <2>1. V0MeansTheSame(doc, v) <=>
          /\ ShouldMergePR(m, v) = "yes" => WantedByMode(mode, v)
          /\ v.failing = {} /\ WantedByMode(mode, v) => ShouldMergePR(m, v) = "yes"
          /\ ShouldUpdatePR(u, v) = "yes" <=> \E l \in v.labels : Fold[l] \in UpdateLabels
          /\ DetermineMergeMethod(m, v)
               = (IF strategy \in ValidMethods THEN strategy ELSE "merge")
          /\ m.deleteAfterMerge = deletes
      BY <1>2, <1>3 DEF V0MeansTheSame
  <2> QED
      BY <1>1, <1>4, <1>5, <1>6, <1>7, <1>8, <2>1 DEF MergesAsSaid

-----------------------------------------------------------------------------
(* The old names of the sections.                                          *)

LEMMA PreferredSignals ==
    ASSUME NEW new \in SignalSet, NEW old \in SignalSet
    PROVE  Preferred(new, old) = IF new # NoSignals THEN new ELSE old
BY EnabledIsSome DEF Preferred

LegacyConfig(old, new, other) ==
    ParseConfig(V1(1, [MergeSection EXCEPT !.blacklist = old, !.ignore = new,
                                           !.whitelist = other,
                                           !.allowMergeWithNoChecks = TRUE],
                      [UpdateSection EXCEPT !.blacklist = old, !.whitelist = other])).config

ReadAsLegacy(config, old, new, other) ==
    /\ config.merge.trigger = other
    /\ config.merge.ignore = (IF new # NoSignals THEN new ELSE old)
    /\ config.merge.requiredStatuses = {}
    /\ config.merge.allowMergeWithNoChecks = TRUE
    /\ config.update.trigger = other
    /\ config.update.ignore = old
    /\ config.update.ignoreDrafts = "unset"
    /\ config.update.requiredStatuses = {}

LEMMA RenamedSections ==
    ASSUME NEW new \in SignalSet, NEW old \in SignalSet, NEW other \in SignalSet
    PROVE  ReadAsLegacy(LegacyConfig(old, new, other), old, new, other)
<1>1. PICK merge, update :
        /\ merge = [MergeSection EXCEPT !.blacklist = old, !.ignore = new, !.whitelist = other,
                                        !.allowMergeWithNoChecks = TRUE]
        /\ update = [UpdateSection EXCEPT !.blacklist = old, !.whitelist = other]
    OBVIOUS
<1>2. LegacyConfig(old, new, other) = [merge |-> Renamed(merge), update |-> Renamed(update)]
    BY <1>1 DEF LegacyConfig, ParseConfig, V1, Found, parseConfigV1
<1>3. NoSignals \in SignalSet
    BY NothingShows DEF Askable
<1>4. /\ Preferred(NoSignals, other) = other
      /\ Preferred(NoSignals, old) = old
      /\ Preferred(new, old) = IF new # NoSignals THEN new ELSE old
    BY <1>3, PreferredSignals
<1>5. /\ Renamed(merge).trigger = other
      /\ Renamed(merge).ignore = (IF new # NoSignals THEN new ELSE old)
      /\ Renamed(merge).requiredStatuses = {}
      /\ Renamed(merge).allowMergeWithNoChecks = TRUE
    BY <1>1, <1>4 DEF Renamed, MergeSection
<1>6. /\ Renamed(update).trigger = other
      /\ Renamed(update).ignore = old
      /\ Renamed(update).ignoreDrafts = "unset"
      /\ Renamed(update).requiredStatuses = {}
    BY <1>1, <1>4 DEF Renamed, UpdateSection
<1> QED
    BY <1>2, <1>5, <1>6 DEF ReadAsLegacy

(* For whatever is written under the old and the new names and for every   *)
(* pull request: what is listed under the old names counts as under the    *)
(* new ones, and the new name decides alone where there is something under *)
(* it (config_v1.go).                                                      *)
THEOREM LegacyApplies ==
    ASSUME NEW old \in Askable, NEW new \in Askable, NEW other \in Askable, NEW v \in View
    PROVE  LegacyMeans(old, new, other, v)
<1>1. PICK config, m, u, ignores :
        /\ config = LegacyConfig(old, new, other)
        /\ m = config.merge /\ u = config.update
        /\ ignores = IF new # NoSignals THEN new ELSE old
    OBVIOUS
<1>2. ReadAsLegacy(config, old, new, other)
    BY <1>1, RenamedSections DEF Askable
<1>3. /\ m.trigger = other /\ m.ignore = ignores /\ m.requiredStatuses = {}
      /\ m.allowMergeWithNoChecks = TRUE
      /\ u.trigger = other /\ u.ignore = old
      /\ u.ignoreDrafts = "unset" /\ u.requiredStatuses = {}
    BY <1>1, <1>2 DEF ReadAsLegacy
<1>4. MergeWanted(m, v) <=> /\ ~ ShowsAny(ignores, v)
                            /\ other # NoSignals => ShowsAny(other, v)
                            /\ \A context \in v.required : Passed(context, v)
  <2>1. v.required \cup m.requiredStatuses = v.required
      BY <1>3
  <2> QED
      BY <1>3, <2>1 DEF MergeWanted
<1>5. UpdateWanted(u, v) <=> /\ {old, other} # {NoSignals}
                             /\ ~ ShowsAny(old, v)
                             /\ other # NoSignals => ShowsAny(other, v)
  <2>1. {old, other} # {NoSignals} <=> old # NoSignals \/ other # NoSignals
      OBVIOUS
  <2> QED
      BY <1>3, <2>1 DEF UpdateWanted
<1>6. v.failing = {} => (ShouldMergePR(m, v) = "yes" <=> MergeWanted(m, v))
  <2>1. ignores \in Askable
      BY <1>1
  <2>2. MergesAsSaid(m, v)
      BY <1>3, <2>1, MergeDecision
  <2> QED
      BY <2>2 DEF MergesAsSaid
<1>7. v.failing = {} => (ShouldUpdatePR(u, v) = "yes" <=> UpdateWanted(u, v))
  <2>1. UpdatesAsSaid(u, v)
      BY <1>3, UpdateDecision
  <2> QED
      BY <2>1 DEF UpdatesAsSaid
<1>8. LegacyMeans(old, new, other, v) <=>
        (v.failing = {} =>
           /\ ShouldMergePR(m, v) = "yes" <=>
                /\ ~ ShowsAny(ignores, v)
                /\ other # NoSignals => ShowsAny(other, v)
                /\ \A context \in v.required : Passed(context, v)
           /\ ShouldUpdatePR(u, v) = "yes" <=>
                /\ {old, other} # {NoSignals}
                /\ ~ ShowsAny(old, v)
                /\ other # NoSignals => ShowsAny(other, v))
    BY <1>1, Zenon DEF LegacyMeans, LegacyConfig
<1> QED
    BY <1>4, <1>5, <1>6, <1>7, <1>8

-----------------------------------------------------------------------------
(* Which configuration it is, and the message of a squash.                 *)

LEMMA FirstFile ==
    ASSUME NEW S, NEW files \in Seq(S)
    PROVE  /\ (\A i \in DOMAIN files : files[i] = Absent) => LoadConfig(files) = Absent
           /\ \A i \in DOMAIN files :
                /\ files[i] # Absent
                /\ \A j \in DOMAIN files : j < i => files[j] = Absent
                => LoadConfig(files) = files[i]
<1> DEFINE present == {i \in DOMAIN files : files[i] # Absent}
<1>1. LoadConfig(files) = IF present = {} THEN Absent ELSE files[Least(present)]
    BY Zenon DEF LoadConfig, Least
<1>2. DOMAIN files \in SUBSET Nat
    OBVIOUS
<1>3. ASSUME NEW i \in DOMAIN files, files[i] # Absent,
             \A j \in DOMAIN files : j < i => files[j] = Absent
      PROVE  LoadConfig(files) = files[i]
  <2>1. present \in SUBSET Nat /\ i \in present
      BY <1>2, <1>3
  <2>2. Least(present) \in present /\ Least(present) <= i
      BY <2>1, LeastIndex
  <2>3. ~ (Least(present) < i)
      BY <1>3, <2>2
  <2>4. Least(present) = i
      BY <1>2, <2>1, <2>2, <2>3
  <2> QED
      BY <1>1, <2>1, <2>4
<1> QED
    BY <1>1, <1>3

(* Whatever the files are: the first one that is there decides alone, even *)
(* when it cannot be read or is no configuration; the server's default     *)
(* counts only when there is no file at all (FetchConfig).                 *)
THEOREM FirstFileDecides ==
    ASSUME NEW S, NEW files \in Seq(S), NEW default
    PROVE  /\ (\A i \in DOMAIN files : files[i] = Absent) => FetchConfig(files, default) = default
           /\ \A i \in DOMAIN files :
                /\ files[i] # Absent
                /\ \A j \in DOMAIN files : j < i => files[j] = Absent
                => FetchConfig(files, default)
                     = IF files[i] = Failing THEN [outcome |-> "error"]
                                             ELSE ParseConfig(files[i])
<1>1. Absent # Failing
    BY DEF Absent, Failing
<1>2. \A file : LoadConfig(files) = file =>
        FetchConfig(files, default) =
          IF file = Failing THEN [outcome |-> "error"]
          ELSE IF file = Absent THEN default ELSE ParseConfig(file)
    BY <1>1 DEF FetchConfig
<1>3. ASSUME \A i \in DOMAIN files : files[i] = Absent
      PROVE  FetchConfig(files, default) = default
  <2>1. LoadConfig(files) = Absent
      BY <1>3, FirstFile
  <2> QED
      BY <1>1, <1>2, <2>1
<1>4. ASSUME NEW i \in DOMAIN files, files[i] # Absent,
             \A j \in DOMAIN files : j < i => files[j] = Absent
      PROVE  FetchConfig(files, default)
               = IF files[i] = Failing THEN [outcome |-> "error"] ELSE ParseConfig(files[i])
  <2>1. LoadConfig(files) = files[i]
      BY <1>4, FirstFile
  <2> QED
      BY <1>2, <1>4, <2>1
<1> QED
    BY <1>3, <1>4

(* For every pull request: the message of a squash keeps to the options    *)
(* (calculateCommitMessage, MergePR), for each of the strategies.          *)
THEOREM SquashKeepsToOptions ==
    ASSUME NEW body \in {"", "pull_request_body", "summarize_commits", "empty_body"},
           NEW delimiter \in BOOLEAN, NEW v \in View
    PROVE  SquashIsAsAsked(body, delimiter, v)
<1>1. PICK p, o :
        /\ p = [title |-> "first_commit_title", body |-> body, delimiter |-> delimiter]
        /\ o = [p EXCEPT !.title = IF @ = "" THEN "pull_request_title" ELSE @,
                         !.body = IF @ = "" THEN "empty_body" ELSE @]
    OBVIOUS
<1>2. SquashMessage(p, v)
        = [message |-> calculateCommitMessage(o, v), title |-> calculateCommitTitle(o, v)]
    BY <1>1 DEF SquashMessage
<1>3. /\ o.title = "first_commit_title"
      /\ o.body = IF body = "" THEN "empty_body" ELSE body
      /\ o.delimiter = delimiter
  <2>1. p.title = "first_commit_title" /\ p.body = body /\ p.delimiter = delimiter
      BY <1>1
  <2>2. p.title # ""
      BY <2>1
  <2> QED
      BY <1>1, <2>1, <2>2
<1>4. calculateCommitTitle(o, v) = "error" <=> "commits" \in v.failing
    BY <1>3 DEF calculateCommitTitle
<1>5. calculateCommitMessage(o, v) =
        IF body = "pull_request_body" /\ delimiter
          THEN IF CommitWord \in v.body THEN "section" ELSE "empty"
        ELSE IF body = "pull_request_body" /\ v.body # {} THEN "body"
        ELSE IF body \in {"", "empty_body"} THEN "empty" ELSE "github default"
  <2>1. o.body = IF body = "" THEN "empty_body" ELSE body
      BY <1>3
  <2>2. o.delimiter = delimiter
      BY <1>3
  <2>3. CASE delimiter = TRUE
      BY <2>1, <2>2, <2>3 DEF calculateCommitMessage
  <2>4. CASE delimiter = FALSE
      BY <2>1, <2>2, <2>4 DEF calculateCommitMessage
  <2> QED
      BY <2>3, <2>4
<1>6. SquashIsAsAsked(body, delimiter, v) <=>
        LET squash == [message |-> calculateCommitMessage(o, v),
                       title |-> calculateCommitTitle(o, v)]
        IN  /\ squash.message = "github default" =>
                 \/ body = "summarize_commits"
                 \/ body = "pull_request_body" /\ ~ delimiter /\ v.body = {}
            /\ delimiter => squash.message # "body"
            /\ squash.message = "section" => CommitWord \in v.body
            /\ body = "" => squash.message = "empty"
            /\ squash.title = "error" <=> "commits" \in v.failing
    BY <1>1, <1>2, Zenon DEF SquashIsAsAsked
<1> QED
    BY <1>4, <1>5, <1>6

-----------------------------------------------------------------------------
(* The properties of MCEvaluate: at every moment of the life of the pull   *)
(* request its context answers with a view, so that the theorems apply.    *)

Seen == [labels : SUBSET MCLabels, body : SUBSET MCWords, comments : SUBSET SUBSET MCWords,
         base : MCBranches, commits : Nat, autoMerge : BOOLEAN, draft : BOOLEAN,
         required : SUBSET MCContexts, statuses : SUBSET MCContexts, failing : SUBSET Calls]

LEMMA SeenIsView == Seen \subseteq View
BY MCAssumption DEF Seen, View, Text

SeenInv == view \in Seen

LEMMA SeenInit == Init => SeenInv
<1> SUFFICES ASSUME Init PROVE view \in Seen
    BY DEF SeenInv
<1>1. PICK base, draft, required : base = view.base /\ draft = view.draft
                                     /\ required = view.required
    OBVIOUS
<1>2. view = [labels |-> {}, body |-> {}, comments |-> {}, base |-> base, commits |-> 1,
              autoMerge |-> FALSE, draft |-> draft, required |-> required,
              statuses |-> {}, failing |-> {}]
    BY <1>1 DEF Init
<1>3. base \in MCBranches /\ draft \in BOOLEAN /\ required \in {{}, {TravisBase}}
    BY <1>1 DEF Init
<1>4. required \in SUBSET MCContexts
    BY <1>3 DEF MCContexts
<1> QED
    BY <1>2, <1>3, <1>4 DEF Seen

LEMMA SeenStep == SeenInv /\ [Next]_view => SeenInv'
<1> SUFFICES ASSUME view \in Seen, [Next]_view PROVE view' \in Seen
    BY DEF SeenInv
<1>1. CASE Label
  <2>1. PICK l \in {"Merge When Ready", "wip"} :
            view' = [view EXCEPT !.labels = IF l \in @ THEN @ \ {l} ELSE @ \cup {l}]
      BY <1>1 DEF Label
  <2>2. l \in MCLabels
      BY DEF MCLabels, IgnoreLabels
  <2>3. PICK labels \in SUBSET MCLabels : view' = [view EXCEPT !.labels = labels]
      BY <2>1, <2>2 DEF Seen
  <2> QED
      BY <2>3 DEF Seen
<1>2. CASE EditBody
    BY <1>2 DEF EditBody, Seen, MCWords
<1>3. CASE Comment
    BY <1>3 DEF Comment, Seen, MCWords
<1>4. CASE PushCommit
  <2>1. PICK commits \in Nat : view' = [view EXCEPT !.commits = commits, !.statuses = {}]
    <3>1. view.commits + 1 \in Nat
        BY DEF Seen
    <3>2. view' = [view EXCEPT !.commits = view.commits + 1, !.statuses = {}]
        BY <1>4 DEF PushCommit
    <3> QED
        BY <3>1, <3>2
  <2>2. [view EXCEPT !.commits = commits] \in Seen
      BY DEF Seen
  <2>3. view' = [[view EXCEPT !.commits = commits] EXCEPT !.statuses = {}]
      BY <2>1
  <2> QED
      BY <2>2, <2>3 DEF Seen
<1>5. CASE EnableAutoMerge
    BY <1>5 DEF EnableAutoMerge, Seen
<1>6. CASE ReadyForReview
    BY <1>6 DEF ReadyForReview, Seen
<1>7. CASE Report
  <2>1. {"ci", "continuous-integration/travis-ci/pr"} \subseteq MCContexts
      BY DEF MCContexts, TravisVariants
  <2> QED
      BY <1>7, <2>1 DEF Report, Seen
<1>8. CASE CallsFail
    BY <1>8 DEF CallsFail, Seen
<1>9. CASE CallsSucceed
    BY <1>9 DEF CallsSucceed, Seen
<1>10. CASE UNCHANGED view
    BY <1>10
<1> QED
    BY <1>1, <1>2, <1>3, <1>4, <1>5, <1>6, <1>7, <1>8, <1>9, <1>10 DEF Next

(* The answers of the context always are answers that a context can give.  *)
THEOREM AlwaysSeen == Spec => []SeenInv
BY SeenInit, SeenStep, PTL DEF Spec

LEMMA AskableWith ==
    ASSUME NEW s \in Askable
    PROVE  /\ \A labels \in SUBSET Labels : [s EXCEPT !.labels = labels] \in Askable
           /\ \A words \in SUBSET Words : [s EXCEPT !.commentSubstrings = words] \in Askable
           /\ \A words \in SUBSET Words : [s EXCEPT !.prBodySubstrings = words] \in Askable
           /\ \A texts \in SUBSET Text :
                {} \notin texts => [s EXCEPT !.comments = texts] \in Askable
           /\ \A branches \in SUBSET BaseBranches : [s EXCEPT !.branches = branches] \in Askable
           /\ \A patterns \in SUBSET Patterns : [s EXCEPT !.branchPatterns = patterns] \in Askable
           /\ \A n \in Nat : [s EXCEPT !.maxCommits = n] \in Askable
           /\ [s EXCEPT !.autoMerge = TRUE] \in Askable
BY DEF Askable, SignalSet

LEMMA SomeAreAskable == SomeSignals \subseteq Askable
<1>1. /\ {"merge when ready"} \in SUBSET MCLabels /\ {"wip"} \in SUBSET MCLabels
      /\ {{"stop"}} \in SUBSET SUBSET MCWords /\ {MergeWord} \in SUBSET MCWords
      /\ {"stop"} \in SUBSET MCWords /\ {"main"} \in SUBSET MCBranches
      /\ {"rel.*", "("} \in SUBSET MCPatterns
    BY DEF MCLabels, MergeLabels, IgnoreLabels, MCWords, MCBranches, MCPatterns
<1>2. /\ {"merge when ready"} \in SUBSET Labels /\ {"wip"} \in SUBSET Labels
      /\ {{"stop"}} \in SUBSET Text /\ {MergeWord} \in SUBSET Words
      /\ {"stop"} \in SUBSET Words /\ {"main"} \in SUBSET BaseBranches
      /\ {"rel.*", "("} \in SUBSET Patterns /\ {} \notin {{"stop"}}
    BY <1>1, MCAssumption DEF Text
<1>3. NoSignals \in Askable
    BY NothingShows
<1>4. /\ [NoSignals EXCEPT !.labels = {"merge when ready"}] \in Askable
      /\ [NoSignals EXCEPT !.labels = {"wip"}] \in Askable
      /\ [NoSignals EXCEPT !.comments = {{"stop"}}] \in Askable
      /\ [NoSignals EXCEPT !.prBodySubstrings = {MergeWord}] \in Askable
      /\ [NoSignals EXCEPT !.maxCommits = 1] \in Askable
      /\ [NoSignals EXCEPT !.autoMerge = TRUE] \in Askable
      /\ [NoSignals EXCEPT !.branchPatterns = {"rel.*", "("}] \in Askable
    BY <1>2, <1>3, AskableWith
<1>5. /\ [NoSignals EXCEPT !.labels = {"wip"}, !.commentSubstrings = {"stop"}] \in Askable
      /\ [NoSignals EXCEPT !.labels = {"merge when ready"}, !.maxCommits = 1] \in Askable
      /\ [NoSignals EXCEPT !.branchPatterns = {"rel.*", "("},
                           !.commentSubstrings = {MergeWord}] \in Askable
    BY <1>2, <1>4, AskableWith
<1>6. [NoSignals EXCEPT !.labels = {"merge when ready"}, !.maxCommits = 1,
                        !.branches = {"main"}] \in Askable
    BY <1>2, <1>5, AskableWith
<1> QED
    BY <1>3, <1>4, <1>5, <1>6, Zenon DEF SomeSignals

LEMMA ConfigsAreAskable ==
    /\ \A c \in MergeConfigs : /\ c.ignore \in Askable /\ c.trigger \in Askable
                               /\ c.allowMergeWithNoChecks \in BOOLEAN
    /\ \A c \in UpdateConfigs : c.ignore \in Askable /\ c.trigger \in Askable
<1>1. ASSUME NEW c \in MergeConfigs
      PROVE  /\ c.ignore \in Askable /\ c.trigger \in Askable
             /\ c.allowMergeWithNoChecks \in BOOLEAN
  <2>1. c.ignore \in SomeSignals \cup {NoSignals} /\ c.trigger \in SomeSignals \cup {NoSignals}
      BY DEF MergeConfigs
  <2>2. c.allowMergeWithNoChecks \in BOOLEAN
      BY DEF MergeConfigs
  <2> QED
      BY <2>1, <2>2, SomeAreAskable, NothingShows
<1>2. ASSUME NEW c \in UpdateConfigs PROVE c.ignore \in Askable /\ c.trigger \in Askable
  <2>1. c.ignore \in SomeSignals /\ c.trigger \in SomeSignals
      BY Zenon DEF UpdateConfigs, SomeSignals
  <2> QED
      BY <2>1, SomeAreAskable
<1> QED
    BY <1>1, <1>2

(* The answers of the pull request at every moment.                        *)
LEMMA ViewOfSeen == SeenInv => view \in View
BY SeenIsView DEF SeenInv

(* A pull request is merged exactly if the configuration wants that, at    *)
(* every moment of its life (ShouldMergePR).                               *)
THEOREM MergesAlways == Spec => []MergesWhatTheConfigurationSays
<1>1. SeenInv => MergesWhatTheConfigurationSays
    BY ViewOfSeen, ConfigsAreAskable, MergeDecision DEF MergesWhatTheConfigurationSays
<1> QED
    BY <1>1, AlwaysSeen, PTL

(* It is updated exactly if the configuration asks for that                *)
(* (ShouldUpdatePR).                                                       *)
THEOREM UpdatesAlways == Spec => []UpdatesWhatTheConfigurationSays
<1>1. SeenInv => UpdatesWhatTheConfigurationSays
    BY ViewOfSeen, ConfigsAreAskable, UpdateDecision DEF UpdatesWhatTheConfigurationSays
<1> QED
    BY <1>1, AlwaysSeen, PTL

(* No call that fails turns a refusal into a merge or an update.           *)
THEOREM FailuresAlwaysOnlyStop == Spec => []FailuresOnlyStop
<1>1. SeenInv => FailuresOnlyStop
    BY ViewOfSeen, ConfigsAreAskable, FailuresOnlyStopDecisions DEF FailuresOnlyStop
<1> QED
    BY <1>1, AlwaysSeen, PTL

LEMMA TwoMethods ==
    ASSUME NEW s \in Askable, NEW t \in Askable, NEW v \in View PROVE MethodMeans(s, t, v)
<1>1. PICK c, m : c = MethodConfig(s, t) /\ m = c.mergeMethods
    OBVIOUS
<1>2. /\ m = <<[method |-> "rebase", trigger |-> s], [method |-> "ff-only", trigger |-> t]>>
      /\ c.method = "nonsense"
      /\ c.branchMethod = [b \in {"main"} |-> "squash"]
    BY <1>1 DEF MethodConfig
<1>3. /\ m \in Seq(Conditional({"rebase", "ff-only"})) /\ DOMAIN m = {1, 2}
      /\ m[1].method = "rebase" /\ m[1].trigger = s
      /\ m[2].method = "ff-only" /\ m[2].trigger = t
  <2>1. PICK x, y : /\ x = [method |-> "rebase", trigger |-> s]
                    /\ y = [method |-> "ff-only", trigger |-> t]
      OBVIOUS
  <2>2. x \in Conditional({"rebase", "ff-only"}) /\ y \in Conditional({"rebase", "ff-only"})
      BY <2>1 DEF Conditional
  <2>3. m = <<x, y>>
      BY <1>2, <2>1
  <2>4. m \in Seq(Conditional({"rebase", "ff-only"})) /\ DOMAIN m = {1, 2} /\ m[1] = x /\ m[2] = y
      BY <2>2, <2>3
  <2> QED
      BY <2>1, <2>4
<1>4. PICK shown : shown = {i \in DOMAIN c.mergeMethods : ShowsAll(c.mergeMethods[i].trigger, v)}
    OBVIOUS
<1>5. /\ 1 \in shown <=> ShowsAll(s, v)
      /\ 2 \in shown <=> ShowsAll(t, v)
      /\ shown \subseteq {1, 2}
    BY <1>1, <1>3, <1>4
<1>6. ASSUME v.failing = {}
      PROVE  /\ shown = {} => DetermineMergeMethod(c, v) = Used(Unconditional(c, v))
             /\ \A i \in shown : (\A j \in shown : i <= j) =>
                  DetermineMergeMethod(c, v) = Used(c.mergeMethods[i].method)
  <2>1. c.mergeMethods \in Seq(Conditional({"rebase", "ff-only"}))
      BY <1>1, <1>3
  <2> QED
      BY <1>4, <1>6, <2>1, MethodDecision
<1>7. /\ Used("rebase") = "rebase" /\ Used("ff-only") = "ff-only"
      /\ Used("squash") = "squash" /\ Used("nonsense") = "merge"
    BY DEF Used, ValidMethods
<1>8. Unconditional(c, v) = IF v.base = "main" THEN "squash" ELSE "nonsense"
    BY <1>2 DEF Unconditional
<1> QED
    BY <1>1, <1>3, <1>5, <1>6, <1>7, <1>8 DEF MethodMeans

(* While no call fails, the first conditional method all of whose signals  *)
(* are shown is used (DetermineMergeMethod).                               *)
THEOREM MethodAlwaysTheFirst == Spec => []MethodIsTheFirstThatMatches
<1>1. SomeSignals \subseteq Askable /\ OtherSignals \subseteq Askable
    BY SomeAreAskable, Zenon DEF SomeSignals, OtherSignals
<1>2. SeenInv => MethodIsTheFirstThatMatches
    BY <1>1, ViewOfSeen, TwoMethods DEF MethodIsTheFirstThatMatches
<1> QED
    BY <1>2, AlwaysSeen, PTL

(* A configuration of version 0.4 keeps its meaning (config_v0.go).        *)
THEOREM V0AlwaysKeepsItsMeaning == Spec => []V0ModesKeepTheirMeaning
<1>1. SeenInv => V0ModesKeepTheirMeaning
  <2> SUFFICES ASSUME SeenInv, NEW doc \in V0Documents, NEW more \in {{}, {"UPDATE-me"}}
               PROVE  V0MeansTheSame(doc, [view EXCEPT !.labels = @ \cup more])
      BY Zenon DEF V0ModesKeepTheirMeaning
  <2>1. more \in SUBSET MCLabels
      BY DEF MCLabels
  <2>2. [view EXCEPT !.labels = @ \cup more] \in Seen
      BY <2>1 DEF SeenInv, Seen
  <2>3. PICK mode \in Modes : doc \in {V0(mode, "squash", TRUE), V0(mode, "fast", FALSE)}
      BY Zenon DEF V0Documents
  <2>4. PICK v \in View : v = [view EXCEPT !.labels = @ \cup more]
      BY <2>2, SeenIsView
  <2>5. /\ V0MeansTheSame(V0(mode, "squash", TRUE), v)
        /\ V0MeansTheSame(V0(mode, "fast", FALSE), v)
      BY V0KeepsItsMeaning
  <2> QED
      BY <2>3, <2>4, <2>5
<1> QED
    BY <1>1, AlwaysSeen, PTL

LEMMA LegacyAreAskable == LegacySignals \subseteq Askable
<1>1. {"wip"} \in SUBSET MCLabels
    BY DEF MCLabels, IgnoreLabels
<1>2. {"wip"} \in SUBSET Labels
    BY <1>1, MCAssumption
<1>3. NoSignals \in Askable
    BY NothingShows
<1>4. /\ [NoSignals EXCEPT !.labels = {"wip"}] \in Askable
      /\ [NoSignals EXCEPT !.autoMerge = TRUE] \in Askable
    BY <1>2, <1>3, AskableWith
<1> QED
    BY <1>3, <1>4, Zenon DEF LegacySignals

(* The old names of the sections apply (config_v1.go).                     *)
THEOREM LegacyAlwaysApplies == Spec => []LegacySectionsApply
<1>1. SeenInv => LegacySectionsApply
    BY ViewOfSeen, LegacyAreAskable, LegacyApplies DEF LegacySectionsApply
<1> QED
    BY <1>1, AlwaysSeen, PTL

(* The message of a squash keeps to its options (calculateCommitMessage).  *)
THEOREM SquashesAlwaysKeepToOptions == Spec => []SquashesKeepToTheirOptions
<1>1. SeenInv => SquashesKeepToTheirOptions
  <2> SUFFICES ASSUME SeenInv,
                      NEW body \in {"", "pull_request_body", "summarize_commits", "empty_body"},
                      NEW delimiter \in BOOLEAN,
                      NEW text \in {view.body, view.body \cup {CommitWord}}
               PROVE  SquashIsAsAsked(body, delimiter, [view EXCEPT !.body = text])
      BY Zenon DEF SquashesKeepToTheirOptions
  <2>1. text \in SUBSET MCWords
      BY DEF SeenInv, Seen, MCWords
  <2>2. [view EXCEPT !.body = text] \in Seen
      BY <2>1 DEF SeenInv, Seen
  <2> QED
      BY <2>2, SeenIsView, SquashKeepsToOptions
<1> QED
    BY <1>1, AlwaysSeen, PTL

LEMMA DocumentsDiffer ==
    /\ Absent # Failing
    /\ \A merge, update : V1(1, merge, update) \notin {Absent, Failing}
    /\ ParseConfig(Invalid) = None
    /\ Invalid \notin {Absent, Failing}
    /\ \A merge, update : /\ V1(2, merge, update) \notin {Absent, Failing}
                          /\ ParseConfig(V1(2, merge, update)) = None
    /\ \A strategy, deletes : /\ V0("greylist", strategy, deletes) \notin {Absent, Failing}
                              /\ ParseConfig(V0("greylist", strategy, deletes)) = None
<1>1. /\ Absent.format = "absent" /\ Failing.format = "failing" /\ Invalid.format = "invalid"
      /\ \A n, merge, update : /\ V1(n, merge, update).format = "v1"
                               /\ V1(n, merge, update).version = n
      /\ \A mode, strategy, deletes : /\ V0(mode, strategy, deletes).format = "v0"
                                      /\ V0(mode, strategy, deletes).mode = mode
    BY DEF Absent, Failing, Invalid, V1, V0
<1> QED
    BY <1>1 DEF ParseConfig, Modes

(* A status that no system reports never is a success.                     *)
LEMMA NeverMerged ==
    ASSUME NEW v \in Seen
    PROVE  ShouldMergePR(ParseConfig(MergeNone).config.merge, v) # "yes"
<1>1. PICK m : m = ParseConfig(MergeNone).config.merge
    OBVIOUS
<1>2. m.requiredStatuses = {"never"}
    BY <1>1 DEF ParseConfig, MergeNone, V1, Found, parseConfigV1, Renamed, MergeSection
<1>3. "never" \notin v.statuses /\ "never" # TravisBase
    BY DEF Seen, MCContexts, TravisBase, TravisVariants
<1>4. "never" \in statusSetDifference(v.required \cup m.requiredStatuses, v.statuses)
    BY <1>2, <1>3 DEF statusSetDifference
<1>5. v.required \cup m.requiredStatuses # {}
    BY <1>2
<1> QED
    BY <1>1, <1>4, <1>5 DEF ShouldMergePR, ByStatuses, Decide, BySignals

(* The files of a pull request: the second of the repository, which has no *)
(* first one, then the organization's, then the server's default.          *)
LEMMA ThreeFiles ==
    ASSUME NEW own, NEW shared, NEW default
    PROVE  FetchConfig(<<Absent, own>> \o <<shared>>, default) =
             IF own = Failing \/ (own = Absent /\ shared = Failing) THEN [outcome |-> "error"]
             ELSE IF own # Absent THEN ParseConfig(own)
             ELSE IF shared # Absent THEN ParseConfig(shared)
             ELSE default
<1>1. PICK files : files = <<Absent, own>> \o <<shared>>
    OBVIOUS
<1>2. /\ files \in Seq({Absent, own, shared})
      /\ DOMAIN files = {1, 2, 3}
      /\ files[1] = Absent /\ files[2] = own /\ files[3] = shared
    BY <1>1
<1>3. /\ (\A i \in DOMAIN files : files[i] = Absent) => FetchConfig(files, default) = default
      /\ \A i \in DOMAIN files :
           files[i] # Absent /\ (\A j \in DOMAIN files : j < i => files[j] = Absent)
           => FetchConfig(files, default)
                = IF files[i] = Failing THEN [outcome |-> "error"] ELSE ParseConfig(files[i])
    BY <1>2, FirstFileDecides
<1>4. Absent # Failing
    BY DocumentsDiffer
<1>5. own # Absent =>
        FetchConfig(files, default)
          = IF own = Failing THEN [outcome |-> "error"] ELSE ParseConfig(own)
    BY <1>2, <1>3
<1>6. own = Absent /\ shared # Absent =>
        FetchConfig(files, default)
          = IF shared = Failing THEN [outcome |-> "error"] ELSE ParseConfig(shared)
    BY <1>2, <1>3
<1>7. own = Absent /\ shared = Absent => FetchConfig(files, default) = default
    BY <1>2, <1>3
<1> QED
    BY <1>1, <1>4, <1>5, <1>6, <1>7

(* A file that is there but is no configuration stops Bulldozer            *)
(* (FetchConfig, bulldozer/config.go).                                     *)
THEOREM BrokenConfigurationsAlwaysStop == Spec => []BrokenConfigurationsStop
<1>1. SeenInv => BrokenConfigurationsStop
  <2> SUFFICES ASSUME view \in Seen, NEW own \in {Absent} \cup Broken \cup Sound,
                      NEW shared \in {Absent, Failing, Invalid, MergeAll},
                      NEW default \in {None, Found(parseConfigV1(MergeAll))},
                      NEW tree,
                      tree = [b \in MCBranches |-> IF b = view.base THEN <<Absent, own>>
                                                                    ELSE <<MergeAll, Absent>>],
                      NEW fetched, fetched = FetchConfigForPR(tree, shared, default, view),
                      fetched.outcome = "config",
                      ShouldMergePR(fetched.config.merge, view) = "yes"
               PROVE  \/ own = MergeAll
                      \/ own = Absent /\ shared = MergeAll
                      \/ own = Absent /\ shared = Absent /\ default # None
      BY DEF SeenInv, BrokenConfigurationsStop
  <2>1. fetched = FetchConfig(<<Absent, own>> \o <<shared>>, default)
    <3>1. view.base \in MCBranches
        BY DEF Seen
    <3>2. tree[view.base] = <<Absent, own>>
        BY <3>1
    <3> QED
        BY <3>2 DEF FetchConfigForPR
  <2>2. fetched # None /\ fetched # [outcome |-> "error"]
      BY DEF None
  <2>3. CASE own \in Broken
    <3>1. own # Absent /\ (own = Failing \/ ParseConfig(own) = None)
        BY <2>3, DocumentsDiffer DEF Broken
    <3> QED
        BY <2>1, <2>2, <3>1, ThreeFiles
  <2>4. CASE own = MergeNone
    <3>1. own # Absent /\ own # Failing
        BY <2>4, DocumentsDiffer DEF MergeNone
    <3>2. fetched = ParseConfig(MergeNone)
        BY <2>1, <2>4, <3>1, ThreeFiles
    <3> QED
        BY <3>2, NeverMerged
  <2>5. CASE own = Absent
    <3>1. CASE shared \in {Failing, Invalid}
      <4>1. shared # Absent /\ (shared = Failing \/ ParseConfig(shared) = None)
          BY <3>1, DocumentsDiffer
      <4> QED
          BY <2>1, <2>2, <2>5, <4>1, ThreeFiles
    <3>2. CASE shared = Absent
      <4>1. fetched = default
          BY <2>1, <2>5, <3>2, ThreeFiles, DocumentsDiffer
      <4> QED
          BY <2>2, <2>5, <3>2, <4>1
    <3> QED
        BY <2>5, <3>1, <3>2
  <2> QED
      BY <2>3, <2>4, <2>5 DEF Sound
<1> QED
    BY <1>1, AlwaysSeen, PTL

(* What a step does to the statuses of the head.                           *)
LEMMA StatusesStep ==
    ASSUME view \in Seen, [Next]_view, view'.statuses # view.statuses,
           view.statuses \subseteq view'.statuses
    PROVE  \E statuses \in SUBSET MCContexts :
             view.statuses \subseteq statuses /\ view' = [view EXCEPT !.statuses = statuses]
<1>1. Report
  <2>1. ASSUME Label \/ EditBody \/ Comment \/ EnableAutoMerge \/ ReadyForReview
                 \/ CallsFail \/ CallsSucceed \/ UNCHANGED view
        PROVE  view'.statuses = view.statuses
      BY <2>1 DEF Label, EditBody, Comment, EnableAutoMerge, ReadyForReview, CallsFail,
                  CallsSucceed, Seen
  <2>2. ASSUME PushCommit PROVE view'.statuses = {}
      BY <2>2 DEF PushCommit, Seen
  <2> QED
      BY <2>1, <2>2 DEF Next
<1>2. PICK context \in {"ci", "continuous-integration/travis-ci/pr"} :
          view' = [view EXCEPT !.statuses = @ \cup {context}]
    BY <1>1 DEF Report
<1>3. context \in MCContexts
    BY DEF MCContexts, TravisVariants
<1>4. view.statuses \cup {context} \in SUBSET MCContexts
    BY <1>3 DEF Seen
<1> QED
    BY <1>2, <1>4

(* A status that succeeds never takes the permission to merge away         *)
(* (statusSetDifference, ShouldMergePR).                                   *)
THEOREM SuccessesNeverRevoke == Spec => SuccessNeverRevokes
<1>1. SeenInv /\ [Next]_view =>
        [(view'.statuses # view.statuses /\ view.statuses \subseteq view'.statuses)
          => \A c \in {d \in MergeConfigs : d.ignore = NoSignals} :
               ShouldMergePR(c, view) = "yes" => ShouldMergePR(c, view') = "yes"]_view
  <2> SUFFICES ASSUME view \in Seen, [Next]_view, view'.statuses # view.statuses,
                      view.statuses \subseteq view'.statuses,
                      NEW c \in MergeConfigs, ShouldMergePR(c, view) = "yes"
               PROVE  ShouldMergePR(c, view') = "yes"
      BY DEF SeenInv
  <2>1. PICK statuses \in SUBSET MCContexts :
            view.statuses \subseteq statuses /\ view' = [view EXCEPT !.statuses = statuses]
      BY StatusesStep
  <2>2. view \in View
      BY SeenIsView
  <2> QED
      BY <2>1, <2>2, SuccessKeepsDecision
<1> QED
    BY <1>1, AlwaysSeen, PTL DEF Spec, SuccessNeverRevokes
=============================================================================
