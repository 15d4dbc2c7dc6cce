----------------------------- MODULE MCEvaluate -----------------------------
(***************************************************************************)
(* The decisions of Evaluate at every moment of the life of one pull       *)
(* request: its labels, texts, commits and statuses change, calls for them *)
(* fail, and each decision is compared, for a set of configurations, with  *)
(* a definition of its own of what the README promises.                    *)
(***************************************************************************)
EXTENDS Config, TLC

VARIABLE view

MCWords == {MergeWord, CommitWord, "stop"}
MCLabels == UpdateLabels \cup MergeLabels \cup IgnoreLabels \cup {"Merge When Ready", "UPDATE-me"}
MCFold == "Merge When Ready" :> "merge when ready" @@ "UPDATE-me" :> "update-me"
            @@ [l \in MCLabels |-> l]
MCBranches == {"main", "release"}
MCPatterns == {"rel.*", "("}
MCMatchedBy == "rel.*" :> {"release"} @@ "(" :> {}
MCContexts == {"ci", TravisBase} \cup TravisVariants

(* The words, labels, branches and checks that the views and the           *)
(* configurations of this module are written with.                         *)
ASSUME MCAssumption ==
    /\ MCWords \subseteq Words
    /\ MCLabels \subseteq Labels
    /\ MCBranches \subseteq BaseBranches
    /\ MCPatterns \subseteq Patterns
    /\ MCContexts \subseteq Contexts

MaxCommits == 2

(* One set of signals of every kind, and some of several kinds.            *)
SomeSignals ==
    {NoSignals,
     [NoSignals EXCEPT !.labels = {"merge when ready"}],
     [NoSignals EXCEPT !.comments = {{"stop"}}],
     [NoSignals EXCEPT !.prBodySubstrings = {MergeWord}],
     [NoSignals EXCEPT !.maxCommits = 1],
     [NoSignals EXCEPT !.autoMerge = TRUE],
     [NoSignals EXCEPT !.labels = {"wip"}, !.commentSubstrings = {"stop"}],
     [NoSignals EXCEPT !.labels = {"merge when ready"}, !.maxCommits = 1, !.branches = {"main"}],
     [NoSignals EXCEPT !.branchPatterns = {"rel.*", "("}, !.commentSubstrings = {MergeWord}]}

MergeConfigs ==
    [ignore : {s \in SomeSignals : s = NoSignals \/ s.commentSubstrings \cup s.comments # {}},
     trigger : SomeSignals, requiredStatuses : {{"ci"}}, allowMergeWithNoChecks : {FALSE}]
      \cup [ignore : {NoSignals}, trigger : {NoSignals},
            requiredStatuses : {{}}, allowMergeWithNoChecks : BOOLEAN]

UpdateConfigs ==
    [ignore : {NoSignals, [NoSignals EXCEPT !.labels = {"wip"}, !.commentSubstrings = {"stop"}]},
     trigger : {NoSignals, [NoSignals EXCEPT !.labels = {"merge when ready"}]},
     ignoreDrafts : {"unset", "true", "false"}, requiredStatuses : {{}, {"ci"}}]

MethodConfig(s, t) ==
    [method |-> "nonsense", branchMethod |-> [b \in {"main"} |-> "squash"],
     mergeMethods |-> <<[method |-> "rebase", trigger |-> s],
                        [method |-> "ff-only", trigger |-> t]>>]

OtherSignals == {NoSignals, [NoSignals EXCEPT !.labels = {"merge when ready"}]}

-----------------------------------------------------------------------------
Init ==
    view \in [labels : {{}}, body : {{}}, comments : {{}}, base : MCBranches,
              commits : {1}, autoMerge : {FALSE}, draft : BOOLEAN,
              required : {{}, {TravisBase}}, statuses : {{}}, failing : {{}}]

Label == \E l \in {"Merge When Ready", "wip"} :
    view' = [view EXCEPT !.labels = IF l \in @ THEN @ \ {l} ELSE @ \cup {l}]

EditBody == \E text \in {{}, {MergeWord}, {"stop"}} : view' = [view EXCEPT !.body = text]

(* At most one comment: the body can say what another one would.           *)
Comment == \E text \in {{"stop"}, {MergeWord, "stop"}} :
    view.comments = {} /\ view' = [view EXCEPT !.comments = {text}]

(* A push; the statuses are those of the head, so there are none yet.      *)
PushCommit ==
    /\ view.commits < MaxCommits
    /\ view' = [view EXCEPT !.commits = @ + 1, !.statuses = {}]

EnableAutoMerge == view' = [view EXCEPT !.autoMerge = TRUE]

ReadyForReview == view' = [view EXCEPT !.draft = FALSE]

Report == \E context \in {"ci", "continuous-integration/travis-ci/pr"} :
    view' = [view EXCEPT !.statuses = @ \cup {context}]

CallsFail == \E call \in Calls : view' = [view EXCEPT !.failing = {call}]

CallsSucceed == view' = [view EXCEPT !.failing = {}]

Next ==
    \/ Label \/ EditBody \/ Comment \/ PushCommit \/ EnableAutoMerge
    \/ ReadyForReview \/ Report \/ CallsFail \/ CallsSucceed

Spec == Init /\ [][Next]_view

(* The same pull request with no call that fails.                          *)
Undisturbed(v) == [v EXCEPT !.failing = {}]

-----------------------------------------------------------------------------
(* The README's words: a pull request shows a signal when it has one of    *)
(* the labels in any case, the body or a comment contains a substring or   *)
(* is one of the comments, the target branch is listed or matched, ...     *)
ShowsAny(s, v) ==
    \/ \E l \in s.labels : \E m \in v.labels : Fold[l] = Fold[m]
    \/ \E text \in v.comments \cup {v.body} :
         text # {} /\ (text \in s.comments \/ text \cap s.commentSubstrings # {})
    \/ v.body \cap s.prBodySubstrings # {}
    \/ v.base \in s.branches \cup UNION {MatchedBy[r] : r \in s.branchPatterns}
    \/ s.autoMerge /\ v.autoMerge

(* ... and all of the signals when it lacks none of those that are set.    *)
ShowsAll(s, v) ==
    /\ s # NoSignals
    /\ s.labels # {} => \E l \in s.labels : \E m \in v.labels : Fold[l] = Fold[m]
    /\ s.comments # {} => s.comments \cap (v.comments \cup {v.body}) # {}
    /\ s.commentSubstrings # {} =>
         s.commentSubstrings \cap (v.body \cup UNION v.comments) # {}
    /\ s.prBodySubstrings # {} => s.prBodySubstrings \cap v.body # {}
    /\ s.branches # {} => v.base \in s.branches
    /\ s.branchPatterns # {} => \E r \in s.branchPatterns : v.base \in MatchedBy[r]
    /\ s.maxCommits > 0 => v.commits <= s.maxCommits
    /\ s.autoMerge => v.autoMerge

Passed(context, v) ==
    context \in v.statuses \/ (context = TravisBase /\ TravisVariants \cap v.statuses # {})

MergeWanted(c, v) ==
    LET required == v.required \cup c.requiredStatuses
    IN  /\ ~ ShowsAny(c.ignore, v)
        /\ c.trigger # NoSignals => ShowsAny(c.trigger, v)
        /\ required # {} \/ c.allowMergeWithNoChecks
        /\ \A context \in required : Passed(context, v)

MergesAsSaid(c, v) ==
    /\ ShouldMergePR(c, v) = "yes" => MergeWanted(c, v)
    /\ v.failing = {} /\ MergeWanted(c, v) => ShouldMergePR(c, v) = "yes"

(* A pull request is merged exactly if it shows no ignore signal, shows a  *)
(* trigger signal where there are any, and every required status passed,   *)
(* at least one being required unless the configuration waives that.  When *)
(* a call fails it may be left alone, but what is ignored is never merged. *)
MergesWhatTheConfigurationSays == \A c \in MergeConfigs : MergesAsSaid(c, view)

(* A call that fails never turns a decision not to merge or not to update  *)
(* into one to do so, whatever the signals and their order: ignoring and   *)
(* triggering both fail closed.                                            *)
FailuresOnlyStop ==
    /\ \A c \in MergeConfigs :
         ShouldMergePR(c, view) = "yes" => ShouldMergePR(c, Undisturbed(view)) = "yes"
    /\ \A c \in UpdateConfigs :
         ShouldUpdatePR(c, view) = "yes" => ShouldUpdatePR(c, Undisturbed(view)) = "yes"

UpdateWanted(c, v) ==
    /\ \/ c.ignore # NoSignals
       \/ c.trigger # NoSignals
       \/ c.ignoreDrafts # "unset"
       \/ c.requiredStatuses # {}
    /\ ~ ShowsAny(c.ignore, v)
    /\ IF c.trigger # NoSignals
         THEN ShowsAny(c.trigger, v)
         ELSE /\ ~ (c.ignoreDrafts = "true" /\ v.draft)
              /\ \A context \in c.requiredStatuses : Passed(context, v)

UpdatesAsSaid(c, v) ==
    /\ ShouldUpdatePR(c, v) = "yes" => UpdateWanted(c, v)
    /\ v.failing = {} /\ UpdateWanted(c, v) => ShouldUpdatePR(c, v) = "yes"

(* Updates happen only when a section asks for them; an ignored pull       *)
(* request is never updated; a trigger overrides drafts and statuses, and  *)
(* without one a draft may be left out and statuses have to pass.          *)
UpdatesWhatTheConfigurationSays == \A c \in UpdateConfigs : UpdatesAsSaid(c, view)

MethodMeans(s, t, v) ==
    v.failing = {} =>
      DetermineMergeMethod(MethodConfig(s, t), v) =
        IF ShowsAll(s, v) THEN "rebase"
        ELSE IF ShowsAll(t, v) THEN "ff-only"
        ELSE IF v.base = "main" THEN "squash" ELSE "merge"

(* While no call fails: the first conditional method all of whose signals  *)
(* the pull request shows is used; one without signals never is; then the  *)
(* method of the base branch; and whatever is no method becomes a merge    *)
(* commit.                                                                 *)
MethodIsTheFirstThatMatches ==
    \A s \in SomeSignals, t \in OtherSignals : MethodMeans(s, t, view)

(* A status that succeeds never takes the permission to merge away.        *)
SuccessNeverRevokes ==
    [][(view'.statuses # view.statuses /\ view.statuses \subseteq view'.statuses)
         => \A c \in {d \in MergeConfigs : d.ignore = NoSignals} :
              ShouldMergePR(c, view) = "yes" => ShouldMergePR(c, view') = "yes"]_view

-----------------------------------------------------------------------------
(* Configurations as they are written.                                     *)

(* The decisions of 0.4 by its own words, for required statuses that       *)
(* branch protection sets; a branch goes when delete_after_merge says so.  *)
WantedByMode(mode, v) ==
    /\ CASE mode = "whitelist" -> \E l \in v.labels : Fold[l] \in MergeLabels
         [] mode = "blacklist" -> \A l \in v.labels : Fold[l] \notin IgnoreLabels
         [] mode = "pr_body"   -> \E text \in v.comments \cup {v.body} : MergeWord \in text
    /\ v.required # {}
    /\ \A context \in v.required : Passed(context, v)

V0MeansTheSame(doc, v) ==
    LET config == ParseConfig(doc).config
        wanted == WantedByMode(doc.mode, v)
    IN  /\ ShouldMergePR(config.merge, v) = "yes" => wanted
        /\ v.failing = {} /\ wanted => ShouldMergePR(config.merge, v) = "yes"
        /\ ShouldUpdatePR(config.update, v) = "yes"
             <=> \E l \in v.labels : Fold[l] \in UpdateLabels
        /\ DetermineMergeMethod(config.merge, v)
             = (IF doc.strategy \in ValidMethods THEN doc.strategy ELSE "merge")
        /\ config.merge.deleteAfterMerge = doc.deleteAfterMerge

V0Documents ==
    {V0(mode, "squash", TRUE) : mode \in Modes} \cup {V0(mode, "fast", FALSE) : mode \in Modes}

(* A configuration of version 0.4 keeps its meaning (README.md:422-425):   *)
(* whitelisted labels merge, blacklisted ones prevent it, the body or a    *)
(* comment asks for it; only the update labels update; merged branches are *)
(* deleted exactly where the file says so.  No configuration of that       *)
(* format merges a pull request without a required status.                 *)
V0ModesKeepTheirMeaning ==
    \A doc \in V0Documents, more \in {{}, {"UPDATE-me"}} :
        V0MeansTheSame(doc, [view EXCEPT !.labels = @ \cup more])

-----------------------------------------------------------------------------
LegacySignals ==
    {NoSignals, [NoSignals EXCEPT !.labels = {"wip"}], [NoSignals EXCEPT !.autoMerge = TRUE]}

(* Here the new sections are written for the merge only, and the old ones  *)
(* for both.                                                               *)
LegacyMeans(old, new, other, v) ==
    LET merge == [MergeSection EXCEPT !.blacklist = old, !.ignore = new,
                                      !.whitelist = other,
                                      !.allowMergeWithNoChecks = TRUE]
        update == [UpdateSection EXCEPT !.blacklist = old, !.whitelist = other]
        config == ParseConfig(V1(1, merge, update)).config
        ignores == IF new # NoSignals THEN new ELSE old
        merges == /\ ~ ShowsAny(ignores, v)
                  /\ other # NoSignals => ShowsAny(other, v)
                  /\ \A context \in v.required : Passed(context, v)
        updates == /\ {old, other} # {NoSignals}
                   /\ ~ ShowsAny(old, v)
                   /\ other # NoSignals => ShowsAny(other, v)
    IN  v.failing = {} =>
          /\ ShouldMergePR(config.merge, v) = "yes" <=> merges
          /\ ShouldUpdatePR(config.update, v) = "yes" <=> updates

(* The old names of the sections in a file: what they list is ignored or   *)
(* triggers as under the new name, and the new name, where there is        *)
(* something under it, decides alone.                                      *)
LegacySectionsApply ==
    \A old \in LegacySignals, new \in LegacySignals, other \in LegacySignals :
        LegacyMeans(old, new, other, view)

-----------------------------------------------------------------------------
MergeAll == V1(1, [MergeSection EXCEPT !.allowMergeWithNoChecks = TRUE], UpdateSection)
MergeNone == V1(1, [MergeSection EXCEPT !.requiredStatuses = {"never"}], UpdateSection)

(* Files with a configuration, and files that have none to go by: they     *)
(* cannot be read, are not valid, have another version or an unknown mode. *)
Sound == {MergeAll, MergeNone}
Broken == {Failing, Invalid, V1(2, MergeSection, UpdateSection), V0("greylist", "merge", TRUE)}

(* A file that is there but is no configuration stops Bulldozer: it never  *)
(* falls back to a file of the organization or to the server's default,    *)
(* which may merge what the file was to keep from being merged.  And what  *)
(* another branch than the target has in its files counts for nothing      *)
(* (README.md:60-80).                                                      *)
BrokenConfigurationsStop ==
    \A own \in {Absent} \cup Broken \cup Sound, shared \in {Absent, Failing, Invalid, MergeAll},
      default \in {None, Found(parseConfigV1(MergeAll))} :
        LET tree == [b \in MCBranches |-> IF b = view.base THEN <<Absent, own>>
                                                          ELSE <<MergeAll, Absent>>]
            fetched == FetchConfigForPR(tree, shared, default, view)
            merges == /\ fetched.outcome = "config"
                      /\ ShouldMergePR(fetched.config.merge, view) = "yes"
        IN  merges =>
              \/ own = MergeAll
              \/ own = Absent /\ shared = MergeAll
              \/ own = Absent /\ shared = Absent /\ default # None

-----------------------------------------------------------------------------
SquashIsAsAsked(body, delimiter, v) ==
    LET options == [title |-> "first_commit_title", body |-> body, delimiter |-> delimiter]
        squash == SquashMessage(options, v)
    IN  /\ squash.message = "github default" =>
             \/ body = "summarize_commits"
             \/ body = "pull_request_body" /\ ~ delimiter /\ v.body = {}
        /\ delimiter => squash.message # "body"
        /\ squash.message = "section" => CommitWord \in v.body
        /\ body = "" => squash.message = "empty"
        /\ squash.title = "error" <=> "commits" \in v.failing

(* The message of a squash commit lists the commits only if that is asked  *)
(* for or the body that is asked for is empty; with a delimiter nothing    *)
(* that is not between two of them gets into it, not even if there are     *)
(* none (README.md:173-181).  By default it has no message.                *)
SquashesKeepToTheirOptions ==
    \A body \in {"", "pull_request_body", "summarize_commits", "empty_body"},
      delimiter \in BOOLEAN, text \in {view.body, view.body \cup {CommitWord}} :
        SquashIsAsAsked(body, delimiter, [view EXCEPT !.body = text])

(* evaluate.go:53: "trigger must always fail closed (no match on error)":  *)
(* a conditional merge method is not used because a call failed.           *)
MethodsFailClosed ==
    \A s \in SomeSignals, t \in OtherSignals :
        LET method(v) == DetermineMergeMethod(MethodConfig(s, t), v)
        IN  method(view) \in {"error", method(Undisturbed(view))}
=============================================================================
