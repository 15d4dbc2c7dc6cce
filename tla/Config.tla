------------------------------- MODULE Config -------------------------------
(***************************************************************************)
(* Which configuration applies to a pull request, and what it means: the   *)
(* files that may define it, the two formats they may have                 *)
(* (bulldozer/config.go, config_v0.go, config_v1.go), and the server's own *)
(* default (handler/fetcher.go, handler/base.go).                          *)
(*                                                                         *)
(* A file is a record: its format is that of the document in it, or the    *)
(* file is absent, failing (it cannot be read, or refers to another file   *)
(* that cannot) or invalid YAML for both formats.                          *)
(***************************************************************************)
EXTENDS Evaluate

UpdateLabels == {"update me", "update-me", "update_me"}
MergeLabels == {"merge when ready", "merge-when-ready", "merge_when_ready"}
IgnoreLabels == {"wip", "do not merge", "do-not-merge", "do_not_merge"}
MergeWord == "==MERGE_WHEN_READY=="
CommitWord == "==COMMIT_MSG=="

(* The default labels are in lower case.                                   *)
ASSUME ConfigAssumption ==
    /\ UpdateLabels \cup MergeLabels \cup IgnoreLabels \subseteq Labels
    /\ {MergeWord, CommitWord} \subseteq Words
    /\ \A l \in UpdateLabels \cup MergeLabels \cup IgnoreLabels : Fold[l] = l

Modes == {"whitelist", "blacklist", "pr_body"}

(* title and body are the strategies, or "" for none; delimiter says       *)
(* whether there is a message_delimiter.  No options are NoOptions.        *)
NoOptions == [title |-> "", body |-> "", delimiter |-> FALSE]

MergeSection ==
    [trigger |-> NoSignals, ignore |-> NoSignals,
     whitelist |-> NoSignals, blacklist |-> NoSignals,
     deleteAfterMerge |-> FALSE, allowMergeWithNoChecks |-> FALSE, requiredStatuses |-> {},
     method |-> "", mergeMethods |-> <<>>, branchMethod |-> <<>>, squash |-> NoOptions]

UpdateSection ==
    [trigger |-> NoSignals, ignore |-> NoSignals,
     whitelist |-> NoSignals, blacklist |-> NoSignals,
     ignoreDrafts |-> "unset", requiredStatuses |-> {}]

V1(version, merge, update) ==
    [format |-> "v1", version |-> version, merge |-> merge, update |-> update]

V0(mode, strategy, deleteAfterMerge) ==
    [format |-> "v0", mode |-> mode, strategy |-> strategy,
     deleteAfterMerge |-> deleteAfterMerge]

Absent == [format |-> "absent"]
Failing == [format |-> "failing"]
Invalid == [format |-> "invalid"]

-----------------------------------------------------------------------------
(* The formats.                                                            *)

(* A mutation of Preferred: the old sections win.                          *)
OldPreferred(new, old) == IF Enabled(old) THEN old ELSE new

(* Signals under their old name count where there are none under the new.  *)
Preferred(new, old) == IF Enabled(old) /\ ~ Enabled(new) THEN old ELSE new

Renamed(section) ==
    [section EXCEPT !.trigger = Preferred(@, section.whitelist),
                    !.ignore = Preferred(@, section.blacklist)]

parseConfigV1(doc) == [merge |-> Renamed(doc.merge), update |-> Renamed(doc.update)]

(* A mutation of ModeSignals: the list of the other mode.                  *)
ModeSignalsSwapped(mode) ==
    [trigger |-> CASE mode = "whitelist" -> [NoSignals EXCEPT !.labels = IgnoreLabels]
                   [] mode = "pr_body"   -> [NoSignals EXCEPT !.commentSubstrings = {MergeWord}]
                   [] OTHER              -> NoSignals,
     ignore |-> IF mode = "blacklist" THEN [NoSignals EXCEPT !.labels = MergeLabels]
                                      ELSE NoSignals]

ModeSignals(mode) ==
    [trigger |-> CASE mode = "whitelist" -> [NoSignals EXCEPT !.labels = MergeLabels]
                   [] mode = "pr_body"   -> [NoSignals EXCEPT !.commentSubstrings = {MergeWord}]
                   [] OTHER              -> NoSignals,
     ignore |-> IF mode = "blacklist" THEN [NoSignals EXCEPT !.labels = IgnoreLabels]
                                      ELSE NoSignals]

SquashOfMode(mode) ==
    [NoOptions EXCEPT !.body = IF mode = "pr_body" THEN "pull_request_body"
                                                   ELSE "summarize_commits",
                      !.delimiter = mode = "pr_body"]

parseConfigV0(doc) ==
    [merge |-> [MergeSection EXCEPT
                  !.trigger = ModeSignals(doc.mode).trigger,
                  !.ignore = ModeSignals(doc.mode).ignore,
                  !.deleteAfterMerge = doc.deleteAfterMerge,
                  !.method = doc.strategy,
                  !.squash = IF doc.strategy = "squash" THEN SquashOfMode(doc.mode) ELSE @],
     update |-> [UpdateSection EXCEPT !.trigger.labels = UpdateLabels]]

(* What there is to go by: a configuration, none, or an error.             *)
Found(config) == [outcome |-> "config", config |-> config]
None == [outcome |-> "none"]

(* ParseConfig, as FetchConfig uses it: a document that is neither a v1    *)
(* nor a v0 configuration is logged and is none.                           *)
ParseConfig(doc) ==
    CASE doc.format = "v1" /\ doc.version = 1  -> Found(parseConfigV1(doc))
      [] doc.format = "v0" /\ doc.mode \in Modes -> Found(parseConfigV0(doc))
      [] OTHER                                 -> None

-----------------------------------------------------------------------------
(* The files, the most specific first: of the repository, on the branch    *)
(* that the pull request targets, then of the organization.                *)

(* appconfig's LoadConfig: the first file that exists, or fails.           *)
LoadConfig(files) ==
    LET present == {i \in DOMAIN files : files[i] # Absent}
    IN  IF present = {} THEN Absent
        ELSE files[CHOOSE i \in present : \A j \in present : i <= j]

(* A mutation of FetchConfig: what is not valid is as good as absent.      *)
FetchConfigOrDefault(files, default) ==
    LET file == LoadConfig(files)
    IN  CASE file = Failing -> [outcome |-> "error"]
          [] file # Absent /\ ParseConfig(file) # None -> ParseConfig(file)
          [] OTHER -> default

(* Without any file the server's default applies as it is, if there is one:*)
(* it never went through ParseConfig, so its old sections have no effect.  *)
FetchConfig(files, default) ==
    LET file == LoadConfig(files)
    IN  CASE file = Failing -> [outcome |-> "error"]
          [] file = Absent  -> default
          [] OTHER          -> ParseConfig(file)

(* tree[b]: the files of the repository on branch b.                       *)
FetchConfigForPR(tree, shared, default, v) ==
    FetchConfig(tree[v.base] \o <<shared>>, default)

-----------------------------------------------------------------------------
(* The message of a squash commit: where its words come from.              *)

(* A mutation of calculateCommitMessage: an empty message is sent as "".   *)
calculateCommitMessageEmpty(options, v) ==
    CASE options.body = "pull_request_body" /\ options.delimiter ->
            IF CommitWord \in v.body THEN "section" ELSE "github default"
      [] options.body = "pull_request_body" /\ ~ options.delimiter /\ v.body # {} -> "body"
      [] OTHER -> "github default"

(* A body with CommitWord has words between two delimiters.  GitHub reads  *)
(* " " as no message, and "" as leave to list the commits: the latter is   *)
(* sent to have them listed, for a strategy that is none of the three, and *)
(* for a pull request without a body.                                      *)
calculateCommitMessage(options, v) ==
    CASE options.body = "pull_request_body" /\ options.delimiter ->
            IF CommitWord \in v.body THEN "section" ELSE "empty"
      [] options.body = "pull_request_body" /\ ~ options.delimiter /\ v.body # {} -> "body"
      [] options.body = "empty_body" -> "empty"
      [] OTHER -> "github default"

calculateCommitTitle(options, v) ==
    CASE options.title = "pull_request_title" -> "pull request"
      [] options.title = "first_commit_title" ->
            IF "commits" \in v.failing THEN "error" ELSE "first commit"
      [] OTHER -> "github default"

(* MergePR's defaults for what is not configured; an error ends it.        *)
SquashMessage(options, v) ==
    LET o == [options EXCEPT !.title = IF @ = "" THEN "pull_request_title" ELSE @,
                             !.body = IF @ = "" THEN "empty_body" ELSE @]
    IN  [message |-> calculateCommitMessage(o, v), title |-> calculateCommitTitle(o, v)]
=============================================================================
