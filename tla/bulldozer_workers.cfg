SPECIFICATION BulldozerSpec
CONSTANTS
  p1 = p1
  p2 = p2
  w1 = w1
  w2 = w2
  c1 = c1
  c2 = c2
  c3 = c3
  NoJob = NoJob
  NoTask = NoTask
  NoView = NoView
  PRs = {p1}
  Branches <- OneBranches
  Forks = {}
  HeadOf <- OneHead
  BaseOf <- OneBase
  Number <- OneNumber
  PushedTo <- OnePushedTo
  Changes = {c1, c3}
  MergeCommits = {m1, m2, m3}
  Workers = {w1, w2}
  MergeMethods = {"ff-only"}
  DeleteAfterMerge = TRUE
  MergeTriggers = {"labeled", "issue_comment"}
  UpdateTriggers = {"labeled"}
  ReviewRequired = FALSE
  Updating = TRUE
  DisableUpdateFeature = FALSE
  RequiredCheck = "check_run"
  QueueSize = 2
  PageSize = 2
  Mishaps = {}
INVARIANTS
  NoMergeIsMissed
  NoUpdateIsMissed
SYMMETRY WorkerSymmetry
CHECK_DEADLOCK FALSE
