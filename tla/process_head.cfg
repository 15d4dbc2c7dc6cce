SPECIFICATION ProcessSpec
CONSTANTS
  p1 = p1
  w1 = w1
  w2 = w2
  c1 = c1
  c2 = c2
  NoRun = NoRun
  NoStatuses = NoStatuses
  PRs = {p1}
  Branches <- SingleBranches
  Forks = {}
  HeadOf <- SingleHead
  BaseOf <- SingleBase
  Changes = {c1, c2}
  MergeCommits = {m1}
  Workers = {w1}
  MergeMethods = {"squash", "ff-only"}
  Restricted = {}
  UserToken = FALSE
  MaxPullRequestPollCount = 2
  Faults = {}
  StatusContexts = {"ci"}
  CheckNames = {"lint"}
  RequiredStatuses = {"ci", "lint"}
  AllowMergeWithNoChecks = FALSE
PROPERTIES
  MergesOnlyVerifiedHeads
CHECK_DEADLOCK FALSE
