SPECIFICATION Spec
CONSTANTS
  p1 = p1
  p2 = p2
  w1 = w1
  w2 = w2
  c1 = c1
  c2 = c2
  c3 = c3
  NoRun = NoRun
  PRs = {p1, p2}
  Branches <- StackedBranches
  Forks = {"stack"}
  HeadOf <- StackedHead
  BaseOf <- StackedBase
  Changes = {c1, c2}
  MergeCommits = {}
  Workers = {w1}
  MergeMethods = {"squash", "ff-only"}
  Restricted = {"main"}
  UserToken = TRUE
  MaxPullRequestPollCount = 2
  Faults = {"transport", "api", "refusal", "restart"}
INVARIANTS
  TypeOK
  LandedBeforeDelete
  BystandersKeepTheirBase
PROPERTIES
  RunEnds
  ImplementsLanding
CHECK_DEADLOCK FALSE
