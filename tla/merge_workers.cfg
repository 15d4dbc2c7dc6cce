SPECIFICATION Spec
CONSTANTS
  p1 = p1
  p2 = p2
  w1 = w1
  w2 = w2
  c1 = c1
  c2 = c2
  c3 = c3
  NoRun = NoRun
  PRs = {p1}
  Branches <- SingleBranches
  Forks = {}
  HeadOf <- SingleHead
  BaseOf <- SingleBase
  Changes = {c1, c2, c3}
  MergeCommits = {m1}
  Workers = {w1, w2}
  MergeMethods = {"merge", "ff-only"}
  Restricted = {"main"}
  UserToken = TRUE
  MaxPullRequestPollCount = 2
  Faults = {}
INVARIANTS
  LandedBeforeDelete
PROPERTIES
  BranchesOnlyGrow
  GivesUpOnlyForAReason
  MergedThenDeleted
SYMMETRY WorkerSymmetry
CHECK_DEADLOCK FALSE
