SPECIFICATION Spec
CONSTANTS
  p1 = p1
  p2 = p2
  w1 = w1
  w2 = w2
  c1 = c1
  c2 = c2
  c3 = c3
  NoRun = NoRun
  PRs = {p1, p2}
  Branches <- StackedBranches
  Forks = {"stack"}
  HeadOf <- StackedHead
  BaseOf <- StackedBase
  Changes = {c1, c2}
  MergeCommits = {m1}
  Workers = {w1}
  MergeMethods = {"merge"}
  Restricted = {}
  UserToken = FALSE
  MaxPullRequestPollCount = 2
  Faults = {"transport"}
INVARIANTS
  ErrorsAreLogged
CHECK_DEADLOCK FALSE
