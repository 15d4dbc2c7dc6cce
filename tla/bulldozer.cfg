SPECIFICATION BulldozerSpec
CONSTANTS
  p1 = p1
  p2 = p2
  w1 = w1
  w2 = w2
  c1 = c1
  c2 = c2
  c3 = c3
  NoJob = NoJob
  NoTask = NoTask
  NoView = NoView
  PRs = {p1, p2}
  Branches <- TwoBranches
  Forks = {"one"}
  HeadOf <- TwoHead
  BaseOf <- TwoBase
  Number <- TwoNumber
  PushedTo <- TwoPushedTo
  Changes = {c1, c2}
  MergeCommits = {m1, m2, m3}
  Workers = {w1}
  MergeMethods = {"squash"}
  DeleteAfterMerge = TRUE
  MergeTriggers = {}
  UpdateTriggers = {}
  ReviewRequired = TRUE
  Updating = TRUE
  DisableUpdateFeature = FALSE
  RequiredCheck = "status"
  QueueSize = 1
  PageSize = 1
  Mishaps = {"api", "transport", "restart"}
INVARIANTS
  BulldozerTypeOK
  NoMergeIsMissed
  NoUpdateIsMissed
  LandedWorkStays
PROPERTIES
  EventsAreHandled
  ImplementsLanding
CHECK_DEADLOCK FALSE
