SPECIFICATION Spec
CONSTANTS
  Words <- MCWords
  Labels <- MCLabels
  Fold <- MCFold
  BaseBranches <- MCBranches
  Patterns <- MCPatterns
  MatchedBy <- MCMatchedBy
  Contexts <- MCContexts
INVARIANTS
  MethodsFailClosed
