SPECIFICATION Spec
CONSTANTS
  MaxPages = 2
  Initial <- Sizes
  Growing <- Grows
  Nil = Nil
  NoCall = NoCall
INVARIANTS
  TypeOK
  ReadsAreComplete
  CommentsAreCompleteAtFirst
  AnswersAreStable
CHECK_DEADLOCK FALSE
