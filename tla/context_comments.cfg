SPECIFICATION Spec
CONSTANTS
  MaxPages = 2
  Initial <- Sizes
  Growing <- Grows
  Nil = Nil
  NoCall = NoCall
INVARIANTS
  CommentsAreCompleteOrFail
CHECK_DEADLOCK FALSE
