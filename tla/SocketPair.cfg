SPECIFICATION FairPairSpec
CONSTANTS
  MaxFds = 3
  PipeRoom = 2
  MessageLen = 3
  MaxCandidates = 2
  Timeout = 1
  AnswerCapacity = 6
INVARIANT PairInv
 
INVARIANT NoMutualWait
INVARIANT AnswerReadInTime
PROPERTY NoUntriedAddress
PROPERTY ImplementsStream
PROPERTY Finishes
CHECK_DEADLOCK FALSE
