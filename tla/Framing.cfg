SPECIFICATION FramingSpec
CONSTANTS
  Sources <- AllTransports
  Conversations <- SmallConversations
  Limits = {2, 4}
  BufSize = 2
  Writers = {w1, w2}
INVARIANTS
  Framed
  WholeLines
PROPERTY
  TimedReadEnds
CHECK_DEADLOCK FALSE
