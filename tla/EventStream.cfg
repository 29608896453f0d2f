SPECIFICATION FairSpec
CONSTANTS
  Watchers = {w1, w2}
  BufferSize = 2
  MaxEvents = 5
INVARIANT NoGap
PROPERTY ImplementsWatch
PROPERTY ShutdownEndsStreams
CHECK_DEADLOCK FALSE
