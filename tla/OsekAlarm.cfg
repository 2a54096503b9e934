SPECIFICATION FairSpec
CONSTANTS
  tnum_alarm = 3
  maxval = 2
  tickbase = 1
  mincyc = 2
  Autosta <- AutostaTwo
INVARIANTS
  TypeOK
  QueueAhead
PROPERTIES
  SignalCounterEnds
  ImplementsTimers
