CONSTANTS
  QueueIds = {q1, q2}
  k1 = k1
  k2 = k2
  NoKey = NoKey
  Keys = {k1, k2, NoKey}
  Commands <- FourKinds
  Bunch = 60
  MaxQueue = 2
SPECIFICATION Spec
CHECK_DEADLOCK FALSE
INVARIANTS
  NoLostWakeup
  BoundedBypass
  DrainSound
PROPERTIES
  Implements
  EveryQueueServed
