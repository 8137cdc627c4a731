\* Player and its drivers, follow, avoid, wiibot and the mask of the infrared
\* sensors. Clients, pictures and answers may fail to come, and a process may be
\* aborted: the system may stop.
SPECIFICATION Spec
CONSTANTS
  Driver = {"base", "ir", "camera", "olsrd"}
  FdCount = 3
  Speed = {0, 1}
  QueueLength = 6
  IrCounts <- Counts
  Skip = 1
  Answers <- Lines
  Scenes <- Hands
  Presses <- Pressed
  Tilts <- Tilted
  Writer = {w1, w2}
  NoWriter = NoWriter
  SensorCount = 6
  Switch = {0, 5, 6}
  Scenarios <- All
INVARIANT TypeOK
INVARIANT OwnDescriptors
INVARIANT SlotsFollowPoses
INVARIANT FramesAreFreed
INVARIANT LinksOfAnswer
INVARIANT DevicesInPlace
INVARIANT MaskIsInForce
PROPERTY ServerGetsDone
PROPERTY InterruptStopsRobot
PROPERTY StopsForReason
CHECK_DEADLOCK FALSE
