\* The camera as clients subscribe and unsubscribe: the assertion of GrabFrame.
SPECIFICATION Spec
CONSTANTS
  Driver = {"base", "ir", "camera", "olsrd"}
  FdCount = 3
  Speed = {0, 1}
  QueueLength = 6
  IrCounts <- Counts
  Skip = 1
  Answers <- Lines
  Scenes <- Hands
  Presses <- Pressed
  Tilts <- Tilted
  Writer = {w1, w2}
  NoWriter = NoWriter
  SensorCount = 6
  Switch = {0, 5, 6}
  Scenarios <- Camera
INVARIANT GrabsWithoutFrame
CHECK_DEADLOCK FALSE
