\* The base and the only infrared device of a robot, which has all the sensors.
SPECIFICATION Spec
CONSTANTS
  FdCount = 2
  BaseCount = 1
  IrCount = 4
  BrightnessCount = 4
  QueueSize = 8
  ActionCount = 2
  Load <- Loads
INVARIANT SnapshotIsOnePoll
