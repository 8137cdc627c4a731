\* The base and two infrared devices; the smallest queue that holds a poll of
\* the base; reads that cut every batch.
SPECIFICATION FairSpec
CONSTANTS
  FdCount = 3
  BaseCount = 1
  IrCount = 2
  BrightnessCount = 4
  QueueSize = 8
  ActionCount = 2
  Load <- Loads
INVARIANT TypeOK
INVARIANT SnapshotIsOnePoll
INVARIANT RequestIsOneWrite
PROPERTY PollIsShown
