\* Two devices over one minor, two files, a driver with a flush callback: open,
\* flush, release and removal in every interleaving, and what must end ends.
\* A call that gets stuck breaks one of the liveness properties.
SPECIFICATION FairSpec
CONSTANTS
  d1 = d1
  d2 = d2
  f1 = f1
  f2 = f2
  nodev = nodev
  nofile = nofile
  Device = {d1, d2}
  File = {f1, f2}
  NumMinors = 1
  NoDevice = nodev
  NoFile = nofile
  HasFlush = TRUE
  StaticNodes = FALSE
INVARIANT FreedExactlyWhenUnused
INVARIANT EveryOpenFileHungUp
INVARIANT SlotIsOwned
PROPERTY ImplementsSessions
PROPERTY RemovedIsFreed
PROPERTY CallsReturn
CHECK_DEADLOCK FALSE
