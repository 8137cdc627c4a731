\* Three devices: one starts the workqueue, one shares it, one stops it.
SPECIFICATION FairSpec
CONSTANTS
  d1 = d1
  d2 = d2
  d3 = d3
  none = none
  PollDevice = {d1, d2, d3}
  NoDevice = none
  HotRemove = FALSE
INVARIANT WorkqueueIffUsed
INVARIANT WorkOnLiveWorkqueue
INVARIANT NoPollWhenClosed
PROPERTY KeepsPolling
PROPERTY CallsReturn
