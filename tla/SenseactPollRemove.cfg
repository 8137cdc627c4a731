\* The driver is unbound while a file of its device is open.
SPECIFICATION Spec
CONSTANTS
  d1 = d1
  d2 = d2
  none = none
  PollDevice = {d1, d2}
  NoDevice = none
  HotRemove = TRUE
INVARIANT PollingStopsWithDevice
