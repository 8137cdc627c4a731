\* Device nodes that exist without their device: is memory freed with references to it?
SPECIFICATION Spec
CONSTANTS
  d1 = d1
  f1 = f1
  f2 = f2
  nodev = nodev
  nofile = nofile
  Device = {d1}
  File = {f1, f2}
  NumMinors = 1
  NoDevice = nodev
  NoFile = nofile
  HasFlush = TRUE
  StaticNodes = TRUE
INVARIANT NoUseAfterFree
