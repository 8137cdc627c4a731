\* Two writers; a turn, a slow pull back and a request beyond the limit, no
\* two of which agree on a wheel.  A model that could stop would
\* do so before it is seen to starve the remover.
SPECIFICATION FairSpec
CONSTANTS
  f1 = f1
  f2 = f2
  none = none
  File = {f1, f2}
  NoFile = none
  Request <- Requests
INVARIANT TypeOK
INVARIANT WheelsOfOneWrite
INVARIANT WriteTakesEffect
INVARIANT EchoIsInForce
INVARIANT StopIsFinal
PROPERTY RemovalStopsRobot
CHECK_DEADLOCK FALSE
