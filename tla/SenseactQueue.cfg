\* A ring of four slots and three different actions.
SPECIFICATION Spec
CONSTANTS
  a1 = a1
  a2 = a2
  a3 = a3
  none = none
  Action = {a1, a2, a3}
  NoAction = none
  BufferSize = 4
PROPERTY ImplementsFifo
PROPERTY NoSilentLoss
