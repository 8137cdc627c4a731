\* Two files, one of which is read while the other comes and goes on the list;
\* the smallest ring, which any batch of two overruns. One action value: what a
\* ring delivers is the matter of SenseactQueue.
SPECIFICATION FairSpec
CONSTANTS
  f1 = f1
  f2 = f2
  a1 = a1
  none = none
  Action = {a1}
  NoAction = none
  BufferSize = 2
  File = {f1, f2}
  Reader = {f1}
  MaxBatch = 3
  ReadMax = 2
INVARIANT TypeOK
INVARIANT NoInsertAfterFree
INVARIANT NoLostWakeUp
INVARIANT EmptyReadOnlyAfterOverrun
PROPERTY CallsEndOnRemoval
PROPERTY DataWakesReader
PROPERTY ReleaseEnds
