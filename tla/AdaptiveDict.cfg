\* Three coroutines share the lock, and load_dict_bytes lands anywhere between
\* them.  No symmetry, for the liveness property.
SPECIFICATION Spec
CONSTANTS
  Tasks = {t1, t2, t3}
  Dicts = {d1, d2}
  NoDict = NoDict
  Gains <- MCGains
  ExtraSizes = {0, 1}
  Loadable = {2}
  RetrainEvery = 2
  MinSamples = 2
  BufferMax = 3
  MinImprovement = 1
  KeepVersions = 3
  MaxSeals = 3
  MaxVersion = 2
INVARIANTS
  OneTrainer
  QueueExact
  CurrentIsHead
PROPERTIES
  RetrainsFinish
