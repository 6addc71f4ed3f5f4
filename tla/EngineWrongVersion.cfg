\* A retrain commits between a seal's compression and its metadata.
SPECIFICATION EngineSpec
CONSTANTS
  Tasks = {t1, t2}
  Dicts = {d1, d2}
  NoDict = NoDict
  Gains = {0, 1}
  ExtraSizes = {1}
  Loadable = {}
  RetrainEvery = 1
  MinSamples = 1
  BufferMax = 1
  MinImprovement = 1
  KeepVersions = 3
  MaxSeals = 9
  MaxVersion = 4
  Pulses = {p1}
  MaxProbes = 0
  MaxRestarts = 0
INVARIANTS
  DictVersionIsTheOneUsed
