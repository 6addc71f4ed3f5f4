\* Two bootstrap calls and the daily job compete for the lock, no restart and no
\* seals.  MinSamples 2: some of them find too few samples and fall back.  No
\* symmetry, for the liveness property.
SPECIFICATION EngineSpec
CONSTANTS
  Tasks = {t1, t2}
  Dicts = {d1, d2}
  NoDict = NoDict
  Gains = {0, 1}
  ExtraSizes = {1}
  Loadable = {}
  RetrainEvery = 1
  MinSamples = 2
  BufferMax = 2
  MinImprovement = 1
  KeepVersions = 2
  MaxSeals = 9
  MaxVersion = 4
  Pulses = {}
  MaxProbes = 0
  MaxRestarts = 0
INVARIANTS
  VersionsConsecutive
PROPERTIES
  ImplementsRegister
  BootstrapsEnd
