\* A pulse is sealed while retrains run past the versions that are kept, in two
\* processes one after the other, whose version numbers both start at 1.
SPECIFICATION EngineSpec
CONSTANTS
  Tasks = {t1, t2}
  Dicts = {d1, d2}
  NoDict = NoDict
  Gains = {0, 1}
  ExtraSizes = {1}
  Loadable = {}
  RetrainEvery = 1
  MinSamples = 1
  BufferMax = 1
  MinImprovement = 1
  KeepVersions = 2
  MaxSeals = 9
  MaxVersion = 3
  Pulses = {p1}
  MaxProbes = 1
  MaxRestarts = 1
SYMMETRY Interchangeable
INVARIANTS
  KeptPulseReadable
PROPERTIES
  LostOnlyByKnownCauses
  CheckFailsOnlyInRetrain
