\* Two readers, two paths, and a cache with room for one handle.
SPECIFICATION MountSpec
CONSTANTS
  Readers = {r1, r2}
  Paths = {p1, p2}
  Pulses = {x1, x2}
  Nothing = Nothing
  Chunks = 2
  MaxHandles = 1
SYMMETRY Interchangeable
INVARIANTS
  WholeUnlessShared
  StaleOnlyWhileMoved
  CacheBounded
