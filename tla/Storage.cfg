\* Three clients work on one pulse, with an inline content and two large ones.
SPECIFICATION StorageSpec
CONSTANTS
  Clients = {c1, c2, c3}
  Pulses = {p1}
  Contents = {small, big1, big2}
  Large = {big1, big2}
  NoContent = NoContent
  NoPulse = NoPulse
  MaxFiles = 2
SYMMETRY Interchangeable
INVARIANTS
  BlobMatchesMeta
  BrokenOnlyInWork
  NoOrphans
  TornOnlyByOverlap
  LoadsPair
  ListedHasBlob
  AcceptedIsLoadable
