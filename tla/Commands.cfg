\* Three commands at a time, two pulses, and one file name for both.
SPECIFICATION CommandsSpec
CONSTANTS
  Processes = {c1, c2, c3}
  Pulses = {p1, p2}
  Names = {data}
  Passphrases = {first, second}
  Dicts = {d1}
  NoDict = NoDict
  Nothing = Nothing
SYMMETRY Interchangeable
INVARIANTS
  SealedUnseals
