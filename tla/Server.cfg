\* Two requests and the vault that they share.
SPECIFICATION ServerSpec
CONSTANTS
  Requests = {r1, r2}
  Pulses = {p1}
  Salts = {s1}
  Passphrases = {first, second}
  Startup = first
  Nothing = Nothing
  MaxSalts = 3
SYMMETRY Interchangeable
INVARIANTS
  MasterOfPassphrase
  SubKeyOfMaster
  AuditTruthful
  StoredUnseals
