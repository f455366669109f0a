SPECIFICATION Spec
CONSTANTS
  None = None
  a = a
  blank = blank
  other = other
  short = short
  k1 = k1
  k2 = k2
  k3 = k3
  wrong = wrong
  Clients = {a, blank, other, short}
  Settings <- MCSettings
  Configs <- MCConfigs
  Keys = {k1, k2, k3, wrong}
  Length <- MCLength
  Blank = blank
INVARIANTS
  EnvelopeTypeOK
  PrintedWasSealed
  HoldersAreKnown
  RepliesCanBeSealed
