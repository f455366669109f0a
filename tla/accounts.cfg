SPECIFICATION FairSpec
CONSTANTS
  None = None
  root = root
  ann = ann
  bob = bob
  pw1 = pw1
  pw2 = pw2
  h1 = h1
  h2 = h2
  s1 = s1
  s2 = s2
  MaxId = 3
  Names = {root, ann, bob}
  Passwords = {pw1, pw2}
  Tokens = {t1}
  Keys = {k1}
  Servers = {s1, s2}
  Handlers = {h1, h2}
  ServerOf <- MCServerOf
  ADMIN_USER = root
  ADMIN_PASSWORD = pw1
  InitialTables <- MCTables
  Crashing = {s1}
  MaxBatch = 2
INVARIANTS
  TypeOK
  ParentsFitRoles
  OneAdministrator
  NothingOutlivesItsAccount
  PagesMatchRules
PROPERTIES
  WritesAreAuthorised
  EveryServerStarts
