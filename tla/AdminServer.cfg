SPECIFICATION Spec
CONSTANTS
  u1 = u1
  u2 = u2
  k1 = k1
  k2 = k2
  r1 = r1
  r2 = r2
  r3 = r3
  None = None
  Initial = Initial
  Requests = {r1, r2, r3}
  Users = {u1, u2}
  Keys = {k1, k2}
  Agendas <- OneOfEach
  Fields = {"f1", "f2"}
  Segments = {"web", "phone"}
  Engines = {"pipeline", "nova-sonic"}
  Langs = {"en-US", "zh-HK"}
  Served <- ServedLanguages
  Fallback <- Defaults
  Servers = {"s1", "s2"}
  Headers = {"h1"}
  Mask = Mask
  Rows <- AllRows
  FirstRows <- OldRows
  Limit = 2
SYMMETRY RequestSymmetry
INVARIANTS
  TypeOK
  CacheIsCurrent
  OmittedFieldsAreKept
  SeedFillsAnEmptyTable
  
  SecretsSurviveRestart
  PagesAreComplete
PROPERTIES
  AccountLifecycle
  LockOutIsStale
CHECK_DEADLOCK FALSE
