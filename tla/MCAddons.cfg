SPECIFICATION Spec
CONSTANTS
  None = None
  Session = {s1, s2}
  Key = {k1}
  NoKey = NoKey
  Proc = {q1, q2}
  Model = {m1}
  Method = {write}
  Conf = {f1, f2}
  NoRule = NoRule
  NoPatch = NoPatch
  Rec = {r1, r2}
  Existing = {r1}
  Field = {f, h}
  Hidden = {h}
  Val = {F, v}
  False = F
  LogType = "full"
  capture_record = FALSE
  MaxLogCalls = 3
  MaxLogDepth = 2
  User = {u1, u2}
  Journal = {j1, j2}
  content <- Files
  search <- Accounts
  currency_id <- Currencies
  MaxImports = 3
  j1 = j1
  j2 = j2
  Users = {u1}
  Cron = Cron
  Company = {co}
  NoCompany = NoCompany
  company_id = co
  Edits = {"create", "write", "unlink", "active", "type", "generate"}
  Brand = {b1, b2, b3}
  rank <- Ranks
  Letter = {"A", "B"}
  letter <- FirstLetters
  showEmpty = {b2}
  BRAND_LIMIT = 1
  BRAND_LETTER_LIMIT = 1
  MaxVisits = 1
  MaxBrandCalls = 3
  MaxBrandChanges = 1
  b1 = b1
  b2 = b2
  b3 = b3
INVARIANTS
  TypesOK
  ActiveJobsAreUnique
  RemovableHasEnded
  RegistryMatchesRules
  LogsTellTheValues
  BalancesAddUp
  NoOverlap
  RunsCover
  BrandsShownOnce
PROPERTIES
  ImportIsComplete
CHECK_DEADLOCK FALSE
