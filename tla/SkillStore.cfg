\* Two commands at a time on one skill, and one crash anywhere.
SPECIFICATION SkillSpec
CONSTANTS
  cook = cook  None = None  NoSignature = NoSignature  k1 = k1  k2 = k2  lost = lost
  Migrations <- MCMigrations  MaxCrashes = 1
  Skills = {cook}  CookingAssistant = cook  Packages <- MCPackages  Archive <- MCArchive
  KeySpec <- MCKeySpec  AppVersion <- MCAppVersion  DeviceTier = "mid"
  a = a  b = b  e1 = e1  e2 = e2  d1 = d1  altered = altered
  TrustedSetSize = 2  Keys <- MCKeys  Tokens <- MCTokens
  MaxInserts = 4
  SkillNames = {a, b}  VersionTexts <- MCVersionTexts  MaxMembers = 2
  Nonces = {n1}  Tasks = {t1, t2}
INVARIANTS StoreIsSound UnlockSurvives LicenseHonoursWindow TemplatesComeBack
PROPERTIES UndisturbedIsWhole StoreOpens
