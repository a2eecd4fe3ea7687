SPECIFICATION Spec
CONSTANTS
  WordPairs = 2
  Flags <- MCFlags
  MaxNoise = 1
  DeathCodes <- MCDeathCodes
  Repos <- MCRepos
  Payloads <- MCPayloads
  CrashRcs <- MCCrashRcs
  ExpectLines = 2
  Cycles = 1
  PerChange = TRUE
INVARIANTS
  TypeOK
  GreenMeansConformant
  GreenMeansBoundReference
  RedMeansCause
PROPERTIES
  ImplementsGate
