SPECIFICATION Spec
CONSTANTS
  WordPairs = 2
  Flags <- MCFlags
  MaxNoise = 1
  DeathCodes <- MCDeathCodes
  Repos <- MCSoakRepos
  Payloads <- MCSoakPayloads
  CrashRcs <- MCCrashRcs
  ExpectLines = 2
  Cycles = 2
  PerChange = FALSE
INVARIANTS
  GreenMeansConformant
  RedMeansCause
PROPERTIES
  Concludes
