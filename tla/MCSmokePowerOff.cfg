SPECIFICATION Spec
CONSTANTS
  MaxNoise = 1
  DeathCodes <- MCDeathCodes
  Commands <- MCCommands
  Height = 2
  Outcomes <- MCOutcomes
  Carries <- MCCarries
INVARIANTS
  GreenMeansPoweredOff
