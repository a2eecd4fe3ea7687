SPECIFICATION Spec
CONSTANTS
  Versions <- MCVersions
  Suts <- MCSuts
  GoodSuts <- MCGoodSuts
  Envs <- MCEnvs
  FirstCommit <- MCFirstCommit
  MaxPushes = 2
  MaxDispatches = 1
INVARIANTS
  NewestChangeTested
