SPECIFICATION Spec
CONSTANTS
  Versions <- MCVersions
  Suts <- MCSuts
  GoodSuts <- MCGoodSuts
  Envs <- MCOneEnv
  FirstCommit <- MCFirstCommit
  MaxPushes = 2
  MaxDispatches = 1
INVARIANTS
  TypeOK
  ArrivesBound
  PublishesOnlyItsBundle
  StaleHasCause
  SupersededByNewer
PROPERTIES
  OnlyGrows
  RunsConclude
