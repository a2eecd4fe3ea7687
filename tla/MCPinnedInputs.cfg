SPECIFICATION Spec
CONSTANTS
  Contents <- MCContents
  Pinned = "pinned"
  Signed <- MCSigned
  Files <- MCFiles
  MaxFaults = 3
INVARIANTS TypeOK ReadyMeansPinned CacheOfPinned
PROPERTIES GoodIsKept Recovers
