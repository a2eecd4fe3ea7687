SPECIFICATION Spec
CONSTANTS
  Contents <- MCContents
  Pinned = "pinned"
  Signed <- MCSigned
  Files <- MCFiles
  MaxFaults = 3
INVARIANT TreeComplete
