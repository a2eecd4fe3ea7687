SPECIFICATION Spec
CONSTANTS
  WordPairs = 2
  Flags <- MCFlags
  Commits <- MCCommits
  Hosts <- MCHosts
  Emulated <- MCEmulated
  Lines = 2
INVARIANT NativeOnly
