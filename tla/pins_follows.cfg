\* An idle daemon, its bounds used up, may wait for ever.
SPECIFICATION Spec
CHECK_DEADLOCK FALSE
CONSTANTS
  hm = hm
  nixpkgs = nixpkgs
  kernel = kernel
  root = root
  kHm = kHm
  kHmNixpkgs = kHmNixpkgs
  kNixpkgs = kNixpkgs
  kKernel = kKernel
  Names <- MCNames
  Keys <- MCKeys
  Root = root
  Owner <- MCOwner
  Graphs <- MCGraphs
  Configs <- MCConfigs
  Nixpkgs = nixpkgs
  MaxDepth = 16
  None = None
  MaxRev = 1
  MaxEdits = 1
  MaxChecks = 2
PROPERTIES
  PinsNeverMove
