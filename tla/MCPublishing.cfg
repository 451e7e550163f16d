SPECIFICATION Spec
CONSTANTS
  None = None
  Lendings = {"usdc"}
  ProxyKeys = {"arcade"}
  Generics = {"ext"}
  Tracked = {"nftfi"}
  Properties <- MCProperties
  FileAbi <- MCFileAbi
  Versions = {1, 2}
  Collections <- MCCollections
  ChainOf <- MCChainOf
  Chain = "eth"
  Roots = {"r", "empty"}
  EmptyRoot = "empty"
  PageSize = 1
  MaxDeployments = 2
  MaxEvents = 2
INVARIANTS
  ReferencesResolve
  AbisFitAddresses
  ListingFollowsRoot
  StoredCollectionsAreKnown
PROPERTIES
  ScanMissesNothing
  TablesMirrorFiles
CHECK_DEADLOCK FALSE
