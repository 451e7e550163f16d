SPECIFICATION Spec
CONSTANTS
  None = None
  Contracts = {"common.weth", "common.balancer", "common.p2p_controller", "p2p.eth_nfts", "proxies.arcade"}
  Deployable = {"common.balancer", "common.p2p_controller", "p2p.eth_nfts", "proxies.arcade"}
  Dependencies <- MCDependencies
  ProxiedBy <- MCProxiedBy
  Registries = {"common.p2p_controller"}
  ConfigKey = "configs.trait_roots"
  Versions = {"v1", "v2", "v3"}
  Unresolved = {"v3"}
  MaxDeployed = 9
  MaxCrashes = 1
INVARIANTS
  ConstructedInOrder
  BookIsConsistent
  RecordedProxiesAreAuthorized
  RegistriesAreConfigured
PROPERTIES
  EverythingIsRecorded
CHECK_DEADLOCK FALSE
