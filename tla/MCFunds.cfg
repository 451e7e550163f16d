SPECIFICATION LendingSpec
CONSTANTS
  None = None
  Wallets = {"b", "l1", "l2"}
  Receivers = {}
  Refusing = {}
  Payees = {"k", "w"}
  Vault = "vault"
  Proxies = {}
  Admins = {"adm"}
  Deployer = "adm"
  Nfts <- OneNft
  CryptoPunks = "punks"
  Delegates = {}
  Offers <- MCOffers
  BrokerTerms <- MCBrokerTerms
  Protocols <- MCProtocols
  FeeCaps <- MCFeeCaps
  CollectionKeys = {"k1"}
  Contracts = {"c1"}
  TraitRoots <- MCTraitRoots
  EmptyRoot = {}
  Listing <- MCListing
  Roots <- MCRoots
  Holdings <- OneHolding
  Funds <- MCFunds
  Blacklistable = {"l1"}
  MaxTime = 2
  MaxCallDepth = 1
INVARIANTS
  TypeOK
  VaultHoldsWhatItOwes
  PendingAddsUp
PROPERTIES
  EarlyEndRepaysLender
CHECK_DEADLOCK FALSE
