SPECIFICATION LendingSpec
CONSTANTS
  None = None
  Wallets = {"b", "l1", "l2"}
  Receivers = {"b", "l1"}
  Refusing = {}
  Payees = {"k", "w"}
  Vault = "vault"
  Proxies = {}
  Admins = {"adm"}
  Deployer = "adm"
  Nfts <- OneNft
  CryptoPunks = "punks"
  Delegates = {"d"}
  Offers <- PlainOffers
  BrokerTerms <- NoBrokers
  Protocols <- NoFee
  FeeCaps <- MCFeeCaps
  CollectionKeys = {"k1"}
  Contracts = {"c1"}
  TraitRoots <- MCTraitRoots
  EmptyRoot = {}
  Listing <- MCListing
  Roots <- MCRoots
  Holdings <- OneHolding
  Funds <- RichFunds
  Blacklistable = {}
  MaxTime = 3
  MaxCallDepth = 2
INVARIANTS
  DelegationInPlace
CHECK_DEADLOCK FALSE
