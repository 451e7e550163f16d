SPECIFICATION ReuseSpec
CONSTANTS
  None = None
  Wallets = {"b", "l1", "l2"}
  Receivers = {}
  Refusing = {}
  Payees = {"k", "w"}
  Vault = "vault"
  Proxies = {}
  Admins = {"adm"}
  Deployer = "adm"
  Nfts <- TwoNfts
  CryptoPunks = "punks"
  Delegates = {"d"}
  Offers <- PlainOffers
  BrokerTerms <- NoBrokers
  Protocols <- NoFee
  FeeCaps <- MCFeeCaps
  CollectionKeys = {"k1"}
  Contracts = {"c1"}
  TraitRoots <- MCTraitRoots
  EmptyRoot = {}
  Listing <- MCListing
  Roots <- MCRoots
  Holdings <- TwoHoldings
  Funds <- RichFunds
  Blacklistable = {}
  MaxTime = 3
  MaxCallDepth = 1
INVARIANTS
  SizeBoundsOriginations
CHECK_DEADLOCK FALSE
