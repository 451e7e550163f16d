SPECIFICATION FairSpec
CONSTANTS
  None = None
  Wallets = {"b", "l2"}
  Receivers = {}
  Refusing = {"b", "l2"}
  Payees = {"k", "w", "w2"}
  Vault = "vault"
  Proxies = {"p"}
  Admins = {"adm"}
  Deployer = "adm"
  Nfts <- OneNft
  CryptoPunks = "punks"
  Delegates = {}
  Offers <- GovernedOffers
  BrokerTerms <- NoBrokers
  Protocols <- TwoProtocols
  FeeCaps <- HighFeeCaps
  CollectionKeys = {"k1"}
  Contracts = {"c1"}
  TraitRoots <- GovernedRoots
  EmptyRoot = {}
  Listing <- MCListing
  Roots <- MCRoots
  Holdings <- OneHolding
  Funds <- GovernedFunds
  Blacklistable = {}
  MaxTime = 5
  MaxCallDepth = 1
INVARIANTS
  SettlementStaysPossible
PROPERTIES
  SettlementRepaysLender
  ChargedByConsent
  CollateralLeaves
CHECK_DEADLOCK FALSE
