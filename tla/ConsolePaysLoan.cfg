SPECIFICATION ConsoleSpec
CONSTANTS
  None = None
  Wallets = {"b", "l"}
  Receivers = {}
  Refusing = {}
  Payees = {"k", "f", "balancer", "elsewhere", "nftfi", "arcade", "benddao", "gondi"}
  Vault = "vault"
  Proxies <- MCProxies
  NftfiProxy = "nftfi"
  ArcadeProxy = "arcade"
  BendDAOProxy = "benddao"
  GondiProxy = "gondi"
  FlashLender = "balancer"
  Elsewhere = "elsewhere"
  ForeignLoans <- MCForeignLoans
  Callers <- MCCallers
  Approvees = {"elsewhere"}
  FlashAmounts = {3, 4}
  Admins = {"adm"}
  Deployer = "adm"
  Nfts <- MCNfts
  CryptoPunks = "punks"
  Delegates = {}
  Offers <- Large
  BrokerTerms <- MCBrokerTerms
  Protocols <- MCProtocols
  FeeCaps <- MCFeeCaps
  CollectionKeys = {"k1"}
  Contracts = {"c1"}
  TraitRoots = {}
  EmptyRoot = {}
  Listing <- MCListing
  Roots <- MCRoots
  Holdings <- LargeHoldings
  Funds <- LargeFunds
  Blacklistable = {}
  Granted <- LargeGranted
  MaxTime = 2
  MaxCallDepth = 1
INVARIANTS
  ConsolePaysLoan
CHECK_DEADLOCK FALSE
