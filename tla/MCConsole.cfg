SPECIFICATION ConsoleSpec
CONSTANTS
  None = None
  Wallets = {"b", "l"}
  Receivers = {}
  Refusing = {}
  Payees = {"k", "f", "balancer", "elsewhere", "nftfi", "arcade", "benddao", "gondi"}
  Vault = "vault"
  Proxies <- MCProxies
  NftfiProxy = "nftfi"
  ArcadeProxy = "arcade"
  BendDAOProxy = "benddao"
  GondiProxy = "gondi"
  FlashLender = "balancer"
  Elsewhere = "elsewhere"
  ForeignLoans <- MCForeignLoans
  Callers <- MCCallers
  Approvees = {"elsewhere", "l"}
  FlashAmounts = {3}
  Admins = {"adm"}
  Deployer = "adm"
  Nfts <- MCNfts
  CryptoPunks = "punks"
  Delegates = {}
  Offers <- MCOffers
  BrokerTerms <- Plain
  Protocols <- MCProtocols
  FeeCaps <- MCFeeCaps
  CollectionKeys = {"k1"}
  Contracts = {"c1"}
  TraitRoots = {}
  EmptyRoot = {}
  Listing <- MCListing
  Roots <- MCRoots
  Holdings <- MCHoldings
  Funds <- MCFunds
  Blacklistable = {}
  Granted <- MCGranted
  MaxTime = 1
  MaxCallDepth = 1
PROPERTIES
  ApprovalsHold
  WalletsLoseOnlyByConsent
CHECK_DEADLOCK FALSE
