SPECIFICATION RefinanceSpec
CONSTANTS
  None = None
  Wallets = {"b", "l", "s"}
  Receivers = {}
  Refusing = {}
  Payees = {"k", "f1", "f2", "balancer", "elsewhere", "nftfi", "arcade", "benddao", "gondi"}
  Vault = "vault"
  Proxies <- MCProxies
  NftfiProxy = "nftfi"
  ArcadeProxy = "arcade"
  BendDAOProxy = "benddao"
  GondiProxy = "gondi"
  FlashLender = "balancer"
  Elsewhere = "elsewhere"
  ForeignLoans <- MCForeignLoans
  Callers <- MCCallers
  Approvees = {"elsewhere", "arcade", "s"}
  FlashAmounts = {2, 3}
  Admins = {"adm"}
  Deployer = "adm"
  Nfts <- MCNfts
  CryptoPunks = "punks"
  Delegates = {}
  Offers <- MCOffers
  BrokerTerms <- MCBrokerTerms
  Protocols <- MCProtocols
  FeeCaps <- MCFeeCaps
  CollectionKeys = {"k1"}
  Contracts = {"c1", "c2"}
  TraitRoots = {}
  EmptyRoot = {}
  Listing <- MCListing
  Roots <- MCRoots
  Holdings <- MCHoldings
  Funds <- MCFunds
  Blacklistable = {}
  MaxTime = 0
  MaxCallDepth = 1
INVARIANTS
  FlashLenderIsRepaid
  ForeignLendersArePaid
  PledgedOnce
PROPERTIES
  RefinanceCostsTheDifference
  SurplusLeavesByApproval
  RefinancingIsAtomic
CHECK_DEADLOCK FALSE
