SPECIFICATION LendingSpec
CONSTANTS
  None = None
  Wallets = {"b", "l1", "l2"}
  Receivers = {"b", "l1"}
  Refusing = {"l2"}
  Payees = {"k", "w"}
  Vault = "vault"
  Proxies = {}
  Admins = {"adm"}
  Deployer = "adm"
  Nfts <- NftAndPunk
  CryptoPunks = "punks"
  Delegates = {"d"}
  Offers <- PunkOffers
  BrokerTerms <- NoBrokers
  Protocols <- NoFee
  FeeCaps <- MCFeeCaps
  CollectionKeys = {"k1", "k2"}
  Contracts = {"c1", "punks"}
  TraitRoots = {{}}
  EmptyRoot = {}
  Listing <- PunkListing
  Roots <- PunkRoots
  Holdings <- PunkHoldings
  Funds <- RichFunds
  Blacklistable = {}
  MaxTime = 3
  MaxCallDepth = 2
INVARIANTS
  OfferCountMatchesLoans
  TokenOffersAreSpent
  DelegationKept
  CustodyMatchesLoans
  NoStrayDelegation
  DefaultStaysClaimable
PROPERTIES
  RevokedOffersGiveNoLoan
  CustodySpec
CHECK_DEADLOCK FALSE
