-------------------------- MODULE PublishingProofs --------------------------
(***************************************************************************)
(* What the tables of the service say at every moment, for all contracts,  *)
(* collections, pages and numbers of deployments, and wherever runs and    *)
(* scans stop or what they read changes.                                   *)
(***************************************************************************)
EXTENDS Publishing, FiniteSetTheorems, TLAPS

----------------------------------------------------------------------------
(* The inductive invariant. *)

PublishingTyped ==
  /\ source \in [Deployed -> Versions]
  /\ chain \in [Deployed -> Seq(Versions)]
  /\ DOMAIN book = Deployed
  /\ roots \in [CollectionKeys -> Roots \cup {None}]
  /\ DOMAIN published = Deployed \cup Tracked
  /\ items \in [CollectionKeys -> ItemType \cup {None}]
  /\ abi_map \in [Deployed \cup Tracked -> Abis \cup {None}]
  /\ scan \in ScanType \cup {None}

Newest(k) == <<k, Len(chain[k])>>

\* The contract at an address, and addresses, of chains that say what was deployed.
AbiIn(address, chains) == <<address[1], chains[address[1]][address[2]]>>

IsAddress(address, chains) ==
  \E k \in Deployed : \E n \in 1..Len(chains[k]) : address = <<k, n>>

\* The book has the newest of every contract it names.
BookIsNewest ==
  \A k \in Deployed :
    book[k] # None =>
      /\ book[k].address = Newest(k) /\ Len(chain[k]) > 0
      /\ book[k].abi = AbiIn(Newest(k), chain)
      /\ book[k].addresses = [q \in Properties[k] \cap Deployed |-> Newest(q)]
      /\ \A q \in Properties[k] \cap Deployed : Len(chain[q]) > 0

\* A record of a contract, to be published or published, and whether the run that
\* made it found the contracts as they were deployed.
IsConfig(r, sure, chains, abis) ==
  /\ IsAddress(r.address, chains) /\ r.abi = AbiIn(r.address, chains)
  /\ \A q \in DOMAIN r.addresses : IsAddress(r.addresses[q], chains)
  /\ sure =>
       /\ \A q \in DOMAIN r.addresses : r.abis[q] = AbiIn(r.addresses[q], chains)
       /\ r.abi \in abis
       /\ \A q \in DOMAIN r.abis \ Generics : r.abis[q] \in abis

\* The ABIs are in their table before a record names one.
AbisGoFirst ==
  /\ stage # "idle" => \A k \in Tracked : abi_map[k] = FileAbi[k]
  /\ \A k \in Deployed \cup Tracked :
       /\ abi_map[k] # None
       /\ stage # "idle" /\ (stage = "abis" => k \notin todo)
       => abi_map[k] \in abi_table

\* While a run finds the contracts as deployed, the book is as it read it.
FreshMapIsBook ==
  stage # "idle" /\ fresh =>
    /\ \A k \in Deployed :
         abi_map[k] = IF book[k] = None THEN None ELSE book[k].abi
    /\ stage # "abis" => \A k \in Lendings : book[k] # None

BatchFits ==
  /\ stage \notin {"idle", "abis"} => todo \subseteq DOMAIN batch
  /\ stage \in {"configs", "proxies"} =>
       \A k \in DOMAIN batch : k \in Deployed /\ IsConfig(batch[k], fresh, chain, abi_table)
  /\ stage = "tracking" =>
       \A k \in DOMAIN batch : k \in Tracked /\ batch[k] = TrackingConfig(k)
  /\ stage \in {"roots", "whitelist"} =>
       \A c \in DOMAIN batch :
         /\ c \in CollectionKeys /\ batch[c] \in Roots
         /\ stage = "whitelist" \/ c \notin todo =>
              items[c] # None /\ items[c].root = batch[c]

PublishedFits ==
  /\ \A k \in Deployed :
       published[k] # None => IsConfig(published[k], k \notin doubtful, chain, abi_table)
  /\ \A k \in Tracked : published[k] # None => published[k].abi \in abi_table

\* What was there when a scan began stays, and is had once it is passed.
ScanKeeps ==
  scan # None =>
    \A i \in DOMAIN Collections :
      Collections[i] \in scan.present =>
        /\ items[Collections[i]] # None /\ items[Collections[i]].chain = Chain
        /\ i <= scan.after =>
             scan.got[Collections[i]] # None /\ scan.got[Collections[i]].chain = Chain

PublishingInv ==
  /\ PublishingTyped /\ BookIsNewest
  /\ AbisGoFirst /\ FreshMapIsBook /\ BatchFits /\ PublishedFits
  /\ ListingFollowsRoot
  /\ ScanKeeps /\ StoredCollectionsAreKnown

----------------------------------------------------------------------------
(* Records stay true while contracts are added and ABIs published. *)

Chains == [Deployed -> Seq(Versions)]

Grows(chains, later) ==
  \A k \in Deployed :
    /\ Len(chains[k]) <= Len(later[k])
    /\ \A n \in 1..Len(chains[k]) : later[k][n] = chains[k][n]

LEMMA AddressStays ==
  ASSUME NEW chains \in Chains, NEW later \in Chains, Grows(chains, later),
         NEW address, IsAddress(address, chains)
  PROVE  IsAddress(address, later) /\ AbiIn(address, later) = AbiIn(address, chains)
<1>1. PICK k \in Deployed : \E n \in 1..Len(chains[k]) : address = <<k, n>>
  BY DEF IsAddress
<1>2. PICK n \in 1..Len(chains[k]) : address = <<k, n>>
  BY <1>1
<1>3. Len(chains[k]) \in Nat /\ Len(later[k]) \in Nat
  BY DEF Chains
<1>4. n \in 1..Len(later[k]) /\ later[k][n] = chains[k][n]
  BY <1>3 DEF Grows
<1> QED
  BY <1>2, <1>4 DEF IsAddress, AbiIn

LEMMA ConfigStays ==
  ASSUME NEW chains \in Chains, NEW later \in Chains, Grows(chains, later),
         NEW abis, NEW more, abis \subseteq more,
         NEW r, NEW sure, NEW surely, surely => sure, IsConfig(r, sure, chains, abis)
  PROVE  IsConfig(r, surely, later, more)
  BY AddressStays DEF IsConfig

LEMMA GrowsItself == ASSUME NEW chains PROVE chains \in Chains => Grows(chains, chains)
  BY DEF Grows, Chains

\* What a run reads of a contract in the book.
LEMMA ConfigIs ==
  ASSUME PublishingInv, NEW k \in Deployed, book[k] # None, stage # "idle", todo = {},
         stage # "abis" \/ k \in Lendings
  PROVE  IsConfig(Config(k), fresh, chain, abi_table)
<1> DEFINE r == Config(k)
<1>1. /\ r.address = Newest(k) /\ Len(chain[k]) > 0
      /\ r.abi = AbiIn(Newest(k), chain)
      /\ r.addresses = [q \in Properties[k] \cap Deployed |-> Newest(q)]
      /\ \A q \in Properties[k] \cap Deployed : Len(chain[q]) > 0
      /\ r.abis = AbisOfProperties(k)
  BY DEF PublishingInv, BookIsNewest, Config
<1>2. \A q \in Deployed : Len(chain[q]) \in Nat /\ chain[q] \in Seq(Versions)
  BY DEF PublishingInv, PublishingTyped
<1>3. \A q \in Deployed : Len(chain[q]) > 0 => IsAddress(Newest(q), chain)
  BY <1>2 DEF IsAddress, Newest
<1>4. \A q \in Deployed : Len(chain[q]) > 0 => AbiIn(Newest(q), chain) \in Abis
  <2>1. ASSUME NEW q \in Deployed, Len(chain[q]) > 0
        PROVE  chain[q][Len(chain[q])] \in Versions
    BY <1>2, <2>1
  <2> QED
    BY <2>1 DEF AbiIn, Newest, Abis
<1>5. \A q \in Deployed \cup Tracked : abi_map[q] # None => abi_map[q] \in abi_table
  BY DEF PublishingInv, AbisGoFirst
<1>6. \A q \in Properties[k] : q \in Lendings \cup Generics
      /\ (k \in Lendings => q \in Generics)
  BY PublishingAssumption DEF Deployed
<1>7. Deployed \cap Generics = {} /\ Lendings \subseteq Deployed /\ None \notin Abis
  BY PublishingAssumption DEF Deployed
<1>8. ASSUME fresh
      PROVE  /\ r.abi \in abi_table
             /\ \A q \in Properties[k] \cap Deployed :
                  q \in DOMAIN r.abis /\ r.abis[q] = AbiIn(Newest(q), chain)
  <2>1. \A q \in Deployed : book[q] # None =>
          abi_map[q] = AbiIn(Newest(q), chain) /\ abi_map[q] # None
    BY <1>4, <1>7, <1>8 DEF PublishingInv, FreshMapIsBook, BookIsNewest
  <2>2. \A q \in Properties[k] \cap Deployed : book[q] # None /\ q \notin Generics
    BY <1>6, <1>7, <1>8 DEF PublishingInv, FreshMapIsBook
  <2> QED
    BY <1>1, <1>5, <2>1, <2>2 DEF AbisOfProperties
<1>9. \A q \in DOMAIN r.abis \ Generics : r.abis[q] \in abi_table
  BY <1>1, <1>5, <1>6, <1>7 DEF AbisOfProperties
<1> HIDE DEF r
<1>10. IsConfig(r, fresh, chain, abi_table)
  BY <1>1, <1>3, <1>8, <1>9 DEF IsConfig
<1> QED
  BY <1>10 DEF r

----------------------------------------------------------------------------
(* The first state, and every step of a run. *)

LEMMA InitPublishing == Init => PublishingInv
<1> SUFFICES ASSUME Init PROVE PublishingInv
  OBVIOUS
<1>1. PublishingTyped
  <2>1. PICK known \in SUBSET CollectionKeys :
          items = [c \in CollectionKeys |-> IF c \in known THEN New(ChainOf[c]) ELSE None]
    BY DEF Init
  <2>2. \A c \in CollectionKeys : New(ChainOf[c]) \in ItemType
    BY DEF New, ItemType
  <2>3. items \in [CollectionKeys -> ItemType \cup {None}]
    BY <2>1, <2>2
  <2>4. chain \in [Deployed -> Seq(Versions)]
    BY DEF Init
  <2> QED
    BY <2>3, <2>4 DEF Init, PublishingTyped
<1>2. BookIsNewest
  BY DEF Init, BookIsNewest
<1>3. AbisGoFirst /\ FreshMapIsBook /\ BatchFits
  BY DEF Init, AbisGoFirst, FreshMapIsBook, BatchFits
<1>4. PublishedFits
  BY DEF Init, PublishedFits
<1>5. ListingFollowsRoot
  <2>1. PICK known \in SUBSET CollectionKeys :
          items = [c \in CollectionKeys |-> IF c \in known THEN New(ChainOf[c]) ELSE None]
    BY DEF Init
  <2>2. \A c \in CollectionKeys :
          items[c] # None => items[c].whitelisted = FALSE /\ items[c].root = None
    BY <2>1 DEF New
  <2> QED
    BY <2>2 DEF ListingFollowsRoot
<1>6. ScanKeeps /\ StoredCollectionsAreKnown
  BY DEF Init, ScanKeeps, StoredCollectionsAreKnown
<1> QED
  BY <1>1, <1>2, <1>3, <1>4, <1>5, <1>6 DEF PublishingInv

LEMMA StartKeeps == PublishingInv /\ Start => PublishingInv'
<1> SUFFICES ASSUME PublishingInv, Start PROVE PublishingInv'
  OBVIOUS
<1> USE DEF PublishingInv, Start, Outside, tableVars, fileVars, scanVars
<1>1. PublishingTyped'
  BY DEF PublishingTyped, AbiMap, AbiOf, Abis
<1>2. BookIsNewest'
  BY DEF BookIsNewest, Newest, AbiIn
<1>3. AbisGoFirst' /\ FreshMapIsBook'
  BY PublishingAssumption DEF AbisGoFirst, FreshMapIsBook, AbiMap
<1>4. BatchFits'
  BY DEF BatchFits
<1>5. PublishedFits'
  BY DEF PublishedFits
<1>6. ListingFollowsRoot' /\ ScanKeeps' /\ StoredCollectionsAreKnown'
  BY DEF ListingFollowsRoot, ScanKeeps, StoredCollectionsAreKnown
<1> QED
  BY <1>1, <1>2, <1>3, <1>4, <1>5, <1>6

\* A run that reads for its next table, or ends.
LEMMA NextStageKeeps == PublishingInv /\ NextStage => PublishingInv'
<1> SUFFICES ASSUME PublishingInv, NextStage PROVE PublishingInv'
  OBVIOUS
<1>1. PublishingTyped' /\ PublishedFits'
  BY DEF PublishingInv, NextStage, Outside, tableVars, fileVars, scanVars,
         PublishingTyped, PublishedFits
<1>2. BookIsNewest'
  BY DEF PublishingInv, NextStage, Outside, fileVars, BookIsNewest, Newest, AbiIn
<1>3. ListingFollowsRoot' /\ ScanKeeps' /\ StoredCollectionsAreKnown'
  BY DEF PublishingInv, NextStage, Outside, tableVars, fileVars, scanVars,
         ListingFollowsRoot, ScanKeeps, StoredCollectionsAreKnown
<1>4. AbisGoFirst' /\ FreshMapIsBook'
  BY DEF PublishingInv, NextStage, Outside, tableVars, fileVars,
         AbisGoFirst, FreshMapIsBook, Reads
<1>5. BatchFits'
  <2>1. CASE stage = "abis"
    <3>1. \A k \in Lendings : book[k] # None /\ k \in Deployed
      BY <2>1 DEF NextStage, Deployed
    <3>2. \A k \in Lendings : IsConfig(Config(k), fresh, chain, abi_table)
      BY <2>1, <3>1, ConfigIs DEF NextStage
    <3> QED
      BY <2>1, <3>1, <3>2 DEF BatchFits, NextStage, Reads, Outside, fileVars, tableVars
  <2>2. CASE stage = "tracking"
    <3>1. \A k \in ProxyKeys : book[k] # None /\ k \in Deployed
      BY <2>2 DEF NextStage, Deployed
    <3>2. \A k \in ProxyKeys : IsConfig(Config(k), fresh, chain, abi_table)
      BY <2>2, <3>1, ConfigIs DEF NextStage
    <3> QED
      BY <2>2, <3>1, <3>2 DEF BatchFits, NextStage, Reads, Outside, fileVars, tableVars
  <2>3. CASE stage = "proxies"
    BY <2>3 DEF PublishingInv, PublishingTyped, BatchFits, NextStage, Reads, TraitRoots, Listed
  <2>4. CASE stage = "roots"
    BY <2>4 DEF PublishingInv, BatchFits, NextStage, Reads, Outside, tableVars
  <2>5. CASE stage \in {"configs", "whitelist"}
    BY <2>5 DEF BatchFits, NextStage, Reads
  <2> QED
    BY <2>1, <2>2, <2>3, <2>4, <2>5 DEF NextStage
<1> QED
  BY <1>1, <1>2, <1>3, <1>4, <1>5 DEF PublishingInv

LEMMA EndKeeps ==
  PublishingInv /\ Reads("idle", <<>>) /\ UNCHANGED <<abi_map, fresh, tableVars, fileVars, scanVars>>
  => PublishingInv'
<1> SUFFICES ASSUME PublishingInv, Reads("idle", <<>>),
                    UNCHANGED <<abi_map, fresh, tableVars, fileVars, scanVars>>
             PROVE  PublishingInv'
  OBVIOUS
<1> USE DEF PublishingInv, Reads, tableVars, fileVars, scanVars
<1>1. PublishingTyped' /\ PublishedFits'
  BY DEF PublishingTyped, PublishedFits
<1>2. BookIsNewest'
  BY DEF BookIsNewest, Newest, AbiIn
<1>3. AbisGoFirst' /\ FreshMapIsBook' /\ BatchFits'
  BY DEF AbisGoFirst, FreshMapIsBook, BatchFits
<1>4. ListingFollowsRoot' /\ ScanKeeps' /\ StoredCollectionsAreKnown'
  BY DEF ListingFollowsRoot, ScanKeeps, StoredCollectionsAreKnown
<1> QED
  BY <1>1, <1>2, <1>3, <1>4

LEMMA UpdateAbiKeeps ==
  ASSUME PublishingInv, NEW k, UpdateAbi(k) PROVE PublishingInv'
<1> USE DEF PublishingInv, UpdateAbi, Written, Outside, fileVars, scanVars
<1>1. PublishingTyped'
  BY DEF PublishingTyped
<1>2. BookIsNewest'
  BY DEF BookIsNewest, Newest, AbiIn
<1>3. AbisGoFirst' /\ FreshMapIsBook' /\ BatchFits'
  BY DEF AbisGoFirst, FreshMapIsBook, BatchFits
<1>4. PublishedFits'
  <2>1. chain \in Chains /\ Grows(chain, chain)
    BY GrowsItself DEF PublishingTyped, Chains
  <2>2. abi_table \subseteq abi_table' /\ chain' = chain
    OBVIOUS
  <2>3. ASSUME NEW q \in Deployed, published[q] # None
        PROVE  IsConfig(published[q], q \notin doubtful, chain, abi_table')
    <3>1. IsConfig(published[q], q \notin doubtful, chain, abi_table)
      BY <2>3 DEF PublishedFits
    <3> QED
      BY <2>1, <2>2, <3>1, ConfigStays
  <2> QED
    BY <2>2, <2>3 DEF PublishedFits
<1>5. ListingFollowsRoot' /\ ScanKeeps' /\ StoredCollectionsAreKnown'
  BY DEF ListingFollowsRoot, ScanKeeps, StoredCollectionsAreKnown
<1> QED
  BY <1>1, <1>2, <1>3, <1>4, <1>5

LEMMA UpdateConfigKeeps ==
  ASSUME PublishingInv, NEW k, UpdateConfig(k) PROVE PublishingInv'
<1> USE DEF PublishingInv, UpdateConfig, Written, Outside, fileVars, scanVars
<1>1. PublishingTyped'
  BY DEF PublishingTyped
<1>2. BookIsNewest'
  BY DEF BookIsNewest, Newest, AbiIn
<1>3. AbisGoFirst' /\ FreshMapIsBook' /\ BatchFits'
  BY DEF AbisGoFirst, FreshMapIsBook, BatchFits
<1>4. PublishedFits'
  <2>1. k \in DOMAIN batch /\ Deployed \cap Tracked = {}
    BY PublishingAssumption DEF BatchFits
  <2>2. CASE stage \in {"configs", "proxies"}
    <3>1. k \in Deployed /\ k \notin Tracked /\ IsConfig(batch[k], fresh, chain, abi_table)
      BY <2>1, <2>2 DEF BatchFits
    <3>2. (k \notin doubtful') => fresh
      BY <3>1
    <3>3. IsConfig(batch[k], k \notin doubtful', chain, abi_table)
      BY <3>1, <3>2 DEF IsConfig
    <3> QED
      BY <3>1, <3>3 DEF PublishedFits, PublishingTyped
  <2>3. CASE stage = "tracking"
    <3>1. k \in Tracked /\ k \notin Deployed /\ batch[k] = TrackingConfig(k)
      BY <2>1, <2>3 DEF BatchFits
    <3>2. abi_map[k] = FileAbi[k] /\ FileAbi[k] # None
      BY <2>3, <3>1, PublishingAssumption DEF AbisGoFirst, Abis
    <3>3. batch[k].abi \in abi_table
      BY <2>3, <3>1, <3>2 DEF AbisGoFirst, TrackingConfig
    <3> QED
      BY <3>1, <3>3 DEF PublishedFits, PublishingTyped
  <2> QED
    BY <2>2, <2>3
<1>5. ListingFollowsRoot' /\ ScanKeeps' /\ StoredCollectionsAreKnown'
  BY DEF ListingFollowsRoot, ScanKeeps, StoredCollectionsAreKnown
<1> QED
  BY <1>1, <1>2, <1>3, <1>4, <1>5

\* What an update, or another service, makes of an item.
LEMMA ItemIs ==
  ASSUME PublishingInv, NEW c \in CollectionKeys
  PROVE  /\ Item(c) \in ItemType
         /\ items[c] # None => Item(c) = items[c]
         /\ items[c] = None => Item(c) = New(None)
<1>1. New(None) \in ItemType
  BY DEF New, ItemType
<1> QED
  BY <1>1 DEF PublishingInv, PublishingTyped, Item

LEMMA UpdateTraitRootKeeps ==
  ASSUME PublishingInv, NEW c, UpdateTraitRoot(c) PROVE PublishingInv'
<1> USE DEF PublishingInv, UpdateTraitRoot, Written, Outside, fileVars, scanVars
<1>1. c \in CollectionKeys /\ batch[c] \in Roots
  BY DEF BatchFits
<1>2. /\ items[c] # None => Item(c) = items[c]
      /\ Item(c) \in ItemType
  BY <1>1, ItemIs
<1> DEFINE item == [Item(c) EXCEPT !.root = batch[c]]
<1>3. /\ item \in ItemType /\ item # None
      /\ item.root = batch[c] /\ item.chain = Item(c).chain
  BY <1>1, <1>2, NoneIsNoRecord DEF ItemType
<1> HIDE DEF item
<1>4. /\ items'[c] = item
      /\ \A d \in CollectionKeys \ {c} : items'[d] = items[d]
      /\ items' \in [CollectionKeys -> ItemType \cup {None}]
  BY <1>1, <1>3 DEF PublishingTyped, item
<1>5. PublishingTyped'
  BY <1>4 DEF PublishingTyped
<1>6. BookIsNewest' /\ AbisGoFirst' /\ FreshMapIsBook'
  BY DEF BookIsNewest, Newest, AbiIn, AbisGoFirst, FreshMapIsBook
<1>7. BatchFits'
  BY <1>3, <1>4 DEF BatchFits
<1>8. PublishedFits' /\ StoredCollectionsAreKnown'
  BY DEF PublishedFits, StoredCollectionsAreKnown
<1>9. ListingFollowsRoot'
  BY <1>4 DEF ListingFollowsRoot
<1>10. ScanKeeps'
  <2>1. \A i \in DOMAIN Collections : Collections[i] \in CollectionKeys
    BY PublishingAssumption
  <2> QED
    BY <1>2, <1>3, <1>4, <2>1 DEF ScanKeeps
<1> QED
  BY <1>5, <1>6, <1>7, <1>8, <1>9, <1>10

\* What ListingFollowsRoot says of an item.
Follows(item) == item.whitelisted = (item.root \notin {None, EmptyRoot})

LEMMA UpdateWhitelistedKeeps ==
  ASSUME PublishingInv, NEW c, UpdateWhitelisted(c) PROVE PublishingInv'
<1> USE DEF PublishingInv, UpdateWhitelisted, Written, Outside, fileVars, scanVars
<1>1. c \in CollectionKeys /\ batch[c] \in Roots /\ items[c] # None /\ items[c].root = batch[c]
  BY DEF BatchFits
<1>2. Item(c) = items[c] /\ Item(c) \in ItemType
  BY <1>1, ItemIs
<1> DEFINE item == [Item(c) EXCEPT !.whitelisted = batch[c] # EmptyRoot]
<1>3. /\ item \in ItemType /\ item # None
      /\ item.root = batch[c] /\ item.chain = items[c].chain
      /\ item.whitelisted = (batch[c] # EmptyRoot)
  BY <1>1, <1>2, NoneIsNoRecord DEF ItemType
<1> HIDE DEF item
<1>4. /\ items'[c] = item
      /\ \A d \in CollectionKeys \ {c} : items'[d] = items[d]
      /\ items' \in [CollectionKeys -> ItemType \cup {None}]
  BY <1>1, <1>3 DEF PublishingTyped, item
<1>5. PublishingTyped'
  BY <1>4 DEF PublishingTyped
<1>6. BookIsNewest' /\ AbisGoFirst' /\ FreshMapIsBook'
  BY DEF BookIsNewest, Newest, AbiIn, AbisGoFirst, FreshMapIsBook
<1>7. BatchFits'
  BY <1>3, <1>4 DEF BatchFits
<1>8. PublishedFits' /\ StoredCollectionsAreKnown'
  BY DEF PublishedFits, StoredCollectionsAreKnown
<1>9. ListingFollowsRoot'
  <2>1. batch[c] # None
    BY <1>1, PublishingAssumption
  <2>2. (batch[c] # EmptyRoot) = (batch[c] \notin {None, EmptyRoot})
    BY <2>1
  <2>3. Follows(item)
    <3>1. item.root = batch[c] /\ item.whitelisted = (batch[c] # EmptyRoot)
      BY <1>3
    <3> QED
      BY <2>2, <3>1, Zenon DEF Follows
  <2>4. Follows(items'[c])
    BY <1>4, <2>3
  <2>5. ASSUME NEW d \in CollectionKeys \ torn', items'[d] # None, d # c
        PROVE  Follows(items'[d])
    BY <1>4, <2>5 DEF ListingFollowsRoot, Follows
  <2> QED
    BY <2>4, <2>5 DEF ListingFollowsRoot, Follows
<1>10. ScanKeeps'
  <2>1. \A i \in DOMAIN Collections : Collections[i] \in CollectionKeys
    BY PublishingAssumption
  <2> QED
    BY <1>1, <1>3, <1>4, <2>1 DEF ScanKeeps
<1> QED
  BY <1>5, <1>6, <1>7, <1>8, <1>9, <1>10

LEMMA RunStepKeeps == PublishingInv /\ RunStep => PublishingInv'
<1> SUFFICES ASSUME PublishingInv, RunStep PROVE PublishingInv'
  OBVIOUS
<1>1. CASE NextStage
  BY <1>1, NextStageKeeps
<1>2. CASE Raise
  BY <1>2, EndKeeps DEF Raise, Outside
<1>3. ASSUME NEW k, UpdateAbi(k) \/ UpdateConfig(k) \/ UpdateTraitRoot(k) \/ UpdateWhitelisted(k)
      PROVE  PublishingInv'
  BY <1>3, UpdateAbiKeeps, UpdateConfigKeeps, UpdateTraitRootKeeps, UpdateWhitelistedKeeps
<1> QED
  BY <1>1, <1>2, <1>3 DEF RunStep

----------------------------------------------------------------------------
(* What changes meanwhile. *)

LEMMA EditKeeps ==
  PublishingInv /\ (\/ \E k \in Deployed, version \in Versions : EditSource(k, version)
                    \/ \E c \in CollectionKeys, root \in Roots \cup {None} : EditRoots(c, root))
  => PublishingInv'
<1> SUFFICES ASSUME PublishingInv, PublishingTyped',
                    UNCHANGED <<chain, book, tableVars, runVars, scanVars>>
             PROVE  PublishingInv'
  BY DEF EditSource, EditRoots, PublishingInv, PublishingTyped, tableVars, runVars, scanVars
<1> USE DEF PublishingInv, tableVars, runVars, scanVars
<1>1. BookIsNewest' /\ AbisGoFirst' /\ FreshMapIsBook'
  BY DEF BookIsNewest, Newest, AbiIn, AbisGoFirst, FreshMapIsBook
<1>2. BatchFits' /\ PublishedFits'
  BY DEF BatchFits, PublishedFits
<1>3. ListingFollowsRoot' /\ ScanKeeps' /\ StoredCollectionsAreKnown'
  BY DEF ListingFollowsRoot, ScanKeeps, StoredCollectionsAreKnown
<1> QED
  BY <1>1, <1>2, <1>3

LEMMA AddCollectionKeeps ==
  ASSUME PublishingInv, NEW c \in CollectionKeys, AddCollection(c) PROVE PublishingInv'
<1> USE DEF PublishingInv, AddCollection, fileVars, runVars, scanVars
<1>1. /\ Item(c) \in ItemType
      /\ items[c] # None => Item(c) = items[c]
      /\ items[c] = None => Item(c) = New(None)
  BY ItemIs
<1> DEFINE item == [Item(c) EXCEPT !.chain = ChainOf[c]]
<1>2. /\ item \in ItemType /\ item # None
      /\ item.root = Item(c).root /\ item.whitelisted = Item(c).whitelisted
  BY <1>1, NoneIsNoRecord DEF ItemType
<1> HIDE DEF item
<1>3. /\ items'[c] = item
      /\ \A d \in CollectionKeys \ {c} : items'[d] = items[d]
      /\ items' \in [CollectionKeys -> ItemType \cup {None}]
  BY <1>2 DEF PublishingTyped, item
<1>4. PublishingTyped'
  BY <1>3 DEF PublishingTyped
<1>5. BookIsNewest' /\ AbisGoFirst' /\ FreshMapIsBook'
  BY DEF BookIsNewest, Newest, AbiIn, AbisGoFirst, FreshMapIsBook
<1>6. BatchFits'
  BY <1>1, <1>2, <1>3 DEF BatchFits
<1>7. PublishedFits' /\ StoredCollectionsAreKnown'
  BY DEF PublishedFits, StoredCollectionsAreKnown
<1>8. ListingFollowsRoot'
  <2>1. c \notin torn => items'[c].whitelisted = (items'[c].root \notin {None, EmptyRoot})
    <3>1. CASE items[c] # None
      BY <1>1, <1>2, <1>3, <3>1 DEF ListingFollowsRoot
    <3>2. CASE items[c] = None
      <4>1. items'[c].whitelisted = FALSE /\ items'[c].root = None
        BY <1>1, <1>2, <1>3, <3>2 DEF New
      <4> QED
        BY <4>1
    <3> QED
      BY <3>1, <3>2
  <2> QED
    BY <1>3, <2>1 DEF ListingFollowsRoot
<1>9. ScanKeeps'
  <2>1. \A i \in DOMAIN Collections : Collections[i] \in CollectionKeys
    BY PublishingAssumption
  <2>2. Chain # None
    BY PublishingAssumption
  <2> QED
    BY <1>3, <2>1, <2>2 DEF ScanKeeps
<1> QED
  BY <1>4, <1>5, <1>6, <1>7, <1>8, <1>9

\* A deployment makes the newest of what it deploys the ones in the book.
LEMMA DeployKeeps ==
  ASSUME PublishingInv, NEW named \in SUBSET Deployed, Deploy(named) PROVE PublishingInv'
<1> DEFINE first == named \cup {k \in Deployed : book[k] = None}
           all == first \cup {k \in Deployed : Properties[k] \cap first # {}}
           address == [k \in Deployed |->
                         <<k, IF k \in all THEN Len(chain[k]) + 1 ELSE Len(chain[k])>>]
<1>1. /\ chain' = [k \in Deployed |->
                     IF k \in all THEN Append(chain[k], source[k]) ELSE chain[k]]
      /\ book' = [k \in Deployed |->
                    [address |-> address[k],
                     abi |-> IF k \in all THEN AbiOf(k) ELSE book[k].abi,
                     addresses |-> [q \in Properties[k] \cap Deployed |-> address[q]]]]
  BY DEF Deploy
<1>2. \A k \in Deployed : k \notin all => book[k] # None
  OBVIOUS
<1> HIDE DEF all, address
<1>3. /\ fresh' = (fresh /\ stage = "idle")
      /\ UNCHANGED <<source, roots, stage, abi_map, batch, todo, tableVars, scanVars>>
  BY DEF Deploy
<1>4. chain \in Chains /\ source \in [Deployed -> Versions]
  BY DEF PublishingInv, PublishingTyped, Chains
<1>5. chain' \in Chains
  BY <1>1, <1>4 DEF Chains
<1>6. \A k \in Deployed :
        /\ Len(chain[k]) \in Nat
        /\ k \in all => Len(chain'[k]) = Len(chain[k]) + 1
                        /\ chain'[k][Len(chain'[k])] = source[k]
        /\ k \notin all => chain'[k] = chain[k]
  BY <1>1, <1>4 DEF Chains
<1>7. Grows(chain, chain')
  <2>1. ASSUME NEW k \in Deployed
        PROVE  /\ Len(chain[k]) <= Len(chain'[k])
               /\ \A n \in 1..Len(chain[k]) : chain'[k][n] = chain[k][n]
    BY <1>1, <1>4 DEF Chains
  <2> QED
    BY <2>1 DEF Grows
<1>8. PublishingTyped'
  BY <1>1, <1>3, <1>5 DEF PublishingInv, PublishingTyped, Chains, tableVars, scanVars
<1>9. \A k \in Deployed : address[k] = Newest(k)' /\ Len(chain'[k]) > 0
  <2>1. \A k \in Deployed : address[k] = Newest(k)'
    BY <1>6 DEF address, Newest
  <2>2. \A k \in Deployed : k \notin all => Len(chain[k]) > 0
    BY <1>2 DEF PublishingInv, BookIsNewest
  <2> QED
    BY <1>6, <2>1, <2>2
<1>10. BookIsNewest'
  <2>1. ASSUME NEW k \in Deployed
        PROVE  /\ book'[k].address = Newest(k)' /\ Len(chain'[k]) > 0
               /\ book'[k].abi = AbiIn(Newest(k)', chain')
               /\ book'[k].addresses = [q \in Properties[k] \cap Deployed |-> Newest(q)']
               /\ \A q \in Properties[k] \cap Deployed : Len(chain'[q]) > 0
    <3>1. /\ book'[k].address = address[k]
          /\ book'[k].abi = IF k \in all THEN AbiOf(k) ELSE book[k].abi
          /\ book'[k].addresses = [q \in Properties[k] \cap Deployed |-> address[q]]
      BY <1>1
    <3>2. CASE k \in all
      BY <1>6, <1>9, <3>1, <3>2 DEF AbiIn, AbiOf, Newest
    <3>3. CASE k \notin all
      <4>1. book[k].abi = AbiIn(Newest(k), chain)
        BY <1>2, <3>3 DEF PublishingInv, BookIsNewest
      <4> QED
        BY <1>6, <1>9, <3>1, <3>3, <4>1 DEF AbiIn, Newest
    <3> QED
      BY <3>2, <3>3
  <2> QED
    BY <2>1 DEF BookIsNewest
<1>11. AbisGoFirst' /\ FreshMapIsBook'
  BY <1>3 DEF PublishingInv, AbisGoFirst, FreshMapIsBook, tableVars
<1>12. BatchFits'
  <2>1. ASSUME NEW r, IsConfig(r, fresh, chain, abi_table)
        PROVE  IsConfig(r, fresh', chain', abi_table')
    <3>1. fresh' => fresh
      BY <1>3
    <3>2. abi_table' = abi_table
      BY <1>3 DEF tableVars
    <3> QED
      BY <1>4, <1>5, <1>7, <2>1, <3>1, <3>2, ConfigStays
  <2> QED
    BY <1>3, <2>1 DEF PublishingInv, BatchFits, tableVars
<1>13. PublishedFits'
  <2>1. ASSUME NEW r, NEW k, IsConfig(r, k \notin doubtful, chain, abi_table)
        PROVE  IsConfig(r, k \notin doubtful', chain', abi_table')
    BY <1>3, <1>4, <1>5, <1>7, <2>1, ConfigStays DEF tableVars
  <2> QED
    BY <1>3, <2>1 DEF PublishingInv, PublishedFits, tableVars
<1>14. ListingFollowsRoot' /\ ScanKeeps' /\ StoredCollectionsAreKnown'
  BY <1>3 DEF PublishingInv, ListingFollowsRoot, ScanKeeps, StoredCollectionsAreKnown,
              tableVars, scanVars
<1> QED
  BY <1>8, <1>10, <1>11, <1>12, <1>13, <1>14 DEF PublishingInv

----------------------------------------------------------------------------
(* Scans. *)

LEMMA StartScanKeeps == PublishingInv /\ StartScan => PublishingInv'
<1> SUFFICES ASSUME PublishingInv, StartScan PROVE PublishingInv'
  OBVIOUS
<1> USE DEF PublishingInv, StartScan, fileVars, tableVars, runVars
<1>1. PublishingTyped'
  BY DEF PublishingTyped, ScanType
<1>2. BookIsNewest' /\ AbisGoFirst' /\ FreshMapIsBook'
  BY DEF BookIsNewest, Newest, AbiIn, AbisGoFirst, FreshMapIsBook
<1>3. BatchFits' /\ PublishedFits'
  BY DEF BatchFits, PublishedFits
<1>4. ListingFollowsRoot' /\ StoredCollectionsAreKnown'
  BY DEF ListingFollowsRoot, StoredCollectionsAreKnown
<1>5. ScanKeeps'
  <2>1. \A i \in DOMAIN Collections : i \in Nat /\ i > 0
    BY PublishingAssumption
  <2> QED
    BY <2>1 DEF ScanKeeps
<1> QED
  BY <1>1, <1>2, <1>3, <1>4, <1>5

\* A page has what follows the page before, in order and without gaps.
LEMMA PageHasFirst ==
  ASSUME NEW i \in Rest, NEW j \in Page, i <= j PROVE i \in Page
<1>1. Rest \subseteq 1..Len(Collections) /\ Len(Collections) \in Nat
  BY PublishingAssumption DEF Rest
<1>2. IsFiniteSet({k \in Rest : k < j})
  BY <1>1, FS_Interval, FS_Subset, 1 \in Int, Len(Collections) \in Int
<1>3. {k \in Rest : k < i} \subseteq {k \in Rest : k < j}
  <2>1. j \in Nat /\ i \in Nat /\ \A k \in Rest : k \in Nat
    BY <1>1 DEF Page
  <2>2. ASSUME NEW k \in Rest, k < i PROVE k < j
    BY <2>1, <2>2
  <2> QED
    BY <2>2
<1>4. /\ Cardinality({k \in Rest : k < i}) <= Cardinality({k \in Rest : k < j})
      /\ Cardinality({k \in Rest : k < i}) \in Nat /\ Cardinality({k \in Rest : k < j}) \in Nat
  BY <1>2, <1>3, FS_Subset, FS_CardinalityType
<1>5. Cardinality({k \in Rest : k < j}) < PageSize /\ PageSize \in Nat
  BY PublishingAssumption DEF Page
<1> QED
  BY <1>4, <1>5 DEF Page

\* The last page has all that is left.
LEMMA LastPageIsRest == Cardinality(Rest) <= PageSize => Page = Rest
<1> SUFFICES ASSUME Cardinality(Rest) <= PageSize, NEW i \in Rest
             PROVE  Cardinality({j \in Rest : j < i}) < PageSize
  BY DEF Page
<1>1. Rest \subseteq 1..Len(Collections) /\ Len(Collections) \in Nat
  BY PublishingAssumption DEF Rest
<1>2. IsFiniteSet(Rest)
  BY <1>1, FS_Interval, FS_Subset, 1 \in Int, Len(Collections) \in Int
<1>3. Cardinality(Rest \ {i}) = Cardinality(Rest) - 1 /\ IsFiniteSet(Rest \ {i})
  BY <1>2, FS_RemoveElement
<1>4. {j \in Rest : j < i} \subseteq Rest \ {i}
  BY <1>1
<1>5. Cardinality({j \in Rest : j < i}) <= Cardinality(Rest \ {i})
  BY <1>3, <1>4, FS_Subset
<1>6. /\ Cardinality({j \in Rest : j < i}) \in Nat
      /\ Cardinality(Rest) \in Nat /\ PageSize \in Nat
  BY <1>2, <1>3, <1>4, FS_Subset, FS_CardinalityType, PublishingAssumption
<1> QED
  BY <1>3, <1>5, <1>6

\* What a page adds to what a scan has.
LEMMA GotWithPage ==
  ASSUME PublishingInv, scan # None
  PROVE  /\ GotWith(Page) \in [CollectionKeys -> ItemType \cup {None}]
         /\ \A i \in DOMAIN Collections :
              GotWith(Page)[Collections[i]] =
                IF i \in Page THEN items[Collections[i]] ELSE scan.got[Collections[i]]
<1>1. \A i, j \in DOMAIN Collections : Collections[i] = Collections[j] => i = j
  BY PublishingAssumption DEF IsInjective
<1>2. \A i \in DOMAIN Collections : Collections[i] \in CollectionKeys
  BY PublishingAssumption
<1>3. Page \subseteq DOMAIN Collections
  BY DEF Page, Rest
<1>4. scan.got \in [CollectionKeys -> ItemType \cup {None}]
  BY DEF PublishingInv, PublishingTyped, ScanType
<1>5. items \in [CollectionKeys -> ItemType \cup {None}]
  BY DEF PublishingInv, PublishingTyped
<1> QED
  BY <1>1, <1>2, <1>3, <1>4, <1>5 DEF GotWith

\* When a scan ends, it has what was there when it began.
LEMMA LastPageMissesNothing ==
  ASSUME PublishingInv, scan # None, Cardinality(Rest) <= PageSize
  PROVE  \A i \in DOMAIN Collections :
           Collections[i] \in scan.present => Stored(GotWith(Page))[Collections[i]] # None
<1> SUFFICES ASSUME NEW i \in DOMAIN Collections, Collections[i] \in scan.present
             PROVE  Stored(GotWith(Page))[Collections[i]] # None
  OBVIOUS
<1> DEFINE c == Collections[i]
<1>1. c \in CollectionKeys /\ i \in Nat /\ scan.after \in Nat
  BY PublishingAssumption DEF PublishingInv, PublishingTyped, ScanType
<1>2. items[c] # None /\ items[c].chain = Chain
  BY DEF PublishingInv, ScanKeeps
<1>3. GotWith(Page)[c] # None /\ GotWith(Page)[c].chain = Chain
  <2>1. CASE i <= scan.after
    BY <1>2, <2>1, GotWithPage DEF PublishingInv, ScanKeeps
  <2>2. CASE i > scan.after
    <3>1. i \in Page
      BY <1>2, <2>2, LastPageIsRest DEF Rest
    <3> QED
      BY <1>2, <3>1, GotWithPage
  <2> QED
    BY <1>1, <2>1, <2>2
<1> QED
  BY <1>1, <1>3 DEF Stored

LEMMA ScanPageKeeps == PublishingInv /\ ScanPage => PublishingInv'
<1> SUFFICES ASSUME PublishingInv, ScanPage PROVE PublishingInv'
  OBVIOUS
<1>1. UNCHANGED <<fileVars, tableVars, runVars, events>> /\ scan # None
  BY DEF ScanPage
<1> DEFINE got == GotWith(Page)
<1>2. got \in [CollectionKeys -> ItemType \cup {None}]
  BY <1>1, GotWithPage
<1>3. scan \in ScanType
  BY <1>1 DEF PublishingInv, PublishingTyped
<1>4. BookIsNewest' /\ AbisGoFirst' /\ FreshMapIsBook'
  BY <1>1 DEF PublishingInv, BookIsNewest, Newest, AbiIn, AbisGoFirst, FreshMapIsBook,
              fileVars, tableVars, runVars
<1>5. BatchFits' /\ PublishedFits' /\ ListingFollowsRoot'
  BY <1>1 DEF PublishingInv, BatchFits, PublishedFits, ListingFollowsRoot,
              fileVars, tableVars, runVars
<1>6. ASSUME NEW last \in Page, \A i \in Page : i <= last,
             scan' = [scan EXCEPT !.after = last, !.got = got],
             UNCHANGED collections_file
      PROVE  PublishingTyped' /\ ScanKeeps' /\ StoredCollectionsAreKnown'
  <2>1. last \in Nat /\ Page \subseteq DOMAIN Collections
    BY <1>6, PublishingAssumption DEF Page, Rest
  <2> HIDE DEF got
  <2>2. /\ scan' \in ScanType /\ scan'.after = last /\ scan'.got = got
        /\ scan'.present = scan.present
    BY <1>2, <1>3, <1>6, <2>1 DEF ScanType
  <2>3. PublishingTyped'
    BY <1>1, <2>2 DEF PublishingInv, PublishingTyped, fileVars, tableVars, runVars
  <2>4. StoredCollectionsAreKnown'
    BY <1>6 DEF PublishingInv, StoredCollectionsAreKnown
  <2>5. ASSUME NEW i \in DOMAIN Collections, Collections[i] \in scan.present
        PROVE  /\ items[Collections[i]] # None /\ items[Collections[i]].chain = Chain
               /\ i <= last => got[Collections[i]] # None /\ got[Collections[i]].chain = Chain
    <3>1. items[Collections[i]] # None /\ items[Collections[i]].chain = Chain
      BY <1>1, <2>5 DEF PublishingInv, ScanKeeps
    <3>2. i \in Nat /\ scan.after \in Nat
      BY <1>3, PublishingAssumption DEF ScanType
    <3>3. CASE i <= scan.after
      <4>1. scan.got[Collections[i]] # None /\ scan.got[Collections[i]].chain = Chain
        BY <1>1, <2>5, <3>3 DEF PublishingInv, ScanKeeps
      <4> QED
        BY <1>1, <3>1, <4>1, GotWithPage DEF got
    <3>4. CASE i > scan.after /\ i <= last
      <4>1. i \in Rest
        BY <3>1, <3>4 DEF Rest
      <4>2. i \in Page
        BY <1>6, <3>4, <4>1, PageHasFirst
      <4> QED
        BY <1>1, <3>1, <4>2, GotWithPage DEF got
    <3> QED
      BY <2>1, <3>1, <3>2, <3>3, <3>4
  <2>6. ScanKeeps'
    BY <1>1, <2>2, <2>5 DEF ScanKeeps, tableVars
  <2> QED
    BY <2>3, <2>4, <2>6
<1>7. ASSUME scan' = None, collections_file' = Stored(got)
      PROVE  PublishingTyped' /\ ScanKeeps' /\ StoredCollectionsAreKnown'
  <2>1. PublishingTyped' /\ ScanKeeps'
    BY <1>1, <1>7 DEF PublishingInv, PublishingTyped, ScanKeeps, fileVars, tableVars, runVars
  <2>2. Chain # None
    BY PublishingAssumption
  <2>3. StoredCollectionsAreKnown'
    BY <1>7, <2>2 DEF StoredCollectionsAreKnown, Stored
  <2> QED
    BY <2>1, <2>3
<1>8. PublishingTyped' /\ ScanKeeps' /\ StoredCollectionsAreKnown'
  BY <1>6, <1>7 DEF ScanPage
<1> QED
  BY <1>4, <1>5, <1>8 DEF PublishingInv

----------------------------------------------------------------------------
(* The theorems. *)

LEMMA NextKeeps == PublishingInv /\ [Next]_vars => PublishingInv'
<1> SUFFICES ASSUME PublishingInv, [Next]_vars PROVE PublishingInv'
  OBVIOUS
<1>1. CASE Start
  BY <1>1, StartKeeps
<1>2. CASE RunStep
  BY <1>2, RunStepKeeps
<1>3. CASE Stop
  BY <1>3, EndKeeps DEF Stop
<1>4. CASE StartScan
  BY <1>4, StartScanKeeps
<1>5. CASE ScanPage
  BY <1>5, ScanPageKeeps
<1>6. ASSUME NEW named \in SUBSET Deployed, Deploy(named) PROVE PublishingInv'
  BY <1>6, DeployKeeps
<1>7. ASSUME NEW k \in Deployed, NEW version \in Versions, EditSource(k, version)
      PROVE  PublishingInv'
  BY <1>7, EditKeeps
<1>8. ASSUME NEW c \in CollectionKeys, AddCollection(c) PROVE PublishingInv'
  BY <1>8, AddCollectionKeeps
<1>9. ASSUME NEW c \in CollectionKeys, NEW root \in Roots \cup {None}, EditRoots(c, root)
      PROVE  PublishingInv'
  BY <1>9, EditKeeps
<1>10. CASE UNCHANGED vars
  <2> USE <1>10 DEF PublishingInv, vars, fileVars, tableVars, runVars, scanVars
  <2>1. PublishingTyped'
    BY DEF PublishingTyped
  <2>2. BookIsNewest' /\ AbisGoFirst' /\ FreshMapIsBook'
    BY DEF BookIsNewest, Newest, AbiIn, AbisGoFirst, FreshMapIsBook
  <2>3. BatchFits' /\ PublishedFits'
    BY DEF BatchFits, PublishedFits
  <2>4. ListingFollowsRoot' /\ ScanKeeps' /\ StoredCollectionsAreKnown'
    BY DEF ListingFollowsRoot, ScanKeeps, StoredCollectionsAreKnown
  <2> QED
    BY <2>1, <2>2, <2>3, <2>4
<1> QED
  BY <1>1, <1>2, <1>3, <1>4, <1>5, <1>6, <1>7, <1>8, <1>9, <1>10 DEF Next

\* The inductive invariant holds of every state, whatever is deployed, published,
\* scanned or edited in whatever order.
THEOREM PublishingInvTheorem == Spec => []PublishingInv
  BY InitPublishing, NextKeeps, PTL DEF Spec

\* Every ABI that a record of a complete picture names can be looked up: publish.py
\* writes the ABIs before the records, wherever it stops.
THEOREM ReferencesTheorem == Spec => []ReferencesResolve
<1>1. PublishingInv => ReferencesResolve
  BY DEF PublishingInv, PublishedFits, IsConfig, ReferencesResolve
<1> QED
  BY <1>1, PublishingInvTheorem, PTL

\* The ABI published with an address is that of the contract there, though sources
\* change and contracts are deployed again meanwhile.
THEOREM AbisTheorem == Spec => []AbisFitAddresses
<1>1. PublishingInv => AbisFitAddresses
  BY DEF PublishingInv, PublishedFits, IsConfig, AbisFitAddresses, AbiAt, AbiIn
<1> QED
  BY <1>1, PublishingInvTheorem, PTL

\* A collection is listed exactly when it has a root, but between the two updates.
THEOREM ListingTheorem == Spec => []ListingFollowsRoot
<1>1. PublishingInv => ListingFollowsRoot
  BY DEF PublishingInv
<1> QED
  BY <1>1, PublishingInvTheorem, PTL

\* What get_collections stores has a chain: no item that publish.py made alone.
THEOREM KnownTheorem == Spec => []StoredCollectionsAreKnown
<1>1. PublishingInv => StoredCollectionsAreKnown
  BY DEF PublishingInv
<1> QED
  BY <1>1, PublishingInvTheorem, PTL

\* No collection of the chain that was in the table when get_collections began is
\* missed, however many pages there are and whatever is added meanwhile.
THEOREM ScanTheorem == Spec => ScanMissesNothing
<1>1. PublishingInv /\ [Next]_vars
      => [scan # None /\ scan' = None =>
            \A c \in scan.present : collections_file'[c] # None]_vars
  <2> SUFFICES ASSUME PublishingInv, Next, scan # None, scan' = None, NEW c \in scan.present
               PROVE  collections_file'[c] # None
    OBVIOUS
  <2>1. scan \in ScanType
    BY DEF PublishingInv, PublishingTyped
  <2>2. ScanPage
    BY DEF Next, Start, RunStep, NextStage, Raise, UpdateAbi, UpdateConfig, UpdateTraitRoot,
           UpdateWhitelisted, Written, Stop, StartScan, Deploy, EditSource, EditRoots,
           AddCollection, Outside, scanVars
  <2>3. Cardinality(Rest) <= PageSize /\ collections_file' = Stored(GotWith(Page))
    <3>1. ASSUME NEW last \in Page, scan' = [scan EXCEPT !.after = last, !.got = GotWith(Page)]
          PROVE  FALSE
      <4>1. last \in Nat
        BY PublishingAssumption DEF Page, Rest
      <4>2. scan' \in ScanType
        BY <2>1, <3>1, <4>1, GotWithPage DEF ScanType
      <4> QED
        BY <4>2, NoneIsNoRecord
    <3> QED
      BY <2>2, <3>1 DEF ScanPage
  <2>4. PICK i \in DOMAIN Collections : Collections[i] = c
    <3>1. c \in CollectionKeys
      BY <2>1 DEF ScanType
    <3> QED
      BY <3>1, PublishingAssumption DEF CollectionKeys, ToSet
  <2> QED
    BY <2>3, <2>4, LastPageMissesNothing
<1> QED
  BY <1>1, PublishingInvTheorem, PTL DEF Spec, ScanMissesNothing
=============================================================================
