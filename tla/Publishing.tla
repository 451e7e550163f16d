----------------------------- MODULE Publishing -----------------------------
(***************************************************************************)
(* scripts/publish.py: what the address book, tracking.json and the trait  *)
(* roots say is copied to the tables of the lending service, one item per  *)
(* request.  scripts/get_collections.py reads the table of collections     *)
(* back into the file that deployments use.                                *)
(*                                                                         *)
(* A publishing run may stop between any two requests, and holds no lock:  *)
(* sources, files, contracts and the collections known to the service may  *)
(* change while it runs.  It reads the book at the start (the context and  *)
(* the ABIs), and the files again for each table.                          *)
(*                                                                         *)
(* A deployment is one step here: module Deployment shows that the book is *)
(* consistent whenever it is read.                                         *)
(***************************************************************************)
EXTENDS Naturals, FiniteSets, Sequences, SequencesExt

CONSTANTS
  Lendings,       \* keys of the section p2p of the book
  ProxyKeys,      \* keys of the section proxies
  Generics,       \* keys of contracts of others, known by an ABI file
  Tracked,        \* keys of tracking.json
  Properties,     \* of a lending contract or proxy, the keys its properties name
  FileAbi,        \* the ABI in the file of a generic or tracked key
  Versions,       \* of the sources of a contract
  Collections,    \* collection keys, a sequence in the order of a table scan
  ChainOf,        \* the chain of each collection
  Chain,          \* the one the scripts run for
  Roots, EmptyRoot,
  PageSize,       \* items in a page of a scan
  MaxDeployments, \* of each contract
  MaxEvents,      \* runs stopped, scans begun, edits of sources and roots
  None

Deployed == Lendings \cup ProxyKeys
CollectionKeys == ToSet(Collections)
Abis == (Deployed \X Versions) \cup {FileAbi[k] : k \in Generics \cup Tracked}

ASSUME PublishingAssumption ==
  /\ Deployed \cap (Generics \cup Tracked) = {} /\ Lendings \cap ProxyKeys = {}
  /\ Properties \in [Deployed -> SUBSET (Lendings \cup Generics)]
  /\ \A k \in Lendings : Properties[k] \subseteq Generics
  /\ EmptyRoot \in Roots /\ None \notin Roots \cup Abis
  /\ Collections \in Seq(CollectionKeys) /\ IsInjective(Collections)
  /\ ChainOf \in [CollectionKeys -> STRING] /\ None \notin {Chain} \cup STRING
  /\ PageSize \in Nat \ {0}

\* An item of the table of collections, and a scan of it.
ItemType ==
  [chain : {ChainOf[c] : c \in CollectionKeys} \cup {None},
   root : Roots \cup {None}, whitelisted : BOOLEAN]

ScanType ==
  [after : Nat, got : [CollectionKeys -> ItemType \cup {None}],
   present : SUBSET CollectionKeys]

ASSUME NoneIsNoRecord == None \notin ItemType /\ None \notin ScanType

VARIABLES
  source,       \* the version of its source that each contract would compile to
  chain,        \* the versions each was deployed from; an address is a place in it
  book,         \* p2p.json: [address, abi, addresses] of each deployed key, or None
  roots,        \* the trait roots in p2p.json, None for a collection left out
  abi_table, published, items,   \* the tables of the service
  stage,        \* of the run: "idle", or the table it writes
  abi_map, batch, todo,          \* what it has read, and not yet written
  scan,         \* of get_collections: [after, got, present], or None
  collections_file,
  events,
  fresh,        \* history: the run finds every contract as it is deployed
  doubtful,     \* history: keys published by a run that did not
  torn          \* history: collections given a root, and not yet a listing

fileVars == <<source, chain, book, roots>>
tableVars == <<abi_table, published, items, doubtful, torn>>
runVars == <<stage, abi_map, batch, todo, fresh>>
scanVars == <<scan, collections_file>>
vars == <<fileVars, tableVars, runVars, scanVars, events>>

----------------------------------------------------------------------------
(* What a run reads. *)

AbiOf(k) == <<k, source[k]>>

\* Mutant: the tracked contracts are left out.
AbiMapOfBook ==
  [k \in Deployed \cup Tracked |->
     IF k \in Tracked \/ book[k] = None THEN None ELSE AbiOf(k)]

\* get_abi_map: the ABI each contract compiles to, whatever is deployed.
AbiMap ==
  [k \in Deployed \cup Tracked |->
     IF k \in Tracked THEN FileAbi[k] ELSE IF book[k] = None THEN None ELSE AbiOf(k)]

\* properties_abis: those of the map, and of the contracts the context knows
\* by a file.
AbisOfProperties(k) ==
  [q \in {p \in Properties[k] : p \in Generics \/ abi_map[p] # None} |->
     IF q \in Generics THEN FileAbi[q] ELSE abi_map[q]]

\* Mutant: the ABI is the one the contract would compile to.
ConfigCompiled(k) ==
  [address |-> book[k].address, abi |-> AbiOf(k), addresses |-> book[k].addresses,
   abis |-> AbisOfProperties(k)]

\* get_p2p_configs and get_p2p_proxies: the ABI is the one in the book.
Config(k) ==
  [address |-> book[k].address, abi |-> book[k].abi, addresses |-> book[k].addresses,
   abis |-> AbisOfProperties(k)]

\* get_tracking_configs.
TrackingConfig(k) == [abi |-> FileAbi[k]]

\* get_traits_roots.
Listed == {c \in CollectionKeys : roots[c] # None}

TraitRoots == [c \in Listed |-> roots[c]]

----------------------------------------------------------------------------
(* A run. *)

Reads(next, read) == stage' = next /\ batch' = read /\ todo' = DOMAIN read

Outside == <<fileVars, scanVars, events>>

Event == events < MaxEvents /\ events' = events + 1

Start ==
  /\ stage = "idle"
  /\ stage' = "abis"
  /\ abi_map' = AbiMap
  /\ todo' = {k \in DOMAIN AbiMap : AbiMap[k] # None}
  /\ fresh' = \A k \in Deployed : book[k] # None => book[k].abi = AbiOf(k)
  /\ UNCHANGED <<batch, tableVars, Outside>>

\* Mutant: the roots are read again for the listings.
NextStageRereading ==
  /\ todo = {}
  /\ \/ /\ stage = "abis" /\ \A k \in Lendings : book[k] # None
        /\ Reads("configs", [k \in Lendings |-> Config(k)])
     \/ stage = "configs" /\ Reads("tracking", [k \in Tracked |-> TrackingConfig(k)])
     \/ /\ stage = "tracking" /\ \A k \in ProxyKeys : book[k] # None
        /\ Reads("proxies", [k \in ProxyKeys |-> Config(k)])
     \/ stage = "proxies" /\ Reads("roots", TraitRoots)
     \/ stage = "roots" /\ Reads("whitelist", TraitRoots)
     \/ stage = "whitelist" /\ Reads("idle", <<>>)
  /\ UNCHANGED <<abi_map, fresh, tableVars, Outside>>

\* The next table, when one is written.  The listings follow from the roots
\* that were read for the table before.
NextStage ==
  /\ todo = {}
  /\ \/ /\ stage = "abis" /\ \A k \in Lendings : book[k] # None
        /\ Reads("configs", [k \in Lendings |-> Config(k)])
     \/ stage = "configs" /\ Reads("tracking", [k \in Tracked |-> TrackingConfig(k)])
     \/ /\ stage = "tracking" /\ \A k \in ProxyKeys : book[k] # None
        /\ Reads("proxies", [k \in ProxyKeys |-> Config(k)])
     \/ stage = "proxies" /\ Reads("roots", TraitRoots)
     \/ stage = "roots" /\ Reads("whitelist", batch)
     \/ stage = "whitelist" /\ Reads("idle", <<>>)
  /\ UNCHANGED <<abi_map, fresh, tableVars, Outside>>

\* A contract that is not deployed has no ABI, which raises.
Raise ==
  /\ todo = {}
  /\ \/ stage = "abis" /\ \E k \in Lendings : book[k] = None
     \/ stage = "tracking" /\ \E k \in ProxyKeys : book[k] = None
  /\ Reads("idle", <<>>)
  /\ UNCHANGED <<abi_map, fresh, tableVars, Outside>>

Written(k) ==
  /\ k \in todo /\ todo' = todo \ {k}
  /\ UNCHANGED <<stage, abi_map, batch, fresh, Outside>>

\* update_abi.
UpdateAbi(k) ==
  /\ stage = "abis" /\ Written(k)
  /\ abi_table' = abi_table \cup {abi_map[k]}
  /\ UNCHANGED <<published, items, doubtful, torn>>

\* update_p2p_config, update_tracking_config and update_p2p_proxy.
UpdateConfig(k) ==
  /\ stage \in {"configs", "tracking", "proxies"} /\ Written(k)
  /\ published' = [published EXCEPT ![k] = batch[k]]
  /\ doubtful' = IF fresh \/ k \in Tracked THEN doubtful \ {k} ELSE doubtful \cup {k}
  /\ UNCHANGED <<abi_table, items, torn>>

\* An update makes an item when there is none, and knows but what it sets.
New(ch) == [chain |-> ch, root |-> None, whitelisted |-> FALSE]

Item(c) == IF items[c] = None THEN New(None) ELSE items[c]

\* update_collection_trait_root.
UpdateTraitRoot(c) ==
  /\ stage = "roots" /\ Written(c)
  /\ items' = [items EXCEPT ![c] = [Item(c) EXCEPT !.root = batch[c]]]
  /\ torn' = torn \cup {c}
  /\ UNCHANGED <<abi_table, published, doubtful>>

\* Mutant: a collection is listed and never taken from the list.
UpdateWhitelistedOnce(c) ==
  /\ stage = "whitelist" /\ Written(c)
  /\ items' = IF batch[c] = EmptyRoot THEN items
              ELSE [items EXCEPT ![c] = [Item(c) EXCEPT !.whitelisted = TRUE]]
  /\ torn' = torn \ {c}
  /\ UNCHANGED <<abi_table, published, doubtful>>

\* update_collection_p2p_whitelisted.
UpdateWhitelisted(c) ==
  /\ stage = "whitelist" /\ Written(c)
  /\ items' = [items EXCEPT ![c] = [Item(c) EXCEPT !.whitelisted = batch[c] # EmptyRoot]]
  /\ torn' = torn \ {c}
  /\ UNCHANGED <<abi_table, published, doubtful>>

\* The process ends, or a request fails.
Stop ==
  /\ stage # "idle"
  /\ Event
  /\ Reads("idle", <<>>)
  /\ UNCHANGED <<abi_map, fresh, fileVars, scanVars, tableVars>>

----------------------------------------------------------------------------
(* get_collections. *)

StartScan ==
  /\ scan = None /\ Event
  /\ scan' = [after |-> 0, got |-> [c \in CollectionKeys |-> None],
              present |-> {c \in CollectionKeys : items[c] # None /\ items[c].chain = Chain}]
  /\ UNCHANGED <<collections_file, fileVars, tableVars, runVars>>

Rest == {i \in DOMAIN Collections : i > scan.after /\ items[Collections[i]] # None}

Page == {i \in Rest : Cardinality({j \in Rest : j < i}) < PageSize}

GotWith(page) ==
  [c \in CollectionKeys |-> IF \E i \in page : Collections[i] = c THEN items[c] ELSE scan.got[c]]

\* Mutant: items of no chain are kept too.
StoredOfNoOther(got) ==
  [c \in CollectionKeys |->
     IF got[c] # None /\ got[c].chain \in {Chain, None} THEN got[c] ELSE None]

\* store_collections_config: what is of this chain.
Stored(got) ==
  [c \in CollectionKeys |-> IF got[c] # None /\ got[c].chain = Chain THEN got[c] ELSE None]

\* Mutant: the last page is not added.
ScanPageButLast ==
  /\ scan # None
  /\ \/ /\ Cardinality(Rest) >= PageSize
        /\ \E last \in Page :
             /\ \A i \in Page : i <= last
             /\ scan' = [scan EXCEPT !.after = last, !.got = GotWith(Page)]
        /\ UNCHANGED collections_file
     \/ /\ Cardinality(Rest) <= PageSize
        /\ scan' = None
        /\ collections_file' = Stored(scan.got)
  /\ UNCHANGED <<fileVars, tableVars, runVars, events>>

\* One page.  A page that is not full is the last one; of a full one that
\* nothing follows the table may or may not say so.
ScanPage ==
  /\ scan # None
  /\ \/ /\ Cardinality(Rest) >= PageSize
        /\ \E last \in Page :
             /\ \A i \in Page : i <= last
             /\ scan' = [scan EXCEPT !.after = last, !.got = GotWith(Page)]
        /\ UNCHANGED collections_file
     \/ /\ Cardinality(Rest) <= PageSize
        /\ scan' = None
        /\ collections_file' = Stored(GotWith(Page))
  /\ UNCHANGED <<fileVars, tableVars, runVars, events>>

----------------------------------------------------------------------------
(* What changes meanwhile. *)

\* A deployment: what is named, what is not there yet, and what depends on
\* these.  Addresses and ABIs are recorded together.
Deploy(named) ==
  LET first == named \cup {k \in Deployed : book[k] = None}
      all == first \cup {k \in Deployed : Properties[k] \cap first # {}}
      address == [k \in Deployed |-> <<k, IF k \in all THEN Len(chain[k]) + 1 ELSE Len(chain[k])>>]
  IN  /\ all # {}
      /\ \A k \in all : Len(chain[k]) < MaxDeployments
      /\ IF named = {} THEN UNCHANGED events ELSE Event
      /\ chain' = [k \in Deployed |-> IF k \in all THEN Append(chain[k], source[k]) ELSE chain[k]]
      /\ book' = [k \in Deployed |->
                    [address |-> address[k],
                     abi |-> IF k \in all THEN AbiOf(k) ELSE book[k].abi,
                     addresses |-> [q \in Properties[k] \cap Deployed |-> address[q]]]]
      /\ fresh' = (fresh /\ stage = "idle")
      /\ UNCHANGED <<source, roots, stage, abi_map, batch, todo, tableVars, scanVars>>

EditSource(k, version) ==
  /\ Event /\ source[k] # version
  /\ source' = [source EXCEPT ![k] = version]
  /\ UNCHANGED <<chain, book, roots, tableVars, runVars, scanVars>>

EditRoots(c, root) ==
  /\ Event /\ roots[c] # root
  /\ roots' = [roots EXCEPT ![c] = root]
  /\ UNCHANGED <<source, chain, book, tableVars, runVars, scanVars>>

\* Another service adds a collection, with its chain and contract.
AddCollection(c) ==
  /\ Event
  /\ items[c] # None => items[c].chain = None
  /\ items' = [items EXCEPT ![c] = [Item(c) EXCEPT !.chain = ChainOf[c]]]
  /\ UNCHANGED <<abi_table, published, doubtful, torn, fileVars, runVars, scanVars>>

----------------------------------------------------------------------------
Init ==
  /\ source \in [Deployed -> Versions]
  /\ chain = [k \in Deployed |-> <<>>]
  /\ book = [k \in Deployed |-> None]
  /\ roots = [c \in CollectionKeys |-> None]
  /\ abi_table = {}
  /\ published = [k \in Deployed \cup Tracked |-> None]
  /\ \E known \in SUBSET CollectionKeys :
       items = [c \in CollectionKeys |-> IF c \in known THEN New(ChainOf[c]) ELSE None]
  /\ stage = "idle" /\ batch = <<>> /\ todo = {}
  /\ abi_map = [k \in Deployed \cup Tracked |-> None]
  /\ scan = None /\ collections_file = [c \in CollectionKeys |-> None]
  /\ events = 0
  /\ fresh = TRUE /\ doubtful = {} /\ torn = {}

RunStep ==
  \/ NextStage \/ Raise
  \/ \E k \in todo : UpdateAbi(k) \/ UpdateConfig(k) \/ UpdateTraitRoot(k) \/ UpdateWhitelisted(k)

Next ==
  \/ Start \/ RunStep \/ Stop
  \/ StartScan \/ ScanPage
  \/ \E named \in SUBSET Deployed : Deploy(named)
  \/ \E k \in Deployed, version \in Versions : EditSource(k, version)
  \/ \E c \in CollectionKeys :
       AddCollection(c) \/ \E root \in Roots \cup {None} : EditRoots(c, root)

----------------------------------------------------------------------------
(* Properties. *)

\* The tables say what the files say; a collection that the files do not name
\* any more keeps what it had.
Mirrored ==
  /\ \A k \in Deployed :
       /\ book[k] # None /\ published[k] # None
       /\ published[k].address = book[k].address
       /\ published[k].abi = book[k].abi /\ published[k].addresses = book[k].addresses
  /\ \A c \in Listed :
       /\ items[c] # None
       /\ items[c].root = roots[c]
       /\ items[c].whitelisted = (roots[c] # EmptyRoot)

\* An operator sees runs through, deploys what is not, and publishes as long
\* as something differs.
Fairness ==
  /\ WF_vars(RunStep)
  /\ WF_vars(~Mirrored /\ Start)
  /\ WF_vars(\E k \in Deployed : book[k] = None /\ Deploy({}))

Spec == Init /\ [][Next]_vars /\ Fairness

\* A published record names no ABI that cannot be looked up, wherever a run
\* stopped: ABIs go first.  Left out are contracts of others, whose ABI nobody
\* publishes, and records of a run that did not find the contracts as deployed.
ReferencesResolve ==
  \A k \in Deployed \cup Tracked :
    published[k] # None /\ k \notin doubtful =>
      /\ published[k].abi \in abi_table
      /\ k \in Deployed =>
           \A q \in DOMAIN published[k].abis \ Generics : published[k].abis[q] \in abi_table

AbiAt(address) == <<address[1], chain[address[1]][address[2]]>>

\* The ABI published with an address is that of the contract there, even when
\* sources have changed since, or change while it is published.  For the
\* contracts it refers to, that needs a run that found them as deployed.
AbisFitAddresses ==
  \A k \in Deployed :
    published[k] # None =>
      /\ published[k].abi = AbiAt(published[k].address)
      /\ k \notin doubtful =>
           \A q \in DOMAIN published[k].addresses :
             published[k].abis[q] = AbiAt(published[k].addresses[q])

\* A collection can be borrowed against, as the service sees it, exactly when
\* it has a root, unless a run is between the two updates or has stopped there.
ListingFollowsRoot ==
  \A c \in CollectionKeys \ torn :
    items[c] # None => items[c].whitelisted = (items[c].root \notin {None, EmptyRoot})

\* What deployments read was made by the service that knows the contract.  An
\* item that publishing made would be taken for a contract to deploy.
StoredCollectionsAreKnown ==
  \A c \in CollectionKeys : collections_file[c] # None => collections_file[c].chain # None

\* No collection of this chain that was there when the scan began is missed,
\* however many pages there are and whatever is added meanwhile.
ScanMissesNothing ==
  [][scan # None /\ scan' = None => \A c \in scan.present : collections_file'[c] # None]_vars

\* Whatever stopped before, in the end the tables say what the files say.
TablesMirrorFiles == <>[]Mirrored
=============================================================================
