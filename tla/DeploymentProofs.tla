-------------------------- MODULE DeploymentProofs --------------------------
(***************************************************************************)
(* The safety invariants of Deployment, for every graph of dependencies,   *)
(* any number of proxies and registries, and any number of stopped runs.   *)
(***************************************************************************)
EXTENDS Deployment, TLAPS

\* An address a constructor may be given.
Addresses == Nat \cup {External}

Constructed == UNION {[key : {k}, args : [Dependencies[k] -> Addresses]] : k \in Deployable}

\* The addresses a run or the book knows, those of the keys S aside, are those
\* of contracts that were constructed with one another.
Fits(f, S) ==
  /\ f \in [Contracts -> Addresses \cup {None}]
  /\ \A k \in Contracts \ Deployable : f[k] = External
  /\ \A k \in Deployable \ S :
       f[k] # None => /\ f[k] \in DOMAIN chain
                      /\ chain[f[k]].key = k
                      /\ \A d \in Dependencies[k] : chain[f[k]].args[d] = f[d]

\* The proxies among them are authorized, unless the transaction failed.
Authorized(f, S) ==
  \A p \in DOMAIN ProxiedBy \ S :
    f[p] # None /\ f[p] \notin refused => <<f[ProxiedBy[p]], f[p]>> \in authorized

\* What a run has not deployed yet is closed under dependence, so that what it
\* has deployed depends on nothing that will still be replaced.
ToDeployClosed ==
  /\ to_deploy \subseteq Deployable
  /\ \A k \in Deployable : Dependencies[k] \cap to_deploy # {} => k \in to_deploy
  /\ \A k \in Deployable \ to_deploy : context[k] # None

Phases ==
  /\ phase \in {"idle", "deploying", "configuring"}
  /\ phase = "configuring" \/ (phase = "deploying" /\ ~whole) => to_deploy = {}

ChainTyped == chain \in Seq(Constructed)

\* The inductive invariant of the address book.
BookInv ==
  /\ ChainTyped
  /\ Phases
  /\ Fits(book, {})
  /\ Authorized(book, {})
  /\ phase # "idle" => /\ ToDeployClosed
                       /\ Fits(context, to_deploy)
                       /\ Authorized(context, to_deploy)

----------------------------------------------------------------------------
(* The set of contracts to deploy. *)

\* What depends on a contract to deploy is deployed too, and so is all that
\* the book does not know.
LEMMA DeploymentSetClosed ==
  ASSUME NEW changed
  PROVE  /\ \A k \in Contracts :
              Dependencies[k] \cap DeploymentSet(changed) # {} => k \in DeploymentSet(changed)
         /\ \A k \in Deployable : book[k] = None => k \in DeploymentSet(changed)
<1> DEFINE start == (changed \cap Contracts) \cup {k \in Deployable : book[k] = None}
<1>1. DeploymentSet(changed) = {k \in Contracts : \A S \in ClosedAround(start) : k \in S}
  BY DEF DeploymentSet, WithDependents
<1>2. \A S \in ClosedAround(start) :
        start \subseteq S /\ \A k \in Contracts : Dependencies[k] \cap S # {} => k \in S
  BY DEF ClosedAround
<1> HIDE DEF start
<1>3. ASSUME NEW k \in Contracts, Dependencies[k] \cap DeploymentSet(changed) # {}
      PROVE  k \in DeploymentSet(changed)
  <2>1. PICK d \in Dependencies[k] : d \in DeploymentSet(changed)
    BY <1>3
  <2>2. \A S \in ClosedAround(start) : d \in S
    BY <1>1, <2>1
  <2>3. \A S \in ClosedAround(start) : k \in S
    BY <1>2, <2>2
  <2> QED
    BY <1>1, <2>3
<1>4. ASSUME NEW k \in Deployable, book[k] = None
      PROVE  k \in DeploymentSet(changed)
  <2>1. k \in start /\ k \in Contracts
    BY <1>4, DeploymentAssumption DEF start
  <2> QED
    BY <1>1, <1>2, <2>1
<1> QED
  BY <1>3, <1>4

----------------------------------------------------------------------------
(* A deployment. *)

\* A new contract leaves those on chain as they are.
LEMMA ChainGrows ==
  ASSUME ChainTyped, NEW new \in Constructed, chain' = Append(chain, new)
  PROVE  /\ ChainTyped'
         /\ Len(chain) \in Nat
         /\ DOMAIN chain = 1..Len(chain)
         /\ DOMAIN chain' = 1..(Len(chain) + 1)
         /\ chain'[Len(chain) + 1] = new
         /\ \A i \in DOMAIN chain : i \in DOMAIN chain' /\ chain'[i] = chain[i]
  BY DEF ChainTyped

\* A deployment keeps what the run knows consistent: the contract fits those it
\* was given, and none that fitted depends on it.
LEMMA DeployFits ==
  ASSUME BookInv, NEW k \in Deployable, Deploy(k)
  PROVE  /\ ChainTyped'
         /\ ToDeployClosed'
         /\ Fits(context, to_deploy)'
         /\ Fits(book, {})'
<1> DEFINE new == [key |-> k, args |-> [d \in Dependencies[k] |-> context[d]]]
           address == Len(chain) + 1
<1>1. /\ chain' = Append(chain, new)
      /\ context' = [context EXCEPT ![k] = address]
      /\ to_deploy' = to_deploy \ {k}
      /\ book' = book
      /\ k \in to_deploy /\ Dependencies[k] \cap to_deploy = {}
      /\ ToDeployClosed /\ Fits(context, to_deploy)
  BY DEF Deploy, Ready, BookInv, bookVars
<1>2. k \in Contracts /\ Deployable \subseteq Contracts /\ Dependencies[k] \subseteq Contracts
  BY DeploymentAssumption
<1>3. \A d \in Dependencies[k] : context[d] \in Addresses
  BY <1>1, <1>2, DeploymentAssumption DEF Fits, ToDeployClosed, Addresses
<1>4. new \in Constructed
  BY <1>3 DEF Constructed
<1> HIDE DEF new
<1>5. /\ ChainTyped'
      /\ Len(chain) \in Nat
      /\ DOMAIN chain' = 1..address
      /\ chain'[address] = new
      /\ \A i \in DOMAIN chain : i \in DOMAIN chain' /\ chain'[i] = chain[i]
  BY <1>1, <1>4, ChainGrows DEF BookInv
<1>6. context \in [Contracts -> Addresses \cup {None}] /\ address \in Nat /\ address # None
  BY <1>1, <1>5, DeploymentAssumption DEF Fits
<1>7. ToDeployClosed'
  <2>1. \A j \in Deployable \ to_deploy' : context'[j] # None
    BY <1>1, <1>2, <1>6 DEF ToDeployClosed
  <2>2. \A j \in Deployable : Dependencies[j] \cap to_deploy' # {} => j \in to_deploy'
    BY <1>1 DEF ToDeployClosed
  <2> QED
    BY <1>1, <2>1, <2>2 DEF ToDeployClosed
<1>8. Fits(context, to_deploy)'
  <2>1. context' \in [Contracts -> Addresses \cup {None}]
    BY <1>1, <1>6 DEF Addresses
  <2>2. \A j \in Contracts \ Deployable : context'[j] = External
    BY <1>1, <1>6 DEF Fits
  <2>3. ASSUME NEW j \in Deployable \ to_deploy', context'[j] # None
        PROVE  /\ context'[j] \in DOMAIN chain'
               /\ chain'[context'[j]].key = j
               /\ \A d \in Dependencies[j] : chain'[context'[j]].args[d] = context'[d]
    <3>1. CASE j = k
      <4>1. context'[k] = address
        BY <1>1, <1>2, <1>6
      <4>2. k \notin Dependencies[k]
        BY <1>1
      <4>3. \A d \in Dependencies[k] : new.args[d] = context[d] /\ context'[d] = context[d]
        BY <1>1, <1>2, <1>6, <4>2 DEF new
      <4>4. new.key = k
        BY DEF new
      <4> QED
        BY <1>5, <3>1, <4>1, <4>3, <4>4
    <3>2. CASE j # k
      <4>1. j \notin to_deploy /\ k \notin Dependencies[j] /\ Dependencies[j] \subseteq Contracts
        BY <1>1, <1>2, <2>3, <3>2, DeploymentAssumption DEF ToDeployClosed
      <4>2. context'[j] = context[j] /\ \A d \in Dependencies[j] : context'[d] = context[d]
        BY <1>1, <1>2, <1>6, <3>2, <4>1
      <4> QED
        BY <1>1, <1>5, <2>3, <4>1, <4>2 DEF Fits
    <3> QED
      BY <3>1, <3>2
  <2> QED
    BY <2>1, <2>2, <2>3 DEF Fits
<1>9. Fits(book, {})'
  BY <1>1, <1>5 DEF BookInv, Fits
<1> QED
  BY <1>5, <1>7, <1>8, <1>9

\* A proxy is authorized with the lending contract it was given, or refused.
LEMMA DeployAuthorizes ==
  ASSUME BookInv, NEW k \in Deployable, Deploy(k)
  PROVE  Authorized(context, to_deploy)' /\ Authorized(book, {})'
<1> DEFINE address == Len(chain) + 1
<1>1. /\ context' = [context EXCEPT ![k] = address]
      /\ to_deploy' = to_deploy \ {k} /\ k \in to_deploy
      /\ book' = book
      /\ AuthorizeProxy(k, address)
      /\ ToDeployClosed /\ context \in [Contracts -> Addresses \cup {None}]
      /\ Authorized(context, to_deploy)
      /\ k \in Contracts
  BY DeploymentAssumption DEF Deploy, Ready, BookInv, bookVars, Fits
<1>2. /\ authorized \subseteq authorized' /\ refused \subseteq refused'
      /\ k \in DOMAIN ProxiedBy => \/ <<context[ProxiedBy[k]], address>> \in authorized'
                                   \/ address \in refused'
  BY <1>1 DEF AuthorizeProxy, Executed
<1> HIDE DEF address
<1>3. ASSUME NEW p \in DOMAIN ProxiedBy, p \notin to_deploy', context'[p] # None,
             context'[p] \notin refused'
      PROVE  <<context'[ProxiedBy[p]], context'[p]>> \in authorized'
  <2>1. p \in Deployable /\ p \in Contracts /\ ProxiedBy[p] \in Dependencies[p]
        /\ ProxiedBy[p] \in Contracts
    BY DeploymentAssumption
  <2>2. CASE p = k
    <3>1. ProxiedBy[k] # k
      BY <1>1, <2>1, <2>2, DeploymentAssumption DEF ToDeployClosed
    <3> QED
      BY <1>1, <1>2, <1>3, <2>1, <2>2, <3>1
  <2>3. CASE p # k
    <3>1. p \notin to_deploy /\ ProxiedBy[p] # k
      BY <1>1, <1>3, <2>1, <2>3 DEF ToDeployClosed
    <3>2. context'[p] = context[p] /\ context'[ProxiedBy[p]] = context[ProxiedBy[p]]
      BY <1>1, <2>1, <2>3, <3>1
    <3> QED
      BY <1>1, <1>2, <1>3, <3>1, <3>2 DEF Authorized
  <2> QED
    BY <2>2, <2>3
<1>4. Authorized(book, {})'
  BY <1>1, <1>2 DEF BookInv, Authorized
<1> QED
  BY <1>3, <1>4 DEF Authorized

----------------------------------------------------------------------------
(* The address book. *)

LEMMA BookInit ==
  ASSUME Init
  PROVE  BookInv
<1>1. ChainTyped
  BY DEF Init, ChainTyped
<1>2. Fits(book, {})
  BY DeploymentAssumption DEF Init, Fits, Addresses, External
<1>3. Authorized(book, {})
  BY DeploymentAssumption DEF Init, Authorized
<1> QED
  BY <1>1, <1>2, <1>3 DEF Init, BookInv, Phases

LEMMA BookStep ==
  ASSUME BookInv, [Next]_vars
  PROVE  BookInv'
<1> USE DEF bookVars, chainVars, runVars
<1>1. ASSUME NEW changed, Start(changed)
      PROVE  BookInv'
  <2>1. ToDeployClosed'
    BY <1>1, DeploymentSetClosed, DeploymentAssumption DEF Start, ToDeployClosed
  <2>2. /\ context' = book /\ book' = book /\ chain' = chain
        /\ authorized' = authorized /\ refused' = refused /\ whole /\ whole' = whole
        /\ phase' = "deploying"
    BY <1>1 DEF Start
  <2>3. Fits(context, to_deploy)' /\ Fits(book, {})'
    BY <2>2 DEF BookInv, Fits
  <2>4. Authorized(context, to_deploy)' /\ Authorized(book, {})'
    BY <2>2 DEF BookInv, Authorized
  <2> QED
    BY <2>1, <2>2, <2>3, <2>4 DEF BookInv, ChainTyped, Phases
<1>2. ASSUME NEW k \in Deployable, Deploy(k)
      PROVE  BookInv'
  <2>1. phase = "deploying" /\ phase' = phase /\ whole' = whole /\ k \in to_deploy
        /\ to_deploy' = to_deploy \ {k}
    BY <1>2 DEF Deploy, Ready
  <2> QED
    BY <1>2, <2>1, DeployFits, DeployAuthorizes DEF BookInv, Phases
<1>3. CASE Truncate
  BY <1>3 DEF Truncate, BookInv, ChainTyped, Phases, Fits, Authorized, ToDeployClosed
<1>4. CASE Save
  BY <1>4 DEF Save, BookInv, ChainTyped, Phases, Fits, Authorized, ToDeployClosed
<1>5. ASSUME NEW r \in Registries, SendRoots(r) \/ SendContracts(r)
      PROVE  BookInv'
  <2>1. UNCHANGED <<book, whole, chain, authorized, phase, context, to_deploy, refused>>
    BY <1>5 DEF SendRoots, SendContracts, Send
  <2> QED
    BY <2>1 DEF BookInv, ChainTyped, Phases, Fits, Authorized, ToDeployClosed
<1>6. CASE Finish
  BY <1>6 DEF Finish, BookInv, ChainTyped, Phases, Fits, Authorized, ToDeployClosed
<1>7. CASE Raise \/ Crash
  BY <1>7 DEF Raise, Crash, Abandoned, BookInv, ChainTyped, Phases, Fits, Authorized
<1>8. CASE RestoreBook
  BY <1>8 DEF RestoreBook, BookInv, ChainTyped, Phases, Fits, Authorized
<1>9. ASSUME NEW version, EditConfig(version)
      PROVE  BookInv'
  BY <1>9 DEF EditConfig, BookInv, ChainTyped, Phases, Fits, Authorized
<1>10. CASE UNCHANGED vars
  BY <1>10 DEF vars, BookInv, ChainTyped, Phases, Fits, Authorized, ToDeployClosed
<1> QED
  BY <1>1, <1>2, <1>3, <1>4, <1>5, <1>6, <1>7, <1>8, <1>9, <1>10 DEF Next, RunStep

\* The book and what a run knows fit the chain, whatever happens.
THEOREM BookInvTheorem == Spec => []BookInv
  BY BookInit, BookStep, PTL DEF Spec

\* Constructor arguments are addresses, in the order any graph is deployed in.
THEOREM ConstructedInOrderTheorem == Spec => []ConstructedInOrder
<1>1. BookInv => ConstructedInOrder
  <2> SUFFICES ASSUME BookInv, NEW i \in DOMAIN chain, NEW d \in DOMAIN chain[i].args
               PROVE  chain[i].args[d] # None
    BY DEF ConstructedInOrder
  <2>1. chain[i] \in Constructed
    BY DEF BookInv, ChainTyped
  <2>2. PICK k \in Deployable : chain[i].args \in [Dependencies[k] -> Addresses]
    BY <2>1 DEF Constructed
  <2> QED
    BY <2>2, DeploymentAssumption DEF Addresses
<1> QED
  BY <1>1, BookInvTheorem, PTL

\* A recorded contract was constructed with the contracts recorded next to it.
THEOREM BookIsConsistentTheorem == Spec => []BookIsConsistent
<1>1. BookInv => BookIsConsistent
  BY DEF BookInv, Fits, BookIsConsistent
<1> QED
  BY <1>1, BookInvTheorem, PTL

\* A recorded proxy may act at the recorded lending contract, unless the
\* transaction that was to authorize it failed.
THEOREM RecordedProxiesAreAuthorizedTheorem == Spec => []RecordedProxiesAreAuthorized
<1>1. BookInv => RecordedProxiesAreAuthorized
  BY DEF BookInv, Authorized, RecordedProxiesAreAuthorized
<1> QED
  BY <1>1, BookInvTheorem, PTL

----------------------------------------------------------------------------
(* The registries. *)

Held == Versions \cup {None}

RegistriesOnChain == {i \in DOMAIN chain : chain[i].key \in Registries}

\* What a run will not configure is what the book already had.
ToConfigureCovers ==
  /\ phase = "deploying" =>
       \A r \in Registries \ to_configure : r \notin to_deploy /\ context[r] = book[r]
  /\ phase = "configuring" => context = book

\* The inductive invariant of the registries.
RegistryInv ==
  /\ config \in Versions
  /\ registered \in [RegistriesOnChain -> [roots : Held, contracts : Held]]
  /\ ToConfigureCovers
  /\ RegistriesAreConfigured

LEMMA RegistryInit ==
  ASSUME Init
  PROVE  RegistryInv
<1>1. RegistriesOnChain = {} /\ registered = <<>>
  BY DEF Init, RegistriesOnChain
<1>2. RegistriesAreConfigured
  BY DEF Init, RegistriesAreConfigured
<1> QED
  BY <1>1, <1>2 DEF Init, RegistryInv, ToConfigureCovers

\* A deployment touches no registry that is there already.
LEMMA DeployKeepsRegistries ==
  ASSUME BookInv, RegistryInv, NEW k \in Deployable, Deploy(k)
  PROVE  RegistryInv'
<1> DEFINE address == Len(chain) + 1
           new == [key |-> k, args |-> [d \in Dependencies[k] |-> context[d]]]
<1>1. /\ chain' = Append(chain, new)
      /\ registered' = [i \in DOMAIN registered \cup {a \in {address} : k \in Registries} |->
                          IF i = address THEN [roots |-> None, contracts |-> None]
                                         ELSE registered[i]]
      /\ UNCHANGED <<book, config, phase, to_configure, stale>>
      /\ phase = "deploying"
      /\ context' = [context EXCEPT ![k] = address]
      /\ to_deploy' = to_deploy \ {k} /\ k \in to_deploy
      /\ context \in [Contracts -> Addresses \cup {None}]
  BY DEF Deploy, Ready, BookInv, bookVars, Fits
<1>2. new.key = k
  OBVIOUS
<1>3. /\ Len(chain) \in Nat /\ DOMAIN chain = 1..Len(chain)
      /\ DOMAIN chain' = 1..address
      /\ chain'[address].key = k
      /\ \A i \in DOMAIN chain : i \in DOMAIN chain' /\ chain'[i] = chain[i]
  <2>1. ChainTyped /\ ChainTyped'
    BY DeployFits DEF BookInv
  <2> HIDE DEF new
  <2> QED
    BY <1>1, <1>2, <2>1 DEF ChainTyped
<1> HIDE DEF new
<1>4. /\ RegistriesOnChain \subseteq RegistriesOnChain'
      /\ RegistriesOnChain' = IF k \in Registries THEN RegistriesOnChain \cup {address}
                                                  ELSE RegistriesOnChain
      /\ address \notin RegistriesOnChain
  BY <1>3 DEF RegistriesOnChain
<1>5. registered \in [RegistriesOnChain -> [roots : Held, contracts : Held]]
  BY DEF RegistryInv
<1> HIDE DEF address
<1>6. /\ registered' \in [RegistriesOnChain' -> [roots : Held, contracts : Held]]
      /\ \A i \in RegistriesOnChain : registered'[i] = registered[i]
  <2>1. RegistriesOnChain' = DOMAIN registered \cup {a \in {address} : k \in Registries}
    BY <1>4, <1>5
  <2> QED
    BY <1>1, <1>4, <1>5, <2>1 DEF Held
<1>7. ToConfigureCovers'
  BY <1>1, DeploymentAssumption DEF RegistryInv, ToConfigureCovers
<1>8. \A r \in Registries : book[r] # None => book[r] \in RegistriesOnChain
  BY DeploymentAssumption DEF BookInv, Fits, RegistriesOnChain
<1>9. RegistriesAreConfigured'
  BY <1>1, <1>6, <1>8 DEF RegistryInv, RegistriesAreConfigured
<1> QED
  BY <1>1, <1>6, <1>7, <1>9 DEF RegistryInv

\* A transaction to one registry leaves the others, and whatever it already
\* had, as they are.
LEMMA SendKeepsRegistries ==
  ASSUME BookInv, RegistryInv, NEW r \in Registries, SendRoots(r) \/ SendContracts(r)
  PROVE  RegistryInv'
<1>1. /\ UNCHANGED <<book, config, chain, phase, context, to_deploy>>
      /\ phase = "configuring" /\ context = book
      /\ book[r] # None
      /\ registered \in [RegistriesOnChain -> [roots : Held, contracts : Held]]
  BY DEF SendRoots, SendContracts, Send, bookVars, RegistryInv, ToConfigureCovers
<1>2. /\ \A x \in Registries :
           book[x] # None => book[x] \in RegistriesOnChain /\ chain[book[x]].key = x
      /\ RegistriesOnChain' = RegistriesOnChain
  BY <1>1, DeploymentAssumption DEF BookInv, Fits, RegistriesOnChain
<1>3. PICK part \in {"roots", "contracts"} :
        \E h \in {registered[book[r]][part], config} :
          registered' = [registered EXCEPT ![book[r]][part] = h]
  BY <1>1 DEF SendRoots, SendContracts, Send, Executed
<1>4. PICK held \in {registered[book[r]][part], config} :
        registered' = [registered EXCEPT ![book[r]][part] = held]
  BY <1>3
<1>5. book[r] \in RegistriesOnChain /\ held \in Held /\ config \in Versions
  BY <1>1, <1>2, <1>3, <1>4 DEF RegistryInv, Held
<1>6. /\ registered' \in [RegistriesOnChain' -> [roots : Held, contracts : Held]]
      /\ \A i \in RegistriesOnChain : i # book[r] => registered'[i] = registered[i]
  <2>1. registered[book[r]] \in [roots : Held, contracts : Held]
    BY <1>1, <1>5
  <2>2. registered' \in [RegistriesOnChain -> [roots : Held, contracts : Held]]
    BY <1>1, <1>3, <1>4, <1>5, <2>1
  <2> QED
    BY <1>1, <1>2, <1>4, <2>2
<1>7. ASSUME NEW x \in Registries, book[x] # None, x \notin stale'
      PROVE  registered'[book[x]] = [roots |-> config, contracts |-> config]
  <2>1. CASE x = r /\ r \in stale
    BY <1>1, <1>7, <2>1 DEF SendRoots, SendContracts
  <2>2. CASE x = r /\ r \notin stale
    <3>1. registered[book[r]] = [roots |-> config, contracts |-> config]
      BY <1>1, <2>2 DEF RegistryInv, RegistriesAreConfigured
    <3>2. held = config
      BY <1>3, <1>4, <3>1
    <3> QED
      BY <1>1, <1>3, <1>4, <1>5, <2>2, <3>1, <3>2
  <2>3. CASE x # r
    <3>1. x \notin stale
      BY <1>7, <2>3 DEF SendRoots, SendContracts
    <3>2. book[x] # book[r] /\ book[x] \in RegistriesOnChain
      BY <1>1, <1>2, <1>7, <2>3
    <3> QED
      BY <1>6, <1>7, <3>1, <3>2 DEF RegistryInv, RegistriesAreConfigured
  <2> QED
    BY <2>1, <2>2, <2>3
<1> QED
  BY <1>1, <1>5, <1>6, <1>7 DEF RegistryInv, ToConfigureCovers, RegistriesAreConfigured

LEMMA RegistryStep ==
  ASSUME BookInv, RegistryInv, [Next]_vars
  PROVE  RegistryInv'
<1> USE DEF bookVars, chainVars, runVars
<1>1. ASSUME UNCHANGED <<book, config, chain, registered, stale>>, ToConfigureCovers'
      PROVE  RegistryInv'
  BY <1>1 DEF RegistryInv, RegistriesAreConfigured, RegistriesOnChain
<1>2. ASSUME NEW changed, Start(changed)
      PROVE  RegistryInv'
  <2>1. ToConfigureCovers'
    BY <1>2 DEF Start, ToConfigureCovers, TransactionSet
  <2> QED
    BY <1>1, <1>2, <2>1 DEF Start
<1>3. CASE Truncate
  BY <1>1, <1>3 DEF Truncate, RegistryInv, ToConfigureCovers
<1>4. CASE Save
  <2>1. UNCHANGED <<config, chain, registered, context>> /\ book' = context
        /\ stale' = stale \cup to_configure /\ phase = "deploying" /\ phase' = "configuring"
    BY <1>4 DEF Save
  <2>2. \A r \in Registries : r \notin stale' => r \notin stale /\ book'[r] = book[r]
    BY <2>1 DEF RegistryInv, ToConfigureCovers
  <2>3. RegistriesAreConfigured'
    BY <2>1, <2>2 DEF RegistryInv, RegistriesAreConfigured
  <2> QED
    BY <2>1, <2>3 DEF RegistryInv, RegistriesOnChain, ToConfigureCovers
<1>5. CASE Finish
  BY <1>1, <1>5 DEF Finish, RegistryInv, ToConfigureCovers
<1>6. CASE Raise \/ Crash
  BY <1>1, <1>6 DEF Raise, Crash, Abandoned, ToConfigureCovers
<1>7. CASE RestoreBook
  BY <1>1, <1>7 DEF RestoreBook, RegistryInv, ToConfigureCovers
<1>8. ASSUME NEW version \in Versions, EditConfig(version)
      PROVE  RegistryInv'
  <2>1. RegistriesAreConfigured'
    BY <1>8 DEF EditConfig, RegistriesAreConfigured
  <2> QED
    BY <1>8, <2>1 DEF EditConfig, RegistryInv, RegistriesOnChain, ToConfigureCovers
<1>9. CASE UNCHANGED vars
  BY <1>1, <1>9 DEF vars, RegistryInv, ToConfigureCovers
<1> QED
  BY <1>2, <1>3, <1>4, <1>5, <1>6, <1>7, <1>8, <1>9, DeployKeepsRegistries, SendKeepsRegistries
  DEF Next, RunStep

\* A registry holds what the configuration says unless a run failed it, or
\* nobody has asked for it since the configuration changed.
THEOREM RegistriesAreConfiguredTheorem == Spec => []RegistriesAreConfigured
<1>1. Init => RegistryInv
  BY RegistryInit
<1>2. BookInv /\ RegistryInv /\ [Next]_vars => RegistryInv'
  BY RegistryStep
<1>3. RegistryInv => RegistriesAreConfigured
  BY DEF RegistryInv
<1> QED
  BY <1>1, <1>2, <1>3, BookInvTheorem, PTL DEF Spec
=============================================================================
