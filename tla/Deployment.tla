----------------------------- MODULE Deployment -----------------------------
(***************************************************************************)
(* scripts/_helpers: the deployment manager.  A run reads the address book *)
(* p2p.json, finds the contracts to deploy, deploys them after the ones    *)
(* they depend on, records their addresses, then sends the configuration   *)
(* transactions and records again.                                         *)
(*                                                                         *)
(* The process may stop at any step (an exception of a deployment or of a  *)
(* read is the same), and a later run starts from the book alone.  A       *)
(* transaction that fails is logged and swallowed by `execute`.  Networks  *)
(* are not local, where the book is ignored, and runs are no dry runs,     *)
(* which change nothing.  The book is truncated before it is written: a    *)
(* process that stops in between leaves a file no run can load, until      *)
(* somebody takes the last whole one back from version control.            *)
(***************************************************************************)
EXTENDS Naturals, Sequences, FiniteSets

CONSTANTS
  Contracts,      \* contract keys
  Deployable,     \* those that are not external
  Dependencies,   \* deployment_deps of each
  ProxiedBy,      \* for the key of each refinance proxy, the key of its lending contract
  Registries,     \* keys with trait roots to configure
  ConfigKey,      \* configs.trait_roots
  Versions,       \* contents the configuration file may have
  Unresolved,     \* those that name a collection collections.json does not have
  None,
  MaxDeployed,    \* bound of the contracts on chain
  MaxCrashes

External == "external"   \* the address of a contract deployed by others

ASSUME DeploymentAssumption ==
  /\ Deployable \subseteq Contracts
  /\ Dependencies \in [Contracts -> SUBSET Contracts]
  /\ DOMAIN ProxiedBy \subseteq Deployable
  /\ \A p \in DOMAIN ProxiedBy : ProxiedBy[p] \in Dependencies[p]
  /\ Registries \subseteq Deployable
  /\ ConfigKey \notin Contracts
  /\ None \notin Versions /\ None \notin Nat /\ None # External
  /\ Unresolved \subseteq Versions
  /\ \A S \in SUBSET Contracts \ {{}} : \E k \in S : Dependencies[k] \cap S = {}

VARIABLES
  book,          \* p2p.json, as last written: the address recorded for each key
  whole,         \* whether that is what the file holds; it is truncated otherwise
  config,        \* the trait roots in the configuration files
  chain,         \* the contracts deployed, an address being a place in it
  authorized,    \* pairs <<lending contract, proxy>> of addresses
  registered,    \* of each deployed registry, the [roots, contracts] it holds
  phase,         \* of the run: "idle", "deploying" or "configuring"
  context,       \* addresses the run knows
  to_deploy, to_configure,
  to_list,       \* the registry whose trait roots were sent, and its contracts not yet
  crashes,
  refused,       \* history: proxies whose authorization failed
  stale          \* history: registries configured in vain or not since a change

chainVars == <<chain, authorized, registered>>
bookVars == <<book, whole>>
runVars == <<phase, context, to_deploy, to_configure, to_list>>
vars == <<bookVars, config, chainVars, runVars, crashes, refused, stale>>

----------------------------------------------------------------------------
(* DependencyManager. *)

\* Sets that contain the keys and all that depends on them.
ClosedAround(keys) ==
  {S \in SUBSET Contracts :
     keys \subseteq S /\ \A k \in Contracts : Dependencies[k] \cap S # {} => k \in S}

\* Mutant: only the direct dependents.
DirectDependents(keys) ==
  keys \cup {k \in Contracts : Dependencies[k] \cap keys # {}}

\* The least of them: a new address means new dependents.
WithDependents(keys) == {k \in Contracts : \A S \in ClosedAround(keys) : k \in S}

\* Mutant: what is not deployed yet must be named.
DeploymentSetAsAsked(changed) == WithDependents(changed \cap Contracts)

DeploymentSet(changed) ==
  WithDependents((changed \cap Contracts) \cup {k \in Deployable : book[k] = None})

\* Mutant: a registry is configured when the configuration is named only.
TransactionSetOfConfig(changed) == {r \in Registries : ConfigKey \in changed}

TransactionSet(changed) ==
  {r \in Registries : r \in DeploymentSet(changed) \cup changed \/ ConfigKey \in changed}

\* Mutant: the order is that of the configuration file.
ReadyInAnyOrder(k) == k \in to_deploy

\* The deployment order is topological.
Ready(k) == k \in to_deploy /\ Dependencies[k] \cap to_deploy = {}

----------------------------------------------------------------------------
(* A run. *)

\* load_contracts raises when the book is not whole.
Start(changed) ==
  /\ phase = "idle"
  /\ whole
  /\ Len(chain) + Cardinality(Deployable) <= MaxDeployed
  /\ phase' = "deploying"
  /\ context' = book
  /\ to_deploy' = DeploymentSet(changed) \cap Deployable
  /\ to_configure' = TransactionSet(changed)
  /\ UNCHANGED <<bookVars, to_list, config, chainVars, crashes, refused, stale>>

\* execute: a transaction takes effect, or fails and nobody is told.
Executed(before, after) == {before, after}

\* A refinance proxy is authorized right after it is deployed.
AuthorizeProxy(k, address) ==
  IF k \in DOMAIN ProxiedBy
    THEN LET pair == <<context[ProxiedBy[k]], address>>
         IN  /\ authorized' \in Executed(authorized, authorized \cup {pair})
             /\ refused' = IF pair \in authorized' THEN refused ELSE refused \cup {address}
    ELSE UNCHANGED <<authorized, refused>>

\* ContractConfig.deploy, with the addresses known by now as arguments.
Deploy(k) ==
  LET address == Len(chain) + 1
  IN  /\ phase = "deploying"
      /\ Ready(k)
      /\ chain' = Append(chain, [key |-> k, args |-> [d \in Dependencies[k] |-> context[d]]])
      /\ context' = [context EXCEPT ![k] = address]
      /\ to_deploy' = to_deploy \ {k}
      /\ registered' = [i \in DOMAIN registered \cup {a \in {address} : k \in Registries} |->
                          IF i = address THEN [roots |-> None, contracts |-> None]
                                         ELSE registered[i]]
      /\ AuthorizeProxy(k, address)
      /\ UNCHANGED <<bookVars, config, phase, to_configure, to_list, crashes, stale>>

\* store_contracts opens the book for writing, and so empties it: when all is
\* deployed, and again when all is configured.
Truncate ==
  /\ whole
  /\ \/ phase = "deploying" /\ to_deploy = {}
     \/ phase = "configuring" /\ to_configure = {} /\ to_list = {}
  /\ whole' = FALSE
  /\ UNCHANGED <<book, config, chainVars, runVars, crashes, refused, stale>>

\* Mutant: the addresses are recorded before all of them are known.
SaveEarly ==
  /\ phase = "deploying"
  /\ book' = context /\ whole' = TRUE
  /\ phase' = IF to_deploy = {} THEN "configuring" ELSE phase
  /\ stale' = stale \cup to_configure
  /\ UNCHANGED <<config, chainVars, context, to_deploy, to_configure, to_list, crashes, refused>>

\* The first _save_state.  What waits to be configured has its new address in
\* the book from here on.
Save ==
  /\ phase = "deploying" /\ ~whole
  /\ book' = context /\ whole' = TRUE
  /\ phase' = "configuring"
  /\ stale' = stale \cup to_configure
  /\ UNCHANGED <<config, chainVars, context, to_deploy, to_configure, to_list, crashes, refused>>

\* One of the two transactions of set_trait_roots, sent when the registry
\* differs from the configuration, and possibly in vain.  The comparison reads
\* the registry, and raises if there is none.
Send(r, part) ==
  /\ phase = "configuring" /\ whole
  /\ context[r] # None
  /\ \E held \in Executed(registered[context[r]][part], config) :
       registered' = [registered EXCEPT ![context[r]][part] = held]
  /\ UNCHANGED <<bookVars, config, chain, authorized, phase, context, to_deploy, crashes, refused>>

SendRoots(r) ==
  /\ r \in to_configure /\ to_list = {}
  /\ Send(r, "roots")
  /\ to_configure' = to_configure \ {r}
  /\ to_list' = {r}
  /\ UNCHANGED stale

\* The contracts are looked up once the roots are sent.
SendContracts(r) ==
  /\ r \in to_list
  /\ config \notin Unresolved
  /\ Send(r, "contracts")
  /\ to_list' = {}
  /\ stale' = IF registered'[context[r]] = [roots |-> config, contracts |-> config]
               THEN stale \ {r} ELSE stale
  /\ UNCHANGED to_configure

\* The second _save_state finds nothing new.
Finish ==
  /\ phase = "configuring" /\ ~whole
  /\ book' = context /\ whole' = TRUE
  /\ phase' = "idle"
  /\ UNCHANGED <<config, chainVars, context, to_deploy, to_configure, to_list, crashes, refused,
                 stale>>

\* The run is over, and what it knew is lost.
Abandoned ==
  /\ phase' = "idle"
  /\ context' = book
  /\ to_deploy' = {} /\ to_configure' = {} /\ to_list' = {}
  /\ UNCHANGED <<bookVars, config, chainVars, refused, stale>>

\* A collection that is not known raises: its roots are sent by then.
Raise ==
  /\ to_list # {} /\ config \in Unresolved
  /\ Abandoned
  /\ UNCHANGED crashes

Crash ==
  /\ phase # "idle"
  /\ crashes < MaxCrashes
  /\ crashes' = crashes + 1
  /\ Abandoned

\* The book is kept with the sources.
RestoreBook ==
  /\ phase = "idle" /\ ~whole
  /\ whole' = TRUE
  /\ UNCHANGED <<book, config, chainVars, runVars, crashes, refused, stale>>

\* An operator edits the trait roots between runs, and may forget to say so.
EditConfig(version) ==
  /\ phase = "idle"
  /\ version # config
  /\ config' = version
  /\ stale' = Registries
  /\ UNCHANGED <<bookVars, chainVars, runVars, crashes, refused>>

Init ==
  /\ book = [k \in Contracts |-> IF k \in Deployable THEN None ELSE External]
  /\ whole = TRUE
  /\ config \in Versions
  /\ chain = <<>>
  /\ authorized = {}
  /\ registered = <<>>
  /\ phase = "idle"
  /\ context = book
  /\ to_deploy = {} /\ to_configure = {} /\ to_list = {}
  /\ crashes = 0
  /\ refused = {}
  /\ stale = Registries

RunStep ==
  \/ \E k \in Deployable : Deploy(k)
  \/ Truncate
  \/ Save
  \/ \E r \in Registries : SendRoots(r) \/ SendContracts(r)
  \/ Raise
  \/ Finish

Next ==
  \/ \E changed \in SUBSET (Contracts \cup {ConfigKey}) : Start(changed)
  \/ RunStep
  \/ Crash
  \/ RestoreBook
  \/ \E version \in Versions : EditConfig(version)

\* An operator that starts a run sees it through, unless the process stops,
\* takes back a book that cannot be read, and starts another run as long as
\* something is not deployed.
Fairness ==
  /\ WF_vars(RunStep)
  /\ WF_vars(RestoreBook)
  /\ WF_vars((\E k \in Deployable : book[k] = None) /\ Start({}))

Spec == Init /\ [][Next]_vars /\ Fairness

----------------------------------------------------------------------------
(* Properties. *)

\* No contract is constructed with an address that is not there yet.
ConstructedInOrder ==
  \A i \in DOMAIN chain : \A d \in DOMAIN chain[i].args : chain[i].args[d] # None

\* The book is consistent, whenever it is read: a recorded contract was
\* constructed with the contracts recorded next to it, whatever was deployed
\* again since and wherever a run stopped.
BookIsConsistent ==
  \A k \in Deployable :
    book[k] # None =>
      /\ chain[book[k]].key = k
      /\ \A d \in Dependencies[k] : chain[book[k]].args[d] = book[d]

\* A recorded proxy may act at the recorded lending contract, unless the
\* transaction that authorizes it failed.  No later run repeats it.
RecordedProxiesAreAuthorized ==
  \A p \in DOMAIN ProxiedBy :
    book[p] # None /\ book[p] \notin refused
      => <<book[ProxiedBy[p]], book[p]>> \in authorized

\* A recorded registry holds what the configuration says, unless the run that
\* was to bring it there failed, or nobody has asked for it since a change.
RegistriesAreConfigured ==
  \A r \in Registries :
    book[r] # None /\ r \notin stale
      => registered[book[r]] = [roots |-> config, contracts |-> config]

\* Runs that stop are made up for: in the end everything is recorded.
EverythingIsRecorded == <>[](\A k \in Deployable : book[k] # None)
=============================================================================
