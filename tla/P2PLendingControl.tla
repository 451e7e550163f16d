------------------------- MODULE P2PLendingControl -------------------------
(***************************************************************************)
(* P2PLendingControl.vy: the registry of the collections that may be used  *)
(* as collateral.  For each collection key it holds the contract of the    *)
(* collection and the Merkle root of its traits.  A root is modelled by    *)
(* the set of leaves <<contract, trait, token id>> it commits to: a proof  *)
(* exists for exactly these.                                               *)
(***************************************************************************)
EXTENDS Integers

CONSTANTS
  Admins,         \* accounts that may own the registry
  CollectionKeys, \* hashes of collection keys
  Contracts,      \* collection contracts
  TraitRoots,     \* sets of leaves
  EmptyRoot,      \* the root of a key that was never set
  Deployer,
  None

VARIABLES owner, proposed_owner, contracts, trait_roots

vars == <<owner, proposed_owner, contracts, trait_roots>>

TypeOK ==
  /\ owner \in Admins
  /\ proposed_owner \in Admins \cup {None}
  /\ contracts \in [CollectionKeys -> Contracts \cup {None}]
  /\ trait_roots \in [CollectionKeys -> TraitRoots \cup {EmptyRoot}]

Init ==
  /\ owner = Deployer
  /\ proposed_owner = None
  /\ contracts = [k \in CollectionKeys |-> None]
  /\ trait_roots = [k \in CollectionKeys |-> EmptyRoot]

ProposeOwner(sender, address) ==
  /\ sender = owner
  /\ proposed_owner' = address
  /\ UNCHANGED <<owner, contracts, trait_roots>>

ClaimOwnership(sender) ==
  /\ sender = proposed_owner
  /\ owner' = sender
  /\ proposed_owner' = None
  /\ UNCHANGED <<contracts, trait_roots>>

\* A batch is a function on the keys it names; of two entries for one key the
\* later one stays.
Overwrite(map, batch) ==
  [k \in DOMAIN map |-> IF k \in DOMAIN batch THEN batch[k] ELSE map[k]]

Batches(Values) == UNION {[keys -> Values] : keys \in SUBSET CollectionKeys}

ChangeCollectionsContracts(sender, batch) ==
  /\ sender = owner
  /\ contracts' = Overwrite(contracts, batch)
  /\ UNCHANGED <<owner, proposed_owner, trait_roots>>

ChangeCollectionsTraitRoots(sender, batch) ==
  /\ sender = owner
  /\ trait_roots' = Overwrite(trait_roots, batch)
  /\ UNCHANGED <<owner, proposed_owner, contracts>>

CollectionStatus(key) ==
  [contract |-> contracts[key], trait_root |-> trait_roots[key]]

Next ==
  \E sender \in Admins :
    \/ \E address \in Admins : ProposeOwner(sender, address)
    \/ ClaimOwnership(sender)
    \/ \E batch \in Batches(Contracts \cup {None}) :
         ChangeCollectionsContracts(sender, batch)
    \/ \E batch \in Batches(TraitRoots) : ChangeCollectionsTraitRoots(sender, batch)

Spec == Init /\ [][Next]_vars
=============================================================================
