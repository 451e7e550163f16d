-------------------------- MODULE MCP2PLendingNfts --------------------------
(***************************************************************************)
(* Instances of P2PLendingNfts for TLC: values of its constants that the   *)
(* .cfg files choose from.                                                 *)
(***************************************************************************)
EXTENDS P2PLendingNfts, FiniteSetsExt

\* An offer of l1 for token 1 alone, one of l2 for a range of tokens with
\* broker fees and pro rata interest, and one of l1 for a trait.  The first
\* and the last share a tracing id.
BaseOffer ==
  [id |-> "o", principal |-> 4, interest |-> 2, duration |-> 1,
   origination_fee_amount |-> 0, broker_upfront_fee_amount |-> 0,
   broker_settlement_fee_bps |-> 0, broker_address |-> None,
   offer_type |-> "TOKEN", token_id |-> 1, token_range_min |-> 1, token_range_max |-> 2,
   collection_key_hash |-> "k1", trait_hash |-> "x", expiration |-> 2,
   lender |-> "l1", pro_rata |-> FALSE, size |-> 1, tracing_id |-> "t1"]

TokenOffer == [BaseOffer EXCEPT !.id = "token", !.origination_fee_amount = 1]

RangeOffer ==
  [BaseOffer EXCEPT
     !.id = "range", !.offer_type = "COLLECTION", !.lender = "l2", !.tracing_id = "t2",
     !.principal = 5, !.interest = 4, !.duration = 2, !.pro_rata = TRUE,
     !.broker_upfront_fee_amount = 1, !.broker_settlement_fee_bps = 5000,
     !.broker_address = "k", !.expiration = 3]

TraitOffer ==
  [BaseOffer EXCEPT !.id = "trait", !.offer_type = "TRAIT", !.principal = 3,
                    !.size = 2, !.expiration = 3]

MCOffers == {TokenOffer, RangeOffer, TraitOffer}
PlainOffers == {TokenOffer, TraitOffer,
                [RangeOffer EXCEPT !.broker_upfront_fee_amount = 0,
                                   !.broker_settlement_fee_bps = 0]}

\* The range offer, and offers of l1 for the NFT alone and for punks, which
\* share a tracing id.
PunkOffers ==
  {TokenOffer,
   [RangeOffer EXCEPT !.broker_upfront_fee_amount = 0, !.broker_settlement_fee_bps = 0,
                      !.expiration = 2],
   [BaseOffer EXCEPT !.id = "punks", !.offer_type = "COLLECTION", !.size = 2,
                     !.collection_key_hash = "k2"]}

Nft == [contract |-> "c1", id |-> 1]
OneNft == {Nft}
Punk == [contract |-> "punks", id |-> 2]
NftAndPunk == {Nft, Punk}
TwoNfts == {Nft, [contract |-> "c1", id |-> 2]}
OneHolding == {[n \in OneNft |-> "b"]}
PunkHoldings == {[n \in NftAndPunk |-> "b"]}
TwoHoldings == {[n \in TwoNfts |-> "b"]}

MCListing == [k \in {"k1"} |-> "c1"]
PunkListing == [k \in {"k1", "k2"} |-> IF k = "k1" THEN "c1" ELSE "punks"]
PunkRoots == [k \in {"k1", "k2"} |-> {}]
MCRoots == [k \in {"k1"} |-> {<<"c1", "x", 1>>}]
MCTraitRoots == {MCRoots["k1"]}
MCFunds == [a \in {"b", "l1", "l2", "k", "w", "vault"} |->
              CASE a = "b" -> 4 [] a \in {"l1", "l2"} -> 6 [] OTHER -> 0]
RichFunds == [a \in {"b", "l1", "l2", "k", "w", "vault"} |->
                IF a \in {"b", "l1", "l2"} THEN 30 ELSE 0]
MCFeeCaps == [upfront |-> 5000, settlement |-> 5000,
              lender_broker |-> 5000, borrower_broker |-> 5000]
NoFee == {[upfront |-> 0, settlement |-> 0, wallet |-> "w"]}
MCProtocols == {[upfront |-> 2500, settlement |-> 5000, wallet |-> "w"]}
TwoProtocols == {[upfront |-> 0, settlement |-> 0, wallet |-> "w"],
                 [upfront |-> 0, settlement |-> 5000, wallet |-> "w2"]}
HighFeeCaps == [MCFeeCaps EXCEPT !.lender_broker = 10000]
GovernedOffers ==
  {[RangeOffer EXCEPT !.principal = 2, !.broker_settlement_fee_bps = 6000,
                      !.broker_upfront_fee_amount = 0, !.expiration = 2, !.interest = 10,
                      !.offer_type = "TOKEN"],
   [TraitOffer EXCEPT !.lender = "l2", !.duration = 2, !.size = 1, !.expiration = 2,
                      !.interest = 0],
   [BaseOffer EXCEPT !.id = "short", !.lender = "l2", !.principal = 4, !.duration = 0,
                      !.pro_rata = TRUE, !.expiration = 1]}
GovernedRoots == {{}, MCRoots["k1"]}
GovernedFunds == [a \in {"b", "l2", "k", "w", "w2", "vault"} |->
                    CASE a = "b" -> 15 [] a = "l2" -> 4 [] OTHER -> 0]

NoBrokers == {NoBroker}
MCBrokerTerms == {NoBroker, [upfront_amount |-> 1, interest_bps |-> 5000, wallet |-> "k"]}

\* The contract between two interventions of its owner.
LendingSpec == Init /\ [][LendingNext]_vars
FairSpec == Spec /\ Fairness
=============================================================================
