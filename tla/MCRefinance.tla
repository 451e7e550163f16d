---------------------------- MODULE MCRefinance ----------------------------
(***************************************************************************)
(* An instance of RefinanceProxies for TLC: a loan to refinance at each of *)
(* the four protocols, collateral of two collections with the same ids,    *)
(* flash loans below, at and above what is due.                            *)
(***************************************************************************)
EXTENDS RefinanceProxies

Token(id) == [contract |-> "c1", id |-> id]
Free == Token(4)
\* BendDAO has a token of another collection, with the id of the free one.
Other == [contract |-> "c2", id |-> 4]
MCNfts == {Token(1), Token(2), Token(3), Free, Other}

Foreign(proxy, nft, borrower, due, lender) ==
  [proxy |-> proxy, borrower |-> borrower, lender |-> lender, nft |-> nft, due |-> due]

MCForeignLoans ==
  {Foreign("nftfi", Token(1), "b", 3, "f1"), Foreign("arcade", Token(2), "b", 2, "f2"),
   Foreign("gondi", Token(3), "b", 2, "f1"), Foreign("benddao", Other, "b", 3, "f2")}

\* b calls refinance_loan for itself, and s calls flashLoan and names b, or a proxy.
MCCallers ==
  {OwnCall("b"), [origin |-> "s", borrower |-> "b"], [origin |-> "s", borrower |-> "arcade"]}

MCHoldings == {[n \in MCNfts |-> IF n = Free THEN "s" ELSE "elsewhere"]}

\* With every fee, and an interest that nobody can pay: loans end by default.
Collection1 ==
  [id |-> "c1", principal |-> 2, interest |-> 9, duration |-> 1,
   origination_fee_amount |-> 0, broker_upfront_fee_amount |-> 1,
   broker_settlement_fee_bps |-> 0, broker_address |-> "k",
   offer_type |-> "COLLECTION", token_id |-> 0, token_range_min |-> 1, token_range_max |-> 4,
   collection_key_hash |-> "k1", trait_hash |-> "x", expiration |-> 2,
   lender |-> "l", pro_rata |-> FALSE, size |-> 2, tracing_id |-> "t1"]
MCOffers == {Collection1}

MCListing == [k \in {"k1"} |-> "c1"]
MCRoots == [k \in {"k1"} |-> {}]
MCFunds ==
  [a \in Accounts |-> CASE a = "b" -> 4 [] a = "l" -> 6 [] a = "balancer" -> 3
                     [] a = "s" -> 2 [] OTHER -> 0]
MCFeeCaps == [upfront |-> 5000, settlement |-> 5000,
              lender_broker |-> 5000, borrower_broker |-> 5000]
MCProtocols == {[upfront |-> 5000, settlement |-> 0, wallet |-> "k"]}
MCBrokerTerms == {NoBroker}
MCProxies == {"nftfi", "arcade", "benddao", "gondi"}
=============================================================================
