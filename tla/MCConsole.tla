----------------------------- MODULE MCConsole -----------------------------
(***************************************************************************)
(* An instance of Console for TLC: b has a loan at Arcade to refinance and *)
(* an offer of its own that l may borrow under.                            *)
(***************************************************************************)
EXTENDS Console

Pledged == [contract |-> "c1", id |-> 1]
Owned == [contract |-> "c1", id |-> 2]
MCNfts == {Pledged, Owned}
MCHoldings == {[n \in MCNfts |-> IF n = Pledged THEN "elsewhere" ELSE "l"]}
MCForeignLoans ==
  {[proxy |-> "arcade", borrower |-> "b", lender |-> "f", nft |-> Pledged, due |-> 3]}

\* For the loan to refinance, and for l's own NFT.
ForPledged ==
  [id |-> "pledged", principal |-> 4, interest |-> 2, duration |-> 1,
   origination_fee_amount |-> 0, broker_upfront_fee_amount |-> 0,
   broker_settlement_fee_bps |-> 0, broker_address |-> None,
   offer_type |-> "TOKEN", token_id |-> 1, token_range_min |-> 1, token_range_max |-> 1,
   collection_key_hash |-> "k1", trait_hash |-> "x", expiration |-> 2,
   lender |-> "l", pro_rata |-> TRUE, size |-> 1, tracing_id |-> "t1"]
ForOwned ==
  [ForPledged EXCEPT !.id = "owned", !.token_id = 2, !.lender = "b", !.principal = 2,
                     !.duration = 0, !.pro_rata = FALSE,
                     !.tracing_id = "t3"]
MCOffers == {ForPledged, ForOwned}

\* A loan whose broker is due more than its rate says in units.
Large ==
  {[ForPledged EXCEPT !.offer_type = "COLLECTION", !.principal = 40000, !.interest = 30000,
                      !.pro_rata = FALSE, !.token_range_max = 2]}
LargeFunds == [a \in Accounts |-> CASE a = "b" -> 40000 [] a = "l" -> 50000 [] OTHER -> 0]
LargeHoldings == {[n \in MCNfts |-> IF n = Pledged THEN "elsewhere" ELSE "b"]}

\* l also calls flashLoan and names b.
MCCallers == {OwnCall("b"), OwnCall("l"), [origin |-> "l", borrower |-> "b"]}

MCGranted == [w \in {"b", "l"} |-> IF w = "b" THEN 2 ELSE 0]
LargeGranted == [w \in {"b", "l"} |-> 40000]

MCListing == [k \in {"k1"} |-> "c1"]
MCRoots == [k \in {"k1"} |-> {}]
MCFunds ==
  [a \in Accounts |-> CASE a = "b" -> 5 [] a = "l" -> 4 [] a = "balancer" -> 3 [] OTHER -> 0]
MCFeeCaps == [upfront |-> 5000, settlement |-> 5000,
              lender_broker |-> 5000, borrower_broker |-> 5000]
MCProtocols == {[upfront |-> 0, settlement |-> 0, wallet |-> "k"]}
HalfToBroker == [upfront_amount |-> 0, interest_bps |-> 5000, wallet |-> "k"]
\* Without a broker what a payment takes is no more than it had approved.
MCBrokerTerms == {NoBroker, HalfToBroker}
Plain == {NoBroker}
MCProxies == {"nftfi", "arcade", "benddao", "gondi"}
=============================================================================
