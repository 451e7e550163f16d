---------------------------- MODULE MCOfferReuse ----------------------------
(***************************************************************************)
(* P2PLendingNfts with a history of how many loans each offer gave, counted *)
(* up to one more than its size.                                           *)
(***************************************************************************)
EXTENDS MCP2PLendingNfts

VARIABLE originated

Given(offer) == Cardinality({loan \in loans' \ loans : loan.offer_id = offer.id})

ReuseInit == Init /\ originated = [o \in Offers |-> 0]

ReuseNext ==
  /\ LendingNext
  /\ originated' = [o \in Offers |-> IF originated[o] > o.size
                                       THEN originated[o] ELSE originated[o] + Given(o)]

ReuseSpec == ReuseInit /\ [][ReuseNext]_<<vars, originated>>

\* README: "Each offer has a size determining how many loans it can
\* originate", and "An offer can be used multiple times up to its specified
\* size".  The count goes down again when a loan is settled or replaced.
SizeBoundsOriginations == \A o \in Offers : originated[o] <= o.size
=============================================================================
