------------------------------ MODULE LoanMath ------------------------------
(***************************************************************************)
(* The arithmetic of P2PLendingNfts.vy: fees, settlement interest and the  *)
(* amounts every party pays or receives when a loan is created, settled or *)
(* replaced.  All of it is over unsigned integers; where the code          *)
(* subtracts unsigned values in an order that can go below zero, the call  *)
(* reverts, and the operator named ...Defined says when it does not.       *)
(* Amounts stay far below 2^255, so the upper bound of the integers is not *)
(* modelled.                                                               *)
(*                                                                         *)
(* A loan's four fees are a function from fee type to fee, each a record   *)
(* [upfront_amount, interest_bps, wallet].                                 *)
(***************************************************************************)
EXTENDS Integers

BPS == 10000

FeeTypes ==
  {"PROTOCOL_FEE", "ORIGINATION_FEE", "LENDER_BROKER_FEE", "BORROWER_BROKER_FEE"}

MaxOf(a, b) == IF a >= b THEN a ELSE b

Bps(amount, bps) == (amount * bps) \div BPS

----------------------------------------------------------------------------
(* Settlement of a running loan. *)

\* A pro rata loan that starts and matures in the same block divides by zero.
InterestDefined(loan) == loan.pro_rata => loan.maturity > loan.start_time

SettlementInterest(loan, now) ==
  IF loan.pro_rata
    THEN (loan.interest * (now - loan.start_time)) \div (loan.maturity - loan.start_time)
    ELSE loan.interest

SettlementFee(loan, interest, type) == Bps(interest, loan.fees[type].interest_bps)

\* The origination fee has no settlement part.
SettlementFeesTotal(loan, interest) ==
    SettlementFee(loan, interest, "PROTOCOL_FEE")
  + SettlementFee(loan, interest, "LENDER_BROKER_FEE")
  + SettlementFee(loan, interest, "BORROWER_BROKER_FEE")

BorrowerBrokerFee(loan, interest) ==
  SettlementFee(loan, interest, "BORROWER_BROKER_FEE")

\* What the borrower pays to settle ...
Repayment(loan, interest) ==
  loan.amount + interest + BorrowerBrokerFee(loan, interest)

\* ... and what the lender receives.  The total of the fees is subtracted
\* before the borrower broker's part is added back.
LenderProceedsDefined(loan, interest) ==
  loan.amount + interest >= SettlementFeesTotal(loan, interest)

\* Mutant: the borrower broker's fee is taken from the lender.
LenderProceedsLessBroker(loan, interest) ==
  loan.amount + interest - SettlementFeesTotal(loan, interest)

LenderProceeds(loan, interest) ==
  loan.amount + interest - SettlementFeesTotal(loan, interest)
    + BorrowerBrokerFee(loan, interest)

----------------------------------------------------------------------------
(* The fees a new loan takes from its offer and from the current protocol  *)
(* fee, [upfront, settlement, wallet]; the borrower's broker is a fee       *)
(* record of its own.  Broker wallets may be None.                          *)

\* Mutant: the settlement fees together are not bounded by the interest.
LoanFeesDefinedUnbounded(offer, broker, protocol, caps, None) ==
  /\ offer.origination_fee_amount <= offer.principal
  /\ offer.broker_settlement_fee_bps <= caps.lender_broker
  /\ broker.interest_bps <= caps.borrower_broker

LoanFeesDefined(offer, broker, protocol, caps, None) ==
  /\ offer.origination_fee_amount <= offer.principal
  /\ \/ offer.broker_settlement_fee_bps = 0 /\ offer.broker_upfront_fee_amount = 0
     \/ offer.broker_address # None
  /\ \/ broker.upfront_amount = 0 /\ broker.interest_bps = 0
     \/ broker.wallet # None
  /\ offer.broker_settlement_fee_bps <= caps.lender_broker
  /\ broker.interest_bps <= caps.borrower_broker
  /\ protocol.settlement + offer.broker_settlement_fee_bps <= BPS

LoanFees(offer, broker, protocol) ==
  [type \in FeeTypes |->
    CASE type = "PROTOCOL_FEE" ->
           [upfront_amount |-> Bps(offer.principal, protocol.upfront),
            interest_bps   |-> protocol.settlement,
            wallet         |-> protocol.wallet]
      [] type = "ORIGINATION_FEE" ->
           [upfront_amount |-> offer.origination_fee_amount,
            interest_bps   |-> 0,
            wallet         |-> offer.lender]
      [] type = "LENDER_BROKER_FEE" ->
           [upfront_amount |-> offer.broker_upfront_fee_amount,
            interest_bps   |-> offer.broker_settlement_fee_bps,
            wallet         |-> offer.broker_address]
      [] OTHER -> broker]

TotalUpfrontFees(fees) ==
    fees["PROTOCOL_FEE"].upfront_amount
  + fees["ORIGINATION_FEE"].upfront_amount
  + fees["LENDER_BROKER_FEE"].upfront_amount
  + fees["BORROWER_BROKER_FEE"].upfront_amount

\* What a new loan pays the borrower; the fees are subtracted first.
BorrowerProceedsDefined(offer, fees) == offer.principal >= TotalUpfrontFees(fees)

BorrowerProceeds(offer, fees) ==
  offer.principal - TotalUpfrontFees(fees) + offer.broker_upfront_fee_amount

\* Mutant: the lender pays its own origination fee.
NewLenderPaysAll(offer) == offer.principal + offer.broker_upfront_fee_amount

\* What the lender of a replacing loan pays: the principal but its own
\* origination fee, and its broker's upfront fee.
NewLenderPays(offer) ==
  offer.principal - offer.origination_fee_amount + offer.broker_upfront_fee_amount

----------------------------------------------------------------------------
(* Replacement by the borrower. *)

ReplaceBorrowerDelta(loan, offer, fees, interest) ==
    (offer.principal - loan.amount)
  - (TotalUpfrontFees(fees) + interest + BorrowerBrokerFee(loan, interest))
  + offer.broker_upfront_fee_amount

----------------------------------------------------------------------------
(* Replacement by the lender: the borrower is compensated with the larger   *)
(* of what the new terms may cost more and what the new principal lacks to   *)
(* pay the current loan off.                                                 *)

MaxInterestDeltaDefined(offer) == offer.pro_rata => offer.duration > 0

\* Mutant: only the interest due at the old maturity is compared.
InterestDeltaAtMaturity(loan, offer, interest, now) ==
  (IF offer.pro_rata
     THEN (offer.interest * (loan.maturity - now)) \div offer.duration
     ELSE offer.interest)
  - (loan.interest - interest)

MaxInterestDelta(loan, offer, interest, now) ==
  LET at_refinance == IF offer.pro_rata THEN 0 ELSE offer.interest
      saved == loan.interest - interest
      broker_saved ==
        IF offer.pro_rata
          THEN Bps(saved, loan.fees["BORROWER_BROKER_FEE"].interest_bps)
          ELSE 0
      at_maturity ==
        IF offer.pro_rata
          THEN (offer.interest * (loan.maturity - now)) \div offer.duration
          ELSE offer.interest
  IN  MaxOf(at_refinance, at_maturity - saved - broker_saved)

\* Mutant: a smaller principal is not made up for.
CompensationForInterest(loan, offer, interest, now) ==
  MaxInterestDelta(loan, offer, interest, now)

BorrowerCompensation(loan, offer, interest, now) ==
  MaxOf(MaxInterestDelta(loan, offer, interest, now),
        interest + BorrowerBrokerFee(loan, interest) - (offer.principal - loan.amount))

LenderReplaceBorrowerDelta(loan, offer, interest, now) ==
    (offer.principal - loan.amount) - interest - BorrowerBrokerFee(loan, interest)
  + BorrowerCompensation(loan, offer, interest, now)

\* Mutant: the compensation is not charged.
CurrentDeltaUncharged(loan, offer, fees, interest, now) ==
    (loan.amount + interest + BorrowerBrokerFee(loan, interest)
       + offer.broker_upfront_fee_amount)
  - (TotalUpfrontFees(fees) + SettlementFeesTotal(loan, interest))

LenderReplaceCurrentDelta(loan, offer, fees, interest, now) ==
    (loan.amount + interest + BorrowerBrokerFee(loan, interest)
       + offer.broker_upfront_fee_amount)
  - (TotalUpfrontFees(fees) + SettlementFeesTotal(loan, interest)
       + BorrowerCompensation(loan, offer, interest, now))
=============================================================================
