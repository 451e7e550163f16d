-------------------------- MODULE ReplacementCosts --------------------------
(***************************************************************************)
(* What it costs to replace a loan, and whom.  A behaviour fixes a running *)
(* loan and an offer that replaces it at time t, then lets time u pass     *)
(* from t to the maturity of the running loan, comparing what the borrower *)
(* would have paid for it with what the replacement costs.                 *)
(***************************************************************************)
EXTENDS LoanMath

CONSTANTS
  Principals,   \* amounts of the running loan and of the offer
  Interests,    \* interests of the running loan and of the offer
  Durations,    \* durations of the running loan
  FeeRates,     \* pairs <<protocol, lender broker>> of settlement bps
  BrokerRates,  \* settlement bps of the borrower's broker
  Extensions,   \* how far the offer matures beyond the running loan
  Upfronts,     \* triples <<protocol bps, origination, lender broker>> of the offer
  None

\* _get_loan_fees, "settlement fees gt principal", bounds the rates of the
\* protocol and the lender's broker together.
ASSUME ReplacementAssumption ==
  /\ Principals \subseteq Nat /\ Interests \subseteq Nat
  /\ Durations \subseteq Nat /\ Extensions \subseteq Nat
  /\ FeeRates \subseteq {rates \in Nat \X Nat : rates[1] + rates[2] <= BPS}
  /\ BrokerRates \subseteq Nat
  /\ Upfronts \subseteq Nat \X Nat \X Nat

VARIABLES loan, offer, t, u

vars == <<loan, offer, t, u>>

Fee(upfront, bps) == [upfront_amount |-> upfront, interest_bps |-> bps, wallet |-> "w"]

LoanWith(amount, interest, duration, pro_rata, rates, brate) ==
  [amount |-> amount, interest |-> interest, pro_rata |-> pro_rata,
   start_time |-> 0, maturity |-> duration,
   fees |-> [type \in FeeTypes |->
               Fee(0, CASE type = "PROTOCOL_FEE" -> rates[1]
                        [] type = "LENDER_BROKER_FEE" -> rates[2]
                        [] type = "BORROWER_BROKER_FEE" -> brate
                        [] OTHER -> 0)]]

OfferWith(principal, interest, duration, pro_rata, up) ==
  [principal |-> principal, interest |-> interest, duration |-> duration,
   pro_rata |-> pro_rata, origination_fee_amount |-> up[2],
   broker_upfront_fee_amount |-> up[3], broker_settlement_fee_bps |-> 0,
   broker_address |-> "w", lender |-> "l", protocol_upfront |-> up[1]]

NoBroker == [upfront_amount |-> 0, interest_bps |-> 0, wallet |-> None]

Init ==
  /\ \E a \in Principals, i \in Interests, d \in Durations, p \in BOOLEAN,
        rates \in FeeRates, brate \in BrokerRates :
       loan = LoanWith(a, i, d, p, rates, brate)
  /\ InterestDefined(loan)
  /\ t \in 0..loan.maturity
  /\ u = t
  \* An offer by which a lender may replace the loan does not mature before it.
  /\ \E a \in Principals, i \in Interests, extra \in Extensions, p \in BOOLEAN,
        up \in Upfronts :
       /\ up[2] <= a
       /\ offer = OfferWith(a, i, loan.maturity - t + extra, p, up)
  /\ MaxInterestDeltaDefined(offer)

Elapse ==
  /\ u < loan.maturity
  /\ u' = u + 1
  /\ UNCHANGED <<loan, offer, t>>

Spec == Init /\ [][Elapse]_vars

----------------------------------------------------------------------------
Fees == LoanFees(offer, NoBroker,
                 [upfront |-> offer.protocol_upfront, settlement |-> 0, wallet |-> "w"])

Interest == SettlementInterest(loan, t)

\* The replacing loan as it runs from t on.
NewInterest(time) ==
  IF offer.pro_rata THEN (offer.interest * (time - t)) \div offer.duration
                    ELSE offer.interest

\* What the running loan costs more when it is settled at `time` than at t.
OldInterestDelta(time) ==
  Repayment(loan, SettlementInterest(loan, time)) - Repayment(loan, Interest)

\* The reference for MaxInterestDelta: the extra cost at every moment up to
\* the maturity of the running loan.
ExtraCosts == {NewInterest(time) - OldInterestDelta(time) : time \in t..loan.maturity}

BorrowerDelta == LenderReplaceBorrowerDelta(loan, offer, Interest, t)

\* What the roundings of three quotients lose: two units, and one more for every
\* started whole of the rate of the borrower's broker.
Lost == 2 + (loan.fees["BORROWER_BROKER_FEE"].interest_bps + BPS - 1) \div BPS

\* _compute_max_interest_delta looks at two moments only, the replacement and
\* the maturity, and claims the maximum is at one of them: at every moment in
\* between the extra cost is no larger, up to what the roundings lose, and at
\* some moment it is as large, or the maximum is nothing.
MaxDeltaIsMaximal ==
  LET computed == MaxInterestDelta(loan, offer, Interest, t)
  IN  /\ \A cost \in ExtraCosts : cost <= computed + Lost
      /\ \E cost \in ExtraCosts : computed <= MaxOf(cost, 0) + 1

\* A lender that replaces a loan never takes money from the borrower
\* (replace_loan_lender asserts it), and what the borrower is handed covers
\* the new terms: at any moment up to the old maturity the new loan costs no
\* more to settle than the old one would have, up to what roundings lose.
BorrowerKeptWhole ==
  /\ BorrowerDelta >= 0
  /\ offer.principal + NewInterest(u) - BorrowerDelta
       <= Repayment(loan, SettlementInterest(loan, u)) + Lost

\* README, replace_loan_lender: "the borrowers repayment under the new
\* conditions is not higher than the original loan's conditions (up until the
\* original loan's maturity)", without an allowance for rounding.
BorrowerNeverPaysMore ==
  offer.principal + NewInterest(u) - BorrowerDelta
    <= Repayment(loan, SettlementInterest(loan, u))

\* A lender that replaces its loan by an offer of its own never takes money
\* out: "cant have lender delta > 0 and borrower delta >= 0".
SameLenderNeverReceives ==
  LenderReplaceCurrentDelta(loan, offer, Fees, Interest, t) <= NewLenderPays(offer)

\* In either replacement, what the parties pay in is what they take out.
ReplacementConserves ==
  LET upfront == TotalUpfrontFees(Fees) - offer.origination_fee_amount
      settled == SettlementFeesTotal(loan, Interest)
  IN  /\ NewLenderPays(offer)
           = LenderReplaceCurrentDelta(loan, offer, Fees, Interest, t)
             + BorrowerDelta + settled + upfront
      /\ NewLenderPays(offer)
           = LenderProceeds(loan, Interest)
             + ReplaceBorrowerDelta(loan, offer, Fees, Interest) + settled + upfront

\* The settlement fees never eat into the lender's principal, and the only
\* loan whose settlement reverts on the order of its subtractions is one whose
\* borrower's broker is due more than the principal.
LenderKeepsPrincipal ==
  LET interest == SettlementInterest(loan, u)
  IN  /\ LenderProceeds(loan, interest) >= loan.amount
      /\ BorrowerBrokerFee(loan, interest) <= loan.amount
           => LenderProceedsDefined(loan, interest)
=============================================================================
