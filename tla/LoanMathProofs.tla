--------------------------- MODULE LoanMathProofs ---------------------------
(***************************************************************************)
(* Facts about LoanMath for all amounts, rates and times.                  *)
(***************************************************************************)
EXTENDS LoanMath, TLAPS

\* The part of a loan that the arithmetic reads.
IsTerms(loan) ==
  /\ loan.amount \in Nat /\ loan.interest \in Nat
  /\ loan.start_time \in Nat /\ loan.maturity \in Nat
  /\ loan.pro_rata \in BOOLEAN
  /\ \A type \in FeeTypes : loan.fees[type].interest_bps \in Nat

IsOffer(offer) ==
  /\ offer.principal \in Nat /\ offer.interest \in Nat /\ offer.duration \in Nat
  /\ offer.origination_fee_amount \in Nat
  /\ offer.broker_upfront_fee_amount \in Nat
  /\ offer.pro_rata \in BOOLEAN

\* A product of naturals is a natural, and so is its quotient by a positive one.
LEMMA ProductNat == \A a, b \in Nat : a * b \in Nat
  OBVIOUS

LEMMA QuotientNat == \A a, d \in Nat : d > 0 => a \div d \in Nat
  OBVIOUS

\* A rate in basis points of an amount is a natural, and nothing at rate zero.
LEMMA BpsNat == \A a, b \in Nat : Bps(a, b) \in Nat /\ Bps(a, 0) = 0
<1> SUFFICES ASSUME NEW a \in Nat, NEW b \in Nat
             PROVE  Bps(a, b) \in Nat /\ Bps(a, 0) = 0
  OBVIOUS
<1>1. a * b \in Nat
  BY ProductNat
<1>2. (a * b) \div BPS \in Nat
  BY <1>1, QuotientNat DEF BPS
<1>3. a * 0 = 0 /\ 0 \div BPS = 0
  BY DEF BPS
<1> QED
  BY <1>2, <1>3 DEF Bps

\* Once it has started, a loan's interest is a natural.
LEMMA InterestNat ==
  ASSUME NEW loan, NEW now \in Nat,
         IsTerms(loan), loan.start_time <= now, InterestDefined(loan)
  PROVE  SettlementInterest(loan, now) \in Nat
<1>1. CASE ~loan.pro_rata
  BY <1>1 DEF SettlementInterest, IsTerms
<1>2. CASE loan.pro_rata
  <2>1. now - loan.start_time \in Nat /\ loan.maturity - loan.start_time \in Nat
        /\ loan.maturity - loan.start_time > 0
    BY <1>2 DEF InterestDefined, IsTerms
  <2>2. loan.interest * (now - loan.start_time) \in Nat
    BY <2>1, ProductNat DEF IsTerms
  <2>3. (loan.interest * (now - loan.start_time))
           \div (loan.maturity - loan.start_time) \in Nat
    BY <2>1, <2>2, QuotientNat
  <2> QED
    BY <1>2, <2>3 DEF SettlementInterest
<1> QED
  BY <1>1, <1>2 DEF IsTerms

\* Every settlement fee is a natural.
LEMMA SettlementFeeNat ==
  ASSUME NEW loan, IsTerms(loan), NEW interest \in Nat, NEW type \in FeeTypes
  PROVE  SettlementFee(loan, interest, type) \in Nat
  BY BpsNat DEF SettlementFee, IsTerms

\* _get_settlement_fees: as long as the shares of the protocol and of the
\* lender's broker are no more than the whole, the lender of a settled loan
\* receives at least its principal.
THEOREM LenderKeepsPrincipalTheorem ==
  ASSUME NEW loan, IsTerms(loan), NEW interest \in Nat,
         loan.fees["PROTOCOL_FEE"].interest_bps
           + loan.fees["LENDER_BROKER_FEE"].interest_bps <= BPS
  PROVE  LenderProceeds(loan, interest) >= loan.amount
<1> DEFINE p == loan.fees["PROTOCOL_FEE"].interest_bps
           l == loan.fees["LENDER_BROKER_FEE"].interest_bps
<1>1. p \in Nat /\ l \in Nat /\ p + l <= 10000
  BY DEF IsTerms, FeeTypes, BPS
<1>2. interest * p + interest * l <= interest * 10000
  <2> HIDE DEF p, l
  <2>1. PICK rest \in Nat : p + l + rest = 10000
    <3>1. 10000 - (p + l) \in Nat
      BY <1>1
    <3> QED
      BY <1>1, <3>1
  <2>2. interest * (p + l + rest) = interest * p + interest * l + interest * rest
    BY <1>1, <2>1
  <2>3. interest * rest \in Nat /\ interest * p \in Nat /\ interest * l \in Nat
    BY <1>1, ProductNat
  <2> QED
    BY <2>1, <2>2, <2>3
<1>3. Bps(interest, p) + Bps(interest, l) <= interest
  <2> DEFINE x == interest * p
             y == interest * l
  <2>1. x \in Nat /\ y \in Nat /\ x + y <= interest * 10000
    BY <1>1, <1>2, ProductNat
  <2> HIDE DEF x, y
  <2>2. x \div 10000 + y \div 10000 <= interest
    BY <2>1
  <2> QED
    BY <2>2 DEF x, y, Bps, BPS
<1>4. /\ SettlementFee(loan, interest, "PROTOCOL_FEE") = Bps(interest, p)
      /\ SettlementFee(loan, interest, "LENDER_BROKER_FEE") = Bps(interest, l)
  BY DEF SettlementFee
<1>5. \A type \in FeeTypes : SettlementFee(loan, interest, type) \in Nat
  BY SettlementFeeNat
<1> HIDE DEF p, l
<1> QED
  BY <1>3, <1>4, <1>5 DEF LenderProceeds, SettlementFeesTotal, BorrowerBrokerFee,
     IsTerms, FeeTypes

\* replace_loan_lender: what is handed to the borrower is never negative, so
\* the assertion "borrower delta < 0" cannot fail and no money is asked of it.
THEOREM BorrowerNeverPaysOnLenderReplace ==
  ASSUME NEW loan, NEW offer, IsTerms(loan), IsOffer(offer), NEW interest \in Nat, NEW now \in Nat,
         MaxInterestDelta(loan, offer, interest, now) \in Int
  PROVE  LenderReplaceBorrowerDelta(loan, offer, interest, now) >= 0
<1>1. BorrowerBrokerFee(loan, interest) \in Nat
  BY SettlementFeeNat DEF BorrowerBrokerFee, FeeTypes
<1> DEFINE delta == MaxInterestDelta(loan, offer, interest, now)
           due == interest + BorrowerBrokerFee(loan, interest) - (offer.principal - loan.amount)
<1>2. due \in Int /\ delta \in Int
  BY <1>1 DEF IsTerms, IsOffer
<1>3. MaxOf(delta, due) >= due
  <2> HIDE DEF delta, due
  <2> QED
    BY <1>2 DEF MaxOf
<1>4. MaxOf(delta, due) \in Int
  <2> HIDE DEF delta, due
  <2> QED
    BY <1>2 DEF MaxOf
<1> QED
  BY <1>1, <1>3, <1>4 DEF LenderReplaceBorrowerDelta, BorrowerCompensation, IsTerms, IsOffer

\* The computed maximum is a number whenever the code can compute it.
LEMMA MaxInterestDeltaInt ==
  ASSUME NEW loan, NEW offer, IsTerms(loan), IsOffer(offer), MaxInterestDeltaDefined(offer),
         NEW interest \in Nat, NEW now \in Nat
  PROVE  MaxInterestDelta(loan, offer, interest, now) \in Int
<1> DEFINE rate == loan.fees["BORROWER_BROKER_FEE"].interest_bps
           saved == loan.interest - interest
           broker_saved == IF offer.pro_rata THEN Bps(saved, rate) ELSE 0
           at_maturity == IF offer.pro_rata
                            THEN (offer.interest * (loan.maturity - now)) \div offer.duration
                            ELSE offer.interest
           at_refinance == IF offer.pro_rata THEN 0 ELSE offer.interest
<1>1. saved \in Int /\ rate \in Nat /\ at_refinance \in Int
  BY DEF IsTerms, IsOffer, FeeTypes
<1>2. broker_saved \in Int
  <2>1. saved * rate \in Int
    BY <1>1
  <2>2. (saved * rate) \div 10000 \in Int
    BY <2>1
  <2> QED
    BY <2>2 DEF Bps, BPS
<1>3. at_maturity \in Int
  <2>1. CASE ~offer.pro_rata
    BY <2>1 DEF IsOffer
  <2>2. CASE offer.pro_rata
    <3>1. offer.interest * (loan.maturity - now) \in Int
      BY DEF IsOffer, IsTerms
    <3>2. offer.duration \in Nat /\ offer.duration > 0
      BY <2>2 DEF IsOffer, MaxInterestDeltaDefined
    <3> QED
      BY <2>2, <3>1, <3>2
  <2> QED
    BY <2>1, <2>2 DEF IsOffer
<1>4. MaxInterestDelta(loan, offer, interest, now)
        = MaxOf(at_refinance, at_maturity - saved - broker_saved)
  BY DEF MaxInterestDelta
<1> HIDE DEF at_refinance, at_maturity, saved, broker_saved
<1> QED
  BY <1>1, <1>2, <1>3, <1>4 DEF MaxOf

\* What a replacement pays out in fees: the settlement fees of the current
\* loan and the upfront fees of the new one, but the lender's own.
Spent(loan, fees, interest) ==
  SettlementFeesTotal(loan, interest)
    + (fees["PROTOCOL_FEE"].upfront_amount
       + fees["LENDER_BROKER_FEE"].upfront_amount
       + fees["BORROWER_BROKER_FEE"].upfront_amount)

\* What a replacement of either kind takes in is what it pays out: the new
\* lender's payment covers the current lender, the borrower, the settlement
\* fees of the current loan and the upfront fees of the new one.
THEOREM ReplacementConservesTheorem ==
  ASSUME NEW loan, NEW offer, NEW fees, IsTerms(loan), IsOffer(offer),
         NEW interest \in Nat, NEW now \in Nat,
         \A type \in FeeTypes : fees[type].upfront_amount \in Nat,
         fees["ORIGINATION_FEE"].upfront_amount = offer.origination_fee_amount,
         MaxInterestDelta(loan, offer, interest, now) \in Int
  PROVE  /\ NewLenderPays(offer)
              = LenderProceeds(loan, interest)
                + ReplaceBorrowerDelta(loan, offer, fees, interest)
                + Spent(loan, fees, interest)
         /\ NewLenderPays(offer)
              = LenderReplaceCurrentDelta(loan, offer, fees, interest, now)
                + LenderReplaceBorrowerDelta(loan, offer, interest, now)
                + Spent(loan, fees, interest)
<1>1. \A type \in FeeTypes : SettlementFee(loan, interest, type) \in Nat
  BY SettlementFeeNat
<1>2. BorrowerCompensation(loan, offer, interest, now) \in Int
  <2> DEFINE delta == MaxInterestDelta(loan, offer, interest, now)
             due == interest + BorrowerBrokerFee(loan, interest)
                      - (offer.principal - loan.amount)
  <2>1. delta \in Int /\ due \in Int
    BY <1>1 DEF BorrowerBrokerFee, FeeTypes, IsTerms, IsOffer
  <2>2. BorrowerCompensation(loan, offer, interest, now) = MaxOf(delta, due)
    BY DEF BorrowerCompensation
  <2> HIDE DEF delta, due
  <2> QED
    BY <2>1, <2>2 DEF MaxOf
<1> QED
  BY <1>1, <1>2 DEF NewLenderPays, LenderProceeds, ReplaceBorrowerDelta,
     LenderReplaceCurrentDelta, LenderReplaceBorrowerDelta, SettlementFeesTotal,
     BorrowerBrokerFee, TotalUpfrontFees, FeeTypes, IsTerms, IsOffer, Spent

\* replace_loan_lender, "cant have lender delta > 0 and borrower delta >= 0":
\* a lender that replaces its own loan never takes money out.
THEOREM SameLenderNeverReceivesTheorem ==
  ASSUME NEW loan, NEW offer, NEW fees, IsTerms(loan), IsOffer(offer),
         MaxInterestDeltaDefined(offer), NEW interest \in Nat, NEW now \in Nat,
         \A type \in FeeTypes : fees[type].upfront_amount \in Nat,
         fees["ORIGINATION_FEE"].upfront_amount = offer.origination_fee_amount
  PROVE  LenderReplaceCurrentDelta(loan, offer, fees, interest, now)
           <= NewLenderPays(offer)
<1>1. MaxInterestDelta(loan, offer, interest, now) \in Int
  BY MaxInterestDeltaInt
<1>2. LenderReplaceBorrowerDelta(loan, offer, interest, now) >= 0
  BY <1>1, BorrowerNeverPaysOnLenderReplace
<1>3. \A type \in FeeTypes : SettlementFee(loan, interest, type) \in Nat
  BY SettlementFeeNat
<1>4. /\ SettlementFeesTotal(loan, interest) \in Nat
      /\ BorrowerBrokerFee(loan, interest) \in Nat
  BY <1>3 DEF SettlementFeesTotal, BorrowerBrokerFee, FeeTypes
<1>5. BorrowerCompensation(loan, offer, interest, now) \in Int
  <2> DEFINE delta == MaxInterestDelta(loan, offer, interest, now)
             due == interest + BorrowerBrokerFee(loan, interest)
                      - (offer.principal - loan.amount)
  <2>1. delta \in Int /\ due \in Int
    BY <1>1, <1>4 DEF IsTerms, IsOffer
  <2>2. BorrowerCompensation(loan, offer, interest, now) = MaxOf(delta, due)
    BY DEF BorrowerCompensation
  <2> HIDE DEF delta, due
  <2> QED
    BY <2>1, <2>2 DEF MaxOf
<1> QED
  BY <1>2, <1>4, <1>5 DEF NewLenderPays, LenderReplaceCurrentDelta,
     LenderReplaceBorrowerDelta, TotalUpfrontFees, FeeTypes, IsTerms, IsOffer
=============================================================================
