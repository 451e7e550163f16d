----------------------- MODULE ReplacementCostsProofs -----------------------
(***************************************************************************)
(* What a replacement costs, for all amounts, rates, durations and moments.*)
(*                                                                         *)
(* The interests of both loans and the broker's share grow on lines, each  *)
(* rounded down.  The extra cost of the new loan is the difference of two  *)
(* lines: it is nothing or less at every moment when the new one is no     *)
(* steeper (FlatCost), and largest at the old maturity when it is          *)
(* (SteepCost); three roundings lose less than three units and the         *)
(* broker's rate, whichever it is.                                         *)
(***************************************************************************)
EXTENDS ReplacementCosts, LoanMathProofs

\* A quotient and what it leaves.
LEMMA Quotient ==
  ASSUME NEW a \in Int, NEW d \in Nat, d > 0
  PROVE  a \div d \in Int /\ d * (a \div d) <= a /\ a <= d * (a \div d) + d - 1
  OBVIOUS

LEMMA MultipliedLeq ==
  ASSUME NEW a \in Int, NEW b \in Int, NEW c \in Nat, a <= b
  PROVE  a * c <= b * c
  OBVIOUS

LEMMA DividedLess ==
  ASSUME NEW a \in Int, NEW b \in Int, NEW c \in Nat, a * c < b * c
  PROVE  a < b
  OBVIOUS

LEMMA QuotientMonotone ==
  ASSUME NEW a \in Int, NEW b \in Int, NEW d \in Nat, d > 0, a <= b
  PROVE  a \div d <= b \div d
<1>1. d * (a \div d) <= a /\ a <= b /\ b <= d * (b \div d) + d - 1
  BY Quotient
<1>2. (a \div d) * d < (b \div d + 1) * d
  BY <1>1, Quotient
<1>3. a \div d < b \div d + 1
  BY <1>2, Quotient, DividedLess
<1> QED
  BY <1>3, Quotient

LEMMA Exact ==
  ASSUME NEW a \in Int, NEW d \in Nat, d > 0
  PROVE  (a * d) \div d = a
  OBVIOUS

----------------------------------------------------------------------------
(* The interest of a loan grows on a line, and so does its broker's fee.     *)

\* Interest s1 and s2 at two moments and the shares f1 and f2 of it: how much
\* more both are at the second one, but for what the roundings lose.
LEMMA GrowthAtLeast ==
  ASSUME NEW P \in Nat, NEW D \in Nat \ {0}, NEW a \in Nat, NEW B \in Nat \ {0},
         NEW t1 \in Nat, NEW t2 \in Nat,
         NEW s1 \in Int, NEW s2 \in Int, NEW f1 \in Int, NEW f2 \in Int,
         D * s1 <= P * t1, P * t2 <= D * s2 + D - 1,
         B * f1 <= s1 * a, s2 * a <= B * f2 + B - 1
  PROVE  (P * (t2 - t1) - D + 1) * (B + a) - D * (B - 1) <= D * (B * (s2 - s1 + f2 - f1))
<1> DEFINE growth == s2 - s1 + f2 - f1
<1>1. (s2 - s1) * (B + a) - (B - 1) <= B * growth
  OBVIOUS
<1>2. P * (t2 - t1) - D + 1 <= (s2 - s1) * D
  OBVIOUS
<1>3. (P * (t2 - t1) - D + 1) * (B + a) <= ((s2 - s1) * D) * (B + a)
  <2>1. B + a \in Nat /\ P * (t2 - t1) - D + 1 \in Int /\ (s2 - s1) * D \in Int
    OBVIOUS
  <2> QED
    BY <1>2, <2>1, MultipliedLeq
<1>4. ((s2 - s1) * (B + a) - (B - 1)) * D <= (B * growth) * D
  <2>1. (s2 - s1) * (B + a) - (B - 1) \in Int /\ B * growth \in Int
    OBVIOUS
  <2> QED
    BY <1>1, <2>1, MultipliedLeq
<1> QED
  BY <1>3, <1>4

\* An offer that grows no faster than the loan and its broker's fee together costs
\* nothing more at any moment x after the replacement, but for the roundings.
LEMMA FlatCost ==
  ASSUME NEW P \in Nat, NEW D \in Nat \ {0}, NEW a \in Nat, NEW B \in Nat \ {0},
         NEW I \in Nat, NEW d \in Nat \ {0}, NEW x \in Nat, NEW n \in Int, NEW k \in Int,
         d * n <= I * x,
         (P * x - D + 1) * (B + a) - D * (B - 1) <= D * (B * k),
         (I * D) * B <= (P * d) * (B + a)
  PROVE  B * (n - k) < 3 * B + a
<1>1. (d * n) * (D * B) <= (I * x) * (D * B)
  BY MultipliedLeq
<1>2. ((I * D) * B) * x <= ((P * d) * (B + a)) * x
  BY MultipliedLeq
<1>3. ((P * x - D + 1) * (B + a) - D * (B - 1)) * d <= (D * (B * k)) * d
  BY MultipliedLeq
<1>4. (B * (n - k)) * (d * D) <= ((D - 1) * (B + a) + D * (B - 1)) * d
  BY <1>1, <1>2, <1>3
<1>5. (D - 1) * (B + a) + D * (B - 1) < D * (3 * B + a)
  OBVIOUS
<1>6. ((D - 1) * (B + a) + D * (B - 1)) * d < (D * (3 * B + a)) * d
  BY <1>5
<1>7. (B * (n - k)) * (d * D) < (3 * B + a) * (d * D)
  BY <1>4, <1>6
<1> QED
  BY <1>7, DividedLess

\* One that grows faster costs most y moments later, at the maturity of the loan,
\* where its interest is n2 and what is saved is m, but for the roundings.
LEMMA SteepCost ==
  ASSUME NEW P \in Nat, NEW D \in Nat \ {0}, NEW a \in Nat, NEW B \in Nat \ {0},
         NEW I \in Nat, NEW d \in Nat \ {0}, NEW x \in Nat, NEW y \in Nat,
         NEW n \in Int, NEW n2 \in Int, NEW k \in Int, NEW m \in Int,
         d * n <= I * x, I * (x + y) <= d * n2 + d - 1,
         D * (B * (m - k)) <= (P * y + D - 1) * (B + a) + D * (B - 1),
         (P * d) * (B + a) <= (I * D) * B
  PROVE  B * (n - k - (n2 - m)) < 3 * B + a
<1>1. d * (n - n2) <= d - 1 - I * y
  OBVIOUS
<1>2. (d * (n - n2)) * (D * B) <= (d - 1 - I * y) * (D * B)
  BY <1>1, MultipliedLeq
<1>3. ((P * d) * (B + a)) * y <= ((I * D) * B) * y
  BY MultipliedLeq
<1>4. (D * (B * (m - k))) * d <= ((P * y + D - 1) * (B + a) + D * (B - 1)) * d
  BY MultipliedLeq
<1>5. (B * (n - k - (n2 - m))) * (d * D)
        <= (d - 1) * (D * B) + ((D - 1) * (B + a) + D * (B - 1)) * d
  BY <1>2, <1>3, <1>4
<1>6. (d - 1) * (D * B) + ((D - 1) * (B + a) + D * (B - 1)) * d < (3 * B + a) * (d * D)
  OBVIOUS
<1>7. (B * (n - k - (n2 - m))) * (d * D) < (3 * B + a) * (d * D)
  BY <1>5, <1>6
<1> QED
  BY <1>7, DividedLess

\* What is left of the loan's cost, when s2 is its interest y moments before its
\* maturity, k what has grown since s1, and f the share of all that is saved.
LEMMA RestAtMost ==
  ASSUME NEW P \in Nat, NEW D \in Nat \ {0}, NEW a \in Nat, NEW B \in Nat \ {0},
         NEW y \in Nat, NEW s1 \in Int, NEW s2 \in Int, NEW k \in Int, NEW f \in Int,
         P * (D - y) <= D * s2 + D - 1,
         (s2 - s1) * (B + a) - (B - 1) <= B * k,
         B * f <= (P - s1) * a
  PROVE  D * (B * (P - s1 + f - k)) <= (P * y + D - 1) * (B + a) + D * (B - 1)
<1>1. (P - s2) * D <= P * y + D - 1
  OBVIOUS
<1>2. ((P - s2) * D) * (B + a) <= (P * y + D - 1) * (B + a)
  BY <1>1, MultipliedLeq
<1>3. B * (P - s1 + f - k) <= (P - s2) * (B + a) + B - 1
  OBVIOUS
<1>4. (B * (P - s1 + f - k)) * D <= ((P - s2) * (B + a) + B - 1) * D
  BY <1>3, MultipliedLeq
<1> QED
  BY <1>2, <1>4

\* Three roundings, and a part of the rate's.
LEMMA LostInUnits ==
  ASSUME NEW a \in Nat, NEW B \in Nat \ {0}, NEW c \in Int, B * c < 3 * B + a
  PROVE  c <= 2 + (a + B - 1) \div B
<1> DEFINE q == (a + B - 1) \div B
<1>1. q \in Int /\ a <= B * q
  <2>1. a + B - 1 \in Int /\ B \in Nat /\ B > 0
    OBVIOUS
  <2> QED
    BY <2>1, Quotient
<1> HIDE DEF q
<1>2. c * B < (3 + q) * B
  BY <1>1
<1>3. c < 3 + q
  BY <1>1, <1>2, DividedLess
<1>4. c <= 2 + q
  BY <1>1, <1>3
<1> QED
  BY <1>4 DEF q

----------------------------------------------------------------------------
(* The invariant. *)

Terms ==
  /\ IsTerms(loan) /\ loan.start_time = 0 /\ InterestDefined(loan)
  /\ loan.fees["PROTOCOL_FEE"].interest_bps
       + loan.fees["LENDER_BROKER_FEE"].interest_bps <= BPS
  /\ IsOffer(offer) /\ offer.protocol_upfront \in Nat /\ MaxInterestDeltaDefined(offer)
  /\ t \in Nat /\ u \in Nat /\ t <= u /\ u <= loan.maturity

LEMMA LoanWithTyped ==
  ASSUME NEW amount \in Nat, NEW interest \in Nat, NEW duration \in Nat, NEW p \in BOOLEAN,
         NEW rates \in FeeRates, NEW brate \in BrokerRates,
         NEW l, l = LoanWith(amount, interest, duration, p, rates, brate)
  PROVE  /\ IsTerms(l) /\ l.start_time = 0 /\ l.maturity = duration
         /\ l.fees["PROTOCOL_FEE"].interest_bps
              + l.fees["LENDER_BROKER_FEE"].interest_bps <= BPS
<1>1. rates[1] \in Nat /\ rates[2] \in Nat /\ rates[1] + rates[2] <= BPS /\ brate \in Nat
  BY ReplacementAssumption
<1>2. /\ l.fees["PROTOCOL_FEE"].interest_bps = rates[1]
      /\ l.fees["LENDER_BROKER_FEE"].interest_bps = rates[2]
      /\ l.fees["BORROWER_BROKER_FEE"].interest_bps = brate
      /\ l.fees["ORIGINATION_FEE"].interest_bps = 0
  BY DEF LoanWith, Fee, FeeTypes
<1>3. /\ l.amount = amount /\ l.interest = interest /\ l.pro_rata = p
      /\ l.start_time = 0 /\ l.maturity = duration
  BY DEF LoanWith
<1> QED
  BY <1>1, <1>2, <1>3 DEF IsTerms, FeeTypes

\* The terms of every behaviour are those create_loan admits, and its moments lie
\* between the replacement and the old maturity.
THEOREM TermsTheorem == Spec => []Terms
<1>1. ASSUME Init PROVE Terms
  <2>1. PICK a \in Principals, i \in Interests, d \in Durations, p \in BOOLEAN,
             rates \in FeeRates, brate \in BrokerRates :
          loan = LoanWith(a, i, d, p, rates, brate)
    BY <1>1 DEF Init
  <2>2. PICK a2 \in Principals, i2 \in Interests, extra \in Extensions, p2 \in BOOLEAN,
             up \in Upfronts :
          offer = OfferWith(a2, i2, loan.maturity - t + extra, p2, up)
    BY <1>1 DEF Init
  <2>3. /\ IsTerms(loan) /\ loan.start_time = 0 /\ loan.maturity \in Nat
        /\ loan.fees["PROTOCOL_FEE"].interest_bps
             + loan.fees["LENDER_BROKER_FEE"].interest_bps <= BPS
    <3>1. a \in Nat /\ i \in Nat /\ d \in Nat
      BY ReplacementAssumption
    <3> QED
      BY <2>1, <3>1, LoanWithTyped
  <2>4. /\ InterestDefined(loan) /\ MaxInterestDeltaDefined(offer)
        /\ t \in 0..loan.maturity /\ u = t
    BY <1>1 DEF Init
  <2>5. IsOffer(offer) /\ offer.protocol_upfront \in Nat
    <3>1. /\ up[1] \in Nat /\ up[2] \in Nat /\ up[3] \in Nat /\ a2 \in Nat /\ i2 \in Nat
          /\ loan.maturity - t + extra \in Nat
      BY <2>3, <2>4, ReplacementAssumption
    <3> QED
      BY <2>2, <3>1 DEF OfferWith, IsOffer
  <2> QED
    BY <2>3, <2>4, <2>5 DEF Terms
<1>2. ASSUME Terms, [Elapse]_vars PROVE Terms'
  <2>1. CASE Elapse
    <3>1. /\ UNCHANGED <<loan, offer, t>> /\ u' = u + 1 /\ u < loan.maturity
          /\ loan.maturity \in Nat
      BY <1>2, <2>1 DEF Elapse, Terms, IsTerms
    <3> QED
      BY <1>2, <3>1 DEF Terms
  <2>2. CASE UNCHANGED vars
    BY <1>2, <2>2 DEF vars, Terms
  <2> QED
    BY <1>2, <2>1, <2>2
<1> QED
  BY <1>1, <1>2, PTL DEF Spec

----------------------------------------------------------------------------
(* The costs. *)

Settled(time) == SettlementInterest(loan, time)

BrokerRate == loan.fees["BORROWER_BROKER_FEE"].interest_bps

LEMMA RateNat == Terms => BrokerRate \in Nat
  BY DEF Terms, IsTerms, BrokerRate, FeeTypes

LEMMA BrokerFeeIs ==
  ASSUME Terms, NEW interest \in Nat
  PROVE  /\ BorrowerBrokerFee(loan, interest) = Bps(interest, BrokerRate)
         /\ BorrowerBrokerFee(loan, interest) \in Nat
         /\ BPS * Bps(interest, BrokerRate) <= interest * BrokerRate
         /\ interest * BrokerRate <= BPS * Bps(interest, BrokerRate) + BPS - 1
<1>1. interest * BrokerRate \in Nat
  BY RateNat
<1>2. BorrowerBrokerFee(loan, interest) = Bps(interest, BrokerRate)
  BY DEF BorrowerBrokerFee, SettlementFee, BrokerRate
<1>3. Bps(interest, BrokerRate) \in Nat
  BY RateNat, BpsNat
<1>4. BPS \in Nat /\ BPS > 0
  BY DEF BPS
<1> QED
  BY <1>1, <1>2, <1>3, <1>4, Quotient DEF Bps

\* The interest at a moment of the loan's time.
LEMMA SettledIs ==
  ASSUME Terms, NEW time \in Nat, time <= loan.maturity
  PROVE  /\ Settled(time) \in Nat
         /\ loan.pro_rata =>
              /\ loan.maturity * Settled(time) <= loan.interest * time
              /\ loan.interest * time <= loan.maturity * Settled(time) + loan.maturity - 1
         /\ ~loan.pro_rata => Settled(time) = loan.interest
         /\ Settled(time) <= loan.interest
         /\ Settled(loan.maturity) = loan.interest
<1>1. /\ loan.interest \in Nat /\ loan.maturity \in Nat /\ loan.start_time = 0
      /\ loan.pro_rata \in BOOLEAN
      /\ IsTerms(loan) /\ InterestDefined(loan)
  BY DEF Terms, IsTerms
<1>2. Settled(time) \in Nat
  BY <1>1, InterestNat DEF Settled
<1>3. ASSUME loan.pro_rata
      PROVE  /\ loan.maturity > 0
             /\ \A moment \in Nat : Settled(moment) = (loan.interest * moment) \div loan.maturity
  BY <1>1, <1>3 DEF InterestDefined, Settled, SettlementInterest
<1>4. ASSUME ~loan.pro_rata
      PROVE  \A moment : Settled(moment) = loan.interest
  BY <1>4 DEF Settled, SettlementInterest
<1>5. ASSUME loan.pro_rata
      PROVE  /\ loan.maturity * Settled(time) <= loan.interest * time
             /\ loan.interest * time <= loan.maturity * Settled(time) + loan.maturity - 1
             /\ Settled(loan.maturity) = loan.interest
             /\ Settled(time) <= loan.interest
  <2> DEFINE now == loan.interest * time
             all == loan.interest * loan.maturity
  <2>1. now \in Nat /\ all \in Nat /\ now <= all
    BY <1>1
  <2>2. /\ Settled(time) = now \div loan.maturity /\ Settled(loan.maturity) = all \div loan.maturity
        /\ loan.maturity \in Nat /\ loan.maturity > 0
    BY <1>1, <1>3, <1>5
  <2>3. all \div loan.maturity = loan.interest
    BY <1>1, <2>2, Exact
  <2> HIDE DEF now, all
  <2>4. /\ now \div loan.maturity <= all \div loan.maturity
        /\ loan.maturity * (now \div loan.maturity) <= now
        /\ now <= loan.maturity * (now \div loan.maturity) + loan.maturity - 1
    <3>1. now \in Int /\ all \in Int
      BY <2>1
    <3> QED
      BY <2>1, <2>2, <3>1, Quotient, QuotientMonotone
  <2> QED
    BY <2>2, <2>3, <2>4 DEF now
<1> QED
  BY <1>1, <1>2, <1>4, <1>5

\* The extra cost of the new loan at a moment, in these terms.
LEMMA ExtraCostIs ==
  ASSUME Terms, NEW time \in Nat, t <= time, time <= loan.maturity
  PROVE  /\ OldInterestDelta(time)
              = Settled(time) - Settled(t)
                + Bps(Settled(time), BrokerRate) - Bps(Settled(t), BrokerRate)
         /\ OldInterestDelta(time) \in Int
<1>1. Settled(time) \in Nat /\ Settled(t) \in Nat /\ t \in Nat /\ t <= loan.maturity
  <2>1. t \in Nat /\ t <= loan.maturity
    BY DEF Terms, IsTerms
  <2> QED
    BY <2>1, SettledIs
<1>2. /\ BorrowerBrokerFee(loan, Settled(time)) = Bps(Settled(time), BrokerRate)
      /\ BorrowerBrokerFee(loan, Settled(t)) = Bps(Settled(t), BrokerRate)
      /\ BorrowerBrokerFee(loan, Settled(time)) \in Nat
      /\ BorrowerBrokerFee(loan, Settled(t)) \in Nat
  BY <1>1, BrokerFeeIs
<1>3. OldInterestDelta(time)
        = (loan.amount + Settled(time) + BorrowerBrokerFee(loan, Settled(time)))
          - (loan.amount + Settled(t) + BorrowerBrokerFee(loan, Settled(t)))
  BY DEF OldInterestDelta, Repayment, Settled, Interest
<1>4. loan.amount \in Nat
  BY DEF Terms, IsTerms
<1> QED
  BY <1>1, <1>2, <1>3, <1>4

\* A loan costs more the later it is settled.
LEMMA OldInterestDeltaNat ==
  ASSUME Terms, NEW time \in Nat, t <= time, time <= loan.maturity
  PROVE  OldInterestDelta(time) \in Nat
<1>1. /\ t \in Nat /\ t <= loan.maturity /\ BrokerRate \in Nat
      /\ loan.interest \in Nat /\ loan.maturity \in Nat /\ loan.pro_rata \in BOOLEAN
      /\ loan.pro_rata => loan.maturity > 0
      /\ loan.start_time = 0
  BY RateNat DEF Terms, IsTerms, InterestDefined
<1>2. Settled(t) \in Nat /\ Settled(time) \in Nat
  BY <1>1, SettledIs
<1>3. Settled(t) <= Settled(time)
  <2>1. CASE ~loan.pro_rata
    BY <1>1, <1>2, <2>1, SettledIs
  <2>2. CASE loan.pro_rata
    <3> DEFINE early == loan.interest * t
               late == loan.interest * time
    <3>1. early \in Int /\ late \in Int /\ early <= late
      BY <1>1
    <3>2. Settled(t) = early \div loan.maturity /\ Settled(time) = late \div loan.maturity
      BY <1>1, <2>2 DEF Settled, SettlementInterest
    <3> HIDE DEF early, late
    <3> QED
      BY <1>1, <2>2, <3>1, <3>2, QuotientMonotone
  <2> QED
    BY <1>1, <2>1, <2>2
<1>4. Bps(Settled(t), BrokerRate) <= Bps(Settled(time), BrokerRate)
  <2> DEFINE early == Settled(t) * BrokerRate
             late == Settled(time) * BrokerRate
  <2>1. early \in Int /\ late \in Int /\ early <= late
    BY <1>1, <1>2, <1>3
  <2>2. BPS \in Nat /\ BPS > 0
    BY DEF BPS
  <2> HIDE DEF early, late
  <2>3. early \div BPS <= late \div BPS
    BY <2>1, <2>2, QuotientMonotone
  <2> QED
    BY <2>3 DEF early, late, Bps
<1>5. Bps(Settled(t), BrokerRate) \in Nat /\ Bps(Settled(time), BrokerRate) \in Nat
  BY <1>1, <1>2, BpsNat
<1> QED
  BY <1>2, <1>3, <1>4, <1>5, ExtraCostIs

\* The interest of the offer, had it run since the replacement.
LEMMA NewInterestIs ==
  ASSUME Terms, NEW time \in Nat, t <= time, time <= loan.maturity
  PROVE  /\ NewInterest(time) \in Nat
         /\ offer.pro_rata =>
              /\ offer.duration * NewInterest(time) <= offer.interest * (time - t)
              /\ offer.interest * (time - t)
                   <= offer.duration * NewInterest(time) + offer.duration - 1
              /\ NewInterest(time) <= NewInterest(loan.maturity)
         /\ ~offer.pro_rata => NewInterest(time) = offer.interest
<1>1. /\ t \in Nat /\ loan.maturity \in Nat
      /\ offer.interest \in Nat /\ offer.duration \in Nat /\ offer.pro_rata \in BOOLEAN
      /\ offer.pro_rata => offer.duration > 0
  BY DEF Terms, IsTerms, IsOffer, MaxInterestDeltaDefined
<1>2. CASE offer.pro_rata
  <2> DEFINE now == offer.interest * (time - t)
             all == offer.interest * (loan.maturity - t)
  <2>1. now \in Nat /\ all \in Nat /\ now <= all
    <3>1. time - t \in Nat /\ loan.maturity - t \in Nat
      BY <1>1
    <3> QED
      BY <1>1, <3>1
  <2>2. /\ NewInterest(time) = now \div offer.duration
        /\ NewInterest(loan.maturity) = all \div offer.duration
    BY <1>2 DEF NewInterest
  <2> HIDE DEF now, all
  <2>3. /\ now \div offer.duration \in Nat
        /\ now \div offer.duration <= all \div offer.duration
        /\ offer.duration * (now \div offer.duration) <= now
        /\ now <= offer.duration * (now \div offer.duration) + offer.duration - 1
    <3>1. now \in Int /\ all \in Int
      BY <2>1
    <3> QED
      BY <1>1, <1>2, <2>1, <3>1, QuotientNat, Quotient, QuotientMonotone
  <2> QED
    BY <1>2, <2>2, <2>3 DEF now
<1>3. CASE ~offer.pro_rata
  BY <1>1, <1>3 DEF NewInterest
<1> QED
  BY <1>1, <1>2, <1>3

Computed == MaxInterestDelta(loan, offer, Interest, t)

Saved == loan.interest - Settled(t)

\* The two moments that _compute_max_interest_delta compares.
LEMMA ComputedIs ==
  ASSUME Terms
  PROVE  /\ ~offer.pro_rata =>
              Computed = MaxOf(offer.interest, offer.interest - Saved)
         /\ offer.pro_rata =>
              Computed = MaxOf(0, NewInterest(loan.maturity) - Saved - Bps(Saved, BrokerRate))
         /\ Saved \in Nat /\ Bps(Saved, BrokerRate) \in Nat
<1>1. t \in Nat /\ t <= loan.maturity /\ loan.interest \in Nat /\ offer.interest \in Nat
  BY DEF Terms, IsTerms, IsOffer
<1>2. Settled(t) \in Nat /\ Settled(t) <= loan.interest
  BY <1>1, SettledIs
<1>3. Saved \in Nat
  BY <1>1, <1>2 DEF Saved
<1>4. Bps(Saved, BrokerRate) \in Nat
  BY <1>3, RateNat, BpsNat
<1>5. Saved = loan.interest - Interest
  BY DEF Saved, Settled, Interest
<1>6. ~offer.pro_rata => Computed = MaxOf(offer.interest, offer.interest - Saved - 0)
  BY <1>5 DEF Computed, MaxInterestDelta
<1>7. offer.pro_rata =>
        Computed = MaxOf(0, NewInterest(loan.maturity) - Saved - Bps(Saved, BrokerRate))
  BY <1>5 DEF Computed, MaxInterestDelta, NewInterest, BrokerRate
<1>8. offer.interest - Saved - 0 = offer.interest - Saved
  BY <1>1, <1>3
<1> QED
  BY <1>3, <1>4, <1>6, <1>7, <1>8

LEMMA LostNat == Terms => Lost \in Nat /\ Lost >= 2
<1> SUFFICES ASSUME Terms PROVE Lost \in Nat /\ Lost >= 2
  OBVIOUS
<1>1. BrokerRate + BPS - 1 \in Nat
  BY RateNat DEF BPS
<1>2. (BrokerRate + BPS - 1) \div BPS \in Nat
  BY <1>1, QuotientNat DEF BPS
<1> QED
  BY <1>2 DEF Lost, BrokerRate

\* Both loans pro rata: two lines that round.
LEMMA TwoLines ==
  ASSUME Terms, loan.pro_rata, offer.pro_rata, NEW time \in Nat, t <= time, time <= loan.maturity
  PROVE  NewInterest(time) - OldInterestDelta(time) <= Computed + Lost
<1> DEFINE P == loan.interest
           D == loan.maturity
           a == BrokerRate
           I == offer.interest
           d == offer.duration
           x == time - t
           y == loan.maturity - time
           n == NewInterest(time)
           n2 == NewInterest(loan.maturity)
           s1 == Settled(t)
           s2 == Settled(time)
           f1 == Bps(s1, a)
           f2 == Bps(s2, a)
           f == Bps(P - s1, a)
           k == s2 - s1 + f2 - f1
           raw == n2 - (P - s1) - f
<1>1. /\ P \in Nat /\ D \in Nat \ {0} /\ a \in Nat /\ BPS \in Nat \ {0} /\ I \in Nat
      /\ d \in Nat \ {0} /\ x \in Nat /\ y \in Nat /\ t \in Nat
      /\ t <= loan.maturity /\ x + y = loan.maturity - t /\ D - y = time
  BY RateNat DEF Terms, IsTerms, IsOffer, InterestDefined, MaxInterestDeltaDefined, BPS
<1>2. /\ n \in Nat /\ n2 \in Nat /\ d * n <= I * x /\ I * (x + y) <= d * n2 + d - 1
  BY <1>1, NewInterestIs
<1>3. /\ s1 \in Nat /\ s2 \in Nat /\ s1 <= P
      /\ D * s1 <= P * t /\ P * time <= D * s2 + D - 1
  BY <1>1, SettledIs
<1>4. /\ f1 \in Nat /\ f2 \in Nat /\ f \in Nat
      /\ BPS * f1 <= s1 * a /\ s2 * a <= BPS * f2 + BPS - 1 /\ BPS * f <= (P - s1) * a
  <2>1. P - s1 \in Nat
    BY <1>1, <1>3
  <2> QED
    BY <1>1, <1>3, <2>1, BrokerFeeIs, BpsNat
<1>5. /\ NewInterest(time) - OldInterestDelta(time) = n - k
      /\ Computed = MaxOf(0, raw)
  BY <1>1, <1>3, <1>4, ExtraCostIs, ComputedIs DEF Saved
<1> HIDE DEF P, D, a, I, d, x, y, n, n2, s1, s2, f1, f2, f
<1>6. k \in Int /\ raw \in Int
  BY <1>1, <1>2, <1>3, <1>4
<1>7. (P * x - D + 1) * (BPS + a) - D * (BPS - 1) <= D * (BPS * k)
  BY <1>1, <1>3, <1>4, GrowthAtLeast DEF x
<1>8. D * (BPS * (P - s1 + f - k)) <= (P * y + D - 1) * (BPS + a) + D * (BPS - 1)
  <2>1. (s2 - s1) * (BPS + a) - (BPS - 1) <= BPS * k
    BY <1>1, <1>3, <1>4
  <2> QED
    BY <1>1, <1>3, <1>4, <1>6, <2>1, RestAtMost
<1>9. CASE (I * D) * BPS <= (P * d) * (BPS + a)
  <2>1. BPS * (n - k) < 3 * BPS + a
    BY <1>1, <1>2, <1>6, <1>7, <1>9, FlatCost
  <2>2. n - k <= 2 + (a + BPS - 1) \div BPS
    BY <1>1, <1>2, <1>6, <2>1, LostInUnits
  <2>3. n - k <= Lost
    BY <2>2 DEF Lost, a, BrokerRate
  <2> QED
    BY <1>2, <1>5, <1>6, <2>3, LostNat DEF MaxOf
<1>10. CASE (P * d) * (BPS + a) <= (I * D) * BPS
  <2> DEFINE m == P - s1 + f
  <2>1. /\ m \in Int /\ n2 - m = raw
        /\ D * (BPS * (m - k)) <= (P * y + D - 1) * (BPS + a) + D * (BPS - 1)
    BY <1>1, <1>2, <1>3, <1>4, <1>8
  <2> HIDE DEF m, k
  <2>2. BPS * (n - k - (n2 - m)) < 3 * BPS + a
    BY <1>1, <1>2, <1>6, <1>10, <2>1, SteepCost
  <2>3. n - k - raw <= 2 + (a + BPS - 1) \div BPS
    BY <1>1, <1>2, <1>6, <2>1, <2>2, LostInUnits
  <2>4. n - k - raw <= Lost
    BY <2>3 DEF Lost, a, BrokerRate
  <2> QED
    BY <1>2, <1>5, <1>6, <2>4, LostNat DEF MaxOf
<1> QED
  <2>1. (I * D) * BPS \in Int /\ (P * d) * (BPS + a) \in Int
    BY <1>1
  <2> QED
    BY <1>9, <1>10, <2>1

LEMMA NeverMoreThanComputed ==
  ASSUME Terms, NEW time \in Nat, t <= time, time <= loan.maturity
  PROVE  NewInterest(time) - OldInterestDelta(time) <= Computed + Lost
<1>1. /\ OldInterestDelta(time) \in Nat /\ NewInterest(time) \in Nat /\ Lost \in Nat
      /\ loan.pro_rata \in BOOLEAN /\ offer.interest \in Nat /\ t \in Nat
      /\ t <= loan.maturity /\ loan.maturity \in Nat
  BY OldInterestDeltaNat, NewInterestIs, LostNat DEF Terms, IsTerms, IsOffer
<1>2. Saved \in Nat /\ Bps(Saved, BrokerRate) \in Nat
  BY ComputedIs
<1>3. CASE ~offer.pro_rata
  <2>1. NewInterest(time) = offer.interest
        /\ Computed = MaxOf(offer.interest, offer.interest - Saved)
    BY <1>3, NewInterestIs, ComputedIs
  <2> QED
    BY <1>1, <1>2, <2>1 DEF MaxOf
<1>4. CASE offer.pro_rata /\ ~loan.pro_rata
  <2>1. Saved = 0 /\ Bps(Saved, BrokerRate) = 0
    <3>1. Saved = 0
      BY <1>1, <1>4, SettledIs DEF Saved, Terms, IsTerms
    <3>2. 0 * BrokerRate = 0 /\ 0 \div BPS = 0
      BY RateNat DEF BPS
    <3> QED
      BY <3>1, <3>2 DEF Bps
  <2>2. Computed = MaxOf(0, NewInterest(loan.maturity) - Saved - Bps(Saved, BrokerRate))
    BY <1>4, ComputedIs
  <2>3. /\ NewInterest(loan.maturity) \in Nat
        /\ NewInterest(time) <= NewInterest(loan.maturity)
    BY <1>1, <1>4, NewInterestIs
  <2> QED
    BY <1>1, <2>1, <2>2, <2>3 DEF MaxOf
<1>5. CASE offer.pro_rata /\ loan.pro_rata
  BY <1>5, TwoLines
<1> QED
  BY <1>1, <1>3, <1>4, <1>5

\* The maximum is attained: at the replacement by an offer that is not pro rata,
\* at the maturity by one that is, but for the broker's share, which is rounded
\* once in the code and twice in the costs.
LEMMA ComputedIsAttained ==
  ASSUME Terms
  PROVE  \E time \in t..loan.maturity :
           Computed <= MaxOf(NewInterest(time) - OldInterestDelta(time), 0) + 1
<1>1. /\ t \in t..loan.maturity /\ loan.maturity \in t..loan.maturity
      /\ t \in Nat /\ loan.maturity \in Nat /\ t <= loan.maturity
      /\ offer.interest \in Nat /\ offer.pro_rata \in BOOLEAN
  BY DEF Terms, IsTerms, IsOffer
<1>2. Saved \in Nat /\ Bps(Saved, BrokerRate) \in Nat
  BY ComputedIs
<1>3. CASE ~offer.pro_rata
  <2>1. /\ NewInterest(t) = offer.interest
        /\ Computed = MaxOf(offer.interest, offer.interest - Saved)
    BY <1>1, <1>3, NewInterestIs, ComputedIs
  <2>2. OldInterestDelta(t) = 0
    <3>1. Settled(t) \in Nat
      BY <1>1, SettledIs
    <3>2. Bps(Settled(t), BrokerRate) \in Nat
      BY <3>1, RateNat, BpsNat
    <3> QED
      BY <1>1, <3>1, <3>2, ExtraCostIs
  <2> QED
    BY <1>1, <1>2, <2>1, <2>2 DEF MaxOf
<1>4. CASE offer.pro_rata
  <2> DEFINE all == Bps(loan.interest, BrokerRate)
             now == Bps(Settled(t), BrokerRate)
  <2>1. /\ loan.interest \in Nat /\ Settled(t) \in Nat /\ BrokerRate \in Nat
        /\ Settled(loan.maturity) = loan.interest
    BY <1>1, SettledIs, RateNat DEF Terms, IsTerms
  <2>2. OldInterestDelta(loan.maturity) = loan.interest - Settled(t) + all - now
    BY <1>1, <2>1, ExtraCostIs
  <2>3. /\ BPS * all <= loan.interest * BrokerRate
        /\ Settled(t) * BrokerRate <= BPS * now + BPS - 1
        /\ Saved * BrokerRate <= BPS * Bps(Saved, BrokerRate) + BPS - 1
        /\ all \in Nat /\ now \in Nat
    BY <1>2, <2>1, BrokerFeeIs, BpsNat
  <2>4. all - now <= Bps(Saved, BrokerRate) + 1
    <3>1. loan.interest * BrokerRate = Settled(t) * BrokerRate + Saved * BrokerRate
      BY <2>1, <1>2 DEF Saved
    <3> HIDE DEF all, now
    <3>2. BPS * all < BPS * now + BPS * Bps(Saved, BrokerRate) + 2 * BPS
      BY <1>2, <2>1, <2>3, <3>1 DEF BPS
    <3> QED
      BY <1>2, <2>3, <3>2 DEF BPS
  <2>5. /\ NewInterest(loan.maturity) \in Nat
        /\ Computed = MaxOf(0, NewInterest(loan.maturity) - Saved - Bps(Saved, BrokerRate))
    BY <1>1, <1>4, NewInterestIs, ComputedIs
  <2> HIDE DEF all, now
  <2>6. Computed
          <= MaxOf(NewInterest(loan.maturity) - OldInterestDelta(loan.maturity), 0) + 1
    BY <1>2, <2>1, <2>2, <2>3, <2>4, <2>5 DEF MaxOf, Saved
  <2> QED
    BY <1>1, <2>6
<1> QED
  BY <1>1, <1>3, <1>4

----------------------------------------------------------------------------
\* _compute_max_interest_delta: no moment until the old maturity costs the borrower
\* more than the maximum of the two that the code compares, up to what roundings
\* lose, and the maximum is one of a moment, or nothing.
THEOREM MaxDeltaTheorem == Spec => []MaxDeltaIsMaximal
<1>1. Terms => MaxDeltaIsMaximal
  <2> SUFFICES ASSUME Terms PROVE MaxDeltaIsMaximal
    OBVIOUS
  <2>1. \A time \in t..loan.maturity : time \in Nat /\ t <= time /\ time <= loan.maturity
    BY DEF Terms, IsTerms
  <2>2. \A cost \in ExtraCosts : cost <= Computed + Lost
    BY <2>1, NeverMoreThanComputed DEF ExtraCosts
  <2>3. \E cost \in ExtraCosts : Computed <= MaxOf(cost, 0) + 1
    BY ComputedIsAttained DEF ExtraCosts
  <2> QED
    BY <2>2, <2>3 DEF MaxDeltaIsMaximal, Computed
<1> QED
  BY <1>1, TermsTheorem, PTL

LEMMA TermsAtReplacement ==
  ASSUME Terms
  PROVE  /\ IsTerms(loan) /\ IsOffer(offer) /\ MaxInterestDeltaDefined(offer)
         /\ t \in Nat /\ t <= loan.maturity /\ Interest \in Nat
         /\ Computed \in Int
<1>1. /\ IsTerms(loan) /\ IsOffer(offer) /\ MaxInterestDeltaDefined(offer)
      /\ t \in Nat /\ t <= loan.maturity
  BY DEF Terms, IsTerms
<1>2. Interest \in Nat
  BY <1>1, SettledIs DEF Settled, Interest
<1> QED
  BY <1>1, <1>2, MaxInterestDeltaInt DEF Computed

\* replace_loan_lender: "borrower delta < 0" cannot fail, and what the borrower is
\* handed pays for the new terms at every moment up to the old maturity, up to what
\* roundings lose.
THEOREM KeptWholeTheorem == Spec => []BorrowerKeptWhole
<1>1. Terms => BorrowerKeptWhole
  <2> SUFFICES ASSUME Terms PROVE BorrowerKeptWhole
    OBVIOUS
  <2>1. BorrowerDelta >= 0
    BY TermsAtReplacement, BorrowerNeverPaysOnLenderReplace DEF BorrowerDelta, Computed
  <2>2. /\ u \in Nat /\ t <= u /\ u <= loan.maturity
        /\ loan.amount \in Nat /\ offer.principal \in Nat
    BY DEF Terms, IsTerms, IsOffer
  <2>3. NewInterest(u) - OldInterestDelta(u) <= Computed + Lost
    BY <2>2, NeverMoreThanComputed
  <2> DEFINE fee == BorrowerBrokerFee(loan, Interest)
             due == Interest + fee - (offer.principal - loan.amount)
             handed == MaxOf(Computed, due)
  <2>4. /\ fee \in Nat /\ Interest \in Nat /\ Computed \in Int /\ Lost \in Nat
        /\ NewInterest(u) \in Nat /\ OldInterestDelta(u) \in Nat
    BY <2>2, TermsAtReplacement, BrokerFeeIs, LostNat, NewInterestIs, OldInterestDeltaNat
  <2>5. BorrowerDelta = (offer.principal - loan.amount) - Interest - fee + handed
    BY DEF BorrowerDelta, LenderReplaceBorrowerDelta, BorrowerCompensation, Computed
  <2>6. Repayment(loan, SettlementInterest(loan, u))
          = OldInterestDelta(u) + (loan.amount + Interest + fee)
    <3> DEFINE later == Repayment(loan, SettlementInterest(loan, u))
    <3>1. later \in Nat
      <4>1. Settled(u) \in Nat
        BY <2>2, SettledIs
      <4>2. BorrowerBrokerFee(loan, Settled(u)) \in Nat
        BY <4>1, BrokerFeeIs
      <4> QED
        BY <2>2, <4>1, <4>2 DEF Repayment, Settled
    <3>2. OldInterestDelta(u) = later - (loan.amount + Interest + fee)
      BY DEF OldInterestDelta, Repayment
    <3> HIDE DEF later, fee
    <3> QED
      BY <2>2, <2>4, <3>1, <3>2 DEF later
  <2> HIDE DEF fee
  <2>7. handed \in Int /\ Computed <= handed
    BY <2>2, <2>4 DEF MaxOf
  <2> HIDE DEF handed
  <2>8. offer.principal + NewInterest(u) - BorrowerDelta
          <= Repayment(loan, SettlementInterest(loan, u)) + Lost
    BY <2>2, <2>3, <2>4, <2>5, <2>6, <2>7
  <2> QED
    BY <2>1, <2>8 DEF BorrowerKeptWhole
<1> QED
  BY <1>1, TermsTheorem, PTL

\* The fees that the replacing loan takes, of which one is the lender's own.
LEMMA FeesTyped ==
  ASSUME Terms
  PROVE  /\ \A type \in FeeTypes : Fees[type].upfront_amount \in Nat
         /\ Fees["ORIGINATION_FEE"].upfront_amount = offer.origination_fee_amount
<1>1. IsOffer(offer) /\ offer.protocol_upfront \in Nat
  BY DEF Terms
<1>2. Bps(offer.principal, offer.protocol_upfront) \in Nat
  BY <1>1, BpsNat DEF IsOffer
<1> QED
  BY <1>1, <1>2 DEF Fees, LoanFees, NoBroker, FeeTypes, IsOffer

\* replace_loan_lender, "cant have lender delta > 0 and borrower delta >= 0": a
\* lender that replaces its own loan never takes money out.
THEOREM SameLenderTheorem == Spec => []SameLenderNeverReceives
<1>1. Terms => SameLenderNeverReceives
  BY TermsAtReplacement, FeesTyped, SameLenderNeverReceivesTheorem DEF SameLenderNeverReceives
<1> QED
  BY <1>1, TermsTheorem, PTL

\* What the parties of a replacement pay in is what they take out.
THEOREM ConservationTheorem == Spec => []ReplacementConserves
<1>1. Terms => ReplacementConserves
  <2> SUFFICES ASSUME Terms PROVE ReplacementConserves
    OBVIOUS
  <2> DEFINE upfront == TotalUpfrontFees(Fees) - offer.origination_fee_amount
             settled == SettlementFeesTotal(loan, Interest)
             spent == Spent(loan, Fees, Interest)
             current == LenderReplaceCurrentDelta(loan, offer, Fees, Interest, t)
             proceeds == LenderProceeds(loan, Interest)
             delta == ReplaceBorrowerDelta(loan, offer, Fees, Interest)
  <2>1. /\ NewLenderPays(offer) = proceeds + delta + spent
        /\ NewLenderPays(offer) = current + BorrowerDelta + spent
    BY TermsAtReplacement, FeesTyped, ReplacementConservesTheorem DEF Computed, BorrowerDelta
  <2>2. \A type \in FeeTypes : SettlementFee(loan, Interest, type) \in Nat
    BY TermsAtReplacement, SettlementFeeNat
  <2>3. /\ settled \in Nat /\ upfront \in Nat /\ spent = settled + upfront
    BY <2>2, FeesTyped DEF SettlementFeesTotal, TotalUpfrontFees, Spent, FeeTypes
  <2>4. current \in Int /\ BorrowerDelta \in Int /\ proceeds \in Int /\ delta \in Int
    <3>1. /\ loan.amount \in Nat /\ offer.principal \in Nat /\ Interest \in Nat
          /\ offer.broker_upfront_fee_amount \in Nat /\ TotalUpfrontFees(Fees) \in Nat
          /\ Computed \in Int /\ BorrowerBrokerFee(loan, Interest) \in Nat
      BY <2>2, TermsAtReplacement, FeesTyped
         DEF IsTerms, IsOffer, TotalUpfrontFees, BorrowerBrokerFee, FeeTypes
    <3>2. BorrowerCompensation(loan, offer, Interest, t) \in Int
      BY <3>1 DEF BorrowerCompensation, MaxOf, Computed
    <3> HIDE DEF settled
    <3>3. /\ current = (loan.amount + Interest + BorrowerBrokerFee(loan, Interest)
                            + offer.broker_upfront_fee_amount)
                         - (TotalUpfrontFees(Fees) + settled
                              + BorrowerCompensation(loan, offer, Interest, t))
          /\ proceeds = loan.amount + Interest - settled + BorrowerBrokerFee(loan, Interest)
      BY DEF LenderReplaceCurrentDelta, LenderProceeds, settled
    <3>4. /\ BorrowerDelta = (offer.principal - loan.amount) - Interest
               - BorrowerBrokerFee(loan, Interest) + BorrowerCompensation(loan, offer, Interest, t)
          /\ delta = (offer.principal - loan.amount)
               - (TotalUpfrontFees(Fees) + Interest + BorrowerBrokerFee(loan, Interest))
               + offer.broker_upfront_fee_amount
      BY DEF BorrowerDelta, LenderReplaceBorrowerDelta, ReplaceBorrowerDelta
    <3> QED
      BY <2>3, <3>1, <3>2, <3>3, <3>4
  <2> HIDE DEF upfront, settled, spent, current, proceeds, delta
  <2>5. /\ NewLenderPays(offer) = current + BorrowerDelta + settled + upfront
        /\ NewLenderPays(offer) = proceeds + delta + settled + upfront
    BY <2>1, <2>3, <2>4
  <2> QED
    BY <2>5 DEF ReplacementConserves, upfront, settled, current, proceeds, delta
<1> QED
  BY <1>1, TermsTheorem, PTL

\* The settlement fees leave the lender its principal, and a settlement whose
\* subtractions revert is one whose borrower's broker is due more than that.
THEOREM LenderPrincipalTheorem == Spec => []LenderKeepsPrincipal
<1>1. Terms => LenderKeepsPrincipal
  <2> SUFFICES ASSUME Terms PROVE LenderKeepsPrincipal
    OBVIOUS
  <2> DEFINE interest == SettlementInterest(loan, u)
             fee == BorrowerBrokerFee(loan, interest)
             total == SettlementFeesTotal(loan, interest)
  <2>1. interest \in Nat /\ IsTerms(loan) /\ loan.amount \in Nat
    BY SettledIs DEF Settled, Terms, IsTerms
  <2>2. LenderProceeds(loan, interest) >= loan.amount
    BY <2>1, LenderKeepsPrincipalTheorem DEF Terms
  <2>3. \A type \in FeeTypes : SettlementFee(loan, interest, type) \in Nat
    BY <2>1, SettlementFeeNat
  <2>4. fee \in Nat /\ total \in Nat
    BY <2>3 DEF SettlementFeesTotal, BorrowerBrokerFee, FeeTypes
  <2>5. /\ LenderProceeds(loan, interest) = loan.amount + interest - total + fee
        /\ LenderProceedsDefined(loan, interest) <=> loan.amount + interest >= total
    BY DEF LenderProceeds, LenderProceedsDefined
  <2> HIDE DEF interest, fee, total
  <2>6. fee <= loan.amount => LenderProceedsDefined(loan, interest)
    BY <2>1, <2>2, <2>4, <2>5
  <2> QED
    BY <2>2, <2>6 DEF LenderKeepsPrincipal, interest, fee
<1> QED
  BY <1>1, TermsTheorem, PTL
=============================================================================
