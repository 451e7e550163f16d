------------------------ MODULE P2PLendingNftsProofs ------------------------
(***************************************************************************)
(* The invariants of P2PLendingNfts, for all parties, NFTs, offers, fees   *)
(* and bounds.                                                             *)
(***************************************************************************)
EXTENDS P2PLendingNfts, LoanMathProofs, FiniteSetTheorems

(***************************************************************************)
(* Sums of amounts, unit by unit: what is added to one amount is a set of   *)
(* new units, and an amount that is cleared takes its units away.          *)
(***************************************************************************)

LEMMA NumbersAfter ==
  ASSUME NEW i \in Nat, NEW n \in Nat
  PROVE  IsFiniteSet((i + 1)..(i + n)) /\ Cardinality((i + 1)..(i + n)) = n
  BY FS_Interval

\* As many units as the interval has numbers.
LEMMA UnitsOfOne ==
  ASSUME NEW a, NEW numbers, IsFiniteSet(numbers)
  PROVE  /\ IsFiniteSet({a} \X numbers)
         /\ Cardinality({a} \X numbers) = Cardinality(numbers)
<1>1. IsFiniteSet({a}) /\ Cardinality({a}) = 1
  BY FS_Singleton
<1>2. Cardinality(numbers) \in Nat
  BY FS_CardinalityType
<1> QED
  BY <1>1, <1>2, FS_Product

LEMMA AmountAdded ==
  ASSUME NEW D, NEW p \in [D -> Nat], NEW a \in D, NEW n \in Nat, NEW total,
         AddsUpTo(p, total)
  PROVE  AddsUpTo([p EXCEPT ![a] = @ + n], total + n)
<1> DEFINE q == [p EXCEPT ![a] = @ + n]
           more == {a} \X ((p[a] + 1)..(p[a] + n))
<1>1. Units(q) = Units(p) \cup more
  <2>1. /\ DOMAIN p = D /\ DOMAIN q = D
        /\ \A b \in D : q[b] = IF b = a THEN p[a] + n ELSE p[b]
    OBVIOUS
  <2>2. p[a] \in Nat /\ 1..(p[a] + n) = (1..p[a]) \cup ((p[a] + 1)..(p[a] + n))
    OBVIOUS
  <2> HIDE DEF q
  <2>3. ASSUME NEW u
        PROVE  u \in Units(q) <=> u \in Units(p) \/ u \in more
    <3>1. u \in Units(q)
            <=> \E b \in D : u \in {b} \X (1..q[b])
      BY <2>1 DEF Units
    <3>2. u \in Units(p)
            <=> \E b \in D : u \in {b} \X (1..p[b])
      BY <2>1 DEF Units
    <3>3. \A b \in D : b # a => {b} \X (1..q[b]) = {b} \X (1..p[b])
      BY <2>1
    <3>4. u \in {a} \X (1..q[a]) <=> u \in {a} \X (1..p[a]) \/ u \in more
      BY <2>1, <2>2
    <3> HIDE DEF more
    <3> QED
      BY <3>1, <3>2, <3>3, <3>4
  <2> HIDE DEF more
  <2> QED
    BY <2>3
<1>2. Units(p) \cap more = {}
  <2>1. \A u \in Units(p) : u[1] = a => u[2] \in 1..p[a]
    BY DEF Units
  <2>2. \A u \in more : u[1] = a /\ u[2] \in (p[a] + 1)..(p[a] + n)
    OBVIOUS
  <2>3. p[a] \in Nat /\ (1..p[a]) \cap ((p[a] + 1)..(p[a] + n)) = {}
    OBVIOUS
  <2> QED
    BY <2>1, <2>2, <2>3
<1>3. IsFiniteSet(more) /\ Cardinality(more) = n
  <2>1. PICK i \in Nat : i = p[a]
    OBVIOUS
  <2> DEFINE numbers == (i + 1)..(i + n)
  <2>2. more = {a} \X numbers
    BY <2>1
  <2>3. IsFiniteSet(numbers) /\ Cardinality(numbers) = n
    BY NumbersAfter
  <2> HIDE DEF numbers, more
  <2> QED
    BY <2>2, <2>3, UnitsOfOne
<1>4. /\ IsFiniteSet(Units(p)) /\ Cardinality(Units(p)) = total
      /\ total \in Nat
  BY FS_CardinalityType DEF AddsUpTo
<1> HIDE DEF q, more
<1>5. /\ IsFiniteSet(Units(p) \cup more)
      /\ Cardinality(Units(p) \cup more) = total + n - Cardinality({})
  BY <1>2, <1>3, <1>4, FS_Union
<1>6. AddsUpTo(q, total + n)
  BY <1>1, <1>5, FS_EmptySet DEF AddsUpTo
<1> QED
  BY <1>6 DEF q

\* What is owed to one account is part of what is owed.
LEMMA AmountCleared ==
  ASSUME NEW D, NEW p \in [D -> Nat], NEW a \in D, NEW total,
         AddsUpTo(p, total)
  PROVE  p[a] <= total /\ AddsUpTo([p EXCEPT ![a] = 0], total - p[a])
<1> DEFINE q == [p EXCEPT ![a] = 0]
           rest == Cardinality(Units(q))
<1>1. q \in [D -> Nat] /\ [q EXCEPT ![a] = @ + p[a]] = p /\ p[a] \in Nat
  <2>1. q \in [D -> Nat] /\ p[a] \in Nat /\ q[a] + p[a] = p[a]
    OBVIOUS
  <2>2. [q EXCEPT ![a] = p[a]] = p
    OBVIOUS
  <2> QED
    BY <2>1, <2>2
<1>2. /\ IsFiniteSet(Units(p)) /\ Cardinality(Units(p)) = total
      /\ total \in Nat
  BY FS_CardinalityType DEF AddsUpTo
<1>3. Units(q) \subseteq Units(p)
  <2>1. /\ DOMAIN p = D /\ DOMAIN q = D
        /\ \A b \in D : 1..q[b] \subseteq 1..p[b]
    OBVIOUS
  <2> HIDE DEF q
  <2> QED
    BY <2>1 DEF Units
<1>4. IsFiniteSet(Units(q)) /\ rest \in Nat
  BY <1>2, <1>3, FS_Subset, FS_CardinalityType
<1>5. AddsUpTo(q, rest)
  BY <1>4 DEF AddsUpTo
<1> HIDE DEF q, rest
<1>6. AddsUpTo(p, rest + p[a])
  BY <1>1, <1>4, <1>5, AmountAdded
<1>7. total = rest + p[a]
  BY <1>2, <1>6 DEF AddsUpTo
<1>8. rest = total - p[a] /\ p[a] <= total
  BY <1>1, <1>4, <1>7
<1> QED
  BY <1>5, <1>8 DEF q

(***************************************************************************)
(* How payments move the funds: each operator keeps the types, and changes *)
(* what the vault holds beyond what it owes by the amount it takes in or   *)
(* sends, whether or not the transfer succeeds.                            *)
(***************************************************************************)

FundsType ==
  {f \in [balance : [Accounts -> Nat], pending : [Accounts -> Nat], owed : Nat] :
     AddsUpTo(f.pending, f.owed)}

Surplus(f) == f.balance[Vault] - f.owed

Outside == Wallets \cup Payees

LEMMA VaultIsNoParty == Vault \in Accounts /\ Vault \notin Outside /\ None \notin Accounts
                        /\ Outside \subseteq Accounts
  BY PartiesAssumption DEF Accounts, Outside

\* A transfer that can be made keeps all balances natural and moves the amount.
LEMMA TransferMoves ==
  ASSUME NEW f \in FundsType, NEW from \in Accounts, NEW to \in Accounts \cup {None},
         NEW amount \in Nat, CanTransfer(f, from, to, amount)
  PROVE  LET g == Transfer(f, from, to, amount)
         IN  /\ g \in FundsType
             /\ g.owed = f.owed /\ g.pending = f.pending
             /\ from = Vault /\ to # Vault => g.balance[Vault] = f.balance[Vault] - amount
             /\ from # Vault /\ to = Vault => g.balance[Vault] = f.balance[Vault] + amount
             /\ from # Vault /\ to # Vault => g.balance[Vault] = f.balance[Vault]
<1> DEFINE taken == [f.balance EXCEPT ![from] = @ - amount]
           moved == [taken EXCEPT ![to] = @ + amount]
<1>1. f.balance \in [Accounts -> Nat] /\ f.balance[from] >= amount
  BY DEF FundsType, CanTransfer
<1>2. taken \in [Accounts -> Nat]
  BY <1>1
<1>3. moved \in [Accounts -> Nat]
  <2> HIDE DEF taken
  <2>1. CASE to \in Accounts
    <3>1. taken[to] + amount \in Nat
      BY <1>2, <2>1
    <3> QED
      BY <1>2, <3>1
  <2>2. CASE to \notin Accounts
    BY <1>2, <2>2
  <2> QED
    BY <2>1, <2>2
<1>4. Transfer(f, from, to, amount) = [f EXCEPT !.balance = moved]
  BY DEF Transfer
<1>5. /\ [f EXCEPT !.balance = moved] \in FundsType
      /\ [f EXCEPT !.balance = moved].balance = moved
      /\ [f EXCEPT !.balance = moved].owed = f.owed
      /\ [f EXCEPT !.balance = moved].pending = f.pending
  <2> HIDE DEF moved
  <2> QED
    BY <1>3 DEF FundsType
<1>6. /\ from = Vault /\ to # Vault => moved[Vault] = f.balance[Vault] - amount
      /\ from # Vault /\ to = Vault => moved[Vault] = f.balance[Vault] + amount
      /\ from # Vault /\ to # Vault => moved[Vault] = f.balance[Vault]
  BY <1>1, VaultIsNoParty
<1> HIDE DEF moved
<1> QED
  BY <1>4, <1>5, <1>6

\* What is received adds to the surplus.
LEMMA ReceiveFundsAdds ==
  ASSUME NEW f \in FundsType, NEW from \in Outside, NEW amount \in Nat,
         CanReceiveFunds(f, from, amount)
  PROVE  /\ ReceiveFunds(f, from, amount) \in FundsType
         /\ Surplus(ReceiveFunds(f, from, amount)) = Surplus(f) + amount
<1> DEFINE g == ReceiveFunds(f, from, amount)
<1>1. from \in Accounts /\ Vault \in Accounts /\ from # Vault
  BY VaultIsNoParty
<1>2. /\ g \in FundsType /\ g.owed = f.owed
      /\ g.balance[Vault] = f.balance[Vault] + amount
  BY <1>1, TransferMoves DEF ReceiveFunds, CanReceiveFunds
<1>3. f.balance[Vault] \in Nat /\ f.owed \in Nat
  BY <1>1 DEF FundsType
<1> HIDE DEF g
<1> QED
  BY <1>2, <1>3 DEF Surplus, g

\* What is sent leaves the surplus, also when the transfer fails and the
\* amount is owed from then on.
LEMMA SendFundsTakes ==
  ASSUME NEW f \in FundsType, NEW to \in Outside, NEW amount \in Nat
  PROVE  /\ SendFunds(f, to, amount) \in FundsType
         /\ Surplus(SendFunds(f, to, amount)) = Surplus(f) - amount
<1>1. /\ to \in Accounts /\ Vault \in Accounts /\ to # Vault
      /\ f.balance[Vault] \in Nat /\ f.owed \in Nat
  BY VaultIsNoParty DEF FundsType
<1>2. CASE CanTransfer(f, Vault, to, amount)
  <2> DEFINE g == Transfer(f, Vault, to, amount)
  <2>1. /\ g \in FundsType /\ g.owed = f.owed
        /\ g.balance[Vault] = f.balance[Vault] - amount
    BY <1>1, <1>2, TransferMoves
  <2>2. SendFunds(f, to, amount) = g
    BY <1>2 DEF SendFunds
  <2> HIDE DEF g
  <2> QED
    BY <1>1, <2>1, <2>2 DEF Surplus
<1>3. CASE ~CanTransfer(f, Vault, to, amount)
  <2> DEFINE parked == [f.pending EXCEPT ![to] = @ + amount]
             g == [balance |-> f.balance, pending |-> parked, owed |-> f.owed + amount]
  <2>1. parked \in [Accounts -> Nat] /\ AddsUpTo(parked, f.owed + amount)
    <3>1. f.pending \in [Accounts -> Nat] /\ AddsUpTo(f.pending, f.owed)
      BY DEF FundsType
    <3> QED
      BY <1>1, <3>1, AmountAdded
  <2>2. SendFunds(f, to, amount) = g
    BY <1>3 DEF SendFunds
  <2>3. g \in FundsType /\ g.balance = f.balance /\ g.owed = f.owed + amount
    <3>1. f.owed + amount \in Nat /\ f.balance \in [Accounts -> Nat]
      BY DEF FundsType
    <3> HIDE DEF parked
    <3> QED
      BY <2>1, <3>1 DEF FundsType
  <2> HIDE DEF g
  <2> QED
    BY <1>1, <2>2, <2>3 DEF Surplus
<1> QED
  BY <1>2, <1>3

\* Every loan's fees as stored, with recipients other than the vault.
LoanFeesOK(fees) == fees \in [FeeTypes -> FeeType]

\* A fee of a loan that takes anything has a recipient.
LEMMA FeeTyped ==
  ASSUME NEW fee \in FeeType
  PROVE  /\ fee \in FeeTerms /\ fee.wallet \in Outside \cup {None}
         /\ fee.upfront_amount \in Nat /\ fee.interest_bps \in Nat
         /\ fee.upfront_amount > 0 \/ fee.interest_bps > 0 => fee.wallet \in Outside
<1>1. fee \in FeeTerms /\ (fee.wallet = None => fee.upfront_amount = 0 /\ fee.interest_bps = 0)
  BY DEF FeeType
<1>2. /\ fee.wallet \in Outside \cup {None}
      /\ fee.upfront_amount \in Nat /\ fee.interest_bps \in Nat
  BY <1>1 DEF FeeTerms, Outside
<1> QED
  BY <1>1, <1>2

LEMMA SendSettlementFeeTakes ==
  ASSUME NEW f \in FundsType, NEW loan, IsTerms(loan), LoanFeesOK(loan.fees),
         NEW interest \in Nat, NEW type \in FeeTypes
  PROVE  /\ SendSettlementFee(f, loan, interest, type) \in FundsType
         /\ Surplus(SendSettlementFee(f, loan, interest, type))
              = Surplus(f) - SettlementFee(loan, interest, type)
<1> DEFINE fee == loan.fees[type]
           amount == SettlementFee(loan, interest, type)
<1>1. fee.interest_bps \in Nat /\ (fee.interest_bps > 0 => fee.wallet \in Outside)
  BY FeeTyped DEF LoanFeesOK
<1>2. amount \in Nat
  BY SettlementFeeNat
<1>3. ~(fee.interest_bps > 0) => amount = 0
  <2> SUFFICES ASSUME fee.interest_bps = 0 PROVE amount = 0
    BY <1>1
  <2> QED
    BY BpsNat DEF SettlementFee
<1>4. Surplus(f) \in Int
  BY VaultIsNoParty DEF Surplus, FundsType
<1>5. CASE fee.interest_bps > 0
  <2>1. SendSettlementFee(f, loan, interest, type) = SendFunds(f, fee.wallet, amount)
    BY <1>5 DEF SendSettlementFee, SendIf
  <2> HIDE DEF fee
  <2> QED
    BY <1>1, <1>2, <1>5, <2>1, SendFundsTakes
<1>6. CASE ~(fee.interest_bps > 0)
  <2>1. SendSettlementFee(f, loan, interest, type) = f
    BY <1>6 DEF SendSettlementFee, SendIf
  <2>2. amount = 0
    BY <1>3, <1>6
  <2> HIDE DEF fee, amount
  <2> QED
    BY <1>4, <2>1, <2>2 DEF amount
<1> QED
  BY <1>5, <1>6

LEMMA SurplusInt == \A f \in FundsType : Surplus(f) \in Int
  BY VaultIsNoParty DEF Surplus, FundsType

\* Sending all settlement fees of a loan takes their total.
LEMMA SendSettlementFeesTakes ==
  ASSUME NEW f \in FundsType, NEW loan, IsTerms(loan), LoanFeesOK(loan.fees),
         NEW interest \in Nat
  PROVE  /\ SendSettlementFees(f, loan, interest) \in FundsType
         /\ Surplus(SendSettlementFees(f, loan, interest))
              = Surplus(f) - SettlementFeesTotal(loan, interest)
<1> DEFINE f1 == SendSettlementFee(f, loan, interest, "PROTOCOL_FEE")
           f2 == SendSettlementFee(f1, loan, interest, "LENDER_BROKER_FEE")
           f3 == SendSettlementFee(f2, loan, interest, "BORROWER_BROKER_FEE")
           p == SettlementFee(loan, interest, "PROTOCOL_FEE")
           l == SettlementFee(loan, interest, "LENDER_BROKER_FEE")
           b == SettlementFee(loan, interest, "BORROWER_BROKER_FEE")
<1>1. p \in Nat /\ l \in Nat /\ b \in Nat
  BY SettlementFeeNat DEF FeeTypes
<1>2. f1 \in FundsType /\ Surplus(f1) = Surplus(f) - p
  BY SendSettlementFeeTakes DEF FeeTypes
<1>3. f2 \in FundsType /\ Surplus(f2) = Surplus(f1) - l
  <2> HIDE DEF f1
  <2> QED
    BY <1>2, SendSettlementFeeTakes DEF FeeTypes
<1>4. f3 \in FundsType /\ Surplus(f3) = Surplus(f2) - b
  <2> HIDE DEF f2
  <2> QED
    BY <1>3, SendSettlementFeeTakes DEF FeeTypes
<1>5. SendSettlementFees(f, loan, interest) = f3 /\ SettlementFeesTotal(loan, interest) = p + l + b
  BY DEF SendSettlementFees, SettlementFeesTotal
<1> HIDE DEF f1, f2, f3, p, l, b
<1> QED
  BY <1>1, <1>2, <1>3, <1>4, <1>5, SurplusInt

LEMMA SendUpfrontFeeTakes ==
  ASSUME NEW f \in FundsType, NEW fee \in FeeType
  PROVE  /\ SendUpfrontFee(f, fee) \in FundsType
         /\ Surplus(SendUpfrontFee(f, fee)) = Surplus(f) - fee.upfront_amount
<1>1. fee.upfront_amount \in Nat /\ (fee.upfront_amount > 0 => fee.wallet \in Outside)
  BY FeeTyped
<1>2. CASE fee.upfront_amount > 0
  <2>1. SendUpfrontFee(f, fee) = SendFunds(f, fee.wallet, fee.upfront_amount)
    BY <1>2 DEF SendUpfrontFee, SendIf
  <2> QED
    BY <1>1, <1>2, <2>1, SendFundsTakes
<1>3. CASE ~(fee.upfront_amount > 0)
  <2>1. SendUpfrontFee(f, fee) = f /\ fee.upfront_amount = 0
    BY <1>1, <1>3 DEF SendUpfrontFee, SendIf
  <2> QED
    BY <2>1, SurplusInt
<1> QED
  BY <1>2, <1>3

\* Sending the upfront fees of a replacing loan takes all but the origination fee.
LEMMA SendUpfrontFeesTakes ==
  ASSUME NEW f \in FundsType, NEW fees, LoanFeesOK(fees)
  PROVE  /\ SendUpfrontFees(f, fees) \in FundsType
         /\ Surplus(SendUpfrontFees(f, fees))
              = Surplus(f) - (fees["PROTOCOL_FEE"].upfront_amount
                              + fees["LENDER_BROKER_FEE"].upfront_amount
                              + fees["BORROWER_BROKER_FEE"].upfront_amount)
<1> DEFINE f1 == SendUpfrontFee(f, fees["PROTOCOL_FEE"])
           f2 == SendUpfrontFee(f1, fees["LENDER_BROKER_FEE"])
           f3 == SendUpfrontFee(f2, fees["BORROWER_BROKER_FEE"])
<1>1. /\ fees["PROTOCOL_FEE"] \in FeeType /\ fees["LENDER_BROKER_FEE"] \in FeeType
      /\ fees["BORROWER_BROKER_FEE"] \in FeeType
  BY DEF LoanFeesOK, FeeTypes
<1>2. /\ fees["PROTOCOL_FEE"].upfront_amount \in Nat
      /\ fees["LENDER_BROKER_FEE"].upfront_amount \in Nat
      /\ fees["BORROWER_BROKER_FEE"].upfront_amount \in Nat
  BY <1>1, FeeTyped
<1>3. f1 \in FundsType /\ Surplus(f1) = Surplus(f) - fees["PROTOCOL_FEE"].upfront_amount
  BY <1>1, SendUpfrontFeeTakes
<1>4. f2 \in FundsType /\ Surplus(f2) = Surplus(f1) - fees["LENDER_BROKER_FEE"].upfront_amount
  <2> HIDE DEF f1
  <2> QED
    BY <1>1, <1>3, SendUpfrontFeeTakes
<1>5. f3 \in FundsType /\ Surplus(f3) = Surplus(f2) - fees["BORROWER_BROKER_FEE"].upfront_amount
  <2> HIDE DEF f2
  <2> QED
    BY <1>1, <1>4, SendUpfrontFeeTakes
<1>6. SendUpfrontFees(f, fees) = f3
  BY DEF SendUpfrontFees
<1> HIDE DEF f1, f2, f3
<1> QED
  BY <1>2, <1>3, <1>4, <1>5, <1>6, SurplusInt

----------------------------------------------------------------------------
(* Facts about the constants and the calls. *)

LEMMA OfferTyped ==
  ASSUME NEW offer \in Offers
  PROVE  IsOffer(offer) /\ offer.lender \in Wallets /\ offer.tracing_id \in TracingIds
         /\ offer.broker_address \in Outside \cup {None}
         /\ offer.broker_settlement_fee_bps \in Nat
  BY OffersAssumption DEF IsOffer, TracingIds, Outside

LEMMA MessagesTyped ==
  ASSUME CustodyTyped, NEW msg \in Messages
  PROVE  msg.sender \in Wallets \cup Proxies /\ msg.origin \in Wallets
<1>1. CASE callbacks = <<>>
  BY <1>1 DEF Messages
<1>2. CASE callbacks # <<>>
  <2>1. Head(callbacks) \in CallbackType
    BY <1>2 DEF CustodyTyped
  <2> QED
    BY <1>2, <2>1 DEF Messages, CallbackType
<1> QED
  BY <1>1, <1>2

LEMMA NoBrokerTyped == NoBroker \in FeeTerms
  BY DEF NoBroker, FeeTerms

LEMMA FeeMade ==
  ASSUME NEW amount \in Nat, NEW bps \in Nat, NEW wallet \in Wallets \cup Payees \cup {None},
         wallet = None => amount = 0 /\ bps = 0
  PROVE  [upfront_amount |-> amount, interest_bps |-> bps, wallet |-> wallet] \in FeeType
  BY DEF FeeType, FeeTerms

LEMMA FeesTyped ==
  ASSUME NEW offer \in Offers, NEW broker \in FeeTerms, AdminTyped,
         LoanFeesDefined(offer, broker, protocol, FeeCaps, None)
  PROVE  /\ LoanFeesOK(LoanFees(offer, broker, protocol))
         /\ \A type \in FeeTypes : LoanFees(offer, broker, protocol)[type].upfront_amount \in Nat
         /\ LoanFees(offer, broker, protocol)["ORIGINATION_FEE"].upfront_amount
              = offer.origination_fee_amount
<1> DEFINE fees == LoanFees(offer, broker, protocol)
<1>1. /\ protocol.upfront \in Nat /\ protocol.settlement \in Nat
      /\ protocol.wallet \in Wallets \cup Payees
  BY DEF AdminTyped
<1>2. Bps(offer.principal, protocol.upfront) \in Nat
  BY <1>1, OfferTyped, BpsNat DEF IsOffer
<1>3. fees["PROTOCOL_FEE"] \in FeeType
  <2>1. fees["PROTOCOL_FEE"]
          = [upfront_amount |-> Bps(offer.principal, protocol.upfront),
             interest_bps |-> protocol.settlement, wallet |-> protocol.wallet]
    BY DEF LoanFees, FeeTypes
  <2>2. protocol.wallet # None
    BY <1>1, PartiesAssumption DEF Accounts
  <2> QED
    BY <1>1, <1>2, <2>1, <2>2, FeeMade
<1>4. fees["ORIGINATION_FEE"] \in FeeType
      /\ fees["ORIGINATION_FEE"].upfront_amount = offer.origination_fee_amount
  <2>1. fees["ORIGINATION_FEE"]
          = [upfront_amount |-> offer.origination_fee_amount,
             interest_bps |-> 0, wallet |-> offer.lender]
    BY DEF LoanFees, FeeTypes
  <2>2. /\ offer.lender \in Wallets /\ offer.lender # None
        /\ offer.origination_fee_amount \in Nat
    BY OfferTyped, PartiesAssumption DEF IsOffer, Accounts
  <2> QED
    BY <2>1, <2>2, FeeMade
<1>5. fees["LENDER_BROKER_FEE"] \in FeeType
  <2>1. fees["LENDER_BROKER_FEE"]
          = [upfront_amount |-> offer.broker_upfront_fee_amount,
             interest_bps |-> offer.broker_settlement_fee_bps,
             wallet |-> offer.broker_address]
    BY DEF LoanFees, FeeTypes
  <2>2. \/ offer.broker_settlement_fee_bps = 0 /\ offer.broker_upfront_fee_amount = 0
        \/ offer.broker_address # None
    BY DEF LoanFeesDefined
  <2>3. /\ offer.broker_upfront_fee_amount \in Nat /\ offer.broker_settlement_fee_bps \in Nat
        /\ offer.broker_address \in Wallets \cup Payees \cup {None}
    BY OfferTyped DEF IsOffer, Outside
  <2> QED
    BY <2>1, <2>2, <2>3, FeeMade
<1>6. fees["BORROWER_BROKER_FEE"] \in FeeType
  <2>1. fees["BORROWER_BROKER_FEE"] = broker
    BY DEF LoanFees, FeeTypes
  <2>2. broker.wallet = None => broker.upfront_amount = 0 /\ broker.interest_bps = 0
    BY DEF LoanFeesDefined
  <2> QED
    BY <2>1, <2>2 DEF FeeType
<1>7. \A type \in FeeTypes : fees[type] \in FeeType
  BY <1>3, <1>4, <1>5, <1>6 DEF FeeTypes
<1>8. fees \in [FeeTypes -> FeeType]
  <2>1. fees = [type \in FeeTypes |-> fees[type]]
    BY DEF LoanFees
  <2> HIDE DEF fees
  <2> QED
    BY <1>7, <2>1
<1> HIDE DEF fees
<1> QED
  BY <1>4, <1>7, <1>8, FeeTyped DEF LoanFeesOK, fees

LEMMA LoanTyped ==
  ASSUME NEW loan \in LoanType
  PROVE  IsTerms(loan) /\ LoanFeesOK(loan.fees) /\ loan.borrower \in Outside
         /\ loan.lender \in Outside
<1>1. loan.fees \in [FeeTypes -> FeeType]
  BY DEF LoanType
<1>2. \A type \in FeeTypes : loan.fees[type].interest_bps \in Nat
  BY <1>1, FeeTyped
<1> QED
  BY <1>1, <1>2 DEF LoanType, IsTerms, LoanFeesOK, Outside

LEMMA NewLoanTyped ==
  ASSUME NEW offer \in Offers, NEW borrower \in Wallets, NEW nft \in Nfts, NEW fees,
         LoanFeesOK(fees), NEW delegate \in Delegates \cup {None}, now \in Nat
  PROVE  /\ NewLoan(offer, borrower, nft, fees, delegate) \in LoanType
         /\ NewLoan(offer, borrower, nft, fees, delegate).start_time = now
  BY OffersAssumption DEF NewLoan, LoanType, LoanFeesOK, TracingIds

----------------------------------------------------------------------------
(* Funds: every action keeps their types and what the vault holds beyond    *)
(* what it owes.                                                            *)

FundsKept == FundsTyped' /\ VaultHoldsWhatItOwes' /\ PendingAddsUp'

LEMMA CurrentFundsTyped ==
  ASSUME FundsTyped, PendingAddsUp
  PROVE  /\ CurrentFunds \in FundsType
         /\ VaultHoldsWhatItOwes <=> Surplus(CurrentFunds) = 0
  BY VaultIsNoParty DEF FundsTyped, PendingAddsUp, CurrentFunds, FundsType, Surplus,
     VaultHoldsWhatItOwes

LEMMA SetFundsKeeps ==
  ASSUME NEW f \in FundsType, Surplus(f) = 0, FundsTyped, SetFunds(f),
         UNCHANGED blacklisted
  PROVE  FundsKept
<1>1. FundsTyped' /\ VaultHoldsWhatItOwes'
  BY VaultIsNoParty DEF FundsType, Surplus, SetFunds, FundsTyped, VaultHoldsWhatItOwes
<1>2. PendingAddsUp'
  BY DEF FundsType, SetFunds, PendingAddsUp, AddsUpTo, Units
<1> QED
  BY <1>1, <1>2 DEF FundsKept

LEMMA UnchangedFundsKept ==
  ASSUME FundsTyped, VaultHoldsWhatItOwes, PendingAddsUp, UNCHANGED fundVars,
         UNCHANGED blacklisted
  PROVE  FundsKept
  BY DEF FundsTyped, VaultHoldsWhatItOwes, PendingAddsUp, AddsUpTo, Units, FundsKept,
     fundVars

\* Between other parties a transfer leaves the surplus alone.
LEMMA TransferOutside ==
  ASSUME NEW f \in FundsType, NEW from \in Outside, NEW to \in Outside \cup {None},
         NEW amount \in Nat, CanTransfer(f, from, to, amount)
  PROVE  /\ Transfer(f, from, to, amount) \in FundsType
         /\ Surplus(Transfer(f, from, to, amount)) = Surplus(f)
<1>1. /\ from \in Accounts /\ from # Vault
      /\ to \in Accounts \cup {None} /\ to # Vault
  BY VaultIsNoParty
<1> DEFINE g == Transfer(f, from, to, amount)
<1>2. g \in FundsType /\ g.owed = f.owed /\ g.balance[Vault] = f.balance[Vault]
  BY <1>1, TransferMoves
<1> HIDE DEF g
<1> QED
  BY <1>2 DEF Surplus, g

\* No loan starts in the future.
LoansStarted == \A loan \in loans : loan.start_time <= now

LEMMA CreateLoanFunds ==
  ASSUME TypeOK, PendingAddsUp, VaultHoldsWhatItOwes, NEW msg \in Messages, NEW offer \in Offers,
         NEW nft \in Nfts, NEW d \in Delegates \cup {None}, NEW b \in BrokerTerms,
         CreateLoan(msg, offer, nft, d, b)
  PROVE  FundsKept
<1> DEFINE borrower == IF msg.sender \in authorized_proxies THEN msg.origin ELSE msg.sender
           fees == LoanFees(offer, b, protocol)
           proceeds == BorrowerProceeds(offer, fees)
           Upfront(type) == fees[type].upfront_amount
           Paid(f, type) == IF Upfront(type) > 0
                              THEN Transfer(f, offer.lender, fees[type].wallet, Upfront(type))
                              ELSE f
           CanPay(f, type) == Upfront(type) > 0
                  => CanTransfer(f, offer.lender, fees[type].wallet, Upfront(type))
           f0 == CurrentFunds
           f1 == Transfer(f0, offer.lender, borrower, proceeds)
           f2 == Paid(f1, "PROTOCOL_FEE")
           f3 == Paid(f2, "LENDER_BROKER_FEE")
           f4 == Paid(f3, "BORROWER_BROKER_FEE")
<1>1. /\ FundsTyped /\ AdminTyped /\ CustodyTyped
  BY DEF TypeOK
<1>2. /\ nft_owner[nft] = borrower /\ BorrowerProceedsDefined(offer, fees)
      /\ CanTransfer(f0, offer.lender, borrower, proceeds)
      /\ CanPay(f1, "PROTOCOL_FEE")
      /\ CanPay(f2, "LENDER_BROKER_FEE")
      /\ CanPay(f3, "BORROWER_BROKER_FEE")
      /\ SetFunds(f4) /\ UNCHANGED blacklisted
  BY DEF CreateLoan
<1>3. /\ b \in FeeTerms /\ offer.lender \in Outside
      /\ LoanFeesDefined(offer, b, protocol, FeeCaps, None)
  BY OfferTyped, TermsAssumption DEF Outside, CreateLoan
<1>4. /\ LoanFeesOK(fees)
      /\ \A type \in FeeTypes : Upfront(type) \in Nat
  BY <1>1, <1>3, FeesTyped
<1>5. \A type \in FeeTypes : fees[type].wallet \in Outside \cup {None}
  BY <1>4, FeeTyped DEF LoanFeesOK
<1>6. proceeds \in Nat
  BY <1>2, <1>4, OfferTyped DEF BorrowerProceeds, BorrowerProceedsDefined,
     TotalUpfrontFees, FeeTypes, IsOffer
<1>7. borrower \in Outside
  BY <1>1, <1>2, MessagesTyped, PartiesAssumption DEF CustodyTyped, Keepers, Outside
<1>8. f0 \in FundsType /\ Surplus(f0) = 0
  BY <1>1, CurrentFundsTyped
<1>9. f1 \in FundsType /\ Surplus(f1) = 0
  <2> HIDE DEF f0, proceeds, borrower
  <2> QED
    BY <1>2, <1>3, <1>6, <1>7, <1>8, TransferOutside
<1>10. ASSUME NEW f \in FundsType, Surplus(f) = 0, NEW type \in FeeTypes, CanPay(f, type)
       PROVE  Paid(f, type) \in FundsType /\ Surplus(Paid(f, type)) = 0
  <2>1. CASE Upfront(type) > 0
    <3> DEFINE to == fees[type].wallet
               amount == Upfront(type)
    <3>1. to \in Outside \cup {None} /\ amount \in Nat
      BY <1>4, <1>5, <1>10
    <3>2. CanTransfer(f, offer.lender, to, amount)
      BY <1>10, <2>1
    <3>3. Paid(f, type) = Transfer(f, offer.lender, to, amount)
      BY <2>1
    <3> DEFINE g == Transfer(f, offer.lender, to, amount)
    <3>4. g \in FundsType /\ Surplus(g) = Surplus(f)
      <4> HIDE DEF to, amount
      <4> QED
        BY <1>3, <1>10, <3>1, <3>2, TransferOutside
    <3> QED
      BY <1>10, <3>3, <3>4
  <2>2. CASE ~(Upfront(type) > 0)
    BY <1>10, <2>2
  <2> QED
    BY <2>1, <2>2
<1> HIDE DEF f1, Paid, CanPay
<1>11. f2 \in FundsType /\ Surplus(f2) = 0
  BY <1>2, <1>9, <1>10 DEF FeeTypes
<1> HIDE DEF f2
<1>12. f3 \in FundsType /\ Surplus(f3) = 0
  BY <1>2, <1>11, <1>10 DEF FeeTypes
<1> HIDE DEF f3
<1>13. f4 \in FundsType /\ Surplus(f4) = 0
  BY <1>2, <1>12, <1>10 DEF FeeTypes
<1> HIDE DEF f4
<1> QED
  BY <1>1, <1>2, <1>13, SetFundsKeeps

LEMMA SettleLoanFunds ==
  ASSUME TypeOK, LoansStarted, PendingAddsUp, VaultHoldsWhatItOwes, NEW msg \in Messages,
         NEW loan \in loans, SettleLoan(msg, loan)
  PROVE  FundsKept
<1> DEFINE interest == SettlementInterest(loan, now)
           due == Repayment(loan, interest)
           proceeds == LenderProceeds(loan, interest)
           f0 == CurrentFunds
           f1 == ReceiveFunds(f0, loan.borrower, due)
           f2 == SendFunds(f1, loan.lender, proceeds)
           f3 == SendSettlementFees(f2, loan, interest)
<1>1. FundsTyped /\ loan \in LoanType /\ now \in Nat /\ loan.start_time <= now
  BY DEF TypeOK, LoansTyped, LoansStarted
<1>2. /\ InterestDefined(loan) /\ LenderProceedsDefined(loan, interest)
      /\ CanReceiveFunds(f0, loan.borrower, due)
      /\ SetFunds(f3) /\ UNCHANGED blacklisted
  BY DEF SettleLoan
<1>3. /\ IsTerms(loan) /\ LoanFeesOK(loan.fees)
      /\ loan.borrower \in Outside /\ loan.lender \in Outside
  BY <1>1, LoanTyped
<1>4. interest \in Nat
  BY <1>1, <1>2, <1>3, InterestNat
<1> HIDE DEF interest
<1>5. \A type \in FeeTypes : SettlementFee(loan, interest, type) \in Nat
  BY <1>3, <1>4, SettlementFeeNat
<1>6. /\ due \in Nat /\ proceeds \in Nat
      /\ SettlementFeesTotal(loan, interest) \in Nat
      /\ due = proceeds + SettlementFeesTotal(loan, interest)
  BY <1>2, <1>3, <1>4, <1>5 DEF Repayment, LenderProceeds, LenderProceedsDefined,
     SettlementFeesTotal, BorrowerBrokerFee, FeeTypes, IsTerms
<1> HIDE DEF due, proceeds
<1>7. f0 \in FundsType /\ Surplus(f0) = 0
  BY <1>1, CurrentFundsTyped
<1> HIDE DEF f0
<1>8. f1 \in FundsType /\ Surplus(f1) = due
  BY <1>2, <1>3, <1>6, <1>7, ReceiveFundsAdds
<1> HIDE DEF f1
<1>9. f2 \in FundsType /\ Surplus(f2) = due - proceeds
  BY <1>3, <1>6, <1>8, SendFundsTakes
<1> HIDE DEF f2
<1>10. f3 \in FundsType /\ Surplus(f3) = 0
  BY <1>3, <1>4, <1>6, <1>9, SendSettlementFeesTakes
<1> HIDE DEF f3
<1> QED
  BY <1>1, <1>2, <1>10, SetFundsKeeps

LEMMA ReplaceLoanFunds ==
  ASSUME TypeOK, LoansStarted, PendingAddsUp, VaultHoldsWhatItOwes, NEW msg \in Messages,
         NEW loan \in loans, NEW offer \in Offers, NEW b \in BrokerTerms,
         ReplaceLoan(msg, loan, offer, b)
  PROVE  FundsKept
<1> DEFINE interest == SettlementInterest(loan, now)
           fees == LoanFees(offer, b, protocol)
           delta == ReplaceBorrowerDelta(loan, offer, fees, interest)
           current == LenderProceeds(loan, interest)
           new == NewLenderPays(offer)
           same == loan.lender = offer.lender
           from == IF same THEN new - current ELSE new
           f0 == CurrentFunds
           f1 == IF delta < 0 THEN ReceiveFunds(f0, loan.borrower, -delta) ELSE f0
           f2 == IF same /\ from <= 0 THEN f1 ELSE ReceiveFunds(f1, offer.lender, from)
           f3 == IF same THEN SendIf(from < 0, f2, loan.lender, -from)
                         ELSE SendFunds(f2, loan.lender, current)
           f4 == SendIf(delta > 0, f3, loan.borrower, delta)
           f5 == SendSettlementFees(f4, loan, interest)
           f6 == SendUpfrontFees(f5, fees)
           settled == SettlementFeesTotal(loan, interest)
           upfront == fees["PROTOCOL_FEE"].upfront_amount
                      + fees["LENDER_BROKER_FEE"].upfront_amount
                      + fees["BORROWER_BROKER_FEE"].upfront_amount
<1>1. /\ FundsTyped /\ AdminTyped /\ loan \in LoanType
      /\ now \in Nat /\ loan.start_time <= now
  BY DEF TypeOK, LoansTyped, LoansStarted
<1>2. /\ Replace(loan, offer, fees) /\ LenderProceedsDefined(loan, interest)
      /\ LoanFeesDefined(offer, b, protocol, FeeCaps, None)
      /\ delta < 0 => CanReceiveFunds(f0, loan.borrower, -delta)
      /\ ~(same /\ from <= 0) => CanReceiveFunds(f1, offer.lender, from)
      /\ SetFunds(f6) /\ UNCHANGED blacklisted
  BY DEF ReplaceLoan
<1>3. InterestDefined(loan) /\ offer.origination_fee_amount <= offer.principal
  BY <1>2 DEF Replace, LoanFeesDefined
<1>4. /\ IsTerms(loan) /\ LoanFeesOK(loan.fees) /\ IsOffer(offer)
      /\ loan.borrower \in Outside /\ loan.lender \in Outside /\ offer.lender \in Outside
  BY <1>1, LoanTyped, OfferTyped DEF Outside
<1>5. interest \in Nat
  BY <1>1, <1>3, <1>4, InterestNat
<1> HIDE DEF interest
<1>6. /\ LoanFeesOK(fees)
      /\ \A type \in FeeTypes : fees[type].upfront_amount \in Nat
      /\ fees["ORIGINATION_FEE"].upfront_amount = offer.origination_fee_amount
  <2>1. b \in FeeTerms
    BY TermsAssumption
  <2> QED
    BY <1>1, <1>2, <2>1, FeesTyped
<1> HIDE DEF fees
<1>7. \A type \in FeeTypes : SettlementFee(loan, interest, type) \in Nat
  BY <1>4, <1>5, SettlementFeeNat
<1>8. /\ settled \in Nat /\ upfront \in Nat /\ current \in Nat /\ new \in Nat
      /\ delta \in Int
      /\ new = current + delta + settled + upfront
  BY <1>2, <1>3, <1>4, <1>5, <1>6, <1>7 DEF LenderProceeds, LenderProceedsDefined,
     SettlementFeesTotal, BorrowerBrokerFee, FeeTypes, IsTerms, IsOffer, NewLenderPays,
     ReplaceBorrowerDelta, TotalUpfrontFees
<1> HIDE DEF settled, upfront, current, new, delta
<1>9. f0 \in FundsType /\ Surplus(f0) = 0
  BY <1>1, CurrentFundsTyped
<1> HIDE DEF f0
<1>10. f1 \in FundsType /\ Surplus(f1) = IF delta < 0 THEN -delta ELSE 0
  <2>1. CASE delta < 0
    <3>1. -delta \in Nat
      BY <1>8, <2>1
    <3> QED
      BY <1>2, <1>4, <1>9, <2>1, <3>1, ReceiveFundsAdds
  <2>2. CASE ~(delta < 0)
    BY <1>9, <2>2
  <2> QED
    BY <2>1, <2>2
<1> HIDE DEF f1
<1>11. from \in Int /\ (~(same /\ from <= 0) => from \in Nat)
  BY <1>8
<1>12. f2 \in FundsType
       /\ Surplus(f2) = Surplus(f1) + IF same /\ from <= 0 THEN 0 ELSE from
  <2>1. CASE same /\ from <= 0
    BY <1>10, <2>1, SurplusInt
  <2>2. CASE ~(same /\ from <= 0)
    <3>1. from \in Nat /\ CanReceiveFunds(f1, offer.lender, from)
      BY <1>2, <1>11, <2>2
    <3>2. f2 = ReceiveFunds(f1, offer.lender, from)
      BY <2>2
    <3> HIDE DEF from, f2
    <3>3. f2 \in FundsType /\ Surplus(f2) = Surplus(f1) + from
      BY <1>4, <1>10, <3>1, <3>2, ReceiveFundsAdds
    <3> QED
      BY <2>2, <3>3
  <2> QED
    BY <2>1, <2>2
<1> HIDE DEF f2
<1>13. f3 \in FundsType
       /\ Surplus(f3) = Surplus(f1) + new - current
  <2>1. CASE ~same
    <3>1. f3 = SendFunds(f2, loan.lender, current) /\ from = new
      BY <2>1
    <3>2. f3 \in FundsType /\ Surplus(f3) = Surplus(f2) - current
      BY <1>4, <1>8, <1>12, <3>1, SendFundsTakes
    <3> QED
      BY <1>8, <1>10, <1>12, <2>1, <3>1, <3>2, SurplusInt
  <2>2. CASE same /\ from < 0
    <3>1. f3 = SendFunds(f2, loan.lender, -from) /\ -from \in Nat /\ from = new - current
      BY <1>11, <2>2 DEF SendIf
    <3> HIDE DEF from, f3
    <3>2. f3 \in FundsType /\ Surplus(f3) = Surplus(f2) + from
      <4>1. Surplus(f3) = Surplus(f2) - (-from) /\ f3 \in FundsType
        BY <1>4, <1>12, <3>1, SendFundsTakes
      <4> QED
        BY <1>11, <1>12, <4>1, SurplusInt
    <3> QED
      BY <1>8, <1>10, <1>11, <1>12, <2>2, <3>1, <3>2, SurplusInt
  <2>3. CASE same /\ ~(from < 0)
    <3>1. f3 = f2 /\ from = new - current
      BY <2>3 DEF SendIf
    <3> HIDE DEF from, f3
    <3> QED
      BY <1>8, <1>10, <1>11, <1>12, <2>3, <3>1, SurplusInt
  <2> QED
    BY <2>1, <2>2, <2>3
<1> HIDE DEF f3, from, same
<1>14. f4 \in FundsType /\ Surplus(f4) = new - current - delta
  <2>1. CASE delta > 0
    <3>1. f4 = SendFunds(f3, loan.borrower, delta) /\ delta \in Nat
      BY <1>8, <2>1 DEF SendIf
    <3> HIDE DEF f4
    <3>2. f4 \in FundsType /\ Surplus(f4) = Surplus(f3) - delta
      BY <1>4, <1>13, <3>1, SendFundsTakes
    <3> QED
      BY <1>8, <1>10, <1>13, <2>1, <3>2
  <2>2. CASE ~(delta > 0)
    <3>1. f4 = f3
      BY <2>2 DEF SendIf
    <3> HIDE DEF f4
    <3> QED
      BY <1>8, <1>10, <1>13, <2>2, <3>1
  <2> QED
    BY <2>1, <2>2
<1> HIDE DEF f4
<1>15. f5 \in FundsType /\ Surplus(f5) = Surplus(f4) - settled
  BY <1>4, <1>5, <1>14, SendSettlementFeesTakes DEF settled
<1> HIDE DEF f5
<1>16. f6 \in FundsType /\ Surplus(f6) = Surplus(f5) - upfront
  BY <1>6, <1>15, SendUpfrontFeesTakes DEF upfront
<1> HIDE DEF f6
<1>17. Surplus(f6) = 0
  BY <1>8, <1>14, <1>15, <1>16
<1> QED
  BY <1>1, <1>2, <1>16, <1>17, SetFundsKeeps

LEMMA ReplaceLoanLenderFunds ==
  ASSUME TypeOK, LoansStarted, PendingAddsUp, VaultHoldsWhatItOwes, NEW msg \in Messages,
         NEW loan \in loans, NEW offer \in Offers, ReplaceLoanLender(msg, loan, offer)
  PROVE  FundsKept
<1> DEFINE interest == SettlementInterest(loan, now)
           fees == LoanFees(offer, NoBroker, protocol)
           delta == LenderReplaceBorrowerDelta(loan, offer, interest, now)
           current == LenderReplaceCurrentDelta(loan, offer, fees, interest, now)
           new == NewLenderPays(offer)
           same == loan.lender = offer.lender
           from == IF same THEN new - current ELSE new
           f0 == CurrentFunds
           f1 == IF same /\ from = 0 THEN f0 ELSE ReceiveFunds(f0, offer.lender, from)
           f2 == SendIf(~same /\ current > 0, f1, loan.lender, current)
           f3 == SendIf(delta > 0, f2, loan.borrower, delta)
           f4 == SendSettlementFees(f3, loan, interest)
           f5 == SendUpfrontFees(f4, fees)
           settled == SettlementFeesTotal(loan, interest)
           upfront == fees["PROTOCOL_FEE"].upfront_amount
                      + fees["LENDER_BROKER_FEE"].upfront_amount
                      + fees["BORROWER_BROKER_FEE"].upfront_amount
<1>1. /\ FundsTyped /\ AdminTyped /\ loan \in LoanType
      /\ now \in Nat /\ loan.start_time <= now
  BY DEF TypeOK, LoansTyped, LoansStarted
<1>2. /\ Replace(loan, offer, fees) /\ MaxInterestDeltaDefined(offer)
      /\ LoanFeesDefined(offer, NoBroker, protocol, FeeCaps, None)
      /\ delta >= 0
      /\ IF same THEN from >= 0 ELSE current >= 0
      /\ ~(same /\ from = 0) => CanReceiveFunds(f0, offer.lender, from)
      /\ SetFunds(f5) /\ UNCHANGED blacklisted
  BY DEF ReplaceLoanLender
<1>3. InterestDefined(loan) /\ offer.origination_fee_amount <= offer.principal
  BY <1>2 DEF Replace, LoanFeesDefined
<1>4. /\ IsTerms(loan) /\ LoanFeesOK(loan.fees) /\ IsOffer(offer)
      /\ loan.borrower \in Outside /\ loan.lender \in Outside /\ offer.lender \in Outside
  BY <1>1, LoanTyped, OfferTyped DEF Outside
<1>5. interest \in Nat
  BY <1>1, <1>3, <1>4, InterestNat
<1> HIDE DEF interest
<1>6. /\ LoanFeesOK(fees)
      /\ \A type \in FeeTypes : fees[type].upfront_amount \in Nat
      /\ fees["ORIGINATION_FEE"].upfront_amount = offer.origination_fee_amount
  BY <1>1, <1>2, FeesTyped, NoBrokerTyped
<1> HIDE DEF fees
<1>7. \A type \in FeeTypes : SettlementFee(loan, interest, type) \in Nat
  BY <1>4, <1>5, SettlementFeeNat
<1>8. MaxInterestDelta(loan, offer, interest, now) \in Int
  BY <1>1, <1>2, <1>4, <1>5, MaxInterestDeltaInt
<1>9. new = current + delta + (settled + upfront)
  <2>1. new = current + delta + Spent(loan, fees, interest)
    BY <1>1, <1>4, <1>5, <1>6, <1>8, ReplacementConservesTheorem
  <2>2. Spent(loan, fees, interest) = settled + upfront
    BY DEF Spent
  <2> QED
    BY <2>1, <2>2
<1>10. /\ settled \in Nat /\ upfront \in Nat /\ new \in Nat
  BY <1>3, <1>4, <1>5, <1>6, <1>7 DEF SettlementFeesTotal, FeeTypes, IsOffer, NewLenderPays
<1>11. delta \in Int /\ current \in Int
  <2>1. BorrowerBrokerFee(loan, interest) \in Nat
    BY <1>7 DEF BorrowerBrokerFee, FeeTypes
  <2>2. BorrowerCompensation(loan, offer, interest, now) \in Int
    <3> DEFINE extra == MaxInterestDelta(loan, offer, interest, now)
               due == interest + BorrowerBrokerFee(loan, interest)
                        - (offer.principal - loan.amount)
    <3>1. extra \in Int /\ due \in Int
      BY <1>4, <1>5, <1>8, <2>1 DEF IsTerms, IsOffer
    <3>2. BorrowerCompensation(loan, offer, interest, now) = MaxOf(extra, due)
      BY DEF BorrowerCompensation
    <3> HIDE DEF extra, due
    <3> QED
      BY <3>1, <3>2 DEF MaxOf
  <2> QED
    BY <1>4, <1>5, <1>6, <1>10, <2>1, <2>2 DEF LenderReplaceBorrowerDelta,
       LenderReplaceCurrentDelta, TotalUpfrontFees, FeeTypes, IsTerms, IsOffer
<1> HIDE DEF settled, upfront, current, new, delta
<1>12. f0 \in FundsType /\ Surplus(f0) = 0
  BY <1>1, CurrentFundsTyped
<1> HIDE DEF f0
<1>13. from \in Nat
  BY <1>2, <1>10, <1>11
<1>14. f1 \in FundsType /\ Surplus(f1) = from
  <2>1. CASE same /\ from = 0
    BY <1>12, <2>1
  <2>2. CASE ~(same /\ from = 0)
    <3>1. f1 = ReceiveFunds(f0, offer.lender, from) /\ CanReceiveFunds(f0, offer.lender, from)
      BY <1>2, <2>2
    <3> HIDE DEF from, f1
    <3> QED
      BY <1>4, <1>12, <1>13, <3>1, ReceiveFundsAdds
  <2> QED
    BY <2>1, <2>2
<1> HIDE DEF f1
<1>15. f2 \in FundsType /\ Surplus(f2) = new - current
  <2>1. CASE ~same /\ current > 0
    <3>1. f2 = SendFunds(f1, loan.lender, current) /\ current \in Nat /\ from = new
      BY <1>11, <2>1 DEF SendIf
    <3> HIDE DEF f2, from
    <3>2. f2 \in FundsType /\ Surplus(f2) = Surplus(f1) - current
      BY <1>4, <1>14, <3>1, SendFundsTakes
    <3> QED
      BY <1>10, <1>11, <1>14, <3>1, <3>2
  <2>2. CASE ~(~same /\ current > 0)
    <3>1. f2 = f1
      BY <2>2 DEF SendIf
    <3>2. from = new - current
      BY <1>2, <1>10, <1>11, <2>2
    <3> HIDE DEF f2, from
    <3> QED
      BY <1>14, <3>1, <3>2
  <2> QED
    BY <2>1, <2>2
<1> HIDE DEF f2, from, same
<1>16. f3 \in FundsType /\ Surplus(f3) = new - current - delta
  <2>1. CASE delta > 0
    <3>1. f3 = SendFunds(f2, loan.borrower, delta) /\ delta \in Nat
      BY <1>11, <2>1 DEF SendIf
    <3> HIDE DEF f3
    <3>2. f3 \in FundsType /\ Surplus(f3) = Surplus(f2) - delta
      BY <1>4, <1>15, <3>1, SendFundsTakes
    <3> QED
      BY <1>10, <1>11, <1>15, <3>2
  <2>2. CASE ~(delta > 0)
    <3>1. f3 = f2 /\ delta = 0
      BY <1>2, <1>11, <2>2 DEF SendIf
    <3> HIDE DEF f3
    <3> QED
      BY <1>10, <1>11, <1>15, <3>1
  <2> QED
    BY <2>1, <2>2
<1> HIDE DEF f3
<1>17. f4 \in FundsType /\ Surplus(f4) = Surplus(f3) - settled
  BY <1>4, <1>5, <1>16, SendSettlementFeesTakes DEF settled
<1> HIDE DEF f4
<1>18. f5 \in FundsType /\ Surplus(f5) = Surplus(f4) - upfront
  BY <1>6, <1>17, SendUpfrontFeesTakes DEF upfront
<1> HIDE DEF f5
<1>19. Surplus(f5) = 0
  BY <1>9, <1>10, <1>11, <1>16, <1>17, <1>18
<1> QED
  BY <1>1, <1>2, <1>18, <1>19, SetFundsKeeps

\* A claim can be paid because the vault holds what it owes.
LEMMA ClaimPendingTransfersFunds ==
  ASSUME FundsTyped, PendingAddsUp, VaultHoldsWhatItOwes, NEW account \in Wallets \cup Payees,
         ClaimPendingTransfers(account)
  PROVE  FundsKept
<1> DEFINE amount == pending_transfers[account]
           cleared == [balance |-> balance, owed |-> owed - amount,
                       pending |-> [pending_transfers EXCEPT ![account] = 0]]
           g == Transfer(cleared, Vault, account, amount)
<1>1. /\ CanTransfer(cleared, Vault, account, amount)
      /\ SetFunds(g) /\ UNCHANGED blacklisted
  BY DEF ClaimPendingTransfers
<1>2. /\ account \in Accounts /\ account # Vault /\ Vault \in Accounts
      /\ amount \in Nat /\ balance[Vault] \in Nat
  BY VaultIsNoParty DEF FundsTyped, Outside
<1>3. /\ owed - amount \in Nat /\ balance[Vault] - (owed - amount) = amount
      /\ AddsUpTo([pending_transfers EXCEPT ![account] = 0], owed - amount)
  <2>1. /\ pending_transfers \in [Accounts -> Nat] /\ owed \in Nat
        /\ AddsUpTo(pending_transfers, owed)
    BY DEF FundsTyped, PendingAddsUp
  <2>2. /\ amount <= owed
        /\ AddsUpTo([pending_transfers EXCEPT ![account] = 0], owed - amount)
    BY <1>2, <2>1, AmountCleared
  <2> QED
    BY <1>2, <2>1, <2>2 DEF VaultHoldsWhatItOwes
<1>4. [pending_transfers EXCEPT ![account] = 0] \in [Accounts -> Nat]
  BY <1>2 DEF FundsTyped
<1>5. cleared \in FundsType /\ cleared.balance[Vault] - cleared.owed = amount
  BY <1>3, <1>4 DEF FundsTyped, FundsType
<1> HIDE DEF cleared
<1>6. /\ g \in FundsType /\ g.owed = cleared.owed
      /\ g.balance[Vault] = cleared.balance[Vault] - amount
  BY <1>1, <1>2, <1>5, TransferMoves
<1>7. cleared.balance[Vault] \in Nat /\ cleared.owed \in Nat
  BY <1>2, <1>5 DEF FundsType
<1> HIDE DEF g, amount
<1>8. Surplus(g) = 0
  BY <1>2, <1>5, <1>6, <1>7 DEF Surplus, amount
<1> QED
  BY <1>1, <1>6, <1>8, SetFundsKeeps

----------------------------------------------------------------------------
(* The inductive invariant. *)

\* The inductive invariant.  A loan's interest is a natural because it has
\* started; a claim keeps `owed` natural because the amount is part of it, and
\* can be paid because the vault holds it;
\* a new loan is counted because its NFT carried none, and an ended one
\* because it was the only one on its NFT.
IInv ==
  /\ TypeOK
  /\ LoansStarted
  /\ IsFiniteSet(loans)
  /\ CustodyMatchesLoans
  /\ OfferCountMatchesLoans
  /\ VaultHoldsWhatItOwes
  /\ PendingAddsUp

----------------------------------------------------------------------------
(* Sets of loans. *)

From(S, t) == {loan \in S : loan.offer_tracing_id = t}

\* What a loan adds to the count of a tracing id.
Share(loan, t) == IF loan.offer_tracing_id = t THEN 1 ELSE 0

LEMMA ShareNat == \A loan, t : Share(loan, t) \in Nat
  BY DEF Share

LEMMA CountAdded ==
  ASSUME NEW S, IsFiniteSet(S), NEW new, new \notin S, NEW t
  PROVE  /\ IsFiniteSet(S \cup {new})
         /\ Cardinality(From(S, t)) \in Nat
         /\ Cardinality(From(S \cup {new}, t))
              = Cardinality(From(S, t)) + Share(new, t)
<1>1. IsFiniteSet(S \cup {new})
  BY FS_AddElement
<1>2. From(S, t) \in SUBSET S
  BY DEF From
<1>3. IsFiniteSet(From(S, t)) /\ Cardinality(From(S, t)) \in Nat
  BY <1>2, FS_Subset, FS_CardinalityType
<1>4. CASE new.offer_tracing_id = t
  <2>1. From(S \cup {new}, t) = From(S, t) \cup {new} /\ new \notin From(S, t)
    BY <1>4 DEF From
  <2> QED
    BY <1>1, <1>3, <1>4, <2>1, FS_AddElement DEF Share
<1>5. CASE new.offer_tracing_id # t
  <2>1. From(S \cup {new}, t) = From(S, t)
    BY <1>5 DEF From
  <2> QED
    BY <1>1, <1>3, <1>5, <2>1 DEF Share
<1> QED
  BY <1>4, <1>5

LEMMA CountRemoved ==
  ASSUME NEW S, IsFiniteSet(S), NEW old \in S, NEW t
  PROVE  /\ IsFiniteSet(S \ {old})
         /\ Cardinality(From(S \ {old}, t)) \in Nat
         /\ Cardinality(From(S, t))
              = Cardinality(From(S \ {old}, t)) + Share(old, t)
<1> DEFINE R == S \ {old}
<1>1. IsFiniteSet(R)
  BY FS_RemoveElement
<1>2. old \notin R /\ R \cup {old} = S
  OBVIOUS
<1> HIDE DEF R
<1>3. /\ Cardinality(From(R, t)) \in Nat
      /\ Cardinality(From(R \cup {old}, t))
           = Cardinality(From(R, t)) + Share(old, t)
  BY <1>1, <1>2, CountAdded
<1> QED
  BY <1>1, <1>2, <1>3 DEF R

\* The three ways the loans and their collateral change together.
LEMMA CustodyAdded ==
  ASSUME CustodyTyped, CustodyMatchesLoans, NEW new, new.collateral \in Nfts,
         nft_owner[new.collateral] # Vault,
         loans' = loans \cup {new},
         nft_owner' = [nft_owner EXCEPT ![new.collateral] = Vault]
  PROVE  CustodyMatchesLoans'
<1>1. SUFFICES ASSUME NEW nft \in Nfts
               PROVE  /\ nft_owner'[nft] = Vault <=> LoansOn(nft)' # {}
                      /\ \A a, b \in LoansOn(nft)' : a = b
  BY DEF CustodyMatchesLoans
<1>2. /\ nft_owner[nft] = Vault <=> LoansOn(nft) # {}
      /\ \A a, b \in LoansOn(nft) : a = b
  BY DEF CustodyMatchesLoans
<1>3. CASE nft = new.collateral
  <2>1. LoansOn(nft)' = {new}
    BY <1>2, <1>3 DEF LoansOn
  <2> QED
    BY <1>3, <2>1 DEF CustodyTyped
<1>4. CASE nft # new.collateral
  <2>1. LoansOn(nft)' = LoansOn(nft)
    BY <1>4 DEF LoansOn
  <2> QED
    BY <1>2, <1>4, <2>1 DEF CustodyTyped
<1> QED
  BY <1>3, <1>4

LEMMA CustodyRemoved ==
  ASSUME CustodyTyped, CustodyMatchesLoans, NEW loan \in loans, loan.collateral \in Nfts,
         NEW wallet \in Wallets,
         loans' = loans \ {loan},
         nft_owner' = [nft_owner EXCEPT ![loan.collateral] = wallet]
  PROVE  CustodyMatchesLoans'
<1>1. SUFFICES ASSUME NEW nft \in Nfts
               PROVE  /\ nft_owner'[nft] = Vault <=> LoansOn(nft)' # {}
                      /\ \A a, b \in LoansOn(nft)' : a = b
  BY DEF CustodyMatchesLoans
<1>2. /\ nft_owner[nft] = Vault <=> LoansOn(nft) # {}
      /\ \A a, b \in LoansOn(nft) : a = b
  BY DEF CustodyMatchesLoans
<1>3. CASE nft = loan.collateral
  <2>1. LoansOn(nft)' = {}
    BY <1>2, <1>3 DEF LoansOn
  <2>2. wallet # Vault
    BY PartiesAssumption
  <2> QED
    BY <1>3, <2>1, <2>2 DEF CustodyTyped
<1>4. CASE nft # loan.collateral
  <2>1. LoansOn(nft)' = LoansOn(nft)
    BY <1>4 DEF LoansOn
  <2> QED
    BY <1>2, <1>4, <2>1 DEF CustodyTyped
<1> QED
  BY <1>3, <1>4

LEMMA CustodyReplaced ==
  ASSUME CustodyMatchesLoans, NEW loan \in loans, NEW new,
         new.collateral = loan.collateral,
         loans' = (loans \ {loan}) \cup {new},
         nft_owner' = nft_owner
  PROVE  CustodyMatchesLoans'
<1>1. SUFFICES ASSUME NEW nft \in Nfts
               PROVE  /\ nft_owner'[nft] = Vault <=> LoansOn(nft)' # {}
                      /\ \A a, b \in LoansOn(nft)' : a = b
  BY DEF CustodyMatchesLoans
<1>2. /\ nft_owner[nft] = Vault <=> LoansOn(nft) # {}
      /\ \A a, b \in LoansOn(nft) : a = b
  BY DEF CustodyMatchesLoans
<1>3. CASE nft = loan.collateral
  <2>1. LoansOn(nft)' = {new} /\ LoansOn(nft) # {}
    BY <1>2, <1>3 DEF LoansOn
  <2> QED
    BY <1>2, <2>1
<1>4. CASE nft # loan.collateral
  <2>1. LoansOn(nft)' = LoansOn(nft)
    BY <1>4 DEF LoansOn
  <2> QED
    BY <1>2, <2>1
<1> QED
  BY <1>3, <1>4

----------------------------------------------------------------------------
(* The actions. *)

LEMMA UnchangedTyped ==
  ASSUME TypeOK
  PROVE  /\ UNCHANGED adminVars => AdminTyped'
         /\ UNCHANGED controlVars => ControlTyped'
         /\ UNCHANGED custodyVars => CustodyTyped'
         /\ UNCHANGED now => now' \in 0..MaxTime
  BY DEF TypeOK, AdminTyped, ControlTyped, CustodyTyped, adminVars, controlVars,
     custodyVars, Control!TypeOK

LEMMA CreateLoanKeeps ==
  ASSUME IInv, NEW msg \in Messages, NEW offer \in Offers, NEW nft \in Nfts,
         NEW d \in Delegates \cup {None}, NEW b \in BrokerTerms,
         CreateLoan(msg, offer, nft, d, b)
  PROVE  IInv'
<1> DEFINE borrower == IF msg.sender \in authorized_proxies THEN msg.origin ELSE msg.sender
           fees == LoanFees(offer, b, protocol)
           new == NewLoan(offer, borrower, nft, fees, d)
<1>1. /\ TypeOK /\ LoansStarted /\ IsFiniteSet(loans) /\ CustodyMatchesLoans
      /\ OfferCountMatchesLoans /\ VaultHoldsWhatItOwes /\ PendingAddsUp
      /\ LoansTyped /\ AdminTyped /\ CustodyTyped /\ now \in Nat
  BY DEF IInv, TypeOK
<1>2. /\ nft_owner[nft] = borrower
      /\ loans' = loans \cup {new}
      /\ offer_count' = Counted(offer_count, offer.tracing_id, 1)
      /\ revoked_offers' = revoked_offers \cup RevokedBy(offer)
      /\ nft_owner' = [nft_owner EXCEPT ![nft] = Vault]
      /\ delegations' = delegations \cup Delegation(new)
      /\ UNCHANGED <<now, adminVars, callbacks, refusing, controlVars, claimed>>
  BY DEF CreateLoan
<1>3. borrower \in Wallets /\ borrower # Vault
  BY <1>1, <1>2, MessagesTyped, PartiesAssumption DEF CustodyTyped, Keepers
<1>4. LoanFeesOK(fees)
  <2>1. b \in FeeTerms /\ LoanFeesDefined(offer, b, protocol, FeeCaps, None)
    BY TermsAssumption DEF CreateLoan
  <2> QED
    BY <1>1, <2>1, FeesTyped
<1>5. /\ new \in LoanType /\ new.start_time = now
      /\ new.collateral = nft /\ new.delegate = d /\ new.offer_tracing_id = offer.tracing_id
  <2>1. new.collateral = nft /\ new.delegate = d /\ new.offer_tracing_id = offer.tracing_id
    BY DEF NewLoan
  <2> HIDE DEF fees, borrower
  <2> QED
    BY <1>1, <1>3, <1>4, <2>1, NewLoanTyped
<1> HIDE DEF new, borrower, fees
<1>6. LoansOn(nft) = {} /\ new \notin loans
  BY <1>1, <1>2, <1>3, <1>5 DEF CustodyMatchesLoans, LoansOn
<1>7. LoansTyped'
  <2>1. offer_count' \in [TracingIds -> Nat]
    BY <1>1, <1>2, OfferTyped DEF LoansTyped, Counted
  <2>2. revoked_offers' \subseteq {o.id : o \in Offers}
    BY <1>1, <1>2 DEF LoansTyped, RevokedBy
  <2> QED
    BY <1>1, <1>2, <1>5, <2>1, <2>2 DEF LoansTyped
<1>8. CustodyTyped'
  <2>1. Delegation(new) \subseteq Delegates \X Nfts
    BY <1>5 DEF Delegation
  <2> QED
    BY <1>1, <1>2, <2>1 DEF CustodyTyped
<1>9. FundsTyped' /\ VaultHoldsWhatItOwes' /\ PendingAddsUp'
  BY <1>1, CreateLoanFunds DEF FundsKept
<1>10. TypeOK'
  BY <1>1, <1>2, <1>7, <1>8, <1>9, UnchangedTyped DEF TypeOK
<1>11. LoansStarted'
  BY <1>1, <1>2, <1>5 DEF LoansStarted
<1>12. CustodyMatchesLoans'
  BY <1>1, <1>2, <1>3, <1>5, CustodyAdded
<1>13. IsFiniteSet(loans')
  BY <1>1, <1>2, FS_AddElement
<1>14. OfferCountMatchesLoans'
  <2>1. SUFFICES ASSUME NEW t \in TracingIds
                 PROVE  offer_count'[t] = Cardinality(From(loans', t)) + claimed'[t]
    BY DEF OfferCountMatchesLoans, LoansFrom, From
  <2>2. offer_count[t] = Cardinality(From(loans, t)) + claimed[t]
    BY <1>1 DEF OfferCountMatchesLoans, LoansFrom, From
  <2>3. /\ Cardinality(From(loans, t)) \in Nat
        /\ Cardinality(From(loans \cup {new}, t))
              = Cardinality(From(loans, t)) + Share(new, t)
    BY <1>1, <1>6, CountAdded
  <2>4. offer_count'[t] = offer_count[t] + Share(new, t)
    BY <1>1, <1>2, <1>5 DEF LoansTyped, Counted, Share
  <2>5. claimed[t] \in Nat /\ claimed' = claimed
    BY <1>1, <1>2 DEF LoansTyped
  <2> QED
    BY <1>2, <1>5, <2>2, <2>3, <2>4, <2>5, ShareNat
<1> QED
  BY <1>9, <1>10, <1>11, <1>12, <1>13, <1>14 DEF IInv

LEMMA PushTyped ==
  ASSUME NEW S, NEW s \in Seq(S), NEW e \in S
  PROVE  <<e>> \o s \in Seq(S)
  OBVIOUS

\* Collateral that goes back to a wallet, with or without a callback.
LEMMA ReturnCollateralTyped ==
  ASSUME CustodyTyped, NEW msg \in Messages, NEW loan \in LoanType, NEW wallet \in Wallets,
         ReturnCollateral(msg, loan, wallet)
  PROVE  CustodyTyped' /\ nft_owner' = [nft_owner EXCEPT ![loan.collateral] = wallet]
<1>1. /\ loan.collateral \in Nfts
      /\ Delegation(loan) \subseteq Delegates \X Nfts
  BY DEF LoanType, Delegation
<1>2. nft_owner' = [nft_owner EXCEPT ![loan.collateral] = wallet]
  BY DEF ReturnCollateral
<1>3. nft_owner' \in [Nfts -> Keepers \cup {Vault}]
  BY <1>1, <1>2 DEF CustodyTyped, Keepers
<1>4. delegations' \subseteq Delegates \X Nfts
  BY DEF ReturnCollateral, CustodyTyped
<1>5. callbacks' \in Seq(CallbackType)
  <2> DEFINE call == [receiver |-> wallet, origin |-> msg.origin, revoked |-> Delegation(loan)]
  <2>1. call \in CallbackType
    BY <1>1, MessagesTyped DEF CallbackType
  <2>2. callbacks' = callbacks \/ callbacks' = <<call>> \o callbacks
    BY DEF ReturnCollateral
  <2>3. callbacks \in Seq(CallbackType)
    BY DEF CustodyTyped
  <2> HIDE DEF call
  <2>4. <<call>> \o callbacks \in Seq(CallbackType)
    BY <2>1, <2>3, PushTyped
  <2> QED
    BY <2>2, <2>3, <2>4
<1>6. refusing' \subseteq Wallets
  BY DEF ReturnCollateral, CustodyTyped
<1> QED
  BY <1>2, <1>3, <1>4, <1>5, <1>6 DEF CustodyTyped

LEMMA SettleLoanKeeps ==
  ASSUME IInv, NEW msg \in Messages, NEW loan \in loans, SettleLoan(msg, loan)
  PROVE  IInv'
<1>1. /\ TypeOK /\ LoansStarted /\ IsFiniteSet(loans) /\ CustodyMatchesLoans
      /\ OfferCountMatchesLoans /\ VaultHoldsWhatItOwes /\ PendingAddsUp
      /\ LoansTyped /\ CustodyTyped
  BY DEF IInv, TypeOK
<1>2. /\ CanReduce(offer_count, loan.offer_tracing_id)
      /\ loans' = loans \ {loan}
      /\ offer_count' = Counted(offer_count, loan.offer_tracing_id, -1)
      /\ ReturnCollateral(msg, loan, loan.borrower)
      /\ UNCHANGED <<now, adminVars, revoked_offers, controlVars, claimed>>
  BY DEF SettleLoan
<1>3. /\ loan \in LoanType /\ loan.borrower \in Wallets /\ loan.collateral \in Nfts
      /\ loan.offer_tracing_id \in TracingIds
  BY <1>1 DEF LoansTyped, LoanType
<1>4. CustodyTyped' /\ nft_owner' = [nft_owner EXCEPT ![loan.collateral] = loan.borrower]
  BY <1>1, <1>2, <1>3, ReturnCollateralTyped
<1>5. LoansTyped'
  BY <1>1, <1>2, <1>3 DEF LoansTyped, Counted, CanReduce
<1>6. FundsTyped' /\ VaultHoldsWhatItOwes' /\ PendingAddsUp'
  BY <1>1, SettleLoanFunds DEF FundsKept
<1>7. TypeOK'
  BY <1>1, <1>2, <1>4, <1>5, <1>6, UnchangedTyped DEF TypeOK
<1>8. LoansStarted' /\ IsFiniteSet(loans')
  BY <1>1, <1>2, FS_RemoveElement DEF LoansStarted
<1>9. CustodyMatchesLoans'
  BY <1>1, <1>2, <1>3, <1>4, CustodyRemoved
<1>10. OfferCountMatchesLoans'
  <2>1. SUFFICES ASSUME NEW t \in TracingIds
                 PROVE  offer_count'[t] = Cardinality(From(loans', t)) + claimed'[t]
    BY DEF OfferCountMatchesLoans, LoansFrom, From
  <2>2. offer_count[t] = Cardinality(From(loans, t)) + claimed[t]
    BY <1>1 DEF OfferCountMatchesLoans, LoansFrom, From
  <2>3. /\ Cardinality(From(loans \ {loan}, t)) \in Nat
        /\ Cardinality(From(loans, t)) = Cardinality(From(loans \ {loan}, t))
                                           + Share(loan, t)
    BY <1>1, CountRemoved
  <2>4. offer_count'[t] = offer_count[t] - Share(loan, t)
    BY <1>1, <1>2 DEF LoansTyped, Counted, Share
  <2>5. claimed[t] \in Nat /\ claimed' = claimed
    BY <1>1, <1>2 DEF LoansTyped
  <2> QED
    BY <1>2, <2>2, <2>3, <2>4, <2>5, ShareNat
<1> QED
  BY <1>6, <1>7, <1>8, <1>9, <1>10 DEF IInv

LEMMA ClaimDefaultedKeeps ==
  ASSUME IInv, NEW msg \in Messages, NEW loan \in loans,
         ClaimDefaultedLoanCollateral(msg, loan)
  PROVE  IInv'
<1>1. /\ TypeOK /\ LoansStarted /\ IsFiniteSet(loans) /\ CustodyMatchesLoans
      /\ OfferCountMatchesLoans /\ VaultHoldsWhatItOwes /\ PendingAddsUp
      /\ LoansTyped /\ CustodyTyped /\ FundsTyped
  BY DEF IInv, TypeOK
<1>2. /\ loans' = loans \ {loan}
      /\ claimed' = Counted(claimed, loan.offer_tracing_id, 1)
      /\ ReturnCollateral(msg, loan, loan.lender)
      /\ UNCHANGED <<now, adminVars, fundVars, blacklisted, offer_count, revoked_offers,
                     controlVars>>
  BY DEF ClaimDefaultedLoanCollateral
<1>3. /\ loan \in LoanType /\ loan.lender \in Wallets /\ loan.collateral \in Nfts
      /\ loan.offer_tracing_id \in TracingIds
  BY <1>1 DEF LoansTyped, LoanType
<1>4. CustodyTyped' /\ nft_owner' = [nft_owner EXCEPT ![loan.collateral] = loan.lender]
  BY <1>1, <1>2, <1>3, ReturnCollateralTyped
<1>5. LoansTyped'
  BY <1>1, <1>2, <1>3 DEF LoansTyped, Counted
<1>6. FundsTyped' /\ VaultHoldsWhatItOwes' /\ PendingAddsUp'
  BY <1>1, <1>2, UnchangedFundsKept DEF FundsKept
<1>7. TypeOK'
  BY <1>1, <1>2, <1>4, <1>5, <1>6, UnchangedTyped DEF TypeOK
<1>8. LoansStarted' /\ IsFiniteSet(loans')
  BY <1>1, <1>2, FS_RemoveElement DEF LoansStarted
<1>9. CustodyMatchesLoans'
  BY <1>1, <1>2, <1>3, <1>4, CustodyRemoved
<1>10. OfferCountMatchesLoans'
  <2>1. SUFFICES ASSUME NEW t \in TracingIds
                 PROVE  offer_count'[t] = Cardinality(From(loans', t)) + claimed'[t]
    BY DEF OfferCountMatchesLoans, LoansFrom, From
  <2>2. offer_count[t] = Cardinality(From(loans, t)) + claimed[t]
    BY <1>1 DEF OfferCountMatchesLoans, LoansFrom, From
  <2>3. /\ Cardinality(From(loans \ {loan}, t)) \in Nat
        /\ Cardinality(From(loans, t)) = Cardinality(From(loans \ {loan}, t))
                                           + Share(loan, t)
    BY <1>1, CountRemoved
  <2>4. claimed'[t] = claimed[t] + Share(loan, t)
    BY <1>1, <1>2 DEF LoansTyped, Counted, Share
  <2>5. claimed[t] \in Nat /\ offer_count' = offer_count
    BY <1>1, <1>2 DEF LoansTyped
  <2> QED
    BY <1>2, <2>2, <2>3, <2>4, <2>5, ShareNat
<1> QED
  BY <1>6, <1>7, <1>8, <1>9, <1>10 DEF IInv

\* What the two replacements share.
LEMMA ReplaceKeeps ==
  ASSUME IInv, NEW loan \in loans, NEW offer \in Offers, NEW fees, LoanFeesOK(fees),
         Replace(loan, offer, fees), FundsKept,
         UNCHANGED <<now, adminVars, custodyVars, controlVars>>
  PROVE  IInv'
<1> DEFINE new == NewLoan(offer, loan.borrower, loan.collateral, fees, loan.delegate)
           counts == Counted(offer_count, offer.tracing_id, 1)
           rest == loans \ {loan}
<1>1. /\ TypeOK /\ LoansStarted /\ IsFiniteSet(loans) /\ CustodyMatchesLoans
      /\ OfferCountMatchesLoans /\ LoansTyped /\ now \in Nat
  BY DEF IInv, TypeOK
<1>2. /\ CanReduce(counts, loan.offer_tracing_id)
      /\ IdUnusedIn(new, rest)
      /\ offer_count' = Counted(counts, loan.offer_tracing_id, -1)
      /\ revoked_offers' = revoked_offers \cup RevokedBy(offer)
      /\ loans' = rest \cup {new}
      /\ claimed' = claimed
      /\ FundsTyped' /\ VaultHoldsWhatItOwes' /\ PendingAddsUp'
  BY DEF Replace, ReplacedCounts, FundsKept
<1>3. /\ loan.borrower \in Wallets /\ loan.collateral \in Nfts
      /\ loan.delegate \in Delegates \cup {None} /\ loan.offer_tracing_id \in TracingIds
  BY <1>1 DEF LoansTyped, LoanType
<1>4. /\ new \in LoanType /\ new.start_time = now
      /\ new.collateral = loan.collateral /\ new.offer_tracing_id = offer.tracing_id
  <2>1. new.collateral = loan.collateral /\ new.offer_tracing_id = offer.tracing_id
    BY DEF NewLoan
  <2> QED
    BY <1>1, <1>3, <2>1, NewLoanTyped
<1> HIDE DEF new
<1>5. new \notin rest
  BY <1>2 DEF IdUnusedIn
<1>6. counts \in [TracingIds -> Nat]
  BY <1>1, OfferTyped DEF LoansTyped, Counted
<1>7. LoansTyped'
  <2>1. offer_count' \in [TracingIds -> Nat]
    BY <1>2, <1>3, <1>6 DEF Counted, CanReduce
  <2>2. revoked_offers' \subseteq {o.id : o \in Offers}
    BY <1>1, <1>2 DEF LoansTyped, RevokedBy
  <2> QED
    BY <1>1, <1>2, <1>4, <2>1, <2>2 DEF LoansTyped
<1>8. TypeOK'
  BY <1>1, <1>2, <1>7, UnchangedTyped DEF TypeOK
<1>9. IsFiniteSet(rest) /\ IsFiniteSet(loans')
  BY <1>1, <1>2, FS_RemoveElement, FS_AddElement
<1>10. LoansStarted'
  BY <1>1, <1>2, <1>4 DEF LoansStarted
<1>11. CustodyMatchesLoans'
  BY <1>1, <1>2, <1>4, CustodyReplaced DEF custodyVars
<1>12. OfferCountMatchesLoans'
  <2>1. SUFFICES ASSUME NEW t \in TracingIds
                 PROVE  offer_count'[t] = Cardinality(From(loans', t)) + claimed'[t]
    BY DEF OfferCountMatchesLoans, LoansFrom, From
  <2>2. offer_count[t] = Cardinality(From(loans, t)) + claimed[t]
    BY <1>1 DEF OfferCountMatchesLoans, LoansFrom, From
  <2>3. /\ Cardinality(From(rest, t)) \in Nat
        /\ Cardinality(From(loans, t))
             = Cardinality(From(rest, t)) + Share(loan, t)
    BY <1>1, CountRemoved
  <2>4. Cardinality(From(rest \cup {new}, t))
          = Cardinality(From(rest, t)) + Share(new, t)
    <3>1. IsFiniteSet(rest) /\ new \notin rest /\ new.offer_tracing_id = offer.tracing_id
      BY <1>4, <1>5, <1>9
    <3> HIDE DEF rest
    <3>2. Cardinality(From(rest \cup {new}, t))
            = Cardinality(From(rest, t)) + Share(new, t)
      BY <3>1, CountAdded
    <3> QED
      BY <3>1, <3>2
  <2>5. offer_count'[t] = counts[t] - Share(loan, t)
    <3> HIDE DEF counts
    <3> QED
      BY <1>2, <1>6 DEF Counted, Share
  <2>6. counts[t] = offer_count[t] + Share(new, t)
    BY <1>1, <1>4 DEF LoansTyped, Counted, Share
  <2>7. claimed[t] \in Nat
    BY <1>1 DEF LoansTyped
  <2> HIDE DEF counts, rest
  <2> QED
    BY <1>2, <2>2, <2>3, <2>4, <2>5, <2>6, <2>7, ShareNat
<1> QED
  BY <1>2, <1>8, <1>9, <1>10, <1>11, <1>12 DEF IInv

LEMMA ReplaceLoanKeeps ==
  ASSUME IInv, NEW msg \in Messages, NEW loan \in loans, NEW offer \in Offers,
         NEW b \in BrokerTerms, ReplaceLoan(msg, loan, offer, b)
  PROVE  IInv'
<1>1. /\ TypeOK /\ LoansStarted /\ VaultHoldsWhatItOwes /\ PendingAddsUp
      /\ AdminTyped
  BY DEF IInv, TypeOK
<1>2. FundsKept
  BY <1>1, ReplaceLoanFunds
<1>3. LoanFeesOK(LoanFees(offer, b, protocol))
  <2>1. b \in FeeTerms /\ LoanFeesDefined(offer, b, protocol, FeeCaps, None)
    BY TermsAssumption DEF ReplaceLoan
  <2> QED
    BY <1>1, <2>1, FeesTyped
<1>4. /\ Replace(loan, offer, LoanFees(offer, b, protocol))
      /\ UNCHANGED <<now, adminVars, custodyVars, controlVars>>
  BY DEF ReplaceLoan
<1> QED
  BY <1>2, <1>3, <1>4, ReplaceKeeps

LEMMA ReplaceLoanLenderKeeps ==
  ASSUME IInv, NEW msg \in Messages, NEW loan \in loans, NEW offer \in Offers,
         ReplaceLoanLender(msg, loan, offer)
  PROVE  IInv'
<1>1. /\ TypeOK /\ LoansStarted /\ VaultHoldsWhatItOwes /\ PendingAddsUp
      /\ AdminTyped
  BY DEF IInv, TypeOK
<1>2. FundsKept
  BY <1>1, ReplaceLoanLenderFunds
<1>3. LoanFeesOK(LoanFees(offer, NoBroker, protocol))
  <2>1. LoanFeesDefined(offer, NoBroker, protocol, FeeCaps, None)
    BY DEF ReplaceLoanLender
  <2> QED
    BY <1>1, <2>1, FeesTyped, NoBrokerTyped
<1>4. /\ Replace(loan, offer, LoanFees(offer, NoBroker, protocol))
      /\ UNCHANGED <<now, adminVars, custodyVars, controlVars>>
  BY DEF ReplaceLoanLender
<1> QED
  BY <1>2, <1>3, <1>4, ReplaceKeeps

\* A step that leaves loans, counters and the owners of NFTs alone.
LEMMA QuietStepKeeps ==
  ASSUME IInv, now' \in 0..MaxTime, now' >= now,
         LoansTyped', AdminTyped', FundsKept, CustodyTyped', ControlTyped',
         UNCHANGED <<loans, offer_count, claimed, nft_owner>>
  PROVE  IInv'
<1>1. TypeOK'
  BY DEF TypeOK, FundsKept
<1>2. LoansStarted'
  <2>1. \A loan \in loans : loan.start_time \in Nat
    BY DEF IInv, TypeOK, LoansTyped, LoanType
  <2> QED
    BY <2>1 DEF IInv, TypeOK, LoansStarted
<1>3. CustodyMatchesLoans' /\ OfferCountMatchesLoans' /\ IsFiniteSet(loans')
  BY DEF IInv, CustodyMatchesLoans, OfferCountMatchesLoans, LoansOn, LoansFrom
<1> QED
  BY <1>1, <1>2, <1>3 DEF IInv, FundsKept

LEMMA RevokeOfferKeeps ==
  ASSUME IInv, NEW msg \in Messages, NEW offer \in Offers, RevokeOffer(msg, offer)
  PROVE  IInv'
<1>1. /\ TypeOK /\ VaultHoldsWhatItOwes /\ PendingAddsUp
      /\ LoansTyped /\ FundsTyped /\ now \in 0..MaxTime
      /\ MaxTime \in Nat
  BY TermsAssumption DEF IInv, TypeOK
<1>2. /\ revoked_offers' = revoked_offers \cup {offer.id}
      /\ UNCHANGED <<now, loans, offer_count, claimed, adminVars, fundVars, blacklisted,
                     custodyVars, controlVars>>
  BY DEF RevokeOffer
<1>3. LoansTyped'
  BY <1>1, <1>2 DEF LoansTyped
<1>4. FundsKept
  BY <1>1, <1>2, UnchangedFundsKept
<1>5. AdminTyped' /\ ControlTyped' /\ CustodyTyped' /\ nft_owner' = nft_owner
  BY <1>1, <1>2, UnchangedTyped DEF custodyVars
<1> QED
  BY <1>1, <1>2, <1>3, <1>4, <1>5, QuietStepKeeps

LEMMA ReturnFromCallbackKeeps ==
  ASSUME IInv, ReturnFromCallback
  PROVE  IInv'
<1>1. /\ TypeOK /\ VaultHoldsWhatItOwes /\ PendingAddsUp
      /\ LoansTyped /\ FundsTyped /\ CustodyTyped
      /\ now \in 0..MaxTime /\ MaxTime \in Nat
  BY TermsAssumption DEF IInv, TypeOK
<1>2. /\ callbacks # <<>>
      /\ delegations' = delegations \ Head(callbacks).revoked
      /\ callbacks' = Tail(callbacks)
      /\ UNCHANGED <<now, loanVars, adminVars, fundVars, blacklisted, nft_owner, refusing,
                     controlVars>>
  BY DEF ReturnFromCallback
<1>3. LoansTyped' /\ UNCHANGED <<loans, offer_count, claimed>>
  BY <1>1, <1>2 DEF LoansTyped, loanVars
<1>4. FundsKept
  BY <1>1, <1>2, UnchangedFundsKept
<1>5. AdminTyped' /\ ControlTyped'
  BY <1>1, <1>2, UnchangedTyped
<1>6. CustodyTyped'
  BY <1>1, <1>2 DEF CustodyTyped
<1> QED
  BY <1>1, <1>2, <1>3, <1>4, <1>5, <1>6, QuietStepKeeps

LEMMA ClaimStepKeeps ==
  ASSUME IInv, ClaimStep
  PROVE  IInv'
<1>1. /\ TypeOK /\ VaultHoldsWhatItOwes /\ PendingAddsUp
      /\ LoansTyped /\ FundsTyped /\ CustodyTyped
      /\ now \in 0..MaxTime /\ MaxTime \in Nat
  BY TermsAssumption DEF IInv, TypeOK
<1>2. PICK account \in Wallets \cup Payees : ClaimPendingTransfers(account)
  <2>1. ASSUME callbacks # <<>>
        PROVE  Head(callbacks).receiver \in Wallets
    <3>1. Head(callbacks) \in CallbackType
      BY <1>1, <2>1 DEF CustodyTyped
    <3> QED
      BY <3>1 DEF CallbackType
  <2> QED
    BY <2>1 DEF ClaimStep
<1>3. UNCHANGED <<now, loanVars, adminVars, blacklisted, custodyVars, controlVars>>
  BY <1>2 DEF ClaimPendingTransfers
<1>4. FundsKept
  BY <1>1, <1>2, ClaimPendingTransfersFunds
<1>5. LoansTyped' /\ UNCHANGED <<loans, offer_count, claimed>>
  BY <1>1, <1>3 DEF LoansTyped, loanVars
<1>6. AdminTyped' /\ ControlTyped' /\ CustodyTyped' /\ nft_owner' = nft_owner
  BY <1>1, <1>3, UnchangedTyped DEF custodyVars
<1> QED
  BY <1>1, <1>3, <1>4, <1>5, <1>6, QuietStepKeeps

LEMMA AdminStepKeeps ==
  ASSUME IInv, AdminStep
  PROVE  IInv'
<1>1. /\ TypeOK /\ VaultHoldsWhatItOwes /\ PendingAddsUp
      /\ LoansTyped /\ AdminTyped /\ FundsTyped
      /\ now \in 0..MaxTime /\ MaxTime \in Nat
  BY TermsAssumption DEF IInv, TypeOK
<1>2. UNCHANGED NotAdministered
  BY DEF AdminStep, SetProtocolFee, ChangeProtocolWallet, SetProxyAuthorization,
     ProposeOwner, ClaimOwnership
<1>3. AdminTyped'
  <2>1. PICK sender \in Admins :
          \/ \E p \in Protocols : SetProtocolFee(sender, p)
          \/ \E p \in Protocols : ChangeProtocolWallet(sender, p.wallet)
          \/ \E proxy \in Proxies, value \in BOOLEAN :
               SetProxyAuthorization(sender, proxy, value)
          \/ \E address \in Admins : ProposeOwner(sender, address)
          \/ ClaimOwnership(sender)
    BY DEF AdminStep
  <2>2. \A p \in Protocols : p.upfront \in Nat /\ p.settlement \in Nat
                             /\ p.wallet \in Wallets \cup Payees
    BY TermsAssumption
  <2>3. ASSUME NEW p \in Protocols,
               SetProtocolFee(sender, p) \/ ChangeProtocolWallet(sender, p.wallet)
        PROVE  AdminTyped'
    BY <1>1, <2>2, <2>3 DEF AdminTyped, SetProtocolFee, ChangeProtocolWallet
  <2>4. ASSUME NEW proxy \in Proxies, NEW value \in BOOLEAN,
               SetProxyAuthorization(sender, proxy, value)
        PROVE  AdminTyped'
    BY <1>1, <2>4 DEF AdminTyped, SetProxyAuthorization
  <2>5. ASSUME \/ \E address \in Admins : ProposeOwner(sender, address)
               \/ ClaimOwnership(sender)
        PROVE  AdminTyped'
    BY <1>1, <2>5 DEF AdminTyped, ProposeOwner, ClaimOwnership
  <2> QED
    BY <2>1, <2>3, <2>4, <2>5
<1>4. FundsKept
  BY <1>1, <1>2, UnchangedFundsKept DEF NotAdministered
<1>5. LoansTyped' /\ UNCHANGED <<loans, offer_count, claimed>>
  BY <1>1, <1>2 DEF LoansTyped, NotAdministered, loanVars
<1>6. ControlTyped' /\ CustodyTyped' /\ nft_owner' = nft_owner /\ now' = now
  BY <1>1, <1>2, UnchangedTyped DEF NotAdministered, custodyVars
<1> QED
  BY <1>1, <1>3, <1>4, <1>5, <1>6, QuietStepKeeps

LEMMA EnvironmentStepKeeps ==
  ASSUME IInv, EnvironmentStep
  PROVE  IInv'
<1>1. /\ TypeOK /\ VaultHoldsWhatItOwes /\ PendingAddsUp
      /\ LoansTyped /\ FundsTyped
      /\ now \in 0..MaxTime /\ MaxTime \in Nat
  BY TermsAssumption DEF IInv, TypeOK
<1>2. /\ UNCHANGED <<loanVars, adminVars, fundVars, nft_owner, delegations, callbacks, controlVars>>
      /\ refusing' \subseteq refusing
  BY DEF EnvironmentStep, Tick, SetBlacklisted, InstallLenderClaim, custodyVars
<1>3. now' \in 0..MaxTime /\ now' >= now
  BY <1>1 DEF EnvironmentStep, Tick, SetBlacklisted, InstallLenderClaim
<1>4. blacklisted' \subseteq Accounts
  BY <1>1, PartiesAssumption DEF FundsTyped, EnvironmentStep, Tick, SetBlacklisted,
     InstallLenderClaim
<1>5. FundsKept
  BY <1>1, <1>2, <1>4 DEF FundsKept, FundsTyped, VaultHoldsWhatItOwes, PendingAddsUp,
     AddsUpTo, Units, fundVars
<1>6. LoansTyped' /\ UNCHANGED <<loans, offer_count, claimed>>
  BY <1>1, <1>2 DEF LoansTyped, loanVars
<1>7. AdminTyped' /\ ControlTyped' /\ CustodyTyped' /\ nft_owner' = nft_owner
  BY <1>1, <1>2, UnchangedTyped DEF TypeOK, CustodyTyped
<1> QED
  BY <1>3, <1>5, <1>6, <1>7, QuietStepKeeps

\* The registry keeps its own types.
LEMMA ControlNextTyped ==
  ASSUME ControlTyped, Control!Next
  PROVE  ControlTyped'
<1>1. PICK sender \in Admins :
        \/ \E address \in Admins : Control!ProposeOwner(sender, address)
        \/ Control!ClaimOwnership(sender)
        \/ \E batch \in Control!Batches(Contracts \cup {None}) :
             Control!ChangeCollectionsContracts(sender, batch)
        \/ \E batch \in Control!Batches(TraitRoots) :
             Control!ChangeCollectionsTraitRoots(sender, batch)
  BY DEF Control!Next
<1>2. CASE \/ \E address \in Admins : Control!ProposeOwner(sender, address)
           \/ Control!ClaimOwnership(sender)
  BY <1>2 DEF ControlTyped, Control!TypeOK, Control!ProposeOwner, Control!ClaimOwnership
<1>3. ASSUME NEW batch \in Control!Batches(Contracts \cup {None}),
             Control!ChangeCollectionsContracts(sender, batch)
      PROVE  ControlTyped'
  <2>1. \A k \in DOMAIN batch : batch[k] \in Contracts \cup {None}
    BY DEF Control!Batches
  <2> QED
    BY <1>3, <2>1 DEF ControlTyped, Control!TypeOK, Control!ChangeCollectionsContracts,
       Control!Overwrite
<1>4. ASSUME NEW batch \in Control!Batches(TraitRoots),
             Control!ChangeCollectionsTraitRoots(sender, batch)
      PROVE  ControlTyped'
  <2>1. \A k \in DOMAIN batch : batch[k] \in TraitRoots
    BY DEF Control!Batches
  <2> QED
    BY <1>4, <2>1 DEF ControlTyped, Control!TypeOK, Control!ChangeCollectionsTraitRoots,
       Control!Overwrite
<1> QED
  BY <1>1, <1>2, <1>3, <1>4

LEMMA ControlStepKeeps ==
  ASSUME IInv, ControlStep
  PROVE  IInv'
<1>1. /\ TypeOK /\ VaultHoldsWhatItOwes /\ PendingAddsUp
      /\ LoansTyped /\ FundsTyped /\ ControlTyped
      /\ now \in 0..MaxTime /\ MaxTime \in Nat
  BY TermsAssumption DEF IInv, TypeOK
<1>2. Control!Next
      /\ UNCHANGED <<now, loanVars, adminVars, fundVars, blacklisted, custodyVars>>
  BY DEF ControlStep
<1>3. ControlTyped'
  BY <1>1, <1>2, ControlNextTyped
<1>4. FundsKept
  BY <1>1, <1>2, UnchangedFundsKept
<1>5. LoansTyped' /\ UNCHANGED <<loans, offer_count, claimed>>
  BY <1>1, <1>2 DEF LoansTyped, loanVars
<1>6. AdminTyped' /\ CustodyTyped' /\ nft_owner' = nft_owner /\ now' = now
  BY <1>1, <1>2, UnchangedTyped DEF custodyVars
<1> QED
  BY <1>1, <1>3, <1>4, <1>5, <1>6, QuietStepKeeps

----------------------------------------------------------------------------
(* The invariant and what follows from it. *)

LEMMA InitIInv == Init => IInv
<1> SUFFICES ASSUME Init PROVE IInv
  OBVIOUS
<1>1. loans = {} /\ IsFiniteSet(loans)
  BY FS_EmptySet DEF Init
<1>2. LoansTyped /\ LoansStarted
  BY <1>1 DEF Init, LoansTyped, LoansStarted
<1>3. AdminTyped
  BY TermsAssumption, PartiesAssumption DEF Init, AdminTyped
<1>4. FundsTyped /\ VaultHoldsWhatItOwes /\ PendingAddsUp
  <2>1. FundsTyped /\ VaultHoldsWhatItOwes
    BY TermsAssumption, VaultIsNoParty DEF Init, FundsTyped, VaultHoldsWhatItOwes
  <2>2. /\ DOMAIN pending_transfers = Accounts
        /\ \A a \in Accounts : 1..pending_transfers[a] = {}
    BY DEF Init
  <2>3. Units(pending_transfers) = {} /\ owed = 0
    BY <2>2 DEF Units, Init
  <2> QED
    BY <2>1, <2>3, FS_EmptySet DEF PendingAddsUp, AddsUpTo
<1>5. nft_owner \in [Nfts -> Keepers]
  BY TermsAssumption DEF Init
<1>6. CustodyTyped
  BY <1>5, PartiesAssumption DEF Init, CustodyTyped
<1>7. ControlTyped
  BY TermsAssumption, PartiesAssumption DEF Init, ControlTyped, Control!TypeOK
<1>8. TypeOK
  BY <1>2, <1>3, <1>4, <1>6, <1>7, TermsAssumption DEF Init, TypeOK
<1>9. CustodyMatchesLoans
  BY <1>1, <1>5, PartiesAssumption DEF CustodyMatchesLoans, LoansOn, Keepers
<1>10. OfferCountMatchesLoans
  <2>1. \A t : LoansFrom(t) = {}
    BY <1>1 DEF LoansFrom
  <2>2. Cardinality({}) = 0
    BY FS_EmptySet
  <2>3. \A t \in TracingIds : offer_count[t] = 0 /\ claimed[t] = 0
    BY DEF Init
  <2> QED
    BY <2>1, <2>2, <2>3 DEF OfferCountMatchesLoans
<1> QED
  BY <1>1, <1>2, <1>4, <1>8, <1>9, <1>10 DEF IInv

LEMMA UserStepKeeps ==
  ASSUME IInv, UserStep
  PROVE  IInv'
<1>1. PICK msg \in Messages :
        \/ \E offer \in Offers, nft \in Nfts, d \in Delegates \cup {None}, b \in BrokerTerms :
             CreateLoan(msg, offer, nft, d, b)
        \/ \E loan \in loans :
             \/ SettleLoan(msg, loan)
             \/ ClaimDefaultedLoanCollateral(msg, loan)
             \/ \E offer \in Offers, b \in BrokerTerms : ReplaceLoan(msg, loan, offer, b)
             \/ \E offer \in Offers : ReplaceLoanLender(msg, loan, offer)
        \/ \E offer \in Offers : RevokeOffer(msg, offer)
  BY DEF UserStep, UserCall
<1> QED
  BY <1>1, CreateLoanKeeps, SettleLoanKeeps, ClaimDefaultedKeeps, ReplaceLoanKeeps,
     ReplaceLoanLenderKeeps, RevokeOfferKeeps

LEMMA NextKeepsIInv == IInv /\ [Next]_vars => IInv'
<1> SUFFICES ASSUME IInv, [Next]_vars PROVE IInv'
  OBVIOUS
<1>1. CASE UNCHANGED vars
  <2>1. /\ TypeOK /\ VaultHoldsWhatItOwes /\ PendingAddsUp
        /\ LoansTyped /\ FundsTyped
        /\ now \in 0..MaxTime /\ MaxTime \in Nat
    BY TermsAssumption DEF IInv, TypeOK
  <2>2. UNCHANGED <<now, loanVars, adminVars, fundVars, blacklisted, custodyVars, controlVars>>
    BY <1>1 DEF vars
  <2>3. LoansTyped' /\ UNCHANGED <<loans, offer_count, claimed>>
    BY <2>1, <2>2 DEF LoansTyped, loanVars
  <2>4. AdminTyped' /\ ControlTyped' /\ CustodyTyped' /\ nft_owner' = nft_owner
    BY <2>1, <2>2, UnchangedTyped DEF custodyVars
  <2>5. FundsKept
    BY <2>1, <2>2, UnchangedFundsKept
  <2> QED
    BY <2>1, <2>2, <2>3, <2>4, <2>5, QuietStepKeeps
<1>2. CASE UserStep
  BY <1>2, UserStepKeeps
<1>3. CASE ReturnFromCallback
  BY <1>3, ReturnFromCallbackKeeps
<1>4. CASE ClaimStep
  BY <1>4, ClaimStepKeeps
<1>5. CASE EnvironmentStep
  BY <1>5, EnvironmentStepKeeps
<1>6. CASE AdminStep
  BY <1>6, AdminStepKeeps
<1>7. CASE ControlStep
  BY <1>7, ControlStepKeeps
<1> QED
  BY <1>1, <1>2, <1>3, <1>4, <1>5, <1>6, <1>7 DEF Next, LendingNext, GovernanceStep

\* The inductive invariant holds of every behaviour of the contract.
THEOREM IInvTheorem == Spec => []IInv
  BY InitIInv, NextKeepsIInv, PTL DEF Spec

\* Amounts and counters never go below zero, and everything has its type:
\* no checked subtraction that the actions perform can revert or wrap.
THEOREM TypeTheorem == Spec => []TypeOK
<1>1. IInv => TypeOK
  BY DEF IInv
<1> QED
  BY <1>1, IInvTheorem, PTL

\* The vault holds an NFT exactly while one loan runs on it.
THEOREM CustodyTheorem == Spec => []CustodyMatchesLoans
<1>1. IInv => CustodyMatchesLoans
  BY DEF IInv
<1> QED
  BY <1>1, IInvTheorem, PTL

\* offer_count is the number of running and of defaulted loans.
THEOREM OfferCountTheorem == Spec => []OfferCountMatchesLoans
<1>1. IInv => OfferCountMatchesLoans
  BY DEF IInv
<1> QED
  BY <1>1, IInvTheorem, PTL

\* The contract holds what it failed to send and nobody has claimed.
THEOREM SolvencyTheorem == Spec => []VaultHoldsWhatItOwes
<1>1. IInv => VaultHoldsWhatItOwes
  BY DEF IInv
<1> QED
  BY <1>1, IInvTheorem, PTL

\* Every unit owed is owed to one account that can claim it: failed transfers
\* to the same recipient add up, and none is kept for nobody.
THEOREM PendingTheorem == Spec => []PendingAddsUp
<1>1. IInv => PendingAddsUp
  BY DEF IInv
<1> QED
  BY <1>1, IInvTheorem, PTL

----------------------------------------------------------------------------
(* Whom payments leave alone. *)

IsFunds(f) == f = [balance |-> f.balance, pending |-> f.pending, owed |-> f.owed]

Shape(f) == IsFunds(f) /\ DOMAIN f.balance = Accounts

\* The balances of the accounts in S are the same in g as in f.
Leaves(f, g, S) == Shape(f) => Shape(g) /\ \A x \in S : g.balance[x] = f.balance[x]

LEMMA LeavesTransitive ==
  ASSUME NEW f, NEW g, NEW h, NEW S, Leaves(f, g, S), Leaves(g, h, S)
  PROVE  Leaves(f, h, S)
  BY DEF Leaves

LEMMA TransferLeaves ==
  ASSUME NEW f, NEW from, NEW to, NEW amount,
         NEW S \in SUBSET Accounts, from \notin S, to \notin S
  PROVE  Leaves(f, Transfer(f, from, to, amount), S)
<1> SUFFICES ASSUME Shape(f)
             PROVE  LET g == Transfer(f, from, to, amount)
                    IN  Shape(g) /\ \A x \in S : g.balance[x] = f.balance[x]
  BY DEF Leaves
<1> DEFINE taken == [f.balance EXCEPT ![from] = @ - amount]
           moved == [taken EXCEPT ![to] = @ + amount]
<1>1. Transfer(f, from, to, amount) = [f EXCEPT !.balance = moved]
  BY DEF Transfer
<1>2. DOMAIN moved = Accounts /\ \A x \in S : moved[x] = f.balance[x]
  BY DEF Shape
<1> HIDE DEF moved
<1>3. [f EXCEPT !.balance = moved] = [balance |-> moved, pending |-> f.pending, owed |-> f.owed]
  BY DEF Shape, IsFunds
<1> QED
  BY <1>1, <1>2, <1>3 DEF Shape, IsFunds

LEMMA SendFundsLeaves ==
  ASSUME NEW f, NEW to, NEW amount, NEW S \in SUBSET Accounts, Vault \notin S, to \notin S
  PROVE  Leaves(f, SendFunds(f, to, amount), S)
<1>1. CASE CanTransfer(f, Vault, to, amount)
  BY <1>1, TransferLeaves DEF SendFunds
<1>2. CASE ~CanTransfer(f, Vault, to, amount)
  <2> DEFINE parked == [f.pending EXCEPT ![to] = @ + amount]
  <2>1. SendFunds(f, to, amount)
          = [balance |-> f.balance, pending |-> parked, owed |-> f.owed + amount]
    BY <1>2 DEF SendFunds
  <2> HIDE DEF parked
  <2> QED
    BY <2>1 DEF Leaves, Shape, IsFunds
<1> QED
  BY <1>1, <1>2

\* All recipients of fees but the lender itself.
FeesLeave(fees, S) == \A type \in FeeTypes \ {"ORIGINATION_FEE"} : fees[type].wallet \notin S

LEMMA SettlementFeesLeave ==
  ASSUME NEW f, NEW loan, NEW interest, NEW S \in SUBSET Accounts, Vault \notin S,
         FeesLeave(loan.fees, S)
  PROVE  Leaves(f, SendSettlementFees(f, loan, interest), S)
<1>1. ASSUME NEW g, NEW type \in FeeTypes \ {"ORIGINATION_FEE"}
      PROVE  Leaves(g, SendSettlementFee(g, loan, interest, type), S)
  <2>1. CASE loan.fees[type].interest_bps > 0
    BY <2>1, SendFundsLeaves DEF SendSettlementFee, SendIf, FeesLeave
  <2>2. CASE ~(loan.fees[type].interest_bps > 0)
    BY <2>2 DEF SendSettlementFee, SendIf, Leaves
  <2> QED
    BY <2>1, <2>2
<1> DEFINE f1 == SendSettlementFee(f, loan, interest, "PROTOCOL_FEE")
           f2 == SendSettlementFee(f1, loan, interest, "LENDER_BROKER_FEE")
           f3 == SendSettlementFee(f2, loan, interest, "BORROWER_BROKER_FEE")
<1>2. Leaves(f, f1, S) /\ Leaves(f1, f2, S) /\ Leaves(f2, f3, S)
  BY <1>1 DEF FeeTypes
<1>3. SendSettlementFees(f, loan, interest) = f3
  BY DEF SendSettlementFees
<1> HIDE DEF f1, f2, f3
<1> QED
  BY <1>2, <1>3, LeavesTransitive

LEMMA UpfrontFeesLeave ==
  ASSUME NEW f, NEW fees, NEW S \in SUBSET Accounts, Vault \notin S, FeesLeave(fees, S)
  PROVE  Leaves(f, SendUpfrontFees(f, fees), S)
<1>1. ASSUME NEW g, NEW type \in FeeTypes \ {"ORIGINATION_FEE"}
      PROVE  Leaves(g, SendUpfrontFee(g, fees[type]), S)
  <2>1. CASE fees[type].upfront_amount > 0
    BY <2>1, SendFundsLeaves DEF SendUpfrontFee, SendIf, FeesLeave
  <2>2. CASE ~(fees[type].upfront_amount > 0)
    BY <2>2 DEF SendUpfrontFee, SendIf, Leaves
  <2> QED
    BY <2>1, <2>2
<1> DEFINE f1 == SendUpfrontFee(f, fees["PROTOCOL_FEE"])
           f2 == SendUpfrontFee(f1, fees["LENDER_BROKER_FEE"])
           f3 == SendUpfrontFee(f2, fees["BORROWER_BROKER_FEE"])
<1>2. Leaves(f, f1, S) /\ Leaves(f1, f2, S) /\ Leaves(f2, f3, S)
  BY <1>1 DEF FeeTypes
<1>3. SendUpfrontFees(f, fees) = f3
  BY DEF SendUpfrontFees
<1> HIDE DEF f1, f2, f3
<1> QED
  BY <1>2, <1>3, LeavesTransitive

\* The fees of running loans, and those of loans that may be made, go elsewhere.
NoFeesTo(S) ==
  /\ \A loan \in loans : FeesLeave(loan.fees, S)
  /\ protocol.wallet \notin S
  /\ \A offer \in Offers : offer.broker_address \notin S
  /\ \A broker \in BrokerTerms : broker.wallet \notin S

LEMMA NewFeesLeave ==
  ASSUME NEW S \in SUBSET Accounts, NoFeesTo(S), NEW offer \in Offers,
         NEW broker \in BrokerTerms \cup {NoBroker}
  PROVE  FeesLeave(LoanFees(offer, broker, protocol), S)
<1>1. broker.wallet \notin S
  BY VaultIsNoParty DEF NoFeesTo, NoBroker
<1> QED
  BY <1>1 DEF NoFeesTo, FeesLeave, LoanFees, FeeTypes

\* A loan lent to a wallet takes its principal, and its fees, from the lender.
LEMMA CreateLoanLeaves ==
  ASSUME TypeOK, NEW msg \in Messages, NEW offer \in Offers, NEW nft \in Nfts,
         NEW d \in Delegates \cup {None}, NEW b \in BrokerTerms,
         CreateLoan(msg, offer, nft, d, b),
         NEW S \in SUBSET Accounts, NoFeesTo(S), offer.lender \notin S
  PROVE  LET borrower == IF msg.sender \in authorized_proxies THEN msg.origin ELSE msg.sender
             fees == LoanFees(offer, b, protocol)
         IN  /\ borrower \in Wallets
             /\ \A x \in S : balance'[x] = balance[x]
                    + (IF x = borrower THEN BorrowerProceeds(offer, fees) ELSE 0)
<1> DEFINE borrower == IF msg.sender \in authorized_proxies THEN msg.origin ELSE msg.sender
           fees == LoanFees(offer, b, protocol)
           proceeds == BorrowerProceeds(offer, fees)
           Upfront(type) == fees[type].upfront_amount
           Paid(f, type) == IF Upfront(type) > 0
                              THEN Transfer(f, offer.lender, fees[type].wallet, Upfront(type))
                              ELSE f
           f0 == CurrentFunds
           f1 == Transfer(f0, offer.lender, borrower, proceeds)
           f2 == Paid(f1, "PROTOCOL_FEE")
           f3 == Paid(f2, "LENDER_BROKER_FEE")
           f4 == Paid(f3, "BORROWER_BROKER_FEE")
<1>1. SetFunds(f4) /\ nft_owner[nft] = borrower
  BY DEF CreateLoan
<1>2. balance \in [Accounts -> Nat] /\ offer.lender \in Wallets /\ Wallets \subseteq Accounts
  BY OfferTyped DEF TypeOK, FundsTyped, Accounts
<1>3. borrower \in Wallets
  <2>1. borrower \in Wallets \cup Proxies /\ borrower \in Keepers \cup {Vault}
    BY <1>1, MessagesTyped DEF TypeOK, CustodyTyped
  <2> QED
    BY <2>1, PartiesAssumption DEF Keepers
<1>4. FeesLeave(fees, S)
  BY NewFeesLeave
<1>5. ASSUME NEW g, NEW type \in FeeTypes \ {"ORIGINATION_FEE"}
      PROVE  Leaves(g, Paid(g, type), S)
  <2>1. CASE Upfront(type) > 0
    BY <1>4, <2>1, TransferLeaves DEF FeesLeave
  <2>2. CASE ~(Upfront(type) > 0)
    BY <2>2 DEF Leaves
  <2> QED
    BY <2>1, <2>2
<1>6. Shape(f1) /\ \A x \in S : f1.balance[x] = balance[x] + (IF x = borrower THEN proceeds ELSE 0)
  <2> HIDE DEF borrower, proceeds
  <2> DEFINE taken == [balance EXCEPT ![offer.lender] = @ - proceeds]
             moved == [taken EXCEPT ![borrower] = @ + proceeds]
  <2>1. f1 = [balance |-> moved, pending |-> pending_transfers, owed |-> owed]
    BY DEF Transfer, CurrentFunds
  <2>2. DOMAIN moved = Accounts
    BY <1>2
  <2>3. ASSUME NEW x \in S
        PROVE  moved[x] = balance[x] + (IF x = borrower THEN proceeds ELSE 0)
    <3>1. x \in Accounts /\ x # offer.lender /\ taken[x] = balance[x]
      BY <1>2
    <3>2. moved[x] = IF x = borrower THEN taken[x] + proceeds ELSE taken[x]
      BY <1>2, <3>1
    <3> QED
      BY <1>2, <3>1, <3>2
  <2> HIDE DEF moved
  <2> QED
    BY <2>1, <2>2, <2>3 DEF Shape, IsFunds
<1>7. Leaves(f1, f4, S)
  <2> HIDE DEF f1, Paid
  <2>1. Leaves(f1, f2, S) /\ Leaves(f2, f3, S) /\ Leaves(f3, f4, S)
    BY <1>5 DEF FeeTypes
  <2> HIDE DEF f2, f3, f4
  <2> QED
    BY <2>1, LeavesTransitive
<1> HIDE DEF f1, f4, proceeds
<1>8. \A x \in S : balance'[x] = balance[x] + (IF x = borrower THEN proceeds ELSE 0)
  BY <1>1, <1>6, <1>7 DEF Leaves, SetFunds
<1> QED
  BY <1>3, <1>8 DEF proceeds

LEMMA SetFundsLeaves ==
  ASSUME TypeOK, NEW f, NEW S \in SUBSET Accounts, Leaves(CurrentFunds, f, S), SetFunds(f)
  PROVE  \A x \in S : balance'[x] = balance[x]
<1>1. Shape(CurrentFunds) /\ CurrentFunds.balance = balance
  BY DEF TypeOK, FundsTyped, CurrentFunds, Shape, IsFunds
<1> QED
  BY <1>1 DEF Leaves, SetFunds

LEMMA SendIfLeaves ==
  ASSUME NEW condition, NEW f, NEW to, NEW amount,
         NEW S \in SUBSET Accounts, Vault \notin S, to \notin S
  PROVE  Leaves(f, SendIf(condition, f, to, amount), S)
<1>1. CASE condition
  BY <1>1, SendFundsLeaves DEF SendIf
<1>2. CASE ~condition
  BY <1>2 DEF SendIf, Leaves
<1> QED
  BY <1>1, <1>2

LEMMA SettleLoanLeaves ==
  ASSUME TypeOK, NEW msg, NEW loan \in loans, SettleLoan(msg, loan),
         NEW S \in SUBSET Accounts, S \cap (Wallets \cup {Vault}) = {}, NoFeesTo(S)
  PROVE  \A x \in S : balance'[x] = balance[x]
<1> DEFINE interest == SettlementInterest(loan, now)
           f0 == CurrentFunds
           f1 == ReceiveFunds(f0, loan.borrower, Repayment(loan, interest))
           f2 == SendFunds(f1, loan.lender, LenderProceeds(loan, interest))
           f3 == SendSettlementFees(f2, loan, interest)
<1>1. SetFunds(f3)
  BY DEF SettleLoan
<1>2. loan.borrower \notin S /\ loan.lender \notin S /\ Vault \notin S /\ FeesLeave(loan.fees, S)
  BY DEF TypeOK, LoansTyped, LoanType, NoFeesTo
<1>3. Leaves(f0, f1, S) /\ Leaves(f1, f2, S) /\ Leaves(f2, f3, S)
  BY <1>2, TransferLeaves, SendFundsLeaves, SettlementFeesLeave DEF ReceiveFunds
<1> HIDE DEF f1, f2, f3
<1> QED
  BY <1>1, <1>3, LeavesTransitive, SetFundsLeaves

LEMMA ReplaceLoanLeaves ==
  ASSUME TypeOK, NEW msg, NEW loan \in loans, NEW offer \in Offers, NEW b \in BrokerTerms,
         ReplaceLoan(msg, loan, offer, b),
         NEW S \in SUBSET Accounts, S \cap (Wallets \cup {Vault}) = {}, NoFeesTo(S)
  PROVE  \A x \in S : balance'[x] = balance[x]
<1> DEFINE interest == SettlementInterest(loan, now)
           fees == LoanFees(offer, b, protocol)
           delta == ReplaceBorrowerDelta(loan, offer, fees, interest)
           current == LenderProceeds(loan, interest)
           new == NewLenderPays(offer)
           same == loan.lender = offer.lender
           from == IF same THEN new - current ELSE new
           f0 == CurrentFunds
           f1 == IF delta < 0 THEN ReceiveFunds(f0, loan.borrower, -delta) ELSE f0
           f2 == IF same /\ from <= 0 THEN f1 ELSE ReceiveFunds(f1, offer.lender, from)
           f3 == IF same THEN SendIf(from < 0, f2, loan.lender, -from)
                         ELSE SendFunds(f2, loan.lender, current)
           f4 == SendIf(delta > 0, f3, loan.borrower, delta)
           f5 == SendSettlementFees(f4, loan, interest)
           f6 == SendUpfrontFees(f5, fees)
<1>1. SetFunds(f6)
  BY DEF ReplaceLoan
<1>2. /\ loan.borrower \notin S /\ loan.lender \notin S /\ offer.lender \notin S
      /\ Vault \notin S /\ FeesLeave(loan.fees, S) /\ FeesLeave(fees, S)
  BY OfferTyped, NewFeesLeave DEF TypeOK, LoansTyped, LoanType, NoFeesTo
<1> HIDE DEF interest, fees, delta, current, new, from
<1>3. Leaves(f0, f1, S)
  BY <1>2, TransferLeaves DEF ReceiveFunds, Leaves
<1> HIDE DEF f1
<1>4. Leaves(f1, f2, S)
  BY <1>2, TransferLeaves DEF ReceiveFunds, Leaves
<1> HIDE DEF f2
<1>5. Leaves(f2, f3, S)
  BY <1>2, SendIfLeaves, SendFundsLeaves
<1> HIDE DEF f3
<1>6. Leaves(f3, f4, S)
  BY <1>2, SendIfLeaves
<1> HIDE DEF f4
<1>7. Leaves(f4, f5, S) /\ Leaves(f5, f6, S)
  BY <1>2, SettlementFeesLeave, UpfrontFeesLeave
<1> HIDE DEF f5, f6
<1>8. Leaves(f0, f6, S)
  BY <1>3, <1>4, <1>5, <1>6, <1>7, LeavesTransitive
<1> QED
  BY <1>1, <1>8, SetFundsLeaves

LEMMA ReplaceLoanLenderLeaves ==
  ASSUME TypeOK, NEW msg, NEW loan \in loans, NEW offer \in Offers,
         ReplaceLoanLender(msg, loan, offer),
         NEW S \in SUBSET Accounts, S \cap (Wallets \cup {Vault}) = {}, NoFeesTo(S)
  PROVE  \A x \in S : balance'[x] = balance[x]
<1> DEFINE interest == SettlementInterest(loan, now)
           fees == LoanFees(offer, NoBroker, protocol)
           delta == LenderReplaceBorrowerDelta(loan, offer, interest, now)
           current == LenderReplaceCurrentDelta(loan, offer, fees, interest, now)
           new == NewLenderPays(offer)
           same == loan.lender = offer.lender
           from == IF same THEN new - current ELSE new
           f0 == CurrentFunds
           f1 == IF same /\ from = 0 THEN f0 ELSE ReceiveFunds(f0, offer.lender, from)
           f2 == SendIf(~same /\ current > 0, f1, loan.lender, current)
           f3 == SendIf(delta > 0, f2, loan.borrower, delta)
           f4 == SendSettlementFees(f3, loan, interest)
           f5 == SendUpfrontFees(f4, fees)
<1>1. SetFunds(f5)
  BY DEF ReplaceLoanLender
<1>2. /\ loan.borrower \notin S /\ loan.lender \notin S /\ offer.lender \notin S
      /\ Vault \notin S /\ FeesLeave(loan.fees, S) /\ FeesLeave(fees, S)
  BY OfferTyped, NewFeesLeave DEF TypeOK, LoansTyped, LoanType, NoFeesTo
<1> HIDE DEF interest, fees, delta, current, new, from
<1>3. Leaves(f0, f1, S)
  BY <1>2, TransferLeaves DEF ReceiveFunds, Leaves
<1> HIDE DEF f1
<1>4. Leaves(f1, f2, S)
  BY <1>2, SendIfLeaves
<1> HIDE DEF f2, same
<1>5. Leaves(f2, f3, S)
  BY <1>2, SendIfLeaves
<1> HIDE DEF f3
<1>6. Leaves(f3, f4, S) /\ Leaves(f4, f5, S)
  BY <1>2, SettlementFeesLeave, UpfrontFeesLeave
<1> HIDE DEF f4, f5
<1>7. Leaves(f0, f5, S)
  BY <1>3, <1>4, <1>5, <1>6, LeavesTransitive
<1> QED
  BY <1>1, <1>7, SetFundsLeaves

LEMMA UserCallLeaves ==
  ASSUME TypeOK, NEW msg \in Messages, UserCall(msg),
         NEW S \in SUBSET Accounts, NoFeesTo(S)
  PROVE  /\ NoFeesTo(S)'
         /\ S \cap (Wallets \cup {Vault}) = {} => \A x \in S : balance'[x] = balance[x]
<1> DEFINE Left == S \cap (Wallets \cup {Vault}) = {} => \A x \in S : balance'[x] = balance[x]
<1>1. ASSUME NEW offer \in Offers, NEW broker \in BrokerTerms \cup {NoBroker}, NEW borrower,
             NEW nft, NEW d
      PROVE  FeesLeave(NewLoan(offer, borrower, nft, LoanFees(offer, broker, protocol), d).fees, S)
  BY NewFeesLeave DEF NewLoan
<1>2. ASSUME \A loan \in loans' : loan \in loans \/ FeesLeave(loan.fees, S),
             protocol' = protocol
      PROVE  NoFeesTo(S)'
  BY <1>2 DEF NoFeesTo
<1>3. ASSUME NEW offer \in Offers, NEW nft \in Nfts, NEW d \in Delegates \cup {None},
             NEW b \in BrokerTerms, CreateLoan(msg, offer, nft, d, b)
      PROVE  NoFeesTo(S)' /\ Left
  <2> DEFINE borrower == IF msg.sender \in authorized_proxies THEN msg.origin ELSE msg.sender
  <2>1. offer.lender \in Wallets
    BY OfferTyped
  <2>2. ASSUME S \cap (Wallets \cup {Vault}) = {}
        PROVE  borrower \notin S /\ \A x \in S : balance'[x] = balance[x]
                 + (IF x = borrower THEN BorrowerProceeds(offer, LoanFees(offer, b, protocol)) ELSE 0)
    BY <1>3, <2>1, <2>2, CreateLoanLeaves
  <2>3. \A x \in S : balance[x] \in Nat
    BY DEF TypeOK, FundsTyped
  <2>4. /\ loans' = loans \cup {NewLoan(offer, borrower, nft, LoanFees(offer, b, protocol), d)}
        /\ protocol' = protocol
    BY <1>3 DEF CreateLoan, adminVars
  <2> HIDE DEF borrower
  <2> QED
    BY <1>1, <1>2, <2>2, <2>3, <2>4
<1>4. ASSUME NEW loan \in loans, NEW offer \in Offers, NEW broker \in BrokerTerms \cup {NoBroker},
             Replace(loan, offer, LoanFees(offer, broker, protocol)), protocol' = protocol
      PROVE  NoFeesTo(S)'
  BY <1>1, <1>2, <1>4 DEF Replace
<1>5. ASSUME NEW loan \in loans, SettleLoan(msg, loan)
      PROVE  NoFeesTo(S)' /\ Left
  BY <1>2, <1>5, SettleLoanLeaves DEF SettleLoan, adminVars
<1>6. ASSUME NEW loan \in loans, ClaimDefaultedLoanCollateral(msg, loan)
      PROVE  NoFeesTo(S)' /\ Left
  BY <1>2, <1>6 DEF ClaimDefaultedLoanCollateral, adminVars, fundVars
<1>7. ASSUME NEW loan \in loans, NEW offer \in Offers, NEW b \in BrokerTerms,
             ReplaceLoan(msg, loan, offer, b)
      PROVE  NoFeesTo(S)' /\ Left
  <2>1. Replace(loan, offer, LoanFees(offer, b, protocol)) /\ protocol' = protocol
    BY <1>7 DEF ReplaceLoan, adminVars
  <2> QED
    BY <1>4, <1>7, <2>1, ReplaceLoanLeaves
<1>8. ASSUME NEW loan \in loans, NEW offer \in Offers, ReplaceLoanLender(msg, loan, offer)
      PROVE  NoFeesTo(S)' /\ Left
  <2>1. Replace(loan, offer, LoanFees(offer, NoBroker, protocol)) /\ protocol' = protocol
    BY <1>8 DEF ReplaceLoanLender, adminVars
  <2> QED
    BY <1>4, <1>8, <2>1, ReplaceLoanLenderLeaves
<1>9. ASSUME NEW offer \in Offers, RevokeOffer(msg, offer)
      PROVE  NoFeesTo(S)' /\ Left
  BY <1>2, <1>9 DEF RevokeOffer, adminVars, fundVars
<1> QED
  BY <1>3, <1>5, <1>6, <1>7, <1>8, <1>9 DEF UserCall
=============================================================================
