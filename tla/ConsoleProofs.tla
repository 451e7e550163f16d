--------------------------- MODULE ConsoleProofs ---------------------------
(***************************************************************************)
(* The console, for all wallets, offers, loans and orders of transactions: *)
(* what a function has had approved is there when it is taken, as far as   *)
(* nobody had the proxy take it first, and what is left approved bounds    *)
(* what others can take.  Sessions implement RefinanceProxies.             *)
(***************************************************************************)
EXTENDS Console, RefinanceProofs

ConsoleTyped ==
  /\ session \in [Wallets -> Sessions \cup {None}]
  /\ allowance \in [Wallets -> [Spenders -> Nat]]
  /\ approved \subseteq Nfts
  /\ posted \subseteq Offers /\ indexed \subseteq LoanType

KeptType == [allowance : [Wallets -> [Spenders -> Nat]], approved : SUBSET Nfts]

\* A transaction runs at the Arcade proxy, and would give back no less than is
\* approved now.
ConsentKept ==
  flash # None =>
    /\ flash.proxy = ArcadeProxy
    /\ kept \in KeptType
    /\ \A a \in Wallets, s \in Spenders : allowance[a][s] <= kept.allowance[a][s]

\* A session at its last step takes part in no transaction but its own.
OwnTransaction ==
  \A w \in Wallets : Running(w, "refinance", 4) => flash # None /\ flash.msg = OwnCall(w)

\* In the middle of one a wallet is without an NFT it had only for a loan it took,
\* and a new loan costs its borrower nothing.
NftsKept ==
  flash # None =>
    /\ \A w \in Wallets, nft \in Nfts :
         flash.saved.nft_owner[nft] = w =>
           nft_owner[nft] = w \/ \E loan \in loans \ flash.saved.loans : loan.borrower = w
    /\ \A loan \in loans \ flash.saved.loans : Brought(loan) \in Nat

ConsoleInv ==
  /\ RefinanceInv /\ MoneyInv
  /\ ConsoleTyped /\ ConsentKept /\ OwnTransaction /\ NftsKept

\* What the session of a wallet is when it waits for a transaction of some kind.
LEMMA SessionTyped ==
  ASSUME ConsoleTyped, NEW w \in Wallets, NEW kind, NEW step, Running(w, kind, step)
  PROVE  /\ kind = "create" => session[w] \in CreateSession
         /\ kind = "pay" => session[w] \in PaySession
         /\ kind = "refinance" => session[w] \in RefinanceSession
<1>1. session[w] \in Sessions /\ session[w].kind = kind
  BY DEF ConsoleTyped, Running
<1> QED
  BY <1>1 DEF Sessions, CreateSession, PaySession, RefinanceSession

LEMMA FlashNat == FlashAmounts \subseteq Nat
  BY RefinanceAssumption

LEMMA SessionIsNotNone == \A s \in Sessions : s # None
  BY NoneIsNoSession

\* The wallet itself calls, so that it borrows and acts for itself.
LEMMA DirectTyped ==
  ASSUME NEW w \in Wallets
  PROVE  /\ Direct(w).sender = w /\ Direct(w).origin = w
         /\ callbacks = <<>> => Direct(w) \in Messages
  BY DEF Direct, Messages

LEMMA OwnCallTyped ==
  ASSUME NEW w \in Wallets
  PROVE  OwnCall(w) \in Calls /\ OwnCall(w).origin = w /\ OwnCall(w).borrower = w
  BY DEF OwnCall, Calls

LEMMA ArcadeTyped ==
  /\ ArcadeProxy \in Refinancers /\ ArcadeProxy \notin Wallets /\ ArcadeProxy # GondiProxy
  /\ ArcadeProxy # Vault /\ Vault \in Spenders /\ ArcadeProxy \in Spenders
<1>1. ArcadeProxy \in Refinancers /\ Vault \in Spenders /\ ArcadeProxy \in Spenders
  BY DEF Refinancers, Spenders
<1>2. ArcadeProxy # Vault
  BY <1>1, RefinancersTyped, VaultIsNoParty
<1> QED
  BY <1>1, <1>2, RefinancersTyped, ProxiesDiffer

----------------------------------------------------------------------------
(* Each step is one of RefinanceProxies, or changes nothing there.          *)

Taking ==
  \E spender \in Approvees :
    \E amount \in 1..allowed[ArcadeProxy][spender] : TakeApproved(ArcadeProxy, spender, amount)

\* The lending contract is called directly, or a block goes by.
LEMMA DirectCalls ==
  ASSUME ConsoleInv,
         \/ \E w \in Wallets : CreateLoanStep(w) \/ PayLoanStep(w)
         \/ \E w \in Wallets, offer \in Offers : RevokePosted(w, offer)
         \/ \E w \in Wallets, loan \in indexed : ClaimLoanCollateral(w, loan)
         \/ Surroundings /\ ~Taking
  PROVE  OtherTransaction
<1>1. callbacks = <<>> /\ ConsoleTyped
  BY DEF ConsoleInv, RefinanceInv
<1>2. ASSUME NEW w \in Wallets, CreateLoanStep(w)
      PROVE  OtherTransaction
  <2>1. session[w] \in CreateSession
    BY <1>1, <1>2, SessionTyped DEF CreateLoanStep
  <2>2. UserCall(Direct(w))
    BY <1>2, <2>1 DEF CreateLoanStep, CreateSession, UserCall
  <2> QED
    BY <1>2, <2>2 DEF CreateLoanStep, OtherTransaction
<1>3. ASSUME NEW w \in Wallets, PayLoanStep(w)
      PROVE  OtherTransaction
  <2>1. UserCall(Direct(w))
    BY <1>3 DEF PayLoanStep, UserCall
  <2> QED
    BY <1>3, <2>1 DEF PayLoanStep, OtherTransaction
<1>4. ASSUME NEW w \in Wallets, NEW offer \in Offers, RevokePosted(w, offer)
      PROVE  OtherTransaction
  <2>1. UserCall(Direct(w))
    BY <1>4 DEF RevokePosted, UserCall
  <2> QED
    BY <1>4, <2>1 DEF RevokePosted, OtherTransaction
<1>5. ASSUME NEW w \in Wallets, NEW loan \in indexed, ClaimLoanCollateral(w, loan)
      PROVE  OtherTransaction
  <2>1. UserCall(Direct(w))
    BY <1>5 DEF ClaimLoanCollateral, UserCall
  <2> QED
    BY <1>5, <2>1 DEF ClaimLoanCollateral, OtherTransaction
<1>6. ASSUME Surroundings, ~Taking
      PROVE  OtherTransaction
  BY <1>1, <1>6, ArcadeTyped DEF Surroundings, Taking, OtherTransaction, EnvironmentStep
<1> QED
  BY <1>2, <1>3, <1>4, <1>5, <1>6

\* Nobody loses by what was approved at a proxy: wallets take it.
LEMMA TakingMoves ==
  ASSUME ConsoleInv, Taking
  PROVE  /\ RefinanceInv' /\ MoneyInv' /\ flash = None /\ flash' = None
         /\ UNCHANGED <<loans, nft_owner>>
         /\ \A w \in Wallets : balance'[w] >= balance[w]
<1>1. PICK spender \in Approvees :
        \E amount \in 1..allowed[ArcadeProxy][spender] : TakeApproved(ArcadeProxy, spender, amount)
  BY DEF Taking
<1>2. PICK amount \in 1..allowed[ArcadeProxy][spender] :
        TakeApproved(ArcadeProxy, spender, amount)
  BY <1>1
<1>3. RefinanceInv /\ MoneyInv /\ allowed[ArcadeProxy][spender] \in Nat
  BY ArcadeTyped DEF ConsoleInv, RefinanceInv, AllowedType
<1>4. /\ flash = None /\ flash' = None
      /\ \A x \in Accounts : balance'[x]
           = balance[x] - Taken(x, ArcadeProxy, amount) + Taken(x, spender, amount)
      /\ UNCHANGED <<loanVars, custodyVars>>
  BY <1>2, <1>3, ArcadeTyped, TakeApprovedMoves
<1>5. RefinanceInv' /\ MoneyInv'
  BY <1>2, <1>3, ArcadeTyped, TakeApprovedKeeps, TakeApprovedKeepsMoney
<1>6. ASSUME NEW w \in Wallets
      PROVE  balance'[w] >= balance[w]
  <2>1. w \in Accounts /\ w # ArcadeProxy /\ balance[w] \in Nat
    BY <1>3, SoundNow, ArcadeTyped, MoversSpared
  <2>2. amount \in Nat
    BY <1>3
  <2> QED
    BY <1>4, <2>1, <2>2 DEF Taken
<1> QED
  BY <1>4, <1>5, <1>6 DEF loanVars, custodyVars

\* The steps between the transactions of a function, and those of the service.
Prepares(w) ==
  \/ ApprovePrincipal(w) \/ ApproveCollateral(w) \/ Stop(w)
  \/ \E offer \in Offers :
       \/ CreateOffer(w, offer)
       \/ \E nft \in Nfts, broker \in BrokerTerms : BeginLoan(w, offer, nft, broker)
       \/ \E foreign \in ForeignLoans, amount \in FlashAmounts :
            BeginRefinance(w, foreign, amount, offer)
  \/ \E loan \in indexed : BeginPayment(w, loan)

\* The calls of a transaction at the proxy, whoever signed it and with whatever
\* data: it begins, it makes a loan, it is paid back or taken back.
Starts ==
  /\ \E msg \in Calls, foreign \in ForeignLoans \cup {None}, amount \in Nat, paid \in Nat :
       Opens(msg, ArcadeProxy, foreign, amount, paid)
  /\ Begins

Lending == \E offer \in Offers, nft \in Nfts, broker \in BrokerTerms : Lends(offer, nft, broker)

ProxyStep == Starts \/ Lending \/ PaysBack \/ Reverts

\* What it does to the session of a wallet.
Follows(w) ==
  \/ session'[w] = session[w]
  \/ session'[w] = None
  \/ session'[w] \in RefinanceSession /\ session'[w].step = 4

LEMMA ArcadeOpens ==
  ASSUME RefinanceInv, NEW msg \in Calls, NEW foreign \in ForeignLoans,
         NEW amount \in FlashAmounts, NEW spender \in Approvees,
         ArcadeRefinance(msg, foreign, amount, spender)
  PROVE  \E paid \in Nat : Opens(msg, ArcadeProxy, foreign, amount, paid)
<1>1. foreign.proxy = ArcadeProxy /\ RepayApproved(msg, foreign, amount, spender, debt[foreign])
  BY DEF ArcadeRefinance
<1>2. debt[foreign] \in Nat /\ debt[foreign] <= debt[foreign] /\ amount \in Nat
  BY FlashNat DEF RefinanceInv
<1> QED
  BY <1>1, <1>2, ArcadeTyped, RepayApprovedOpens

\* The last transaction of arcade_refinance, by its calls.
LEMMA RefinanceCalls ==
  ASSUME ConsoleInv, NEW w \in Wallets, RefinanceStep(w)
  PROVE  /\ ProxyStep /\ UNCHANGED serviceVars
         /\ session' \in [Wallets -> Sessions \cup {None}] /\ OwnTransaction'
         /\ \A v \in Wallets : Follows(v)
<1>1. /\ ConsoleTyped /\ RefinanceInv /\ MoneyInv /\ OwnTransaction /\ UNCHANGED serviceVars
      /\ session \in [Wallets -> Sessions \cup {None}]
  BY DEF ConsoleInv, ConsoleTyped, RefinanceStep
<1>2. /\ session[w] \in RefinanceSession /\ session[w].foreign \in ForeignLoans
      /\ session[w].amount \in FlashAmounts /\ session[w].offer \in Offers
      /\ session[w].foreign.nft \in Nfts
  <2>1. session[w] \in RefinanceSession
    BY <1>1, SessionTyped DEF RefinanceStep
  <2> QED
    BY <2>1, ForeignTyped DEF RefinanceSession
<1>3. ASSUME Running(w, "refinance", 3),
             ArcadeRefinance(OwnCall(w), session[w].foreign, session[w].amount, Elsewhere),
             Begins, NextRefinanceStep(w)
      PROVE  /\ Starts /\ session' \in [Wallets -> Sessions \cup {None}] /\ OwnTransaction'
             /\ \A v \in Wallets : Follows(v)
  <2> DEFINE new == [session[w] EXCEPT !.step = @ + 1]
  <2>1. PICK paid \in Nat :
          Opens(OwnCall(w), ArcadeProxy, session[w].foreign, session[w].amount, paid)
    BY <1>1, <1>2, <1>3, OwnCallTyped, RefinanceAssumption, ArcadeOpens
  <2>2. session[w].amount \in Nat
    BY <1>2, FlashNat
  <2>3. Starts
    BY <1>2, <1>3, <2>1, <2>2, OwnCallTyped DEF Starts
  <2>4. flash = None /\ flash' # None /\ flash'.msg = OwnCall(w)
    BY <1>1, <1>2, <2>1, <2>2, OwnCallTyped, ArcadeTyped, OpensFlash
  <2>5. session[w].step = 3 /\ session' = [session EXCEPT ![w] = new]
    BY <1>3 DEF Running, NextRefinanceStep
  <2>6. new \in RefinanceSession /\ new.step = 4 /\ new \in Sessions
    BY <1>2, <2>5 DEF RefinanceSession, Sessions
  <2> HIDE DEF new
  <2>7. /\ session' \in [Wallets -> Sessions \cup {None}] /\ session'[w] = new
        /\ \A v \in Wallets : v # w => session'[v] = session[v]
    BY <1>1, <2>5, <2>6
  <2>8. ASSUME NEW v \in Wallets, Running(v, "refinance", 4)'
        PROVE  flash' # None /\ flash'.msg = OwnCall(v)'
    <3>1. CASE v = w
      BY <2>4, <3>1 DEF OwnCall
    <3>2. CASE v # w
      <4>1. Running(v, "refinance", 4)
        BY <2>7, <2>8, <3>2 DEF Running
      <4> QED
        BY <1>1, <2>4, <4>1 DEF OwnTransaction
    <3> QED
      BY <3>1, <3>2
  <2>9. OwnTransaction'
    BY <2>8 DEF OwnTransaction
  <2>10. \A v \in Wallets : Follows(v)
    BY <2>6, <2>7 DEF Follows
  <2> QED
    BY <2>3, <2>7, <2>9, <2>10
<1>4. ASSUME Lends(session[w].offer, session[w].foreign.nft, NoBroker), UNCHANGED session
      PROVE  /\ Lending /\ session' \in [Wallets -> Sessions \cup {None}] /\ OwnTransaction'
             /\ \A v \in Wallets : Follows(v)
  <2>1. Lending
    BY <1>2, <1>4, ConsoleAssumption DEF Lending
  <2>2. flash # None /\ flash' # None /\ flash'.msg = flash.msg
    <3>1. /\ flash # None /\ flash' = [flash EXCEPT !.created = TRUE]
      BY <1>4 DEF Lends, CreateRefinancedLoan
    <3>2. flash \in FlashType
      BY <1>1, <3>1 DEF MoneyInv, InProgress
    <3>3. flash' \in FlashType /\ flash'.msg = flash.msg
      BY <3>1, <3>2 DEF FlashType
    <3> QED
      BY <3>1, <3>3, NoneIsNoTransaction
  <2>3. OwnTransaction'
    BY <1>1, <1>4, <2>2 DEF OwnTransaction, Running, OwnCall
  <2> QED
    BY <1>1, <1>4, <2>1, <2>3 DEF Follows
<1>5. ASSUME Running(w, "refinance", 4), PaysBack \/ Reverts, Ends(w)
      PROVE  /\ session' \in [Wallets -> Sessions \cup {None}] /\ OwnTransaction'
             /\ \A v \in Wallets : Follows(v)
  <2>1. /\ session' \in [Wallets -> Sessions \cup {None}] /\ session'[w] = None
        /\ \A v \in Wallets : v # w => session'[v] = session[v]
    BY <1>1, <1>5 DEF Ends
  <2>2. ASSUME NEW v \in Wallets, Running(v, "refinance", 4)'
        PROVE  FALSE
    <3>1. v # w
      BY <2>1, <2>2 DEF Running
    <3>2. Running(v, "refinance", 4)
      BY <2>1, <2>2, <3>1 DEF Running
    <3>3. OwnCall(v) = OwnCall(w)
      BY <1>1, <1>5, <3>2 DEF OwnTransaction
    <3> QED
      BY <3>1, <3>3, OwnCallTyped
  <2>3. OwnTransaction'
    BY <2>2 DEF OwnTransaction
  <2>4. \A v \in Wallets : Follows(v)
    BY <2>1 DEF Follows
  <2> QED
    BY <2>1, <2>3, <2>4
<1> QED
  BY <1>1, <1>3, <1>4, <1>5 DEF RefinanceStep, ProxyStep

\* So is one that belongs to no session.
LEMMA OtherCalls ==
  ASSUME ConsoleInv, OtherRefinance
  PROVE  /\ ProxyStep /\ UNCHANGED <<session, serviceVars>> /\ OwnTransaction'
         /\ \A v \in Wallets : Follows(v)
<1>1. /\ RefinanceInv /\ posted \subseteq Offers /\ UNCHANGED <<session, serviceVars>>
      /\ OfNoFunction
  BY DEF ConsoleInv, ConsoleTyped, OtherRefinance
<1>2. ASSUME NEW msg \in Callers, NEW amount \in FlashAmounts, NEW spender \in Approvees, Begins,
             \/ \E foreign \in ForeignLoans : ArcadeRefinance(msg, foreign, amount, spender)
             \/ RepayNothing(msg, ArcadeProxy, amount, spender)
      PROVE  Starts
  <2>1. msg \in Calls /\ amount \in Nat /\ 0 \in Nat
    BY RefinanceAssumption
  <2>2. CASE \E foreign \in ForeignLoans : ArcadeRefinance(msg, foreign, amount, spender)
    BY <1>1, <1>2, <2>1, <2>2, ArcadeOpens DEF Starts
  <2>3. CASE RepayNothing(msg, ArcadeProxy, amount, spender)
    <3>1. Opens(msg, ArcadeProxy, None, amount, 0)
      BY <1>1, <2>1, <2>3, ArcadeTyped, RepayNothingOpens
    <3> QED
      BY <1>2, <2>1, <3>1 DEF Starts
  <2> QED
    BY <1>2, <2>2, <2>3
<1>3. ProxyStep
  BY <1>1, <1>2 DEF OtherRefinance, ProxyStep, Lending
<1>4. OwnTransaction'
  BY <1>1 DEF OwnTransaction, OfNoFunction, Running
<1> QED
  BY <1>1, <1>3, <1>4 DEF Follows

\* Such a transaction keeps the invariants of the refinancing.
LEMMA CallsKeepChain ==
  ASSUME ConsoleInv, ProxyStep
  PROVE  RefinanceInv' /\ MoneyInv'
<1>1. RefinanceInv /\ MoneyInv
  BY DEF ConsoleInv
<1>2. CASE Starts
  <2>1. PICK msg \in Calls, foreign \in ForeignLoans \cup {None}, amount \in Nat, paid \in Nat :
          Opens(msg, ArcadeProxy, foreign, amount, paid)
    BY <1>2 DEF Starts
  <2> QED
    BY <1>1, <2>1, ArcadeTyped, OpensKeeps, OpensKeepsMoney
<1>3. CASE Lending
  <2>1. PICK offer \in Offers, nft \in Nfts, broker \in BrokerTerms :
          CreateRefinancedLoan(offer, nft, None, broker)
    BY <1>3 DEF Lending, Lends
  <2> QED
    BY <1>1, <2>1, CreateRefinancedLoanKeeps, CreateRefinancedLoanKeepsMoney
<1>4. CASE PaysBack
  BY <1>1, <1>4, PayBackKeeps, PayBackKeepsMoney DEF PaysBack
<1>5. CASE Reverts
  BY <1>1, <1>5, RevertKeeps, RevertKeepsMoney DEF Reverts
<1> QED
  BY <1>2, <1>3, <1>4, <1>5 DEF ProxyStep

----------------------------------------------------------------------------
(* What each step does to approvals and sessions.                           *)

AllowanceTyped == allowance \in [Wallets -> [Spenders -> Nat]]

LEMMA ApproveSets ==
  ASSUME AllowanceTyped, NEW w \in Wallets, NEW spender \in Spenders, NEW amount \in Nat,
         Approve(w, spender, amount)
  PROVE  /\ AllowanceTyped'
         /\ allowance'[w][spender] = amount
         /\ \A a \in Wallets, s \in Spenders :
              <<a, s>> # <<w, spender>> => allowance'[a][s] = allowance[a][s]
<1> DEFINE row == [allowance[w] EXCEPT ![spender] = amount]
<1>1. allowance' = [allowance EXCEPT ![w] = row]
  BY DEF Approve
<1>2. /\ row \in [Spenders -> Nat] /\ row[spender] = amount
      /\ \A s \in Spenders : s # spender => row[s] = allowance[w][s]
  BY DEF AllowanceTyped
<1> HIDE DEF row
<1>3. AllowanceTyped'
  BY <1>1, <1>2 DEF AllowanceTyped
<1>4. \A a \in Wallets : allowance'[a] = IF a = w THEN row ELSE allowance[a]
  BY <1>1 DEF AllowanceTyped
<1> QED
  BY <1>2, <1>3, <1>4

\* approve only if what was there is less.
LEMMA ApproveUpToRaises ==
  ASSUME AllowanceTyped, NEW w \in Wallets, NEW spender \in Spenders, NEW amount \in Nat,
         ApproveUpTo(w, spender, amount)
  PROVE  /\ AllowanceTyped'
         /\ allowance'[w][spender] >= amount
         /\ \A a \in Wallets, s \in Spenders : allowance'[a][s] >= allowance[a][s]
<1>1. \A a \in Wallets, s \in Spenders : allowance[a][s] \in Nat
  BY DEF AllowanceTyped
<1>2. CASE allowance[w][spender] < amount
  <2>1. Approve(w, spender, amount)
    BY <1>2 DEF ApproveUpTo
  <2>2. /\ AllowanceTyped' /\ allowance'[w][spender] = amount
        /\ \A a \in Wallets, s \in Spenders :
             <<a, s>> # <<w, spender>> => allowance'[a][s] = allowance[a][s]
    BY <2>1, ApproveSets
  <2>3. ASSUME NEW a \in Wallets, NEW s \in Spenders
        PROVE  allowance'[a][s] >= allowance[a][s]
    BY <1>1, <1>2, <2>2
  <2> QED
    BY <2>2, <2>3
<1>3. CASE ~(allowance[w][spender] < amount)
  BY <1>1, <1>3 DEF ApproveUpTo, AllowanceTyped
<1> QED
  BY <1>2, <1>3

LEMMA SpendLowers ==
  ASSUME AllowanceTyped, NEW w \in Wallets, NEW spender \in Spenders, NEW amount \in Nat,
         Spend(w, spender, amount)
  PROVE  /\ AllowanceTyped'
         /\ \A a \in Wallets, s \in Spenders :
              /\ allowance'[a][s] <= allowance[a][s]
              /\ <<a, s>> # <<w, spender>> => allowance'[a][s] = allowance[a][s]
<1>1. \A a \in Wallets, s \in Spenders : allowance[a][s] \in Nat
  BY DEF AllowanceTyped
<1> DEFINE left == allowance[w][spender] - amount
<1>2. left \in Nat /\ left <= allowance[w][spender] /\ Approve(w, spender, left)
  BY <1>1 DEF Spend
<1> HIDE DEF left
<1>3. /\ AllowanceTyped' /\ allowance'[w][spender] = left
      /\ \A a \in Wallets, s \in Spenders :
           <<a, s>> # <<w, spender>> => allowance'[a][s] = allowance[a][s]
  BY <1>2, ApproveSets
<1>4. ASSUME NEW a \in Wallets, NEW s \in Spenders
      PROVE  allowance'[a][s] <= allowance[a][s]
  BY <1>1, <1>2, <1>3
<1> QED
  BY <1>3, <1>4

\* What an offer makes its lender pay.
LEMMA LenderPaysNat ==
  ASSUME NEW offer \in Offers
  PROVE  /\ NewLenderPays(offer) \in Int
         /\ OfferOpen(offer) => NewLenderPays(offer) \in Nat
<1>1. /\ offer.principal \in Nat /\ offer.origination_fee_amount \in Nat
      /\ offer.broker_upfront_fee_amount \in Nat
  BY OffersAssumption
<1> QED
  BY <1>1 DEF NewLenderPays, OfferOpen

\* Before its last transaction a function changes nothing on chain but approvals.
LEMMA PreparationsTyped ==
  ASSUME ConsoleInv, NEW w \in Wallets, Prepares(w)
  PROVE  ConsoleTyped' /\ flash = None /\ UNCHANGED allVars
<1>1. /\ ConsoleTyped /\ AllowanceTyped
      /\ Vault \in Spenders /\ ArcadeProxy \in Spenders
  BY DEF ConsoleInv, ConsoleTyped, AllowanceTyped, Spenders
<1>2. CASE ApprovePrincipal(w)
  <2>1. session[w] \in RefinanceSession /\ session[w].step = 1
    BY <1>1, <1>2, SessionTyped DEF ApprovePrincipal, Running
  <2>2. session[w].offer.lender \in Wallets /\ session[w].offer.principal \in Nat
    BY <2>1, OffersAssumption DEF RefinanceSession
  <2>3. AllowanceTyped'
    BY <1>1, <1>2, <2>2, ApproveUpToRaises DEF ApprovePrincipal
  <2>4. [session[w] EXCEPT !.step = @ + 1] \in RefinanceSession
    BY <2>1 DEF RefinanceSession
  <2>5. session' = [session EXCEPT ![w] = [session[w] EXCEPT !.step = @ + 1]]
    BY <1>2 DEF ApprovePrincipal, NextRefinanceStep
  <2> QED
    BY <1>1, <1>2, <2>3, <2>4, <2>5
       DEF ApprovePrincipal, ConsoleTyped, AllowanceTyped, Sessions, serviceVars, Chain, allVars
<1>3. CASE ApproveCollateral(w)
  <2>1. session[w] \in RefinanceSession /\ session[w].step = 2
    BY <1>1, <1>3, SessionTyped DEF ApproveCollateral, Running
  <2>2. [session[w] EXCEPT !.step = @ + 1] \in RefinanceSession
    BY <2>1 DEF RefinanceSession
  <2>3. session' = [session EXCEPT ![w] = [session[w] EXCEPT !.step = @ + 1]]
    BY <1>3 DEF ApproveCollateral, NextRefinanceStep
  <2> QED
    BY <1>1, <1>3, <2>2, <2>3
       DEF ApproveCollateral, ConsoleTyped, Sessions, serviceVars, Chain, allVars
<1>4. CASE Stop(w)
  BY <1>1, <1>4 DEF Stop, Ends, ConsoleTyped, consentVars, approvalVars, serviceVars, Chain,
     allVars
<1>5. ASSUME NEW offer \in Offers, CreateOffer(w, offer)
      PROVE  ConsoleTyped' /\ flash = None /\ UNCHANGED allVars
  BY <1>1, <1>5 DEF CreateOffer, ConsoleTyped, consentVars, approvalVars, Chain, allVars
<1>6. ASSUME NEW offer \in Offers, NEW nft \in Nfts, NEW broker \in BrokerTerms,
             BeginLoan(w, offer, nft, broker)
      PROVE  ConsoleTyped' /\ flash = None /\ UNCHANGED allVars
  <2> DEFINE new == [kind |-> "create", step |-> 1, offer |-> offer, nft |-> nft,
                     broker |-> broker]
  <2>1. new \in Sessions
    BY DEF Sessions, CreateSession
  <2>2. session' = [session EXCEPT ![w] = new]
    BY <1>6 DEF BeginLoan
  <2> HIDE DEF new
  <2> QED
    BY <1>1, <1>6, <2>1, <2>2 DEF BeginLoan, ConsoleTyped, serviceVars, Chain, allVars
<1>7. ASSUME NEW offer \in Offers, NEW foreign \in ForeignLoans, NEW amount \in FlashAmounts,
             BeginRefinance(w, foreign, amount, offer)
      PROVE  ConsoleTyped' /\ flash = None /\ UNCHANGED allVars
  <2> DEFINE new == [kind |-> "refinance", step |-> 1, foreign |-> foreign,
                     amount |-> amount, offer |-> offer]
  <2>1. new \in Sessions
    BY RefinanceAssumption DEF Sessions, RefinanceSession
  <2>2. session' = [session EXCEPT ![w] = new]
    BY <1>7 DEF BeginRefinance
  <2>3. AllowanceTyped'
    BY <1>1, <1>7, RefinanceAssumption, ApproveUpToRaises DEF BeginRefinance
  <2>4. flash = None /\ UNCHANGED <<approved, serviceVars, Chain>>
    BY <1>7 DEF BeginRefinance
  <2> HIDE DEF new
  <2> QED
    BY <1>1, <2>1, <2>2, <2>3, <2>4
       DEF ConsoleTyped, AllowanceTyped, serviceVars, Chain, allVars
<1>8. ASSUME NEW loan \in indexed, BeginPayment(w, loan)
      PROVE  ConsoleTyped' /\ flash = None /\ UNCHANGED allVars
  <2> DEFINE new == [kind |-> "pay", step |-> 1, loan |-> loan]
  <2>1. loan \in LoanType
    BY <1>1 DEF ConsoleTyped
  <2>2. new \in Sessions
    BY <2>1 DEF Sessions, PaySession
  <2>3. session' = [session EXCEPT ![w] = new]
    BY <1>8 DEF BeginPayment
  <2>4. ApprovedAmount(loan) \in Nat
    BY <2>1, LoanTyped DEF ApprovedAmount, IsTerms, LoanFeesOK, FeeTypes
  <2>5. AllowanceTyped'
    BY <1>1, <1>8, <2>4, ApproveSets DEF BeginPayment
  <2> HIDE DEF new
  <2> QED
    BY <1>1, <1>8, <2>2, <2>3, <2>5
       DEF BeginPayment, ConsoleTyped, AllowanceTyped, serviceVars, Chain, allVars
<1> QED
  BY <1>2, <1>3, <1>4, <1>5, <1>6, <1>7, <1>8 DEF Prepares

LEMMA LoansInTime ==
  ASSUME ConsoleInv
  PROVE  LoansStarted /\ loans \subseteq LoanType /\ now \in Nat
<1>1. LoansStarted /\ TypeOK
  BY DEF ConsoleInv, RefinanceInv, IInv
<1> QED
  BY <1>1 DEF TypeOK, LoansTyped

\* Between transactions nothing has to be said of one.
LEMMA NoTransaction ==
  ASSUME flash' = None
  PROVE  ConsentKept' /\ NftsKept'
  BY DEF ConsentKept, NftsKept

\* A session comes to its last step only when its transaction begins.
LEMMA OwnStays ==
  ASSUME OwnTransaction, flash = None,
         \A v \in Wallets :
           session'[v] = session[v] \/ session'[v] = None \/ session'[v].step # 4
  PROVE  OwnTransaction'
  BY DEF OwnTransaction, Running

LEMMA PreparationsOwn ==
  ASSUME ConsoleInv, NEW w \in Wallets, Prepares(w)
  PROVE  OwnTransaction'
<1>1. /\ ConsoleTyped /\ OwnTransaction /\ flash = None
      /\ session \in [Wallets -> Sessions \cup {None}]
  BY PreparationsTyped DEF ConsoleInv, ConsoleTyped
<1> DEFINE Stays == \A v \in Wallets :
                      session'[v] = session[v] \/ session'[v] = None \/ session'[v].step # 4
<1>2. ASSUME NEW new, new.step # 4, session' = [session EXCEPT ![w] = new]
      PROVE  Stays
  BY <1>1, <1>2
<1>3. ASSUME NEW step \in {1, 2}, Running(w, "refinance", step), NextRefinanceStep(w)
      PROVE  Stays
  <2> DEFINE new == [session[w] EXCEPT !.step = @ + 1]
  <2>1. session[w] \in RefinanceSession /\ session[w].step \in {1, 2}
    BY <1>1, <1>3, SessionTyped DEF Running
  <2>2. session' = [session EXCEPT ![w] = new]
    BY <1>3 DEF NextRefinanceStep
  <2>3. new.step # 4
    BY <2>1 DEF RefinanceSession
  <2> HIDE DEF new
  <2> QED
    BY <1>2, <2>2, <2>3
<1>4. CASE ApprovePrincipal(w)
  BY <1>3, <1>4, <1>1, OwnStays DEF ApprovePrincipal
<1>5. CASE ApproveCollateral(w)
  BY <1>3, <1>5, <1>1, OwnStays DEF ApproveCollateral
<1>6. CASE Stop(w)
  BY <1>1, <1>6, OwnStays DEF Stop, Ends
<1>7. ASSUME NEW offer \in Offers, CreateOffer(w, offer)
      PROVE  OwnTransaction'
  BY <1>1, <1>7, OwnStays DEF CreateOffer
<1>8. ASSUME NEW offer \in Offers, NEW nft \in Nfts, NEW broker \in BrokerTerms,
             BeginLoan(w, offer, nft, broker)
      PROVE  OwnTransaction'
  <2> DEFINE new == [kind |-> "create", step |-> 1, offer |-> offer, nft |-> nft,
                     broker |-> broker]
  <2>1. new.step # 4 /\ session' = [session EXCEPT ![w] = new]
    BY <1>8 DEF BeginLoan
  <2> HIDE DEF new
  <2> QED
    BY <1>1, <1>2, <2>1, OwnStays
<1>9. ASSUME NEW offer \in Offers, NEW foreign \in ForeignLoans, NEW amount \in FlashAmounts,
             BeginRefinance(w, foreign, amount, offer)
      PROVE  OwnTransaction'
  <2> DEFINE new == [kind |-> "refinance", step |-> 1, foreign |-> foreign,
                     amount |-> amount, offer |-> offer]
  <2>1. new.step # 4 /\ session' = [session EXCEPT ![w] = new]
    BY <1>9 DEF BeginRefinance
  <2> HIDE DEF new
  <2> QED
    BY <1>1, <1>2, <2>1, OwnStays
<1>10. ASSUME NEW loan \in indexed, BeginPayment(w, loan)
       PROVE  OwnTransaction'
  <2> DEFINE new == [kind |-> "pay", step |-> 1, loan |-> loan]
  <2>1. new.step # 4 /\ session' = [session EXCEPT ![w] = new]
    BY <1>10 DEF BeginPayment
  <2> HIDE DEF new
  <2> QED
    BY <1>1, <1>2, <2>1, OwnStays
<1> QED
  BY <1>4, <1>5, <1>6, <1>7, <1>8, <1>9, <1>10 DEF Prepares

LEMMA EndsTyped ==
  ASSUME ConsoleTyped, NEW w \in Wallets, Ends(w)
  PROVE  session' \in [Wallets -> Sessions \cup {None}] /\ session'[w] = None
         /\ \A v \in Wallets : v # w => session'[v] = session[v]
  BY DEF ConsoleTyped, Ends

LEMMA CreateLoanStepKeeps ==
  ASSUME ConsoleInv, NEW w \in Wallets, CreateLoanStep(w)
  PROVE  /\ ConsoleTyped' /\ OwnTransaction' /\ flash' = None
         /\ session[w] \in CreateSession /\ session[w].offer.lender \in Wallets
         /\ \A a \in Wallets, s \in Spenders :
              a # session[w].offer.lender => allowance'[a][s] = allowance[a][s]
<1>1. ConsoleTyped /\ AllowanceTyped /\ Vault \in Spenders
  BY DEF ConsoleInv, ConsoleTyped, AllowanceTyped, Spenders
<1>2. session[w] \in CreateSession
  BY <1>1, SessionTyped DEF CreateLoanStep
<1>3. session[w].offer \in Offers /\ session[w].offer.lender \in Wallets
  BY <1>2, OfferTyped DEF CreateSession
<1>4. OfferOpen(session[w].offer) /\ Spend(session[w].offer.lender, Vault, NewLenderPays(session[w].offer))
  BY DEF CreateLoanStep, CreateLoan
<1>5. /\ AllowanceTyped'
      /\ \A a \in Wallets, s \in Spenders :
           a # session[w].offer.lender => allowance'[a][s] = allowance[a][s]
  BY <1>1, <1>3, <1>4, LenderPaysNat, SpendLowers
<1>6. /\ flash' = None /\ approved' \subseteq approved /\ UNCHANGED <<posted, indexed>>
      /\ session' \in [Wallets -> Sessions \cup {None}]
  BY <1>1, EndsTyped DEF CreateLoanStep, Take, refinanceVars, serviceVars
<1>7. OwnTransaction'
  BY <1>1, EndsTyped, OwnStays DEF ConsoleInv, CreateLoanStep
<1> QED
  BY <1>1, <1>2, <1>3, <1>5, <1>6, <1>7 DEF ConsoleTyped, AllowanceTyped

\* What a loan costs to pay, at any moment it can be paid at.
LEMMA RepaymentNat ==
  ASSUME NEW loan \in LoanType, InterestDefined(loan), NEW t \in Nat,
         loan.pro_rata => loan.start_time <= t
  PROVE  Repayment(loan, SettlementInterest(loan, t)) \in Nat
<1>1. IsTerms(loan)
  BY LoanTyped
<1> DEFINE interest == SettlementInterest(loan, t)
<1>2. interest \in Nat
  <2>1. CASE loan.pro_rata
    BY <1>1, <2>1, InterestNat
  <2>2. CASE ~loan.pro_rata
    BY <1>1, <2>2 DEF SettlementInterest, IsTerms
  <2> QED
    BY <2>1, <2>2
<1> HIDE DEF interest
<1>3. SettlementFee(loan, interest, "BORROWER_BROKER_FEE") \in Nat
  BY <1>1, <1>2, SettlementFeeNat DEF FeeTypes
<1>4. Repayment(loan, interest) \in Nat
  BY <1>1, <1>2, <1>3 DEF Repayment, BorrowerBrokerFee, IsTerms
<1> QED
  BY <1>4 DEF interest

LEMMA PayLoanStepKeeps ==
  ASSUME ConsoleInv, NEW w \in Wallets, PayLoanStep(w)
  PROVE  /\ ConsoleTyped' /\ OwnTransaction' /\ flash' = None
         /\ session[w].loan \in loans /\ session[w].loan.borrower = w
         /\ SettleLoan(Direct(w), session[w].loan)
         /\ \A a \in Wallets, s \in Spenders : a # w => allowance'[a][s] = allowance[a][s]
<1> DEFINE loan == session[w].loan
<1>1. /\ ConsoleTyped /\ AllowanceTyped /\ Vault \in Spenders
      /\ loans \subseteq LoanType /\ LoansStarted /\ now \in Nat
  <2>1. LoansStarted /\ loans \subseteq LoanType /\ now \in Nat
    BY LoansInTime
  <2> QED
    BY <2>1 DEF ConsoleInv, ConsoleTyped, AllowanceTyped, Spenders
<1>2. /\ flash' = None /\ loan \in loans /\ SettleLoan(Direct(w), loan)
      /\ Spend(loan.borrower, Vault, Due(loan)) /\ Ends(w)
      /\ UNCHANGED <<approved, posted, indexed>>
  BY DEF PayLoanStep, refinanceVars, serviceVars
<1> HIDE DEF loan
<1>3. loan.borrower = w /\ InterestDefined(loan)
  BY <1>2, DirectTyped DEF SettleLoan, CheckUser
<1>4. Due(loan) \in Nat
  <2>1. loan \in LoanType /\ loan.start_time <= now
    BY <1>1, <1>2 DEF LoansStarted
  <2>2. IsTerms(loan) /\ LoanFeesOK(loan.fees)
    BY <2>1, LoanTyped
  <2> QED
    BY <1>1, <1>3, <2>1, <2>2, RepaymentNat DEF Due
<1>5. /\ AllowanceTyped'
      /\ \A a \in Wallets, s \in Spenders : a # w => allowance'[a][s] = allowance[a][s]
  BY <1>1, <1>2, <1>3, <1>4, SpendLowers
<1>6. session' \in [Wallets -> Sessions \cup {None}]
  BY <1>1, <1>2, EndsTyped
<1>7. OwnTransaction'
  BY <1>1, EndsTyped, OwnStays DEF ConsoleInv, PayLoanStep
<1> QED
  BY <1>1, <1>2, <1>3, <1>5, <1>6, <1>7 DEF ConsoleTyped, AllowanceTyped, loan

\* The loan that create_loan makes is a new one, of the offer's lender, and brings
\* the borrower no less than nothing.
LEMMA CreatesLoan ==
  ASSUME TypeOK, NEW msg, NEW offer \in Offers, NEW nft, NEW d, NEW b \in BrokerTerms,
         CreateLoan(msg, offer, nft, d, b)
  PROVE  LET borrower == IF msg.sender \in authorized_proxies THEN msg.origin ELSE msg.sender
         IN  /\ BorrowerProceeds(offer, LoanFees(offer, b, protocol)) \in Nat
             /\ \E loan \in loans' \ loans :
                  /\ loans' = loans \cup {loan}
                  /\ loan.lender = offer.lender /\ loan.borrower = borrower
                  /\ Brought(loan) \in Nat
                  /\ nft_owner[nft] = borrower
                  /\ nft_owner' = [nft_owner EXCEPT ![nft] = Vault]
<1> DEFINE borrower == IF msg.sender \in authorized_proxies THEN msg.origin ELSE msg.sender
           fees == LoanFees(offer, b, protocol)
           loan == NewLoan(offer, borrower, nft, fees, d)
<1>1. /\ loans' = loans \cup {loan} /\ IdUnusedIn(loan, loans)
      /\ nft_owner[nft] = borrower /\ nft_owner' = [nft_owner EXCEPT ![nft] = Vault]
      /\ LoanFeesDefined(offer, b, protocol, FeeCaps, None) /\ BorrowerProceedsDefined(offer, fees)
  BY DEF CreateLoan
<1>2. /\ loan.lender = offer.lender /\ loan.borrower = borrower
      /\ loan.amount = offer.principal /\ loan.fees = fees
  BY DEF NewLoan
<1>3. /\ \A type \in FeeTypes : fees[type].upfront_amount \in Nat
      /\ fees["LENDER_BROKER_FEE"].upfront_amount = offer.broker_upfront_fee_amount
  <2>1. AdminTyped /\ b \in FeeTerms
    BY TermsAssumption DEF TypeOK
  <2>2. \A type \in FeeTypes : fees[type].upfront_amount \in Nat
    BY <1>1, <2>1, FeesTyped
  <2>3. fees["LENDER_BROKER_FEE"].upfront_amount = offer.broker_upfront_fee_amount
    BY DEF LoanFees, FeeTypes
  <2> QED
    BY <2>2, <2>3
<1> HIDE DEF loan, borrower, fees
<1>4. TotalUpfrontFees(fees) \in Nat
  BY <1>3 DEF TotalUpfrontFees, FeeTypes
<1>5. offer.principal \in Nat /\ offer.broker_upfront_fee_amount \in Nat
  BY OffersAssumption
<1>6. BorrowerProceeds(offer, fees) \in Nat /\ Brought(loan) = BorrowerProceeds(offer, fees)
  BY <1>1, <1>2, <1>3, <1>4, <1>5 DEF BorrowerProceeds, BorrowerProceedsDefined, Brought
<1>7. loan \notin loans
  BY <1>1 DEF IdUnusedIn
<1> QED
  BY <1>1, <1>2, <1>6, <1>7 DEF borrower, fees

\* The transaction begins: the approvals are kept, and somebody may have one NFT more.
LEMMA StartsKeeps ==
  ASSUME ConsoleInv, Starts
  PROVE  /\ flash = None /\ flash' # None /\ ConsentKept' /\ NftsKept'
         /\ UNCHANGED <<allowance, approved, loans>>
<1>1. /\ ConsoleTyped /\ RefinanceInv /\ kept' = Approvals /\ UNCHANGED <<allowance, approved>>
  BY DEF ConsoleInv, Starts, Begins, approvalVars
<1>2. PICK msg \in Calls, foreign \in ForeignLoans \cup {None}, amount \in Nat, paid \in Nat :
        Opens(msg, ArcadeProxy, foreign, amount, paid)
  BY DEF Starts
<1>3. /\ flash = None /\ flash' # None /\ flash'.proxy = ArcadeProxy /\ flash'.saved = Saved
  BY <1>1, <1>2, ArcadeTyped, OpensFlash
<1>4. loans' = loans /\ Repays(ArcadeProxy, foreign, paid)
  BY <1>2 DEF Opens, loanVars
<1>5. ConsentKept'
  <2>1. kept' \in KeptType /\ kept'.allowance = allowance
    BY <1>1 DEF Approvals, KeptType, ConsoleTyped
  <2>2. \A a \in Wallets, s \in Spenders : allowance'[a][s] <= kept'.allowance[a][s]
    BY <1>1, <2>1 DEF ConsoleTyped
  <2> QED
    BY <1>3, <2>1, <2>2 DEF ConsentKept
<1>6. NftsKept'
  <2>1. flash'.saved.nft_owner = nft_owner /\ flash'.saved.loans = loans
    BY <1>3 DEF Saved
  <2>2. nft_owner \in [Nfts -> Keepers \cup {Vault}] /\ debt \in [ForeignLoans -> Nat]
        /\ ElsewhereIffDue(nft_owner, debt)
    BY <1>1 DEF RefinanceInv, IInv, TypeOK, CustodyTyped
  <2>3. ASSUME NEW v \in Wallets, NEW nft \in Nfts, nft_owner[nft] = v
        PROVE  nft_owner'[nft] = v
    <3>1. CASE nft_owner' = nft_owner
      BY <2>3, <3>1
    <3>2. CASE nft_owner' # nft_owner
      <4>1. /\ foreign \in ForeignLoans /\ debt[foreign] > 0
            /\ nft_owner' = [nft_owner EXCEPT ![foreign.nft] = foreign.borrower]
        BY <1>4, <3>2 DEF Repays
      <4>2. nft_owner[foreign.nft] = Elsewhere
        BY <2>2, <4>1 DEF ElsewhereIffDue
      <4> QED
        BY <2>2, <2>3, <4>1, <4>2, ElsewhereIsNoWallet
    <3> QED
      BY <3>1, <3>2
  <2> QED
    BY <1>4, <2>1, <2>3 DEF NftsKept
<1> QED
  BY <1>1, <1>3, <1>4, <1>5, <1>6

\* The loan is made: the lender's approval is spent, and the borrower's NFT pledged.
LEMMA LendingKeeps ==
  ASSUME ConsoleInv, Lending
  PROVE  /\ flash # None /\ flash' # None /\ ConsentKept' /\ NftsKept'
         /\ AllowanceTyped' /\ approved' \subseteq approved
         /\ \A a \in Wallets, s \in Spenders : allowance'[a][s] = allowance[a][s] \/ LentBy(a)
<1>1. PICK offer \in Offers, nft \in Nfts, broker \in BrokerTerms : Lends(offer, nft, broker)
  BY DEF Lending
<1> DEFINE msg == [sender |-> flash.proxy, origin |-> flash.msg.origin]
<1>2. /\ AllowanceTyped /\ RefinanceInv /\ TypeOK /\ InProgress /\ flash # None /\ ~flash.created
      /\ ConsentKept /\ NftsKept
      /\ CreateLoan(msg, offer, nft, None, broker) /\ flash' = [flash EXCEPT !.created = TRUE]
      /\ Spend(offer.lender, Vault, NewLenderPays(offer))
      /\ approved' \subseteq approved /\ UNCHANGED kept
  BY <1>1 DEF ConsoleInv, ConsoleTyped, AllowanceTyped, Lends, CreateRefinancedLoan, MoneyInv, Take,
     RefinanceInv, IInv
<1>3. /\ flash' # None /\ flash'.proxy = flash.proxy /\ flash'.saved = flash.saved
  <2>1. /\ flash' \in FlashType /\ flash'.proxy = flash.proxy /\ flash'.saved = flash.saved
    BY <1>2 DEF InProgress, FlashType
  <2> QED
    BY <2>1, NoneIsNoTransaction
<1>4. OfferOpen(offer) /\ offer.lender \in Wallets
  BY <1>2, OfferTyped DEF CreateLoan
<1>5. /\ AllowanceTyped'
      /\ \A a \in Wallets, s \in Spenders :
           /\ allowance'[a][s] <= allowance[a][s]
           /\ a # offer.lender => allowance'[a][s] = allowance[a][s]
  BY <1>2, <1>4, LenderPaysNat, ArcadeTyped, SpendLowers
<1> HIDE DEF msg
<1>6. PICK loan \in loans' \ loans :
        /\ loans' = loans \cup {loan} /\ loan.lender = offer.lender
        /\ Brought(loan) \in Nat /\ nft_owner[nft] = loan.borrower
        /\ nft_owner' = [nft_owner EXCEPT ![nft] = Vault]
  <2> DEFINE borrower == IF msg.sender \in authorized_proxies THEN msg.origin ELSE msg.sender
  <2>1. \E loan \in loans' \ loans :
          /\ loans' = loans \cup {loan}
          /\ loan.lender = offer.lender /\ loan.borrower = borrower
          /\ Brought(loan) \in Nat
          /\ nft_owner[nft] = borrower
          /\ nft_owner' = [nft_owner EXCEPT ![nft] = Vault]
    BY <1>2, CreatesLoan
  <2> HIDE DEF borrower
  <2> QED
    BY <2>1
<1>7. ConsentKept'
  <2>1. flash.proxy = ArcadeProxy /\ kept \in KeptType
        /\ \A a \in Wallets, s \in Spenders : allowance[a][s] <= kept.allowance[a][s]
    BY <1>2 DEF ConsentKept
  <2>2. ASSUME NEW a \in Wallets, NEW s \in Spenders
        PROVE  allowance'[a][s] <= kept.allowance[a][s]
    <3>1. /\ allowance'[a][s] \in Nat /\ allowance[a][s] \in Nat
          /\ kept.allowance[a][s] \in Nat
      BY <1>2, <1>5, <2>1 DEF AllowanceTyped, KeptType
    <3> QED
      BY <1>5, <2>1, <3>1
  <2> QED
    BY <1>2, <1>3, <2>1, <2>2 DEF ConsentKept
<1>8. NftsKept'
  <2>1. nft_owner \in [Nfts -> Keepers \cup {Vault}] /\ loans = flash.saved.loans
    BY <1>2 DEF InProgress, TypeOK, CustodyTyped
  <2>2. ASSUME NEW v \in Wallets, NEW n \in Nfts, flash.saved.nft_owner[n] = v
        PROVE  nft_owner'[n] = v \/ \E l \in loans' \ flash.saved.loans : l.borrower = v
    <3>1. nft_owner[n] = v \/ \E l \in loans \ flash.saved.loans : l.borrower = v
      BY <1>2, <2>2 DEF NftsKept
    <3>2. CASE nft_owner[n] = v /\ n # nft
      BY <1>6, <2>1, <3>2
    <3>3. CASE nft_owner[n] = v /\ n = nft
      BY <1>6, <2>1, <3>3
    <3> QED
      BY <1>6, <3>1, <3>2, <3>3
  <2>3. \A l \in loans' \ flash.saved.loans : Brought(l) \in Nat
    BY <1>6, <2>1
  <2> QED
    BY <1>3, <2>2, <2>3 DEF NftsKept
<1>9. \A a \in Wallets, s \in Spenders : allowance'[a][s] = allowance[a][s] \/ LentBy(a)
  BY <1>5, <1>6 DEF LentBy
<1> QED
  BY <1>2, <1>3, <1>5, <1>7, <1>8, <1>9

\* The flash loan is paid back, by what the wallet named has approved for the proxy.
LEMMA PaysBackKeeps ==
  ASSUME ConsoleInv, PaysBack
  PROVE  /\ AllowanceTyped' /\ flash # None /\ flash' = None /\ loans' = loans
         /\ approved' = approved /\ flash.amount \in Nat
         /\ \A a \in Wallets, s \in Spenders :
              allowance'[a][s] = allowance[a][s] \/ (s = ArcadeProxy /\ NamedBy(a))
         /\ \A a \in Wallets : NamedBy(a) => allowance[a][ArcadeProxy] >= flash.amount
<1> DEFINE payer == flash.msg.borrower
<1>1. /\ AllowanceTyped /\ RefinanceInv /\ PayBack /\ flash # None /\ flash' = None /\ loans' = loans
      /\ approved' = approved
      /\ IF payer \in Wallets THEN Spend(payer, ArcadeProxy, flash.amount)
                              ELSE UNCHANGED allowance
  BY DEF ConsoleInv, ConsoleTyped, AllowanceTyped, PaysBack, PayBack, loanVars
<1>2. flash.amount \in Nat
  BY <1>1 DEF RefinanceInv
<1>3. CASE payer \in Wallets
  <2>1. Spend(payer, ArcadeProxy, flash.amount)
    BY <1>1, <1>3
  <2>2. /\ AllowanceTyped'
        /\ \A a \in Wallets, s \in Spenders :
             <<a, s>> # <<payer, ArcadeProxy>> => allowance'[a][s] = allowance[a][s]
    BY <1>1, <1>2, <1>3, <2>1, ArcadeTyped, SpendLowers
  <2>3. allowance[payer][ArcadeProxy] >= flash.amount
    BY <2>1 DEF Spend
  <2> QED
    BY <1>1, <1>2, <2>2, <2>3 DEF NamedBy
<1>4. CASE payer \notin Wallets
  BY <1>1, <1>2, <1>4 DEF NamedBy, AllowanceTyped
<1> QED
  BY <1>3, <1>4

\* Or everything is taken back.
LEMMA RevertsKeeps ==
  ASSUME ConsoleInv, Reverts
  PROVE  /\ AllowanceTyped' /\ flash # None /\ flash' = None /\ approved' \subseteq Nfts
         /\ \A a \in Wallets, s \in Spenders : allowance'[a][s] >= allowance[a][s]
<1>1. /\ AllowanceTyped /\ flash # None /\ flash' = None
      /\ allowance' = kept.allowance /\ approved' = kept.approved
  BY DEF ConsoleInv, ConsoleTyped, AllowanceTyped, Reverts, Revert
<1>2. /\ kept \in KeptType
      /\ \A a \in Wallets, s \in Spenders : allowance[a][s] <= kept.allowance[a][s]
  BY <1>1 DEF ConsoleInv, ConsentKept
<1>3. AllowanceTyped' /\ approved' \subseteq Nfts
  BY <1>1, <1>2 DEF KeptType, AllowanceTyped
<1>4. ASSUME NEW a \in Wallets, NEW s \in Spenders
      PROVE  allowance'[a][s] >= allowance[a][s]
  BY <1>1, <1>2, <1>3, <1>4 DEF AllowanceTyped
<1> QED
  BY <1>1, <1>3, <1>4

\* Whichever call it is, it keeps the invariant.
LEMMA ProxyStepKeeps ==
  ASSUME ConsoleInv, ProxyStep, UNCHANGED serviceVars, OwnTransaction',
         session' \in [Wallets -> Sessions \cup {None}]
  PROVE  /\ ConsoleInv'
         /\ \A a \in Wallets, s \in Spenders :
              \/ allowance'[a][s] >= allowance[a][s]
              \/ LentBy(a)
              \/ s = ArcadeProxy /\ NamedBy(a)
<1> DEFINE Lower == \A a \in Wallets, s \in Spenders :
                      \/ allowance'[a][s] >= allowance[a][s]
                      \/ LentBy(a)
                      \/ s = ArcadeProxy /\ NamedBy(a)
<1>1. ConsoleTyped /\ AllowanceTyped /\ UNCHANGED <<posted, indexed>>
      /\ \A a \in Wallets, s \in Spenders : allowance[a][s] \in Nat
  BY DEF ConsoleInv, ConsoleTyped, AllowanceTyped, serviceVars
<1>2. ASSUME AllowanceTyped', approved' \subseteq Nfts
      PROVE  ConsoleTyped'
  BY <1>1, <1>2 DEF ConsoleTyped, AllowanceTyped
<1>3. CASE Starts
  <2>1. ConsentKept' /\ NftsKept' /\ UNCHANGED <<allowance, approved>>
    BY <1>3, StartsKeeps
  <2>2. ConsoleTyped'
    BY <1>1, <1>2, <2>1 DEF ConsoleTyped, AllowanceTyped
  <2>3. Lower
    BY <1>1, <2>1
  <2> QED
    BY <2>1, <2>2, <2>3, CallsKeepChain DEF ConsoleInv
<1>4. CASE Lending
  <2>1. /\ ConsentKept' /\ NftsKept' /\ AllowanceTyped' /\ approved' \subseteq approved
        /\ \A a \in Wallets, s \in Spenders : allowance'[a][s] = allowance[a][s] \/ LentBy(a)
    BY <1>4, LendingKeeps
  <2>2. ConsoleTyped'
    BY <1>1, <1>2, <2>1 DEF ConsoleTyped
  <2>3. Lower
    BY <1>1, <2>1
  <2> QED
    BY <2>1, <2>2, <2>3, CallsKeepChain DEF ConsoleInv
<1>5. CASE PaysBack
  <2>1. /\ AllowanceTyped' /\ flash' = None /\ approved' = approved
        /\ \A a \in Wallets, s \in Spenders :
             allowance'[a][s] = allowance[a][s] \/ (s = ArcadeProxy /\ NamedBy(a))
    BY <1>5, PaysBackKeeps
  <2>2. ConsoleTyped'
    BY <1>1, <1>2, <2>1 DEF ConsoleTyped
  <2>3. Lower
    BY <1>1, <2>1
  <2> QED
    BY <2>1, <2>2, <2>3, CallsKeepChain, NoTransaction DEF ConsoleInv
<1>6. CASE Reverts
  <2>1. /\ AllowanceTyped' /\ flash' = None /\ approved' \subseteq Nfts /\ Lower
    BY <1>6, RevertsKeeps
  <2>2. ConsoleTyped'
    BY <1>2, <2>1
  <2> QED
    BY <2>1, <2>2, CallsKeepChain, NoTransaction DEF ConsoleInv
<1> QED
  BY <1>3, <1>4, <1>5, <1>6 DEF ProxyStep

----------------------------------------------------------------------------
(* The invariant. *)

\* The steps that touch neither approvals nor sessions.
Aside ==
  \/ \E w \in Wallets, offer \in Offers : RevokePosted(w, offer)
  \/ \E w \in Wallets, loan \in indexed : ClaimLoanCollateral(w, loan)
  \/ Index
  \/ Surroundings
  \/ UNCHANGED <<Chain, consoleVars>>

LEMMA ConsoleSteps ==
  ASSUME [ConsoleNext]_<<Chain, consoleVars>>
  PROVE  \/ \E w \in Wallets : \/ Prepares(w) \/ CreateLoanStep(w)
                              \/ PayLoanStep(w) \/ RefinanceStep(w)
         \/ OtherRefinance
         \/ Aside
<1>1. ASSUME NEW w \in Wallets, SessionStep(w)
      PROVE  Prepares(w) \/ CreateLoanStep(w) \/ PayLoanStep(w) \/ RefinanceStep(w) \/ Aside
  BY <1>1 DEF SessionStep, Prepares, Aside
<1> QED
  BY <1>1 DEF ConsoleNext, Aside

\* They lower no wallet's balance, and only the collateral of a loan moves.
LEMMA AsideKeeps ==
  ASSUME ConsoleInv, Aside
  PROVE  /\ ConsoleInv' /\ UNCHANGED <<allowance, session>>
         /\ \A w \in Wallets : balance'[w] >= balance[w]
         /\ \/ UNCHANGED <<flash, nft_owner>>
            \/ /\ flash = None /\ flash' = None
               /\ \E loan \in loans :
                    nft_owner' = [nft_owner EXCEPT ![loan.collateral] = loan.lender]
<1>1. /\ RefinanceInv /\ MoneyInv /\ ConsoleTyped /\ OwnTransaction /\ loans \subseteq LoanType
      /\ \A w \in Wallets : balance[w] \in Nat
  <2>1. RefinanceInv /\ loans \subseteq LoanType
    BY LoansInTime DEF ConsoleInv
  <2> QED
    BY <2>1, SoundNow, MoversSpared DEF ConsoleInv
<1>2. ASSUME OtherTransaction
      PROVE  RefinanceInv' /\ MoneyInv'
  BY <1>1, <1>2, OtherTransactionKeeps, OtherTransactionKeepsMoney
<1>3. ASSUME flash = None, UNCHANGED session
      PROVE  OwnTransaction'
  BY <1>1, <1>3, OwnStays
<1>4. CASE \E w \in Wallets, offer \in Offers : RevokePosted(w, offer)
  <2>1. RefinanceInv' /\ MoneyInv'
    BY <1>2, <1>4, DirectCalls
  <2>2. /\ flash = None /\ UNCHANGED <<flash, loans, nft_owner, balance, allowance, approved,
                                     session, posted, indexed>>
    BY <1>4 DEF RevokePosted, RevokeOffer, refinanceVars, consoleVars, custodyVars, fundVars,
       consentVars, approvalVars, serviceVars
  <2> QED
    BY <1>1, <1>3, <2>1, <2>2, NoTransaction DEF ConsoleInv, ConsoleTyped
<1>5. CASE \E w \in Wallets, loan \in indexed : ClaimLoanCollateral(w, loan)
  <2>1. RefinanceInv' /\ MoneyInv'
    BY <1>2, <1>5, DirectCalls
  <2>2. PICK loan \in loans : \E w \in Wallets : ClaimLoanCollateral(w, loan)
    BY <1>5 DEF ClaimLoanCollateral
  <2>3. /\ flash = None
        /\ nft_owner' = [nft_owner EXCEPT ![loan.collateral] = loan.lender]
        /\ UNCHANGED <<flash, balance, allowance, approved, session, posted, indexed>>
    BY <2>2 DEF ClaimLoanCollateral, ClaimDefaultedLoanCollateral, ReturnCollateral,
       refinanceVars, consoleVars, fundVars, consentVars, approvalVars, serviceVars
  <2>4. ConsoleInv'
    BY <1>1, <1>3, <2>1, <2>3, NoTransaction DEF ConsoleInv, ConsoleTyped
  <2>5. \A w \in Wallets : balance'[w] >= balance[w]
    BY <1>1, <2>3
  <2>6. flash = None /\ flash' = None
    BY <2>3
  <2> QED
    BY <2>3, <2>4, <2>5, <2>6
<1>6. CASE Index
  <2>1. /\ flash = None /\ UNCHANGED allVars /\ indexed' = loans
        /\ UNCHANGED <<allowance, approved, session, posted>>
    BY <1>6 DEF Index, Chain, allVars, consentVars, approvalVars
  <2>2. RefinanceInv' /\ MoneyInv'
    BY <1>1, <2>1, RefinanceNextKeeps, RefinanceNextKeepsMoney
  <2>3. UNCHANGED <<flash, loans, nft_owner, balance>>
    BY <2>1 DEF allVars, vars, refinanceVars, loanVars, custodyVars, fundVars
  <2> QED
    BY <1>1, <1>3, <2>1, <2>2, <2>3, NoTransaction DEF ConsoleInv, ConsoleTyped
<1>7. CASE Surroundings
  <2>1. flash = None /\ UNCHANGED <<allowance, approved, session, posted, indexed>>
    BY <1>7 DEF Surroundings, consoleVars, consentVars, approvalVars, serviceVars
  <2>2. /\ RefinanceInv' /\ MoneyInv' /\ UNCHANGED <<flash, nft_owner>>
        /\ \A w \in Wallets : balance'[w] >= balance[w]
    <3>1. CASE Taking
      BY <2>1, <3>1, TakingMoves
    <3>2. CASE ~Taking
      <4>1. RefinanceInv' /\ MoneyInv'
        BY <1>2, <1>7, <3>2, DirectCalls
      <4>2. UNCHANGED <<flash, nft_owner, balance>>
        BY <1>7, <3>2 DEF Surroundings, Taking, Tick, SetProxyAuthorization, NotAdministered,
           refinanceVars, custodyVars, fundVars
      <4> QED
        BY <1>1, <4>1, <4>2
    <3> QED
      BY <3>1, <3>2
  <2>3. flash' = None
    BY <2>1, <2>2
  <2> QED
    BY <1>1, <1>3, <2>1, <2>2, <2>3, NoTransaction DEF ConsoleInv, ConsoleTyped
<1>8. CASE UNCHANGED <<Chain, consoleVars>>
  <2>1. UNCHANGED allVars /\ UNCHANGED <<allowance, approved, kept, session, posted, indexed>>
    BY <1>8 DEF Chain, allVars, consoleVars, consentVars, approvalVars, serviceVars
  <2>2. RefinanceInv' /\ MoneyInv'
    BY <1>1, <2>1, RefinanceNextKeeps, RefinanceNextKeepsMoney
  <2>3. UNCHANGED <<flash, loans, nft_owner, balance>>
    BY <2>1 DEF allVars, vars, refinanceVars, loanVars, custodyVars, fundVars
  <2>4. ConsentKept' /\ NftsKept'
    BY <2>1, <2>3 DEF ConsoleInv, ConsentKept, NftsKept
  <2>5. OwnTransaction'
    BY <1>1, <2>1, <2>3 DEF OwnTransaction, Running, OwnCall
  <2> QED
    BY <1>1, <2>1, <2>2, <2>3, <2>4, <2>5 DEF ConsoleInv, ConsoleTyped
<1> QED
  BY <1>4, <1>5, <1>6, <1>7, <1>8 DEF Aside

LEMMA ConsoleNextKeeps ==
  ConsoleInv /\ [ConsoleNext]_<<Chain, consoleVars>> => ConsoleInv'
<1> SUFFICES ASSUME ConsoleInv, [ConsoleNext]_<<Chain, consoleVars>> PROVE ConsoleInv'
  OBVIOUS
<1>1. RefinanceInv /\ MoneyInv
  BY DEF ConsoleInv
<1>2. ASSUME NEW w \in Wallets, Prepares(w)
      PROVE  ConsoleInv'
  <2>1. ConsoleTyped' /\ flash = None /\ UNCHANGED allVars
    BY <1>2, PreparationsTyped
  <2>2. RefinanceInv' /\ MoneyInv'
    BY <1>1, <2>1, RefinanceNextKeeps, RefinanceNextKeepsMoney
  <2>3. flash' = None
    BY <2>1 DEF allVars, refinanceVars
  <2> QED
    BY <1>2, <2>1, <2>2, <2>3, PreparationsOwn, NoTransaction DEF ConsoleInv
<1>3. ASSUME NEW w \in Wallets, CreateLoanStep(w) \/ PayLoanStep(w)
      PROVE  ConsoleInv'
  <2>1. RefinanceInv' /\ MoneyInv'
    BY <1>1, <1>3, DirectCalls, OtherTransactionKeeps, OtherTransactionKeepsMoney
  <2>2. ConsoleTyped' /\ OwnTransaction' /\ flash' = None
    BY <1>3, CreateLoanStepKeeps, PayLoanStepKeeps
  <2> QED
    BY <2>1, <2>2, NoTransaction DEF ConsoleInv
<1>4. ASSUME NEW w \in Wallets, RefinanceStep(w)
      PROVE  ConsoleInv'
  BY <1>4, RefinanceCalls, ProxyStepKeeps
<1>5. CASE OtherRefinance
  <2>1. session \in [Wallets -> Sessions \cup {None}]
    BY DEF ConsoleInv, ConsoleTyped
  <2> QED
    BY <1>5, <2>1, OtherCalls, ProxyStepKeeps
<1> QED
  BY <1>2, <1>3, <1>4, <1>5, AsideKeeps, ConsoleSteps

LEMMA ConsoleInitInv == ConsoleInit => ConsoleInv
<1> SUFFICES ASSUME ConsoleInit PROVE ConsoleInv
  OBVIOUS
<1>1. RefinanceInv /\ MoneyInv /\ flash = None
  BY RefinanceInitInv, RefinanceInitMoney DEF ConsoleInit, RefinanceInit
<1>2. ConsoleTyped
  BY ConsoleAssumption DEF ConsoleInit, ConsoleTyped
<1>3. OwnTransaction
  BY DEF ConsoleInit, OwnTransaction, Running
<1> QED
  BY <1>1, <1>2, <1>3 DEF ConsoleInv, ConsentKept, NftsKept

\* Sessions of the console, and calls of the proxy by anybody, keep all that holds
\* of refinancings and loans; a function's last transaction is its own, and a
\* transaction taken back gives no wallet's approval up.
THEOREM ConsoleInvTheorem == ConsoleSpec => []ConsoleInv
  BY ConsoleInitInv, ConsoleNextKeeps, PTL DEF ConsoleSpec

\* On the chain a step of the console is one of a refinancing, or none.
LEMMA ConsoleStepImplements ==
  ASSUME ConsoleInv, [ConsoleNext]_<<Chain, consoleVars>>
  PROVE  [RefinanceNext]_allVars
<1>1. ASSUME NEW w \in Wallets, Prepares(w)
      PROVE  UNCHANGED allVars
  BY <1>1, PreparationsTyped
<1>2. ASSUME NEW w \in Wallets, CreateLoanStep(w) \/ PayLoanStep(w)
      PROVE  OtherTransaction
  BY <1>2, DirectCalls
<1>3. ASSUME NEW w \in Wallets, RefinanceStep(w)
      PROVE  RefinanceNext
  <2>1. /\ session[w].foreign \in ForeignLoans /\ session[w].amount \in FlashAmounts
        /\ session[w].offer \in Offers /\ session[w].foreign.nft \in Nfts
    <3>1. session[w] \in RefinanceSession
      BY <1>3, SessionTyped DEF ConsoleInv, RefinanceStep
    <3> QED
      BY <3>1, ForeignTyped DEF RefinanceSession
  <2>2. CASE ArcadeRefinance(OwnCall(w), session[w].foreign, session[w].amount, Elsewhere)
    BY <2>1, <2>2, ConsoleAssumption, RefinanceAssumption DEF RefinanceNext, Refinance
  <2>3. CASE Lends(session[w].offer, session[w].foreign.nft, NoBroker)
    BY <2>1, <2>3, ConsoleAssumption DEF Lends, RefinanceNext
  <2>4. CASE PaysBack \/ Reverts
    BY <2>4 DEF PaysBack, Reverts, RefinanceNext
  <2> QED
    BY <1>3, <2>2, <2>3, <2>4 DEF RefinanceStep
<1>4. ASSUME OtherRefinance
      PROVE  RefinanceNext
  <2>1. posted \subseteq Offers
    BY DEF ConsoleInv, ConsoleTyped
  <2>2. ASSUME NEW msg \in Callers, NEW amount \in FlashAmounts, NEW spender \in Approvees,
               \/ \E foreign \in ForeignLoans : ArcadeRefinance(msg, foreign, amount, spender)
               \/ RepayNothing(msg, ArcadeProxy, amount, spender)
        PROVE  RefinanceNext
    BY <2>2, ArcadeTyped DEF RefinanceNext, Refinance
  <2>3. ASSUME NEW offer \in posted, NEW nft \in Nfts, NEW broker \in BrokerTerms,
               Lends(offer, nft, broker)
        PROVE  RefinanceNext
    BY <2>1, <2>3 DEF Lends, RefinanceNext
  <2>4. CASE PaysBack \/ Reverts
    BY <2>4 DEF PaysBack, Reverts, RefinanceNext
  <2> QED
    BY <1>4, <2>2, <2>3, <2>4 DEF OtherRefinance
<1>5. ASSUME Aside
      PROVE  RefinanceNext \/ UNCHANGED allVars
  <2>1. ASSUME Index \/ UNCHANGED <<Chain, consoleVars>>
        PROVE  UNCHANGED allVars
    BY <2>1 DEF Index, Chain, allVars
  <2>2. ASSUME Taking
        PROVE  RefinanceNext
    BY <2>2, ArcadeTyped DEF Taking, RefinanceNext
  <2>3. OtherTransaction => RefinanceNext
    BY DEF RefinanceNext
  <2> QED
    BY <1>5, <2>1, <2>2, <2>3, DirectCalls DEF Aside
<1> QED
  BY <1>1, <1>2, <1>3, <1>4, <1>5, ConsoleSteps DEF RefinanceNext

\* The console implements the refinance proxies and the lending contract they are
\* built around: its approvals and sessions add no behaviour on the chain, so that
\* every theorem of RefinanceSpec holds of sessions, wherever they stop.
THEOREM ConsoleRefinementTheorem == ConsoleSpec => RefinanceSpec
<1>1. ConsoleInit => RefinanceInit
  BY DEF ConsoleInit
<1>2. ConsoleInv /\ [ConsoleNext]_<<Chain, consoleVars>> => [RefinanceNext]_allVars
  BY ConsoleStepImplements
<1> QED
  BY <1>1, <1>2, ConsoleInvTheorem, PTL DEF ConsoleSpec, RefinanceSpec

----------------------------------------------------------------------------
(* Who loses what.                                                          *)

\* Sending money leaves a wallet no less than it had.
LEMMA SendLowersNobody ==
  ASSUME NEW f \in FundsType, NEW to \in Outside, NEW amount \in Nat, NEW w \in Wallets
  PROVE  /\ SendFunds(f, to, amount).balance[w] >= f.balance[w]
         /\ SendFunds(f, to, amount).balance[w] \in Nat
<1>1. /\ Vault \in Accounts /\ to \in Accounts /\ w \in Accounts /\ w # Vault
      /\ f.balance \in [Accounts -> Nat]
  BY VaultIsNoParty, ElsewhereIsNoWallet DEF FundsType
<1>2. CASE CanTransfer(f, Vault, to, amount)
  <2>1. Transfer(f, Vault, to, amount).balance[w]
          = f.balance[w] - Taken(w, Vault, amount) + Taken(w, to, amount)
    BY <1>1, TransferBalances
  <2>2. SendFunds(f, to, amount) = Transfer(f, Vault, to, amount)
    BY <1>2 DEF SendFunds
  <2> QED
    BY <1>1, <2>1, <2>2 DEF Taken
<1>3. CASE ~CanTransfer(f, Vault, to, amount)
  <2>1. SendFunds(f, to, amount).balance = f.balance
    BY <1>3 DEF SendFunds
  <2> QED
    BY <1>1, <2>1
<1> QED
  BY <1>2, <1>3

\* Nor does a settlement, but for the borrower: the fees go to no wallet, and the
\* lender is paid.
LEMMA SettlementChargesBorrower ==
  ASSUME ConsoleInv, NEW msg, NEW loan \in loans, SettleLoan(msg, loan),
         NEW w \in Wallets, w # loan.borrower
  PROVE  balance'[w] >= balance[w]
<1> DEFINE interest == SettlementInterest(loan, now)
           due == Repayment(loan, interest)
           proceeds == LenderProceeds(loan, interest)
           f0 == CurrentFunds
           f1 == ReceiveFunds(f0, loan.borrower, due)
           f2 == SendFunds(f1, loan.lender, proceeds)
           f3 == SendSettlementFees(f2, loan, interest)
<1>1. /\ TypeOK /\ loan \in LoanType /\ now \in Nat /\ loan.start_time <= now
      /\ f0 \in FundsType /\ NoFeesTo(Spared)
  <2>1. TypeOK /\ NoFeesTo(Spared) /\ PendingAddsUp
    BY DEF ConsoleInv, RefinanceInv, IInv, MoneyInv
  <2> QED
    BY <2>1, LoansInTime, CurrentFundsTyped DEF LoansStarted, TypeOK
<1>2. /\ InterestDefined(loan) /\ LenderProceedsDefined(loan, interest)
      /\ CanReceiveFunds(f0, loan.borrower, due) /\ SetFunds(f3)
  BY DEF SettleLoan
<1>3. /\ IsTerms(loan) /\ loan.borrower \in Outside /\ loan.lender \in Outside
      /\ loan.borrower \notin {w} /\ Vault \notin {w} /\ {w} \in SUBSET Accounts
  BY <1>1, LoanTyped, VaultIsNoParty, ElsewhereIsNoWallet
<1>4. FeesLeave(loan.fees, {w})
  BY <1>1 DEF NoFeesTo, FeesLeave, Spared
<1>5. interest \in Nat
  BY <1>1, <1>2, <1>3, InterestNat
<1> HIDE DEF interest
<1>6. due \in Nat /\ proceeds \in Nat
  <2>1. \A type \in FeeTypes : SettlementFee(loan, interest, type) \in Nat
    BY <1>3, <1>5, SettlementFeeNat
  <2> QED
    BY <1>2, <1>3, <1>5, <2>1 DEF Repayment, LenderProceeds, LenderProceedsDefined,
       SettlementFeesTotal, BorrowerBrokerFee, FeeTypes, IsTerms
<1> HIDE DEF due, proceeds
<1>7. f1 \in FundsType
  BY <1>1, <1>2, <1>3, <1>6, ReceiveFundsAdds
<1>8. Leaves(f0, f1, {w})
  BY <1>3, TransferLeaves DEF ReceiveFunds
<1>9. f0.balance[w] = balance[w] /\ Shape(f0)
  BY <1>1 DEF CurrentFunds, Shape, IsFunds, TypeOK, FundsTyped
<1> HIDE DEF f0
<1>10. f1.balance[w] = balance[w]
  BY <1>8, <1>9 DEF Leaves
<1> HIDE DEF f1
<1>11. f2 \in FundsType /\ f2.balance[w] >= f1.balance[w]
  BY <1>3, <1>6, <1>7, SendFundsTakes, SendLowersNobody
<1> HIDE DEF f2
<1>12. Leaves(f2, f3, {w}) /\ Shape(f2)
  BY <1>3, <1>4, <1>11, SettlementFeesLeave DEF Shape, IsFunds, FundsType
<1> HIDE DEF f3
<1>13. f3.balance[w] = f2.balance[w]
  BY <1>12 DEF Leaves
<1> QED
  BY <1>2, <1>10, <1>11, <1>13 DEF SetFunds

\* create_loan takes from the offer's lender alone, and an NFT from the borrower.
LEMMA CreateLoanStepCharges ==
  ASSUME ConsoleInv, NEW w \in Wallets, CreateLoanStep(w)
  PROVE  \E loan \in loans' \ loans :
           /\ loans' = loans \cup {loan}
           /\ loan.lender = session[w].offer.lender /\ loan.borrower = w
           /\ \A v \in Wallets : v # loan.lender => balance'[v] >= balance[v]
           /\ nft_owner' = [nft_owner EXCEPT ![session[w].nft] = Vault]
           /\ nft_owner[session[w].nft] = w
<1> DEFINE s == session[w]
           borrower == IF Direct(w).sender \in authorized_proxies
                         THEN Direct(w).origin ELSE Direct(w).sender
           proceeds == BorrowerProceeds(s.offer, LoanFees(s.offer, s.broker, protocol))
<1>1. /\ s \in CreateSession /\ CreateLoan(Direct(w), s.offer, s.nft, None, s.broker)
      /\ Direct(w) \in Messages /\ borrower = w
      /\ TypeOK /\ NoFeesTo(Spared)
  <2>1. callbacks = <<>> /\ TypeOK /\ NoFeesTo(Spared)
    BY DEF ConsoleInv, RefinanceInv, IInv, MoneyInv
  <2> QED
    BY <2>1, CreateLoanStepKeeps, DirectTyped DEF CreateLoanStep
<1>2. s.offer \in Offers /\ s.nft \in Nfts /\ s.broker \in BrokerTerms
  BY <1>1 DEF CreateSession
<1>3. /\ proceeds \in Nat
      /\ \E loan \in loans' \ loans :
           /\ loans' = loans \cup {loan}
           /\ loan.lender = s.offer.lender /\ loan.borrower = borrower
           /\ nft_owner[s.nft] = borrower
           /\ nft_owner' = [nft_owner EXCEPT ![s.nft] = Vault]
  <2> DEFINE msg == Direct(w)
             offer == s.offer
             nft == s.nft
             broker == s.broker
             signer == IF msg.sender \in authorized_proxies THEN msg.origin ELSE msg.sender
             brought == BorrowerProceeds(offer, LoanFees(offer, broker, protocol))
  <2>1. /\ CreateLoan(msg, offer, nft, None, broker) /\ TypeOK
        /\ offer \in Offers /\ broker \in BrokerTerms
    BY <1>1, <1>2
  <2> HIDE DEF msg, offer, nft, broker
  <2>2. /\ brought \in Nat
        /\ \E loan \in loans' \ loans :
             /\ loans' = loans \cup {loan}
             /\ loan.lender = offer.lender /\ loan.borrower = signer
             /\ Brought(loan) \in Nat
             /\ nft_owner[nft] = signer
             /\ nft_owner' = [nft_owner EXCEPT ![nft] = Vault]
    BY <2>1, CreatesLoan
  <2>3. signer = borrower /\ brought = proceeds /\ offer.lender = s.offer.lender /\ nft = s.nft
    BY DEF msg, offer, nft, broker
  <2> HIDE DEF signer, brought, borrower, proceeds, s
  <2> QED
    BY <2>2, <2>3
<1> HIDE DEF s, borrower, proceeds
<1>4. PICK loan \in loans' \ loans :
        /\ loans' = loans \cup {loan}
        /\ loan.lender = s.offer.lender /\ loan.borrower = borrower
        /\ nft_owner[s.nft] = borrower
        /\ nft_owner' = [nft_owner EXCEPT ![s.nft] = Vault]
  BY <1>3
<1>5. ASSUME NEW v \in Wallets, v # s.offer.lender
      PROVE  balance'[v] >= balance[v]
  <2>1. {v} \in SUBSET Accounts /\ v \in Spared
    BY OwnAccounts DEF Spared
  <2>2. NoFeesTo({v})
    BY <1>1, <2>1 DEF NoFeesTo, FeesLeave
  <2>3. balance'[v] = balance[v] + (IF v = borrower THEN proceeds ELSE 0)
    BY <1>1, <1>2, <1>5, <2>1, <2>2, CreateLoanLeaves DEF borrower, proceeds
  <2>4. balance[v] \in Nat
    BY <1>1, <2>1 DEF TypeOK, FundsTyped
  <2> QED
    BY <1>3, <2>3, <2>4
<1> QED
  BY <1>1, <1>4, <1>5 DEF s

\* What WalletsLoseOnlyByConsent says of a step that ends between transactions.
LosesByConsent(w) ==
  /\ balance'[w] < Before.balance[w] =>
       \/ \E loan \in loans' \ Before.loans : loan.lender = w
       \/ Running(w, "pay", 1)
       \/ /\ NamedBy(w)
          /\ Before.balance[w] - balance'[w] <= kept.allowance[w][ArcadeProxy]
  /\ \A nft \in Nfts : Before.nft_owner[nft] = w /\ nft_owner'[nft] # w =>
       \E loan \in loans' \ Before.loans : loan.borrower = w

LEMMA BeforeIsNow ==
  ASSUME flash = None
  PROVE  Before.balance = balance /\ Before.nft_owner = nft_owner /\ Before.loans = loans
  BY DEF Before

\* Paying back charges the wallet named, by what it had approved for the proxy when
\* the transaction began; what was done before it charged the new lender.
LEMMA PaysBackByConsent ==
  ASSUME ConsoleInv, PaysBack, NEW w \in Wallets
  PROVE  LosesByConsent(w)
<1>1. /\ RefinanceInv /\ MoneyInv /\ PayBack /\ flash # None /\ InProgress
      /\ UNCHANGED <<loans, nft_owner>> /\ NftsKept /\ flash.proxy = ArcadeProxy
      /\ kept.allowance[w][ArcadeProxy] \in Nat /\ allowance[w][ArcadeProxy] \in Nat
      /\ allowance[w][ArcadeProxy] <= kept.allowance[w][ArcadeProxy]
  <2>1. PayBack /\ flash # None
    BY DEF PaysBack, PayBack
  <2>2. kept \in KeptType /\ allowance \in [Wallets -> [Spenders -> Nat]]
    BY <2>1 DEF ConsoleInv, ConsoleTyped, ConsentKept
  <2>3. kept.allowance[w][ArcadeProxy] \in Nat /\ allowance[w][ArcadeProxy] \in Nat
    BY <2>2, ArcadeTyped DEF KeptType
  <2> QED
    BY <2>1, <2>3, ArcadeTyped DEF ConsoleInv, ConsentKept, PayBack, loanVars, custodyVars, MoneyInv
<1>2. Before = flash.saved /\ flash.amount \in Nat
  BY <1>1, PaysBackKeeps DEF Before
<1>3. NamedBy(w) => flash.amount <= kept.allowance[w][ArcadeProxy]
  BY <1>1, <1>2, PaysBackKeeps
<1>4. PICK loan \in loans' \ flash.saved.loans :
        \A a \in Movers \ {loan.lender} :
          balance'[a] = flash.saved.balance[a] + Part(a = loan.borrower, Brought(loan))
            + Part(a = Holder, flash.amount) - Part(a = Payer, flash.paid)
            - Part(a = flash.msg.borrower, flash.amount)
  BY <1>1, PayBackCosts
<1>5. Brought(loan) \in Nat
  BY <1>1, <1>4 DEF NftsKept
<1>6. w # Holder /\ w # Payer
  BY <1>1, ArcadeTyped DEF Holder, Payer
<1>7. flash.saved.balance[w] \in Nat
  BY <1>1, MoversSpared DEF InProgress, FlashType, SavedType
<1>8. ASSUME w # loan.lender
      PROVE  balance'[w] = flash.saved.balance[w] + Part(w = loan.borrower, Brought(loan))
                             - Part(w = flash.msg.borrower, flash.amount)
  <2>1. balance'[w] = flash.saved.balance[w] + Part(w = loan.borrower, Brought(loan))
            + Part(w = Holder, flash.amount) - Part(w = Payer, flash.paid)
            - Part(w = flash.msg.borrower, flash.amount)
    BY <1>4, <1>8, MoversSpared
  <2>2. Part(w = Holder, flash.amount) = 0 /\ Part(w = Payer, flash.paid) = 0
    BY <1>6 DEF Part
  <2> QED
    BY <1>2, <1>5, <1>7, <2>1, <2>2 DEF Part
<1>9. ASSUME balance'[w] < flash.saved.balance[w], w # loan.lender
      PROVE  NamedBy(w) /\ flash.saved.balance[w] - balance'[w] <= kept.allowance[w][ArcadeProxy]
  <2>1. balance'[w] = flash.saved.balance[w] + Part(w = loan.borrower, Brought(loan))
                        - Part(w = flash.msg.borrower, flash.amount)
    BY <1>8, <1>9
  <2>2. w = flash.msg.borrower
    BY <1>2, <1>5, <1>7, <1>9, <2>1 DEF Part
  <2>3. NamedBy(w)
    BY <1>1, <2>2 DEF NamedBy
  <2>4. flash.saved.balance[w] - balance'[w] <= flash.amount
    BY <1>2, <1>5, <1>7, <2>1, <2>2 DEF Part
  <2>5. balance'[w] \in Int
    BY <1>2, <1>5, <1>7, <2>1 DEF Part
  <2> QED
    BY <1>1, <1>2, <1>3, <1>7, <2>3, <2>4, <2>5
<1>10. ASSUME NEW nft \in Nfts, flash.saved.nft_owner[nft] = w, nft_owner'[nft] # w
       PROVE  \E l \in loans' \ flash.saved.loans : l.borrower = w
  BY <1>1, <1>10 DEF NftsKept
<1> QED
  BY <1>2, <1>4, <1>9, <1>10 DEF LosesByConsent

\* A transaction that is taken back charges nobody, and one that goes on has not
\* ended yet.
LEMMA ProxyByConsent ==
  ASSUME ConsoleInv, ProxyStep, flash' = None, NEW w \in Wallets
  PROVE  LosesByConsent(w)
<1>1. ~Starts /\ ~Lending
  BY StartsKeeps, LendingKeeps
<1>2. CASE Reverts
  <2>1. /\ Before = flash.saved /\ InProgress /\ balance' = flash.saved.balance
        /\ nft_owner' = flash.saved.nft_owner
    BY <1>2 DEF Reverts, Revert, Before, ConsoleInv, MoneyInv
  <2>2. flash.saved.balance[w] \in Nat
    BY <2>1, MoversSpared DEF InProgress, FlashType, SavedType
  <2> QED
    BY <2>1, <2>2 DEF LosesByConsent
<1> QED
  BY <1>1, <1>2, PaysBackByConsent DEF ProxyStep

\* A loan charges its lender, a payment the wallet that pays.
LEMMA DirectByConsent ==
  ASSUME ConsoleInv, NEW v \in Wallets, CreateLoanStep(v) \/ PayLoanStep(v), NEW w \in Wallets
  PROVE  LosesByConsent(w)
<1>1. /\ nft_owner \in [Nfts -> Keepers \cup {Vault}] /\ CustodyMatchesLoans
      /\ loans \subseteq LoanType /\ \A u \in Wallets : balance[u] \in Nat
  <2>1. TypeOK /\ CustodyMatchesLoans
    BY DEF ConsoleInv, RefinanceInv, IInv
  <2> QED
    BY <2>1, LoansInTime, ElsewhereIsNoWallet, VaultIsNoParty DEF TypeOK, CustodyTyped, FundsTyped
<1>2. CASE CreateLoanStep(v)
  <2>1. PICK loan \in loans' \ loans :
          /\ loan.borrower = v
          /\ \A u \in Wallets : u # loan.lender => balance'[u] >= balance[u]
          /\ nft_owner' = [nft_owner EXCEPT ![session[v].nft] = Vault]
          /\ nft_owner[session[v].nft] = v
    BY <1>2, CreateLoanStepCharges
  <2>2. Before.balance = balance /\ Before.nft_owner = nft_owner /\ Before.loans = loans
    BY <1>2, BeforeIsNow DEF CreateLoanStep
  <2>3. TypeOK'
    BY <1>2, DirectCalls, OtherTransactionKeeps DEF ConsoleInv, RefinanceInv, IInv
  <2>4. balance'[w] \in Nat
    BY <2>3, ElsewhereIsNoWallet, VaultIsNoParty DEF TypeOK, FundsTyped
  <2>5. ASSUME balance'[w] < balance[w]
        PROVE  \E l \in loans' \ loans : l.lender = w
    BY <1>1, <2>1, <2>4, <2>5
  <2>6. ASSUME NEW nft \in Nfts, nft_owner[nft] = w, nft_owner'[nft] # w
        PROVE  \E l \in loans' \ loans : l.borrower = w
    BY <1>1, <2>1, <2>6
  <2> QED
    BY <2>2, <2>5, <2>6 DEF LosesByConsent
<1>3. CASE PayLoanStep(v)
  <2> DEFINE loan == session[v].loan
  <2>1. /\ loan \in loans /\ loan.borrower = v /\ SettleLoan(Direct(v), loan)
        /\ Running(v, "pay", 1) /\ flash = None
    BY <1>3, PayLoanStepKeeps DEF PayLoanStep
  <2> HIDE DEF loan
  <2>2. Before.balance = balance /\ Before.nft_owner = nft_owner /\ Before.loans = loans
    BY <2>1, BeforeIsNow
  <2>3. TypeOK'
    BY <1>3, DirectCalls, OtherTransactionKeeps DEF ConsoleInv, RefinanceInv, IInv
  <2>4. balance'[w] \in Nat
    BY <2>3, ElsewhereIsNoWallet, VaultIsNoParty DEF TypeOK, FundsTyped
  <2>5. ASSUME balance'[w] < balance[w]
        PROVE  Running(w, "pay", 1)
    BY <1>1, <2>1, <2>4, <2>5, SettlementChargesBorrower
  <2>6. /\ nft_owner[loan.collateral] = Vault
        /\ nft_owner' = [nft_owner EXCEPT ![loan.collateral] = v]
    BY <2>1 DEF SettleLoan, ReturnCollateral
  <2>7. ASSUME NEW nft \in Nfts, nft_owner[nft] = w
        PROVE  nft_owner'[nft] = w
    BY <1>1, <2>6, <2>7, ElsewhereIsNoWallet
  <2> QED
    BY <2>2, <2>5, <2>7 DEF LosesByConsent
<1> QED
  BY <1>2, <1>3

\* In a transaction, taken as a whole and whoever signed it, a wallet loses money
\* only to a loan under its own offer, to a payment of its own, or to a flash loan
\* that names it, and then no more than it had approved for the proxy; and an NFT
\* only to a loan it takes.
THEOREM ConsentTheorem == ConsoleSpec => WalletsLoseOnlyByConsent
<1>1. ASSUME ConsoleInv, [ConsoleNext]_<<Chain, consoleVars>>, flash' = None, NEW w \in Wallets
      PROVE  LosesByConsent(w)
  <2>1. balance[w] \in Nat
    <3>1. TypeOK
      BY <1>1 DEF ConsoleInv, RefinanceInv, IInv
    <3> QED
      BY <3>1, ElsewhereIsNoWallet, VaultIsNoParty DEF TypeOK, FundsTyped
  <2>2. ASSUME flash = None, UNCHANGED <<balance, nft_owner>>
        PROVE  LosesByConsent(w)
    BY <2>1, <2>2, BeforeIsNow DEF LosesByConsent
  <2>3. ASSUME NEW v \in Wallets, Prepares(v)
        PROVE  LosesByConsent(w)
    <3>1. flash = None /\ UNCHANGED <<balance, nft_owner>>
      BY <1>1, <2>3, PreparationsTyped DEF allVars, vars, fundVars, custodyVars
    <3> QED
      BY <2>2, <3>1
  <2>4. ASSUME Aside
        PROVE  LosesByConsent(w)
    <3>1. balance'[w] >= balance[w] /\ balance'[w] \in Nat
      <4>1. ConsoleInv' /\ balance'[w] >= balance[w]
        BY <1>1, <2>4, AsideKeeps
      <4>2. TypeOK'
        BY <4>1 DEF ConsoleInv, RefinanceInv, IInv
      <4> QED
        BY <4>1, <4>2, MoversSpared DEF TypeOK, FundsTyped
    <3>2. CASE UNCHANGED <<flash, nft_owner>>
      <4>1. flash = None /\ Before.balance = balance /\ Before.nft_owner = nft_owner
        BY <1>1, <3>2, BeforeIsNow
      <4>2. ~(balance'[w] < balance[w])
        BY <2>1, <3>1
      <4> QED
        BY <3>2, <4>1, <4>2 DEF LosesByConsent
    <3>3. ASSUME flash = None, NEW loan \in loans,
                 nft_owner' = [nft_owner EXCEPT ![loan.collateral] = loan.lender]
          PROVE  LosesByConsent(w)
      <4>1. loan.collateral \in Nfts /\ IInv /\ nft_owner \in [Nfts -> Keepers \cup {Vault}]
        <5>1. IInv /\ TypeOK
          BY <1>1 DEF ConsoleInv, RefinanceInv, IInv
        <5> QED
          BY <1>1, <5>1, <3>3, LoansInTime DEF LoanType, TypeOK, CustodyTyped
      <4>2. nft_owner[loan.collateral] = Vault
        BY <4>1, OnlyLoan
      <4>3. ASSUME NEW nft \in Nfts, nft_owner[nft] = w
            PROVE  nft_owner'[nft] = w
        BY <3>3, <4>1, <4>2, <4>3, ElsewhereIsNoWallet
      <4>4. ~(balance'[w] < balance[w])
        BY <2>1, <3>1
      <4> QED
        BY <3>3, <4>3, <4>4, BeforeIsNow DEF LosesByConsent
    <3> QED
      BY <1>1, <2>4, <3>2, <3>3, AsideKeeps
  <2> QED
    BY <1>1, <2>3, <2>4, ConsoleSteps, DirectByConsent, RefinanceCalls, OtherCalls, ProxyByConsent
<1>2. ASSUME ConsoleInv, [ConsoleNext]_<<Chain, consoleVars>>
      PROVE  flash' = None => \A w \in Wallets : LosesByConsent(w)
  BY <1>1, <1>2
<1> QED
  BY <1>2, ConsoleInvTheorem, PTL DEF ConsoleSpec, WalletsLoseOnlyByConsent, LosesByConsent

----------------------------------------------------------------------------
(* What was approved is there when it is taken.                             *)

\* What a session s of w needs.
NeedsOf(w, s) ==
  CASE s = None -> {}
    [] s # None /\ s.kind = "pay" ->
         IF s.loan.borrower = w /\ InterestDefined(s.loan)
           THEN {<<w, Vault, MostDue(s.loan)>>} ELSE {}
    [] s # None /\ s.kind = "refinance" /\ s.step < 4 ->
         {<<w, ArcadeProxy, s.amount>>}
           \cup (IF s.step > 1 THEN {<<s.offer.lender, Vault, NewLenderPays(s.offer)>>} ELSE {})
    [] OTHER -> {}

LEMMA NeedsAreOfSession ==
  ASSUME NEW w
  PROVE  /\ Needs(w) = NeedsOf(w, session[w])
         /\ Needs(w)' = NeedsOf(w, session'[w])
<1>1. Needs(w) = NeedsOf(w, session[w])
  BY DEF Needs, NeedsOf
<1>2. Needs(w)' = NeedsOf(w, session'[w])
  BY DEF Needs, NeedsOf
<1> QED
  BY <1>1, <1>2

LEMMA NeedsByKind ==
  ASSUME NEW w, NEW s \in Sessions \cup {None}
  PROVE  /\ s = None \/ s \in CreateSession => NeedsOf(w, s) = {}
         /\ s \in PaySession =>
              \A need \in NeedsOf(w, s) :
                need = <<w, Vault, MostDue(s.loan)>> /\ InterestDefined(s.loan)
         /\ s \in RefinanceSession =>
              \A need \in NeedsOf(w, s) :
                /\ s.step < 4
                /\ \/ need = <<w, ArcadeProxy, s.amount>>
                   \/ s.step > 1 /\ need = <<s.offer.lender, Vault, NewLenderPays(s.offer)>>
<1>1. CASE s = None
  <2>1. s \notin Sessions
    BY <1>1, NoneIsNoSession
  <2>2. NeedsOf(w, s) = {}
    BY <1>1 DEF NeedsOf
  <2> QED
    BY <2>1, <2>2 DEF Sessions
<1>2. CASE s \in CreateSession
  <2>1. s # None /\ s.kind = "create"
    BY <1>2, SessionIsNotNone DEF Sessions, CreateSession
  <2>2. NeedsOf(w, s) = {}
    BY <2>1 DEF NeedsOf
  <2> QED
    BY <2>1, <2>2 DEF PaySession, RefinanceSession
<1>3. CASE s \in PaySession
  <2>1. s # None /\ s.kind = "pay"
    BY <1>3, SessionIsNotNone DEF Sessions, PaySession
  <2>2. NeedsOf(w, s)
          = IF s.loan.borrower = w /\ InterestDefined(s.loan)
              THEN {<<w, Vault, MostDue(s.loan)>>} ELSE {}
    BY <2>1 DEF NeedsOf
  <2> QED
    BY <2>1, <2>2 DEF CreateSession, RefinanceSession
<1>4. CASE s \in RefinanceSession
  <2>1. s # None /\ s.kind = "refinance"
    BY <1>4, SessionIsNotNone DEF Sessions, RefinanceSession
  <2>2. ~(s.step < 4) => NeedsOf(w, s) = {}
    BY <2>1 DEF NeedsOf
  <2>3. s.step < 4 => NeedsOf(w, s)
          = {<<w, ArcadeProxy, s.amount>>}
              \cup (IF s.step > 1 THEN {<<s.offer.lender, Vault, NewLenderPays(s.offer)>>} ELSE {})
    BY <2>1 DEF NeedsOf
  <2> QED
    BY <2>1, <2>2, <2>3 DEF CreateSession, PaySession
<1> QED
  BY <1>1, <1>2, <1>3, <1>4 DEF Sessions

\* A session needs money of wallets, and of its own alone at the proxy.
LEMMA NeedsTyped ==
  ASSUME NEW w \in Wallets, NEW s \in Sessions \cup {None}, NEW need \in NeedsOf(w, s)
  PROVE  /\ need[1] \in Wallets /\ need[2] \in Spenders /\ need[3] \in Int
         /\ need[2] = ArcadeProxy => need[1] = w
<1>1. ArcadeProxy # Vault /\ Vault \in Spenders /\ ArcadeProxy \in Spenders
  BY ArcadeTyped
<1>2. CASE s \in PaySession
  <2>1. need = <<w, Vault, MostDue(s.loan)>> /\ InterestDefined(s.loan)
    BY <1>2, NeedsByKind
  <2>2. s.loan \in LoanType
    BY <1>2 DEF PaySession
  <2>3. s.loan.maturity \in Nat /\ s.loan.start_time \in Nat
    BY <2>2 DEF LoanType
  <2>4. MostDue(s.loan) \in Int
    BY <2>1, <2>2, <2>3, RepaymentNat DEF MostDue, InterestDefined
  <2> QED
    BY <1>1, <2>1, <2>4
<1>3. CASE s \in RefinanceSession
  <2>0. s.amount \in FlashAmounts /\ s.offer \in Offers
    BY <1>3 DEF RefinanceSession
  <2>1. /\ s.amount \in Int /\ s.offer \in Offers
        /\ s.offer.lender \in Wallets /\ NewLenderPays(s.offer) \in Int
    BY <2>0, OfferTyped, LenderPaysNat, FlashNat
  <2>2. \/ need = <<w, ArcadeProxy, s.amount>>
        \/ need = <<s.offer.lender, Vault, NewLenderPays(s.offer)>>
    BY <1>3, NeedsByKind
  <2> QED
    BY <1>1, <2>1, <2>2
<1> QED
  BY <1>2, <1>3, NeedsByKind DEF Sessions

\* What ApprovalsHold says of one need.
Stands(w, need) ==
  \/ Covered(need)'
  \/ Unapproved(w)'
  \/ need \in Needs(w) /\ ~Covered(need)
  \/ LentBy(need[1])
  \/ need[2] = ArcadeProxy /\ NamedBy(need[1])
  \/ need[1] # w /\ PaymentOf(need[1])

\* It stands when no less is approved than before.
LEMMA NeedStands ==
  ASSUME ConsoleTyped, ConsoleTyped', NEW w \in Wallets, NEW need \in Needs(w),
         allowance'[need[1]][need[2]] >= allowance[need[1]][need[2]]
  PROVE  Stands(w, need)
<1>1. session[w] \in Sessions \cup {None} /\ need \in NeedsOf(w, session[w])
  BY NeedsAreOfSession DEF ConsoleTyped
<1>2. need[1] \in Wallets /\ need[2] \in Spenders /\ need[3] \in Int
  BY <1>1, NeedsTyped
<1>3. allowance'[need[1]][need[2]] \in Nat /\ allowance[need[1]][need[2]] \in Nat
  BY <1>2 DEF ConsoleTyped
<1> QED
  BY <1>2, <1>3 DEF Stands, Covered

\* While a session waits it comes to need nothing new.
LEMMA NeedsStay ==
  ASSUME NEW w \in Wallets, session'[w] = session[w], NEW need \in Needs(w)'
  PROVE  need \in Needs(w)
  BY NeedsAreOfSession

\* Before its last transaction a function changes its own session, and of the
\* approvals it lowers only its wallet's, when it begins a payment.
LEMMA PreparationsApprove ==
  ASSUME ConsoleInv, NEW v \in Wallets, Prepares(v)
  PROVE  /\ ConsoleTyped'
         /\ \A w \in Wallets : w # v => session'[w] = session[w]
         /\ \A a \in Wallets, s \in Spenders :
              allowance'[a][s] >= allowance[a][s] \/ (a = v /\ PaymentOf(v))
<1>1. /\ ConsoleTyped /\ AllowanceTyped /\ Vault \in Spenders /\ ArcadeProxy \in Spenders
      /\ \A a \in Wallets, s \in Spenders : allowance[a][s] \in Nat
  BY DEF ConsoleInv, ConsoleTyped, AllowanceTyped, Spenders
<1>2. ConsoleTyped'
  BY PreparationsTyped
<1> DEFINE Others == \A w \in Wallets : w # v => session'[w] = session[w]
           Raised == \A a \in Wallets, s \in Spenders : allowance'[a][s] >= allowance[a][s]
<1>3. ASSUME UNCHANGED allowance
      PROVE  Raised
  BY <1>1, <1>3
<1>4. CASE ApprovePrincipal(v)
  <2>1. session[v] \in RefinanceSession
    BY <1>1, <1>4, SessionTyped DEF ApprovePrincipal
  <2>2. session[v].offer.lender \in Wallets /\ session[v].offer.principal \in Nat
    BY <2>1, OffersAssumption DEF RefinanceSession
  <2>3. Raised
    BY <1>1, <1>4, <2>2, ApproveUpToRaises DEF ApprovePrincipal
  <2>4. Others
    BY <1>1, <1>4 DEF ApprovePrincipal, NextRefinanceStep, ConsoleTyped
  <2> QED
    BY <1>2, <2>3, <2>4
<1>5. CASE ApproveCollateral(v)
  BY <1>1, <1>2, <1>3, <1>5 DEF ApproveCollateral, NextRefinanceStep, ConsoleTyped
<1>6. CASE Stop(v)
  BY <1>1, <1>2, <1>3, <1>6, EndsTyped DEF Stop, consentVars, approvalVars
<1>7. ASSUME NEW offer \in Offers, CreateOffer(v, offer)
      PROVE  Others /\ Raised
  BY <1>3, <1>7 DEF CreateOffer, consentVars, approvalVars
<1>8. ASSUME NEW offer \in Offers, NEW nft \in Nfts, NEW broker \in BrokerTerms,
             BeginLoan(v, offer, nft, broker)
      PROVE  Others /\ Raised
  BY <1>1, <1>3, <1>8 DEF BeginLoan, ConsoleTyped
<1>9. ASSUME NEW offer \in Offers, NEW foreign \in ForeignLoans, NEW amount \in FlashAmounts,
             BeginRefinance(v, foreign, amount, offer)
      PROVE  Others /\ Raised
  <2>1. Raised
    BY <1>1, <1>9, RefinanceAssumption, ApproveUpToRaises DEF BeginRefinance
  <2>2. Others
    BY <1>1, <1>9 DEF BeginRefinance, ConsoleTyped
  <2> QED
    BY <2>1, <2>2
<1>10. ASSUME NEW loan \in indexed, BeginPayment(v, loan)
       PROVE  /\ Others /\ PaymentOf(v)
              /\ \A a \in Wallets, s \in Spenders :
                   a # v => allowance'[a][s] = allowance[a][s]
  <2> DEFINE new == [kind |-> "pay", step |-> 1, loan |-> loan]
  <2>1. loan \in LoanType
    BY <1>1 DEF ConsoleTyped
  <2>2. new \in Sessions
    BY <2>1 DEF Sessions, PaySession
  <2>3. session' = [session EXCEPT ![v] = new] /\ session[v] = None
    BY <1>10 DEF BeginPayment
  <2>4. new # None /\ new.kind = "pay" /\ new.step = 1
    BY <2>2, SessionIsNotNone
  <2> HIDE DEF new
  <2>5. session'[v] = new /\ Others
    BY <1>1, <2>3 DEF ConsoleTyped
  <2>6. PaymentOf(v)
    BY <2>3, <2>4, <2>5 DEF PaymentOf, Running
  <2>7. ApprovedAmount(loan) \in Nat
    BY <2>1, LoanTyped DEF ApprovedAmount, IsTerms, LoanFeesOK, FeeTypes
  <2>8. \A a \in Wallets, s \in Spenders : a # v => allowance'[a][s] = allowance[a][s]
    BY <1>1, <1>10, <2>7, ApproveSets DEF BeginPayment
  <2> QED
    BY <2>5, <2>6, <2>8
<1>11. ASSUME NEW loan \in indexed, BeginPayment(v, loan)
       PROVE  Others /\ \A a \in Wallets, s \in Spenders :
                          allowance'[a][s] >= allowance[a][s] \/ (a = v /\ PaymentOf(v))
  BY <1>1, <1>10, <1>11
<1> QED
  BY <1>2, <1>4, <1>5, <1>6, <1>7, <1>8, <1>9, <1>11 DEF Prepares

\* What a function needs at its next transaction it has just had approved, or had
\* before.
LEMMA OwnNeedsStand ==
  ASSUME ConsoleInv, NEW w \in Wallets, Prepares(w), NEW need \in Needs(w)'
  PROVE  Stands(w, need)
<1>1. /\ ConsoleTyped /\ ConsoleTyped' /\ AllowanceTyped
      /\ Vault \in Spenders /\ ArcadeProxy \in Spenders
      /\ need \in NeedsOf(w, session'[w])
      /\ \A a \in Wallets, s \in Spenders : allowance'[a][s] \in Nat
  <2>1. ConsoleTyped /\ ConsoleTyped'
    BY PreparationsApprove DEF ConsoleInv
  <2>2. AllowanceTyped /\ \A a \in Wallets, s \in Spenders : allowance'[a][s] \in Nat
    BY <2>1 DEF ConsoleTyped, AllowanceTyped
  <2>3. need \in NeedsOf(w, session'[w])
    BY NeedsAreOfSession
  <2>4. Vault \in Spenders /\ ArcadeProxy \in Spenders
    BY DEF Spenders
  <2> QED
    BY <2>1, <2>2, <2>3, <2>4
<1>2. ASSUME need \in Needs(w),
             \A a \in Wallets, s \in Spenders : allowance'[a][s] >= allowance[a][s]
      PROVE  Stands(w, need)
  <2>1. need[1] \in Wallets /\ need[2] \in Spenders
    BY <1>1, <1>2, NeedsAreOfSession, NeedsTyped DEF ConsoleTyped
  <2> QED
    BY <1>1, <1>2, <2>1, NeedStands
<1>3. ASSUME session'[w] = session[w], UNCHANGED allowance
      PROVE  Stands(w, need)
  <2>1. need \in Needs(w)
    BY <1>1, <1>3, NeedsStay
  <2>2. \A a \in Wallets, s \in Spenders : allowance'[a][s] >= allowance[a][s]
    BY <1>1, <1>3
  <2> QED
    BY <1>2, <2>1, <2>2
<1>4. CASE ApprovePrincipal(w)
  <2> DEFINE s == session[w]
             new == [s EXCEPT !.step = @ + 1]
  <2>1. s \in RefinanceSession /\ s.step = 1
    BY <1>1, <1>4, SessionTyped DEF ApprovePrincipal, Running
  <2>2. /\ s.offer \in Offers /\ s.offer.lender \in Wallets /\ s.offer.principal \in Nat
        /\ NewLenderPays(s.offer) \in Int
    BY <2>1, OffersAssumption, LenderPaysNat DEF RefinanceSession
  <2>3. /\ new \in RefinanceSession /\ new.kind = "refinance" /\ new.step = 2
        /\ new.amount = s.amount /\ new.offer = s.offer
    BY <2>1 DEF RefinanceSession
  <2>4. session' = [session EXCEPT ![w] = new]
    BY <1>4 DEF ApprovePrincipal, NextRefinanceStep
  <2>5. /\ allowance'[s.offer.lender][Vault] >= s.offer.principal
        /\ \A a \in Wallets, x \in Spenders : allowance'[a][x] >= allowance[a][x]
    BY <1>1, <1>4, <2>2, ApproveUpToRaises DEF ApprovePrincipal
  <2> HIDE DEF new, s
  <2>6. session'[w] = new
    BY <1>1, <2>4 DEF ConsoleTyped
  <2>7. \/ need = <<w, ArcadeProxy, s.amount>>
        \/ need = <<s.offer.lender, Vault, NewLenderPays(s.offer)>>
    BY <1>1, <2>3, <2>6, NeedsByKind DEF Sessions
  <2>8. CASE need = <<w, ArcadeProxy, s.amount>>
    <3>1. s # None /\ s.kind = "refinance"
      BY <2>1, SessionIsNotNone DEF Sessions, RefinanceSession
    <3>2. need \in NeedsOf(w, s)
      BY <2>1, <2>8, <3>1 DEF NeedsOf
    <3> QED
      BY <1>2, <2>5, <3>2, NeedsAreOfSession DEF s
  <2>9. CASE need = <<s.offer.lender, Vault, NewLenderPays(s.offer)>>
    <3>1. CASE NewLenderPays(s.offer) > s.offer.principal
      <4>1. Unapproved(w)'
        BY <2>3, <2>6, <3>1 DEF Unapproved
      <4> QED
        BY <4>1 DEF Stands
    <3>2. CASE ~(NewLenderPays(s.offer) > s.offer.principal)
      <4>1. Covered(need)'
        BY <1>1, <2>2, <2>5, <2>9, <3>2 DEF Covered
      <4> QED
        BY <4>1 DEF Stands
    <3> QED
      BY <3>1, <3>2
  <2> QED
    BY <2>7, <2>8, <2>9
<1>5. CASE ApproveCollateral(w)
  <2> DEFINE s == session[w]
             new == [s EXCEPT !.step = @ + 1]
  <2>1. s \in RefinanceSession /\ s.step = 2
    BY <1>1, <1>5, SessionTyped DEF ApproveCollateral, Running
  <2>2. /\ new \in RefinanceSession /\ new.amount = s.amount /\ new.offer = s.offer

    BY <2>1 DEF RefinanceSession
  <2>3. session' = [session EXCEPT ![w] = new] /\ UNCHANGED allowance
    BY <1>5 DEF ApproveCollateral, NextRefinanceStep
  <2> HIDE DEF new, s
  <2>4. session'[w] = new
    BY <1>1, <2>3 DEF ConsoleTyped
  <2>5. \/ need = <<w, ArcadeProxy, s.amount>>
        \/ need = <<s.offer.lender, Vault, NewLenderPays(s.offer)>>
    BY <1>1, <2>2, <2>4, NeedsByKind DEF Sessions
  <2>6. need \in NeedsOf(w, s)
    <3>1. s # None /\ s.kind = "refinance" /\ s.step > 1 /\ s.step < 4
      BY <2>1, SessionIsNotNone DEF Sessions, RefinanceSession
    <3> QED
      BY <2>5, <3>1 DEF NeedsOf
  <2>7. \A a \in Wallets, x \in Spenders : allowance'[a][x] >= allowance[a][x]
    BY <1>1, <2>3
  <2> QED
    BY <1>2, <2>6, <2>7, NeedsAreOfSession DEF s
<1>6. CASE Stop(w)
  <2>1. session'[w] = None
    BY <1>1, <1>6, EndsTyped DEF Stop
  <2> QED
    BY <1>1, <2>1, NeedsByKind
<1>7. ASSUME NEW offer \in Offers, CreateOffer(w, offer)
      PROVE  Stands(w, need)
  BY <1>3, <1>7 DEF CreateOffer, consentVars, approvalVars
<1>8. ASSUME NEW offer \in Offers, NEW nft \in Nfts, NEW broker \in BrokerTerms,
             BeginLoan(w, offer, nft, broker)
      PROVE  Stands(w, need)
  <2> DEFINE new == [kind |-> "create", step |-> 1, offer |-> offer, nft |-> nft,
                     broker |-> broker]
  <2>1. new \in CreateSession
    BY DEF CreateSession
  <2>2. session' = [session EXCEPT ![w] = new]
    BY <1>8 DEF BeginLoan
  <2> HIDE DEF new
  <2>3. session'[w] = new
    BY <1>1, <2>2 DEF ConsoleTyped
  <2> QED
    BY <1>1, <2>1, <2>3, NeedsByKind DEF Sessions
<1>9. ASSUME NEW offer \in Offers, NEW foreign \in ForeignLoans, NEW amount \in FlashAmounts,
             BeginRefinance(w, foreign, amount, offer)
      PROVE  Stands(w, need)
  <2> DEFINE new == [kind |-> "refinance", step |-> 1, foreign |-> foreign,
                     amount |-> amount, offer |-> offer]
  <2>1. amount \in Nat /\ foreign.due \in Nat /\ foreign \in ForeignLoans
    BY RefinanceAssumption
  <2>2. /\ new \in RefinanceSession /\ new.kind = "refinance" /\ new.step = 1
        /\ new.amount = amount /\ new.foreign = foreign
    BY <2>1 DEF RefinanceSession
  <2>3. session' = [session EXCEPT ![w] = new]
    BY <1>9 DEF BeginRefinance
  <2>4. allowance'[w][ArcadeProxy] >= foreign.due
    BY <1>1, <1>9, <2>1, ApproveUpToRaises DEF BeginRefinance
  <2> HIDE DEF new
  <2>5. session'[w] = new
    BY <1>1, <2>3 DEF ConsoleTyped
  <2>6. need = <<w, ArcadeProxy, amount>>
    BY <1>1, <2>2, <2>5, NeedsByKind DEF Sessions
  <2>7. CASE amount > foreign.due
    <3>1. Unapproved(w)'
      BY <2>2, <2>5, <2>7 DEF Unapproved
    <3> QED
      BY <3>1 DEF Stands
  <2>8. CASE ~(amount > foreign.due)
    <3>1. Covered(need)'
      BY <1>1, <2>1, <2>4, <2>6, <2>8 DEF Covered
    <3> QED
      BY <3>1 DEF Stands
  <2> QED
    BY <2>7, <2>8
<1>10. ASSUME NEW loan \in indexed, BeginPayment(w, loan)
       PROVE  Stands(w, need)
  <2> DEFINE new == [kind |-> "pay", step |-> 1, loan |-> loan]
  <2>1. loan \in LoanType
    BY <1>1 DEF ConsoleTyped
  <2>2. new \in PaySession /\ new.kind = "pay" /\ new.loan = loan
    BY <2>1 DEF PaySession
  <2>3. session' = [session EXCEPT ![w] = new]
    BY <1>10 DEF BeginPayment
  <2> HIDE DEF new
  <2>4. session'[w] = new
    BY <1>1, <2>3 DEF ConsoleTyped
  <2>5. need = <<w, Vault, MostDue(loan)>> /\ InterestDefined(loan)
    BY <1>1, <2>2, <2>4, NeedsByKind DEF Sessions
  <2>6. MostDue(loan) \in Nat /\ ApprovedAmount(loan) \in Nat
    <3>1. loan.maturity \in Nat /\ loan.start_time \in Nat
      BY <2>1 DEF LoanType
    <3>2. MostDue(loan) \in Nat
      BY <2>1, <2>5, <3>1, RepaymentNat DEF MostDue, InterestDefined
    <3>3. ApprovedAmount(loan) \in Nat
      BY <2>1, LoanTyped DEF ApprovedAmount, IsTerms, LoanFeesOK, FeeTypes
    <3> QED
      BY <3>2, <3>3
  <2>7. allowance'[w][Vault] = ApprovedAmount(loan)
    BY <1>1, <1>10, <2>6, ApproveSets DEF BeginPayment
  <2>8. CASE MostDue(loan) > ApprovedAmount(loan)
    <3>1. Unapproved(w)'
      BY <2>2, <2>4, <2>8 DEF Unapproved, MostDue, ApprovedAmount
    <3> QED
      BY <3>1 DEF Stands
  <2>9. CASE ~(MostDue(loan) > ApprovedAmount(loan))
    <3>1. Covered(need)'
      BY <2>5, <2>6, <2>7, <2>9 DEF Covered
    <3> QED
      BY <3>1 DEF Stands
  <2> QED
    BY <2>8, <2>9
<1> QED
  BY <1>4, <1>5, <1>6, <1>7, <1>8, <1>9, <1>10 DEF Prepares

\* What a session needs after a step is typed as what it needs before one; one that
\* has ended, or whose transaction is under way, needs nothing.
LEMMA NextNeeds ==
  ASSUME ConsoleTyped', NEW w \in Wallets, NEW need \in Needs(w)'
  PROVE  /\ need[1] \in Wallets /\ need[2] \in Spenders /\ allowance'[need[1]][need[2]] \in Nat
         /\ need[2] = ArcadeProxy => need[1] = w
         /\ session'[w] # None
         /\ session'[w] \in RefinanceSession => session'[w].step < 4
<1>1. session'[w] \in Sessions \cup {None} /\ need \in NeedsOf(w, session'[w])
  BY NeedsAreOfSession DEF ConsoleTyped
<1>2. need[1] \in Wallets /\ need[2] \in Spenders /\ (need[2] = ArcadeProxy => need[1] = w)
  BY <1>1, NeedsTyped
<1>3. allowance'[need[1]][need[2]] \in Nat
  BY <1>2 DEF ConsoleTyped
<1> QED
  BY <1>1, <1>2, <1>3, NeedsByKind

\* What the others may do to a session that waits.
LEMMA OthersNeedsStand ==
  ASSUME ConsoleTyped, ConsoleTyped', NEW w \in Wallets, session'[w] = session[w],
         NEW need \in Needs(w)',
         \/ allowance'[need[1]][need[2]] >= allowance[need[1]][need[2]]
         \/ LentBy(need[1])
         \/ need[2] = ArcadeProxy /\ NamedBy(need[1])
         \/ need[1] # w /\ PaymentOf(need[1])
  PROVE  Stands(w, need)
<1>1. need \in Needs(w)
  BY NeedsStay
<1>2. CASE allowance'[need[1]][need[2]] >= allowance[need[1]][need[2]]
  BY <1>1, <1>2, NeedStands
<1> QED
  BY <1>2 DEF Stands

LEMMA PreparationsStand ==
  ASSUME ConsoleInv, NEW w \in Wallets, NEW v \in Wallets, Prepares(v), NEW need \in Needs(w)'
  PROVE  Stands(w, need)
<1>1. CASE v = w
  BY <1>1, OwnNeedsStand
<1>2. CASE v # w
  <2>1. /\ ConsoleTyped /\ ConsoleTyped' /\ session'[w] = session[w]
        /\ \A a \in Wallets, s \in Spenders :
             allowance'[a][s] >= allowance[a][s] \/ (a = v /\ PaymentOf(v))
    BY <1>2, PreparationsApprove DEF ConsoleInv
  <2>2. need[1] \in Wallets /\ need[2] \in Spenders
    BY <2>1, NextNeeds
  <2>3. \/ allowance'[need[1]][need[2]] >= allowance[need[1]][need[2]]
        \/ need[1] # w /\ PaymentOf(need[1])
    BY <1>2, <2>1, <2>2
  <2> QED
    BY <2>1, <2>3, OthersNeedsStand
<1> QED
  BY <1>1, <1>2

\* create_loan takes what its own offer's lender has approved.
LEMMA CreateLoanStands ==
  ASSUME ConsoleInv, NEW w \in Wallets, NEW v \in Wallets, CreateLoanStep(v),
         NEW need \in Needs(w)'
  PROVE  Stands(w, need)
<1>1. /\ ConsoleTyped /\ ConsoleTyped' /\ Ends(v)
      /\ \A a \in Wallets, s \in Spenders :
           a # session[v].offer.lender => allowance'[a][s] = allowance[a][s]
  BY CreateLoanStepKeeps DEF ConsoleInv, CreateLoanStep
<1>2. /\ need[1] \in Wallets /\ need[2] \in Spenders /\ session'[w] # None
      /\ allowance'[need[1]][need[2]] \in Nat
  BY <1>1, NextNeeds
<1>3. v # w /\ session'[w] = session[w]
  BY <1>1, <1>2, EndsTyped
<1>4. PICK loan \in loans' \ loans :
        /\ loans' = loans \cup {loan}
        /\ loan.lender = session[v].offer.lender /\ loan.borrower = v
  BY CreateLoanStepCharges
<1>5. allowance'[need[1]][need[2]] >= allowance[need[1]][need[2]] \/ LentBy(need[1])
  BY <1>1, <1>2, <1>4 DEF LentBy
<1> QED
  BY <1>1, <1>3, <1>5, OthersNeedsStand

\* pay_loan takes from the approval of the wallet that pays.
LEMMA PayLoanStands ==
  ASSUME ConsoleInv, NEW w \in Wallets, NEW v \in Wallets, PayLoanStep(v),
         NEW need \in Needs(w)'
  PROVE  Stands(w, need)
<1>1. /\ ConsoleTyped /\ ConsoleTyped' /\ Ends(v) /\ Running(v, "pay", 1)
      /\ SettleLoan(Direct(v), session[v].loan)
      /\ \A a \in Wallets, s \in Spenders : a # v => allowance'[a][s] = allowance[a][s]
  BY PayLoanStepKeeps DEF ConsoleInv, PayLoanStep
<1>2. /\ need[1] \in Wallets /\ need[2] \in Spenders /\ session'[w] # None
      /\ allowance'[need[1]][need[2]] \in Nat
  BY <1>1, NextNeeds
<1>3. v # w /\ session'[w] = session[w]
  BY <1>1, <1>2, EndsTyped
<1>4. PaymentOf(v)
  BY <1>1, EndsTyped DEF PaymentOf, Running
<1>5. \/ allowance'[need[1]][need[2]] >= allowance[need[1]][need[2]]
      \/ need[1] # w /\ PaymentOf(need[1])
  BY <1>1, <1>2, <1>3, <1>4
<1> QED
  BY <1>1, <1>3, <1>5, OthersNeedsStand

\* A transaction at the proxy takes what the new lender and the wallet named have
\* approved; taken back, it gives back as much.
LEMMA ProxyStepStands ==
  ASSUME ConsoleInv, ProxyStep, UNCHANGED serviceVars, OwnTransaction',
         session' \in [Wallets -> Sessions \cup {None}], \A v \in Wallets : Follows(v),
         NEW w \in Wallets, NEW need \in Needs(w)'
  PROVE  Stands(w, need)
<1>1. /\ ConsoleTyped /\ ConsoleTyped' /\ Follows(w)
      /\ \A a \in Wallets, s \in Spenders :
           \/ allowance'[a][s] >= allowance[a][s]
           \/ LentBy(a)
           \/ s = ArcadeProxy /\ NamedBy(a)
  BY ProxyStepKeeps DEF ConsoleInv
<1>2. /\ need[1] \in Wallets /\ need[2] \in Spenders /\ session'[w] # None
      /\ session'[w] \in RefinanceSession => session'[w].step < 4
  BY <1>1, NextNeeds
<1>3. session'[w] = session[w]
  BY <1>1, <1>2 DEF Follows
<1> QED
  BY <1>1, <1>2, <1>3, OthersNeedsStand

\* What a function has had approved is still approved when its last transaction
\* comes, unless the money was lent under an offer of the wallet that approved it,
\* paid a flash loan that named that wallet, or went into a payment of it: nothing
\* else that wallets do in between takes from it.
THEOREM ApprovalsTheorem == ConsoleSpec => ApprovalsHold
<1>1. ASSUME ConsoleInv, [ConsoleNext]_<<Chain, consoleVars>>,
             NEW w \in Wallets, NEW need \in Needs(w)'
      PROVE  Stands(w, need)
  <2>1. ASSUME Aside
        PROVE  Stands(w, need)
    <3>1. ConsoleTyped /\ ConsoleTyped' /\ UNCHANGED <<allowance, session>>
      BY <1>1, <2>1, AsideKeeps DEF ConsoleInv
    <3>2. allowance'[need[1]][need[2]] >= allowance[need[1]][need[2]]
      BY <3>1, NextNeeds
    <3> QED
      BY <3>1, <3>2, OthersNeedsStand
  <2>2. ASSUME NEW v \in Wallets, RefinanceStep(v)
        PROVE  Stands(w, need)
    BY <1>1, <2>2, RefinanceCalls, ProxyStepStands
  <2>3. ASSUME OtherRefinance
        PROVE  Stands(w, need)
    <3>1. session \in [Wallets -> Sessions \cup {None}]
      BY <1>1 DEF ConsoleInv, ConsoleTyped
    <3> QED
      BY <1>1, <2>3, <3>1, OtherCalls, ProxyStepStands
  <2> QED
    BY <1>1, <2>1, <2>2, <2>3, ConsoleSteps, PreparationsStand, CreateLoanStands, PayLoanStands
<1>2. ASSUME ConsoleInv, [ConsoleNext]_<<Chain, consoleVars>>
      PROVE  \A w \in Wallets : \A need \in Needs(w)' : Stands(w, need)
  BY <1>1, <1>2
<1> QED
  BY <1>2, ConsoleInvTheorem, PTL DEF ConsoleSpec, ApprovalsHold, Stands
=============================================================================
