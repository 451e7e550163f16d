-------------------------- MODULE RefinanceProofs --------------------------
(***************************************************************************)
(* Refinancings, for all loans, offers, callers, spenders and flash loans: *)
(* an NFT backs one loan at a time, here or at another protocol, in every  *)
(* state of the transaction; and when it ends, the flash lender has its    *)
(* money, everybody's money moved as the call says, and a proxy that lost  *)
(* some had approved as much before.  What the chain shows of it all is    *)
(* one step of CollateralMoves.                                            *)
(***************************************************************************)
EXTENDS RefinanceProxies, P2PLendingLoansProofs

\* The other protocols keep the collateral of what is due to them.
ElsewhereIffDue(owner_of, due) ==
  \A foreign \in ForeignLoans : due[foreign] > 0 <=> owner_of[foreign.nft] = Elsewhere

\* What a transaction has saved is a state the contract may return to: the
\* invariant of P2PLendingNfts holds of it, with what the transaction cannot
\* have changed: the time, what ended by default and what is owed.
Restorable(s, time, ended, due) ==
  /\ s.loans \subseteq LoanType /\ IsFiniteSet(s.loans)
  /\ \A loan \in s.loans : loan.start_time <= time
  /\ s.offer_count \in [TracingIds -> Nat]
  /\ s.revoked_offers \subseteq {o.id : o \in Offers}
  /\ \A t \in TracingIds : s.offer_count[t] = Cardinality(From(s.loans, t)) + ended[t]
  /\ s.balance \in [Accounts -> Nat] /\ s.balance[Vault] = due
  /\ s.nft_owner \in [Nfts -> Keepers \cup {Vault}]
  /\ s.delegations \subseteq Delegates \X Nfts
  /\ \A nft \in Nfts :
       /\ s.nft_owner[nft] = Vault <=> \E loan \in s.loans : loan.collateral = nft
       /\ \A a, b \in s.loans : a.collateral = nft /\ b.collateral = nft => a = b
  /\ s.debt \in [ForeignLoans -> Nat]
  /\ ElsewhereIffDue(s.nft_owner, s.debt)
  /\ s.allowed \in AllowedType

RefinanceInv ==
  /\ IInv
  /\ callbacks = <<>>
  /\ debt \in [ForeignLoans -> Nat]
  /\ allowed \in AllowedType
  /\ ElsewhereIffDue(nft_owner, debt)
  /\ flash # None => /\ flash.foreign \in ForeignLoans \cup {None}
                     /\ flash.proxy \in Refinancers /\ flash.msg \in Calls
                     /\ flash.amount \in Nat
                     /\ Restorable(flash.saved, now, claimed, owed)

LEMMA ForeignTyped ==
  ASSUME NEW foreign \in ForeignLoans
  PROVE  /\ foreign.proxy \in Proxies \cap Outside /\ foreign.lender \in Outside
         /\ foreign.borrower \in Wallets /\ foreign.nft \in Nfts
         /\ \A other \in ForeignLoans : other.nft = foreign.nft => other = foreign
  BY RefinanceAssumption DEF Outside

LEMMA ElsewhereIsNoWallet ==
  /\ Elsewhere \notin Wallets /\ Elsewhere # Vault /\ FlashLender \in Outside
  /\ Wallets \subseteq Keepers /\ Wallets \subseteq Outside /\ Vault \notin Wallets
  BY RefinanceAssumption, PartiesAssumption DEF Outside, Keepers

LEMMA RefinancersTyped ==
  /\ Refinancers \subseteq Proxies /\ Refinancers \subseteq Outside
  /\ Refinancers \cap Wallets = {} /\ Outside \subseteq Accounts
  /\ FlashLender \in Outside /\ FlashLender \notin Wallets \cup Refinancers
  /\ Elsewhere \notin Refinancers /\ None \notin ForeignLoans
  BY RefinanceAssumption, AccountsAssumption, NoneIsNoTransaction, VaultIsNoParty DEF Outside

LEMMA CallTyped ==
  ASSUME NEW msg \in Calls
  PROVE  /\ msg.origin \in Wallets /\ msg.borrower \in Wallets \cup Refinancers
         /\ msg.borrower \in Outside
  BY RefinancersTyped, ElsewhereIsNoWallet DEF Calls

----------------------------------------------------------------------------
(* What the lending contract does in a transaction. *)

\* Its steps start no callback, and neither bring an NFT elsewhere nor back.
LEMMA LendingStep ==
  ASSUME IInv, callbacks = <<>>, [Next]_vars
  PROVE  /\ IInv' /\ callbacks' = <<>>
         /\ \A nft \in Nfts : nft_owner'[nft] = Elsewhere <=> nft_owner[nft] = Elsewhere
<1>1. IInv'
  BY NextKeepsIInv
<1>2. /\ nft_owner \in [Nfts -> Keepers \cup {Vault}]
      /\ loans \subseteq LoanType /\ loans' \subseteq LoanType
  BY <1>1 DEF IInv, TypeOK, CustodyTyped, LoansTyped
<1>3. CASE Quiet
  BY <1>1, <1>3 DEF Quiet
<1>4. CASE ReturnFromCallback
  BY <1>4 DEF ReturnFromCallback
<1>5. ASSUME NEW offer, NEW loan, Created(offer, loan)
      PROVE  /\ callbacks' = <<>>
             /\ \A nft \in Nfts : nft_owner'[nft] = Elsewhere <=> nft_owner[nft] = Elsewhere
  <2>1. loan.collateral \in Nfts /\ loan.borrower \in Wallets
    BY <1>2, <1>5 DEF Created, LoanType
  <2>2. /\ nft_owner[loan.collateral] = loan.borrower /\ callbacks' = callbacks
        /\ nft_owner' = [nft_owner EXCEPT ![loan.collateral] = Vault]
    BY <1>5 DEF Created
  <2> QED
    BY <1>2, <2>1, <2>2, ElsewhereIsNoWallet
<1>6. ASSUME NEW offer, NEW old \in loans, NEW loan, Replaced(offer, old, loan)
      PROVE  callbacks' = <<>> /\ nft_owner' = nft_owner
  BY <1>6 DEF Replaced
<1>7. ASSUME NEW old \in loans, Ended(old)
      PROVE  /\ callbacks' = <<>>
             /\ \A nft \in Nfts : nft_owner'[nft] = Elsewhere <=> nft_owner[nft] = Elsewhere
  <2>1. PICK wallet :
          /\ wallet = old.borrower \/ wallet = old.lender
          /\ nft_owner' = [nft_owner EXCEPT ![old.collateral] = wallet]
          /\ callbacks' = callbacks \/ CallsBack(old.collateral, wallet)
    BY <1>7 DEF Ended
  <2>2. wallet \in Wallets /\ old.collateral \in Nfts
    BY <1>2, <2>1 DEF LoanType
  <2>3. nft_owner[old.collateral] = Vault
    BY OnlyLoan
  <2>4. callbacks' = callbacks
    BY <2>1, RefinanceAssumption DEF CallsBack
  <2> QED
    BY <1>2, <2>1, <2>2, <2>3, <2>4, ElsewhereIsNoWallet
<1> QED
  BY <1>1, <1>3, <1>4, <1>5, <1>6, <1>7, EveryStep

\* A step that moves money between others and changes who has NFTs that are not
\* in the vault.
LEMMA OutsideStepKeeps ==
  ASSUME IInv, FundsKept,
         UNCHANGED <<now, loanVars, adminVars, blacklisted, delegations, callbacks, refusing,
                     controlVars>>,
         nft_owner' \in [Nfts -> Keepers \cup {Vault}],
         \A nft \in Nfts : nft_owner'[nft] = Vault <=> nft_owner[nft] = Vault
  PROVE  IInv'
<1>1. TypeOK /\ LoansTyped /\ CustodyTyped
  BY DEF IInv, TypeOK
<1>2. LoansTyped' /\ CustodyTyped'
  BY <1>1 DEF LoansTyped, CustodyTyped, loanVars
<1>3. TypeOK'
  BY <1>1, <1>2, UnchangedTyped DEF TypeOK, FundsKept
<1>4. LoansStarted' /\ IsFiniteSet(loans') /\ OfferCountMatchesLoans'
  BY DEF IInv, LoansStarted, OfferCountMatchesLoans, LoansFrom, loanVars
<1>5. CustodyMatchesLoans'
  BY DEF IInv, CustodyMatchesLoans, LoansOn, loanVars
<1> QED
  BY <1>3, <1>4, <1>5 DEF IInv, FundsKept

\* A transfer of CreateLoan leaves what the vault owes alone, and nothing is sent.
LEMMA TransferKeepsOwed ==
  ASSUME NEW f, IsFunds(f), NEW from, NEW to, NEW amount
  PROVE  IsFunds(Transfer(f, from, to, amount)) /\ Transfer(f, from, to, amount).owed = f.owed
<1> DEFINE taken == [f.balance EXCEPT ![from] = @ - amount]
           moved == [taken EXCEPT ![to] = @ + amount]
<1>1. Transfer(f, from, to, amount) = [f EXCEPT !.balance = moved]
  BY DEF Transfer
<1> HIDE DEF moved
<1>2. [f EXCEPT !.balance = moved] = [balance |-> moved, pending |-> f.pending, owed |-> f.owed]
  BY DEF IsFunds
<1> QED
  BY <1>1, <1>2 DEF IsFunds

LEMMA CreateLoanKeepsOwed ==
  ASSUME NEW msg, NEW offer, NEW nft, NEW d, NEW b, CreateLoan(msg, offer, nft, d, b)
  PROVE  owed' = owed /\ claimed' = claimed /\ now' = now
<1> DEFINE borrower == IF msg.sender \in authorized_proxies THEN msg.origin ELSE msg.sender
           fees == LoanFees(offer, b, protocol)
           Upfront(type) == fees[type].upfront_amount
           Paid(f, type) == IF Upfront(type) > 0
                              THEN Transfer(f, offer.lender, fees[type].wallet, Upfront(type))
                              ELSE f
           f1 == Transfer(CurrentFunds, offer.lender, borrower, BorrowerProceeds(offer, fees))
           f2 == Paid(f1, "PROTOCOL_FEE")
           f3 == Paid(f2, "LENDER_BROKER_FEE")
           f4 == Paid(f3, "BORROWER_BROKER_FEE")
<1>1. SetFunds(f4) /\ claimed' = claimed /\ now' = now
  BY DEF CreateLoan
<1>2. IsFunds(CurrentFunds) /\ CurrentFunds.owed = owed
  BY DEF IsFunds, CurrentFunds
<1>3. IsFunds(f1) /\ f1.owed = owed
  BY <1>2, TransferKeepsOwed
<1>4. ASSUME NEW f, NEW type, IsFunds(f)
      PROVE  IsFunds(Paid(f, type)) /\ Paid(f, type).owed = f.owed
  BY <1>4, TransferKeepsOwed
<1> HIDE DEF f1, Paid
<1>5. f4.owed = owed
  BY <1>3, <1>4
<1> QED
  BY <1>1, <1>5 DEF SetFunds

----------------------------------------------------------------------------
(* How a transaction begins. *)

\* The four proxies are four accounts.
LEMMA ProxiesDiffer == GondiProxy \notin {NftfiProxy, ArcadeProxy, BendDAOProxy}
<1> SUFFICES ASSUME GondiProxy \in {NftfiProxy, ArcadeProxy, BendDAOProxy} PROVE FALSE
  OBVIOUS
<1>1. Refinancers = ({NftfiProxy} \cup {ArcadeProxy}) \cup {BendDAOProxy}
  BY DEF Refinancers
<1>2. IsFiniteSet({NftfiProxy}) /\ Cardinality({NftfiProxy}) = 1
  BY FS_Singleton
<1> DEFINE two == {NftfiProxy} \cup {ArcadeProxy}
<1>3. IsFiniteSet(two) /\ Cardinality(two) \in {1, 2}
  BY <1>2, FS_AddElement
<1> HIDE DEF two
<1>4. Cardinality(two \cup {BendDAOProxy}) \in {1, 2, 3}
  BY <1>3, FS_AddElement
<1>5. Refinancers = two \cup {BendDAOProxy}
  BY <1>1 DEF two
<1>6. Cardinality(Refinancers) \in {1, 2, 3}
  BY <1>4, <1>5
<1>7. Cardinality(Refinancers) = 4
  BY RefinanceAssumption
<1> QED
  BY <1>6, <1>7

Taken(x, is, amount) == IF x = is THEN amount ELSE 0

LEMMA TransferBalances ==
  ASSUME NEW f \in FundsType, NEW from \in Accounts, NEW to \in Accounts, NEW amount \in Nat
  PROVE  \A x \in Accounts : Transfer(f, from, to, amount).balance[x]
           = f.balance[x] - Taken(x, from, amount) + Taken(x, to, amount)
<1> DEFINE taken == [f.balance EXCEPT ![from] = @ - amount]
           moved == [taken EXCEPT ![to] = @ + amount]
<1>1. f.balance \in [Accounts -> Nat]
  BY DEF FundsType
<1>2. Transfer(f, from, to, amount).balance = moved
  <2>1. Transfer(f, from, to, amount) = [f EXCEPT !.balance = moved]
    BY DEF Transfer
  <2> HIDE DEF moved
  <2> QED
    BY <2>1 DEF FundsType
<1>3. taken \in [Accounts -> Int]
      /\ \A x \in Accounts : taken[x] = f.balance[x] - Taken(x, from, amount)
  BY <1>1 DEF Taken
<1>4. \A x \in Accounts : moved[x] = taken[x] + Taken(x, to, amount)
  <2> HIDE DEF taken
  <2> QED
    BY <1>3 DEF Taken
<1> HIDE DEF moved
<1> QED
  BY <1>2, <1>3, <1>4

\* Funds in which the vault has what it owes, and owes what it did.
Sound(f) == f \in FundsType /\ Surplus(f) = 0 /\ f.owed = owed

LEMMA SoundNow ==
  ASSUME RefinanceInv
  PROVE  /\ Sound(CurrentFunds) /\ CurrentFunds.balance = balance
         /\ balance \in [Accounts -> Nat]
  BY CurrentFundsTyped DEF RefinanceInv, IInv, TypeOK, FundsTyped, CurrentFunds, Sound

LEMMA SoundTransfer ==
  ASSUME NEW f, Sound(f), NEW from \in Outside, NEW to \in Outside, NEW amount \in Nat,
         CanTransfer(f, from, to, amount)
  PROVE  /\ Sound(Transfer(f, from, to, amount))
         /\ \A x \in Accounts : Transfer(f, from, to, amount).balance[x]
              = f.balance[x] - Taken(x, from, amount) + Taken(x, to, amount)
<1>1. IsFunds(f) /\ f \in FundsType /\ Surplus(f) = 0 /\ f.owed = owed
  BY DEF Sound, IsFunds, FundsType
<1>2. from \in Accounts /\ to \in Accounts
  BY VaultIsNoParty
<1> DEFINE g == Transfer(f, from, to, amount)
<1>3. g \in FundsType /\ Surplus(g) = Surplus(f) /\ g.owed = f.owed
  BY <1>1, TransferOutside, TransferKeepsOwed
<1>4. \A x \in Accounts : g.balance[x]
        = f.balance[x] - Taken(x, from, amount) + Taken(x, to, amount)
  BY <1>1, <1>2, TransferBalances
<1> HIDE DEF g
<1>5. Sound(g)
  BY <1>1, <1>3 DEF Sound
<1> QED
  BY <1>4, <1>5 DEF g

LEMMA SoundSet ==
  ASSUME RefinanceInv, NEW f, Sound(f), SetFunds(f), UNCHANGED blacklisted
  PROVE  FundsKept /\ owed' = owed /\ balance' = f.balance
<1>1. FundsTyped
  BY DEF RefinanceInv, IInv, TypeOK
<1> QED
  BY <1>1, SetFundsKeeps DEF Sound, SetFunds

\* Who has the flash loan, and who pays for the loan elsewhere.
HolderOf(msg, proxy) == IF proxy = GondiProxy THEN msg.borrower ELSE proxy
PayerOf(proxy, foreign) ==
  IF proxy = GondiProxy /\ foreign # None THEN foreign.borrower ELSE proxy

ToLender(x, foreign, paid) == IF foreign = None THEN 0 ELSE Taken(x, foreign.lender, paid)

\* What is paid of a loan elsewhere, if one is.
Repays(proxy, foreign, paid) ==
  IF foreign = None
    THEN paid = 0 /\ UNCHANGED <<debt, nft_owner>>
    ELSE /\ foreign \in ForeignLoans /\ foreign.proxy = proxy
         /\ debt[foreign] > 0 /\ paid <= debt[foreign]
         /\ debt' = [debt EXCEPT ![foreign] = @ - paid]
         /\ nft_owner' = IF paid = debt[foreign]
                           THEN [nft_owner EXCEPT ![foreign.nft] = foreign.borrower]
                           ELSE nft_owner

\* What is paid the proxy had approved for the other protocols, or it approves
\* the flash loan for them and nothing for anybody else.
Approved(proxy, amount, paid, before, after) ==
  /\ \A q \in Refinancers \ {proxy} : after[q] = before[q]
  /\ proxy # GondiProxy =>
       \/ paid <= before[proxy][Elsewhere]
       \/ /\ paid <= amount
          /\ \A a \in Approvees \ {Elsewhere} : after[proxy][a] = before[proxy][a]

\* Whichever proxy it runs at, and whatever is repaid.
Opens(msg, proxy, foreign, amount, paid) ==
  /\ flash = None
  /\ flash' = [msg |-> msg, proxy |-> proxy, foreign |-> foreign, amount |-> amount,
               paid |-> paid, created |-> FALSE, saved |-> Saved]
  /\ UNCHANGED <<now, loanVars, adminVars, blacklisted, delegations, callbacks, refusing,
                 controlVars>>
  /\ FundsKept /\ owed' = owed
  /\ \A x \in Accounts : balance'[x]
       = balance[x] - Taken(x, FlashLender, amount) + Taken(x, HolderOf(msg, proxy), amount)
           - Taken(x, PayerOf(proxy, foreign), paid) + ToLender(x, foreign, paid)
  /\ Repays(proxy, foreign, paid)
  /\ allowed' \in AllowedType
  /\ Approved(proxy, amount, paid, allowed, allowed')

LEMMA ApprovingTyped ==
  ASSUME allowed \in AllowedType, NEW proxy \in Refinancers, NEW spender \in Approvees,
         NEW amount \in Nat
  PROVE  LET given == Approving(proxy, spender, amount)
         IN  /\ given \in AllowedType
             /\ \A q \in Refinancers \ {proxy} : given[q] = allowed[q]
             /\ \A a \in Approvees :
                  given[proxy][a] = IF a = spender THEN amount ELSE allowed[proxy][a]
<1> DEFINE row == [allowed[proxy] EXCEPT ![spender] = amount]
           given == [allowed EXCEPT ![proxy] = row]
<1>1. allowed[proxy] \in [Approvees -> Nat]
  BY DEF AllowedType
<1>2. row \in [Approvees -> Nat]
      /\ \A a \in Approvees : row[a] = IF a = spender THEN amount ELSE allowed[proxy][a]
  BY <1>1
<1> HIDE DEF row
<1>3. given \in AllowedType /\ given[proxy] = row
      /\ \A q \in Refinancers \ {proxy} : given[q] = allowed[q]
  BY <1>2 DEF AllowedType
<1>4. Approving(proxy, spender, amount) = given
  BY DEF Approving, row
<1> HIDE DEF given
<1> QED
  BY <1>2, <1>3, <1>4

\* A proxy spends what it has approved.
LEMMA SpendingTyped ==
  ASSUME NEW before \in AllowedType, NEW proxy \in Refinancers, NEW spender \in Approvees,
         NEW paid \in Nat, paid <= before[proxy][spender]
  PROVE  LET after == [before EXCEPT ![proxy][spender] = @ - paid]
         IN  /\ after \in AllowedType
             /\ \A q \in Refinancers \ {proxy} : after[q] = before[q]
             /\ \A a \in Approvees \ {spender} : after[proxy][a] = before[proxy][a]
<1> DEFINE row == [before[proxy] EXCEPT ![spender] = before[proxy][spender] - paid]
           after == [before EXCEPT ![proxy] = row]
<1>1. before[proxy] \in [Approvees -> Nat] /\ before[proxy][spender] \in Nat
  BY DEF AllowedType
<1>2. row \in [Approvees -> Nat]
      /\ \A a \in Approvees \ {spender} : row[a] = before[proxy][a]
  BY <1>1
<1>3. [before EXCEPT ![proxy][spender] = @ - paid] = after
  OBVIOUS
<1> HIDE DEF row
<1>4. after \in AllowedType /\ after[proxy] = row
      /\ \A q \in Refinancers \ {proxy} : after[q] = before[q]
  BY <1>2 DEF AllowedType
<1> HIDE DEF after
<1> QED
  BY <1>2, <1>3, <1>4

\* What Settle does to funds that are sound.
LEMMA SettleRepays ==
  ASSUME RefinanceInv, NEW foreign \in ForeignLoans, NEW funds, Sound(funds),
         NEW payer \in Outside, NEW paid \in Nat, paid <= debt[foreign],
         Settle(foreign, funds, payer, paid), UNCHANGED blacklisted
  PROVE  /\ FundsKept /\ owed' = owed
         /\ \A x \in Accounts : balance'[x]
              = funds.balance[x] - Taken(x, payer, paid) + Taken(x, foreign.lender, paid)
         /\ Repays(foreign.proxy, foreign, paid)
<1> DEFINE g == Transfer(funds, payer, foreign.lender, paid)
<1>1. /\ debt[foreign] > 0 /\ CanTransfer(funds, payer, foreign.lender, paid)
      /\ SetFunds(g) /\ debt' = [debt EXCEPT ![foreign] = @ - paid]
      /\ nft_owner' = IF paid = debt[foreign]
                        THEN [nft_owner EXCEPT ![foreign.nft] = foreign.borrower]
                        ELSE nft_owner
  BY DEF Settle
<1>2. Sound(g) /\ \A x \in Accounts : g.balance[x]
        = funds.balance[x] - Taken(x, payer, paid) + Taken(x, foreign.lender, paid)
  BY <1>1, ForeignTyped, SoundTransfer
<1> HIDE DEF g
<1>3. FundsKept /\ owed' = owed /\ balance' = g.balance
  BY <1>1, <1>2, SoundSet
<1>4. Repays(foreign.proxy, foreign, paid)
  BY <1>1, RefinancersTyped DEF Repays
<1> QED
  BY <1>2, <1>3, <1>4

\* What the flash loan does, at a proxy that keeps it and at Gondi's.
LEMMA LentFunds ==
  ASSUME RefinanceInv, NEW proxy \in Refinancers, NEW amount \in Nat,
         CanTransfer(CurrentFunds, FlashLender, proxy, amount)
  PROVE  /\ Sound(Lent(proxy, amount))
         /\ \A x \in Accounts : Lent(proxy, amount).balance[x]
              = balance[x] - Taken(x, FlashLender, amount) + Taken(x, proxy, amount)
  BY SoundNow, SoundTransfer, RefinancersTyped DEF Lent

LEMMA GivenFunds ==
  ASSUME RefinanceInv, NEW msg \in Calls, NEW amount \in Nat,
         CanTransfer(CurrentFunds, FlashLender, GondiProxy, amount),
         CanTransfer(Lent(GondiProxy, amount), GondiProxy, msg.borrower, amount)
  PROVE  LET given == Transfer(Lent(GondiProxy, amount), GondiProxy, msg.borrower, amount)
         IN  /\ Sound(given)
             /\ \A x \in Accounts : given.balance[x]
                  = balance[x] - Taken(x, FlashLender, amount) + Taken(x, msg.borrower, amount)
<1> DEFINE lent == Lent(GondiProxy, amount)
           given == Transfer(lent, GondiProxy, msg.borrower, amount)
<1>1. GondiProxy \in Refinancers /\ GondiProxy \in Outside
  BY RefinancersTyped DEF Refinancers
<1>2. /\ Sound(lent)
      /\ \A x \in Accounts : lent.balance[x]
           = balance[x] - Taken(x, FlashLender, amount) + Taken(x, GondiProxy, amount)
  BY <1>1, LentFunds
<1> HIDE DEF lent
<1>3. /\ Sound(given)
      /\ \A x \in Accounts : given.balance[x]
           = lent.balance[x] - Taken(x, GondiProxy, amount) + Taken(x, msg.borrower, amount)
  BY <1>1, <1>2, CallTyped, SoundTransfer DEF lent
<1> HIDE DEF given
<1>4. \A x \in Accounts : given.balance[x]
        = balance[x] - Taken(x, FlashLender, amount) + Taken(x, msg.borrower, amount)
  BY <1>2, <1>3, SoundNow DEF Taken
<1> QED
  BY <1>3, <1>4 DEF given, lent

LEMMA BeginOpens ==
  ASSUME NEW msg, NEW proxy, NEW foreign, NEW amount, NEW paid,
         Begin(msg, proxy, foreign, amount, paid)
  PROVE  /\ flash = None /\ CanTransfer(CurrentFunds, FlashLender, proxy, amount)
         /\ flash' = [msg |-> msg, proxy |-> proxy, foreign |-> foreign, amount |-> amount,
                      paid |-> paid, created |-> FALSE, saved |-> Saved]
         /\ UNCHANGED <<now, loanVars, adminVars, blacklisted, delegations, callbacks, refusing,
                        controlVars>>
         /\ UNCHANGED blacklisted
  BY DEF Begin

\* A proxy that keeps the flash loan pays by what it has approved.
LEMMA RepayApprovedOpens ==
  ASSUME RefinanceInv, NEW msg \in Calls, NEW foreign \in ForeignLoans, NEW amount \in Nat,
         NEW spender \in Approvees, NEW paid \in Nat, paid <= debt[foreign],
         foreign.proxy # GondiProxy, RepayApproved(msg, foreign, amount, spender, paid)
  PROVE  Opens(msg, foreign.proxy, foreign, amount, paid)
<1> DEFINE proxy == foreign.proxy
           lent == Lent(proxy, amount)
           given == Approving(proxy, spender, amount)
<1>1. /\ Begin(msg, proxy, foreign, amount, paid) /\ Settle(foreign, lent, proxy, paid)
      /\ paid <= given[proxy][Elsewhere]
      /\ allowed' = [given EXCEPT ![proxy][Elsewhere] = @ - paid]
  BY DEF RepayApproved
<1>2. /\ proxy \in Refinancers /\ proxy \in Outside /\ allowed \in AllowedType
      /\ Elsewhere \in Approvees /\ foreign # None /\ balance \in [Accounts -> Nat]
  BY ForeignTyped, RefinanceAssumption, RefinancersTyped, SoundNow DEF RefinanceInv
<1>3. HolderOf(msg, proxy) = proxy /\ PayerOf(proxy, foreign) = proxy /\ proxy # GondiProxy
  BY DEF HolderOf, PayerOf
<1> HIDE DEF proxy
<1>4. /\ Sound(lent)
      /\ \A x \in Accounts : lent.balance[x]
           = balance[x] - Taken(x, FlashLender, amount) + Taken(x, proxy, amount)
  BY <1>1, <1>2, BeginOpens, LentFunds
<1> HIDE DEF lent
<1>5. /\ FundsKept /\ owed' = owed /\ Repays(foreign.proxy, foreign, paid)
      /\ \A x \in Accounts : balance'[x]
           = lent.balance[x] - Taken(x, proxy, paid) + Taken(x, foreign.lender, paid)
  BY <1>1, <1>2, <1>4, BeginOpens, SettleRepays
<1>6. \A x \in Accounts : balance'[x]
        = balance[x] - Taken(x, FlashLender, amount) + Taken(x, proxy, amount)
            - Taken(x, proxy, paid) + ToLender(x, foreign, paid)
  BY <1>2, <1>4, <1>5 DEF ToLender, Taken
<1>7. /\ given \in AllowedType
      /\ \A q \in Refinancers \ {proxy} : given[q] = allowed[q]
      /\ \A a \in Approvees :
           given[proxy][a] = IF a = spender THEN amount ELSE allowed[proxy][a]
  BY <1>2, ApprovingTyped
<1> HIDE DEF given
<1>8. /\ allowed' \in AllowedType
      /\ \A q \in Refinancers \ {proxy} : allowed'[q] = given[q]
      /\ \A a \in Approvees \ {Elsewhere} : allowed'[proxy][a] = given[proxy][a]
  <2> DEFINE after == [given EXCEPT ![proxy][Elsewhere] = @ - paid]
  <2>1. /\ after \in AllowedType
        /\ \A q \in Refinancers \ {proxy} : after[q] = given[q]
        /\ \A a \in Approvees \ {Elsewhere} : after[proxy][a] = given[proxy][a]
    <3>1. /\ given \in AllowedType /\ proxy \in Refinancers /\ Elsewhere \in Approvees
          /\ paid <= given[proxy][Elsewhere]
      BY <1>1, <1>2, <1>7
    <3> QED
      BY <3>1, SpendingTyped
  <2> QED
    BY <1>1, <2>1
<1>9. Approved(proxy, amount, paid, allowed, allowed')
  <2>1. CASE spender = Elsewhere
    BY <1>1, <1>2, <1>7, <1>8, <2>1 DEF Approved
  <2>2. CASE spender # Elsewhere
    BY <1>1, <1>2, <1>7, <1>8, <2>2 DEF Approved
  <2> QED
    BY <2>1, <2>2
<1>10. Opens(msg, proxy, foreign, amount, paid)
  <2>1. Repays(proxy, foreign, paid)
    BY <1>5 DEF proxy
  <2> QED
    BY <1>1, <1>3, <1>5, <1>6, <1>8, <1>9, <2>1, BeginOpens DEF Opens
<1> QED
  BY <1>10 DEF proxy

LEMMA GondiOpens ==
  ASSUME RefinanceInv, NEW msg \in Calls, NEW foreign \in ForeignLoans, NEW amount \in Nat,
         GondiRefinance(msg, foreign, amount)
  PROVE  Opens(msg, GondiProxy, foreign, amount, debt[foreign])
<1> DEFINE lent == Lent(GondiProxy, amount)
           given == Transfer(lent, GondiProxy, msg.borrower, amount)
           paid == debt[foreign]
<1>1. /\ foreign.proxy = GondiProxy /\ Begin(msg, GondiProxy, foreign, amount, paid)
      /\ CanTransfer(lent, GondiProxy, msg.borrower, amount)
      /\ Settle(foreign, given, foreign.borrower, paid) /\ UNCHANGED allowed
  BY DEF GondiRefinance
<1>2. /\ allowed \in AllowedType /\ foreign # None /\ balance \in [Accounts -> Nat]
      /\ paid \in Nat /\ foreign.borrower \in Outside
  BY ForeignTyped, ElsewhereIsNoWallet, RefinancersTyped, SoundNow DEF RefinanceInv
<1>3. HolderOf(msg, GondiProxy) = msg.borrower /\ PayerOf(GondiProxy, foreign) = foreign.borrower
  BY <1>2 DEF HolderOf, PayerOf
<1>4. /\ Sound(given)
      /\ \A x \in Accounts : given.balance[x]
           = balance[x] - Taken(x, FlashLender, amount) + Taken(x, msg.borrower, amount)
  BY <1>1, BeginOpens, GivenFunds
<1> HIDE DEF given, paid
<1>5. /\ FundsKept /\ owed' = owed /\ Repays(foreign.proxy, foreign, paid)
      /\ \A x \in Accounts : balance'[x]
           = given.balance[x] - Taken(x, foreign.borrower, paid) + Taken(x, foreign.lender, paid)
  BY <1>1, <1>2, <1>4, BeginOpens, SettleRepays DEF paid
<1>6. \A x \in Accounts : balance'[x]
        = balance[x] - Taken(x, FlashLender, amount) + Taken(x, msg.borrower, amount)
            - Taken(x, foreign.borrower, paid) + ToLender(x, foreign, paid)
  BY <1>2, <1>4, <1>5 DEF ToLender, Taken
<1>7. allowed' \in AllowedType /\ Approved(GondiProxy, amount, paid, allowed, allowed')
  BY <1>1, <1>2 DEF Approved
<1>8. Opens(msg, GondiProxy, foreign, amount, paid)
  BY <1>1, <1>3, <1>5, <1>6, <1>7, BeginOpens DEF Opens
<1> QED
  BY <1>8 DEF paid

LEMMA RepayNothingOpens ==
  ASSUME RefinanceInv, NEW msg \in Calls, NEW proxy \in Refinancers, NEW amount \in Nat,
         NEW spender \in Approvees, RepayNothing(msg, proxy, amount, spender)
  PROVE  Opens(msg, proxy, None, amount, 0)
<1> DEFINE lent == Lent(proxy, amount)
           given == Transfer(lent, proxy, msg.borrower, amount)
<1>1. /\ Begin(msg, proxy, None, amount, 0) /\ UNCHANGED <<debt, nft_owner>>
      /\ IF proxy = GondiProxy
           THEN /\ CanTransfer(lent, proxy, msg.borrower, amount)
                /\ SetFunds(given) /\ UNCHANGED allowed
           ELSE SetFunds(lent) /\ allowed' = Approving(proxy, spender, amount)
  BY DEF RepayNothing
<1>2. /\ allowed \in AllowedType /\ balance \in [Accounts -> Nat]
      /\ Repays(proxy, None, 0) /\ \A x \in Accounts : ToLender(x, None, 0) = 0
      /\ PayerOf(proxy, None) = proxy /\ UNCHANGED blacklisted
  BY <1>1, BeginOpens, SoundNow DEF RefinanceInv, Repays, ToLender, PayerOf
<1>3. CASE proxy = GondiProxy
  <2>1. /\ Sound(given) /\ HolderOf(msg, proxy) = msg.borrower
        /\ \A x \in Accounts : given.balance[x]
             = balance[x] - Taken(x, FlashLender, amount) + Taken(x, msg.borrower, amount)
    BY <1>1, <1>3, BeginOpens, GivenFunds DEF HolderOf
  <2> HIDE DEF given
  <2>2. FundsKept /\ owed' = owed /\ balance' = given.balance
    BY <1>1, <1>2, <1>3, <2>1, SoundSet
  <2>3. \A x \in Accounts : balance'[x]
          = balance[x] - Taken(x, FlashLender, amount) + Taken(x, msg.borrower, amount)
              - Taken(x, proxy, 0) + ToLender(x, None, 0)
    BY <1>2, <2>1, <2>2 DEF Taken
  <2>4. allowed' \in AllowedType /\ Approved(proxy, amount, 0, allowed, allowed')
    BY <1>1, <1>2, <1>3 DEF Approved
  <2> QED
    BY <1>1, <1>2, <2>1, <2>2, <2>3, <2>4, BeginOpens DEF Opens
<1>4. CASE proxy # GondiProxy
  <2>1. /\ Sound(lent) /\ HolderOf(msg, proxy) = proxy
        /\ \A x \in Accounts : lent.balance[x]
             = balance[x] - Taken(x, FlashLender, amount) + Taken(x, proxy, amount)
    BY <1>1, <1>4, BeginOpens, LentFunds DEF HolderOf
  <2> HIDE DEF lent
  <2>2. FundsKept /\ owed' = owed /\ balance' = lent.balance
    BY <1>1, <1>2, <1>4, <2>1, SoundSet
  <2>3. \A x \in Accounts : balance'[x]
          = balance[x] - Taken(x, FlashLender, amount) + Taken(x, proxy, amount)
              - Taken(x, proxy, 0) + ToLender(x, None, 0)
    BY <1>2, <2>1, <2>2 DEF Taken
  <2>4. allowed' \in AllowedType /\ Approved(proxy, amount, 0, allowed, allowed')
    <3>1. /\ allowed' \in AllowedType
          /\ \A q \in Refinancers \ {proxy} : allowed'[q] = allowed[q]
      BY <1>1, <1>2, <1>4, ApprovingTyped
    <3>2. allowed[proxy][Elsewhere] \in Nat
      BY <1>2, RefinanceAssumption DEF AllowedType
    <3> QED
      BY <3>1, <3>2 DEF Approved
  <2> QED
    BY <1>1, <1>2, <2>1, <2>2, <2>3, <2>4, BeginOpens DEF Opens
<1> QED
  BY <1>3, <1>4

\* However a transaction begins.
LEMMA RefinanceOpens ==
  ASSUME RefinanceInv, Refinance
  PROVE  \E msg \in Calls, proxy \in Refinancers, foreign \in ForeignLoans \cup {None},
            amount \in Nat, paid \in Nat : Opens(msg, proxy, foreign, amount, paid)
<1>1. PICK msg \in Callers, amount \in FlashAmounts, spender \in Approvees :
        \/ \E foreign \in ForeignLoans :
             \/ NftfiRefinance(msg, foreign, amount, spender)
             \/ ArcadeRefinance(msg, foreign, amount, spender)
             \/ BendDAORefinance(msg, foreign, amount, spender)
             \/ GondiRefinance(msg, foreign, amount)
        \/ \E proxy \in Refinancers : RepayNothing(msg, proxy, amount, spender)
  BY DEF Refinance
<1>2. msg \in Calls /\ amount \in Nat
  BY RefinanceAssumption
<1>3. ASSUME NEW foreign \in ForeignLoans,
             \/ NftfiRefinance(msg, foreign, amount, spender)
             \/ ArcadeRefinance(msg, foreign, amount, spender)
             \/ BendDAORefinance(msg, foreign, amount, spender)
      PROVE  \E paid \in Nat : Opens(msg, foreign.proxy, foreign, amount, paid)
  <2>1. foreign.proxy # GondiProxy
    BY <1>3, ProxiesDiffer DEF NftfiRefinance, ArcadeRefinance, BendDAORefinance
  <2>2. debt[foreign] \in Nat
    BY DEF RefinanceInv
  <2>3. CASE NftfiRefinance(msg, foreign, amount, spender)
             \/ ArcadeRefinance(msg, foreign, amount, spender)
    <3>1. RepayApproved(msg, foreign, amount, spender, debt[foreign])
      BY <2>3 DEF NftfiRefinance, ArcadeRefinance
    <3> QED
      BY <1>2, <2>1, <2>2, <3>1, RepayApprovedOpens
  <2>4. CASE BendDAORefinance(msg, foreign, amount, spender)
    <3> DEFINE paid == IF amount < debt[foreign] THEN amount ELSE debt[foreign]
    <3>1. RepayApproved(msg, foreign, amount, spender, paid)
      BY <2>4 DEF BendDAORefinance
    <3>2. paid \in Nat /\ paid <= debt[foreign]
      BY <1>2, <2>2
    <3> HIDE DEF paid
    <3> QED
      BY <1>2, <2>1, <3>1, <3>2, RepayApprovedOpens
  <2> QED
    BY <1>3, <2>3, <2>4
<1>4. \A foreign \in ForeignLoans : foreign.proxy \in Refinancers /\ debt[foreign] \in Nat
  BY RefinanceAssumption DEF RefinanceInv
<1>5. GondiProxy \in Refinancers /\ 0 \in Nat
  BY DEF Refinancers
<1>6. CASE \E foreign \in ForeignLoans :
             \/ NftfiRefinance(msg, foreign, amount, spender)
             \/ ArcadeRefinance(msg, foreign, amount, spender)
             \/ BendDAORefinance(msg, foreign, amount, spender)
  BY <1>2, <1>3, <1>4, <1>6
<1>7. CASE \E foreign \in ForeignLoans : GondiRefinance(msg, foreign, amount)
  BY <1>2, <1>4, <1>5, <1>7, GondiOpens
<1>8. CASE \E proxy \in Refinancers : RepayNothing(msg, proxy, amount, spender)
  BY <1>2, <1>5, <1>8, RepayNothingOpens
<1> QED
  BY <1>1, <1>6, <1>7, <1>8

\* Before its first step the state is one to return to.
LEMMA CurrentIsRestorable == RefinanceInv => Restorable(Saved, now, claimed, owed)
<1> SUFFICES ASSUME RefinanceInv PROVE Restorable(Saved, now, claimed, owed)
  OBVIOUS
<1>1. TypeOK /\ LoansTyped /\ FundsTyped /\ CustodyTyped
  BY DEF RefinanceInv, IInv, TypeOK
<1>2. \A nft \in Nfts :
        /\ nft_owner[nft] = Vault <=> \E loan \in loans : loan.collateral = nft
        /\ \A a, b \in loans : a.collateral = nft /\ b.collateral = nft => a = b
  BY DEF RefinanceInv, IInv, CustodyMatchesLoans, LoansOn
<1>3. \A t \in TracingIds : offer_count[t] = Cardinality(From(loans, t)) + claimed[t]
  BY DEF RefinanceInv, IInv, OfferCountMatchesLoans, LoansFrom, From
<1> QED
  BY <1>1, <1>2, <1>3 DEF Restorable, Saved, RefinanceInv, IInv, LoansTyped, FundsTyped,
     CustodyTyped, LoansStarted, VaultHoldsWhatItOwes

LEMMA OpensKeeps ==
  ASSUME RefinanceInv, NEW msg \in Calls, NEW proxy \in Refinancers,
         NEW foreign \in ForeignLoans \cup {None}, NEW amount \in Nat, NEW paid \in Nat,
         Opens(msg, proxy, foreign, amount, paid)
  PROVE  RefinanceInv'
<1>1. /\ flash' = [msg |-> msg, proxy |-> proxy, foreign |-> foreign, amount |-> amount,
                   paid |-> paid, created |-> FALSE, saved |-> Saved]
      /\ UNCHANGED <<now, loanVars, adminVars, blacklisted, delegations, callbacks, refusing,
                     controlVars>>
      /\ FundsKept /\ owed' = owed /\ allowed' \in AllowedType
      /\ Repays(proxy, foreign, paid)
  BY DEF Opens
<1>2. IInv /\ nft_owner \in [Nfts -> Keepers \cup {Vault}]
      /\ debt \in [ForeignLoans -> Nat] /\ ElsewhereIffDue(nft_owner, debt)
  BY DEF RefinanceInv, IInv, TypeOK, CustodyTyped
<1>3. /\ debt' \in [ForeignLoans -> Nat] /\ ElsewhereIffDue(nft_owner', debt')
      /\ nft_owner' \in [Nfts -> Keepers \cup {Vault}]
      /\ \A nft \in Nfts : nft_owner'[nft] = Vault <=> nft_owner[nft] = Vault
  <2>1. CASE foreign = None
    BY <1>1, <1>2, <2>1 DEF Repays, ElsewhereIffDue
  <2>2. CASE foreign # None
    <3>1. /\ foreign \in ForeignLoans
          /\ debt[foreign] > 0 /\ paid <= debt[foreign]
          /\ debt' = [debt EXCEPT ![foreign] = @ - paid]
          /\ nft_owner' = IF paid = debt[foreign]
                            THEN [nft_owner EXCEPT ![foreign.nft] = foreign.borrower]
                            ELSE nft_owner
      BY <1>1, <2>2 DEF Repays
    <3>2. /\ foreign.borrower \in Wallets /\ foreign.nft \in Nfts
          /\ \A other \in ForeignLoans :
               other.nft \in Nfts /\ (other.nft = foreign.nft => other = foreign)
      BY <3>1, ForeignTyped
    <3>3. nft_owner[foreign.nft] = Elsewhere
      BY <1>2, <3>1 DEF ElsewhereIffDue
    <3>4. /\ nft_owner' \in [Nfts -> Keepers \cup {Vault}]
          /\ \A nft \in Nfts : nft_owner'[nft] = Vault <=> nft_owner[nft] = Vault
      BY <1>2, <3>1, <3>2, <3>3, ElsewhereIsNoWallet
    <3>5. debt' \in [ForeignLoans -> Nat]
      BY <1>2, <3>1
    <3>6. ElsewhereIffDue(nft_owner', debt')
      <4> SUFFICES ASSUME NEW other \in ForeignLoans
                   PROVE  debt'[other] > 0 <=> nft_owner'[other.nft] = Elsewhere
        BY DEF ElsewhereIffDue
      <4>1. CASE other # foreign
        <5>1. debt'[other] = debt[other] /\ nft_owner'[other.nft] = nft_owner[other.nft]
          BY <1>2, <3>1, <3>2, <4>1
        <5> QED
          BY <1>2, <5>1 DEF ElsewhereIffDue
      <4>2. CASE other = foreign
        <5>1. debt'[foreign] = debt[foreign] - paid /\ debt[foreign] \in Nat
          BY <1>2, <3>1
        <5>2. CASE paid = debt[foreign]
          BY <1>2, <3>1, <3>2, <4>2, <5>1, <5>2, ElsewhereIsNoWallet
        <5>3. CASE paid # debt[foreign]
          BY <3>1, <3>3, <4>2, <5>1, <5>3
        <5> QED
          BY <5>2, <5>3
      <4> QED
        BY <4>1, <4>2
    <3> QED
      BY <3>4, <3>5, <3>6
  <2> QED
    BY <2>1, <2>2
<1>4. IInv'
  BY <1>1, <1>2, <1>3, OutsideStepKeeps
<1>5. claimed' = claimed /\ now' = now /\ callbacks' = <<>>
  BY <1>1 DEF loanVars, RefinanceInv
<1>6. /\ flash'.foreign = foreign /\ flash'.proxy = proxy /\ flash'.msg = msg
      /\ flash'.amount = amount /\ flash'.saved = Saved
  BY <1>1
<1>7. Restorable(flash'.saved, now', claimed', owed')
  BY <1>1, <1>5, <1>6, CurrentIsRestorable
<1> QED
  BY <1>1, <1>3, <1>4, <1>5, <1>6, <1>7 DEF RefinanceInv

LEMMA RefinanceKeeps ==
  ASSUME RefinanceInv, Refinance
  PROVE  RefinanceInv'
  BY RefinanceOpens, OpensKeeps

----------------------------------------------------------------------------
(* The steps of a transaction. *)

LEMMA CreateRefinancedLoanKeeps ==
  ASSUME RefinanceInv, NEW offer \in Offers, NEW nft \in Nfts, NEW d \in Delegates \cup {None},
         NEW b \in BrokerTerms, CreateRefinancedLoan(offer, nft, d, b)
  PROVE  RefinanceInv'
<1> DEFINE msg == [sender |-> flash.proxy, origin |-> flash.msg.origin]
<1>1. /\ IInv /\ callbacks = <<>> /\ flash # None
      /\ flash.foreign \in ForeignLoans \cup {None} /\ flash.proxy \in Refinancers
      /\ flash.msg \in Calls /\ flash.amount \in Nat /\ allowed \in AllowedType
      /\ Restorable(flash.saved, now, claimed, owed)
      /\ debt \in [ForeignLoans -> Nat] /\ ElsewhereIffDue(nft_owner, debt)
  BY DEF RefinanceInv, CreateRefinancedLoan
<1>2. CreateLoan(msg, offer, nft, d, b) /\ debt' = debt /\ allowed' = allowed
      /\ flash' = [flash EXCEPT !.created = TRUE]
  BY DEF CreateRefinancedLoan
<1>3. msg \in Messages
  <2>1. flash.proxy \in Proxies /\ flash.msg.origin \in Wallets
    BY <1>1, RefinancersTyped, CallTyped
  <2> QED
    BY <1>1, <2>1 DEF Messages
<1>4. [Next]_vars
  <2>1. UserCall(msg)
    BY <1>2 DEF UserCall
  <2> HIDE DEF msg
  <2> QED
    BY <1>3, <2>1 DEF Next, LendingNext, UserStep
<1>5. /\ IInv' /\ callbacks' = <<>>
      /\ \A n \in Nfts : nft_owner'[n] = Elsewhere <=> nft_owner[n] = Elsewhere
  BY <1>1, <1>4, LendingStep
<1>6. ElsewhereIffDue(nft_owner', debt')
  BY <1>1, <1>2, <1>5, ForeignTyped DEF ElsewhereIffDue
<1>7. UNCHANGED <<owed, claimed, now>>
  BY <1>2, CreateLoanKeepsOwed
<1>8. flash' # None =>
        /\ flash'.foreign = flash.foreign /\ flash'.proxy = flash.proxy
        /\ flash'.msg = flash.msg
        /\ flash'.amount = flash.amount /\ flash'.saved = flash.saved
  BY <1>2
<1>9. flash' # None =>
        /\ flash'.foreign \in ForeignLoans \cup {None} /\ flash'.proxy \in Refinancers
        /\ flash'.msg \in Calls /\ flash'.amount \in Nat
        /\ Restorable(flash'.saved, now', claimed', owed')
  BY <1>1, <1>7, <1>8
<1> QED
  BY <1>1, <1>2, <1>5, <1>6, <1>9 DEF RefinanceInv

LEMMA PayBackKeeps ==
  ASSUME RefinanceInv, PayBack
  PROVE  RefinanceInv'
<1> DEFINE payer == flash.msg.borrower
           repaid == Transfer(CurrentFunds, payer, FlashLender, flash.amount)
<1>1. /\ IInv /\ payer \in Outside /\ flash.amount \in Nat /\ FlashLender \in Outside
      /\ CanTransfer(CurrentFunds, payer, FlashLender, flash.amount)
      /\ Sound(CurrentFunds) /\ allowed \in AllowedType /\ flash.proxy \in Refinancers
  BY CallTyped, SoundNow, RefinancersTyped DEF RefinanceInv, PayBack
<1>2. /\ SetFunds(repaid) /\ flash' = None /\ debt' = debt
      /\ UNCHANGED <<now, loanVars, adminVars, blacklisted, custodyVars, controlVars>>
      /\ IF payer \in Refinancers /\ flash.amount > 0
           THEN /\ flash.proxy \in Approvees
                /\ allowed[payer][flash.proxy] >= flash.amount
                /\ allowed' = [allowed EXCEPT ![payer][flash.proxy] = @ - flash.amount]
           ELSE UNCHANGED allowed
  BY DEF PayBack
<1>3. FundsKept
  <2>1. Sound(repaid)
    BY <1>1, SoundTransfer
  <2> HIDE DEF repaid
  <2> QED
    BY <1>2, <2>1, SoundSet
<1>4. IInv'
  <2>1. nft_owner \in [Nfts -> Keepers \cup {Vault}]
    BY <1>1 DEF IInv, TypeOK, CustodyTyped
  <2> QED
    BY <1>1, <1>2, <1>3, <2>1, OutsideStepKeeps DEF custodyVars
<1>5. allowed' \in AllowedType
  <2> HIDE DEF payer
  <2>1. CASE payer \in Refinancers /\ flash.amount > 0
    <3>1. /\ flash.proxy \in Approvees /\ allowed[payer][flash.proxy] \in Nat
          /\ flash.amount <= allowed[payer][flash.proxy]
      BY <1>1, <1>2, <2>1 DEF AllowedType
    <3> QED
      BY <1>1, <1>2, <2>1, <3>1, SpendingTyped
  <2>2. CASE ~(payer \in Refinancers /\ flash.amount > 0)
    BY <1>1, <1>2, <2>2
  <2> QED
    BY <2>1, <2>2
<1> QED
  BY <1>2, <1>4, <1>5 DEF RefinanceInv, custodyVars

LEMMA RevertKeeps ==
  ASSUME RefinanceInv, Revert
  PROVE  RefinanceInv'
<1> DEFINE s == flash.saved
<1>1. Restorable(s, now, claimed, owed) /\ IInv /\ TypeOK /\ callbacks = <<>>
  BY DEF RefinanceInv, Revert, IInv
<1>2. /\ balance' = s.balance /\ nft_owner' = s.nft_owner /\ loans' = s.loans
      /\ debt' = s.debt /\ offer_count' = s.offer_count /\ allowed' = s.allowed
      /\ revoked_offers' = s.revoked_offers /\ delegations' = s.delegations
      /\ flash' = None
      /\ UNCHANGED <<now, adminVars, pending_transfers, owed, blacklisted, callbacks, refusing,
                     controlVars, claimed>>
  BY DEF Revert
<1> HIDE DEF s
<1>3. LoansTyped'
  BY <1>1, <1>2 DEF Restorable, TypeOK, LoansTyped
<1>4. FundsTyped' /\ VaultHoldsWhatItOwes' /\ PendingAddsUp'
  <2>1. FundsTyped' /\ VaultHoldsWhatItOwes'
    BY <1>1, <1>2 DEF Restorable, TypeOK, FundsTyped, VaultHoldsWhatItOwes
  <2> QED
    BY <1>1, <1>2, <2>1 DEF IInv, PendingAddsUp, AddsUpTo, Units
<1>5. CustodyTyped'
  BY <1>1, <1>2 DEF Restorable, TypeOK, CustodyTyped
<1>6. TypeOK'
  BY <1>1, <1>2, <1>3, <1>4, <1>5, UnchangedTyped DEF TypeOK
<1>7. LoansStarted' /\ IsFiniteSet(loans')
  BY <1>1, <1>2 DEF Restorable, LoansStarted
<1>8. CustodyMatchesLoans'
  BY <1>1, <1>2 DEF Restorable, CustodyMatchesLoans, LoansOn
<1>9. OfferCountMatchesLoans'
  BY <1>1, <1>2 DEF Restorable, OfferCountMatchesLoans, LoansFrom, From
<1>10. IInv'
  BY <1>4, <1>6, <1>7, <1>8, <1>9 DEF IInv
<1>11. /\ debt' \in [ForeignLoans -> Nat] /\ ElsewhereIffDue(nft_owner', debt')
       /\ allowed' \in AllowedType
  BY <1>1, <1>2 DEF Restorable
<1> QED
  BY <1>1, <1>2, <1>10, <1>11 DEF RefinanceInv

\* What a wallet may take of a proxy's money.
LEMMA TakeApprovedMoves ==
  ASSUME RefinanceInv, NEW proxy \in Refinancers, NEW spender \in Approvees,
         NEW amount \in 1..allowed[proxy][spender], TakeApproved(proxy, spender, amount)
  PROVE  /\ flash = None /\ flash' = None /\ spender \in Wallets
         /\ FundsKept /\ allowed' \in AllowedType
         /\ \A x \in Accounts : balance'[x]
              = balance[x] - Taken(x, proxy, amount) + Taken(x, spender, amount)
         /\ UNCHANGED <<now, loanVars, adminVars, blacklisted, custodyVars, controlVars, debt>>
<1> DEFINE g == Transfer(CurrentFunds, proxy, spender, amount)
<1>1. /\ flash = None /\ spender \in Wallets /\ amount <= allowed[proxy][spender]
      /\ CanTransfer(CurrentFunds, proxy, spender, amount) /\ SetFunds(g)
      /\ allowed' = [allowed EXCEPT ![proxy][spender] = @ - amount]
      /\ UNCHANGED <<now, loanVars, adminVars, blacklisted, custodyVars, controlVars, debt, flash>>
  BY DEF TakeApproved
<1>2. /\ proxy \in Outside /\ spender \in Outside /\ allowed \in AllowedType /\ amount \in Nat
      /\ Sound(CurrentFunds) /\ CurrentFunds.balance = balance
  BY <1>1, SoundNow, RefinancersTyped, ElsewhereIsNoWallet DEF RefinanceInv
<1>3. /\ Sound(g)
      /\ \A x \in Accounts : g.balance[x]
           = balance[x] - Taken(x, proxy, amount) + Taken(x, spender, amount)
  BY <1>1, <1>2, SoundTransfer
<1> HIDE DEF g
<1>4. FundsKept /\ balance' = g.balance
  BY <1>1, <1>3, SoundSet
<1>5. allowed' \in AllowedType
  BY <1>1, <1>2, SpendingTyped
<1> QED
  BY <1>1, <1>3, <1>4, <1>5

LEMMA TakeApprovedKeeps ==
  ASSUME RefinanceInv, NEW proxy \in Refinancers, NEW spender \in Approvees,
         NEW amount \in 1..allowed[proxy][spender], TakeApproved(proxy, spender, amount)
  PROVE  RefinanceInv'
<1>1. /\ flash' = None /\ FundsKept /\ allowed' \in AllowedType
      /\ UNCHANGED <<now, loanVars, adminVars, blacklisted, custodyVars, controlVars, debt>>
  BY TakeApprovedMoves
<1>2. IInv'
  <2>1. nft_owner \in [Nfts -> Keepers \cup {Vault}] /\ IInv
    BY DEF RefinanceInv, IInv, TypeOK, CustodyTyped
  <2> QED
    BY <1>1, <2>1, OutsideStepKeeps DEF custodyVars
<1> QED
  BY <1>1, <1>2 DEF RefinanceInv, custodyVars

\* Between refinancings the contract takes its own steps.
LEMMA OtherTransactionIsLending ==
  ASSUME callbacks = <<>>, OtherTransaction
  PROVE  [Next]_vars
<1>1. ASSUME NEW w \in Wallets, UserCall(Direct(w))
      PROVE  UserStep
  <2>1. Direct(w) \in Messages
    BY DEF Direct, Messages
  <2> QED
    BY <1>1, <2>1 DEF UserStep
<1>2. ASSUME NEW proxy \in Refinancers, NEW value \in BOOLEAN,
             SetProxyAuthorization(Deployer, proxy, value)
      PROVE  GovernanceStep
  <2>1. proxy \in Proxies /\ Deployer \in Admins
    BY RefinanceAssumption, PartiesAssumption
  <2> QED
    BY <1>2, <2>1 DEF GovernanceStep, AdminStep
<1> QED
  BY <1>1, <1>2 DEF OtherTransaction, Next, LendingNext

LEMMA OtherTransactionKeeps ==
  ASSUME RefinanceInv, OtherTransaction
  PROVE  RefinanceInv'
<1>1. /\ IInv /\ callbacks = <<>> /\ flash' = None
      /\ debt \in [ForeignLoans -> Nat] /\ ElsewhereIffDue(nft_owner, debt) /\ debt' = debt
      /\ allowed \in AllowedType /\ allowed' = allowed
  BY DEF RefinanceInv, OtherTransaction, refinanceVars
<1>2. [Next]_vars
  BY <1>1, OtherTransactionIsLending
<1>3. /\ IInv' /\ callbacks' = <<>>
      /\ \A n \in Nfts : nft_owner'[n] = Elsewhere <=> nft_owner[n] = Elsewhere
  BY <1>1, <1>2, LendingStep
<1>4. ElsewhereIffDue(nft_owner', debt')
  BY <1>1, <1>3, ForeignTyped DEF ElsewhereIffDue
<1> QED
  BY <1>1, <1>3, <1>4 DEF RefinanceInv

LEMMA RefinanceInitInv == RefinanceInit => RefinanceInv
<1> SUFFICES ASSUME RefinanceInit PROVE RefinanceInv
  OBVIOUS
<1>1. IInv /\ callbacks = <<>> /\ nft_owner \in Holdings /\ flash = None
      /\ debt = [f \in ForeignLoans |-> f.due]
      /\ allowed = [p \in Refinancers |-> [a \in Approvees |-> 0]]
  BY InitIInv DEF RefinanceInit, Init
<1>2. \A f \in ForeignLoans :
        f.due \in Nat /\ f.due > 0 /\ \A h \in Holdings : h[f.nft] = Elsewhere
  BY RefinanceAssumption
<1>3. debt \in [ForeignLoans -> Nat] /\ ElsewhereIffDue(nft_owner, debt)
  BY <1>1, <1>2 DEF ElsewhereIffDue
<1>4. allowed \in AllowedType
  BY <1>1 DEF AllowedType
<1> QED
  BY <1>1, <1>3, <1>4 DEF RefinanceInv

LEMMA RefinanceNextKeeps == RefinanceInv /\ [RefinanceNext]_allVars => RefinanceInv'
<1> SUFFICES ASSUME RefinanceInv, [RefinanceNext]_allVars PROVE RefinanceInv'
  OBVIOUS
<1>1. CASE Refinance
  BY <1>1, RefinanceKeeps
<1>2. ASSUME NEW offer \in Offers, NEW nft \in Nfts, NEW d \in Delegates \cup {None},
             NEW b \in BrokerTerms, CreateRefinancedLoan(offer, nft, d, b)
      PROVE  RefinanceInv'
  BY <1>2, CreateRefinancedLoanKeeps
<1>3. CASE PayBack
  BY <1>3, PayBackKeeps
<1>4. CASE Revert
  BY <1>4, RevertKeeps
<1>5. CASE OtherTransaction
  BY <1>5, OtherTransactionKeeps
<1>6. CASE UNCHANGED allVars
  <2>1. /\ UNCHANGED vars /\ UNCHANGED <<debt, allowed, flash>>
        /\ UNCHANGED <<callbacks, nft_owner, now, claimed, owed>>
    BY <1>6 DEF allVars, refinanceVars, vars, custodyVars, loanVars, fundVars
  <2>2. IInv'
    BY <2>1, NextKeepsIInv DEF RefinanceInv
  <2> QED
    BY <2>1, <2>2 DEF RefinanceInv
<1>7. ASSUME NEW proxy \in Refinancers, NEW spender \in Approvees,
             NEW amount \in 1..allowed[proxy][spender], TakeApproved(proxy, spender, amount)
      PROVE  RefinanceInv'
  BY <1>7, TakeApprovedKeeps
<1> QED
  BY <1>1, <1>2, <1>3, <1>4, <1>5, <1>6, <1>7 DEF RefinanceNext

\* The invariant of the lending contract holds in the middle of a refinancing too,
\* and after one that was taken back.
THEOREM RefinanceInvTheorem == RefinanceSpec => []RefinanceInv
  BY RefinanceInitInv, RefinanceNextKeeps, PTL DEF RefinanceSpec

\* The vault holds an NFT exactly while one loan runs on it, and another protocol
\* holds it exactly while something is due there: so no NFT backs two loans.
THEOREM PledgedOnceTheorem == RefinanceSpec => []PledgedOnce
<1>1. RefinanceInv => PledgedOnce
  BY DEF RefinanceInv, IInv, ElsewhereIffDue, PledgedOnce
<1> QED
  BY <1>1, RefinanceInvTheorem, PTL

----------------------------------------------------------------------------
(* The money a refinancing moves. *)

Own == Refinancers \cup {FlashLender}

Movers == Wallets \cup Refinancers

Spared == Wallets \cup Own

LEMMA OwnAccounts ==
  /\ Own \subseteq Accounts /\ Own \cap (Wallets \cup {Vault}) = {}
  /\ Spared \subseteq Accounts /\ Vault \notin Spared
  /\ \A f \in ForeignLoans : f.lender \notin Spared /\ f.lender \in Accounts
<1>1. /\ Own \subseteq Accounts /\ Own \cap (Wallets \cup {Vault}) = {}
      /\ Spared \subseteq Accounts /\ Vault \notin Spared
  BY RefinanceAssumption, AccountsAssumption, PartiesAssumption
     DEF Own, Spared, Accounts, Refinancers
<1>2. ASSUME NEW f \in ForeignLoans
      PROVE  f.lender \notin Spared /\ f.lender \in Accounts
  <2>1. f.lender \in Payees \ Refinancers
    BY RefinanceAssumption
  <2>2. f.lender \in ForeignLenders
    BY DEF ForeignLenders
  <2> QED
    BY <2>1, <2>2, AccountsAssumption DEF Own, Spared, Accounts
<1> QED
  BY <1>1, <1>2

LEMMA MoversSpared ==
  /\ Movers \subseteq Spared /\ FlashLender \in Spared /\ FlashLender \notin Movers
  /\ Wallets \subseteq Movers /\ Refinancers \subseteq Movers /\ Spared \subseteq Accounts
  /\ Spared = Movers \cup {FlashLender}
  BY OwnAccounts, RefinancersTyped DEF Own, Spared, Movers

\* What the flash loan and the repayment elsewhere have moved.
Shifted(a) == Part(a = Holder, flash.amount) - Part(a = Payer, flash.paid)

\* In the middle of a refinancing the flash lender lacks what it lent.  Whoever has
\* the flash loan has that much more, whoever repaid elsewhere has less, and once
\* the loan is made its borrower has what it brings.
InProgress ==
  /\ flash \in FlashType
  /\ flash.saved.loans \subseteq loans
  /\ flash.saved.balance[FlashLender] = Funds[FlashLender]
  /\ balance[FlashLender] = Funds[FlashLender] - flash.amount
  /\ Approved(flash.proxy, flash.amount, flash.paid, flash.saved.allowed, allowed)
  /\ flash.foreign = None => flash.paid = 0
  /\ ~flash.created =>
       /\ loans = flash.saved.loans
       /\ \A a \in Movers : balance[a] = flash.saved.balance[a] + Shifted(a)
  /\ flash.created =>
       \E loan \in loans \ flash.saved.loans :
         /\ loans = flash.saved.loans \cup {loan}
         /\ loan.borrower = flash.msg.origin
         /\ \A a \in Movers \ {loan.lender} :
              balance[a] = flash.saved.balance[a] + Part(a = loan.borrower, Brought(loan))
                             + Shifted(a)

MoneyInv ==
  /\ NoFeesTo(Spared)
  /\ flash = None => balance[FlashLender] = Funds[FlashLender]
  /\ flash # None => InProgress

LEMMA SavedTyped == RefinanceInv => Saved \in SavedType
  BY DEF RefinanceInv, IInv, TypeOK, LoansTyped, FundsTyped, CustodyTyped, Saved, SavedType

LEMMA OpensFlash ==
  ASSUME RefinanceInv, NEW msg \in Calls, NEW proxy \in Refinancers,
         NEW foreign \in ForeignLoans \cup {None}, NEW amount \in Nat, NEW paid \in Nat,
         Opens(msg, proxy, foreign, amount, paid)
  PROVE  /\ flash = None /\ flash' # None /\ flash' \in FlashType /\ ~flash'.created
         /\ flash'.msg = msg /\ flash'.proxy = proxy /\ flash'.foreign = foreign
         /\ flash'.amount = amount /\ flash'.paid = paid /\ flash'.saved = Saved
<1>1. /\ flash = None
      /\ flash' = [msg |-> msg, proxy |-> proxy, foreign |-> foreign, amount |-> amount,
                   paid |-> paid, created |-> FALSE, saved |-> Saved]
  BY DEF Opens
<1>2. flash' \in FlashType
  BY <1>1, SavedTyped DEF FlashType
<1> QED
  BY <1>1, <1>2, NoneIsNoTransaction

LEMMA PartiesToIt ==
  ASSUME NEW msg \in Calls, NEW proxy \in Refinancers, NEW foreign \in ForeignLoans \cup {None}
  PROVE  /\ HolderOf(msg, proxy) \in Movers /\ PayerOf(proxy, foreign) \in Movers
         /\ \A x \in Spared : \A paid : ToLender(x, foreign, paid) = 0
<1>1. HolderOf(msg, proxy) \in Movers
  BY CallTyped DEF HolderOf, Movers
<1>2. PayerOf(proxy, foreign) \in Movers
  BY ForeignTyped DEF PayerOf, Movers
<1>3. ASSUME NEW x \in Spared, NEW paid
      PROVE  ToLender(x, foreign, paid) = 0
  BY OwnAccounts DEF ToLender, Taken
<1> QED
  BY <1>1, <1>2, <1>3

LEMMA OpensKeepsMoney ==
  ASSUME RefinanceInv, MoneyInv, NEW msg \in Calls, NEW proxy \in Refinancers,
         NEW foreign \in ForeignLoans \cup {None}, NEW amount \in Nat, NEW paid \in Nat,
         Opens(msg, proxy, foreign, amount, paid)
  PROVE  MoneyInv'
<1> DEFINE holder == HolderOf(msg, proxy)
           payer == PayerOf(proxy, foreign)
<1>1. /\ UNCHANGED <<loans, protocol>>
      /\ \A x \in Accounts : balance'[x]
           = balance[x] - Taken(x, FlashLender, amount) + Taken(x, holder, amount)
               - Taken(x, payer, paid) + ToLender(x, foreign, paid)
      /\ Approved(proxy, amount, paid, allowed, allowed') /\ (foreign = None => paid = 0)
  BY DEF Opens, Repays, loanVars, adminVars
<1>2. /\ flash = None /\ flash' # None /\ flash' \in FlashType /\ ~flash'.created
      /\ flash'.msg = msg /\ flash'.proxy = proxy /\ flash'.foreign = foreign
      /\ flash'.amount = amount /\ flash'.paid = paid /\ flash'.saved = Saved
  BY OpensFlash
<1>3. /\ Saved.loans = loans /\ Saved.balance = balance /\ Saved.allowed = allowed
      /\ balance[FlashLender] = Funds[FlashLender] /\ balance \in [Accounts -> Nat]
      /\ NoFeesTo(Spared)
  BY <1>2, SoundNow DEF Saved, MoneyInv
<1>4. Holder' = holder /\ Payer' = payer
  BY <1>2 DEF Holder, Payer, HolderOf, PayerOf
<1>5. \A a : Shifted(a)' = Taken(a, holder, amount) - Taken(a, payer, paid)
  BY <1>2, <1>4 DEF Shifted, Part, Taken
<1>6. /\ holder \in Movers /\ payer \in Movers /\ \A x \in Spared : ToLender(x, foreign, paid) = 0
  BY PartiesToIt
<1> HIDE DEF holder, payer
<1>7. \A x \in Spared : balance'[x]
        = balance[x] - Taken(x, FlashLender, amount) + Taken(x, holder, amount)
            - Taken(x, payer, paid)
  BY <1>1, <1>3, <1>6, MoversSpared DEF Taken
<1>8. balance'[FlashLender] = Funds[FlashLender] - amount
  BY <1>3, <1>6, <1>7, MoversSpared DEF Taken
<1>9. \A a \in Movers : balance'[a] = balance[a] + Shifted(a)'
  <2>1. \A a \in Movers : balance'[a]
          = balance[a] + (Taken(a, holder, amount) - Taken(a, payer, paid))
    BY <1>3, <1>6, <1>7, MoversSpared DEF Taken
  <2> QED
    BY <1>5, <2>1
<1>10. NoFeesTo(Spared)'
  BY <1>1, <1>3 DEF NoFeesTo
<1>11. InProgress'
  BY <1>1, <1>2, <1>3, <1>8, <1>9 DEF InProgress
<1> QED
  BY <1>2, <1>10, <1>11 DEF MoneyInv

\* The offer's lender pays what tx.origin is lent, and the fees.
LEMMA CreateRefinancedLoanKeepsMoney ==
  ASSUME RefinanceInv, MoneyInv, NEW offer \in Offers, NEW nft \in Nfts,
         NEW d \in Delegates \cup {None}, NEW b \in BrokerTerms,
         CreateRefinancedLoan(offer, nft, d, b)
  PROVE  MoneyInv'
<1> DEFINE msg == [sender |-> flash.proxy, origin |-> flash.msg.origin]
           borrower == IF msg.sender \in authorized_proxies THEN msg.origin ELSE msg.sender
           fees == LoanFees(offer, b, protocol)
           loan == NewLoan(offer, borrower, nft, fees, d)
           proceeds == BorrowerProceeds(offer, fees)
<1>1. /\ flash # None /\ ~flash.created /\ InProgress /\ TypeOK /\ callbacks = <<>>
      /\ CreateLoan(msg, offer, nft, d, b)
      /\ flash' = [flash EXCEPT !.created = TRUE] /\ allowed' = allowed
      /\ NoFeesTo(Spared)
  BY DEF CreateRefinancedLoan, MoneyInv, RefinanceInv, IInv
<1>2. /\ flash' \in FlashType /\ flash \in FlashType /\ flash'.created
      /\ flash'.msg = flash.msg /\ flash'.foreign = flash.foreign /\ flash'.paid = flash.paid
      /\ flash'.amount = flash.amount /\ flash'.saved = flash.saved /\ flash'.proxy = flash.proxy
  BY <1>1 DEF InProgress, FlashType
<1>3. \A a : Shifted(a)' = Shifted(a)
  BY <1>2 DEF Shifted, Holder, Payer
<1>4. msg \in Messages /\ msg.sender \in Refinancers /\ msg.origin \in Wallets
  <2>1. flash.proxy \in Refinancers /\ flash.proxy \in Proxies /\ flash.msg.origin \in Wallets
    BY <1>2, RefinancersTyped DEF FlashType, Calls
  <2> QED
    BY <1>1, <2>1 DEF Messages
<1>5. offer.lender \in Wallets /\ offer.lender \notin Own
  BY OfferTyped, OwnAccounts
<1>6. /\ borrower \in Wallets
      /\ \A S \in SUBSET Spared : offer.lender \notin S =>
           \A x \in S : balance'[x] = balance[x] + (IF x = borrower THEN proceeds ELSE 0)
  <2>1. ASSUME NEW S \in SUBSET Spared, offer.lender \notin S
        PROVE  /\ S \in SUBSET Accounts /\ NoFeesTo(S) /\ offer.lender \notin S
    BY <1>1, <2>1, OwnAccounts DEF NoFeesTo, FeesLeave
  <2> HIDE DEF msg
  <2>2. ASSUME NEW S \in SUBSET Spared, offer.lender \notin S
        PROVE  /\ borrower \in Wallets
               /\ \A x \in S :
                    balance'[x] = balance[x] + (IF x = borrower THEN proceeds ELSE 0)
    BY <1>1, <1>4, <2>1, <2>2, CreateLoanLeaves
  <2>3. {} \in SUBSET Spared /\ offer.lender \notin {}
    OBVIOUS
  <2>4. borrower \in Wallets
    BY <2>2, <2>3
  <2> QED
    BY <2>2, <2>4
<1>7. borrower = flash.msg.origin
  BY <1>4, <1>6, AccountsAssumption
<1>8. UserCall(msg)
  BY <1>1 DEF UserCall
<1> HIDE DEF msg
<1>9. NoFeesTo(Spared)'
  BY <1>1, <1>4, <1>8, OwnAccounts, UserCallLeaves
<1> HIDE DEF borrower
<1>10. /\ loan.lender = offer.lender /\ loan.borrower = borrower /\ Brought(loan) = proceeds
       /\ proceeds \in Int
  <2>1. /\ loan.lender = offer.lender /\ loan.borrower = borrower
        /\ loan.amount = offer.principal /\ loan.fees = fees
    BY DEF NewLoan
  <2>2. fees["LENDER_BROKER_FEE"].upfront_amount = offer.broker_upfront_fee_amount
    BY DEF LoanFees, FeeTypes
  <2>3. TotalUpfrontFees(fees) \in Int
    <3>1. \A type \in FeeTypes : fees[type].upfront_amount \in Nat
      <4>1. b \in FeeTerms /\ LoanFeesDefined(offer, b, protocol, FeeCaps, None)
        BY <1>1, TermsAssumption DEF CreateLoan
      <4> QED
        BY <1>1, <4>1, FeesTyped DEF TypeOK
    <3> HIDE DEF fees
    <3> QED
      BY <3>1 DEF TotalUpfrontFees, FeeTypes
  <2> HIDE DEF loan, fees
  <2> QED
    BY <2>1, <2>2, <2>3, OfferTyped DEF Brought, BorrowerProceeds, IsOffer
<1>11. loan \notin loans /\ loans' = loans \cup {loan}
  BY <1>1 DEF CreateLoan, IdUnusedIn, borrower
<1> HIDE DEF loan, proceeds
<1>12. \A a \in Spared \ {loan.lender} :
         balance'[a] = balance[a] + Part(a = loan.borrower, Brought(loan))
  <2>1. /\ Spared \ {offer.lender} \in SUBSET Spared
        /\ offer.lender \notin Spared \ {offer.lender}
    OBVIOUS
  <2>2. \A a \in Spared \ {offer.lender} :
          balance'[a] = balance[a] + (IF a = borrower THEN proceeds ELSE 0)
    BY <1>6, <2>1
  <2> QED
    BY <1>10, <2>2 DEF Part
<1>13. balance'[FlashLender] = Funds[FlashLender] - flash.amount
  <2>1. FlashLender \in Spared \ {loan.lender} /\ FlashLender # loan.borrower
    BY <1>5, <1>6, <1>10, MoversSpared DEF Own
  <2>2. balance[FlashLender] = Funds[FlashLender] - flash.amount /\ balance[FlashLender] \in Nat
    BY <1>1, MoversSpared DEF InProgress, TypeOK, FundsTyped
  <2> QED
    BY <1>12, <2>1, <2>2 DEF Part
<1>14. \A a \in Movers \ {loan.lender} :
         balance'[a] = flash.saved.balance[a] + Part(a = loan.borrower, Brought(loan))
                         + Shifted(a)
  <2>1. \A a \in Movers : balance[a] = flash.saved.balance[a] + Shifted(a)
    BY <1>1 DEF InProgress
  <2>2. Brought(loan) \in Int /\ \A a \in Movers : /\ flash.saved.balance[a] \in Int
                                                   /\ Shifted(a) \in Int
    <3>1. /\ flash.amount \in Nat /\ flash.paid \in Nat
          /\ flash.saved.balance \in [Accounts -> Nat] /\ Movers \subseteq Accounts
      BY <1>2, MoversSpared DEF FlashType, SavedType
    <3> QED
      BY <1>10, <3>1 DEF Shifted, Part
  <2> HIDE DEF Shifted
  <2> QED
    BY <1>12, <2>1, <2>2, MoversSpared DEF Part
<1>15. loan \in loans' \ flash.saved.loans /\ loans' = flash.saved.loans \cup {loan}
  BY <1>1, <1>11 DEF InProgress
<1>16. InProgress'
  <2>1. Approved(flash.proxy, flash.amount, flash.paid, flash.saved.allowed, allowed)
        /\ flash.saved.balance[FlashLender] = Funds[FlashLender]
        /\ (flash.foreign = None => flash.paid = 0)
    BY <1>1 DEF InProgress
  <2> QED
    BY <1>1, <1>2, <1>3, <1>7, <1>10, <1>13, <1>14, <1>15, <2>1 DEF InProgress
<1> QED
  BY <1>1, <1>2, <1>9, <1>16, NoneIsNoTransaction DEF MoneyInv

\* The flash lender has its money again, and the borrower named has less.
LEMMA PayBackKeepsMoney ==
  ASSUME RefinanceInv, MoneyInv, PayBack
  PROVE  /\ MoneyInv'
         /\ \A a \in Movers : balance'[a] = balance[a] - Part(a = flash.msg.borrower, flash.amount)
<1> DEFINE payer == flash.msg.borrower
<1>1. /\ flash # None /\ InProgress /\ NoFeesTo(Spared) /\ flash' = None
      /\ UNCHANGED <<loans, protocol>>
      /\ SetFunds(Transfer(CurrentFunds, payer, FlashLender, flash.amount))
  BY DEF PayBack, MoneyInv, loanVars, adminVars
<1>2. /\ payer \in Movers /\ flash.amount \in Nat
      /\ CurrentFunds \in FundsType /\ CurrentFunds.balance = balance
  BY <1>1, CallTyped, SoundNow DEF InProgress, FlashType, Sound, Movers
<1> HIDE DEF payer
<1>3. \A x \in Accounts : balance'[x] = balance[x] - Taken(x, payer, flash.amount)
                                          + Taken(x, FlashLender, flash.amount)
  BY <1>1, <1>2, MoversSpared, TransferBalances DEF SetFunds
<1>4. balance \in [Accounts -> Nat] /\ Funds \in [Accounts -> Nat]
  BY SoundNow, TermsAssumption
<1>5. /\ balance'[FlashLender] = Funds[FlashLender]
      /\ \A a \in Movers : balance'[a] = balance[a] - Part(a = payer, flash.amount)
  BY <1>1, <1>2, <1>3, <1>4, MoversSpared DEF InProgress, Taken, Part
<1>6. NoFeesTo(Spared)'
  BY <1>1 DEF NoFeesTo
<1> QED
  BY <1>1, <1>5, <1>6 DEF MoneyInv, payer

LEMMA RevertKeepsMoney ==
  ASSUME MoneyInv, Revert
  PROVE  MoneyInv'
  BY DEF MoneyInv, Revert, InProgress, NoFeesTo, adminVars

LEMMA TakeApprovedKeepsMoney ==
  ASSUME RefinanceInv, MoneyInv, NEW proxy \in Refinancers, NEW spender \in Approvees,
         NEW amount \in 1..allowed[proxy][spender], TakeApproved(proxy, spender, amount)
  PROVE  MoneyInv'
<1>1. /\ flash = None /\ flash' = None /\ spender \in Wallets /\ UNCHANGED <<loans, protocol>>
      /\ \A x \in Accounts : balance'[x]
           = balance[x] - Taken(x, proxy, amount) + Taken(x, spender, amount)
  BY TakeApprovedMoves DEF loanVars, adminVars
<1>2. /\ proxy # FlashLender /\ spender # FlashLender /\ FlashLender \in Accounts
      /\ balance \in [Accounts -> Nat]
  BY <1>1, MoversSpared, SoundNow
<1>3. balance'[FlashLender] = balance[FlashLender]
  BY <1>1, <1>2 DEF Taken
<1> QED
  BY <1>1, <1>3 DEF MoneyInv, NoFeesTo

LEMMA OtherTransactionKeepsMoney ==
  ASSUME RefinanceInv, MoneyInv, OtherTransaction
  PROVE  MoneyInv'
<1>1. /\ TypeOK /\ callbacks = <<>> /\ flash = None /\ flash' = None
      /\ NoFeesTo(Spared) /\ balance[FlashLender] = Funds[FlashLender]
  BY DEF RefinanceInv, MoneyInv, OtherTransaction, refinanceVars, IInv
<1>2. NoFeesTo(Own)
  BY <1>1 DEF NoFeesTo, FeesLeave, Spared
<1>3. ASSUME NEW w \in Wallets, UserCall(Direct(w))
      PROVE  NoFeesTo(Spared)' /\ \A x \in Own : balance'[x] = balance[x]
  <2>1. Direct(w) \in Messages
    BY <1>1 DEF Direct, Messages
  <2> QED
    BY <1>1, <1>2, <1>3, <2>1, OwnAccounts, UserCallLeaves
<1>4. ASSUME EnvironmentStep
      PROVE  UNCHANGED <<loans, protocol, balance>>
  BY <1>4 DEF EnvironmentStep, Tick, SetBlacklisted, InstallLenderClaim, loanVars, adminVars,
     fundVars
<1>5. ASSUME NEW proxy, NEW value, SetProxyAuthorization(Deployer, proxy, value)
      PROVE  UNCHANGED <<loans, protocol, balance>>
  BY <1>5 DEF SetProxyAuthorization, NotAdministered, loanVars, fundVars
<1>6. NoFeesTo(Spared)' /\ \A x \in Own : balance'[x] = balance[x]
  <2>1. ASSUME UNCHANGED <<loans, protocol, balance>>
        PROVE  NoFeesTo(Spared)' /\ \A x \in Own : balance'[x] = balance[x]
    BY <1>1, <2>1 DEF NoFeesTo
  <2> QED
    BY <1>3, <1>4, <1>5, <2>1 DEF OtherTransaction
<1> QED
  BY <1>1, <1>6 DEF MoneyInv, Own

LEMMA RefinanceInitMoney == RefinanceInit => MoneyInv
<1> SUFFICES ASSUME RefinanceInit PROVE MoneyInv
  OBVIOUS
<1>1. loans = {} /\ balance = Funds /\ flash = None /\ protocol \in Protocols
  BY DEF RefinanceInit, Init
<1>2. NoFeesTo(Spared)
  BY <1>1, AccountsAssumption DEF NoFeesTo, FeeRecipients, Spared, Own
<1> QED
  BY <1>1, <1>2 DEF MoneyInv

LEMMA RefinanceNextKeepsMoney ==
  RefinanceInv /\ MoneyInv /\ [RefinanceNext]_allVars => MoneyInv'
<1> SUFFICES ASSUME RefinanceInv, MoneyInv, [RefinanceNext]_allVars PROVE MoneyInv'
  OBVIOUS
<1>1. CASE Refinance
  BY <1>1, RefinanceOpens, OpensKeepsMoney
<1>2. ASSUME NEW offer \in Offers, NEW nft \in Nfts, NEW d \in Delegates \cup {None},
             NEW b \in BrokerTerms, CreateRefinancedLoan(offer, nft, d, b)
      PROVE  MoneyInv'
  BY <1>2, CreateRefinancedLoanKeepsMoney
<1>3. CASE PayBack
  BY <1>3, PayBackKeepsMoney
<1>4. CASE Revert
  BY <1>4, RevertKeepsMoney
<1>5. CASE OtherTransaction
  BY <1>5, OtherTransactionKeepsMoney
<1>6. CASE UNCHANGED allVars
  BY <1>6 DEF allVars, refinanceVars, vars, loanVars, adminVars, fundVars, MoneyInv, InProgress,
     NoFeesTo, Shifted, Holder, Payer
<1>7. ASSUME NEW proxy \in Refinancers, NEW spender \in Approvees,
             NEW amount \in 1..allowed[proxy][spender], TakeApproved(proxy, spender, amount)
      PROVE  MoneyInv'
  BY <1>7, TakeApprovedKeepsMoney
<1> QED
  BY <1>1, <1>2, <1>3, <1>4, <1>5, <1>6, <1>7 DEF RefinanceNext

\* In every state of a transaction the money of all wallets and proxies but the new
\* lender is accounted for: the flash loan is where the call says, who repaid
\* elsewhere lacks what was paid, the new borrower has what its loan brings, and
\* what a proxy paid it had approved, before or for this flash loan.
THEOREM MoneyInvTheorem == RefinanceSpec => []MoneyInv
  BY RefinanceInitMoney, RefinanceNextKeepsMoney, RefinanceInvTheorem, PTL DEF RefinanceSpec

\* No transaction ends with the flash lender short of what it lent.
THEOREM FlashLenderTheorem == RefinanceSpec => []FlashLenderIsRepaid
<1>1. MoneyInv => FlashLenderIsRepaid
  BY DEF MoneyInv, FlashLenderIsRepaid, Between
<1> QED
  BY <1>1, MoneyInvTheorem, PTL

LEMMA TransactionEnds ==
  ASSUME RefinanceInv, MoneyInv, [RefinanceNext]_allVars, flash # None, flash' = None
  PROVE  PayBack \/ Revert
<1>1. ~Refinance
  BY RefinanceOpens, OpensFlash
<1>2. ASSUME NEW offer, NEW nft, NEW d, NEW b, CreateRefinancedLoan(offer, nft, d, b)
      PROVE  FALSE
  <2>1. flash' = [flash EXCEPT !.created = TRUE] /\ flash \in FlashType
    BY <1>2 DEF CreateRefinancedLoan, MoneyInv, InProgress
  <2>2. flash' \in FlashType
    BY <2>1 DEF FlashType
  <2> QED
    BY <2>2, NoneIsNoTransaction
<1> QED
  BY <1>1, <1>2 DEF RefinanceNext, OtherTransaction, TakeApproved, allVars, refinanceVars

\* What everybody has when a transaction is over, against before it.
LEMMA PayBackCosts ==
  ASSUME RefinanceInv, MoneyInv, PayBack
  PROVE  /\ flash \in FlashType
         /\ Approved(flash.proxy, flash.amount, flash.paid, flash.saved.allowed, allowed)
         /\ \E loan \in loans' \ flash.saved.loans :
              /\ loans' = flash.saved.loans \cup {loan}
              /\ loan.borrower = flash.msg.origin
              /\ loan \in LoanType
              /\ \A a \in Movers \ {loan.lender} :
                   balance'[a] = flash.saved.balance[a] + Part(a = loan.borrower, Brought(loan))
                     + Part(a = Holder, flash.amount) - Part(a = Payer, flash.paid)
                     - Part(a = flash.msg.borrower, flash.amount)
<1>1. /\ flash # None /\ loans' = loans /\ flash.created /\ InProgress /\ flash \in FlashType
      /\ Approved(flash.proxy, flash.amount, flash.paid, flash.saved.allowed, allowed)
      /\ \A a \in Movers : balance'[a] = balance[a] - Part(a = flash.msg.borrower, flash.amount)
  BY PayBackKeepsMoney DEF PayBack, loanVars, MoneyInv, InProgress
<1>2. PICK loan \in loans \ flash.saved.loans :
        /\ loans = flash.saved.loans \cup {loan}
        /\ loan.borrower = flash.msg.origin
        /\ \A a \in Movers \ {loan.lender} :
             balance[a] = flash.saved.balance[a] + Part(a = loan.borrower, Brought(loan))
                            + Shifted(a)
  BY <1>1 DEF InProgress
<1>3. loan \in LoanType
  BY <1>2 DEF RefinanceInv, IInv, TypeOK, LoansTyped
<1>4. Brought(loan) \in Int
  <2>1. loan.amount \in Nat /\ \A type \in FeeTypes : loan.fees[type].upfront_amount \in Nat
    BY <1>3, LoanTyped, FeeTyped DEF LoanType, LoanFeesOK
  <2> QED
    BY <2>1 DEF Brought, TotalUpfrontFees, FeeTypes
<1>5. /\ flash.amount \in Nat /\ flash.paid \in Nat
      /\ flash.saved.balance \in [Accounts -> Nat] /\ Movers \subseteq Accounts
  BY <1>1, MoversSpared DEF FlashType, SavedType
<1>6. ASSUME NEW a \in Movers \ {loan.lender}
      PROVE  balance'[a] = flash.saved.balance[a] + Part(a = loan.borrower, Brought(loan))
               + Part(a = Holder, flash.amount) - Part(a = Payer, flash.paid)
               - Part(a = flash.msg.borrower, flash.amount)
  BY <1>1, <1>2, <1>4, <1>5 DEF Shifted, Part
<1> QED
  BY <1>1, <1>2, <1>3, <1>6

\* A refinancing that is not taken back gives tx.origin one new loan and what it
\* brings; the flash loan, what is repaid elsewhere and what is paid back move
\* between the accounts the call names, and no other wallet or proxy but the new
\* lender has a different balance.
THEOREM CostTheorem == RefinanceSpec => RefinanceCostsTheDifference
<1> DEFINE Claim ==
      flash # None /\ flash' = None /\ loans' # flash.saved.loans =>
        \E loan \in loans' \ flash.saved.loans :
          /\ loans' = flash.saved.loans \cup {loan}
          /\ loan.borrower = flash.msg.origin
          /\ \A a \in (Wallets \cup Refinancers) \ {loan.lender} :
               balance'[a] = flash.saved.balance[a] + Part(a = loan.borrower, Brought(loan))
                 + Part(a = Holder, flash.amount) - Part(a = Payer, flash.paid)
                 - Part(a = flash.msg.borrower, flash.amount)
<1>1. RefinanceInv /\ MoneyInv /\ [RefinanceNext]_allVars => Claim
  <2> SUFFICES ASSUME RefinanceInv, MoneyInv, [RefinanceNext]_allVars,
                      flash # None, flash' = None, loans' # flash.saved.loans
               PROVE  \E loan \in loans' \ flash.saved.loans :
                        /\ loans' = flash.saved.loans \cup {loan}
                        /\ loan.borrower = flash.msg.origin
                        /\ \A a \in (Wallets \cup Refinancers) \ {loan.lender} :
                             balance'[a] = flash.saved.balance[a]
                               + Part(a = loan.borrower, Brought(loan))
                               + Part(a = Holder, flash.amount) - Part(a = Payer, flash.paid)
                               - Part(a = flash.msg.borrower, flash.amount)
    OBVIOUS
  <2>1. PayBack
    BY TransactionEnds DEF Revert
  <2> QED
    BY <2>1, PayBackCosts DEF Movers
<1>2. RefinanceSpec => [][Claim]_allVars
  BY <1>1, RefinanceInvTheorem, MoneyInvTheorem, PTL DEF RefinanceSpec
<1> QED
  BY <1>2 DEF RefinanceCostsTheDifference

\* What a proxy is out of, in a transaction that is paid back.
LEMMA PayBackByApproval ==
  ASSUME RefinanceInv, MoneyInv, PayBack, NEW p \in Refinancers,
         flash.saved.balance[p] > balance'[p]
  PROVE  \E spender \in Takers :
           flash.saved.balance[p] - balance'[p] <= flash.saved.allowed[p][spender]
<1> DEFINE amount == flash.amount
           paid == flash.paid
           before == flash.saved.allowed
           lost == flash.saved.balance[p] - balance'[p]
<1>1. /\ flash \in FlashType /\ Approved(flash.proxy, amount, paid, before, allowed)
      /\ \E loan \in loans' \ flash.saved.loans :
           /\ loan.borrower = flash.msg.origin /\ loan \in LoanType
           /\ \A a \in Movers \ {loan.lender} :
                balance'[a] = flash.saved.balance[a] + Part(a = loan.borrower, Brought(loan))
                  + Part(a = Holder, amount) - Part(a = Payer, paid)
                  - Part(a = flash.msg.borrower, amount)
  BY PayBackCosts
<1>2. /\ amount \in Nat /\ paid \in Nat /\ before \in AllowedType
      /\ flash.proxy \in Refinancers /\ flash.msg \in Calls
      /\ flash.foreign \in ForeignLoans \cup {None}
      /\ flash.saved.balance[p] \in Nat
  <2>1. flash.saved \in SavedType /\ p \in Accounts
    BY <1>1, MoversSpared DEF FlashType
  <2> QED
    BY <1>1, <2>1 DEF FlashType, SavedType
<1>3. \A s \in Approvees : before[p][s] \in Nat /\ before[flash.proxy][s] \in Nat
  BY <1>2 DEF AllowedType
<1>4. Elsewhere \in Approvees /\ Elsewhere # p /\ p \notin Wallets
  BY RefinanceAssumption, RefinancersTyped
<1>5. balance'[p] = flash.saved.balance[p] + Part(p = Holder, amount) - Part(p = Payer, paid)
                      - Part(p = flash.msg.borrower, amount)
  <2>1. PICK loan \in loans' \ flash.saved.loans :
          /\ loan.borrower = flash.msg.origin /\ loan \in LoanType
          /\ \A a \in Movers \ {loan.lender} :
               balance'[a] = flash.saved.balance[a] + Part(a = loan.borrower, Brought(loan))
                 + Part(a = Holder, amount) - Part(a = Payer, paid)
                 - Part(a = flash.msg.borrower, amount)
    BY <1>1
  <2>2. p # loan.lender /\ p # loan.borrower /\ p \in Movers
    BY <1>4, <2>1, MoversSpared DEF LoanType
  <2>3. Part(p = loan.borrower, Brought(loan)) = 0
    BY <2>2 DEF Part
  <2> QED
    BY <1>2, <2>1, <2>2, <2>3
<1>6. lost = Part(p = Payer, paid) + Part(p = flash.msg.borrower, amount) - Part(p = Holder, amount)
      /\ lost > 0
  BY <1>2, <1>5 DEF Part
<1>7. p = flash.msg.borrower /\ amount > 0 =>
        flash.proxy \in Approvees /\ allowed[p][flash.proxy] >= amount
  BY DEF PayBack
<1> HIDE DEF lost, amount, paid, before
<1>8. CASE flash.proxy = GondiProxy
  <2>1. Holder = flash.msg.borrower /\ (flash.foreign # None => Payer \in Wallets)
    BY <1>2, <1>8, ForeignTyped DEF Holder, Payer
  <2>2. flash.foreign = None => paid = 0
    BY DEF paid, PayBack, MoneyInv, InProgress
  <2>3. Part(p = Payer, paid) = 0
    BY <1>2, <1>4, <2>1, <2>2 DEF Part
  <2> QED
    BY <1>2, <1>6, <2>1, <2>3 DEF Part
<1>9. CASE flash.proxy # GondiProxy /\ p # flash.proxy
  <2>1. Holder = flash.proxy /\ Payer = flash.proxy
    BY <1>9 DEF Holder, Payer
  <2>2. p = flash.msg.borrower /\ lost = amount /\ amount > 0
    BY <1>2, <1>6, <1>9, <2>1 DEF Part
  <2>3. allowed[p] = before[p]
    BY <1>1, <1>9 DEF Approved
  <2>4. flash.proxy \in Approvees /\ lost <= before[p][flash.proxy]
    BY <1>2, <1>3, <1>7, <2>2, <2>3
  <2> QED
    BY <2>4 DEF lost, before, Takers
<1>10. CASE flash.proxy # GondiProxy /\ p = flash.proxy
  <2>1. Holder = p /\ Payer = p
    BY <1>10 DEF Holder, Payer
  <2>2. lost = paid + Part(p = flash.msg.borrower, amount) - amount
    BY <1>2, <1>6, <2>1 DEF Part
  <2>3. \/ paid <= before[p][Elsewhere]
        \/ paid <= amount /\ \A a \in Approvees \ {Elsewhere} : allowed[p][a] = before[p][a]
    BY <1>1, <1>10 DEF Approved
  <2>4. CASE paid <= before[p][Elsewhere]
    <3>1. lost <= before[p][Elsewhere]
      BY <1>2, <1>3, <1>4, <2>2, <2>4 DEF Part
    <3> QED
      BY <1>4, <3>1 DEF lost, before, Takers
  <2>5. CASE paid <= amount /\ \A a \in Approvees \ {Elsewhere} : allowed[p][a] = before[p][a]
    <3>1. p = flash.msg.borrower /\ lost = paid /\ amount > 0
      BY <1>2, <1>6, <2>2, <2>5 DEF Part
    <3>2. p \in Approvees /\ allowed[p][p] >= amount /\ allowed[p][p] = before[p][p]
      BY <1>4, <1>7, <1>10, <2>5, <3>1
    <3>3. lost <= before[p][p]
      BY <1>2, <1>3, <2>5, <3>1, <3>2
    <3> QED
      BY <1>10, <3>2, <3>3 DEF lost, before, Takers
  <2> QED
    BY <2>3, <2>4, <2>5
<1> QED
  BY <1>8, <1>9, <1>10

\* What a proxy holds of its callers' money leaves it only as far as the proxy had
\* approved, before the transaction, the protocol it has repaid or the proxy that
\* has it pay a flash loan back, whatever the call asks for.
THEOREM SurplusTheorem == RefinanceSpec => SurplusLeavesByApproval
<1> DEFINE Claim ==
      flash # None /\ flash' = None =>
        \A p \in Refinancers :
          flash.saved.balance[p] > balance'[p] =>
            \E spender \in Takers :
              flash.saved.balance[p] - balance'[p] <= flash.saved.allowed[p][spender]
<1>1. RefinanceInv /\ MoneyInv /\ [RefinanceNext]_allVars => Claim
  <2> SUFFICES ASSUME RefinanceInv, MoneyInv, [RefinanceNext]_allVars,
                      flash # None, flash' = None, NEW p \in Refinancers,
                      flash.saved.balance[p] > balance'[p]
               PROVE  \E spender \in Takers :
                        flash.saved.balance[p] - balance'[p] <= flash.saved.allowed[p][spender]
    OBVIOUS
  <2>1. CASE PayBack
    BY <2>1, PayBackByApproval
  <2>2. CASE Revert
    <3>1. balance' = flash.saved.balance /\ flash.saved.balance[p] \in Nat
      <4>1. flash.saved \in SavedType /\ p \in Accounts
        BY MoversSpared DEF MoneyInv, InProgress, FlashType
      <4> QED
        BY <2>2, <4>1 DEF Revert, SavedType
    <3> QED
      BY <3>1
  <2> QED
    BY <2>1, <2>2, TransactionEnds
<1>2. RefinanceSpec => [][Claim]_allVars
  BY <1>1, RefinanceInvTheorem, MoneyInvTheorem, PTL DEF RefinanceSpec
<1> QED
  BY <1>2 DEF SurplusLeavesByApproval

----------------------------------------------------------------------------
(* What the lenders elsewhere are paid. *)

Paid(due, has) ==
  /\ \A f \in ForeignLoans : due[f] <= f.due
  /\ \A lender \in ForeignLenders :
       AddsUpTo(Repaid(due, lender), has[lender] - Funds[lender])

\* A transaction may return to what it has saved, where they are paid as well.
PaidInv ==
  /\ NoFeesTo(ForeignLenders)
  /\ Paid(debt, balance)
  /\ flash # None => Paid(flash.saved.debt, flash.saved.balance)

LEMMA LenderAccounts ==
  /\ ForeignLenders \subseteq Accounts
  /\ ForeignLenders \cap (Wallets \cup {Vault}) = {}
  /\ ForeignLenders \cap Spared = {}
<1>1. \A lender \in ForeignLenders : lender \notin Spared /\ lender \in Accounts
  BY OwnAccounts DEF ForeignLenders
<1>2. \A lender \in ForeignLenders : lender \in Payees
  BY RefinanceAssumption DEF ForeignLenders
<1> QED
  BY <1>1, <1>2, PartiesAssumption DEF Spared

\* A repayment adds to what is repaid of one loan, and so to its lender's sum.
LEMMA RepaymentAddsUp ==
  ASSUME debt \in [ForeignLoans -> Nat], \A f \in ForeignLoans : f.due \in Nat,
         \A f \in ForeignLoans : debt[f] <= f.due,
         NEW foreign \in ForeignLoans, NEW paid \in Nat, paid <= debt[foreign],
         debt' = [debt EXCEPT ![foreign] = @ - paid],
         NEW lender, NEW sum \in Int, AddsUpTo(Repaid(debt, lender), sum)
  PROVE  AddsUpTo(Repaid(debt', lender), sum + Taken(lender, foreign.lender, paid))
<1> DEFINE D == {g \in ForeignLoans : g.lender = lender}
           p == Repaid(debt, lender)
           q == Repaid(debt', lender)
<1>1. p \in [D -> Nat] /\ p = [f \in D |-> f.due - debt[f]] /\ q = [f \in D |-> f.due - debt'[f]]
  BY DEF Repaid
<1>2. \A f \in ForeignLoans : debt'[f] = IF f = foreign THEN debt[f] - paid ELSE debt[f]
  OBVIOUS
<1>3. CASE lender = foreign.lender
  <2>1. foreign \in D
    BY <1>3
  <2>2. \A f \in D : q[f] = IF f = foreign THEN p[f] + paid ELSE p[f]
    BY <1>1, <1>2
  <2> HIDE DEF D, p, q
  <2>3. q = [p EXCEPT ![foreign] = @ + paid]
    BY <1>1, <2>1, <2>2
  <2>4. AddsUpTo(q, sum + paid)
    BY <1>1, <2>1, <2>3, AmountAdded DEF p
  <2> QED
    BY <1>3, <2>4 DEF q, Taken
<1>4. CASE lender # foreign.lender
  <2>1. foreign \notin D
    BY <1>4
  <2>2. \A f \in D : q[f] = p[f]
    BY <1>1, <1>2, <2>1
  <2> HIDE DEF D, p, q
  <2>3. q = p
    BY <1>1, <2>2
  <2> QED
    BY <1>4, <2>3 DEF p, q, Taken
<1> QED
  BY <1>3, <1>4

LEMMA OpensKeepsPaid ==
  ASSUME RefinanceInv, PaidInv, NEW msg \in Calls, NEW proxy \in Refinancers,
         NEW foreign \in ForeignLoans \cup {None}, NEW amount \in Nat, NEW paid \in Nat,
         Opens(msg, proxy, foreign, amount, paid)
  PROVE  PaidInv'
<1> DEFINE holder == HolderOf(msg, proxy)
           payer == PayerOf(proxy, foreign)
<1>1. /\ UNCHANGED <<loans, protocol>>
      /\ \A x \in Accounts : balance'[x]
           = balance[x] - Taken(x, FlashLender, amount) + Taken(x, holder, amount)
               - Taken(x, payer, paid) + ToLender(x, foreign, paid)
      /\ Repays(proxy, foreign, paid)
  BY DEF Opens, loanVars, adminVars
<1>2. /\ balance \in [Accounts -> Nat] /\ debt \in [ForeignLoans -> Nat]
      /\ Funds \in [Accounts -> Nat]
      /\ \A f \in ForeignLoans : f.due \in Nat /\ debt[f] <= f.due
  BY RefinanceAssumption, TermsAssumption, SoundNow DEF RefinanceInv, PaidInv, Paid
<1>3. holder \in Spared /\ payer \in Spared /\ FlashLender \in Spared
  BY PartiesToIt, MoversSpared
<1> HIDE DEF holder, payer
<1>4. \A lender \in ForeignLenders :
        /\ lender \in Accounts /\ lender \notin Spared
        /\ balance'[lender] = balance[lender] + ToLender(lender, foreign, paid)
  <2>1. \A lender \in ForeignLenders : lender \in Accounts /\ lender \notin Spared
    BY LenderAccounts
  <2>2. \A x : ToLender(x, foreign, paid) \in Nat
    BY DEF ToLender, Taken
  <2> QED
    BY <1>1, <1>2, <1>3, <2>1, <2>2 DEF Taken
<1>5. ASSUME NEW lender \in ForeignLenders
      PROVE  AddsUpTo(Repaid(debt', lender), balance'[lender] - Funds[lender])
  <2> DEFINE sum == balance[lender] - Funds[lender]
  <2>1. sum \in Int /\ AddsUpTo(Repaid(debt, lender), sum)
    BY <1>2, <1>4 DEF PaidInv, Paid
  <2>2. balance'[lender] - Funds[lender] = sum + ToLender(lender, foreign, paid)
    BY <1>2, <1>4 DEF ToLender, Taken
  <2> HIDE DEF sum
  <2>3. CASE foreign = None
    BY <1>1, <2>1, <2>2, <2>3 DEF Repays, ToLender
  <2>4. CASE foreign # None
    <3>1. /\ foreign \in ForeignLoans /\ paid <= debt[foreign]
          /\ debt' = [debt EXCEPT ![foreign] = @ - paid]
          /\ ToLender(lender, foreign, paid) = Taken(lender, foreign.lender, paid)
      BY <1>1, <2>4 DEF Repays, ToLender
    <3>2. AddsUpTo(Repaid(debt', lender), sum + Taken(lender, foreign.lender, paid))
      BY <1>2, <2>1, <3>1, RepaymentAddsUp
    <3> QED
      BY <2>2, <3>1, <3>2
  <2> QED
    BY <2>3, <2>4
<1>6. \A f \in ForeignLoans : debt'[f] <= f.due
  BY <1>1, <1>2 DEF Repays
<1>7. NoFeesTo(ForeignLenders)'
  BY <1>1 DEF PaidInv, NoFeesTo
<1>8. Paid(flash'.saved.debt, flash'.saved.balance)
  <2>1. flash'.saved.debt = debt /\ flash'.saved.balance = balance
    BY OpensFlash DEF Saved
  <2> QED
    BY <2>1 DEF PaidInv
<1> QED
  BY <1>5, <1>6, <1>7, <1>8 DEF PaidInv, Paid

\* A step that leaves the lenders elsewhere, and what is due to them, alone.
LEMMA LendersLeftAlone ==
  ASSUME PaidInv, NoFeesTo(ForeignLenders)', debt' = debt,
         \A lender \in ForeignLenders : balance'[lender] = balance[lender],
         flash' # None => flash # None /\ flash'.saved = flash.saved
  PROVE  PaidInv'
<1>1. Paid(debt', balance')
  BY DEF PaidInv, Paid
<1>2. flash' # None => Paid(flash'.saved.debt, flash'.saved.balance)
  BY DEF PaidInv
<1> QED
  BY <1>1, <1>2 DEF PaidInv

LEMMA CreateRefinancedLoanKeepsPaid ==
  ASSUME RefinanceInv, MoneyInv, PaidInv, NEW offer \in Offers, NEW nft \in Nfts,
         NEW d \in Delegates \cup {None}, NEW b \in BrokerTerms,
         CreateRefinancedLoan(offer, nft, d, b)
  PROVE  PaidInv'
<1> DEFINE msg == [sender |-> flash.proxy, origin |-> flash.msg.origin]
<1>1. /\ flash # None /\ flash \in FlashType /\ TypeOK /\ callbacks = <<>>
      /\ CreateLoan(msg, offer, nft, d, b)
      /\ flash' = [flash EXCEPT !.created = TRUE] /\ debt' = debt
      /\ NoFeesTo(ForeignLenders)
  BY DEF CreateRefinancedLoan, MoneyInv, InProgress, PaidInv, RefinanceInv, IInv
<1>2. flash'.saved = flash.saved
  BY <1>1 DEF FlashType
<1>3. msg \in Messages
  <2>1. flash.proxy \in Proxies /\ flash.msg.origin \in Wallets
    BY <1>1, RefinancersTyped DEF FlashType, Calls
  <2> QED
    BY <1>1, <2>1 DEF Messages
<1>4. UserCall(msg)
  BY <1>1 DEF UserCall
<1> HIDE DEF msg
<1>5. NoFeesTo(ForeignLenders)'
      /\ \A lender \in ForeignLenders : balance'[lender] = balance[lender]
  BY <1>1, <1>3, <1>4, LenderAccounts, UserCallLeaves
<1> QED
  BY <1>1, <1>2, <1>5, LendersLeftAlone

LEMMA PayBackKeepsPaid ==
  ASSUME RefinanceInv, MoneyInv, PaidInv, PayBack
  PROVE  PaidInv'
<1>1. /\ flash' = None /\ debt' = debt /\ UNCHANGED <<loans, protocol>>
      /\ SetFunds(Transfer(CurrentFunds, flash.msg.borrower, FlashLender, flash.amount))
  BY DEF PayBack, loanVars, adminVars
<1>2. /\ flash.msg.borrower \in Spared /\ FlashLender \in Spared /\ Spared \subseteq Accounts
      /\ flash.amount \in Nat
      /\ CurrentFunds \in FundsType /\ CurrentFunds.balance = balance
      /\ balance \in [Accounts -> Nat]
  BY CallTyped, SoundNow, MoversSpared DEF RefinanceInv, PayBack, Sound, Movers
<1>3. \A x \in Accounts : balance'[x] = balance[x] - Taken(x, flash.msg.borrower, flash.amount)
                                          + Taken(x, FlashLender, flash.amount)
  BY <1>1, <1>2, TransferBalances DEF SetFunds
<1>4. \A lender \in ForeignLenders : balance'[lender] = balance[lender]
  BY <1>2, <1>3, LenderAccounts DEF Taken
<1>5. NoFeesTo(ForeignLenders)'
  BY <1>1 DEF PaidInv, NoFeesTo
<1> QED
  BY <1>1, <1>4, <1>5, LendersLeftAlone

LEMMA TakeApprovedKeepsPaid ==
  ASSUME RefinanceInv, PaidInv, NEW proxy \in Refinancers, NEW spender \in Approvees,
         NEW amount \in 1..allowed[proxy][spender], TakeApproved(proxy, spender, amount)
  PROVE  PaidInv'
<1>1. /\ flash' = None /\ spender \in Wallets /\ UNCHANGED <<loans, protocol>> /\ debt' = debt
      /\ \A x \in Accounts : balance'[x]
           = balance[x] - Taken(x, proxy, amount) + Taken(x, spender, amount)
  BY TakeApprovedMoves DEF loanVars, adminVars
<1>2. proxy \in Spared /\ spender \in Spared /\ balance \in [Accounts -> Nat]
  BY <1>1, MoversSpared, SoundNow
<1>3. \A lender \in ForeignLenders : balance'[lender] = balance[lender]
  BY <1>1, <1>2, LenderAccounts DEF Taken
<1>4. NoFeesTo(ForeignLenders)'
  BY <1>1 DEF PaidInv, NoFeesTo
<1> QED
  BY <1>1, <1>3, <1>4, LendersLeftAlone

LEMMA RevertKeepsPaid ==
  ASSUME MoneyInv, PaidInv, Revert
  PROVE  PaidInv'
<1>1. Paid(debt', balance') /\ flash' = None
  BY DEF PaidInv, Revert
<1>2. NoFeesTo(ForeignLenders)'
  BY DEF PaidInv, MoneyInv, InProgress, NoFeesTo, Revert, adminVars
<1> QED
  BY <1>1, <1>2 DEF PaidInv

LEMMA OtherTransactionKeepsPaid ==
  ASSUME RefinanceInv, PaidInv, OtherTransaction
  PROVE  PaidInv'
<1>1. /\ TypeOK /\ callbacks = <<>> /\ flash' = None /\ debt' = debt
      /\ NoFeesTo(ForeignLenders)
  BY DEF RefinanceInv, PaidInv, OtherTransaction, refinanceVars, IInv
<1> DEFINE Left == /\ NoFeesTo(ForeignLenders)'
                   /\ \A lender \in ForeignLenders : balance'[lender] = balance[lender]
<1>2. ASSUME NEW w \in Wallets, UserCall(Direct(w))
      PROVE  Left
  <2>1. Direct(w) \in Messages
    BY <1>1 DEF Direct, Messages
  <2> QED
    BY <1>1, <1>2, <2>1, LenderAccounts, UserCallLeaves
<1>3. ASSUME EnvironmentStep
      PROVE  UNCHANGED <<loans, protocol, balance>>
  BY <1>3 DEF EnvironmentStep, Tick, SetBlacklisted, InstallLenderClaim, loanVars, adminVars,
     fundVars
<1>4. ASSUME NEW proxy, NEW value, SetProxyAuthorization(Deployer, proxy, value)
      PROVE  UNCHANGED <<loans, protocol, balance>>
  BY <1>4 DEF SetProxyAuthorization, NotAdministered, loanVars, fundVars
<1>5. ASSUME UNCHANGED <<loans, protocol, balance>>
      PROVE  Left
  BY <1>1, <1>5 DEF NoFeesTo
<1>6. Left
  <2> HIDE DEF Left
  <2> QED
    BY <1>2, <1>3, <1>4, <1>5 DEF OtherTransaction
<1> QED
  BY <1>1, <1>6, LendersLeftAlone

LEMMA RefinanceInitPaid == RefinanceInit => PaidInv
<1> SUFFICES ASSUME RefinanceInit PROVE PaidInv
  OBVIOUS
<1>1. /\ loans = {} /\ balance = Funds /\ flash = None /\ protocol \in Protocols
      /\ debt = [f \in ForeignLoans |-> f.due]
  BY DEF RefinanceInit, Init
<1>2. NoFeesTo(ForeignLenders)
  BY <1>1, AccountsAssumption DEF NoFeesTo, FeeRecipients
<1>3. ASSUME NEW lender \in ForeignLenders
      PROVE  AddsUpTo(Repaid(debt, lender), balance[lender] - Funds[lender])
  <2> DEFINE p == Repaid(debt, lender)
  <2>1. p = [f \in {g \in ForeignLoans : g.lender = lender} |-> f.due - f.due]
    BY <1>1 DEF Repaid
  <2>2. \A f \in DOMAIN p : 1..p[f] = {}
    BY <2>1, RefinanceAssumption
  <2> HIDE DEF p
  <2>3. Units(p) = {}
    BY <2>2 DEF Units
  <2>4. balance[lender] - Funds[lender] = 0
    BY <1>1, TermsAssumption, LenderAccounts
  <2> QED
    BY <2>3, <2>4, FS_EmptySet DEF AddsUpTo, p
<1>4. \A f \in ForeignLoans : debt[f] <= f.due
  BY <1>1, RefinanceAssumption
<1> QED
  BY <1>1, <1>2, <1>3, <1>4 DEF PaidInv, Paid

LEMMA RefinanceNextKeepsPaid ==
  RefinanceInv /\ MoneyInv /\ PaidInv /\ [RefinanceNext]_allVars => PaidInv'
<1> SUFFICES ASSUME RefinanceInv, MoneyInv, PaidInv, [RefinanceNext]_allVars PROVE PaidInv'
  OBVIOUS
<1>1. CASE Refinance
  BY <1>1, RefinanceOpens, OpensKeepsPaid
<1>2. ASSUME NEW offer \in Offers, NEW nft \in Nfts, NEW d \in Delegates \cup {None},
             NEW b \in BrokerTerms, CreateRefinancedLoan(offer, nft, d, b)
      PROVE  PaidInv'
  BY <1>2, CreateRefinancedLoanKeepsPaid
<1>3. CASE PayBack
  BY <1>3, PayBackKeepsPaid
<1>4. CASE Revert
  BY <1>4, RevertKeepsPaid
<1>5. CASE OtherTransaction
  BY <1>5, OtherTransactionKeepsPaid
<1>6. CASE UNCHANGED allVars
  <2>1. UNCHANGED <<debt, flash, balance, loans, protocol>>
    BY <1>6 DEF allVars, refinanceVars, vars, loanVars, adminVars, fundVars
  <2> QED
    BY <2>1 DEF PaidInv, Paid, NoFeesTo
<1>7. ASSUME NEW proxy \in Refinancers, NEW spender \in Approvees,
             NEW amount \in 1..allowed[proxy][spender], TakeApproved(proxy, spender, amount)
      PROVE  PaidInv'
  BY <1>7, TakeApprovedKeepsPaid
<1> QED
  BY <1>1, <1>2, <1>3, <1>4, <1>5, <1>6, <1>7 DEF RefinanceNext

\* Also while a transaction runs and when it is taken back, each lender elsewhere
\* has received exactly what is no longer due to it.
THEOREM ForeignLendersTheorem == RefinanceSpec => []ForeignLendersArePaid
<1>1. RefinanceSpec => []PaidInv
  BY RefinanceInitPaid, RefinanceNextKeepsPaid, RefinanceInvTheorem, MoneyInvTheorem, PTL
     DEF RefinanceSpec
<1>2. PaidInv => ForeignLendersArePaid
  BY DEF PaidInv, Paid, ForeignLendersArePaid
<1> QED
  BY <1>1, <1>2, PTL

----------------------------------------------------------------------------
(* A refinancing is one step. *)

\* Who has the NFTs between the repayment and the new loan.
Freed ==
  IF flash.foreign # None /\ debt[flash.foreign] = 0
    THEN [flash.saved.nft_owner EXCEPT ![flash.foreign.nft] = flash.foreign.borrower]
    ELSE flash.saved.nft_owner

\* One payment of one loan elsewhere, or none.
PaidOf(foreign, before, after) ==
  IF foreign = None THEN after = before
  ELSE /\ before[foreign] > 0
       /\ after[foreign] \in 0..before[foreign]
       /\ after = [before EXCEPT ![foreign] = after[foreign]]

\* What a transaction has done so far: one payment or none and, when it is created,
\* one loan, on an NFT that no loan from before it runs on.
MovedInv ==
  flash # None =>
    /\ PaidOf(flash.foreign, flash.saved.debt, debt)
    /\ ~flash.created => loans = flash.saved.loans /\ nft_owner = Freed
    /\ flash.created =>
         \E loan \in loans :
           /\ loans = flash.saved.loans \cup {loan}
           /\ \A l \in flash.saved.loans : l.collateral # loan.collateral
           /\ Freed[loan.collateral] = loan.borrower
           /\ nft_owner = [Freed EXCEPT ![loan.collateral] = Vault]
           /\ loan.maturity >= now

LEMMA OpensKeepsMoved ==
  ASSUME RefinanceInv, NEW msg \in Calls, NEW proxy \in Refinancers,
         NEW foreign \in ForeignLoans \cup {None}, NEW amount \in Nat, NEW paid \in Nat,
         Opens(msg, proxy, foreign, amount, paid)
  PROVE  /\ MovedInv'
         /\ flash = None /\ now' = now
         /\ flash' # None /\ flash'.saved = Saved
<1>1. UNCHANGED <<now, loans>> /\ Repays(proxy, foreign, paid)
  BY DEF Opens, loanVars
<1>2. /\ flash = None /\ flash' # None /\ ~flash'.created
      /\ flash'.foreign = foreign /\ flash'.saved = Saved
      /\ Saved.debt = debt /\ Saved.loans = loans /\ Saved.nft_owner = nft_owner
      /\ debt \in [ForeignLoans -> Nat]
  BY OpensFlash DEF Saved, RefinanceInv
<1>3. PaidOf(foreign, debt, debt') /\ nft_owner' = Freed'
  <2>1. CASE foreign = None
    BY <1>1, <1>2, <2>1 DEF Repays, PaidOf, Freed
  <2>2. CASE foreign # None
    <3>1. /\ foreign \in ForeignLoans
          /\ debt[foreign] > 0 /\ paid <= debt[foreign]
          /\ debt' = [debt EXCEPT ![foreign] = @ - paid]
          /\ nft_owner' = IF paid = debt[foreign]
                            THEN [nft_owner EXCEPT ![foreign.nft] = foreign.borrower]
                            ELSE nft_owner
      BY <1>1, <2>2 DEF Repays
    <3>2. debt'[foreign] = debt[foreign] - paid /\ debt[foreign] \in Nat
      BY <1>2, <3>1
    <3>3. /\ debt'[foreign] \in 0..debt[foreign]
          /\ debt' = [debt EXCEPT ![foreign] = debt'[foreign]]
          /\ debt'[foreign] = 0 <=> paid = debt[foreign]
      BY <1>2, <3>1, <3>2
    <3> QED
      BY <1>2, <2>2, <3>1, <3>3 DEF PaidOf, Freed
  <2> QED
    BY <2>1, <2>2
<1>4. MovedInv'
  BY <1>1, <1>2, <1>3 DEF MovedInv
<1> QED
  BY <1>1, <1>2, <1>4

LEMMA CreateRefinancedLoanKeepsMoved ==
  ASSUME RefinanceInv, RefinanceInv', MoneyInv, MovedInv, NEW offer \in Offers, NEW nft \in Nfts,
         NEW d \in Delegates \cup {None}, NEW b \in BrokerTerms,
         CreateRefinancedLoan(offer, nft, d, b)
  PROVE  /\ MovedInv'
         /\ flash # None /\ now' = now
         /\ flash' # None /\ flash'.saved = flash.saved
<1> DEFINE msg == [sender |-> flash.proxy, origin |-> flash.msg.origin]
           borrower == IF msg.sender \in authorized_proxies THEN msg.origin ELSE msg.sender
           loan == NewLoan(offer, borrower, nft, LoanFees(offer, b, protocol), d)
<1>1. /\ flash # None /\ ~flash.created /\ flash \in FlashType
      /\ CreateLoan(msg, offer, nft, d, b) /\ debt' = debt
      /\ flash' = [flash EXCEPT !.created = TRUE]
  BY DEF CreateRefinancedLoan, MoneyInv, InProgress
<1>2. /\ flash' \in FlashType /\ flash'.created
      /\ flash'.foreign = flash.foreign /\ flash'.saved = flash.saved
  BY <1>1 DEF FlashType
<1>3. Freed' = Freed
  BY <1>1, <1>2 DEF Freed
<1>4. /\ loan.collateral = nft /\ loan.borrower = borrower
      /\ loan.maturity = now + offer.duration
  BY DEF NewLoan
<1>5. /\ loans' = loans \cup {loan} /\ now' = now
      /\ nft_owner[nft] = borrower
      /\ nft_owner' = [nft_owner EXCEPT ![nft] = Vault]
  BY <1>1 DEF CreateLoan
<1> HIDE DEF loan, borrower
<1>6. /\ CustodyMatchesLoans /\ now \in Nat /\ offer.duration \in Nat /\ loan \in LoanType
  BY <1>5, OffersAssumption DEF RefinanceInv, IInv, TypeOK, LoansTyped
<1>7. borrower # Vault
  BY <1>4, <1>6, PartiesAssumption DEF LoanType
<1>8. \A l \in loans : l.collateral # loan.collateral
  BY <1>4, <1>5, <1>6, <1>7 DEF CustodyMatchesLoans, LoansOn
<1>9. /\ loans = flash.saved.loans /\ nft_owner = Freed
      /\ PaidOf(flash.foreign, flash.saved.debt, debt)
  BY <1>1 DEF MovedInv
<1>10. /\ loan \in loans' /\ loans' = flash'.saved.loans \cup {loan}
       /\ \A l \in flash'.saved.loans : l.collateral # loan.collateral
       /\ Freed'[loan.collateral] = loan.borrower
       /\ nft_owner' = [Freed' EXCEPT ![loan.collateral] = Vault]
       /\ loan.maturity >= now'
  BY <1>2, <1>3, <1>4, <1>5, <1>6, <1>8, <1>9
<1>11. MovedInv'
  BY <1>1, <1>2, <1>9, <1>10 DEF MovedInv
<1> QED
  BY <1>1, <1>2, <1>5, <1>11, NoneIsNoTransaction

LEMMA RefinanceNextKeepsMoved ==
  ASSUME RefinanceInv, RefinanceInv', MoneyInv, MovedInv, [RefinanceNext]_allVars
  PROVE  MovedInv'
<1>1. CASE Refinance
  BY <1>1, RefinanceOpens, OpensKeepsMoved
<1>2. ASSUME NEW offer \in Offers, NEW nft \in Nfts, NEW d \in Delegates \cup {None},
             NEW b \in BrokerTerms, CreateRefinancedLoan(offer, nft, d, b)
      PROVE  MovedInv'
  BY <1>2, CreateRefinancedLoanKeepsMoved
<1>3. CASE PayBack \/ Revert \/ OtherTransaction
  BY <1>3 DEF PayBack, Revert, OtherTransaction, refinanceVars, MovedInv
<1>5. ASSUME NEW proxy, NEW spender, NEW amount, TakeApproved(proxy, spender, amount)
      PROVE  MovedInv'
  BY <1>5 DEF TakeApproved, MovedInv
<1>4. CASE UNCHANGED allVars
  <2>1. UNCHANGED <<flash, debt, loans, nft_owner, now>>
    BY <1>4 DEF allVars, refinanceVars, vars, loanVars, custodyVars
  <2> QED
    BY <2>1 DEF MovedInv, Freed
<1> QED
  BY <1>1, <1>2, <1>3, <1>4, <1>5 DEF RefinanceNext

\* What a transaction has done, in every state of it.
THEOREM MovedInvTheorem == RefinanceSpec => []MovedInv
<1>1. RefinanceInit => MovedInv
  BY DEF RefinanceInit, MovedInv
<1>2. RefinanceInv /\ RefinanceInv' /\ MoneyInv /\ MovedInv /\ [RefinanceNext]_allVars
        => MovedInv'
  BY RefinanceNextKeepsMoved
<1> QED
  BY <1>1, <1>2, RefinanceInvTheorem, MoneyInvTheorem, PTL DEF RefinanceSpec

\* Where two loans do not share an NFT, the pledge on it is the loan that does.
Apart(S) == \A a, b \in S : a.collateral = b.collateral => a = b

LEMMA PledgeInPledged ==
  ASSUME NEW S, Apart(S), NEW loan \in S
  PROVE  PledgeIn(S, loan.collateral) = PledgeOf(loan)
<1>1. (CHOOSE l \in S : l.collateral = loan.collateral) = loan
  BY PledgeOfOnlyLoan DEF Apart
<1> QED
  BY <1>1 DEF PledgeIn, PledgeOf

\* One loan more, on an NFT of its own, is one pledge more.
LEMMA PledgeAdded ==
  ASSUME NEW S, Apart(S), NEW loan, loan.collateral \in Nfts,
         \A l \in S : l.collateral # loan.collateral
  PROVE  /\ PledgeIn(S, loan.collateral) = None
         /\ [nft \in Nfts |-> PledgeIn(S \cup {loan}, nft)]
              = [[nft \in Nfts |-> PledgeIn(S, nft)] EXCEPT ![loan.collateral] = PledgeOf(loan)]
<1> DEFINE T == S \cup {loan}
<1>1. Apart(T) /\ loan \in T
  BY DEF Apart
<1>2. \A l \in S : PledgeIn(T, l.collateral) = PledgeIn(S, l.collateral)
  BY <1>1, PledgeInPledged
<1>3. ASSUME NEW nft \in Nfts, nft # loan.collateral
      PROVE  PledgeIn(T, nft) = PledgeIn(S, nft)
  <2>1. CASE \E l \in S : l.collateral = nft
    BY <1>2, <2>1
  <2>2. CASE \A l \in S : l.collateral # nft
    BY <1>3, <2>2 DEF PledgeIn
  <2> QED
    BY <2>1, <2>2
<1>4. PledgeIn(T, loan.collateral) = PledgeOf(loan)
  BY <1>1, PledgeInPledged
<1> HIDE DEF T
<1>5. [nft \in Nfts |-> PledgeIn(T, nft)]
        = [[nft \in Nfts |-> PledgeIn(S, nft)] EXCEPT ![loan.collateral] = PledgeOf(loan)]
  BY <1>3, <1>4
<1>6. PledgeIn(S, loan.collateral) = None
  BY DEF PledgeIn
<1> QED
  BY <1>5, <1>6 DEF T

\* A transaction under way shows nothing new.
LEMMA NothingShown ==
  ASSUME now' = now, CommittedOwner' = CommittedOwner, CommittedDebt' = CommittedDebt,
         CommittedPledge' = CommittedPledge
  PROVE  UNCHANGED Moves!movesVars
  BY DEF Moves!movesVars, Moves!vars

LEMMA CommittedNow ==
  ASSUME flash = None
  PROVE  /\ CommittedOwner = nft_owner /\ CommittedDebt = debt /\ CommittedPledge = Pledged
         /\ CommittedPledge = [nft \in Nfts |-> PledgeIn(loans, nft)]
  BY DEF Committed, CommittedOwner, CommittedDebt, CommittedPledge, Saved, Pledged, PledgeOn

LEMMA CommittedNext ==
  ASSUME flash' = None
  PROVE  /\ CommittedOwner' = nft_owner' /\ CommittedDebt' = debt' /\ CommittedPledge' = Pledged'
         /\ CommittedPledge' = [nft \in Nfts |-> PledgeIn(loans', nft)]
  BY DEF Committed, CommittedOwner, CommittedDebt, CommittedPledge, Saved, Pledged, PledgeOn

LEMMA CommittedBefore ==
  ASSUME flash # None
  PROVE  /\ CommittedOwner = flash.saved.nft_owner /\ CommittedDebt = flash.saved.debt
         /\ CommittedPledge = [nft \in Nfts |-> PledgeIn(flash.saved.loans, nft)]
  BY DEF Committed, CommittedOwner, CommittedDebt, CommittedPledge

\* The last step of a refinancing shows all of it.
LEMMA PayBackShows ==
  ASSUME RefinanceInv, MoneyInv, MovedInv, PayBack
  PROVE  Moves!MovesNext
<1>1. /\ flash # None /\ flash.created /\ flash' = None
      /\ UNCHANGED <<now, loans, nft_owner, debt>>
  BY DEF PayBack, loanVars, custodyVars
<1> DEFINE s == flash.saved
           f == flash.foreign
<1>2. PICK loan \in loans :
        /\ PaidOf(f, s.debt, debt)
        /\ loans = s.loans \cup {loan}
        /\ \A l \in s.loans : l.collateral # loan.collateral
        /\ Freed[loan.collateral] = loan.borrower
        /\ nft_owner = [Freed EXCEPT ![loan.collateral] = Vault]
        /\ loan.maturity >= now
  BY <1>1 DEF MovedInv
<1>3. f \in ForeignLoans \cup {None} /\ loan \in LoanType /\ now \in Nat
  BY <1>1 DEF RefinanceInv, IInv, TypeOK, LoansTyped
<1>4. loan.collateral \in Nfts /\ PledgeOf(loan) \in Moves!Pledges
  BY <1>3 DEF LoanType, PledgeOf, Moves!Pledges
<1>5. Apart(s.loans)
  <2>1. \A a, b \in loans : a.collateral = b.collateral => a = b
    BY DEF RefinanceInv, IInv, TypeOK, LoansTyped, LoanType, CustodyMatchesLoans, LoansOn
  <2> QED
    BY <1>2, <2>1 DEF Apart
<1> DEFINE i == loan.collateral
           before == [nft \in Nfts |-> PledgeIn(s.loans, nft)]
<1>6. /\ CommittedOwner = s.nft_owner /\ CommittedDebt = s.debt /\ CommittedPledge = before
      /\ CommittedOwner' = nft_owner /\ CommittedDebt' = debt
      /\ CommittedPledge' = [nft \in Nfts |-> PledgeIn(loans, nft)]
  BY <1>1, CommittedBefore, CommittedNext
<1>7. /\ before[i] = None /\ CommittedPledge' = [before EXCEPT ![i] = PledgeOf(loan)]
  BY <1>2, <1>4, <1>5, <1>6, PledgeAdded
<1>8. CommittedPledge'[i] = PledgeOf(loan)
  BY <1>4, <1>7
<1> HIDE DEF before
<1>9. Moves!NewTerms(i)
  <2>1. PledgeOf(loan).maturity = loan.maturity
    BY DEF PledgeOf
  <2> QED
    BY <1>1, <1>2, <1>4, <1>6, <1>7, <1>8, <2>1 DEF Moves!NewTerms
<1>10. CommittedPledge[i] = None /\ CommittedPledge'[i].borrower = Freed[i]
  BY <1>2, <1>6, <1>7, <1>8 DEF PledgeOf
<1>11. CASE f # None
  <2>1. Moves!Pay(f)
    BY <1>2, <1>6, <1>11 DEF Moves!Pay, PaidOf
  <2>2. Moves!HolderOncePaid(f) = Freed
    BY <1>6, <1>11 DEF Moves!HolderOncePaid, Freed
  <2>3. CommittedOwner' = [Moves!HolderOncePaid(f) EXCEPT ![i] = Vault]
    BY <1>2, <1>6, <2>2
  <2>4. Moves!Refinance(f, i)
    BY <1>9, <1>10, <2>1, <2>2, <2>3 DEF Moves!Refinance
  <2> QED
    BY <1>3, <1>4, <1>11, <2>4 DEF Moves!MovesNext
<1>12. CASE f = None
  <2>1. Freed = CommittedOwner /\ CommittedDebt' = CommittedDebt
    BY <1>2, <1>6, <1>12 DEF Freed, PaidOf
  <2>2. CommittedOwner' = [CommittedOwner EXCEPT ![i] = Vault]
    BY <1>2, <1>6, <2>1
  <2>3. Moves!Pledge(i)
    BY <1>9, <1>10, <2>1, <2>2 DEF Moves!Pledge
  <2> QED
    BY <1>4, <2>1, <2>3 DEF Moves!MovesNext, Moves!Next
<1> QED
  BY <1>11, <1>12

\* Between refinancings the chain shows the steps of the contract.
LEMMA OtherTransactionShows ==
  ASSUME RefinanceInv, RefinanceInv', OtherTransaction
  PROVE  [Moves!MovesNext]_(Moves!movesVars)
<1>1. flash = None /\ flash' = None /\ debt' = debt
  BY DEF OtherTransaction, refinanceVars
<1>2. /\ CommittedOwner = nft_owner /\ CommittedPledge = Pledged
      /\ CommittedOwner' = nft_owner' /\ CommittedPledge' = Pledged'
      /\ CommittedDebt' = CommittedDebt
  BY <1>1, CommittedNow, CommittedNext
<1>3. [Custody!Next]_(Custody!vars)
  <2>1. [Next]_vars
    BY OtherTransactionIsLending DEF RefinanceInv
  <2> QED
    BY <2>1, StepImplements DEF RefinanceInv
<1>4. CASE UNCHANGED Custody!vars
  BY <1>2, <1>4, NothingShown DEF Custody!vars, Pledged
<1>5. CASE Custody!Next
  <2>1. ASSUME NEW i \in Nfts, Custody!NewTerms(i)
        PROVE  Moves!NewTerms(i)
    BY <1>2, <2>1 DEF Moves!NewTerms, Custody!NewTerms, Moves!Pledges, Custody!Pledges, Pledged
  <2>2. ASSUME NEW i \in Nfts, NEW party, Custody!Release(i, party)
        PROVE  Moves!Release(i, party)
    BY <1>2, <2>2 DEF Moves!Release, Custody!Release, Pledged
  <2>3. ASSUME NEW i \in Nfts, Custody!Pledge(i)
        PROVE  Moves!Next
    BY <1>2, <2>1, <2>3 DEF Moves!Next, Moves!Pledge, Custody!Pledge, Pledged
  <2>4. ASSUME NEW i \in Nfts, Custody!Redeem(i)
        PROVE  Moves!Next
    BY <1>2, <2>2, <2>4 DEF Moves!Next, Moves!Redeem, Custody!Redeem, Pledged
  <2>5. ASSUME NEW i \in Nfts, Custody!Forfeit(i)
        PROVE  Moves!Next
    BY <1>2, <2>2, <2>5 DEF Moves!Next, Moves!Forfeit, Custody!Forfeit, Pledged
  <2>6. ASSUME NEW i \in Nfts, Custody!Renew(i)
        PROVE  Moves!Next
    BY <1>2, <2>1, <2>6 DEF Moves!Next, Moves!Renew, Custody!Renew, Pledged
  <2>7. ASSUME Custody!Tick
        PROVE  Moves!Next
    BY <1>2, <2>7 DEF Moves!Next, Moves!Tick, Custody!Tick, Pledged
  <2>8. Moves!Next
    BY <1>5, <2>3, <2>4, <2>5, <2>6, <2>7 DEF Custody!Next
  <2> QED
    BY <1>2, <2>8 DEF Moves!MovesNext
<1> QED
  BY <1>3, <1>4, <1>5

LEMMA RefinanceStepShows ==
  ASSUME RefinanceInv, RefinanceInv', MoneyInv, MovedInv, [RefinanceNext]_allVars
  PROVE  [Moves!MovesNext]_(Moves!movesVars)
<1>1. ASSUME flash' # None, now' = now,
             \/ flash = None /\ flash'.saved = Saved
             \/ flash # None /\ flash'.saved = flash.saved
      PROVE  UNCHANGED Moves!movesVars
  <2>1. Committed' = Committed
    BY <1>1 DEF Committed
  <2> QED
    BY <1>1, <2>1, NothingShown DEF CommittedOwner, CommittedDebt, CommittedPledge
<1>2. CASE Refinance
  <2>1. flash = None /\ now' = now /\ flash' # None /\ flash'.saved = Saved
    BY <1>2, RefinanceOpens, OpensKeepsMoved
  <2> QED
    BY <1>1, <2>1
<1>3. ASSUME NEW offer \in Offers, NEW nft \in Nfts, NEW d \in Delegates \cup {None},
             NEW b \in BrokerTerms, CreateRefinancedLoan(offer, nft, d, b)
      PROVE  UNCHANGED Moves!movesVars
  BY <1>1, <1>3, CreateRefinancedLoanKeepsMoved
<1>4. CASE PayBack
  BY <1>4, PayBackShows
<1>5. CASE Revert
  <2>1. /\ flash # None /\ flash' = None /\ now' = now
        /\ nft_owner' = flash.saved.nft_owner /\ loans' = flash.saved.loans
        /\ debt' = flash.saved.debt
    BY <1>5 DEF Revert
  <2> QED
    BY <2>1, CommittedBefore, CommittedNext, NothingShown
<1>6. CASE OtherTransaction
  BY <1>6, OtherTransactionShows
<1>7. CASE UNCHANGED allVars
  <2>1. UNCHANGED <<flash, debt, loans, nft_owner, now>>
    BY <1>7 DEF allVars, refinanceVars, vars, loanVars, custodyVars
  <2>2. CASE flash = None
    BY <2>1, <2>2, CommittedNow, CommittedNext, NothingShown
  <2>3. CASE flash # None
    BY <1>1, <2>1, <2>3
  <2> QED
    BY <2>2, <2>3
<1>8. ASSUME NEW proxy, NEW spender, NEW amount, TakeApproved(proxy, spender, amount)
      PROVE  UNCHANGED Moves!movesVars
  <2>1. flash = None /\ flash' = None /\ UNCHANGED <<debt, loans, nft_owner, now>>
    BY <1>8 DEF TakeApproved, loanVars, custodyVars
  <2> QED
    BY <2>1, CommittedNow, CommittedNext, NothingShown
<1> QED
  BY <1>2, <1>3, <1>4, <1>5, <1>6, <1>7, <1>8 DEF RefinanceNext

LEMMA RefinanceInitShows == RefinanceInit => Moves!MovesInit
<1> SUFFICES ASSUME RefinanceInit PROVE Moves!MovesInit
  OBVIOUS
<1>1. /\ flash = None /\ loans = {} /\ nft_owner \in Holdings /\ now = 0
      /\ debt = [f \in ForeignLoans |-> f.due]
  BY DEF RefinanceInit, Init
<1>2. /\ CommittedOwner = nft_owner /\ CommittedDebt = debt
      /\ CommittedPledge = [nft \in Nfts |-> PledgeIn({}, nft)]
  BY <1>1, CommittedNow
<1>3. CommittedPledge = [nft \in Nfts |-> None]
  BY <1>2 DEF PledgeIn
<1> QED
  BY <1>1, <1>2, <1>3 DEF Moves!MovesInit, Moves!Init

\* The chain never shows a refinancing half done: each is one step that pays a
\* loan elsewhere, if it repays one, and pledges an NFT here, or nothing at all.
THEOREM RefinancingIsAtomicTheorem == RefinanceSpec => RefinancingIsAtomic
<1>1. RefinanceInv /\ RefinanceInv' /\ MoneyInv /\ MovedInv /\ [RefinanceNext]_allVars
        => [Moves!MovesNext]_(Moves!movesVars)
  BY RefinanceStepShows
<1> QED
  BY <1>1, RefinanceInitShows, RefinanceInvTheorem, MoneyInvTheorem, MovedInvTheorem, PTL
     DEF RefinanceSpec, RefinancingIsAtomic, Moves!MovesSpec
=============================================================================
