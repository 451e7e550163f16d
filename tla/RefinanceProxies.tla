-------------------------- MODULE RefinanceProxies --------------------------
(***************************************************************************)
(* NftfiProxy.vy, ArcadeProxy.vy, BendDAOProxy.vy and GondiProxy.vy: a     *)
(* borrower moves a loan of another protocol to this one in a single       *)
(* transaction.  The proxy takes a flash loan, repays the other protocol,  *)
(* which frees the collateral, creates a loan for the borrower with it,    *)
(* and has the borrower pay the flash loan back.                           *)
(*                                                                         *)
(* The flash lender is open: a transaction may also call flashLoan itself, *)
(* and give the proxy the data that refinance_loan would.  Nothing in it   *)
(* has to agree: the borrower it names, who pays the flash loan back, the  *)
(* spender the proxy approves and the contract it calls to repay.          *)
(*                                                                         *)
(* The transaction is modelled call by call around P2PLendingNfts.  Until  *)
(* it ends nothing else happens, and a call that fails, or runs out of     *)
(* gas, takes back all of it (Revert).  create_loan lends to tx.origin.    *)
(*                                                                         *)
(* The other protocols are as the proxies use them: a loan has a lender, a *)
(* collateral that returns to its borrower, and an amount due.             *)
(***************************************************************************)
EXTENDS P2PLendingNfts

CONSTANTS
  NftfiProxy, ArcadeProxy, BendDAOProxy, GondiProxy,
  FlashLender,
  Elsewhere,     \* the other protocols: it keeps their collateral, takes repayments
  ForeignLoans,  \* their loans, records [proxy, borrower, lender, nft, due]
  Callers,       \* calls, records [origin, borrower]
  Approvees,     \* spenders that callers have a proxy approve
  FlashAmounts   \* amounts asked of the flash lender

Refinancers == {NftfiProxy, ArcadeProxy, BendDAOProxy, GondiProxy}

\* Who signed the transaction, and callback_data.borrower: refinance_loan names
\* its caller, a wallet of the signer's or a contract wallet.
Calls == [origin : Wallets, borrower : Wallets \cup Refinancers]

OwnCall(wallet) == [origin |-> wallet, borrower |-> wallet]

ASSUME RefinanceAssumption ==
  /\ Refinancers \subseteq Proxies \cap Payees
  /\ Cardinality(Refinancers) = 4
  /\ {FlashLender, Elsewhere} \subseteq Payees \ (Proxies \cup Wallets)
  /\ Receivers = {}
  /\ Callers \subseteq Calls
  /\ Approvees \subseteq Accounts /\ Elsewhere \in Approvees
  /\ FlashAmounts \subseteq Nat
  /\ \A f \in ForeignLoans :
       /\ f.proxy \in Refinancers
       /\ f.borrower \in Wallets /\ f.lender \in Payees \ Refinancers
       /\ f.due \in Nat \ {0}
       /\ f.nft \in Nfts /\ \A g \in ForeignLoans : g.nft = f.nft => g = f
       /\ \A h \in Holdings : h[f.nft] = Elsewhere

\* Offers, borrowers and admins name who is paid fees.
FeeRecipients ==
  {o.broker_address : o \in Offers} \cup {b.wallet : b \in BrokerTerms}
    \cup {p.wallet : p \in Protocols}

ForeignLenders == {f.lender : f \in ForeignLoans}

\* Nobody names a wallet, a proxy, the flash lender or a lender elsewhere as the
\* recipient of a fee, and wallets are not paid by the other protocols.
ASSUME AccountsAssumption ==
  /\ (Wallets \cup Refinancers \cup {FlashLender} \cup ForeignLenders) \cap FeeRecipients = {}
  /\ Wallets \cap Refinancers = {}
  /\ ForeignLenders \cap (Wallets \cup {FlashLender}) = {}

AllowedType == [Refinancers -> [Approvees -> Nat]]

SavedType ==
  [balance : [Accounts -> Nat], nft_owner : [Nfts -> Keepers \cup {Vault}],
   loans : SUBSET LoanType, debt : [ForeignLoans -> Nat], offer_count : [TracingIds -> Nat],
   revoked_offers : SUBSET {o.id : o \in Offers}, delegations : SUBSET (Delegates \X Nfts),
   allowed : AllowedType]

FlashType ==
  [msg : Calls, proxy : Refinancers, foreign : ForeignLoans \cup {None}, amount : Nat,
   paid : Nat, created : BOOLEAN, saved : SavedType]

ASSUME NoneIsNoTransaction == None \notin FlashType \cup ForeignLoans

VARIABLES
  debt,     \* what is still due of each foreign loan, zero once it has ended
  allowed,  \* what a proxy has approved, by spender
  flash     \* the transaction in progress, or None

refinanceVars == <<debt, allowed, flash>>
allVars == <<vars, refinanceVars>>

\* What the transaction has changed so far, and gets back when it reverts.
Saved ==
  [balance |-> balance, nft_owner |-> nft_owner, loans |-> loans, debt |-> debt,
   offer_count |-> offer_count, revoked_offers |-> revoked_offers,
   delegations |-> delegations, allowed |-> allowed]

----------------------------------------------------------------------------
(* flashLoan, called by refinance_loan or by anybody, and the first part   *)
(* of receiveFlashLoan, which has the other protocol repaid.               *)

\* The proxy has the amount.
Lent(proxy, amount) == Transfer(CurrentFunds, FlashLender, proxy, amount)

Begin(msg, proxy, foreign, amount, paid) ==
  /\ flash = None /\ callbacks = <<>>
  /\ CanTransfer(CurrentFunds, FlashLender, proxy, amount)
  /\ flash' = [msg |-> msg, proxy |-> proxy, foreign |-> foreign, amount |-> amount,
               paid |-> paid, created |-> FALSE, saved |-> Saved]
  /\ UNCHANGED <<now, loanVars, adminVars, blacklisted, delegations, callbacks, refusing,
                 controlVars>>

\* Mutant: the collateral comes back for any payment.
SettleForgiving(foreign, funds, payer, paid) ==
  /\ debt[foreign] > 0
  /\ CanTransfer(funds, payer, foreign.lender, paid)
  /\ SetFunds(Transfer(funds, payer, foreign.lender, paid))
  /\ debt' = [debt EXCEPT ![foreign] = @ - paid]
  /\ nft_owner' = [nft_owner EXCEPT ![foreign.nft] = foreign.borrower]

\* Mutant: any payment ends the loan.
SettleClosing(foreign, funds, payer, paid) ==
  /\ debt[foreign] > 0
  /\ CanTransfer(funds, payer, foreign.lender, paid)
  /\ SetFunds(Transfer(funds, payer, foreign.lender, paid))
  /\ debt' = [debt EXCEPT ![foreign] = 0]
  /\ nft_owner' = IF paid = debt[foreign]
                    THEN [nft_owner EXCEPT ![foreign.nft] = foreign.borrower]
                    ELSE nft_owner

\* With `funds` after the flash loan, `payer` pays the other protocol, which
\* gives the collateral back once nothing is due any more.
Settle(foreign, funds, payer, paid) ==
  /\ debt[foreign] > 0
  /\ CanTransfer(funds, payer, foreign.lender, paid)
  /\ SetFunds(Transfer(funds, payer, foreign.lender, paid))
  /\ debt' = [debt EXCEPT ![foreign] = @ - paid]
  /\ nft_owner' = IF paid = debt[foreign]
                    THEN [nft_owner EXCEPT ![foreign.nft] = foreign.borrower]
                    ELSE nft_owner

\* Mutant: the proxy approves all it has by now.
ApprovingAll(proxy, spender, amount) ==
  [allowed EXCEPT ![proxy][spender] = balance[proxy] + amount]

\* approve replaces what was approved before.
Approving(proxy, spender, amount) == [allowed EXCEPT ![proxy][spender] = amount]

\* The proxy approves the spender it is told to, and the other protocol takes what
\* it takes by what the proxy has approved for it, now or before.
RepayApproved(msg, foreign, amount, spender, paid) ==
  LET proxy == foreign.proxy
      given == Approving(proxy, spender, amount)
  IN  /\ Begin(msg, proxy, foreign, amount, paid)
      /\ paid <= given[proxy][Elsewhere]
      /\ Settle(foreign, Lent(proxy, amount), proxy, paid)
      /\ allowed' = [given EXCEPT ![proxy][Elsewhere] = @ - paid]

NftfiRefinance(msg, foreign, amount, spender) ==
  foreign.proxy = NftfiProxy /\ RepayApproved(msg, foreign, amount, spender, debt[foreign])

ArcadeRefinance(msg, foreign, amount, spender) ==
  foreign.proxy = ArcadeProxy /\ RepayApproved(msg, foreign, amount, spender, debt[foreign])

\* repay takes what it is told to, up to what is due: it may leave the loan.
BendDAORefinance(msg, foreign, amount, spender) ==
  /\ foreign.proxy = BendDAOProxy
  /\ RepayApproved(msg, foreign, amount, spender,
                   IF amount < debt[foreign] THEN amount ELSE debt[foreign])

\* The borrower the call names is given the amount.  The borrower of the loan
\* elsewhere repays it, by its own approval and signature.
GondiRefinance(msg, foreign, amount) ==
  LET lent == Lent(GondiProxy, amount)
  IN  /\ foreign.proxy = GondiProxy
      /\ Begin(msg, GondiProxy, foreign, amount, debt[foreign])
      /\ CanTransfer(lent, GondiProxy, msg.borrower, amount)
      /\ Settle(foreign, Transfer(lent, GondiProxy, msg.borrower, amount),
                foreign.borrower, debt[foreign])
      /\ UNCHANGED allowed

\* The contract to repay is another one, and takes nothing.
RepayNothing(msg, proxy, amount, spender) ==
  LET lent == Lent(proxy, amount)
  IN  /\ Begin(msg, proxy, None, amount, 0)
      /\ IF proxy = GondiProxy
           THEN /\ CanTransfer(lent, proxy, msg.borrower, amount)
                /\ SetFunds(Transfer(lent, proxy, msg.borrower, amount))
                /\ UNCHANGED allowed
           ELSE SetFunds(lent) /\ allowed' = Approving(proxy, spender, amount)
      /\ UNCHANGED <<debt, nft_owner>>

----------------------------------------------------------------------------
(* The second part of receiveFlashLoan. *)

\* Two proxies relate the token they repaid for to the one they borrow on:
\* BendDAO's uses one id for both, Gondi's wants the token with the borrower named,
\* in the collection it repaid for.
TokenAccepted(id) ==
  LET foreign == flash.foreign
      nft == [contract |-> foreign.nft.contract, id |-> id]
  IN  CASE foreign # None /\ flash.proxy = BendDAOProxy -> id = foreign.nft.id
        [] foreign # None /\ flash.proxy = GondiProxy ->
             nft \in Nfts /\ nft_owner[nft] = flash.msg.borrower
        [] OTHER -> TRUE

\* _create_loan: the proxy calls create_loan, which lends to tx.origin.
\* The terms are given to the proxy and play no part before.
CreateRefinancedLoan(offer, nft, delegate, broker) ==
  /\ flash # None /\ ~flash.created
  /\ TokenAccepted(nft.id)
  /\ CreateLoan([sender |-> flash.proxy, origin |-> flash.msg.origin],
                offer, nft, delegate, broker)
  /\ flash' = [flash EXCEPT !.created = TRUE]
  /\ UNCHANGED <<debt, allowed>>

\* Mutant: the borrower pays back what was due.
PayBackDue ==
  /\ flash # None /\ flash.created
  /\ CanTransfer(CurrentFunds, flash.msg.borrower, FlashLender, flash.paid)
  /\ SetFunds(Transfer(CurrentFunds, flash.msg.borrower, FlashLender, flash.paid))
  /\ flash' = None
  /\ UNCHANGED <<now, loanVars, adminVars, blacklisted, custodyVars, controlVars,
                 debt, allowed>>

\* Mutant: tx.origin pays back, which the loan was made to.
PayBackByOrigin ==
  /\ flash # None /\ flash.created
  /\ CanTransfer(CurrentFunds, flash.msg.origin, FlashLender, flash.amount)
  /\ SetFunds(Transfer(CurrentFunds, flash.msg.origin, FlashLender, flash.amount))
  /\ flash' = None
  /\ UNCHANGED <<now, loanVars, adminVars, blacklisted, custodyVars, controlVars,
                 debt, allowed>>

\* The borrower the call names pays the flash loan back, as far as it has approved
\* the proxy: wallets are taken to have.  A proxy approves only what a caller tells
\* one to.  The flash lender checks that it has its money again.
PayBack ==
  LET payer == flash.msg.borrower
      repaid == Transfer(CurrentFunds, payer, FlashLender, flash.amount)
  IN  /\ flash # None /\ flash.created
      /\ CanTransfer(CurrentFunds, payer, FlashLender, flash.amount)
      /\ repaid.balance[FlashLender] >= flash.saved.balance[FlashLender]
      /\ SetFunds(repaid)
      /\ IF payer \in Refinancers /\ flash.amount > 0
           THEN /\ flash.proxy \in Approvees
                /\ allowed[payer][flash.proxy] >= flash.amount
                /\ allowed' = [allowed EXCEPT ![payer][flash.proxy] = @ - flash.amount]
           ELSE UNCHANGED allowed
      /\ flash' = None
      /\ UNCHANGED <<now, loanVars, adminVars, blacklisted, custodyVars, controlVars, debt>>

Revert ==
  /\ flash # None
  /\ balance' = flash.saved.balance
  /\ nft_owner' = flash.saved.nft_owner
  /\ loans' = flash.saved.loans
  /\ debt' = flash.saved.debt
  /\ offer_count' = flash.saved.offer_count
  /\ revoked_offers' = flash.saved.revoked_offers
  /\ delegations' = flash.saved.delegations
  /\ allowed' = flash.saved.allowed
  /\ flash' = None
  /\ UNCHANGED <<now, adminVars, pending_transfers, owed, blacklisted, callbacks, refusing,
                 controlVars, claimed>>

\* A wallet a proxy has approved uses it, in a transaction of its own.
TakeApproved(proxy, spender, amount) ==
  /\ flash = None /\ callbacks = <<>>
  /\ spender \in Wallets /\ amount <= allowed[proxy][spender]
  /\ CanTransfer(CurrentFunds, proxy, spender, amount)
  /\ SetFunds(Transfer(CurrentFunds, proxy, spender, amount))
  /\ allowed' = [allowed EXCEPT ![proxy][spender] = @ - amount]
  /\ UNCHANGED <<now, loanVars, adminVars, blacklisted, custodyVars, controlVars, debt, flash>>

----------------------------------------------------------------------------
RefinanceInit ==
  /\ Init
  /\ debt = [f \in ForeignLoans |-> f.due]
  /\ allowed = [p \in Refinancers |-> [a \in Approvees |-> 0]]
  /\ flash = None

Refinance ==
  \E msg \in Callers, amount \in FlashAmounts, spender \in Approvees :
    \/ \E foreign \in ForeignLoans :
         \/ NftfiRefinance(msg, foreign, amount, spender)
         \/ ArcadeRefinance(msg, foreign, amount, spender)
         \/ BendDAORefinance(msg, foreign, amount, spender)
         \/ GondiRefinance(msg, foreign, amount)
    \/ \E proxy \in Refinancers : RepayNothing(msg, proxy, amount, spender)

\* Between refinancings wallets use the contract directly: these proxies have
\* no other function.
OtherTransaction ==
  /\ flash = None
  /\ \/ \E w \in Wallets : UserCall(Direct(w))
     \/ EnvironmentStep
     \/ \E proxy \in Refinancers, value \in BOOLEAN :
          SetProxyAuthorization(Deployer, proxy, value)
  /\ UNCHANGED refinanceVars

RefinanceNext ==
  \/ Refinance
  \/ \E offer \in Offers, nft \in Nfts, d \in Delegates \cup {None}, b \in BrokerTerms :
       CreateRefinancedLoan(offer, nft, d, b)
  \/ PayBack
  \/ Revert
  \/ \E proxy \in Refinancers, spender \in Approvees :
       \E amount \in 1..allowed[proxy][spender] : TakeApproved(proxy, spender, amount)
  \/ OtherTransaction

RefinanceSpec == RefinanceInit /\ [][RefinanceNext]_allVars

----------------------------------------------------------------------------
(* Properties. *)

Between == flash = None

\* The flash lender loses nothing, and gains nothing: there is no fee.
FlashLenderIsRepaid == Between => balance[FlashLender] = Funds[FlashLender]

\* What was repaid of the loans of one lender elsewhere.
Repaid(due, lender) ==
  [f \in {g \in ForeignLoans : g.lender = lender} |-> f.due - due[f]]

\* The lenders elsewhere have all that is no longer due to them, and no more, in
\* every state of a transaction and after any number of them.
ForeignLendersArePaid ==
  \A lender \in ForeignLenders :
    AddsUpTo(Repaid(debt, lender), balance[lender] - Funds[lender])

\* An NFT backs one loan at a time, here or elsewhere, all through the
\* transaction: the other protocol gives it back only when it is paid in full.
PledgedOnce ==
  /\ CustodyMatchesLoans
  /\ \A foreign \in ForeignLoans :
       debt[foreign] > 0 <=> nft_owner[foreign.nft] = Elsewhere

\* The loan elsewhere is paid for by its proxy, or at Gondi by its borrower.
Payer ==
  IF flash.proxy = GondiProxy /\ flash.foreign # None THEN flash.foreign.borrower ELSE flash.proxy

Holder == IF flash.proxy = GondiProxy THEN flash.msg.borrower ELSE flash.proxy

Part(is, amount) == IF is THEN amount ELSE 0

\* What a new loan brings its borrower.
Brought(loan) ==
  loan.amount + loan.fees["LENDER_BROKER_FEE"].upfront_amount - TotalUpfrontFees(loan.fees)

\* A refinancing gives tx.origin, and nobody else, a new loan, and moves money so:
\* tx.origin has what the loan brings, the flash loan goes to the proxy, or to the
\* borrower named to Gondi's, one of them or Gondi's borrower pays what is repaid
\* elsewhere, and the borrower named pays the flash loan back, whoever called.
\* Proxies included, nobody else but the lender of the new loan gains or loses.
RefinanceCostsTheDifference ==
  [][flash # None /\ flash' = None /\ loans' # flash.saved.loans =>
       \E loan \in loans' \ flash.saved.loans :
         /\ loans' = flash.saved.loans \cup {loan}
         /\ loan.borrower = flash.msg.origin
         /\ \A a \in (Wallets \cup Refinancers) \ {loan.lender} :
              balance'[a] = flash.saved.balance[a] + Part(a = loan.borrower, Brought(loan))
                + Part(a = Holder, flash.amount) - Part(a = Payer, flash.paid)
                - Part(a = flash.msg.borrower, flash.amount)]_allVars

\* By whose allowance a proxy pays in the transaction: what is repaid elsewhere,
\* and the flash loan when it is named to pay it back.
Takers == {Elsewhere, flash.proxy} \cap Approvees

\* What callers borrowed beyond what was due stays at the proxy, and so do the
\* approvals.  A transaction takes from it no more than the proxy had approved for
\* one of the takers before, neither by what it has the proxy approve nor by what
\* was approved for others.
SurplusLeavesByApproval ==
  [][flash # None /\ flash' = None =>
       \A p \in Refinancers :
         flash.saved.balance[p] > balance'[p] =>
           \E spender \in Takers :
             flash.saved.balance[p] - balance'[p] <= flash.saved.allowed[p][spender]]_allVars

----------------------------------------------------------------------------
(* The chain shows a refinancing when it is over: until then it is as it   *)
(* was before.  What it shows is what CollateralMoves promises.            *)

Committed == IF flash = None THEN Saved ELSE flash.saved
CommittedOwner == Committed.nft_owner
CommittedPledge == [nft \in Nfts |-> PledgeIn(Committed.loans, nft)]
CommittedDebt == Committed.debt

Moves == INSTANCE CollateralMoves
  WITH Items <- Nfts, Parties <- Wallets, House <- Vault, Unpledged <- None,
       InitialHolders <- Holdings, Debts <- ForeignLoans,
       holder <- CommittedOwner, pledge <- CommittedPledge, due <- CommittedDebt

\* A refinancing is one step: a loan elsewhere is paid, gives its collateral back
\* if nothing is due any more, and one NFT of the new borrower is pledged for a new
\* loan.  One that repays nothing is a loan and no more; one that reverts is no
\* step, whatever call of it fails.
RefinancingIsAtomic == Moves!MovesSpec
=============================================================================
