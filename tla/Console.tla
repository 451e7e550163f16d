------------------------------ MODULE Console ------------------------------
(***************************************************************************)
(* ape_console_extras.py: what a person does from the console with the     *)
(* lending contract, the Arcade proxy and the lending service.             *)
(*                                                                         *)
(* A function of the console is several transactions: it approves what the *)
(* last one will take, and sends that one later.  Functions run by several *)
(* wallets interleave, and any may stop in the middle, with its approvals  *)
(* left behind.  What the service tells of a loan may be out of date.      *)
(* Meanwhile anybody may have the Arcade proxy called back by the flash    *)
(* lender, with whichever borrower named.                                  *)
(*                                                                         *)
(* The module adds to RefinanceProxies what it leaves out: the allowances  *)
(* of the payment token and the approvals of ERC721 tokens.                *)
(***************************************************************************)
EXTENDS RefinanceProxies

CONSTANT Granted  \* what a wallet has approved for the lending contract before

ASSUME ConsoleAssumption ==
  /\ Granted \in [Wallets -> Nat]
  /\ CryptoPunks \notin {n.contract : n \in Nfts}
  /\ NoBroker \in BrokerTerms
  /\ \A w \in Wallets : OwnCall(w) \in Callers

VARIABLES
  allowance,  \* of the payment token, by wallet and spender
  approved,   \* NFTs that the lending contract may take
  operated,   \* pairs <<wallet, collection>> all of whose NFTs it may take
  kept,       \* the approvals there were when the transaction in progress began, or None
  posted,     \* offers the service has, with their signatures
  indexed,    \* loans as the service saw them last
  session     \* by wallet, the function that waits for its next transaction, or None

approvalVars == <<allowance, approved, operated>>
consentVars == <<approvalVars, kept>>
serviceVars == <<posted, indexed>>
consoleVars == <<consentVars, serviceVars, session>>

Spenders == {Vault, ArcadeProxy}

----------------------------------------------------------------------------
(* Approvals. *)

\* approve, which replaces what was there.
Approve(wallet, spender, amount) == allowance' = [allowance EXCEPT ![wallet][spender] = amount]

ApproveUpTo(wallet, spender, amount) ==
  IF allowance[wallet][spender] < amount THEN Approve(wallet, spender, amount)
                                         ELSE UNCHANGED allowance

\* The transfers of one call out of a wallet, by transferFrom.
Spend(wallet, spender, amount) ==
  /\ allowance[wallet][spender] >= amount
  /\ Approve(wallet, spender, allowance[wallet][spender] - amount)

\* The transfer of an NFT to the vault; it ends the approval of the token.
Take(wallet, nft) ==
  /\ nft \in approved \/ <<wallet, nft.contract>> \in operated
  /\ approved' = approved \ {nft}
  /\ UNCHANGED operated

----------------------------------------------------------------------------
(* Sessions. *)

CreateSession ==
  [kind : {"create"}, step : {1}, offer : Offers, nft : Nfts, broker : BrokerTerms]

PaySession == [kind : {"pay"}, step : {1}, loan : LoanType]

\* At step 4 its last transaction is in progress.
RefinanceSession ==
  [kind : {"refinance"}, step : 1..4, foreign : ForeignLoans, amount : FlashAmounts,
   offer : Offers]

Sessions == CreateSession \cup PaySession \cup RefinanceSession

ASSUME NoneIsNoSession == None \notin Sessions

Running(w, kind, step) ==
  session[w] # None /\ session[w].kind = kind /\ session[w].step = step

Ends(w) == session' = [session EXCEPT ![w] = None]

Chain == <<vars, refinanceVars>>

\* create_offer_draft and create_offer_backend: the service has the offer.
CreateOffer(w, offer) ==
  /\ flash = None /\ session[w] = None
  /\ offer.lender = w /\ offer \notin posted
  /\ posted' = posted \cup {offer}
  /\ UNCHANGED <<indexed, session, consentVars, Chain>>

\* revoke_offer.
RevokePosted(w, offer) ==
  /\ flash = None /\ session[w] = None
  /\ offer \in posted
  /\ RevokeOffer(Direct(w), offer)
  /\ UNCHANGED <<refinanceVars, consoleVars>>

\* create_loan: the NFT is approved in the contract the registry has now.
BeginLoan(w, offer, nft, broker) ==
  /\ flash = None /\ session[w] = None
  /\ offer \in posted
  /\ nft.contract = contracts[offer.collection_key_hash]
  /\ nft_owner[nft] = w
  /\ approved' = approved \cup {nft}
  /\ session' = [session EXCEPT ![w] = [kind |-> "create", step |-> 1, offer |-> offer,
                                        nft |-> nft, broker |-> broker]]
  /\ UNCHANGED <<allowance, operated, kept, serviceVars, Chain>>

CreateLoanStep(w) ==
  LET s == session[w]
  IN  /\ flash = None /\ Running(w, "create", 1)
      /\ CreateLoan(Direct(w), s.offer, s.nft, None, s.broker)
      /\ Spend(s.offer.lender, Vault, NewLenderPays(s.offer))
      /\ Take(w, s.nft)
      /\ Ends(w)
      /\ UNCHANGED <<kept, refinanceVars, serviceVars>>

\* The third term is the rate of the borrower's broker, not its fee.
ApprovedAmount(loan) ==
  loan.amount + loan.interest + loan.fees["BORROWER_BROKER_FEE"].interest_bps

\* pay_loan, for a loan as the service tells it.
BeginPayment(w, loan) ==
  /\ flash = None /\ session[w] = None
  /\ loan \in indexed
  /\ Approve(w, Vault, ApprovedAmount(loan))
  /\ session' = [session EXCEPT ![w] = [kind |-> "pay", step |-> 1, loan |-> loan]]
  /\ UNCHANGED <<approved, operated, kept, serviceVars, Chain>>

Due(loan) == Repayment(loan, SettlementInterest(loan, now))

PayLoanStep(w) ==
  LET loan == session[w].loan
  IN  /\ flash = None /\ Running(w, "pay", 1)
      /\ loan \in loans
      /\ SettleLoan(Direct(w), loan)
      /\ Spend(loan.borrower, Vault, Due(loan))
      /\ Ends(w)
      /\ UNCHANGED <<approved, operated, kept, refinanceVars, serviceVars>>

\* claim_loan_collateral.
ClaimLoanCollateral(w, loan) ==
  /\ flash = None /\ session[w] = None
  /\ loan \in indexed \cap loans
  /\ ClaimDefaultedLoanCollateral(Direct(w), loan)
  /\ UNCHANGED <<refinanceVars, consoleVars>>

----------------------------------------------------------------------------
(* arcade_refinance. *)

\* Its assertions, and the first approval, by the borrower for the proxy.
\* Called for anybody else the transaction fails at create_loan.
BeginRefinance(w, foreign, amount, offer) ==
  /\ flash = None /\ session[w] = None
  /\ foreign.proxy = ArcadeProxy /\ foreign.borrower = w
  /\ offer \in posted
  /\ amount >= foreign.due
  /\ offer.offer_type = "TOKEN" /\ offer.token_id = foreign.nft.id
  /\ balance[offer.lender] >= offer.principal
  /\ ApproveUpTo(w, ArcadeProxy, foreign.due)
  /\ session' = [session EXCEPT ![w] = [kind |-> "refinance", step |-> 1, foreign |-> foreign,
                                        amount |-> amount, offer |-> offer]]
  /\ UNCHANGED <<approved, operated, kept, serviceVars, Chain>>

NextRefinanceStep(w) == session' = [session EXCEPT ![w].step = @ + 1]

\* Mutant: the lender approves what the borrower repays.
ApprovePrincipalAsDue(w) ==
  /\ flash = None /\ Running(w, "refinance", 1)
  /\ ApproveUpTo(session[w].offer.lender, Vault, session[w].foreign.due)
  /\ NextRefinanceStep(w)
  /\ UNCHANGED <<approved, operated, kept, serviceVars, Chain>>

\* By the new lender, whose account the console has too.
ApprovePrincipal(w) ==
  /\ flash = None /\ Running(w, "refinance", 1)
  /\ ApproveUpTo(session[w].offer.lender, Vault, session[w].offer.principal)
  /\ NextRefinanceStep(w)
  /\ UNCHANGED <<approved, operated, kept, serviceVars, Chain>>

\* Of the collection only.
ApproveCollateral(w) ==
  /\ flash = None /\ Running(w, "refinance", 2)
  /\ operated' = operated \cup {<<w, session[w].foreign.nft.contract>>}
  /\ NextRefinanceStep(w)
  /\ UNCHANGED <<allowance, approved, kept, serviceVars, Chain>>

----------------------------------------------------------------------------
(* A transaction at the Arcade proxy, call by call: what it does to the    *)
(* approvals of wallets, which its reversal gives back.                    *)

Approvals == [allowance |-> allowance, approved |-> approved]

Begins == kept' = Approvals /\ UNCHANGED approvalVars

Lends(offer, nft, broker) ==
  /\ CreateRefinancedLoan(offer, nft, None, broker)
  /\ Spend(offer.lender, Vault, NewLenderPays(offer))
  /\ Take(flash.msg.origin, nft)
  /\ UNCHANGED kept

PaysBack ==
  LET payer == flash.msg.borrower
  IN  /\ PayBack
      /\ IF payer \in Wallets THEN Spend(payer, ArcadeProxy, flash.amount)
                              ELSE UNCHANGED allowance
      /\ kept' = None
      /\ UNCHANGED <<approved, operated>>

Reverts ==
  /\ Revert
  /\ allowance' = kept.allowance /\ approved' = kept.approved
  /\ kept' = None
  /\ UNCHANGED operated

\* The last transaction of arcade_refinance, which names the spender that the
\* repayment needs.
RefinanceStep(w) ==
  LET s == session[w]
  IN  /\ \/ /\ Running(w, "refinance", 3)
            /\ ArcadeRefinance(OwnCall(w), s.foreign, s.amount, Elsewhere)
            /\ Begins /\ NextRefinanceStep(w)
         \/ /\ Running(w, "refinance", 4)
            /\ Lends(s.offer, s.foreign.nft, NoBroker)
            /\ UNCHANGED session
         \/ /\ Running(w, "refinance", 4)
            /\ PaysBack \/ Reverts
            /\ Ends(w)
      /\ UNCHANGED serviceVars

\* Of no function: signed by anybody, for any terms that the service offers.
OfNoFunction == \A w \in Wallets : ~Running(w, "refinance", 4)

OtherRefinance ==
  /\ OfNoFunction
  /\ \/ /\ \E msg \in Callers, amount \in FlashAmounts, spender \in Approvees :
             \/ \E foreign \in ForeignLoans : ArcadeRefinance(msg, foreign, amount, spender)
             \/ RepayNothing(msg, ArcadeProxy, amount, spender)
        /\ Begins
     \/ \E offer \in posted, nft \in Nfts, broker \in BrokerTerms : Lends(offer, nft, broker)
     \/ PaysBack
     \/ Reverts
  /\ UNCHANGED <<session, serviceVars>>

----------------------------------------------------------------------------
\* A function raises, or its user stops it.
Stop(w) ==
  /\ flash = None /\ session[w] # None
  /\ Ends(w)
  /\ UNCHANGED <<consentVars, serviceVars, Chain>>

\* The service follows the chain, some time later.
Index ==
  /\ flash = None
  /\ indexed # loans /\ indexed' = loans
  /\ UNCHANGED <<posted, session, consentVars, Chain>>

Surroundings ==
  /\ flash = None
  /\ \/ Tick /\ UNCHANGED refinanceVars
     \/ /\ ~(ArcadeProxy \in authorized_proxies)
        /\ SetProxyAuthorization(Deployer, ArcadeProxy, TRUE)
        /\ UNCHANGED refinanceVars
     \/ \E spender \in Approvees :
          \E amount \in 1..allowed[ArcadeProxy][spender] :
            TakeApproved(ArcadeProxy, spender, amount)
  /\ UNCHANGED consoleVars

ConsoleInit ==
  /\ RefinanceInit
  /\ allowance = [w \in Wallets |-> [s \in Spenders |-> IF s = Vault THEN Granted[w] ELSE 0]]
  /\ approved = {} /\ operated = {} /\ kept = None
  /\ posted = {} /\ indexed = {}
  /\ session = [w \in Wallets |-> None]

SessionStep(w) ==
  \/ CreateLoanStep(w) \/ PayLoanStep(w)
  \/ ApprovePrincipal(w) \/ ApproveCollateral(w) \/ RefinanceStep(w)
  \/ Stop(w)
  \/ \E offer \in Offers :
       \/ CreateOffer(w, offer) \/ RevokePosted(w, offer)
       \/ \E nft \in Nfts, broker \in BrokerTerms : BeginLoan(w, offer, nft, broker)
       \/ \E foreign \in ForeignLoans, amount \in FlashAmounts :
            BeginRefinance(w, foreign, amount, offer)
  \/ \E loan \in indexed : BeginPayment(w, loan) \/ ClaimLoanCollateral(w, loan)

ConsoleNext == (\E w \in Wallets : SessionStep(w)) \/ OtherRefinance \/ Index \/ Surroundings

ConsoleSpec == ConsoleInit /\ [][ConsoleNext]_<<Chain, consoleVars>>

----------------------------------------------------------------------------
(* Properties. *)

\* What is due at the maturity, and before it no more than that.
MostDue(loan) == Repayment(loan, SettlementInterest(loan, loan.maturity))

\* What the session has had approved so far, for its last transaction to take.  A
\* loan that divides by zero cannot be paid.
Needs(w) ==
  LET s == session[w]
  IN  CASE s = None -> {}
        [] s # None /\ s.kind = "pay" ->
             IF s.loan.borrower = w /\ InterestDefined(s.loan)
               THEN {<<w, Vault, MostDue(s.loan)>>} ELSE {}
        [] s # None /\ s.kind = "refinance" /\ s.step < 4 ->
             {<<w, ArcadeProxy, s.amount>>}
               \cup (IF s.step > 1 THEN {<<s.offer.lender, Vault, NewLenderPays(s.offer)>>} ELSE {})
        [] OTHER -> {}

Covered(need) == allowance[need[1]][need[2]] >= need[3]

\* What the console does not approve: a broker's fee above its rate, a flash
\* loan above what is due, broker fees a lender pays beyond its principal.
Unapproved(w) ==
  LET s == session[w]
  IN  CASE s.kind = "pay" -> MostDue(s.loan) > ApprovedAmount(s.loan)
        [] OTHER -> s.amount > s.foreign.due \/ NewLenderPays(s.offer) > s.offer.principal

LentBy(w) == \E loan \in loans' \ loans : loan.lender = w

PaymentOf(w) == session'[w] # session[w] /\ (Running(w, "pay", 1) \/ Running(w, "pay", 1)')

\* A call of the proxy names the wallet as the borrower, who pays the flash loan.
NamedBy(w) == flash # None /\ flash.msg.borrower = w

\* What a function has had approved stays approved until it is taken, whatever the
\* others do meanwhile, but for three: the money is lent under an offer of that
\* wallet, it pays a flash loan that names it as the borrower, whoever called, or
\* the wallet begins a payment, which replaces the approval, or makes it, which
\* takes from the same one.
ApprovalsHold ==
  [][\A w \in Wallets :
       \A need \in Needs(w)' :
         \/ Covered(need)'
         \/ Unapproved(w)'
         \/ need \in Needs(w) /\ ~Covered(need)
         \/ LentBy(need[1])
         \/ need[2] = ArcadeProxy /\ NamedBy(need[1])
         \/ need[1] # w /\ PaymentOf(need[1])]_<<Chain, consoleVars>>

\* The state a transaction began in.
Before ==
  IF flash = None THEN [balance |-> balance, nft_owner |-> nft_owner, loans |-> loans]
                  ELSE flash.saved

\* An approval left behind may be used by others, but does not go further than what
\* was approved: in a transaction a wallet loses money only when a loan is made
\* under its offer, to the payment it makes, or to a flash loan that names it and
\* then no more than it had approved for the proxy before; and an NFT only to a
\* loan it takes.
WalletsLoseOnlyByConsent ==
  [][flash' = None =>
       \A w \in Wallets :
         /\ balance'[w] < Before.balance[w] =>
              \/ \E loan \in loans' \ Before.loans : loan.lender = w
              \/ Running(w, "pay", 1)
              \/ /\ NamedBy(w)
                 /\ Before.balance[w] - balance'[w] <= kept.allowance[w][ArcadeProxy]
         /\ \A nft \in Nfts : Before.nft_owner[nft] = w /\ nft_owner'[nft] # w =>
              \E loan \in loans' \ Before.loans : loan.borrower = w]_<<Chain, consoleVars>>

\* tests/unit/p2p_nfts/test_p2p_nfts_settle.py approves amount_to_settle,
\* which is loan.amount + interest + borrower_broker_fee.
ConsolePaysLoan ==
  \A w \in Wallets : \A need \in Needs(w) : Running(w, "pay", 1) => Covered(need)
=============================================================================
