--------------------------- MODULE P2PLendingNfts ---------------------------
(***************************************************************************)
(* P2PLendingNfts.vy: peer to peer loans of one payment token against NFTs *)
(* that the contract keeps while a loan runs.                              *)
(*                                                                         *)
(* One action per external function, each a whole transaction.  A call     *)
(* whose checks fail reverts, which is no step at all.  The one place      *)
(* where a call hands control to a party in the middle is the receiver     *)
(* callback of an ERC721 transfer: the call is then split in two steps,    *)
(* and `callbacks` is the stack of calls that wait for theirs to return.   *)
(*                                                                         *)
(* The contracts around it are modelled as the code sees them: the payment *)
(* token with its blacklist, the owners of the NFTs, the delegation        *)
(* registry, and the collection registry P2PLendingControl.                *)
(***************************************************************************)
EXTENDS LoanMath, FiniteSets, Sequences

CONSTANTS
  Wallets,        \* borrowers and lenders
  Receivers,      \* the wallets with code that runs when they receive an ERC721
  Refusing,       \* the wallets with code that at first receives no ERC721
  Payees,         \* other accounts: brokers, protocol wallets, other protocols
  Vault,          \* the contract itself
  Proxies,        \* contracts that may be authorized to act for a wallet
  Admins,         \* accounts that may own the contracts
  Deployer,       \* the first owner
  Nfts,           \* collateral tokens, records [contract, id]
  CryptoPunks,    \* the contract whose tokens are no ERC721 and call nobody back
  Delegates,
  Offers,         \* the signed offers, `id` standing for the signature
  BrokerTerms,    \* fees a borrower may ask for its broker
  Protocols,      \* protocol fees [upfront, settlement, wallet] an admin may set
  FeeCaps,        \* immutable maxima [upfront, settlement, lender_broker, borrower_broker]
  CollectionKeys, Contracts, TraitRoots, EmptyRoot, \* see P2PLendingControl
  Listing, Roots, \* what the registry holds once it is set up
  Holdings,       \* who may own the NFTs at first, a set of functions
  Funds,          \* initial balances of the payment token
  Blacklistable,  \* accounts the payment token may refuse
  MaxTime,        \* bound of block.timestamp
  MaxCallDepth,   \* bound of the nesting of receiver callbacks
  None

Accounts == Wallets \cup Payees \cup {Vault}

\* Where an NFT may be outside the vault; proxies keep none.
Keepers == Wallets \cup (Payees \ Proxies)

TracingIds == {o.tracing_id : o \in Offers}

OfferTypes == {"TOKEN", "COLLECTION", "TRAIT"}

FeeTerms == [upfront_amount : Nat, interest_bps : Nat, wallet : Wallets \cup Payees \cup {None}]

\* As kept in a loan: without a recipient there is nothing to pay.
FeeType ==
  {fee \in FeeTerms : fee.wallet = None => fee.upfront_amount = 0 /\ fee.interest_bps = 0}

ASSUME OffersAssumption ==
  /\ \A o, p \in Offers : o.id = p.id => o = p
  /\ \A o \in Offers :
       /\ o.principal \in Nat /\ o.interest \in Nat /\ o.duration \in Nat
       /\ o.origination_fee_amount \in Nat
       /\ o.broker_upfront_fee_amount \in Nat
       /\ o.broker_settlement_fee_bps \in Nat
       /\ o.broker_address \in Wallets \cup Payees \cup {None}
       /\ o.lender \in Wallets
       /\ o.pro_rata \in BOOLEAN
       /\ o.size \in Nat
       /\ o.expiration \in Nat
       /\ o.offer_type \in OfferTypes

ASSUME PartiesAssumption ==
  /\ Vault \notin Wallets \cup Payees \cup Proxies
  /\ None \notin Accounts \cup Delegates \cup Contracts
  /\ None \notin [borrower : Wallets, lender : Wallets, maturity : Nat]
  /\ Receivers \subseteq Wallets /\ Refusing \subseteq Wallets /\ Blacklistable \subseteq Accounts
  /\ Deployer \in Admins

ASSUME TermsAssumption ==
  /\ BrokerTerms \subseteq FeeTerms
  /\ Protocols \subseteq [upfront : Nat, settlement : Nat, wallet : Wallets \cup Payees]
  /\ Protocols # {}
  /\ Listing \in [CollectionKeys -> Contracts \cup {None}]
  /\ Roots \in [CollectionKeys -> TraitRoots \cup {EmptyRoot}]
  /\ Holdings \subseteq [Nfts -> Keepers] /\ Holdings # {}
  /\ Funds \in [Accounts -> Nat]
  /\ Funds[Vault] = 0
  /\ MaxTime \in Nat /\ MaxCallDepth \in Nat

VARIABLES
  now,                \* block.timestamp
  loans,              \* the loans whose hash is stored
  offer_count,        \* by tracing id
  revoked_offers,
  owner, proposed_owner,
  protocol,           \* protocol fees and wallet
  authorized_proxies,
  pending_transfers,  \* what could not be sent, by account
  balance,            \* of the payment token
  blacklisted,        \* by the payment token
  nft_owner,
  delegations,        \* pairs <<delegate, nft>> in force for the vault
  callbacks,          \* calls waiting for a receiver callback, innermost first
  refusing,           \* wallets whose code receives no ERC721
  control_owner, control_proposed_owner, contracts, trait_roots,
  claimed,            \* history: loans that ended by default, by tracing id
  owed                \* history: sent in vain and not claimed yet, in total

loanVars == <<loans, offer_count, revoked_offers, claimed>>
adminVars == <<owner, proposed_owner, protocol, authorized_proxies>>
fundVars == <<pending_transfers, balance, owed>>
custodyVars == <<nft_owner, delegations, callbacks, refusing>>
controlVars == <<control_owner, control_proposed_owner, contracts, trait_roots>>
vars == <<now, loanVars, adminVars, fundVars, blacklisted, custodyVars, controlVars>>

Control == INSTANCE P2PLendingControl
             WITH owner <- control_owner, proposed_owner <- control_proposed_owner

----------------------------------------------------------------------------
(* Callers. *)

\* A transaction is called by a wallet or by a proxy a wallet calls; during a
\* receiver callback only the receiver runs, within the same transaction.
Messages ==
  IF callbacks = <<>>
    THEN {[sender |-> w, origin |-> w] : w \in Wallets}
           \cup [sender : Proxies, origin : Wallets]
    ELSE [sender : {Head(callbacks).receiver} \cup Proxies,
          origin : {Head(callbacks).origin}]

\* Mutant: once proxies are in use a user must come through one.
CheckUserThroughProxy(msg, user) ==
  IF authorized_proxies = {}
    THEN msg.sender = user
    ELSE msg.sender \in authorized_proxies /\ user = msg.origin

\* Mutant: anybody may act for anybody.
CheckUserOfAnybody(msg, user) == TRUE

\* Mutant: an authorized proxy may act for anybody.
CheckUserOfAnyProxy(msg, user) == msg.sender = user \/ msg.sender \in authorized_proxies

\* _check_user: the user itself, or an authorized proxy the user called.
CheckUser(msg, user) ==
  \/ msg.sender = user
  \/ msg.sender \in authorized_proxies /\ user = msg.origin

----------------------------------------------------------------------------
(* The payment token.  A funds value is the part of the state that moves    *)
(* with payments; every operator takes one and returns the next.            *)

CurrentFunds == [balance |-> balance, pending |-> pending_transfers, owed |-> owed]

SetFunds(f) ==
  /\ balance' = f.balance
  /\ pending_transfers' = f.pending
  /\ owed' = f.owed

\* Mutant: the balance is not checked.
CanTransferWithoutBalance(f, from, to, amount) == {from, to} \cap blacklisted = {}

CanTransfer(f, from, to, amount) ==
  /\ {from, to} \cap blacklisted = {}
  /\ f.balance[from] >= amount

Transfer(f, from, to, amount) ==
  LET taken == [f.balance EXCEPT ![from] = @ - amount]
  IN  [f EXCEPT !.balance = [taken EXCEPT ![to] = @ + amount]]

CanReceiveFunds(f, from, amount) == CanTransfer(f, from, Vault, amount)

ReceiveFunds(f, from, amount) == Transfer(f, from, Vault, amount)

\* Mutant: a second failed transfer replaces the first.
SendFundsOverwriting(f, to, amount) ==
  IF CanTransfer(f, Vault, to, amount)
    THEN Transfer(f, Vault, to, amount)
    ELSE [balance |-> f.balance,
          pending |-> [f.pending EXCEPT ![to] = amount],
          owed    |-> f.owed + amount]

\* Mutant: a failed transfer is forgotten.
SendFundsForgetting(f, to, amount) ==
  IF CanTransfer(f, Vault, to, amount) THEN Transfer(f, Vault, to, amount) ELSE f

\* _send_funds: a transfer that fails is kept for the recipient to claim.
SendFunds(f, to, amount) ==
  IF CanTransfer(f, Vault, to, amount)
    THEN Transfer(f, Vault, to, amount)
    ELSE [balance |-> f.balance,
          pending |-> [f.pending EXCEPT ![to] = @ + amount],
          owed    |-> f.owed + amount]

SendIf(condition, f, to, amount) == IF condition THEN SendFunds(f, to, amount) ELSE f

SendSettlementFee(f, loan, interest, type) ==
  SendIf(loan.fees[type].interest_bps > 0, f,
         loan.fees[type].wallet, SettlementFee(loan, interest, type))

SendSettlementFees(f, loan, interest) ==
  LET f1 == SendSettlementFee(f, loan, interest, "PROTOCOL_FEE")
      f2 == SendSettlementFee(f1, loan, interest, "LENDER_BROKER_FEE")
  IN  SendSettlementFee(f2, loan, interest, "BORROWER_BROKER_FEE")

SendUpfrontFee(f, fee) == SendIf(fee.upfront_amount > 0, f, fee.wallet, fee.upfront_amount)

\* Mutant: the origination fee is sent like the others.
SendAllUpfrontFees(f, fees) ==
  LET f1 == SendUpfrontFee(f, fees["PROTOCOL_FEE"])
      f2 == SendUpfrontFee(f1, fees["ORIGINATION_FEE"])
      f3 == SendUpfrontFee(f2, fees["LENDER_BROKER_FEE"])
  IN  SendUpfrontFee(f3, fees["BORROWER_BROKER_FEE"])

\* The lender of a replacing loan has kept its origination fee already.
SendUpfrontFees(f, fees) ==
  LET f1 == SendUpfrontFee(f, fees["PROTOCOL_FEE"])
      f2 == SendUpfrontFee(f1, fees["LENDER_BROKER_FEE"])
  IN  SendUpfrontFee(f2, fees["BORROWER_BROKER_FEE"])

----------------------------------------------------------------------------
(* Offers and loans. *)

LoanId(loan) == <<loan.borrower, loan.lender, loan.start_time, loan.collateral>>

IdUnusedIn(loan, others) == \A other \in others : LoanId(other) # LoanId(loan)

\* _validate_token_ids, and the checks on the contract the offer's key leads to.
TokenIdValid(offer, nft) ==
  LET status == Control!CollectionStatus(offer.collection_key_hash)
  IN  /\ status.contract # None
      /\ status.contract = nft.contract
      /\ CASE offer.offer_type = "TOKEN" -> offer.token_id = nft.id
           [] offer.offer_type = "COLLECTION" ->
                /\ offer.token_range_min <= nft.id
                /\ nft.id <= offer.token_range_max
           [] OTHER ->
                <<status.contract, offer.trait_hash, nft.id>> \in status.trait_root

\* Mutant: revocation is not looked up.
OfferOpenThoughRevoked(offer) ==
  /\ offer.expiration > now
  /\ offer.origination_fee_amount <= offer.principal
  /\ offer_count[offer.tracing_id] < offer.size

OfferOpen(offer) ==
  /\ offer.expiration > now
  /\ offer.origination_fee_amount <= offer.principal
  /\ offer.id \notin revoked_offers
  /\ offer_count[offer.tracing_id] < offer.size

\* Mutant: a TOKEN offer stays open.
RevokedByNothing(offer) == {}

\* _check_and_update_offer_state: a TOKEN offer is good for one loan.
RevokedBy(offer) == IF offer.offer_type = "TOKEN" THEN {offer.id} ELSE {}

Counted(counts, tracing_id, n) == [counts EXCEPT ![tracing_id] = @ + n]

CanReduce(counts, tracing_id) == counts[tracing_id] > 0

NewLoan(offer, borrower, nft, fees, delegate) ==
  [offer_id |-> offer.id, offer_tracing_id |-> offer.tracing_id,
   amount |-> offer.principal, interest |-> offer.interest,
   maturity |-> now + offer.duration, start_time |-> now,
   borrower |-> borrower, lender |-> offer.lender, collateral |-> nft,
   fees |-> fees, pro_rata |-> offer.pro_rata, delegate |-> delegate]

Delegation(loan) ==
  IF loan.delegate = None THEN {} ELSE {<<loan.delegate, loan.collateral>>}

----------------------------------------------------------------------------
(* Loans. *)

\* create_loan.  An authorized proxy borrows for the wallet that called it.
CreateLoan(msg, offer, nft, delegate, broker) ==
  LET borrower == IF msg.sender \in authorized_proxies THEN msg.origin ELSE msg.sender
      fees == LoanFees(offer, broker, protocol)
      loan == NewLoan(offer, borrower, nft, fees, delegate)
      proceeds == BorrowerProceeds(offer, fees)
      Upfront(type) == fees[type].upfront_amount
      Paid(f, type) == IF Upfront(type) > 0
                         THEN Transfer(f, offer.lender, fees[type].wallet, Upfront(type))
                         ELSE f
      CanPay(f, type) == Upfront(type) > 0
                           => CanTransfer(f, offer.lender, fees[type].wallet, Upfront(type))
      f0 == CurrentFunds
      f1 == Transfer(f0, offer.lender, borrower, proceeds)
      f2 == Paid(f1, "PROTOCOL_FEE")
      f3 == Paid(f2, "LENDER_BROKER_FEE")
      f4 == Paid(f3, "BORROWER_BROKER_FEE")
  IN  /\ OfferOpen(offer)
      /\ TokenIdValid(offer, nft)
      /\ LoanFeesDefined(offer, broker, protocol, FeeCaps, None)
      /\ BorrowerProceedsDefined(offer, fees)
      /\ IdUnusedIn(loan, loans)
      /\ nft_owner[nft] = borrower
      /\ CanTransfer(f0, offer.lender, borrower, proceeds)
      /\ CanPay(f1, "PROTOCOL_FEE")
      /\ CanPay(f2, "LENDER_BROKER_FEE")
      /\ CanPay(f3, "BORROWER_BROKER_FEE")
      /\ offer_count' = Counted(offer_count, offer.tracing_id, 1)
      /\ revoked_offers' = revoked_offers \cup RevokedBy(offer)
      /\ loans' = loans \cup {loan}
      /\ nft_owner' = [nft_owner EXCEPT ![nft] = Vault]
      /\ SetFunds(f4)
      /\ delegations' = delegations \cup Delegation(loan)
      /\ UNCHANGED <<now, adminVars, blacklisted, callbacks, refusing, controlVars, claimed>>

\* safeTransferFrom reverts when a receiver that has code does not answer for
\* it, and runs that code; transferPunk calls nobody.
Accepts(nft, wallet) == wallet \notin refusing \/ nft.contract = CryptoPunks

CallsBack(nft, wallet) == wallet \in Receivers /\ nft.contract # CryptoPunks

\* Mutant: all delegations of the loan's delegate are revoked.
ReturnCollateralRevokingAll(msg, loan, wallet) ==
  /\ nft_owner[loan.collateral] = Vault
  /\ nft_owner' = [nft_owner EXCEPT ![loan.collateral] = wallet]
  /\ delegations' = {d \in delegations : d[1] # loan.delegate}
  /\ UNCHANGED <<callbacks, refusing>>

\* _transfer_collateral to `wallet`, after which the delegation of the ended
\* loan is revoked: at once, or when the receiver's callback has returned.
ReturnCollateral(msg, loan, wallet) ==
  /\ nft_owner[loan.collateral] = Vault
  /\ Accepts(loan.collateral, wallet)
  /\ nft_owner' = [nft_owner EXCEPT ![loan.collateral] = wallet]
  /\ UNCHANGED refusing
  /\ \/ /\ ~CallsBack(loan.collateral, wallet)
        /\ delegations' = delegations \ Delegation(loan)
        /\ UNCHANGED callbacks
     \/ /\ CallsBack(loan.collateral, wallet)
        /\ Len(callbacks) < MaxCallDepth
        /\ callbacks' = <<[receiver |-> wallet, origin |-> msg.origin,
                           revoked |-> Delegation(loan)]>> \o callbacks
        /\ UNCHANGED delegations

\* Mutant: the delegation is not revoked after the callback.
ReturnWithoutRevoking ==
  /\ callbacks # <<>>
  /\ callbacks' = Tail(callbacks)
  /\ UNCHANGED <<now, loanVars, adminVars, fundVars, blacklisted, nft_owner, delegations,
                 refusing, controlVars>>

\* The rest of the call whose callback is innermost.
ReturnFromCallback ==
  /\ callbacks # <<>>
  /\ delegations' = delegations \ Head(callbacks).revoked
  /\ callbacks' = Tail(callbacks)
  /\ UNCHANGED <<now, loanVars, adminVars, fundVars, blacklisted, nft_owner, refusing,
                 controlVars>>

\* settle_loan.
SettleLoan(msg, loan) ==
  LET interest == SettlementInterest(loan, now)
      f0 == CurrentFunds
      f1 == ReceiveFunds(f0, loan.borrower, Repayment(loan, interest))
      f2 == SendFunds(f1, loan.lender, LenderProceeds(loan, interest))
  IN  /\ now <= loan.maturity
      /\ CheckUser(msg, loan.borrower)
      /\ InterestDefined(loan)
      /\ LenderProceedsDefined(loan, interest)
      /\ CanReduce(offer_count, loan.offer_tracing_id)
      /\ CanReceiveFunds(f0, loan.borrower, Repayment(loan, interest))
      /\ loans' = loans \ {loan}
      /\ offer_count' = Counted(offer_count, loan.offer_tracing_id, -1)
      /\ SetFunds(SendSettlementFees(f2, loan, interest))
      /\ ReturnCollateral(msg, loan, loan.borrower)
      /\ UNCHANGED <<now, adminVars, blacklisted, revoked_offers, controlVars, claimed>>

\* Mutants: a loan defaults at its maturity, a block late, or for one block.
DefaultedAtMaturity(loan) == now >= loan.maturity
DefaultedLate(loan) == now > loan.maturity + 1
DefaultedOnce(loan) == now = loan.maturity + 1

Defaulted(loan) == now > loan.maturity

\* Mutant: the claimed loan stays.
ClaimLeavingLoan(msg, loan) ==
  /\ Defaulted(loan)
  /\ CheckUser(msg, loan.lender)
  /\ ReturnCollateral(msg, loan, loan.lender)
  /\ UNCHANGED <<now, loanVars, adminVars, fundVars, blacklisted, controlVars>>

\* claim_defaulted_loan_collateral.  The offer stays used.
ClaimDefaultedLoanCollateral(msg, loan) ==
  /\ Defaulted(loan)
  /\ CheckUser(msg, loan.lender)
  /\ loans' = loans \ {loan}
  /\ claimed' = Counted(claimed, loan.offer_tracing_id, 1)
  /\ ReturnCollateral(msg, loan, loan.lender)
  /\ UNCHANGED <<now, adminVars, fundVars, blacklisted, offer_count, revoked_offers,
                 controlVars>>

\* Mutant: the replaced loan's offer is not released.
ReplacedCountsUnreduced(loan, offer) == Counted(offer_count, offer.tracing_id, 1)

\* The new offer is counted before the old one is released.
ReplacedCounts(loan, offer) ==
  Counted(Counted(offer_count, offer.tracing_id, 1), loan.offer_tracing_id, -1)

\* What both replacements check of the new offer and do to loans and offers.
Replace(loan, offer, fees) ==
  LET new == NewLoan(offer, loan.borrower, loan.collateral, fees, loan.delegate)
  IN  /\ now <= loan.maturity
      /\ OfferOpen(offer)
      /\ TokenIdValid(offer, loan.collateral)
      /\ CanReduce(Counted(offer_count, offer.tracing_id, 1), loan.offer_tracing_id)
      /\ InterestDefined(loan)
      /\ IdUnusedIn(new, loans \ {loan})
      /\ offer_count' = ReplacedCounts(loan, offer)
      /\ revoked_offers' = revoked_offers \cup RevokedBy(offer)
      /\ loans' = (loans \ {loan}) \cup {new}
      /\ UNCHANGED claimed

\* replace_loan.
ReplaceLoan(msg, loan, offer, broker) ==
  LET interest == SettlementInterest(loan, now)
      fees == LoanFees(offer, broker, protocol)
      borrower_delta == ReplaceBorrowerDelta(loan, offer, fees, interest)
      current_lender == LenderProceeds(loan, interest)
      new_lender == NewLenderPays(offer)
      same_lender == loan.lender = offer.lender
      f0 == CurrentFunds
      f1 == IF borrower_delta < 0
              THEN ReceiveFunds(f0, loan.borrower, -borrower_delta) ELSE f0
      from_lender == IF same_lender THEN new_lender - current_lender ELSE new_lender
      f2 == IF same_lender /\ from_lender <= 0
              THEN f1 ELSE ReceiveFunds(f1, offer.lender, from_lender)
      f3 == IF same_lender
              THEN SendIf(from_lender < 0, f2, loan.lender, -from_lender)
              ELSE SendFunds(f2, loan.lender, current_lender)
      f4 == SendIf(borrower_delta > 0, f3, loan.borrower, borrower_delta)
      f5 == SendSettlementFees(f4, loan, interest)
  IN  /\ CheckUser(msg, loan.borrower)
      /\ LoanFeesDefined(offer, broker, protocol, FeeCaps, None)
      /\ Replace(loan, offer, fees)
      /\ LenderProceedsDefined(loan, interest)
      /\ borrower_delta < 0 => CanReceiveFunds(f0, loan.borrower, -borrower_delta)
      /\ ~(same_lender /\ from_lender <= 0)
           => CanReceiveFunds(f1, offer.lender, from_lender)
      /\ SetFunds(SendUpfrontFees(f5, fees))
      /\ UNCHANGED <<now, adminVars, blacklisted, custodyVars, controlVars>>

NoBroker == [upfront_amount |-> 0, interest_bps |-> 0, wallet |-> None]

\* replace_loan_lender.
ReplaceLoanLender(msg, loan, offer) ==
  LET interest == SettlementInterest(loan, now)
      fees == LoanFees(offer, NoBroker, protocol)
      borrower_delta == LenderReplaceBorrowerDelta(loan, offer, interest, now)
      current_lender == LenderReplaceCurrentDelta(loan, offer, fees, interest, now)
      new_lender == NewLenderPays(offer)
      same_lender == loan.lender = offer.lender
      from_lender == IF same_lender THEN new_lender - current_lender ELSE new_lender
      f0 == CurrentFunds
      f1 == IF same_lender /\ from_lender = 0
              THEN f0 ELSE ReceiveFunds(f0, offer.lender, from_lender)
      f2 == SendIf(~same_lender /\ current_lender > 0, f1, loan.lender, current_lender)
      f3 == SendIf(borrower_delta > 0, f2, loan.borrower, borrower_delta)
      f4 == SendSettlementFees(f3, loan, interest)
  IN  /\ CheckUser(msg, loan.lender)
      /\ now + offer.duration >= loan.maturity
      /\ LoanFeesDefined(offer, NoBroker, protocol, FeeCaps, None)
      /\ Replace(loan, offer, fees)
      /\ MaxInterestDeltaDefined(offer)
      /\ borrower_delta >= 0
      /\ IF same_lender THEN from_lender >= 0 ELSE current_lender >= 0
      /\ ~(same_lender /\ from_lender = 0)
           => CanReceiveFunds(f0, offer.lender, from_lender)
      /\ SetFunds(SendUpfrontFees(f4, fees))
      /\ UNCHANGED <<now, adminVars, blacklisted, custodyVars, controlVars>>

----------------------------------------------------------------------------
(* Offers, parked transfers, administration. *)

\* revoke_offer.
RevokeOffer(msg, offer) ==
  /\ CheckUser(msg, offer.lender)
  /\ offer.expiration > now
  /\ offer.id \notin revoked_offers
  /\ revoked_offers' = revoked_offers \cup {offer.id}
  /\ UNCHANGED <<now, loans, offer_count, claimed, adminVars, fundVars, blacklisted,
                 custodyVars, controlVars>>

\* claim_pending_transfers: cleared first, and the transfer must succeed.
ClaimPendingTransfers(account) ==
  LET amount == pending_transfers[account]
      cleared == [balance |-> balance, owed |-> owed - amount,
                  pending |-> [pending_transfers EXCEPT ![account] = 0]]
  IN  /\ amount > 0
      /\ CanTransfer(cleared, Vault, account, amount)
      /\ SetFunds(Transfer(cleared, Vault, account, amount))
      /\ UNCHANGED <<now, loanVars, adminVars, blacklisted, custodyVars, controlVars>>

NotAdministered == <<now, loanVars, fundVars, blacklisted, custodyVars, controlVars>>

\* set_protocol_fee and change_protocol_wallet.
SetProtocolFee(sender, new) ==
  /\ sender = owner
  /\ new.upfront <= FeeCaps.upfront
  /\ new.settlement <= FeeCaps.settlement
  /\ protocol' = [protocol EXCEPT !.upfront = new.upfront, !.settlement = new.settlement]
  /\ UNCHANGED <<owner, proposed_owner, authorized_proxies, NotAdministered>>

ChangeProtocolWallet(sender, wallet) ==
  /\ sender = owner
  /\ protocol' = [protocol EXCEPT !.wallet = wallet]
  /\ UNCHANGED <<owner, proposed_owner, authorized_proxies, NotAdministered>>

SetProxyAuthorization(sender, proxy, value) ==
  /\ sender = owner
  /\ authorized_proxies' = IF value THEN authorized_proxies \cup {proxy}
                                    ELSE authorized_proxies \ {proxy}
  /\ UNCHANGED <<owner, proposed_owner, protocol, NotAdministered>>

ProposeOwner(sender, address) ==
  /\ sender = owner
  /\ proposed_owner' = address
  /\ UNCHANGED <<owner, protocol, authorized_proxies, NotAdministered>>

ClaimOwnership(sender) ==
  /\ sender = proposed_owner
  /\ owner' = sender
  /\ proposed_owner' = None
  /\ UNCHANGED <<protocol, authorized_proxies, NotAdministered>>

----------------------------------------------------------------------------
(* The environment: time, the payment token's blacklist, and the registry. *)

Tick ==
  /\ now < MaxTime
  /\ now' = now + 1
  /\ UNCHANGED <<loanVars, adminVars, fundVars, blacklisted, custodyVars, controlVars>>

SetBlacklisted(account, value) ==
  /\ blacklisted' = IF value THEN blacklisted \cup {account} ELSE blacklisted \ {account}
  /\ UNCHANGED <<now, loanVars, adminVars, fundVars, custodyVars, controlVars>>

\* LenderClaim.vy, set as the code of a wallet, receives every ERC721 and calls
\* the contract in the wallet's name.
InstallLenderClaim(wallet) ==
  /\ wallet \in refusing
  /\ refusing' = refusing \ {wallet}
  /\ UNCHANGED <<now, loanVars, adminVars, fundVars, blacklisted, nft_owner, delegations,
                 callbacks, controlVars>>

ControlStep ==
  /\ Control!Next
  /\ UNCHANGED <<now, loanVars, adminVars, fundVars, blacklisted, custodyVars>>

----------------------------------------------------------------------------
Init ==
  /\ now = 0
  /\ loans = {}
  /\ offer_count = [t \in TracingIds |-> 0]
  /\ revoked_offers = {}
  /\ owner = Deployer /\ proposed_owner = None
  /\ protocol \in {p \in Protocols : /\ p.upfront <= FeeCaps.upfront
                                     /\ p.settlement <= FeeCaps.settlement}
  /\ authorized_proxies = {}
  /\ pending_transfers = [a \in Accounts |-> 0]
  /\ balance = Funds
  /\ blacklisted = {}
  /\ nft_owner \in Holdings
  /\ delegations = {}
  /\ callbacks = <<>>
  /\ refusing = Refusing
  /\ control_owner = Deployer /\ control_proposed_owner = None
  /\ contracts = Listing /\ trait_roots = Roots
  /\ claimed = [t \in TracingIds |-> 0]
  /\ owed = 0

UserCall(msg) ==
  \/ \E offer \in Offers, nft \in Nfts, d \in Delegates \cup {None}, b \in BrokerTerms :
       CreateLoan(msg, offer, nft, d, b)
  \/ \E loan \in loans :
       \/ SettleLoan(msg, loan)
       \/ ClaimDefaultedLoanCollateral(msg, loan)
       \/ \E offer \in Offers, b \in BrokerTerms : ReplaceLoan(msg, loan, offer, b)
       \/ \E offer \in Offers : ReplaceLoanLender(msg, loan, offer)
  \/ \E offer \in Offers : RevokeOffer(msg, offer)

UserStep == \E msg \in Messages : UserCall(msg)

\* Fee recipients are no wallets that borrow or lend, but they may claim.
ClaimStep ==
  \E account \in IF callbacks = <<>> THEN Wallets \cup Payees
                                     ELSE {Head(callbacks).receiver} :
    ClaimPendingTransfers(account)

AdminStep ==
  \E sender \in Admins :
    \/ \E p \in Protocols : SetProtocolFee(sender, p)
    \/ \E p \in Protocols : ChangeProtocolWallet(sender, p.wallet)
    \/ \E proxy \in Proxies, value \in BOOLEAN : SetProxyAuthorization(sender, proxy, value)
    \/ \E address \in Admins : ProposeOwner(sender, address)
    \/ ClaimOwnership(sender)

\* Nothing else happens in the middle of a transaction.
EnvironmentStep ==
  /\ callbacks = <<>>
  /\ \/ Tick
     \/ \E account \in Blacklistable, value \in BOOLEAN : SetBlacklisted(account, value)
     \/ \E wallet \in Wallets : InstallLenderClaim(wallet)

GovernanceStep == callbacks = <<>> /\ (AdminStep \/ ControlStep)

LendingNext == UserStep \/ ReturnFromCallback \/ ClaimStep \/ EnvironmentStep

Next == LendingNext \/ GovernanceStep

Spec == Init /\ [][Next]_vars

----------------------------------------------------------------------------
(* Properties. *)

LoanType ==
  [offer_id : {o.id : o \in Offers}, offer_tracing_id : TracingIds,
   amount : Nat, interest : Nat, maturity : Nat, start_time : Nat,
   borrower : Wallets, lender : Wallets, collateral : Nfts,
   fees : [FeeTypes -> FeeType], pro_rata : BOOLEAN, delegate : Delegates \cup {None}]

CallbackType ==
  [receiver : Wallets, origin : Wallets, revoked : SUBSET (Delegates \X Nfts)]

LoansTyped ==
  /\ loans \subseteq LoanType
  /\ offer_count \in [TracingIds -> Nat]
  /\ claimed \in [TracingIds -> Nat]
  /\ revoked_offers \subseteq {o.id : o \in Offers}

AdminTyped ==
  /\ owner \in Admins /\ proposed_owner \in Admins \cup {None}
  /\ protocol \in [upfront : Nat, settlement : Nat, wallet : Wallets \cup Payees]
  /\ authorized_proxies \subseteq Proxies

FundsTyped ==
  /\ pending_transfers \in [Accounts -> Nat]
  /\ balance \in [Accounts -> Nat]
  /\ owed \in Nat
  /\ blacklisted \subseteq Accounts

CustodyTyped ==
  /\ nft_owner \in [Nfts -> Keepers \cup {Vault}]
  /\ delegations \subseteq Delegates \X Nfts
  /\ callbacks \in Seq(CallbackType)
  /\ refusing \subseteq Wallets

ControlTyped == Control!TypeOK

\* Every variable has its type; amounts and counters never go below zero.
TypeOK ==
  /\ now \in 0..MaxTime
  /\ LoansTyped /\ AdminTyped /\ FundsTyped /\ CustodyTyped /\ ControlTyped

LoansOn(nft) == {loan \in loans : loan.collateral = nft}
LoansFrom(tracing_id) == {loan \in loans : loan.offer_tracing_id = tracing_id}

\* The vault holds an NFT exactly while one loan runs on it: no loan loses its
\* collateral, none shares it, and none is left behind when a loan ends.
CustodyMatchesLoans ==
  \A nft \in Nfts :
    /\ nft_owner[nft] = Vault <=> LoansOn(nft) # {}
    /\ \A a, b \in LoansOn(nft) : a = b

\* offer_count is the number of running loans under the tracing id, and of
\* those that ended by default, whose place is never given back.  So
\* _reduce_offer_count cannot underflow and block a settlement.
OfferCountMatchesLoans ==
  \A t \in TracingIds :
    offer_count[t] = Cardinality(LoansFrom(t)) + claimed[t]

\* The contract keeps no money of its own: it holds what it failed to send and
\* nobody has claimed, so every claim can be paid.
VaultHoldsWhatItOwes == balance[Vault] = owed

\* Amounts unit by unit, so that their sum is a number of elements.
Units(amounts) == UNION {{x} \X (1..amounts[x]) : x \in DOMAIN amounts}

AddsUpTo(amounts, total) ==
  IsFiniteSet(Units(amounts)) /\ Cardinality(Units(amounts)) = total

\* What the vault owes is what its pending transfers add up to: none is lost
\* when others fail for the same recipient, and none goes to nobody.
PendingAddsUp == AddsUpTo(pending_transfers, owed)

\* A TOKEN offer that gave a loan is revoked, however the loan came about.
TokenOffersAreSpent ==
  \A offer \in Offers :
    offer.offer_type = "TOKEN" /\ (\E loan \in loans : loan.offer_id = offer.id)
      => offer.id \in revoked_offers

\* A delegation in force belongs to a running loan, or its loan has ended and
\* the call that ended it is about to revoke it.
OfRunningLoans == UNION {Delegation(loan) : loan \in loans}
ToRevoke == UNION {callbacks[i].revoked : i \in DOMAIN callbacks}
NoStrayDelegation == delegations \subseteq OfRunningLoans \cup ToRevoke

\* README, Delegation: "Delegation is set when a new loan is created and
\* remains in place until the loan is settled".
DelegationInPlace ==
  callbacks = <<>> => \A loan \in loans : Delegation(loan) \subseteq delegations

\* The delegation of a loan is in force as long as the loan runs, replacements
\* and the ends of other loans included, unless the borrower's own callback
\* could have taken the loan.
DelegationKept ==
  callbacks = <<>> =>
    \A loan \in loans :
      ~CallsBack(loan.collateral, loan.borrower) => Delegation(loan) \subseteq delegations

\* A revoked offer stays revoked and gives no loan any more, by none of the
\* three ways a loan comes about.
RevokedOffersGiveNoLoan ==
  [][/\ revoked_offers \subseteq revoked_offers'
     /\ \A loan \in loans' \ loans : loan.offer_id \notin revoked_offers]_vars

Wealth(account) == balance[account] + pending_transfers[account]

\* A loan settled by its borrower gives the lender at least its principal
\* back, at once or as a transfer to claim.
SettlementRepaysLender ==
  [][\A loan \in loans \ loans' :
       /\ loans' \subseteq loans
       /\ now <= loan.maturity
       /\ loan.lender # loan.borrower
       => Wealth(loan.lender)' >= Wealth(loan.lender) + loan.amount]_vars

\* Whoever made this call made it as `wallet`, or through a proxy it called.
CalledAs(wallet) ==
  /\ UserStep
  /\ \A msg \in Messages :
       UserCall(msg) => \/ msg.sender = wallet
                        \/ msg.sender \in authorized_proxies /\ msg.origin = wallet

\* The lender of `offer` lends now, on `nft` if need be in place of another loan.
LendsOn(offer, nft) ==
  /\ OfferOpen(offer)
  /\ \E loan \in loans' :
       loan.offer_id = offer.id /\ loan.collateral = nft /\ loan.start_time = now

\* Every call takes what it pays out from accounts that have approved the
\* contract once and for all.  It charges nobody but the wallet that made it and
\* the lender of an open offer, which pays no more than its offer says, gets the
\* loan for it, and pays for one offer only.
ChargedByConsent ==
  [][\A account \in Wallets \cup Payees :
       \/ Wealth(account)' >= Wealth(account)
       \/ CalledAs(account)
       \/ \E offer \in Offers, nft \in Nfts :
            /\ offer.lender = account /\ LendsOn(offer, nft)
            /\ Wealth(account)' >= Wealth(account) - NewLenderPays(offer)]_vars

\* A loan that its borrower ends early, by a settlement or by another loan in its
\* place, gives the lender at least its principal, less what the lender lends anew
\* on the same NFT.  Only a lender itself can give up more.
EarlyEndRepaysLender ==
  [][\A loan \in loans \ loans' :
       \/ now > loan.maturity
       \/ loan.lender = loan.borrower
       \/ CalledAs(loan.lender)
       \/ Wealth(loan.lender)' >= Wealth(loan.lender) + loan.amount
       \/ \E offer \in Offers :
            /\ offer.lender = loan.lender /\ LendsOn(offer, loan.collateral)
            /\ Wealth(loan.lender)' >= Wealth(loan.lender) + loan.amount
                                         - NewLenderPays(offer)]_vars

Direct(wallet) == [sender |-> wallet, origin |-> wallet]

\* Until the maturity a borrower that has the money can settle, whatever
\* happened since: other loans, revoked offers, delisted collections, new
\* protocol fees, withdrawn proxies, recipients that the token refuses, a
\* lender that receives no NFT.  The loans left out cannot be settled by their
\* own terms: a pro rata loan of no duration, and a borrower's broker that is
\* due more than the principal; or the borrower does not take its NFT back.
SettlementStaysPossible ==
  callbacks = <<>> =>
    \A loan \in loans :
      LET interest == SettlementInterest(loan, now)
      IN  /\ now <= loan.maturity
          /\ Accepts(loan.collateral, loan.borrower)
          /\ InterestDefined(loan)
          /\ BorrowerBrokerFee(loan, interest) <= loan.amount
          /\ CanReceiveFunds(CurrentFunds, loan.borrower, Repayment(loan, interest))
          => ENABLED SettleLoan(Direct(loan.borrower), loan)

\* After the maturity the lender can always take the collateral, unless its own
\* code refuses it.
DefaultStaysClaimable ==
  callbacks = <<>> =>
    \A loan \in loans :
      now > loan.maturity /\ Accepts(loan.collateral, loan.lender) =>
        ENABLED ClaimDefaultedLoanCollateral(Direct(loan.lender), loan)

\* Time passes, a lender claims what it can go on claiming, and a wallet does not
\* go on refusing what it could have (tiamonds-claim.md).
ClaimOn(nft) ==
  \E loan \in LoansOn(nft) : ClaimDefaultedLoanCollateral(Direct(loan.lender), loan)

Fairness ==
  /\ WF_vars(Tick)
  /\ \A nft \in Nfts : WF_vars(ClaimOn(nft))
  /\ \A wallet \in Wallets : WF_vars(callbacks = <<>> /\ InstallLenderClaim(wallet))

\* No NFT stays in the contract: offers expire, so that its last loan has a
\* maturity, and then nothing takes the claim from the lender any more.
CollateralLeaves ==
  \A nft \in Nfts : nft_owner[nft] = Vault ~> nft_owner[nft] # Vault

----------------------------------------------------------------------------
(* The contract keeps the promise of CollateralCustody: the pledge on an   *)
(* NFT is the loan that runs on it.                                        *)

PledgeIn(among, nft) ==
  IF \A l \in among : l.collateral # nft
    THEN None
    ELSE LET loan == CHOOSE l \in among : l.collateral = nft
         IN  [borrower |-> loan.borrower, lender |-> loan.lender,
              maturity |-> loan.maturity]

PledgeOn(nft) == PledgeIn(loans, nft)

Custody == INSTANCE CollateralCustody
  WITH Items <- Nfts, Parties <- Wallets, House <- Vault, Unpledged <- None,
       InitialHolders <- Holdings, holder <- nft_owner,
       pledge <- [nft \in Nfts |-> PledgeOn(nft)]

\* Every NFT in the contract is there under the terms of one loan.  Until the
\* maturity it goes back to the borrower or stays under another loan of the
\* same borrower; after it it goes to the lender; nothing else moves it.
CustodySpec == Custody!Spec
=============================================================================
