----------------------- MODULE P2PLendingLoansProofs -----------------------
(***************************************************************************)
(* What becomes of loans in P2PLendingNfts, for all parties, NFTs, offers, *)
(* fees and bounds, and receiver callbacks of any depth:                   *)
(*   - an offer that was revoked or spent makes no other loan;             *)
(*   - a delegation lasts as long as the loan it was made for;             *)
(*   - P2PLendingNfts implements CollateralCustody: a loan pledges its     *)
(*     NFT, a replacement renews the pledge, a settlement redeems it, a    *)
(*     claim forfeits it, and nothing else touches pledges or holders;     *)
(*   - a loan settled by its borrower repays its lender, whatever the      *)
(*     payment token refuses;                                              *)
(*   - nobody is charged but by its own call or offer, and no lender gets  *)
(*     less than its principal before the maturity but by its own call.    *)
(***************************************************************************)
EXTENDS P2PLendingNftsProofs

\* How an action changes loans, revoked offers and delegations: not at all, or
\* as a loan is created, replaced or ended, or as a callback returns.
Created(offer, loan) ==
  /\ offer \in Offers /\ offer.id \notin revoked_offers
  /\ loan.offer_id = offer.id /\ loan.maturity = now + offer.duration
  /\ revoked_offers' = revoked_offers \cup RevokedBy(offer)
  /\ loans' = loans \cup {loan}
  /\ nft_owner[loan.collateral] = loan.borrower
  /\ nft_owner' = [nft_owner EXCEPT ![loan.collateral] = Vault]
  /\ delegations' = delegations \cup Delegation(loan)
  /\ UNCHANGED <<callbacks, now>>

Replaced(offer, old, loan) ==
  /\ offer \in Offers /\ offer.id \notin revoked_offers
  /\ loan.offer_id = offer.id /\ loan.maturity = now + offer.duration
  /\ loan.borrower = old.borrower
  /\ loan.collateral = old.collateral /\ loan.delegate = old.delegate
  /\ revoked_offers' = revoked_offers \cup RevokedBy(offer)
  /\ loans' = (loans \ {old}) \cup {loan}
  /\ UNCHANGED <<nft_owner, delegations, callbacks, now>>

Ended(old) ==
  /\ UNCHANGED <<revoked_offers, now>>
  /\ loans' = loans \ {old}
  /\ \E wallet :
       /\ \/ wallet = old.borrower
          \/ wallet = old.lender /\ now > old.maturity
       /\ nft_owner' = [nft_owner EXCEPT ![old.collateral] = wallet]
       /\ \/ delegations' = delegations \ Delegation(old) /\ callbacks' = callbacks
          \/ /\ CallsBack(old.collateral, wallet)
             /\ delegations' = delegations
             /\ \E call : /\ call.revoked = Delegation(old)
                          /\ callbacks' = <<call>> \o callbacks

Quiet ==
  /\ revoked_offers \subseteq revoked_offers'
  /\ UNCHANGED <<loans, nft_owner, delegations, callbacks>>
  /\ callbacks = <<>> \/ now' = now

LEMMA EveryStep ==
  ASSUME [Next]_vars
  PROVE  \/ Quiet
         \/ ReturnFromCallback
         \/ \E offer, loan : Created(offer, loan)
         \/ \E offer, loan : \E old \in loans : Replaced(offer, old, loan)
         \/ \E old \in loans : Ended(old)
<1>1. ASSUME NEW msg \in Messages, NEW offer \in Offers, NEW nft \in Nfts,
             NEW d \in Delegates \cup {None}, NEW b \in BrokerTerms,
             CreateLoan(msg, offer, nft, d, b)
      PROVE  \E o, loan : Created(o, loan)
  <2> DEFINE borrower == IF msg.sender \in authorized_proxies THEN msg.origin ELSE msg.sender
             loan == NewLoan(offer, borrower, nft, LoanFees(offer, b, protocol), d)
  <2>1. /\ loan.offer_id = offer.id /\ loan.maturity = now + offer.duration
        /\ loan.borrower = borrower /\ loan.collateral = nft
    BY DEF NewLoan
  <2>2. /\ OfferOpen(offer)
        /\ revoked_offers' = revoked_offers \cup RevokedBy(offer)
        /\ loans' = loans \cup {loan}
        /\ nft_owner[nft] = borrower /\ nft_owner' = [nft_owner EXCEPT ![nft] = Vault]
        /\ delegations' = delegations \cup Delegation(loan)
        /\ UNCHANGED <<callbacks, now>>
    BY <1>1 DEF CreateLoan
  <2> HIDE DEF loan, borrower
  <2> QED
    BY <2>1, <2>2 DEF Created, OfferOpen
<1>2. ASSUME NEW loan \in loans, NEW offer \in Offers, NEW fees, Replace(loan, offer, fees),
             UNCHANGED <<custodyVars, now>>
      PROVE  \E o, new : Replaced(o, loan, new)
  <2> DEFINE new == NewLoan(offer, loan.borrower, loan.collateral, fees, loan.delegate)
  <2>1. /\ new.offer_id = offer.id /\ new.maturity = now + offer.duration
        /\ new.borrower = loan.borrower
        /\ new.collateral = loan.collateral /\ new.delegate = loan.delegate
    BY DEF NewLoan
  <2>2. /\ OfferOpen(offer)
        /\ revoked_offers' = revoked_offers \cup RevokedBy(offer)
        /\ loans' = (loans \ {loan}) \cup {new}
    BY <1>2 DEF Replace
  <2> HIDE DEF new
  <2> QED
    BY <1>2, <2>1, <2>2 DEF Replaced, OfferOpen, custodyVars
<1>3. ASSUME NEW msg \in Messages, NEW loan \in loans,
             \/ \E offer \in Offers, b \in BrokerTerms : ReplaceLoan(msg, loan, offer, b)
             \/ \E offer \in Offers : ReplaceLoanLender(msg, loan, offer)
      PROVE  \E o, new : Replaced(o, loan, new)
  <2>1. \E offer \in Offers : \E fees : Replace(loan, offer, fees)
    BY <1>3 DEF ReplaceLoan, ReplaceLoanLender
  <2>2. UNCHANGED <<custodyVars, now>>
    BY <1>3 DEF ReplaceLoan, ReplaceLoanLender
  <2> QED
    BY <1>2, <2>1, <2>2
<1>4. ASSUME NEW msg \in Messages, NEW loan \in loans,
             SettleLoan(msg, loan) \/ ClaimDefaultedLoanCollateral(msg, loan)
      PROVE  Ended(loan)
  <2>1. PICK wallet : /\ ReturnCollateral(msg, loan, wallet)
                      /\ \/ wallet = loan.borrower
                         \/ wallet = loan.lender /\ now > loan.maturity
    BY <1>4 DEF SettleLoan, ClaimDefaultedLoanCollateral, Defaulted
  <2>2. ReturnCollateral(msg, loan, wallet)
    BY <2>1
  <2>3. \/ delegations' = delegations \ Delegation(loan) /\ callbacks' = callbacks
        \/ /\ CallsBack(loan.collateral, wallet)
           /\ delegations' = delegations
           /\ callbacks' = <<[receiver |-> wallet, origin |-> msg.origin,
                              revoked |-> Delegation(loan)]>> \o callbacks
    BY <2>2 DEF ReturnCollateral
  <2>4. nft_owner' = [nft_owner EXCEPT ![loan.collateral] = wallet]
    BY <2>2 DEF ReturnCollateral
  <2>5. UNCHANGED <<revoked_offers, now>> /\ loans' = loans \ {loan}
    BY <1>4 DEF SettleLoan, ClaimDefaultedLoanCollateral
  <2> QED
    BY <2>1, <2>3, <2>4, <2>5 DEF Ended
<1>5. ASSUME NEW msg \in Messages, NEW offer \in Offers, RevokeOffer(msg, offer)
      PROVE  Quiet
  BY <1>5 DEF RevokeOffer, Quiet, custodyVars
<1>6. CASE UserStep
  BY <1>1, <1>3, <1>4, <1>5, <1>6 DEF UserStep, UserCall
<1>7. CASE ClaimStep
  BY <1>7 DEF ClaimStep, ClaimPendingTransfers, Quiet, loanVars, custodyVars
<1>8. CASE EnvironmentStep
  BY <1>8 DEF EnvironmentStep, Tick, SetBlacklisted, InstallLenderClaim, Quiet, loanVars,
     custodyVars
<1>9. CASE AdminStep
  BY <1>9 DEF AdminStep, SetProtocolFee, ChangeProtocolWallet, SetProxyAuthorization,
     ProposeOwner, ClaimOwnership, NotAdministered, Quiet, loanVars, custodyVars
<1>10. CASE ControlStep
  BY <1>10 DEF ControlStep, Quiet, loanVars, custodyVars
<1>11. CASE UNCHANGED vars
  BY <1>11 DEF vars, Quiet, loanVars, custodyVars
<1> QED
  BY <1>6, <1>7, <1>8, <1>9, <1>10, <1>11 DEF Next, LendingNext, GovernanceStep

----------------------------------------------------------------------------
(* Offers. *)

\* A revoked offer stays revoked and gives no loan any more, whichever of the
\* three functions it is presented to.
THEOREM RevokedOffersTheorem == Spec => RevokedOffersGiveNoLoan
<1>1. ASSUME [Next]_vars
      PROVE  /\ revoked_offers \subseteq revoked_offers'
             /\ \A loan \in loans' \ loans : loan.offer_id \notin revoked_offers
  BY <1>1, EveryStep DEF Quiet, ReturnFromCallback, Created, Replaced, Ended, loanVars
<1> QED
  BY <1>1, PTL DEF Spec, RevokedOffersGiveNoLoan

\* A TOKEN offer that gave a loan is revoked, so it gives no second one.
THEOREM TokenOffersTheorem == Spec => []TokenOffersAreSpent
<1>1. Init => TokenOffersAreSpent
  BY DEF Init, TokenOffersAreSpent
<1>2. ASSUME TokenOffersAreSpent, [Next]_vars
      PROVE  TokenOffersAreSpent'
  <2>1. SUFFICES ASSUME NEW offer \in Offers, offer.offer_type = "TOKEN",
                        NEW loan \in loans', loan.offer_id = offer.id
                 PROVE  offer.id \in revoked_offers'
    BY DEF TokenOffersAreSpent
  <2>2. revoked_offers \subseteq revoked_offers'
    BY <1>2, EveryStep DEF Quiet, ReturnFromCallback, Created, Replaced, Ended, loanVars
  <2>3. CASE loan \in loans
    BY <1>2, <2>1, <2>2, <2>3 DEF TokenOffersAreSpent
  <2>4. CASE loan \notin loans
    <3>1. PICK o \in Offers :
            loan.offer_id = o.id /\ revoked_offers' = revoked_offers \cup RevokedBy(o)
      BY <1>2, <2>1, <2>4, EveryStep DEF Quiet, ReturnFromCallback, Created, Replaced, Ended,
         loanVars
    <3>2. o = offer
      BY <2>1, <3>1, OffersAssumption
    <3> QED
      BY <2>1, <3>1, <3>2 DEF RevokedBy
  <2> QED
    BY <2>3, <2>4
<1> QED
  BY <1>1, <1>2, PTL DEF Spec

----------------------------------------------------------------------------
(* Delegations. *)

\* What a push or a pop does to the delegations that will be revoked.
LEMMA RevokedByPush ==
  ASSUME NEW S, NEW call, callbacks \in Seq(S), callbacks' = <<call>> \o callbacks
  PROVE  call.revoked \cup ToRevoke \subseteq ToRevoke'
<1>1. /\ Len(callbacks) \in Nat /\ DOMAIN callbacks = 1..Len(callbacks)
      /\ DOMAIN callbacks' = 1..(Len(callbacks) + 1)
      /\ callbacks'[1] = call
      /\ \A i \in DOMAIN callbacks : callbacks'[i + 1] = callbacks[i]
  OBVIOUS
<1>2. call.revoked \subseteq ToRevoke'
  BY <1>1 DEF ToRevoke
<1>3. \A i \in DOMAIN callbacks : callbacks[i].revoked \subseteq ToRevoke'
  <2>1. SUFFICES ASSUME NEW i \in DOMAIN callbacks
                 PROVE  callbacks[i].revoked \subseteq ToRevoke'
    OBVIOUS
  <2>2. i + 1 \in DOMAIN callbacks' /\ callbacks'[i + 1] = callbacks[i]
    BY <1>1
  <2> QED
    BY <2>2 DEF ToRevoke
<1> QED
  BY <1>2, <1>3 DEF ToRevoke

LEMMA RevokedByPop ==
  ASSUME NEW S, callbacks \in Seq(S), callbacks # <<>>, callbacks' = Tail(callbacks)
  PROVE  ToRevoke \subseteq Head(callbacks).revoked \cup ToRevoke'
<1>1. /\ Len(callbacks) \in Nat /\ DOMAIN callbacks = 1..Len(callbacks)
      /\ DOMAIN callbacks' = 1..(Len(callbacks) - 1)
      /\ Head(callbacks) = callbacks[1]
      /\ \A i \in DOMAIN callbacks' : callbacks'[i] = callbacks[i + 1]
  OBVIOUS
<1>2. SUFFICES ASSUME NEW i \in DOMAIN callbacks, i # 1
               PROVE  callbacks[i].revoked \subseteq ToRevoke'
  BY <1>1 DEF ToRevoke
<1>3. i - 1 \in DOMAIN callbacks' /\ callbacks'[i - 1] = callbacks[i]
  BY <1>1, <1>2
<1> QED
  BY <1>3 DEF ToRevoke

\* A delegation in force belongs to a running loan, or to one whose call is
\* waiting for a callback and will revoke it.
THEOREM NoStrayDelegationTheorem == Spec => []NoStrayDelegation
<1>1. Init => NoStrayDelegation
  BY DEF Init, NoStrayDelegation, OfRunningLoans, ToRevoke
<1>2. ASSUME TypeOK, NoStrayDelegation, [Next]_vars
      PROVE  NoStrayDelegation'
  <2>1. callbacks \in Seq(CallbackType)
    BY <1>2 DEF TypeOK, CustodyTyped
  <2>2. delegations \subseteq OfRunningLoans \cup ToRevoke
    BY <1>2 DEF NoStrayDelegation
  <2>3. SUFFICES delegations' \subseteq OfRunningLoans' \cup ToRevoke'
    BY DEF NoStrayDelegation
  <2>4. CASE Quiet
    BY <2>2, <2>4 DEF Quiet, OfRunningLoans, ToRevoke
  <2>5. CASE ReturnFromCallback
    <3>1. ToRevoke \subseteq Head(callbacks).revoked \cup ToRevoke'
      BY <2>1, <2>5, RevokedByPop DEF ReturnFromCallback
    <3>2. loans' = loans /\ delegations' = delegations \ Head(callbacks).revoked
      BY <2>5 DEF ReturnFromCallback, loanVars
    <3> QED
      BY <2>2, <3>1, <3>2 DEF OfRunningLoans
  <2>6. ASSUME NEW offer, NEW loan, Created(offer, loan)
        PROVE  delegations' \subseteq OfRunningLoans' \cup ToRevoke'
    <3>1. OfRunningLoans \cup Delegation(loan) \subseteq OfRunningLoans' /\ ToRevoke' = ToRevoke
      BY <2>6 DEF Created, OfRunningLoans, ToRevoke
    <3>2. delegations' = delegations \cup Delegation(loan)
      BY <2>6 DEF Created
    <3> QED
      BY <2>2, <3>1, <3>2
  <2>7. ASSUME NEW offer, NEW old, NEW loan, Replaced(offer, old, loan)
        PROVE  delegations' \subseteq OfRunningLoans' \cup ToRevoke'
    <3>1. Delegation(loan) = Delegation(old)
      BY <2>7 DEF Replaced, Delegation
    <3>2. OfRunningLoans \subseteq OfRunningLoans' /\ ToRevoke' = ToRevoke
      BY <2>7, <3>1 DEF Replaced, OfRunningLoans, ToRevoke
    <3> QED
      BY <2>2, <2>7, <3>2 DEF Replaced
  <2>8. ASSUME NEW old \in loans, Ended(old)
        PROVE  delegations' \subseteq OfRunningLoans' \cup ToRevoke'
    <3>1. OfRunningLoans \subseteq OfRunningLoans' \cup Delegation(old)
      BY <2>8 DEF Ended, OfRunningLoans
    <3>2. CASE delegations' = delegations \ Delegation(old) /\ callbacks' = callbacks
      BY <2>2, <3>1, <3>2 DEF ToRevoke
    <3>3. ASSUME NEW call, call.revoked = Delegation(old), callbacks' = <<call>> \o callbacks,
                 delegations' = delegations
          PROVE  delegations' \subseteq OfRunningLoans' \cup ToRevoke'
      BY <2>1, <2>2, <3>1, <3>3, RevokedByPush
    <3> QED
      BY <2>8, <3>2, <3>3 DEF Ended
  <2> QED
    BY <1>2, <2>4, <2>5, <2>6, <2>7, <2>8, EveryStep
<1> QED
  BY <1>1, <1>2, TypeTheorem, PTL DEF Spec

----------------------------------------------------------------------------
(* Delegations that stay.  A call that waits for a callback will revoke the   *)
(* delegation on an NFT that is still with a receiver, or carries a loan of   *)
(* one again.  That loan has not matured, since time stands still, so that    *)
(* the NFT can only go back to the same receiver.                             *)

WithReceiver(nft) ==
  \/ nft_owner[nft] \in Receivers
  \/ \E loan \in loans : /\ loan.collateral = nft /\ loan.borrower \in Receivers
                         /\ loan.maturity >= now

AwaitedAreWithReceivers ==
  \A d \in ToRevoke : d[2].contract # CryptoPunks /\ WithReceiver(d[2])

\* DelegationKept in the middle of calls as well.
AlwaysKept ==
  \A loan \in loans :
    ~CallsBack(loan.collateral, loan.borrower) => Delegation(loan) \subseteq delegations

KeptInv == AwaitedAreWithReceivers /\ AlwaysKept

\* Only the call of a push is new to what will be revoked, and nothing of a pop.
LEMMA RevokedAfterPush ==
  ASSUME NEW S, NEW call, callbacks \in Seq(S), callbacks' = <<call>> \o callbacks
  PROVE  ToRevoke' \subseteq call.revoked \cup ToRevoke
<1>1. /\ Len(callbacks) \in Nat /\ DOMAIN callbacks = 1..Len(callbacks)
      /\ DOMAIN callbacks' = 1..(Len(callbacks) + 1)
      /\ callbacks'[1] = call
      /\ \A i \in DOMAIN callbacks' : i # 1 => callbacks'[i] = callbacks[i - 1]
  OBVIOUS
<1>2. SUFFICES ASSUME NEW i \in DOMAIN callbacks', i # 1
               PROVE  callbacks'[i].revoked \subseteq ToRevoke
  BY <1>1 DEF ToRevoke
<1>3. i - 1 \in DOMAIN callbacks /\ callbacks'[i] = callbacks[i - 1]
  BY <1>1, <1>2
<1> QED
  BY <1>3 DEF ToRevoke

LEMMA RevokedAfterPop ==
  ASSUME NEW S, callbacks \in Seq(S), callbacks # <<>>, callbacks' = Tail(callbacks)
  PROVE  ToRevoke' \subseteq ToRevoke /\ Head(callbacks).revoked \subseteq ToRevoke
<1>1. /\ Len(callbacks) \in Nat /\ DOMAIN callbacks = 1..Len(callbacks)
      /\ DOMAIN callbacks' = 1..(Len(callbacks) - 1)
      /\ Head(callbacks) = callbacks[1] /\ 1 \in DOMAIN callbacks
      /\ \A i \in DOMAIN callbacks' : callbacks'[i] = callbacks[i + 1]
  OBVIOUS
<1>2. SUFFICES ASSUME NEW i \in DOMAIN callbacks'
               PROVE  callbacks'[i].revoked \subseteq ToRevoke
  BY <1>1 DEF ToRevoke
<1>3. i + 1 \in DOMAIN callbacks /\ callbacks'[i] = callbacks[i + 1]
  BY <1>1, <1>2
<1> QED
  BY <1>3 DEF ToRevoke

\* What an invariant of custody and types says about the loan on an NFT.
LEMMA OnlyLoan ==
  ASSUME IInv, NEW a \in loans
  PROVE  /\ a.collateral \in Nfts /\ a.maturity \in Int
         /\ nft_owner[a.collateral] = Vault
         /\ \A b \in loans : b.collateral = a.collateral => b = a
<1>1. a \in LoanType
  BY DEF IInv, TypeOK, LoansTyped
<1>2. a.collateral \in Nfts /\ a.maturity \in Int
  BY <1>1 DEF LoanType
<1> QED
  BY <1>2 DEF IInv, CustodyMatchesLoans, LoansOn

LEMMA AwaitedTyped ==
  ASSUME IInv, NEW d \in ToRevoke
  PROVE  d[2] \in Nfts
<1>1. PICK i \in DOMAIN callbacks : d \in callbacks[i].revoked
  BY DEF ToRevoke
<1>2. callbacks[i] \in CallbackType
  BY <1>1 DEF IInv, TypeOK, CustodyTyped
<1> QED
  BY <1>1, <1>2 DEF CallbackType

LEMMA AwaitedStep ==
  ASSUME IInv, AwaitedAreWithReceivers, [Next]_vars
  PROVE  AwaitedAreWithReceivers'
<1>1. /\ callbacks \in Seq(CallbackType) /\ now \in Int
      /\ nft_owner \in [Nfts -> Keepers \cup {Vault}] /\ Vault \notin Receivers
  BY PartiesAssumption, TermsAssumption DEF IInv, TypeOK, CustodyTyped
<1>2. \A offer \in Offers : now + offer.duration >= now
  BY <1>1, OffersAssumption
<1>3. CASE Quiet
  <2>1. ToRevoke' = ToRevoke
    BY <1>3 DEF Quiet, ToRevoke
  <2>2. CASE callbacks = <<>>
    BY <2>1, <2>2 DEF AwaitedAreWithReceivers, ToRevoke
  <2>3. CASE now' = now
    BY <1>3, <2>1, <2>3 DEF Quiet, AwaitedAreWithReceivers, WithReceiver
  <2> QED
    BY <1>3, <2>2, <2>3 DEF Quiet
<1>4. CASE ReturnFromCallback
  <2>1. ToRevoke' \subseteq ToRevoke
    BY <1>1, <1>4, RevokedAfterPop DEF ReturnFromCallback
  <2>2. UNCHANGED <<loans, nft_owner, now>>
    BY <1>4 DEF ReturnFromCallback, loanVars
  <2> QED
    BY <2>1, <2>2 DEF AwaitedAreWithReceivers, WithReceiver
<1>5. ASSUME NEW offer, NEW loan, Created(offer, loan)
      PROVE  AwaitedAreWithReceivers'
  <2>1. ToRevoke' = ToRevoke /\ loans' = loans \cup {loan} /\ loan.maturity >= now
        /\ now' = now /\ nft_owner[loan.collateral] = loan.borrower
        /\ nft_owner' = [nft_owner EXCEPT ![loan.collateral] = Vault]
    BY <1>2, <1>5 DEF Created, ToRevoke
  <2>2. SUFFICES ASSUME NEW d \in ToRevoke PROVE WithReceiver(d[2])'
    BY <2>1 DEF AwaitedAreWithReceivers
  <2>3. CASE \E l \in loans : /\ l.collateral = d[2] /\ l.borrower \in Receivers
                              /\ l.maturity >= now
    BY <2>1, <2>3 DEF WithReceiver
  <2>4. CASE nft_owner[d[2]] \in Receivers
    <3>1. CASE d[2] = loan.collateral
      BY <2>1, <2>4, <3>1 DEF WithReceiver
    <3>2. CASE d[2] # loan.collateral
      BY <1>1, <2>1, <2>4, <3>2, AwaitedTyped DEF WithReceiver
    <3> QED
      BY <3>1, <3>2
  <2> QED
    BY <2>3, <2>4 DEF AwaitedAreWithReceivers, WithReceiver
<1>6. ASSUME NEW offer, NEW old \in loans, NEW loan, Replaced(offer, old, loan)
      PROVE  AwaitedAreWithReceivers'
  <2>1. ToRevoke' = ToRevoke /\ loans' = (loans \ {old}) \cup {loan} /\ loan.maturity >= now
        /\ UNCHANGED <<now, nft_owner>>
        /\ loan.borrower = old.borrower /\ loan.collateral = old.collateral
    BY <1>2, <1>6 DEF Replaced, ToRevoke
  <2> QED
    BY <2>1 DEF AwaitedAreWithReceivers, WithReceiver
<1>7. ASSUME NEW old \in loans, Ended(old)
      PROVE  AwaitedAreWithReceivers'
  <2>1. PICK wallet :
          /\ wallet = old.borrower \/ now > old.maturity
          /\ nft_owner' = [nft_owner EXCEPT ![old.collateral] = wallet]
          /\ \/ callbacks' = callbacks
             \/ /\ CallsBack(old.collateral, wallet)
                /\ \E call : call.revoked = Delegation(old) /\ callbacks' = <<call>> \o callbacks
    BY <1>7 DEF Ended
  <2>2. now' = now /\ loans' = loans \ {old}
    BY <1>7 DEF Ended
  <2>3. ASSUME NEW d \in ToRevoke
        PROVE  d[2].contract # CryptoPunks /\ WithReceiver(d[2])'
    <3>1. d[2] \in Nfts /\ d[2].contract # CryptoPunks /\ WithReceiver(d[2])
      BY <2>3, AwaitedTyped DEF AwaitedAreWithReceivers
    <3>2. CASE d[2] = old.collateral
      <4>1. old.borrower \in Receivers /\ old.maturity >= now
        BY <1>1, <3>1, <3>2, OnlyLoan DEF WithReceiver
      <4>2. wallet = old.borrower
        BY <1>1, <2>1, <4>1, OnlyLoan
      <4> QED
        BY <1>1, <2>1, <3>1, <3>2, <4>1, <4>2 DEF WithReceiver
    <3>3. CASE d[2] # old.collateral
      BY <1>1, <2>1, <2>2, <3>1, <3>3 DEF WithReceiver
    <3> QED
      BY <3>1, <3>2, <3>3
  <2>4. CASE callbacks' = callbacks
    BY <2>3, <2>4 DEF AwaitedAreWithReceivers, ToRevoke
  <2>5. ASSUME CallsBack(old.collateral, wallet), NEW call, call.revoked = Delegation(old),
               callbacks' = <<call>> \o callbacks
        PROVE  AwaitedAreWithReceivers'
    <3>1. ToRevoke' \subseteq Delegation(old) \cup ToRevoke
      BY <1>1, <2>5, RevokedAfterPush
    <3>2. ASSUME NEW d \in Delegation(old)
          PROVE  d[2].contract # CryptoPunks /\ WithReceiver(d[2])'
      <4>1. d[2] = old.collateral
        BY <3>2 DEF Delegation
      <4> QED
        BY <1>1, <2>1, <2>5, <4>1, OnlyLoan DEF CallsBack, WithReceiver
    <3> QED
      BY <2>3, <3>1, <3>2 DEF AwaitedAreWithReceivers
  <2> QED
    BY <2>1, <2>4, <2>5
<1> QED
  BY <1>3, <1>4, <1>5, <1>6, <1>7, EveryStep

LEMMA KeptStep ==
  ASSUME IInv, KeptInv, [Next]_vars
  PROVE  AlwaysKept'
<1>1. /\ callbacks \in Seq(CallbackType)
      /\ \A loan \in loans :
           ~CallsBack(loan.collateral, loan.borrower) => Delegation(loan) \subseteq delegations
  BY DEF IInv, TypeOK, CustodyTyped, KeptInv, AlwaysKept
<1>2. \A loan, d : d \in Delegation(loan) => d[2] = loan.collateral
  BY DEF Delegation
<1>3. CASE Quiet
  BY <1>1, <1>3 DEF Quiet, AlwaysKept
<1>4. CASE ReturnFromCallback
  <2>1. loans' = loans /\ delegations' = delegations \ Head(callbacks).revoked
    BY <1>4 DEF ReturnFromCallback, loanVars
  <2>2. SUFFICES ASSUME NEW loan \in loans, ~CallsBack(loan.collateral, loan.borrower),
                        NEW d \in Delegation(loan)
                 PROVE  d \notin Head(callbacks).revoked
    BY <1>1, <2>1 DEF AlwaysKept
  <2>3. SUFFICES ASSUME d \in ToRevoke PROVE FALSE
    BY <1>1, <1>4, RevokedAfterPop DEF ReturnFromCallback
  <2>4. d[2] = loan.collateral /\ d[2].contract # CryptoPunks /\ WithReceiver(d[2])
    BY <1>2, <2>2, <2>3 DEF KeptInv, AwaitedAreWithReceivers
  <2>5. nft_owner[d[2]] \notin Receivers
    BY <2>4, OnlyLoan, PartiesAssumption
  <2>6. loan.borrower \in Receivers
    BY <2>4, <2>5, OnlyLoan DEF WithReceiver
  <2> QED
    BY <2>2, <2>4, <2>6 DEF CallsBack
<1>5. ASSUME NEW offer, NEW loan, Created(offer, loan)
      PROVE  AlwaysKept'
  BY <1>1, <1>5 DEF Created, AlwaysKept
<1>6. ASSUME NEW offer, NEW old \in loans, NEW loan, Replaced(offer, old, loan)
      PROVE  AlwaysKept'
  <2>1. loans' = (loans \ {old}) \cup {loan} /\ delegations' = delegations
        /\ loan.borrower = old.borrower /\ loan.collateral = old.collateral
    BY <1>6 DEF Replaced
  <2>2. Delegation(loan) = Delegation(old)
    BY <1>6 DEF Replaced, Delegation
  <2> QED
    BY <1>1, <2>1, <2>2 DEF AlwaysKept
<1>7. ASSUME NEW old \in loans, Ended(old)
      PROVE  AlwaysKept'
  <2>1. loans' = loans \ {old} /\ delegations \ Delegation(old) \subseteq delegations'
    BY <1>7 DEF Ended
  <2>2. SUFFICES ASSUME NEW loan \in loans, loan # old,
                        ~CallsBack(loan.collateral, loan.borrower)
                 PROVE  Delegation(loan) \subseteq delegations'
    BY <2>1 DEF AlwaysKept
  <2>3. loan.collateral # old.collateral
    BY <2>2, OnlyLoan
  <2>4. \A d \in Delegation(loan) : d \notin Delegation(old)
    BY <1>2, <2>3
  <2> QED
    BY <1>1, <2>1, <2>2, <2>4
<1> QED
  BY <1>3, <1>4, <1>5, <1>6, <1>7, EveryStep

\* The delegation of a loan stays until the loan ends, unless its borrower's own
\* callback can have pledged the NFT of a loan that was just ended.
THEOREM DelegationKeptTheorem == Spec => []DelegationKept
<1>1. Init => KeptInv
  BY DEF Init, KeptInv, AwaitedAreWithReceivers, ToRevoke, AlwaysKept
<1>2. IInv /\ KeptInv /\ [Next]_vars => KeptInv'
  BY AwaitedStep, KeptStep DEF KeptInv
<1>3. KeptInv => DelegationKept
  BY DEF KeptInv, AlwaysKept, DelegationKept
<1> QED
  BY <1>1, <1>2, <1>3, IInvTheorem, PTL DEF Spec

----------------------------------------------------------------------------
(* Custody. *)

PledgeOf(loan) ==
  [borrower |-> loan.borrower, lender |-> loan.lender, maturity |-> loan.maturity]

\* What `pledge` stands for.
Pledged == [nft \in Nfts |-> PledgeOn(nft)]

----------------------------------------------------------------------------
(* What a change of loans does to the pledges. *)

LEMMA PledgeOfOnlyLoan ==
  ASSUME NEW S, NEW loan \in S,
         \A l \in S : l.collateral = loan.collateral => l = loan
  PROVE  (CHOOSE l \in S : l.collateral = loan.collateral) = loan
  OBVIOUS

LEMMA PledgeOnUnpledged ==
  ASSUME NEW nft, LoansOn(nft) = {}
  PROVE  PledgeOn(nft) = None
  BY DEF PledgeOn, PledgeIn, LoansOn

LEMMA PledgeOnPledged ==
  ASSUME CustodyMatchesLoans, NEW loan \in loans, loan.collateral \in Nfts
  PROVE  PledgeOn(loan.collateral) = PledgeOf(loan)
<1>1. loan \in LoansOn(loan.collateral)
  BY DEF LoansOn
<1>2. \A l \in loans : l.collateral = loan.collateral => l = loan
  BY <1>1 DEF CustodyMatchesLoans, LoansOn
<1>3. (CHOOSE l \in loans : l.collateral = loan.collateral) = loan
  BY <1>2, PledgeOfOnlyLoan
<1> QED
  BY <1>1, <1>3 DEF PledgeOn, PledgeIn, LoansOn, PledgeOf

\* A pledge changes only where the loans do.
LEMMA PledgesChangeWithLoans ==
  ASSUME CustodyMatchesLoans, CustodyMatchesLoans', NEW nft \in Nfts,
         \A other \in Nfts \ {nft} : LoansOn(other)' = LoansOn(other)
  PROVE  Pledged' = [Pledged EXCEPT ![nft] = PledgeOn(nft)']
<1>1. ASSUME NEW other \in Nfts \ {nft}
      PROVE  PledgeOn(other)' = PledgeOn(other)
  <2>1. CASE LoansOn(other) = {}
    BY <1>1, <2>1 DEF PledgeOn, PledgeIn, LoansOn
  <2>2. CASE LoansOn(other) # {}
    <3>1. PICK loan \in loans : loan.collateral = other
      BY <2>2 DEF LoansOn
    <3>2. loan \in loans'
      BY <1>1, <3>1 DEF LoansOn
    <3>3. PledgeOn(other) = PledgeOf(loan)
      BY <3>1, PledgeOnPledged
    <3>4. \A l \in loans' : l.collateral = other => l = loan
      BY <1>1, <3>1, <3>2 DEF CustodyMatchesLoans, LoansOn
    <3>5. (CHOOSE l \in loans' : l.collateral = other) = loan
      BY <3>1, <3>2, <3>4, PledgeOfOnlyLoan
    <3>6. LoansOn(other)' # {}
      BY <1>1, <2>2
    <3> QED
      BY <3>3, <3>5, <3>6 DEF PledgeOn, PledgeIn, LoansOn, PledgeOf
  <2> QED
    BY <2>1, <2>2
<1> QED
  BY <1>1 DEF Pledged

\* A loan that is new on its NFT, with or without one before it.
LEMMA NewPledge ==
  ASSUME IInv, IInv', NEW loan \in loans', NEW old, old.collateral = loan.collateral,
         loans' = (loans \ {old}) \cup {loan},
         now' = now, loan.maturity >= now
  PROVE  Custody!NewTerms(loan.collateral) /\ Pledged'[loan.collateral] = PledgeOf(loan)
<1> DEFINE nft == loan.collateral
<1>1. CustodyMatchesLoans /\ CustodyMatchesLoans' /\ loan \in LoanType
  BY DEF IInv, TypeOK, LoansTyped
<1>2. nft \in Nfts /\ PledgeOf(loan) \in Custody!Pledges
  BY <1>1 DEF LoanType, PledgeOf, Custody!Pledges
<1>3. PledgeOn(nft)' = PledgeOf(loan)
  <2>1. \A l \in loans' : l.collateral = nft => l = loan
    BY <1>1, <1>2 DEF CustodyMatchesLoans, LoansOn
  <2>2. (CHOOSE l \in loans' : l.collateral = nft) = loan
    BY <2>1, PledgeOfOnlyLoan
  <2>3. LoansOn(nft)' # {}
    BY DEF LoansOn
  <2> QED
    BY <2>2, <2>3 DEF PledgeOn, PledgeIn, LoansOn, PledgeOf
<1>4. \A other \in Nfts \ {nft} : LoansOn(other)' = LoansOn(other)
  BY DEF LoansOn
<1>5. Pledged' = [Pledged EXCEPT ![nft] = PledgeOf(loan)]
  BY <1>1, <1>2, <1>3, <1>4, PledgesChangeWithLoans
<1>6. Pledged'[nft] = PledgeOf(loan)
  BY <1>2, <1>3 DEF Pledged
<1>7. PledgeOf(loan).maturity >= now
  BY DEF PledgeOf
<1> QED
  BY <1>2, <1>5, <1>6, <1>7 DEF Custody!NewTerms, Pledged

LEMMA EndedPledge ==
  ASSUME IInv, IInv', NEW loan \in loans, NEW wallet \in Wallets,
         loans' = loans \ {loan}, now' = now,
         nft_owner' = [nft_owner EXCEPT ![loan.collateral] = wallet]
  PROVE  Custody!Release(loan.collateral, wallet)
<1> DEFINE nft == loan.collateral
<1>1. CustodyMatchesLoans /\ CustodyMatchesLoans' /\ nft \in Nfts
  BY DEF IInv, TypeOK, LoansTyped, LoanType
<1>2. LoansOn(nft)' = {}
  BY <1>1 DEF CustodyMatchesLoans, LoansOn
<1>3. \A other \in Nfts \ {nft} : LoansOn(other)' = LoansOn(other)
  BY DEF LoansOn
<1>4. PledgeOn(nft)' = None
  BY <1>2 DEF PledgeOn, PledgeIn, LoansOn
<1>5. Pledged' = [Pledged EXCEPT ![nft] = None]
  BY <1>1, <1>3, <1>4, PledgesChangeWithLoans
<1> QED
  BY <1>5 DEF Custody!Release, Pledged

----------------------------------------------------------------------------
(* The steps. *)

LEMMA CreateLoanPledges ==
  ASSUME IInv, IInv', NEW msg \in Messages, NEW offer \in Offers, NEW nft \in Nfts,
         NEW d \in Delegates \cup {None}, NEW b \in BrokerTerms,
         CreateLoan(msg, offer, nft, d, b)
  PROVE  Custody!Pledge(nft)
<1> DEFINE borrower == IF msg.sender \in authorized_proxies THEN msg.origin ELSE msg.sender
           loan == NewLoan(offer, borrower, nft, LoanFees(offer, b, protocol), d)
<1>1. /\ loan.collateral = nft /\ loan.borrower = borrower
      /\ loan.maturity = now + offer.duration
  BY DEF NewLoan
<1>2. /\ loans' = loans \cup {loan} /\ now' = now
      /\ nft_owner[nft] = borrower
      /\ nft_owner' = [nft_owner EXCEPT ![nft] = Vault]
  BY DEF CreateLoan
<1> HIDE DEF loan, borrower
<1>3. /\ CustodyMatchesLoans /\ CustodyTyped /\ now \in Nat /\ offer.duration \in Nat
      /\ loan \in LoanType
  BY <1>2, OffersAssumption DEF IInv, TypeOK, LoansTyped
<1>4. borrower # Vault
  BY <1>2, <1>3, MessagesTyped, PartiesAssumption DEF borrower, LoanType
<1>5. LoansOn(nft) = {}
  BY <1>2, <1>3, <1>4 DEF CustodyMatchesLoans
<1>6. loan \notin loans
  BY <1>1, <1>5 DEF LoansOn
<1>7. Custody!NewTerms(nft) /\ Pledged'[nft] = PledgeOf(loan)
  <2>1. loans' = (loans \ {loan}) \cup {loan}
    BY <1>2
  <2> QED
    BY <1>1, <1>2, <1>3, <2>1, NewPledge
<1>8. Pledged[nft] = None
  BY <1>5 DEF Pledged, PledgeOn, PledgeIn, LoansOn
<1> QED
  BY <1>1, <1>2, <1>7, <1>8 DEF Custody!Pledge, Pledged, PledgeOf

LEMMA LoanIsPledged ==
  ASSUME IInv, NEW loan \in loans
  PROVE  /\ loan \in LoanType
         /\ Pledged[loan.collateral] = PledgeOf(loan)
         /\ PledgeOf(loan) # None
<1>1. CustodyMatchesLoans /\ loan \in LoanType
  BY DEF IInv, TypeOK, LoansTyped
<1>2. loan.collateral \in Nfts
  BY <1>1 DEF LoanType
<1>3. PledgeOf(loan) \in [borrower : Wallets, lender : Wallets, maturity : Nat]
  BY <1>1 DEF LoanType, PledgeOf
<1>4. PledgeOf(loan) # None
  BY <1>3, PartiesAssumption
<1> QED
  BY <1>1, <1>2, <1>4, PledgeOnPledged DEF Pledged

LEMMA SettleLoanRedeems ==
  ASSUME IInv, IInv', NEW msg \in Messages, NEW loan \in loans, SettleLoan(msg, loan)
  PROVE  Custody!Redeem(loan.collateral)
<1>1. /\ now <= loan.maturity /\ loans' = loans \ {loan} /\ now' = now
      /\ nft_owner' = [nft_owner EXCEPT ![loan.collateral] = loan.borrower]
  BY DEF SettleLoan, ReturnCollateral
<1>2. Custody!Release(loan.collateral, loan.borrower)
  BY <1>1, LoanIsPledged, EndedPledge DEF LoanType
<1>3. PledgeOf(loan).borrower = loan.borrower /\ PledgeOf(loan).maturity = loan.maturity
  BY DEF PledgeOf
<1> QED
  BY <1>1, <1>2, <1>3, LoanIsPledged DEF Custody!Redeem, Pledged

LEMMA ClaimForfeits ==
  ASSUME IInv, IInv', NEW msg \in Messages, NEW loan \in loans,
         ClaimDefaultedLoanCollateral(msg, loan)
  PROVE  Custody!Forfeit(loan.collateral)
<1>1. /\ now > loan.maturity /\ loans' = loans \ {loan} /\ now' = now
      /\ nft_owner' = [nft_owner EXCEPT ![loan.collateral] = loan.lender]
  BY DEF ClaimDefaultedLoanCollateral, Defaulted, ReturnCollateral
<1>2. Custody!Release(loan.collateral, loan.lender)
  BY <1>1, LoanIsPledged, EndedPledge DEF LoanType
<1>3. PledgeOf(loan).lender = loan.lender /\ PledgeOf(loan).maturity = loan.maturity
  BY DEF PledgeOf
<1> QED
  BY <1>1, <1>2, <1>3, LoanIsPledged DEF Custody!Forfeit, Pledged

\* Both replacements.
LEMMA ReplaceRenews ==
  ASSUME IInv, IInv', NEW loan \in loans, NEW offer \in Offers, NEW fees,
         Replace(loan, offer, fees), UNCHANGED <<now, nft_owner>>
  PROVE  Custody!Renew(loan.collateral)
<1> DEFINE new == NewLoan(offer, loan.borrower, loan.collateral, fees, loan.delegate)
<1>1. /\ new.collateral = loan.collateral /\ new.borrower = loan.borrower
      /\ new.maturity = now + offer.duration
  BY DEF NewLoan
<1>2. now <= loan.maturity /\ loans' = (loans \ {loan}) \cup {new}
  BY DEF Replace
<1> HIDE DEF new
<1>3. now \in Nat /\ offer.duration \in Nat
  BY OffersAssumption DEF IInv, TypeOK
<1>4. new \in loans' /\ new.maturity >= now
  BY <1>1, <1>2, <1>3
<1>5. Custody!NewTerms(loan.collateral) /\ Pledged'[loan.collateral] = PledgeOf(new)
  BY <1>1, <1>2, <1>4, NewPledge
<1>6. /\ PledgeOf(loan).borrower = loan.borrower /\ PledgeOf(loan).maturity = loan.maturity
      /\ PledgeOf(new).borrower = loan.borrower
  BY <1>1 DEF PledgeOf
<1> QED
  BY <1>2, <1>5, <1>6, LoanIsPledged DEF Custody!Renew, Pledged

\* Every other step leaves loans, NFTs and, but for Tick, the time alone.
LEMMA QuietStep ==
  ASSUME UNCHANGED <<loans, nft_owner>>, UNCHANGED now \/ now' = now + 1
  PROVE  Custody!Next \/ UNCHANGED Custody!vars
<1>1. Pledged' = Pledged
  BY DEF Pledged, PledgeOn, PledgeIn
<1> QED
  BY <1>1 DEF Custody!Next, Custody!Tick, Custody!vars, Pledged

LEMMA StepImplements ==
  ASSUME IInv, IInv', [Next]_vars
  PROVE  [Custody!Next]_(Custody!vars)
<1>1. ASSUME NEW msg \in Messages, UserCall(msg)
      PROVE  [Custody!Next]_(Custody!vars)
  <2>1. ASSUME NEW offer \in Offers, NEW nft \in Nfts, NEW d \in Delegates \cup {None},
               NEW b \in BrokerTerms, CreateLoan(msg, offer, nft, d, b)
        PROVE  Custody!Next
    BY <2>1, CreateLoanPledges DEF Custody!Next
  <2>2. ASSUME NEW loan \in loans,
               \/ SettleLoan(msg, loan)
               \/ ClaimDefaultedLoanCollateral(msg, loan)
               \/ \E offer \in Offers, b \in BrokerTerms : ReplaceLoan(msg, loan, offer, b)
               \/ \E offer \in Offers : ReplaceLoanLender(msg, loan, offer)
        PROVE  Custody!Next
    <3>1. loan.collateral \in Nfts
      BY LoanIsPledged DEF LoanType
    <3>2. ASSUME \/ \E offer \in Offers, b \in BrokerTerms : ReplaceLoan(msg, loan, offer, b)
                 \/ \E offer \in Offers : ReplaceLoanLender(msg, loan, offer)
          PROVE  Custody!Renew(loan.collateral)
      <4>1. \E offer \in Offers : \E fees : Replace(loan, offer, fees)
        BY <3>2 DEF ReplaceLoan, ReplaceLoanLender
      <4>2. UNCHANGED <<now, nft_owner>>
        BY <3>2 DEF ReplaceLoan, ReplaceLoanLender, custodyVars
      <4> QED
        BY <4>1, <4>2, ReplaceRenews
    <3> QED
      BY <2>2, <3>1, <3>2, SettleLoanRedeems, ClaimForfeits DEF Custody!Next
  <2>3. ASSUME NEW offer \in Offers, RevokeOffer(msg, offer)
        PROVE  UNCHANGED <<now, loans, nft_owner>>
    BY <2>3 DEF RevokeOffer, custodyVars
  <2> QED
    BY <1>1, <2>1, <2>2, <2>3, QuietStep DEF UserCall
<1>2. CASE ReturnFromCallback \/ ClaimStep \/ AdminStep \/ ControlStep \/ UNCHANGED vars
  <2>1. UNCHANGED <<now, loans, nft_owner>>
    BY <1>2 DEF ReturnFromCallback, ClaimStep, ClaimPendingTransfers, AdminStep,
       SetProtocolFee, ChangeProtocolWallet, SetProxyAuthorization, ProposeOwner,
       ClaimOwnership, NotAdministered, ControlStep, vars, loanVars, custodyVars
  <2> QED
    BY <2>1, QuietStep
<1>3. CASE EnvironmentStep
  <2>1. UNCHANGED <<loans, nft_owner>> /\ (UNCHANGED now \/ now' = now + 1)
    BY <1>3 DEF EnvironmentStep, Tick, SetBlacklisted, InstallLenderClaim, loanVars, custodyVars
  <2> QED
    BY <2>1, QuietStep
<1> QED
  BY <1>1, <1>2, <1>3 DEF Next, LendingNext, GovernanceStep, UserStep

\* Every behaviour of the lending contract is one of CollateralCustody: until a
\* loan's maturity its collateral goes back to the borrower or stays under
\* another loan of the same borrower, after it it goes to the lender alone.
THEOREM CustodyRefinementTheorem == Spec => CustodySpec
<1>1. Init => Custody!Init
  BY DEF Init, Custody!Init, PledgeOn, PledgeIn, LoansOn
<1>2. IInv /\ IInv' /\ [Next]_vars => [Custody!Next]_(Custody!vars)
  BY StepImplements
<1> QED
  BY <1>1, <1>2, IInvTheorem, PTL DEF Spec, CustodySpec, Custody!Spec

----------------------------------------------------------------------------
(* Settlement. *)

\* What an account has or may claim, by a funds value.
WealthIn(f, account) == f.balance[account] + f.pending[account]

\* _get_loan_fees, "settlement fees gt principal": what the protocol and the
\* lender's broker take of the interest is no more than the interest.
FeesBounded ==
  \A loan \in loans :
    loan.fees["PROTOCOL_FEE"].interest_bps + loan.fees["LENDER_BROKER_FEE"].interest_bps
      <= BPS

LEMMA WealthInNat ==
  ASSUME NEW f \in FundsType, NEW account \in Outside
  PROVE  WealthIn(f, account) \in Nat /\ account \in Accounts /\ account # Vault
  BY VaultIsNoParty DEF FundsType, WealthIn

\* What counts on a condition only.
AmountIf(condition, amount) == IF condition THEN amount ELSE 0

\* What one account pays in is what it has less, and takes nothing from another.
LEMMA ReceiveCharges ==
  ASSUME NEW f \in FundsType, NEW from \in Outside, NEW amount \in Nat,
         NEW account \in Outside
  PROVE  WealthIn(ReceiveFunds(f, from, amount), account)
           = WealthIn(f, account) - AmountIf(account = from, amount)
<1> DEFINE taken == [f.balance EXCEPT ![from] = @ - amount]
           moved == [taken EXCEPT ![Vault] = @ + amount]
<1>1. account \in Accounts /\ account # Vault
  BY WealthInNat
<1>2. ReceiveFunds(f, from, amount) = [f EXCEPT !.balance = moved]
  BY DEF ReceiveFunds, Transfer
<1>3. moved[account] = f.balance[account] - AmountIf(account = from, amount)
  BY <1>1 DEF FundsType, AmountIf
<1>4. f.balance[account] \in Nat /\ f.pending[account] \in Nat
  BY <1>1 DEF FundsType
<1>5. AmountIf(account = from, amount) \in Nat
  BY DEF AmountIf
<1> HIDE DEF moved
<1>6. WealthIn([f EXCEPT !.balance = moved], account) = moved[account] + f.pending[account]
  BY DEF WealthIn, FundsType
<1> QED
  BY <1>2, <1>3, <1>4, <1>5, <1>6 DEF WealthIn

\* Between parties, only the one that pays has less.
LEMMA TransferCharges ==
  ASSUME NEW f \in FundsType, NEW from \in Outside, NEW to \in Outside \cup {None},
         NEW amount \in Nat, NEW account \in Outside
  PROVE  WealthIn(Transfer(f, from, to, amount), account)
           >= WealthIn(f, account) - AmountIf(account = from, amount)
<1> DEFINE taken == [f.balance EXCEPT ![from] = @ - amount]
           moved == [taken EXCEPT ![to] = @ + amount]
<1>1. account \in Accounts
  BY WealthInNat
<1>2. Transfer(f, from, to, amount) = [f EXCEPT !.balance = moved]
  BY DEF Transfer
<1>3. f.balance[account] \in Nat /\ f.pending[account] \in Nat /\ f.balance \in [Accounts -> Nat]
  BY <1>1 DEF FundsType
<1>4. taken[account] = f.balance[account] - AmountIf(account = from, amount)
  BY <1>1, <1>3 DEF AmountIf
<1>5. AmountIf(account = from, amount) \in Nat
  BY DEF AmountIf
<1>6. moved[account] >= f.balance[account] - AmountIf(account = from, amount)
  <2>1. account \in DOMAIN taken
    BY <1>1, <1>3
  <2> HIDE DEF taken
  <2>2. moved[account] = IF account = to THEN taken[account] + amount ELSE taken[account]
    BY <2>1
  <2> HIDE DEF moved
  <2> QED
    BY <1>3, <1>4, <1>5, <2>2
<1>7. moved[account] \in Int
  <2>1. account \in DOMAIN taken
    BY <1>1, <1>3
  <2> HIDE DEF taken
  <2>2. moved[account] = IF account = to THEN taken[account] + amount ELSE taken[account]
    BY <2>1
  <2> HIDE DEF moved
  <2> QED
    BY <1>3, <1>4, <1>5, <2>2
<1> HIDE DEF moved
<1>8. WealthIn([f EXCEPT !.balance = moved], account) = moved[account] + f.pending[account]
  BY DEF WealthIn, FundsType
<1> QED
  BY <1>2, <1>3, <1>5, <1>6, <1>7, <1>8 DEF WealthIn

\* What the vault sends takes nothing from anybody outside, and the recipient
\* has the amount, whether the transfer succeeds or is kept for it.
LEMMA SendReachesRecipient ==
  ASSUME NEW f \in FundsType, NEW to \in Outside \cup {None}, NEW amount \in Nat,
         NEW account \in Outside
  PROVE  /\ WealthIn(SendFunds(f, to, amount), account) >= WealthIn(f, account)
         /\ account = to =>
              WealthIn(SendFunds(f, to, amount), account) = WealthIn(f, account) + amount
<1>1. /\ account \in Accounts /\ account # Vault /\ to # Vault
      /\ f.balance \in [Accounts -> Nat] /\ f.pending \in [Accounts -> Nat]
      /\ f.balance[account] \in Nat /\ f.pending[account] \in Nat
  BY VaultIsNoParty, WealthInNat DEF FundsType
<1>2. CASE CanTransfer(f, Vault, to, amount)
  <2> DEFINE taken == [f.balance EXCEPT ![Vault] = @ - amount]
             moved == [taken EXCEPT ![to] = @ + amount]
  <2>1. SendFunds(f, to, amount) = [f EXCEPT !.balance = moved]
    BY <1>2 DEF SendFunds, Transfer
  <2>2. moved[account]
          = IF account = to THEN f.balance[account] + amount ELSE f.balance[account]
    BY <1>1
  <2> HIDE DEF moved
  <2>3. WealthIn(SendFunds(f, to, amount), account) = moved[account] + f.pending[account]
    BY <2>1 DEF WealthIn, FundsType
  <2> QED
    BY <1>1, <2>2, <2>3 DEF WealthIn
<1>3. CASE ~CanTransfer(f, Vault, to, amount)
  <2> DEFINE parked == [f.pending EXCEPT ![to] = @ + amount]
  <2>1. SendFunds(f, to, amount)
          = [balance |-> f.balance, pending |-> parked, owed |-> f.owed + amount]
    BY <1>3 DEF SendFunds
  <2>2. parked[account]
          = IF account = to THEN f.pending[account] + amount ELSE f.pending[account]
    BY <1>1
  <2> HIDE DEF parked
  <2>3. WealthIn(SendFunds(f, to, amount), account) = f.balance[account] + parked[account]
    BY <2>1 DEF WealthIn
  <2> QED
    BY <1>1, <2>2, <2>3 DEF WealthIn
<1> QED
  BY <1>2, <1>3

LEMMA SettlementFeeTakesNothing ==
  ASSUME NEW f \in FundsType, NEW loan, IsTerms(loan), LoanFeesOK(loan.fees),
         NEW interest \in Nat, NEW type \in FeeTypes, NEW account \in Outside
  PROVE  WealthIn(SendSettlementFee(f, loan, interest, type), account) >= WealthIn(f, account)
<1> DEFINE fee == loan.fees[type]
           amount == SettlementFee(loan, interest, type)
<1>1. fee.wallet \in Outside \cup {None} /\ amount \in Nat
  BY SettlementFeeNat, FeeTyped DEF LoanFeesOK
<1>2. CASE fee.interest_bps > 0
  <2>1. SendSettlementFee(f, loan, interest, type) = SendFunds(f, fee.wallet, amount)
    BY <1>2 DEF SendSettlementFee, SendIf
  <2> HIDE DEF fee, amount
  <2> QED
    BY <1>1, <2>1, SendReachesRecipient
<1>3. CASE ~(fee.interest_bps > 0)
  <2>1. SendSettlementFee(f, loan, interest, type) = f
    BY <1>3 DEF SendSettlementFee, SendIf
  <2> QED
    BY <2>1, WealthInNat
<1> QED
  BY <1>2, <1>3

LEMMA SettlementFeesTakeNothing ==
  ASSUME NEW f \in FundsType, NEW loan, IsTerms(loan), LoanFeesOK(loan.fees),
         NEW interest \in Nat, NEW account \in Outside
  PROVE  WealthIn(SendSettlementFees(f, loan, interest), account) >= WealthIn(f, account)
<1> DEFINE f1 == SendSettlementFee(f, loan, interest, "PROTOCOL_FEE")
           f2 == SendSettlementFee(f1, loan, interest, "LENDER_BROKER_FEE")
           f3 == SendSettlementFee(f2, loan, interest, "BORROWER_BROKER_FEE")
<1>1. f1 \in FundsType /\ WealthIn(f1, account) >= WealthIn(f, account)
  BY SendSettlementFeeTakes, SettlementFeeTakesNothing DEF FeeTypes
<1> HIDE DEF f1
<1>2. f2 \in FundsType /\ WealthIn(f2, account) >= WealthIn(f1, account)
  BY <1>1, SendSettlementFeeTakes, SettlementFeeTakesNothing DEF FeeTypes
<1> HIDE DEF f2
<1>3. f3 \in FundsType /\ WealthIn(f3, account) >= WealthIn(f2, account)
  BY <1>2, SendSettlementFeeTakes, SettlementFeeTakesNothing DEF FeeTypes
<1>4. SendSettlementFees(f, loan, interest) = f3
  BY DEF SendSettlementFees, f1, f2
<1> HIDE DEF f3
<1> QED
  BY <1>1, <1>2, <1>3, <1>4, WealthInNat

LEMMA UpfrontFeeTakesNothing ==
  ASSUME NEW f \in FundsType, NEW fee \in FeeType, NEW account \in Outside
  PROVE  WealthIn(SendUpfrontFee(f, fee), account) >= WealthIn(f, account)
<1>1. /\ fee.wallet \in Outside \cup {None} /\ fee.upfront_amount \in Nat
  BY FeeTyped
<1>2. CASE fee.upfront_amount > 0
  <2>1. SendUpfrontFee(f, fee) = SendFunds(f, fee.wallet, fee.upfront_amount)
    BY <1>2 DEF SendUpfrontFee, SendIf
  <2> QED
    BY <1>1, <2>1, SendReachesRecipient
<1>3. CASE ~(fee.upfront_amount > 0)
  <2>1. SendUpfrontFee(f, fee) = f
    BY <1>3 DEF SendUpfrontFee, SendIf
  <2> QED
    BY <2>1, WealthInNat
<1> QED
  BY <1>2, <1>3

LEMMA UpfrontFeesTakeNothing ==
  ASSUME NEW f \in FundsType, NEW fees, LoanFeesOK(fees), NEW account \in Outside
  PROVE  WealthIn(SendUpfrontFees(f, fees), account) >= WealthIn(f, account)
<1> DEFINE f1 == SendUpfrontFee(f, fees["PROTOCOL_FEE"])
           f2 == SendUpfrontFee(f1, fees["LENDER_BROKER_FEE"])
           f3 == SendUpfrontFee(f2, fees["BORROWER_BROKER_FEE"])
<1>1. /\ fees["PROTOCOL_FEE"] \in FeeType /\ fees["LENDER_BROKER_FEE"] \in FeeType
      /\ fees["BORROWER_BROKER_FEE"] \in FeeType
  BY DEF LoanFeesOK, FeeTypes
<1>2. f1 \in FundsType /\ WealthIn(f1, account) >= WealthIn(f, account)
  BY <1>1, SendUpfrontFeeTakes, UpfrontFeeTakesNothing
<1> HIDE DEF f1
<1>3. f2 \in FundsType /\ WealthIn(f2, account) >= WealthIn(f1, account)
  BY <1>1, <1>2, SendUpfrontFeeTakes, UpfrontFeeTakesNothing
<1> HIDE DEF f2
<1>4. f3 \in FundsType /\ WealthIn(f3, account) >= WealthIn(f2, account)
  BY <1>1, <1>3, SendUpfrontFeeTakes, UpfrontFeeTakesNothing
<1>5. SendUpfrontFees(f, fees) = f3
  BY DEF SendUpfrontFees, f1, f2
<1> HIDE DEF f3
<1> QED
  BY <1>2, <1>3, <1>4, <1>5, WealthInNat

LEMMA SendIfReaches ==
  ASSUME NEW f \in FundsType, NEW to \in Outside, NEW amount, NEW condition \in BOOLEAN,
         condition => amount \in Nat, NEW account \in Outside
  PROVE  /\ SendIf(condition, f, to, amount) \in FundsType
         /\ WealthIn(SendIf(condition, f, to, amount), account) >= WealthIn(f, account)
         /\ condition /\ account = to =>
              WealthIn(SendIf(condition, f, to, amount), account)
                = WealthIn(f, account) + amount
<1>1. CASE condition
  <2>1. SendIf(condition, f, to, amount) = SendFunds(f, to, amount) /\ amount \in Nat
    BY <1>1 DEF SendIf
  <2> QED
    BY <2>1, SendFundsTakes, SendReachesRecipient
<1>2. CASE ~condition
  <2>1. SendIf(condition, f, to, amount) = f
    BY <1>2 DEF SendIf
  <2> QED
    BY <1>2, <2>1, WealthInNat
<1> QED
  BY <1>1, <1>2

\* What the funds of a call say of wealth before and after it.
LEMMA WealthMoves ==
  ASSUME TypeOK, PendingAddsUp, NEW account \in Outside, NEW f \in FundsType, SetFunds(f)
  PROVE  /\ CurrentFunds \in FundsType
         /\ WealthIn(CurrentFunds, account) = Wealth(account)
         /\ WealthIn(f, account) = Wealth(account)'
         /\ Wealth(account) \in Nat /\ Wealth(account)' \in Nat
<1>1. CurrentFunds \in FundsType
  BY CurrentFundsTyped DEF TypeOK
<1>2. /\ WealthIn(CurrentFunds, account) = Wealth(account)
      /\ WealthIn(f, account) = Wealth(account)'
  BY DEF WealthIn, CurrentFunds, SetFunds, Wealth
<1> QED
  BY <1>1, <1>2, WealthInNat

----------------------------------------------------------------------------
\* A settlement takes nothing from anybody but the borrower, and its lender has
\* the principal.
LEMMA SettleLoanMoves ==
  ASSUME TypeOK, LoansStarted, PendingAddsUp, NEW msg \in Messages,
         NEW loan \in loans, SettleLoan(msg, loan),
         NEW account \in Outside, account # loan.borrower
  PROVE  /\ Wealth(account)' >= Wealth(account)
         /\ FeesBounded /\ account = loan.lender =>
              Wealth(account)' >= Wealth(account) + loan.amount
<1> DEFINE interest == SettlementInterest(loan, now)
           due == Repayment(loan, interest)
           proceeds == LenderProceeds(loan, interest)
           f0 == CurrentFunds
           f1 == ReceiveFunds(f0, loan.borrower, due)
           f2 == SendFunds(f1, loan.lender, proceeds)
           f3 == SendSettlementFees(f2, loan, interest)
<1>1. FundsTyped /\ loan \in LoanType /\ now \in Nat /\ loan.start_time <= now
  BY DEF TypeOK, LoansTyped, LoansStarted
<1>2. /\ InterestDefined(loan) /\ LenderProceedsDefined(loan, interest)
      /\ CanReceiveFunds(f0, loan.borrower, due)
      /\ SetFunds(f3)
  BY DEF SettleLoan
<1>3. /\ IsTerms(loan) /\ LoanFeesOK(loan.fees)
      /\ loan.borrower \in Outside /\ loan.lender \in Outside
  BY <1>1, LoanTyped
<1>4. interest \in Nat
  BY <1>1, <1>2, <1>3, InterestNat
<1> HIDE DEF interest
<1>5. FeesBounded => proceeds >= loan.amount
  BY <1>3, <1>4, LenderKeepsPrincipalTheorem DEF FeesBounded
<1>6. \A type \in FeeTypes : SettlementFee(loan, interest, type) \in Nat
  BY <1>3, <1>4, SettlementFeeNat
<1>7. due \in Nat /\ proceeds \in Nat /\ loan.amount \in Nat
  BY <1>2, <1>3, <1>4, <1>6 DEF Repayment, LenderProceeds, LenderProceedsDefined,
     SettlementFeesTotal, BorrowerBrokerFee, FeeTypes, IsTerms
<1> HIDE DEF due, proceeds
<1>8. f0 \in FundsType
  BY <1>1, CurrentFundsTyped
<1> HIDE DEF f0
<1>9. f1 \in FundsType /\ WealthIn(f1, account) = WealthIn(f0, account)
  <2>1. WealthIn(f1, account) = WealthIn(f0, account) - AmountIf(account = loan.borrower, due)
    BY <1>3, <1>7, <1>8, ReceiveCharges
  <2>2. AmountIf(account = loan.borrower, due) = 0
    BY DEF AmountIf
  <2> QED
    BY <1>2, <1>3, <1>7, <1>8, <2>1, <2>2, ReceiveFundsAdds, WealthInNat
<1> HIDE DEF f1
<1>10. /\ f2 \in FundsType /\ WealthIn(f2, account) >= WealthIn(f1, account)
       /\ account = loan.lender =>
            WealthIn(f2, account) = WealthIn(f1, account) + proceeds
  BY <1>3, <1>7, <1>9, SendFundsTakes, SendReachesRecipient
<1> HIDE DEF f2
<1>11. WealthIn(f3, account) >= WealthIn(f2, account) /\ f3 \in FundsType
  BY <1>3, <1>4, <1>10, SettlementFeesTakeNothing, SendSettlementFeesTakes
<1> HIDE DEF f3
<1>12. /\ WealthIn(f0, account) = Wealth(account) /\ WealthIn(f3, account) = Wealth(account)'
       /\ WealthIn(f2, account) \in Nat
  BY <1>2, <1>10, <1>11, WealthMoves, WealthInNat DEF f0
<1> QED
  BY <1>5, <1>7, <1>8, <1>9, <1>10, <1>11, <1>12, WealthInNat

----------------------------------------------------------------------------
\* How the set of loans changes: a loan is made from an offer whose fees are
\* bounded, or ends.
Makes(loan) ==
  \E offer \in Offers, broker \in FeeTerms :
    /\ LoanFeesDefined(offer, broker, protocol, FeeCaps, None)
    /\ loan.fees = LoanFees(offer, broker, protocol)

MadeInPlaceOf(loan, new) ==
  /\ Makes(new)
  /\ IdUnusedIn(new, loans \ {loan})
  /\ loans' = (loans \ {loan}) \cup {new}

LEMMA LoansChange ==
  ASSUME [Next]_vars
  PROVE  \/ loans' = loans
         \/ \E new : Makes(new) /\ loans' = loans \cup {new}
         \/ \E loan \in loans : \E new : MadeInPlaceOf(loan, new)
         \/ \E msg \in Messages, loan \in loans :
              /\ SettleLoan(msg, loan) \/ ClaimDefaultedLoanCollateral(msg, loan)
              /\ loans' = loans \ {loan}
<1>1. ASSUME NEW msg \in Messages, NEW offer \in Offers, NEW nft \in Nfts,
             NEW d \in Delegates \cup {None}, NEW b \in BrokerTerms,
             CreateLoan(msg, offer, nft, d, b)
      PROVE  \E new : Makes(new) /\ loans' = loans \cup {new}
  <2> DEFINE borrower == IF msg.sender \in authorized_proxies THEN msg.origin ELSE msg.sender
             new == NewLoan(offer, borrower, nft, LoanFees(offer, b, protocol), d)
  <2>1. new.fees = LoanFees(offer, b, protocol)
    BY DEF NewLoan
  <2>2. LoanFeesDefined(offer, b, protocol, FeeCaps, None) /\ loans' = loans \cup {new}
    BY <1>1 DEF CreateLoan
  <2> HIDE DEF new
  <2> QED
    BY <2>1, <2>2, TermsAssumption DEF Makes
<1>2. ASSUME NEW loan \in loans, NEW offer \in Offers, NEW broker \in FeeTerms,
             LoanFeesDefined(offer, broker, protocol, FeeCaps, None),
             Replace(loan, offer, LoanFees(offer, broker, protocol))
      PROVE  \E new : MadeInPlaceOf(loan, new)
  <2> DEFINE fees == LoanFees(offer, broker, protocol)
             new == NewLoan(offer, loan.borrower, loan.collateral, fees, loan.delegate)
  <2>1. new.fees = fees
    BY DEF NewLoan
  <2>2. IdUnusedIn(new, loans \ {loan}) /\ loans' = (loans \ {loan}) \cup {new}
    BY <1>2 DEF Replace
  <2> HIDE DEF new
  <2> QED
    BY <1>2, <2>1, <2>2 DEF Makes, MadeInPlaceOf
<1>3. ASSUME NEW msg \in Messages, NEW loan \in loans,
             \/ \E offer \in Offers, b \in BrokerTerms : ReplaceLoan(msg, loan, offer, b)
             \/ \E offer \in Offers : ReplaceLoanLender(msg, loan, offer)
      PROVE  \E new : MadeInPlaceOf(loan, new)
  <2>1. PICK offer \in Offers, broker \in FeeTerms :
          /\ LoanFeesDefined(offer, broker, protocol, FeeCaps, None)
          /\ Replace(loan, offer, LoanFees(offer, broker, protocol))
    BY <1>3, TermsAssumption, NoBrokerTyped DEF ReplaceLoan, ReplaceLoanLender
  <2> QED
    BY <1>2, <2>1
<1>4. CASE UserStep
  BY <1>1, <1>3, <1>4 DEF UserStep, UserCall, SettleLoan, ClaimDefaultedLoanCollateral,
     RevokeOffer
<1>5. CASE ReturnFromCallback \/ ClaimStep
  BY <1>5 DEF ReturnFromCallback, ClaimStep, ClaimPendingTransfers, loanVars
<1>6. CASE EnvironmentStep
  BY <1>6 DEF EnvironmentStep, Tick, SetBlacklisted, InstallLenderClaim, loanVars
<1>7. CASE AdminStep
  BY <1>7 DEF AdminStep, SetProtocolFee, ChangeProtocolWallet, SetProxyAuthorization,
     ProposeOwner, ClaimOwnership, NotAdministered, loanVars
<1>8. CASE ControlStep
  BY <1>8 DEF ControlStep, loanVars
<1>9. CASE UNCHANGED vars
  BY <1>9 DEF vars, loanVars
<1> QED
  BY <1>4, <1>5, <1>6, <1>7, <1>8, <1>9 DEF Next, LendingNext, GovernanceStep

\* The rates of a loan that is made are those of the fees then in force.
LEMMA MadeBounded ==
  ASSUME NEW new, Makes(new)
  PROVE  new.fees["PROTOCOL_FEE"].interest_bps + new.fees["LENDER_BROKER_FEE"].interest_bps
           <= BPS
  BY DEF Makes, LoanFeesDefined, LoanFees, FeeTypes

\* The rates of a running loan were checked when it was made, and no change of
\* the protocol fee touches them.
THEOREM FeesBoundedTheorem == Spec => []FeesBounded
<1>1. Init => FeesBounded
  BY DEF Init, FeesBounded
<1>2. FeesBounded /\ [Next]_vars => FeesBounded'
  <2> SUFFICES ASSUME FeesBounded, [Next]_vars PROVE FeesBounded'
    OBVIOUS
  <2>1. \A loan \in loans' : loan \in loans \/ Makes(loan)
    BY LoansChange DEF MadeInPlaceOf
  <2> QED
    BY <2>1, MadeBounded DEF FeesBounded
<1> QED
  BY <1>1, <1>2, PTL DEF Spec

\* A loan settled by its borrower gives the lender at least its principal back,
\* at once or as a transfer to claim: whatever fees and recipients, and whatever
\* transfers the payment token refuses.
THEOREM SettlementRepaysTheorem == Spec => SettlementRepaysLender
<1>1. ASSUME IInv, FeesBounded, [Next]_vars, NEW loan \in loans \ loans',
             loans' \subseteq loans, now <= loan.maturity, loan.lender # loan.borrower
      PROVE  Wealth(loan.lender)' >= Wealth(loan.lender) + loan.amount
  <2>1. ASSUME NEW old \in loans, NEW new, MadeInPlaceOf(old, new)
        PROVE  FALSE
    <3>1. new \in loans /\ new \notin loans \ {old}
      BY <1>1, <2>1 DEF MadeInPlaceOf, IdUnusedIn
    <3> QED
      BY <1>1, <2>1, <3>1 DEF MadeInPlaceOf
  <2>2. PICK msg \in Messages, old \in loans :
          /\ SettleLoan(msg, old) \/ ClaimDefaultedLoanCollateral(msg, old)
          /\ loans' = loans \ {old}
    BY <1>1, <2>1, LoansChange
  <2>3. old = loan
    BY <1>1, <2>2
  <2>4. now \in Nat /\ loan.maturity \in Nat
    BY <1>1 DEF IInv, TypeOK, LoansTyped, LoanType
  <2>5. SettleLoan(msg, loan)
    BY <1>1, <2>2, <2>3, <2>4 DEF ClaimDefaultedLoanCollateral, Defaulted
  <2>6. loan.lender \in Outside
    BY <1>1 DEF IInv, TypeOK, LoansTyped, LoanType, Outside
  <2> QED
    BY <1>1, <2>5, <2>6, SettleLoanMoves DEF IInv
<1>2. ASSUME IInv, FeesBounded, [Next]_vars
      PROVE  \A loan \in loans \ loans' :
               /\ loans' \subseteq loans
               /\ now <= loan.maturity
               /\ loan.lender # loan.borrower
               => Wealth(loan.lender)' >= Wealth(loan.lender) + loan.amount
  BY <1>1, <1>2
<1> QED
  BY <1>2, IInvTheorem, FeesBoundedTheorem, PTL DEF Spec, SettlementRepaysLender

----------------------------------------------------------------------------
(* Who pays. *)

\* A new loan charges its lender what the offer says, and nobody else.
LEMMA CreateLoanMoves ==
  ASSUME TypeOK, PendingAddsUp, NEW msg \in Messages, NEW offer \in Offers,
         NEW nft \in Nfts, NEW d \in Delegates \cup {None}, NEW b \in BrokerTerms,
         CreateLoan(msg, offer, nft, d, b), NEW account \in Outside
  PROVE  Wealth(account)'
           >= Wealth(account) - AmountIf(account = offer.lender, NewLenderPays(offer))
<1> DEFINE borrower == IF msg.sender \in authorized_proxies THEN msg.origin ELSE msg.sender
           fees == LoanFees(offer, b, protocol)
           proceeds == BorrowerProceeds(offer, fees)
           Upfront(type) == fees[type].upfront_amount
           Paid(f, type) == IF Upfront(type) > 0
                              THEN Transfer(f, offer.lender, fees[type].wallet, Upfront(type))
                              ELSE f
           CanPay(f, type) == Upfront(type) > 0
                  => CanTransfer(f, offer.lender, fees[type].wallet, Upfront(type))
           f0 == CurrentFunds
           f1 == Transfer(f0, offer.lender, borrower, proceeds)
           f2 == Paid(f1, "PROTOCOL_FEE")
           f3 == Paid(f2, "LENDER_BROKER_FEE")
           f4 == Paid(f3, "BORROWER_BROKER_FEE")
           Charge(amount) == AmountIf(account = offer.lender, amount)
<1>1. /\ FundsTyped /\ AdminTyped /\ CustodyTyped
  BY DEF TypeOK
<1>2. /\ nft_owner[nft] = borrower /\ BorrowerProceedsDefined(offer, fees)
      /\ CanTransfer(f0, offer.lender, borrower, proceeds)
      /\ CanPay(f1, "PROTOCOL_FEE")
      /\ CanPay(f2, "LENDER_BROKER_FEE")
      /\ CanPay(f3, "BORROWER_BROKER_FEE")
      /\ SetFunds(f4)
  BY DEF CreateLoan
<1>3. /\ b \in FeeTerms /\ offer.lender \in Outside
      /\ LoanFeesDefined(offer, b, protocol, FeeCaps, None)
  BY OfferTyped, TermsAssumption DEF Outside, CreateLoan
<1>4. /\ LoanFeesOK(fees)
      /\ \A type \in FeeTypes : Upfront(type) \in Nat
  BY <1>1, <1>3, FeesTyped
<1>5. \A type \in FeeTypes : fees[type].wallet \in Outside \cup {None}
  BY <1>4, FeeTyped DEF LoanFeesOK
<1>6. /\ proceeds \in Nat
      /\ NewLenderPays(offer) = proceeds + Upfront("PROTOCOL_FEE")
                                 + Upfront("LENDER_BROKER_FEE") + Upfront("BORROWER_BROKER_FEE")
  <2>1. /\ Upfront("ORIGINATION_FEE") = offer.origination_fee_amount
        /\ Upfront("LENDER_BROKER_FEE") = offer.broker_upfront_fee_amount
    BY DEF LoanFees, FeeTypes
  <2> HIDE DEF fees
  <2> QED
    BY <1>2, <1>4, <2>1, OfferTyped DEF BorrowerProceeds, BorrowerProceedsDefined,
       TotalUpfrontFees, NewLenderPays, FeeTypes, IsOffer
<1>7. borrower \in Outside
  BY <1>1, <1>2, MessagesTyped, PartiesAssumption DEF CustodyTyped, Keepers, Outside
<1>8. f0 \in FundsType
  BY <1>1, CurrentFundsTyped
<1>9. f1 \in FundsType /\ WealthIn(f1, account) >= WealthIn(f0, account) - Charge(proceeds)
  <2> HIDE DEF f0, proceeds, borrower
  <2> QED
    BY <1>2, <1>3, <1>6, <1>7, <1>8, TransferOutside, TransferCharges
<1>10. ASSUME NEW f \in FundsType, NEW type \in FeeTypes, CanPay(f, type)
       PROVE  /\ Paid(f, type) \in FundsType
              /\ WealthIn(Paid(f, type), account) >= WealthIn(f, account) - Charge(Upfront(type))
  <2>1. CASE Upfront(type) > 0
    <3> DEFINE to == fees[type].wallet
               amount == Upfront(type)
    <3>1. to \in Outside \cup {None} /\ amount \in Nat
      BY <1>4, <1>5
    <3>2. CanTransfer(f, offer.lender, to, amount)
      BY <1>10, <2>1
    <3>3. Paid(f, type) = Transfer(f, offer.lender, to, amount)
      BY <2>1
    <3> DEFINE g == Transfer(f, offer.lender, to, amount)
    <3>4. /\ g \in FundsType
          /\ WealthIn(g, account) >= WealthIn(f, account) - Charge(amount)
      <4> HIDE DEF to, amount
      <4> QED
        BY <1>3, <3>1, <3>2, TransferOutside, TransferCharges
    <3> HIDE DEF g
    <3> QED
      BY <3>3, <3>4 DEF g
  <2>2. CASE ~(Upfront(type) > 0)
    <3>1. Paid(f, type) = f /\ Upfront(type) = 0
      BY <1>4, <2>2
    <3> HIDE DEF Paid
    <3> QED
      BY <3>1, WealthInNat DEF AmountIf
  <2> QED
    BY <2>1, <2>2
<1> HIDE DEF f1, Paid, CanPay
<1>11. /\ f2 \in FundsType
       /\ WealthIn(f2, account) >= WealthIn(f1, account) - Charge(Upfront("PROTOCOL_FEE"))
  BY <1>2, <1>9, <1>10 DEF FeeTypes
<1> HIDE DEF f2
<1>12. /\ f3 \in FundsType
       /\ WealthIn(f3, account) >= WealthIn(f2, account) - Charge(Upfront("LENDER_BROKER_FEE"))
  BY <1>2, <1>11, <1>10 DEF FeeTypes
<1> HIDE DEF f3
<1>13. /\ f4 \in FundsType
       /\ WealthIn(f4, account) >= WealthIn(f3, account) - Charge(Upfront("BORROWER_BROKER_FEE"))
  BY <1>2, <1>12, <1>10 DEF FeeTypes
<1> HIDE DEF f4
<1>14. WealthIn(f0, account) = Wealth(account) /\ WealthIn(f4, account) = Wealth(account)'
  BY <1>2, <1>13, WealthMoves
<1>15. /\ WealthIn(f0, account) \in Nat /\ WealthIn(f1, account) \in Nat
       /\ WealthIn(f2, account) \in Nat /\ WealthIn(f3, account) \in Nat
       /\ WealthIn(f4, account) \in Nat
  BY <1>8, <1>9, <1>11, <1>12, <1>13, WealthInNat
<1> HIDE DEF f0, proceeds, Upfront
<1>16. /\ Upfront("PROTOCOL_FEE") \in Nat /\ Upfront("LENDER_BROKER_FEE") \in Nat
       /\ Upfront("BORROWER_BROKER_FEE") \in Nat
  BY <1>4 DEF FeeTypes
<1> QED
  BY <1>6, <1>9, <1>11, <1>12, <1>13, <1>14, <1>15, <1>16 DEF AmountIf

\* A replacement by the borrower takes from others only what the new lender's
\* offer says, and pays the old lender what a settlement would.
LEMMA ReplaceLoanMoves ==
  ASSUME TypeOK, LoansStarted, PendingAddsUp, NEW msg \in Messages,
         NEW loan \in loans, NEW offer \in Offers, NEW b \in BrokerTerms,
         ReplaceLoan(msg, loan, offer, b), NEW account \in Outside, account # loan.borrower
  PROVE  /\ Wealth(account)'
              >= Wealth(account) - AmountIf(account = offer.lender, NewLenderPays(offer))
         /\ FeesBounded /\ account = loan.lender =>
              Wealth(account)' >= Wealth(account) + loan.amount
                                   - AmountIf(account = offer.lender, NewLenderPays(offer))
<1> DEFINE interest == SettlementInterest(loan, now)
           fees == LoanFees(offer, b, protocol)
           delta == ReplaceBorrowerDelta(loan, offer, fees, interest)
           current == LenderProceeds(loan, interest)
           new == NewLenderPays(offer)
           same == loan.lender = offer.lender
           from == IF same THEN new - current ELSE new
           f0 == CurrentFunds
           f1 == IF delta < 0 THEN ReceiveFunds(f0, loan.borrower, -delta) ELSE f0
           f2 == IF same /\ from <= 0 THEN f1 ELSE ReceiveFunds(f1, offer.lender, from)
           f3 == IF same THEN SendIf(from < 0, f2, loan.lender, -from)
                         ELSE SendFunds(f2, loan.lender, current)
           f4 == SendIf(delta > 0, f3, loan.borrower, delta)
           f5 == SendSettlementFees(f4, loan, interest)
           f6 == SendUpfrontFees(f5, fees)
           lends == account = offer.lender
           lent == account = loan.lender
<1>1. /\ FundsTyped /\ AdminTyped /\ loan \in LoanType
      /\ now \in Nat /\ loan.start_time <= now
  BY DEF TypeOK, LoansTyped, LoansStarted
<1>2. /\ Replace(loan, offer, fees) /\ LenderProceedsDefined(loan, interest)
      /\ LoanFeesDefined(offer, b, protocol, FeeCaps, None)
      /\ delta < 0 => CanReceiveFunds(f0, loan.borrower, -delta)
      /\ ~(same /\ from <= 0) => CanReceiveFunds(f1, offer.lender, from)
      /\ SetFunds(f6)
  BY DEF ReplaceLoan
<1>3. InterestDefined(loan) /\ offer.origination_fee_amount <= offer.principal
  BY <1>2 DEF Replace, LoanFeesDefined
<1>4. /\ IsTerms(loan) /\ LoanFeesOK(loan.fees) /\ IsOffer(offer)
      /\ loan.borrower \in Outside /\ loan.lender \in Outside /\ offer.lender \in Outside
  BY <1>1, LoanTyped, OfferTyped DEF Outside
<1>5. interest \in Nat
  BY <1>1, <1>3, <1>4, InterestNat
<1> HIDE DEF interest
<1>6. /\ LoanFeesOK(fees)
      /\ \A type \in FeeTypes : fees[type].upfront_amount \in Nat
  <2>1. b \in FeeTerms
    BY TermsAssumption
  <2> QED
    BY <1>1, <1>2, <2>1, FeesTyped
<1> HIDE DEF fees
<1>7. \A type \in FeeTypes : SettlementFee(loan, interest, type) \in Nat
  BY <1>4, <1>5, SettlementFeeNat
<1>8. /\ current \in Nat /\ new \in Nat /\ delta \in Int /\ loan.amount \in Nat
  BY <1>2, <1>3, <1>4, <1>5, <1>6, <1>7 DEF LenderProceeds, LenderProceedsDefined,
     SettlementFeesTotal, BorrowerBrokerFee, FeeTypes, IsTerms, IsOffer, NewLenderPays,
     ReplaceBorrowerDelta, TotalUpfrontFees
<1>9. FeesBounded => current >= loan.amount
  BY <1>4, <1>5, LenderKeepsPrincipalTheorem DEF FeesBounded
<1> HIDE DEF current, new, delta
<1>10. f0 \in FundsType
  BY <1>1, CurrentFundsTyped
<1> HIDE DEF f0
<1>11. f1 \in FundsType /\ WealthIn(f1, account) = WealthIn(f0, account)
  <2>1. CASE delta < 0
    <3>1. -delta \in Nat /\ f1 = ReceiveFunds(f0, loan.borrower, -delta)
      BY <1>8, <2>1
    <3>2. AmountIf(account = loan.borrower, -delta) = 0
      BY DEF AmountIf
    <3> HIDE DEF f1
    <3>3. WealthIn(f1, account)
            = WealthIn(f0, account) - AmountIf(account = loan.borrower, -delta)
      BY <1>4, <1>10, <3>1, ReceiveCharges
    <3> QED
      BY <1>2, <1>4, <1>10, <2>1, <3>1, <3>2, <3>3, ReceiveFundsAdds, WealthInNat
  <2>2. CASE ~(delta < 0)
    BY <1>10, <2>2
  <2> QED
    BY <2>1, <2>2
<1> HIDE DEF f1
<1>12. from \in Int /\ (~(same /\ from <= 0) => from \in Nat)
  BY <1>8
<1>13. /\ f2 \in FundsType
       /\ same /\ from <= 0 => f2 = f1
       /\ ~(same /\ from <= 0) =>
            WealthIn(f2, account) = WealthIn(f1, account) - AmountIf(lends, from)
  <2>1. CASE same /\ from <= 0
    BY <1>11, <2>1
  <2>2. CASE ~(same /\ from <= 0)
    <3>1. from \in Nat /\ CanReceiveFunds(f1, offer.lender, from)
      BY <1>2, <1>12, <2>2
    <3>2. f2 = ReceiveFunds(f1, offer.lender, from)
      BY <2>2
    <3> HIDE DEF from, f2
    <3> QED
      BY <1>4, <1>11, <2>2, <3>1, <3>2, ReceiveFundsAdds, ReceiveCharges
  <2> QED
    BY <2>1, <2>2
<1> HIDE DEF f2
<1>14. /\ f3 \in FundsType
       /\ WealthIn(f3, account)
            >= WealthIn(f1, account) + AmountIf(lent, current) - AmountIf(lends, new)
  <2>1. CASE ~same
    <3>1. f3 = SendFunds(f2, loan.lender, current) /\ from = new
      BY <2>1
    <3>2. WealthIn(f2, account) = WealthIn(f1, account) - AmountIf(lends, new)
      BY <1>13, <2>1, <3>1
    <3> HIDE DEF from, f3
    <3>3. /\ f3 \in FundsType /\ WealthIn(f3, account) >= WealthIn(f2, account)
          /\ lent => WealthIn(f3, account) = WealthIn(f2, account) + current
      BY <1>4, <1>8, <1>13, <3>1, SendFundsTakes, SendReachesRecipient
    <3> QED
      BY <1>8, <1>11, <1>13, <3>2, <3>3, WealthInNat DEF AmountIf
  <2>2. CASE same /\ from < 0
    <3>1. f3 = SendIf(from < 0, f2, loan.lender, -from) /\ -from \in Nat /\ from = new - current
          /\ f2 = f1 /\ lends = lent
      BY <1>12, <1>13, <2>2
    <3> HIDE DEF from, f3
    <3>2. /\ f3 \in FundsType /\ WealthIn(f3, account) >= WealthIn(f1, account)
          /\ lent => WealthIn(f3, account) = WealthIn(f1, account) + (-from)
      BY <1>4, <1>11, <2>2, <3>1, SendIfReaches
    <3> QED
      BY <1>8, <1>11, <3>1, <3>2, WealthInNat DEF AmountIf
  <2>3. CASE same /\ ~(from < 0)
    <3>1. f3 = f2 /\ from = new - current /\ lends = lent
      BY <2>3 DEF SendIf
    <3>2. from = 0 \/ ~(same /\ from <= 0)
      BY <1>12, <2>3
    <3> HIDE DEF from, f3
    <3>3. WealthIn(f2, account) = WealthIn(f1, account) - AmountIf(lends, from)
      BY <1>11, <1>13, <2>3, <3>2, WealthInNat DEF AmountIf
    <3> QED
      BY <1>8, <1>11, <1>13, <3>1, <3>3, WealthInNat DEF AmountIf
  <2> QED
    BY <2>1, <2>2, <2>3
<1> HIDE DEF f3, from, same
<1>15. f4 \in FundsType /\ WealthIn(f4, account) >= WealthIn(f3, account)
  <2>1. (delta > 0 => delta \in Nat) /\ (delta > 0) \in BOOLEAN
    BY <1>8
  <2> QED
    BY <1>4, <1>14, <2>1, SendIfReaches
<1> HIDE DEF f4
<1>16. f5 \in FundsType /\ WealthIn(f5, account) >= WealthIn(f4, account)
  BY <1>4, <1>5, <1>15, SendSettlementFeesTakes, SettlementFeesTakeNothing
<1> HIDE DEF f5
<1>17. f6 \in FundsType /\ WealthIn(f6, account) >= WealthIn(f5, account)
  BY <1>6, <1>16, SendUpfrontFeesTakes, UpfrontFeesTakeNothing
<1> HIDE DEF f6
<1>18. WealthIn(f0, account) = Wealth(account) /\ WealthIn(f6, account) = Wealth(account)'
  BY <1>2, <1>17, WealthMoves DEF f0
<1>19. /\ WealthIn(f0, account) \in Nat /\ WealthIn(f3, account) \in Nat
       /\ WealthIn(f4, account) \in Nat /\ WealthIn(f5, account) \in Nat
       /\ WealthIn(f6, account) \in Nat
  BY <1>10, <1>14, <1>15, <1>16, <1>17, WealthInNat
<1>20. Wealth(account)' >= Wealth(account) + AmountIf(lent, current) - AmountIf(lends, new)
  BY <1>8, <1>11, <1>14, <1>15, <1>16, <1>17, <1>18, <1>19 DEF AmountIf
<1>21. Wealth(account) \in Nat /\ Wealth(account)' \in Nat
  BY <1>18, <1>19
<1> HIDE DEF lends, lent
<1>22. Wealth(account)' >= Wealth(account) - AmountIf(lends, new)
  BY <1>8, <1>20, <1>21 DEF AmountIf
<1>23. FeesBounded /\ lent =>
         Wealth(account)' >= Wealth(account) + loan.amount - AmountIf(lends, new)
  BY <1>8, <1>9, <1>20, <1>21 DEF AmountIf
<1> QED
  BY <1>22, <1>23 DEF new, lends, lent

\* A replacement by the lender takes from others only what the new lender's offer
\* says; the borrower's compensation comes out of what the old lender receives.
LEMMA ReplaceLoanLenderMoves ==
  ASSUME TypeOK, LoansStarted, PendingAddsUp, NEW msg \in Messages,
         NEW loan \in loans, NEW offer \in Offers, ReplaceLoanLender(msg, loan, offer),
         NEW account \in Outside, account # loan.lender
  PROVE  Wealth(account)'
           >= Wealth(account) - AmountIf(account = offer.lender, NewLenderPays(offer))
<1> DEFINE interest == SettlementInterest(loan, now)
           fees == LoanFees(offer, NoBroker, protocol)
           delta == LenderReplaceBorrowerDelta(loan, offer, interest, now)
           current == LenderReplaceCurrentDelta(loan, offer, fees, interest, now)
           new == NewLenderPays(offer)
           same == loan.lender = offer.lender
           from == IF same THEN new - current ELSE new
           f0 == CurrentFunds
           f1 == IF same /\ from = 0 THEN f0 ELSE ReceiveFunds(f0, offer.lender, from)
           f2 == SendIf(~same /\ current > 0, f1, loan.lender, current)
           f3 == SendIf(delta > 0, f2, loan.borrower, delta)
           f4 == SendSettlementFees(f3, loan, interest)
           f5 == SendUpfrontFees(f4, fees)
           lends == account = offer.lender
<1>1. /\ FundsTyped /\ AdminTyped /\ loan \in LoanType
      /\ now \in Nat /\ loan.start_time <= now
  BY DEF TypeOK, LoansTyped, LoansStarted
<1>2. /\ Replace(loan, offer, fees) /\ MaxInterestDeltaDefined(offer)
      /\ LoanFeesDefined(offer, NoBroker, protocol, FeeCaps, None)
      /\ IF same THEN from >= 0 ELSE current >= 0
      /\ ~(same /\ from = 0) => CanReceiveFunds(f0, offer.lender, from)
      /\ SetFunds(f5)
  BY DEF ReplaceLoanLender
<1>3. InterestDefined(loan) /\ offer.origination_fee_amount <= offer.principal
  BY <1>2 DEF Replace, LoanFeesDefined
<1>4. /\ IsTerms(loan) /\ LoanFeesOK(loan.fees) /\ IsOffer(offer)
      /\ loan.borrower \in Outside /\ loan.lender \in Outside /\ offer.lender \in Outside
  BY <1>1, LoanTyped, OfferTyped DEF Outside
<1>5. interest \in Nat
  BY <1>1, <1>3, <1>4, InterestNat
<1> HIDE DEF interest
<1>6. /\ LoanFeesOK(fees)
      /\ \A type \in FeeTypes : fees[type].upfront_amount \in Nat
  BY <1>1, <1>2, FeesTyped, NoBrokerTyped
<1> HIDE DEF fees
<1>7. BorrowerCompensation(loan, offer, interest, now) \in Int
  <2> DEFINE extra == MaxInterestDelta(loan, offer, interest, now)
             due == interest + BorrowerBrokerFee(loan, interest)
                      - (offer.principal - loan.amount)
  <2>1. extra \in Int
    BY <1>1, <1>2, <1>4, <1>5, MaxInterestDeltaInt
  <2>2. BorrowerBrokerFee(loan, interest) \in Nat
    BY <1>4, <1>5, SettlementFeeNat DEF BorrowerBrokerFee, FeeTypes
  <2>3. due \in Int
    BY <1>4, <1>5, <2>2 DEF IsTerms, IsOffer
  <2>4. BorrowerCompensation(loan, offer, interest, now) = MaxOf(extra, due)
    BY DEF BorrowerCompensation
  <2> HIDE DEF extra, due
  <2> QED
    BY <2>1, <2>3, <2>4 DEF MaxOf
<1>8. new \in Nat /\ delta \in Int /\ current \in Int
  <2>1. BorrowerBrokerFee(loan, interest) \in Nat /\ SettlementFeesTotal(loan, interest) \in Nat
    BY <1>4, <1>5, SettlementFeeNat DEF BorrowerBrokerFee, SettlementFeesTotal, FeeTypes
  <2> QED
    BY <1>3, <1>4, <1>5, <1>6, <1>7, <2>1 DEF LenderReplaceBorrowerDelta, NewLenderPays,
       LenderReplaceCurrentDelta, TotalUpfrontFees, FeeTypes, IsTerms, IsOffer
<1> HIDE DEF current, new, delta
<1>9. f0 \in FundsType
  BY <1>1, CurrentFundsTyped
<1> HIDE DEF f0
<1>10. /\ from \in Nat /\ (~same => from = new)
  BY <1>2, <1>8
<1>11. f1 \in FundsType /\ WealthIn(f1, account) >= WealthIn(f0, account) - AmountIf(lends, new)
  <2>1. CASE same /\ from = 0
    BY <1>8, <1>9, <2>1, WealthInNat DEF AmountIf
  <2>2. CASE ~(same /\ from = 0)
    <3>1. f1 = ReceiveFunds(f0, offer.lender, from) /\ CanReceiveFunds(f0, offer.lender, from)
      BY <1>2, <2>2
    <3>2. same => ~lends
      OBVIOUS
    <3> HIDE DEF from, f1, same
    <3>3. /\ f1 \in FundsType
          /\ WealthIn(f1, account) = WealthIn(f0, account) - AmountIf(lends, from)
      BY <1>4, <1>9, <1>10, <3>1, ReceiveFundsAdds, ReceiveCharges
    <3> QED
      BY <1>8, <1>9, <1>10, <3>2, <3>3, WealthInNat DEF AmountIf
  <2> QED
    BY <2>1, <2>2
<1> HIDE DEF f1, from
<1>12. f2 \in FundsType /\ WealthIn(f2, account) >= WealthIn(f1, account)
  <2>1. ~same /\ current > 0 => current \in Nat
    BY <1>8
  <2>2. (~same /\ current > 0) \in BOOLEAN
    OBVIOUS
  <2> HIDE DEF same
  <2> QED
    BY <1>4, <1>11, <2>1, <2>2, SendIfReaches
<1> HIDE DEF f2, same
<1>13. f3 \in FundsType /\ WealthIn(f3, account) >= WealthIn(f2, account)
  <2>1. (delta > 0 => delta \in Nat) /\ (delta > 0) \in BOOLEAN
    BY <1>8
  <2> QED
    BY <1>4, <1>12, <2>1, SendIfReaches
<1> HIDE DEF f3
<1>14. f4 \in FundsType /\ WealthIn(f4, account) >= WealthIn(f3, account)
  BY <1>4, <1>5, <1>13, SendSettlementFeesTakes, SettlementFeesTakeNothing
<1> HIDE DEF f4
<1>15. f5 \in FundsType /\ WealthIn(f5, account) >= WealthIn(f4, account)
  BY <1>6, <1>14, SendUpfrontFeesTakes, UpfrontFeesTakeNothing
<1> HIDE DEF f5
<1>16. WealthIn(f0, account) = Wealth(account) /\ WealthIn(f5, account) = Wealth(account)'
  BY <1>2, <1>15, WealthMoves DEF f0
<1>17. /\ WealthIn(f0, account) \in Nat /\ WealthIn(f1, account) \in Nat
       /\ WealthIn(f2, account) \in Nat /\ WealthIn(f3, account) \in Nat
       /\ WealthIn(f4, account) \in Nat /\ WealthIn(f5, account) \in Nat
  BY <1>9, <1>11, <1>12, <1>13, <1>14, <1>15, WealthInNat
<1>18. Wealth(account)' >= Wealth(account) - AmountIf(lends, new)
  BY <1>8, <1>11, <1>12, <1>13, <1>14, <1>15, <1>16, <1>17 DEF AmountIf
<1> QED
  BY <1>18 DEF new, lends

\* A claim of pending transfers turns one part of an account's wealth into the other.
LEMMA ClaimPendingTransfersMoves ==
  ASSUME FundsTyped, NEW claimant \in Outside, ClaimPendingTransfers(claimant),
         NEW account \in Outside
  PROVE  Wealth(account)' = Wealth(account)
<1> DEFINE amount == pending_transfers[claimant]
           cleared == [pending_transfers EXCEPT ![claimant] = 0]
           taken == [balance EXCEPT ![Vault] = @ - amount]
           moved == [taken EXCEPT ![claimant] = @ + amount]
<1>1. balance' = moved /\ pending_transfers' = cleared
  BY DEF ClaimPendingTransfers, SetFunds, Transfer
<1>2. /\ account \in Accounts /\ account # Vault /\ claimant \in Accounts
      /\ balance \in [Accounts -> Nat] /\ pending_transfers \in [Accounts -> Nat]
  BY VaultIsNoParty DEF FundsTyped
<1>3. /\ moved[account]
           = IF account = claimant THEN balance[account] + amount ELSE balance[account]
      /\ cleared[account] = IF account = claimant THEN 0 ELSE pending_transfers[account]
  BY <1>2
<1>4. /\ amount \in Nat /\ balance[account] \in Nat /\ pending_transfers[account] \in Nat
      /\ account = claimant => amount = pending_transfers[account]
  BY <1>2
<1>5. Wealth(account)' = moved[account] + cleared[account]
  BY <1>1 DEF Wealth
<1> HIDE DEF moved, cleared, amount
<1> QED
  BY <1>3, <1>4, <1>5 DEF Wealth

\* Only calls of users end loans or move anybody's wealth.
LEMMA OtherStepsMoveNothing ==
  ASSUME TypeOK, [Next]_vars, ~UserStep, NEW account \in Outside
  PROVE  loans' = loans /\ Wealth(account)' = Wealth(account)
<1>1. CASE ClaimStep
  <2>1. PICK claimant \in Outside : ClaimPendingTransfers(claimant)
    <3>1. callbacks # <<>> => Head(callbacks) \in CallbackType
      BY DEF TypeOK, CustodyTyped
    <3>2. callbacks # <<>> => Head(callbacks).receiver \in Wallets
      BY <3>1 DEF CallbackType
    <3> QED
      BY <1>1, <3>2 DEF ClaimStep, Outside
  <2>2. Wealth(account)' = Wealth(account)
    BY <2>1, ClaimPendingTransfersMoves DEF TypeOK
  <2> QED
    BY <2>1, <2>2 DEF ClaimPendingTransfers, loanVars
<1>2. ASSUME UNCHANGED <<loans, fundVars>>
      PROVE  loans' = loans /\ Wealth(account)' = Wealth(account)
  BY <1>2 DEF fundVars, Wealth
<1>3. CASE ReturnFromCallback
  BY <1>2, <1>3 DEF ReturnFromCallback, loanVars
<1>4. CASE EnvironmentStep
  BY <1>2, <1>4 DEF EnvironmentStep, Tick, SetBlacklisted, InstallLenderClaim, loanVars
<1>5. CASE AdminStep
  BY <1>2, <1>5 DEF AdminStep, SetProtocolFee, ChangeProtocolWallet, SetProxyAuthorization,
     ProposeOwner, ClaimOwnership, NotAdministered, loanVars
<1>6. CASE ControlStep
  BY <1>2, <1>6 DEF ControlStep, loanVars
<1>7. CASE UNCHANGED vars
  BY <1>2, <1>7 DEF vars, loanVars
<1> QED
  BY <1>1, <1>3, <1>4, <1>5, <1>6, <1>7 DEF Next, LendingNext, GovernanceStep

\* The lender of an offer lends on the NFT of the loan the call makes.
LEMMA CreateLoanLends ==
  ASSUME NEW msg \in Messages, NEW offer \in Offers,
         NEW nft \in Nfts, NEW d \in Delegates \cup {None}, NEW b \in BrokerTerms,
         CreateLoan(msg, offer, nft, d, b)
  PROVE  LendsOn(offer, nft)
<1> DEFINE borrower == IF msg.sender \in authorized_proxies THEN msg.origin ELSE msg.sender
           new == NewLoan(offer, borrower, nft, LoanFees(offer, b, protocol), d)
<1>1. new.offer_id = offer.id /\ new.collateral = nft /\ new.start_time = now
  BY DEF NewLoan
<1>2. new \in loans' /\ OfferOpen(offer)
  BY DEF CreateLoan
<1> HIDE DEF new
<1> QED
  BY <1>1, <1>2 DEF LendsOn

LEMMA ReplaceLends ==
  ASSUME NEW loan \in loans, NEW offer \in Offers, NEW fees, Replace(loan, offer, fees)
  PROVE  /\ LendsOn(offer, loan.collateral)
         /\ \E new : loans' = (loans \ {loan}) \cup {new}
<1> DEFINE new == NewLoan(offer, loan.borrower, loan.collateral, fees, loan.delegate)
<1>1. new.offer_id = offer.id /\ new.collateral = loan.collateral /\ new.start_time = now
  BY DEF NewLoan
<1>2. loans' = (loans \ {loan}) \cup {new} /\ OfferOpen(offer)
  BY DEF Replace
<1> HIDE DEF new
<1> QED
  BY <1>1, <1>2 DEF LendsOn

\* One call and one account.
LEMMA CallCharges ==
  ASSUME IInv, NEW msg \in Messages, UserCall(msg), NEW account \in Outside,
         ~CheckUser(msg, account)
  PROVE  \/ Wealth(account)' >= Wealth(account)
         \/ \E offer \in Offers, nft \in Nfts :
              /\ offer.lender = account /\ LendsOn(offer, nft)
              /\ Wealth(account)' >= Wealth(account) - NewLenderPays(offer)
<1> DEFINE Charged(offer, nft) ==
             /\ offer.lender = account /\ LendsOn(offer, nft)
             /\ Wealth(account)' >= Wealth(account) - NewLenderPays(offer)
<1>1. TypeOK /\ LoansStarted /\ PendingAddsUp
  BY DEF IInv
<1>2. Wealth(account) \in Nat
  BY <1>1, CurrentFundsTyped, WealthInNat DEF TypeOK, Wealth, WealthIn, CurrentFunds
<1>3. \A loan \in loans : loan.collateral \in Nfts
  BY <1>1 DEF TypeOK, LoansTyped, LoanType
<1>4. ASSUME NEW offer \in Offers, NEW nft \in Nfts, LendsOn(offer, nft),
             Wealth(account)'
               >= Wealth(account) - AmountIf(account = offer.lender, NewLenderPays(offer))
      PROVE  Wealth(account)' >= Wealth(account) \/ Charged(offer, nft)
  BY <1>2, <1>4 DEF AmountIf
<1> HIDE DEF Charged
<1>5. CASE \E offer \in Offers, nft \in Nfts, d \in Delegates \cup {None}, b \in BrokerTerms :
             CreateLoan(msg, offer, nft, d, b)
  <2>1. PICK offer \in Offers, nft \in Nfts, d \in Delegates \cup {None}, b \in BrokerTerms :
          CreateLoan(msg, offer, nft, d, b)
    BY <1>5
  <2>2. /\ LendsOn(offer, nft)
        /\ Wealth(account)'
             >= Wealth(account) - AmountIf(account = offer.lender, NewLenderPays(offer))
    BY <1>1, <2>1, CreateLoanLends, CreateLoanMoves
  <2> QED
    BY <1>4, <2>2 DEF Charged
<1>6. CASE \E loan \in loans : SettleLoan(msg, loan)
  <2>1. PICK loan \in loans : SettleLoan(msg, loan)
    BY <1>6
  <2>2. account # loan.borrower
    BY <2>1 DEF SettleLoan
  <2> QED
    BY <1>1, <2>1, <2>2, SettleLoanMoves
<1>7. CASE \E loan \in loans : ClaimDefaultedLoanCollateral(msg, loan)
  BY <1>2, <1>7 DEF ClaimDefaultedLoanCollateral, fundVars, Wealth
<1>8. CASE \E loan \in loans, offer \in Offers, b \in BrokerTerms :
             ReplaceLoan(msg, loan, offer, b)
  <2>1. PICK loan \in loans, offer \in Offers, b \in BrokerTerms :
          ReplaceLoan(msg, loan, offer, b)
    BY <1>8
  <2>2. /\ account # loan.borrower
        /\ Replace(loan, offer, LoanFees(offer, b, protocol))
    BY <2>1 DEF ReplaceLoan
  <2>3. Wealth(account)'
          >= Wealth(account) - AmountIf(account = offer.lender, NewLenderPays(offer))
    BY <1>1, <2>1, <2>2, ReplaceLoanMoves
  <2> QED
    BY <1>3, <1>4, <2>2, <2>3, ReplaceLends DEF Charged
<1>9. CASE \E loan \in loans, offer \in Offers : ReplaceLoanLender(msg, loan, offer)
  <2>1. PICK loan \in loans, offer \in Offers : ReplaceLoanLender(msg, loan, offer)
    BY <1>9
  <2>2. /\ account # loan.lender
        /\ Replace(loan, offer, LoanFees(offer, NoBroker, protocol))
    BY <2>1 DEF ReplaceLoanLender
  <2>3. Wealth(account)'
          >= Wealth(account) - AmountIf(account = offer.lender, NewLenderPays(offer))
    BY <1>1, <2>1, <2>2, ReplaceLoanLenderMoves
  <2> QED
    BY <1>3, <1>4, <2>2, <2>3, ReplaceLends DEF Charged
<1>10. CASE \E offer \in Offers : RevokeOffer(msg, offer)
  BY <1>2, <1>10 DEF RevokeOffer, fundVars, Wealth
<1> QED
  BY <1>5, <1>6, <1>7, <1>8, <1>9, <1>10 DEF UserCall

\* Whatever the fees, the recipients and the transfers that fail, no call takes
\* money from an account that neither made it nor offered to lend: the contract
\* uses the approvals it holds for nothing else.
THEOREM ChargedByConsentTheorem == Spec => ChargedByConsent
<1>1. ASSUME IInv, [Next]_vars, NEW account \in Wallets \cup Payees,
             ~CalledAs(account), ~(Wealth(account)' >= Wealth(account))
      PROVE  \E offer \in Offers, nft \in Nfts :
               /\ offer.lender = account /\ LendsOn(offer, nft)
               /\ Wealth(account)' >= Wealth(account) - NewLenderPays(offer)
  <2>1. account \in Outside
    BY DEF Outside
  <2>2. UserStep
    <3>1. TypeOK /\ Wealth(account) \in Nat
      BY <1>1, <2>1, CurrentFundsTyped, WealthInNat
      DEF IInv, TypeOK, Wealth, WealthIn, CurrentFunds
    <3> QED
      BY <1>1, <2>1, <3>1, OtherStepsMoveNothing
  <2>3. PICK msg \in Messages : UserCall(msg) /\ ~CheckUser(msg, account)
    BY <1>1, <2>2 DEF CalledAs, CheckUser
  <2> QED
    BY <1>1, <2>1, <2>3, CallCharges
<1>2. ASSUME IInv, [Next]_vars
      PROVE  \A account \in Wallets \cup Payees :
               \/ Wealth(account)' >= Wealth(account)
               \/ CalledAs(account)
               \/ \E offer \in Offers, nft \in Nfts :
                    /\ offer.lender = account /\ LendsOn(offer, nft)
                    /\ Wealth(account)' >= Wealth(account) - NewLenderPays(offer)
  BY <1>1, <1>2
<1> QED
  BY <1>2, IInvTheorem, PTL DEF Spec, ChargedByConsent

\* One call and one loan that it ends.
LEMMA CallRepays ==
  ASSUME IInv, FeesBounded, NEW msg \in Messages, UserCall(msg), NEW loan \in loans \ loans',
         ~(now > loan.maturity), loan.lender # loan.borrower, ~CheckUser(msg, loan.lender)
  PROVE  \/ Wealth(loan.lender)' >= Wealth(loan.lender) + loan.amount
         \/ \E offer \in Offers :
              /\ offer.lender = loan.lender /\ LendsOn(offer, loan.collateral)
              /\ Wealth(loan.lender)' >= Wealth(loan.lender) + loan.amount
                                           - NewLenderPays(offer)
<1> DEFINE lender == loan.lender
<1>1. TypeOK /\ LoansStarted /\ PendingAddsUp
  BY DEF IInv
<1>2. lender \in Outside /\ Wealth(lender) \in Nat /\ loan.amount \in Nat
  <2>1. lender \in Outside /\ loan.amount \in Nat
    BY <1>1 DEF TypeOK, LoansTyped, LoanType, Outside
  <2> QED
    BY <1>1, <2>1, CurrentFundsTyped, WealthInNat DEF TypeOK, Wealth, WealthIn, CurrentFunds
<1>3. ~\E offer \in Offers, nft \in Nfts, d \in Delegates \cup {None}, b \in BrokerTerms :
         CreateLoan(msg, offer, nft, d, b)
  BY DEF CreateLoan
<1>4. ~\E offer \in Offers : RevokeOffer(msg, offer)
  BY DEF RevokeOffer
<1>5. ~\E old \in loans : ClaimDefaultedLoanCollateral(msg, old)
  BY DEF ClaimDefaultedLoanCollateral, Defaulted
<1>6. ~\E old \in loans, offer \in Offers : ReplaceLoanLender(msg, old, offer)
  <2> SUFFICES ASSUME NEW old \in loans, NEW offer \in Offers, ReplaceLoanLender(msg, old, offer)
               PROVE  FALSE
    OBVIOUS
  <2>1. \E new : loans' = (loans \ {old}) \cup {new}
    BY ReplaceLends DEF ReplaceLoanLender
  <2>2. old = loan
    BY <2>1
  <2> QED
    BY <2>2 DEF ReplaceLoanLender
<1>7. CASE \E old \in loans : SettleLoan(msg, old)
  <2>1. PICK old \in loans : SettleLoan(msg, old)
    BY <1>7
  <2>2. old = loan
    BY <2>1 DEF SettleLoan
  <2> QED
    BY <1>1, <1>2, <2>1, <2>2, SettleLoanMoves
<1>8. CASE \E old \in loans, offer \in Offers, b \in BrokerTerms :
             ReplaceLoan(msg, old, offer, b)
  <2>1. PICK old \in loans, offer \in Offers, b \in BrokerTerms :
          ReplaceLoan(msg, old, offer, b)
    BY <1>8
  <2>2. /\ LendsOn(offer, old.collateral)
        /\ \E new : loans' = (loans \ {old}) \cup {new}
    BY <2>1, ReplaceLends DEF ReplaceLoan
  <2>3. old = loan
    BY <2>2
  <2>4. Wealth(lender)' >= Wealth(lender) + loan.amount
                             - AmountIf(lender = offer.lender, NewLenderPays(offer))
    BY <1>1, <1>2, <2>1, <2>3, ReplaceLoanMoves
  <2>5. CASE lender = offer.lender
    BY <2>2, <2>3, <2>4, <2>5 DEF AmountIf
  <2>6. CASE lender # offer.lender
    BY <1>2, <2>4, <2>6 DEF AmountIf
  <2> QED
    BY <2>5, <2>6
<1> QED
  BY <1>3, <1>4, <1>5, <1>6, <1>7, <1>8 DEF UserCall

\* Before its maturity nobody but the lender itself can end a loan for less than
\* the principal, by no order of settlements and replacements.
THEOREM EarlyEndTheorem == Spec => EarlyEndRepaysLender
<1>1. ASSUME IInv, FeesBounded, [Next]_vars, NEW loan \in loans \ loans',
             ~(now > loan.maturity), loan.lender # loan.borrower, ~CalledAs(loan.lender)
      PROVE  \/ Wealth(loan.lender)' >= Wealth(loan.lender) + loan.amount
             \/ \E offer \in Offers :
                  /\ offer.lender = loan.lender /\ LendsOn(offer, loan.collateral)
                  /\ Wealth(loan.lender)' >= Wealth(loan.lender) + loan.amount
                                               - NewLenderPays(offer)
  <2>1. loan.lender \in Outside
    BY <1>1 DEF IInv, TypeOK, LoansTyped, LoanType, Outside
  <2>2. UserStep
    BY <1>1, <2>1, OtherStepsMoveNothing DEF IInv
  <2>3. PICK msg \in Messages : UserCall(msg) /\ ~CheckUser(msg, loan.lender)
    BY <1>1, <2>2 DEF CalledAs, CheckUser
  <2> QED
    BY <1>1, <2>3, CallRepays
<1>2. ASSUME IInv, FeesBounded, [Next]_vars
      PROVE  \A loan \in loans \ loans' :
               \/ now > loan.maturity
               \/ loan.lender = loan.borrower
               \/ CalledAs(loan.lender)
               \/ Wealth(loan.lender)' >= Wealth(loan.lender) + loan.amount
               \/ \E offer \in Offers :
                    /\ offer.lender = loan.lender /\ LendsOn(offer, loan.collateral)
                    /\ Wealth(loan.lender)' >= Wealth(loan.lender) + loan.amount
                                                 - NewLenderPays(offer)
  BY <1>1, <1>2
<1> QED
  BY <1>2, IInvTheorem, FeesBoundedTheorem, PTL DEF Spec, EarlyEndRepaysLender

----------------------------------------------------------------------------
(* The way out of a loan. *)

\* Of the checks of settle_loan, those that are not about the caller, its money,
\* the time and the terms of the loan never fail: the subtraction of the fees and
\* the one from offer_count do not revert, and the vault has the collateral,
\* which is also all that a claim of a default needs.
NothingBlocksTheExit ==
  \A loan \in loans :
    LET interest == SettlementInterest(loan, now)
    IN  /\ nft_owner[loan.collateral] = Vault
        /\ CanReduce(offer_count, loan.offer_tracing_id)
        /\ \/ ~InterestDefined(loan)
           \/ BorrowerBrokerFee(loan, interest) > loan.amount
           \/ LenderProceedsDefined(loan, interest)

LEMMA ProceedsDefined ==
  ASSUME TypeOK, LoansStarted, FeesBounded, NEW loan \in loans, InterestDefined(loan),
         BorrowerBrokerFee(loan, SettlementInterest(loan, now)) <= loan.amount
  PROVE  LenderProceedsDefined(loan, SettlementInterest(loan, now))
<1> DEFINE interest == SettlementInterest(loan, now)
           fee == BorrowerBrokerFee(loan, interest)
           total == SettlementFeesTotal(loan, interest)
<1>1. /\ IsTerms(loan) /\ loan.amount \in Nat /\ now \in Nat /\ loan.start_time <= now
  BY LoanTyped DEF TypeOK, LoansTyped, LoansStarted, LoanType
<1>2. interest \in Nat /\ fee <= loan.amount
  BY <1>1, InterestNat
<1> HIDE DEF interest
<1>3. LenderProceeds(loan, interest) >= loan.amount
  BY <1>1, <1>2, LenderKeepsPrincipalTheorem DEF FeesBounded
<1>4. \A type \in FeeTypes : SettlementFee(loan, interest, type) \in Nat
  BY <1>1, <1>2, SettlementFeeNat
<1>5. fee \in Nat /\ total \in Nat
  BY <1>4 DEF SettlementFeesTotal, BorrowerBrokerFee, FeeTypes
<1>6. /\ LenderProceeds(loan, interest) = loan.amount + interest - total + fee
      /\ LenderProceedsDefined(loan, interest) <=> loan.amount + interest >= total
  BY DEF LenderProceeds, LenderProceedsDefined
<1> HIDE DEF fee, total
<1>7. LenderProceedsDefined(loan, interest)
  BY <1>1, <1>2, <1>3, <1>5, <1>6
<1> QED
  BY <1>7 DEF interest

\* A running loan is among those counted, and counts and defaults are naturals.
LEMMA LoanIsCounted ==
  ASSUME IInv, NEW loan \in loans
  PROVE  CanReduce(offer_count, loan.offer_tracing_id)
<1> DEFINE t == loan.offer_tracing_id
<1>1. t \in TracingIds /\ claimed[t] \in Nat
  BY DEF IInv, TypeOK, LoansTyped, LoanType
<1>2. offer_count[t] = Cardinality(From(loans, t)) + claimed[t]
  BY <1>1 DEF IInv, OfferCountMatchesLoans, LoansFrom, From
<1>3. /\ Cardinality(From(loans \ {loan}, t)) \in Nat
      /\ Cardinality(From(loans, t)) = Cardinality(From(loans \ {loan}, t)) + Share(loan, t)
  BY CountRemoved DEF IInv
<1>4. Share(loan, t) = 1
  BY DEF Share
<1> HIDE DEF t
<1>5. offer_count[t] > 0
  BY <1>1, <1>2, <1>3, <1>4
<1> QED
  BY <1>5 DEF CanReduce, t

\* Until the maturity a borrower can settle, and after it the lender can take the
\* collateral, for all that other loans, callbacks, owners and the registry did
\* meanwhile: no check that depends on them fails.
THEOREM ExitTheorem == Spec => []NothingBlocksTheExit
<1>1. IInv /\ FeesBounded => NothingBlocksTheExit
  <2> SUFFICES ASSUME IInv, FeesBounded PROVE NothingBlocksTheExit
    OBVIOUS
  <2>1. ASSUME NEW loan \in loans
        PROVE  nft_owner[loan.collateral] = Vault
    <3>1. CustodyMatchesLoans /\ loan.collateral \in Nfts /\ loan \in LoansOn(loan.collateral)
      BY <2>1 DEF IInv, TypeOK, LoansTyped, LoanType, LoansOn
    <3> QED
      BY <3>1 DEF CustodyMatchesLoans
  <2>2. ASSUME NEW loan \in loans, InterestDefined(loan),
               ~(BorrowerBrokerFee(loan, SettlementInterest(loan, now)) > loan.amount)
        PROVE  LenderProceedsDefined(loan, SettlementInterest(loan, now))
    <3>1. BorrowerBrokerFee(loan, SettlementInterest(loan, now)) \in Nat /\ loan.amount \in Nat
      <4>1. loan \in LoanType /\ now \in Nat /\ loan.start_time <= now
        BY <2>2 DEF IInv, TypeOK, LoansTyped, LoansStarted
      <4>2. SettlementInterest(loan, now) \in Nat
        BY <2>2, <4>1, LoanTyped, InterestNat
      <4> QED
        BY <4>1, <4>2, LoanTyped, SettlementFeeNat DEF BorrowerBrokerFee, FeeTypes, LoanType
    <3> QED
      BY <2>2, <3>1, ProceedsDefined DEF IInv
  <2> QED
    BY <2>1, <2>2, LoanIsCounted DEF NothingBlocksTheExit
<1> QED
  BY <1>1, IInvTheorem, FeesBoundedTheorem, PTL
=============================================================================
