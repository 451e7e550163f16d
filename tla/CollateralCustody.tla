------------------------- MODULE CollateralCustody -------------------------
(***************************************************************************)
(* What the lending contract promises about collateral, without offers,    *)
(* money, proxies or callbacks.  An item is held by a party or pledged to  *)
(* the house.  A pledge names the borrower it was taken from, the lender   *)
(* and a maturity.  Until the maturity the borrower alone can get the item *)
(* back and the pledge can be renewed for the same borrower; after it the  *)
(* item can go to the lender alone.                                        *)
(***************************************************************************)
EXTENDS Integers

CONSTANTS Items, Parties, House, Unpledged, InitialHolders

VARIABLES now, holder, pledge

vars == <<now, holder, pledge>>

Pledges == [borrower : Parties, lender : Parties, maturity : Nat]

TypeOK ==
  /\ now \in Nat
  /\ holder \in [Items -> Parties \cup {House}]
  /\ pledge \in [Items -> Pledges \cup {Unpledged}]

Init ==
  /\ now = 0
  /\ holder \in InitialHolders
  /\ pledge = [i \in Items |-> Unpledged]

\* The terms an item is pledged under from now on.
NewTerms(i) ==
  /\ pledge'[i] \in Pledges
  /\ pledge'[i].maturity >= now
  /\ pledge' = [pledge EXCEPT ![i] = pledge'[i]]
  /\ UNCHANGED now

Pledge(i) ==
  /\ pledge[i] = Unpledged
  /\ NewTerms(i)
  /\ holder[i] = pledge'[i].borrower
  /\ holder' = [holder EXCEPT ![i] = House]

Release(i, party) ==
  /\ holder' = [holder EXCEPT ![i] = party]
  /\ pledge' = [pledge EXCEPT ![i] = Unpledged]
  /\ UNCHANGED now

Redeem(i) ==
  /\ pledge[i] # Unpledged
  /\ now <= pledge[i].maturity
  /\ Release(i, pledge[i].borrower)

Forfeit(i) ==
  /\ pledge[i] # Unpledged
  /\ now > pledge[i].maturity
  /\ Release(i, pledge[i].lender)

Renew(i) ==
  /\ pledge[i] # Unpledged
  /\ now <= pledge[i].maturity
  /\ NewTerms(i)
  /\ pledge'[i].borrower = pledge[i].borrower
  /\ UNCHANGED holder

Tick == now' = now + 1 /\ UNCHANGED <<holder, pledge>>

Next ==
  \/ Tick
  \/ \E i \in Items : Pledge(i) \/ Redeem(i) \/ Forfeit(i) \/ Renew(i)

Spec == Init /\ [][Next]_vars
=============================================================================
