-------------------------- MODULE CollateralMoves --------------------------
(***************************************************************************)
(* What the refinance proxies add to the promise of CollateralCustody.     *)
(* Loans elsewhere keep collateral of their own until nothing is due of    *)
(* them.  A refinancing pays one of them and pledges an item to the house, *)
(* in one step: nobody sees the collateral between the two, and nothing of *)
(* a refinancing that does not go through is ever to be seen.              *)
(***************************************************************************)
EXTENDS CollateralCustody

CONSTANT Debts   \* the loans elsewhere, records with borrower, nft and due

VARIABLE due     \* what is still due of each

movesVars == <<vars, due>>

MovesInit == Init /\ due = [f \in Debts |-> f.due]

\* Paid in full, the debt gives its collateral back.
HolderOncePaid(f) ==
  IF due'[f] = 0 THEN [holder EXCEPT ![f.nft] = f.borrower] ELSE holder

Pay(f) ==
  /\ due[f] > 0
  /\ due'[f] \in 0..due[f]
  /\ due' = [due EXCEPT ![f] = due'[f]]

\* The item pledged is one that the borrower has once `f` is paid.
Refinance(f, i) ==
  /\ Pay(f)
  /\ pledge[i] = Unpledged
  /\ NewTerms(i)
  /\ HolderOncePaid(f)[i] = pledge'[i].borrower
  /\ holder' = [HolderOncePaid(f) EXCEPT ![i] = House]

MovesNext ==
  \/ Next /\ UNCHANGED due
  \/ \E f \in Debts, i \in Items : Refinance(f, i)

MovesSpec == MovesInit /\ [][MovesNext]_movesVars
=============================================================================
