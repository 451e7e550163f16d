# Zharta lending protocol v2: specification and proofs

TLA+ modules, TLC configurations and TLAPS proofs for the peer to peer NFT
lending contracts of this repository, the proxies that refinance loans into
them, the scripts that deploy and publish them, and the console people use them
from. The modules are translated from `src/contracts`, `src/scripts` and
`src/ape_console_extras.py`, names included wherever TLA+ allows it.

## The system

| Part | State | Operations | Meets |
|---|---|---|---|
| Lending contract, `P2PLendingNfts.vy` | hashes of running loans, `offer_count` by tracing id, `revoked_offers`, `pending_transfers`, protocol fees and wallet, `authorized_proxies`, owner | `create_loan`, `settle_loan`, `claim_defaulted_loan_collateral`, `replace_loan`, `replace_loan_lender`, `revoke_offer`, `claim_pending_transfers`, six admin functions | calls every part below except the proxies, which call it |
| Collection registry, `P2PLendingControl.vy` | contract and trait root by collection key, owner | batch changes of both, change of ownership | read when a loan is created or replaced |
| Payment token (WETH, USDC; mock in `auxiliary/`) | balances, allowances, blacklist | `transfer`, `transferFrom` | may refuse a transfer |
| Collateral contracts (ERC721, CryptoPunks) | owners and approvals | `safeTransferFrom`, `transferPunk`, `buyPunk` | an ERC721 calls its receiver back |
| Delegation registry (delegate.xyz v2) | delegations | `delegateERC721` | set and revoked by the lending contract |
| Refinance proxies (NFTfi, Arcade, BendDAO, Gondi) | the tokens they hold and the allowances they have given | flash loan, repayment elsewhere, `create_loan`, in one transaction | called back by the flash lender, which anybody may call; call the lending contract for a borrower |
| `LenderClaim.vy` | none | forwards `claim_defaulted_loan_collateral`, accepts NFTs | code a lender installs on its own account (`tiamonds-claim.md`) |
| Deployment scripts | address book on disk, contracts on chain | deploy set and configuration transactions over a dependency graph | set up all of the above |
| Publishing scripts (`publish.py`, `get_collections.py`) | tables of the lending service: ABIs, configurations, collections | one request per item, table by table; a scan in pages | read the address book, write the file that deployments read |
| Console (`ape_console_extras.py`) | sessions of several transactions, approvals left between them | offer, borrow, pay, claim, revoke, refinance from Arcade | the service for offers and loans, the lending contract and a proxy for transactions |

What makes it hard, and what has to hold of each part:

- **Orders of calls.** A loan can be created, replaced by either party, settled
  or claimed, under offers that share a tracing id and may be revoked, with time
  and the owners' changes in between. Offers, counters, collateral and
  delegations have to stay in step with the loans.
- **Reentrancy.** No function is nonreentrant, and the receiver of an ERC721
  runs in the middle of `settle_loan` and of a claim.
- **Partial failure.** A payment out of the contract that fails is recorded for
  its recipient; the contract must hold exactly what it recorded.
- **Stale state.** Fees, the registry and the proxies change under a running
  loan, which must stay settleable and repay its lender.
- **Arithmetic.** Unsigned intermediates revert, quotients are rounded down, and
  the borrower's compensation when a lender replaces a loan is taken at two
  moments claimed to be the worst.
- **Transactions of several contracts.** A refinancing goes through the flash
  lender, another protocol and this one, with the borrower's money in the middle.
  Who borrows, who pays back, which spender is approved and which contract is
  repaid are separate data of one call, and nothing makes them agree.
- **Crashes** and failures that are swallowed, only outside the chain, where
  transactions are atomic: a deployment may stop with the address book emptied,
  a publishing run between two tables, a function of the console between its
  approval and the transaction the approval is for.
- **Approvals** outlive the function that gave them and are shared by all
  functions of a wallet.

`PROJECT.json` lists these as hazards, each with its line and the properties
aimed at it.

## The modules

- **`LoanMath`**: fees, interest, and what every party pays or receives. An
  operator `XDefined` is the condition under which the unsigned subtractions or
  the division of `X` do not revert.
- **`ReplacementCosts`**: a running loan, an offer that replaces it, and time until
  the old maturity; what the replacement costs whom, against what the old loan
  would have cost at every moment.
- **`P2PLendingControl`**: the registry. A Merkle root is the set of leaves it
  commits to, so a proof exists exactly for its members.
- **`P2PLendingNfts`**: the lending contract and its surroundings, with the
  registry as an instance. One action per external function.
- **`CollateralCustody`**: what the contract promises about collateral, with no
  offers, money, proxies or callbacks. `CustodySpec` in `P2PLendingNfts` is its
  specification under the mapping "the pledge on an NFT is the loan on it".
- **`RefinanceProxies`**: the four proxies, the flash lender and the protocols
  they repay, around `P2PLendingNfts`, which it extends.
- **`CollateralMoves`**: what the proxies add to the promise of `CollateralCustody`:
  a refinancing pays a debt elsewhere, frees its collateral and pledges an item, in
  one step. `RefinancingIsAtomic` in `RefinanceProxies` is its specification under
  the mapping "what a transaction would go back to, while one is under way".
- **`Deployment`**: runs of the deployment manager, with the address book, the
  contracts on chain and the configuration of the registry.
- **`Publishing`**: publishing runs and the scan of the collections, among
  deployments and edits of the files.
- **`Console`**: the sessions of the console, around `RefinanceProxies`, which it
  extends with the allowances of the token and the approvals of NFTs.
- **`MCLoanMath`**, **`MCP2PLendingNfts`**, **`MCOfferReuse`**, **`MCRefinance`**,
  **`MCConsole`**, **`MCDeployment`**, **`MCPublishing`**: instances for TLC.
- **`LoanMathProofs`**, **`ReplacementCostsProofs`**, **`P2PLendingNftsProofs`**,
  **`P2PLendingLoansProofs`**, **`RefinanceProofs`**, **`DeploymentProofs`**,
  **`PublishingProofs`**, **`ConsoleProofs`**: the theorems.

### How state and actions correspond to the code

`loans` is the set of loans whose hash is stored; a caller passes the whole loan
and `_is_loan_valid` compares hashes, so choosing a member of `loans` is that
check. An offer's `id` stands for its signature. `nft_owner`, `balance`,
`blacklisted` and `delegations` are the parts of the surrounding contracts that
this one reads or changes; `now` is `block.timestamp`. `claimed` and `owed` are
history variables: the defaults by tracing id, and what was sent in vain and not
claimed yet.

A call whose checks fail reverts, which is no step. Otherwise it is one atomic
step, with one exception: when collateral goes back to a wallet of `Receivers`,
the call stops at the receiver callback, is pushed on `callbacks`, and
`ReturnFromCallback` does the rest, which is the revocation of the delegation.
In between only the receiver runs, directly or through a proxy, within the same
transaction (`Messages`); the rest of the call cannot revert, so what the
callback did stays. Payments are operators on a record of funds, applied in the
order of the code, so that a balance that suffices only after an earlier payment
is treated as the code treats it.

A wallet of `Refusing` is a contract that does not accept ERC721 tokens: a call
that would give it one reverts. A lender of that kind can still install the code
of `LenderClaim` on its account (`InstallLenderClaim`, the way out that
`tiamonds-claim.md` describes). From then on the account takes any NFT, and
anyone can make it claim; since the lending contract sees the lender as the
sender, that is the lender's own `ClaimDefaultedLoanCollateral`.

In `RefinanceProxies` a transaction is taken call by call: the flash loan with the
repayment elsewhere (one action per proxy), `CreateRefinancedLoan`, which is
`CreateLoan` with the proxy as sender and `tx.origin` as origin, and `PayBack`.
`flash` holds what the later calls need of `CallbackData` and what the transaction
has to restore; `Revert` restores it, after any step, and nothing else happens in
between. The terms of the new loan are chosen when `create_loan` is called,
because nothing before depends on them. Another protocol is a set of loans, each
with a lender and an amount due, that returns the collateral when that amount is
paid; `ArcadeMock` does so, and BendDAO's `repay` takes less.

A transaction enters through `refinance_loan` or through `flashLoan` of the flash
lender, which is open: a proxy checks only that the flash lender calls it back
(`ArcadeProxy.vy:153`), and believes the data. So a call (`Callers`) has two parts,
who signs it and which borrower it names; `refinance_loan` is the case in which
the second is its caller, the signer or a contract wallet of the signer's. The
lending contract lends to the signer, and the one named pays the flash loan back.
The spender that the proxy approves (`Approvees`) and the contract it has repaid
are named separately too. `allowed` is what the proxies have approved, which
`approve` replaces and nothing resets: `RepayApproved` takes what is due by what is
allowed after the approval, of this call or of an earlier one, so that a repayment
may take more than the amount of the flash loan, out of what the proxy holds.
`RepayNothing` is the case in which the contract to repay is one that takes
nothing, and `TakeApproved` the use of an approval by a wallet in a transaction of
its own. A proxy may itself be named as the borrower; it pays only by an approval
it was made to give, which `PayBack` checks. Wallets are taken to have approved
the proxies for what they pay; `Console` takes the allowances of wallets into
account. When a loan at Gondi is repaid, the borrower named must own the token, and
`create_loan` takes it from the signer, so that both have to be one. Contracts that callers
bring along are modelled as far as they take nothing, or take what they are
allowed after the transaction; that they call the contracts again from within it
is not modelled, and the receiver callback has no part here, for `Receivers` is
empty.

In `Deployment` the contracts on chain are a sequence, an address being a place
in it. Each holds the addresses it was constructed with, whence `BookIsConsistent`
can compare them with the book. `DeploymentSet` is the least set closed under
dependents, which the depth first search computes; `Ready` allows every
topological order, since the code iterates over sets. The two transactions of
`set_trait_roots` are two actions, each working or not; a collection the registry
does not resolve (`Unresolved`) raises between them. Writing the book is two steps,
since the file is emptied first (`Truncate`, then `Save` or `Finish`). A crash may
come between any two steps; one between the deployment of a proxy and its
authorization leaves what a failed authorization leaves. After a crash that left
the book empty no run can start until somebody takes the last one back from
version control (`RestoreBook`). The history variables `refused` and `stale` say
which proxies and registries a failure or an unannounced change has touched. Left
out: the local network, where the book is ignored, dry runs, and runs that do not
save.

`Publishing` takes a run request by request. A run reads the book when it starts
and the files again for each table (`NextStage`), may stop at any request, and
shares nothing with the deployments and edits that go on meanwhile. A deployment
is one step here, which `BookIsConsistent` of `Deployment` justifies. The scan of
the collections is one action per page; whether a full last page carries a key to
go on is left open, as the table leaves it. `fresh`, `doubtful` and `torn` are
history: whether the run found every contract as it is deployed, what was
published by one that did not, and which collections have a root whose listing
has not followed.

In `Console` a function that sends several transactions is a session, with one
action per transaction; `Stop` ends it anywhere. A wallet runs one function at a
time, wallets interleave. Each transaction is the action of the module below with
the transfers of that call taken from the allowance: `CreateLoanStep` is
`CreateLoan`, `PayLoanStep` is `SettleLoan`, and `RefinanceStep` is one of the
four steps of a refinancing, for the wallet itself and with the spender that the
repayment needs. The loans a session may choose are those of `indexed`, what the
service saw last, which follows the chain some time later. `OtherRefinance` is a
transaction at the Arcade proxy that no function of the console sends: by anybody,
for any borrower, spender and terms on offer. It may use the allowance of a wallet
that waits for its last transaction, or that stopped before it. `kept` is what a
transaction gives back of the approvals when it reverts.

Abstracted everywhere: signatures, hashing (ids are taken to be collision free), the
approvals a wallet gives beforehand (except in `Console`), events, and the upper bound of the
integers, which amounts are far from. A token that returns `false` instead of
reverting is the same case as one that reverts: `_send_funds` records both.

Operators marked *Mutant* are plausible mistakes. Each is swapped for the
definition after it to see that a property notices; they are part of no
specification.

## What is model-checked

| Run | Question | Bounds |
|---|---|---|
| `MCLoanMath` | does the replacement arithmetic conserve money and keep the borrower whole at every moment until the old maturity | two principals, four interests, durations 1 and 7, offers that mature up to 3 later, three choices each of fee rates, broker rates and upfront fees, pro rata or not; among them a case where roundings lose all they can |
| `MCLending` | does custody keep its promise, and do offers, counters and delegations follow the loans | an ERC721 and a punk; a borrower and a lender that call back in, two deep, and a lender that refuses ERC721 tokens until it installs `LenderClaim`; three offers that expire by 2, two sharing a tracing id; time 0..3 |
| `MCFunds` | is the contract solvent to the unit, and is the lender of a loan that ends early repaid | one NFT, all four fees, scarce balances, one lender that the token may refuse, time 0..2 |
| `MCGovernance` | can a running loan be settled, and does it repay its lender, whatever the owners change, does an authorized proxy charge only its caller, and does every NFT leave the vault | protocol fee and wallet, a proxy, the collection and its trait root all change; borrower and lender refuse ERC721 tokens at first; one NFT, offers that expire by 2 and last at most 2, one of them pro rata with no duration, which can only default; time 0..5 |
| `MCRefinance` | who pays what in a refinancing, what of a surplus may leave a proxy, does the NFT ever back two loans, and is all a refinancing does to collateral one step | a loan at each protocol, five NFTs of two collections, two with the same id, flash loans of 2 and 3 against 2 and 3 due; one wallet that refinances for itself, another that names it, or the Arcade proxy, as the borrower; three spenders, the Arcade proxy and a wallet among them; one moment |
| `MCConsole` | is what was approved there when it is taken, and how far can others use what is left approved | two wallets, a loan at Arcade to refinance and an NFT of their own, an offer of each, flash loans of what is due, calls of the proxy by either for itself and by one that names the other, one wallet among the spenders, time 0..1 |
| `MCDeployment` | is the address book consistent and complete, what stays unconfigured | five contracts of which one external, three configurations of which the registry does not resolve one, nine deployments, one crash |
| `MCPublishing` | does what is published fit together at every moment, and mirror the files in the end | a lending contract, a proxy, a contract of others and a tracked one; two versions of each source, two deployments of each, two collections on different chains, pages of one item, two events (stops, scans, edits, redeployments) |

Time is enough for a loan to be created, replaced, to mature and to be claimed,
and for a second loan on the same NFT to follow. Two NFTs are enough to give one
loan's collateral or delegation to another; two callbacks are enough for a loan
made and ended inside another's return; two lenders for both branches of the
replacements. Offers of size one and two reach the limit of a shared counter.
Deadlock is not checked where time ends at `MaxTime`: there the system really
stops. `Deployment` and `Publishing` stop when their bounds are used up.

Refinancing needs less: a loan there, one here, and direct calls around it. The
amounts let a first transaction leave a surplus and an approval with a proxy that
a second one, which names another spender or none that takes, could spend.
`MCRefinance` has no time, and an interest nobody has: loans there are made and
neither settled nor replaced, which the other runs do. `MCConsole` has loans that
are settled and that default, and two moments, the second after a maturity. Nine
deployments are two runs that deploy everything and a shorter or aborted one
before them; runs meet only in the book and on chain. Two events of publishing
are a run stopped, or a scan under way, while a file changes or a contract is
deployed again.

Fairness is assumed in three runs. `MCGovernance` takes weak fairness of `Tick`
(blocks go on), of a lender's claim on each NFT that it could make from some
moment on, and of `InstallLenderClaim`. The last two are assumptions about
lenders, not about the code: `CollateralLeaves` shows that the code never takes a
possible claim away for good, since renewals need offers that have not expired,
and that a lender which refuses NFTs has a way out. Nothing is assumed of
borrowers. Offers expire by 2 and last at most 2, so that the last loan
matures by 4 and can be claimed at 5: the bound on time cuts no behaviour off. `MCDeployment` takes weak
fairness of the steps of a run (a process goes on unless it stops, which it does
at most `MaxCrashes` times), of restoring a book that cannot be read, and of
starting a run while something is not deployed. `MCPublishing` takes the same of
an operator who sees runs through, deploys what is not deployed, and publishes
again as long as tables and files differ: the code has no retry of its own.
The bound `MaxDeployed` may stop runs from starting, but only once all contracts
are recorded: one aborted run and the run after it stay below it.

What a party *can* do is stated with ENABLED:
`SettlementStaysPossible` and `DefaultStaysClaimable` say that the way out of a
loan is open in every state. The loans `SettlementStaysPossible` leaves out
cannot be settled by the terms they were made with: a pro rata loan of no
duration (division by zero, line 1024), and one whose borrower's broker is due
more than the principal (the intermediate of line 542).

`MaxDeltaIsMaximal` compares `_compute_max_interest_delta`, which looks at two
moments, with the maximum over all moments. It holds up to rounding, which loses
no more than `Lost`: two units, and one for every started whole of the rate of
the borrower's broker, whose fee is taken of a sum that was rounded before. That
is three units for rates up to 100%, and three are lost: by a broker with 76.3%
of an interest of 64 over seven days, replaced at the start by an offer that
matures three days later.

### Disagreements with the documentation

Four runs expect a violation of what a document or comment says:

- `DelegationInPlace`: the return of one loan can revoke the delegation of the
  next, when the receiver pledges the NFT again from its callback (line 546).
- `SizeBoundsOriginations`: the size of an offer bounds the loans that run at the
  same time, not those it originates, because settling lowers the count.
- `ConsolePaysLoan`: `pay_loan` of the console approves the principal, the
  interest and the *rate* of the borrower's broker in basis points, where a test
  adds its fee. A loan whose fee exceeds its rate in units cannot be paid from the
  console (`ape_console_extras.py:530`). This is an error in the code.
- `BorrowerNeverPaysMore`: without an allowance for rounding, the borrower may
  owe a few units more after a replacement by the lender.

## What is proved

For all values of the constants that satisfy the assumptions of
`P2PLendingNfts` (`OffersAssumption`, `PartiesAssumption`, `TermsAssumption`):
amounts are naturals, offers are identified by their signature, the contract is
not one of its own users, `None` is no account and no pledge, and the contract
holds no payment token when it is deployed.

- `TypeTheorem`, `CustodyTheorem`, `OfferCountTheorem`, `SolvencyTheorem`,
  `PendingTheorem`: the invariants `TypeOK`, `CustodyMatchesLoans`,
  `OfferCountMatchesLoans`, `VaultHoldsWhatItOwes` and `PendingAddsUp` hold of
  `Spec`, with governance and callbacks of any depth.
- `RevokedOffersTheorem`, `TokenOffersTheorem`, `NoStrayDelegationTheorem`,
  `DelegationKeptTheorem`: what the offers and the delegations promise.
- `FeesBoundedTheorem`, `SettlementRepaysTheorem`: a borrower's settlement leaves
  the lender its principal, on its account or to be claimed.
- `ExitTheorem`: of the checks of a settlement and of a claim, those that depend
  on other loans, callbacks, owners or the registry never fail. This is what
  `SettlementStaysPossible` and `DefaultStaysClaimable` say, without ENABLED and
  without the bound on nested callbacks.
- `CustodyRefinementTheorem`: `Spec => CustodySpec`, so the lending contract
  implements `CollateralCustody`.
- `ChargedByConsentTheorem`: the contract may take money from whoever has approved
  it, and charges nobody but the wallet that makes a call, itself or through an
  authorized proxy, and the lender of the one offer the call uses, up to what the
  offer says.
- `EarlyEndTheorem`: until its maturity a loan ends for less than its principal
  only by a call of its lender. It covers settlements and both replacements; what
  the same lender lends anew on the NFT is counted against what it receives.
- In `LoanMathProofs`, of single loans: a settlement leaves the lender its
  principal, a replacement takes in what it pays out, one by the lender takes
  nothing from the borrower, and a lender that replaces its own loan never
  receives money.
- In `ReplacementCostsProofs`, with `ReplacementAssumption` (amounts, times and
  rates are naturals, and the protocol's and the lender's broker's rates together
  at most the whole, which `create_loan` checks): all five invariants of
  `ReplacementCosts`. The two that matter are `MaxDeltaTheorem` and
  `KeptWholeTheorem`: the two moments the code looks at are the worst of all, up
  to `Lost`, for loans and offers of any size and duration.
- In `RefinanceProofs`, with `RefinanceAssumption` (the flash lender and the
  protocols elsewhere are nobody's wallets, no wallet is a receiver, a call names a
  wallet or a proxy as the borrower, loans elsewhere have different NFTs): the
  core's invariant holds in every state of a refinancing (`RefinanceInvTheorem`),
  no NFT backs a loan here and one elsewhere (`PledgedOnceTheorem`), and
  `RefinanceSpec => RefinancingIsAtomic` (`RefinancingIsAtomicTheorem`): the
  transactions implement `CollateralMoves`, whatever the number of debts, callers
  and calls that revert. With `AccountsAssumption` too (wallets, proxies, the flash
  lender and the lenders elsewhere are nobody's recipients of fees; wallets and the
  flash lender are no lenders elsewhere), who pays what: the flash lender is repaid
  (`FlashLenderTheorem`), lenders elsewhere have received what is no longer due to
  them (`ForeignLendersTheorem`), a completed refinancing moves money between the
  accounts its call names and no other but the new lender's (`CostTheorem`), and a
  proxy gives up of what it holds no more than it had approved before for the
  protocol that is repaid, or for the proxy that has it pay a flash loan back
  (`SurplusTheorem`).
- In `DeploymentProofs`, with `DeploymentAssumption` (the dependencies have no
  cycle, a proxy depends on its lending contract): all four invariants of
  `Deployment`, for any graph, any number of runs and crashes.
- In `PublishingProofs`, with `PublishingAssumption` (what is deployed, known by a
  file and tracked are told apart; a lending contract's properties are contracts
  of others, a proxy's may be lending contracts; a table has each key once): all
  four invariants of `Publishing`, and that no scan misses a collection
  (`ScanTheorem`), for any number of contracts, versions, deployments,
  collections, events and any page size.
- In `ConsoleProofs`, with the assumptions of `RefinanceProofs` and
  `ConsoleAssumption` (what is approved beforehand are amounts, a punk is no ERC721,
  a borrower may do without a broker, every wallet may refinance for itself): both properties of `Console`,
  `ConsentTheorem` and `ApprovalsTheorem`, for any number of wallets and functions
  that interleave and stop anywhere, and any calls of the proxy between them. A pro rata loan of no duration, which cannot
  be paid, counts as needing nothing. `ConsoleRefinementTheorem` is
  `ConsoleSpec => RefinanceSpec`, so the theorems of `RefinanceProofs`, `RefinancingIsAtomic` among them,
  hold of everything the console does.

`NoneIsNoTransaction`, `NoneIsNoSession` and `NoneIsNoRecord` say that `None` is none of the records it
stands beside, which TLA+ leaves open.

The argument. The inductive invariant `IInv` is the conjunction of the five with
two auxiliary parts. They need one another: a claim keeps `owed` a natural only
because the amount is a part of what is owed (`PendingAddsUp`); interest is a natural only because a loan
has started (`LoansStarted`); a new loan is counted once because its NFT carried
no loan, which is `CustodyMatchesLoans`; cardinalities need `IsFiniteSet(loans)`.

`P2PLendingNftsProofs` first follows the surplus of a funds value, the vault's balance
beyond what it owes. A receipt adds its amount; a sending takes its amount
whether the transfer succeeds or is recorded. So a call ends with surplus zero
exactly when its amounts balance, which is what `LoanMathProofs` shows of them,
and the order of the payments and the blacklist play no part. That the pending
transfers still add up is carried along the same payments. A sum over a set would
take an induction; `AddsUpTo` says it as the number of `Units`, a finite set to
which a failed transfer adds an interval and from which a claim takes a whole
row. It needs that no failed transfer goes to nobody: a fee without a recipient is
zero in every stored loan (`FeeType`), which `_get_loan_fees` checks.
It then takes the actions one by one: every change of loans
and collateral is an addition, a removal or an exchange on one NFT.

`P2PLendingLoansProofs` uses what each step does to loans and delegations, found
once (`Created`, `Replaced`, `Ended`, `Quiet`). That a delegation is kept needs to
know which NFTs a waiting call will still take a delegation from: each stays with
the receiver it was returned to, or is pledged again by that receiver, in a loan
that has not matured, because time stands still during a call (`KeptInv`). Hence
only a receiver's own loan can lose its delegation.

What it says of settlements rests on the check of `create_loan` and the
replacements that the shares of the protocol and of the lender's broker are no
more than the whole (`P2PLendingNfts.vy:977`): it is kept in the loan, whatever
the owner sets later (`FeesBounded`). The lender's wealth is its balance and what
it may claim; sending money to others never lowers it. Who is charged is read off
the same payments, one account at a time: in each of the four calls that move
money (`CreateLoanMoves`, `SettleLoanMoves`, `ReplaceLoanMoves`,
`ReplaceLoanLenderMoves`) only a receipt takes from an account outside, and a
lender that replaces its own loan, or takes over another, pays the difference at
most. A step may be open to several callers, so `CalledAs` asks it of all of them.

In `RefinanceProofs` the invariant has two parts beside the core's: collateral is
at another protocol exactly while something is due there, and what a reverted
transaction goes back to satisfies the invariant too (`Restorable`). The second
holds because nothing but the transaction runs while it is under way, so that the
history and the clock have not moved. The five ways a transaction begins are one
in what they do (`Opens`): the flash loan goes to who holds it, one debt is lower
by what its payer paid, and a proxy that pays does so by what it has approved. All
that follows is proved of `Opens`. `MoneyInv` is the account of a transaction under
way: the balance of each wallet and proxy but the new lender is the one it began
with, the flash loan, what was paid elsewhere and what the new loan brought, and
what a proxy paid it had approved, for this flash loan or before. `PayBack` then
takes the flash loan from the one named: where that is a proxy, it has an approval
left of which it pays, so that what it lacks in the end is covered by one it had
given before (`PayBackByApproval`), which is `SurplusTheorem`. `PaidInv` compares
each other lender's balance with the units repaid of its loans, now and in what a
revert restores. That calls of the lending contract leave the proxies and the
flash lender alone is shown once, for every call, at the end of
`P2PLendingNftsProofs`: payments go to parties of the loan and recipients of fees.
For the refinement of `CollateralMoves`, what the chain shows while a transaction
is under way is what it would restore (`Committed`), so all its steps but the last
are stutters. `MovedInv` says what has changed by then: one debt is lower, its
collateral is back if nothing is due, and one loan is added on an NFT without one.
`PayBack`, which ends it, shows exactly that. All other steps are those of the
lending contract, of which `CustodyRefinementTheorem` speaks.

`ReplacementCostsProofs` takes the borrower's cost as a function of time, which is
linear but for roundings, so that at every moment it lies between those at the
two ends: each quotient is compared with its numerator, and the errors are added
up to `Lost`.

`BookInv` says that what a run knows fits together except at the contracts it has
still to deploy, and that these are closed under dependents. It is why recording
the addresses only when all is deployed makes the book consistent. `RegistryInv`
follows the two transactions of a registry, one sent and the other not.

`PublishingInv` follows a run from table to table: the ABIs it read are in their
table once they are no longer to be written, what it has still to write are
records of contracts at the addresses they name (`IsConfig`), and the book names
the newest of every contract, as does what the run read for as long as nothing
was deployed (`FreshMapIsBook`). A record stays true because contracts are only
added (`Grows`) and ABIs never removed. For a scan, what was there when it began
stays, and has been read once the scan is past its place (`ScanKeeps`); a page has
no gaps (`PageHasFirst`) and the last one has all the rest (`LastPageIsRest`).

In `ConsoleProofs` every step of a session is first shown to be a step of
`RefinanceProxies`, or to leave the chain alone (`ConsoleStepImplements`, which is
also the refinement). A transaction at the proxy is cut into how it begins, lends,
pays back and reverts, whoever sent it. `ConsoleInv` adds that one under way would
give back no less than is approved now (`ConsentKept`), that a function at its last
step takes part in no transaction but its own (`OwnTransaction`), and that a wallet
is without an NFT it had only for a loan it took (`NftsKept`). With `MoneyInv` this
says whom a transaction charges when it ends: the wallet that it names, by as much
as that had approved, or the lender of the offer. A need stands (`Stands`) because
allowances go down in three places only: for a loan under an offer of that wallet,
for a payment of that wallet, and for a flash loan that names it.

Only model-checked:

- `SettlementStaysPossible` and `DefaultStaysClaimable`, which use ENABLED; that
  their guards hold is `ExitTheorem`;
- the liveness properties `CollateralLeaves`, `EverythingIsRecorded` and
  `TablesMirrorFiles`, which the prover does not reach.

## Not modelled, and the plan

Done: the core, the refinance proxies, deployment, publishing, the console,
liveness, the refinements of custody and of refinancings, and the proofs above. Next, if the project
is taken further: callbacks to receivers and to callers' own contracts during a
refinancing, and minimal proxies in `Deployment`.

Left out, and why:

- `onERC721Received` (`P2PLendingNfts.vy:867`) accepts a token that anyone sends, and
  no function returns it. Transfers between wallets, and the sale offers of the
  punk market, multiply the states without touching the contract's own.
- `EIP3156Flash.vy` and `AaveFlash.vy` try out other flash lenders and borrow for
  nothing.
- `get_tokens.py` is the scan of `get_collections.py` over another table.
- `propose_owner` and `claim_ownership` of the console look for functions named
  `proposeOwner` and `claimOwnership`, which no contract here has.
- `build_interfaces.py` turns ABIs into text: no state, no order, no failure that
  another part meets.
- Display and wallet helpers, vendored contracts, and the contents of configuration
  files.

Facts about the code that came up while modelling, and that no property states:

- `publish.py` publishes with a contract the ABI key the book kept when it was
  deployed, and into the table of ABIs what the sources compile to now. Once the
  sources change, a record may name an ABI that was never published, unless an
  earlier run did it (`doubtful` in `ReferencesResolve`).
- The ABIs of contracts of others never reach the table of ABIs (the note at
  `publish.py:51`).
- `store_contracts` writes the contracts of `p2p.json` only: NFTs and tokens that a
  test network deploys from `collections.json` and `tokens.json` are recorded
  nowhere (`deployment.py:51`). `Deployable` in `Deployment` are those of `p2p.json`.
- A collection taken out of the trait roots is delisted nowhere: neither in the
  registry nor in the tables.
- `arcade_refinance` approves the repayment of the old loan while the proxy takes
  the whole flash loan, and the new lender's principal while the lender pays its
  broker's upfront fee less the origination fee on top; unless an older allowance
  is larger, the last transaction reverts.
- The proxies have no function that returns what they hold, and their approvals
  bound what leaves them (`SurplusLeavesByApproval`). They do not keep it for whoever
  left it: the spender approved for more than it took may take the rest later.
- An approval that a wallet leaves with a proxy serves whichever transaction names
  that wallet as the borrower, its own or not. `WalletsLoseOnlyByConsent` bounds what
  it costs by what was approved, and `ApprovalsHold` counts it among the ways an
  approval may be gone.
