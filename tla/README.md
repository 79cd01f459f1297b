# HashPayStream in TLA+

HashPayStream pays workers and sellers early. Its money lives in Solidity
contracts on X Layer and Arc (`src/contracts/src`). Its server (`src/api`) prices,
signs, watches those chains, and settles what falls due. This directory holds
TLA+ models of the parts of both that carry the program's own logic, TLC
configurations that check them on small instances, and proofs, checked by TLAPS,
of the properties that matter most for every value of the constants.

Paths below are relative to the repository's root, without the leading `src/`.

1. [The system](#the-system)
2. [Modules and the code they model](#modules-and-the-code-they-model)
3. [Runs](#runs)
4. [Fairness](#fairness)
5. [Proofs](#proofs)
6. [Where the code and its documents disagree](#where-the-code-and-its-documents-disagree)
7. [What is not modelled](#what-is-not-modelled)
8. [Plan](#plan)

## The system

Three products share one server and one durable store.

- **Stock early pay.** An employer funds USDC earnings that fall due at a date. A
  funder deposits stock tokens and signs offers. The worker takes one offer, gets
  the stock at once and assigns a part of the earnings to the funder.
- **Agreement early pay** ("Upfront"). A provider of a protected agreement on Arc is
  advanced money on X Layer. When the agreement completes, a router on Arc splits
  its payment between funder, provider and treasury.
- **Trades and work.** Two parties negotiate, and pay through an escrow contract or
  through an agreement of Hash PayLink, another service.

Savings vaults, pocket payments, identity, market data and the user interface
stand beside them.

### Components

| Component | State it keeps | Operations | Makes it correct |
|---|---|---|---|
| Stock escrow, `contracts/src/StockEarlyPayEscrow.sol` | inventories, earnings, claims, used offers, liability counter, policy and its version | owner's policy calls; deposit and withdraw stock; fund, approve, cancel, release earnings; cancel and accept offers; settle | it always holds what it owes; each claim is paid once; an approval counts only under the policy its signer saw; what is due can always be paid |
| Stock receipts, `api/stock-early-pay-reconciliation.ts`, `scripts/stock-receipt-worker.ts` | receipt cursor, evidence per offer, in the store | scan and apply, from request handlers and two workers | no receipt the cursor passed is missing; no proof of a removed block outlives the next look at the cursor; concurrent writes are kept |
| Stock settlement worker, `api/stock-settlement-worker.ts` | journal of signed transactions, an advisory lock | finish pending jobs, then sign, journal and send one | what is sent is journalled first; a nonce is shared only where a reorganisation freed it, and then one of the two is paid for; every delivered offer is settled in the end |
| Trade escrow factories, `TradeEscrowFactory.sol`, `MultiAssetTradeEscrowFactory.sol`, `XStocksTradeEscrowFactory.sol` | approved tokens and the list that mirrors them; the escrow of each offer | approve and revoke a token; create an escrow | the list that clients page through is the approvals; one escrow per offer, in a token approved at its creation |
| Trade escrows, `TradeEscrow.sol`, `XStocksTradeEscrow.sol` | state of the trade, clocks, proposal, balance or shares | accept, cancel, fund, dispatch, confirm, approve, release, refund, dispute, propose, withdraw, accept a split, resolve, recover | paid out once and in full; a dispute freezes it; agreed splits are mutual |
| Advance escrow and repayment router, `UpfrontAdvanceEscrowV2.sol`, `ArcRepaymentRouterV4.sol`; pricing and signing, `api/upfront-fees.ts`, `upfront-funding-terms.ts`, `upfront-protection*.ts` | positions, settled agreements; nothing on the server but its keys | fund, release, refund; settle an agreement; sign terms, attestations and splits | both contracts hold exactly what they owe; an agreement backs one advance and its payment repays once, a released advance of its terms at its price; signed quotes can be funded |
| Agreement settlement worker, `api/upfront-settlement-worker.ts`, `upfront-settlement-evidence.ts`, `upfront-settlement-runtime.ts` | checkpoint and evidence of each request | sign, submit, wait, recover from logs, record | the search never starts behind the settlement; recorded evidence is real; every repayment is recorded |
| Early-pay assignment, `api/upfront-opportunities.ts` | the assignment of a request to a partner | select a partner, decline | not changed once the position is funded |
| Work requests, `api/service-requests.ts`, `work-xlayer.ts`, `arc-agreement-webhook.ts` | the request with its versions, its link, its wallets and observed block; received webhooks | create, accept, counter, decline, cancel; acceptance with its calls; webhooks; looks at the escrow | agreements only for standing terms, never orphaned; final outcomes are not forgotten |
| Locked savings, `LockedSavingsCohortVault.sol` | cohorts, positions, reward pools, carried rewards | deposit, cancel, exit early, claim | managed money adds up; whatever the order of exits and claims, every saver can claim, alike within a cohort, and no penalty strands |
| Personal savings, `PersonalSavingsVault.sol` | plans, exit requests | create, withdraw, request, cancel and complete an emergency exit | never more than was unlocked, never less in the end |
| Assessments and reviews, `api/upfront-assessment.ts`, `upfront-reviews.ts` | one record per idempotency key: pending, completed, its review, the assignment | register, replay, complete, clean up; submit, approve, decline; select a partner | one assessment at a time under a key; what funding terms were signed for is not replaced |
| Pocket transfers, `api/pocket-transfers.ts` | transfers and their Circle challenges | create, import, cancel, reconcile | each transfer is counted once against the available balance |
| Trade negotiation, `api/trade-community-store.ts`, `trade-store.ts`, `trade-hosted.ts` | listings, enquiries, offers, reservations, wallets and hosted accounts, blocks, reports | list, edit, enquire, offer, respond, connect, reserve, open and close a checkout, release, expire, block, report, moderate | one deal per item and one way to pay it; a paid offer stands; what was taken down stays down |
| Durable store, `api/durable-store.ts` | documents in rows | read; mutate under the row's lock | a mutation happens whole or not at all |
| Gateways, other webhooks, ledger, accounts, market data, operations, user interface | see `PROJECT.json` | | |

### How they interact

- **Shared store.** Handlers and workers share documents in the durable store. A
  mutation holds the lock of its row from its read to its write. Everything between
  two mutations, above all every wait for a chain or a service, is open to others.
- **Chains.** The server never holds money. It signs, the contracts check; it reads
  receipts, at a confirmed height of a chain that may still be reorganised.
- **Signatures.** A risk approval, an attestation or a split settlement is made from
  a state that was read earlier and is used later, on another chain, by somebody
  else. Its policy version, deadline or nonce is all that ties the two.
- **Callbacks.** Hash PayLink tells what became of an agreement by webhooks: in any
  order, more than once, or late.
- **Advisory locks.** The two settlement workers exclude each other by locks of the
  database session, which vanish with the session, not with the work.
- **The caller.** Whoever asks for an attestation or a split names the agreement. What
  ties it to an advance is the terms that both carry, not its identity.

### What is hard here

`PROJECT.json` lists the hazards, each at its line, with the properties that
would catch it. In short: a store read before a wait and used after it; chain
snapshots older than the cursor they are compared with; several reads of one chain that
moves between them; a process that dies
between signing, journalling and sending; a lock lost while a signed transaction
is in hand; reorganisations below what was recorded; two chains without a common
clock; signatures still valid after what they attest has ended; rollbacks of
attempts that overlap; rounding that makes two sides of a ledger differ; and
debts that must be payable when everything else is paused.

More of this kind lies in parts that are only planned: the reconciliation of pocket transfers
(`api/pocket-transfers.ts:186-197`), which asks Circle between read and write;
the exit requests of the personal savings vault, which run against its schedule; the
customer's decision on an agreement
(`api/customer-requests.ts:114-127`); a mutation that
asks a chain while it holds the row (`api/durable-store.ts:113`); and the settlement daemon
(`api/upfront-settlement-daemon.ts:50`), whose request to run again is lost when
the lock is not acquired. The daemon's period makes up for it, which is the
fairness assumed below.

## Modules and the code they model

`PROJECT.json` maps each definition to its lines. Throughout, a contract call is
one action and a revert is an action that is not enabled; a mutation of the store is
one step; and every await is a boundary between steps. Definitions marked
"fault", "Faulty" or "Mutant" are not part of a specification. They are plausible mistakes,
each put in place of the definition beside it to see that the properties notice.

| Module | Models | Shape |
|---|---|---|
| `StockEarlyPayEscrow` | the stock escrow | One action per external function, `signRisk` for the server's risk key, `Tick` for time. An offer is its own identity (the code hashes its fields). `approvals` keeps, as history, the policy the signer saw |
| `StockReceipts` | receipt scans | A handler takes its chain snapshot and reads the store, a worker reads the store first; then the scan compares the cursor's hash, reads the boundary block, reads the logs, and is applied, each a step. Blocks have identities, so that a replaced block is another block. `overlooked`, `submitted`, `deep` and `blind` are history: offers prepared between a worker's two reads, receipts named by hand, whether a block was ever taken away that the cursor or a pass had taken for confirmed (`Trusted`), and whether the cursor was moved by a scan whose own cursor was taken away between its comparison and the read of the boundary |
| `StockSettlement` | the stock settlement worker | A pass: lease and snapshot, then one step for each job it passes over, and for each of the counts of nonces, the simulation, the insertion and the broadcast. The journal survives; the pass, its lease and the mempool may not. `undone` is history: the nonces whose transaction a reorganisation took back |
| `TradeLifecycle` | what both trade escrows share | All actions before and around the money, as parts the two modules below extend |
| `TradeEscrow` | `TradeEscrow.sol` | The lifecycle with a token balance, donations and `recoverExcess` |
| `XStocksTradeEscrow` | `XStocksTradeEscrow.sol` | The lifecycle in shares, with an index the issuer moves at any time and rounding in each conversion |
| `EscrowPromise` | the abstract specification of a trade | Five actions: fund, dispute, cancel, close, decide; once there is a dispute the seller gets something only by a decision. Both escrows implement it (`KeepsPromise`, with the refinement mapping in each module) |
| `TradeDeployment`, `ShareIndex` | the factories, with the escrow that one of them deploys | Approvals and the swap-and-pop list; then the steps of an instance of `TradeEscrow` or of `XStocksTradeEscrow`, whichever the factory deploys, over the same parties and clock |
| `TradeMarket` | trade negotiation and checkout | One action per store method, since each is one transaction that locks what it reads. A hosted checkout is two transactions with a call to Hash PayLink between them; `calls` holds what each call under way believes it saw, and any of them may be answered late, or never. Its specification is `MarketSpec` |
| `ItemSales` | the abstract specification of a sale | An item's deal is agreed, reserved, advanced, given up; the item is shown as something, until it is removed. `TradeMarket` implements it (`KeepsSales`): the deal of a listing is its offer that is accepted or can be, or was, paid, with its reservation and its checkout; threads, wallets, blocks, reports and the calls under way are what it does not see |
| `LockedSavings` | the locked savings vault | One action per function. Checked arithmetic is a guard (`Covered`), and a property says that the guard never stands between a saver and their money. `penalties` and `rewarded` are history |
| `SavingsPromise` | the abstract specification of fixed-term savings | A saver saves, then cancels, leaves early or claims; each duration has one common sum for rewards. `LockedSavings` implements it (`KeepsPromise`): that sum is the pools of the duration's cohorts and what it carries, so fixing, rounding and carrying are steps within it |
| `Assessments` | assessments and reviews | One key's record; each request is registered, assessed, completed or cleaned up, and may fail or die between any two. `displaced` is history: requests whose pending record another's cleaning up removed while they were at work. Its specification is `AssessmentSpec` |
| `UpfrontAdvance` | both contracts of an advance, and the server's signatures | Two chains and one clock; positions, agreements, the sets of signed terms, proofs and splits, from which anybody may use any at any time. The caller names offer and agreement, which need only be of the same terms (`Alike`). A request for an attestation (`asked`) reads the agreement in one step and is signed in a later one, if ever. `lapsedAt` and the `read` of a proof are history. Signatures that nothing would take any more are dropped |
| `AdvancePromise` | the abstract specification of an advance | An account is funded, then refunded, or released against an agreement of its terms that backs no other; and each agreement's payment repays once, a released account of its terms, at its price. `UpfrontAdvance` implements it (`KeepsPromise`): the accounts are the positions on X Layer, the repayments are the splits on Arc, and the terms are where the two chains meet |
| `UpfrontSettlement` | the agreement settlement worker and the assignment | A request's record, Arc's blocks and pool, two workers with a lease, a handler that holds the row while it reads X Layer. `peak` and `taken` are history: the longest the chain ever was, and the most that reorganisations, alone or together, took back from there. Its specification is `SettlementSpec` |
| `ServiceRequests` | work requests | The request, several acceptances and observers with a program counter each, Hash PayLink's agreements and notices, the escrow by block |
| `LedgerSums` | sums | The sum of a finite ledger as a cardinality, which is checkable and provable without recursion |
| `MCStockEarlyPayEscrow`, `MCUpfrontAdvance`, `MCLockedSavings` | constants of the runs | Offers, balances, agreements and the symmetries |
| `*Proofs`, `LedgerSumTheorems` | proofs | Below. `TradeProofs` extends `TradeDeployment` and `TradeMarket`, `UpfrontProofs` extends `UpfrontAdvance`, `Assessments` and `UpfrontSettlement`, which is why these name their specifications and variables apart; the others extend the module they are named after |

Abstractions worth knowing:

- Addresses, hashes and signatures are model values. A signature is a record in a set
  of what was signed, so nobody uses one that was not made.
- Integers have no width. The contracts compile with checked arithmetic, where an
  overflow reverts; the money in the models is far below.
- Two chains share a clock. The contracts compare their timestamps only with
  deadlines, and the hazards between the chains are in the order of steps, which is free.
- A block that a reorganisation took away does not come back under its old hash. A node that answers from an
  abandoned fork again, after the other one was seen, is outside `StockReceipts`.
- Terms are their version number (`ServiceRequests`), offers their due date's rank
  (`StockSettlement`), a block its identity (`StockReceipts`).
- Field by field checks of a request against a position, address formats, the
  ordering of error messages, and authorisation of callers are taken as satisfied.
- Tokens are exact: both families of contracts refuse a transfer that moves another
  amount than asked.

## Runs

Deadlock is checked unless noted. The distinct states are those of the last run.

| Run | Distinct states | Question |
|---|---|---|
| `stock_escrow` | 332,490 | Does the escrow hold what it owes, is each debt paid once and in the end, is stock delivered only under the policy the signer saw? |
| `stock_receipts` | 2,030,909 | A handler and a worker, a reorganisation of up to three blocks between any two reads: is a receipt lost, does a worker rewind, does a false proof stay? |
| `stock_receipts_rewound` | violation | Two handlers, no reorganisation: does a stale scan rewind? |
| `stock_settlement` | 493,275 | Two overlapping workers and any two mishaps: when is a nonce shared, journal, order, and settlement in the end |
| `trade_deployment` | 566,200 | A factory and the escrow it deploys, of either kind: the list, the funds, mutual agreements, refinement, and an end |
| `trade_market` | 512,383 | Two buyers, two offers, two hosted calls at once: one deal per item, paid offers, refinement |
| `upfront_advance` | 901,536 | Both chains, two assessments and two agreements of one kind in any pairing: money, repayment, attestations, refunds, refinement |
| `upfront_settlement` | 491,238 | Two workers, the funder, two reorganisations and a mishap: is every repayment recorded, truthfully? |
| `assessments` | 480,465 | Three requests and two reviewers on one key, two mishaps: one assessment at a time, does an assignment survive, do retries succeed? |
| `service_requests` | 127,391 | Three acceptances and two looks at once: agreements, links, recovery, what is shown |
| `service_requests_reopened` | violation | Two acceptances: does a cancelled request stay cancelled? |
| `locked_savings` | 166,112 | Three savers, two durations: is the vault solvent, is every claim covered, do penalties strand, are claims fair? Refinement |

### What the properties say

**Stock escrow.** `Backed`: the liability counter is the sum of held earnings and open
claims, the escrow holds it, and holds every stock token in the inventories.
`DebtsPaidOnce`: USDC leaves only for one due debt,
in full, to its creditor. `ApprovedEarningsStayAssigned`: from the
approval the employer cannot take earnings back. `DeliveredUnderSeenPolicy`: no
delivery under a policy other than the one the risk signer read.
`EverybodyEventuallyPaid`: with the two permissionless payouts called when due, no
pause keeps a claim or approved earnings unpaid.

**Receipts.** `CursorCoversReceipts`: every receipt in a block the cursor passed is in
the store. It holds as long as no block is taken away that the cursor had passed or a
pass took for confirmed, however deep the other reorganisations are, and exempts the
receipts of offers that a worker's pass overlooked between its two reads (see below).
`WorkersDoNotRewind`: without a reorganisation no step of a worker moves the cursor back.
`ReorganisedProofsDropped`: once the cursor stands on the new chain, so does every proof
the scans found, unless the scan that moved it had compared its cursor just before a reorganisation
took that cursor's block away (`blind`); the next scan that starts again drops the proof.

**Stock settlement.** `NoncesSharedOnlyOnceSettled`: two jobs have one nonce only if a
reorganisation took back the transaction that had consumed it, and another account paid one of the two
claims in a confirmed block. `JournalTruthful` (whatever a node holds
is journalled; a job is marked failed only for a revert that stays),
`OneJobAtATime`, and `EveryOfferSettled` (or the worker stopped for an operator, as
the comment at `api/stock-settlement-worker.ts:80-81` intends).

**Trade escrows.** `ListMirrorsApprovals`: the list holds each approved token once and the
index finds it there, after any approvals and revocations. `FundsSafe`: an open trade is
fully held, an ended one fully paid, through donations, recoveries, rounding and the index
(in a stock token this is `SharesAccounted`). `AgreementsAreMutual`: an accepted split is the
one the other party last proposed and did not withdraw. `KeepsPromise`: refinement of
`EscrowPromise`, whichever contract was deployed; so neither the inspection clock, which runs
on during a dispute (`TradeEscrow.sol:132`), nor an approval pays a seller whom the buyer disputes. `FundsEventuallyLeave`.

**Trade negotiation.** `OneDealPerItem`: no two offers on a listing can be paid or accepted at
once, and none both from a wallet and hosted. `PaidOffersStand`: an offer whose checkout is
open or paid stays accepted and reserved, whatever a late answer says.
`KeepsSales`: refinement of `ItemSales`. A deal begins on a shown item that has no other,
goes forward one step at a time, and ends only before a way to pay was chosen or when its
checkout lapsed unpaid; an offer given up is not taken up again; and a removed listing is not
brought back by an edit from an older page, a late release or a closed checkout.

**Locked savings.** `BooksBalance`: principals, pools and carried rewards add up to what the vault
manages, which it holds (`Solvent`), and each penalty is paid within its duration or
still waits for somebody who can claim it (`PenaltiesStayInTheirTerm`).
`ClaimsAlwaysCovered`: once a cohort has matured nothing in a
claim can revert. `KeepsPromise`: refinement of `SavingsPromise`. `FairInAnyOrder`: when they claim makes no
difference between savers of one cohort.

**Advances.** `MoneyCovered`: the escrow holds exactly its funded advances, the router
exactly the payments it has not split. `KeepsPromise`: refinement of `AdvancePromise` over
both chains; two advances released against one agreement, or a second payout of one, would be no step of it.
`RepaidAsAgreed`: a split pays the funder of a *released* advance of the agreement's terms its signed
price and spends all of the payment, so no advance is refunded and repaid. Which of two agreements
of equal terms repays which advance is up to the callers (see [below](#where-the-code-and-its-documents-disagree)).
`SignedTermsFundable`: a quote of the server's arithmetic passes the contract's.
`RefundAlwaysOpen`: after the deadline the funder's refund is enabled, whatever was
paused or rotated. `ReleasesWereProtected`: a release on a lapsed agreement comes
within an attestation's life and the time its request waited after it had read the agreement.

**Agreement settlement.** `CheckpointCoversSettlement`: the search never begins behind the
settlement, as long as all reorganisations together stay within the overlap of two
blocks (`docs/AGREEMENT_SPLIT_WORKER.md:31`). `EvidenceIsCanonical`: what is recorded is on the
chain, as long as they stay within the two confirmations (`:29`), one of which is the
block itself. `EveryRepaymentRecorded`, within the same overlap: TLC finds that two
reorganisations of two blocks each can put the settlement below the checkpoint.

**Assessments.** `OneAssessmentAtATime`: who is at work holds the pending record, unless it was
displaced. `AssignmentsSurvive`: what funding terms were signed for stays in the record
through late assessments, submissions and decisions, unless a request was displaced.
`RetriesGetThrough`: a client that keeps asking gets its assessment.

**Work requests.** `AgreementsAreForStandingTerms`: an agreement exists only for terms
both accepted and nobody can change, even where the answer of the creation was lost.
`LinkedAgreementsAreOwned`, `AttemptsStayRecoverable`: the same terms can be accepted
again until the link is there. `FinishedStaysFinished`: a final outcome is never
shown as running again.

### Bounds and why they are enough

- *Stock escrow.* One employer, worker, funder and asset, since accounts of one role never
  read each other's entries except through the shared totals, and these are proved for
  any number of them. Two offers that differ by their nonce and together use up the
  earnings of 4, each with a fee, so that partial assignment, a second offer on the
  rest, exhaustion and a cancelled nonce all occur; time runs past the due date. Two
  approvals and policy versions up to 5: allow the asset and the funder, sign, change
  something and change it back. The theorem `PolicyChangesVoidApprovals` speaks for longer histories.
- *Receipts.* One offer and its delivery, since a scan treats every receipt alike and the theorems
  speak of any number of them, of both kinds; a handler and a worker, which read in
  opposite orders, five blocks with a span of 2 and two confirmations, and one
  reorganisation of up to three blocks, so from within the confirmations to below the cursor. That is
  enough to take a cursor's block away between two reads of a scan and mine two others above its
  height, which breaks the stricter `EvidenceOnCursorsChain`.
- *Stock settlement.* Two offers and two processes (an overlapping deploy) and two
  mishaps together: a crash with a lost session, a lost session with a
  reorganisation, a revert with a wiped evidence, and so on. A payment by another account and a
  reorganisation are the two that `NoncesSharedOnlyOnceSettled` is about.
- *Trade escrows.* One trade is the whole contract, and the trades of one factory share
  only its approvals. Time runs to 4 with a deadline and windows of 1;
  amounts 1, 3 and 4 around the trade's 3; two proposals; one
  donated token; indexes 2 and 3 over a scale of 2, which round. Two tokens, so that the
  list has a last and another entry to swap. The theorems speak for longer windows,
  other amounts and other indexes.
- *Trade negotiation.* One listing, since a deal locks one listing and two share nothing
  but the pair's block, with two buyers and two offers, both of one buyer or one of each; two calls
  at once, which is one to be late and one to overtake it; revisions up to 3, so an offer
  can be made on terms that were edited before it is accepted. Buyers and offers are
  alike, hence the symmetry.
- *Locked savings.* Deposits of 20 and 50: penalties of 1 and, rounded down, 2 units, and the
  same for the largest reward. Three savers in three positions give every order of two who stay and one who
  leaves; two durations and two starts give a cohort to carry to, one to keep apart from, and
  terms that overlap. The proofs cover any numbers.
- *Assessments.* Three requests: one whose record is removed, one that removes it and one that
  takes the key next; two payloads for the conflict; two reviewers; two mishaps.
- *Advances.* Two assessments and two agreements of the same terms, so that each may be
  named with each and both may be named with one; one funder, since the prices of the two advances, 2 and 4,
  tell them apart; two keys, of which one signer at a time is rotated; fees of which one rounds;
  advances within and at the cap; two signed terms, two proofs, one waiting request and one
  split at a time. Owner calls that change nothing are left out. Assessments and agreements
  are alike, hence the symmetry; no liveness is checked in that run.
- *Agreement settlement.* Two workers and the funder, pages of 3 blocks with the overlap
  of two, two reorganisations of a block each, one right after the other or apart, one mishap. The initial states include
  a request recorded as settled without evidence by older versions
  (`docs/AGREEMENT_SPLIT_WORKER.md:33`). `MaxQuiet` bounds blocks without a
  settlement, which only move heights.
- *Work requests.* Three acceptances and two observers, two versions of the terms, six
  blocks: enough for one acceptance to fail while a second creates and a third
  retries, and for the escrow to go through all its states between two looks.

`CHECK_DEADLOCK FALSE` stands where the modelled part really ends: a trade that is paid
out or cancelled when time has run out, a listing whose edits and offers are used up, a vault
after the last time considered, an agreement whose repayment is recorded, a request
that was declined or finished.

No run spends its time on a type invariant: each is proved (`TypeCorrect` and its like below),
except that of `XStocksTradeEscrow`, which is a conjunct of the invariant `SharesInv`.

## Fairness

Only liveness properties use it, each module in its `FairSpec` (`FairAssessmentSpec`, `FairSettlementSpec`).

- `StockEarlyPayEscrow`: time passes, and `settle` and `releaseEarnings` are called as long
  as one is due. Both are open to anybody; the settlement worker calls the first.
- `StockSettlement`: every started pass goes on or dies and the deployment's loop starts
  another; miners include what a node holds; blocks are confirmed; the receipt scans
  find each delivery again. Crashes, lost sessions and drops are not fair, and
  limited in number: with one before every send nothing would ever be sent.
- `TradeDeployment`: time passes; the buyer takes back what was never dispatched; the seller
  disputes what was never confirmed; anybody ends an inspection; the arbiter resolves.
  Each is the interest of who acts, and the contract offers no other way out.
- `Assessments`: a handler that lives goes on, since its calls have timeouts
  and a failure is a step; and a client that repeats its request under its key, which is what
  the key is for, does so until the assessment is there. (The interface takes a
  new key after an error, `src/components/StreamPayUpfront.tsx:137`, and starts over.)
  Nothing is assumed of reviewers and partners.
- `UpfrontSettlement`: workers take their steps, since the daemon passes periodically
  (`docs/AGREEMENT_SPLIT_WORKER.md:5`); pending settlements and the block after them are
  mined; a handler that has read writes. Nothing is assumed of the funder.

## Proofs

`tlapm` checks all of these, for every value of the constants that satisfies the
modules' named assumptions (distinct addresses, finite sets, natural numbers, a nonzero
denominator). TLC evaluates the assumptions in the runs.

| Module | Theorem | Property of a run |
|---|---|---|
| `LedgerSumTheorems` | `TotalUpdate` | |
| `StockEarlyPayEscrowProofs` | `TypeCorrect` | |
| | `EscrowBacked` | `Backed` |
| | `EveryDebtPaidOnce` | `DebtsPaidOnce` |
| | `ApprovalIrrevocable` | `ApprovedEarningsStayAssigned` |
| | `PolicyChangesVoidApprovals` | `DeliveredUnderSeenPolicy` |
| `StockReceiptsProofs` | `TypeCorrect` | |
| | `CursorCovers` | `CursorCoversReceipts` |
| | `ReorganisedDropped` | `ReorganisedProofsDropped` |
| | `WorkersMoveOn` | `WorkersDoNotRewind` |
| `StockSettlementProofs` | `TypeCorrect` | |
| | `NoncesShared`, `JournalTrue`, `JobsOneByOne` | `NoncesSharedOnlyOnceSettled`, `JournalTruthful`, `OneJobAtATime` |
| `TradeProofs`, each contract | `TypeCorrect`, `TradeFundsSafe`, `TradeKeepsPromise`, `SharesAlwaysAccounted`, `SharesKeepPromise` | |
| `TradeProofs`, deployments | `FactoriesDeployEscrows`, `DisputesFreeze` | |
| | `DeploymentFundsSafe`, `DeploymentKeepsPromise`, `AgreementsMutual`, `ListMirrors` | `FundsSafe`, `KeepsPromise`, `AgreementsAreMutual`, `ListMirrorsApprovals` |
| `TradeProofs`, the market | `MarketTypeCorrect`, `RemovedForGood` | |
| | `OneDeal`, `PaidOffersKept`, `MarketKeepsSales` | `OneDealPerItem`, `PaidOffersStand`, `KeepsSales` |
| `UpfrontProofs`, advances | `TypeCorrect`, `RefundsOpen`, `OneAdvancePerAgreement` | |
| | `MoneyAlwaysCovered`, `RepaymentsAsAgreed`, `ReleasesProtected`, `QuotesFundable`, `AdvancesKeepPromise` | `MoneyCovered`, `RepaidAsAgreed`, `ReleasesWereProtected`, `SignedTermsFundable`, `KeepsPromise` |
| `UpfrontProofs`, assessments | `OneAssessment`, `AssignmentsStay` | `OneAssessmentAtATime`, `AssignmentsSurvive` |
| `UpfrontProofs`, repayment | `SettlementTypeCorrect` | |
| | `CheckpointCovers`, `EvidenceStaysCanonical` | `CheckpointCoversSettlement`, `EvidenceIsCanonical` |
| `ServiceRequestsProofs` | `TypeCorrect`, `WorkShown` | |
| | `StandingTerms`, `LinkedOwned`, `Recoverable`, `FinishedStays` | `AgreementsAreForStandingTerms`, `LinkedAgreementsAreOwned`, `AttemptsStayRecoverable`, `FinishedStaysFinished` |
| `LockedSavingsProofs` | `TypeCorrect`, `VaultSolvent`, `PenaltiesInTerm` | |
| | `BooksBalanced`, `ClaimsCovered`, `FairClaims`, `VaultKeepsPromise` | `BooksBalance`, `ClaimsAlwaysCovered`, `FairInAnyOrder`, `KeepsPromise` |

So every safety property that a passing run checks is proved, but for `RefundAlwaysOpen`
(below). Six theorems state what no run repeats: `OneAdvancePerAgreement`
(`AgreementBacksOneAdvance`: no two released advances are backed by one agreement), `RemovedForGood` (`HiddenStaysHidden`, a part of `KeepsSales`), `RefundsOpen`
(`RefundGuarded`: the conditions of a refund that is due, the money included), `DisputesFreeze`
(`DisputeBlocksRelease`: from a dispute on, neither the buyer's approval nor a clock
pays the seller: what `KeepsPromise` implies, said of the contract's own state), `FactoriesDeployEscrows` (a deployment is a behaviour of the contract it
deploys) and `WorkShown` (`WorkMatchesEscrow`: what is recorded of work on X Layer is what its
escrow was at the block recorded with it).

The arguments:

- **Sums.** `Total(f)` is the number of pairs of a key and a unit. Changing one entry
  replaces one block of pairs, whose sizes the finite-set theorems give; so the sum
  changes by the difference (`TotalUpdate`). Every solvency proof is this lemma once
  per ledger an action touches.
- **Stock escrow, `SolvencyInv`.** Types, accepted offers are used offers
  (`ClaimsUsed`, without which a second acceptance would overwrite a claim and the
  sum of the open ones would fall), `Solvent` and `StockBacked`. Acceptance moves the repayment
  from held to owed: the fee must be in both sides. From the same invariant follow the two
  action properties. A step either takes out no USDC and touches no claim
  (`NothingPaid`, `NothingSpent`), or it is one of the payouts, which discharges one debt whose
  creditor is not the escrow.
- **Policy.** Each approval's version is at most the current one, and an approval of the
  current version has seen the current policy, since every change advances the version.
- **Stock receipts, `IInv`.** A reference to a block that was mined, once off the canonical chain, never
  comes back, since a block mined again is another block; and it is lost only together with every
  block above it. So whatever lies at or below a canonical cursor is canonical with it, in the
  store (`EvidenceBelowCursor`) and in what a scan is about to write (`ScanOfOneChain`): that is
  `ReorganisedDropped`, for reorganisations of any depth. Between the comparison of the cursor and the
  read of the boundary the scan stands on the old chain with one foot, so that both parts say
  what they say of scans that did not slip and of a cursor that none of them moved (`blind`). For the cursor, as long as no trusted block is taken
  away, a pass that has taken its snapshot knows every offer in its confirmed blocks
  or it was overlooked (`PassesKnow`), a scan found what is in the blocks it is about to pass
  (`ScansCover`), and the comparison of cursors under the row lock makes the scanned
  spans meet. Without reorganisations a worker's cursor, read before the chain, is
  confirmed in its snapshot (`WorkersAdvance`).
- **Stock settlement, `IInv`.** It says what a pass carries between two statements while the lease may be
  gone. Whoever still has the lease has seen each job it passed over settled in a confirmed block and its
  nonce consumed, which only a reorganisation takes back (`LookersHold`), since nobody else could write
  the journal. So the nonce it counts is above all of them, but for those that were taken back; and such
  a job's own settlement is not on the chain, so the confirmed one is another account's (`InsertersHold`). Whoever sends, with or without the lease, sends what is journalled
  (`SendersHold`). The signer's nonces on the chain count up (`NoncesInOrder`), by a cardinality. No
  bound on passes, crashes or lost sessions is used.
- **Trades, `MoneyInv`, `SharesInv`.** What a state owes is fixed by the state; in shares,
  also that an open trade was funded with some, and that the share of a split, rounded
  down, never exceeds the shares funded (`TimesMonotonic` and its lemmas). The
  refinement maps each action to an action of `EscrowPromise` or a stutter.
- **Deployments, `DeploymentInv`, `TalksInv`.** A step of the deployment is a step of the instance of the
  contract it deployed, or leaves that contract alone (`DeploymentStep`), so funds and promise carry over. Mutual
  agreements follow from what the contract keeps of all proposals: only the last one, unless it was
  withdrawn, and no proposal after an agreement (`TalksInv`).
- **The list of tokens, `ListInv`.** Swap-and-pop moves the last entry into the gap and its index with
  it; the other entries keep their place, in every case of which entry is which.
- **The market, `MarketInv`.** A listing has one accepted offer (`AcceptedOnce`); a reservation in force
  holds the acceptance, and a retired one was closed with a lapsed checkout
  (`ReservedHold`); and a call that saw a checkout lapse is right for ever (`CallsHold`), because a
  lapsed checkout is not paid any more. So no late answer, in whatever order, closes what is
  open or paid.
- **The sale of an item, `MarketKeepsSales`.** By `MarketInv` the deals of a listing are at most one, so each step
  of the market changes at most one (`DealMoves`): accepting begins it, a reservation or a move of the checkout
  advances it, and a cancelled offer, an expired one or a closed checkout ends it. Where a deal would end early, an invariant
  stands in the way: `ReservedHold` for cancelling, `CallsHold` for a close on a late answer.
- **Advances, `SignaturesInv`.** Every attestation in existence is of a request that read its agreement
  while it was active, and expires within its life from when it was signed (`ReadActive`, `Sound`); a released position
  is against an agreement of its terms, and each agreement backs one (`ReleasedInv`); and every signed split was made
  for a completed agreement and a released position of its terms, with parts that add up
  (`Justified`). From there follow the payouts (`PayoutsInv`), and the
  router's balance once per action. The pricing lemmas bound `ceil` and `floor` by hand.
- **The promise of an advance, `AdvancesKeepPromise`.** A step of the escrow moves one account, a settlement one
  repayment (`PromiseWriters`). A release is a step of the promise because its attestation
  ties the offer to the agreement by their terms and the contract remembers every agreement
  it released against (`releasedArcAgreements`); a repayment is one because its split is `Justified`.
- **Assessments, `RecordInv`.** `OneAssessmentAtATime` is nearly inductive by itself. The assignment is not: it
  takes that a submission which read an escalated record still finds one
  (`SubmissionsHold`), and that an assignment is of the record's own offer and of an approved one, so
  that nobody who could still replace the offer may do so (`AssignmentHolds`).
- **Repayment, `SettlementInv`.** Each height and each block that a pass or the store carries is measured against the
  highest block there ever was. Blocks within the overlap of it may be mined again, lower ones
  not; so a checkpoint below it, with no settlement behind, is before every settlement to come
  (`Ahead`), and a block with another on top of it stays (`Stands`). A pass that signs for the first time
  found nothing settled after it had read its height, which is why its margin suffices.
- **Work requests, `AcceptanceInv`, `WorkInv` and `EventsInv`.** Once any acceptance has marked
  its attempt, the acceptance cannot be undone (`AttemptHolds`); so whoever is past the
  mark works on the terms that stand (`CreatorsHold`), and so does every
  agreement. For work on X Layer, the escrow does not return to before its funding
  and an observer carries what was so at its block. A shown end stays, since an agreement ends
  at most once and is told of once, in whatever order the notices come. The properties
  themselves are not inductive: they say nothing of the acceptances under way.
- **Locked savings, `IInv`.** `TypeOK`, `Solvent` and `PenaltiesStayInTheirTerm` alone are not inductive:
  they say nothing of how a cohort's totals relate to its savers, or of how much a
  matured pool has left for those still to come. `Counted` says the first: the principal
  and the number of positions of a cohort are those of its savers. `Rewarded` says the second:
  from the first claim on, pool and paid rewards are what was fixed, and
  `rewardsPaid * finalPrincipal <= finalRewardPool * (finalPrincipal - totalPrincipal)`.
  That last inequality is why nobody's claim reverts. Each reward is rounded down, so what was paid never
  exceeds the pool's share of the principal that has gone, and what is left covers the
  share of the principal that is still there (`PaidFits`). A step changes one cohort, so one lemma per
  sum (`OnlyCohort`) serves every action. Fairness needs one more fact, that each
  claim was paid by the rates the first one fixed (`PaidAsFixed`), and that these rates
  are monotone in the principal.
- **The promise to savers, `VaultKeepsPromise`.** A step changes one cohort's pool and its duration's carry, and the common sum by
  the difference (`RewardsMove`, from `TotalUpdate`). In an early exit that is the penalty, whoever keeps it; in a
  claim it is minus the reward, since fixing the pool and handing on the rest cancel out (`SettledFacts`), and the sum covers
  it because the fixed pool does (`RewardFacts`).

What stays with TLC: liveness (`EverybodyEventuallyPaid`, `EveryOfferSettled`, `FundsEventuallyLeave`,
`RetriesGetThrough`, `EveryRepaymentRecorded`), which the provers do not reach under
fairness; and `RefundAlwaysOpen`, which speaks of `ENABLED` (`RefundsOpen` proves the guard of the refund,
from the sum that the escrow holds; that a step under this guard exists is plain). The two properties of the violated
runs are refuted, not proved.

## Where the code and its documents disagree

**A late snapshot rewinds the receipt cursor** (`stock_receipts_rewound`). A handler takes
its chain snapshot (`api/stock-early-pay.ts:73`) before it reads the store (`:74`). If another
scan moves the cursor in between, the cursor lies above the snapshot's confirmed height and
`stock-early-pay-reconciliation.ts:35` takes that for a reorganisation: the evidence of all offers
is dropped and the cursor returns to the deployment block.
`docs/STOCK_EARLY_PAY_BUILD_2026-09-10.md:137` says stale scans cannot rewind progress. The workers
read the store first, and there it holds (`WorkersDoNotRewind` in `stock_receipts`); later scans find the
receipts again, and settlement waits that long.

**A rollback reopens a cancelled request** (`service_requests_reopened`).
`rollbackAcceptance` (`api/service-requests.ts:462`) looks neither at the request's status nor at the
version it rolls back. Two acceptances of one version both fail before the creation; the
first rollback lifts the guard on negotiation, the request is declined or cancelled, and
the second makes it `provider_accepted` again.
`docs/REQUESTS_PRODUCTION_AUDIT_2026-09-08.md:7` says that accepted-version guards exclude this kind
of overwriting. No agreement can come of it by itself, as `AgreementsAreForStandingTerms` shows.

Three more disagreements have no violated run of their own. The modules state the stricter property
beside what the code keeps; no run checks it, and what the code keeps is checked and proved.

- **Proofs under a new cursor.** A scan compares the hash of the cursor's block
  (`api/stock-early-pay-reconciliation.ts:35`), then waits for the boundary block (`:42`), the logs and the
  receipts, and reads only the boundary again (`:60`). If a reorganisation takes the cursor's block away
  between `:35` and `:42`, the cursor moves to the new chain and the proofs of the old one stay.
  `docs/STOCK_EARLY_PAY_BUILD_2026-09-10.md:137` says that a changed checkpoint removes prior evidence
  (`EvidenceOnCursorsChain`). `ReorganisedProofsDropped` says that nothing else keeps such a proof.
- **A nonce signed twice.** The nonce that shows an earlier job finished is read at
  `api/stock-settlement-worker.ts:82`, the counts for the next one at `:118` and `:119`. Where another account paid the
  earlier claim and the job's own transaction, which reverted, is reorganised away and dropped in between, the next
  job takes its nonce. The worker says "never allocate a replacement nonce" (`:20`) and to keep it reserved until
  it is consumed (`:81`; `docs/STOCK_MAINNET_HANDOFF_2026-09-12.md:34,36`): `OneTransactionPerNonce`.
  `NoncesSharedOnlyOnceSettled` says that this is the only way; one of the two claims is then paid already.
- **The payment of another agreement.** The split is signed for the agreement the caller names
  (`api/upfront-protection.ts:104,109`), and nothing compares it with the one the position was released
  against (the settlement worker does, `api/upfront-settlement-worker.ts:271`). Of two agreements with the same
  terms the payment of one can repay the advance on the other, and one advance can be repaid by both.
  `README.md:141-143` says that the agreement is bound to the funder (`RepaidFromItsAgreement`).
  `RepaidAsAgreed` and `KeepsPromise` say what is kept: one repayment per payment, its terms and its price.

Four more observations have no run either, since no document denies them.

- A worker pass that stalls between its read of the store and its snapshot for as long as
  an offer takes to be prepared, accepted and confirmed moves the cursor past that delivery
  (`scripts/stock-receipt-worker.ts:24`). `CursorCoversReceipts` exempts exactly these
  offers (`overlooked`); a participant can still submit such a receipt by hand.
- An attestation can be of what was read long ago. The agreement is fetched without a timeout
  (`api/upfront-protection.ts:80,109`), and the ten minutes of the attestation begin when the clock is read after it
  (`:115`). So a release can follow a lapse by more than ten minutes, by as long as the request waited:
  `ReleasesWereProtected` counts both.
- A decline that read the position as available may be
  written after it was funded (`api/upfront-opportunities.ts:404`); the workers then skip the request.
- A request for an assessment that is refused because its key is in use, or that fails, deletes
  any pending record under the key (`api/upfront-assessment.ts:397`), also that of another request
  still at work. The key is then free, a third request may be assessed, reviewed and assigned
  to a partner, and the displaced one, when its answer comes, writes its whole record over
  that. `scripts/upfront-assessment-smoke.mjs:121-124` expects one assessment per key of requests that
  follow one another, and gets it; the interface itself never repeats a key that failed. `OneAssessmentAtATime` and `AssignmentsSurvive` hold of
  all requests but these (`displaced`).

## What is not modelled

`PROJECT.json` lists every component with its reason. In short:

- Planned, see below: the personal savings vault, pocket transfers, the customer's decision.
- Superseded: the V1 contracts of early pay, which the server no longer accepts for new advances.
- Without state of their own, or forwarding: gateways, escrow clients, funding
  partners, market data, identity and wallets, operations. The models take what they
  return as free within its range.
- The financial ledger posts in single idempotent transactions and nothing calls it yet.
- Most of the repository's lines are no component of this kind: React components and the Android
  shell (some 200 files), smoke tests and scripts, deployment files. They render, configure or exercise what is
  modelled here, and keep no state whose order could matter.

Parts of modelled components that are left out are in the notes of `PROJECT.json`: a partner's
capacity over several requests, messages, evidence and daily limits of the trade market, the daemon's backoff, gas checks, evidence texts,
ownership transfer of the contracts, and the signature check of webhooks.

## Plan

Done, in this order, the money first: the stock escrow; its receipts and its settlement; the
trade escrows with their promise; advances on two chains; their settlement; work requests;
locked savings with their proofs; the factories; trade negotiation; assessments; the abstract
specifications of a sale, of an advance and of savings.

Next, each with its module, abstract statement, run and proof:

1. `PersonalSavings` for `PersonalSavingsVault.sol`: plans, schedule and emergency exit;
   money in equals money out; an exit cannot be hurried, and always ends. Proof with `TotalUpdate`.
2. `PocketTransfers` for `pocket-transfers.ts`: a record, its challenge and the reconciliation;
   nothing is counted twice or forgotten.
3. The daemon of the settlement worker (`upfront-settlement-daemon.ts:30-128`), to derive
   the fairness `UpfrontSettlement` assumes; a partner's capacity in the assignment; the
   customer's decision in `ServiceRequests`.

Then their proofs, as said.
