------------------------ MODULE StockEarlyPayEscrow ------------------------
(***************************************************************************)
(* contracts/src/StockEarlyPayEscrow.sol: an employer funds USDC earnings  *)
(* that fall due at payAt, and approves them; a funder deposits stock      *)
(* tokens and signs offers; the worker accepts one offer with a fresh risk *)
(* approval, receives the stock at once and assigns part of the earnings   *)
(* to the funder, who is repaid when they fall due.                        *)
(*                                                                         *)
(* A transaction is one atomic action; a revert is an action that is not   *)
(* enabled.  Earnings are named by <<employer, salt>> and offers by their  *)
(* own fields, which is what the two hashes identify.                      *)
(***************************************************************************)
EXTENDS Integers, FiniteSets, LedgerSums

CONSTANTS
    Accounts,           \* externally owned accounts
    Escrow,             \* the contract's own address
    Assets,             \* stock tokens that are contracts and not USDC
    Signers,            \* keys that can be the contract's riskSigner
    Salts,              \* salts an employer picks for its earnings
    Offers,             \* the offers a funder may sign
    Amounts,            \* amounts passed to deposits, withdrawals and funding
    BPS,                \* the fee denominator: 10_000 in the code
    MaxFeeBps,          \* the immutable maxFeeBps
    MaxRiskAge,         \* the immutable maxRiskAge
    UsdcSupply,         \* the USDC each account owns at first
    StockSupply,        \* the stock tokens each account owns at first
    MaxTime,            \* bound: last block timestamp
    MaxPolicyVersion,   \* bound: administrative changes
    MaxApprovals        \* bound: risk approvals signed

VARIABLES
    now,                \* block.timestamp
    paused, allowedAsset, allowedFunder, riskSigner, policyVersion,
    inventory,          \* funder -> asset -> deposited tokens
    earnings,           \* the earnings that exist
    claims,             \* offer -> claim, for the offers accepted
    usedOffers,
    totalUsdcLiability,
    usdc, stock,        \* token balances, the escrow's included
    approvals           \* risk approvals signed so far

policyVars == <<paused, allowedAsset, allowedFunder, riskSigner, policyVersion>>
vars == <<now, policyVars, inventory, earnings, claims, usedOffers,
          totalUsdcLiability, usdc, stock, approvals>>

Holders == Accounts \cup {Escrow}
EarningsIds == Accounts \X Salts
Times == 0 .. MaxTime

OfferType ==
    [earningsId: EarningsIds, funder: Accounts, asset: Assets,
     tokenAmount: Nat, principal: Nat, feeBps: Nat,
     payAt: Nat, expiresAt: Nat, nonce: Nat]

PolicyType == [assets: SUBSET Assets, funders: SUBSET Accounts, signer: Signers]

EarningsType ==
    [employer: Accounts, worker: Accounts, available: Nat, payAt: Nat, approved: BOOLEAN]

ClaimType ==
    [funder: Accounts, worker: Accounts, earningsId: EarningsIds,
     repayment: Nat, payAt: Nat, settled: BOOLEAN]

\* "seen" is history: the policy in force in the block the signer looked at.
ApprovalType ==
    [offer: Offers, observedAt: Nat, validUntil: Nat, policyVersion: Nat,
     signer: Signers, seen: PolicyType]

ASSUME AddressesAssumption ==
    /\ Escrow \notin Accounts
    /\ IsFiniteSet(Accounts) /\ IsFiniteSet(Salts)
ASSUME OffersAssumption == Offers \subseteq OfferType
ASSUME NumbersAssumption ==
    /\ BPS \in Nat \ {0} /\ MaxFeeBps \in 0 .. BPS
    /\ MaxRiskAge \in Nat \ {0}
    /\ Amounts \subseteq Nat
    /\ MaxTime \in Nat /\ MaxPolicyVersion \in Nat /\ MaxApprovals \in Nat
ASSUME SupplyAssumption ==
    /\ UsdcSupply \in [Accounts -> Nat]
    /\ StockSupply \in [Assets -> [Accounts -> Nat]]

Policy == [assets |-> allowedAsset, funders |-> allowedFunder, signer |-> riskSigner]

\* _pullExact and _pushExact: an exact transfer, which the sender can cover.
CanMove(balance, from, amount) == balance[from] >= amount
Move(balance, from, to, amount) ==
    [balance EXCEPT ![from] = @ - amount, ![to] = @ + amount]

feeFor(principal, feeBps) == (principal * feeBps) \div BPS
Repayment(o) == o.principal + feeFor(o.principal, o.feeBps)

Init ==
    /\ now = 0
    /\ paused = TRUE /\ allowedAsset = {} /\ allowedFunder = {}
    /\ riskSigner \in Signers
    /\ policyVersion = 1
    /\ inventory = [f \in Accounts |-> [a \in Assets |-> 0]]
    /\ earnings = << >> /\ claims = << >> /\ usedOffers = {}
    /\ totalUsdcLiability = 0
    /\ usdc = [h \in Holders |-> IF h = Escrow THEN 0 ELSE UsdcSupply[h]]
    /\ stock = [a \in Assets |-> [h \in Holders |-> IF h = Escrow THEN 0 ELSE StockSupply[a][h]]]
    /\ approvals = {}

-----------------------------------------------------------------------------
(* The owner's calls. *)

setPaused(value) ==
    /\ paused' = value
    /\ UNCHANGED <<now, allowedAsset, allowedFunder, riskSigner, policyVersion, inventory,
                   earnings, claims, usedOffers, totalUsdcLiability, usdc, stock, approvals>>

\* Every change of policy makes a new version, which no approval signed before names.
FrozenVersion == policyVersion          \* fault: the version is not advanced
NextVersion == policyVersion + 1

NewPolicyVersion ==
    /\ policyVersion < MaxPolicyVersion
    /\ policyVersion' = NextVersion
    /\ UNCHANGED <<now, paused, inventory, earnings, claims, usedOffers,
                   totalUsdcLiability, usdc, stock, approvals>>

setAssetAllowed(asset, allowed) ==
    /\ allowedAsset' = IF allowed THEN allowedAsset \cup {asset} ELSE allowedAsset \ {asset}
    /\ NewPolicyVersion
    /\ UNCHANGED <<allowedFunder, riskSigner>>

setFunderAllowed(funder, allowed) ==
    /\ allowedFunder' = IF allowed THEN allowedFunder \cup {funder} ELSE allowedFunder \ {funder}
    /\ NewPolicyVersion
    /\ UNCHANGED <<allowedAsset, riskSigner>>

setRiskSigner(signer) ==
    /\ riskSigner' = signer
    /\ NewPolicyVersion
    /\ UNCHANGED <<allowedAsset, allowedFunder>>

invalidateRiskApprovals ==
    /\ NewPolicyVersion
    /\ UNCHANGED <<allowedAsset, allowedFunder, riskSigner>>

-----------------------------------------------------------------------------
(* A funder's stock. *)

depositStock(sender, asset, amount) ==
    /\ ~paused /\ sender \in allowedFunder /\ asset \in allowedAsset
    /\ amount > 0
    /\ CanMove(stock[asset], sender, amount)
    /\ inventory' = [inventory EXCEPT ![sender][asset] = @ + amount]
    /\ stock' = [stock EXCEPT ![asset] = Move(@, sender, Escrow, amount)]
    /\ UNCHANGED <<now, policyVars, earnings, claims, usedOffers,
                   totalUsdcLiability, usdc, approvals>>

withdrawStock(sender, asset, amount) ==
    /\ amount > 0 /\ inventory[sender][asset] >= amount
    /\ CanMove(stock[asset], Escrow, amount)
    /\ inventory' = [inventory EXCEPT ![sender][asset] = @ - amount]
    /\ stock' = [stock EXCEPT ![asset] = Move(@, Escrow, sender, amount)]
    /\ UNCHANGED <<now, policyVars, earnings, claims, usedOffers,
                   totalUsdcLiability, usdc, approvals>>

-----------------------------------------------------------------------------
(* Earnings. *)

fundEarnings(sender, salt, worker, amount, payAt) ==
    LET id == <<sender, salt>>
        item == [employer |-> sender, worker |-> worker, available |-> amount,
                 payAt |-> payAt, approved |-> FALSE]
    IN  /\ ~paused
        /\ worker # sender /\ amount > 0 /\ payAt > now
        /\ id \notin DOMAIN earnings
        /\ CanMove(usdc, sender, amount)
        /\ earnings' = [i \in DOMAIN earnings \cup {id} |-> IF i = id THEN item ELSE earnings[i]]
        /\ totalUsdcLiability' = totalUsdcLiability + amount
        /\ usdc' = Move(usdc, sender, Escrow, amount)
        /\ UNCHANGED <<now, policyVars, inventory, claims, usedOffers, stock, approvals>>

approveEarnings(sender, id) ==
    /\ id \in DOMAIN earnings /\ sender = earnings[id].employer
    /\ ~paused /\ ~earnings[id].approved
    /\ earnings[id].available > 0 /\ earnings[id].payAt > now
    /\ earnings' = [earnings EXCEPT ![id].approved = TRUE]
    /\ UNCHANGED <<now, policyVars, inventory, claims, usedOffers,
                   totalUsdcLiability, usdc, stock, approvals>>

\* What releaseEarnings and cancelUnapprovedEarnings share: empty the item to one account.
PayOutEarnings(id, to) ==
    LET amount == earnings[id].available
    IN  /\ CanMove(usdc, Escrow, amount)
        /\ earnings' = [earnings EXCEPT ![id].available = 0]
        /\ totalUsdcLiability' = totalUsdcLiability - amount
        /\ usdc' = Move(usdc, Escrow, to, amount)
        /\ UNCHANGED <<now, policyVars, inventory, claims, usedOffers, stock, approvals>>

CancellableWhileHeld(id) == earnings[id].available > 0  \* fault: approval is not looked at
Cancellable(id) == ~earnings[id].approved /\ earnings[id].available > 0

cancelUnapprovedEarnings(sender, id) ==
    /\ id \in DOMAIN earnings /\ sender = earnings[id].employer
    /\ Cancellable(id)
    /\ PayOutEarnings(id, earnings[id].employer)

Releasable(id) == earnings[id].approved /\ earnings[id].available > 0 /\ now >= earnings[id].payAt

releaseEarnings(id) ==
    /\ id \in DOMAIN earnings
    /\ Releasable(id)
    /\ PayOutEarnings(id, earnings[id].worker)

-----------------------------------------------------------------------------
(* Offers and claims. *)

cancelOffer(sender, o) ==
    /\ sender = o.funder
    /\ usedOffers' = usedOffers \cup {o}
    /\ UNCHANGED <<now, policyVars, inventory, earnings, claims,
                   totalUsdcLiability, usdc, stock, approvals>>

UnusedOffer(o) == o \notin usedOffers

CoversRepayment(o) == earnings[o.earningsId].available >= Repayment(o)

ThirdPartyFunder(o) ==
    o.funder \notin {earnings[o.earningsId].worker, earnings[o.earningsId].employer}

OfferAvailable(o) ==
    LET item == earnings[o.earningsId]
    IN  /\ ~paused /\ o.asset \in allowedAsset /\ o.funder \in allowedFunder
        /\ item.approved
        /\ o.expiresAt > now /\ item.payAt > now
        /\ o.payAt = item.payAt /\ o.expiresAt <= o.payAt
        /\ ThirdPartyFunder(o) /\ o.tokenAmount > 0
        /\ o.principal > 0 /\ o.feeBps <= MaxFeeBps
        /\ UnusedOffer(o)
        /\ CoversRepayment(o)
        /\ inventory[o.funder][o.asset] >= o.tokenAmount

RiskFresh(o, r) ==
    /\ r.offer = o
    /\ r.policyVersion = policyVersion
    /\ r.observedAt <= now
    /\ r.validUntil > now /\ r.validUntil >= r.observedAt
    /\ r.validUntil - r.observedAt <= MaxRiskAge /\ now - r.observedAt <= MaxRiskAge
    /\ r.signer = riskSigner

EarningsSpentWithoutFee(o) == o.principal      \* fault: the fee stays with the worker
EarningsSpent(o) == Repayment(o)

StockSpent(o) == o.tokenAmount

\* The funder signs any of its offers when it likes, so its signature is no extra guard.
acceptOffer(sender, o, r) ==
    /\ o.earningsId \in DOMAIN earnings /\ sender = earnings[o.earningsId].worker
    /\ OfferAvailable(o)
    /\ RiskFresh(o, r)
    /\ CanMove(stock[o.asset], Escrow, o.tokenAmount)
    /\ LET item == earnings[o.earningsId]
           claim == [funder |-> o.funder, worker |-> item.worker,
                     earningsId |-> o.earningsId, repayment |-> Repayment(o),
                     payAt |-> item.payAt, settled |-> FALSE]
       IN  /\ usedOffers' = usedOffers \cup {o}
           /\ earnings' = [earnings EXCEPT ![o.earningsId].available = @ - EarningsSpent(o)]
           /\ inventory' = [inventory EXCEPT ![o.funder][o.asset] = @ - StockSpent(o)]
           /\ claims' = [c \in DOMAIN claims \cup {o} |-> IF c = o THEN claim ELSE claims[c]]
           /\ stock' = [stock EXCEPT ![o.asset] = Move(@, Escrow, item.worker, o.tokenAmount)]
    /\ UNCHANGED <<now, policyVars, totalUsdcLiability, usdc, approvals>>

RepayableWhenOpen(o) == ~claims[o].settled /\ now >= claims[o].payAt /\ ~paused  \* fault: pausable
RepayableAgain(o) == now >= claims[o].payAt     \* fault: the settled flag is not looked at
Repayable(o) == ~claims[o].settled /\ now >= claims[o].payAt

\* Anyone may call it, paused or not.
settle(o) ==
    /\ o \in DOMAIN claims
    /\ Repayable(o)
    /\ CanMove(usdc, Escrow, claims[o].repayment)
    /\ claims' = [claims EXCEPT ![o].settled = TRUE]
    /\ totalUsdcLiability' = totalUsdcLiability - claims[o].repayment
    /\ usdc' = Move(usdc, Escrow, claims[o].funder, claims[o].repayment)
    /\ UNCHANGED <<now, policyVars, inventory, earnings, usedOffers, stock, approvals>>

-----------------------------------------------------------------------------
(* The surroundings: the server's risk key, which signs the policy version *)
(* of the block it read (api/stock-early-pay-chain.ts), and block time.    *)

signRisk(o, key, observedAt, eligibleUntil) ==
    LET Lesser(x, y) == IF x <= y THEN x ELSE y
        validUntil == Lesser(Lesser(eligibleUntil, o.expiresAt), observedAt + MaxRiskAge)
    IN  /\ ~paused /\ o.asset \in allowedAsset /\ key = riskSigner
        /\ observedAt <= now /\ eligibleUntil > now /\ validUntil > now
        /\ Cardinality(approvals) < MaxApprovals
        /\ approvals' = approvals \cup
             {[offer |-> o, observedAt |-> observedAt, validUntil |-> validUntil,
               policyVersion |-> policyVersion, signer |-> key, seen |-> Policy]}
        /\ UNCHANGED <<now, policyVars, inventory, earnings, claims, usedOffers,
                       totalUsdcLiability, usdc, stock>>

Tick ==
    /\ now < MaxTime
    /\ now' = now + 1
    /\ UNCHANGED <<policyVars, inventory, earnings, claims, usedOffers,
                   totalUsdcLiability, usdc, stock, approvals>>

OwnerNext ==
    \/ \E value \in BOOLEAN : setPaused(value)
    \/ \E asset \in Assets, allowed \in BOOLEAN : setAssetAllowed(asset, allowed)
    \/ \E funder \in Accounts, allowed \in BOOLEAN : setFunderAllowed(funder, allowed)
    \/ \E signer \in Signers : setRiskSigner(signer)
    \/ invalidateRiskApprovals

StockNext ==
    \E sender \in Accounts, asset \in Assets, amount \in Amounts :
        depositStock(sender, asset, amount) \/ withdrawStock(sender, asset, amount)

EarningsNext ==
    \/ \E sender, worker \in Accounts, salt \in Salts, amount \in Amounts, payAt \in Times :
          fundEarnings(sender, salt, worker, amount, payAt)
    \/ \E sender \in Accounts, id \in EarningsIds :
          approveEarnings(sender, id) \/ cancelUnapprovedEarnings(sender, id)
    \/ \E id \in EarningsIds : releaseEarnings(id)

OfferNext ==
    \/ \E sender \in Accounts, o \in Offers : cancelOffer(sender, o)
    \/ \E sender \in Accounts, o \in Offers, r \in approvals : acceptOffer(sender, o, r)
    \/ \E o \in Offers : settle(o)

Next ==
    \/ OwnerNext \/ StockNext \/ EarningsNext \/ OfferNext
    \/ \E o \in Offers, key \in Signers, observedAt \in Times, eligibleUntil \in Times :
          signRisk(o, key, observedAt, eligibleUntil)
    \/ Tick

Spec == Init /\ [][Next]_vars

\* Time passes, and the settlement worker (or anybody else) calls the two
\* permissionless payouts for as long as one is due.
Fairness ==
    /\ WF_vars(Tick)
    /\ \A o \in Offers : WF_vars(settle(o))
    /\ \A id \in EarningsIds : WF_vars(releaseEarnings(id))

FairSpec == Spec /\ Fairness

-----------------------------------------------------------------------------
(* Properties. *)

\* Every variable keeps to the values the contract's storage can hold.
TypeOK ==
    /\ now \in Nat /\ paused \in BOOLEAN
    /\ allowedAsset \subseteq Assets /\ allowedFunder \subseteq Accounts
    /\ riskSigner \in Signers /\ policyVersion \in Nat
    /\ inventory \in [Accounts -> [Assets -> Nat]]
    /\ DOMAIN earnings \subseteq EarningsIds /\ earnings \in [DOMAIN earnings -> EarningsType]
    /\ DOMAIN claims \subseteq Offers /\ claims \in [DOMAIN claims -> ClaimType]
    /\ usedOffers \subseteq Offers
    /\ totalUsdcLiability \in Nat
    /\ usdc \in [Holders -> Nat]
    /\ stock \in [Assets -> [Holders -> Nat]]
    /\ approvals \subseteq ApprovalType

\* What each earnings item still holds, and what each open claim will pay.
Held == [id \in DOMAIN earnings |-> earnings[id].available]
Owed == [o \in DOMAIN claims |-> IF claims[o].settled THEN 0 ELSE claims[o].repayment]
Deposited(a) == [f \in Accounts |-> inventory[f][a]]

\* The liability counter is exactly what the earnings and the open claims add up
\* to, and the escrow holds that much USDC: whatever order the worker, the funders
\* and the employer are paid in, the last one is paid too.
Solvent ==
    /\ totalUsdcLiability = Total(Held) + Total(Owed)
    /\ usdc[Escrow] >= totalUsdcLiability

\* The escrow holds every stock token that the funders' inventories add up to, so
\* one funder's delivery or withdrawal never uses another funder's tokens.
StockBacked == \A a \in Assets : stock[a][Escrow] >= Total(Deposited(a))

\* Both of the escrow's ledgers are covered by the tokens it holds.
Backed == Solvent /\ StockBacked

\* Stock is delivered only while the policy (assets, funders and risk signer) is
\* the one in force in the block the risk signer looked at, even if it was changed
\* and changed back in between.
DeliveredUnderSeenPolicy ==
    [][\A o \in DOMAIN claims' \ DOMAIN claims :
          \E r \in approvals : r.offer = o /\ r.policyVersion = policyVersion /\ r.seen = Policy]_vars

\* USDC leaves the escrow for a debt that is due and was not paid yet, in full and to
\* its creditor; paying it discharges that debt and no other, and nothing else ever
\* changes or removes a claim.
DebtsPaidOnce ==
    [][/\ \A o \in DOMAIN claims :
             o \in DOMAIN claims' /\ claims'[o] \in {claims[o], [claims[o] EXCEPT !.settled = TRUE]}
       /\ LET paid == usdc[Escrow] - usdc'[Escrow]
              To(h) == usdc' = Move(usdc, Escrow, h, paid)
          IN  (paid > 0 \/ \E o \in DOMAIN claims : claims'[o] # claims[o]) =>
                \/ \E o \in DOMAIN claims :
                      /\ ~claims[o].settled /\ now >= claims[o].payAt
                      /\ claims' = [claims EXCEPT ![o].settled = TRUE]
                      /\ paid = claims[o].repayment /\ To(claims[o].funder)
                \/ \E id \in DOMAIN earnings :
                      /\ claims' = claims
                      /\ paid = earnings[id].available
                      /\ earnings' = [earnings EXCEPT ![id].available = 0]
                      /\ IF earnings[id].approved
                         THEN now >= earnings[id].payAt /\ To(earnings[id].worker)
                         ELSE To(earnings[id].employer)]_vars

\* Approval is irrevocable: approved earnings only ever go to a new claim of a
\* funder, or to their worker once they are due.
ApprovedEarningsStayAssigned ==
    [][\A id \in DOMAIN earnings :
          earnings[id].approved =>
            LET spent == earnings[id].available - earnings'[id].available
            IN  /\ earnings'[id] = [earnings[id] EXCEPT !.available = @ - spent]
                /\ \/ spent = 0
                   \/ /\ now >= earnings[id].payAt
                      /\ usdc'[earnings[id].worker] = usdc[earnings[id].worker] + spent
                   \/ \E o \in DOMAIN claims' \ DOMAIN claims :
                         claims'[o].earningsId = id /\ claims'[o].repayment = spent]_vars

\* Every claim is repaid in the end, whatever the owner, the employer and the
\* worker do, a pause that is never lifted included.
FunderEventuallyRepaid ==
    \A o \in Offers : o \in DOMAIN claims ~> (o \in DOMAIN claims /\ claims[o].settled)

\* Approved earnings end up fully paid out.
WorkerEventuallyPaid ==
    \A id \in EarningsIds :
        (id \in DOMAIN earnings /\ earnings[id].approved)
            ~> (id \in DOMAIN earnings /\ earnings[id].available = 0)

\* Payday comes for everybody the escrow owes, a lasting pause included.
EverybodyEventuallyPaid == FunderEventuallyRepaid /\ WorkerEventuallyPaid
=============================================================================
