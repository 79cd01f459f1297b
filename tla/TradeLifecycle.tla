--------------------------- MODULE TradeLifecycle ---------------------------
(***************************************************************************)
(* The lifecycle that TradeEscrow.sol and XStocksTradeEscrow.sol share:    *)
(* acceptance, funding, dispatch, inspection, dispute and the ways a trade *)
(* ends.  The modules of the two contracts add what they hold and pay.     *)
(*                                                                         *)
(* The terms hash is fixed at deployment, so a call that names another one *)
(* only reverts; the evidence of a dispatch or a dispute is recorded and   *)
(* never read again, so only the evidence of a proposal is kept here.      *)
(***************************************************************************)
EXTENDS Integers, Sequences

CONSTANTS
    Buyer, Seller, Arbiter, Others,
    Amount,             \* terms.amount
    Amounts,            \* the splits that callers name
    Evidence,           \* nonzero evidence hashes
    FundBy, DispatchWindow, DeliveryWindow, InspectionWindow,
    MaxTime,            \* bound: block time; receipts are confirmed while an inspection still fits
    MaxProposals,       \* bound: settlement proposals
    MaxDonated          \* bound: tokens or shares sent to the escrow by accident

ASSUME TermsAssumption ==
    /\ Buyer # Seller /\ Arbiter # Buyer /\ Arbiter # Seller
    /\ Others \cap {Buyer, Seller, Arbiter} = {}
    /\ Amount \in Nat \ {0} /\ Amounts \subseteq Nat
    /\ FundBy \in Nat \ {0} /\ DispatchWindow \in Nat \ {0}
    /\ DeliveryWindow \in Nat \ {0} /\ InspectionWindow \in Nat \ {0}
    /\ MaxTime \in Nat /\ MaxProposals \in Nat
ASSUME DonationAssumption == MaxDonated \in Nat

Parties == {Buyer, Seller}
Callers == Parties \cup {Arbiter} \cup Others
Nobody == "address(0)"
ASSUME NobodyAssumption == Nobody \notin Callers

Active == {"Funded", "Dispatched", "Inspecting", "Disputed"}
Ended == {"Completed", "Refunded", "Resolved"}
States == {"Offered", "Accepted", "Cancelled"} \cup Active \cup Ended

VARIABLES
    now,                \* block.timestamp
    state,
    dispatchBy, deliveryBy, inspectUntil,
    settlement,         \* the proposal: [nonce, proposer, buyerAmount, evidence]
    split,              \* the buyer's part in the Settled event, -1 before it
    proposed,           \* the SettlementProposed events; the n-th has nonce n
    withdrawn,          \* the nonces of the SettlementWithdrawn events
    agreed              \* the MutualSettlementAccepted event: [nonce, accepter]

clocks == <<dispatchBy, deliveryBy, inspectUntil>>
talks == <<settlement, proposed, withdrawn>>
tradeVars == <<now, state, clocks, talks, split, agreed>>

NoProposal == [nonce |-> 0, proposer |-> Nobody, buyerAmount |-> 0, evidence |-> Nobody]
NotAgreed == [nonce |-> 0, accepter |-> Nobody]

TradeInit ==
    /\ now = 0 /\ state = "Offered"
    /\ dispatchBy = 0 /\ deliveryBy = 0 /\ inspectUntil = 0
    /\ settlement = NoProposal /\ split = -1
    /\ proposed = << >> /\ withdrawn = {} /\ agreed = NotAgreed

Tick == now < MaxTime /\ now' = now + 1 /\ UNCHANGED <<state, clocks, talks, split, agreed>>

-----------------------------------------------------------------------------
(* Before the funding. *)

acceptTerms(sender) ==
    /\ sender = Seller
    /\ state = "Offered" /\ now < FundBy
    /\ state' = "Accepted"
    /\ UNCHANGED <<now, clocks, talks, split, agreed>>

cancelUnfunded(sender) ==
    /\ sender \in Parties
    /\ state \in {"Offered", "Accepted"}
    /\ state' = "Cancelled"
    /\ UNCHANGED <<now, clocks, talks, split, agreed>>

FundTerms(sender) ==
    /\ sender = Buyer
    /\ state = "Accepted" /\ now < FundBy
    /\ state' = "Funded" /\ dispatchBy' = now + DispatchWindow
    /\ UNCHANGED <<now, deliveryBy, inspectUntil, talks, split, agreed>>

(* Delivery and inspection. *)

markDispatched(sender) ==
    /\ sender = Seller
    /\ state = "Funded" /\ now < dispatchBy
    /\ state' = "Dispatched" /\ deliveryBy' = now + DeliveryWindow
    /\ UNCHANGED <<now, dispatchBy, inspectUntil, talks, split, agreed>>

confirmReceipt(sender) ==
    /\ now + InspectionWindow <= MaxTime
    /\ sender = Buyer
    /\ state = "Dispatched"
    /\ state' = "Inspecting" /\ inspectUntil' = now + InspectionWindow
    /\ UNCHANGED <<now, dispatchBy, deliveryBy, talks, split, agreed>>

\* fault: the seller's way to a dispute is closed once the goods are inspected or late
SellerDisputeBeforeDeadline == state = "Dispatched" /\ now < deliveryBy
SellerMayDispute == state = "Dispatched" /\ now >= deliveryBy
BuyerMayDispute == state = "Dispatched" \/ (state = "Inspecting" /\ now < inspectUntil)

openDispute(sender) ==
    /\ \/ sender = Buyer /\ BuyerMayDispute
       \/ sender = Seller /\ SellerMayDispute
    /\ state' = "Disputed"
    /\ UNCHANGED <<now, clocks, talks, split, agreed>>

(* The proposals of a disputed trade. *)

Splittable(buyerAmount) == buyerAmount <= Amount

proposeSettlement(sender, buyerAmount, evidence) ==
    /\ settlement.nonce < MaxProposals
    /\ sender \in Parties /\ state = "Disputed" /\ Splittable(buyerAmount)
    /\ settlement' = [nonce |-> settlement.nonce + 1, proposer |-> sender,
                      buyerAmount |-> buyerAmount, evidence |-> evidence]
    /\ proposed' = Append(proposed, [by |-> sender, buyerAmount |-> buyerAmount, evidence |-> evidence])
    /\ UNCHANGED <<now, state, clocks, withdrawn, split, agreed>>

\* fault: the withdrawn proposal keeps its proposer
StillStanding == settlement
Withdrawn == [settlement EXCEPT !.proposer = Nobody]

withdrawSettlement(sender, nonce) ==
    /\ sender = settlement.proposer /\ state = "Disputed" /\ nonce = settlement.nonce
    /\ settlement' = Withdrawn
    /\ withdrawn' = withdrawn \cup {nonce}
    /\ UNCHANGED <<now, state, clocks, proposed, split, agreed>>

-----------------------------------------------------------------------------
(* The ways a funded trade ends. *)

_settle(buyerAmount, terminal) ==
    /\ state' = terminal /\ split' = buyerAmount
    /\ UNCHANGED <<now, clocks, talks>>

approveRelease(sender) ==
    /\ sender = Buyer
    /\ state \in {"Dispatched", "Inspecting"}
    /\ _settle(0, "Completed") /\ UNCHANGED agreed

\* fault: the clock runs on in a dispute
InspectionOverAnyway == state \in {"Inspecting", "Disputed"} /\ now >= inspectUntil
InspectionOver == state = "Inspecting" /\ now >= inspectUntil

releaseAfterInspection ==
    /\ InspectionOver
    /\ _settle(0, "Completed") /\ UNCHANGED agreed

refundUndispatched(sender) ==
    /\ sender = Buyer
    /\ state = "Funded" /\ now >= dispatchBy
    /\ _settle(Amount, "Refunded") /\ UNCHANGED agreed

refundBySeller(sender) ==
    /\ sender = Seller
    /\ state \in Active
    /\ _settle(Amount, "Refunded") /\ UNCHANGED agreed

acceptSettlement(sender, nonce, buyerAmount, evidence) ==
    /\ sender \in Parties /\ sender # settlement.proposer
    /\ state = "Disputed" /\ settlement.proposer # Nobody
    /\ nonce = settlement.nonce /\ buyerAmount = settlement.buyerAmount
    /\ evidence = settlement.evidence
    /\ _settle(settlement.buyerAmount, "Resolved")
    /\ agreed' = [nonce |-> nonce, accepter |-> sender]

Resolvable == state = "Disputed"

resolveDispute(sender, buyerAmount) ==
    /\ sender = Arbiter
    /\ Resolvable /\ Splittable(buyerAmount)
    /\ _settle(buyerAmount, "Resolved") /\ UNCHANGED agreed

\* The steps that move no money, and those that pay it out.
QuietStep ==
    \/ Tick
    \/ \E sender \in Callers :
          \/ acceptTerms(sender) \/ cancelUnfunded(sender)
          \/ markDispatched(sender) \/ confirmReceipt(sender) \/ openDispute(sender)
          \/ \E b \in Amounts, e \in Evidence : proposeSettlement(sender, b, e)
          \/ \E n \in 1 .. MaxProposals : withdrawSettlement(sender, n)

SettleStep ==
    \/ releaseAfterInspection
    \/ \E sender \in Callers :
          \/ approveRelease(sender) \/ refundUndispatched(sender) \/ refundBySeller(sender)
          \/ \E n \in 1 .. MaxProposals, b \in Amounts, e \in Evidence : acceptSettlement(sender, n, b, e)
          \/ \E b \in Amounts : resolveDispute(sender, b)

-----------------------------------------------------------------------------
(* Properties of the lifecycle. *)

ProposalType == [by : Parties, buyerAmount : Nat, evidence : Evidence]

\* Every variable of the lifecycle keeps to the contract's types; a proposal names at
\* most the whole amount, and the split is set exactly when the trade has ended.
TradeTypeOK ==
    /\ now \in Nat /\ state \in States
    /\ dispatchBy \in Nat /\ deliveryBy \in Nat /\ inspectUntil \in Nat
    /\ settlement \in [nonce : Nat, proposer : Parties \cup {Nobody}, buyerAmount : 0 .. Amount,
                       evidence : Evidence \cup {Nobody}]
    /\ split \in -1 .. Amount
    /\ state \in Ended <=> split # -1
    /\ proposed \in Seq(ProposalType) /\ withdrawn \subseteq Nat
    /\ agreed \in [nonce : Nat, accepter : Callers \cup {Nobody}]

\* "An agreed resolution does not depend on arbitrator availability", and is one: the
\* split that was paid is the one the other party last proposed and did not withdraw.
AgreementsAreMutual ==
    agreed # NotAgreed =>
        /\ agreed.nonce = Len(proposed) /\ agreed.nonce \notin withdrawn
        /\ LET p == proposed[agreed.nonce]
           IN  agreed.accepter \in Parties \ {p.by} /\ split = p.buyerAmount

\* A dispute freezes the trade: from then on neither the buyer's approval nor a clock
\* that was already running pays the seller.
DisputeBlocksRelease ==
    [][state = "Disputed" => state' \in {"Disputed", "Refunded", "Resolved"}]_tradeVars

\* Funds are never stuck while the arbiter works: a buyer takes back what was never
\* dispatched, a seller disputes what was never confirmed, anyone ends the inspection.
FairSteps ==
    /\ WF_tradeVars(Tick)
    /\ WF_tradeVars(refundUndispatched(Buyer)) /\ WF_tradeVars(openDispute(Seller))
    /\ WF_tradeVars(releaseAfterInspection)
    /\ WF_tradeVars(\E b \in Amounts : resolveDispute(Arbiter, b))
FundsEventuallyLeave == state \in Active ~> state \in Ended
=============================================================================
