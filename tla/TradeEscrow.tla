----------------------------- MODULE TradeEscrow -----------------------------
(***************************************************************************)
(* TradeEscrow.sol: one trade paid in an ordinary ERC-20 token.  The       *)
(* escrow's balance may hold more than the trade, as anyone can send       *)
(* tokens to it; the buyer may take that excess out at any time.           *)
(***************************************************************************)
EXTENDS TradeLifecycle

VARIABLES
    balance,            \* token.balanceOf(escrow)
    donated,            \* tokens ever sent to it outside fund
    paid                \* party -> what _settle sent it

moneyVars == <<balance, donated, paid>>
vars == <<tradeVars, moneyVars>>

Init ==
    /\ TradeInit
    /\ balance = 0 /\ donated = 0 /\ paid = [p \in Parties |-> 0]

\* The received amount is measured, so a token that takes a fee reverts.
fund(sender) ==
    /\ FundTerms(sender)
    /\ balance' = balance + Amount
    /\ UNCHANGED <<donated, paid>>

\* fault: both parts are computed from the buyer's
PayAmountToSeller(buyerAmount) ==
    /\ paid' = [p \in Parties |-> IF p = Buyer THEN buyerAmount ELSE Amount]
    /\ balance' = balance - buyerAmount - Amount
\* The transfers of _settle.
Pay(buyerAmount) ==
    /\ paid' = [p \in Parties |-> IF p = Buyer THEN buyerAmount ELSE Amount - buyerAmount]
    /\ balance' = balance - Amount

Settle ==
    /\ SettleStep
    /\ balance >= Amount
    /\ Pay(split')
    /\ UNCHANGED donated

Obligation == IF state \in Active THEN Amount ELSE 0

recoverExcess(sender) ==
    /\ sender = Buyer
    /\ balance > Obligation
    /\ balance' = Obligation
    /\ UNCHANGED <<tradeVars, donated, paid>>

Donate ==
    /\ donated < MaxDonated
    /\ donated' = donated + 1 /\ balance' = balance + 1
    /\ UNCHANGED <<tradeVars, paid>>

Next ==
    \/ QuietStep /\ UNCHANGED moneyVars
    \/ Settle \/ Donate
    \/ \E sender \in Callers : fund(sender) \/ recoverExcess(sender)

Spec == Init /\ [][Next]_vars
FairSpec == Spec /\ FairSteps

-----------------------------------------------------------------------------
(* Properties. *)

\* Types of the lifecycle and of the balances.
TypeOK ==
    /\ TradeTypeOK
    /\ balance \in Nat /\ donated \in Nat /\ paid \in [Parties -> 0 .. Amount]

\* "Donations never activate an agreement or increase a payout": while a trade is open
\* the escrow holds it in full, whatever was sent in and recovered, and afterwards the
\* two parties were paid the funded amount between them.
FundsSafe ==
    /\ state \in Active => balance >= Amount
    /\ IF state \in Ended THEN paid[Buyer] = split /\ paid[Buyer] + paid[Seller] = Amount
                          ELSE \A p \in Parties : paid[p] = 0

\* The trade keeps the promise of EscrowPromise: paid out once and in full, and from a
\* dispute on to the seller only by a decision.
Stage ==
    CASE state \in {"Offered", "Accepted"} -> "open"
      [] state = "Disputed" -> "disputed"
      [] state \in Active \ {"Disputed"} -> "held"
      [] state = "Resolved" -> "decided"
      [] OTHER -> "closed"
Pot == IF state \in Active \cup Ended THEN Amount ELSE 0
Promise == INSTANCE EscrowPromise WITH
    stage <- Stage, pot <- Pot, toBuyer <- paid[Buyer], toSeller <- paid[Seller]
KeepsPromise == Promise!Spec
=============================================================================
