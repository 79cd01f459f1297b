------------------------- MODULE XStocksTradeEscrow -------------------------
(***************************************************************************)
(* XStocksTradeEscrow.sol: a trade paid in a stock token whose balances    *)
(* are shares times an index the issuer moves (dividends, splits).  The    *)
(* escrow counts shares, as token units would change between the funding   *)
(* and the payment.                                                        *)
(***************************************************************************)
EXTENDS TradeLifecycle, ShareIndex

VARIABLES
    index,              \* the issuer's index
    shares,             \* sharesOf(escrow)
    donated,            \* shares ever sent to it outside fund
    fundedShares,
    settledShares       \* buyerSettledShares, sellerSettledShares

moneyVars == <<index, shares, donated, fundedShares, settledShares>>
vars == <<tradeVars, moneyVars>>

\* getSharesByUnderlyingAmount rounds down.
SharesByUnderlying(units) == (units * IndexScale) \div index

Init ==
    /\ TradeInit
    /\ index \in Indexes
    /\ shares = 0 /\ donated = 0 /\ fundedShares = 0 /\ settledShares = [p \in Parties |-> 0]

fund(sender) ==
    /\ FundTerms(sender)
    /\ SharesByUnderlying(Amount) > 0
    /\ fundedShares' = SharesByUnderlying(Amount)
    /\ shares' = shares + SharesByUnderlying(Amount)
    /\ UNCHANGED <<index, donated, settledShares>>

\* Math.mulDiv(fundedShares, buyerAmount, amount)
BuyerShares(buyerAmount) == (fundedShares * buyerAmount) \div Amount

\* The seller gets the rest, so that rounding leaves nothing behind.
SellerShares(buyerAmount) == fundedShares - BuyerShares(buyerAmount)

\* Both transfers move exactly the shares asked for, or revert.
Settle ==
    /\ SettleStep
    /\ LET b == BuyerShares(split')
           s == SellerShares(split')
       IN  /\ s >= 0 /\ shares >= b + s
           /\ settledShares' = [p \in Parties |-> IF p = Buyer THEN b ELSE s]
           /\ shares' = shares - b - s
    /\ UNCHANGED <<index, donated, fundedShares>>

\* fault: the obligation is read in units of the day
UnitObligation == IF state \in Active THEN SharesByUnderlying(Amount) ELSE 0
Obligation == IF state \in Active THEN fundedShares ELSE 0

recoverExcess(sender) ==
    /\ sender = Buyer
    /\ shares > Obligation
    /\ shares' = Obligation
    /\ UNCHANGED <<tradeVars, index, donated, fundedShares, settledShares>>

Donate ==
    /\ donated < MaxDonated
    /\ donated' = donated + 1 /\ shares' = shares + 1
    /\ UNCHANGED <<tradeVars, index, fundedShares, settledShares>>

\* A corporate action of the issuer.
Rebase ==
    /\ index' \in Indexes \ {index}
    /\ UNCHANGED <<tradeVars, shares, donated, fundedShares, settledShares>>

Next ==
    \/ QuietStep /\ UNCHANGED moneyVars
    \/ Settle \/ Donate \/ Rebase
    \/ \E sender \in Callers : fund(sender) \/ recoverExcess(sender)

Spec == Init /\ [][Next]_vars

-----------------------------------------------------------------------------
(* Properties. *)

\* Types of the lifecycle and of the share counts.
TypeOK ==
    /\ TradeTypeOK
    /\ index \in Indexes /\ shares \in Nat /\ donated \in Nat /\ fundedShares \in Nat
    /\ settledShares \in [Parties -> Nat]

\* Whatever the issuer does to the index, an open trade stays covered by the shares it
\* was funded with, and at the end every one of them went to the buyer or the seller.
SharesSafe ==
    /\ state \in Active => shares >= fundedShares
    /\ IF state \in Ended THEN settledShares[Buyer] + settledShares[Seller] = fundedShares
                          ELSE \A p \in Parties : settledShares[p] = 0

\* A full release or refund is one in shares too: nobody keeps a rounding remainder.
WholePaymentsWhole ==
    state \in Ended =>
        /\ split = 0 => settledShares[Buyer] = 0
        /\ split = Amount => settledShares[Seller] = 0

\* Together: every share funded goes to the party the trade's outcome names.
SharesAccounted == SharesSafe /\ WholePaymentsWhole

\* The share escrow keeps the same promise as the ordinary one, in shares.
Stage ==
    CASE state \in {"Offered", "Accepted"} -> "open"
      [] state = "Disputed" -> "disputed"
      [] state \in Active \ {"Disputed"} -> "held"
      [] state = "Resolved" -> "decided"
      [] OTHER -> "closed"
Promise == INSTANCE EscrowPromise WITH
    stage <- Stage, pot <- fundedShares,
    toBuyer <- settledShares[Buyer], toSeller <- settledShares[Seller]
KeepsPromise == Promise!Spec
=============================================================================
