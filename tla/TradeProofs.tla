----------------------------- MODULE TradeProofs -----------------------------
(***************************************************************************)
(* Trade.  The two escrows and the factories that deploy them, for any     *)
(* terms, amounts, donations, tokens and movements of the index: what      *)
(* every step of a trade's lifecycle does to its state, split and          *)
(* proposals; what TradeEscrow and XStocksTradeEscrow, each on its own,    *)
(* hold, pay and promise; and that a deployment of either one keeps it.    *)
(* Then the market that leads to them, for any listings, buyers, offers,   *)
(* edits and checkout calls: an item is promised to one buyer, who is sent *)
(* to one place to pay; a checkout that was opened keeps its offer; and a  *)
(* listing that was taken down stays down.                                 *)
(***************************************************************************)
EXTENDS TradeDeployment, TradeMarket, SequenceTheorems, TLAPS

-----------------------------------------------------------------------------
(* The lifecycle. *)

\* The steps that move no money keep the types; they begin and end no payment.
LEMMA QuietStepType ==
    ASSUME TradeTypeOK, QuietStep
    PROVE  TradeTypeOK' /\ split' = split
<1> USE TermsAssumption DEF TradeTypeOK, States, Active, Ended, clocks, talks
<1>1. CASE Tick
  BY <1>1 DEF Tick
<1>2. ASSUME NEW sender \in Callers, acceptTerms(sender) \/ cancelUnfunded(sender)
      PROVE  TradeTypeOK' /\ split' = split
  BY <1>2 DEF acceptTerms, cancelUnfunded
<1>3. ASSUME NEW sender \in Callers, markDispatched(sender)
      PROVE  TradeTypeOK' /\ split' = split
  <2>1. deliveryBy' \in Nat
    BY <1>3 DEF markDispatched
  <2> QED
    BY <1>3, <2>1 DEF markDispatched
<1>7. ASSUME NEW sender \in Callers, confirmReceipt(sender)
      PROVE  TradeTypeOK' /\ split' = split
  <2>1. inspectUntil' \in Nat
    BY <1>7 DEF confirmReceipt
  <2> QED
    BY <1>7, <2>1 DEF confirmReceipt
<1>4. ASSUME NEW sender \in Callers, openDispute(sender)
      PROVE  TradeTypeOK' /\ split' = split
  BY <1>4 DEF openDispute, BuyerMayDispute, SellerMayDispute
<1>5. ASSUME NEW sender \in Callers, NEW b \in Amounts, NEW e \in Evidence,
             proposeSettlement(sender, b, e)
      PROVE  TradeTypeOK' /\ split' = split
  <2> DEFINE event == [by |-> sender, buyerAmount |-> b, evidence |-> e]
  <2>1. b \in 0 .. Amount /\ sender \in Parties
    BY <1>5 DEF proposeSettlement, Splittable
  <2>2. settlement' \in [nonce : Nat, proposer : Parties \cup {Nobody}, buyerAmount : 0 .. Amount,
                         evidence : Evidence \cup {Nobody}]
    BY <1>5, <2>1 DEF proposeSettlement
  <2>3. proposed' = Append(proposed, event) /\ event \in ProposalType
    BY <1>5, <2>1 DEF proposeSettlement, ProposalType
  <2>4. proposed' \in Seq(ProposalType)
    <3> HIDE DEF event
    <3> QED BY <2>3
  <2>5. UNCHANGED <<now, state, dispatchBy, deliveryBy, inspectUntil, withdrawn, split, agreed>>
    BY <1>5 DEF proposeSettlement
  <2> QED
    BY <2>2, <2>4, <2>5
<1>6. ASSUME NEW sender \in Callers, NEW n \in 1 .. MaxProposals, withdrawSettlement(sender, n)
      PROVE  TradeTypeOK' /\ split' = split
  <2>1. settlement' = [settlement EXCEPT !.proposer = Nobody] /\ withdrawn' = withdrawn \cup {n}
    BY <1>6 DEF withdrawSettlement, Withdrawn
  <2>2. UNCHANGED <<now, state, dispatchBy, deliveryBy, inspectUntil, proposed, split, agreed>>
    BY <1>6 DEF withdrawSettlement
  <2>3. settlement' \in [nonce : Nat, proposer : Parties \cup {Nobody}, buyerAmount : 0 .. Amount,
                         evidence : Evidence \cup {Nobody}]
    BY <2>1
  <2>4. withdrawn' \subseteq Nat
    <3>1. n \in Nat
      OBVIOUS
    <3>2. withdrawn \subseteq Nat
      BY DEF TradeTypeOK
    <3> QED BY <2>1, <3>1, <3>2
  <2> QED
    BY <2>2, <2>3, <2>4
<1> QED
  BY <1>1, <1>2, <1>3, <1>4, <1>5, <1>6, <1>7 DEF QuietStep

\* What the steps that move no money do to the state: a trade that holds money keeps it,
\* one that holds none gets none, and only a funded one comes into dispute.
LEMMA QuietStepState ==
    ASSUME TradeTypeOK, QuietStep
    PROVE  /\ state \in Active <=> state' \in Active
           /\ state \in Ended <=> state' \in Ended
           /\ state = "Disputed" => state' = "Disputed"
           /\ state \in {"Offered", "Accepted"} => state' \in {"Offered", "Accepted", "Cancelled"}
           /\ state \in Ended \cup {"Cancelled"} => state' = state
<1> USE DEF TradeTypeOK, States, Active, Ended, clocks, talks
<1>1. CASE Tick
  BY <1>1 DEF Tick
<1>2. CASE \E sender \in Callers :
          \/ acceptTerms(sender) \/ cancelUnfunded(sender)
          \/ markDispatched(sender) \/ confirmReceipt(sender)
  BY <1>2 DEF acceptTerms, cancelUnfunded, markDispatched, confirmReceipt
<1>3. CASE \E sender \in Callers : openDispute(sender)
  BY <1>3 DEF openDispute, BuyerMayDispute, SellerMayDispute
<1>4. CASE \E sender \in Callers :
          \/ \E b \in Amounts, e \in Evidence : proposeSettlement(sender, b, e)
          \/ \E n \in 1 .. MaxProposals : withdrawSettlement(sender, n)
  BY <1>4 DEF proposeSettlement, withdrawSettlement
<1> QED
  BY <1>1, <1>2, <1>3, <1>4 DEF QuietStep

\* Funding.
LEMMA FundingType ==
    ASSUME TradeTypeOK, NEW sender \in Callers, FundTerms(sender)
    PROVE  TradeTypeOK' /\ state = "Accepted" /\ state' = "Funded"
BY TermsAssumption DEF TradeTypeOK, States, Active, Ended, clocks, talks, FundTerms

\* A payment ends a trade that holds money, with a split of at most the whole amount that
\* is all or nothing unless the trade was in dispute.
LEMMA SettleStepState ==
    ASSUME TradeTypeOK, SettleStep
    PROVE  /\ state \in Active /\ state' \in Ended
           /\ split' \in 0 .. Amount
           /\ state # "Disputed" => split' \in {0, Amount} /\ state' # "Resolved"
           /\ state = "Disputed" => state' = "Resolved" \/ (state' = "Refunded" /\ split' = Amount)
<1> USE TermsAssumption DEF TradeTypeOK, Active, Ended, _settle
<1>1. CASE releaseAfterInspection
  BY <1>1 DEF releaseAfterInspection, InspectionOver
<1>2. CASE \E sender \in Callers :
          approveRelease(sender) \/ refundUndispatched(sender) \/ refundBySeller(sender)
  BY <1>2 DEF approveRelease, refundUndispatched, refundBySeller
<1>3. CASE \E sender \in Callers, n \in 1 .. MaxProposals, b \in Amounts, e \in Evidence :
          acceptSettlement(sender, n, b, e)
  BY <1>3 DEF acceptSettlement
<1>4. CASE \E sender \in Callers, b \in Amounts : resolveDispute(sender, b)
  BY <1>4 DEF resolveDispute, Resolvable, Splittable
<1> QED
  BY <1>1, <1>2, <1>3, <1>4 DEF SettleStep

\* A payment keeps the types.
LEMMA SettleStepType ==
    ASSUME TradeTypeOK, SettleStep
    PROVE  TradeTypeOK'
<1>1. state' \in Ended /\ split' \in 0 .. Amount
  BY SettleStepState
<1>2. UNCHANGED <<now, clocks, talks>>
  BY DEF SettleStep, _settle, releaseAfterInspection, approveRelease, refundUndispatched,
         refundBySeller, acceptSettlement, resolveDispute
<1>3. agreed' \in [nonce : Nat, accepter : Callers \cup {Nobody}]
  <2>1. CASE UNCHANGED agreed
    BY <2>1 DEF TradeTypeOK
  <2>2. CASE \E sender \in Callers, n \in 1 .. MaxProposals : agreed' = [nonce |-> n, accepter |-> sender]
    BY <2>2, TermsAssumption
  <2> QED
    BY <2>1, <2>2 DEF SettleStep, releaseAfterInspection, approveRelease, refundUndispatched,
         refundBySeller, acceptSettlement, resolveDispute
<1> QED
  BY <1>1, <1>2, <1>3, TermsAssumption DEF TradeTypeOK, States, Ended, clocks, talks
-----------------------------------------------------------------------------
(* The proposals of a dispute. *)

\* Any step of a trade's lifecycle.
LifecycleStep ==
    \/ QuietStep \/ SettleStep
    \/ \E sender \in Callers : FundTerms(sender)
    \/ UNCHANGED tradeVars

\* The contract keeps only the last proposal: unless it was withdrawn it is the last one
\* announced, and an agreement closes the trade, so that nothing is proposed after it.
TalksInv ==
    /\ TradeTypeOK
    /\ settlement.nonce = Len(proposed)
    /\ withdrawn \subseteq 1 .. Len(proposed)
    /\ settlement.proposer # Nobody =>
          /\ Len(proposed) > 0 /\ Len(proposed) \notin withdrawn
          /\ settlement.proposer = proposed[Len(proposed)].by
          /\ settlement.buyerAmount = proposed[Len(proposed)].buyerAmount
    /\ agreed # NotAgreed => state \in Ended
    /\ AgreementsAreMutual

LEMMA TalksInit == TradeInit => TalksInv
BY TermsAssumption
   DEF TradeInit, TalksInv, TradeTypeOK, AgreementsAreMutual, States, Active, Ended,
       NoProposal, NotAgreed, ProposalType, Parties

\* Every step keeps the types.
LEMMA LifecycleStepType ==
    ASSUME TradeTypeOK, LifecycleStep
    PROVE  TradeTypeOK'
<1>1. ASSUME NEW sender \in Callers, FundTerms(sender) PROVE TradeTypeOK'
  BY <1>1, FundingType
<1>2. CASE UNCHANGED tradeVars
  BY <1>2 DEF tradeVars, clocks, talks, TradeTypeOK
<1> QED
  BY <1>1, <1>2, QuietStepType, SettleStepType DEF LifecycleStep

LEMMA ProposalsStay ==
    ASSUME TalksInv, NEW sender \in Callers, NEW b \in Amounts, NEW e \in Evidence,
           proposeSettlement(sender, b, e)
    PROVE  TalksInv'
<1>0. TradeTypeOK'
  BY LifecycleStepType DEF TalksInv, LifecycleStep, QuietStep
<1> DEFINE event == [by |-> sender, buyerAmount |-> b, evidence |-> e]
<1> DEFINE n == Len(proposed)
<1>1. sender \in Parties /\ b \in Nat /\ state = "Disputed" /\ Nobody \notin Parties
  BY TermsAssumption, NobodyAssumption DEF proposeSettlement, Callers
<1>2. proposed \in Seq(ProposalType) /\ event \in ProposalType /\ n \in Nat
  BY <1>1 DEF TalksInv, TradeTypeOK, ProposalType
<1>3. proposed' = Append(proposed, event)
  BY DEF proposeSettlement
<1>4. Len(proposed') = n + 1 /\ proposed'[n + 1] = event
  BY <1>2, <1>3, AppendProperties
<1>5. /\ settlement'.nonce = n + 1 /\ settlement'.proposer = sender /\ settlement'.buyerAmount = b
      /\ UNCHANGED <<state, withdrawn, split, agreed>>
  BY DEF proposeSettlement, TalksInv
<1>6. agreed' = NotAgreed
  BY <1>1, <1>5 DEF TalksInv, Ended
<1>7. withdrawn' \subseteq 1 .. (n + 1) /\ n + 1 \notin withdrawn'
  BY <1>2, <1>5 DEF TalksInv
<1> QED
  BY <1>0, <1>2, <1>4, <1>5, <1>6, <1>7 DEF TalksInv, AgreementsAreMutual

LEMMA WithdrawalsStay ==
    ASSUME TalksInv, NEW sender \in Callers, NEW n \in 1 .. MaxProposals, withdrawSettlement(sender, n)
    PROVE  TalksInv'
<1>0. TradeTypeOK'
  BY LifecycleStepType DEF TalksInv, LifecycleStep, QuietStep
<1>1. /\ settlement' = [settlement EXCEPT !.proposer = Nobody] /\ withdrawn' = withdrawn \cup {n}
      /\ n = settlement.nonce /\ state = "Disputed"
      /\ UNCHANGED <<state, proposed, split, agreed>>
  BY DEF withdrawSettlement, Withdrawn
<1>2. settlement'.nonce = settlement.nonce /\ settlement'.proposer = Nobody
  BY <1>1 DEF TalksInv, TradeTypeOK
<1>3. withdrawn' \subseteq 1 .. Len(proposed)
  <2>1. n \in 1 .. Len(proposed) /\ withdrawn \subseteq 1 .. Len(proposed)
    BY <1>1 DEF TalksInv, TradeTypeOK
  <2> QED
    BY <1>1, <2>1
<1>4. agreed' = NotAgreed
  BY <1>1 DEF TalksInv, Ended
<1> QED
  BY <1>0, <1>1, <1>2, <1>3, <1>4 DEF TalksInv, AgreementsAreMutual

\* A payment that is an agreement pays what the other party last proposed; any other one
\* agrees to nothing.
LEMMA AgreementsPay ==
    ASSUME TalksInv, SettleStep
    PROVE  TalksInv'
<1>0. TradeTypeOK' /\ state \in Active /\ state' \in Ended
  BY SettleStepType, SettleStepState DEF TalksInv
<1>1. agreed = NotAgreed
  BY <1>0 DEF TalksInv, Active, Ended
<1>2. UNCHANGED talks
  BY DEF SettleStep, _settle, releaseAfterInspection, approveRelease, refundUndispatched,
         refundBySeller, acceptSettlement, resolveDispute
<1>3. CASE UNCHANGED agreed
  BY <1>0, <1>1, <1>2, <1>3 DEF TalksInv, AgreementsAreMutual, talks
<1>4. ASSUME NEW sender \in Callers, NEW n \in 1 .. MaxProposals, NEW b \in Amounts,
             NEW e \in Evidence, acceptSettlement(sender, n, b, e)
      PROVE  TalksInv'
  <2>1. /\ sender \in Parties /\ sender # settlement.proposer /\ settlement.proposer # Nobody
        /\ n = settlement.nonce /\ split' = settlement.buyerAmount
        /\ agreed' = [nonce |-> n, accepter |-> sender]
    BY <1>4 DEF acceptSettlement, _settle
  <2>2. /\ n = Len(proposed) /\ n \notin withdrawn
        /\ settlement.proposer = proposed[n].by /\ settlement.buyerAmount = proposed[n].buyerAmount
    BY <2>1 DEF TalksInv
  <2>3. AgreementsAreMutual'
    BY <1>2, <2>1, <2>2 DEF AgreementsAreMutual, talks
  <2> QED
    BY <1>0, <1>2, <2>3 DEF TalksInv, talks
<1> QED
  BY <1>3, <1>4 DEF SettleStep, releaseAfterInspection, approveRelease, refundUndispatched,
         refundBySeller, resolveDispute

LEMMA TalksStep == TalksInv /\ LifecycleStep => TalksInv'
<1> SUFFICES ASSUME TalksInv, LifecycleStep PROVE TalksInv'
  OBVIOUS
<1>0. TradeTypeOK'
  BY LifecycleStepType DEF TalksInv
<1>1. ASSUME UNCHANGED <<talks, split, agreed>>, state \in Ended => state' \in Ended
      PROVE  TalksInv'
  BY <1>0, <1>1 DEF TalksInv, AgreementsAreMutual, talks
<1>2. CASE QuietStep
  <2>1. state \in Ended => state' \in Ended
    BY <1>2, QuietStepState DEF TalksInv
  <2>2. \/ UNCHANGED <<talks, split, agreed>>
        \/ \E sender \in Callers :
              \/ \E b \in Amounts, e \in Evidence : proposeSettlement(sender, b, e)
              \/ \E n \in 1 .. MaxProposals : withdrawSettlement(sender, n)
    BY <1>2
       DEF QuietStep, Tick, acceptTerms, cancelUnfunded, markDispatched, confirmReceipt,
           openDispute
  <2> QED
    BY <1>1, <2>1, <2>2, ProposalsStay, WithdrawalsStay
<1>3. ASSUME NEW sender \in Callers, FundTerms(sender) PROVE TalksInv'
  <2>1. UNCHANGED <<talks, split, agreed>> /\ state \notin Ended
    BY <1>3 DEF FundTerms, Ended
  <2> QED
    BY <1>1, <2>1
<1>4. CASE UNCHANGED tradeVars
  BY <1>1, <1>4 DEF tradeVars
<1> QED
  BY <1>2, <1>3, <1>4, AgreementsPay DEF LifecycleStep

-----------------------------------------------------------------------------
(* TradeEscrow.sol. *)

\* The lifecycle that TradeEscrow extends is the one above.
LEMMA TokenSets ==
    /\ Token!Parties = Parties /\ Token!Callers = Callers /\ Token!Active = Active /\ Token!Ended = Ended
    /\ Token!TradeTypeOK <=> TradeTypeOK
    /\ Token!TradeTypeOK' <=> TradeTypeOK'
    /\ Token!TradeInit <=> TradeInit
    /\ Token!tradeVars = tradeVars
    /\ Token!tradeVars' = tradeVars'
BY DEF Token!Parties, Parties, Token!Callers, Callers, Token!Nobody, Nobody, Token!Active, Active,
       Token!Ended, Ended, Token!States, States, Token!ProposalType, ProposalType,
       Token!TradeTypeOK, TradeTypeOK, Token!TradeInit, TradeInit, Token!NoProposal, NoProposal,
       Token!NotAgreed, NotAgreed, Token!tradeVars, tradeVars, Token!clocks, clocks, Token!talks,
       talks

LEMMA TokenSteps ==
    /\ Token!QuietStep <=> QuietStep
    /\ Token!SettleStep <=> SettleStep
    /\ \A sender : Token!FundTerms(sender) <=> FundTerms(sender)
<1>1. Token!QuietStep <=> QuietStep
  BY DEF Token!QuietStep, QuietStep, Token!Tick, Tick, Token!acceptTerms, acceptTerms,
         Token!cancelUnfunded, cancelUnfunded, Token!markDispatched, markDispatched,
         Token!confirmReceipt, confirmReceipt, Token!openDispute, openDispute,
         Token!BuyerMayDispute, BuyerMayDispute, Token!SellerMayDispute, SellerMayDispute,
         Token!proposeSettlement, proposeSettlement, Token!Splittable, Splittable,
         Token!withdrawSettlement, withdrawSettlement, Token!Withdrawn, Withdrawn,
         Token!Parties, Parties, Token!Callers, Callers, Token!Nobody, Nobody, Token!clocks,
         clocks,
         Token!talks, talks
<1>2. Token!SettleStep <=> SettleStep
  BY DEF Token!SettleStep, SettleStep, Token!_settle, _settle,
         Token!releaseAfterInspection, releaseAfterInspection, Token!InspectionOver,
         InspectionOver,
         Token!approveRelease, approveRelease, Token!refundUndispatched, refundUndispatched,
         Token!refundBySeller, refundBySeller, Token!acceptSettlement, acceptSettlement,
         Token!resolveDispute, resolveDispute, Token!Resolvable, Resolvable,
         Token!Splittable, Splittable, Token!Parties, Parties, Token!Callers, Callers,
         Token!Nobody, Nobody, Token!clocks, clocks, Token!talks, talks, Token!Active, Active
<1>3. \A sender : Token!FundTerms(sender) <=> FundTerms(sender)
  BY DEF Token!FundTerms, FundTerms, Token!talks, talks
<1> QED
  BY <1>1, <1>2, <1>3


\* The invariant of the proofs: the types, and the balances of every state.
MoneyInv == Token!TypeOK /\ Token!FundsSafe

LEMMA MoneyInit == Token!Init => MoneyInv
BY TokenSets, TokenSteps, TermsAssumption
   DEF Token!Init, TradeInit, MoneyInv, Token!TypeOK, TradeTypeOK, Token!FundsSafe, States,
       Active, Ended,
       NoProposal, NotAgreed, ProposalType, Parties

\* What _settle sends: two parts that add up to the amount.
LEMMA PaySplit ==
    ASSUME NEW b \in 0 .. Amount, Token!Pay(b)
    PROVE  /\ paid' \in [Parties -> 0 .. Amount]
           /\ paid'[Buyer] = b /\ paid'[Seller] = Amount - b
           /\ paid'[Buyer] + paid'[Seller] = Amount
           /\ balance' = balance - Amount
<1> USE TokenSets, TokenSteps
<1>1. Amount \in Nat /\ b \in Nat /\ b <= Amount /\ Buyer # Seller
  BY TermsAssumption
<1>2. paid' = [p \in Parties |-> IF p = Buyer THEN b ELSE Amount - b] /\ balance' = balance - Amount
  BY DEF Token!Pay
<1>3. b \in 0 .. Amount /\ Amount - b \in 0 .. Amount /\ b + (Amount - b) = Amount
  BY <1>1
<1>4. paid'[Buyer] = b /\ paid'[Seller] = Amount - b
  BY <1>1, <1>2 DEF Parties
<1>5. paid' \in [Parties -> 0 .. Amount]
  BY <1>2, <1>3
<1> QED
  BY <1>2, <1>3, <1>4, <1>5

LEMMA MoneyStep == MoneyInv /\ [Token!Next]_(Token!vars) => MoneyInv'
<1> USE TokenSets, TokenSteps
<1> SUFFICES ASSUME MoneyInv, [Token!Next]_(Token!vars) PROVE MoneyInv'
  OBVIOUS
<1> USE DEF MoneyInv, Token!TypeOK, Token!FundsSafe, Token!moneyVars
<1>1. CASE QuietStep /\ UNCHANGED Token!moneyVars
  BY <1>1, QuietStepType, QuietStepState
<1>2. CASE Token!Settle
  <2>1. TradeTypeOK' /\ state \in Active /\ state' \in Ended /\ split' \in 0 .. Amount
    BY <1>2, SettleStepState, SettleStepType DEF Token!Settle
  <2>2. Token!Pay(split') /\ balance >= Amount /\ donated' = donated
    BY <1>2 DEF Token!Settle
  <2>3. /\ paid' \in [Parties -> 0 .. Amount] /\ balance' = balance - Amount
        /\ paid'[Buyer] = split' /\ paid'[Buyer] + paid'[Seller] = Amount
    BY <2>1, <2>2, PaySplit
  <2>4. balance' \in Nat
    BY <2>2, <2>3, TermsAssumption
  <2>5. state' \notin Active
    BY <2>1 DEF Active, Ended
  <2> QED
    BY <2>1, <2>2, <2>3, <2>4, <2>5
<1>3. CASE Token!Donate
  <2>1. TradeTypeOK'
    BY <1>3 DEF Token!Donate, tradeVars, clocks, talks, TradeTypeOK
  <2>2. balance' = balance + 1 /\ donated' = donated + 1 /\ UNCHANGED <<state, split, paid>>
    BY <1>3 DEF Token!Donate, tradeVars
  <2> QED
    BY <2>1, <2>2, TermsAssumption
<1>4. ASSUME NEW sender \in Callers, Token!fund(sender) PROVE MoneyInv'
  <2>1. TradeTypeOK' /\ state = "Accepted" /\ state' = "Funded"
    BY <1>4, FundingType DEF Token!fund
  <2>2. balance' = balance + Amount /\ UNCHANGED <<donated, paid>>
    BY <1>4 DEF Token!fund
  <2> QED
    BY <2>1, <2>2, TermsAssumption DEF Active, Ended
<1>5. ASSUME NEW sender \in Callers, Token!recoverExcess(sender) PROVE MoneyInv'
  <2>1. UNCHANGED <<tradeVars, donated, paid>> /\ balance' = Token!Obligation
    BY <1>5 DEF Token!recoverExcess
  <2>2. Token!Obligation \in Nat /\ (state \in Active => Token!Obligation = Amount)
    BY TermsAssumption DEF Token!Obligation
  <2> QED
    BY <2>1, <2>2, TermsAssumption DEF tradeVars, clocks, talks, TradeTypeOK
<1>6. CASE UNCHANGED Token!vars
  <2>1. TradeTypeOK' /\ UNCHANGED <<state, split>>
    BY <1>6 DEF Token!vars, tradeVars, clocks, talks, TradeTypeOK
  <2> QED
    BY <1>6, <2>1 DEF Token!vars
<1> QED
  BY <1>1, <1>2, <1>3, <1>4, <1>5, <1>6 DEF Token!Next

\* Types and balances, for any terms.
THEOREM MoneyInvariant == Token!Spec => []MoneyInv
<1> QED
  BY MoneyInit, MoneyStep, PTL DEF Token!Spec

\* The type invariant of TradeEscrow.sol's state.
THEOREM TypeCorrect == Token!Spec => []Token!TypeOK
<1>1. MoneyInv => Token!TypeOK
  BY DEF MoneyInv
<1> QED
  BY <1>1, MoneyInvariant, PTL

\* An open trade is covered, and a finished one paid out the funded amount exactly,
\* whatever was donated and recovered.
THEOREM TradeFundsSafe == Token!Spec => []Token!FundsSafe
<1>1. MoneyInv => Token!FundsSafe
  BY DEF MoneyInv
<1> QED
  BY <1>1, MoneyInvariant, PTL

-----------------------------------------------------------------------------

LEMMA TokenPromiseInit == Token!Init => Token!Promise!Init
BY TokenSets, TokenSteps
   DEF Token!Init, TradeInit, Token!Promise!Init, Token!Stage, Token!Pot, Parties, Active, Ended

\* Every step of the contract is a step of the promise, or changes nothing of it.
LEMMA TokenPromiseStep ==
    MoneyInv /\ MoneyInv' /\ [Token!Next]_(Token!vars) => [Token!Promise!Next]_(Token!Promise!vars)
<1> USE TokenSets, TokenSteps
<1> SUFFICES ASSUME MoneyInv, MoneyInv', [Token!Next]_(Token!vars)
             PROVE  [Token!Promise!Next]_(Token!Promise!vars)
  OBVIOUS
<1> USE DEF MoneyInv, Token!TypeOK, Token!FundsSafe, Token!Promise!vars
<1>1. CASE QuietStep /\ UNCHANGED Token!moneyVars
  <2>1. UNCHANGED <<Token!Pot, paid[Buyer], paid[Seller]>>
    BY <1>1, QuietStepState DEF Token!Pot, Token!moneyVars
  <2>2. \/ Token!Stage' = Token!Stage
        \/ Token!Stage = "open" /\ Token!Stage' = "closed"
        \/ Token!Stage = "held" /\ Token!Stage' = "disputed"
    BY <1>1, QuietStepState DEF Token!Stage, Active, Ended, States, TradeTypeOK
  <2> QED
    BY <2>1, <2>2 DEF Token!Promise!Next, Token!Promise!Cancel, Token!Promise!Dispute
<1>2. CASE Token!Settle
  <2>1. /\ state \in Active /\ state' \in Ended /\ split' \in 0 .. Amount
        /\ state # "Disputed" => split' \in {0, Amount} /\ state' # "Resolved"
        /\ state = "Disputed" => state' = "Resolved" \/ (state' = "Refunded" /\ split' = Amount)
    BY <1>2, SettleStepState DEF Token!Settle
  <2>2. paid'[Buyer] = split' /\ paid'[Seller] = Amount - split'
    BY <1>2, <2>1, PaySplit DEF Token!Settle
  <2>3. /\ Token!Pot = Amount /\ Token!Pot' = Amount
        /\ Token!Stage' = IF state' = "Resolved" THEN "decided" ELSE "closed"
        /\ Token!Stage = IF state = "Disputed" THEN "disputed" ELSE "held"
    BY <2>1 DEF Token!Pot, Token!Stage, Active, Ended
  <2>4. Token!Promise!Close \/ Token!Promise!Decide
    BY <2>1, <2>2, <2>3, TermsAssumption DEF Token!Promise!Close, Token!Promise!Decide
  <2> QED
    BY <2>4 DEF Token!Promise!Next
<1>3. CASE Token!Donate \/ \E sender \in Callers : Token!recoverExcess(sender)
  BY <1>3 DEF Token!Donate, Token!recoverExcess, tradeVars, Token!Stage, Token!Pot
<1>4. ASSUME NEW sender \in Callers, Token!fund(sender) PROVE Token!Promise!Next
  <2>1. state = "Accepted" /\ state' = "Funded" /\ UNCHANGED paid
    BY <1>4, FundingType DEF Token!fund
  <2>2. Token!Stage = "open" /\ Token!Stage' = "held" /\ Token!Pot' = Amount
    BY <2>1 DEF Token!Stage, Token!Pot, Active, Ended
  <2> QED
    BY <2>1, <2>2, TermsAssumption DEF Token!Promise!Next, Token!Promise!Fund
<1>5. CASE UNCHANGED Token!vars
  BY <1>5 DEF Token!vars, tradeVars, Token!moneyVars, Token!Stage, Token!Pot
<1> QED
  BY <1>1, <1>2, <1>3, <1>4, <1>5 DEF Token!Next

\* TradeEscrow.sol implements the promise made to buyers and sellers.
THEOREM TradeKeepsPromise == Token!Spec => Token!KeepsPromise
<1> QED
  BY TokenPromiseInit, TokenPromiseStep, MoneyInvariant, PTL
     DEF Token!Spec, Token!KeepsPromise, Token!Promise!Spec

-----------------------------------------------------------------------------
(* XStocksTradeEscrow.sol. *)

\* The lifecycle that XStocksTradeEscrow extends is the one above.
LEMMA StockSets ==
    /\ Stock!Parties = Parties /\ Stock!Callers = Callers /\ Stock!Active = Active /\ Stock!Ended = Ended
    /\ Stock!TradeTypeOK <=> TradeTypeOK
    /\ Stock!TradeTypeOK' <=> TradeTypeOK'
    /\ Stock!TradeInit <=> TradeInit
    /\ Stock!tradeVars = tradeVars
    /\ Stock!tradeVars' = tradeVars'
BY DEF Stock!Parties, Parties, Stock!Callers, Callers, Stock!Nobody, Nobody, Stock!Active, Active,
       Stock!Ended, Ended, Stock!States, States, Stock!ProposalType, ProposalType,
       Stock!TradeTypeOK, TradeTypeOK, Stock!TradeInit, TradeInit, Stock!NoProposal, NoProposal,
       Stock!NotAgreed, NotAgreed, Stock!tradeVars, tradeVars, Stock!clocks, clocks, Stock!talks,
       talks

LEMMA StockSteps ==
    /\ Stock!QuietStep <=> QuietStep
    /\ Stock!SettleStep <=> SettleStep
    /\ \A sender : Stock!FundTerms(sender) <=> FundTerms(sender)
<1>1. Stock!QuietStep <=> QuietStep
  BY DEF Stock!QuietStep, QuietStep, Stock!Tick, Tick, Stock!acceptTerms, acceptTerms,
         Stock!cancelUnfunded, cancelUnfunded, Stock!markDispatched, markDispatched,
         Stock!confirmReceipt, confirmReceipt, Stock!openDispute, openDispute,
         Stock!BuyerMayDispute, BuyerMayDispute, Stock!SellerMayDispute, SellerMayDispute,
         Stock!proposeSettlement, proposeSettlement, Stock!Splittable, Splittable,
         Stock!withdrawSettlement, withdrawSettlement, Stock!Withdrawn, Withdrawn,
         Stock!Parties, Parties, Stock!Callers, Callers, Stock!Nobody, Nobody, Stock!clocks,
         clocks,
         Stock!talks, talks
<1>2. Stock!SettleStep <=> SettleStep
  BY DEF Stock!SettleStep, SettleStep, Stock!_settle, _settle,
         Stock!releaseAfterInspection, releaseAfterInspection, Stock!InspectionOver,
         InspectionOver,
         Stock!approveRelease, approveRelease, Stock!refundUndispatched, refundUndispatched,
         Stock!refundBySeller, refundBySeller, Stock!acceptSettlement, acceptSettlement,
         Stock!resolveDispute, resolveDispute, Stock!Resolvable, Resolvable,
         Stock!Splittable, Splittable, Stock!Parties, Parties, Stock!Callers, Callers,
         Stock!Nobody, Nobody, Stock!clocks, clocks, Stock!talks, talks, Stock!Active, Active
<1>3. \A sender : Stock!FundTerms(sender) <=> FundTerms(sender)
  BY DEF Stock!FundTerms, FundTerms, Stock!talks, talks
<1> QED
  BY <1>1, <1>2, <1>3


\* The types, the shares of every state, and that a trade is funded with some share.
SharesInv ==
    /\ Stock!TypeOK /\ Stock!SharesSafe /\ Stock!WholePaymentsWhole
    /\ state \in Active \cup Ended => fundedShares > 0
    /\ state \in {"Offered", "Accepted", "Cancelled"} => fundedShares = 0

\* Multiplication keeps the order of natural numbers.
LEMMA TimesMonotonic ==
    ASSUME NEW x \in Nat, NEW y \in Nat, NEW z \in Nat, y <= z
    PROVE  x * y \in Nat /\ x * y <= x * z
OBVIOUS

\* Math.mulDiv never gives the buyer more than the shares funded, gives nothing of a split
\* of zero and everything of a split of the whole amount: _settle cannot underflow.
LEMMA BuyerSharesWithin ==
    ASSUME NEW b \in 0 .. Amount, fundedShares \in Nat
    PROVE  /\ Stock!BuyerShares(b) \in 0 .. fundedShares
           /\ b = 0 => Stock!BuyerShares(b) = 0
           /\ b = Amount => Stock!BuyerShares(b) = fundedShares
<1> DEFINE a == Amount
<1> DEFINE f == fundedShares
<1>1. a \in Nat /\ a > 0 /\ f \in Nat /\ b \in Nat /\ b <= a
  BY TermsAssumption
<1>2. f * b \in Nat /\ f * b <= f * a /\ f * a \in Nat
  BY <1>1, TimesMonotonic
<1> HIDE DEF a, f
<1>3. (f * a) \div a = f
  BY <1>1
<1>4. (f * b) \div a >= 0 /\ (f * b) \div a <= f /\ (f * b) \div a \in Int
  BY <1>1, <1>2
<1>5. b = 0 => (f * b) \div a = 0
  BY <1>1
<1> QED
  BY <1>3, <1>4, <1>5 DEF Stock!BuyerShares, a, f

\* The parts of a settlement, and that its own guards never stop one.
LEMMA SettleParts ==
    ASSUME SharesInv, Stock!Settle
    PROVE  /\ settledShares' \in [Parties -> Nat]
           /\ settledShares'[Buyer] = Stock!BuyerShares(split')
           /\ settledShares'[Buyer] \in 0 .. fundedShares
           /\ settledShares'[Seller] = fundedShares - settledShares'[Buyer]
           /\ shares' = shares - fundedShares /\ shares >= fundedShares
           /\ UNCHANGED <<index, donated, fundedShares>>
<1> USE StockSets, StockSteps
<1>1. state \in Active /\ split' \in 0 .. Amount
  BY SettleStepState DEF Stock!Settle, SharesInv, Stock!TypeOK
<1>2. fundedShares \in Nat /\ shares \in Nat /\ shares >= fundedShares
  BY <1>1 DEF SharesInv, Stock!TypeOK, Stock!SharesSafe
<1>3. Stock!BuyerShares(split') \in 0 .. fundedShares
  BY <1>1, <1>2, BuyerSharesWithin
<1> DEFINE b == Stock!BuyerShares(split')
<1>4. /\ settledShares' = [p \in Parties |-> IF p = Buyer THEN b ELSE fundedShares - b]
      /\ shares' = shares - b - (fundedShares - b)
      /\ UNCHANGED <<index, donated, fundedShares>>
  BY DEF Stock!Settle, Stock!SellerShares
<1>5. b \in 0 .. fundedShares
  BY <1>3
<1> HIDE DEF b
<1>6. fundedShares - b \in Nat /\ b \in Nat /\ shares' = shares - fundedShares
  BY <1>2, <1>4, <1>5
<1>7. settledShares'[Buyer] = b /\ settledShares'[Seller] = fundedShares - b
  BY <1>4, TermsAssumption DEF Parties
<1>8. settledShares' \in [Parties -> Nat]
  BY <1>4, <1>6
<1> QED
  BY <1>2, <1>4, <1>5, <1>6, <1>7, <1>8 DEF b

LEMMA SharesInit == Stock!Init => SharesInv
BY StockSets, StockSteps, TermsAssumption, SharesAssumption
   DEF Stock!Init, TradeInit, SharesInv, Stock!TypeOK, TradeTypeOK, Stock!SharesSafe,
       Stock!WholePaymentsWhole, States,
       Active, Ended, NoProposal, NotAgreed, ProposalType, Parties

LEMMA SharesStep == SharesInv /\ [Stock!Next]_(Stock!vars) => SharesInv'
<1> USE StockSets, StockSteps
<1> SUFFICES ASSUME SharesInv, [Stock!Next]_(Stock!vars) PROVE SharesInv'
  OBVIOUS
<1>0. Stock!TypeOK /\ TradeTypeOK /\ fundedShares \in Nat /\ shares \in Nat /\ donated \in Nat
  BY DEF SharesInv, Stock!TypeOK
<1>1. CASE QuietStep /\ UNCHANGED Stock!moneyVars
  <2>1. TradeTypeOK' /\ split' = split
    BY <1>0, <1>1, QuietStepType
  <2>2. /\ state \in Active <=> state' \in Active
        /\ state \in Ended <=> state' \in Ended
        /\ state' \in {"Offered", "Accepted", "Cancelled"} => state \in {"Offered", "Accepted", "Cancelled"}
    BY <1>0, <1>1, QuietStepState DEF TradeTypeOK, States, Active, Ended
  <2> QED
    BY <1>1, <2>1, <2>2
       DEF SharesInv, Stock!TypeOK, Stock!SharesSafe, Stock!WholePaymentsWhole, Stock!moneyVars
<1>2. CASE Stock!Settle
  <2>1. /\ TradeTypeOK' /\ state \in Active /\ state' \in Ended /\ split' \in 0 .. Amount
    BY <1>0, <1>2, SettleStepState, SettleStepType DEF Stock!Settle
  <2>2. /\ settledShares' \in [Parties -> Nat]
        /\ settledShares'[Buyer] = Stock!BuyerShares(split')
        /\ settledShares'[Buyer] \in 0 .. fundedShares
        /\ settledShares'[Seller] = fundedShares - settledShares'[Buyer]
        /\ shares' = shares - fundedShares /\ shares >= fundedShares
        /\ UNCHANGED <<index, donated, fundedShares>>
    BY <1>2, SettleParts
  <2>3. fundedShares > 0 /\ state' \notin Active
        /\ state' \notin {"Offered", "Accepted", "Cancelled"}
    BY <2>1 DEF SharesInv, Active, Ended
  <2>4. Stock!TypeOK'
    BY <1>0, <2>1, <2>2 DEF Stock!TypeOK
  <2>5. settledShares'[Buyer] + settledShares'[Seller] = fundedShares
    BY <1>0, <2>2
  <2>6. Stock!WholePaymentsWhole'
    <3>1. split' = 0 => settledShares'[Buyer] = 0
      BY <1>0, <2>1, <2>2, BuyerSharesWithin
    <3>2. split' = Amount => settledShares'[Seller] = 0
      BY <1>0, <2>1, <2>2, BuyerSharesWithin
    <3> QED
      BY <3>1, <3>2 DEF Stock!WholePaymentsWhole
  <2> QED
    BY <2>1, <2>2, <2>3, <2>4, <2>5, <2>6 DEF SharesInv, Stock!SharesSafe
<1>3. CASE Stock!Donate \/ Stock!Rebase
  <2>1. UNCHANGED <<tradeVars, fundedShares, settledShares>>
    BY <1>3 DEF Stock!Donate, Stock!Rebase
  <2>2. shares' \in Nat /\ shares' >= shares /\ donated' \in Nat /\ index' \in Indexes
    BY <1>0, <1>3 DEF Stock!Donate, Stock!Rebase, Stock!TypeOK
  <2> QED
    BY <1>0, <2>1, <2>2
       DEF SharesInv, Stock!TypeOK, TradeTypeOK, Stock!SharesSafe, Stock!WholePaymentsWhole,
           tradeVars, clocks, talks
<1>4. ASSUME NEW sender \in Callers, Stock!fund(sender) PROVE SharesInv'
  <2>1. TradeTypeOK' /\ state = "Accepted" /\ state' = "Funded"
    BY <1>0, <1>4, FundingType DEF Stock!fund
  <2> DEFINE n == Stock!SharesByUnderlying(Amount)
  <2>2. n > 0 /\ fundedShares' = n /\ shares' = shares + n /\ UNCHANGED <<index, donated, settledShares>>
    BY <1>4 DEF Stock!fund
  <2>3. n \in Nat
    <3>1. Amount * IndexScale \in Nat /\ index \in Nat \ {0}
      BY TermsAssumption, SharesAssumption, <1>0 DEF Stock!TypeOK
    <3> QED
      BY <3>1 DEF Stock!SharesByUnderlying
  <2> HIDE DEF n
  <2>4. fundedShares' \in Nat /\ fundedShares' > 0 /\ shares' \in Nat /\ shares' >= fundedShares'
    BY <1>0, <2>2, <2>3
  <2>5. \A p \in Parties : settledShares'[p] = 0
    BY <2>1, <2>2 DEF SharesInv, Stock!SharesSafe, Ended
  <2> QED
    BY <1>0, <2>1, <2>2, <2>4, <2>5
       DEF SharesInv, Stock!TypeOK, Stock!SharesSafe, Stock!WholePaymentsWhole, Active, Ended
<1>5. ASSUME NEW sender \in Callers, Stock!recoverExcess(sender) PROVE SharesInv'
  <2>1. UNCHANGED <<tradeVars, index, donated, fundedShares, settledShares>> /\ shares' = Stock!Obligation
    BY <1>5 DEF Stock!recoverExcess
  <2>2. Stock!Obligation \in Nat /\ (state \in Active => Stock!Obligation = fundedShares)
    BY <1>0 DEF Stock!Obligation
  <2> QED
    BY <1>0, <2>1, <2>2
       DEF SharesInv, Stock!TypeOK, TradeTypeOK, Stock!SharesSafe, Stock!WholePaymentsWhole,
           tradeVars, clocks, talks
<1>6. CASE UNCHANGED Stock!vars
  BY <1>6
     DEF Stock!vars, tradeVars, clocks, talks, Stock!moneyVars, SharesInv, Stock!TypeOK,
         TradeTypeOK, Stock!SharesSafe,
              Stock!WholePaymentsWhole
<1> QED
  BY <1>1, <1>2, <1>3, <1>4, <1>5, <1>6 DEF Stock!Next

\* Types, shares and whole payments, for any terms and any movement of the index.
THEOREM SharesInvariant == Stock!Spec => []SharesInv
<1> QED
  BY SharesInit, SharesStep, PTL DEF Stock!Spec

\* An open trade is covered by the shares it was funded with, whatever the issuer does to
\* the index, a finished one paid out every one of them, and a full release or refund
\* leaves the other party no rounding remainder.
THEOREM SharesAlwaysAccounted == Stock!Spec => []Stock!SharesAccounted
<1>1. SharesInv => Stock!SharesAccounted
  BY DEF SharesInv, Stock!SharesAccounted
<1> QED
  BY <1>1, SharesInvariant, PTL

-----------------------------------------------------------------------------

LEMMA StockPromiseInit == Stock!Init => Stock!Promise!Init
BY StockSets, StockSteps
   DEF Stock!Init, TradeInit, Stock!Promise!Init, Stock!Stage, Parties, Active, Ended

\* Every step of the contract is a step of the promise, or changes nothing of it.
LEMMA StockPromiseStep ==
    SharesInv /\ [Stock!Next]_(Stock!vars) => [Stock!Promise!Next]_(Stock!Promise!vars)
<1> USE StockSets, StockSteps
<1> SUFFICES ASSUME SharesInv, [Stock!Next]_(Stock!vars)
             PROVE  [Stock!Promise!Next]_(Stock!Promise!vars)
  OBVIOUS
<1>0. Stock!TypeOK /\ TradeTypeOK /\ fundedShares \in Nat
  BY DEF SharesInv, Stock!TypeOK
<1> USE DEF Stock!Promise!vars
<1>1. CASE QuietStep /\ UNCHANGED Stock!moneyVars
  <2>1. UNCHANGED <<fundedShares, settledShares>>
    BY <1>1 DEF Stock!moneyVars
  <2>2. \/ Stock!Stage' = Stock!Stage
        \/ Stock!Stage = "open" /\ Stock!Stage' = "closed"
        \/ Stock!Stage = "held" /\ Stock!Stage' = "disputed"
    BY <1>0, <1>1, QuietStepState DEF Stock!Stage, Active, Ended, States, TradeTypeOK
  <2> QED
    BY <2>1, <2>2 DEF Stock!Promise!Next, Stock!Promise!Cancel, Stock!Promise!Dispute
<1>2. CASE Stock!Settle
  <2>1. /\ state \in Active /\ state' \in Ended /\ split' \in 0 .. Amount
        /\ state # "Disputed" => split' \in {0, Amount} /\ state' # "Resolved"
        /\ state = "Disputed" => state' = "Resolved" \/ (state' = "Refunded" /\ split' = Amount)
    BY <1>0, <1>2, SettleStepState DEF Stock!Settle
  <2>2. /\ settledShares'[Buyer] = Stock!BuyerShares(split')
        /\ settledShares'[Buyer] \in 0 .. fundedShares
        /\ settledShares'[Seller] = fundedShares - settledShares'[Buyer]
        /\ fundedShares' = fundedShares
    BY <1>2, SettleParts
  <2>3. /\ Stock!Stage' = IF state' = "Resolved" THEN "decided" ELSE "closed"
        /\ Stock!Stage = IF state = "Disputed" THEN "disputed" ELSE "held"
    BY <2>1 DEF Stock!Stage, Active, Ended
  <2>4. /\ state # "Disputed" => settledShares'[Buyer] \in {0, fundedShares}
        /\ split' = Amount => settledShares'[Buyer] = fundedShares
    BY <1>0, <2>1, <2>2, BuyerSharesWithin
  <2>5. Stock!Promise!Close \/ Stock!Promise!Decide
    BY <2>1, <2>2, <2>3, <2>4 DEF Stock!Promise!Close, Stock!Promise!Decide
  <2> QED
    BY <2>5 DEF Stock!Promise!Next
<1>3. CASE Stock!Donate \/ Stock!Rebase \/ \E sender \in Callers : Stock!recoverExcess(sender)
  BY <1>3 DEF Stock!Donate, Stock!Rebase, Stock!recoverExcess, tradeVars, Stock!Stage
<1>4. ASSUME NEW sender \in Callers, Stock!fund(sender) PROVE Stock!Promise!Next
  <2>1. state = "Accepted" /\ state' = "Funded" /\ UNCHANGED settledShares /\ fundedShares' > 0
    BY <1>0, <1>4, FundingType DEF Stock!fund
  <2>2. fundedShares' \in Nat \ {0}
    BY <2>1, SharesStep DEF SharesInv, Stock!TypeOK
  <2>3. Stock!Stage = "open" /\ Stock!Stage' = "held"
    BY <2>1 DEF Stock!Stage, Active, Ended
  <2> QED
    BY <2>1, <2>2, <2>3 DEF Stock!Promise!Next, Stock!Promise!Fund
<1>5. CASE UNCHANGED Stock!vars
  BY <1>5 DEF Stock!vars, tradeVars, Stock!moneyVars, Stock!Stage
<1> QED
  BY <1>1, <1>2, <1>3, <1>4, <1>5 DEF Stock!Next

\* XStocksTradeEscrow.sol implements the promise made to buyers and sellers, in shares.
THEOREM SharesKeepPromise == Stock!Spec => Stock!KeepsPromise
<1> QED
  BY StockPromiseInit, StockPromiseStep, SharesInvariant, PTL
     DEF Stock!Spec, Stock!KeepsPromise, Stock!Promise!Spec

-----------------------------------------------------------------------------
(* A deployment: the factory and the escrow it creates. *)

\* A deployment keeps to its factory, and every step of it is a step of the escrow that
\* factory deploys or changes nothing of that escrow.
LEMMA DeploymentStep ==
    ASSUME [Next]_vars
    PROVE  /\ factory' = factory
           /\ factory = "MultiAsset" => [Token!Next]_(Token!vars)
           /\ factory = "XStocks" => [Stock!Next]_(Stock!vars)
<1> USE TokenSets, StockSets
<1>1. ASSUME UNCHANGED <<tradeVars, tokenMoney, stockMoney, donated>>
      PROVE  UNCHANGED Token!vars /\ UNCHANGED Stock!vars
  BY <1>1 DEF tokenMoney, stockMoney, Token!vars, Stock!vars, Token!moneyVars, Stock!moneyVars
<1>2. ASSUME NEW sender \in Callers, NEW token \in Tokens,
             setTokenApproval(sender, token) \/ create(sender, token)
      PROVE  factory' = factory /\ UNCHANGED Token!vars /\ UNCHANGED Stock!vars
  BY <1>1, <1>2 DEF setTokenApproval, create
<1>3. CASE EscrowStep
  <2>1. factory' = factory
    BY <1>3 DEF EscrowStep
  <2>2. CASE Tick /\ UNCHANGED <<tokenMoney, stockMoney, donated>>
    <3>1. Token!QuietStep /\ Stock!QuietStep
      BY <2>2, TokenSteps, StockSteps DEF QuietStep
    <3>2. UNCHANGED Token!moneyVars /\ UNCHANGED Stock!moneyVars
      BY <2>2 DEF tokenMoney, stockMoney, Token!moneyVars, Stock!moneyVars
    <3> QED
      BY <2>1, <3>1, <3>2 DEF Token!Next, Stock!Next
  <2>3. CASE factory = "MultiAsset" /\ Token!Next
    BY <2>1, <2>3
  <2>4. CASE factory = "XStocks" /\ Stock!Next
    BY <2>1, <2>4
  <2> QED
    BY <1>3, <2>2, <2>3, <2>4 DEF EscrowStep
<1>4. CASE UNCHANGED vars
  BY <1>1, <1>4 DEF vars
<1> QED
  BY <1>2, <1>3, <1>4 DEF Next

\* Whichever escrow it is, a step of the deployment is one of the lifecycle.
LEMMA DeploymentLifecycle ==
    ASSUME [Next]_vars
    PROVE  LifecycleStep
<1>1. CASE EscrowStep
  <2>1. CASE Tick
    BY <2>1 DEF LifecycleStep, QuietStep
  <2>2. CASE Token!Next
    BY <2>2, TokenSets, TokenSteps
       DEF LifecycleStep, Token!Next, Token!Settle, Token!Donate, Token!fund,
       Token!recoverExcess
  <2>3. CASE Stock!Next
    BY <2>3, StockSets, StockSteps
       DEF LifecycleStep, Stock!Next, Stock!Settle, Stock!Donate, Stock!Rebase,
       Stock!fund, Stock!recoverExcess
  <2> QED
    BY <1>1, <2>1, <2>2, <2>3 DEF EscrowStep
<1>2. CASE \E sender \in Callers, token \in Tokens : setTokenApproval(sender, token) \/ create(sender, token)
  BY <1>2 DEF setTokenApproval, create, LifecycleStep
<1>3. CASE UNCHANGED vars
  BY <1>3 DEF vars, LifecycleStep
<1> QED
  BY <1>1, <1>2, <1>3 DEF Next

\* The escrow of the deployment is in a state of its own invariant.
DeploymentInv ==
    /\ factory \in Factories
    /\ factory = "MultiAsset" => MoneyInv
    /\ factory = "XStocks" => SharesInv

LEMMA DeploymentInit == Init => DeploymentInv /\ TalksInv
<1> SUFFICES ASSUME Init PROVE DeploymentInv /\ TalksInv
  OBVIOUS
<1>1. factory \in Factories /\ Token!Init /\ Stock!Init
  BY DEF Init
<1>2. TradeInit
  BY <1>1, TokenSets DEF Token!Init
<1> QED
  BY <1>1, <1>2, MoneyInit, SharesInit, TalksInit DEF DeploymentInv

LEMMA DeploymentNext == DeploymentInv /\ TalksInv /\ [Next]_vars => DeploymentInv' /\ TalksInv'
<1> SUFFICES ASSUME DeploymentInv, TalksInv, [Next]_vars PROVE DeploymentInv' /\ TalksInv'
  OBVIOUS
<1>1. TalksInv'
  BY TalksStep, DeploymentLifecycle
<1>2. /\ factory' = factory
      /\ factory = "MultiAsset" => [Token!Next]_(Token!vars)
      /\ factory = "XStocks" => [Stock!Next]_(Stock!vars)
  BY DeploymentStep
<1>3. DeploymentInv'
  BY <1>2, MoneyStep, SharesStep DEF DeploymentInv
<1> QED
  BY <1>1, <1>3

THEOREM DeploymentInvariant == Spec => [](DeploymentInv /\ TalksInv)
<1> QED
  BY DeploymentInit, DeploymentNext, PTL DEF Spec

\* Whichever of the two contracts was deployed, an open trade is covered by what it was
\* funded with and an ended one is paid out in full, to the party its outcome names.
THEOREM DeploymentFundsSafe == Spec => []FundsSafe
<1>1. DeploymentInv => FundsSafe
  BY DEF DeploymentInv, Factories, FundsSafe, MoneyInv, SharesInv, Stock!SharesAccounted
<1> QED
  BY <1>1, DeploymentInvariant, PTL

\* A split paid by agreement is the one the other party last proposed and did not
\* withdraw, in either contract.
THEOREM AgreementsMutual == Spec => []AgreementsAreMutual
<1>1. TalksInv => AgreementsAreMutual
  BY DEF TalksInv
<1> QED
  BY <1>1, DeploymentInvariant, PTL

\* A trade in dispute ends by the arbiter, by agreement or by the seller's refund only.
THEOREM DisputesFreeze == Spec => DisputeBlocksRelease
<1>1. ASSUME TradeTypeOK, LifecycleStep, state = "Disputed"
      PROVE  state' \in {"Disputed", "Refunded", "Resolved"}
  <2>1. CASE QuietStep
    BY <1>1, <2>1, QuietStepState
  <2>2. CASE SettleStep
    BY <1>1, <2>2, SettleStepState
  <2>3. ASSUME NEW sender \in Callers, FundTerms(sender) PROVE FALSE
    BY <1>1, <2>3 DEF FundTerms
  <2>4. CASE UNCHANGED tradeVars
    BY <1>1, <2>4 DEF tradeVars
  <2> QED
    BY <1>1, <2>1, <2>2, <2>3, <2>4 DEF LifecycleStep
<1>2. TalksInv /\ [Next]_vars
        => [state = "Disputed" => state' \in {"Disputed", "Refunded", "Resolved"}]_tradeVars
  BY <1>1, DeploymentLifecycle DEF TalksInv
<1> QED
  BY <1>2, DeploymentInvariant, PTL DEF Spec, DisputeBlocksRelease

\* Each factory deploys the contract it is named for: what holds of every behaviour of
\* the contract holds of the deployment.
THEOREM FactoriesDeployEscrows ==
    Spec => /\ factory = "MultiAsset" => Token!Spec
            /\ factory = "XStocks" => Stock!Spec
<1>1. Init => Token!Init /\ Stock!Init
  BY DEF Init
<1>2. factory = "MultiAsset" /\ [Next]_vars => [Token!Next]_(Token!vars) /\ (factory = "MultiAsset")'
  BY DeploymentStep
<1>3. factory = "XStocks" /\ [Next]_vars => [Stock!Next]_(Stock!vars) /\ (factory = "XStocks")'
  BY DeploymentStep
<1> QED
  BY <1>1, <1>2, <1>3, PTL DEF Spec, Token!Spec, Stock!Spec

LEMMA DeploymentPromiseInit == Init => Promise!Init
<1> SUFFICES ASSUME Init PROVE Promise!Init
  OBVIOUS
<1>1. Token!Promise!Init /\ Stock!Promise!Init
  BY TokenPromiseInit, StockPromiseInit DEF Init
<1> QED
  BY <1>1 DEF Promise!Init, Token!Promise!Init, Stock!Promise!Init

\* The promise reads what the deployed contract holds; both contracts read the stage alike.
LEMMA DeploymentPromiseStep ==
    DeploymentInv /\ DeploymentInv' /\ [Next]_vars => [Promise!Next]_(Promise!vars)
<1> SUFFICES ASSUME DeploymentInv, DeploymentInv', [Next]_vars PROVE [Promise!Next]_(Promise!vars)
  OBVIOUS
<1>1. /\ factory' = factory
      /\ factory = "MultiAsset" => [Token!Next]_(Token!vars)
      /\ factory = "XStocks" => [Stock!Next]_(Stock!vars)
  BY DeploymentStep
<1>2. CASE factory = "MultiAsset"
  <2>1. [Token!Promise!Next]_(Token!Promise!vars)
    BY <1>1, <1>2, TokenPromiseStep DEF DeploymentInv
  <2> QED
    BY <1>1, <1>2, <2>1
       DEF Promise!Next, Promise!vars, Promise!Fund, Promise!Dispute, Promise!Cancel,
           Promise!Close, Promise!Decide,
           Token!Promise!Next, Token!Promise!vars, Token!Promise!Fund, Token!Promise!Dispute,
           Token!Promise!Cancel, Token!Promise!Close, Token!Promise!Decide
<1>3. CASE factory = "XStocks"
  <2>1. [Stock!Promise!Next]_(Stock!Promise!vars)
    BY <1>1, <1>3, StockPromiseStep DEF DeploymentInv
  <2>2. Stock!Stage = Token!Stage /\ Stock!Stage' = Token!Stage'
    BY TokenSets, StockSets DEF Stock!Stage, Token!Stage, Token!Active, Stock!Active
  <2> QED
    BY <1>1, <1>3, <2>1, <2>2
       DEF Promise!Next, Promise!vars, Promise!Fund, Promise!Dispute, Promise!Cancel,
           Promise!Close, Promise!Decide,
           Stock!Promise!Next, Stock!Promise!vars, Stock!Promise!Fund, Stock!Promise!Dispute,
           Stock!Promise!Cancel, Stock!Promise!Close, Stock!Promise!Decide
<1> QED
  BY <1>2, <1>3 DEF DeploymentInv, Factories

\* Whichever contract is deployed, the trade is paid out once and in full, and from a
\* dispute on to the seller only by a decision.
THEOREM DeploymentKeepsPromise == Spec => KeepsPromise
<1> QED
  BY DeploymentPromiseInit, DeploymentPromiseStep, DeploymentInvariant, PTL
     DEF Spec, KeepsPromise, Promise!Spec

-----------------------------------------------------------------------------
(* The list of approved tokens. *)

\* The list has the tokens' types, and mirrors the approvals.
ListInv ==
    /\ approvedTokens \subseteq Tokens
    /\ list \in Seq(Tokens)
    /\ indexPlusOne \in [Tokens -> Nat]
    /\ ListMirrorsApprovals

LEMMA ListInit == Init => ListInv
BY DEF Init, ListInv, ListMirrorsApprovals

LEMMA ApproveKeepsList ==
    ASSUME ListInv, NEW token \in Tokens, Approve(token)
    PROVE  ListInv'
<1> DEFINE n == Len(list)
<1>1. list \in Seq(Tokens) /\ n \in Nat /\ DOMAIN list = 1 .. n
  BY DEF ListInv
<1>2. /\ list' \in Seq(Tokens) /\ Len(list') = n + 1 /\ DOMAIN list' = 1 .. (n + 1)
      /\ \A i \in 1 .. n : list'[i] = list[i]
      /\ list'[n + 1] = token
  BY <1>1, AppendProperties, LenProperties DEF Approve
<1>3. /\ indexPlusOne' = [indexPlusOne EXCEPT ![token] = n + 1]
      /\ approvedTokens' = approvedTokens \cup {token} /\ token \notin approvedTokens
  BY <1>2 DEF Approve
<1> HIDE DEF n
<1>4. indexPlusOne' \in [Tokens -> Nat] /\ approvedTokens' \subseteq Tokens
  BY <1>1, <1>3 DEF ListInv
<1>5. \A i \in 1 .. n : list[i] \in approvedTokens /\ list[i] # token /\ indexPlusOne[list[i]] = i
  BY <1>1, <1>3 DEF ListInv, ListMirrorsApprovals
<1>6. {list'[i] : i \in DOMAIN list'} = approvedTokens'
  <2>1. approvedTokens = {list[i] : i \in 1 .. n}
    BY <1>1 DEF ListInv, ListMirrorsApprovals
  <2>2. \A t : t \in approvedTokens' <=> \E i \in 1 .. (n + 1) : t = list'[i]
    BY <1>1, <1>2, <1>3, <2>1
  <2> QED
    BY <1>2, <2>2
<1>7. \A t \in Tokens : t \in approvedTokens' <=> indexPlusOne'[t] # 0
  BY <1>1, <1>3 DEF ListInv, ListMirrorsApprovals
<1>8. ASSUME NEW i \in DOMAIN list' PROVE indexPlusOne'[list'[i]] = i
  <2>1. CASE i = n + 1
    BY <1>2, <1>3, <2>1 DEF ListInv
  <2>2. CASE i \in 1 .. n
    BY <1>1, <1>2, <1>3, <1>5, <2>2 DEF ListInv
  <2> QED
    BY <1>1, <1>2, <2>1, <2>2
<1> QED
  BY <1>2, <1>4, <1>6, <1>7, <1>8 DEF ListInv, ListMirrorsApprovals

\* The last token moves to the place of the revoked one, and nothing else moves.
LEMMA RevokeKeepsList ==
    ASSUME ListInv, NEW token \in Tokens, Revoke(token)
    PROVE  ListInv'
<1> DEFINE n == Len(list)
<1> DEFINE k == indexPlusOne[token]
<1> DEFINE moved == [list EXCEPT ![k] = list[n]]
<1>1. list \in Seq(Tokens) /\ n \in Nat /\ DOMAIN list = 1 .. n
  BY DEF ListInv
<1>2. \A i \in 1 .. n : list[i] \in approvedTokens /\ list[i] \in Tokens /\ indexPlusOne[list[i]] = i
  BY <1>1 DEF ListInv, ListMirrorsApprovals
<1>3. k \in 1 .. n /\ list[k] = token
  <2>1. PICK i \in 1 .. n : list[i] = token
    BY <1>1 DEF Revoke, ListInv, ListMirrorsApprovals
  <2> QED
    BY <1>2, <2>1
<1>4. n \in 1 .. n /\ list[n] \in Tokens
  BY <1>1, <1>2, <1>3
<1>5. /\ moved \in Seq(Tokens) /\ Len(moved) = n
      /\ \A i \in 1 .. n : moved[i] = IF i = k THEN list[n] ELSE list[i]
  BY <1>1, <1>3, <1>4, ExceptSeq
<1>6. /\ list' = SubSeq(moved, 1, n - 1)
      /\ indexPlusOne' = [indexPlusOne EXCEPT ![list[n]] = k, ![token] = 0]
      /\ approvedTokens' = approvedTokens \ {token}
  BY DEF Revoke, MovedIndex
<1> HIDE DEF moved
<1>7. /\ list' \in Seq(Tokens) /\ Len(list') = n - 1 /\ DOMAIN list' = 1 .. (n - 1)
      /\ \A i \in 1 .. (n - 1) : list'[i] = moved[i]
  <2>1. \A i \in 1 .. (n - 1) : moved[i] \in Tokens
    BY <1>1, <1>5, ElementOfSeq
  <2>2. n - 1 \in Int /\ 1 \in Int
    BY <1>1
  <2>3. /\ list' \in Seq(Tokens)
        /\ Len(list') = IF 1 <= n - 1 THEN (n - 1) - 1 + 1 ELSE 0
        /\ \A i \in 1 .. (n - 1) - 1 + 1 : list'[i] = moved[1 + i - 1]
    BY <1>6, <2>1, <2>2, SubSeqProperties
  <2>4. /\ n \in Nat /\ n >= 1 /\ (n - 1) - 1 + 1 = n - 1 /\ n - 1 \in Nat
        /\ (IF 1 <= n - 1 THEN (n - 1) - 1 + 1 ELSE 0) = n - 1
        /\ \A i \in 1 .. (n - 1) : 1 + i - 1 = i
    BY <1>1, <1>4
  <2>5. Len(list') = n - 1 /\ \A i \in 1 .. (n - 1) : list'[i] = moved[i]
    BY <2>3, <2>4
  <2> QED
    BY <2>3, <2>5, LenProperties
<1> HIDE DEF n, k
<1>8. \A i \in 1 .. (n - 1) : list'[i] = IF i = k THEN list[n] ELSE list[i]
  BY <1>1, <1>5, <1>7
<1>9. /\ indexPlusOne' \in [Tokens -> Nat] /\ indexPlusOne'[token] = 0
      /\ list[n] # token => indexPlusOne'[list[n]] = k
      /\ \A t \in Tokens \ {token, list[n]} : indexPlusOne'[t] = indexPlusOne[t]
  BY <1>1, <1>3, <1>4, <1>6 DEF ListInv
<1>10. {list'[i] : i \in DOMAIN list'} = approvedTokens'
  <2>1. \A t : t \in approvedTokens <=> \E i \in 1 .. n : t = list[i]
    BY <1>1 DEF ListInv, ListMirrorsApprovals
  <2>2. ASSUME NEW i \in 1 .. (n - 1) PROVE list'[i] \in approvedTokens'
    <3>1. CASE i = k
      BY <1>1, <1>2, <1>3, <1>4, <1>6, <1>8, <2>2, <3>1
    <3>2. CASE i # k
      BY <1>1, <1>2, <1>3, <1>6, <1>8, <2>2, <3>2
    <3> QED
      BY <3>1, <3>2
  <2>3. ASSUME NEW t \in approvedTokens' PROVE \E i \in 1 .. (n - 1) : t = list'[i]
    <3>1. PICK i \in 1 .. n : t = list[i]
      BY <1>6, <2>1
    <3>2. t # token /\ i # k
      BY <1>3, <1>6, <3>1
    <3>3. CASE i = n
      BY <1>1, <1>3, <1>8, <3>1, <3>2, <3>3
    <3>4. CASE i # n
      BY <1>1, <1>8, <3>1, <3>2, <3>4
    <3> QED
      BY <3>3, <3>4
  <2> QED
    BY <1>7, <2>2, <2>3
<1>11. \A t \in Tokens : t \in approvedTokens' <=> indexPlusOne'[t] # 0
  <2>1. \A t \in Tokens : t \in approvedTokens <=> indexPlusOne[t] # 0
    BY DEF ListInv, ListMirrorsApprovals
  <2>2. list[n] # token => list[n] \in approvedTokens' /\ k # 0
    BY <1>2, <1>3, <1>4, <1>6
  <2> QED
    BY <1>4, <1>6, <1>9, <2>1, <2>2
<1>12. ASSUME NEW i \in DOMAIN list' PROVE indexPlusOne'[list'[i]] = i
  <2>1. i \in 1 .. (n - 1) /\ i \in 1 .. n /\ i # n
    BY <1>1, <1>7
  <2>2. CASE i = k
    <3>1. list[n] # token
      BY <1>2, <1>3, <1>4, <2>1, <2>2
    <3> QED
      BY <1>8, <1>9, <2>1, <2>2, <3>1
  <2>3. CASE i # k
    <3>1. list[i] \in Tokens \ {token, list[n]} /\ indexPlusOne[list[i]] = i
      BY <1>2, <1>3, <1>4, <2>1, <2>3
    <3> QED
      BY <1>8, <1>9, <2>1, <2>3, <3>1
  <2> QED
    BY <2>2, <2>3
<1> QED
  BY <1>6, <1>7, <1>9, <1>10, <1>11, <1>12 DEF ListInv, ListMirrorsApprovals

LEMMA ListStep == ListInv /\ [Next]_vars => ListInv'
<1> SUFFICES ASSUME ListInv, [Next]_vars PROVE ListInv'
  OBVIOUS
<1>1. ASSUME NEW token \in Tokens, Approve(token) \/ Revoke(token) PROVE ListInv'
  BY <1>1, ApproveKeepsList, RevokeKeepsList
<1>2. CASE UNCHANGED approvals
  BY <1>2 DEF ListInv, ListMirrorsApprovals, approvals
<1> QED
  BY <1>1, <1>2 DEF Next, vars, setTokenApproval, create, EscrowStep

\* The list that clients page through holds each approved token exactly once, and the
\* index finds it there, after any approvals and revocations of any number of tokens.
THEOREM ListMirrors == Spec => []ListMirrorsApprovals
<1>1. ListInv => ListMirrorsApprovals
  BY DEF ListInv
<1> QED
  BY <1>1, ListInit, ListStep, PTL DEF Spec

-----------------------------------------------------------------------------
(* The market.  A listing has one accepted offer at most; a reservation    *)
(* holds the acceptance (ReservedHold); a checkout exists only under one   *)
(* and never outlives it unpaid (CheckoutsHold); and a call that saw a     *)
(* checkout lapse is right for ever, since a lapsed checkout is not paid   *)
(* any more (CallsHold): closing it cannot orphan a payment.               *)


\* A listing has one accepted offer at most.
AcceptedOnce ==
    \A o, p \in Offers :
        offers[o].status = "accepted" /\ offers[p].status = "accepted" /\ Listing(o) = Listing(p) => o = p

\* A reservation in force holds the acceptance; a retired one was closed with its offer.
ReservedHold ==
    \A o \in Offers :
        /\ reservation[o] \in {"hosted", "legacy"} => offers[o].status = "accepted"
        /\ reservation[o] = "retired" => offers[o].status = "cancelled" /\ agreements[o] = "lapsed"

\* Hash PayLink knows only offers reserved for it.
CheckoutsHold ==
    \A o \in Offers : agreements[o] # "none" => reservation[o] \in {"hosted", "retired"}

\* A call is about such an offer, and a checkout it saw lapse has lapsed.
CallsHold ==
    \A c \in calls :
        /\ reservation[c.offer] \in {"hosted", "retired"}
        /\ c.seen = "lapsed" => agreements[c.offer] = "lapsed"

MarketInv ==
    /\ MarketTypeOK
    /\ AcceptedOnce /\ ReservedHold /\ CheckoutsHold /\ CallsHold
    /\ OneWayToPay

\* What the invariant says of the deals, and the variables it speaks of.
DealsHold == AcceptedOnce /\ ReservedHold /\ CheckoutsHold /\ CallsHold /\ OneWayToPay
dealVars == <<offers, wallets, connected, reservation, calls, agreements>>

-----------------------------------------------------------------------------
(* Steps beside the deals: listings, reports, enquiries and blocks. *)

LEMMA DealsUntouched == ASSUME DealsHold, UNCHANGED dealVars PROVE DealsHold'
BY
   DEF DealsHold, dealVars, AcceptedOnce, ReservedHold, CheckoutsHold, CallsHold, OneWayToPay,
       Listing

\* What may become of a listing.
ListingsChange ==
    \/ UNCHANGED listings
    \/ \E l \in Listings, status \in ListingStatuses :
          /\ listings' = [listings EXCEPT ![l] = [status |-> status, revision |-> @.revision + 1]]
          /\ listings[l].status = "removed" => status = "removed"

LEMMA ListingsStep ==
    ASSUME MarketTypeOK, [MarketNext]_marketVars
    PROVE  ListingsChange /\ listings' \in [Listings -> [status : ListingStatuses, revision : Nat]]
<1>1. ListingsChange
  <2>1. ASSUME NEW l \in Listings, ListingStep(l) PROVE ListingsChange
    <3>1. ASSUME NEW status \in {"active", "sold", "removed"}, Save(l, status) PROVE ListingsChange
        BY <3>1 DEF Save, ListingsChange, ListingStatuses
    <3>2. CASE Publish(l) \/ MarkSold(l) \/ Remove(l)
        BY <3>1, <3>2 DEF Publish, MarkSold, Remove
    <3>3. CASE Moderate(l)
        BY <3>3 DEF Moderate, ListingsChange, ListingStatuses
    <3>4. CASE UNCHANGED listings
        BY <3>4 DEF ListingsChange
    <3>5. QED
        BY <2>1, <3>2, <3>3, <3>4 DEF ListingStep, Report, Start, Propose
  <2>2. ASSUME NEW c \in calls, RecordRelease(c) PROVE ListingsChange
    <3>1. reservation[c.offer] = "hosted" /\ listings[Listing(c.offer)].status = "active"
          /\ listings' = [listings EXCEPT ![Listing(c.offer)] = [status |-> "sold", revision |-> @.revision + 1]]
        BY <2>2 DEF RecordRelease
    <3>2. CASE Listing(c.offer) \in Listings
        BY <3>1, <3>2 DEF ListingsChange, ListingStatuses
    <3>3. CASE Listing(c.offer) \notin Listings
      <4>1. DOMAIN listings = Listings /\ listings = [l \in Listings |-> listings[l]]
          BY DEF MarketTypeOK
      <4>2. listings' = listings
          BY <3>1, <3>3, <4>1
      <4>3. QED
          BY <4>2 DEF ListingsChange
    <3>4. QED
        BY <3>2, <3>3
  <2>3. UNCHANGED listings \/ (\E l \in Listings : ListingStep(l)) \/ \E c \in calls : RecordRelease(c)
      BY DEF MarketNext, marketVars, SetBlock, OfferStep, Expire, Accept, Decline, Withdraw, Cancel, Decide,
         ReserveLegacy, Reserve, ReserveFor, Begin, SelectWallet, Connect, Resume, Pay, Lapse,
         Release,
         Refund, Settle, CallStep, Ask, CloseExpired, End
  <2>4. QED
      BY <2>1, <2>2, <2>3 DEF ListingsChange
<1>2. ASSUME NEW l \in Listings, NEW status \in ListingStatuses,
             listings' = [listings EXCEPT ![l] = [status |-> status, revision |-> @.revision + 1]]
      PROVE  listings' \in [Listings -> [status : ListingStatuses, revision : Nat]]
  <2> DEFINE Rows == [status : ListingStatuses, revision : Nat]
             row == [status |-> status, revision |-> listings[l].revision + 1]
  <2>1. listings \in [Listings -> Rows]
      BY DEF MarketTypeOK
  <2>2. listings[l].revision \in Nat
      BY <2>1
  <2>3. row \in Rows
      BY <2>2
  <2>4. listings' = [listings EXCEPT ![l] = row]
      BY <1>2
  <2> HIDE DEF Rows, row
  <2>5. listings' \in [Listings -> Rows]
      BY <2>1, <2>3, <2>4
  <2>6. QED
      BY <2>5 DEF Rows
<1>3. QED
    BY <1>1, <1>2 DEF ListingsChange, MarketTypeOK

\* Enquiries, blocks and reports keep their types.
LEMMA EnquiriesStep ==
    ASSUME MarketTypeOK, [MarketNext]_marketVars
    PROVE  threads' \subseteq Threads /\ threads \subseteq threads'
           /\ blocks' \subseteq Buyers /\ reports' \subseteq Listings
<1>1. /\ threads' = threads \/ \E l \in Listings, b \in Buyers : threads' = threads \cup {<<l, b>>}
      /\ blocks' = blocks \/ \E b \in Buyers : blocks' \in {blocks \cup {b}, blocks \ {b}}
      /\ reports' = reports \/ \E l \in Listings : reports' \in {reports \cup {l}, reports \ {l}}
    BY DEF MarketNext, marketVars, SetBlock, OfferStep, Expire, Accept, Decline, Withdraw, Cancel, Decide,
       ReserveLegacy, Reserve, ReserveFor, Begin, SelectWallet, Connect, Resume, Pay, Lapse,
       Release,
       Refund, Settle, CallStep, Ask, RecordRelease, CloseExpired, End, ListingStep, Publish,
       MarkSold, Remove, Save, Report, Moderate, Start, Propose
<1>2. threads \subseteq Threads /\ blocks \subseteq Buyers /\ reports \subseteq Listings
    BY DEF MarketTypeOK
<1>3. threads' \subseteq Threads /\ threads \subseteq threads'
    BY <1>1, <1>2 DEF Threads
<1>4. blocks' \subseteq Buyers /\ reports' \subseteq Listings
    BY <1>1, <1>2
<1>5. QED
    BY <1>3, <1>4

-----------------------------------------------------------------------------
(* What may become of the offers, their reservations, their checkouts and  *)
(* the calls about them: each lemma covers the actions that change the     *)
(* same variables.                                                         *)

DealTypes ==
    /\ offers \in [Offers -> [thread : Threads \cup {NoThread}, status : OfferStatuses,
                              revision : Nat, late : BOOLEAN]]
    /\ \A o \in Offers : Exists(o) => offers[o].thread \in Threads
    /\ wallets \in [Offers -> SUBSET Roles]
    /\ connected \in [Offers -> SUBSET Roles]
    /\ reservation \in [Offers -> Reservations]
    /\ calls \subseteq Calls
    /\ agreements \in [Offers -> AgreementStates]

Rows == [thread : Threads \cup {NoThread}, status : OfferStatuses, revision : Nat, late : BOOLEAN]

\* A new offer, the ones it replaces, and nothing else.
LEMMA ProposeStep ==
    ASSUME MarketInv, NEW l \in Listings, NEW b \in Buyers, NEW o \in Offers, Propose(l, b, o)
    PROVE  DealTypes' /\ DealsHold'
<1> DEFINE fresh == [thread |-> <<l, b>>, status |-> "proposed",
                     revision |-> listings[l].revision, late |-> FALSE]
<1>1. /\ UNCHANGED <<wallets, connected, reservation, calls, agreements>>
      /\ offers[o].status = "none"
      /\ offers' = [p \in Offers |->
            IF p = o THEN fresh
            ELSE IF offers[p].thread = <<l, b>> /\ offers[p].status = "proposed"
                 THEN [offers[p] EXCEPT !.status = "withdrawn"] ELSE offers[p]]
    BY DEF Propose, Exists
<1>2. offers \in [Offers -> Rows] /\ \A p \in Offers : Exists(p) => offers[p].thread \in Threads
    BY DEF MarketInv, MarketTypeOK, Rows
<1>3. fresh \in Rows /\ fresh.thread \in Threads /\ fresh.status = "proposed"
  <2>1. listings[l].revision \in Nat
      BY DEF MarketInv, MarketTypeOK
  <2>2. <<l, b>> \in Threads
      BY DEF Threads
  <2>3. QED
      BY <2>1, <2>2 DEF Rows, OfferStatuses
<1> HIDE DEF fresh
<1>4. ASSUME NEW row \in Rows
      PROVE  /\ [row EXCEPT !.status = "withdrawn"] \in Rows
             /\ [row EXCEPT !.status = "withdrawn"].status = "withdrawn"
             /\ [row EXCEPT !.status = "withdrawn"].thread = row.thread
    BY DEF Rows, OfferStatuses
<1>5. ASSUME NEW p \in Offers
      PROVE  /\ offers'[p] \in Rows
             /\ offers'[p].status # "none" => offers'[p].thread \in Threads
             /\ p = o => offers'[p].status = "proposed"
             /\ p # o => /\ offers'[p].thread = offers[p].thread
                         /\ \/ offers'[p].status = offers[p].status
                            \/ offers'[p].status = "withdrawn" /\ offers[p].status = "proposed"
  <2>1. offers[p] \in Rows
      BY <1>2
  <2>2. CASE p = o
      BY <1>1, <1>3, <2>2
  <2>3. CASE p # o /\ offers[p].thread = <<l, b>> /\ offers[p].status = "proposed"
    <3>1. offers'[p] = [offers[p] EXCEPT !.status = "withdrawn"]
        BY <1>1, <2>3
    <3>2. QED
        BY <1>2, <1>4, <2>1, <2>3, <3>1 DEF Exists
  <2>4. CASE p # o /\ ~ (offers[p].thread = <<l, b>> /\ offers[p].status = "proposed")
    <3>1. offers'[p] = offers[p]
        BY <1>1, <2>4
    <3>2. QED
        BY <1>2, <2>1, <2>4, <3>1 DEF Exists
  <2>5. QED
      BY <2>2, <2>3, <2>4
<1>6. DealTypes'
  <2>1. offers' \in [Offers -> Rows]
      BY <1>1, <1>5
  <2>2. QED
      BY <1>1, <1>5, <2>1 DEF DealTypes, Rows, Exists, MarketInv, MarketTypeOK
<1>7. \A p \in Offers : offers'[p].status = "accepted" <=> offers[p].status = "accepted"
    BY <1>1, <1>5
<1>8. AcceptedOnce'
    BY <1>1, <1>5, <1>7 DEF MarketInv, AcceptedOnce, Listing
<1>9. ReservedHold'
    BY <1>1, <1>5, <1>7 DEF MarketInv, ReservedHold
<1>10. CheckoutsHold' /\ CallsHold' /\ OneWayToPay'
    BY <1>1 DEF MarketInv, CheckoutsHold, CallsHold, OneWayToPay
<1>11. QED
    BY <1>6, <1>8, <1>9, <1>10 DEF DealsHold

\* An offer changes its status or its age, under conditions that keep the deals.
LEMMA OfferMoves ==
    ASSUME MarketInv, NEW o \in Offers, Expire(o) \/ Accept(o) \/ Decline(o) \/ Withdraw(o) \/ Cancel(o)
    PROVE  DealTypes' /\ DealsHold'
<1>1. /\ UNCHANGED <<wallets, connected, reservation, calls, agreements>>
      /\ offers[o].status \in {"proposed", "accepted"}
    BY DEF Expire, Accept, Decline, Withdraw, Cancel, Decide
<1>2. offers \in [Offers -> Rows] /\ \A p \in Offers : Exists(p) => offers[p].thread \in Threads
    BY DEF MarketInv, MarketTypeOK, Rows
<1>3. /\ offers' \in [Offers -> Rows]
      /\ \A p \in Offers : p # o => offers'[p] = offers[p]
      /\ offers'[o].thread = offers[o].thread
      /\ \/ Accept(o) /\ offers'[o].status = "accepted"
         \/ offers'[o].status = offers[o].status
         \/ offers'[o].status \in {"declined", "withdrawn", "cancelled"} /\ reservation[o] = "none"
  <2>1. CASE Expire(o)
    <3>1. offers' = [offers EXCEPT ![o].late = TRUE]
        BY <2>1 DEF Expire
    <3>2. QED
        BY <1>2, <3>1 DEF Rows
  <2>2. ASSUME NEW from, NEW to \in OfferStatuses, Decide(o, from, to)
        PROVE  /\ offers' \in [Offers -> Rows]
               /\ \A p \in Offers : p # o => offers'[p] = offers[p]
               /\ offers'[o].thread = offers[o].thread /\ offers'[o].status = to
               /\ offers[o].status = from
      BY <1>2, <2>2 DEF Decide, Rows
  <2>3. CASE Accept(o)
      BY <2>2, <2>3 DEF Accept, OfferStatuses
  <2>4. CASE Decline(o) \/ Withdraw(o)
    <3>1. offers[o].status = "proposed"
        BY <2>4 DEF Decline, Withdraw, Decide
    <3>2. reservation[o] = "none"
        BY <3>1 DEF MarketInv, MarketTypeOK, ReservedHold, Reservations
    <3>3. QED
        BY <2>2, <2>4, <3>2 DEF Decline, Withdraw, OfferStatuses
  <2>5. CASE Cancel(o)
      BY <2>2, <2>5 DEF Cancel, OfferStatuses
  <2>6. QED
      BY <2>1, <2>3, <2>4, <2>5
<1>4. DealTypes'
    BY <1>1, <1>2, <1>3 DEF DealTypes, Rows, Exists, MarketInv, MarketTypeOK
<1>5. AcceptedOnce'
  <2>1. SUFFICES ASSUME NEW p \in Offers, NEW q \in Offers, offers'[p].status = "accepted",
                        offers'[q].status = "accepted", Listing(p)' = Listing(q)'
                 PROVE  p = q
      BY DEF AcceptedOnce
  <2>2. Listing(p)' = Listing(p) /\ Listing(q)' = Listing(q)
      BY <1>3 DEF Listing
  <2>3. \A r \in Offers : offers'[r].status = "accepted" =>
            offers[r].status = "accepted" \/ (r = o /\ Accept(o))
      BY <1>3
  <2>4. ASSUME Accept(o), NEW r \in Offers, offers[r].status = "accepted" PROVE Listing(r) # Listing(o)
      BY <2>4 DEF Accept, AcceptedOn, OffersOn, Exists
  <2>5. QED
      BY <2>1, <2>2, <2>3, <2>4 DEF MarketInv, AcceptedOnce
<1>6. ReservedHold'
  <2>1. reservation[o] # "none" => offers[o].status = "accepted"
      BY <1>1 DEF MarketInv, ReservedHold, MarketTypeOK, Reservations
  <2>2. Accept(o) => offers[o].status = "proposed"
      BY DEF Accept, Decide
  <2>3. QED
      BY <1>1, <1>3, <2>1, <2>2 DEF MarketInv, ReservedHold
<1>7. CheckoutsHold' /\ CallsHold' /\ OneWayToPay'
    BY <1>1 DEF MarketInv, CheckoutsHold, CallsHold, OneWayToPay
<1>8. QED
    BY <1>4, <1>5, <1>6, <1>7 DEF DealsHold

\* A participant chooses how to settle an offer that is not reserved yet.
LEMMA ChoiceStep ==
    ASSUME MarketInv, NEW o \in Offers, NEW role \in Roles, SelectWallet(o, role) \/ Connect(o, role)
    PROVE  DealTypes' /\ DealsHold'
<1>1. reservation[o] = "none" /\ UNCHANGED <<offers, reservation, calls, agreements>>
    BY DEF SelectWallet, Connect, MayCheckOut
<1>2. /\ wallets' \in [Offers -> SUBSET Roles] /\ connected' \in [Offers -> SUBSET Roles]
      /\ \A p \in Offers : p # o => wallets'[p] = wallets[p] /\ connected'[p] = connected[p]
      /\ wallets'[o] = {} \/ connected'[o] = {}
  <2>1. wallets \in [Offers -> SUBSET Roles] /\ connected \in [Offers -> SUBSET Roles]
      BY DEF MarketInv, MarketTypeOK
  <2>2. CASE SelectWallet(o, role)
    <3>1. /\ wallets' = [wallets EXCEPT ![o] = wallets[o] \cup {role}]
          /\ connected' = connected /\ connected[o] = {}
        BY <2>2 DEF SelectWallet
    <3>2. QED
        BY <2>1, <3>1
  <2>3. CASE Connect(o, role)
    <3>1. /\ connected' = [connected EXCEPT ![o] = connected[o] \cup {role}]
          /\ wallets' = wallets /\ wallets[o] = {}
        BY <2>3 DEF Connect
    <3>2. QED
        BY <2>1, <3>1
  <2>4. QED
      BY <2>2, <2>3
<1>3. DealTypes'
    BY <1>1, <1>2 DEF DealTypes, Exists, MarketInv, MarketTypeOK
<1>4. AcceptedOnce' /\ ReservedHold' /\ CheckoutsHold' /\ CallsHold'
    BY <1>1 DEF MarketInv, AcceptedOnce, ReservedHold, CheckoutsHold, CallsHold, Listing
<1>5. OneWayToPay'
    BY <1>1, <1>2 DEF MarketInv, OneWayToPay
<1>6. QED
    BY <1>3, <1>4, <1>5 DEF DealsHold

\* An accepted offer is reserved, hosted with its first call.
LEMMA ReserveStep ==
    ASSUME MarketInv, NEW o \in Offers, ReserveLegacy(o) \/ Reserve(o)
    PROVE  DealTypes' /\ DealsHold'
<1> DEFINE call == [offer |-> o, close |-> FALSE, seen |-> "unasked"]
<1>1. /\ offers[o].status = "accepted" /\ reservation[o] = "none"
      /\ UNCHANGED <<offers, wallets, connected, agreements>>
      /\ \/ reservation' = [reservation EXCEPT ![o] = "legacy"] /\ wallets[o] = Roles /\ UNCHANGED calls
         \/ /\ reservation' = [reservation EXCEPT ![o] = "hosted"] /\ connected[o] = Roles
            /\ calls' = calls \cup {call}
    BY DEF ReserveLegacy, Reserve, ReserveFor, MayCheckOut, Begin
<1>2. call \in Calls /\ call.offer = o /\ call.seen = "unasked"
    BY DEF Calls, Sights
<1> HIDE DEF call
<1>3. /\ reservation' \in [Offers -> Reservations]
      /\ \A p \in Offers : p # o => reservation'[p] = reservation[p]
      /\ \/ reservation'[o] = "legacy" /\ wallets[o] = Roles /\ UNCHANGED calls
         \/ reservation'[o] = "hosted" /\ connected[o] = Roles /\ calls' = calls \cup {call}
    BY <1>1 DEF MarketInv, MarketTypeOK, Reservations
<1>4. calls \subseteq Calls /\ \A c \in calls : c.offer \in Offers /\ c.offer # o
  <2>1. \A c \in calls : c \in Calls /\ c.offer \in Offers
      BY DEF MarketInv, MarketTypeOK, Calls
  <2>2. QED
      BY <1>1, <2>1 DEF MarketInv, CallsHold
<1>5. agreements[o] = "none"
    BY <1>1 DEF MarketInv, CheckoutsHold
<1>6. DealTypes'
    BY <1>1, <1>2, <1>3, <1>4 DEF DealTypes, Exists, MarketInv, MarketTypeOK
<1>7. AcceptedOnce' /\ ReservedHold' /\ CheckoutsHold'
    BY <1>1, <1>3, <1>5 DEF MarketInv, AcceptedOnce, ReservedHold, CheckoutsHold, Listing
<1>8. CallsHold'
    BY <1>1, <1>2, <1>3, <1>4 DEF MarketInv, CallsHold
<1>9. OneWayToPay'
    BY <1>1, <1>3 DEF MarketInv, OneWayToPay
<1>10. QED
    BY <1>6, <1>7, <1>8, <1>9 DEF DealsHold

\* A later call about a reservation begins.
LEMMA ResumeStep ==
    ASSUME MarketInv, NEW o \in Offers, NEW close \in BOOLEAN, Resume(o, close)
    PROVE  DealTypes' /\ DealsHold'
<1> DEFINE call == [offer |-> o, close |-> close, seen |-> "unasked"]
<1>1. /\ reservation[o] \in {"hosted", "retired"} /\ calls' = calls \cup {call}
      /\ UNCHANGED <<offers, wallets, connected, reservation, agreements>>
    BY DEF Resume, Begin
<1>2. call \in Calls /\ call.offer = o /\ call.seen = "unasked"
    BY DEF Calls, Sights
<1> HIDE DEF call
<1>3. DealTypes'
    BY <1>1, <1>2 DEF DealTypes, Exists, MarketInv, MarketTypeOK
<1>4. CallsHold'
    BY <1>1, <1>2 DEF MarketInv, CallsHold
<1>5. AcceptedOnce' /\ ReservedHold' /\ CheckoutsHold' /\ OneWayToPay'
    BY <1>1 DEF MarketInv, AcceptedOnce, ReservedHold, CheckoutsHold, OneWayToPay, Listing
<1>6. QED
    BY <1>3, <1>4, <1>5 DEF DealsHold

\* Hash PayLink is asked: it creates the checkout, or tells what became of it.
LEMMA AskStep ==
    ASSUME MarketInv, NEW c \in calls, Ask(c)
    PROVE  DealTypes' /\ DealsHold'
<1>1. c \in Calls /\ c.offer \in Offers /\ reservation[c.offer] \in {"hosted", "retired"}
    BY DEF MarketInv, MarketTypeOK, Calls, CallsHold
<1>2. UNCHANGED <<offers, wallets, connected, reservation>>
    BY DEF Ask
<1>3. CASE agreements[c.offer] = "none"
  <2>1. agreements' = [agreements EXCEPT ![c.offer] = "open"] /\ calls' = calls \ {c}
      BY <1>3 DEF Ask
  <2>2. /\ agreements' \in [Offers -> AgreementStates]
        /\ \A p \in Offers : p # c.offer => agreements'[p] = agreements[p]
        /\ agreements'[c.offer] = "open"
      BY <1>1, <2>1 DEF MarketInv, MarketTypeOK, AgreementStates
  <2>3. DealTypes'
      BY <1>2, <2>1, <2>2 DEF DealTypes, Exists, MarketInv, MarketTypeOK
  <2>4. CheckoutsHold'
      BY <1>1, <1>2, <2>2 DEF MarketInv, CheckoutsHold
  <2>5. ReservedHold'
      BY <1>2, <1>3, <2>2 DEF MarketInv, ReservedHold
  <2>6. CallsHold'
    <3>1. \A d \in calls : d \in Calls /\ d.offer \in Offers
        BY DEF MarketInv, MarketTypeOK, Calls
    <3>2. \A d \in calls : d.seen = "lapsed" => d.offer # c.offer
        BY <1>3 DEF MarketInv, CallsHold
    <3>3. QED
        BY <1>2, <2>1, <2>2, <3>1, <3>2 DEF MarketInv, CallsHold
  <2>7. AcceptedOnce' /\ OneWayToPay'
      BY <1>2 DEF MarketInv, AcceptedOnce, OneWayToPay, Listing
  <2>8. QED
      BY <2>3, <2>4, <2>5, <2>6, <2>7 DEF DealsHold
<1>4. CASE agreements[c.offer] # "none"
  <2> DEFINE told == [c EXCEPT !.seen = agreements[c.offer]]
  <2>1. /\ agreements[c.offer] \in Telling /\ calls' = (calls \ {c}) \cup {told}
        /\ UNCHANGED agreements
      BY <1>4 DEF Ask
  <2>2. told \in Calls /\ told.offer = c.offer /\ told.seen = agreements[c.offer]
      BY <1>1, <2>1 DEF Calls, Sights
  <2> HIDE DEF told
  <2>3. DealTypes'
      BY <1>2, <2>1, <2>2 DEF DealTypes, Exists, MarketInv, MarketTypeOK
  <2>4. CallsHold'
      BY <1>1, <1>2, <2>1, <2>2 DEF MarketInv, CallsHold
  <2>5. AcceptedOnce' /\ ReservedHold' /\ CheckoutsHold' /\ OneWayToPay'
      BY <1>2, <2>1 DEF MarketInv, AcceptedOnce, ReservedHold, CheckoutsHold, OneWayToPay, Listing
  <2>6. QED
      BY <2>3, <2>4, <2>5 DEF DealsHold
<1>5. QED
    BY <1>3, <1>4

\* What a call saw is recorded or shown; a checkout proven lapsed is closed.
LEMMA ApplyStep ==
    ASSUME MarketInv, NEW c \in calls, RecordRelease(c) \/ CloseExpired(c) \/ End(c)
    PROVE  DealTypes' /\ DealsHold'
<1>1. calls' = calls \ {c} /\ UNCHANGED <<wallets, connected, agreements>>
    BY DEF RecordRelease, CloseExpired, End
<1>2. CASE UNCHANGED <<offers, reservation>>
  <2>1. DealTypes'
      BY <1>1, <1>2 DEF DealTypes, Exists, MarketInv, MarketTypeOK
  <2>2. QED
      BY <1>1, <1>2, <2>1
         DEF DealsHold, MarketInv, AcceptedOnce, ReservedHold, CheckoutsHold, CallsHold,
         OneWayToPay, Listing
<1>3. CASE CloseExpired(c)
  <2> DEFINE o == c.offer
  <2>1. o \in Offers /\ c \in Calls
      BY DEF MarketInv, MarketTypeOK, Calls
  <2>2. /\ reservation[o] = "hosted" /\ offers[o].status = "accepted" /\ agreements[o] = "lapsed"
        /\ reservation' = [reservation EXCEPT ![o] = "retired"]
        /\ offers' = [offers EXCEPT ![o].status = "cancelled"]
      BY <1>3 DEF CloseExpired, ProvesExpiry, MarketInv, CallsHold
  <2> HIDE DEF o
  <2>3. offers \in [Offers -> Rows] /\ \A p \in Offers : Exists(p) => offers[p].thread \in Threads
      BY DEF MarketInv, MarketTypeOK, Rows
  <2>4. /\ offers' \in [Offers -> Rows]
        /\ \A p \in Offers : p # o => offers'[p] = offers[p]
        /\ offers'[o].status = "cancelled" /\ offers'[o].thread = offers[o].thread
      BY <2>1, <2>2, <2>3 DEF Rows, OfferStatuses
  <2>5. /\ reservation' \in [Offers -> Reservations]
        /\ \A p \in Offers : p # o => reservation'[p] = reservation[p]
        /\ reservation'[o] = "retired"
      BY <2>1, <2>2 DEF MarketInv, MarketTypeOK, Reservations
  <2>6. DealTypes'
      BY <1>1, <2>2, <2>3, <2>4, <2>5 DEF DealTypes, Rows, Exists, MarketInv, MarketTypeOK
  <2>7. AcceptedOnce'
      BY <2>4 DEF MarketInv, AcceptedOnce, Listing
  <2>8. ReservedHold' /\ CheckoutsHold'
      BY <1>1, <2>2, <2>4, <2>5 DEF MarketInv, ReservedHold, CheckoutsHold
  <2>9. CallsHold'
    <3>1. \A d \in calls : d \in Calls /\ d.offer \in Offers
        BY DEF MarketInv, MarketTypeOK, Calls
    <3>2. QED
        BY <1>1, <2>5, <3>1 DEF MarketInv, CallsHold
  <2>10. OneWayToPay'
      BY <1>1, <2>2, <2>5 DEF MarketInv, OneWayToPay
  <2>11. QED
      BY <2>6, <2>7, <2>8, <2>9, <2>10 DEF DealsHold
<1>4. QED
    BY <1>2, <1>3 DEF RecordRelease, End

\* A checkout that lapsed stays so; one that was paid was open.
LEMMA CheckoutStep ==
    ASSUME MarketInv, NEW o \in Offers, Pay(o) \/ Lapse(o) \/ Release(o) \/ Refund(o)
    PROVE  DealTypes' /\ DealsHold'
<1>1. /\ agreements[o] \in {"open", "paid"}
      /\ \E to \in AgreementStates : to # "none" /\ agreements' = [agreements EXCEPT ![o] = to]
      /\ UNCHANGED <<offers, wallets, connected, reservation, calls>>
    BY DEF Pay, Lapse, Release, Refund, Settle, AgreementStates
<1>2. /\ agreements' \in [Offers -> AgreementStates]
      /\ \A p \in Offers : p # o => agreements'[p] = agreements[p]
    BY <1>1 DEF MarketInv, MarketTypeOK
<1>3. DealTypes'
    BY <1>1, <1>2 DEF DealTypes, Exists, MarketInv, MarketTypeOK
<1>4. ReservedHold' /\ CheckoutsHold'
    BY <1>1, <1>2 DEF MarketInv, ReservedHold, CheckoutsHold
<1>5. CallsHold'
  <2>1. \A c \in calls : c \in Calls /\ c.offer \in Offers
      BY DEF MarketInv, MarketTypeOK, Calls
  <2>2. QED
      BY <1>1, <1>2, <2>1 DEF MarketInv, CallsHold
<1>6. AcceptedOnce' /\ OneWayToPay'
    BY <1>1 DEF MarketInv, AcceptedOnce, OneWayToPay, Listing
<1>7. QED
    BY <1>3, <1>4, <1>5, <1>6 DEF DealsHold

-----------------------------------------------------------------------------
(* Results *)

LEMMA DealsStep == MarketInv /\ [MarketNext]_marketVars => DealTypes' /\ DealsHold'
<1> SUFFICES ASSUME MarketInv, [MarketNext]_marketVars PROVE DealTypes' /\ DealsHold'
    OBVIOUS
<1>1. CASE UNCHANGED dealVars
  <2>1. DealTypes'
      BY <1>1 DEF dealVars, DealTypes, Exists, MarketInv, MarketTypeOK
  <2>2. QED
      BY <1>1, <2>1, DealsUntouched DEF MarketInv, DealsHold
<1>2. ASSUME NEW l \in Listings, ListingStep(l) PROVE DealTypes' /\ DealsHold'
    BY <1>1, <1>2, ProposeStep
       DEF ListingStep, Publish, MarkSold, Remove, Save, Report, Moderate, Start,
       dealVars
<1>3. ASSUME NEW o \in Offers, OfferStep(o) PROVE DealTypes' /\ DealsHold'
    BY <1>3, OfferMoves, ChoiceStep, ReserveStep, ResumeStep, CheckoutStep DEF OfferStep
<1>4. ASSUME NEW c \in calls, CallStep(c) PROVE DealTypes' /\ DealsHold'
    BY <1>4, AskStep, ApplyStep DEF CallStep
<1>5. CASE \E b \in Buyers : SetBlock(b)
    BY <1>1, <1>5 DEF SetBlock, dealVars
<1>6. QED
    BY <1>1, <1>2, <1>3, <1>4, <1>5 DEF MarketNext, marketVars, dealVars

LEMMA MarketStarts == MarketInit => MarketInv
<1> SUFFICES ASSUME MarketInit PROVE MarketInv
    OBVIOUS
<1>1. \A o \in Offers : offers[o].status = "none" /\ reservation[o] = "none" /\ agreements[o] = "none"
                            /\ wallets[o] = {}
    BY DEF MarketInit
<1>2. MarketTypeOK
  <2>1. offers \in [Offers -> [thread : Threads \cup {NoThread}, status : OfferStatuses,
                              revision : Nat, late : BOOLEAN]]
      BY DEF MarketInit, OfferStatuses
  <2>2. listings \in [Listings -> [status : ListingStatuses, revision : Nat]]
      BY DEF MarketInit, ListingStatuses
  <2>3. QED
      BY <1>1, <2>1, <2>2 DEF MarketInit, MarketTypeOK, Exists, Reservations, AgreementStates
<1>3. QED
    BY <1>1, <1>2
       DEF MarketInit, MarketInv, AcceptedOnce, ReservedHold, CheckoutsHold, CallsHold, OneWayToPay

LEMMA MarketInvariant == MarketSpec => []MarketInv
<1>1. MarketInv /\ [MarketNext]_marketVars => MarketInv'
  <2> SUFFICES ASSUME MarketInv, [MarketNext]_marketVars PROVE MarketInv'
      OBVIOUS
  <2>1. MarketTypeOK
      BY DEF MarketInv
  <2>2. /\ listings' \in [Listings -> [status : ListingStatuses, revision : Nat]]
        /\ threads' \subseteq Threads /\ blocks' \subseteq Buyers /\ reports' \subseteq Listings
      BY <2>1, ListingsStep, EnquiriesStep
  <2>3. DealTypes' /\ DealsHold'
      BY DealsStep
  <2>4. MarketTypeOK'
      BY <2>2, <2>3 DEF DealTypes, MarketTypeOK
  <2>5. QED
      BY <2>3, <2>4 DEF DealsHold, MarketInv
<1>2. QED
    BY <1>1, MarketStarts, PTL DEF MarketSpec

\* Listings, enquiries, offers, calls and checkouts keep their types, however many there are.
THEOREM MarketTypeCorrect == MarketSpec => []MarketTypeOK
<1>1. MarketInv => MarketTypeOK
    BY DEF MarketInv
<1>2. QED
    BY <1>1, MarketInvariant, PTL

\* No two offers on a listing can be paid or are accepted together, and none can be
\* paid in both ways, for any number of offers and any edits, retries and closings.
THEOREM OneDeal == MarketSpec => []OneDealPerItem
<1>1. MarketInv => OneDealPerItem
  <2> SUFFICES ASSUME MarketInv PROVE OneDealPerItem
      OBVIOUS
  <2>1. \A o \in Offers : Payable(o) => offers[o].status = "accepted"
      BY DEF Payable, MarketInv, ReservedHold, CheckoutsHold
  <2>2. OneBuyer
      BY <2>1 DEF OneBuyer, MarketInv, AcceptedOnce
  <2>3. QED
      BY <2>2 DEF OneDealPerItem, MarketInv
<1>2. QED
    BY <1>1, MarketInvariant, PTL

\* A checkout that is open or was paid keeps its accepted offer and its reservation.
THEOREM PaidOffersKept == MarketSpec => []PaidOffersStand
<1>1. MarketInv => PaidOffersStand
    BY DEF PaidOffersStand, MarketInv, ReservedHold, CheckoutsHold
<1>2. QED
    BY <1>1, MarketInvariant, PTL

\* No step of anybody brings a removed listing back.
THEOREM RemovedForGood == MarketSpec => HiddenStaysHidden
<1> DEFINE Hidden == \A l \in Listings : listings[l].status = "removed" => listings'[l].status = "removed"
<1>1. MarketInv /\ [MarketNext]_marketVars => [Hidden]_marketVars
  <2> SUFFICES ASSUME MarketInv, [MarketNext]_marketVars, NEW l \in Listings, listings[l].status = "removed"
               PROVE  listings'[l].status = "removed"
      OBVIOUS
  <2>1. listings \in [Listings -> [status : ListingStatuses, revision : Nat]]
      BY DEF MarketInv, MarketTypeOK
  <2>2. ListingsChange
      BY ListingsStep DEF MarketInv
  <2>3. QED
      BY <2>1, <2>2 DEF ListingsChange
<1>2. QED
    BY <1>1, MarketInvariant, PTL DEF MarketSpec, HiddenStaysHidden

-----------------------------------------------------------------------------
(* The market keeps the sales of ItemSales: what becomes of the one deal of *)
(* a listing, and of no other, in each step.                               *)

Accepted(o) == offers[o].status = "accepted"

\* The deal of a listing is its accepted offer.
DealsAre ==
    \A l \in Listings :
        /\ \A o \in Offers : Accepted(o) /\ Listing(o) = l => Deals[l] = {Deal(o)}
        /\ (\A o \in Offers : ~ (Accepted(o) /\ Listing(o) = l)) => Deals[l] = {}

LEMMA DealIs == MarketInv => DealsAre
<1> SUFFICES ASSUME MarketInv, NEW l \in Listings
             PROVE  /\ \A o \in Offers : Accepted(o) /\ Listing(o) = l => Deals[l] = {Deal(o)}
                    /\ (\A o \in Offers : ~ (Accepted(o) /\ Listing(o) = l)) => Deals[l] = {}
    BY DEF DealsAre
<1>1. DealsOn(l) = {o \in Offers : Accepted(o) /\ Listing(o) = l}
    BY DEF DealsOn, OffersOn, Exists, Accepted, Payable, MarketInv, ReservedHold, CheckoutsHold
<1>2. \A o, p \in Offers : Accepted(o) /\ Accepted(p) /\ Listing(o) = Listing(p) => o = p
    BY DEF MarketInv, AcceptedOnce, Accepted
<1>3. Deals[l] = {Deal(o) : o \in DealsOn(l)}
    BY DEF Deals
<1>4. QED
    BY <1>1, <1>2, <1>3

LEMMA DealsThen == MarketInv' => DealsAre'
BY DealIs, PTL

\* What a step must leave of an offer for the deals to be as they were.
Alike(o) ==
    /\ Accepted(o)' = Accepted(o)
    /\ Accepted(o) => Listing(o)' = Listing(o) /\ Deal(o)' = Deal(o)

LEMMA DealsKept ==
    ASSUME MarketInv, MarketInv', \A o \in Offers : Alike(o)
    PROVE  Deals' = Deals
<1>1. ASSUME NEW l \in Listings PROVE Deals'[l] = Deals[l]
    BY DealIs, DealsThen DEF DealsAre, Alike
<1>2. QED
    BY <1>1 DEF Deals

\* The deal of one listing changes, or begins, or ends.
LEMMA DealMoves ==
    ASSUME MarketInv, MarketInv', NEW o \in Offers, Listing(o) \in Listings,
           Accepted(o) \/ Accepted(o)', Listing(o)' = Listing(o),
           \A p \in Offers : p # o => Alike(p)
    PROVE  Deals' = [Deals EXCEPT ![Listing(o)] = IF Accepted(o)' THEN {Deal(o)'} ELSE {}]
<1>1. ASSUME NEW l \in Listings, l # Listing(o) PROVE Deals'[l] = Deals[l]
    BY <1>1, DealIs, DealsThen DEF DealsAre, Alike
<1>2. Accepted(o)' => Deals'[Listing(o)] = {Deal(o)'}
    BY DealsThen DEF DealsAre
<1>3. ASSUME ~ Accepted(o)' PROVE Deals'[Listing(o)] = {}
  <2>1. \A p \in Offers : ~ (Accepted(p)' /\ Listing(p)' = Listing(o))
      BY <1>3 DEF Alike, MarketInv, AcceptedOnce, Accepted
  <2>2. QED
      BY <2>1, DealsThen DEF DealsAre
<1>4. QED
    BY <1>1, <1>2, <1>3 DEF Deals

\* The listing of an accepted offer is one of the market's.
LEMMA AcceptedListing ==
    ASSUME MarketInv, NEW o \in Offers, Exists(o)
    PROVE  Listing(o) \in Listings
BY DEF MarketInv, MarketTypeOK, Threads, Listing

-----------------------------------------------------------------------------
(* Step by step. *)

\* An edit shows its listing in another way, or as it was.
LEMMA ShownMoves ==
    ASSUME MarketTypeOK, NEW l \in Listings, NEW status \in {"active", "sold", "removed"},
           listings' = [listings EXCEPT ![l] = [status |-> status, revision |-> @.revision + 1]],
           listings[l].status # "removed" \/ status = "removed",
           Deals' = Deals, GivenUp' = GivenUp
    PROVE  [Sales!Next]_(Sales!vars)
<1>1. Shown' = [Shown EXCEPT ![l] = status]
    BY DEF Shown, MarketTypeOK
<1>2. Shown[l] = listings[l].status
    BY DEF Shown
<1>3. CASE listings[l].status = "removed"
  <2>1. Shown' = Shown
      BY <1>1, <1>2, <1>3 DEF Shown
  <2>2. QED
      BY <2>1 DEF Sales!vars
<1>4. CASE listings[l].status # "removed"
    BY <1>1, <1>2, <1>4 DEF Sales!Next, Sales!Show
<1>5. QED
    BY <1>3, <1>4

LEMMA ListingSale ==
    ASSUME MarketInv, MarketInv', NEW l \in Listings, ListingStep(l)
    PROVE  [Sales!Next]_(Sales!vars)
<1>1. CASE UNCHANGED <<offers, reservation, agreements>>
  <2>1. Deals' = Deals /\ GivenUp' = GivenUp
      BY <1>1, DealsKept DEF Alike, Accepted, Listing, Deal, GivenUp
  <2>2. ASSUME NEW status \in {"active", "sold", "removed"}, Save(l, status)
        PROVE  [Sales!Next]_(Sales!vars)
      BY <2>1, <2>2, ShownMoves DEF Save, MarketInv
  <2>3. CASE Publish(l) \/ MarkSold(l) \/ Remove(l)
      BY <2>2, <2>3 DEF Publish, MarkSold, Remove
  <2>4. CASE UNCHANGED listings
      BY <2>1, <2>4 DEF Sales!vars, Shown
  <2>5. CASE Moderate(l)
      BY <2>1, <2>4, <2>5, ShownMoves DEF Moderate, MarketInv
  <2>6. QED
      BY <2>3, <2>4, <2>5 DEF ListingStep, Report, Start, Propose
<1>2. ASSUME NEW b \in Buyers, NEW o \in Offers, Propose(l, b, o)
      PROVE  [Sales!Next]_(Sales!vars)
  <2>1. /\ UNCHANGED <<listings, reservation, agreements>>
        /\ offers[o].status = "none"
        /\ offers' = [p \in Offers |->
              IF p = o THEN [thread |-> <<l, b>>, status |-> "proposed",
                             revision |-> listings[l].revision, late |-> FALSE]
              ELSE IF offers[p].thread = <<l, b>> /\ offers[p].status = "proposed"
                   THEN [offers[p] EXCEPT !.status = "withdrawn"] ELSE offers[p]]
      BY <1>2 DEF Propose, Exists
  <2>2. offers \in [Offers -> Rows]
      BY DEF MarketInv, MarketTypeOK, Rows
  <2>3. ASSUME NEW p \in Offers
        PROVE  /\ offers[p].status \in {"accepted", "cancelled"} => offers'[p] = offers[p]
               /\ offers'[p].status \in {"accepted", "cancelled"} => offers'[p] = offers[p]
    <3>1. CASE p = o
        BY <2>1, <3>1
    <3>2. CASE p # o /\ offers[p].thread = <<l, b>> /\ offers[p].status = "proposed"
      <4>1. offers'[p] = [offers[p] EXCEPT !.status = "withdrawn"]
          BY <2>1, <3>2
      <4>2. offers[p] \in Rows
          BY <2>2
      <4>3. offers'[p].status = "withdrawn"
          BY <4>1, <4>2 DEF Rows
      <4>4. QED
          BY <3>2, <4>3
    <3>3. CASE p # o /\ ~ (offers[p].thread = <<l, b>> /\ offers[p].status = "proposed")
        BY <2>1, <3>3
    <3>4. QED
        BY <3>1, <3>2, <3>3
  <2>4. \A p \in Offers : Alike(p)
      BY <2>1, <2>3 DEF Alike, Accepted, Listing, Deal
  <2>5. GivenUp' = GivenUp
      BY <2>3 DEF GivenUp
  <2>6. QED
      BY <2>1, <2>4, <2>5, DealsKept DEF Sales!vars, Shown
<1>3. QED
    BY <1>1, <1>2
       DEF ListingStep, Publish, MarkSold, Remove, Save, Report, Moderate, Start

\* An offer is decided: an acceptance is a new deal, a cancellation ends one.
LEMMA OfferSale ==
    ASSUME MarketInv, MarketInv', NEW o \in Offers,
           Expire(o) \/ Accept(o) \/ Decline(o) \/ Withdraw(o) \/ Cancel(o)
    PROVE  [Sales!Next]_(Sales!vars)
<1>1. /\ UNCHANGED <<listings, reservation, agreements>>
      /\ offers[o].status \in {"proposed", "accepted"}
      /\ offers \in [Offers -> Rows]
    BY DEF Expire, Accept, Decline, Withdraw, Cancel, Decide, MarketInv, MarketTypeOK, Rows
<1>2. Listing(o) \in Listings /\ Shown' = Shown
    BY <1>1, AcceptedListing DEF Exists, Shown
<1>3. ASSUME NEW from, NEW to, Decide(o, from, to)
      PROVE  /\ \A p \in Offers : p # o => offers'[p] = offers[p]
             /\ offers'[o].thread = offers[o].thread /\ offers'[o].status = to
             /\ offers[o].status = from
    BY <1>1, <1>3 DEF Decide, Rows
<1>4. ASSUME \A p \in Offers : p # o => offers'[p] = offers[p]
      PROVE  \A p \in Offers : p # o => Alike(p)
    BY <1>1, <1>4 DEF Alike, Accepted, Listing, Deal
<1>5. CASE Expire(o)
  <2>1. /\ offers' = [offers EXCEPT ![o].late = TRUE] /\ offers[o].status = "proposed"
      BY <1>5 DEF Expire
  <2>2. /\ \A p \in Offers : p # o => offers'[p] = offers[p]
        /\ offers'[o].status = "proposed"
      BY <1>1, <2>1 DEF Rows
  <2>3. \A p \in Offers : Alike(p)
      BY <1>4, <2>1, <2>2 DEF Alike, Accepted
  <2>4. GivenUp' = GivenUp
      BY <2>1, <2>2 DEF GivenUp
  <2>5. QED
      BY <1>2, <2>3, <2>4, DealsKept DEF Sales!vars
<1>6. CASE Decline(o) \/ Withdraw(o)
  <2>1. /\ offers[o].status = "proposed" /\ offers'[o].status \in {"declined", "withdrawn"}
        /\ \A p \in Offers : p # o => offers'[p] = offers[p]
      BY <1>3, <1>6 DEF Decline, Withdraw
  <2>2. \A p \in Offers : Alike(p)
      BY <1>4, <2>1 DEF Alike, Accepted
  <2>3. GivenUp' = GivenUp
      BY <2>1 DEF GivenUp
  <2>4. QED
      BY <1>2, <2>2, <2>3, DealsKept DEF Sales!vars
<1>7. CASE Accept(o)
  <2>1. /\ offers[o].status = "proposed" /\ offers'[o].status = "accepted"
        /\ offers'[o].thread = offers[o].thread
        /\ \A p \in Offers : p # o => offers'[p] = offers[p]
      BY <1>3, <1>7 DEF Accept
  <2>2. listings[Listing(o)].status = "active" /\ AcceptedOn(Listing(o)) = {}
      BY <1>2, <1>7 DEF Accept, Unchanged
  <2>3. Deals[Listing(o)] = {}
      BY <1>2, <2>2, DealIs DEF DealsAre, AcceptedOn, OffersOn, Exists, Accepted
  <2>4. Deals' = [Deals EXCEPT ![Listing(o)] = {Deal(o)'}]
      BY <1>2, <1>4, <2>1, DealMoves DEF Accepted, Listing
  <2>5. reservation[o] = "none" /\ agreements[o] = "none"
      BY <2>1 DEF MarketInv, ReservedHold, CheckoutsHold, MarketTypeOK, Reservations
  <2>6. Deal(o)' = Sales!Agreed(o)
      BY <1>1, <2>5 DEF Deal, Sales!Agreed
  <2>7. o \notin GivenUp /\ GivenUp' = GivenUp
      BY <2>1 DEF GivenUp
  <2>8. Sales!Agree(Listing(o), o)
      BY <1>2, <2>2, <2>3, <2>4, <2>6, <2>7 DEF Sales!Agree, Shown
  <2>9. QED
      BY <1>2, <2>8 DEF Sales!Next
<1>8. CASE Cancel(o)
  <2>1. /\ reservation[o] = "none"
        /\ offers[o].status = "accepted" /\ offers'[o].status = "cancelled"
        /\ offers'[o].thread = offers[o].thread
        /\ \A p \in Offers : p # o => offers'[p] = offers[p]
      BY <1>3, <1>8 DEF Cancel
  <2>2. Deals[Listing(o)] = {Deal(o)}
      BY <1>2, <2>1, DealIs DEF DealsAre, Accepted
  <2>3. Deals' = [Deals EXCEPT ![Listing(o)] = {}]
      BY <1>2, <1>4, <2>1, DealMoves DEF Accepted, Listing
  <2>4. Deal(o).way = "none" /\ Deal(o).offer = o
      BY <2>1 DEF Deal
  <2>5. GivenUp' = GivenUp \cup {o}
      BY <2>1 DEF GivenUp
  <2>6. Sales!GiveUp(Listing(o), Deal(o))
      BY <1>2, <2>3, <2>4, <2>5 DEF Sales!GiveUp
  <2>7. QED
      BY <1>2, <2>2, <2>6 DEF Sales!Next
<1>9. QED
    BY <1>5, <1>6, <1>7, <1>8

\* A participant chooses, reserves or asks again: only a reservation changes the deal.
LEMMA ReservationSale ==
    ASSUME MarketInv, MarketInv', NEW o \in Offers,
           \/ ReserveLegacy(o) \/ Reserve(o)
           \/ \E role \in Roles : SelectWallet(o, role) \/ Connect(o, role)
           \/ \E close \in BOOLEAN : Resume(o, close)
    PROVE  [Sales!Next]_(Sales!vars)
<1>1. UNCHANGED <<listings, offers, agreements>>
    BY DEF ReserveLegacy, Reserve, ReserveFor, SelectWallet, Connect, Resume
<1>2. Shown' = Shown /\ GivenUp' = GivenUp
    BY <1>1 DEF Shown, GivenUp
<1>3. CASE UNCHANGED reservation
  <2>1. Deals' = Deals
      BY <1>1, <1>3, DealsKept DEF Alike, Accepted, Listing, Deal
  <2>2. QED
      BY <1>2, <2>1 DEF Sales!vars
<1>4. ASSUME NEW way \in {"hosted", "legacy"}, ReserveFor(o, way) PROVE [Sales!Next]_(Sales!vars)
  <2>1. /\ offers[o].status = "accepted" /\ reservation[o] = "none" /\ Unchanged(o)
        /\ reservation' = [reservation EXCEPT ![o] = way]
      BY <1>4 DEF ReserveFor, MayCheckOut
  <2>2. Listing(o) \in Listings
      BY <2>1, AcceptedListing DEF Exists
  <2>3. /\ reservation'[o] = way
        /\ \A p \in Offers : p # o => reservation'[p] = reservation[p]
      BY <2>1 DEF MarketInv, MarketTypeOK
  <2>4. \A p \in Offers : p # o => Alike(p)
      BY <1>1, <2>3 DEF Alike, Accepted, Listing, Deal
  <2>5. Deals' = [Deals EXCEPT ![Listing(o)] = {Deal(o)'}]
      BY <1>1, <2>1, <2>2, <2>4, DealMoves DEF Accepted, Listing
  <2>6. Deal(o)' = [Deal(o) EXCEPT !.way = way] /\ Deal(o).way = "none"
      BY <1>1, <2>1, <2>3 DEF Deal
  <2>7. Shown[Listing(o)] = "active"
      BY <2>1, <2>2 DEF Unchanged, Shown
  <2>8. Sales!Reserve(Listing(o), Deal(o))
      BY <1>2, <2>5, <2>6, <2>7 DEF Sales!Reserve
  <2>9. Deal(o) \in Deals[Listing(o)]
      BY <2>1, <2>2, DealIs DEF DealsAre, Accepted
  <2>10. QED
      BY <2>2, <2>8, <2>9 DEF Sales!Next
<1>5. QED
    BY <1>3, <1>4 DEF ReserveLegacy, Reserve, SelectWallet, Connect, Resume

\* The checkout of a hosted deal moves on: it is created, paid, lapses, or ends.
LEMMA CheckoutMoves ==
    ASSUME MarketInv, MarketInv', NEW o \in Offers, NEW to,
           <<agreements[o], to>> \in Sales!Progress,
           agreements[o] = "none" => reservation[o] \in {"hosted", "retired"},
           agreements' = [agreements EXCEPT ![o] = to],
           UNCHANGED <<listings, offers, reservation>>
    PROVE  [Sales!Next]_(Sales!vars)
<1>1. agreements[o] # "lapsed"
    BY DEF Sales!Progress
<1>2. reservation[o] = "hosted" /\ offers[o].status = "accepted"
    BY <1>1 DEF MarketInv, CheckoutsHold, ReservedHold
<1>3. Listing(o) \in Listings
    BY <1>2, AcceptedListing DEF Exists
<1>4. /\ agreements'[o] = to
      /\ \A p \in Offers : p # o => agreements'[p] = agreements[p]
    BY DEF MarketInv, MarketTypeOK
<1>5. \A p \in Offers : p # o => Alike(p)
    BY <1>4 DEF Alike, Accepted, Listing, Deal
<1>6. Deals' = [Deals EXCEPT ![Listing(o)] = {Deal(o)'}]
    BY <1>2, <1>3, <1>5, DealMoves DEF Accepted, Listing
<1>7. /\ Deal(o)' = [Deal(o) EXCEPT !.checkout = to]
      /\ Deal(o).way = "hosted" /\ Deal(o).checkout = agreements[o]
    BY <1>2, <1>4 DEF Deal
<1>8. Shown' = Shown /\ GivenUp' = GivenUp
    BY DEF Shown, GivenUp
<1>9. Sales!Advance(Listing(o), Deal(o))
  <2> DEFINE step == <<agreements[o], to>>
  <2>1. step \in Sales!Progress /\ step[1] = Deal(o).checkout
        /\ Deals' = [Deals EXCEPT ![Listing(o)] = {[Deal(o) EXCEPT !.checkout = step[2]]}]
      BY <1>6, <1>7
  <2>2. QED
      BY <1>7, <1>8, <2>1 DEF Sales!Advance
<1>10. Deal(o) \in Deals[Listing(o)]
    BY <1>2, <1>3, DealIs DEF DealsAre, Accepted
<1>11. QED
    BY <1>3, <1>9, <1>10 DEF Sales!Next

LEMMA SettleSale ==
    ASSUME MarketInv, MarketInv', NEW o \in Offers, Pay(o) \/ Lapse(o) \/ Release(o) \/ Refund(o)
    PROVE  [Sales!Next]_(Sales!vars)
<1>1. PICK to \in AgreementStates :
          <<agreements[o], to>> \in Sales!Progress /\ Settle(o, agreements[o], to)
    BY DEF Pay, Lapse, Release, Refund, Settle, Sales!Progress, AgreementStates
<1>2. agreements[o] # "none"
    BY DEF Pay, Lapse, Release, Refund, Settle
<1>3. QED
    BY <1>1, <1>2, CheckoutMoves DEF Settle

\* A call creates the checkout, records a sale, or closes a checkout that lapsed.
LEMMA CallSale ==
    ASSUME MarketInv, MarketInv', NEW c \in calls, CallStep(c)
    PROVE  [Sales!Next]_(Sales!vars)
<1>1. c \in Calls /\ c.offer \in Offers /\ reservation[c.offer] \in {"hosted", "retired"}
    BY DEF MarketInv, MarketTypeOK, Calls, CallsHold
<1>2. CASE UNCHANGED <<listings, offers, reservation, agreements>>
  <2>1. Deals' = Deals /\ Shown' = Shown /\ GivenUp' = GivenUp
      BY <1>2, DealsKept DEF Alike, Accepted, Listing, Deal, Shown, GivenUp
  <2>2. QED
      BY <2>1 DEF Sales!vars
<1>3. CASE Ask(c)
  <2>1. CASE agreements[c.offer] = "none"
    <3>1. /\ agreements' = [agreements EXCEPT ![c.offer] = "open"]
          /\ UNCHANGED <<listings, offers, reservation>>
        BY <1>3, <2>1 DEF Ask
    <3>2. <<agreements[c.offer], "open">> \in Sales!Progress
        BY <2>1 DEF Sales!Progress
    <3>3. QED
        BY <1>1, <3>1, <3>2, CheckoutMoves
  <2>2. CASE agreements[c.offer] # "none"
      BY <1>2, <1>3, <2>2 DEF Ask
  <2>3. QED
      BY <2>1, <2>2
<1>4. CASE RecordRelease(c)
  <2> DEFINE l == Listing(c.offer)
  <2>1. /\ reservation[c.offer] = "hosted" /\ listings[l].status = "active"
        /\ listings' = [listings EXCEPT ![l] = [status |-> "sold", revision |-> @.revision + 1]]
        /\ UNCHANGED <<offers, reservation, agreements>>
      BY <1>4 DEF RecordRelease
  <2>2. offers[c.offer].status = "accepted"
      BY <1>1, <2>1 DEF MarketInv, ReservedHold
  <2>3. l \in Listings
      BY <1>1, <2>2, AcceptedListing DEF Exists
  <2>4. Deals' = Deals /\ GivenUp' = GivenUp
      BY <2>1, DealsKept DEF Alike, Accepted, Listing, Deal, GivenUp
  <2>5. QED
      BY <2>1, <2>3, <2>4, ShownMoves DEF MarketInv
<1>5. CASE CloseExpired(c)
  <2> DEFINE o == c.offer
  <2>1. /\ offers[o].status = "accepted" /\ reservation[o] = "hosted" /\ agreements[o] = "lapsed"
        /\ listings[Listing(o)].status # "sold"
        /\ reservation' = [reservation EXCEPT ![o] = "retired"]
        /\ offers' = [offers EXCEPT ![o].status = "cancelled"]
        /\ UNCHANGED <<listings, agreements>>
      BY <1>5 DEF CloseExpired, ProvesExpiry, MarketInv, CallsHold
  <2>2. offers \in [Offers -> Rows]
      BY DEF MarketInv, MarketTypeOK, Rows
  <2>3. /\ offers'[o].status = "cancelled" /\ offers'[o].thread = offers[o].thread
        /\ \A p \in Offers : p # o => offers'[p] = offers[p]
      BY <1>1, <2>1, <2>2 DEF Rows
  <2>4. \A p \in Offers : p # o => reservation'[p] = reservation[p]
      BY <1>1, <2>1 DEF MarketInv, MarketTypeOK
  <2>5. Listing(o) \in Listings
      BY <1>1, <2>1, AcceptedListing DEF Exists
  <2>6. \A p \in Offers : p # o => Alike(p)
      BY <2>1, <2>3, <2>4 DEF Alike, Accepted, Listing, Deal
  <2>7. Deals' = [Deals EXCEPT ![Listing(o)] = {}]
      BY <1>1, <2>1, <2>3, <2>5, <2>6, DealMoves DEF Accepted, Listing
  <2>8. GivenUp' = GivenUp \cup {o}
      BY <1>1, <2>3 DEF GivenUp
  <2>9. Shown' = Shown /\ Shown[Listing(o)] # "sold"
      BY <2>1, <2>5 DEF Shown
  <2>10. Deal(o).checkout = "lapsed" /\ Deal(o).offer = o
      BY <2>1 DEF Deal
  <2>11. Sales!GiveUp(Listing(o), Deal(o))
      BY <2>7, <2>8, <2>9, <2>10 DEF Sales!GiveUp
  <2>12. Deal(o) \in Deals[Listing(o)]
      BY <1>1, <2>1, <2>5, DealIs DEF DealsAre, Accepted
  <2>13. QED
      BY <2>5, <2>11, <2>12 DEF Sales!Next
<1>6. QED
    BY <1>2, <1>3, <1>4, <1>5 DEF CallStep, End

LEMMA SalesStart == MarketInit => Sales!Init
<1> SUFFICES ASSUME MarketInit PROVE Sales!Init
    OBVIOUS
<1>1. \A o \in Offers : offers[o].status = "none"
    BY DEF MarketInit
<1>2. Deals = [l \in Listings |-> {}]
    BY <1>1 DEF Deals, DealsOn, OffersOn, Exists
<1>3. Shown = [l \in Listings |-> "none"] /\ GivenUp = {}
    BY <1>1 DEF MarketInit, Shown, GivenUp
<1>4. QED
    BY <1>2, <1>3 DEF Sales!Init

LEMMA SalesStep == MarketInv /\ MarketInv' /\ [MarketNext]_marketVars => [Sales!Next]_(Sales!vars)
<1> SUFFICES ASSUME MarketInv, MarketInv', [MarketNext]_marketVars PROVE [Sales!Next]_(Sales!vars)
    OBVIOUS
<1>1. CASE UNCHANGED <<listings, offers, reservation, agreements>>
  <2>1. Deals' = Deals /\ Shown' = Shown /\ GivenUp' = GivenUp
      BY <1>1, DealsKept DEF Alike, Accepted, Listing, Deal, Shown, GivenUp
  <2>2. QED
      BY <2>1 DEF Sales!vars
<1>2. ASSUME NEW o \in Offers, OfferStep(o) PROVE [Sales!Next]_(Sales!vars)
    BY <1>2, OfferSale, ReservationSale, SettleSale DEF OfferStep
<1>3. CASE \E b \in Buyers : SetBlock(b)
    BY <1>1, <1>3 DEF SetBlock
<1>4. QED
    BY <1>1, <1>2, <1>3, ListingSale, CallSale DEF MarketNext, marketVars

\* The market implements the sale of each item: whatever edits, retries, late answers,
\* lapses and closings there are, a deal goes forward or ends unpaid.
THEOREM MarketKeepsSales == MarketSpec => KeepsSales
<1> QED
    BY SalesStart, SalesStep, MarketInvariant, PTL
       DEF MarketSpec, KeepsSales, Sales!Spec
=============================================================================
