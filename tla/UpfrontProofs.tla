---------------------------- MODULE UpfrontProofs ----------------------------
(***************************************************************************)
(* Early pay across the two chains, for any offers, agreements, amounts,   *)
(* fees and deadlines: the money of both contracts is there, an agreement  *)
(* backs one advance, and what is repaid is what was agreed.               *)
(*                                                                         *)
(* The inductive invariant adds to the types what a signature stands for:  *)
(* an attestation, its request and a split name an agreement of their      *)
(* offer's terms (ProofsInv, SplitsInv), and so does a released position   *)
(* (ReleasedInv).                                                          *)
(*                                                                         *)
(* Then the record an offer comes from (Assessments), for any number of    *)
(* requests, reviewers and failures: one assessment at a time, and an      *)
(* assignment that stays.                                                  *)
(*                                                                         *)
(* Last the worker that has an advance repaid (UpfrontSettlement), for any *)
(* processes, pages and failures: its search never begins behind the       *)
(* settlement, and its evidence is of the chain, whatever is reorganised   *)
(* within the overlap and the confirmations.  A checkpoint or a found      *)
(* block, wherever it is carried to, is measured against the highest block *)
(* there ever was (Ahead, Stands).                                         *)
(***************************************************************************)
EXTENDS UpfrontAdvance, Assessments, UpfrontSettlement, LedgerSumTheorems, SequenceTheorems

\* What no step but its own changes: every step either leaves a variable alone or is
\* one of the actions that write it.
LEMMA PositionWriters ==
    ASSUME [Next]_vars
    PROVE  \/ UNCHANGED escrowVars
           \/ \E t \in terms : fundAdvance(t)
           \/ \E p \in proofs : releaseAdvance(p)
           \/ \E o \in Offers : refundAdvance(o)
BY DEF Next, vars, OwnerStep, Tick, signFundingTerms, AgreementRead, DropRequest, signProtectionAttestation,
       signSplitSettlement, settleRepayment, AgreementCompleted, AgreementReturned

LEMMA ProofWriters ==
    ASSUME [Next]_vars
    PROVE  \/ proofs' \subseteq proofs /\ asked' \subseteq asked /\ UNCHANGED <<agreement, lapsedAt, now>>
           \/ \E o \in Offers, a \in Agreements : AgreementRead(o, a)
           \/ \E r \in asked : signProtectionAttestation(r)
           \/ \E a \in Agreements : AgreementCompleted(a) \/ AgreementReturned(a)
           \/ Tick
BY DEF Next, vars, OwnerStep, signFundingTerms, DropRequest, signSplitSettlement, settleRepayment, fundAdvance,
       releaseAdvance, refundAdvance, arcVars, signedVars

LEMMA SplitWriters ==
    ASSUME [Next]_vars
    PROVE  splits' \subseteq splits \/ \E o \in Offers, a \in Agreements : signSplitSettlement(o, a)
BY DEF Next, vars, OwnerStep, Tick, signFundingTerms, AgreementRead, DropRequest, signProtectionAttestation,
       settleRepayment, AgreementCompleted, AgreementReturned, fundAdvance, releaseAdvance, refundAdvance,
       signedVars

LEMMA RouterWriters ==
    ASSUME [Next]_vars
    PROVE  \/ UNCHANGED <<agreement, router, payout>>
           \/ \E s \in splits : settleRepayment(s)
           \/ \E a \in Agreements : AgreementCompleted(a) \/ AgreementReturned(a)
BY DEF Next, vars, OwnerStep, Tick, signFundingTerms, AgreementRead, DropRequest, signProtectionAttestation,
       signSplitSettlement, fundAdvance, releaseAdvance, refundAdvance, arcVars

LEMMA TermsWriters ==
    ASSUME [Next]_vars
    PROVE  \/ terms' \subseteq terms
           \/ \E o \in Offers, f \in Funders, advance \in AdvanceAmounts : signFundingTerms(o, f, advance)
BY DEF Next, vars, OwnerStep, Tick, AgreementRead, DropRequest, signProtectionAttestation, signSplitSettlement,
       settleRepayment, AgreementCompleted, AgreementReturned, fundAdvance, releaseAdvance, refundAdvance,
       signedVars

LEMMA OwnerWriters ==
    ASSUME [Next]_vars
    PROVE  (UNCHANGED ownerVars /\ now' \in {now, now + 1}) \/ OwnerStep
BY DEF Next, vars, Tick, signFundingTerms, AgreementRead, DropRequest, signProtectionAttestation,
       signSplitSettlement, settleRepayment, AgreementCompleted, AgreementReturned, fundAdvance, releaseAdvance,
       refundAdvance

-----------------------------------------------------------------------------
(* Types, one group of variables at a time. *)

OwnerType ==
    /\ now \in Nat /\ paused \in BOOLEAN /\ allowed \subseteq Funders
    /\ underwritingSigner \in Keys /\ protectionSigner \in Keys
    /\ routerPaused \in BOOLEAN /\ creditSigner \in Keys
EscrowType ==
    /\ position \in [Offers -> PositionType] /\ usdc \in Nat
    /\ \A o \in Offers : Released(o) <=> position[o].agreement # NoAgreement
SignedType ==
    /\ terms \subseteq TermsType /\ asked \subseteq RequestType
    /\ proofs \subseteq ProofType /\ splits \subseteq SplitType
ArcType ==
    /\ agreement \in [Agreements -> {"active", "completed", "returned"}]
    /\ lapsedAt \in [Agreements -> Nat]
    /\ router \in Nat /\ payout \in [Agreements -> PayoutType]

LEMMA TypeParts == TypeOK <=> OwnerType /\ EscrowType /\ SignedType /\ ArcType
BY DEF TypeOK, OwnerType, EscrowType, SignedType, ArcType

LEMMA InitType == Init => TypeOK
BY UpfrontAssumption, NamesAssumption
   DEF Init, TypeOK, PositionType, PayoutType, NoPosition, NoSplit, Released

LEMMA OwnerTypeStep == OwnerType /\ [Next]_vars => OwnerType'
<1> SUFFICES ASSUME OwnerType, [Next]_vars PROVE OwnerType'
  OBVIOUS
<1>1. CASE UNCHANGED ownerVars /\ now' \in {now, now + 1}
  BY <1>1 DEF OwnerType, ownerVars
<1>2. CASE OwnerStep
  BY <1>2 DEF OwnerStep, OwnerType, setPaused, setRouterPaused, setFunderAllowed, authorizeFunderAndActivate,
       setUnderwritingSigner, setProtectionSigner, setCreditSigner
<1> QED
  BY <1>1, <1>2, OwnerWriters

\* A position that is written gets an offer of its own and a record of the right type.
LEMMA FundingWrites ==
    ASSUME TypeOK, NEW t \in terms, fundAdvance(t)
    PROVE  /\ t.offer \in Offers /\ t.advance \in Nat /\ t.funder \in Funders
           /\ position[t.offer].status = "None"
           /\ \E q \in PositionType :
                 /\ q.status = "Funded" /\ q.advance = t.advance /\ q.agreement = NoAgreement
                 /\ position' = [position EXCEPT ![t.offer] = q]
           /\ usdc' = usdc + t.advance
<1> DEFINE q == [status |-> "Funded", funder |-> t.funder, advance |-> t.advance, repayment |-> t.repayment,
                 fee |-> t.fee, signer |-> protectionSigner, agreement |-> NoAgreement]
<1>1. t \in TermsType /\ protectionSigner \in Keys
  BY DEF TypeOK
<1>2. q \in PositionType
  BY <1>1 DEF PositionType, TermsType
<1>3. position' = [position EXCEPT ![t.offer] = q] /\ usdc' = usdc + t.advance /\ position[t.offer].status = "None"
  BY DEF fundAdvance, OfferUnused
<1> QED
  BY <1>1, <1>2, <1>3 DEF TermsType

LEMMA ReleaseWrites ==
    ASSUME TypeOK, NEW p \in proofs, releaseAdvance(p)
    PROVE  /\ p.offer \in Offers /\ p.agreement \in Agreements
           /\ Funded(p.offer) /\ AgreementUnused(p.agreement)
           /\ position' = [position EXCEPT ![p.offer] =
                [position[p.offer] EXCEPT !.status = "Released", !.agreement = p.agreement]]
           /\ usdc >= position[p.offer].advance /\ usdc' = usdc - position[p.offer].advance
<1>1. p \in ProofType
  BY DEF TypeOK
<1> QED
  BY <1>1 DEF ProofType, releaseAdvance

LEMMA RefundWrites ==
    ASSUME TypeOK, NEW o \in Offers, refundAdvance(o)
    PROVE  /\ Funded(o)
           /\ position' = [position EXCEPT ![o] = [position[o] EXCEPT !.status = "Refunded"]]
           /\ usdc >= position[o].advance /\ usdc' = usdc - position[o].advance
BY DEF refundAdvance, RefundDue

LEMMA EscrowTypeStep == TypeOK /\ [Next]_vars => EscrowType'
<1> SUFFICES ASSUME TypeOK, [Next]_vars PROVE EscrowType'
  OBVIOUS
<1>0. EscrowType
  BY TypeParts
<1>1. CASE UNCHANGED escrowVars
  BY <1>0, <1>1 DEF EscrowType, escrowVars, Released
<1>2. ASSUME NEW t \in terms, fundAdvance(t) PROVE EscrowType'
  <2>1. PICK q \in PositionType : /\ q.status = "Funded" /\ q.agreement = NoAgreement
                                  /\ position' = [position EXCEPT ![t.offer] = q]
    BY <1>2, FundingWrites
  <2>2. t.offer \in Offers /\ t.advance \in Nat /\ usdc' = usdc + t.advance
    BY <1>2, FundingWrites
  <2>3. position' \in [Offers -> PositionType] /\ usdc' \in Nat
    BY <1>0, <2>1, <2>2 DEF EscrowType
  <2>4. ASSUME NEW o \in Offers PROVE (Released(o) <=> position[o].agreement # NoAgreement)'
    <3>1. CASE o = t.offer
      BY <1>0, <2>1, <3>1 DEF EscrowType, Released
    <3>2. CASE o # t.offer
      BY <1>0, <2>1, <3>2 DEF EscrowType, Released
    <3> QED
      BY <3>1, <3>2
  <2> QED
    BY <2>3, <2>4 DEF EscrowType
<1>3. ASSUME NEW p \in proofs, releaseAdvance(p) PROVE EscrowType'
  <2> DEFINE q == [position[p.offer] EXCEPT !.status = "Released", !.agreement = p.agreement]
  <2>1. /\ p.offer \in Offers /\ p.agreement \in Agreements /\ usdc >= position[p.offer].advance
        /\ position' = [position EXCEPT ![p.offer] = q] /\ usdc' = usdc - position[p.offer].advance
    BY <1>3, ReleaseWrites
  <2>2. position[p.offer] \in PositionType
    BY <1>0, <2>1 DEF EscrowType
  <2>3. q \in PositionType /\ q.status = "Released" /\ q.agreement = p.agreement /\ position[p.offer].advance \in Nat
    BY <2>1, <2>2 DEF PositionType
  <2>4. position' \in [Offers -> PositionType] /\ usdc' \in Nat
    BY <1>0, <2>1, <2>3 DEF EscrowType
  <2>5. ASSUME NEW o \in Offers PROVE (Released(o) <=> position[o].agreement # NoAgreement)'
    <3>1. CASE o = p.offer
      BY <1>0, <2>1, <2>3, <3>1, NamesAssumption DEF EscrowType, Released
    <3>2. CASE o # p.offer
      BY <1>0, <2>1, <3>2 DEF EscrowType, Released
    <3> QED
      BY <3>1, <3>2
  <2> QED
    BY <2>4, <2>5 DEF EscrowType
<1>4. ASSUME NEW x \in Offers, refundAdvance(x) PROVE EscrowType'
  <2> DEFINE q == [position[x] EXCEPT !.status = "Refunded"]
  <2>1. /\ Funded(x) /\ position' = [position EXCEPT ![x] = q]
        /\ usdc >= position[x].advance /\ usdc' = usdc - position[x].advance
    BY <1>4, RefundWrites
  <2>2. position[x] \in PositionType /\ position[x].agreement = NoAgreement
    BY <1>0, <2>1 DEF EscrowType, Released, Funded
  <2>3. q \in PositionType /\ q.status = "Refunded" /\ q.agreement = NoAgreement /\ position[x].advance \in Nat
    BY <2>2 DEF PositionType
  <2>4. position' \in [Offers -> PositionType] /\ usdc' \in Nat
    BY <1>0, <2>1, <2>3 DEF EscrowType
  <2>5. ASSUME NEW o \in Offers PROVE (Released(o) <=> position[o].agreement # NoAgreement)'
    <3>1. CASE o = x
      BY <1>0, <2>1, <2>3, <3>1 DEF EscrowType, Released
    <3>2. CASE o # x
      BY <1>0, <2>1, <3>2 DEF EscrowType, Released
    <3> QED
      BY <3>1, <3>2
  <2> QED
    BY <2>4, <2>5 DEF EscrowType
<1> QED
  BY <1>1, <1>2, <1>3, <1>4, PositionWriters

-----------------------------------------------------------------------------
(* What the server signs. *)

\* The prices are whole numbers of units.
LEMMA PricesWhole ==
    ASSUME NEW o \in Offers, NEW advance \in Nat
    PROVE  FunderRepayment(advance) \in Int /\ PlatformFee(o, advance) \in Int /\ Protected(o) \in Nat
<1>1. BPS \in Nat \ {0} /\ FeeBps \in Nat /\ StandardFeeBps \in Nat /\ PlatformShareBps \in Nat
  BY UpfrontAssumption
<1>2. Protected(o) \in Nat
  BY UpfrontAssumption DEF Protected
<1>3. ASSUME NEW x \in Int, NEW y \in Int PROVE (x * y) \div BPS \in Int
  <2>1. x * y \in Int
    OBVIOUS
  <2> QED
    BY <1>1, <2>1
<1>4. ASSUME NEW x \in Int, NEW y \in Int PROVE CeilBps(x, y) \in Int
  <2>1. x * y + BPS - 1 \in Int
    BY <1>1
  <2> QED
    BY <1>1, <2>1 DEF CeilBps
<1>5. FundingFee(advance) \in Int
  BY <1>1, <1>4 DEF FundingFee
<1>6. PlatformFundingFee(advance) \in Int
  BY <1>1, <1>3, <1>5 DEF PlatformFundingFee
<1>7. CeilBps(Protected(o), StandardFeeBps) \in Int
  BY <1>1, <1>2, <1>4
<1> QED
  BY <1>2, <1>5, <1>6, <1>7 DEF FunderRepayment, PlatformFee

\* A quote that passes its checks is one the escrow accepts.
LEMMA QuoteAccepted ==
    ASSUME NEW o \in Offers, NEW f \in Funders, NEW advance \in AdvanceAmounts, signFundingTerms(o, f, advance)
    PROVE  \E t \in TermsType : AmountsAccepted(t) /\ terms' = terms \cup {t}
<1> DEFINE repayment == FunderRepayment(advance)
           fee == PlatformFee(o, advance)
           t == [offer |-> o, funder |-> f, advance |-> advance, repayment |-> repayment, fee |-> fee]
<1>1. advance \in Nat
  BY UpfrontAssumption
<1>2. repayment \in Int /\ fee \in Int /\ Protected(o) \in Nat
  BY <1>1, PricesWhole
<1>3. /\ 0 < advance /\ advance <= MaxAdvance(o) /\ QuoteSafe(o, advance)
      /\ terms' = terms \cup {t}
  BY DEF signFundingTerms
<1>4. repayment > advance /\ fee > 0 /\ Protected(o) - repayment - fee > 0
  BY <1>3 DEF QuoteSafe
<1> HIDE DEF repayment, fee
<1>5. repayment \in Nat /\ fee \in Nat /\ repayment + fee < Protected(o)
  BY <1>1, <1>2, <1>4
<1>6. t \in TermsType
  BY <1>1, <1>5 DEF TermsType
<1>7. AmountsAccepted(t)
  BY <1>1, <1>3, <1>4, <1>5 DEF AmountsAccepted
<1> QED
  BY <1>3, <1>6, <1>7

LEMMA RequestWrites ==
    ASSUME TypeOK, NEW o \in Offers, NEW a \in Agreements, AgreementRead(o, a)
    PROVE  \E r \in RequestType :
              /\ r.offer = o /\ r.agreement = a /\ r.read = now
              /\ agreement[a] = "active" /\ Alike(o, a)
              /\ asked' = asked \cup {r} /\ UNCHANGED <<now, agreement, lapsedAt, proofs>>
<1> DEFINE r == [offer |-> o, agreement |-> a, read |-> now]
<1>1. r \in RequestType
  BY DEF RequestType, TypeOK
<1> QED
  BY <1>1 DEF AgreementRead, arcVars

LEMMA AttestationWrites ==
    ASSUME TypeOK, NEW r \in asked, signProtectionAttestation(r)
    PROVE  \E p \in ProofType :
              /\ p.offer = r.offer /\ p.agreement = r.agreement /\ p.read = r.read
              /\ p.observed = now /\ p.deadline <= now + AttestationLife
              /\ proofs' = proofs \cup {p} /\ asked' \subseteq asked /\ UNCHANGED <<now, agreement, lapsedAt>>
<1> DEFINE deadline == Lesser(Deadline(r.offer), now + AttestationLife)
           p == [offer |-> r.offer, agreement |-> r.agreement, read |-> r.read, observed |-> now,
                 deadline |-> deadline]
<1>1. r \in RequestType
  BY DEF TypeOK
<1>2. r.offer \in Offers /\ r.agreement \in Agreements /\ r.read \in Nat /\ now \in Nat
  BY <1>1 DEF RequestType, TypeOK
<1>3. Deadline(r.offer) \in Nat /\ AttestationLife \in Nat
  BY <1>2, UpfrontAssumption DEF Deadline
<1>4. deadline \in Nat /\ deadline <= now + AttestationLife
  BY <1>2, <1>3 DEF Lesser
<1>5. proofs' = proofs \cup {p} /\ asked' \subseteq asked /\ UNCHANGED <<now, agreement, lapsedAt>>
  BY DEF signProtectionAttestation, arcVars
<1> HIDE DEF deadline
<1>6. p \in ProofType
  BY <1>2, <1>4 DEF ProofType
<1> QED
  BY <1>4, <1>5, <1>6

LEMMA SplitWrites ==
    ASSUME TypeOK, NEW o \in Offers, NEW a \in Agreements, signSplitSettlement(o, a)
    PROVE  \E s \in SplitType :
              /\ splits' = splits \cup {s} /\ s.agreement = a
              /\ Repayable(o, a)
              /\ s.toFunder + s.toProvider + s.toTreasury = Payment(a)
              /\ s.funder = position[o].funder
              /\ s.toFunder = position[o].repayment /\ s.toTreasury = position[o].fee
<1> DEFINE q == position[o]
           s == [agreement |-> a, funder |-> q.funder, observed |-> now,
                 toFunder |-> q.repayment, toTreasury |-> q.fee,
                 toProvider |-> Protected(o) - q.repayment - q.fee]
<1>1. q \in PositionType /\ now \in Nat
  BY DEF TypeOK
<1>2. splits' = splits \cup {s} /\ Repayable(o, a)
  BY DEF signSplitSettlement
<1>3. Protected(o) \in Nat /\ Protected(o) = Payment(a)
  BY <1>2, UpfrontAssumption DEF Protected, Payment, Repayable, Alike
<1>4. q.repayment \in Nat /\ q.fee \in Nat /\ q.funder \in Funders \cup {Nobody}
  BY <1>1 DEF PositionType
<1>5. s \in SplitType
  BY <1>1, <1>3, <1>4 DEF SplitType
<1>6. s.toFunder + s.toProvider + s.toTreasury = Payment(a)
  BY <1>3, <1>4
<1> QED
  BY <1>2, <1>5, <1>6

LEMMA SignedTypeStep == TypeOK /\ [Next]_vars => SignedType'
<1> SUFFICES ASSUME TypeOK, [Next]_vars PROVE SignedType'
  OBVIOUS
<1>0. SignedType
  BY TypeParts
<1>1. terms' \subseteq TermsType
  <2>1. ASSUME NEW o \in Offers, NEW f \in Funders, NEW advance \in AdvanceAmounts, signFundingTerms(o, f, advance)
        PROVE  terms' \subseteq TermsType
    BY <1>0, <2>1, QuoteAccepted DEF SignedType
  <2> QED
    BY <1>0, <2>1, TermsWriters DEF SignedType
<1>2. proofs' \subseteq ProofType /\ asked' \subseteq RequestType
  <2>1. ASSUME NEW r \in asked, signProtectionAttestation(r)
        PROVE  proofs' \subseteq ProofType /\ asked' \subseteq RequestType
    BY <1>0, <2>1, AttestationWrites DEF SignedType
  <2>2. ASSUME NEW a \in Agreements, AgreementCompleted(a) \/ AgreementReturned(a)
        PROVE  proofs' = proofs /\ asked' = asked
    BY <2>2 DEF AgreementCompleted, AgreementReturned, signedVars
  <2>3. CASE Tick
    BY <1>0, <2>3 DEF Tick, SignedType
  <2>4. ASSUME NEW o \in Offers, NEW a \in Agreements, AgreementRead(o, a)
        PROVE  proofs' \subseteq ProofType /\ asked' \subseteq RequestType
    BY <1>0, <2>4, RequestWrites DEF SignedType
  <2> QED
    BY <1>0, <2>1, <2>2, <2>3, <2>4, ProofWriters DEF SignedType
<1>3. splits' \subseteq SplitType
  <2>1. ASSUME NEW o \in Offers, NEW a \in Agreements, signSplitSettlement(o, a) PROVE splits' \subseteq SplitType
    BY <1>0, <2>1, SplitWrites DEF SignedType
  <2> QED
    BY <1>0, <2>1, SplitWriters DEF SignedType
<1> QED
  BY <1>1, <1>2, <1>3 DEF SignedType

LEMMA SettlementWrites ==
    ASSUME TypeOK, NEW s \in splits, settleRepayment(s)
    PROVE  LET total == s.toFunder + s.toProvider + s.toTreasury
               out == [funder |-> s.funder, toFunder |-> s.toFunder,
                       toProvider |-> s.toProvider, toTreasury |-> s.toTreasury]
           IN  /\ s \in SplitType /\ s.agreement \in Agreements /\ total \in Nat
               /\ payout[s.agreement] = NoSplit /\ router >= total /\ router' = router - total
               /\ out \in PayoutType /\ out # NoSplit
               /\ payout' = [payout EXCEPT ![s.agreement] = out]
               /\ UNCHANGED <<agreement, lapsedAt>>
<1> DEFINE total == s.toFunder + s.toProvider + s.toTreasury
           out == [funder |-> s.funder, toFunder |-> s.toFunder,
                   toProvider |-> s.toProvider, toTreasury |-> s.toTreasury]
<1>1. s \in SplitType
  BY DEF TypeOK
<1>2. s.toFunder > 0 /\ s.toProvider > 0 /\ s.toTreasury > 0
  BY DEF settleRepayment
<1>3. s.toFunder \in Nat /\ s.toProvider \in Nat /\ s.toTreasury \in Nat /\ s.agreement \in Agreements
  BY <1>1, <1>2 DEF SplitType
<1>4. out \in PayoutType /\ out # NoSplit
  BY <1>1, <1>2, <1>3 DEF PayoutType, NoSplit, SplitType
<1>5. /\ payout[s.agreement] = NoSplit /\ router >= total /\ router' = router - total
      /\ payout' = [payout EXCEPT ![s.agreement] = out] /\ UNCHANGED <<agreement, lapsedAt>>
  BY DEF settleRepayment, Settleable
<1>6. total \in Nat
  BY <1>3
<1> QED
  BY <1>1, <1>3, <1>4, <1>5, <1>6

LEMMA ArcTypeStep == TypeOK /\ [Next]_vars => ArcType'
<1> SUFFICES ASSUME TypeOK, [Next]_vars PROVE ArcType'
  OBVIOUS
<1>0. ArcType /\ now \in Nat
  BY TypeParts DEF TypeOK
<1>1. lapsedAt' \in [Agreements -> Nat]
  <2>1. ASSUME NEW a \in Agreements, Lapse(a) PROVE lapsedAt' \in [Agreements -> Nat]
    BY <1>0, <2>1 DEF Lapse, ArcType
  <2>2. ASSUME NEW r \in asked, signProtectionAttestation(r) PROVE lapsedAt' = lapsedAt
    BY <2>2 DEF signProtectionAttestation, arcVars
  <2>3. CASE Tick
    BY <1>0, <2>3 DEF Tick, arcVars, ArcType
  <2>4. ASSUME NEW o \in Offers, NEW a \in Agreements, AgreementRead(o, a) PROVE lapsedAt' = lapsedAt
    BY <2>4 DEF AgreementRead, arcVars
  <2> QED
    BY <1>0, <2>1, <2>2, <2>3, <2>4, ProofWriters DEF ArcType, AgreementCompleted, AgreementReturned
<1>2. ASSUME NEW s \in splits, settleRepayment(s)
      PROVE  router' \in Nat /\ payout' \in [Agreements -> PayoutType] /\ agreement' = agreement
  <2> DEFINE total == s.toFunder + s.toProvider + s.toTreasury
             out == [funder |-> s.funder, toFunder |-> s.toFunder,
                     toProvider |-> s.toProvider, toTreasury |-> s.toTreasury]
  <2>1. /\ total \in Nat /\ out \in PayoutType /\ s.agreement \in Agreements
        /\ router >= total /\ router' = router - total
        /\ payout' = [payout EXCEPT ![s.agreement] = out] /\ agreement' = agreement
    BY <1>2, SettlementWrites
  <2> HIDE DEF total, out
  <2>2. router' \in Nat
    BY <1>0, <2>1 DEF ArcType
  <2> QED
    BY <1>0, <2>1, <2>2 DEF ArcType
<1>3. ASSUME NEW a \in Agreements, AgreementCompleted(a)
      PROVE  /\ router' \in Nat /\ payout' = payout
             /\ agreement' \in [Agreements -> {"active", "completed", "returned"}]
  <2>1. Payment(a) \in Nat
    BY UpfrontAssumption DEF Payment
  <2> QED
    BY <1>0, <1>3, <2>1 DEF AgreementCompleted, ArcType
<1>4. ASSUME NEW a \in Agreements, AgreementReturned(a)
      PROVE  /\ router' = router /\ payout' = payout
             /\ agreement' \in [Agreements -> {"active", "completed", "returned"}]
  BY <1>0, <1>4 DEF AgreementReturned, ArcType
<1>5. CASE UNCHANGED <<agreement, router, payout>>
  BY <1>0, <1>1, <1>5 DEF ArcType
<1> QED
  BY <1>0, <1>1, <1>2, <1>3, <1>4, <1>5, RouterWriters DEF ArcType

LEMMA TypeStep == TypeOK /\ [Next]_vars => TypeOK'
<1>1. (TypeOK <=> OwnerType /\ EscrowType /\ SignedType /\ ArcType)'
  BY DEF TypeOK, OwnerType, EscrowType, SignedType, ArcType
<1> QED
  BY <1>1, TypeParts, OwnerTypeStep, EscrowTypeStep, SignedTypeStep, ArcTypeStep

\* The types of the two contracts and of everything signed for them.
THEOREM TypeCorrect == Spec => []TypeOK
<1>1. TypeOK /\ UNCHANGED vars => TypeOK'
  BY TypeStep
<1> QED
  BY InitType, TypeStep, <1>1, PTL DEF Spec

\* Whatever the server prices and signs, UpfrontAdvanceEscrowV2's amount checks accept.
THEOREM QuotesFundable == Spec => []SignedTermsFundable
<1>1. Init => SignedTermsFundable
  BY DEF Init, SignedTermsFundable
<1>2. SignedTermsFundable /\ [Next]_vars => SignedTermsFundable'
  <2> SUFFICES ASSUME SignedTermsFundable, [Next]_vars, NEW t \in terms' PROVE AmountsAccepted(t)
    BY DEF SignedTermsFundable, AmountsAccepted
  <2>1. CASE t \in terms
    BY <2>1 DEF SignedTermsFundable
  <2>2. ASSUME NEW o \in Offers, NEW f \in Funders, NEW advance \in AdvanceAmounts, signFundingTerms(o, f, advance)
        PROVE  AmountsAccepted(t)
    BY <2>2, QuoteAccepted DEF SignedTermsFundable
  <2> QED
    BY <2>1, <2>2, TermsWriters
<1> QED
  BY <1>1, <1>2, PTL DEF Spec

-----------------------------------------------------------------------------
(* What a signature stands for, and what a released position was released for. *)

\* What was read of an agreement for an offer of its terms: it was active then, so that it
\* lapsed no earlier.
ReadActive(r) ==
    /\ Alike(r.offer, r.agreement) /\ r.read <= now
    /\ agreement[r.agreement] = "active" \/ r.read <= lapsedAt[r.agreement]

\* An attestation lives as long as it says from when it was signed, and its agreement was
\* read before.
Sound(p) ==
    /\ ReadActive(p)
    /\ p.read <= p.observed /\ p.observed <= now /\ p.deadline <= p.observed + AttestationLife
ProofsInv == (\A r \in asked : ReadActive(r)) /\ (\A p \in proofs : Sound(p))

\* A position is released against an agreement of its offer's terms, and no two against one.
ReleasedInv ==
    /\ \A o \in Offers : Released(o) => Alike(o, position[o].agreement)
    /\ \A o, q \in Offers : Released(o) /\ Released(q) /\ o # q => position[o].agreement # position[q].agreement

\* The offer a split pays for.
PaysFor(s, o) ==
    /\ Released(o) /\ Alike(o, s.agreement)
    /\ s.funder = position[o].funder
    /\ s.toFunder = position[o].repayment /\ s.toTreasury = position[o].fee
Justified(s) ==
    /\ agreement[s.agreement] = "completed"
    /\ s.toFunder + s.toProvider + s.toTreasury = Payment(s.agreement)
    /\ \E o \in Offers : PaysFor(s, o)
SplitsInv == \A s \in splits : Justified(s)

SignaturesInv == TypeOK /\ ProofsInv /\ ReleasedInv /\ SplitsInv

LEMMA SignaturesInit == Init => SignaturesInv
BY InitType DEF Init, SignaturesInv, ProofsInv, ReleasedInv, SplitsInv, NoPosition, Released

\* A released position stays as it is.
LEMMA ReleasedForGood ==
    ASSUME TypeOK, [Next]_vars, NEW o \in Offers, Released(o)
    PROVE  Released(o)' /\ position'[o] = position[o]
<1>1. CASE UNCHANGED escrowVars
  BY <1>1 DEF escrowVars, Released
<1>2. ASSUME NEW t \in terms, fundAdvance(t) PROVE position'[o] = position[o]
  <2>1. t.offer # o
    BY <1>2, FundingWrites DEF Released
  <2> QED
    BY <1>2, <2>1, FundingWrites DEF TypeOK
<1>3. ASSUME NEW p \in proofs, releaseAdvance(p) PROVE position'[o] = position[o]
  <2>1. p.offer # o
    BY <1>3, ReleaseWrites DEF Released, Funded
  <2> QED
    BY <1>3, <2>1, ReleaseWrites DEF TypeOK
<1>4. ASSUME NEW x \in Offers, refundAdvance(x) PROVE position'[o] = position[o]
  <2>1. x # o
    BY <1>4, RefundWrites DEF Released, Funded
  <2> QED
    BY <1>4, <2>1, RefundWrites DEF TypeOK
<1> QED
  BY <1>1, <1>2, <1>3, <1>4, PositionWriters DEF Released

\* A completed agreement stays completed, and only an active one stops.
LEMMA CompletedForGood ==
    ASSUME TypeOK, [Next]_vars, NEW a \in Agreements
    PROVE  agreement[a] # "active" => agreement'[a] = agreement[a]
<1>1. ASSUME NEW x \in Agreements, AgreementCompleted(x) \/ AgreementReturned(x), agreement[a] # "active"
      PROVE  agreement'[a] = agreement[a]
  <2>1. x # a
    BY <1>1 DEF AgreementCompleted, AgreementReturned
  <2> QED
    BY <1>1, <2>1 DEF AgreementCompleted, AgreementReturned, TypeOK
<1>2. ASSUME NEW s \in splits, settleRepayment(s) PROVE agreement' = agreement
  BY <1>2, SettlementWrites
<1> QED
  BY <1>1, <1>2, RouterWriters

\* What was read stays read, whatever becomes of the agreement, as long as the request or
\* the attestation is there when it lapses.
LEMMA ReadForGood ==
    ASSUME TypeOK, [Next]_vars, NEW r \in asked \cup proofs, ReadActive(r)
    PROVE  ReadActive(r)'
<1>0. /\ r.agreement \in Agreements /\ r.read \in Nat /\ now \in Nat
      /\ lapsedAt \in [Agreements -> Nat] /\ (Alike(r.offer, r.agreement))'
  BY DEF TypeOK, RequestType, ProofType, ReadActive, Alike
<1>1. CASE UNCHANGED <<agreement, lapsedAt>> /\ now' \in {now, now + 1}
  BY <1>0, <1>1 DEF ReadActive
<1>2. ASSUME NEW a \in Agreements, AgreementCompleted(a) \/ AgreementReturned(a) PROVE ReadActive(r)'
  <2>1. now' = now /\ Lapse(a)
    BY <1>2 DEF AgreementCompleted, AgreementReturned
  <2>2. CASE r.agreement = a
    <3>1. lapsedAt'[a] = now
      BY <1>0, <2>1, <2>2 DEF Lapse
    <3> QED
      BY <1>0, <2>1, <2>2, <3>1 DEF ReadActive
  <2>3. CASE r.agreement # a
    <3>1. lapsedAt'[r.agreement] = lapsedAt[r.agreement]
      BY <1>0, <2>1, <2>3 DEF Lapse
    <3>2. agreement'[r.agreement] = agreement[r.agreement]
      BY <1>0, <1>2, <2>3 DEF AgreementCompleted, AgreementReturned, TypeOK
    <3> QED
      BY <1>0, <2>1, <3>1, <3>2 DEF ReadActive
  <2> QED
    BY <2>2, <2>3
<1>3. CASE Tick
  BY <1>1, <1>3 DEF Tick, arcVars
<1>4. ASSUME NEW x \in asked, signProtectionAttestation(x) PROVE ReadActive(r)'
  BY <1>1, <1>4 DEF signProtectionAttestation, arcVars
<1>5. ASSUME NEW o \in Offers, NEW a \in Agreements, AgreementRead(o, a) PROVE ReadActive(r)'
  BY <1>1, <1>5 DEF AgreementRead, arcVars
<1> QED
  BY <1>1, <1>2, <1>3, <1>4, <1>5, ProofWriters

LEMMA SoundForGood ==
    ASSUME TypeOK, [Next]_vars, NEW p \in proofs, Sound(p)
    PROVE  Sound(p)'
<1>1. ReadActive(p)'
  BY ReadForGood DEF Sound
<1>2. p.observed \in Nat /\ now \in Nat
  BY DEF TypeOK, ProofType
<1>3. now' \in {now, now + 1}
  BY OwnerWriters DEF OwnerStep
<1> QED
  BY <1>1, <1>2, <1>3 DEF Sound

LEMMA ProofsStep == TypeOK /\ ProofsInv /\ [Next]_vars => ProofsInv'
<1> SUFFICES ASSUME TypeOK, ProofsInv, [Next]_vars PROVE ProofsInv'
  OBVIOUS
<1>1. (\A r \in asked : ReadActive(r)') /\ (\A p \in proofs : Sound(p)')
  BY ReadForGood, SoundForGood DEF ProofsInv
<1>2. CASE proofs' \subseteq proofs /\ asked' \subseteq asked
  BY <1>1, <1>2 DEF ProofsInv
<1>3. ASSUME NEW o \in Offers, NEW a \in Agreements, AgreementRead(o, a) PROVE ProofsInv'
  <2>1. PICK r \in RequestType :
          /\ r.offer = o /\ r.agreement = a /\ r.read = now
          /\ agreement[a] = "active" /\ Alike(o, a)
          /\ asked' = asked \cup {r} /\ UNCHANGED <<now, agreement, lapsedAt, proofs>>
    BY <1>3, RequestWrites
  <2>2. ReadActive(r)'
    BY <2>1 DEF ReadActive, Alike, TypeOK
  <2> QED
    BY <1>1, <2>1, <2>2 DEF ProofsInv
<1>4. ASSUME NEW r \in asked, signProtectionAttestation(r) PROVE ProofsInv'
  <2>1. PICK p \in ProofType :
          /\ p.offer = r.offer /\ p.agreement = r.agreement /\ p.read = r.read
          /\ p.observed = now /\ p.deadline <= now + AttestationLife
          /\ proofs' = proofs \cup {p} /\ asked' \subseteq asked /\ UNCHANGED <<now, agreement, lapsedAt>>
    BY <1>4, AttestationWrites
  <2>2. ReadActive(r)
    BY DEF ProofsInv
  <2>3. ReadActive(p)
    BY <2>1, <2>2 DEF ReadActive
  <2>4. Sound(p)'
    BY <2>1, <2>3 DEF Sound, ReadActive, Alike, TypeOK
  <2> QED
    BY <1>1, <2>1, <2>4 DEF ProofsInv
<1>5. ASSUME NEW a \in Agreements, AgreementCompleted(a) \/ AgreementReturned(a)
      PROVE  proofs' = proofs /\ asked' = asked
  BY <1>5 DEF AgreementCompleted, AgreementReturned, signedVars
<1>6. CASE Tick
  <2>1. proofs' \subseteq proofs /\ asked' \subseteq asked
    BY <1>6 DEF Tick
  <2> QED
    BY <1>2, <2>1
<1> QED
  BY <1>2, <1>3, <1>4, <1>5, <1>6, ProofWriters

\* Only a release makes a position released.
LEMMA NewlyReleased ==
    ASSUME TypeOK, [Next]_vars, NEW o \in Offers, ~Released(o), Released(o)'
    PROVE  \E p \in proofs : /\ releaseAdvance(p) /\ p.offer = o /\ position'[o].agreement = p.agreement
<1>1. CASE UNCHANGED escrowVars
  BY <1>1 DEF escrowVars, Released
<1>2. ASSUME NEW t \in terms, fundAdvance(t) PROVE FALSE
  <2>1. PICK q \in PositionType : q.status = "Funded" /\ position' = [position EXCEPT ![t.offer] = q]
    BY <1>2, FundingWrites
  <2>2. position'[o] = position[o] \/ position'[o] = q
    BY <2>1 DEF TypeOK
  <2> QED
    BY <2>1, <2>2 DEF Released
<1>3. ASSUME NEW p \in proofs, releaseAdvance(p)
      PROVE  p.offer = o /\ position'[o].agreement = p.agreement
  <2>1. /\ p.offer \in Offers
        /\ position' = [position EXCEPT ![p.offer] =
             [position[p.offer] EXCEPT !.status = "Released", !.agreement = p.agreement]]
    BY <1>3, ReleaseWrites
  <2>2. p.offer = o
    BY <2>1 DEF TypeOK, Released
  <2>3. position[o] \in PositionType
    BY DEF TypeOK
  <2> QED
    BY <2>1, <2>2, <2>3 DEF TypeOK, PositionType
<1>4. ASSUME NEW x \in Offers, refundAdvance(x) PROVE FALSE
  <2>1. position' = [position EXCEPT ![x] = [position[x] EXCEPT !.status = "Refunded"]]
    BY <1>4, RefundWrites
  <2>2. position[x] \in PositionType
    BY DEF TypeOK
  <2>3. position'[o] = position[o] \/ position'[o].status = "Refunded"
    BY <2>1, <2>2 DEF TypeOK, PositionType
  <2> QED
    BY <2>3 DEF Released
<1> QED
  BY <1>1, <1>2, <1>3, <1>4, PositionWriters

LEMMA ReleasedStep == TypeOK /\ ProofsInv /\ ReleasedInv /\ [Next]_vars => ReleasedInv'
<1> SUFFICES ASSUME TypeOK, ProofsInv, ReleasedInv, [Next]_vars PROVE ReleasedInv'
  OBVIOUS
<1>1. ASSUME NEW o \in Offers, ~Released(o), Released(o)'
      PROVE  /\ Alike(o, position'[o].agreement)
             /\ \A q \in Offers : position[q].agreement # position'[o].agreement
  <2>1. PICK p \in proofs : releaseAdvance(p) /\ p.offer = o /\ position'[o].agreement = p.agreement
    BY <1>1, NewlyReleased
  <2>2. Alike(o, p.agreement)
    BY <2>1 DEF ProofsInv, Sound, ReadActive
  <2> QED
    BY <2>1, <2>2 DEF releaseAdvance, AgreementUnused
<1>2. ASSUME NEW o \in Offers, Released(o)' PROVE Alike(o, position'[o].agreement)
  BY <1>1, <1>2, ReleasedForGood DEF ReleasedInv
<1>3. ASSUME NEW o \in Offers, NEW q \in Offers, Released(o)', Released(q)', o # q
      PROVE  position'[o].agreement # position'[q].agreement
  <2>1. CASE Released(o) /\ Released(q)
    BY <1>3, <2>1, ReleasedForGood DEF ReleasedInv
  <2>2. CASE Released(o) /\ ~Released(q)
    BY <1>1, <1>3, <2>2, ReleasedForGood
  <2>3. CASE ~Released(o) /\ Released(q)
    BY <1>1, <1>3, <2>3, ReleasedForGood
  <2>4. CASE ~Released(o) /\ ~Released(q)
    <3>1. PICK p \in proofs : releaseAdvance(p) /\ p.offer = o
      BY <1>3, <2>4, NewlyReleased
    <3>2. position'[q] = position[q]
      BY <1>3, <3>1, ReleaseWrites DEF TypeOK
    <3> QED
      BY <1>3, <2>4, <3>2 DEF Released
  <2> QED
    BY <2>1, <2>2, <2>3, <2>4
<1> QED
  BY <1>2, <1>3 DEF ReleasedInv, Alike

\* What justifies a split lasts.
LEMMA JustifiedForGood ==
    ASSUME TypeOK, [Next]_vars, NEW s, s.agreement \in Agreements, Justified(s)
    PROVE  Justified(s)'
<1>1. PICK o \in Offers : PaysFor(s, o)
  BY DEF Justified
<1>2. PaysFor(s, o)'
  BY <1>1, ReleasedForGood DEF PaysFor, Alike
<1>3. agreement'[s.agreement] = "completed"
  BY CompletedForGood DEF Justified
<1> QED
  BY <1>2, <1>3 DEF Justified, Payment

LEMMA SplitsStep == TypeOK /\ SplitsInv /\ [Next]_vars => SplitsInv'
<1> SUFFICES ASSUME TypeOK, SplitsInv, [Next]_vars PROVE SplitsInv'
  OBVIOUS
<1>1. ASSUME NEW s \in splits PROVE Justified(s)'
  <2>1. s.agreement \in Agreements /\ Justified(s)
    BY DEF TypeOK, SplitType, SplitsInv
  <2> QED
    BY <2>1, JustifiedForGood
<1>2. CASE splits' \subseteq splits
  BY <1>1, <1>2 DEF SplitsInv
<1>3. ASSUME NEW o \in Offers, NEW a \in Agreements, signSplitSettlement(o, a) PROVE SplitsInv'
  <2>1. PICK s \in SplitType :
          /\ splits' = splits \cup {s} /\ s.agreement = a
          /\ Repayable(o, a)
          /\ s.toFunder + s.toProvider + s.toTreasury = Payment(a)
          /\ s.funder = position[o].funder
          /\ s.toFunder = position[o].repayment /\ s.toTreasury = position[o].fee
    BY <1>3, SplitWrites
  <2>2. PaysFor(s, o) /\ agreement[s.agreement] = "completed"
    BY <2>1 DEF PaysFor, Repayable
  <2>3. Justified(s)
    BY <2>1, <2>2 DEF Justified
  <2>4. Justified(s)'
    BY <2>1, <2>3, JustifiedForGood DEF SplitType
  <2> QED
    BY <1>1, <2>1, <2>4 DEF SplitsInv
<1> QED
  BY <1>2, <1>3, SplitWriters

LEMMA SignaturesStep == SignaturesInv /\ [Next]_vars => SignaturesInv'
BY TypeStep, ProofsStep, ReleasedStep, SplitsStep DEF SignaturesInv

\* The inductive invariant of what is signed and released.
THEOREM SignaturesHold == Spec => []SignaturesInv
BY SignaturesInit, SignaturesStep, PTL DEF Spec

\* An agreement backs one advance: releasedArcAgreements, whichever agreement the
\* attestations of two offers name.
THEOREM OneAdvancePerAgreement == Spec => []AgreementBacksOneAdvance
<1>1. SignaturesInv => AgreementBacksOneAdvance
  BY DEF SignaturesInv, ReleasedInv, AgreementBacksOneAdvance
<1> QED
  BY <1>1, SignaturesHold, PTL

\* Money moves to a provider while the agreement is active, or within the life of an
\* attestation and the wait of its request, which read it while it was.
THEOREM ReleasesProtected == Spec => ReleasesWereProtected
<1>1. ASSUME SignaturesInv, [Next]_vars, NEW o \in Offers, Funded(o), position'[o].status = "Released"
      PROVE  \E p \in proofs :
                /\ p.offer = o /\ p.agreement = position'[o].agreement
                /\ \/ agreement[p.agreement] = "active"
                   \/ now - lapsedAt[p.agreement] <= AttestationLife + (p.observed - p.read)
  <2>1. ~Released(o) /\ Released(o)' /\ TypeOK
    BY <1>1 DEF Funded, Released, SignaturesInv
  <2>2. PICK p \in proofs : releaseAdvance(p) /\ p.offer = o /\ position'[o].agreement = p.agreement
    BY <1>1, <2>1, NewlyReleased
  <2>3. Sound(p) /\ now <= p.deadline
    BY <1>1, <2>2 DEF SignaturesInv, ProofsInv, releaseAdvance, FreshProof
  <2>4. /\ p.observed \in Nat /\ p.deadline \in Nat /\ p.read \in Nat /\ now \in Nat /\ AttestationLife \in Nat
        /\ p.agreement \in Agreements /\ lapsedAt[p.agreement] \in Nat
    BY <2>1, UpfrontAssumption DEF TypeOK, ProofType
  <2>5. p.read <= lapsedAt[p.agreement]
          => now - lapsedAt[p.agreement] <= AttestationLife + (p.observed - p.read)
    BY <2>3, <2>4 DEF Sound
  <2> QED
    BY <2>2, <2>3, <2>5 DEF Sound, ReadActive
<1>2. SignaturesInv /\ [Next]_vars
        => [\A o \in Offers : Funded(o) /\ position'[o].status = "Released" =>
              \E p \in proofs :
                 /\ p.offer = o /\ p.agreement = position'[o].agreement
                 /\ \/ agreement[p.agreement] = "active"
                    \/ now - lapsedAt[p.agreement] <= AttestationLife + (p.observed - p.read)]_vars
  BY <1>1
<1> QED
  BY <1>2, SignaturesHold, PTL DEF Spec, ReleasesWereProtected

-----------------------------------------------------------------------------
(* What the router paid. *)

PaidRight(a) ==
    payout[a] # NoSplit =>
        /\ agreement[a] = "completed"
        /\ payout[a].toFunder + payout[a].toProvider + payout[a].toTreasury = Payment(a)
        /\ \E o \in Offers :
              /\ Released(o) /\ Alike(o, a)
              /\ payout[a].funder = position[o].funder
              /\ payout[a].toFunder = position[o].repayment /\ payout[a].toTreasury = position[o].fee
PayoutsInv == \A a \in Agreements : PaidRight(a)

LEMMA PayoutsStep == SignaturesInv /\ PayoutsInv /\ [Next]_vars => PayoutsInv'
<1> SUFFICES ASSUME SignaturesInv, PayoutsInv, [Next]_vars, NEW a \in Agreements PROVE PaidRight(a)'
  BY DEF PayoutsInv
<1>0. TypeOK
  BY DEF SignaturesInv
<1>1. CASE payout'[a] = payout[a]
  <2>1. CASE payout[a] = NoSplit
    BY <1>1, <2>1 DEF PaidRight
  <2>2. CASE payout[a] # NoSplit
    <3>1. agreement'[a] = "completed"
      BY <1>0, <2>2, CompletedForGood DEF PayoutsInv, PaidRight
    <3>2. PICK o \in Offers :
            /\ Released(o) /\ Alike(o, a)
            /\ payout[a].funder = position[o].funder
            /\ payout[a].toFunder = position[o].repayment /\ payout[a].toTreasury = position[o].fee
      BY <2>2 DEF PayoutsInv, PaidRight
    <3>3. Released(o)' /\ position'[o] = position[o] /\ (Alike(o, a))' /\ Payment(a)' = Payment(a)
      BY <1>0, <3>2, ReleasedForGood DEF Alike, Payment
    <3>4. payout[a].toFunder + payout[a].toProvider + payout[a].toTreasury = Payment(a)
      BY <2>2 DEF PayoutsInv, PaidRight
    <3> QED
      BY <1>1, <3>1, <3>2, <3>3, <3>4 DEF PaidRight
  <2> QED
    BY <2>1, <2>2
<1>2. ASSUME NEW s \in splits, settleRepayment(s), s.agreement = a PROVE PaidRight(a)'
  <2>1. /\ payout'[a] = [funder |-> s.funder, toFunder |-> s.toFunder,
                         toProvider |-> s.toProvider, toTreasury |-> s.toTreasury]
        /\ agreement' = agreement
    BY <1>0, <1>2, SettlementWrites DEF TypeOK
  <2>2. Justified(s)
    BY DEF SignaturesInv, SplitsInv
  <2>3. PICK o \in Offers : PaysFor(s, o)
    BY <2>2 DEF Justified
  <2>4. Released(o)' /\ position'[o] = position[o] /\ (Alike(o, a))' /\ Payment(a)' = Payment(a)
    BY <1>0, <1>2, <2>3, ReleasedForGood DEF PaysFor, Alike, Payment
  <2> QED
    BY <1>2, <2>1, <2>2, <2>3, <2>4 DEF PaidRight, Justified, PaysFor
<1>3. payout'[a] = payout[a] \/ \E s \in splits : settleRepayment(s) /\ s.agreement = a
  <2>1. ASSUME NEW s \in splits, settleRepayment(s), s.agreement # a PROVE payout'[a] = payout[a]
    BY <1>0, <2>1 DEF TypeOK, settleRepayment
  <2>2. ASSUME NEW x \in Agreements, AgreementCompleted(x) \/ AgreementReturned(x) PROVE payout' = payout
    BY <2>2 DEF AgreementCompleted, AgreementReturned
  <2> QED
    BY <2>1, <2>2, RouterWriters
<1> QED
  BY <1>1, <1>2, <1>3

-----------------------------------------------------------------------------
(* The money of the two contracts. *)

LEMMA HeldType == TypeOK => HeldAdvance \in [Offers -> Nat] /\ DOMAIN HeldAdvance = Offers
BY DEF TypeOK, PositionType, HeldAdvance

LEMMA OwedType == TypeOK => Owed \in [Agreements -> Nat] /\ DOMAIN Owed = Agreements
BY UpfrontAssumption DEF Owed, Payment

\* One position's part changes: the sum changes by the difference.
LEMMA HeldChange ==
    ASSUME TypeOK, TypeOK', NEW x \in Offers, \A o \in Offers \ {x} : position'[o] = position[o]
    PROVE  /\ Total(HeldAdvance)' = Total(HeldAdvance) - HeldAdvance[x] + HeldAdvance'[x]
           /\ Total(HeldAdvance) \in Nat
<1> DEFINE f == HeldAdvance
           g == HeldAdvance'
<1>1. f \in [Offers -> Nat] /\ DOMAIN f = Offers /\ IsFiniteSet(Offers)
  BY HeldType, UpfrontAssumption
<1>2. g \in [Offers -> Nat] /\ DOMAIN g = Offers
  BY DEF TypeOK, PositionType, HeldAdvance
<1>3. \A o \in Offers \ {x} : g[o] = f[o]
  BY DEF HeldAdvance, Funded
<1>4. Total(HeldAdvance)' = Total(g)
  BY DEF Total, Units
<1> HIDE DEF f, g
<1>5. Total(g) = Total(f) - f[x] + g[x]
  BY <1>1, <1>2, <1>3, TotalUpdate
<1>6. Total(f) \in Nat
  BY <1>1, TotalNat
<1> QED
  BY <1>4, <1>5, <1>6 DEF f, g

LEMMA OwedChange ==
    ASSUME TypeOK, TypeOK', NEW x \in Agreements,
           \A a \in Agreements \ {x} : agreement'[a] = agreement[a] /\ payout'[a] = payout[a]
    PROVE  /\ Total(Owed)' = Total(Owed) - Owed[x] + Owed'[x]
           /\ Total(Owed) \in Nat
<1> DEFINE f == Owed
           g == Owed'
<1>1. f \in [Agreements -> Nat] /\ DOMAIN f = Agreements /\ IsFiniteSet(Agreements)
  BY OwedType, UpfrontAssumption
<1>2. g \in [Agreements -> Nat] /\ DOMAIN g = Agreements
  BY UpfrontAssumption DEF Owed, Payment
<1>3. \A a \in Agreements \ {x} : g[a] = f[a]
  BY DEF Owed, Payment
<1>4. Total(Owed)' = Total(g)
  BY DEF Total, Units
<1> HIDE DEF f, g
<1>5. Total(g) = Total(f) - f[x] + g[x]
  BY <1>1, <1>2, <1>3, TotalUpdate
<1>6. Total(f) \in Nat
  BY <1>1, TotalNat
<1> QED
  BY <1>4, <1>5, <1>6 DEF f, g

LEMMA EscrowCoversStep == TypeOK /\ TypeOK' /\ EscrowCovers /\ [Next]_vars => EscrowCovers'
<1> SUFFICES ASSUME TypeOK, TypeOK', EscrowCovers, [Next]_vars PROVE usdc' = Total(HeldAdvance)'
  BY DEF EscrowCovers
<1>0. usdc = Total(HeldAdvance) /\ usdc \in Nat
  BY DEF EscrowCovers, TypeOK
<1>1. CASE UNCHANGED escrowVars
  <2>1. position' = position /\ usdc' = usdc
    BY <1>1 DEF escrowVars
  <2>2. HeldAdvance' = HeldAdvance
    BY <2>1 DEF HeldAdvance, Funded
  <2>3. Total(HeldAdvance)' = Total(HeldAdvance)
    BY <2>2 DEF Total, Units
  <2> QED
    BY <1>0, <2>1, <2>3
<1>2. ASSUME NEW t \in terms, fundAdvance(t) PROVE usdc' = Total(HeldAdvance)'
  <2>1. PICK q \in PositionType : /\ q.status = "Funded" /\ q.advance = t.advance
                                  /\ position' = [position EXCEPT ![t.offer] = q]
    BY <1>2, FundingWrites
  <2>2. /\ t.offer \in Offers /\ t.advance \in Nat /\ usdc' = usdc + t.advance
        /\ position[t.offer].status = "None"
    BY <1>2, FundingWrites
  <2>3. position \in [Offers -> PositionType]
    BY DEF TypeOK
  <2>4. HeldAdvance[t.offer] = 0 /\ HeldAdvance'[t.offer] = t.advance
    BY <2>1, <2>2, <2>3 DEF HeldAdvance, Funded
  <2>5. \A o \in Offers \ {t.offer} : position'[o] = position[o]
    BY <2>1, <2>3
  <2>6. Total(HeldAdvance)' = Total(HeldAdvance) - 0 + t.advance
    BY <2>2, <2>4, <2>5, HeldChange
  <2> QED
    BY <1>0, <2>2, <2>6
<1>3. ASSUME NEW x \in Offers, Funded(x), position'[x].status # "Funded",
             \A o \in Offers \ {x} : position'[o] = position[o], usdc' = usdc - position[x].advance
      PROVE  usdc' = Total(HeldAdvance)'
  <2>1. HeldAdvance[x] = position[x].advance /\ HeldAdvance'[x] = 0
    BY <1>3 DEF HeldAdvance, Funded
  <2>2. position[x].advance \in Nat
    BY DEF TypeOK, PositionType
  <2>3. Total(HeldAdvance)' = Total(HeldAdvance) - position[x].advance + 0
    BY <1>3, <2>1, HeldChange
  <2> QED
    BY <1>0, <1>3, <2>2, <2>3
<1>4. ASSUME NEW p \in proofs, releaseAdvance(p) PROVE usdc' = Total(HeldAdvance)'
  <2>1. /\ p.offer \in Offers /\ Funded(p.offer) /\ usdc' = usdc - position[p.offer].advance
        /\ position' = [position EXCEPT ![p.offer] =
             [position[p.offer] EXCEPT !.status = "Released", !.agreement = p.agreement]]
    BY <1>4, ReleaseWrites
  <2>2. position \in [Offers -> PositionType]
    BY DEF TypeOK
  <2>3. position'[p.offer].status = "Released" /\ \A o \in Offers \ {p.offer} : position'[o] = position[o]
    BY <2>1, <2>2 DEF PositionType
  <2> QED
    BY <1>3, <2>1, <2>3
<1>5. ASSUME NEW x \in Offers, refundAdvance(x) PROVE usdc' = Total(HeldAdvance)'
  <2>1. /\ Funded(x) /\ usdc' = usdc - position[x].advance
        /\ position' = [position EXCEPT ![x] = [position[x] EXCEPT !.status = "Refunded"]]
    BY <1>5, RefundWrites
  <2>2. position \in [Offers -> PositionType]
    BY DEF TypeOK
  <2>3. position'[x].status = "Refunded" /\ \A o \in Offers \ {x} : position'[o] = position[o]
    BY <2>1, <2>2 DEF PositionType
  <2> QED
    BY <1>3, <2>1, <2>3
<1> QED
  BY <1>1, <1>2, <1>4, <1>5, PositionWriters

LEMMA RouterCoversStep ==
    SignaturesInv /\ TypeOK' /\ PayoutsInv /\ RouterCovers /\ [Next]_vars => RouterCovers'
<1> SUFFICES ASSUME SignaturesInv, TypeOK', PayoutsInv, RouterCovers, [Next]_vars PROVE router' = Total(Owed)'
  BY DEF RouterCovers
<1>0. TypeOK /\ router = Total(Owed) /\ router \in Nat
  BY DEF SignaturesInv, RouterCovers, TypeOK
<1>1. ASSUME router' = router, \A a \in Agreements : Owed'[a] = Owed[a] PROVE router' = Total(Owed)'
  <2>1. Owed' = Owed
    BY <1>1 DEF Owed
  <2>2. Total(Owed)' = Total(Owed)
    BY <2>1 DEF Total, Units
  <2> QED
    BY <1>0, <1>1, <2>2
<1>2. CASE UNCHANGED <<agreement, router, payout>>
  BY <1>1, <1>2 DEF Owed
<1>3. ASSUME NEW s \in splits, settleRepayment(s) PROVE router' = Total(Owed)'
  <2> DEFINE total == s.toFunder + s.toProvider + s.toTreasury
             out == [funder |-> s.funder, toFunder |-> s.toFunder,
                     toProvider |-> s.toProvider, toTreasury |-> s.toTreasury]
  <2>1. /\ s.agreement \in Agreements /\ payout[s.agreement] = NoSplit /\ out # NoSplit
        /\ payout' = [payout EXCEPT ![s.agreement] = out] /\ agreement' = agreement
        /\ total \in Nat /\ router' = router - total
    BY <1>0, <1>3, SettlementWrites
  <2>2. total = Payment(s.agreement) /\ agreement[s.agreement] = "completed"
    BY DEF SignaturesInv, SplitsInv, Justified
  <2>3. payout \in [Agreements -> PayoutType]
    BY <1>0 DEF TypeOK
  <2> HIDE DEF total, out
  <2>4. payout'[s.agreement] = out /\ \A a \in Agreements \ {s.agreement} : payout'[a] = payout[a]
    BY <2>1, <2>3
  <2>5. Owed[s.agreement] = total /\ Owed'[s.agreement] = 0
    BY <2>1, <2>2, <2>4 DEF Owed
  <2>6. Total(Owed)' = Total(Owed) - total + 0
    BY <1>0, <2>1, <2>4, <2>5, OwedChange
  <2> QED
    BY <1>0, <2>1, <2>6
<1>4. ASSUME NEW a \in Agreements, AgreementCompleted(a) PROVE router' = Total(Owed)'
  <2>1. /\ agreement[a] = "active" /\ agreement' = [agreement EXCEPT ![a] = "completed"]
        /\ router' = router + Payment(a) /\ payout' = payout
    BY <1>4 DEF AgreementCompleted
  <2>2. payout[a] = NoSplit
    BY <2>1 DEF PayoutsInv, PaidRight
  <2>3. agreement \in [Agreements -> {"active", "completed", "returned"}]
    BY <1>0 DEF TypeOK
  <2>4. agreement'[a] = "completed" /\ \A b \in Agreements \ {a} : agreement'[b] = agreement[b]
    BY <2>1, <2>3
  <2>5. Owed[a] = 0 /\ Owed'[a] = Payment(a)
    BY <2>1, <2>2, <2>4 DEF Owed
  <2>6. Total(Owed)' = Total(Owed) - 0 + Payment(a) /\ Total(Owed) \in Nat
    BY <1>0, <2>1, <2>4, <2>5, OwedChange
  <2>7. Payment(a) \in Nat
    BY UpfrontAssumption DEF Payment
  <2> QED
    BY <1>0, <2>1, <2>6, <2>7
<1>5. ASSUME NEW a \in Agreements, AgreementReturned(a) PROVE router' = Total(Owed)'
  <2>1. /\ agreement[a] = "active" /\ agreement' = [agreement EXCEPT ![a] = "returned"]
        /\ router' = router /\ payout' = payout
    BY <1>5 DEF AgreementReturned
  <2>2. agreement \in [Agreements -> {"active", "completed", "returned"}]
    BY <1>0 DEF TypeOK
  <2>3. ASSUME NEW b \in Agreements PROVE Owed'[b] = Owed[b]
    BY <2>1, <2>2 DEF Owed
  <2> QED
    BY <1>1, <2>1, <2>3
<1> QED
  BY <1>2, <1>3, <1>4, <1>5, RouterWriters

-----------------------------------------------------------------------------

MoneyInv == SignaturesInv /\ PayoutsInv /\ EscrowCovers /\ RouterCovers

LEMMA MoneyInit == Init => MoneyInv
<1> SUFFICES ASSUME Init PROVE MoneyInv
  OBVIOUS
<1>1. SignaturesInv
  BY SignaturesInit
<1>2. PayoutsInv
  BY DEF Init, PayoutsInv, PaidRight
<1>3. EscrowCovers
  <2>1. \A o \in DOMAIN HeldAdvance : HeldAdvance[o] = 0
    BY DEF Init, HeldAdvance, Funded, NoPosition
  <2> QED
    BY <2>1, TotalZero DEF Init, EscrowCovers
<1>4. RouterCovers
  <2>1. \A a \in DOMAIN Owed : Owed[a] = 0
    BY DEF Init, Owed
  <2> QED
    BY <2>1, TotalZero DEF Init, RouterCovers
<1> QED
  BY <1>1, <1>2, <1>3, <1>4 DEF MoneyInv

LEMMA MoneyStep == MoneyInv /\ [Next]_vars => MoneyInv'
<1> SUFFICES ASSUME MoneyInv, [Next]_vars PROVE MoneyInv'
  OBVIOUS
<1>1. SignaturesInv' /\ TypeOK /\ TypeOK'
  BY SignaturesStep DEF MoneyInv, SignaturesInv
<1> QED
  BY <1>1, PayoutsStep, EscrowCoversStep, RouterCoversStep DEF MoneyInv

\* The inductive invariant of both contracts' money.
THEOREM MoneyHolds == Spec => []MoneyInv
BY MoneyInit, MoneyStep, PTL DEF Spec

\* UpfrontAdvanceEscrowV2 holds exactly the advances of the funded positions, and
\* ArcRepaymentRouterV4 exactly the payments it has not split.
THEOREM MoneyAlwaysCovered == Spec => []MoneyCovered
<1>1. MoneyInv => MoneyCovered
  BY DEF MoneyInv, MoneyCovered
<1> QED
  BY <1>1, MoneyHolds, PTL

\* All that a refund of a funded advance asks for, once its protection deadline has passed.
RefundGuarded ==
    \A o \in Offers : Funded(o) /\ now > Deadline(o) => RefundDue(o) /\ usdc >= position[o].advance

\* What RefundAlwaysOpen says without ENABLED: the money for a refund that is due is
\* there, whatever was funded, released, refunded, paused or rotated before, and no
\* condition stands in its way that any of these could have closed.
THEOREM RefundsOpen == Spec => []RefundGuarded
<1>1. MoneyInv => RefundGuarded
  <2> SUFFICES ASSUME MoneyInv, NEW o \in Offers, Funded(o), now > Deadline(o)
               PROVE  RefundDue(o) /\ usdc >= position[o].advance
    BY DEF RefundGuarded
  <2>1. TypeOK /\ usdc = Total(HeldAdvance)
    BY DEF MoneyInv, SignaturesInv, EscrowCovers
  <2>2. HeldAdvance \in [Offers -> Nat] /\ DOMAIN HeldAdvance = Offers /\ IsFiniteSet(Offers)
    BY <2>1, HeldType, UpfrontAssumption
  <2>3. HeldAdvance[o] <= Total(HeldAdvance)
    BY <2>2, EntryAtMostTotal
  <2>4. HeldAdvance[o] = position[o].advance
    BY DEF HeldAdvance
  <2>5. HeldAdvance[o] \in Nat /\ Total(HeldAdvance) \in Nat
    BY <2>2, TotalNat
  <2> QED
    BY <2>1, <2>3, <2>4, <2>5 DEF RefundDue
<1> QED
  BY <1>1, MoneyHolds, PTL

\* The router pays the funder of an advance released for the agreement's terms, as agreed.
THEOREM RepaymentsAsAgreed == Spec => []RepaidAsAgreed
<1>1. ASSUME MoneyInv, NEW a \in Agreements, payout[a] # NoSplit
      PROVE  /\ payout[a].toFunder + payout[a].toProvider + payout[a].toTreasury = Payment(a)
             /\ \E o \in Offers :
                  /\ Released(o) /\ AgreementTerms[position[o].agreement] = AgreementTerms[a]
                  /\ payout[a].funder = position[o].funder
                  /\ payout[a].toFunder = position[o].repayment /\ payout[a].toTreasury = position[o].fee
  <2>1. PaidRight(a) /\ ReleasedInv
    BY <1>1 DEF MoneyInv, PayoutsInv, SignaturesInv
  <2> QED
    BY <1>1, <2>1 DEF PaidRight, ReleasedInv, Alike
<1>2. MoneyInv => RepaidAsAgreed
  BY <1>1 DEF RepaidAsAgreed
<1> QED
  BY <1>2, MoneyHolds, PTL

-----------------------------------------------------------------------------
(* The promise of an advance, step by step.  An account is an offer's      *)
(* position, a repayment an agreement's split: a step of the escrow moves  *)
(* one position and no split, a settlement one split and no position.      *)

LEMMA PromiseWriters ==
    ASSUME [Next]_vars
    PROVE  \/ UNCHANGED <<position, usdc, payout>>
           \/ \E t \in terms : fundAdvance(t) /\ payout' = payout
           \/ \E p \in proofs : releaseAdvance(p) /\ payout' = payout
           \/ \E o \in Offers : refundAdvance(o) /\ payout' = payout
           \/ \E s \in splits : settleRepayment(s) /\ UNCHANGED <<position, usdc>>
BY DEF Next, vars, OwnerStep, Tick, signFundingTerms, AgreementRead, DropRequest, signProtectionAttestation,
       signSplitSettlement, settleRepayment, fundAdvance, releaseAdvance, refundAdvance, AgreementCompleted,
       AgreementReturned, escrowVars, arcVars

\* An account is its position, and nothing else.
LEMMA AccountStays ==
    ASSUME NEW o \in Offers, position'[o] = position[o]
    PROVE  Account(o)' = Account(o)
BY DEF Account

\* A step of the escrow is one account's, whatever else stays.
LEMMA AccountMoves ==
    ASSUME NEW o \in Offers, \A q \in Offers \ {o} : position'[q] = position[q], payout' = payout,
           Account(o)'.stage # Account(o).stage,
           \/ Promise!Fund(Account(o), Account(o)') \/ Promise!Release(o, Account(o)')
           \/ Promise!Refund(Account(o), Account(o)')
    PROVE  Promise!Next
<1>1. Accounts[o] = Account(o) /\ Accounts'[o] = Account(o)'
  BY DEF Accounts
<1>2. \A q \in Offers \ {o} : Account(q)' = Account(q)
  BY AccountStays
<1>3. Accounts' = [Accounts EXCEPT ![o] = Accounts'[o]]
  BY <1>1, <1>2 DEF Accounts
<1>4. Repayments' = Repayments
  BY DEF Repayments
<1>5. Promise!AccountStep(o)
  BY <1>1, <1>3, <1>4 DEF Promise!AccountStep
<1> QED
  BY <1>5 DEF Promise!Next

\* fundAdvance opens an account: its own amount checks are what the promise asks of one.
LEMMA FundingPromised ==
    ASSUME TypeOK, NEW t \in terms, fundAdvance(t), payout' = payout
    PROVE  Promise!Next
<1> DEFINE o == t.offer
           q == [status |-> "Funded", funder |-> t.funder, advance |-> t.advance, repayment |-> t.repayment,
                 fee |-> t.fee, signer |-> protectionSigner, agreement |-> NoAgreement]
<1>1. /\ o \in Offers /\ t.funder \in Funders /\ position[o].status = "None" /\ usdc' = usdc + t.advance
      /\ 0 < t.advance /\ t.advance < t.repayment
  <2>1. t.advance > 0 /\ t.repayment > t.advance /\ t.advance \in Nat /\ t.repayment \in Nat
    BY DEF fundAdvance, AmountsAccepted, TypeOK, TermsType
  <2> QED
    BY <2>1, FundingWrites
<1>2. position' = [position EXCEPT ![o] = q] /\ position \in [Offers -> PositionType]
  BY DEF fundAdvance, TypeOK
<1>3. position'[o] = q /\ \A x \in Offers \ {o} : position'[x] = position[x]
  BY <1>1, <1>2
<1> HIDE DEF o, q
<1>4. Account(o).stage = "None"
  BY <1>1 DEF Account
<1>5. Account(o)' = [stage |-> "Funded", funder |-> t.funder, given |-> t.advance, owed |-> t.repayment,
                     backing |-> NoAgreement]
  BY <1>3 DEF Account, q
<1>6. Promise!Fund(Account(o), Account(o)')
  <2> DEFINE new == Account(o)'
  <2>1. /\ new = [stage |-> "Funded", funder |-> t.funder, given |-> t.advance, owed |-> t.repayment,
                  backing |-> NoAgreement]
        /\ new.funder = t.funder /\ new.given = t.advance /\ new.owed = t.repayment
    BY <1>5
  <2> HIDE DEF new
  <2>2. Promise!Fund(Account(o), new)
    BY <1>1, <1>4, <2>1 DEF Promise!Fund
  <2> QED
    BY <2>2 DEF new
<1> QED
  BY <1>1, <1>3, <1>4, <1>5, <1>6, AccountMoves

\* A release takes an agreement of the offer's terms that backs no other account.
LEMMA ReleasePromised ==
    ASSUME MoneyInv, NEW p \in proofs, releaseAdvance(p), payout' = payout
    PROVE  Promise!Next
<1> DEFINE o == p.offer
<1>0. TypeOK /\ Alike(o, p.agreement)
  BY DEF MoneyInv, SignaturesInv, ProofsInv, Sound, ReadActive
<1>1. /\ o \in Offers /\ Funded(o) /\ AgreementUnused(p.agreement) /\ p.agreement \in Agreements
      /\ position' = [position EXCEPT ![o] = [position[o] EXCEPT !.status = "Released", !.agreement = p.agreement]]
      /\ usdc' = usdc - position[o].advance
  BY <1>0, ReleaseWrites
<1>2. position \in [Offers -> PositionType]
  BY <1>0 DEF TypeOK
<1> HIDE DEF o
<1>3. /\ position'[o] = [position[o] EXCEPT !.status = "Released", !.agreement = p.agreement]
      /\ \A x \in Offers \ {o} : position'[x] = position[x]
  BY <1>1, <1>2
<1>4. position[o] \in PositionType
  BY <1>1, <1>2
<1>5. /\ position'[o].status = "Released" /\ position'[o].funder = position[o].funder
      /\ position'[o].advance = position[o].advance /\ position'[o].repayment = position[o].repayment
      /\ position'[o].agreement = p.agreement
  BY <1>3, <1>4 DEF PositionType
<1>6. Accounts[o] = Account(o) /\ \A q \in Offers : Accounts[q].backing = position[q].agreement
  BY <1>1 DEF Accounts, Account
<1>7. Account(o)' = [stage |-> "Released", funder |-> Accounts[o].funder, given |-> Accounts[o].given,
                     owed |-> Accounts[o].owed, backing |-> p.agreement]
  BY <1>5, <1>6 DEF Account
<1>8. Account(o).stage = "Funded" /\ Account(o)'.stage = "Released" /\ Account(o).given = position[o].advance
  BY <1>1, <1>5 DEF Account, Funded
<1>9. AgreementTerms[p.agreement] = OfferTerms[o] /\ \A q \in Offers : Accounts[q].backing # p.agreement
  BY <1>0, <1>1, <1>6 DEF Alike, AgreementUnused, o
<1>10. Promise!Release(o, Account(o)')
  BY <1>1, <1>6, <1>7, <1>8, <1>9 DEF Promise!Release
<1> QED
  BY <1>1, <1>3, <1>8, <1>10, AccountMoves

LEMMA RefundPromised ==
    ASSUME TypeOK, NEW o \in Offers, refundAdvance(o), payout' = payout
    PROVE  Promise!Next
<1>1. /\ Funded(o) /\ usdc' = usdc - position[o].advance
      /\ position' = [position EXCEPT ![o] = [position[o] EXCEPT !.status = "Refunded"]]
  BY RefundWrites
<1>2. position \in [Offers -> PositionType] /\ position[o] \in PositionType
  BY DEF TypeOK
<1>3. /\ position'[o] = [position[o] EXCEPT !.status = "Refunded"]
      /\ \A x \in Offers \ {o} : position'[x] = position[x]
  BY <1>1, <1>2
<1>4. /\ position'[o].status = "Refunded" /\ position'[o].funder = position[o].funder
      /\ position'[o].advance = position[o].advance /\ position'[o].repayment = position[o].repayment
      /\ position'[o].agreement = position[o].agreement
  BY <1>2, <1>3 DEF PositionType
<1>5. Account(o).stage = "Funded" /\ Account(o)' = [Account(o) EXCEPT !.stage = "Refunded"]
  BY <1>1, <1>4 DEF Account, Funded
<1>6. Account(o).given = position[o].advance /\ Account(o)'.stage = "Refunded"
  BY <1>4 DEF Account
<1>7. Promise!Refund(Account(o), Account(o)')
  BY <1>1, <1>5, <1>6 DEF Promise!Refund
<1> QED
  BY <1>3, <1>5, <1>6, <1>7, AccountMoves

\* A split repays an advance that was released for the agreement's terms: its funder, at
\* its price.
LEMMA SettlementPromised ==
    ASSUME MoneyInv, NEW s \in splits, settleRepayment(s), UNCHANGED <<position, usdc>>
    PROVE  Promise!Next
<1> DEFINE a == s.agreement
           out == [funder |-> s.funder, toFunder |-> s.toFunder,
                   toProvider |-> s.toProvider, toTreasury |-> s.toTreasury]
<1>0. TypeOK /\ Justified(s)
  BY DEF MoneyInv, SignaturesInv, SplitsInv
<1>1. PICK o \in Offers : PaysFor(s, o)
  BY <1>0 DEF Justified
<1>2. /\ a \in Agreements /\ payout[a] = NoSplit
      /\ payout' = [payout EXCEPT ![a] = out] /\ payout \in [Agreements -> PayoutType]
  BY <1>0, SettlementWrites DEF TypeOK
<1>3. out.funder = position[o].funder /\ out.toFunder = position[o].repayment /\ OfferTerms[o] = AgreementTerms[a]
  BY <1>1 DEF PaysFor, Alike
<1> HIDE DEF a, out
<1>4. payout'[a] = out /\ \A x \in Agreements \ {a} : payout'[x] = payout[x]
  BY <1>2
<1>5. Accounts' = Accounts /\ UNCHANGED usdc
  BY DEF Accounts, Account
<1>6. Accounts[o] = Account(o) /\ Account(o).stage = "Released"
      /\ Account(o).funder = position[o].funder /\ Account(o).owed = position[o].repayment
  BY <1>1 DEF Accounts, Account, PaysFor, Released
<1>7. Repayments[a] = Promise!Unpaid
  BY <1>2 DEF Repayments, NoSplit, Promise!Unpaid
<1>8. Repayments' = [Repayments EXCEPT ![a] = [payee |-> Accounts[o].funder, paid |-> Accounts[o].owed]]
  BY <1>2, <1>3, <1>4, <1>6 DEF Repayments
<1>9. Promise!Repay(a)
  BY <1>3, <1>5, <1>6, <1>7, <1>8 DEF Promise!Repay
<1> QED
  BY <1>2, <1>9 DEF Promise!Next

LEMMA PromiseInit == Init => Promise!Init
BY DEF Init, Promise!Init, Accounts, Account, Repayments, NoPosition, NoSplit, Promise!Unfunded, Promise!Unpaid

LEMMA PromiseStep == MoneyInv /\ [Next]_vars => [Promise!Next]_Promise!vars
<1> SUFFICES ASSUME MoneyInv, [Next]_vars PROVE [Promise!Next]_Promise!vars
  OBVIOUS
<1>0. TypeOK
  BY DEF MoneyInv, SignaturesInv
<1>1. CASE UNCHANGED <<position, usdc, payout>>
  BY <1>1 DEF Promise!vars, Accounts, Account, Repayments
<1>2. ASSUME NEW t \in terms, fundAdvance(t), payout' = payout PROVE Promise!Next
  BY <1>0, <1>2, FundingPromised
<1>3. ASSUME NEW p \in proofs, releaseAdvance(p), payout' = payout PROVE Promise!Next
  BY <1>3, ReleasePromised
<1>4. ASSUME NEW o \in Offers, refundAdvance(o), payout' = payout PROVE Promise!Next
  BY <1>0, <1>4, RefundPromised
<1>5. ASSUME NEW s \in splits, settleRepayment(s), UNCHANGED <<position, usdc>> PROVE Promise!Next
  BY <1>5, SettlementPromised
<1> QED
  BY <1>1, <1>2, <1>3, <1>4, <1>5, PromiseWriters

\* The two contracts and every signature in between implement the promise to a funder:
\* an advance leaves the escrow once, back or against an agreement of its own, and a
\* payment repays once, the funder of an advance of its terms at the price it was funded at.
THEOREM AdvancesKeepPromise == Spec => KeepsPromise
BY PromiseInit, PromiseStep, MoneyHolds, PTL DEF Spec, KeepsPromise, Promise!Spec

-----------------------------------------------------------------------------
(* The assessment's record.  A completed record is never taken away, so a  *)
(* submission that read it still finds it (SubmissionsHold).  What is kept *)
(* for an undisplaced record is a chain of reasons: an assignment is of    *)
(* the record's own offer and of an approved one, a review is pending or   *)
(* declined only while the verdict is to escalate, and so nobody who may   *)
(* still replace the offer does so once it is assigned (AssignmentHolds).  *)

SignedOffers == Requests \cup Operators

\* What the store has under the key.
PendingRecords == [status : {"pending"}, by : Requests, payload : Payloads]
CompletedRecords ==
    [status : {"completed"}, by : Requests, payload : Payloads, verdict : Verdicts,
     offer : SignedOffers, review : {"none", "pending", "declined", "approved"},
     assigned : SignedOffers \cup {NoOffer}]

\* How far each request and each review call is.
Working ==
    {Idle, [pc |-> "refused"], [pc |-> "failing"]}
        \cup [pc : {"assessing"}, payload : Payloads]
        \cup [pc : {"assessed"}, payload : Payloads, verdict : Verdicts]
Reviewing == {Idle, [pc |-> "submitting"], [pc |-> "approving"]}

RecordTypes ==
    /\ record \in {Absent} \cup PendingRecords \cup CompletedRecords
    /\ request \in [Requests -> Working]
    /\ reviewer \in [Operators -> Reviewing]

SubmissionsHold ==
    \A o \in Operators : reviewer[o].pc = "submitting" =>
        /\ record.status = "completed"
        /\ displaced = {} => record.verdict = "ESCALATE" \/ record.review = "approved"

AssignmentHolds ==
    record.status = "completed" /\ displaced = {} =>
        /\ record.review \in {"pending", "declined"} => record.verdict = "ESCALATE"
        /\ record.assigned # NoOffer => record.assigned = record.offer /\ record.verdict = "APPROVE"

RecordInv == RecordTypes /\ OneAssessmentAtATime /\ SubmissionsHold /\ AssignmentHolds

LEMMA RecordFacts ==
    /\ Absent.status = "absent" /\ Idle.pc = "idle"
    /\ \A r \in Requests, p \in Payloads :
          /\ Pending(r, p) \in PendingRecords
          /\ Pending(r, p).status = "pending" /\ Pending(r, p).by = r
    /\ \A r \in Requests, p \in Payloads, v \in Verdicts :
          /\ Completed(r, p, v) \in CompletedRecords
          /\ Completed(r, p, v).review = "none" /\ Completed(r, p, v).assigned = NoOffer
    /\ \A old \in PendingRecords : old.status = "pending"
    /\ \A old \in CompletedRecords : old.status = "completed"
BY DEF Absent, Idle, Pending, Completed, PendingRecords, CompletedRecords,
   SignedOffers

\* The changes that reviewers and partners make to a completed record.
LEMMA ReviewChanges ==
    ASSUME NEW old \in CompletedRecords, NEW review \in {"none", "pending", "declined", "approved"},
           NEW new, new = [old EXCEPT !.review = review]
    PROVE  /\ new \in CompletedRecords /\ new.review = review
           /\ new.verdict = old.verdict /\ new.offer = old.offer /\ new.assigned = old.assigned
BY DEF CompletedRecords

LEMMA SelectionChanges ==
    ASSUME NEW old \in CompletedRecords, NEW new, new = [old EXCEPT !.assigned = old.offer]
    PROVE  /\ new \in CompletedRecords /\ new.review = old.review
           /\ new.verdict = old.verdict /\ new.offer = old.offer /\ new.assigned = old.offer
BY DEF CompletedRecords

LEMMA WorkingFacts ==
    /\ \A p \in Payloads : [pc |-> "assessing", payload |-> p] \in Working
    /\ \A p \in Payloads, v \in Verdicts :
          [pc |-> "assessed", payload |-> p, verdict |-> v] \in Working
    /\ Idle \in Working /\ [pc |-> "refused"] \in Working /\ [pc |-> "failing"] \in Working
    /\ \A w \in Working : w.pc = "assessing" => w.payload \in Payloads
    /\ \A w \in Working : w.pc = "assessed" => w.payload \in Payloads /\ w.verdict \in Verdicts
BY DEF Working, Idle

\* A request at work: it registers a record, completes or cleans it up, or stops.
LEMMA RequestStep ==
    ASSUME RecordInv, NEW r \in Requests,
           Ask(r) \/ Work(r) \/ Fail(r) \/ Crash(r)
    PROVE  RecordInv'
<1> USE DEF RecordInv
<1>1. /\ record \in {Absent} \cup PendingRecords \cup CompletedRecords
      /\ request \in [Requests -> Working] /\ reviewer \in [Operators -> Reviewing]
    BY DEF RecordTypes
<1>2. CASE UNCHANGED assessmentVars
    BY <1>2 DEF assessmentVars, RecordTypes, OneAssessmentAtATime, AtWork, SubmissionsHold,
       AssignmentHolds
<1>3. ASSUME NEW p \in Payloads, Register(r, p) PROVE RecordInv'
  <2>1. /\ record = Absent \/ record.status = "absent"
        /\ record' = Pending(r, p) /\ reviewer' = reviewer
        /\ request' = [request EXCEPT ![r] = [pc |-> "assessing", payload |-> p]]
        /\ displaced' = displaced \ {r} /\ record.status = "absent"
      BY <1>3, RecordFacts DEF Register, KeyFree
  <2>2. RecordTypes'
      BY <1>1, <2>1, RecordFacts, WorkingFacts DEF RecordTypes
  <2>3. OneAssessmentAtATime'
    <3>1. SUFFICES ASSUME NEW q \in Requests, request'[q].pc \in {"assessing", "assessed"}
                   PROVE  q \in displaced' \/ (record'.status = "pending" /\ record'.by = q)
        BY DEF OneAssessmentAtATime, AtWork
    <3>2. CASE q = r
        BY <2>1, <3>2, RecordFacts
    <3>3. CASE q # r
        BY <1>1, <2>1, <3>1, <3>3 DEF OneAssessmentAtATime, AtWork
    <3>4. QED
        BY <3>2, <3>3
  <2>4. SubmissionsHold' /\ AssignmentHolds'
      BY <2>1, RecordFacts DEF SubmissionsHold, AssignmentHolds
  <2>5. QED
      BY <2>2, <2>3, <2>4
<1>4. CASE Complete(r)
  <2>1. /\ request[r].pc = "assessed" /\ reviewer' = reviewer
        /\ record' = Completed(r, request[r].payload, request[r].verdict)
        /\ request' = [request EXCEPT ![r] = Idle]
        /\ displaced' = displaced \cup Holders(r)
      BY <1>4 DEF Complete
  <2>2. request[r].payload \in Payloads /\ request[r].verdict \in Verdicts
      BY <1>1, <2>1, WorkingFacts
  <2>3. record' \in CompletedRecords /\ record'.status = "completed" /\ record'.review = "none"
        /\ record'.assigned = NoOffer
      BY <2>1, <2>2, RecordFacts
  <2>4. RecordTypes'
      BY <1>1, <2>1, <2>3, WorkingFacts DEF RecordTypes
  <2>5. OneAssessmentAtATime'
    <3>1. SUFFICES ASSUME NEW q \in Requests, request'[q].pc \in {"assessing", "assessed"}
                   PROVE  q \in displaced'
        BY DEF OneAssessmentAtATime, AtWork
    <3>2. q # r /\ request'[q] = request[q]
        BY <1>1, <2>1, <3>1, RecordFacts
    <3>3. q \in displaced \/ (record.status = "pending" /\ record.by = q)
        BY <3>1, <3>2 DEF OneAssessmentAtATime, AtWork
    <3>4. QED
        BY <2>1, <3>1, <3>2, <3>3 DEF Holders, AtWork
  <2>6. AssignmentHolds'
      BY <2>3 DEF AssignmentHolds
  <2>7. SubmissionsHold'
    \* the writer is displaced, or nobody can have read a completed record
    <3>1. SUFFICES ASSUME NEW o \in Operators, reviewer[o].pc = "submitting" PROVE displaced' # {}
        BY <2>1, <2>3 DEF SubmissionsHold
    <3>2. record.status = "completed"
        BY <3>1 DEF SubmissionsHold
    <3>3. r \in displaced
        BY <2>1, <3>2 DEF OneAssessmentAtATime, AtWork
    <3>4. QED
        BY <2>1, <3>3
  <2>8. QED
      BY <2>4, <2>5, <2>6, <2>7
<1>5. CASE CleanUp(r) /\ Removes(r)
  <2>1. /\ record.status = "pending" /\ record' = Absent /\ reviewer' = reviewer
        /\ request' = [request EXCEPT ![r] = Idle]
        /\ displaced' = displaced \cup Holders(r)
      BY <1>5 DEF CleanUp, Removes
  <2>2. RecordTypes'
      BY <1>1, <2>1, WorkingFacts DEF RecordTypes
  <2>3. OneAssessmentAtATime'
    <3>1. SUFFICES ASSUME NEW q \in Requests, request'[q].pc \in {"assessing", "assessed"}
                   PROVE  q \in displaced'
        BY DEF OneAssessmentAtATime, AtWork
    <3>2. q # r /\ request'[q] = request[q]
        BY <1>1, <2>1, <3>1, RecordFacts
    <3>3. q \in displaced \/ (record.status = "pending" /\ record.by = q)
        BY <3>1, <3>2 DEF OneAssessmentAtATime, AtWork
    <3>4. QED
        BY <2>1, <3>1, <3>2, <3>3 DEF Holders, AtWork
  <2>4. SubmissionsHold' /\ AssignmentHolds'
      BY <2>1, RecordFacts DEF SubmissionsHold, AssignmentHolds
  <2>5. QED
      BY <2>2, <2>3, <2>4
<1>6. ASSUME UNCHANGED <<record, displaced, reviewer>>,
             NEW next \in Working, request' = [request EXCEPT ![r] = next],
             next.pc \in {"assessing", "assessed"} => AtWork(r)
      PROVE  RecordInv'
  <2>1. RecordTypes' /\ SubmissionsHold' /\ AssignmentHolds'
      BY <1>1, <1>6 DEF RecordTypes, SubmissionsHold, AssignmentHolds
  <2>2. \A q \in Requests : AtWork(q)' => AtWork(q)
      BY <1>1, <1>6 DEF AtWork
  <2>3. OneAssessmentAtATime'
      BY <1>6, <2>2 DEF OneAssessmentAtATime
  <2>4. QED
      BY <2>1, <2>3
<1>7. ASSUME NEW p \in Payloads, Conflict(r, p) PROVE RecordInv'
    BY <1>6, <1>7, WorkingFacts DEF Conflict
<1>8. ASSUME NEW v \in Verdicts, Assess(r, v) PROVE RecordInv'
  <2> DEFINE next == [pc |-> "assessed", payload |-> request[r].payload, verdict |-> v]
  <2>1. next \in Working /\ AtWork(r) /\ request' = [request EXCEPT ![r] = next]
      BY <1>1, <1>8, WorkingFacts DEF Assess, AtWork
  <2> HIDE DEF next
  <2>2. QED
      BY <1>6, <1>8, <2>1 DEF Assess
<1>9. CASE CleanUp(r) /\ ~Removes(r)
    BY <1>6, <1>9, WorkingFacts, RecordFacts DEF CleanUp
<1>10. CASE Fail(r) \/ Crash(r)
    BY <1>6, <1>10, WorkingFacts, RecordFacts DEF Fail, Crash
<1>11. QED
    BY <1>2, <1>3, <1>4, <1>5, <1>7, <1>8, <1>9, <1>10 DEF Ask, Work, Replay

\* A review call, an operator's decline or a partner's selection.
LEMMA ReviewStep ==
    ASSUME RecordInv, (\E o \in Operators : Review(o)) \/ Decline \/ Select
    PROVE  RecordInv'
<1> USE DEF RecordInv
<1>1. /\ record \in {Absent} \cup PendingRecords \cup CompletedRecords
      /\ request \in [Requests -> Working] /\ reviewer \in [Operators -> Reviewing]
    BY DEF RecordTypes
<1>2. record.status = "completed" => record \in CompletedRecords
    BY <1>1, RecordFacts
<1>3. \A next \in Reviewing : next.pc \in {"idle", "submitting", "approving"}
    BY RecordFacts DEF Reviewing
\* The calls that only read, or give up.
<1>4. ASSUME NEW o \in Operators, UNCHANGED <<record, request, displaced>>,
             NEW next \in Reviewing, reviewer' = [reviewer EXCEPT ![o] = next],
             next.pc = "submitting" => record.status = "completed" /\ record.verdict = "ESCALATE"
      PROVE  RecordInv'
  <2>1. RecordTypes' /\ AssignmentHolds' /\ OneAssessmentAtATime'
      BY <1>1, <1>4 DEF RecordTypes, AssignmentHolds, OneAssessmentAtATime, AtWork
  <2>2. SubmissionsHold'
      BY <1>1, <1>4 DEF SubmissionsHold
  <2>3. QED
      BY <2>1, <2>2
\* The writes: the record stays completed.
<1>5. ASSUME record.status = "completed", record' \in CompletedRecords, UNCHANGED <<request, displaced>>,
             reviewer' \in [Operators -> Reviewing], AssignmentHolds',
             \A o \in Operators : reviewer'[o].pc = "submitting" => reviewer[o].pc = "submitting",
             record.verdict = "ESCALATE" \/ record.review = "approved" =>
                 record'.verdict = "ESCALATE" \/ record'.review = "approved"
      PROVE  RecordInv'
  <2>1. RecordTypes' /\ record'.status = "completed"
      BY <1>1, <1>5, RecordFacts DEF RecordTypes
  <2>2. OneAssessmentAtATime'
      BY <1>5 DEF OneAssessmentAtATime, AtWork
  <2>3. SubmissionsHold'
      BY <1>5, <2>1 DEF SubmissionsHold
  <2>4. QED
      BY <1>5, <2>1, <2>2, <2>3
<1>6. ASSUME NEW o \in Operators, Submit(o) PROVE RecordInv'
  <2>1. /\ record \in CompletedRecords /\ record.status = "completed" /\ reviewer[o].pc = "submitting"
        /\ record' = [record EXCEPT !.review = IF record.review = "approved" THEN "approved" ELSE "pending"]
        /\ reviewer' = [reviewer EXCEPT ![o] = Idle] /\ UNCHANGED <<request, displaced>>
      BY <1>2, <1>6 DEF Submit, Submitted
  <2>2. PICK review \in {"none", "pending", "declined", "approved"} :
            /\ record' = [record EXCEPT !.review = review]
            /\ review = IF record.review = "approved" THEN "approved" ELSE "pending"
      BY <2>1
  <2>3. /\ record' \in CompletedRecords /\ record'.review = review
        /\ record'.verdict = record.verdict /\ record'.offer = record.offer
        /\ record'.assigned = record.assigned
      BY <2>1, <2>2, ReviewChanges
  <2>4. displaced = {} => record.verdict = "ESCALATE" \/ record.review = "approved"
      BY <2>1 DEF SubmissionsHold
  <2>5. AssignmentHolds'
      BY <2>1, <2>2, <2>3, <2>4 DEF AssignmentHolds
  <2>6. QED
      BY <1>1, <1>5, <2>1, <2>2, <2>3, <2>5, RecordFacts DEF Reviewing
<1>7. CASE Decline
  <2>1. /\ record \in CompletedRecords /\ record.status = "completed" /\ record.review = "pending"
        /\ record' = [record EXCEPT !.review = "declined"] /\ UNCHANGED <<request, reviewer, displaced>>
      BY <1>2, <1>7 DEF Decline
  <2>2. /\ record' \in CompletedRecords /\ record'.review = "declined"
        /\ record'.verdict = record.verdict /\ record'.offer = record.offer
        /\ record'.assigned = record.assigned
      BY <2>1, ReviewChanges
  <2>3. AssignmentHolds'
      BY <2>1, <2>2 DEF AssignmentHolds
  <2>4. QED
      BY <1>1, <1>5, <2>1, <2>2, <2>3
<1>8. ASSUME NEW o \in Operators, Approve(o) PROVE RecordInv'
  <2>1. /\ record \in CompletedRecords /\ record.status = "completed" /\ record.review = "pending"
        /\ record' = [record EXCEPT !.verdict = "APPROVE", !.offer = o, !.review = "approved"]
        /\ reviewer' = [reviewer EXCEPT ![o] = Idle] /\ UNCHANGED <<request, displaced>>
      BY <1>2, <1>8 DEF Approve, StillPending
  <2>2. /\ record' \in CompletedRecords /\ record'.review = "approved"
        /\ record'.verdict = "APPROVE" /\ record'.assigned = record.assigned
      BY <2>1 DEF CompletedRecords, SignedOffers, Verdicts
  <2>3. AssignmentHolds'
      BY <2>1, <2>2 DEF AssignmentHolds
  <2>4. QED
      BY <1>1, <1>5, <2>1, <2>2, <2>3, RecordFacts DEF Reviewing
<1>9. CASE Select
  <2>1. /\ record \in CompletedRecords /\ record.status = "completed" /\ record.verdict = "APPROVE"
        /\ record' = [record EXCEPT !.assigned = record.offer] /\ UNCHANGED <<request, reviewer, displaced>>
      BY <1>2, <1>9 DEF Select
  <2>2. /\ record' \in CompletedRecords /\ record'.review = record.review
        /\ record'.verdict = record.verdict /\ record'.offer = record.offer
        /\ record'.assigned = record.offer
      BY <2>1, SelectionChanges
  <2>3. AssignmentHolds'
      BY <2>1, <2>2 DEF AssignmentHolds
  <2>4. QED
      BY <1>1, <1>5, <2>1, <2>2, <2>3
<1>10. ASSUME NEW o \in Operators, ReadForSubmission(o) \/ ReadForApproval(o) \/ GiveUp(o)
       PROVE  RecordInv'
    BY <1>4, <1>10, RecordFacts DEF ReadForSubmission, ReadForApproval, GiveUp, Reviewing
<1>11. QED
    BY <1>6, <1>7, <1>8, <1>9, <1>10 DEF Review

LEMMA RecordStep == RecordInv /\ [AssessmentNext]_assessmentVars => RecordInv'
<1>1. CASE UNCHANGED assessmentVars
    BY <1>1 DEF assessmentVars, RecordInv, RecordTypes, OneAssessmentAtATime, AtWork,
       SubmissionsHold, AssignmentHolds
<1>2. QED
    BY <1>1, RequestStep, ReviewStep DEF AssessmentNext

LEMMA RecordInit == AssessmentInit => RecordInv
BY RecordFacts, WorkingFacts
   DEF AssessmentInit, RecordInv, RecordTypes, OneAssessmentAtATime, AtWork, SubmissionsHold,
       AssignmentHolds, Reviewing

LEMMA RecordInvariant == AssessmentSpec => []RecordInv
BY RecordInit, RecordStep, PTL DEF AssessmentSpec

\* Whoever assesses a request holds its pending record, unless another's failure or late
\* answer took that away, for any number of handlers, retries and crashes.
THEOREM OneAssessment == AssessmentSpec => []OneAssessmentAtATime
<1>1. RecordInv => OneAssessmentAtATime
    BY DEF RecordInv
<1>2. QED
    BY RecordInvariant, <1>1, PTL

\* Terms signed for an offer keep that offer and their assignment, whatever assessments,
\* submissions and review decisions come late, unless a request was displaced at work.
THEOREM AssignmentsStay == AssessmentSpec => AssignmentsSurvive
<1> DEFINE Stays ==
        record.status = "completed" /\ record.assigned # NoOffer /\ displaced = {} =>
            /\ record'.status = "completed"
            /\ record'.offer = record.offer /\ record'.assigned = record.assigned
<1>1. RecordInv /\ [AssessmentNext]_assessmentVars => [Stays]_assessmentVars
  <2>1. SUFFICES ASSUME RecordInv, AssessmentNext, record.status = "completed",
                        record.assigned # NoOffer, displaced = {}
                 PROVE  /\ record'.status = "completed"
                        /\ record'.offer = record.offer /\ record'.assigned = record.assigned
      BY DEF AssessmentNext
  <2>2. record \in CompletedRecords
      BY <2>1, RecordFacts DEF RecordInv, RecordTypes
  <2>3. /\ record.assigned = record.offer /\ record.verdict = "APPROVE"
        /\ record.review \notin {"pending", "declined"}
      BY <2>1 DEF RecordInv, AssignmentHolds
  <2>4. \A r \in Requests : ~AtWork(r)
      BY <2>1 DEF RecordInv, OneAssessmentAtATime
  <2>5. ASSUME NEW r \in Requests, Ask(r) \/ Work(r) \/ Fail(r) \/ Crash(r)
        PROVE  record' = record
      BY <2>1, <2>4, <2>5
      DEF Ask, Register, KeyFree, Replay, assessmentVars, Conflict,
          Work, Assess, Complete, AtWork, CleanUp, Removes,
          Fail, Crash
  <2>6. ASSUME NEW o \in Operators, Submit(o)
        PROVE  \E review \in {"none", "pending", "declined", "approved"} :
                   record' = [record EXCEPT !.review = review]
      BY <2>6 DEF Submit, Submitted
  <2>7. \/ record' = record
        \/ \E review \in {"none", "pending", "declined", "approved"} :
               record' = [record EXCEPT !.review = review]
        \/ record' = [record EXCEPT !.assigned = record.offer]
      BY <2>1, <2>3, <2>5, <2>6
      DEF AssessmentNext, Review, ReadForSubmission, ReadForApproval, GiveUp,
          Approve, StillPending, Decline, Select
  <2>8. QED
      BY <2>1, <2>2, <2>3, <2>7, RecordFacts, ReviewChanges, SelectionChanges
<1>2. QED
    BY RecordInvariant, <1>1, PTL DEF AssessmentSpec, AssignmentsSurvive

-----------------------------------------------------------------------------
(* The settlement of an advance. *)

\* A checkpoint is at or before every settlement, and before every one to come: those
\* are mined above what a reorganisation within the overlap leaves of the chain.
Ahead(c, blocks, top, back) ==
    back <= 2 =>
        /\ c <= 1 \/ c < top
        /\ \A h \in 1 .. Len(blocks) : blocks[h].by # NoSender => c <= h

\* Evidence is of a block that was confirmed, hence stays.
Stands(e, blocks, top, back) ==
    e # NoEvidence /\ back <= 1 =>
        /\ e.block \in 1 .. Len(blocks) /\ e.block < top
        /\ e = [block |-> e.block, fork |-> blocks[e.block].fork, by |-> blocks[e.block].by]

RequestHolds(r, blocks, top, back) ==
    /\ r.checkpoint # NoBlock => Ahead(r.checkpoint, blocks, top, back)
    /\ Stands(r.evidence, blocks, top, back)

\* A pass that is about to sign found no settlement after it read the chain's height.
PassHolds(p, blocks, top, back) ==
    /\ p.checkpoint # NoBlock => Ahead(p.checkpoint, blocks, top, back)
    /\ p.pc = "save" => p.checkpoint # NoBlock
    /\ p.pc \in {"check", "sign"} /\ p.checkpoint = NoBlock => p.start \in 1 .. top
    /\ p.pc = "sign" /\ p.checkpoint = NoBlock => Ahead(FirstBlock(p.start), blocks, top, back)
    /\ Stands(p.found, blocks, top, back)

BlocksHold ==
    /\ Len(chain) >= 1 /\ chain[1].by = NoSender
    /\ Len(chain) <= peak /\ peak - Len(chain) <= taken

SettlementInv ==
    /\ SettlementTypeOK
    /\ BlocksHold
    /\ handler = "decline" => funding.status = "pending"
    /\ RequestHolds(funding, chain, peak, taken)
    /\ \A w \in Workers : PassHolds(pass[w], chain, peak, taken)

LEMMA NothingFound ==
    /\ NoEvidence \in EvidenceType /\ NoPass \in PassType
    /\ \A blocks, top, back : Stands(NoEvidence, blocks, top, back)
    /\ \A blocks, top, back : PassHolds(NoPass, blocks, top, back)
    /\ \A s : /\ NewRequest(s).status = s /\ NewRequest(s).checkpoint = NoBlock
              /\ NewRequest(s).evidence = NoEvidence
              /\ s \in {"none", "pending", "declined", "settled"} =>
                     NewRequest(s) \in [status : {"none", "pending", "declined", "settled"},
                                        checkpoint : BlockType, evidence : EvidenceType]
              /\ \A blocks, top, back : RequestHolds(NewRequest(s), blocks, top, back)
<1>1. NoEvidence \in EvidenceType /\ NoBlock \in BlockType
  BY DEF EvidenceType, BlockType
<1>2. NoPass \in PassType
  BY <1>1 DEF NoPass, PassType
<1>3. \A blocks, top, back : Stands(NoEvidence, blocks, top, back)
  BY DEF Stands
<1>4. \A blocks, top, back : PassHolds(NoPass, blocks, top, back)
  BY <1>3 DEF PassHolds, NoPass
<1>5. QED
  BY <1>1, <1>2, <1>3, <1>4 DEF NewRequest, RequestHolds

LEMMA ChainFacts ==
    ASSUME SettlementTypeOK
    PROVE  /\ Len(chain) \in Nat /\ DOMAIN chain = 1 .. Len(chain)
           /\ \A h \in 1 .. Len(chain) : chain[h] \in [fork : Nat, by : Senders \cup {NoSender}]
<1>1. chain \in Seq([fork : Nat, by : Senders \cup {NoSender}])
  BY DEF SettlementTypeOK
<1>2. QED
  BY <1>1, LenProperties, ElementOfSeq

-----------------------------------------------------------------------------

\* What a step of the chain may do to a chain that any evidence, checkpoint or pass is
\* held against.
Moves == \/ \E by \in Senders \cup {NoSender} : Mine(by) /\ UNCHANGED taken
         \/ \E depth \in Nat : 
                LET kept == Len(chain) - depth IN
                /\ kept >= 1
                /\ chain' = SubSeq(chain, 1, kept)
                /\ peak' = peak /\ taken' = Greater(taken, peak - kept)
         \/ UNCHANGED <<chain, peak, taken>>

LEMMA MinedBlocks ==
    ASSUME SettlementTypeOK, BlocksHold, NEW by \in Senders \cup {NoSender}, Mine(by), UNCHANGED taken
    PROVE  /\ chain' \in Seq([fork : Nat, by : Senders \cup {NoSender}])
           /\ Len(chain') = Len(chain) + 1
           /\ \A h \in 1 .. Len(chain) : chain'[h] = chain[h]
           /\ peak' \in Nat /\ peak <= peak' /\ Len(chain') <= peak'
           /\ BlocksHold'
<1>1. chain \in Seq([fork : Nat, by : Senders \cup {NoSender}]) /\ fork \in Nat /\ peak \in Nat
      /\ taken \in Nat /\ taken' = taken
  BY DEF SettlementTypeOK
<1>2. /\ chain' \in Seq([fork : Nat, by : Senders \cup {NoSender}]) /\ Len(chain') = Len(chain) + 1
      /\ \A h \in 1 .. Len(chain) : chain'[h] = chain[h]
  BY <1>1 DEF Mine
<1>3. Len(chain) \in Nat
  BY <1>1
<1>4. /\ peak' \in Nat /\ peak <= peak' /\ Len(chain') <= peak'
      /\ peak' - Len(chain') <= taken
  BY <1>1, <1>2, <1>3 DEF Mine, Greater, BlocksHold
<1>5. 1 \in 1 .. Len(chain) /\ chain[1].by = NoSender
  BY <1>3 DEF BlocksHold
<1>6. Len(chain') >= 1 /\ chain'[1].by = NoSender
  BY <1>2, <1>3, <1>5
<1>7. BlocksHold'
  BY <1>1, <1>4, <1>6 DEF BlocksHold
<1>8. QED
  BY <1>2, <1>4, <1>7

LEMMA KeptBlocks ==
    ASSUME SettlementTypeOK, BlocksHold, NEW kept \in Int, 1 <= kept, kept <= Len(chain),
           chain' = SubSeq(chain, 1, kept), peak' = peak, taken' = Greater(taken, peak - kept)
    PROVE  /\ chain' \in Seq([fork : Nat, by : Senders \cup {NoSender}])
           /\ Len(chain') = kept /\ \A h \in 1 .. kept : chain'[h] = chain[h]
           /\ taken' \in Nat /\ taken <= taken' /\ peak - kept <= taken'
           /\ BlocksHold'
<1>1. chain \in Seq([fork : Nat, by : Senders \cup {NoSender}]) /\ peak \in Nat /\ taken \in Nat
      /\ Len(chain) \in Nat
  BY DEF SettlementTypeOK
<1>2. /\ chain' \in Seq([fork : Nat, by : Senders \cup {NoSender}])
      /\ Len(chain') = kept /\ \A h \in 1 .. kept : chain'[h] = chain[h]
  <2>1. /\ \A h \in 1 .. kept : chain[h] \in [fork : Nat, by : Senders \cup {NoSender}]
        /\ \A h \in 1 .. kept : 1 + h - 1 = h
        /\ kept - 1 + 1 = kept
    BY <1>1, ChainFacts
  <2>2. /\ SubSeq(chain, 1, kept) \in Seq([fork : Nat, by : Senders \cup {NoSender}])
        /\ Len(SubSeq(chain, 1, kept)) = kept
        /\ \A h \in 1 .. kept : SubSeq(chain, 1, kept)[h] = chain[h]
    BY <2>1, SubSeqProperties
  <2>3. QED
    BY <2>2
<1>3. taken' \in Nat /\ taken <= taken' /\ peak - kept <= taken'
  BY <1>1 DEF Greater, BlocksHold
<1>4. 1 \in 1 .. kept /\ chain[1].by = NoSender /\ Len(chain) <= peak
  BY DEF BlocksHold
<1>5. Len(chain') >= 1 /\ chain'[1].by = NoSender
  BY <1>2, <1>4
<1>6. Len(chain') <= peak' /\ peak' - Len(chain') <= taken'
  BY <1>1, <1>2, <1>3, <1>4
<1>7. BlocksHold'
  BY <1>5, <1>6 DEF BlocksHold
<1>8. QED
  BY <1>2, <1>3, <1>7

\* Whatever the chain does, checkpoints stay ahead and evidence stands.
LEMMA ChainMoves ==
    ASSUME SettlementTypeOK, BlocksHold, Moves
    PROVE  /\ chain' \in Seq([fork : Nat, by : Senders \cup {NoSender}])
           /\ peak' \in Nat /\ taken' \in Nat /\ peak <= peak'
           /\ BlocksHold'
           /\ \A c \in Int : Ahead(c, chain, peak, taken) => Ahead(c, chain', peak', taken')
           /\ \A e \in EvidenceType :
                 Stands(e, chain, peak, taken) => Stands(e, chain', peak', taken')
<1> USE ChainFacts
<1>0. chain \in Seq([fork : Nat, by : Senders \cup {NoSender}]) /\ peak \in Nat /\ taken \in Nat
      /\ Len(chain) \in Nat
  BY DEF SettlementTypeOK
<1>1. ASSUME NEW by \in Senders \cup {NoSender}, Mine(by), UNCHANGED taken
      PROVE  /\ \A c \in Int : Ahead(c, chain, peak, taken) => Ahead(c, chain', peak', taken')
             /\ \A e \in EvidenceType :
                   Stands(e, chain, peak, taken) => Stands(e, chain', peak', taken')
             /\ BlocksHold' /\ chain' \in Seq([fork : Nat, by : Senders \cup {NoSender}])
             /\ peak' \in Nat /\ peak <= peak'
  <2>1. /\ chain' \in Seq([fork : Nat, by : Senders \cup {NoSender}])
        /\ Len(chain') = Len(chain) + 1 /\ \A h \in 1 .. Len(chain) : chain'[h] = chain[h]
        /\ peak' \in Nat /\ peak <= peak' /\ Len(chain') <= peak' /\ BlocksHold'
    BY <1>1, MinedBlocks
  <2>2. ASSUME NEW c \in Int, Ahead(c, chain, peak, taken)
        PROVE  Ahead(c, chain', peak', taken')
    <3>1. SUFFICES ASSUME taken <= 2
                   PROVE  /\ c <= 1 \/ c < peak'
                          /\ \A h \in 1 .. Len(chain') : chain'[h].by # NoSender => c <= h
      BY <1>1 DEF Ahead
    <3>2. (c <= 1 \/ c < peak) /\ \A h \in 1 .. Len(chain) : chain[h].by # NoSender => c <= h
      BY <2>2, <3>1 DEF Ahead
    <3>3. c <= Len(chain) + 1
      BY <3>1, <3>2, <1>0 DEF BlocksHold
    <3>4. c <= 1 \/ c < peak'
      BY <1>0, <2>1, <3>2
    <3>5. ASSUME NEW h \in 1 .. Len(chain'), chain'[h].by # NoSender PROVE c <= h
      <4>1. CASE h \in 1 .. Len(chain)
        BY <2>1, <3>2, <3>5, <4>1
      <4>2. CASE h = Len(chain) + 1
        BY <3>3, <4>2
      <4> QED
        BY <1>0, <2>1, <4>1, <4>2
    <3>6. QED
      BY <3>4, <3>5
  <2>3. ASSUME NEW e \in EvidenceType, Stands(e, chain, peak, taken)
        PROVE  Stands(e, chain', peak', taken')
    BY <1>0, <1>1, <2>1, <2>3 DEF Stands, EvidenceType
  <2>4. QED
    BY <2>1, <2>2, <2>3
<1>2. ASSUME NEW kept \in Int, 1 <= kept, kept <= Len(chain),
             chain' = SubSeq(chain, 1, kept), peak' = peak, taken' = Greater(taken, peak - kept)
      PROVE  /\ \A c \in Int : Ahead(c, chain, peak, taken) => Ahead(c, chain', peak', taken')
             /\ \A e \in EvidenceType :
                   Stands(e, chain, peak, taken) => Stands(e, chain', peak', taken')
             /\ BlocksHold' /\ chain' \in Seq([fork : Nat, by : Senders \cup {NoSender}])
             /\ taken' \in Nat
  <2>1. /\ chain' \in Seq([fork : Nat, by : Senders \cup {NoSender}])
        /\ Len(chain') = kept /\ \A h \in 1 .. kept : chain'[h] = chain[h]
        /\ taken' \in Nat /\ taken <= taken' /\ peak - kept <= taken' /\ BlocksHold'
    BY <1>2, KeptBlocks
  <2>2. ASSUME NEW c \in Int, Ahead(c, chain, peak, taken)
        PROVE  Ahead(c, chain', peak', taken')
    BY <1>0, <1>2, <2>1, <2>2 DEF Ahead
  <2>3. ASSUME NEW e \in EvidenceType, Stands(e, chain, peak, taken)
        PROVE  Stands(e, chain', peak', taken')
    <3>1. SUFFICES ASSUME e # NoEvidence, taken' <= 1
                   PROVE  /\ e.block \in 1 .. Len(chain') /\ e.block < peak'
                          /\ chain'[e.block] = chain[e.block]
      BY <1>0, <2>1, <2>3, <1>2 DEF Stands
    <3>2. e.block \in 1 .. Len(chain) /\ e.block < peak
      BY <1>0, <2>1, <2>3, <3>1 DEF Stands
    <3>3. QED
      BY <1>0, <1>2, <2>1, <3>1, <3>2
  <2>4. QED
    BY <2>1, <2>2, <2>3
<1>3. CASE UNCHANGED <<chain, peak, taken>>
  BY <1>0, <1>3 DEF BlocksHold
<1>4. ASSUME NEW depth \in Nat, Len(chain) - depth >= 1,
             chain' = SubSeq(chain, 1, Len(chain) - depth), peak' = peak,
             taken' = Greater(taken, peak - (Len(chain) - depth))
      PROVE  /\ \A c \in Int : Ahead(c, chain, peak, taken) => Ahead(c, chain', peak', taken')
             /\ \A e \in EvidenceType :
                   Stands(e, chain, peak, taken) => Stands(e, chain', peak', taken')
             /\ BlocksHold' /\ chain' \in Seq([fork : Nat, by : Senders \cup {NoSender}])
             /\ taken' \in Nat
  <2>1. Len(chain) - depth \in Int /\ 1 <= Len(chain) - depth /\ Len(chain) - depth <= Len(chain)
    BY <1>0, <1>4
  <2>2. QED
    BY <1>2, <1>4, <2>1
<1>5. CASE \E by \in Senders \cup {NoSender} : Mine(by) /\ UNCHANGED taken
  BY <1>0, <1>1, <1>5
<1>6. CASE \E depth \in Nat :
              LET kept == Len(chain) - depth IN
              /\ kept >= 1
              /\ chain' = SubSeq(chain, 1, kept)
              /\ peak' = peak /\ taken' = Greater(taken, peak - kept)
  <2>1. PICK depth \in Nat : /\ Len(chain) - depth >= 1
                             /\ chain' = SubSeq(chain, 1, Len(chain) - depth) /\ peak' = peak
                             /\ taken' = Greater(taken, peak - (Len(chain) - depth))
    BY <1>6
  <2>2. QED
    BY <1>0, <1>4, <2>1
<1>7. QED
  BY <1>0, <1>3, <1>5, <1>6 DEF Moves

LEMMA HeldThroughMoves ==
    ASSUME SettlementInv, Moves
    PROVE  /\ RequestHolds(funding, chain', peak', taken')
           /\ \A w \in Workers : PassHolds(pass[w], chain', peak', taken')
<1>1. /\ \A c \in Int : Ahead(c, chain, peak, taken) => Ahead(c, chain', peak', taken')
      /\ \A e \in EvidenceType : Stands(e, chain, peak, taken) => Stands(e, chain', peak', taken')
      /\ peak \in Nat /\ peak' \in Nat /\ peak <= peak'
  BY ChainMoves DEF SettlementInv, SettlementTypeOK
<1>2. RequestHolds(funding, chain', peak', taken')
  <2>1. funding.checkpoint \in Int /\ funding.evidence \in EvidenceType
    BY DEF SettlementInv, SettlementTypeOK, BlockType, NoBlock
  <2>2. QED
    BY <1>1, <2>1 DEF SettlementInv, RequestHolds
<1>3. ASSUME NEW w \in Workers
      PROVE  PassHolds(pass[w], chain', peak', taken')
  <2>1. pass[w] \in PassType
    BY DEF SettlementInv, SettlementTypeOK
  <2>2. pass[w].checkpoint \in Int /\ pass[w].found \in EvidenceType
    BY <2>1 DEF PassType, BlockType, NoBlock
  <2>3. \A b \in 1 .. peak : b \in 1 .. peak' /\ FirstBlock(b) \in Int
    BY <1>1 DEF FirstBlock
  <2>4. PassHolds(pass[w], chain, peak, taken)
    BY DEF SettlementInv
  <2>5. QED
    BY <1>1, <2>2, <2>3, <2>4 DEF PassHolds
<1>4. QED
  BY <1>2, <1>3

\* A step of the chain, or of X Layer, keeps everything that store and passes hold.
LEMMA OutsideStep ==
    ASSUME SettlementInv, Moves, fork' \in Nat, pool' \subseteq Senders,
           xLayer' \in {"None", "Funded", "Released"}, completed' \in BOOLEAN,
           failures' \in Nat, UNCHANGED <<storeVars, workerVars>>
    PROVE  SettlementInv'
<1>1. BlocksHold' /\ chain' \in Seq([fork : Nat, by : Senders \cup {NoSender}])
      /\ peak' \in Nat /\ taken' \in Nat
  BY ChainMoves DEF SettlementInv
<1>2. /\ RequestHolds(funding, chain', peak', taken')
      /\ \A w \in Workers : PassHolds(pass[w], chain', peak', taken')
  BY HeldThroughMoves
<1>3. funding' = funding /\ handler' = handler /\ offered' = offered /\ lease' = lease /\ pass' = pass
  BY DEF storeVars, workerVars
<1>4. SettlementTypeOK'
  BY <1>1, <1>3 DEF SettlementInv, SettlementTypeOK
<1>5. QED
  BY <1>1, <1>2, <1>3, <1>4 DEF SettlementInv

\* A step of the store or of passes, on a chain that stands still.
LEMMA InsideStep ==
    ASSUME SettlementInv, UNCHANGED <<xLayerVars, chain, fork, peak, taken>>,
           pool' \subseteq Senders, failures' \in Nat, offered' \in BOOLEAN,
           handler' \in {"idle", "assign", "decline"},
           funding' \in [status : {"none", "pending", "declined", "settled"},
                        checkpoint : BlockType, evidence : EvidenceType],
           funding'.evidence # NoEvidence =>
               funding'.status = "settled" /\ funding'.checkpoint # NoBlock,
           handler' = "decline" => funding'.status = "pending",
           RequestHolds(funding', chain, peak, taken),
           lease' \in Workers \cup {NoSender}, pass' \in [Workers -> PassType],
           \A w \in Workers : PassHolds(pass'[w], chain, peak, taken)
    PROVE  SettlementInv'
<1>1. chain' = chain /\ fork' = fork /\ peak' = peak /\ taken' = taken /\ UNCHANGED <<xLayer, completed>>
  BY DEF xLayerVars
<1>2. SettlementTypeOK'
  BY <1>1 DEF SettlementInv, SettlementTypeOK
<1>3. BlocksHold'
  BY <1>1 DEF SettlementInv, BlocksHold
<1>4. QED
  BY <1>1, <1>2, <1>3 DEF SettlementInv

LEMMA HandlerStep ==
    ASSUME SettlementInv,
           SelectPartnerReads \/ SelectPartnerWrites \/ DeclineReads \/ DeclineWrites
    PROVE  SettlementInv'
<1>1. UNCHANGED <<xLayerVars, chain, fork, peak, taken>> /\ pool' = pool /\ failures' = failures
      /\ lease' = lease /\ pass' = pass
  BY DEF SelectPartnerReads, SelectPartnerWrites, DeclineReads, DeclineWrites, arcChain, workerVars
<1>2. /\ pool' \subseteq Senders /\ failures' \in Nat /\ lease' \in Workers \cup {NoSender}
      /\ pass' \in [Workers -> PassType]
      /\ \A w \in Workers : PassHolds(pass'[w], chain, peak, taken)
  BY <1>1 DEF SettlementInv, SettlementTypeOK
<1>3. /\ funding \in [status : {"none", "pending", "declined", "settled"},
                      checkpoint : BlockType, evidence : EvidenceType]
      /\ funding.evidence # NoEvidence =>
              funding.status = "settled" /\ funding.checkpoint # NoBlock
      /\ handler = "decline" => funding.status = "pending"
      /\ RequestHolds(funding, chain, peak, taken) /\ offered \in BOOLEAN
  BY DEF SettlementInv, SettlementTypeOK
<1>4. CASE SelectPartnerReads
  <2>1. funding' = funding /\ handler' = "assign" /\ offered' \in BOOLEAN
    BY <1>4 DEF SelectPartnerReads
  <2>2. QED
    BY <1>1, <1>2, <1>3, <2>1, InsideStep
<1>5. CASE DeclineReads
  <2>1. funding' = funding /\ handler' = "decline" /\ offered' = offered
        /\ funding.status = "pending"
    BY <1>5 DEF DeclineReads
  <2>2. QED
    BY <1>1, <1>2, <1>3, <2>1, InsideStep
<1>6. CASE SelectPartnerWrites
  <2>1. funding' = NewRequest("pending") /\ handler' = "idle" /\ offered' = offered
    BY <1>6 DEF SelectPartnerWrites
  <2>2. /\ funding' \in [status : {"none", "pending", "declined", "settled"},
                         checkpoint : BlockType, evidence : EvidenceType]
        /\ funding'.evidence = NoEvidence /\ RequestHolds(funding', chain, peak, taken)
    BY <2>1, NothingFound
  <2>3. QED
    BY <1>1, <1>2, <1>3, <2>1, <2>2, InsideStep
<1>7. CASE DeclineWrites
  <2>1. funding' = [funding EXCEPT !.status = "declined"] /\ handler' = "idle"
        /\ offered' = offered /\ funding.status = "pending"
    BY <1>3, <1>7 DEF DeclineWrites
  <2>2. /\ funding' \in [status : {"none", "pending", "declined", "settled"},
                         checkpoint : BlockType, evidence : EvidenceType]
        /\ funding'.evidence = funding.evidence /\ funding'.checkpoint = funding.checkpoint
        /\ funding.evidence = NoEvidence
    BY <1>3, <2>1
  <2>3. RequestHolds(funding', chain, peak, taken)
    BY <1>3, <2>2 DEF RequestHolds
  <2>4. QED
    BY <1>1, <1>2, <1>3, <2>1, <2>2, <2>3, InsideStep
<1>8. QED
  BY <1>4, <1>5, <1>6, <1>7

LEMMA ChainStep ==
    ASSUME SettlementInv,
           \/ AdvancePosition \/ CompleteAgreement \/ FunderSettles
           \/ MineQuiet \/ MineConfirmation \/ \E depth \in 1 .. ReorgDepth : Reorg(depth)
           \/ \E s \in Senders : MineSettlement(s)
    PROVE  SettlementInv'
<1> USE DEF arcChain
<1>1. /\ fork \in Nat /\ pool \subseteq Senders /\ completed \in BOOLEAN /\ failures \in Nat
      /\ xLayer \in {"None", "Funded", "Released"}
      /\ Len(chain) \in Nat /\ DOMAIN chain = 1 .. Len(chain)
      /\ \A h \in 1 .. Len(chain) : chain[h].by \in Senders \cup {NoSender}
  BY ChainFacts DEF SettlementInv, SettlementTypeOK
<1>2. CASE AdvancePosition
  <2>1. Moves
    BY <1>2 DEF AdvancePosition, Moves
  <2>2. QED
    BY <1>1, <1>2, <2>1, OutsideStep DEF AdvancePosition
<1>3. CASE CompleteAgreement
  <2>1. Moves
    BY <1>3 DEF CompleteAgreement, Moves
  <2>2. QED
    BY <1>1, <1>3, <2>1, OutsideStep DEF CompleteAgreement
<1>4. CASE FunderSettles
  <2>1. Moves
    BY <1>4 DEF FunderSettles, Moves
  <2>2. QED
    BY <1>1, <1>4, <2>1, OutsideStep DEF FunderSettles, xLayerVars, Senders
<1>5. CASE MineQuiet \/ MineConfirmation
  <2>1. Moves
    BY <1>5 DEF MineQuiet, MineConfirmation, Moves
  <2>2. QED
    BY <1>1, <1>5, <2>1, OutsideStep DEF MineQuiet, MineConfirmation, xLayerVars
<1>6. ASSUME NEW s \in Senders, MineSettlement(s)
      PROVE  SettlementInv'
  <2>1. Moves
    BY <1>6 DEF MineSettlement, Moves
  <2>2. QED
    BY <1>1, <1>6, <2>1, OutsideStep DEF MineSettlement, xLayerVars
<1>7. ASSUME NEW depth \in 1 .. ReorgDepth, Reorg(depth)
      PROVE  SettlementInv'
  <2>1. depth \in Nat
    BY SettlementAssumption
  <2>2. Moves
    BY <1>7, <2>1 DEF Reorg, Moves
  <2>3. pool' \subseteq Senders
    BY <1>1, <1>7 DEF Reorg, SettledAt
  <2>4. QED
    BY <1>1, <1>7, <2>2, <2>3, OutsideStep DEF Reorg, xLayerVars
<1>8. QED
  BY <1>2, <1>3, <1>4, <1>5, <1>6, <1>7

-----------------------------------------------------------------------------

\* What a worker may do to the request.
FundingStep ==
    /\ handler' = handler /\ offered' = offered
    /\ funding' \in [status : {"none", "pending", "declined", "settled"},
                     checkpoint : BlockType, evidence : EvidenceType]
    /\ funding'.evidence # NoEvidence => funding'.status = "settled" /\ funding'.checkpoint # NoBlock
    /\ handler = "decline" => funding'.status = "pending"
    /\ RequestHolds(funding', chain, peak, taken)

\* What it may do to its pass.
PassStep(w) ==
    \E p \in PassType : PassHolds(p, chain, peak, taken) /\ pass' = [pass EXCEPT ![w] = p]

LEMMA WorkerMoves ==
    ASSUME SettlementInv, NEW w \in Workers, FundingStep, PassStep(w),
           lease' \in Workers \cup {NoSender}, pool' \subseteq Senders, failures' \in Nat,
           UNCHANGED <<xLayerVars, chain, fork, peak, taken>>
    PROVE  SettlementInv'
<1>1. PICK p \in PassType : PassHolds(p, chain, peak, taken) /\ pass' = [pass EXCEPT ![w] = p]
  BY DEF PassStep
<1>2. pass \in [Workers -> PassType] /\ \A v \in Workers : PassHolds(pass[v], chain, peak, taken)
  BY DEF SettlementInv, SettlementTypeOK
<1>3. pass' \in [Workers -> PassType] /\ \A v \in Workers : PassHolds(pass'[v], chain, peak, taken)
  BY <1>1, <1>2
<1>4. offered' \in BOOLEAN /\ handler' \in {"idle", "assign", "decline"}
  BY DEF FundingStep, SettlementInv, SettlementTypeOK
<1>5. QED
  BY <1>3, <1>4, InsideStep DEF FundingStep

LEMMA RequestStays ==
    ASSUME SettlementInv, UNCHANGED storeVars
    PROVE  FundingStep
BY DEF SettlementInv, SettlementTypeOK, storeVars, FundingStep

LEMMA CheckpointSaved ==
    ASSUME SettlementInv, NEW next \in Nat, Ahead(next, chain, peak, taken), SaveCheckpoint(next)
    PROVE  FundingStep
<1>1. /\ funding \in [status : {"none", "pending", "declined", "settled"},
                      checkpoint : BlockType, evidence : EvidenceType]
      /\ funding.evidence # NoEvidence => funding.status = "settled" /\ funding.checkpoint # NoBlock
      /\ RequestHolds(funding, chain, peak, taken)
  BY DEF SettlementInv, SettlementTypeOK
<1>2. /\ funding' = [funding EXCEPT !.checkpoint = next] /\ handler' = handler /\ offered' = offered
      /\ handler = "idle" /\ next \in BlockType /\ next # NoBlock
  BY DEF SaveCheckpoint, Unlocked, BlockType, NoBlock
<1>3. /\ funding' \in [status : {"none", "pending", "declined", "settled"},
                       checkpoint : BlockType, evidence : EvidenceType]
      /\ funding'.status = funding.status /\ funding'.evidence = funding.evidence
      /\ funding'.checkpoint = next
  BY <1>1, <1>2
<1>4. RequestHolds(funding', chain, peak, taken)
  BY <1>1, <1>3 DEF RequestHolds
<1>5. QED
  BY <1>1, <1>2, <1>3, <1>4 DEF FundingStep

LEMMA RefusalStays ==
    ASSUME SettlementInv, RecordChanged
    PROVE  FundingStep
BY RequestStays DEF RecordChanged

LEMMA PassEnds ==
    ASSUME SettlementInv, NEW w \in Workers, EndPass(w)
    PROVE  PassStep(w) /\ lease' \in Workers \cup {NoSender}
BY NothingFound DEF EndPass, PassStep, SettlementInv, SettlementTypeOK

LEMMA PassGoes ==
    ASSUME SettlementInv, NEW w \in Workers, NEW pc \in {"submit", "wait", "recover"}, Goto(w, pc)
    PROVE  PassStep(w) /\ lease' \in Workers \cup {NoSender}
<1>1. pass \in [Workers -> PassType] /\ pass[w] \in PassType /\ PassHolds(pass[w], chain, peak, taken)
      /\ lease \in Workers \cup {NoSender}
  BY DEF SettlementInv, SettlementTypeOK
<1> DEFINE p == [pass[w] EXCEPT !.pc = pc]
<1>2. p \in PassType /\ p.pc = pc /\ p.checkpoint = pass[w].checkpoint /\ p.found = pass[w].found
  BY <1>1 DEF PassType
<1>3. PassHolds(p, chain, peak, taken)
  BY <1>1, <1>2 DEF PassHolds
<1>4. pass' = [pass EXCEPT ![w] = p] /\ lease' = lease
  BY <1>1 DEF Goto
<1>5. QED
  BY <1>1, <1>2, <1>3, <1>4 DEF PassStep

LEMMA PassSearches ==
    ASSUME SettlementInv, NEW w \in Workers, NEW pc \in {"submit", "recover", "save"},
           NEW c \in BlockType, c # NoBlock => Ahead(c, chain, peak, taken),
           pc = "save" => c # NoBlock, Searching(w, pc, c)
    PROVE  PassStep(w) /\ lease' \in Workers \cup {NoSender}
<1> DEFINE p == [NoPass EXCEPT !.pc = pc, !.checkpoint = c]
<1>1. p \in PassType /\ p.pc = pc /\ p.checkpoint = c /\ p.found = NoEvidence
  BY NothingFound DEF PassType, NoPass
<1>2. PassHolds(p, chain, peak, taken)
  BY <1>1, NothingFound DEF PassHolds
<1>3. pass' = [pass EXCEPT ![w] = p] /\ lease' = lease /\ lease \in Workers \cup {NoSender}
  BY DEF Searching, SettlementInv, SettlementTypeOK
<1>4. QED
  BY <1>1, <1>2, <1>3 DEF PassStep

\* A block that settles and has another on top is evidence that stands.
LEMMA PassFinds ==
    ASSUME SettlementInv, NEW w \in Workers, NEW h \in DOMAIN chain, SettledAt(h), Confirmed(h),
           Holding(w, EvidenceAt(h))
    PROVE  PassStep(w) /\ lease' \in Workers \cup {NoSender}
<1>1. /\ Len(chain) \in Nat /\ h \in 1 .. Len(chain) /\ peak \in Nat /\ Len(chain) <= peak
      /\ chain[h] \in [fork : Nat, by : Senders \cup {NoSender}]
  BY ChainFacts DEF SettlementInv, SettlementTypeOK, BlocksHold
<1>2. EvidenceAt(h) \in [block : Nat, fork : Nat, by : Senders]
  BY <1>1 DEF EvidenceAt, SettledAt
<1>3. Stands(EvidenceAt(h), chain, peak, taken)
  BY <1>1, <1>2 DEF Stands, Confirmed, EvidenceAt
<1> DEFINE p == [NoPass EXCEPT !.pc = "mark", !.found = EvidenceAt(h)]
<1>4. p \in PassType /\ p.pc = "mark" /\ p.checkpoint = NoBlock /\ p.found = EvidenceAt(h)
  BY <1>2, NothingFound DEF PassType, NoPass, EvidenceType
<1>5. PassHolds(p, chain, peak, taken)
  BY <1>3, <1>4 DEF PassHolds
<1>6. pass' = [pass EXCEPT ![w] = p] /\ lease' = lease /\ lease \in Workers \cup {NoSender}
  BY DEF Holding, SettlementInv, SettlementTypeOK
<1>7. QED
  BY <1>4, <1>5, <1>6 DEF PassStep

\* A page without the settlement lies before it.
LEMMA PageAhead ==
    ASSUME SettlementInv, NEW from \in Nat, Ahead(from, chain, peak, taken), from <= Len(chain),
           \A h \in DOMAIN chain : from <= h /\ h <= PageEnd(from) => ~SettledAt(h)
    PROVE  /\ NextBlock(from, PageEnd(from)) \in Nat
           /\ Ahead(NextBlock(from, PageEnd(from)), chain, peak, taken)
<1>1. /\ Len(chain) \in Nat /\ DOMAIN chain = 1 .. Len(chain) /\ peak \in Nat /\ Len(chain) <= peak
      /\ PageSize \in Nat \ {0} /\ taken \in Nat
  BY ChainFacts, SettlementAssumption DEF SettlementInv, SettlementTypeOK, BlocksHold
<1> DEFINE to == PageEnd(from)
<1>2. to \in Nat /\ to <= Len(chain)
  BY <1>1 DEF PageEnd
<1> HIDE DEF to
<1>3. CASE to >= from + 2
  <2>1. NextBlock(from, to) = to - 1 /\ to - 1 \in Nat /\ to - 1 < peak
    BY <1>1, <1>2, <1>3 DEF NextBlock
  <2>2. ASSUME taken <= 2, NEW h \in 1 .. Len(chain), chain[h].by # NoSender
        PROVE  to - 1 <= h
    <3>1. from <= h
      BY <2>2 DEF Ahead
    <3>2. ~(h <= to)
      BY <1>1, <2>2, <3>1 DEF to, SettledAt
    <3>3. QED
      BY <1>1, <1>2, <3>2
  <2>3. QED
    BY <2>1, <2>2 DEF Ahead, to
<1>4. CASE ~(to >= from + 2)
  BY <1>4 DEF NextBlock, to
<1>5. QED
  BY <1>3, <1>4

\* Reading the height, and finding that nothing settled up to there: the search may
\* begin two blocks below.
LEMMA HeightRead ==
    ASSUME SettlementInv, NEW w \in Workers, pass[w].pc = "position", ReadPosition(w)
    PROVE  PassStep(w) /\ lease' \in Workers \cup {NoSender}
<1>1. /\ pass \in [Workers -> PassType] /\ pass[w] \in PassType /\ PassHolds(pass[w], chain, peak, taken)
      /\ lease \in Workers \cup {NoSender}
      /\ Len(chain) \in Nat /\ Len(chain) >= 1 /\ peak \in Nat /\ Len(chain) <= peak
  BY ChainFacts DEF SettlementInv, SettlementTypeOK, BlocksHold
<1>2. CASE EndPass(w)
  BY <1>2, PassEnds
<1>3. CASE ~EndPass(w)
  <2> DEFINE p == [pass[w] EXCEPT !.pc = "check", !.start = SubmissionStart(w)]
  <2>1. pass' = [pass EXCEPT ![w] = p] /\ lease' = lease
    BY <1>1, <1>3 DEF ReadPosition
  <2>2. SubmissionStart(w) \in BlockType /\ (pass[w].checkpoint = NoBlock => SubmissionStart(w) \in 1 .. peak)
    BY <1>1 DEF SubmissionStart, BlockType
  <2>3. p \in PassType /\ p.pc = "check" /\ p.start = SubmissionStart(w)
        /\ p.checkpoint = pass[w].checkpoint /\ p.found = pass[w].found
    BY <1>1, <2>2 DEF PassType
  <2>4. PassHolds(p, chain, peak, taken)
    BY <1>1, <2>2, <2>3 DEF PassHolds
  <2>5. QED
    BY <1>1, <2>1, <2>3, <2>4 DEF PassStep
<1>4. QED
  BY <1>2, <1>3

LEMMA SettlementChecked ==
    ASSUME SettlementInv, NEW w \in Workers, CheckSettled(w)
    PROVE  PassStep(w) /\ lease' \in Workers \cup {NoSender}
<1>1. /\ pass \in [Workers -> PassType] /\ pass[w] \in PassType /\ PassHolds(pass[w], chain, peak, taken)
      /\ lease \in Workers \cup {NoSender} /\ pass[w].checkpoint \in BlockType
      /\ DOMAIN chain = 1 .. Len(chain) /\ peak \in Nat /\ pass[w].pc = "check"
  BY ChainFacts DEF SettlementInv, SettlementTypeOK, PassType, CheckSettled
<1>2. CASE Searching(w, "recover", pass[w].checkpoint)
  BY <1>1, <1>2, PassSearches DEF PassHolds
<1>3. CASE EndPass(w)
  BY <1>3, PassEnds
<1>4. CASE ~Settled /\ Goto(w, "sign")
  <2> DEFINE p == [pass[w] EXCEPT !.pc = "sign"]
  <2>1. p \in PassType /\ p.pc = "sign" /\ p.start = pass[w].start
        /\ p.checkpoint = pass[w].checkpoint /\ p.found = pass[w].found
    BY <1>1 DEF PassType
  <2>2. pass' = [pass EXCEPT ![w] = p] /\ lease' = lease
    BY <1>1, <1>4 DEF Goto
  <2>3. ASSUME p.checkpoint = NoBlock
        PROVE  p.start \in 1 .. peak /\ Ahead(FirstBlock(p.start), chain, peak, taken)
    <3>1. p.start \in 1 .. peak
      BY <1>1, <2>1, <2>3 DEF PassHolds
    <3>2. \A h \in 1 .. Len(chain) : ~(chain[h].by # NoSender)
      BY <1>1, <1>4 DEF Settled, SettledAt
    <3>3. FirstBlock(p.start) <= 1 \/ FirstBlock(p.start) < peak
      BY <1>1, <3>1 DEF FirstBlock
    <3>4. QED
      BY <3>1, <3>2, <3>3 DEF Ahead
  <2>4. PassHolds(p, chain, peak, taken)
    BY <1>1, <2>1, <2>3 DEF PassHolds
  <2>5. QED
    BY <1>1, <2>1, <2>2, <2>4 DEF PassStep
<1>5. QED
  BY <1>2, <1>3, <1>4 DEF CheckSettled

LEMMA SplitSigned ==
    ASSUME SettlementInv, NEW w \in Workers, Sign(w)
    PROVE  FundingStep /\ PassStep(w) /\ lease' \in Workers \cup {NoSender}
<1>1. /\ pass[w] \in PassType /\ PassHolds(pass[w], chain, peak, taken)
      /\ pass[w].checkpoint \in BlockType /\ pass[w].pc = "sign"
  BY DEF SettlementInv, SettlementTypeOK, PassType, Sign
<1> DEFINE next == FirstBlock(pass[w].start)
<1>2. CASE EndPass(w) /\ (UNCHANGED storeVars \/ RecordChanged)
  BY <1>2, PassEnds, RequestStays, RefusalStays
<1>3. CASE Searching(w, "submit", pass[w].checkpoint) /\ UNCHANGED storeVars
  BY <1>1, <1>3, PassSearches, RequestStays DEF PassHolds
<1>4. CASE pass[w].checkpoint = NoBlock /\ SaveCheckpoint(next) /\ Searching(w, "submit", next)
  <2>1. pass[w].start \in 1 .. peak /\ Ahead(next, chain, peak, taken) /\ peak \in Nat
    BY <1>1, <1>4 DEF PassHolds, SettlementInv, SettlementTypeOK
  <2>2. next \in Nat /\ next \in BlockType
    BY <2>1 DEF FirstBlock, BlockType
  <2>3. QED
    BY <1>4, <2>1, <2>2, CheckpointSaved, PassSearches
<1>5. QED
  BY <1>2, <1>3, <1>4 DEF Sign

LEMMA EvidenceSearched ==
    ASSUME SettlementInv, NEW w \in Workers,
           ReadReceipt(w) \/ SeedCheckpoint(w) \/ Recover(w) \/ SaveProgress(w)
    PROVE  FundingStep /\ PassStep(w) /\ lease' \in Workers \cup {NoSender}
<1>1. /\ pass[w] \in PassType /\ PassHolds(pass[w], chain, peak, taken)
      /\ pass[w].checkpoint \in BlockType
      /\ Len(chain) \in Nat /\ DOMAIN chain = 1 .. Len(chain) /\ chain[1].by = NoSender
  BY ChainFacts DEF SettlementInv, SettlementTypeOK, PassType, BlocksHold
<1>2. CASE ReadReceipt(w)
  <2>1. PICK h \in DOMAIN chain : chain[h].by = w /\ Confirmed(h) /\ Holding(w, EvidenceAt(h))
    BY <1>2 DEF ReadReceipt
  <2>2. SettledAt(h)
    BY <2>1, SettlementAssumption DEF SettledAt, Senders
  <2>3. QED
    BY <1>2, <2>1, <2>2, PassFinds, RequestStays DEF ReadReceipt
<1>3. CASE SeedCheckpoint(w)
  <2>1. Ahead(DeploymentBlock, chain, peak, taken) /\ DeploymentBlock \in Nat
        /\ DeploymentBlock \in BlockType
    BY <1>1 DEF Ahead, DeploymentBlock, BlockType
  <2>2. QED
    BY <1>3, <2>1, CheckpointSaved, PassSearches, PassEnds, RefusalStays DEF SeedCheckpoint
<1>4. CASE Recover(w)
  <2> DEFINE from == pass[w].checkpoint
  <2>1. FundingStep
    BY <1>4, RequestStays DEF Recover
  <2>2. from \in Nat /\ from # NoBlock /\ Ahead(from, chain, peak, taken)
    BY <1>1, <1>4 DEF Recover, PassHolds, BlockType
  <2>3. ASSUME NEW h \in DOMAIN chain, SettledAt(h),
               IF Confirmed(h) THEN Holding(w, EvidenceAt(h)) ELSE EndPass(w)
        PROVE  PassStep(w) /\ lease' \in Workers \cup {NoSender}
    BY <2>3, PassFinds, PassEnds
  <2>4. ASSUME \A h \in DOMAIN chain : from <= h /\ h <= PageEnd(from) => ~SettledAt(h),
               Searching(w, "save", IF from > Len(chain) THEN from ELSE NextBlock(from, PageEnd(from)))
        PROVE  PassStep(w) /\ lease' \in Workers \cup {NoSender}
    <3>1. CASE from > Len(chain)
      BY <1>1, <2>2, <2>4, <3>1, PassSearches DEF NoBlock
    <3>2. CASE ~(from > Len(chain))
      <4>1. /\ NextBlock(from, PageEnd(from)) \in Nat
            /\ Ahead(NextBlock(from, PageEnd(from)), chain, peak, taken)
        BY <1>1, <2>2, <2>4, <3>2, PageAhead
      <4>2. NextBlock(from, PageEnd(from)) \in BlockType
        BY <4>1 DEF BlockType
      <4>3. QED
        BY <2>4, <3>2, <4>1, <4>2, PassSearches DEF NoBlock
    <3>3. QED
      BY <3>1, <3>2
  <2>5. QED
    BY <1>4, <2>1, <2>3, <2>4 DEF Recover
<1>5. CASE SaveProgress(w)
  <2>1. CASE RecordChanged
    BY <1>5, <2>1, RefusalStays, PassEnds DEF SaveProgress
  <2>2. CASE SaveCheckpoint(pass[w].checkpoint)
    <3>1. pass[w].checkpoint \in Nat /\ Ahead(pass[w].checkpoint, chain, peak, taken)
      BY <1>1, <1>5 DEF SaveProgress, PassHolds, BlockType
    <3>2. QED
      BY <1>5, <2>2, <3>1, CheckpointSaved, PassEnds DEF SaveProgress
  <2>3. QED
    BY <1>5, <2>1, <2>2 DEF SaveProgress
<1>6. QED
  BY <1>2, <1>3, <1>4, <1>5

LEMMA EvidenceRecorded ==
    ASSUME SettlementInv, NEW w \in Workers, MarkSettled(w)
    PROVE  FundingStep /\ PassStep(w) /\ lease' \in Workers \cup {NoSender}
<1>1. /\ pass[w] \in PassType /\ pass[w].found \in EvidenceType
      /\ Stands(pass[w].found, chain, peak, taken)
      /\ funding \in [status : {"none", "pending", "declined", "settled"},
                      checkpoint : BlockType, evidence : EvidenceType]
      /\ RequestHolds(funding, chain, peak, taken)
  BY DEF SettlementInv, SettlementTypeOK, PassType, PassHolds
<1>2. EndPass(w) /\ handler = "idle" /\ handler' = handler /\ offered' = offered
  BY DEF MarkSettled, Unlocked
<1>3. CASE funding' = funding
  BY <1>2, <1>3, PassEnds, RequestStays DEF storeVars
<1>4. CASE /\ funding.checkpoint # NoBlock
           /\ funding' = [funding EXCEPT !.status = "settled", !.evidence = pass[w].found]
  <2>1. /\ funding' \in [status : {"none", "pending", "declined", "settled"},
                         checkpoint : BlockType, evidence : EvidenceType]
        /\ funding'.status = "settled" /\ funding'.evidence = pass[w].found
        /\ funding'.checkpoint = funding.checkpoint
    BY <1>1, <1>4
  <2>2. RequestHolds(funding', chain, peak, taken)
    BY <1>1, <2>1 DEF RequestHolds
  <2>3. QED
    BY <1>2, <1>4, <2>1, <2>2, PassEnds DEF FundingStep
<1>5. QED
  BY <1>3, <1>4 DEF MarkSettled

LEMMA WorkersKeep ==
    ASSUME SettlementInv, NEW w \in Workers, WorkerStep(w)
    PROVE  SettlementInv'
<1> USE DEF arcChain
<1>1. /\ pool \subseteq Senders /\ w \in Senders /\ failures \in Nat
      /\ lease \in Workers \cup {NoSender}
  BY DEF SettlementInv, SettlementTypeOK, Senders
<1>2. failures' \in Nat /\ UNCHANGED xLayerVars
  BY <1>1 DEF WorkerStep
<1>3. CASE Begin(w)
  <2> DEFINE p == [NoPass EXCEPT !.pc = "position", !.status = funding.status,
                                 !.checkpoint = funding.checkpoint]
  <2>1. /\ funding.checkpoint \in BlockType /\ RequestHolds(funding, chain, peak, taken)
        /\ funding.status \in {"pending", "settled"}
    BY <1>3 DEF SettlementInv, SettlementTypeOK, Begin, NeedsSettlement
  <2>2. /\ p \in PassType /\ p.pc = "position" /\ p.checkpoint = funding.checkpoint
        /\ p.found = NoEvidence
    BY <2>1, NothingFound DEF PassType, NoPass
  <2>3. PassHolds(p, chain, peak, taken)
    BY <2>1, <2>2, NothingFound DEF PassHolds, RequestHolds
  <2>4. PassStep(w) /\ lease' = w
    BY <1>3, <2>2, <2>3 DEF Begin, PassStep
  <2>5. QED
    BY <1>1, <1>2, <1>3, <2>4, RequestStays, WorkerMoves DEF Begin
<1>4. CASE ReadPosition(w)
  <2>1. pass[w].pc = "position"
    BY <1>4 DEF ReadPosition
  <2>2. QED
    BY <1>1, <1>2, <1>4, <2>1, HeightRead, RequestStays, WorkerMoves DEF ReadPosition
<1>5. CASE CheckSettled(w)
  BY <1>1, <1>2, <1>5, SettlementChecked, RequestStays, WorkerMoves DEF CheckSettled
<1>6. CASE Sign(w)
  BY <1>1, <1>2, <1>6, SplitSigned, WorkerMoves DEF Sign
<1>7. CASE SubmitSettlement(w)
  <2>1. PassStep(w) /\ lease' \in Workers \cup {NoSender}
    BY <1>7, PassGoes DEF SubmitSettlement
  <2>2. pool' \subseteq Senders
    BY <1>1, <1>7 DEF SubmitSettlement
  <2>3. QED
    BY <1>2, <1>7, <2>1, <2>2, RequestStays, WorkerMoves DEF SubmitSettlement
<1>8. CASE ReadReceipt(w) \/ SeedCheckpoint(w) \/ Recover(w) \/ SaveProgress(w)
  <2>1. UNCHANGED <<chain, fork, pool, peak, taken>>
    BY <1>8 DEF ReadReceipt, SeedCheckpoint, Recover, SaveProgress
  <2>2. QED
    BY <1>1, <1>2, <1>8, <2>1, EvidenceSearched, WorkerMoves
<1>9. CASE GiveUpWaiting(w)
  <2>1. PassStep(w) /\ lease' \in Workers \cup {NoSender}
    BY <1>9, PassGoes, PassEnds DEF GiveUpWaiting
  <2>2. QED
    BY <1>1, <1>2, <1>9, <2>1, RequestStays, WorkerMoves DEF GiveUpWaiting
<1>10. CASE MarkSettled(w)
  BY <1>1, <1>2, <1>10, EvidenceRecorded, WorkerMoves DEF MarkSettled
<1>11. QED
  BY <1>3, <1>4, <1>5, <1>6, <1>7, <1>8, <1>9, <1>10 DEF WorkerStep

LEMMA FailuresKeep ==
    ASSUME SettlementInv, Failure
    PROVE  SettlementInv'
<1> USE DEF arcChain
<1>1. /\ pool \subseteq Senders /\ failures' \in Nat /\ UNCHANGED <<storeVars, xLayerVars>>
      /\ lease \in Workers \cup {NoSender}
  BY DEF SettlementInv, SettlementTypeOK, Failure
<1>2. ASSUME NEW w \in Workers, EndPass(w), UNCHANGED arcChain
      PROVE  SettlementInv'
  BY <1>1, <1>2, PassEnds, RequestStays, WorkerMoves
<1>3. CASE lease' = NoSender /\ UNCHANGED <<pass, arcChain>>
  <2>1. SettlementTypeOK'
    BY <1>1, <1>3 DEF SettlementInv, SettlementTypeOK, storeVars, xLayerVars
  <2>2. QED
    BY <1>1, <1>3, <2>1 DEF SettlementInv, BlocksHold, storeVars
<1>4. ASSUME NEW w \in Workers, GiveUpWaiting(w)
      PROVE  SettlementInv'
  <2>1. PassStep(w) /\ lease' \in Workers \cup {NoSender}
    BY <1>4, PassGoes, PassEnds DEF GiveUpWaiting
  <2>2. QED
    BY <1>1, <1>4, <2>1, RequestStays, WorkerMoves DEF GiveUpWaiting
<1>5. ASSUME NEW s \in pool, pool' = pool \ {s}, UNCHANGED <<chain, fork, peak, taken, workerVars>>
      PROVE  SettlementInv'
  <2>1. Moves /\ fork' \in Nat /\ pool' \subseteq Senders /\ UNCHANGED <<xLayer, completed>>
    BY <1>1, <1>5 DEF Moves, SettlementInv, SettlementTypeOK, xLayerVars
  <2>2. xLayer' \in {"None", "Funded", "Released"} /\ completed' \in BOOLEAN
    BY <2>1 DEF SettlementInv, SettlementTypeOK
  <2>3. QED
    BY <1>1, <1>5, <2>1, <2>2, OutsideStep
<1>6. QED
  BY <1>2, <1>3, <1>4, <1>5 DEF Failure

LEMMA SettlementStep == SettlementInv /\ [SettlementNext]_settlementVars => SettlementInv'
<1> SUFFICES ASSUME SettlementInv, [SettlementNext]_settlementVars
             PROVE  SettlementInv'
  OBVIOUS
<1>1. CASE UNCHANGED settlementVars
  <2>1. /\ Moves /\ UNCHANGED <<storeVars, workerVars, fork, pool, xLayer, completed, failures>>
    BY <1>1 DEF settlementVars, arcChain, xLayerVars, Moves
  <2>2. QED
    BY <2>1, OutsideStep DEF SettlementInv, SettlementTypeOK
<1>2. QED
  BY <1>1, HandlerStep, ChainStep, WorkersKeep, FailuresKeep DEF SettlementNext

LEMMA SettlementBegins == SettlementInit => SettlementInv
<1> SUFFICES ASSUME SettlementInit
             PROVE  SettlementInv
  OBVIOUS
<1> DEFINE Mined == [fork : Nat, by : Senders \cup {NoSender}]
<1>1. /\ [fork |-> 0, by |-> NoSender] \in Mined /\ [fork |-> 0, by |-> Funder] \in Mined
      /\ Funder # NoSender
  BY SettlementAssumption DEF Senders
<1>2. /\ chain \in Seq(Mined) /\ Len(chain) \in {1, 3} /\ chain[1].by = NoSender
  <2>1. CASE chain = <<[fork |-> 0, by |-> NoSender]>>
    BY <1>1, <2>1
  <2>2. CASE chain = <<[fork |-> 0, by |-> NoSender], [fork |-> 0, by |-> Funder],
                       [fork |-> 0, by |-> NoSender]>>
    BY <1>1, <2>2
  <2>3. QED
    BY <2>1, <2>2 DEF SettlementInit
<1>3. /\ funding \in [status : {"none", "pending", "declined", "settled"},
                      checkpoint : BlockType, evidence : EvidenceType]
      /\ funding.evidence = NoEvidence /\ RequestHolds(funding, chain, peak, taken)
  BY NothingFound DEF SettlementInit
<1>4. /\ pass \in [Workers -> PassType] /\ \A w \in Workers : PassHolds(pass[w], chain, peak, taken)
  BY NothingFound DEF SettlementInit
<1>5. SettlementTypeOK
  BY <1>2, <1>3, <1>4 DEF SettlementInit, SettlementTypeOK
<1>6. BlocksHold
  BY <1>2 DEF SettlementInit, BlocksHold
<1>7. QED
  BY <1>3, <1>4, <1>5, <1>6 DEF SettlementInit, SettlementInv

LEMMA SettlementInvariant == SettlementSpec => []SettlementInv
BY SettlementBegins, SettlementStep, PTL DEF SettlementSpec

\* The types of the request, the chains, the lease and the passes; evidence is only with
\* a settled request that has a checkpoint, whatever declines are written late.
THEOREM SettlementTypeCorrect == SettlementSpec => []SettlementTypeOK
<1>1. SettlementInv => SettlementTypeOK
  BY DEF SettlementInv
<1>2. QED
  BY SettlementInvariant, <1>1, PTL

\* A saved checkpoint never lies past the settlement, whoever settles while whatever
\* passes overlap, crash and retry, and however often the chain is reorganised, as long
\* as that stays within the overlap of two blocks.
THEOREM CheckpointCovers == SettlementSpec => []CheckpointCoversSettlement
<1>1. SettlementInv => CheckpointCoversSettlement
  <2>1. SUFFICES ASSUME SettlementInv, funding.checkpoint # NoBlock, taken <= 2
                 PROVE  \A h \in DOMAIN chain : SettledAt(h) => funding.checkpoint <= h
    BY DEF CheckpointCoversSettlement
  <2>2. Ahead(funding.checkpoint, chain, peak, taken) /\ DOMAIN chain = 1 .. Len(chain)
    BY <2>1, ChainFacts DEF SettlementInv, RequestHolds
  <2>3. QED
    BY <2>1, <2>2 DEF Ahead, SettledAt
<1>2. QED
  BY SettlementInvariant, <1>1, PTL

\* What is recorded as evidence is a settlement on the chain, as long as no block that
\* had two confirmations was taken back.
THEOREM EvidenceStaysCanonical == SettlementSpec => []EvidenceIsCanonical
<1>1. SettlementInv => EvidenceIsCanonical
  <2>1. SUFFICES ASSUME SettlementInv, funding.evidence # NoEvidence, taken <= 1
                 PROVE  /\ funding.evidence.block \in DOMAIN chain
                        /\ funding.evidence = EvidenceAt(funding.evidence.block)
    BY DEF EvidenceIsCanonical
  <2>2. Stands(funding.evidence, chain, peak, taken) /\ DOMAIN chain = 1 .. Len(chain)
    BY <2>1, ChainFacts DEF SettlementInv, RequestHolds
  <2>3. QED
    BY <2>1, <2>2 DEF Stands, EvidenceAt
<1>2. QED
  BY SettlementInvariant, <1>1, PTL
=============================================================================
