--------------------------- MODULE UpfrontAdvance ---------------------------
(***************************************************************************)
(* Early pay for agreements, across both chains: UpfrontAdvanceEscrowV2 on *)
(* X Layer holds a funder's advance until the agreement is protected on    *)
(* Arc, ArcRepaymentRouterV4 splits the completed agreement's payment, and *)
(* the server signs what each of them asks for: funding terms, protection  *)
(* attestations and split settlements.  The agreement itself is a contract *)
(* of another service: it pays the router when it completes and its payer  *)
(* otherwise.                                                              *)
(*                                                                         *)
(* An offer is one approved assessment; a provider can have several of one *)
(* agreement, and several agreements of the same terms.  Nothing ties an   *)
(* offer to an agreement but the terms: the caller names the agreement it  *)
(* wants an attestation or a split for.  ServerKey stands for the keys the *)
(* server and the underwriter sign with; the owner may put another key     *)
(* into a contract.                                                        *)
(***************************************************************************)
EXTENDS Integers, FiniteSets, LedgerSums

CONSTANTS
    Offers, Agreements, Funders, Keys, ServerKey,
    Terms,              \* title, text, durations, amount and expiry, as one
    OfferTerms,         \* offer -> the terms that were assessed
    AgreementTerms,     \* agreement -> its terms on Arc
    ProtectedOf,        \* terms -> amount, and the offer's protectedAmount
    DeadlineOf,         \* terms -> Arc expiry, and the offer's protectionDeadline
    UnderwrittenUntil,  \* offer -> underwritingDeadline
    MaxAdvanceBps, BPS, \* the offer's cap, and BPS_DENOMINATOR
    FeeBps,             \* fundingFeeBps of the agreements' durations
    StandardFeeBps, PlatformShareBps,
    AttestationLife,    \* 600 seconds
    MaxAttestationAge,  \* MAX_ATTESTATION_AGE
    MaxProtectionWindow,
    MinRemaining,       \* minimumRemainingSeconds
    AdvanceAmounts,     \* amounts a provider asks for
    MaxTime, MaxSigned, MaxAsked, MaxSplits, MaxRotated     \* bounds

ASSUME UpfrontAssumption ==
    /\ IsFiniteSet(Offers) /\ IsFiniteSet(Agreements) /\ ServerKey \in Keys
    /\ OfferTerms \in [Offers -> Terms] /\ AgreementTerms \in [Agreements -> Terms]
    /\ ProtectedOf \in [Terms -> Nat] /\ DeadlineOf \in [Terms -> Nat]
    /\ UnderwrittenUntil \in [Offers -> Nat]
    /\ MaxAdvanceBps \in Nat /\ BPS \in Nat \ {0}
    /\ FeeBps \in Nat /\ StandardFeeBps \in Nat /\ PlatformShareBps \in 0 .. BPS
    /\ AttestationLife \in Nat /\ MaxAttestationAge \in Nat
    /\ MaxProtectionWindow \in Nat /\ MinRemaining \in Nat
    /\ AdvanceAmounts \subseteq Nat
    /\ MaxTime \in Nat /\ MaxSigned \in Nat /\ MaxAsked \in Nat /\ MaxSplits \in Nat /\ MaxRotated \in Nat

Protected(o) == ProtectedOf[OfferTerms[o]]
Deadline(o) == DeadlineOf[OfferTerms[o]]
Payment(a) == ProtectedOf[AgreementTerms[a]]

\* What the signatures compare of an assessment and an agreement: not the agreement the
\* position was released against.
Alike(o, a) == OfferTerms[o] = AgreementTerms[a]
NoAgreement == "none"
Nobody == "nobody"
ASSUME NamesAssumption == NoAgreement \notin Agreements /\ Nobody \notin Funders

NoPosition == [status |-> "None", funder |-> Nobody, advance |-> 0, repayment |-> 0,
               fee |-> 0, signer |-> ServerKey, agreement |-> NoAgreement]
NoSplit == [funder |-> Nobody, toFunder |-> 0, toProvider |-> 0, toTreasury |-> 0]

VARIABLES
    now,
    paused, allowed, underwritingSigner, protectionSigner,
    position,           \* positions[positionId], by offer
    usdc,               \* the escrow's X Layer balance
    terms,              \* funding terms signed by the server and accepted by the provider
    asked,              \* requests for an attestation that have read the agreement
    proofs,             \* protection attestations signed; "read" is history
    agreement,          \* Arc agreement -> active, completed, returned
    lapsedAt,           \* agreement -> when it stopped being active, if it was attested (history)
    routerPaused, creditSigner,
    router,             \* the router's Arc balance
    payout,             \* agreement -> its settlement; settledAgreements is the ones that have one
    splits              \* split settlements signed

ownerVars == <<paused, allowed, underwritingSigner, protectionSigner, routerPaused, creditSigner>>
escrowVars == <<position, usdc>>
arcVars == <<agreement, lapsedAt, router, payout>>
signedVars == <<terms, asked, proofs, splits>>
vars == <<now, ownerVars, escrowVars, arcVars, signedVars>>

Lesser(x, y) == IF x <= y THEN x ELSE y
Funded(o) == position[o].status = "Funded"
Released(o) == position[o].status = "Released"

Init ==
    /\ now = 0
    /\ paused = TRUE /\ allowed = {}
    /\ underwritingSigner = ServerKey /\ protectionSigner = ServerKey
    /\ position = [o \in Offers |-> NoPosition] /\ usdc = 0
    /\ terms = {} /\ asked = {} /\ proofs = {} /\ splits = {}
    /\ agreement = [a \in Agreements |-> "active"] /\ lapsedAt = [a \in Agreements |-> 0]
    /\ routerPaused = TRUE /\ creditSigner = ServerKey
    /\ router = 0 /\ payout = [a \in Agreements |-> NoSplit]

-----------------------------------------------------------------------------
(* The owner of the two contracts. *)

setPaused ==
    /\ paused' = ~paused
    /\ UNCHANGED <<allowed, underwritingSigner, protectionSigner, routerPaused, creditSigner>>

setFunderAllowed(f, permitted) ==
    /\ allowed' = IF permitted THEN allowed \cup {f} ELSE allowed \ {f}
    /\ UNCHANGED <<paused, underwritingSigner, protectionSigner, routerPaused, creditSigner>>

authorizeFunderAndActivate(f) ==
    /\ allowed' = allowed \cup {f} /\ paused' = FALSE
    /\ UNCHANGED <<underwritingSigner, protectionSigner, routerPaused, creditSigner>>

setUnderwritingSigner(k) ==
    /\ underwritingSigner' = k
    /\ UNCHANGED <<paused, allowed, protectionSigner, routerPaused, creditSigner>>

setProtectionSigner(k) ==
    /\ protectionSigner' = k
    /\ UNCHANGED <<paused, allowed, underwritingSigner, routerPaused, creditSigner>>

setRouterPaused ==
    /\ routerPaused' = ~routerPaused
    /\ UNCHANGED <<paused, allowed, underwritingSigner, protectionSigner, creditSigner>>

setCreditSigner(k) ==
    /\ creditSigner' = k
    /\ UNCHANGED <<paused, allowed, underwritingSigner, protectionSigner, routerPaused>>

\* The signers that are not the server's.
Rotated == Cardinality({i \in 1 .. 3 : <<underwritingSigner, protectionSigner, creditSigner>>[i] # ServerKey})

\* Setting what is set already changes nothing and is left out.
OwnerStep ==
    /\ \/ setPaused \/ setRouterPaused
       \/ \E f \in Funders : authorizeFunderAndActivate(f) \/ \E b \in BOOLEAN : setFunderAllowed(f, b)
       \/ \E k \in Keys : setUnderwritingSigner(k) \/ setProtectionSigner(k) \/ setCreditSigner(k)
    /\ ownerVars' # ownerVars /\ Rotated' <= MaxRotated
    /\ UNCHANGED <<now, escrowVars, arcVars, signedVars>>

-----------------------------------------------------------------------------
(* Pricing and the funding terms: the server signs, the provider accepts. *)

CeilBps(amount, bps) == (amount * bps + BPS - 1) \div BPS
FundingFee(advance) == CeilBps(advance, FeeBps)
PlatformFundingFee(advance) == (FundingFee(advance) * PlatformShareBps) \div BPS
PlatformFee(o, advance) == CeilBps(Protected(o), StandardFeeBps) + PlatformFundingFee(advance)
FunderRepayment(advance) == advance + FundingFee(advance) - PlatformFundingFee(advance)

\* fault: the provider's remainder is not looked at
QuotePositive(o, advance) == FunderRepayment(advance) > advance /\ PlatformFee(o, advance) > 0
QuoteSafe(o, advance) ==
    /\ FunderRepayment(advance) > advance /\ PlatformFee(o, advance) > 0
    /\ Protected(o) - FunderRepayment(advance) - PlatformFee(o, advance) > 0

MaxAdvance(o) == (Protected(o) * MaxAdvanceBps) \div BPS

\* The opportunity is live and its position still available; what a partner is asked
\* for is at most what the assessment allows.
signFundingTerms(o, f, advance) ==
    /\ Cardinality(terms) < MaxSigned
    /\ UnderwrittenUntil[o] > now /\ Deadline(o) - now >= MinRemaining
    /\ position[o].status = "None"
    /\ 0 < advance /\ advance < Protected(o) /\ advance <= MaxAdvance(o)
    /\ QuoteSafe(o, advance)
    /\ terms' = terms \cup {[offer |-> o, funder |-> f, advance |-> advance,
                             repayment |-> FunderRepayment(advance), fee |-> PlatformFee(o, advance)]}
    /\ UNCHANGED <<now, ownerVars, escrowVars, arcVars, asked, proofs, splits>>

-----------------------------------------------------------------------------
(* UpfrontAdvanceEscrowV2. *)

AmountsAccepted(t) ==
    /\ t.advance > 0 /\ t.repayment > t.advance /\ t.fee > 0
    /\ t.repayment + t.fee < Protected(t.offer)
    /\ t.advance <= MaxAdvance(t.offer)

OfferUnused(o) == position[o].status = "None"

\* The deadline of the terms is the offer's underwriting deadline.
fundAdvance(t) ==
    /\ ~paused /\ t.funder \in allowed
    /\ AmountsAccepted(t)
    /\ now <= UnderwrittenUntil[t.offer] /\ Deadline(t.offer) > UnderwrittenUntil[t.offer]
    /\ Deadline(t.offer) <= now + MaxProtectionWindow
    /\ OfferUnused(t.offer)
    /\ underwritingSigner = ServerKey /\ protectionSigner = ServerKey
    /\ position' = [position EXCEPT ![t.offer] =
         [status |-> "Funded", funder |-> t.funder, advance |-> t.advance, repayment |-> t.repayment,
          fee |-> t.fee, signer |-> protectionSigner, agreement |-> NoAgreement]]
    /\ usdc' = usdc + t.advance
    /\ terms' = {u \in terms : u.offer # t.offer}
    /\ UNCHANGED <<now, ownerVars, arcVars, asked, proofs, splits>>

\* fault: releasedArcAgreements is not read
AnyAgreement(a) == TRUE
AgreementUnused(a) == \A o \in Offers : position[o].agreement # a

\* fault: the attestation's own deadline is not compared
YoungProof(p) == p.observed <= now /\ now <= p.observed + MaxAttestationAge
FreshProof(p) == p.observed <= now /\ now <= p.deadline /\ now <= p.observed + MaxAttestationAge

releaseAdvance(p) ==
    LET o == p.offer IN
    /\ ~paused /\ Funded(o)
    /\ AgreementUnused(p.agreement)
    /\ FreshProof(p) /\ now <= Deadline(o)
    /\ position[o].signer = ServerKey
    /\ usdc >= position[o].advance
    /\ position' = [position EXCEPT ![o].status = "Released", ![o].agreement = p.agreement]
    /\ usdc' = usdc - position[o].advance
    /\ proofs' = {q \in proofs : q.offer # o}
    /\ UNCHANGED <<now, ownerVars, arcVars, terms, asked, splits>>

\* fault: a released advance is refunded
RefundDueAgain(o) == (Funded(o) \/ Released(o)) /\ now > Deadline(o)
RefundDue(o) == Funded(o) /\ now > Deadline(o)

refundAdvance(o) ==
    /\ RefundDue(o)
    /\ usdc >= position[o].advance
    /\ position' = [position EXCEPT ![o].status = "Refunded"]
    /\ usdc' = usdc - position[o].advance
    /\ proofs' = {q \in proofs : q.offer # o}
    /\ UNCHANGED <<now, ownerVars, arcVars, terms, asked, splits>>

-----------------------------------------------------------------------------
(* The server's signatures over what it reads from both chains. *)

\* The caller names the agreement.  The answer about it can be long in coming.
AgreementRead(o, a) ==
    /\ Cardinality(asked) < MaxAsked
    /\ agreement[a] = "active" /\ Alike(o, a)
    /\ asked' = asked \cup {[offer |-> o, agreement |-> a, read |-> now]}
    /\ UNCHANGED <<now, ownerVars, escrowVars, arcVars, terms, proofs, splits>>

\* The clock is read when the agreement and the position are there.  The position may have
\* been read earlier than here; one that was Funded then and is no longer gets a proof that
\* releaseAdvance refuses for good.
signProtectionAttestation(r) ==
    LET deadline == Lesser(Deadline(r.offer), now + AttestationLife) IN
    /\ Cardinality(proofs) < MaxSigned
    /\ Funded(r.offer)
    /\ Deadline(r.offer) - now >= MinRemaining /\ deadline > now
    /\ proofs' = proofs \cup {[offer |-> r.offer, agreement |-> r.agreement, read |-> r.read,
                               observed |-> now, deadline |-> deadline]}
    /\ asked' = asked \ {r}
    /\ UNCHANGED <<now, ownerVars, escrowVars, arcVars, terms, splits>>

\* A request fails: the caller is gone, a read fails or a check refuses it.
DropRequest(r) ==
    /\ asked' = asked \ {r}
    /\ UNCHANGED <<now, ownerVars, escrowVars, arcVars, terms, proofs, splits>>

\* fault: the advance need not have been released
Creditable(o, a) == position[o].status # "None" /\ agreement[a] = "completed" /\ Alike(o, a)
Repayable(o, a) == Released(o) /\ agreement[a] = "completed" /\ Alike(o, a)

\* The caller names the agreement here too.  Neither status changes again, so that the reads
\* and the signature are one step.
signSplitSettlement(o, a) ==
    LET p == position[o] IN
    /\ Cardinality(splits) < MaxSplits
    /\ Repayable(o, a)
    /\ splits' = splits \cup {[agreement |-> a, funder |-> p.funder, observed |-> now,
                               toFunder |-> p.repayment, toTreasury |-> p.fee,
                               toProvider |-> Protected(o) - p.repayment - p.fee]}
    /\ UNCHANGED <<now, ownerVars, escrowVars, arcVars, terms, asked, proofs>>

-----------------------------------------------------------------------------
(* Arc: the agreement's contract, external, and ArcRepaymentRouterV4. *)

Lapse(a) ==
    lapsedAt' = IF \E r \in asked \cup proofs : r.agreement = a THEN [lapsedAt EXCEPT ![a] = now] ELSE lapsedAt

AgreementCompleted(a) ==
    /\ agreement[a] = "active"
    /\ agreement' = [agreement EXCEPT ![a] = "completed"]
    /\ Lapse(a)
    /\ router' = router + Payment(a)
    /\ UNCHANGED <<now, ownerVars, escrowVars, payout, signedVars>>

\* Cancelled by its payer or the operator, or expired.
AgreementReturned(a) ==
    /\ agreement[a] = "active"
    /\ agreement' = [agreement EXCEPT ![a] = "returned"]
    /\ Lapse(a)
    /\ UNCHANGED <<now, ownerVars, escrowVars, router, payout, signedVars>>

\* fault: settledAgreements is not read
SettleableAgain(a) == TRUE
Settleable(a) == payout[a] = NoSplit

settleRepayment(s) ==
    LET total == s.toFunder + s.toProvider + s.toTreasury IN
    /\ ~routerPaused
    /\ s.toFunder > 0 /\ s.toProvider > 0 /\ s.toTreasury > 0
    /\ s.observed <= now /\ now <= s.observed + AttestationLife /\ now <= s.observed + MaxAttestationAge
    /\ Settleable(s.agreement)
    /\ creditSigner = ServerKey
    /\ router >= total
    /\ router' = router - total
    /\ payout' = [payout EXCEPT ![s.agreement] =
         [funder |-> s.funder, toFunder |-> s.toFunder, toProvider |-> s.toProvider, toTreasury |-> s.toTreasury]]
    /\ UNCHANGED <<now, ownerVars, escrowVars, agreement, lapsedAt, signedVars>>

\* What no contract and no check would take any more is dropped, here and where a position
\* moves on, so that the bounds count what is in use.
Tick ==
    /\ now < MaxTime
    /\ now' = now + 1
    /\ terms' = {t \in terms : now' <= UnderwrittenUntil[t.offer]}
    /\ asked' = {r \in asked : Deadline(r.offer) - now' >= MinRemaining}
    /\ proofs' = {p \in proofs : now' <= Deadline(p.offer) /\ now' <= p.observed + MaxAttestationAge}
    /\ splits' = {s \in splits : now' <= s.observed + AttestationLife}
    /\ UNCHANGED <<ownerVars, escrowVars, arcVars>>

Next ==
    \/ OwnerStep \/ Tick
    \/ \E o \in Offers, f \in Funders, advance \in AdvanceAmounts : signFundingTerms(o, f, advance)
    \/ \E t \in terms : fundAdvance(t)
    \/ \E p \in proofs : releaseAdvance(p)
    \/ \E s \in splits : settleRepayment(s)
    \/ \E r \in asked : signProtectionAttestation(r) \/ DropRequest(r)
    \/ \E o \in Offers, a \in Agreements : AgreementRead(o, a) \/ signSplitSettlement(o, a)
    \/ \E o \in Offers : refundAdvance(o)
    \/ \E a \in Agreements : AgreementCompleted(a) \/ AgreementReturned(a)

Spec == Init /\ [][Next]_vars

-----------------------------------------------------------------------------
(* Properties. *)

TermsType == [offer : Offers, funder : Funders, advance : Nat, repayment : Nat, fee : Nat]
RequestType == [offer : Offers, agreement : Agreements, read : Nat]
ProofType == [offer : Offers, agreement : Agreements, read : Nat, observed : Nat, deadline : Nat]
SplitType == [agreement : Agreements, funder : Funders \cup {Nobody}, observed : Nat,
              toFunder : Nat, toTreasury : Nat, toProvider : Int]
PositionType == [status : {"None", "Funded", "Released", "Refunded"}, funder : Funders \cup {Nobody},
                 advance : Nat, repayment : Nat, fee : Nat, signer : Keys,
                 agreement : Agreements \cup {NoAgreement}]
PayoutType == [funder : Funders \cup {Nobody}, toFunder : Nat, toProvider : Nat, toTreasury : Nat]

\* Every variable keeps to the values the two contracts and the server can have, and a
\* position names an agreement exactly when it was released against one.
TypeOK ==
    /\ now \in Nat
    /\ paused \in BOOLEAN /\ allowed \subseteq Funders
    /\ underwritingSigner \in Keys /\ protectionSigner \in Keys
    /\ position \in [Offers -> PositionType] /\ usdc \in Nat
    /\ \A o \in Offers : Released(o) <=> position[o].agreement # NoAgreement
    /\ terms \subseteq TermsType /\ asked \subseteq RequestType /\ proofs \subseteq ProofType
    /\ agreement \in [Agreements -> {"active", "completed", "returned"}]
    /\ lapsedAt \in [Agreements -> Nat]
    /\ routerPaused \in BOOLEAN /\ creditSigner \in Keys
    /\ router \in Nat /\ payout \in [Agreements -> PayoutType]
    /\ splits \subseteq SplitType

HeldAdvance == [o \in Offers |-> IF Funded(o) THEN position[o].advance ELSE 0]
Owed == [a \in Agreements |->
           IF agreement[a] = "completed" /\ payout[a] = NoSplit THEN Payment(a) ELSE 0]

\* The X Layer escrow holds the advances of the funded positions, no more and no less,
\* through every order of funding, release, refund and pause.
EscrowCovers == usdc = Total(HeldAdvance)

\* The Arc router holds the payments of the completed agreements it has not split yet:
\* settling one never spends the payment of another.
RouterCovers == router = Total(Owed)

\* Together: no order of the two chains' steps takes one party's money for another's.
MoneyCovered == EscrowCovers /\ RouterCovers

\* An agreement backs one advance, however many assessments the provider asked for.
AgreementBacksOneAdvance ==
    \A o, q \in Offers : Released(o) /\ Released(q) /\ o # q => position[o].agreement # position[q].agreement

\* A payment is split in full, once, and repays the funder of a released advance at the price
\* of its signed terms; so an advance is never both refunded on X Layer and repaid on Arc.
\* The agreement that was paid and the one that backs the advance have the same terms: they
\* are one as long as no other agreement has its terms.
RepaidAsAgreed ==
    \A a \in Agreements : payout[a] # NoSplit =>
        /\ payout[a].toFunder + payout[a].toProvider + payout[a].toTreasury = Payment(a)
        /\ \E o \in Offers :
              /\ Released(o) /\ AgreementTerms[position[o].agreement] = AgreementTerms[a]
              /\ payout[a].funder = position[o].funder
              /\ payout[a].toFunder = position[o].repayment /\ payout[a].toTreasury = position[o].fee

\* "HashPayStream binds the confirmed agreement and its onchain Arc terms hash to both the
\* X Layer funder and a separately selected Arc repayment recipient" (README.md:141): a
\* payment repays the advance that its own agreement backs.  The code does not keep this:
\* the split is signed for the agreement the caller names, and of two agreements of the same
\* terms either may be named.
RepaidFromItsAgreement ==
    \A a \in Agreements : payout[a] # NoSplit =>
        \E o \in Offers : Released(o) /\ position[o].agreement = a /\ payout[a].funder = position[o].funder

\* Whatever the server prices and signs, the escrow's own amount checks accept.
SignedTermsFundable == \A t \in terms : AmountsAccepted(t)

\* Money moves to a provider only while the agreement that backs the advance is active on
\* Arc, or has stopped being so within the life of an attestation and the time that its
\* request waited for its reads.
ReleasesWereProtected ==
    [][\A o \in Offers : Funded(o) /\ position'[o].status = "Released" =>
          \E p \in proofs :
              /\ p.offer = o /\ p.agreement = position'[o].agreement
              /\ \/ agreement[p.agreement] = "active"
                 \/ now - lapsedAt[p.agreement] <= AttestationLife + (p.observed - p.read)]_vars

\* A funded advance can always leave the escrow once the protection deadline has passed:
\* its funder's refund is open and the money for it is there, whatever was paused,
\* rotated, revoked, released or refunded before.
RefundAlwaysOpen == \A o \in Offers : Funded(o) /\ now > Deadline(o) => ENABLED refundAdvance(o)

\* The account of an advance is its position on X Layer, and that of an agreement the split
\* of its payment on Arc.
Account(o) ==
    LET p == position[o] IN
    [stage |-> p.status, funder |-> p.funder, given |-> p.advance, owed |-> p.repayment, backing |-> p.agreement]
Accounts == [o \in Offers |-> Account(o)]
Repayments == [a \in Agreements |-> [payee |-> payout[a].funder, paid |-> payout[a].toFunder]]

Promise == INSTANCE AdvancePromise WITH account <- Accounts, held <- usdc, repaid <- Repayments

\* Over both chains and every signature in between, an advance is refunded, or delivered on
\* an agreement of its own, and each payment repays once, at the price of a released advance
\* of its terms.
KeepsPromise == Promise!Spec
=============================================================================
