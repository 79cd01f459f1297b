----------------------- MODULE ServiceRequestsProofs -----------------------
(***************************************************************************)
(* Work requests, for any number of acceptances and looks at the escrow,   *)
(* any number of versions and blocks: agreements are created for terms     *)
(* that stand, linked with their owners and recoverable until then; and a  *)
(* work payment is shown as the escrow was at the block recorded.          *)
(*                                                                         *)
(* The inductive invariant follows an acceptance through its calls.  Once  *)
(* any of them has marked its attempt, the acceptance cannot be undone     *)
(* (AttemptHolds), so whoever is past the mark works on the terms that     *)
(* stand (CreatorsHold), and so does every agreement (AgreementsHold).     *)
(* The work payment needs that the escrow does not go back (EscrowGrows)   *)
(* and that what an observer carries was so at its block (ObserversHold).  *)
(* An end that is shown stays because one of the notices at most is an     *)
(* end, in whatever order they arrive, and an ended escrow never moves     *)
(* (EventsInv).                                                            *)
(***************************************************************************)
EXTENDS ServiceRequests, WellFoundedInduction, TLAPS

\* A request that does not exist yet has nothing of an acceptance.
NewRequest ==
    request.status = "none" =>
        /\ request.activeVersion = None
        /\ request.customerAcceptedVersion = None
        /\ request.agreementId = None

\* What the customer accepted are the active terms, accepted by the provider too.
AcceptedTogether ==
    request.customerAcceptedVersion # None =>
        /\ request.customerAcceptedVersion = request.activeVersion
        /\ request.providerAcceptedVersion = request.activeVersion

\* A marked attempt keeps the acceptance.
AttemptHolds ==
    request.agreementCreationStarted =>
        /\ request.customerAcceptedVersion # None
        /\ request.status \in {"provider_accepted", "awaiting_funding"}
        /\ ~request.xlayer

\* A request waits for funding only once something is linked.
FundingIsLinked ==
    request.status = "awaiting_funding" => request.agreementId # None

\* An acceptance under way never holds terms that are still to come, and what it
\* checks is not paid on X Layer.
CheckersHold ==
    \A c \in Callers :
        /\ seen[c].version <= request.activeVersion
        /\ pc[c] = "checking" => seen[c].version # None
        /\ pc[c] = "checking" /\ seen[c].version = request.activeVersion => ~request.xlayer

\* Past the mark, an acceptance works on the active terms, and what it created is there.
CreatorsHold ==
    \A c \in Callers : pc[c] \in {"creating", "created", "owned"} =>
        /\ request.agreementCreationStarted
        /\ seen[c].version = request.activeVersion
        /\ pc[c] \in {"created", "owned"} => seen[c].version \in agreements
        /\ pc[c] = "owned" => seen[c].version \in owners

\* Agreements are those of the active terms, after a marked attempt.
AgreementsHold ==
    \A version \in agreements :
        request.agreementCreationStarted /\ version = request.activeVersion

\* Wallets are bound and escrows read only for accepted work on X Layer.
ReadersHold ==
    request.wallets # {} \/ (\E c \in Callers : pc[c] = "read") =>
        request.xlayer /\ request.agreementId # None

AcceptanceInv ==
    /\ NewRequest
    /\ AcceptedTogether
    /\ AttemptHolds
    /\ FundingIsLinked
    /\ CheckersHold
    /\ CreatorsHold
    /\ AgreementsHold
    /\ ReadersHold
    /\ LinkedAgreementsAreOwned

Before == {"none", "unfunded"}

\* The escrow does not return to before its funding.
EscrowGrows ==
    \A i, j \in DOMAIN escrow : i <= j /\ escrow[j] \in Before => escrow[i] \in Before

\* An observer carries the state of its block.
ObserversHold ==
    \A c \in Callers : pc[c] = "read" =>
        /\ seen[c].block \in DOMAIN escrow
        /\ seen[c].state \in {escrow[seen[c].block], "pending"}

\* Accepted work has the status of the last observed block, or waits for its funding.
WorkHolds ==
    /\ request.observedBlock # 0 =>
        /\ request.xlayer
        /\ request.agreementId # None
        /\ request.observedBlock \in DOMAIN escrow
    /\ request.xlayer /\ request.agreementId # None /\ request.observedBlock = 0 =>
        request.status = "awaiting_funding"

WorkInv ==
    /\ EscrowGrows
    /\ ObserversHold
    /\ WorkHolds
    /\ WorkMatchesEscrow

IInv == TypeOK /\ AcceptanceInv /\ WorkInv

-----------------------------------------------------------------------------
(* Types *)

LEMMA NothingIsASight == Nothing \in Sights
BY ServiceRequestsAssumption DEF Nothing, Sights, None, EscrowStates

LEMMA TypeInit == Init => TypeOK
<1> SUFFICES ASSUME Init PROVE TypeOK
    OBVIOUS
<1>1. request \in Requests
    BY ServiceRequestsAssumption DEF Init, Requests, None, Statuses
<1>2. seen \in [Callers -> Sights] /\ pc \in [Callers -> Places]
    BY NothingIsASight DEF Init, Places
<1>3. escrow \in Seq(EscrowStates) /\ Len(escrow) \in 1..MaxBlocks
    BY ServiceRequestsAssumption DEF Init, EscrowStates
<1>4. QED
    BY <1>1, <1>2, <1>3 DEF Init, TypeOK

LEMMA NegotiateKeepsType == TypeOK /\ Negotiate => TypeOK'
<1> SUFFICES ASSUME TypeOK, Negotiate PROVE TypeOK'
    OBVIOUS
<1>1. request' \in Requests
  <2>1. {"sent", "countered", "provider_accepted", "declined", "cancelled"} \subseteq Statuses
      BY DEF Statuses, Negotiable, Closed
  <2>2. /\ 0 \in 0..MaxVersion
        /\ 1 \in 0..MaxVersion
        /\ Versions \subseteq 0..MaxVersion
        /\ \A version \in Versions : version < MaxVersion => version + 1 \in 0..MaxVersion
      BY ServiceRequestsAssumption DEF Versions
  <2>3. ASSUME NEW xlayer \in BOOLEAN, Create(xlayer) PROVE request' \in Requests
      BY <2>1, <2>2, <2>3 DEF Create, TypeOK, Requests
  <2>4. ASSUME NEW version \in Versions, ProviderAccept(version) PROVE request' \in Requests
      BY <2>1, <2>2, <2>4 DEF ProviderAccept, TypeOK, Requests
  <2>5. ASSUME NEW version \in Versions, NEW xlayer \in BOOLEAN, ProviderCounter(version, xlayer)
        PROVE  request' \in Requests
      BY <2>1, <2>2, <2>5 DEF ProviderCounter, TypeOK, Requests, None
  <2>6. ASSUME NEW version \in Versions, ProviderDecline(version) \/ CustomerCancel(version)
        PROVE  request' \in Requests
      BY <2>1, <2>6 DEF ProviderDecline, CustomerCancel, TypeOK, Requests
  <2>7. QED
      BY <2>3, <2>4, <2>5, <2>6 DEF Negotiate
<1>2. UNCHANGED <<store, pc, seen>>
    BY DEF Negotiate, Create, ProviderAccept, ProviderCounter, ProviderDecline, CustomerCancel
<1>3. QED
    BY <1>1, <1>2 DEF TypeOK, store

LEMMA AcceptKeepsType ==
    ASSUME TypeOK, NEW a \in Acceptances, Accept(a)
    PROVE  TypeOK'
<1>1. a \in Callers /\ seen[a].version \in 0..MaxVersion
    BY DEF Callers, TypeOK, Sights
<1>2. request' \in Requests
  <2>0. {"provider_accepted", "awaiting_funding"} \subseteq Statuses
      BY DEF Statuses, Negotiable
  <2>1. 0 \in 0..MaxVersion /\ Versions \subseteq 0..MaxVersion
      BY ServiceRequestsAssumption DEF Versions
  <2>2. ASSUME NEW version \in Versions, AcceptWork(a, version) PROVE request' \in Requests
      BY <2>0, <2>1, <2>2 DEF AcceptWork, TypeOK, Requests
  <2>3. ASSUME NEW version \in Versions, AcceptTerms(a, version) PROVE request' \in Requests
      BY <2>0, <2>1, <2>3 DEF AcceptTerms, TypeOK, Requests
  <2>4. CASE StartCreation(a)
      BY <2>4 DEF StartCreation, TypeOK, Requests
  <2>5. CASE LinkAgreement(a)
      BY <1>1, <2>0, <2>5 DEF LinkAgreement, TypeOK, Requests
  <2>6. CASE RollBack(a)
      BY <2>0, <2>1, <2>6 DEF RollBack, TypeOK, Requests, None
  <2>7. CASE FindTermsChanged(a) \/ CreateAgreement(a) \/ RecordOwner(a) \/ Fail(a)
      BY <2>7 DEF FindTermsChanged, CreateAgreement, RecordOwner, Fail, TypeOK
  <2>8. QED
      BY <2>2, <2>3, <2>4, <2>5, <2>6, <2>7 DEF Accept
<1>3. pc' \in [Callers -> Places]
    BY <1>1 DEF TypeOK, Accept, Places, AcceptWork, AcceptTerms, StartCreation, FindTermsChanged,
       CreateAgreement, RecordOwner, LinkAgreement, Fail, RollBack
<1>4. seen' \in [Callers -> Sights]
  <2>1. CASE \E version \in Versions : AcceptTerms(a, version)
    <3>1. \A version \in Versions : [Nothing EXCEPT !.version = version] \in Sights
        BY NothingIsASight DEF Sights, Versions
    <3>2. QED
        BY <2>1, <3>1 DEF TypeOK, AcceptTerms
  <2>2. CASE LinkAgreement(a) \/ RollBack(a)
      BY <2>2, NothingIsASight DEF TypeOK, LinkAgreement, RollBack
  <2>3. QED
      BY <2>1, <2>2 DEF TypeOK, Accept, AcceptWork, StartCreation, FindTermsChanged,
         CreateAgreement, RecordOwner, Fail
<1>5. agreements' \subseteq 0..MaxVersion /\ owners' \subseteq 0..MaxVersion
  <2>1. CASE CreateAgreement(a)
      BY <1>1, <2>1 DEF TypeOK, CreateAgreement
  <2>2. CASE RecordOwner(a)
      BY <1>1, <2>2 DEF TypeOK, RecordOwner
  <2>3. QED
      BY <2>1, <2>2 DEF TypeOK, Accept, store, AcceptWork, AcceptTerms, StartCreation,
         FindTermsChanged, LinkAgreement, Fail, RollBack
<1>6. UNCHANGED <<occurred, notices, received, escrow>>
    BY DEF Accept, store, AcceptWork, AcceptTerms, StartCreation, FindTermsChanged,
       CreateAgreement, RecordOwner, LinkAgreement, Fail, RollBack
<1>7. QED
    BY <1>2, <1>3, <1>4, <1>5, <1>6 DEF TypeOK

LEMMA WorkKeepsType == TypeOK /\ Work => TypeOK'
<1> SUFFICES ASSUME TypeOK, Work PROVE TypeOK'
    OBVIOUS
<1>1. CASE \E role \in {"customer", "provider"} : BindWallet(role)
  <2>1. request' \in Requests
      BY <1>1 DEF BindWallet, TypeOK, Requests
  <2>2. QED
      BY <1>1, <2>1 DEF BindWallet, TypeOK, store
<1>2. CASE MineBlock
  <2>1. \A state \in EscrowStates : NextStates(state) \subseteq EscrowStates
      BY DEF NextStates, EscrowStates
  <2>2. /\ escrow[Len(escrow)] \in EscrowStates
        /\ Len(escrow) \in Nat
        /\ Len(escrow) < MaxBlocks
      BY <1>2 DEF TypeOK, MineBlock
  <2>3. PICK state \in EscrowStates : escrow' = Append(escrow, state)
      BY <1>2, <2>1, <2>2 DEF MineBlock
  <2>4. escrow' \in Seq(EscrowStates) /\ Len(escrow') = Len(escrow) + 1
      BY <2>3 DEF TypeOK
  <2>5. QED
      BY <1>2, <2>2, <2>4, ServiceRequestsAssumption DEF TypeOK, MineBlock
<1>3. ASSUME NEW o \in Observers, ReadEscrow(o) PROVE TypeOK'
  <2>1. Len(escrow) \in 0..MaxBlocks /\ escrow[Len(escrow)] \in EscrowStates
      BY ServiceRequestsAssumption DEF TypeOK
  <2>2. \A state \in {escrow[Len(escrow)], "pending"} :
            [Nothing EXCEPT !.block = Len(escrow), !.state = state] \in Sights
      BY <2>1, NothingIsASight DEF Sights
  <2>3. QED
      BY <1>3, <2>2 DEF ReadEscrow, TypeOK, Callers, Places, store
<1>4. ASSUME NEW o \in Observers, RecordWork(o) PROVE TypeOK'
  <2>1. o \in Callers /\ seen[o].block \in 0..MaxBlocks
      BY DEF Callers, TypeOK, Sights
  <2>2. request.status \in Statuses
      BY DEF TypeOK, Requests
  <2>3. WorkStatus(seen[o].state, request.status) \in Statuses
      BY <2>2 DEF WorkStatus, Statuses, Finished
  <2>4. request' \in Requests
      BY <1>4, <2>1, <2>3 DEF RecordWork, TypeOK, Requests
  <2>5. QED
      BY <1>4, <2>1, <2>4, NothingIsASight DEF RecordWork, TypeOK, Places, store
<1>5. QED
    BY <1>1, <1>2, <1>3, <1>4 DEF Work

LEMMA LiveKeepsType == TypeOK /\ Live => TypeOK'
<1> SUFFICES ASSUME TypeOK, Live PROVE TypeOK'
    OBVIOUS
<1>1. CASE \E event \in Events : AgreementStep(event)
    BY <1>1 DEF AgreementStep, TypeOK
<1>2. CASE \E event \in Events : Notify(event)
    BY <1>2 DEF Notify, TypeOK
<1>3. CASE \E i \in DOMAIN notices : ReceiveWebhook(i)
    BY <1>3 DEF ReceiveWebhook, TypeOK
<1>4. QED
    BY <1>1, <1>2, <1>3 DEF Live

LEMMA TypeStep == TypeOK /\ [Next]_vars => TypeOK'
<1> SUFFICES ASSUME TypeOK, [Next]_vars PROVE TypeOK'
    OBVIOUS
<1>1. CASE \E c \in Callers : Die(c)
    BY <1>1, NothingIsASight DEF Die, TypeOK, store, Places
<1>2. CASE UNCHANGED vars
    BY <1>2 DEF TypeOK, vars
<1>3. ASSUME NEW a \in Acceptances, Accept(a) PROVE TypeOK'
    BY <1>3, AcceptKeepsType
<1>4. QED
    BY <1>1, <1>2, <1>3, NegotiateKeepsType, WorkKeepsType, LiveKeepsType DEF Next

-----------------------------------------------------------------------------
(* Acceptance *)

LEMMA AcceptanceInit == Init => AcceptanceInv
BY DEF Init, AcceptanceInv, NewRequest, AcceptedTogether, AttemptHolds, FundingIsLinked,
   CheckersHold, CreatorsHold, AgreementsHold, ReadersHold, LinkedAgreementsAreOwned, None, Nothing

LEMMA NegotiateKeepsAcceptance == TypeOK /\ AcceptanceInv /\ Negotiate => AcceptanceInv'
<1> SUFFICES ASSUME TypeOK, AcceptanceInv, Negotiate PROVE AcceptanceInv'
    OBVIOUS
<1> USE DEF AcceptanceInv, NewRequest, AcceptedTogether, AttemptHolds, FundingIsLinked,
        CheckersHold, CreatorsHold, AgreementsHold, ReadersHold, LinkedAgreementsAreOwned, None,
        TypeOK, Requests, store, CanNegotiate, CanChange, Negotiable
<1>0. \A c \in Callers : seen[c].version \in Nat
    BY DEF Sights
<1>1. ASSUME NEW xlayer \in BOOLEAN, Create(xlayer) PROVE AcceptanceInv'
    BY <1>0, <1>1 DEF Create
<1>2. ASSUME NEW version \in Versions, ProviderAccept(version) PROVE AcceptanceInv'
    BY <1>0, <1>2 DEF ProviderAccept
<1>3. ASSUME NEW version \in Versions, NEW xlayer \in BOOLEAN, ProviderCounter(version, xlayer)
      PROVE  AcceptanceInv'
    BY <1>0, <1>3 DEF ProviderCounter
<1>4. ASSUME NEW version \in Versions, ProviderDecline(version) \/ CustomerCancel(version)
      PROVE  AcceptanceInv'
    BY <1>0, <1>4 DEF ProviderDecline, CustomerCancel
<1>5. QED
    BY <1>1, <1>2, <1>3, <1>4 DEF Negotiate

LEMMA AcceptKeepsAcceptance ==
    ASSUME TypeOK, AcceptanceInv, NEW a \in Acceptances, Accept(a)
    PROVE  AcceptanceInv'
<1> USE DEF AcceptanceInv, NewRequest, AcceptedTogether, AttemptHolds, FundingIsLinked,
        CheckersHold, CreatorsHold, AgreementsHold, ReadersHold, LinkedAgreementsAreOwned, None,
        TypeOK, Requests, store, MayAccept, CanChange, Negotiable, Nothing
<1>0. a \in Callers /\ \A c \in Callers : seen[c].version \in Nat
    BY DEF Sights, Callers
<1>1. ASSUME NEW version \in Versions, AcceptWork(a, version) PROVE AcceptanceInv'
    BY <1>0, <1>1, ServiceRequestsAssumption DEF AcceptWork, Versions
<1>2. ASSUME NEW version \in Versions, AcceptTerms(a, version) PROVE AcceptanceInv'
    BY <1>0, <1>2, ServiceRequestsAssumption DEF AcceptTerms, Versions
<1>3. CASE StartCreation(a)
    BY <1>0, <1>3 DEF StartCreation, StillAccepted
<1>4. CASE FindTermsChanged(a) \/ Fail(a)
    BY <1>0, <1>4 DEF FindTermsChanged, Fail
<1>5. CASE CreateAgreement(a)
    BY <1>0, <1>5 DEF CreateAgreement
<1>6. CASE RecordOwner(a)
    BY <1>0, <1>6 DEF RecordOwner
<1>7. CASE LinkAgreement(a)
    BY <1>0, <1>7 DEF LinkAgreement
<1>8. CASE RollBack(a)
    BY <1>0, <1>8 DEF RollBack, CanRollBack
<1>9. QED
    BY <1>1, <1>2, <1>3, <1>4, <1>5, <1>6, <1>7, <1>8 DEF Accept

LEMMA WorkKeepsAcceptance == TypeOK /\ AcceptanceInv /\ Work => AcceptanceInv'
<1> SUFFICES ASSUME TypeOK, AcceptanceInv, Work PROVE AcceptanceInv'
    OBVIOUS
<1> USE DEF AcceptanceInv, NewRequest, AcceptedTogether, AttemptHolds, FundingIsLinked,
        CheckersHold, CreatorsHold, AgreementsHold, ReadersHold, LinkedAgreementsAreOwned, None,
        TypeOK, Requests, store, Nothing
<1>0. \A c \in Callers : seen[c].version \in Nat
    BY DEF Sights
<1>1. ASSUME NEW role \in {"customer", "provider"}, BindWallet(role) PROVE AcceptanceInv'
    BY <1>0, <1>1 DEF BindWallet
<1>2. CASE MineBlock
    BY <1>2 DEF MineBlock
<1>3. ASSUME NEW o \in Observers, ReadEscrow(o) PROVE AcceptanceInv'
    BY <1>0, <1>3 DEF ReadEscrow, Bound, Callers
<1>4. ASSUME NEW o \in Observers, RecordWork(o) PROVE AcceptanceInv'
    BY <1>0, <1>4 DEF RecordWork, Callers, WorkStatus
<1>5. QED
    BY <1>1, <1>2, <1>3, <1>4 DEF Work

LEMMA AcceptanceStep == TypeOK /\ AcceptanceInv /\ [Next]_vars => AcceptanceInv'
<1> SUFFICES ASSUME TypeOK, AcceptanceInv, [Next]_vars PROVE AcceptanceInv'
    OBVIOUS
<1>1. ASSUME NEW c \in Callers, Die(c) PROVE AcceptanceInv'
    BY <1>1 DEF Die, AcceptanceInv, NewRequest, AcceptedTogether, AttemptHolds, FundingIsLinked,
       CheckersHold, CreatorsHold, AgreementsHold, ReadersHold, LinkedAgreementsAreOwned,
       TypeOK, Requests, store, Nothing, None
<1>2. CASE Live \/ UNCHANGED vars
  <2>1. UNCHANGED <<request, agreements, owners, pc, seen>>
      BY <1>2 DEF Live, AgreementStep, Notify, ReceiveWebhook, vars
  <2>2. QED
      BY <2>1 DEF AcceptanceInv, NewRequest, AcceptedTogether, AttemptHolds, FundingIsLinked,
         CheckersHold, CreatorsHold, AgreementsHold, ReadersHold, LinkedAgreementsAreOwned
<1>3. ASSUME NEW a \in Acceptances, Accept(a) PROVE AcceptanceInv'
    BY <1>3, AcceptKeepsAcceptance
<1>4. QED
    BY <1>1, <1>2, <1>3, NegotiateKeepsAcceptance, WorkKeepsAcceptance DEF Next

-----------------------------------------------------------------------------
(* Work on X Layer *)

LEMMA WorkInit == Init => WorkInv
BY ServiceRequestsAssumption DEF Init, WorkInv, EscrowGrows, ObserversHold, WorkHolds,
   WorkMatchesEscrow, Before, None

\* Negotiating and accepting leave observed work alone.
LEMMA NegotiateKeepsWork == TypeOK /\ AcceptanceInv /\ WorkInv /\ Negotiate => WorkInv'
<1> SUFFICES ASSUME TypeOK, AcceptanceInv, WorkInv, Negotiate PROVE WorkInv'
    OBVIOUS
<1>1. /\ UNCHANGED <<escrow, pc, seen>>
      /\ request.agreementId = None
      /\ request'.agreementId = request.agreementId
      /\ request'.observedBlock = request.observedBlock
    BY DEF Negotiate, Create, ProviderAccept, ProviderCounter, ProviderDecline, CustomerCancel,
       CanNegotiate, CanChange, store, TypeOK, Requests, AcceptanceInv, NewRequest
<1>2. QED
    BY <1>1 DEF WorkInv, EscrowGrows, ObserversHold, WorkHolds, WorkMatchesEscrow

LEMMA AcceptKeepsWork ==
    ASSUME TypeOK, AcceptanceInv, WorkInv, NEW a \in Acceptances, Accept(a)
    PROVE  WorkInv'
<1>1. a \in Callers /\ pc[a] # "read"
    BY DEF Callers, Accept, AcceptWork, AcceptTerms, StartCreation, FindTermsChanged,
       CreateAgreement, RecordOwner, LinkAgreement, Fail, RollBack
<1>2. UNCHANGED escrow /\ \A c \in Callers : pc'[c] = "read" =>
          pc[c] = "read" /\ seen'[c] = seen[c]
    BY <1>1 DEF TypeOK, store, Accept, AcceptWork, AcceptTerms, StartCreation, FindTermsChanged,
       CreateAgreement, RecordOwner, LinkAgreement, Fail, RollBack
<1>3. EscrowGrows' /\ ObserversHold'
    BY <1>2 DEF WorkInv, EscrowGrows, ObserversHold
<1>4. WorkHolds' /\ WorkMatchesEscrow'
  <2>1. ASSUME NEW version \in Versions, AcceptWork(a, version)
        PROVE  WorkHolds' /\ WorkMatchesEscrow'
      BY <1>2, <2>1 DEF AcceptWork, MayAccept, CanChange, TypeOK, Requests, WorkInv, WorkHolds,
         WorkMatchesEscrow
  <2>2. CASE LinkAgreement(a)
      BY <1>1, <1>2, <2>2 DEF LinkAgreement, TypeOK, Requests, AcceptanceInv, CreatorsHold,
         AttemptHolds, WorkInv, WorkHolds, WorkMatchesEscrow
  <2>3. CASE RollBack(a)
      BY <1>2, <2>3 DEF RollBack, CanRollBack, TypeOK, Requests, WorkInv, WorkHolds,
         WorkMatchesEscrow
  <2>4. ASSUME NEW version \in Versions, AcceptTerms(a, version)
        PROVE  WorkHolds' /\ WorkMatchesEscrow'
      BY <1>2, <2>4 DEF AcceptTerms, MayAccept, CanChange, TypeOK, Requests, WorkInv, WorkHolds,
         WorkMatchesEscrow
  <2>5. CASE StartCreation(a)
      BY <1>1, <1>2, <2>5 DEF StartCreation, TypeOK, Requests, WorkInv, WorkHolds,
         WorkMatchesEscrow
  <2>6. QED
      BY <1>2, <2>1, <2>2, <2>3, <2>4, <2>5 DEF Accept, FindTermsChanged, CreateAgreement,
         RecordOwner, Fail, WorkInv, WorkHolds, WorkMatchesEscrow
<1>5. QED
    BY <1>3, <1>4 DEF WorkInv

LEMMA WorkKeepsWork == TypeOK /\ AcceptanceInv /\ WorkInv /\ Work => WorkInv'
<1> SUFFICES ASSUME TypeOK, AcceptanceInv, WorkInv, Work PROVE WorkInv'
    OBVIOUS
<1>1. ASSUME NEW role \in {"customer", "provider"}, BindWallet(role) PROVE WorkInv'
    BY <1>1 DEF BindWallet, store, TypeOK, Requests, WorkInv, EscrowGrows, ObserversHold,
       WorkHolds, WorkMatchesEscrow
<1>2. CASE MineBlock
  <2>1. PICK state \in NextStates(escrow[Len(escrow)]) : escrow' = Append(escrow, state)
      BY <1>2 DEF MineBlock
  <2>2. UNCHANGED <<request, pc, seen>>
      BY <1>2 DEF MineBlock
  <2>3. /\ Len(escrow) \in Nat \ {0}
        /\ DOMAIN escrow = 1..Len(escrow)
        /\ DOMAIN escrow' = 1..(Len(escrow) + 1)
        /\ \A i \in DOMAIN escrow : escrow'[i] = escrow[i]
        /\ escrow'[Len(escrow) + 1] = state
      BY <2>1 DEF TypeOK
  <2>4. state \in Before => escrow[Len(escrow)] \in Before
      BY <2>1, <2>3 DEF NextStates, Before, TypeOK, EscrowStates
  <2>5. EscrowGrows'
    <3> SUFFICES ASSUME NEW i \in DOMAIN escrow', NEW j \in DOMAIN escrow', i <= j,
                        escrow'[j] \in Before
                 PROVE  escrow'[i] \in Before
        BY DEF EscrowGrows, Before
    <3>1. CASE j \in DOMAIN escrow
        BY <2>3, <3>1 DEF WorkInv, EscrowGrows
    <3>2. CASE j = Len(escrow) + 1
        BY <2>3, <2>4, <3>2 DEF WorkInv, EscrowGrows
    <3>3. QED
        BY <2>3, <3>1, <3>2
  <2>6. ObserversHold'
      BY <2>2, <2>3 DEF WorkInv, ObserversHold
  <2>7. WorkHolds' /\ WorkMatchesEscrow'
      BY <2>2, <2>3 DEF WorkInv, WorkHolds, WorkMatchesEscrow
  <2>8. QED
      BY <2>5, <2>6, <2>7 DEF WorkInv
<1>3. ASSUME NEW o \in Observers, ReadEscrow(o) PROVE WorkInv'
  <2>1. o \in Callers /\ Len(escrow) \in DOMAIN escrow
      BY DEF Callers, TypeOK
  <2>2. ObserversHold'
      BY <1>3, <2>1 DEF ReadEscrow, store, TypeOK, WorkInv, ObserversHold, Nothing
  <2>3. QED
      BY <1>3, <2>2 DEF ReadEscrow, store, WorkInv, EscrowGrows, WorkHolds, WorkMatchesEscrow
<1>4. ASSUME NEW o \in Observers, RecordWork(o) PROVE WorkInv'
  <2>1. o \in Callers /\ pc[o] = "read" /\ UNCHANGED escrow
      BY <1>4 DEF Callers, RecordWork, store
  <2>2. ObserversHold'
      BY <1>4, <2>1 DEF RecordWork, TypeOK, WorkInv, ObserversHold
  <2>3. CASE ~Usable(seen[o])
      BY <1>4, <2>1, <2>2, <2>3 DEF RecordWork, WorkInv, EscrowGrows, WorkHolds,
         WorkMatchesEscrow
  <2>4. CASE Usable(seen[o])
    <3> DEFINE block == seen[o].block
    <3>1. /\ request'.status = WorkStatus(escrow[block], request.status)
          /\ request'.observedBlock = block
          /\ request'.xlayer = request.xlayer
          /\ request'.agreementId = request.agreementId
        BY <1>4, <2>1, <2>4 DEF RecordWork, Usable, TypeOK, Requests, WorkInv, ObserversHold
    <3>2. /\ block \in DOMAIN escrow
          /\ block # 0
          /\ escrow[block] \in EscrowStates \ {"none"}
        BY <2>1, <2>4 DEF Usable, TypeOK, WorkInv, ObserversHold
    <3>3. request.xlayer /\ request.agreementId # None
        BY <2>1 DEF AcceptanceInv, ReadersHold, Callers
    <3>4. escrow[block] = "unfunded" => request.status = "awaiting_funding"
      <4> SUFFICES ASSUME escrow[block] = "unfunded" PROVE request.status = "awaiting_funding"
          OBVIOUS
      <4>1. CASE request.observedBlock = 0
          BY <3>3, <4>1 DEF WorkInv, WorkHolds
      <4>2. CASE request.observedBlock # 0
        <5>1. escrow[request.observedBlock] \in Before
            BY <2>4, <3>2, <4>2 DEF Usable, WorkInv, WorkHolds, EscrowGrows, Before
        <5>2. QED
            BY <4>2, <5>1 DEF WorkInv, WorkMatchesEscrow, WorkStatus, Before
      <4>3. QED
          BY <4>1, <4>2
    <3>5. WorkMatchesEscrow'
        BY <2>1, <3>1, <3>2, <3>4 DEF WorkMatchesEscrow, WorkStatus, EscrowStates
    <3>6. WorkHolds'
        BY <2>1, <3>1, <3>2, <3>3 DEF WorkHolds
    <3>7. QED
        BY <2>1, <2>2, <3>5, <3>6 DEF WorkInv, EscrowGrows
  <2>5. QED
      BY <2>3, <2>4
<1>5. QED
    BY <1>1, <1>2, <1>3, <1>4 DEF Work

LEMMA WorkStep == TypeOK /\ AcceptanceInv /\ WorkInv /\ [Next]_vars => WorkInv'
<1> SUFFICES ASSUME TypeOK, AcceptanceInv, WorkInv, [Next]_vars PROVE WorkInv'
    OBVIOUS
<1>1. ASSUME NEW c \in Callers, Die(c) PROVE WorkInv'
    BY <1>1 DEF Die, store, TypeOK, WorkInv, EscrowGrows, ObserversHold, WorkHolds,
       WorkMatchesEscrow
<1>2. CASE Live \/ UNCHANGED vars
  <2>1. UNCHANGED <<request, pc, seen, escrow>>
      BY <1>2 DEF Live, AgreementStep, Notify, ReceiveWebhook, vars
  <2>2. QED
      BY <2>1 DEF WorkInv, EscrowGrows, ObserversHold, WorkHolds, WorkMatchesEscrow
<1>3. ASSUME NEW a \in Acceptances, Accept(a) PROVE WorkInv'
    BY <1>3, AcceptKeepsWork
<1>4. QED
    BY <1>1, <1>2, <1>3, NegotiateKeepsWork, WorkKeepsWork DEF Next

LEMMA Invariant == Spec => []IInv
<1>1. Init => IInv
    BY TypeInit, AcceptanceInit, WorkInit DEF IInv
<1>2. IInv /\ [Next]_vars => IInv'
    BY TypeStep, AcceptanceStep, WorkStep DEF IInv
<1>3. QED
    BY <1>1, <1>2, PTL DEF Spec

-----------------------------------------------------------------------------
(* What both participants are shown once it is over *)

Ends == {"released", "refunded", "resolved", "cancelled"}

\* What happens to an agreement happens after its link, ends it at most once and is told
\* once; its request waits for funding as long as nobody asks.  An escrow that ended
\* stays as it ended.
EventsInv ==
    /\ occurred # {} => request.agreementId # None /\ ~request.xlayer
    /\ \A event, other \in occurred \cap Finished : event = other
    /\ \A i \in DOMAIN notices : notices[i] \in occurred
    /\ \A i, j \in DOMAIN notices : notices[i] = notices[j] => i = j
    /\ request.agreementId # None /\ ~request.xlayer => request.status = "awaiting_funding"
    /\ \A i, j \in DOMAIN escrow : i <= j /\ escrow[i] \in Ends => escrow[j] = escrow[i]

\* Once linked, a request stays linked, and only a look at the escrow of its work changes
\* its status.
LEMMA LinkedStays ==
    ASSUME IInv, [Next]_vars, request.agreementId # None
    PROVE  /\ request'.agreementId = request.agreementId
           /\ request'.xlayer = request.xlayer
           /\ \/ request'.status = request.status
              \/ \E o \in Observers : RecordWork(o) /\ Usable(seen[o])
<1>1. request \in Requests
    BY DEF IInv, TypeOK
<1>2. CASE Negotiate
    BY <1>2 DEF Negotiate, Create, ProviderAccept, ProviderCounter, ProviderDecline, CustomerCancel,
       CanNegotiate, CanChange, IInv, AcceptanceInv, NewRequest
<1>3. ASSUME NEW a \in Acceptances, Accept(a)
      PROVE  /\ request'.agreementId = request.agreementId
             /\ request'.xlayer = request.xlayer /\ request'.status = request.status
    BY <1>1, <1>3 DEF Requests, Accept, AcceptWork, AcceptTerms, MayAccept, CanChange, StartCreation,
       FindTermsChanged, CreateAgreement, RecordOwner, LinkAgreement, Fail, RollBack, CanRollBack
<1>4. CASE Work
  <2>1. ASSUME NEW role \in {"customer", "provider"}, BindWallet(role)
        PROVE  /\ request'.agreementId = request.agreementId
               /\ request'.xlayer = request.xlayer /\ request'.status = request.status
      BY <1>1, <2>1 DEF Requests, BindWallet
  <2>2. ASSUME NEW o \in Observers, RecordWork(o)
        PROVE  /\ request'.agreementId = request.agreementId
               /\ request'.xlayer = request.xlayer
               /\ request'.status = request.status \/ Usable(seen[o])
      BY <1>1, <2>2 DEF Requests, RecordWork
  <2>3. QED
      BY <1>4, <2>1, <2>2 DEF Work, MineBlock, ReadEscrow
<1>5. CASE Live \/ (\E c \in Callers : Die(c)) \/ UNCHANGED vars
    BY <1>5 DEF Live, AgreementStep, Notify, ReceiveWebhook, Die, vars
<1>6. QED
    BY <1>2, <1>3, <1>4, <1>5 DEF Next

LEMMA EventsInit == Init => EventsInv
BY DEF Init, EventsInv, Ends, None

\* An agreement that is linked for other than work on X Layer waits for its funding.
LEMMA LinkingWaits ==
    ASSUME IInv, EventsInv, [Next]_vars, request'.agreementId # None, ~request'.xlayer
    PROVE  request'.status = "awaiting_funding"
<1>1. request \in Requests
    BY DEF IInv, TypeOK
<1>2. CASE request.agreementId # None
  <2>1. ASSUME NEW o \in Observers, RecordWork(o) PROVE request.xlayer
      BY <2>1 DEF RecordWork, IInv, AcceptanceInv, ReadersHold, Callers
  <2>2. QED
      BY <1>2, <2>1, LinkedStays DEF EventsInv
<1>3. CASE request.agreementId = None
  <2>1. ASSUME NEW a \in Acceptances, Accept(a) PROVE request'.status = "awaiting_funding"
      BY <1>1, <1>3, <2>1 DEF Requests, Accept, AcceptWork, AcceptTerms, StartCreation,
         FindTermsChanged, CreateAgreement, RecordOwner, LinkAgreement, Fail, RollBack
  <2>2. CASE Negotiate
      BY <1>1, <1>3, <2>2 DEF Requests, Negotiate, Create, ProviderAccept, ProviderCounter,
         ProviderDecline, CustomerCancel
  <2>3. CASE Work
      BY <1>1, <1>3, <2>3 DEF Requests, Work, BindWallet, MineBlock, ReadEscrow, RecordWork
  <2>4. CASE Live \/ (\E c \in Callers : Die(c)) \/ UNCHANGED vars
      BY <1>3, <2>4 DEF Live, AgreementStep, Notify, ReceiveWebhook, Die, vars
  <2>5. QED
      BY <2>1, <2>2, <2>3, <2>4 DEF Next
<1>4. QED
    BY <1>2, <1>3

\* The webhooks and the escrow move on: an ended escrow stays as it is.
LEMMA EscrowStaysEnded ==
    ASSUME TypeOK, EventsInv, MineBlock
    PROVE  \A i, j \in DOMAIN escrow' : i <= j /\ escrow'[i] \in Ends => escrow'[j] = escrow'[i]
<1>1. PICK state \in NextStates(escrow[Len(escrow)]) : escrow' = Append(escrow, state)
    BY DEF MineBlock
<1>2. /\ Len(escrow) \in Nat \ {0}
      /\ DOMAIN escrow = 1..Len(escrow)
      /\ DOMAIN escrow' = 1..(Len(escrow) + 1)
      /\ \A i \in DOMAIN escrow : escrow'[i] = escrow[i]
      /\ escrow'[Len(escrow) + 1] = state
    BY <1>1 DEF TypeOK
<1>3. escrow[Len(escrow)] \in Ends => state = escrow[Len(escrow)]
    BY <1>1 DEF NextStates, Ends
<1>4. SUFFICES ASSUME NEW i \in DOMAIN escrow', NEW j \in DOMAIN escrow', i <= j,
                      escrow'[i] \in Ends
               PROVE  escrow'[j] = escrow'[i]
    OBVIOUS
<1>5. CASE j \in DOMAIN escrow
    BY <1>2, <1>4, <1>5 DEF EventsInv
<1>6. CASE j = Len(escrow) + 1 /\ i \in DOMAIN escrow
  <2>1. escrow[i] \in Ends /\ escrow[Len(escrow)] = escrow[i]
      BY <1>2, <1>4, <1>6 DEF EventsInv
  <2>2. QED
      BY <1>2, <1>3, <1>6, <2>1
<1>7. CASE i = Len(escrow) + 1
    BY <1>2, <1>4, <1>7
<1>8. QED
    BY <1>2, <1>4, <1>5, <1>6, <1>7

LEMMA EventsStep == IInv /\ EventsInv /\ [Next]_vars => EventsInv'
<1> SUFFICES ASSUME IInv, EventsInv, [Next]_vars PROVE EventsInv'
    OBVIOUS
<1>1. request'.agreementId # None /\ ~request'.xlayer => request'.status = "awaiting_funding"
    BY LinkingWaits
<1>2. \A i, j \in DOMAIN escrow' : i <= j /\ escrow'[i] \in Ends => escrow'[j] = escrow'[i]
  <2>1. CASE UNCHANGED escrow
      BY <2>1 DEF EventsInv
  <2>2. CASE MineBlock
      BY <2>2, EscrowStaysEnded DEF IInv
  <2>3. UNCHANGED escrow \/ MineBlock
      BY DEF Next, vars, store, Negotiate, Create, ProviderAccept, ProviderCounter, ProviderDecline,
         CustomerCancel, Accept, AcceptWork, AcceptTerms, StartCreation, FindTermsChanged,
         CreateAgreement, RecordOwner, LinkAgreement, Fail, RollBack, Die, Live, AgreementStep,
         Notify, ReceiveWebhook, Work, BindWallet, ReadEscrow, RecordWork
  <2>4. QED
      BY <2>1, <2>2, <2>3
<1>3. occurred # {} =>
        request'.agreementId # None /\ ~request'.xlayer /\ request.agreementId # None
    BY LinkedStays DEF EventsInv
<1>4. CASE UNCHANGED <<occurred, notices>>
    BY <1>1, <1>2, <1>3, <1>4 DEF EventsInv
<1>5. ASSUME NEW event \in Events, AgreementStep(event) PROVE EventsInv'
  <2>1. /\ occurred' = occurred \cup {event} /\ occurred \cap Finished = {}
        /\ request.agreementId # None /\ ~request.xlayer
        /\ UNCHANGED <<request, notices>>
      BY <1>5 DEF AgreementStep
  <2>2. QED
      BY <1>1, <1>2, <2>1 DEF EventsInv
<1>6. ASSUME NEW event \in Events, Notify(event) PROVE EventsInv'
  <2>1. /\ notices' = Append(notices, event) /\ event \in occurred /\ UNCHANGED occurred
        /\ \A i \in DOMAIN notices : notices[i] # event
      BY <1>6 DEF Notify
  <2>2. /\ Len(notices) \in Nat
        /\ DOMAIN notices = 1..Len(notices)
        /\ DOMAIN notices' = 1..(Len(notices) + 1)
        /\ \A i \in DOMAIN notices : notices'[i] = notices[i]
        /\ notices'[Len(notices) + 1] = event
      BY <2>1 DEF IInv, TypeOK
  <2>3. \A i \in DOMAIN notices' : i \in DOMAIN notices \/ i = Len(notices) + 1
      BY <2>2
  <2>4. QED
      BY <1>1, <1>2, <1>3, <2>1, <2>2, <2>3 DEF EventsInv
<1>7. UNCHANGED <<occurred, notices>>
          \/ \E event \in Events : AgreementStep(event) \/ Notify(event)
    BY DEF Next, vars, store, Negotiate, Create, ProviderAccept, ProviderCounter, ProviderDecline,
       CustomerCancel, Accept, AcceptWork, AcceptTerms, StartCreation, FindTermsChanged,
       CreateAgreement, RecordOwner, LinkAgreement, Fail, RollBack, Die, Live,
       ReceiveWebhook, Work, BindWallet, MineBlock, ReadEscrow, RecordWork
<1>8. QED
    BY <1>4, <1>5, <1>6, <1>7

\* The least member of a set of one.
LEMMA MinOfOne == ASSUME NEW i \in Nat PROVE Min({i}) = i
BY DEF Min

\* The one end that was told is the status that is read, whatever else arrives.
LEMMA EndIsRead ==
    ASSUME TypeOK, EventsInv, NEW i \in received, notices[i] \in Finished
    PROVE  ObservedStatus = notices[i]
<1> DEFINE final == {k \in received : notices[k] \in Finished}
<1>1. final = {i}
    BY DEF TypeOK, EventsInv
<1>2. Min(final) = i
    BY <1>1, MinOfOne DEF TypeOK
<1>3. QED
    BY <1>1, <1>2 DEF ObservedStatus

LEMMA EndIsReadNext ==
    ASSUME TypeOK', EventsInv', NEW i \in received', notices'[i] \in Finished
    PROVE  ObservedStatus' = notices'[i]
<1> DEFINE final == {k \in received' : notices'[k] \in Finished}
<1>1. final = {i}
    BY DEF TypeOK, EventsInv
<1>2. Min(final) = i
    BY <1>1, MinOfOne DEF TypeOK
<1>3. QED
    BY <1>1, <1>2 DEF ObservedStatus

\* A nonempty set of naturals has a least element, one that is bounded also a largest.
LEMMA LeastExists ==
    ASSUME NEW T, T \subseteq Nat, T # {}
    PROVE  \E i \in T : \A j \in T : i <= j
<1> DEFINE Less == {pair \in Nat \X Nat : pair[1] < pair[2]}
<1>1. IsWellFoundedOn(Less, Nat)
    BY NatLessThanWellFounded DEF OpToRel
<1> HIDE DEF Less
<1>2. PICK i \in T : \A j \in T : ~ (<<j, i>> \in Less)
    BY <1>1, WFMin
<1>3. ASSUME NEW j \in T PROVE i <= j
  <2>1. i \in Nat /\ j \in Nat /\ ~ (j < i)
      BY <1>2 DEF Less
  <2>2. QED
      BY <2>1
<1>4. QED
    BY <1>3

LEMMA LargestExists ==
    ASSUME NEW T, NEW n \in Nat, T \subseteq 1..n, T # {}
    PROVE  \E i \in T : \A j \in T : i >= j
<1> DEFINE D == {n - i : i \in T}
<1>1. D \subseteq Nat /\ D # {}
  <2>1. \A i \in T : i \in 1..n
      OBVIOUS
  <2>2. \A i \in 1..n : n - i \in Nat
      OBVIOUS
  <2>3. QED
      BY <2>1, <2>2
<1>2. PICK d \in D : \A e \in D : d <= e
  <2> HIDE DEF D
  <2>1. QED
    BY <1>1, LeastExists
<1>3. PICK i \in T : d = n - i
    BY <1>2
<1>4. \A j \in T : n - i <= n - j
    BY <1>2, <1>3
<1>5. QED
    BY <1>4

\* Before an end was told, nothing final is read.
LEMMA NoEndNoneRead ==
    ASSUME TypeOK, received # {}, \A i \in received : notices[i] \notin Finished
    PROVE  ObservedStatus \notin Finished
<1> DEFINE last == Max(received)
<1> DEFINE final == {k \in received : notices[k] \in Finished}
<1>1. final = {}
    OBVIOUS
<1>2. ObservedStatus = IF notices[last] = "activated" THEN "funded" ELSE notices[last]
    BY <1>1 DEF ObservedStatus
<1>3. notices[last] \notin Finished
  <2>1. PICK n \in Nat : DOMAIN notices = 1..n
      BY DEF TypeOK
  <2>2. \E i \in received : \A j \in received : i >= j
      BY <2>1, LargestExists DEF TypeOK
  <2>3. last \in received
      BY <2>2 DEF Max
  <2>4. QED
      BY <2>3
<1>4. QED
    BY <1>2, <1>3 DEF Finished

\* Nothing is told of work on X Layer.
LEMMA WorkUntold ==
    ASSUME TypeOK, EventsInv, request.xlayer
    PROVE  received = {}
BY DEF TypeOK, EventsInv

LEMMA WorkUntoldNext ==
    ASSUME TypeOK', EventsInv', request'.xlayer
    PROVE  received' = {}
BY DEF TypeOK, EventsInv

\* A later look at an ended escrow finds the same end.
LEMMA WorkStaysEnded ==
    ASSUME IInv, EventsInv, NEW o \in Observers, RecordWork(o), Usable(seen[o]),
           request.status \in Finished
    PROVE  request'.status = request.status
<1>1. o \in Callers /\ pc[o] = "read" /\ request.xlayer /\ request.agreementId # None
    BY DEF Callers, RecordWork, IInv, AcceptanceInv, ReadersHold
<1>2. request.observedBlock # 0 /\ request.observedBlock \in DOMAIN escrow
    BY <1>1 DEF IInv, WorkInv, WorkHolds, Finished
<1>3. request.status = WorkStatus(escrow[request.observedBlock], "awaiting_funding")
    BY <1>2 DEF IInv, WorkInv, WorkMatchesEscrow
<1>4. escrow[request.observedBlock] \in Ends
    BY <1>3 DEF WorkStatus, Ends, Finished
<1>5. /\ seen[o].block \in DOMAIN escrow /\ seen[o].state = escrow[seen[o].block]
      /\ request.observedBlock <= seen[o].block
    BY <1>1 DEF IInv, WorkInv, ObserversHold, Usable, TypeOK, Requests, Sights
<1>6. escrow[seen[o].block] = escrow[request.observedBlock]
    BY <1>2, <1>4, <1>5 DEF EventsInv
<1>7. request'.status = WorkStatus(escrow[request.observedBlock], request.status)
    BY <1>5, <1>6 DEF RecordWork, IInv, TypeOK, Requests
<1>8. QED
    BY <1>3, <1>4, <1>7 DEF WorkStatus, Ends

LEMMA EndStays ==
    ASSUME IInv, EventsInv, IInv', EventsInv', [Next]_vars,
           request.agreementId # None, ShownStatus \in Finished
    PROVE  ShownStatus' = ShownStatus
<1>1. /\ request'.agreementId # None /\ request'.xlayer = request.xlayer
      /\ \/ request'.status = request.status
         \/ \E o \in Observers : RecordWork(o) /\ Usable(seen[o])
    BY LinkedStays
<1>2. CASE request.xlayer
  <2>1. received = {} /\ received' = {}
      BY <1>1, <1>2, WorkUntold, WorkUntoldNext DEF IInv
  <2>2. ShownStatus = request.status /\ ShownStatus' = request'.status
      BY <2>1 DEF ShownStatus
  <2>3. QED
      BY <1>1, <2>2, WorkStaysEnded
<1>3. CASE ~request.xlayer
  <2>1. request.status = "awaiting_funding" /\ request'.status = "awaiting_funding"
      BY <1>1, <1>3 DEF EventsInv
  <2>2. received # {} /\ ShownStatus = ObservedStatus
      BY <2>1 DEF ShownStatus, Finished
  <2>3. PICK i \in received : notices[i] \in Finished
      BY <2>2, NoEndNoneRead DEF IInv
  <2>4. ObservedStatus = notices[i]
      BY <2>3, EndIsRead DEF IInv
  <2>5. i \in received' /\ notices'[i] = notices[i]
    <3>1. received \subseteq received' /\ i \in DOMAIN notices
        BY DEF IInv, TypeOK, Next, vars, store, Negotiate, Create, ProviderAccept, ProviderCounter,
           ProviderDecline, CustomerCancel, Accept, AcceptWork, AcceptTerms, StartCreation,
           FindTermsChanged, CreateAgreement, RecordOwner, LinkAgreement, Fail, RollBack, Die,
           Live, AgreementStep, Notify, ReceiveWebhook, Work, BindWallet, MineBlock, ReadEscrow,
           RecordWork
    <3>2. UNCHANGED notices \/ \E event \in Events : Notify(event)
        BY DEF Next, vars, store, Negotiate, Create, ProviderAccept, ProviderCounter,
           ProviderDecline, CustomerCancel, Accept, AcceptWork, AcceptTerms, StartCreation,
           FindTermsChanged, CreateAgreement, RecordOwner, LinkAgreement, Fail, RollBack, Die,
           Live, AgreementStep, ReceiveWebhook, Work, BindWallet, MineBlock, ReadEscrow,
           RecordWork
    <3>3. notices'[i] = notices[i]
        BY <3>1, <3>2 DEF Notify, IInv, TypeOK
    <3>4. QED
        BY <3>1, <3>3
  <2>6. ObservedStatus' = notices[i]
      BY <2>3, <2>5, EndIsReadNext DEF IInv
  <2>7. ShownStatus' = ObservedStatus'
      BY <1>1, <2>1, <2>5 DEF ShownStatus
  <2>8. QED
      BY <2>2, <2>4, <2>6, <2>7
<1>4. QED
    BY <1>2, <1>3

-----------------------------------------------------------------------------
(* Results *)

\* Every variable has its type, whatever the parameters.
THEOREM TypeCorrect == Spec => []TypeOK
<1>1. IInv => TypeOK
    BY DEF IInv
<1>2. QED
    BY <1>1, Invariant, PTL

\* However many acceptances of the customer run, fail and die, an agreement is
\* created only for the terms that both accepted and nobody can change any more.
THEOREM StandingTerms == Spec => []AgreementsAreForStandingTerms
<1>1. IInv => AgreementsAreForStandingTerms
    BY DEF IInv, AcceptanceInv, AgreementsHold, AttemptHolds, AcceptedTogether,
       AgreementsAreForStandingTerms, Closed
<1>2. QED
    BY <1>1, Invariant, PTL

\* A linked agreement is one that was created, and has its owner's record.
THEOREM LinkedOwned == Spec => []LinkedAgreementsAreOwned
<1>1. IInv => LinkedAgreementsAreOwned
    BY DEF IInv, AcceptanceInv
<1>2. QED
    BY <1>1, Invariant, PTL

\* From an attempt until its agreement is linked, the customer can accept the
\* standing terms again.
THEOREM Recoverable == Spec => []AttemptsStayRecoverable
<1>1. IInv => AttemptsStayRecoverable
    BY DEF IInv, AcceptanceInv, AttemptHolds, FundingIsLinked, AcceptedTogether,
       AttemptsStayRecoverable, MayAccept, CanChange, Negotiable
<1>2. QED
    BY <1>1, Invariant, PTL

\* What is recorded of work on X Layer is what its escrow was at the block
\* recorded with it, whichever looks at it are late.
THEOREM WorkShown == Spec => []WorkMatchesEscrow
<1>1. IInv => WorkMatchesEscrow
    BY DEF IInv, WorkInv
<1>2. QED
    BY <1>1, Invariant, PTL

\* A finished agreement or work escrow is never shown as running again, in whatever order
\* the webhooks and the looks at the escrow arrive.
THEOREM FinishedStays == Spec => FinishedStaysFinished
<1>1. Init => IInv /\ EventsInv
    BY TypeInit, AcceptanceInit, WorkInit, EventsInit DEF IInv
<1>2. IInv /\ EventsInv /\ [Next]_vars => IInv' /\ EventsInv'
    BY TypeStep, AcceptanceStep, WorkStep, EventsStep DEF IInv
<1>3. IInv /\ EventsInv /\ IInv' /\ EventsInv' /\ [Next]_vars =>
        [request.agreementId # None /\ ShownStatus \in Finished => ShownStatus' = ShownStatus]_vars
    BY EndStays
<1>4. QED
    BY <1>1, <1>2, <1>3, PTL DEF Spec, FinishedStaysFinished

=============================================================================
