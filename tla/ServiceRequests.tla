--------------------------- MODULE ServiceRequests ---------------------------
(***************************************************************************)
(* One work request between a customer and a service provider             *)
(* (api/service-requests.ts): negotiation of its terms, the customer's     *)
(* acceptance that creates a protected agreement at Hash PayLink, and the  *)
(* status both see afterwards.                                             *)
(*                                                                         *)
(* Every mutation of the stored request runs under the lock of its row     *)
(* (durable-store.ts), so it is one step.  An acceptance is a sequence of  *)
(* such steps with calls to other services between them, several of them   *)
(* may run at once (a retry, a second tab, "Continue acceptance"), and     *)
(* each may fail or die anywhere.  Terms are their version number, and     *)
(* the agreement created for them is named by the same number: the         *)
(* idempotency key of the creation is the request and the version.         *)
(***************************************************************************)
EXTENDS Naturals, Sequences, FiniteSetsExt

CONSTANTS
    Acceptances,    \* concurrent customer_accept requests
    Observers,      \* concurrent work_xlayer_status requests
    MaxVersion,     \* bound: versions of the terms
    MaxBlocks       \* bound: blocks of X Layer

ASSUME ServiceRequestsAssumption ==
    /\ Acceptances \cap Observers = {}
    /\ MaxVersion \in Nat \ {0}
    /\ MaxBlocks \in Nat \ {0}

VARIABLES
    request,    \* the stored request
    agreements, \* Hash PayLink: versions for which an agreement was created
    owners,     \* the ownership store: agreements with a record of their own
    pc,         \* where each acceptance and each observer is
    seen,       \* what each of them has read
    occurred,   \* what has happened to the agreement
    notices,    \* Hash PayLink's notifications, in the order of their createdAt
    received,   \* those in the webhook store, by their place in notices
    escrow      \* X Layer: the state of the work escrow at each confirmed block

vars == <<request, agreements, owners, pc, seen, occurred, notices, received, escrow>>
store == <<agreements, owners, occurred, notices, received, escrow>>

None == 0
Versions == 1..MaxVersion
Callers == Acceptances \cup Observers

Negotiable == {"sent", "countered", "provider_accepted"}
Closed == {"declined", "cancelled"}
Finished == {"completed", "refunded", "cancelled"}
Statuses == Negotiable \cup Closed \cup Finished \cup
            {"none", "awaiting_funding", "funded", "expired"}

EscrowStates == {"none", "unfunded", "funded", "released", "refunded", "resolved", "cancelled"}
Events == {"activated", "expired", "completed", "refunded", "cancelled"}

Nothing == [version |-> None, block |-> 0, state |-> "none"]

-----------------------------------------------------------------------------
(* Negotiation: each handler checks and writes the request in one step.    *)

\* The request is new: an idempotency key that was used before finds it.
Create(xlayer) ==
    /\ request.status = "none"
    /\ request' = [request EXCEPT !.status = "sent", !.activeVersion = 1, !.xlayer = xlayer]
    /\ UNCHANGED <<store, pc, seen>>

\* The checks every action on a request makes before its own.
CanChange(version) ==
    /\ request.agreementId = None
    /\ request.status \in Negotiable
    /\ version = request.activeVersion

\* Every action but customer_accept is refused while an acceptance is pending.
CanNegotiate(version) ==
    /\ CanChange(version)
    /\ request.customerAcceptedVersion = None

ProviderAccept(version) ==
    /\ CanNegotiate(version)
    /\ request.status \in {"sent", "countered"}
    /\ request' = [request EXCEPT !.providerAcceptedVersion = version,
                                  !.status = "provider_accepted"]
    /\ UNCHANGED <<store, pc, seen>>

\* New terms may move the payment to X Layer, never back.
ProviderCounter(version, xlayer) ==
    /\ CanNegotiate(version)
    /\ request.status \in {"sent", "countered"}
    /\ version < MaxVersion
    /\ request.xlayer => xlayer
    /\ request' = [request EXCEPT !.activeVersion = version + 1,
                                  !.providerAcceptedVersion = version + 1,
                                  !.customerAcceptedVersion = None,
                                  !.xlayer = xlayer,
                                  !.status = "countered"]
    /\ UNCHANGED <<store, pc, seen>>

ProviderDecline(version) ==
    /\ CanNegotiate(version)
    /\ request' = [request EXCEPT !.status = "declined"]
    /\ UNCHANGED <<store, pc, seen>>

CustomerCancel(version) ==
    /\ CanNegotiate(version)
    /\ request' = [request EXCEPT !.status = "cancelled"]
    /\ UNCHANGED <<store, pc, seen>>

-----------------------------------------------------------------------------
(* customer_accept                                                         *)

MayAccept(version) ==
    /\ CanChange(version)
    /\ request.status \in {"countered", "provider_accepted"}
    /\ request.providerAcceptedVersion = version

\* Work paid on X Layer needs no agreement of Hash PayLink.
AcceptWork(a, version) ==
    /\ pc[a] = "idle"
    /\ MayAccept(version)
    /\ request.xlayer
    /\ request' = [request EXCEPT !.customerAcceptedVersion = version,
                                  !.status = "awaiting_funding",
                                  !.agreementId = version]
    /\ UNCHANGED <<store, pc, seen>>

\* The acceptance is provisional until the agreement is linked.
AcceptTerms(a, version) ==
    /\ pc[a] = "idle"
    /\ MayAccept(version)
    /\ ~request.xlayer
    /\ request' = [request EXCEPT !.customerAcceptedVersion = version,
                                  !.status = "provider_accepted"]
    /\ pc' = [pc EXCEPT ![a] = "checking"]
    /\ seen' = [seen EXCEPT ![a] = [Nothing EXCEPT !.version = version]]
    /\ UNCHANGED store

\* The provider's wallet is looked up and registered as a recipient; then the
\* attempt is marked, if the acceptance still stands.
StillAccepted(version) ==
    /\ request.activeVersion = version
    /\ request.customerAcceptedVersion = version
    /\ request.status \in {"provider_accepted", "awaiting_funding"}

\* Faulty: the request already waits for its funding.
AwaitFundingEarly(a) ==
    /\ pc[a] = "checking"
    /\ StillAccepted(seen[a].version)
    /\ request' = [request EXCEPT !.agreementCreationStarted = TRUE,
                                  !.status = "awaiting_funding"]
    /\ pc' = [pc EXCEPT ![a] = "creating"]
    /\ UNCHANGED <<store, seen>>

StartCreation(a) ==
    /\ pc[a] = "checking"
    /\ StillAccepted(seen[a].version)
    /\ request' = [request EXCEPT !.agreementCreationStarted = TRUE]
    /\ pc' = [pc EXCEPT ![a] = "creating"]
    /\ UNCHANGED <<store, seen>>

FindTermsChanged(a) ==
    /\ pc[a] = "checking"
    /\ ~StillAccepted(seen[a].version)
    /\ pc' = [pc EXCEPT ![a] = "failed"]
    /\ UNCHANGED <<request, store, seen>>

\* The creation is idempotent per request and version; its answer may be lost.
CreateAgreement(a) ==
    /\ pc[a] = "creating"
    /\ agreements' = agreements \cup {seen[a].version}
    /\ pc' \in {[pc EXCEPT ![a] = "created"], [pc EXCEPT ![a] = "failed"]}
    /\ UNCHANGED <<request, owners, seen, occurred, notices, received, escrow>>

\* Faulty: the agreement is linked without a record of its owner.
OwnerUnrecorded(a) ==
    /\ pc[a] = "created"
    /\ pc' = [pc EXCEPT ![a] = "owned"]
    /\ UNCHANGED <<request, store, seen>>

RecordOwner(a) ==
    /\ pc[a] = "created"
    /\ owners' = owners \cup {seen[a].version}
    /\ pc' = [pc EXCEPT ![a] = "owned"]
    /\ UNCHANGED <<request, agreements, seen, occurred, notices, received, escrow>>

LinkAgreement(a) ==
    /\ pc[a] = "owned"
    /\ request' = IF request.agreementId = None
                  THEN [request EXCEPT !.agreementId = seen[a].version,
                                       !.status = "awaiting_funding"]
                  ELSE request
    /\ pc' = [pc EXCEPT ![a] = "idle"]
    /\ seen' = [seen EXCEPT ![a] = Nothing]
    /\ UNCHANGED store

\* A check, a call or a store fails.
Fail(a) ==
    /\ pc[a] \in {"checking", "creating", "created", "owned"}
    /\ pc' = [pc EXCEPT ![a] = "failed"]
    /\ UNCHANGED <<request, store, seen>>

\* Faulty: an attempt whose answer was lost is rolled back too.
AttemptForgotten == request.agreementId = None

\* The acceptance is given up, unless its creation was attempted by anyone.
CanRollBack ==
    /\ request.agreementId = None
    /\ ~request.agreementCreationStarted

RollBack(a) ==
    /\ pc[a] = "failed"
    /\ request' = IF CanRollBack
                  THEN [request EXCEPT !.status = "provider_accepted",
                                       !.customerAcceptedVersion = None]
                  ELSE request
    /\ pc' = [pc EXCEPT ![a] = "idle"]
    /\ seen' = [seen EXCEPT ![a] = Nothing]
    /\ UNCHANGED store

\* The process ends, or the connection to its store does.
Die(c) ==
    /\ pc[c] # "idle"
    /\ pc' = [pc EXCEPT ![c] = "idle"]
    /\ seen' = [seen EXCEPT ![c] = Nothing]
    /\ UNCHANGED <<request, store>>

-----------------------------------------------------------------------------
(* The agreement's life at Hash PayLink, told by webhooks                  *)

\* External: the payer funds the linked agreement and it ends one way.
AgreementStep(event) ==
    /\ request.agreementId # None
    /\ ~request.xlayer
    /\ event \notin occurred
    /\ occurred \cap Finished = {}
    /\ CASE event = "activated" -> TRUE
         [] event \in {"expired", "completed", "cancelled"} -> occurred = {"activated"}
         [] event = "refunded" -> "expired" \in occurred
    /\ occurred' = occurred \cup {event}
    /\ UNCHANGED <<request, agreements, owners, pc, seen, notices, received, escrow>>

\* External: a notification is made once per event, not always in their order.
Notify(event) ==
    /\ event \in occurred
    /\ \A i \in DOMAIN notices : notices[i] # event
    /\ notices' = Append(notices, event)
    /\ UNCHANGED <<request, agreements, owners, pc, seen, occurred, received, escrow>>

\* Deliveries come in any order and repeatedly; the store keys them by event.
ReceiveWebhook(i) ==
    /\ received' = received \cup {i}
    /\ UNCHANGED <<request, agreements, owners, pc, seen, occurred, notices, escrow>>

\* The status the events tell, read by createdAt: the first final one, or the last.
ObservedStatus ==
    LET final == {i \in received : notices[i] \in Finished}
        Status(event) == IF event = "activated" THEN "funded" ELSE event
    IN  IF final # {}
        THEN notices[Min(final)]
        ELSE Status(notices[Max(received)])

\* What both participants are shown.
ShownStatus ==
    IF /\ received # {}
       /\ request.agreementId # None
       /\ request.status \in {"awaiting_funding", "funded", "expired"}
    THEN ObservedStatus
    ELSE request.status

-----------------------------------------------------------------------------
(* Work paid on X Layer: the participants bind their wallets, and every    *)
(* look at the escrow refreshes the stored status.                         *)

BindWallet(role) ==
    /\ request.xlayer
    /\ request.agreementId # None
    /\ request.customerAcceptedVersion = request.activeVersion
    /\ request' = [request EXCEPT !.wallets = @ \cup {role}]
    /\ UNCHANGED <<store, pc, seen>>

Bound == request.wallets = {"customer", "provider"}

\* External: the escrow of trade-escrow contracts, created from the binding.
NextStates(state) ==
    CASE state = "none"     -> IF Bound THEN {"none", "unfunded"} ELSE {"none"}
      [] state = "unfunded" -> {"unfunded", "funded", "cancelled"}
      [] state = "funded"   -> {"funded", "released", "refunded", "resolved"}
      [] OTHER              -> {state}

MineBlock ==
    /\ request.xlayer
    /\ Len(escrow) < MaxBlocks
    /\ \E state \in NextStates(escrow[Len(escrow)]) : escrow' = Append(escrow, state)
    /\ UNCHANGED <<request, agreements, owners, pc, seen, occurred, notices, received>>

\* The plan is made from a block two below the head; a state that differs at
\* the head is pending and not used.
ReadEscrow(o) ==
    /\ pc[o] = "idle"
    /\ Bound
    /\ pc' = [pc EXCEPT ![o] = "read"]
    /\ \E state \in {escrow[Len(escrow)], "pending"} :
         seen' = [seen EXCEPT ![o] = [Nothing EXCEPT !.block = Len(escrow), !.state = state]]
    /\ UNCHANGED <<request, store>>

WorkStatus(state, latest) ==
    CASE state = "released"  -> "completed"
      [] state = "refunded"  -> "refunded"
      [] state = "resolved"  -> "completed"
      [] state = "cancelled" -> "cancelled"
      [] state = "funded"    -> "funded"
      [] OTHER               -> latest

\* Faulty: an older block than the one observed last is used.
AnyBlock(plan) == plan.state \notin {"none", "pending"}

\* No escrow yet, a pending one, or a block before the one observed last.
Usable(plan) ==
    /\ plan.state \notin {"none", "pending"}
    /\ plan.block >= request.observedBlock

RecordWork(o) ==
    /\ pc[o] = "read"
    /\ request' = IF Usable(seen[o])
                  THEN [request EXCEPT !.status = WorkStatus(seen[o].state, @),
                                       !.observedBlock = seen[o].block]
                  ELSE request
    /\ pc' = [pc EXCEPT ![o] = "idle"]
    /\ seen' = [seen EXCEPT ![o] = Nothing]
    /\ UNCHANGED store

-----------------------------------------------------------------------------
Init ==
    /\ request = [status |-> "none", xlayer |-> FALSE, activeVersion |-> None,
                  providerAcceptedVersion |-> None, customerAcceptedVersion |-> None,
                  agreementCreationStarted |-> FALSE, agreementId |-> None,
                  wallets |-> {}, observedBlock |-> 0]
    /\ agreements = {}
    /\ owners = {}
    /\ pc = [c \in Callers |-> "idle"]
    /\ seen = [c \in Callers |-> Nothing]
    /\ occurred = {}
    /\ notices = <<>>
    /\ received = {}
    /\ escrow = <<"none">>

Negotiate ==
    \/ \E xlayer \in BOOLEAN : Create(xlayer)
    \/ \E version \in Versions :
        \/ ProviderAccept(version)
        \/ \E xlayer \in BOOLEAN : ProviderCounter(version, xlayer)
        \/ ProviderDecline(version)
        \/ CustomerCancel(version)

Accept(a) ==
    \/ \E version \in Versions : AcceptWork(a, version) \/ AcceptTerms(a, version)
    \/ StartCreation(a)
    \/ FindTermsChanged(a)
    \/ CreateAgreement(a)
    \/ RecordOwner(a)
    \/ LinkAgreement(a)
    \/ Fail(a)
    \/ RollBack(a)

Live ==
    \/ \E event \in Events : AgreementStep(event) \/ Notify(event)
    \/ \E i \in DOMAIN notices : ReceiveWebhook(i)

Work ==
    \/ \E role \in {"customer", "provider"} : BindWallet(role)
    \/ MineBlock
    \/ \E o \in Observers : ReadEscrow(o) \/ RecordWork(o)

Next ==
    \/ Negotiate
    \/ \E a \in Acceptances : Accept(a)
    \/ \E c \in Callers : Die(c)
    \/ Live
    \/ Work

Spec == Init /\ [][Next]_vars

-----------------------------------------------------------------------------
Requests == [status : Statuses, xlayer : BOOLEAN, activeVersion : 0..MaxVersion,
             providerAcceptedVersion : 0..MaxVersion, customerAcceptedVersion : 0..MaxVersion,
             agreementCreationStarted : BOOLEAN, agreementId : 0..MaxVersion,
             wallets : SUBSET {"customer", "provider"}, observedBlock : 0..MaxBlocks]

Sights == [version : 0..MaxVersion, block : 0..MaxBlocks, state : EscrowStates \cup {"pending"}]

Places == {"idle", "checking", "creating", "created", "owned", "failed", "read"}

TypeOK ==
    /\ request \in Requests
    /\ agreements \subseteq 0..MaxVersion
    /\ owners \subseteq 0..MaxVersion
    /\ pc \in [Callers -> Places]
    /\ seen \in [Callers -> Sights]
    /\ occurred \subseteq Events
    /\ notices \in Seq(Events)
    /\ received \subseteq DOMAIN notices
    /\ escrow \in Seq(EscrowStates)
    /\ Len(escrow) \in 1..MaxBlocks

\* An agreement exists at Hash PayLink only for terms that both accepted and
\* that stand: nobody could counter, decline or cancel since, even where the
\* answer of the creation was lost and its acceptance died.
AgreementsAreForStandingTerms ==
    \A version \in agreements :
        /\ request.activeVersion = version
        /\ request.providerAcceptedVersion = version
        /\ request.customerAcceptedVersion = version
        /\ request.status \notin Closed

\* A linked agreement exists and has its owner's record, so that the provider
\* finds it and its webhooks are answered, whichever acceptance linked it.
LinkedAgreementsAreOwned ==
    request.agreementId # None /\ ~request.xlayer =>
        request.agreementId \in owners \cap agreements

\* "Continue acceptance" stays open: after a creation was attempted and until
\* it is linked, the customer can accept the same terms again, and that is the
\* only way out, since everything else is refused.
AttemptsStayRecoverable ==
    request.agreementCreationStarted /\ request.agreementId = None =>
        MayAccept(request.activeVersion)

\* A finished agreement or work escrow is never shown as running again, however
\* late or out of order the webhooks and the looks at the escrow arrive.
FinishedStaysFinished ==
    [][request.agreementId # None /\ ShownStatus \in Finished => ShownStatus' = ShownStatus]_vars

\* What a participant of work on X Layer is shown is what the escrow was at the
\* block recorded with it.
WorkMatchesEscrow ==
    request.observedBlock # 0 =>
        request.status = WorkStatus(escrow[request.observedBlock], "awaiting_funding")

\* A request that was declined or cancelled stays so: an acceptance that was
\* under way does not overwrite it.
CancellationNotOverwritten ==
    [][request.status \in Closed => request'.status = request.status]_vars

=============================================================================
