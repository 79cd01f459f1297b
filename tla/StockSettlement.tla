-------------------------- MODULE StockSettlement --------------------------
(***************************************************************************)
(* api/stock-settlement-worker.ts: the worker that calls settle for every  *)
(* delivered stock offer once its earnings are due.  A pass takes the      *)
(* signer's database lease, works on a snapshot of the chain, first looks  *)
(* at every journalled transaction, one after the other, and only then     *)
(* signs a new one, which it journals before it broadcasts it.  The nonces *)
(* it asks the node for, at each job and again before it signs, are not of *)
(* the snapshot: the chain may move between any two of these reads.        *)
(*                                                                         *)
(* Offers are numbered in the order their earnings fall due: offer n is    *)
(* due when the clock reaches n.  They are all accepted at first.  The     *)
(* chain is the sequence of settle transactions mined; the first "final"   *)
(* of them have the confirmations the configuration asks for.              *)
(***************************************************************************)
EXTENDS Integers, Sequences, FiniteSets

CONSTANTS
    NumOffers,
    Passes,             \* worker processes: more than one while a deploy overlaps
    MaxMishaps          \* bound: crashes, lost sessions, reverts, reorganised and dropped
                        \* transactions, wiped evidence and claims others settle, together

Offers == 1 .. NumOffers
NoPass == "nobody"

ASSUME SettlementAssumption == NumOffers \in Nat /\ MaxMishaps \in Nat /\ NoPass \notin Passes

NoJob == [nonce |-> -1, failed |-> FALSE]
Tx(o, n) == [offer |-> o, nonce |-> n]
NoTx == Tx(0, -1)
NoView == [length |-> 0, final |-> 0, now |-> 0, delivery |-> {}]

VARIABLES
    now,
    mined,              \* settle transactions in blocks: [offer, nonce, ok]; nonce -1 is another account's
    final,              \* how many of them are confirmed
    mempool,            \* transactions of the signer that some node still holds
    delivery,           \* offers whose delivery evidence is in the store
    journal,            \* offer -> job kept in the store
    lease,              \* the pass whose database session holds the advisory lock
    pc,                 \* pass -> the statement it is at
    view,               \* pass -> what it read: chain length, confirmed length, time, delivery evidence
    todo,               \* pass -> the jobs it listed and has not found finished
    tx,                 \* pass -> the transaction it is about to count, journal or send
    mishaps,
    undone              \* history: nonces whose transaction a reorganisation took back

chainVars == <<now, mined, final>>
storeVars == <<delivery, journal>>
passVars == <<lease, pc, view, todo, tx>>
vars == <<chainVars, mempool, storeVars, passVars, mishaps, undone>>

SettledIn(o, length) == \E i \in 1 .. length : mined[i].offer = o /\ mined[i].ok
Settled(o) == SettledIn(o, Len(mined))
LatestNonce == Cardinality({i \in 1 .. Len(mined) : mined[i].nonce >= 0})
HasJob(o) == journal[o].nonce >= 0
Due(o) == o <= now
Lesser(x, y) == IF x <= y THEN x ELSE y

Mishap == mishaps < MaxMishaps /\ mishaps' = mishaps + 1

Init ==
    /\ now = 0 /\ mined = << >> /\ final = 0 /\ mempool = {}
    /\ delivery = {} /\ journal = [o \in Offers |-> NoJob]
    /\ lease = NoPass
    /\ pc = [p \in Passes |-> "idle"]
    /\ view = [p \in Passes |-> NoView]
    /\ todo = [p \in Passes |-> {}]
    /\ tx = [p \in Passes |-> NoTx]
    /\ mishaps = 0 /\ undone = {}

-----------------------------------------------------------------------------
(* The chain, its nodes, and the receipt scans. *)

Tick ==
    /\ now < NumOffers
    /\ now' = now + 1
    /\ UNCHANGED <<mined, final, mempool, storeVars, passVars, mishaps, undone>>

\* A transaction is mined when its nonce is next; it reverts when the claim was paid
\* in the meantime, or when the token refuses the transfer.
Mine(t) ==
    /\ t \in mempool /\ t.nonce = LatestNonce
    /\ \E ok \in BOOLEAN :
          /\ ok => Due(t.offer) /\ ~Settled(t.offer)
          /\ IF ok \/ Settled(t.offer) THEN UNCHANGED mishaps ELSE Mishap
          /\ mined' = Append(mined, [offer |-> t.offer, nonce |-> t.nonce, ok |-> ok])
    /\ mempool' = mempool \ {t}
    /\ UNCHANGED <<now, final, storeVars, passVars, undone>>

SettleElsewhere(o) ==
    /\ Mishap /\ Due(o) /\ ~Settled(o)
    /\ mined' = Append(mined, [offer |-> o, nonce |-> -1, ok |-> TRUE])
    /\ UNCHANGED <<now, final, mempool, storeVars, passVars, undone>>

Confirm ==
    /\ final < Len(mined)
    /\ final' = final + 1
    /\ UNCHANGED <<now, mined, mempool, storeVars, passVars, mishaps, undone>>

\* A reorganisation takes back the last unconfirmed transaction, which a node may or
\* may not still hold.
Reorg ==
    /\ Mishap /\ final < Len(mined)
    /\ LET last == mined[Len(mined)]
       IN  mempool' \in {mempool} \cup
             (IF last.nonce >= 0 THEN {mempool \cup {Tx(last.offer, last.nonce)}} ELSE {})
    /\ undone' = undone \cup {mined[Len(mined)].nonce}
    /\ mined' = SubSeq(mined, 1, Len(mined) - 1)
    /\ UNCHANGED <<now, final, storeVars, passVars>>

DropFromMempool(t) ==
    /\ Mishap /\ t \in mempool
    /\ mempool' = mempool \ {t}
    /\ UNCHANGED <<chainVars, storeVars, passVars, undone>>

RecordDelivery(o) ==
    /\ o \notin delivery
    /\ delivery' = delivery \cup {o}
    /\ UNCHANGED <<chainVars, mempool, journal, passVars, mishaps, undone>>

WipeDeliveries ==
    /\ Mishap /\ delivery # {}
    /\ delivery' = {}
    /\ UNCHANGED <<chainVars, mempool, journal, passVars, undone>>

-----------------------------------------------------------------------------
(* One pass. *)

Unlock(p) == IF lease = p THEN NoPass ELSE lease

EndPass(p) ==
    /\ pc' = [pc EXCEPT ![p] = "idle"]
    /\ lease' = Unlock(p)
    /\ view' = [view EXCEPT ![p] = NoView]
    /\ todo' = [todo EXCEPT ![p] = {}]
    /\ tx' = [tx EXCEPT ![p] = NoTx]

\* The lease, the store, the chain snapshot and the list of jobs.  Nobody else writes
\* the journal under the lease, and evidence that comes or goes between these reads may
\* as well have done so before them.
Begin(p) ==
    /\ pc[p] = "idle" /\ lease = NoPass
    /\ lease' = p
    /\ view' = [view EXCEPT ![p] = [length |-> Len(mined), final |-> final, now |-> now,
                                delivery |-> delivery]]
    /\ todo' = [todo EXCEPT ![p] = {o \in Offers : HasJob(o)}]
    /\ pc' = [pc EXCEPT ![p] = "begun"]
    /\ UNCHANGED <<chainVars, mempool, storeVars, tx, mishaps, undone>>

\* The claim at the snapshot's confirmed and at its latest block.
ConfirmedSettled(p, o) == SettledIn(o, Lesser(view[p].final, Len(mined)))
LatestSettled(p, o) == SettledIn(o, Lesser(view[p].length, Len(mined)))
DueNow(p, o) == o <= view[p].now

\* fault: the claim's newest state is taken for its confirmed one
FinishedAtLatest(p, o) == LatestSettled(p, o) /\ LatestNonce > journal[o].nonce
\* fault: a job counts as finished as soon as its claim is settled
FinishedWhenSettled(p, o) == ConfirmedSettled(p, o)
Finished(p, o) == ConfirmedSettled(p, o) /\ LatestNonce > journal[o].nonce

Looking(p, o) == pc[p] = "begun" /\ o \in todo[p]

PassOver(p, o) ==
    /\ Looking(p, o) /\ Finished(p, o)
    /\ todo' = [todo EXCEPT ![p] = @ \ {o}]
    /\ UNCHANGED <<chainVars, mempool, storeVars, lease, pc, view, tx, mishaps, undone>>

\* The checks a job passes before its nonce is looked at.
Attended(p, o) ==
    /\ ~ConfirmedSettled(p, o) /\ ~journal[o].failed /\ ~LatestSettled(p, o)
    /\ DueNow(p, o) /\ o \in view[p].delivery

Attend(p, o) ==
    /\ Looking(p, o) /\ Attended(p, o)
    /\ tx' = [tx EXCEPT ![p] = Tx(o, journal[o].nonce)]
    /\ pc' = [pc EXCEPT ![p] = "count"]
    /\ UNCHANGED <<chainVars, mempool, storeVars, lease, view, todo, mishaps, undone>>

\* fault: the nonce of the pending job itself counts as consumed
UnconsumedLater(t) == LatestNonce < t.nonce
Unconsumed(t) == LatestNonce <= t.nonce

\* The unconsumed bytes of a journalled transaction are sent again.
ResumeJob(p) ==
    /\ pc[p] = "count" /\ Unconsumed(tx[p])
    /\ pc' = [pc EXCEPT ![p] = "send"]
    /\ UNCHANGED <<chainVars, mempool, storeVars, lease, view, todo, tx, mishaps, undone>>

\* The nonce was consumed, and the snapshot confirms the receipt that says it reverted.
Reverted(p) ==
    /\ ~Unconsumed(tx[p])
    /\ \E i \in 1 .. Lesser(view[p].final, Len(mined)) :
          mined[i] = [offer |-> tx[p].offer, nonce |-> tx[p].nonce, ok |-> FALSE]

\* A confirmed revert is kept for review.
MarkFailed(p) ==
    /\ pc[p] = "count" /\ lease = p
    /\ Reverted(p)
    /\ journal' = [journal EXCEPT ![tx[p].offer].failed = TRUE]
    /\ EndPass(p)
    /\ UNCHANGED <<chainVars, mempool, delivery, mishaps, undone>>

\* Every other unfinished job ends the pass: needs_review, confirming, awaiting_due,
\* awaiting_delivery, or a statement that fails on a lost session.
WaitForJob(p) ==
    /\ \/ \E o \in todo[p] : Looking(p, o) /\ ~Finished(p, o) /\ ~Attended(p, o)
       \/ pc[p] = "count" /\ ~Unconsumed(tx[p]) /\ (~Reverted(p) \/ lease # p)
    /\ EndPass(p)
    /\ UNCHANGED <<chainVars, mempool, storeVars, mishaps, undone>>

Payable(p, o) == o \in view[p].delivery /\ ~ConfirmedSettled(p, o) /\ DueNow(p, o)

\* The first payable offer in due order, once every job was passed over.
FirstPayable(p, o) ==
    /\ todo[p] = {}
    /\ Payable(p, o) /\ \A earlier \in 1 .. o - 1 : ~Payable(p, earlier)

Choose(p, o) ==
    /\ pc[p] = "begun"
    /\ FirstPayable(p, o) /\ ~LatestSettled(p, o)
    /\ tx' = [tx EXCEPT ![p] = Tx(o, -1)]
    /\ pc' = [pc EXCEPT ![p] = "chosen"]
    /\ UNCHANGED <<chainVars, mempool, storeVars, lease, view, todo, mishaps, undone>>

\* The signer's transaction count with what is pending: n is the first nonce that is
\* neither mined nor held.
IsPending(n) ==
    /\ LatestNonce <= n /\ \A t \in mempool : t.nonce # n
    /\ \A m \in LatestNonce .. n - 1 : \E t \in mempool : t.nonce = m

\* The pending and the latest count are asked for at once and answered in either order.
\* The transaction takes the nonce if they are equal.
CountPending(p) ==
    /\ pc[p] = "chosen"
    /\ \E n \in 0 .. NumOffers : IsPending(n) /\ tx' = [tx EXCEPT ![p].nonce = n]
    /\ pc' = [pc EXCEPT ![p] = "pending"]
    /\ UNCHANGED <<chainVars, mempool, storeVars, lease, view, todo, mishaps, undone>>

CountLatest(p) ==
    /\ pc[p] = "chosen"
    /\ tx' = [tx EXCEPT ![p].nonce = LatestNonce]
    /\ pc' = [pc EXCEPT ![p] = "latest"]
    /\ UNCHANGED <<chainVars, mempool, storeVars, lease, view, todo, mishaps, undone>>

SameCount(p) ==
    \/ pc[p] = "pending" /\ LatestNonce = tx[p].nonce
    \/ pc[p] = "latest" /\ IsPending(tx[p].nonce)

Simulate(p) ==
    /\ SameCount(p)
    /\ pc' = [pc EXCEPT ![p] = "simulate"]
    /\ UNCHANGED <<chainVars, mempool, storeVars, lease, view, todo, tx, mishaps, undone>>

\* simulateContract: the claim must still be open.
SignNew(p) ==
    /\ pc[p] = "simulate" /\ ~Settled(tx[p].offer)
    /\ pc' = [pc EXCEPT ![p] = "insert"]
    /\ UNCHANGED <<chainVars, mempool, storeVars, lease, view, todo, tx, mishaps, undone>>

\* fault: the transaction is sent before it is journalled
SendFirst(p) ==
    /\ pc' = [pc EXCEPT ![p] = "send"]
    /\ UNCHANGED journal
\* Autocommitted before any network submission.
Journalled(p) ==
    /\ journal' = [journal EXCEPT ![tx[p].offer] = [nonce |-> tx[p].nonce, failed |-> FALSE]]
    /\ pc' = [pc EXCEPT ![p] = "send"]

\* fault: the insert does not go through the session that holds the lease
AnySession(p) == TRUE
LeaseSession(p) == lease = p

\* A row that exists fails the insert.
InsertJob(p) ==
    /\ pc[p] = "insert" /\ LeaseSession(p)
    /\ ~HasJob(tx[p].offer)
    /\ Journalled(p)
    /\ UNCHANGED <<chainVars, mempool, delivery, lease, view, todo, tx, mishaps, undone>>

\* sendRawTransaction needs no database: a pass that lost its lease still gets here.
\* Known bytes and consumed nonces are refused by the node.
Send(p) ==
    /\ pc[p] = "send"
    /\ mempool' = IF tx[p].nonce >= LatestNonce THEN mempool \cup {tx[p]} ELSE mempool
    /\ EndPass(p)
    /\ UNCHANGED <<chainVars, storeVars, mishaps, undone>>

\* Nothing to do, a claim settled meanwhile, something pending on the signer's account,
\* a lost session or an existing row.
EndIdle(p) ==
    /\ \/ pc[p] = "begun" /\ todo[p] = {} /\ \A o \in Offers : FirstPayable(p, o) => LatestSettled(p, o)
       \/ pc[p] \in {"pending", "latest"} /\ ~SameCount(p)
       \/ pc[p] = "simulate" /\ Settled(tx[p].offer)
       \/ pc[p] = "insert" /\ (~LeaseSession(p) \/ HasJob(tx[p].offer))
    /\ EndPass(p)
    /\ UNCHANGED <<chainVars, mempool, storeVars, mishaps, undone>>

\* The process dies, or an RPC call fails.
Crash(p) ==
    /\ Mishap /\ pc[p] # "idle"
    /\ EndPass(p)
    /\ UNCHANGED <<chainVars, mempool, storeVars, undone>>

\* The database session ends and its lock with it, while the process goes on.
LoseConnection(p) ==
    /\ Mishap /\ lease = p
    /\ lease' = NoPass
    /\ UNCHANGED <<chainVars, mempool, storeVars, pc, view, todo, tx, undone>>

PassStep(p) ==
    \/ Begin(p) \/ InsertJob(p) \/ Send(p) \/ EndIdle(p)
    \/ \E o \in Offers : PassOver(p, o) \/ Attend(p, o) \/ Choose(p, o)
    \/ ResumeJob(p) \/ MarkFailed(p) \/ WaitForJob(p)
    \/ CountPending(p) \/ CountLatest(p) \/ Simulate(p) \/ SignNew(p)

Next ==
    \/ Tick \/ Confirm \/ Reorg \/ WipeDeliveries
    \/ \E t \in mempool : Mine(t) \/ DropFromMempool(t)
    \/ \E o \in Offers : SettleElsewhere(o) \/ RecordDelivery(o)
    \/ \E p \in Passes : PassStep(p) \/ Crash(p) \/ LoseConnection(p)

Spec == Init /\ [][Next]_vars

\* The deployment restarts the worker loop, miners include what they hold, blocks get
\* confirmed, time passes, and the receipt scans find every delivery.
FairSpec ==
    /\ Spec
    /\ WF_vars(Tick) /\ WF_vars(Confirm)
    /\ WF_vars(\E t \in mempool : Mine(t))
    /\ \A o \in Offers : WF_vars(RecordDelivery(o))
    /\ \A p \in Passes : WF_vars(PassStep(p))

-----------------------------------------------------------------------------
(* Properties. *)

Nonces == -1 .. NumOffers
TxType == [offer : 0 .. NumOffers, nonce : Nonces]
Steps == {"idle", "begun", "count", "chosen", "pending", "latest", "simulate", "insert", "send"}

\* Every variable keeps to the values the chain, the store and the passes can have, and
\* the lock is free when no pass runs.
TypeOK ==
    /\ now \in 0 .. NumOffers
    /\ mined \in Seq([offer : Offers, nonce : Nonces, ok : BOOLEAN]) /\ final \in 0 .. Len(mined)
    /\ mempool \subseteq TxType /\ delivery \subseteq Offers
    /\ journal \in [Offers -> [nonce : Nonces, failed : BOOLEAN]]
    /\ lease \in Passes \cup {NoPass} /\ (lease # NoPass => pc[lease] # "idle")
    /\ pc \in [Passes -> Steps]
    /\ tx \in [Passes -> TxType] /\ todo \in [Passes -> SUBSET Offers]
    /\ \A p \in Passes : view[p].final <= view[p].length /\ view[p].delivery \subseteq Offers
    /\ undone \subseteq Nonces

\* The settle transactions of the signer that ever reached a node.
Sent == mempool \cup {Tx(mined[i].offer, mined[i].nonce) : i \in {j \in 1 .. Len(mined) : mined[j].nonce >= 0}}

PaidByOthers(o) == \E i \in 1 .. final : mined[i] = [offer |-> o, nonce |-> -1, ok |-> TRUE]

\* A nonce is signed a second time in one case only: a reorganisation took back the
\* transaction that had consumed it, and the claim of one of the two was paid by another
\* account in a confirmed block, so that only one of the two can still pay.  (The worker
\* means to sign none twice; see OneTransactionPerNonce.)
NoncesSharedOnlyOnceSettled ==
    \A o, q \in Offers :
        HasJob(o) /\ o # q /\ journal[o].nonce = journal[q].nonce =>
            journal[o].nonce \in undone /\ (PaidByOthers(o) \/ PaidByOthers(q))

\* "Never allocate a replacement nonce": two jobs never have one nonce.  The code does
\* not keep this: the nonce that showed an earlier job finished can be gone from the
\* chain when the count for the next transaction is read.
OneTransactionPerNonce ==
    \A o, q \in Offers : HasJob(o) /\ o # q => journal[o].nonce # journal[q].nonce

\* "Persist the signed transaction before broadcasting": whatever a node holds can be
\* sent again, byte for byte, by the next pass.
BroadcastOnlyJournalled == \A t \in Sent : journal[t.offer].nonce = t.nonce

\* "Finish every durable pending job before allocating a new nonce": a job is journalled
\* only when the claims of all the earlier ones are settled in confirmed blocks.
OneJobAtATime ==
    [][\A o, q \in Offers : journal'[o].nonce # journal[o].nonce /\ HasJob(q) /\ q # o =>
          SettledIn(q, final)]_vars

\* A job is marked for review only for a revert that stays: its transaction is in a
\* confirmed block, and nobody had paid the claim before it.
FailedJobsReverted ==
    \A o \in Offers : journal[o].failed =>
        \E i \in 1 .. final :
            /\ mined[i] = [offer |-> o, nonce |-> journal[o].nonce, ok |-> FALSE]
            /\ ~SettledIn(o, i)

\* The journal tells the truth about what was sent and what failed.
JournalTruthful == BroadcastOnlyJournalled /\ FailedJobsReverted

\* Somebody has to look: a transaction reverted for good, or another account settled a
\* claim whose transaction the worker had already signed, which may never be mined.
NeedsReview ==
    \E o \in Offers :
        HasJob(o) /\ (journal[o].failed \/ \E i \in 1 .. Len(mined) : mined[i].offer = o /\ mined[i].nonce = -1)

\* Every delivered offer is settled in a confirmed block in the end, across crashes, lost
\* sessions, reorganisations, dropped transactions and wiped evidence, unless the worker
\* stopped for an operator.
EveryOfferSettled == \A o \in Offers : <>(SettledIn(o, final) \/ NeedsReview)
=============================================================================
