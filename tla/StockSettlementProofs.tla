----------------------- MODULE StockSettlementProofs -----------------------
(***************************************************************************)
(* The settlement worker, for any number of offers, passes and mishaps: a  *)
(* nonce is shared only after a reorganisation and with a claim another    *)
(* account has paid, what a node holds is journalled, a transaction is     *)
(* journalled only when the earlier ones are settled for good, and only a  *)
(* revert that stays is put up for review.                                 *)
(*                                                                         *)
(* The inductive invariant says what a pass carries between two statements *)
(* while anything happens around it.  A pass that still has the lease has  *)
(* seen every job it passed over settled in a confirmed block and its      *)
(* nonce consumed, which only a reorganisation takes back (LookersHold);   *)
(* nobody else wrote the journal since, and a block that is confirmed      *)
(* stays.  So the nonce it counts is above every journalled one, but for   *)
(* those a reorganisation freed: such a job's claim can only have been     *)
(* settled by another account, for its own settlement would be confirmed   *)
(* and count (InsertersHold).  A pass that sends, with or without the      *)
(* lease, sends what is journalled (SendersHold).  The nonces on the chain *)
(* count up (NoncesInOrder), hence there are never more than offers.       *)
(***************************************************************************)
EXTENDS StockSettlement, FiniteSetTheorems, SequenceTheorems, TLAPS

Block == [offer : Offers, nonce : Nonces, ok : BOOLEAN]
Views == [length : Nat, final : Nat, now : Nat, delivery : SUBSET Offers]

\* A pass has seen no more blocks confirmed than there are.
ViewsHold ==
    /\ view \in [Passes -> Views]
    /\ \A p \in Passes : view[p].final <= final

\* The signer's transactions among the first k blocks.
SignedIn(blocks, k) == {i \in 1 .. k : blocks[i].nonce >= 0}

\* The nonces of the signer's transactions count up.
NoncesInOrder ==
    \A i \in 1 .. Len(mined) : mined[i].nonce >= 0 =>
        mined[i].nonce = Cardinality(SignedIn(mined, i - 1))

\* Whatever reached a node is journalled.
MempoolJournalled ==
    \A t \in mempool : t.offer \in Offers /\ t.nonce >= 0 /\ journal[t.offer].nonce = t.nonce
MinedJournalled ==
    \A i \in 1 .. Len(mined) : mined[i].nonce >= 0 => journal[mined[i].offer].nonce = mined[i].nonce

\* A pass about to resend or to send carries a journalled transaction; at the count, of
\* a claim that its confirmed blocks do not settle.
SendersHold ==
    \A p \in Passes : pc[p] \in {"count", "send"} =>
        /\ tx[p].offer \in Offers /\ tx[p].nonce >= 0
        /\ journal[tx[p].offer].nonce = tx[p].nonce
        /\ pc[p] = "count" => ~SettledIn(tx[p].offer, view[p].final)

\* The job is settled for good, and its nonce consumed unless it was taken back.
PassedOver(o) ==
    SettledIn(o, final) /\ (journal[o].nonce < LatestNonce \/ journal[o].nonce \in undone)

\* As long as it has the lease, a pass that looks at the jobs was right to pass over
\* those it did, and it has passed over all when it asks for its nonce.
LookersHold ==
    \A p \in Passes :
        /\ pc[p] \in {"begun", "chosen", "pending"} /\ lease = p =>
              \A o \in Offers : HasJob(o) /\ o \notin todo[p] => PassedOver(o)
        /\ pc[p] \in {"chosen", "pending"} => todo[p] = {} /\ tx[p].offer \in Offers
        /\ pc[p] = "pending" => tx[p].nonce >= 0
        /\ \A o \in todo[p] : HasJob(o)

\* The nonce n is above that of the job, or that one was taken back and the claim is
\* another account's payment.
Above(n, o) ==
    SettledIn(o, final) /\ (journal[o].nonce < n \/ (journal[o].nonce \in undone /\ PaidByOthers(o)))

\* A pass that has its nonce carries one above all jobs, as long as it has the lease.
Allocating == {"latest", "simulate", "insert"}
InsertersHold ==
    \A p \in Passes : pc[p] \in Allocating =>
        /\ tx[p].offer \in Offers /\ tx[p].nonce >= 0
        /\ lease = p => \A o \in Offers : HasJob(o) => Above(tx[p].nonce, o)

\* A failed job has a nonce.
FailedAreJobs == \A o \in Offers : journal[o].failed => HasJob(o)

IInv ==
    /\ TypeOK /\ ViewsHold
    /\ NoncesInOrder
    /\ MempoolJournalled /\ MinedJournalled /\ NoncesSharedOnlyOnceSettled
    /\ SendersHold /\ LookersHold /\ InsertersHold
    /\ FailedAreJobs /\ FailedJobsReverted

-----------------------------------------------------------------------------
(* The steps *)

\* A statement of a pass, a crash, or a session that ends.
Moves(p) == PassStep(p) \/ Crash(p) \/ LoseConnection(p)

\* The pass neither moves nor is given or read anything.
Still(p) ==
    /\ pc'[p] = pc[p] /\ tx'[p] = tx[p] /\ view'[p] = view[p] /\ todo'[p] = todo[p]
    /\ lease' = p => lease = p

LEMMA MovesKeepChain ==
    ASSUME NEW p \in Passes, Moves(p)
    PROVE  UNCHANGED <<chainVars, undone>>
BY DEF Moves, PassStep, Crash, LoseConnection, Begin, PassOver, Attend, ResumeJob, MarkFailed,
       WaitForJob, Choose, CountPending, CountLatest, Simulate, SignNew, InsertJob, Send, EndIdle

LEMMA StepKinds ==
    ASSUME [Next]_vars
    PROVE  \/ UNCHANGED <<journal, passVars>>
           \/ UNCHANGED <<chainVars, undone>> /\ \E p \in Passes : Moves(p)
<1>2. UNCHANGED <<journal, passVars>> \/ \E p \in Passes : Moves(p)
    BY DEF Next, vars, storeVars, Tick, Confirm, WipeDeliveries, DropFromMempool, RecordDelivery,
       Mine, SettleElsewhere, Reorg, Moves
<1>3. QED
    BY <1>2, MovesKeepChain

LEMMA MoveCases ==
    ASSUME NEW p, Moves(p)
    PROVE  \/ EndPass(p) \/ Begin(p) \/ ResumeJob(p) \/ CountPending(p) \/ CountLatest(p)
           \/ Simulate(p) \/ SignNew(p) \/ InsertJob(p) \/ LoseConnection(p)
           \/ \E o \in Offers : PassOver(p, o) \/ Attend(p, o) \/ Choose(p, o)
BY DEF Moves, PassStep, Send, EndIdle, Crash, MarkFailed, WaitForJob

LEMMA OthersStill ==
    ASSUME TypeOK, view \in [Passes -> Views], NEW p \in Passes, NEW q \in Passes, p # q, Moves(p)
    PROVE  Still(q)
<1>1. /\ DOMAIN pc = Passes /\ DOMAIN tx = Passes /\ DOMAIN view = Passes /\ DOMAIN todo = Passes
      /\ NoPass \notin Passes
    BY SettlementAssumption DEF TypeOK
<1>2. CASE EndPass(p)
    BY <1>1, <1>2 DEF EndPass, Unlock, Still
<1>3. CASE Begin(p)
    BY <1>1, <1>3 DEF Begin, Still
<1>4. CASE ResumeJob(p) \/ Simulate(p) \/ SignNew(p)
    BY <1>1, <1>4 DEF ResumeJob, Simulate, SignNew, Still
<1>5. CASE CountPending(p) \/ CountLatest(p)
    BY <1>1, <1>5 DEF CountPending, CountLatest, Still
<1>6. CASE InsertJob(p)
    BY <1>1, <1>6 DEF InsertJob, Journalled, Still
<1>7. CASE LoseConnection(p)
    BY <1>1, <1>7 DEF LoseConnection, Still
<1>8. ASSUME NEW o \in Offers, PassOver(p, o) \/ Attend(p, o) \/ Choose(p, o) PROVE Still(q)
    BY <1>1, <1>8 DEF PassOver, Attend, Choose, Still
<1>9. QED
    BY <1>2, <1>3, <1>4, <1>5, <1>6, <1>7, <1>8, MoveCases

\* A pass moves, or stays as it was.
LEMMA MovesOrStill ==
    ASSUME TypeOK, view \in [Passes -> Views], [Next]_vars, NEW p \in Passes
    PROVE  Still(p) \/ (Moves(p) /\ UNCHANGED <<chainVars, undone>>)
<1>1. ASSUME UNCHANGED passVars PROVE Still(p)
    BY <1>1 DEF passVars, Still
<1>2. QED
    BY <1>1, StepKinds, OthersStill

-----------------------------------------------------------------------------
(* The chain *)

\* A block is appended: another account's, or the next nonce from the mempool.
Appended(b) ==
    /\ mined' = Append(mined, b)
    /\ b.nonce >= 0 => b.nonce = LatestNonce /\ Tx(b.offer, b.nonce) \in mempool
    /\ UNCHANGED <<journal, final, undone>>

\* The last, unconfirmed block is taken back.
TakenBack ==
    /\ final < Len(mined)
    /\ mined' = SubSeq(mined, 1, Len(mined) - 1)
    /\ undone' = undone \cup {mined[Len(mined)].nonce}
    /\ UNCHANGED <<journal, final>>

LEMMA AppendedBlocks ==
    ASSUME TypeOK, NEW b \in Block, Appended(b)
    PROVE  /\ mined' \in Seq(Block) /\ Len(mined') = Len(mined) + 1
           /\ \A i \in 1 .. Len(mined) : mined'[i] = mined[i]
           /\ mined'[Len(mined) + 1] = b
           /\ Len(mined) \in Nat
BY DEF TypeOK, Appended, Block

LEMMA TakenBackBlocks ==
    ASSUME TypeOK, TakenBack
    PROVE  /\ mined' \in Seq(Block) /\ Len(mined') = Len(mined) - 1
           /\ \A i \in 1 .. Len(mined') : mined'[i] = mined[i]
           /\ Len(mined) \in Nat /\ Len(mined') \in Nat
<1>1. mined \in Seq(Block) /\ Len(mined) \in Nat /\ final \in Nat
    BY DEF TypeOK, Block
<1>2. \A i \in 1 .. Len(mined) - 1 : mined[i] \in Block
    BY <1>1
<1>3. /\ SubSeq(mined, 1, Len(mined) - 1) \in Seq(Block)
      /\ Len(SubSeq(mined, 1, Len(mined) - 1)) = Len(mined) - 1
      /\ \A i \in 1 .. Len(mined) - 1 : SubSeq(mined, 1, Len(mined) - 1)[i] = mined[i]
  <2>1. Len(mined) - 1 \in Nat /\ 1 \in Int /\ Len(mined) - 1 \in Int
      BY <1>1 DEF TakenBack
  <2> DEFINE n == Len(mined) - 1
  <2> HIDE DEF n
  <2>2. n \in Nat /\ n \in Int /\ \A i \in 1 .. n : mined[i] \in Block
      BY <2>1, <1>2 DEF n
  <2>3. /\ SubSeq(mined, 1, n) \in Seq(Block)
        /\ Len(SubSeq(mined, 1, n)) = IF 1 <= n THEN n - 1 + 1 ELSE 0
        /\ \A i \in 1 .. n - 1 + 1 : SubSeq(mined, 1, n)[i] = mined[1 + i - 1]
      BY <2>2, SubSeqProperties
  <2>4. /\ SubSeq(mined, 1, n) \in Seq(Block) /\ Len(SubSeq(mined, 1, n)) = n
        /\ \A i \in 1 .. n : SubSeq(mined, 1, n)[i] = mined[i]
      BY <2>2, <2>3
  <2>5. QED
      BY <2>4 DEF n
<1>4. QED
    BY <1>1, <1>3 DEF TakenBack

\* There is no other way for a block to come or go.
LEMMA ChainCases ==
    ASSUME TypeOK, MempoolJournalled, [Next]_vars
    PROVE  UNCHANGED mined \/ TakenBack \/ \E b \in Block : Appended(b)
<1>1. ASSUME NEW t \in mempool, Mine(t) PROVE \E b \in Block : Appended(b)
  <2>1. PICK ok \in BOOLEAN : mined' = Append(mined, [offer |-> t.offer, nonce |-> t.nonce, ok |-> ok])
      BY <1>1 DEF Mine
  <2> DEFINE b == [offer |-> t.offer, nonce |-> t.nonce, ok |-> ok]
  <2>2. b \in Block /\ Tx(b.offer, b.nonce) = t
      BY DEF Block, TypeOK, TxType, MempoolJournalled, Tx
  <2>3. Appended(b)
      BY <1>1, <2>1, <2>2 DEF Mine, Appended, storeVars
  <2>4. QED
      BY <2>2, <2>3
<1>2. ASSUME NEW o \in Offers, SettleElsewhere(o) PROVE \E b \in Block : Appended(b)
  <2> DEFINE b == [offer |-> o, nonce |-> -1, ok |-> TRUE]
  <2>1. b \in Block
      BY SettlementAssumption DEF Block, Nonces
  <2>2. Appended(b)
      BY <1>2 DEF SettleElsewhere, Appended, storeVars
  <2>3. QED
      BY <2>1, <2>2
<1>3. CASE Reorg
    BY <1>3 DEF Reorg, TakenBack, storeVars
<1>4. UNCHANGED mined \/ Reorg \/ (\E t \in mempool : Mine(t)) \/ (\E o \in Offers : SettleElsewhere(o))
  <2>2. UNCHANGED mined \/ Reorg \/ (\E t \in mempool : Mine(t))
           \/ (\E o \in Offers : SettleElsewhere(o)) \/ \E p \in Passes : Moves(p)
      BY DEF Next, vars, chainVars, Tick, Confirm, WipeDeliveries, DropFromMempool,
         RecordDelivery, Moves
  <2>3. ASSUME NEW p \in Passes, Moves(p) PROVE UNCHANGED mined
      BY <2>3, MovesKeepChain DEF chainVars
  <2>4. QED
      BY <2>2, <2>3
<1>5. QED
    BY <1>1, <1>2, <1>3, <1>4

\* Confirmed blocks stay, and stay confirmed.
LEMMA ConfirmedStay ==
    ASSUME TypeOK, MempoolJournalled, [Next]_vars
    PROVE  /\ final \in Nat /\ final' \in Nat /\ final <= final' /\ final' <= Len(mined')
           /\ Len(mined') \in Nat
           /\ \A i \in 1 .. final : mined'[i] = mined[i]
<1>1. final \in Nat /\ final <= Len(mined) /\ Len(mined) \in Nat
    BY DEF TypeOK
<1>2. final' = final \/ (UNCHANGED mined /\ final' = final + 1 /\ final < Len(mined))
  <2>1. ASSUME NEW p \in Passes, Moves(p) PROVE final' = final
      BY <2>1, MovesKeepChain DEF chainVars
  <2>2. \/ final' = final \/ (UNCHANGED mined /\ final' = final + 1 /\ final < Len(mined))
        \/ \E p \in Passes : Moves(p)
      BY DEF Next, vars, chainVars, Tick, Confirm, WipeDeliveries, DropFromMempool,
         RecordDelivery, Mine, SettleElsewhere, Reorg, Moves
  <2>3. QED
      BY <2>1, <2>2
<1>3. CASE UNCHANGED mined
    BY <1>1, <1>2, <1>3
<1>4. CASE TakenBack
    BY <1>1, <1>4, TakenBackBlocks DEF TakenBack
<1>5. ASSUME NEW b \in Block, Appended(b)
      PROVE  final' = final /\ Len(mined') = Len(mined) + 1 /\ \A i \in 1 .. final : mined'[i] = mined[i]
    BY <1>1, <1>5, AppendedBlocks DEF Appended
<1>6. CASE \E b \in Block : Appended(b)
    BY <1>1, <1>5, <1>6
<1>7. QED
    BY <1>3, <1>4, <1>6, ChainCases

LEMMA SettledStays ==
    ASSUME TypeOK, MempoolJournalled, [Next]_vars, NEW o
    PROVE  /\ SettledIn(o, final) => SettledIn(o, final)'
           /\ PaidByOthers(o) => PaidByOthers(o)'
<1>1. /\ final \in Nat /\ final' \in Nat /\ final <= final'
      /\ \A i \in 1 .. final : mined'[i] = mined[i]
    BY ConfirmedStay
<1>2. 1 .. final \subseteq 1 .. final'
    BY <1>1
<1>3. ASSUME SettledIn(o, final) PROVE SettledIn(o, final)'
    BY <1>1, <1>2, <1>3 DEF SettledIn
<1>4. ASSUME PaidByOthers(o) PROVE PaidByOthers(o)'
    BY <1>1, <1>2, <1>4 DEF PaidByOthers
<1>5. QED
    BY <1>3, <1>4

-----------------------------------------------------------------------------
(* Nonces *)

LEMMA SignedFinite ==
    ASSUME NEW blocks, NEW k \in Int
    PROVE  IsFiniteSet(SignedIn(blocks, k)) /\ Cardinality(SignedIn(blocks, k)) \in Nat
<1>1. IsFiniteSet(1 .. k)
    BY FS_Interval
<1>2. SignedIn(blocks, k) \in SUBSET (1 .. k)
    BY DEF SignedIn
<1>3. IsFiniteSet(SignedIn(blocks, k))
    BY <1>1, <1>2, FS_Subset
<1>4. QED
    BY <1>3, FS_CardinalityType

LEMMA LatestIsCount == LatestNonce = Cardinality(SignedIn(mined, Len(mined)))
BY DEF LatestNonce, SignedIn

\* A later transaction of the signer has a greater nonce.
LEMMA CountGrows ==
    ASSUME NEW blocks, NEW i \in Nat, NEW j \in Nat, i < j, i \in SignedIn(blocks, j - 1)
    PROVE  Cardinality(SignedIn(blocks, i - 1)) < Cardinality(SignedIn(blocks, j - 1))
<1> DEFINE A == SignedIn(blocks, i - 1)
           B == SignedIn(blocks, j - 1)
<1>1. A \in SUBSET B /\ i \in B /\ i \notin A
    BY DEF SignedIn
<1>2. IsFiniteSet(A) /\ IsFiniteSet(B) /\ Cardinality(A) \in Nat /\ Cardinality(B) \in Nat
  <2>1. i - 1 \in Int /\ j - 1 \in Int
      OBVIOUS
  <2>2. QED
      BY <2>1, SignedFinite
<1> HIDE DEF A, B
<1>3. Cardinality(A) <= Cardinality(B) /\ (Cardinality(B) = Cardinality(A) => B = A)
    BY <1>1, <1>2, FS_Subset
<1>4. Cardinality(A) < Cardinality(B)
    BY <1>1, <1>2, <1>3
<1>5. QED
    BY <1>4 DEF A, B

LEMMA NoncesGrow ==
    ASSUME TypeOK, NoncesInOrder, NEW i \in 1 .. Len(mined), NEW j \in 1 .. Len(mined), i < j,
           mined[i].nonce >= 0, mined[j].nonce >= 0
    PROVE  mined[i].nonce < mined[j].nonce
<1>1. i \in Nat /\ j \in Nat /\ i \in SignedIn(mined, j - 1)
    BY DEF SignedIn, TypeOK
<1>2. QED
    BY <1>1, CountGrows DEF NoncesInOrder

LEMMA BlockTypes ==
    ASSUME TypeOK, NEW i \in 1 .. Len(mined)
    PROVE  mined[i].offer \in Offers /\ mined[i].nonce \in Nonces /\ mined[i].ok \in BOOLEAN
<1> DEFINE Blocks == [offer : Offers, nonce : Nonces, ok : BOOLEAN]
<1>1. mined \in Seq(Blocks)
    BY DEF TypeOK
<1> HIDE DEF Blocks
<1>2. mined[i] \in Blocks
    BY <1>1
<1>3. QED
    BY <1>2 DEF Blocks

LEMMA LatestType ==
    ASSUME TypeOK
    PROVE  LatestNonce \in Nat
<1>1. Len(mined) \in Int
    BY DEF TypeOK
<1>2. QED
    BY <1>1, SignedFinite, LatestIsCount

\* Only a reorganisation takes the count back, over the nonce it takes back.
LEMMA LatestMoves ==
    ASSUME TypeOK, MempoolJournalled, NoncesInOrder, [Next]_vars, NEW n \in Int, n < LatestNonce
    PROVE  n < LatestNonce' \/ n \in undone'
<1> DEFINE L == Len(mined)
<1>1. L \in Nat /\ LatestNonce = Cardinality(SignedIn(mined, L)) /\ LatestNonce \in Nat
    BY LatestIsCount, LatestType DEF TypeOK
<1>2. LatestNonce' = Cardinality(SignedIn(mined', Len(mined')))
    BY DEF LatestNonce, SignedIn
<1>3. CASE UNCHANGED mined
    BY <1>3 DEF LatestNonce
<1>4. CASE TakenBack
  <2>1. Len(mined') = L - 1 /\ L \in 1 .. L /\ \A i \in 1 .. L - 1 : mined'[i] = mined[i]
      BY <1>1, <1>4, TakenBackBlocks DEF TakenBack, TypeOK
  <2>2. SignedIn(mined', L - 1) = SignedIn(mined, L - 1)
      BY <2>1 DEF SignedIn
  <2>3. LatestNonce' = Cardinality(SignedIn(mined, L - 1))
      BY <1>2, <2>1, <2>2
  <2>4. CASE mined[L].nonce >= 0
    <3>1. mined[L].nonce = LatestNonce' /\ mined[L].nonce \in undone'
        BY <1>4, <2>1, <2>3, <2>4 DEF NoncesInOrder, TakenBack
    <3>2. SignedIn(mined, L) = SignedIn(mined, L - 1) \cup {L} /\ L \notin SignedIn(mined, L - 1)
        BY <1>1, <2>1, <2>4 DEF SignedIn
    <3>3. IsFiniteSet(SignedIn(mined, L - 1)) /\ Cardinality(SignedIn(mined, L - 1)) \in Nat
      <4>1. L - 1 \in Int
          BY <1>1
      <4>2. QED
          BY <4>1, SignedFinite
    <3>4. LatestNonce = LatestNonce' + 1 /\ LatestNonce' \in Nat
        BY <1>1, <2>3, <3>2, <3>3, FS_AddElement
    <3>5. n < LatestNonce' \/ n = LatestNonce'
      <4>1. \A a, b \in Nat : a = b + 1 /\ n < a => n < b \/ n = b
          OBVIOUS
      <4>2. QED
          BY <1>1, <3>4, <4>1
    <3>6. QED
        BY <3>1, <3>5
  <2>5. CASE ~(mined[L].nonce >= 0)
    <3>1. SignedIn(mined, L) = SignedIn(mined, L - 1)
        BY <1>1, <2>1, <2>5 DEF SignedIn
    <3>2. QED
        BY <1>1, <2>3, <3>1
  <2>6. QED
      BY <2>4, <2>5
<1>5. ASSUME NEW b \in Block, Appended(b) PROVE n < LatestNonce'
  <2>1. Len(mined') = L + 1 /\ \A i \in 1 .. L : mined'[i] = mined[i]
      BY <1>5, AppendedBlocks
  <2>2. SignedIn(mined, L) \in SUBSET SignedIn(mined', L + 1)
      BY <1>1, <2>1 DEF SignedIn
  <2>3. IsFiniteSet(SignedIn(mined', L + 1)) /\ Cardinality(SignedIn(mined', L + 1)) \in Nat
    <3>1. L + 1 \in Int
        BY <1>1
    <3>2. QED
        BY <3>1, SignedFinite
  <2>4. Cardinality(SignedIn(mined, L)) <= Cardinality(SignedIn(mined', L + 1))
      BY <2>2, <2>3, FS_Subset
  <2>5. LatestNonce <= LatestNonce' /\ LatestNonce' \in Nat
      BY <1>1, <1>2, <2>1, <2>3, <2>4
  <2>6. QED
      BY <1>1, <2>5
<1>6. QED
    BY <1>3, <1>4, <1>5, ChainCases

\* What was taken back stays known.
LEMMA UndoneGrows ==
    ASSUME [Next]_vars
    PROVE  undone \subseteq undone'
<1>1. ASSUME NEW p \in Passes, Moves(p) PROVE undone' = undone
    BY <1>1, MovesKeepChain
<1>2. QED
    BY <1>1 DEF Next, vars, Tick, Confirm, WipeDeliveries, DropFromMempool, RecordDelivery, Mine,
       SettleElsewhere, Reorg, Moves

\* A confirmed settlement is another account's, or a transaction of the job that counts.
LEMMA SettledNonces ==
    ASSUME TypeOK, NoncesInOrder, MinedJournalled, NEW o \in Offers, SettledIn(o, final)
    PROVE  PaidByOthers(o) \/ journal[o].nonce < LatestNonce
<1>1. PICK i \in 1 .. final : mined[i].offer = o /\ mined[i].ok
    BY DEF SettledIn
<1>2. final <= Len(mined) /\ final \in Nat /\ Len(mined) \in Nat
    BY DEF TypeOK
<1>3. i \in 1 .. Len(mined) /\ i \in Nat /\ i < Len(mined) + 1 /\ Len(mined) + 1 \in Nat
      /\ (Len(mined) + 1) - 1 = Len(mined)
    BY <1>2
<1>4. mined[i] \in Block
  <2>1. mined \in Seq(Block)
      BY DEF TypeOK, Block
  <2>2. QED
      BY <1>3, <2>1
<1>5. CASE mined[i].nonce >= 0
  <2>1. journal[o].nonce = mined[i].nonce /\ mined[i].nonce = Cardinality(SignedIn(mined, i - 1))
      BY <1>1, <1>3, <1>5 DEF MinedJournalled, NoncesInOrder
  <2>2. i \in SignedIn(mined, (Len(mined) + 1) - 1)
      BY <1>3, <1>5 DEF SignedIn
  <2>3. Cardinality(SignedIn(mined, i - 1)) < Cardinality(SignedIn(mined, (Len(mined) + 1) - 1))
      BY <1>3, <2>2, CountGrows
  <2>4. QED
      BY <1>3, <2>1, <2>3, LatestIsCount
<1>6. CASE ~(mined[i].nonce >= 0)
  <2>1. mined[i].nonce \in -1 .. NumOffers /\ NumOffers \in Nat
      BY <1>4, SettlementAssumption DEF Block, Nonces
  <2>2. mined[i].nonce = -1
      BY <1>6, <2>1
  <2>3. mined[i] = [offer |-> o, nonce |-> -1, ok |-> TRUE]
      BY <1>1, <1>4, <2>2 DEF Block
  <2>4. QED
      BY <2>3 DEF PaidByOthers
<1>7. QED
    BY <1>5, <1>6

\* There are never more of the signer's transactions than offers.
LEMMA LatestBounded ==
    ASSUME TypeOK, NoncesInOrder, MinedJournalled
    PROVE  LatestNonce \in 0 .. NumOffers
<1> DEFINE S == SignedIn(mined, Len(mined))
           f == [i \in S |-> mined[i].offer]
<1>1. \A i \in S : i \in 1 .. Len(mined) /\ mined[i].nonce >= 0 /\ mined[i].offer \in Offers
                   /\ mined[i].nonce \in Nonces
    BY BlockTypes DEF SignedIn
<1>2. ASSUME NEW i \in S, NEW j \in S, mined[i].offer = mined[j].offer PROVE i = j
  <2>1. mined[i].nonce = mined[j].nonce
      BY <1>1, <1>2 DEF MinedJournalled
  <2>2. mined[i].nonce \in Int /\ i \in Int /\ j \in Int /\ Len(mined) \in Nat
      BY <1>1, SettlementAssumption DEF TypeOK, Nonces
  <2>3. ~ (i < j) /\ ~ (j < i)
      BY <1>1, <2>1, <2>2, NoncesGrow
  <2>4. QED
      BY <2>2, <2>3
<1>3. f \in Injection(S, Offers)
    BY <1>1, <1>2 DEF Injection, IsInjective
<1>4. IsFiniteSet(Offers) /\ Cardinality(Offers) = NumOffers
  <2>1. 1 \in Int /\ NumOffers \in Int /\ NumOffers \in Nat
      BY SettlementAssumption
  <2>2. /\ IsFiniteSet(1 .. NumOffers)
        /\ Cardinality(1 .. NumOffers) = IF 1 > NumOffers THEN 0 ELSE NumOffers - 1 + 1
      BY <2>1, FS_Interval
  <2>3. QED
      BY <2>1, <2>2 DEF Offers
<1>5. Cardinality(S) <= Cardinality(Offers)
    BY <1>3, <1>4, FS_Injection
<1>6. Cardinality(S) \in Nat /\ LatestNonce = Cardinality(S)
  <2>1. Len(mined) \in Int
      BY DEF TypeOK
  <2>2. QED
      BY <2>1, SignedFinite, LatestIsCount
<1>7. QED
    BY <1>4, <1>5, <1>6, SettlementAssumption

LEMMA NoncesStep ==
    ASSUME TypeOK, MempoolJournalled, NoncesInOrder, [Next]_vars
    PROVE  NoncesInOrder'
<1>1. CASE UNCHANGED mined
    BY <1>1 DEF NoncesInOrder, SignedIn
<1>2. ASSUME NEW i \in Nat, \A k \in 1 .. i : mined'[k] = mined[k]
      PROVE  SignedIn(mined', i - 1) = SignedIn(mined, i - 1) /\ SignedIn(mined', i) = SignedIn(mined, i)
    BY <1>2 DEF SignedIn
<1>3. CASE TakenBack
  <2>1. SUFFICES ASSUME NEW i \in 1 .. Len(mined'), mined'[i].nonce >= 0
                 PROVE  mined'[i].nonce = Cardinality(SignedIn(mined', i - 1))
      BY DEF NoncesInOrder
  <2>2. i \in Nat /\ i \in 1 .. Len(mined) /\ mined'[i] = mined[i] /\ \A k \in 1 .. i : mined'[k] = mined[k]
      BY <1>3, TakenBackBlocks
  <2>3. QED
      BY <1>2, <2>1, <2>2 DEF NoncesInOrder
<1>4. ASSUME NEW b \in Block, Appended(b) PROVE NoncesInOrder'
  <2>1. SUFFICES ASSUME NEW i \in 1 .. Len(mined'), mined'[i].nonce >= 0
                 PROVE  mined'[i].nonce = Cardinality(SignedIn(mined', i - 1))
      BY DEF NoncesInOrder
  <2>2. CASE i \in 1 .. Len(mined)
    <3>1. i \in Nat /\ mined'[i] = mined[i] /\ \A k \in 1 .. i : mined'[k] = mined[k]
        BY <1>4, <2>2, AppendedBlocks
    <3>2. QED
        BY <1>2, <2>1, <2>2, <3>1 DEF NoncesInOrder
  <2>3. CASE i = Len(mined) + 1
    <3>1. mined'[i] = b /\ Len(mined) \in Nat /\ i - 1 = Len(mined)
          /\ \A k \in 1 .. Len(mined) : mined'[k] = mined[k]
        BY <1>4, <2>3, AppendedBlocks
    <3>2. b.nonce = Cardinality(SignedIn(mined, Len(mined)))
        BY <1>4, <2>1, <3>1, LatestIsCount DEF Appended
    <3>3. SignedIn(mined', Len(mined)) = SignedIn(mined, Len(mined))
        BY <1>2, <3>1
    <3>4. QED
        BY <3>1, <3>2, <3>3
  <2>4. QED
      BY <1>4, <2>2, <2>3, AppendedBlocks
<1>5. QED
    BY <1>1, <1>3, <1>4, ChainCases

-----------------------------------------------------------------------------
(* Types *)

LEMMA NonceFacts ==
    /\ NumOffers \in Nat /\ Offers \subseteq Nat
    /\ \A n \in Nonces : n \in Int /\ n <= NumOffers
    /\ -1 \in Nonces
    /\ \A o \in Offers, n \in Nonces : Tx(o, n) \in TxType
    /\ NoTx \in TxType
    /\ \A t \in TxType : t.nonce \in Nonces /\ t.offer \in 0 .. NumOffers
BY SettlementAssumption DEF Offers, Nonces, TxType, Tx, NoTx

\* The database lock and the passes.
PassTypes ==
    /\ lease \in Passes \cup {NoPass} /\ (lease # NoPass => pc[lease] # "idle")
    /\ pc \in [Passes -> Steps]
    /\ tx \in [Passes -> TxType]
    /\ view \in [Passes -> Views]
    /\ todo \in [Passes -> SUBSET Offers]

LEMMA EndPassTypes ==
    ASSUME PassTypes, NEW p \in Passes, EndPass(p)
    PROVE  PassTypes'
<1>1. tx' \in [Passes -> TxType]
    BY NonceFacts DEF EndPass, PassTypes
<1>2. NoView \in Views
    BY DEF NoView, Views
<1>3. view' \in [Passes -> Views] /\ todo' \in [Passes -> SUBSET Offers]
    BY <1>2 DEF EndPass, PassTypes
<1>4. QED
    BY <1>1, <1>3 DEF EndPass, Unlock, PassTypes, Steps

LEMMA MoveTypes ==
    ASSUME TypeOK, ViewsHold, NoncesInOrder, MinedJournalled, NEW p \in Passes, Moves(p)
    PROVE  PassTypes'
<1>1. PassTypes /\ NoPass \notin Passes
    BY SettlementAssumption DEF PassTypes, TypeOK, ViewsHold
<1>2. CASE EndPass(p)
    BY <1>1, <1>2, EndPassTypes
<1>3. CASE Begin(p)
  <2> DEFINE seen == [length |-> Len(mined), final |-> final, now |-> now, delivery |-> delivery]
  <2>1. Len(mined) \in Nat /\ final \in Nat /\ now \in Nat /\ delivery \subseteq Offers
      BY NonceFacts DEF TypeOK
  <2>2. seen \in Views
      BY <2>1 DEF Views
  <2> HIDE DEF seen
  <2>3. view' = [view EXCEPT ![p] = seen] /\ todo' = [todo EXCEPT ![p] = {o \in Offers : HasJob(o)}]
      BY <1>3 DEF Begin, seen
  <2>4. view' \in [Passes -> Views] /\ todo' \in [Passes -> SUBSET Offers]
      BY <1>1, <2>2, <2>3 DEF PassTypes
  <2>5. QED
      BY <1>1, <1>3, <2>4 DEF Begin, PassTypes, Steps
<1>4. ASSUME NEW o \in Offers, PassOver(p, o) PROVE PassTypes'
    BY <1>1, <1>4 DEF PassOver, PassTypes
<1>5. ASSUME NEW o \in Offers, Attend(p, o) \/ Choose(p, o) PROVE PassTypes'
  <2>1. journal[o].nonce \in Nonces /\ -1 \in Nonces
      BY NonceFacts DEF TypeOK
  <2>2. Tx(o, journal[o].nonce) \in TxType /\ Tx(o, -1) \in TxType
      BY <2>1, NonceFacts
  <2>3. tx' \in [Passes -> TxType]
      BY <1>1, <1>5, <2>2 DEF Attend, Choose, PassTypes
  <2>4. QED
      BY <1>1, <1>5, <2>3 DEF Attend, Choose, PassTypes, Steps
<1>6. CASE CountPending(p) \/ CountLatest(p)
  <2>1. PICK n \in 0 .. NumOffers : tx' = [tx EXCEPT ![p].nonce = n]
      BY <1>6, LatestBounded DEF CountPending, CountLatest
  <2>2. n \in Nonces
      BY SettlementAssumption DEF Nonces
  <2>3. tx' \in [Passes -> TxType]
      BY <1>1, <2>1, <2>2 DEF PassTypes, TxType
  <2>4. QED
      BY <1>1, <1>6, <2>3 DEF CountPending, CountLatest, PassTypes, Steps
<1>7. CASE ResumeJob(p) \/ Simulate(p) \/ SignNew(p)
    BY <1>1, <1>7 DEF ResumeJob, Simulate, SignNew, PassTypes, Steps
<1>8. CASE InsertJob(p)
    BY <1>1, <1>8 DEF InsertJob, Journalled, PassTypes, Steps
<1>9. CASE LoseConnection(p)
    BY <1>1, <1>9 DEF LoseConnection, PassTypes
<1>10. QED
    BY <1>2, <1>3, <1>4, <1>5, <1>6, <1>7, <1>8, <1>9, MoveCases

\* Nobody writes the journal but an insert and a mark.
LEMMA JournalCases ==
    ASSUME [Next]_vars
    PROVE  UNCHANGED journal \/ \E p \in Passes : InsertJob(p) \/ MarkFailed(p)
<1>1. ASSUME NEW p \in Passes, Moves(p) PROVE UNCHANGED journal \/ InsertJob(p) \/ MarkFailed(p)
    BY <1>1
       DEF Moves, PassStep, Crash, LoseConnection, Begin, PassOver, Attend, ResumeJob, WaitForJob,
       Choose, CountPending, CountLatest, Simulate, SignNew, Send, EndIdle, storeVars
<1>2. QED
    BY <1>1, StepKinds

LEMMA MovesKeepMempool ==
    ASSUME NEW p \in Passes, Moves(p)
    PROVE  UNCHANGED mempool \/ Send(p)
BY DEF Moves, PassStep, Crash, LoseConnection, Begin, PassOver, Attend, ResumeJob, MarkFailed,
   WaitForJob, Choose, CountPending, CountLatest, Simulate, SignNew, InsertJob, EndIdle

LEMMA JournalTypes ==
    ASSUME TypeOK, [Next]_vars
    PROVE  journal' \in [Offers -> [nonce : Nonces, failed : BOOLEAN]]
<1> DEFINE Jobs == [nonce : Nonces, failed : BOOLEAN]
<1>1. journal \in [Offers -> Jobs]
    BY DEF TypeOK
<1>2. ASSUME NEW p \in Passes, InsertJob(p) PROVE journal' \in [Offers -> Jobs]
  <2> DEFINE job == [nonce |-> tx[p].nonce, failed |-> FALSE]
  <2>1. tx[p] \in TxType
      BY DEF TypeOK
  <2>2. job \in Jobs
      BY <2>1, NonceFacts
  <2> HIDE DEF job, Jobs
  <2>3. journal' = [journal EXCEPT ![tx[p].offer] = job]
      BY <1>2 DEF InsertJob, Journalled, job
  <2>4. QED
      BY <1>1, <2>2, <2>3
<1>3. ASSUME NEW p \in Passes, MarkFailed(p) PROVE journal' \in [Offers -> Jobs]
    BY <1>1, <1>3 DEF MarkFailed
<1>4. QED
    BY <1>1, <1>2, <1>3, JournalCases

LEMMA MempoolTypes ==
    ASSUME TypeOK, [Next]_vars
    PROVE  mempool' \subseteq TxType
<1>1. mempool \subseteq TxType
    BY DEF TypeOK
<1>2. ASSUME NEW p \in Passes, Moves(p) PROVE mempool' \subseteq TxType
  <2>1. tx[p] \in TxType
      BY DEF TypeOK
  <2>2. QED
      BY <1>1, <1>2, <2>1, MovesKeepMempool DEF Send
<1>3. CASE Reorg
  <2> DEFINE last == mined[Len(mined)]
  <2>1. Len(mined) \in 1 .. Len(mined)
      BY <1>3 DEF Reorg, TypeOK
  <2>2. last.offer \in Offers /\ last.nonce \in Nonces
      BY <2>1, BlockTypes
  <2>3. Tx(last.offer, last.nonce) \in TxType
      BY <2>2, NonceFacts
  <2>4. mempool' = mempool \/ mempool' = mempool \cup {Tx(last.offer, last.nonce)}
      BY <1>3 DEF Reorg
  <2>5. QED
      BY <1>1, <2>3, <2>4
<1>4. mempool' \subseteq mempool \/ Reorg \/ \E p \in Passes : Moves(p)
    BY DEF Next, vars, Tick, Confirm, WipeDeliveries, DropFromMempool, RecordDelivery,
       Mine, SettleElsewhere, Moves
<1>5. QED
    BY <1>1, <1>2, <1>3, <1>4

LEMMA TypesStep == IInv /\ [Next]_vars => TypeOK' /\ ViewsHold'
<1> SUFFICES ASSUME IInv, [Next]_vars PROVE TypeOK' /\ ViewsHold'
    OBVIOUS
<1> USE DEF IInv
<1>1. now' \in 0 .. NumOffers /\ delivery' \subseteq Offers
  <2>1. ASSUME NEW p \in Passes, Moves(p) PROVE now' = now /\ delivery' = delivery
    <3>1. now' = now
        BY <2>1, MovesKeepChain DEF chainVars
    <3>2. delivery' = delivery
        BY <2>1
           DEF Moves, PassStep, Crash, LoseConnection, Begin, PassOver, Attend, ResumeJob,
           MarkFailed, WaitForJob, Choose, CountPending, CountLatest, Simulate, SignNew,
           InsertJob, Send, EndIdle, storeVars
    <3>3. QED
        BY <3>1, <3>2
  <2>2. now \in 0 .. NumOffers /\ delivery \subseteq Offers
      BY DEF TypeOK
  <2>3. /\ now' = now \/ (now < NumOffers /\ now' = now + 1)
        /\ delivery' \in {delivery, {}} \/ \E o \in Offers : delivery' = delivery \cup {o}
      BY <2>1 DEF Next, vars, chainVars, storeVars, Tick, Confirm, WipeDeliveries, DropFromMempool,
         RecordDelivery, Mine, SettleElsewhere, Reorg, Moves
  <2>4. now' \in 0 .. NumOffers
      BY <2>2, <2>3, NonceFacts
  <2>5. QED
      BY <2>2, <2>3, <2>4
<1>2. mined' \in Seq(Block)
  <2>1. mined \in Seq(Block)
      BY DEF TypeOK, Block
  <2>2. QED
      BY <2>1, ChainCases, AppendedBlocks, TakenBackBlocks
<1>3. final' \in 0 .. Len(mined')
    BY ConfirmedStay
<1>4. PassTypes'
  <2>1. PassTypes
      BY DEF TypeOK, ViewsHold, PassTypes
  <2>2. CASE UNCHANGED <<journal, passVars>>
      BY <2>1, <2>2 DEF PassTypes, passVars
  <2>3. QED
      BY <2>2, StepKinds, MoveTypes
<1>5. ASSUME NEW p \in Passes
      PROVE  view'[p].final <= view'[p].length /\ view'[p].final <= final' /\ view'[p].delivery \subseteq Offers
  <2>1. /\ view[p].final <= final /\ view[p].final <= view[p].length
        /\ view[p].final \in Nat /\ view[p].delivery \subseteq Offers
        /\ delivery \subseteq Offers /\ final <= Len(mined) /\ view \in [Passes -> Views]
      BY DEF ViewsHold, TypeOK, Views
  <2>2. final \in Nat /\ final' \in Nat /\ final <= final'
      BY ConfirmedStay
  <2>3. CASE Still(p)
      BY <2>1, <2>2, <2>3 DEF Still
  <2>4. CASE Moves(p)
    <3>1. \/ view'[p] \in {view[p], NoView}
          \/ view'[p] = [length |-> Len(mined), final |-> final, now |-> now, delivery |-> delivery]
        BY <2>1, <2>4, MoveCases
           DEF LoseConnection, Begin, PassOver, Attend, ResumeJob, Choose, CountPending,
           CountLatest, Simulate, SignNew, InsertJob, EndPass
    <3>2. QED
        BY <2>1, <2>2, <3>1 DEF NoView
  <2>5. QED
      BY <2>1, <2>3, <2>4, MovesOrStill
<1>6. mempool' \subseteq TxType /\ journal' \in [Offers -> [nonce : Nonces, failed : BOOLEAN]]
    BY MempoolTypes, JournalTypes
<1>7. undone' \subseteq Nonces
  <2>1. undone \subseteq Nonces
      BY DEF TypeOK
  <2>2. CASE Reorg
    <3>1. Len(mined) \in 1 .. Len(mined)
        BY <2>2 DEF Reorg, TypeOK
    <3>2. mined[Len(mined)].nonce \in Nonces
        BY <3>1, BlockTypes
    <3>3. QED
        BY <2>1, <2>2, <3>2 DEF Reorg
  <2>3. undone' = undone \/ Reorg \/ \E p \in Passes : Moves(p)
      BY DEF Next, vars, Tick, Confirm, WipeDeliveries, DropFromMempool, RecordDelivery,
         Mine, SettleElsewhere, Moves
  <2>4. QED
      BY <2>1, <2>2, <2>3, MovesKeepChain
<1>8. QED
    BY <1>1, <1>2, <1>3, <1>4, <1>5, <1>6, <1>7 DEF TypeOK, ViewsHold, PassTypes, Block

-----------------------------------------------------------------------------
(* The journal *)

\* An insert gives one offer its nonce; its other fields and the other offers stay.
LEMMA Inserted ==
    ASSUME IInv, NEW p \in Passes, InsertJob(p)
    PROVE  /\ tx[p].offer \in Offers /\ tx[p].nonce >= 0 /\ ~HasJob(tx[p].offer)
           /\ journal'[tx[p].offer].nonce = tx[p].nonce /\ ~journal'[tx[p].offer].failed
           /\ \A o \in Offers : o # tx[p].offer => journal'[o] = journal[o]
           /\ \A o \in Offers : HasJob(o) => Above(tx[p].nonce, o)
<1>1. /\ tx[p].offer \in Offers /\ tx[p].nonce >= 0
      /\ \A o \in Offers : HasJob(o) => Above(tx[p].nonce, o)
    BY DEF IInv, InsertersHold, InsertJob, LeaseSession, Allocating
<1>2. journal' = [journal EXCEPT ![tx[p].offer] = [nonce |-> tx[p].nonce, failed |-> FALSE]]
      /\ ~HasJob(tx[p].offer)
    BY DEF InsertJob, Journalled
<1>3. DOMAIN journal = Offers
    BY DEF IInv, TypeOK
<1>4. journal'[tx[p].offer] = [nonce |-> tx[p].nonce, failed |-> FALSE]
    BY <1>1, <1>2, <1>3
<1>5. journal'[tx[p].offer].nonce = tx[p].nonce /\ ~journal'[tx[p].offer].failed
    BY <1>4
<1>6. \A o \in Offers : o # tx[p].offer => journal'[o] = journal[o]
    BY <1>2, <1>3
<1>7. QED
    BY <1>1, <1>2, <1>5, <1>6

\* A mark leaves every nonce.
LEMMA Marked ==
    ASSUME IInv, NEW p \in Passes, MarkFailed(p)
    PROVE  /\ \A q \in Offers : journal'[q].nonce = journal[q].nonce
           /\ \A q \in Offers : journal'[q].failed => q = tx[p].offer \/ journal[q].failed
           /\ tx[p].offer \in Offers /\ HasJob(tx[p].offer)
<1>1. DOMAIN journal = Offers /\ \A q \in Offers : DOMAIN journal[q] = {"nonce", "failed"}
    BY DEF IInv, TypeOK
<1>2. tx[p].offer \in Offers /\ HasJob(tx[p].offer)
    BY DEF IInv, SendersHold, MarkFailed, HasJob
<1>3. journal' = [journal EXCEPT ![tx[p].offer].failed = TRUE]
    BY DEF MarkFailed
<1>4. journal'[tx[p].offer].nonce = journal[tx[p].offer].nonce
    BY <1>1, <1>2, <1>3
<1>5. \A q \in Offers : q # tx[p].offer => journal'[q] = journal[q]
    BY <1>1, <1>3
<1>6. QED
    BY <1>2, <1>4, <1>5

\* A nonce, once journalled, is never replaced.
LEMMA NoncesKept ==
    ASSUME IInv, [Next]_vars, NEW o \in Offers, HasJob(o)
    PROVE  journal'[o].nonce = journal[o].nonce
<1>1. ASSUME NEW p \in Passes, InsertJob(p) PROVE journal'[o].nonce = journal[o].nonce
    BY <1>1, Inserted
<1>2. ASSUME NEW p \in Passes, MarkFailed(p) PROVE journal'[o].nonce = journal[o].nonce
    BY <1>2, Marked
<1>3. QED
    BY <1>1, <1>2, JournalCases

\* Under the lease of a pass nobody else gives an offer a nonce.
LEMMA LeasedJournal ==
    ASSUME IInv, [Next]_vars, NEW p \in Passes, lease = p, ~InsertJob(p), NEW o \in Offers
    PROVE  journal'[o].nonce = journal[o].nonce
<1>1. ASSUME NEW q \in Passes, InsertJob(q) PROVE FALSE
    BY <1>1 DEF InsertJob, LeaseSession
<1>2. ASSUME NEW q \in Passes, MarkFailed(q) PROVE journal'[o].nonce = journal[o].nonce
    BY <1>2, Marked
<1>3. QED
    BY <1>1, <1>2, JournalCases

LEMMA JobsStep == IInv /\ [Next]_vars => NoncesSharedOnlyOnceSettled'
<1> SUFFICES ASSUME IInv, [Next]_vars, NEW o \in Offers, NEW q \in Offers,
                    HasJob(o)', o # q, journal'[o].nonce = journal'[q].nonce
             PROVE  journal'[o].nonce \in undone' /\ (PaidByOthers(o)' \/ PaidByOthers(q)')
    BY DEF NoncesSharedOnlyOnceSettled
<1>1. /\ undone \subseteq undone'
      /\ PaidByOthers(o) => PaidByOthers(o)'
      /\ PaidByOthers(q) => PaidByOthers(q)'
    BY UndoneGrows, SettledStays DEF IInv
<1>2. journal'[o].nonce >= 0 /\ journal'[q].nonce >= 0
    BY DEF HasJob
<1>3. CASE journal'[o].nonce = journal[o].nonce /\ journal'[q].nonce = journal[q].nonce
  <2>1. HasJob(o) /\ journal[o].nonce = journal[q].nonce
      BY <1>2, <1>3 DEF HasJob
  <2>2. journal[o].nonce \in undone /\ (PaidByOthers(o) \/ PaidByOthers(q))
      BY <2>1 DEF IInv, NoncesSharedOnlyOnceSettled
  <2>3. journal'[o].nonce \in undone'
      BY <1>1, <1>3, <2>2
  <2>4. PaidByOthers(o)' \/ PaidByOthers(q)'
      BY <1>1, <2>2
  <2>5. QED
      BY <2>3, <2>4
<1>4. ASSUME NEW p \in Passes, InsertJob(p)
      PROVE  journal'[o].nonce \in undone' /\ (PaidByOthers(o)' \/ PaidByOthers(q)')
  <2>1. ASSUME NEW k \in Offers, k # tx[p].offer, journal[k].nonce >= 0, journal[k].nonce = tx[p].nonce
        PROVE  journal[k].nonce \in undone /\ PaidByOthers(k)
    <3>1. journal[k].nonce \in Int
        BY NonceFacts DEF IInv, TypeOK
    <3>2. QED
        BY <1>4, <2>1, <3>1, Inserted DEF HasJob, Above
  <2>2. CASE o = tx[p].offer
    <3>1. journal'[o].nonce = tx[p].nonce /\ journal'[q] = journal[q]
        BY <1>4, <2>2, Inserted
    <3>2. journal[q].nonce >= 0 /\ journal[q].nonce = tx[p].nonce /\ q # tx[p].offer
        BY <1>2, <2>2, <3>1
    <3>3. journal[q].nonce \in undone /\ PaidByOthers(q)
        BY <2>1, <3>2
    <3>4. journal'[o].nonce \in undone'
        BY <1>1, <3>1, <3>2, <3>3
    <3>5. PaidByOthers(q)'
        BY <1>1, <3>3
    <3>6. QED
        BY <3>4, <3>5
  <2>3. CASE q = tx[p].offer
    <3>1. journal'[q].nonce = tx[p].nonce /\ journal'[o] = journal[o]
        BY <1>4, <2>3, Inserted
    <3>2. journal[o].nonce >= 0 /\ journal[o].nonce = tx[p].nonce /\ o # tx[p].offer
        BY <1>2, <2>3, <3>1
    <3>3. journal[o].nonce \in undone /\ PaidByOthers(o)
        BY <2>1, <3>2
    <3>4. journal'[o].nonce \in undone'
        BY <1>1, <3>1, <3>2, <3>3
    <3>5. PaidByOthers(o)'
        BY <1>1, <3>3
    <3>6. QED
        BY <3>4, <3>5
  <2>4. CASE o # tx[p].offer /\ q # tx[p].offer
      BY <1>3, <1>4, <2>4, Inserted
  <2>5. QED
      BY <2>2, <2>3, <2>4
<1>5. ASSUME NEW p \in Passes, MarkFailed(p)
      PROVE  journal'[o].nonce = journal[o].nonce /\ journal'[q].nonce = journal[q].nonce
    BY <1>5, Marked
<1>6. QED
    BY <1>3, <1>4, <1>5, JournalCases

LEMMA MinedStep == IInv /\ [Next]_vars => MinedJournalled'
<1> SUFFICES ASSUME IInv, [Next]_vars PROVE MinedJournalled'
    OBVIOUS
<1>1. TypeOK /\ MempoolJournalled /\ MinedJournalled
    BY DEF IInv
<1>2. \A i \in 1 .. Len(mined) : mined[i].offer \in Offers
    BY <1>1, BlockTypes
<1>3. CASE UNCHANGED mined
  <2>1. SUFFICES ASSUME NEW i \in 1 .. Len(mined), mined[i].nonce >= 0
                 PROVE  journal'[mined[i].offer].nonce = mined[i].nonce
      BY <1>3 DEF MinedJournalled
  <2>2. mined[i].offer \in Offers /\ journal[mined[i].offer].nonce = mined[i].nonce
      BY <1>1, <1>2, <2>1 DEF MinedJournalled
  <2>3. QED
      BY <2>1, <2>2, NoncesKept DEF HasJob
<1>4. CASE TakenBack
  <2>1. \A i \in 1 .. Len(mined') : i \in 1 .. Len(mined) /\ mined'[i] = mined[i]
      BY <1>1, <1>4, TakenBackBlocks
  <2>2. QED
      BY <1>1, <1>4, <2>1 DEF MinedJournalled, TakenBack
<1>5. ASSUME NEW b \in Block, Appended(b) PROVE MinedJournalled'
  <2>1. \A i \in 1 .. Len(mined') :
            \/ i \in 1 .. Len(mined) /\ mined'[i] = mined[i]
            \/ mined'[i] = b
      BY <1>1, <1>5, AppendedBlocks
  <2>2. b.nonce >= 0 => journal[b.offer].nonce = b.nonce
      BY <1>1, <1>5 DEF Appended, MempoolJournalled, Tx
  <2>3. UNCHANGED journal
      BY <1>5 DEF Appended
  <2>4. QED
      BY <1>1, <2>1, <2>2, <2>3 DEF MinedJournalled
<1>6. QED
    BY <1>1, <1>3, <1>4, <1>5, ChainCases

LEMMA MempoolStep == IInv /\ [Next]_vars => MempoolJournalled'
<1> SUFFICES ASSUME IInv, [Next]_vars PROVE MempoolJournalled'
    OBVIOUS
<1>1. SUFFICES ASSUME NEW t \in mempool'
               PROVE  t.offer \in Offers /\ t.nonce >= 0 /\ journal'[t.offer].nonce = t.nonce
    BY DEF MempoolJournalled
<1>2. ASSUME t \in mempool
      PROVE  t.offer \in Offers /\ t.nonce >= 0 /\ journal[t.offer].nonce = t.nonce
    BY <1>2 DEF IInv, MempoolJournalled
<1>3. ASSUME NEW p \in Passes, Send(p), t = tx[p]
      PROVE  t.offer \in Offers /\ t.nonce >= 0 /\ journal[t.offer].nonce = t.nonce
    BY <1>3 DEF Send, IInv, SendersHold
<1>4. ASSUME Reorg, mined[Len(mined)].nonce >= 0,
             t = Tx(mined[Len(mined)].offer, mined[Len(mined)].nonce)
      PROVE  t.offer \in Offers /\ t.nonce >= 0 /\ journal[t.offer].nonce = t.nonce
  <2>1. Len(mined) \in 1 .. Len(mined)
      BY <1>4 DEF Reorg, IInv, TypeOK
  <2>2. mined[Len(mined)].offer \in Offers
      BY <2>1, BlockTypes DEF IInv
  <2>3. QED
      BY <1>4, <2>1, <2>2 DEF Tx, IInv, MinedJournalled
<1>5. \/ t \in mempool
      \/ Reorg /\ mined[Len(mined)].nonce >= 0 /\ t = Tx(mined[Len(mined)].offer, mined[Len(mined)].nonce)
      \/ \E p \in Passes : Send(p) /\ t = tx[p]
  <2>1. ASSUME NEW p \in Passes, Moves(p) PROVE t \in mempool \/ (Send(p) /\ t = tx[p])
      BY <1>1, <2>1, MovesKeepMempool DEF Send
  <2>2. QED
      BY <1>1, <2>1 DEF Next, vars, Tick, Confirm, WipeDeliveries, DropFromMempool,
         RecordDelivery, Mine, SettleElsewhere, Reorg, Moves
<1>6. t.offer \in Offers /\ t.nonce >= 0 /\ journal[t.offer].nonce = t.nonce
    BY <1>2, <1>3, <1>4, <1>5
<1>7. QED
    BY <1>6, NoncesKept DEF HasJob

\* What a pass finds settled at its confirmed block is settled for good.
LEMMA ConfirmedIsFinal ==
    ASSUME IInv, NEW p \in Passes, NEW o
    PROVE  /\ view[p].final \in Nat /\ view[p].final <= final
           /\ Lesser(view[p].final, Len(mined)) = view[p].final
           /\ SettledIn(o, view[p].final) => ConfirmedSettled(p, o)
           /\ ConfirmedSettled(p, o) => SettledIn(o, final)
<1>1. /\ view[p].final \in Nat /\ view[p].final <= final /\ final \in Nat /\ final <= Len(mined)
      /\ Len(mined) \in Nat
    BY DEF IInv, TypeOK, ViewsHold, Views
<1>2. Lesser(view[p].final, Len(mined)) = view[p].final
    BY <1>1 DEF Lesser
<1>3. 1 .. view[p].final \subseteq 1 .. final
    BY <1>1
<1>4. QED
    BY <1>1, <1>2, <1>3 DEF ConfirmedSettled, SettledIn

LEMMA SendersStep == IInv /\ [Next]_vars => SendersHold'
<1> SUFFICES ASSUME IInv, [Next]_vars, NEW p \in Passes, pc'[p] \in {"count", "send"}
             PROVE  /\ tx'[p].offer \in Offers /\ tx'[p].nonce >= 0
                    /\ journal'[tx'[p].offer].nonce = tx'[p].nonce
                    /\ pc'[p] = "count" => (~SettledIn(tx[p].offer, view[p].final))'
    BY DEF SendersHold
<1>1. DOMAIN pc = Passes /\ DOMAIN tx = Passes /\ view \in [Passes -> Views]
    BY DEF IInv, TypeOK, ViewsHold
<1>2. CASE Still(p)
  <2>1. /\ tx[p].offer \in Offers /\ tx[p].nonce >= 0 /\ journal[tx[p].offer].nonce = tx[p].nonce
        /\ pc[p] = "count" => ~SettledIn(tx[p].offer, view[p].final)
      BY <1>2 DEF IInv, SendersHold, Still
  <2>2. journal'[tx[p].offer].nonce = tx[p].nonce
      BY <2>1, NoncesKept DEF HasJob
  <2>3. \A i \in 1 .. view[p].final : mined'[i] = mined[i]
    <3>1. \A i \in 1 .. final : mined'[i] = mined[i]
        BY ConfirmedStay DEF IInv
    <3>2. view[p].final \in Nat /\ view[p].final <= final
        BY ConfirmedIsFinal
    <3>3. final \in Nat
        BY ConfirmedStay DEF IInv
    <3>4. QED
        BY <3>1, <3>2, <3>3
  <2>4. pc[p] = "count" => ~SettledIn(tx[p].offer, view[p].final)'
      BY <1>2, <2>1, <2>3 DEF SettledIn, Still
  <2>5. QED
      BY <1>2, <2>1, <2>2, <2>4 DEF Still, SettledIn
<1>3. CASE InsertJob(p)
  <2>1. tx' = tx /\ pc'[p] = "send"
      BY <1>1, <1>3 DEF InsertJob, Journalled
  <2>2. QED
      BY <1>3, <2>1, Inserted
<1>4. ASSUME NEW o \in Offers, Attend(p, o)
      PROVE  /\ tx'[p].offer \in Offers /\ tx'[p].nonce >= 0
             /\ journal'[tx'[p].offer].nonce = tx'[p].nonce
             /\ ~SettledIn(tx[p].offer, view[p].final)'
  <2>1. /\ tx'[p] = Tx(o, journal[o].nonce) /\ UNCHANGED <<journal, mined, view>>
        /\ HasJob(o) /\ ~ConfirmedSettled(p, o)
      BY <1>1, <1>4 DEF Attend, Attended, Looking, storeVars, chainVars, IInv, LookersHold
  <2>2. tx'[p].offer = o /\ tx'[p].nonce = journal[o].nonce
      BY <2>1 DEF Tx
  <2>3. ~SettledIn(o, view[p].final)
      BY <2>1, ConfirmedIsFinal
  <2>4. QED
      BY <2>1, <2>2, <2>3 DEF HasJob, SettledIn
<1>5. CASE ResumeJob(p)
  <2>1. tx' = tx /\ journal' = journal /\ pc[p] = "count" /\ pc'[p] = "send"
      BY <1>1, <1>5 DEF ResumeJob, storeVars
  <2>2. QED
      BY <2>1 DEF IInv, SendersHold
<1>6. CASE LoseConnection(p)
    BY <1>6 DEF LoseConnection, IInv, SendersHold, storeVars, chainVars, SettledIn
<1>7. ASSUME Moves(p)
      PROVE  \/ InsertJob(p) \/ ResumeJob(p) \/ LoseConnection(p)
             \/ \E o \in Offers : Attend(p, o)
  <2>1. EndPass(p) => pc'[p] = "idle"
      BY <1>1 DEF EndPass
  <2>2. Begin(p) => pc'[p] = "begun"
      BY <1>1 DEF Begin
  <2>3. CountPending(p) \/ CountLatest(p) => pc'[p] \in {"pending", "latest"}
      BY <1>1 DEF CountPending, CountLatest
  <2>4. Simulate(p) \/ SignNew(p) => pc'[p] \in {"simulate", "insert"}
      BY <1>1 DEF Simulate, SignNew
  <2>5. \A o \in Offers : PassOver(p, o) => pc'[p] = "begun"
      BY <1>1 DEF PassOver, Looking
  <2>6. \A o \in Offers : Choose(p, o) => pc'[p] = "chosen"
      BY <1>1 DEF Choose
  <2>7. QED
      BY <1>7, <2>1, <2>2, <2>3, <2>4, <2>5, <2>6, MoveCases
<1>8. QED
    BY <1>1, <1>2, <1>3, <1>4, <1>5, <1>6, <1>7, MovesOrStill DEF IInv

\* Neither kind of seen job comes back into question.
LEMMA SeenStays ==
    ASSUME IInv, [Next]_vars, NEW o \in Offers, journal'[o].nonce = journal[o].nonce
    PROVE  /\ PassedOver(o) => PassedOver(o)'
           /\ \A n : Above(n, o) => Above(n, o)'
<1>1. journal[o].nonce \in Int
    BY NonceFacts DEF IInv, TypeOK
<1>2. SettledIn(o, final) => SettledIn(o, final)'
    BY SettledStays DEF IInv
<1>3. PaidByOthers(o) => PaidByOthers(o)'
    BY SettledStays DEF IInv
<1>4. undone \subseteq undone'
    BY UndoneGrows
<1>5. journal[o].nonce < LatestNonce => journal[o].nonce < LatestNonce' \/ journal[o].nonce \in undone'
    BY <1>1, LatestMoves DEF IInv
<1>6. PassedOver(o) => PassedOver(o)'
    BY <1>2, <1>4, <1>5 DEF PassedOver
<1>7. ASSUME NEW n, Above(n, o) PROVE Above(n, o)'
    BY <1>2, <1>3, <1>4, <1>7 DEF Above
<1>8. QED
    BY <1>6, <1>7

LEMMA LookersStep == IInv /\ [Next]_vars => LookersHold'
<1> DEFINE Right(p) ==
        /\ pc[p] \in {"begun", "chosen", "pending"} /\ lease = p =>
              \A o \in Offers : HasJob(o) /\ o \notin todo[p] => PassedOver(o)
        /\ pc[p] \in {"chosen", "pending"} => todo[p] = {} /\ tx[p].offer \in Offers
        /\ pc[p] = "pending" => tx[p].nonce >= 0
        /\ \A o \in todo[p] : HasJob(o)
<1> SUFFICES ASSUME IInv, [Next]_vars, NEW p \in Passes PROVE Right(p)'
    BY DEF LookersHold
<1>1. /\ DOMAIN pc = Passes /\ DOMAIN tx = Passes /\ DOMAIN todo = Passes
      /\ todo[p] \subseteq Offers /\ NoPass \notin Passes
      /\ view \in [Passes -> Views] /\ tx[p] \in TxType
    BY SettlementAssumption DEF IInv, TypeOK, ViewsHold
<1>2. Right(p)
    BY DEF IInv, LookersHold
<1>3. \A o \in Offers : HasJob(o) => HasJob(o)'
    BY NoncesKept DEF HasJob
<1>4. CASE Still(p)
  <2>1. ASSUME pc[p] \in {"begun", "chosen", "pending"}, lease = p, NEW o \in Offers,
               HasJob(o)', o \notin todo[p]
        PROVE  PassedOver(o)'
    <3>1. ~InsertJob(p)
        BY <2>1 DEF InsertJob
    <3>2. journal'[o].nonce = journal[o].nonce
        BY <2>1, <3>1, LeasedJournal
    <3>3. QED
        BY <1>2, <2>1, <3>2, SeenStays DEF HasJob
  <2>2. QED
      BY <1>1, <1>2, <1>3, <1>4, <2>1 DEF Still
<1>5. ASSUME UNCHANGED <<mined, final, journal, undone>>
      PROVE  \A o : HasJob(o)' = HasJob(o) /\ PassedOver(o)' = PassedOver(o)
    BY <1>5 DEF HasJob, PassedOver, SettledIn, LatestNonce
<1>6. CASE EndPass(p)
    BY <1>1, <1>6 DEF EndPass
<1>7. CASE Begin(p)
    BY <1>1, <1>5, <1>7 DEF Begin, chainVars, storeVars
<1>8. ASSUME NEW o \in Offers, PassOver(p, o) PROVE Right(p)'
  <2>1. /\ UNCHANGED <<mined, final, journal, undone, lease, pc, tx>> /\ todo'[p] = todo[p] \ {o}
        /\ pc[p] = "begun" /\ Finished(p, o)
      BY <1>1, <1>8 DEF PassOver, Looking, chainVars, storeVars
  <2>2. PassedOver(o)
    <3>1. journal[o].nonce \in Int /\ LatestNonce \in Nat
        BY NonceFacts, LatestType DEF IInv, TypeOK
    <3>2. QED
        BY <2>1, <3>1, ConfirmedIsFinal DEF Finished, PassedOver
  <2>3. QED
      BY <1>2, <1>5, <2>1, <2>2
<1>9. ASSUME NEW o \in Offers, Attend(p, o) PROVE Right(p)'
  <2>1. UNCHANGED <<mined, final, journal, undone, todo>> /\ pc'[p] = "count"
      BY <1>1, <1>9 DEF Attend, chainVars, storeVars
  <2>2. QED
      BY <1>2, <1>5, <2>1
<1>10. ASSUME NEW o \in Offers, Choose(p, o) PROVE Right(p)'
  <2>1. /\ UNCHANGED <<mined, final, journal, undone, todo, lease>> /\ pc'[p] = "chosen"
        /\ todo[p] = {} /\ pc[p] = "begun" /\ tx'[p].offer = o
      BY <1>1, <1>10 DEF Choose, FirstPayable, chainVars, storeVars, Tx
  <2>2. QED
      BY <1>2, <1>5, <2>1
<1>11. CASE CountPending(p)
  <2>1. /\ UNCHANGED <<mined, final, journal, undone, todo, lease>>
        /\ pc'[p] = "pending" /\ pc[p] = "chosen"
      BY <1>1, <1>11 DEF CountPending, chainVars, storeVars
  <2>2. PICK n \in 0 .. NumOffers : tx' = [tx EXCEPT ![p].nonce = n]
      BY <1>11 DEF CountPending
  <2>3. tx'[p].offer = tx[p].offer /\ tx'[p].nonce >= 0
      BY <1>1, <2>2, NonceFacts DEF TxType
  <2>4. QED
      BY <1>2, <1>5, <2>1, <2>3
<1>12. CASE CountLatest(p) \/ Simulate(p) \/ SignNew(p) \/ ResumeJob(p)
  <2>1. UNCHANGED <<mined, final, journal, undone, todo>> /\ pc'[p] \notin {"begun", "chosen", "pending"}
      BY <1>1, <1>12 DEF CountLatest, Simulate, SignNew, ResumeJob, chainVars, storeVars
  <2>2. QED
      BY <1>2, <1>5, <2>1
<1>13. CASE InsertJob(p)
  <2>1. todo' = todo /\ pc'[p] = "send"
      BY <1>1, <1>13 DEF InsertJob, Journalled
  <2>2. QED
      BY <1>1, <1>2, <1>3, <2>1
<1>14. CASE LoseConnection(p)
  <2>1. UNCHANGED <<mined, final, journal, undone, todo, tx, pc>> /\ lease' # p
      BY <1>1, <1>14 DEF LoseConnection, chainVars, storeVars
  <2>2. QED
      BY <1>2, <1>5, <2>1
<1>15. QED
    BY <1>1, <1>4, <1>6, <1>7, <1>8, <1>9, <1>10, <1>11, <1>12, <1>13, <1>14, MovesOrStill, MoveCases DEF IInv

\* A pass that has passed over every job and counts the nonces on the chain has a nonce
\* above all of them.
LEMMA CountedAbove ==
    ASSUME IInv, NEW p \in Passes, pc[p] \in {"chosen", "pending"}, lease = p, NEW o \in Offers, HasJob(o)
    PROVE  Above(LatestNonce, o)
<1>1. PassedOver(o)
    BY DEF IInv, LookersHold
<1>2. PaidByOthers(o) \/ journal[o].nonce < LatestNonce
    BY <1>1, SettledNonces DEF IInv, PassedOver
<1>3. QED
    BY <1>1, <1>2 DEF PassedOver, Above

LEMMA InsertersStep == IInv /\ [Next]_vars => InsertersHold'
<1> DEFINE Right(p) ==
        pc[p] \in Allocating =>
            /\ tx[p].offer \in Offers /\ tx[p].nonce >= 0
            /\ lease = p => \A o \in Offers : HasJob(o) => Above(tx[p].nonce, o)
<1> SUFFICES ASSUME IInv, [Next]_vars, NEW p \in Passes PROVE Right(p)'
    BY DEF InsertersHold
<1>1. /\ DOMAIN pc = Passes /\ DOMAIN tx = Passes /\ NoPass \notin Passes
      /\ view \in [Passes -> Views] /\ tx[p] \in TxType
    BY SettlementAssumption DEF IInv, TypeOK, ViewsHold
<1>2. Right(p)
    BY DEF IInv, InsertersHold
<1>3. CASE Still(p)
  <2>1. ASSUME pc[p] \in Allocating, lease = p, NEW o \in Offers, HasJob(o)'
        PROVE  Above(tx[p].nonce, o)'
    <3>1. InsertJob(p) => pc[p] = "insert" /\ pc'[p] = "send"
        BY <1>1 DEF InsertJob, Journalled
    <3>2. ~InsertJob(p)
        BY <1>3, <3>1 DEF Still
    <3>3. journal'[o].nonce = journal[o].nonce
        BY <2>1, <3>2, LeasedJournal
    <3>4. Above(tx[p].nonce, o)
        BY <1>2, <2>1, <3>3 DEF HasJob
    <3>5. tx'[p] = tx[p]
        BY <1>3 DEF Still
    <3>6. QED
        BY <3>3, <3>4, <3>5, SeenStays DEF Above
  <2>2. QED
      BY <1>2, <1>3, <2>1 DEF Still, Above, SettledIn, PaidByOthers
<1>4. ASSUME UNCHANGED <<mined, final, journal, undone>>
      PROVE  /\ \A o : HasJob(o)' = HasJob(o)
             /\ \A o : SettledIn(o, final)' = SettledIn(o, final) /\ PaidByOthers(o)' = PaidByOthers(o)
    BY <1>4 DEF HasJob, SettledIn, PaidByOthers
<1>5. CASE CountLatest(p)
  <2>1. /\ UNCHANGED <<mined, final, journal, undone, lease>> /\ pc[p] = "chosen"
        /\ tx' = [tx EXCEPT ![p].nonce = LatestNonce]
      BY <1>5 DEF CountLatest, chainVars, storeVars
  <2>2. tx'[p].offer = tx[p].offer /\ tx'[p].nonce = LatestNonce
      BY <1>1, <2>1 DEF TxType
  <2>3. tx[p].offer \in Offers /\ LatestNonce >= 0
      BY <2>1, LatestType DEF IInv, LookersHold
  <2>4. ASSUME lease = p, NEW o \in Offers, HasJob(o) PROVE Above(LatestNonce, o)
      BY <2>1, <2>4, CountedAbove
  <2>5. QED
      BY <1>4, <2>1, <2>2, <2>3, <2>4 DEF Above
<1>6. CASE Simulate(p)
  <2>1. /\ UNCHANGED <<mined, final, journal, undone, lease, tx>>
        /\ pc[p] = "latest" \/ (pc[p] = "pending" /\ LatestNonce = tx[p].nonce)
      BY <1>6 DEF Simulate, SameCount, chainVars, storeVars
  <2>2. tx[p].offer \in Offers /\ tx[p].nonce >= 0
      BY <1>2, <2>1 DEF IInv, LookersHold, Allocating
  <2>3. ASSUME lease = p, NEW o \in Offers, HasJob(o) PROVE Above(tx[p].nonce, o)
      BY <1>2, <2>1, <2>3, CountedAbove DEF Allocating
  <2>4. QED
      BY <1>4, <2>1, <2>2, <2>3 DEF Above
<1>7. CASE SignNew(p)
  <2>1. UNCHANGED <<mined, final, journal, undone, lease, tx>> /\ pc[p] = "simulate"
      BY <1>7 DEF SignNew, chainVars, storeVars
  <2>2. QED
      BY <1>2, <1>4, <2>1 DEF Above, Allocating
<1>8. CASE LoseConnection(p)
  <2>1. UNCHANGED <<mined, final, journal, undone, tx, pc>> /\ lease' # p
      BY <1>1, <1>8 DEF LoseConnection, chainVars, storeVars
  <2>2. QED
      BY <1>2, <2>1
<1>9. ASSUME Moves(p), pc'[p] \in Allocating
      PROVE  CountLatest(p) \/ Simulate(p) \/ SignNew(p) \/ LoseConnection(p)
  <2>1. EndPass(p) \/ Begin(p) => pc'[p] \in {"idle", "begun"}
      BY <1>1 DEF EndPass, Begin
  <2>2. ResumeJob(p) \/ InsertJob(p) => pc'[p] = "send"
      BY <1>1 DEF ResumeJob, InsertJob, Journalled
  <2>3. CountPending(p) => pc'[p] = "pending"
      BY <1>1 DEF CountPending
  <2>4. \A o \in Offers : PassOver(p, o) \/ Attend(p, o) \/ Choose(p, o) => pc'[p] \in {"begun", "count", "chosen"}
      BY <1>1 DEF PassOver, Looking, Attend, Choose
  <2>5. QED
      BY <1>9, <2>1, <2>2, <2>3, <2>4, MoveCases DEF Allocating
<1>10. QED
    BY <1>1, <1>3, <1>5, <1>6, <1>7, <1>8, <1>9, MovesOrStill DEF IInv

LEMMA FailedStep == IInv /\ [Next]_vars => FailedAreJobs' /\ FailedJobsReverted'
<1> SUFFICES ASSUME IInv, [Next]_vars, NEW o \in Offers, journal'[o].failed
             PROVE  /\ HasJob(o)'
                    /\ \E i \in 1 .. final' :
                          /\ mined'[i] = [offer |-> o, nonce |-> journal'[o].nonce, ok |-> FALSE]
                          /\ ~SettledIn(o, i)'
    BY DEF FailedAreJobs, FailedJobsReverted
<1>1. /\ final \in Nat /\ final' \in Nat /\ final <= final'
      /\ \A i \in 1 .. final : mined'[i] = mined[i]
    BY ConfirmedStay DEF IInv
<1>2. ASSUME HasJob(o),
             \E i \in 1 .. final :
                /\ mined[i] = [offer |-> o, nonce |-> journal[o].nonce, ok |-> FALSE]
                /\ ~SettledIn(o, i)
      PROVE  /\ HasJob(o)'
             /\ \E i \in 1 .. final' :
                   /\ mined'[i] = [offer |-> o, nonce |-> journal'[o].nonce, ok |-> FALSE]
                   /\ ~SettledIn(o, i)'
  <2>1. PICK i \in 1 .. final :
                /\ mined[i] = [offer |-> o, nonce |-> journal[o].nonce, ok |-> FALSE]
                /\ ~SettledIn(o, i)
      BY <1>2
  <2>2. journal'[o].nonce = journal[o].nonce
      BY <1>2, NoncesKept
  <2>3. i \in 1 .. final' /\ mined'[i] = mined[i] /\ \A k \in 1 .. i : mined'[k] = mined[k]
      BY <1>1
  <2>4. ~SettledIn(o, i)'
      BY <2>1, <2>3 DEF SettledIn
  <2>5. QED
      BY <1>2, <2>1, <2>2, <2>3, <2>4 DEF HasJob
<1>3. CASE journal[o].failed
    BY <1>2, <1>3 DEF IInv, FailedAreJobs, FailedJobsReverted
<1>4. ASSUME NEW p \in Passes, MarkFailed(p), o = tx[p].offer
      PROVE  /\ HasJob(o)
             /\ \E i \in 1 .. final :
                   /\ mined[i] = [offer |-> o, nonce |-> journal[o].nonce, ok |-> FALSE]
                   /\ ~SettledIn(o, i)
  <2>1. HasJob(o) /\ journal[o].nonce = tx[p].nonce /\ ~SettledIn(o, view[p].final)
      BY <1>4 DEF MarkFailed, IInv, SendersHold, HasJob
  <2>2. /\ view[p].final \in Nat /\ view[p].final <= final
        /\ Lesser(view[p].final, Len(mined)) = view[p].final
      BY ConfirmedIsFinal
  <2>3. PICK i \in 1 .. view[p].final :
            mined[i] = [offer |-> o, nonce |-> journal[o].nonce, ok |-> FALSE]
      BY <1>4, <2>1, <2>2 DEF MarkFailed, Reverted
  <2>4. i \in 1 .. final /\ 1 .. i \subseteq 1 .. view[p].final
      BY <1>1, <2>2
  <2>5. ~SettledIn(o, i)
      BY <2>1, <2>4 DEF SettledIn
  <2>6. QED
      BY <2>1, <2>3, <2>4, <2>5
<1>5. journal[o].failed \/ \E p \in Passes : MarkFailed(p) /\ o = tx[p].offer
  <2>1. ASSUME NEW p \in Passes, InsertJob(p) PROVE journal[o].failed
      BY <2>1, Inserted
  <2>2. ASSUME NEW p \in Passes, MarkFailed(p) PROVE o = tx[p].offer \/ journal[o].failed
      BY <2>2, Marked
  <2>3. QED
      BY <2>1, <2>2, JournalCases
<1>6. QED
    BY <1>2, <1>3, <1>4, <1>5

-----------------------------------------------------------------------------
(* Results *)

LEMMA Initially == Init => IInv
<1> SUFFICES ASSUME Init PROVE IInv
    OBVIOUS
<1>1. TypeOK
  <2>1. \A p \in Passes : view[p] = NoView
      BY DEF Init
  <2>2. mined \in Seq([offer : Offers, nonce : Nonces, ok : BOOLEAN]) /\ final \in 0 .. Len(mined)
      BY DEF Init
  <2>3. /\ now \in 0 .. NumOffers
        /\ journal \in [Offers -> [nonce : Nonces, failed : BOOLEAN]]
        /\ tx \in [Passes -> TxType] /\ pc \in [Passes -> Steps]
      BY NonceFacts DEF Init, NoJob, Steps
  <2>4. QED
      BY <2>1, <2>2, <2>3 DEF Init, TypeOK, NoView
<1>2. ViewsHold
  <2>1. NoView \in Views /\ NoView.final = 0
      BY DEF NoView, Views
  <2>2. view = [p \in Passes |-> NoView] /\ final = 0
      BY DEF Init
  <2>3. QED
      BY <2>1, <2>2 DEF ViewsHold
<1>3. Len(mined) = 0 /\ mempool = {} /\ \A p \in Passes : pc[p] = "idle" /\ todo[p] = {}
    BY DEF Init
<1>4. \A o \in Offers : ~HasJob(o) /\ ~journal[o].failed
    BY DEF Init, HasJob, NoJob
<1>5. QED
    BY <1>1, <1>2, <1>3, <1>4
       DEF IInv, NoncesInOrder, MempoolJournalled, MinedJournalled,
       NoncesSharedOnlyOnceSettled, SendersHold, LookersHold, InsertersHold, Allocating, FailedAreJobs, FailedJobsReverted

LEMMA Invariant == Spec => []IInv
<1>1. IInv /\ [Next]_vars => IInv'
  <2> SUFFICES ASSUME IInv, [Next]_vars PROVE IInv'
      OBVIOUS
  <2>1. NoncesInOrder'
      BY NoncesStep DEF IInv
  <2>2. QED
      BY <2>1, TypesStep, MempoolStep, MinedStep, JobsStep, SendersStep, LookersStep,
         InsertersStep, FailedStep
      DEF IInv
<1>2. QED
    BY <1>1, Initially, PTL DEF Spec

\* The chain, the store, the lease and the passes keep their types, and there are never
\* more nonces than offers, for any number of offers, passes and mishaps.
THEOREM TypeCorrect == Spec => []TypeOK
<1>1. IInv => TypeOK
    BY DEF IInv
<1>2. QED
    BY <1>1, Invariant, PTL

\* Whatever processes run at once, lose their session, crash or see a reorganisation, two
\* journalled transactions share a nonce only when a reorganisation took that nonce back
\* and another account has paid the claim of one of them for good.
THEOREM NoncesShared == Spec => []NoncesSharedOnlyOnceSettled
<1>1. IInv => NoncesSharedOnlyOnceSettled
    BY DEF IInv
<1>2. QED
    BY <1>1, Invariant, PTL

\* What a node holds is in the journal, and a job is put up for review only for a
\* revert that is confirmed and that no earlier payment explains.
THEOREM JournalTrue == Spec => []JournalTruthful
<1>1. IInv => JournalTruthful
  <2> SUFFICES ASSUME IInv PROVE JournalTruthful
      OBVIOUS
  <2>1. ASSUME NEW t \in mempool PROVE journal[t.offer].nonce = t.nonce
      BY DEF IInv, MempoolJournalled
  <2>2. ASSUME NEW i \in 1 .. Len(mined), mined[i].nonce >= 0
        PROVE  journal[mined[i].offer].nonce = mined[i].nonce
      BY <2>2 DEF IInv, MinedJournalled
  <2>3. BroadcastOnlyJournalled
      BY <2>1, <2>2 DEF BroadcastOnlyJournalled, Sent, Tx
  <2>4. QED
      BY <2>3 DEF JournalTruthful, IInv
<1>2. QED
    BY <1>1, Invariant, PTL

\* A new nonce is journalled only when every earlier job's claim is settled in a
\* confirmed block.
THEOREM JobsOneByOne == Spec => OneJobAtATime
<1> DEFINE Alone ==
        \A o, q \in Offers : journal'[o].nonce # journal[o].nonce /\ HasJob(q) /\ q # o =>
            SettledIn(q, final)
<1>1. IInv /\ [Next]_vars => [Alone]_vars
  <2> SUFFICES ASSUME IInv, [Next]_vars, NEW o \in Offers, NEW q \in Offers,
                      journal'[o].nonce # journal[o].nonce, HasJob(q)
               PROVE  SettledIn(q, final)
      OBVIOUS
  <2>1. ASSUME NEW p \in Passes, InsertJob(p) PROVE SettledIn(q, final)
      BY <2>1, Inserted DEF Above
  <2>2. ASSUME NEW p \in Passes, MarkFailed(p) PROVE FALSE
      BY <2>2, Marked
  <2>3. QED
      BY <2>1, <2>2, JournalCases
<1>2. QED
    BY <1>1, Invariant, PTL DEF Spec, OneJobAtATime

=============================================================================
