-------------------------- MODULE UpfrontSettlement --------------------------
(***************************************************************************)
(* How one early-pay request is assigned, and how its repayment gets onto  *)
(* the Arc chain and into the store: the select_partner and decline        *)
(* handlers, the embedded settlement worker (two processes of a rolling    *)
(* deployment, behind an advisory lock), and a funder who may settle by    *)
(* hand.  The router's own guard is UpfrontAdvance; here it is a chain of  *)
(* blocks, of which at most one settles the agreement.                     *)
(***************************************************************************)
EXTENDS Integers, Sequences, FiniteSets

CONSTANTS
    Workers, Funder,    \* who sends settleRepayment
    NoSender,
    PageSize,           \* 100 blocks of one recovery page
    ReorgDepth,         \* bound: blocks one reorganisation of Arc takes back
    MaxReorgs, MaxFailures, MaxQuiet    \* bounds; MaxQuiet: blocks mined for nothing

Senders == Workers \cup {Funder}
ASSUME SettlementAssumption ==
    /\ Funder \notin Workers /\ NoSender \notin Senders
    /\ PageSize \in Nat \ {0} /\ ReorgDepth \in Nat
    /\ MaxReorgs \in Nat /\ MaxFailures \in Nat /\ MaxQuiet \in Nat

NoBlock == -1
NoEvidence == [block |-> NoBlock, fork |-> 0, by |-> NoSender]
DeploymentBlock == 1

VARIABLES
    funding,    \* fundingRequest of the store: status, settlementCheckpoint, settlementEvidence
    handler,    \* the write a request holding the row lock is about to make
    offered,    \* funding terms were signed and accepted at some time
    xLayer,     \* the position of the advance there
    completed,  \* the Arc agreement
    chain,      \* Arc: who settled in each block, and the fork it is of
    fork,
    pool,       \* settlements sent and not mined
    lease,      \* who holds the advisory lock
    pass,       \* each worker's pass
    failures,
    peak, taken \* history: the longest the chain ever was, and the most that reorganisations
                \* took back from there

storeVars == <<funding, handler, offered>>
xLayerVars == <<xLayer, completed>>
arcChain == <<chain, fork, pool, peak, taken>>
workerVars == <<lease, pass>>
settlementVars == <<storeVars, xLayerVars, arcChain, workerVars, failures>>

NoPass == [pc |-> "idle", status |-> "none", checkpoint |-> NoBlock, start |-> NoBlock, found |-> NoEvidence]
NewRequest(status) == [status |-> status, checkpoint |-> NoBlock, evidence |-> NoEvidence]

\* A request that nobody was assigned to, or one an earlier version of the worker marked
\* settled without its evidence.
SettlementInit ==
    /\ handler = "idle" /\ offered = FALSE /\ fork = 0 /\ pool = {} /\ taken = 0
    /\ lease = NoSender /\ pass = [w \in Workers |-> NoPass] /\ failures = 0
    /\ \/ /\ funding = NewRequest("none") /\ xLayer = "None" /\ completed = FALSE
          /\ chain = <<[fork |-> 0, by |-> NoSender]>>
       \/ /\ funding = NewRequest("settled") /\ xLayer = "Released" /\ completed = TRUE
          /\ chain = <<[fork |-> 0, by |-> NoSender], [fork |-> 0, by |-> Funder], [fork |-> 0, by |-> NoSender]>>
    /\ peak = Len(chain)

-----------------------------------------------------------------------------
(* The opportunities handler: it reads the chain inside the store's transaction. *)

Unlocked == handler = "idle"

SelectPartnerReads ==
    /\ Unlocked /\ funding.status \in {"none", "declined"} /\ xLayer = "None"
    /\ handler' = "assign" /\ offered' = TRUE
    /\ UNCHANGED <<funding, xLayerVars, arcChain, workerVars, failures>>

DeclineReads ==
    /\ Unlocked /\ funding.status = "pending" /\ xLayer = "None"
    /\ handler' = "decline"
    /\ UNCHANGED <<funding, offered, xLayerVars, arcChain, workerVars, failures>>

SelectPartnerWrites ==
    /\ handler = "assign"
    /\ funding' = NewRequest("pending") /\ handler' = "idle"
    /\ UNCHANGED <<offered, xLayerVars, arcChain, workerVars, failures>>

DeclineWrites ==
    /\ handler = "decline"
    /\ funding' = [funding EXCEPT !.status = "declined"] /\ handler' = "idle"
    /\ UNCHANGED <<offered, xLayerVars, arcChain, workerVars, failures>>

-----------------------------------------------------------------------------
(* X Layer and Arc. *)

AdvancePosition ==
    /\ \/ xLayer = "None" /\ offered /\ xLayer' = "Funded"
       \/ xLayer = "Funded" /\ ~completed /\ xLayer' = "Released"
    /\ UNCHANGED <<storeVars, completed, arcChain, workerVars, failures>>

CompleteAgreement ==
    /\ xLayer = "Released" /\ ~completed
    /\ completed' = TRUE
    /\ UNCHANGED <<storeVars, xLayer, arcChain, workerVars, failures>>

SettledAt(h) == chain[h].by # NoSender
Settled == \E h \in DOMAIN chain : SettledAt(h)

FunderSettles ==
    /\ completed /\ ~Settled /\ Funder \notin pool
    /\ pool' = pool \cup {Funder}
    /\ UNCHANGED <<storeVars, xLayerVars, chain, fork, peak, taken, workerVars, failures>>

Greater(x, y) == IF x >= y THEN x ELSE y

Mine(by) ==
    /\ chain' = Append(chain, [fork |-> fork, by |-> by])
    /\ peak' = Greater(peak, Len(chain) + 1)

MineQuiet ==
    /\ Len(chain) < MaxQuiet
    /\ Mine(NoSender)
    /\ UNCHANGED <<storeVars, xLayerVars, fork, pool, taken, workerVars, failures>>

\* The block after the one that settles.
MineConfirmation ==
    /\ SettledAt(Len(chain))
    /\ Mine(NoSender)
    /\ UNCHANGED <<storeVars, xLayerVars, fork, pool, taken, workerVars, failures>>

\* A second settlement reverts, in a block that is there anyway.
MineSettlement(s) ==
    /\ s \in pool
    /\ pool' = pool \ {s}
    /\ IF Settled THEN UNCHANGED <<chain, peak>> ELSE Mine(s)
    /\ UNCHANGED <<storeVars, xLayerVars, fork, taken, workerVars, failures>>

\* Transactions of the removed blocks return to the pool, or are lost.
Reorg(depth) ==
    LET kept == Len(chain) - depth IN
    /\ fork < MaxReorgs /\ kept >= 1
    /\ chain' = SubSeq(chain, 1, kept) /\ fork' = fork + 1
    /\ taken' = Greater(taken, peak - kept) /\ peak' = peak
    /\ \E back \in SUBSET {chain[h].by : h \in {k \in DOMAIN chain : k > kept /\ SettledAt(k)}} :
          pool' = pool \cup back
    /\ UNCHANGED <<storeVars, xLayerVars, workerVars, failures>>

-----------------------------------------------------------------------------
(* The settlement worker. *)

Goto(w, pc) == pass' = [pass EXCEPT ![w].pc = pc] /\ lease' = lease
Holding(w, found) ==
    pass' = [pass EXCEPT ![w] = [NoPass EXCEPT !.pc = "mark", !.found = found]] /\ lease' = lease
Searching(w, pc, checkpoint) ==
    pass' = [pass EXCEPT ![w] = [NoPass EXCEPT !.pc = pc, !.checkpoint = checkpoint]] /\ lease' = lease
EndPass(w) ==
    /\ pass' = [pass EXCEPT ![w] = NoPass]
    /\ lease' = IF lease = w THEN NoSender ELSE lease

NeedsSettlement == funding.status = "pending" \/ (funding.status = "settled" /\ funding.evidence = NoEvidence)

Begin(w) ==
    /\ pass[w].pc = "idle" /\ lease = NoSender /\ NeedsSettlement
    /\ lease' = w
    /\ pass' = [pass EXCEPT ![w] = [NoPass EXCEPT !.pc = "position", !.status = funding.status,
                                                !.checkpoint = funding.checkpoint]]
    /\ UNCHANGED <<storeVars, arcChain>>

SubmissionStart(w) == IF pass[w].checkpoint = NoBlock THEN Len(chain) ELSE NoBlock

ReadPosition(w) ==
    /\ pass[w].pc = "position"
    /\ IF xLayer = "Released"
       THEN pass' = [pass EXCEPT ![w].pc = "check", ![w].start = SubmissionStart(w)] /\ lease' = lease
       ELSE EndPass(w)
    /\ UNCHANGED <<storeVars, arcChain>>

CheckSettled(w) ==
    /\ pass[w].pc = "check"
    /\ \/ Settled /\ Searching(w, "recover", pass[w].checkpoint)
       \/ ~Settled /\ pass[w].status = "settled" /\ EndPass(w)
       \/ ~Settled /\ pass[w].status # "settled" /\ Goto(w, "sign")
    /\ UNCHANGED <<storeVars, arcChain>>

\* fault: the search starts at the block itself
NoMargin(start) == start
FirstBlock(start) == IF start > 2 THEN start - 2 ELSE 0

SaveCheckpoint(next) ==
    /\ Unlocked /\ funding.status # "declined"
    /\ funding' = [funding EXCEPT !.checkpoint = next]
    /\ UNCHANGED <<handler, offered>>
RecordChanged == Unlocked /\ funding.status = "declined" /\ UNCHANGED storeVars

Sign(w) ==
    /\ pass[w].pc = "sign"
    /\ LET next == FirstBlock(pass[w].start) IN
       \/ ~completed /\ EndPass(w) /\ UNCHANGED storeVars
       \/ completed /\ pass[w].checkpoint # NoBlock /\ Searching(w, "submit", pass[w].checkpoint) /\ UNCHANGED storeVars
       \/ /\ completed /\ pass[w].checkpoint = NoBlock
          /\ SaveCheckpoint(next) /\ Searching(w, "submit", next)
       \/ completed /\ pass[w].checkpoint = NoBlock /\ RecordChanged /\ EndPass(w)
    /\ UNCHANGED arcChain

SubmitSettlement(w) ==
    /\ pass[w].pc = "submit"
    /\ \/ Settled /\ Goto(w, "recover") /\ UNCHANGED pool
       \/ ~Settled /\ pool' = pool \cup {w} /\ Goto(w, "wait")
    /\ UNCHANGED <<storeVars, chain, fork, peak, taken>>

\* fault: the block that settles counts as its own confirmation
AnyDepth(h) == TRUE
Confirmed(h) == Len(chain) >= h + 1
EvidenceAt(h) == [block |-> h, fork |-> chain[h].fork, by |-> chain[h].by]

ReadReceipt(w) ==
    /\ pass[w].pc = "wait"
    /\ \E h \in DOMAIN chain : chain[h].by = w /\ Confirmed(h) /\ Holding(w, EvidenceAt(h))
    /\ UNCHANGED <<storeVars, arcChain>>

\* The receipt says reverted, or does not come; what the chain says then decides.
GiveUpWaiting(w) ==
    /\ pass[w].pc = "wait"
    /\ IF Settled THEN Goto(w, "recover") ELSE EndPass(w)
    /\ UNCHANGED <<storeVars, arcChain>>

NoReceipt(w) == w \notin pool /\ \A h \in DOMAIN chain : chain[h].by # w

SeedCheckpoint(w) ==
    /\ pass[w].pc = "recover" /\ pass[w].checkpoint = NoBlock
    /\ \/ SaveCheckpoint(DeploymentBlock) /\ Searching(w, "recover", DeploymentBlock)
       \/ RecordChanged /\ EndPass(w)
    /\ UNCHANGED arcChain

PageEnd(from) == IF from + PageSize - 1 <= Len(chain) THEN from + PageSize - 1 ELSE Len(chain)
\* fault: no overlap, and no progress
AfterPage(from, to) == to + 1
SamePage(from, to) == from
NextBlock(from, to) == IF to >= from + 2 THEN to - 1 ELSE from

Recover(w) ==
    LET from == pass[w].checkpoint
        page == {h \in DOMAIN chain : from <= h /\ h <= PageEnd(from) /\ SettledAt(h)}
    IN
    /\ pass[w].pc = "recover" /\ from # NoBlock
    /\ \/ /\ page = {}
          /\ Searching(w, "save", IF from > Len(chain) THEN from ELSE NextBlock(from, PageEnd(from)))
       \/ \E h \in page : IF Confirmed(h) THEN Holding(w, EvidenceAt(h)) ELSE EndPass(w)
    /\ UNCHANGED <<storeVars, arcChain>>

SaveProgress(w) ==
    /\ pass[w].pc = "save"
    /\ SaveCheckpoint(pass[w].checkpoint) \/ RecordChanged
    /\ EndPass(w)
    /\ UNCHANGED arcChain

Consistent(found) == funding.evidence = NoEvidence \/ funding.evidence.by = found.by

\* Refused without a checkpoint or with other evidence on record, and if declined.
MarkSettled(w) ==
    LET found == pass[w].found
        accepted == funding.status \notin {"none", "declined"} /\ funding.checkpoint # NoBlock /\ Consistent(found)
    IN
    /\ pass[w].pc = "mark" /\ Unlocked
    /\ funding' = IF accepted THEN [funding EXCEPT !.status = "settled", !.evidence = found] ELSE funding
    /\ EndPass(w)
    /\ UNCHANGED <<handler, offered, arcChain>>

WorkerStep(w) ==
    /\ \/ Begin(w) \/ ReadPosition(w) \/ CheckSettled(w) \/ Sign(w) \/ SubmitSettlement(w)
       \/ ReadReceipt(w) \/ (NoReceipt(w) /\ GiveUpWaiting(w))
       \/ SeedCheckpoint(w) \/ Recover(w) \/ SaveProgress(w) \/ MarkSettled(w)
    /\ UNCHANGED <<xLayerVars, failures>>

\* The process ends, its database session is lost, a wait or a request times out, or the
\* node forgets a transaction.
Failure ==
    /\ failures < MaxFailures /\ failures' = failures + 1
    /\ \/ \E w \in Workers : pass[w].pc # "idle" /\ EndPass(w) /\ UNCHANGED arcChain
       \/ lease # NoSender /\ lease' = NoSender /\ UNCHANGED <<pass, arcChain>>
       \/ \E w \in Workers : w \in pool /\ GiveUpWaiting(w)
       \/ \E s \in pool : pool' = pool \ {s} /\ UNCHANGED <<chain, fork, peak, taken, workerVars>>
    /\ UNCHANGED <<storeVars, xLayerVars>>

SettlementNext ==
    \/ SelectPartnerReads \/ SelectPartnerWrites \/ DeclineReads \/ DeclineWrites
    \/ AdvancePosition \/ CompleteAgreement \/ FunderSettles
    \/ MineQuiet \/ MineConfirmation \/ \E depth \in 1 .. ReorgDepth : Reorg(depth)
    \/ \E s \in Senders : MineSettlement(s)
    \/ \E w \in Workers : WorkerStep(w)
    \/ Failure

SettlementSpec == SettlementInit /\ [][SettlementNext]_settlementVars
FairSettlementSpec ==
    /\ SettlementSpec
    /\ \A w \in Workers : WF_settlementVars(WorkerStep(w))
    /\ WF_settlementVars(MineConfirmation) /\ \A s \in Senders : WF_settlementVars(MineSettlement(s))
    /\ WF_settlementVars(SelectPartnerWrites) /\ WF_settlementVars(DeclineWrites)

-----------------------------------------------------------------------------
(* Properties. *)

EvidenceType == [block : Nat, fork : Nat, by : Senders] \cup {NoEvidence}
BlockType == Nat \cup {NoBlock}
PassType == [pc : {"idle", "position", "check", "sign", "submit", "wait", "recover", "save", "mark"},
             status : {"none", "pending", "settled"}, checkpoint : BlockType, start : BlockType,
             found : EvidenceType]

\* What the store, the chains and the passes can hold.  Evidence is there only for a
\* settled request: no decline read before the funding is written over a settlement.
SettlementTypeOK ==
    /\ funding \in [status : {"none", "pending", "declined", "settled"}, checkpoint : BlockType, evidence : EvidenceType]
    /\ funding.evidence # NoEvidence => funding.status = "settled" /\ funding.checkpoint # NoBlock
    /\ handler \in {"idle", "assign", "decline"} /\ offered \in BOOLEAN
    /\ xLayer \in {"None", "Funded", "Released"} /\ completed \in BOOLEAN
    /\ chain \in Seq([fork : Nat, by : Senders \cup {NoSender}]) /\ fork \in Nat /\ pool \subseteq Senders
    /\ lease \in Workers \cup {NoSender} /\ pass \in [Workers -> PassType]
    /\ failures \in Nat /\ peak \in Nat /\ taken \in Nat

\* The search for a settlement never begins behind it: whoever settles, whenever, and
\* however often the chain is reorganised within the overlap of two blocks, the saved
\* checkpoint is at or before the block that settles.  Past it, the evidence would never
\* be found and the request never recorded.
CheckpointCoversSettlement ==
    funding.checkpoint # NoBlock /\ taken <= 2 =>
        \A h \in DOMAIN chain : SettledAt(h) => funding.checkpoint <= h

\* Recorded evidence is of a block of the chain, unless reorganisations took back more
\* than the two confirmations cover.
EvidenceIsCanonical ==
    funding.evidence # NoEvidence /\ taken <= 1 =>
        /\ funding.evidence.block \in DOMAIN chain
        /\ funding.evidence = EvidenceAt(funding.evidence.block)

\* A completed agreement whose advance was released gets settled and recorded, unless the
\* request was declined in the moment it was funded, or more was reorganised than the
\* search's overlap of two blocks covers.
EveryRepaymentRecorded ==
    completed /\ funding.status = "pending" /\ Unlocked
        ~> (funding.status = "settled" /\ funding.evidence # NoEvidence) \/ taken > 2
=============================================================================
