--------------------------- MODULE StockReceipts ---------------------------
(***************************************************************************)
(* How the server finds the delivery and repayment receipts of stock       *)
(* offers: scanStockReceipts and applyStockScan over the durable store,    *)
(* run by request handlers, which take their chain snapshot before they    *)
(* read the store, and by the receipt and settlement workers, which read   *)
(* the store first.  The awaits between these steps, and those within a    *)
(* scan, which compares the cursor's hash, reads the boundary block and    *)
(* only then the logs, let the chain, the store and other scans move.      *)
(*                                                                         *)
(* A block is the identity its hash gives it and the events it holds; a    *)
(* block mined again after a reorganisation has a new identity.            *)
(***************************************************************************)
EXTENDS Integers, Sequences, FiniteSets

CONSTANTS
    Offers,
    Kinds,              \* of receipts: deliveries, and repayments if they are looked at
    Handlers,           \* concurrent requests: chain snapshot, then store
    Workers,            \* worker passes: store, then chain snapshot
    Confirmations,      \* config.confirmations
    Span,               \* blocks per scan: 100 on X Layer, 500 elsewhere
    MaxBlocks,          \* bound: blocks ever mined
    MaxReorgs,          \* bound: reorganisations
    ReorgDepth          \* bound: blocks one reorganisation takes away

ASSUME ReceiptsAssumption ==
    /\ Kinds \subseteq {"delivery", "repayment"} /\ Handlers \cap Workers = {}
    /\ Confirmations \in Nat \ {0} /\ Span \in Nat \ {0}
    /\ MaxBlocks \in Nat /\ MaxReorgs \in Nat /\ ReorgDepth \in Nat

Receipts == Offers \X Kinds
Scanners == Handlers \cup Workers
NoScan == [kind |-> "none"]
NoProof == [height |-> 0, id |-> 0]
Start == [height |-> 0, id |-> 0]     \* no cursor yet: the deployment block is block 1

VARIABLES
    chain,              \* the canonical blocks: [id, events]
    mined,              \* blocks ever mined, which numbers them
    reorgs,
    stored,             \* offers in the store: prepared there before their funder signs
    evidence,           \* receipt -> proof kept in the store
    cursor,             \* store.receiptCursor
    pc,                 \* scanner -> where it is
    head,               \* scanner -> block number of its chain snapshot
    seen,               \* scanner -> the offers and the cursor it read
    scan,               \* scanner -> what it is about to apply
    overlooked,         \* history: offers prepared between a worker's two reads
    submitted,          \* history: receipts a participant named by hand
    deep,               \* history: a reorganisation took away what was taken for confirmed
    blind               \* history: the cursor was moved by a scan whose own cursor a reorganisation
                        \* took away after its hash was compared

chainVars == <<chain, mined, reorgs>>
storeVars == <<stored, evidence, cursor>>
history == <<overlooked, submitted, deep, blind>>
vars == <<chainVars, storeVars, pc, head, seen, scan, history>>

Lesser(x, y) == IF x <= y THEN x ELSE y
OnChain(receipt) == \E h \in 1 .. Len(chain) : receipt \in chain[h].events
\* The block the reference names is the canonical block at its height.
Canonical(ref) == ref.height = 0 \/ (ref.height <= Len(chain) /\ chain[ref.height].id = ref.id)
Block(h) == [height |-> h, id |-> chain[h].id]
ConfirmedHeight(p) == head[p] - (Confirmations - 1)

Init ==
    /\ chain = << >> /\ mined = 0 /\ reorgs = 0
    /\ stored = {} /\ evidence = [r \in Receipts |-> NoProof] /\ cursor = Start
    /\ pc = [p \in Scanners |-> "idle"]
    /\ head = [p \in Scanners |-> 0]
    /\ seen = [p \in Scanners |-> [offers |-> {}, cursor |-> Start]]
    /\ scan = [p \in Scanners |-> NoScan]
    /\ overlooked = {} /\ submitted = {} /\ deep = FALSE /\ blind = FALSE

-----------------------------------------------------------------------------
(* The chain and the funders. *)

\* An offer is accepted only after it was prepared in the store, and repaid
\* only after it was delivered.
Minable ==
    {r \in Receipts : /\ r[1] \in stored /\ ~OnChain(r)
                      /\ r[2] = "repayment" => OnChain(<<r[1], "delivery">>)}

Mine ==
    /\ mined < MaxBlocks
    /\ \E events \in {{}} \cup {{r} : r \in Minable} :
          chain' = Append(chain, [id |-> mined + 1, events |-> events])
    /\ mined' = mined + 1
    /\ UNCHANGED <<reorgs, storeVars, pc, head, seen, scan, history>>

\* A block the cursor has passed, or one that a pass takes for confirmed.
Trusted(h) == h <= cursor.height \/ \E p \in Scanners : h <= ConfirmedHeight(p)

Reorg ==
    /\ reorgs < MaxReorgs
    /\ \E lost \in 1 .. Lesser(ReorgDepth, Len(chain)) :
          /\ chain' = SubSeq(chain, 1, Len(chain) - lost)
          /\ deep' = (deep \/ Trusted(Len(chain) - lost + 1))
    /\ reorgs' = reorgs + 1
    /\ UNCHANGED <<mined, storeVars, pc, head, seen, scan, overlooked, submitted, blind>>

PrepareOffer(o) ==
    /\ o \notin stored
    /\ stored' = stored \cup {o}
    /\ overlooked' = IF \E w \in Workers : pc[w] = "read" THEN overlooked \cup {o} ELSE overlooked
    /\ UNCHANGED <<chainVars, evidence, cursor, pc, head, seen, scan, submitted, deep, blind>>

-----------------------------------------------------------------------------
(* One scan. *)

SnapshotChain(p) == head' = [head EXCEPT ![p] = Len(chain)]
ReadStore(p) == seen' = [seen EXCEPT ![p] = [offers |-> stored, cursor |-> cursor]]

HandlerSnapshot(p) ==
    /\ p \in Handlers /\ pc[p] = "idle"
    /\ SnapshotChain(p)
    /\ pc' = [pc EXCEPT ![p] = "snapshot"]
    /\ UNCHANGED <<chainVars, storeVars, seen, scan, history>>

HandlerRead(p) ==
    /\ pc[p] = "snapshot"
    /\ ReadStore(p)
    /\ pc' = [pc EXCEPT ![p] = "ready"]
    /\ UNCHANGED <<chainVars, storeVars, head, scan, history>>

WorkerRead(p) ==
    /\ p \in Workers /\ pc[p] = "idle"
    /\ ReadStore(p)
    /\ pc' = [pc EXCEPT ![p] = "read"]
    /\ UNCHANGED <<chainVars, storeVars, head, scan, history>>

WorkerSnapshot(p) ==
    /\ pc[p] = "read"
    /\ SnapshotChain(p)
    /\ pc' = [pc EXCEPT ![p] = "ready"]
    /\ UNCHANGED <<chainVars, storeVars, seen, scan, history>>

\* fault: the hash of the cursor's block is not compared
HeightReset(p) == seen[p].cursor.height > ConfirmedHeight(p)
MustReset(p) ==
    LET previous == seen[p].cursor
    IN  previous.height > ConfirmedHeight(p) \/ ~Canonical(previous)

ScanFrom(p, reset) == IF reset THEN 1 ELSE seen[p].cursor.height + 1

\* The hash of the cursor's block decides whether the scan starts again.  A node without
\* that block makes it fail: see Abandon.
CompareCursor(p) ==
    /\ pc[p] = "ready"
    /\ seen[p].cursor.height <= ConfirmedHeight(p) => seen[p].cursor.height <= Len(chain)
    /\ ScanFrom(p, MustReset(p)) <= ConfirmedHeight(p)
    /\ scan' = [scan EXCEPT ![p] =
         [kind |-> "scan", reset |-> MustReset(p), matched |-> Canonical(seen[p].cursor)]]
    /\ pc' = [pc EXCEPT ![p] = "compared"]
    /\ UNCHANGED <<chainVars, storeVars, head, seen, history>>

ScanTo(p) == Lesser(ScanFrom(p, scan[p].reset) + Span - 1, ConfirmedHeight(p))
ConfirmedCursor(p) == Block(Lesser(ConfirmedHeight(p), Len(chain)))   \* fault: the span is forgotten
NextCursor(p) == Block(ScanTo(p))

\* The boundary block, of the chain as it is now.  "slipped" is the model's note that the
\* cursor's block, canonical when it was compared, is no longer.
ReadBoundary(p) ==
    /\ pc[p] = "compared" /\ ScanTo(p) <= Len(chain)
    /\ scan' = [scan EXCEPT ![p] =
         [kind |-> "scan", reset |-> scan[p].reset, cursor |-> NextCursor(p),
          slipped |-> scan[p].matched /\ ~Canonical(seen[p].cursor)]]
    /\ pc' = [pc EXCEPT ![p] = "boundary"]
    /\ UNCHANGED <<chainVars, storeVars, head, seen, history>>

\* The receipts among rs in the given canonical blocks, each with its proof.
ProofsIn(rs, heights) ==
    LET found == {r \in rs : \E h \in heights : r \in chain[h].events}
    IN  [r \in found |-> Block(CHOOSE h \in heights : r \in chain[h].events)]

\* The logs and the receipts.  The boundary block is read again after them, so they are
\* all of its chain; if it is gone the scan fails.
scanStockReceipts(p) ==
    /\ pc[p] = "boundary" /\ Canonical(scan[p].cursor)
    /\ scan' = [scan EXCEPT ![p] =
         [kind |-> "scan", reset |-> scan[p].reset, cursor |-> scan[p].cursor, slipped |-> scan[p].slipped,
          updates |-> ProofsIn(seen[p].offers \X Kinds, ScanFrom(p, scan[p].reset) .. ScanTo(p))]]
    /\ pc' = [pc EXCEPT ![p] = "apply"]
    /\ UNCHANGED <<chainVars, storeVars, head, seen, history>>

\* A participant names the transaction itself: the receipt action.
CheckReceipt(p, r) ==
    /\ p \in Handlers /\ pc[p] = "ready"
    /\ r[1] \in seen[p].offers
    /\ \E h \in 1 .. Lesser(ConfirmedHeight(p), Len(chain)) : r \in chain[h].events
    /\ scan' = [scan EXCEPT ![p] = [kind |-> "receipt", updates |-> ProofsIn({r}, 1 .. Len(chain))]]
    /\ pc' = [pc EXCEPT ![p] = "apply"]
    /\ UNCHANGED <<chainVars, storeVars, head, seen, history>>

Finish(p) ==
    /\ pc' = [pc EXCEPT ![p] = "idle"]
    /\ scan' = [scan EXCEPT ![p] = NoScan]
    /\ seen' = [seen EXCEPT ![p] = [offers |-> {}, cursor |-> Start]]
    /\ head' = [head EXCEPT ![p] = 0]
    /\ UNCHANGED chainVars

Credit(kept, updates) ==
    [r \in Receipts |-> IF r \in DOMAIN updates /\ r[1] \in stored THEN updates[r] ELSE kept[r]]

AnyCursor(p) == TRUE                            \* fault: no cursor comparison
CursorUnchanged(p) == cursor = seen[p].cursor

\* Under the row lock: a scan that started from another cursor changes nothing.
applyStockScan(p) ==
    /\ pc[p] = "apply" /\ scan[p].kind = "scan"
    /\ IF CursorUnchanged(p)
       THEN /\ evidence' = Credit(IF scan[p].reset THEN [r \in Receipts |-> NoProof] ELSE evidence,
                                  scan[p].updates)
            /\ cursor' = scan[p].cursor
            /\ blind' = (~scan[p].reset /\ (blind \/ scan[p].slipped))
            /\ UNCHANGED stored
       ELSE UNCHANGED <<storeVars, blind>>
    /\ UNCHANGED <<overlooked, submitted, deep>>
    /\ Finish(p)

StoreReceipt(p) ==
    /\ pc[p] = "apply" /\ scan[p].kind = "receipt"
    /\ evidence' = Credit(evidence, scan[p].updates)
    /\ submitted' = submitted \cup DOMAIN scan[p].updates
    /\ UNCHANGED <<stored, cursor, overlooked, deep, blind>>
    /\ Finish(p)

\* A scan returns nothing when there is no confirmed block left to look at; a pass also
\* ends at any RPC or database failure, and at a crash.  The next one starts afresh.
Abandon(p) ==
    /\ pc[p] # "idle"
    /\ UNCHANGED <<storeVars, history>>
    /\ Finish(p)

Next ==
    \/ Mine \/ Reorg
    \/ \E o \in Offers : PrepareOffer(o)
    \/ \E p \in Scanners :
          \/ HandlerSnapshot(p) \/ HandlerRead(p) \/ WorkerRead(p) \/ WorkerSnapshot(p)
          \/ CompareCursor(p) \/ ReadBoundary(p) \/ scanStockReceipts(p) \/ applyStockScan(p)
          \/ \E r \in Receipts : CheckReceipt(p, r)
          \/ StoreReceipt(p) \/ Abandon(p)

Spec == Init /\ [][Next]_vars

-----------------------------------------------------------------------------
(* Properties. *)

\* Only confirmed blocks are ever named.
RefType == [height : {0} \cup 1 .. MaxBlocks - (Confirmations - 1), id : 0 .. MaxBlocks]

Steps == {"idle", "snapshot", "read", "ready", "compared", "boundary", "apply"}

\* Every variable keeps to the values the store, the chain and the passes can have.
TypeOK ==
    /\ chain \in Seq([id : 1 .. MaxBlocks, events : SUBSET Receipts])
    /\ mined \in 0 .. MaxBlocks /\ reorgs \in 0 .. MaxReorgs
    /\ stored \subseteq Offers /\ evidence \in [Receipts -> RefType] /\ cursor \in RefType
    /\ pc \in [Scanners -> Steps] /\ blind \in BOOLEAN
    /\ head \in [Scanners -> 0 .. MaxBlocks]
    /\ seen \in [Scanners -> [offers : SUBSET Offers, cursor : RefType]]

\* Receipts are discovered without a transaction hash: every receipt in a block the
\* cursor has passed is in the store, as long as no block is taken away that the cursor
\* or a pass had taken for confirmed.  The one way past a scan is that of an offer
\* prepared, accepted and confirmed between the two reads of a worker's pass.
CursorCoversReceipts ==
    ~deep =>
        \A r \in Receipts :
            (\E h \in 1 .. cursor.height : r \in chain[h].events) =>
                evidence[r] # NoProof \/ r[1] \in overlooked

\* A stale scan does not rewind progress: the cursor goes back only when a reorganisation
\* has happened.
StaleScansDoNotRewind == [][cursor'.height < cursor.height => reorgs > 0]_vars

\* The workers, who read the store first, never rewind it so, whatever the handlers
\* have done to the cursor while they waited for the chain.
WorkersDoNotRewind ==
    [][cursor'.height < cursor.height /\ reorgs = 0 =>
          \A w \in Workers : UNCHANGED <<pc[w], scan[w]>>]_vars

\* "A changed canonical checkpoint triggers a rescan and removal of prior receipt evidence":
\* no proof found by a scan is off the chain while the cursor is on it.  (A receipt named by
\* hand may lie above the cursor, where no scan looks.)  The code does not keep this: the
\* boundary block that becomes the cursor is read after the old cursor was compared.
EvidenceOnCursorsChain ==
    Canonical(cursor) => \A r \in Receipts \ submitted : Canonical(evidence[r])

\* After a reorganisation of any depth the scans drop what it took away: a proof they
\* found that is no longer canonical is kept only until the cursor is moved to the new
\* chain.  The one way to keep it longer is a reorganisation that takes the cursor's block
\* away just between the comparison of its hash and the read of the next boundary, and
\* the next scan that starts again drops it.
ReorganisedProofsDropped == ~blind => EvidenceOnCursorsChain
=============================================================================
