------------------------ MODULE StockReceiptsProofs -------------------------
(***************************************************************************)
(* The scans for receipts, for any number of offers, request handlers and  *)
(* workers, any span and depth of confirmation, and any reorganisations.   *)
(*                                                                         *)
(* Two arguments carry the invariant.  A reference to a block that was     *)
(* mined, once it is off the canonical chain, never comes back, and is     *)
(* lost only with every block above it: so what is at or below a canonical *)
(* cursor is canonical with it (EvidenceBelowCursor, ScanOfOneChain), at   *)
(* any depth of reorganisation, but for a scan whose own cursor slipped    *)
(* off the chain between two of its reads.  As long as no block is taken   *)
(* away that a pass took for confirmed, the blocks up to the cursor are    *)
(* those that the scans saw (TrustedStay, ScansCover), by passes that knew *)
(* of every offer in them but for those overlooked (PassesKnow): the       *)
(* cursor comparison under the row lock then makes the scanned spans meet. *)
(***************************************************************************)
EXTENDS StockReceipts, SequenceTheorems, TLAPS

\* Blocks are numbered as they were mined, hold receipts of offers the store knows, and
\* no receipt twice.
ChainHolds ==
    /\ Len(chain) <= mined
    /\ \A h \in 1 .. Len(chain) : chain[h].id <= mined
    /\ \A h \in 1 .. Len(chain) : \A r \in chain[h].events : r[1] \in stored
    /\ \A g, h \in 1 .. Len(chain) : g # h => chain[g].events \cap chain[h].events = {}

\* A scan has its result; the block that will be the cursor; the height it starts at.
Scanned(p) == pc[p] = "apply" /\ scan[p].kind = "scan"
Bounded(p) == pc[p] = "boundary" \/ Scanned(p)
Aimed(p) == pc[p] = "compared" \/ Bounded(p)

\* What a pass carries from one await to the next.
ScansTyped ==
    /\ DOMAIN scan = Scanners
    /\ \A p \in Scanners : pc[p] = "apply" =>
          /\ scan[p].kind \in {"scan", "receipt"}
          /\ DOMAIN scan[p].updates \subseteq Receipts
          /\ \A r \in DOMAIN scan[p].updates :
                scan[p].updates[r] \in RefType /\ scan[p].updates[r].height > 0
    /\ \A p \in Scanners : Bounded(p) => scan[p].cursor \in RefType /\ scan[p].slipped \in BOOLEAN

\* A scan has a confirmed block to look at, ends where its span does, and starts again
\* unless its cursor's block was canonical.
ScansAim ==
    \A p \in Scanners :
        /\ Aimed(p) => scan[p].reset \in BOOLEAN /\ ScanFrom(p, scan[p].reset) <= ConfirmedHeight(p)
        /\ pc[p] = "compared" /\ ~scan[p].reset => scan[p].matched
        /\ Bounded(p) => scan[p].cursor.height = ScanTo(p)

\* No reference is to a block still to be mined.
RefsKnown ==
    /\ cursor.id <= mined /\ \A r \in Receipts : evidence[r].id <= mined
    /\ \A p \in Scanners :
          /\ seen[p].cursor.id <= mined
          /\ pc[p] = "apply" => \A r \in DOMAIN scan[p].updates : scan[p].updates[r].id <= mined
          /\ Bounded(p) => scan[p].cursor.id <= mined

\* On the cursor's own chain, what scans found is at or below it.
EvidenceBelowCursor ==
    ~blind /\ Canonical(cursor) => \A r \in Receipts \ submitted :
        Canonical(evidence[r]) /\ evidence[r].height <= cursor.height

\* So is what a scan is about to write, and what it builds on.
ScanOfOneChain ==
    \A p \in Scanners : Bounded(p) /\ Canonical(scan[p].cursor) =>
        /\ Scanned(p) => \A r \in DOMAIN scan[p].updates :
              Canonical(scan[p].updates[r]) /\ scan[p].updates[r].height <= scan[p].cursor.height
        /\ ~scan[p].reset /\ ~scan[p].slipped =>
              Canonical(seen[p].cursor) /\ seen[p].cursor.height <= scan[p].cursor.height

\* As long as no trusted block is taken away, they are all there.
TrustedStay ==
    ~deep => cursor.height <= Len(chain) /\ \A p \in Scanners : ConfirmedHeight(p) <= Len(chain)

\* A pass has read the store and the chain.
Passing == {"ready", "compared", "boundary", "apply"}

\* A pass knows the offers of the blocks it takes for confirmed, but for overlooked ones.
PassesKnow ==
    \A p \in Scanners :
        /\ pc[p] = "read" => p \in Workers /\ \A o \in stored : o \in seen[p].offers \cup overlooked
        /\ ~deep /\ pc[p] \in Passing =>
              \A h \in 1 .. ConfirmedHeight(p) : \A r \in chain[h].events :
                  r[1] \in seen[p].offers \cup overlooked

\* A scan found what is in the blocks it is about to pass.
ScansCover ==
    \A p \in Scanners : ~deep /\ Scanned(p) =>
        /\ scan[p].cursor.height <= ConfirmedHeight(p)
        /\ \A h \in (IF scan[p].reset THEN 1 ELSE seen[p].cursor.height + 1) .. scan[p].cursor.height :
              \A r \in chain[h].events : r \in DOMAIN scan[p].updates \/ r[1] \in overlooked

\* A block far enough down the chain, or none.
Buried(ref) == ref.height > 0 => Canonical(ref) /\ ref.height <= Len(chain) - (Confirmations - 1)

\* Without reorganisations the cursor stays buried, and a worker, who read it before the
\* chain, moves it up.
WorkersAdvance ==
    reorgs = 0 =>
        /\ Buried(cursor)
        /\ \A p \in Scanners :
              /\ head[p] <= Len(chain)
              /\ Bounded(p) => Buried(scan[p].cursor)
        /\ \A w \in Workers :
              /\ pc[w] # "idle" => Buried(seen[w].cursor)
              /\ pc[w] \in Passing /\ seen[w].cursor.height > 0 =>
                    seen[w].cursor.height <= ConfirmedHeight(w)
              /\ pc[w] = "compared" /\ seen[w].cursor.height > 0 => ~scan[w].reset
              /\ Bounded(w) => scan[w].cursor.height > seen[w].cursor.height
              /\ pc[w] # "snapshot"

IInv ==
    /\ TypeOK /\ ChainHolds /\ ScansTyped /\ ScansAim /\ RefsKnown
    /\ EvidenceBelowCursor /\ ScanOfOneChain
    /\ TrustedStay /\ PassesKnow /\ CursorCoversReceipts /\ ScansCover
    /\ WorkersAdvance

-----------------------------------------------------------------------------
(* The chain *)

Blocks == [id : 1 .. MaxBlocks, events : SUBSET Receipts]
Refs == [height : Nat, id : Nat]

\* One chain comes after another: blocks are kept from the bottom on, and a new one is
\* the next that was mined.
Follows(old, new, last) ==
    /\ Len(old) \in Nat /\ Len(new) \in Nat /\ last \in Nat
    /\ \A h \in 1 .. Len(new) :
          \/ h <= Len(old) /\ new[h] = old[h]
          \/ h = Len(old) + 1 /\ new[h].id = last + 1

\* Canonical, of any chain.
On(blocks, ref) ==
    ref.height = 0 \/ (ref.height <= Len(blocks) /\ blocks[ref.height].id = ref.id)

LEMMA CanonicalIsOn == \A ref : Canonical(ref) <=> On(chain, ref)
BY DEF Canonical, On

LEMMA CanonicalIsOnNext == \A ref : Canonical(ref)' <=> On(chain', ref)
BY DEF Canonical, On

\* What is not on a chain, but was mined, does not get there.
LEMMA NeverBack ==
    ASSUME NEW old, NEW new, NEW last, Follows(old, new, last), NEW ref \in Refs, ref.id <= last,
           On(new, ref)
    PROVE  On(old, ref)
BY DEF Follows, On, Refs

\* What is on a chain stays, unless its height is taken away.
LEMMA StaysOn ==
    ASSUME NEW old, NEW new, NEW last, Follows(old, new, last), NEW ref \in Refs,
           On(old, ref), ref.height <= Len(new)
    PROVE  On(new, ref)
BY DEF Follows, On, Refs

LEMMA ConstantFacts ==
    /\ Confirmations \in Nat /\ Confirmations >= 1 /\ Span \in Nat /\ Span >= 1
    /\ MaxBlocks \in Nat /\ MaxReorgs \in Nat /\ ReorgDepth \in Nat
    /\ Scanners = Handlers \cup Workers
    /\ \A w \in Workers : w \notin Handlers
BY ReceiptsAssumption DEF Scanners

LEMMA RefFacts ==
    /\ RefType \subseteq Refs /\ Start \in RefType /\ NoProof \in RefType
    /\ \A h, i : h \in 1 .. MaxBlocks - (Confirmations - 1) /\ i \in 0 .. MaxBlocks =>
          [height |-> h, id |-> i] \in RefType
    /\ \A ref \in RefType : ref.height \in Nat /\ ref.height <= MaxBlocks /\ ref.id \in 0 .. MaxBlocks
<1> DEFINE Heights == {0} \cup 1 .. MaxBlocks - (Confirmations - 1)
<1>1. /\ \A h \in Heights : h \in Nat /\ h <= MaxBlocks
      /\ 0 \in 0 .. MaxBlocks /\ 0 \in Heights
      /\ \A i \in 0 .. MaxBlocks : i \in Nat
    BY ConstantFacts
<1>2. RefType = [height : Heights, id : 0 .. MaxBlocks]
    BY DEF RefType
<1> HIDE DEF Heights
<1>3. QED
  <2>1. RefType \subseteq Refs
      BY <1>1, <1>2 DEF Refs
  <2>2. Start \in RefType /\ NoProof \in RefType
      BY <1>1, <1>2 DEF Start, NoProof
  <2>3. \A h, i : h \in 1 .. MaxBlocks - (Confirmations - 1) /\ i \in 0 .. MaxBlocks =>
            [height |-> h, id |-> i] \in RefType
      BY <1>2 DEF Heights
  <2>4. QED
      BY <1>1, <1>2, <2>1, <2>2, <2>3

LEMMA ChainTypes ==
    ASSUME TypeOK
    PROVE  /\ chain \in Seq(Blocks) /\ Len(chain) \in Nat /\ mined \in Nat
           /\ \A h \in 1 .. Len(chain) :
                 chain[h] \in Blocks /\ chain[h].id \in 1 .. MaxBlocks /\ chain[h].events \subseteq Receipts
<1>1. chain \in Seq(Blocks) /\ mined \in Nat
    BY ConstantFacts DEF TypeOK, Blocks
<1>2. Len(chain) \in Nat /\ \A h \in 1 .. Len(chain) : chain[h] \in Blocks
    BY <1>1
<1>3. \A b \in Blocks : b.id \in 1 .. MaxBlocks /\ b.events \subseteq Receipts
    BY DEF Blocks
<1>4. QED
    BY <1>1, <1>2, <1>3

LEMMA MineFacts ==
    ASSUME TypeOK, Mine
    PROVE  /\ chain' \in Seq(Blocks) /\ Len(chain') = Len(chain) + 1
           /\ \A h \in 1 .. Len(chain) : chain'[h] = chain[h]
           /\ chain'[Len(chain) + 1].id = mined + 1
           /\ \A r \in chain'[Len(chain) + 1].events :
                 r[1] \in stored /\ \A h \in 1 .. Len(chain) : r \notin chain[h].events
           /\ mined' = mined + 1 /\ mined' <= MaxBlocks
           /\ UNCHANGED <<reorgs, storeVars, pc, head, seen, scan, history>>
<1>1. PICK events \in {{}} \cup {{r} : r \in Minable} :
          chain' = Append(chain, [id |-> mined + 1, events |-> events])
    BY DEF Mine
<1>2. mined < MaxBlocks /\ mined' = mined + 1 /\ mined \in Nat
      /\ UNCHANGED <<reorgs, storeVars, pc, head, seen, scan, history>>
    BY ChainTypes DEF Mine
<1>3. mined + 1 \in 1 .. MaxBlocks
    BY <1>2, ConstantFacts
<1>4. events \subseteq Receipts
      /\ \A r \in events : r[1] \in stored /\ \A h \in 1 .. Len(chain) : r \notin chain[h].events
    BY DEF Minable, OnChain
<1> DEFINE block == [id |-> mined + 1, events |-> events]
<1>5. block \in Blocks /\ block.id = mined + 1 /\ block.events = events
    BY <1>3, <1>4 DEF Blocks
<1> HIDE DEF block
<1>6. chain' = Append(chain, block) /\ chain \in Seq(Blocks) /\ Len(chain) \in Nat
    BY <1>1, ChainTypes DEF block
<1>7. /\ chain' \in Seq(Blocks) /\ Len(chain') = Len(chain) + 1
      /\ \A h \in 1 .. Len(chain) : chain'[h] = chain[h]
      /\ chain'[Len(chain) + 1] = block
    BY <1>5, <1>6
<1>8. mined' <= MaxBlocks
    BY <1>2, ConstantFacts
<1>9. QED
    BY <1>2, <1>4, <1>5, <1>7, <1>8

LEMMA ReorgFacts ==
    ASSUME TypeOK, Reorg
    PROVE  /\ chain' \in Seq(Blocks) /\ Len(chain') \in Nat /\ Len(chain') < Len(chain)
           /\ \A h \in 1 .. Len(chain') : h \in 1 .. Len(chain) /\ chain'[h] = chain[h]
           /\ deep' = (deep \/ Trusted(Len(chain') + 1))
           /\ reorgs' = reorgs + 1 /\ reorgs' <= MaxReorgs
           /\ UNCHANGED <<mined, storeVars, pc, head, seen, scan, overlooked, submitted, blind>>
<1>1. PICK lost \in 1 .. Lesser(ReorgDepth, Len(chain)) :
          /\ chain' = SubSeq(chain, 1, Len(chain) - lost)
          /\ deep' = (deep \/ Trusted(Len(chain) - lost + 1))
    BY DEF Reorg
<1> DEFINE kept == Len(chain) - lost
<1>2. kept \in Nat /\ kept \in Int /\ kept < Len(chain) /\ Len(chain) \in Nat
    BY ChainTypes, ConstantFacts DEF Lesser
<1>3. chain' = SubSeq(chain, 1, kept) /\ deep' = (deep \/ Trusted(kept + 1))
    BY <1>1
<1> HIDE DEF kept
<1>4. 1 .. kept \subseteq 1 .. Len(chain) /\ \A h \in 1 .. kept : chain[h] \in Blocks
    BY <1>2, ChainTypes
<1>5. /\ SubSeq(chain, 1, kept) \in Seq(Blocks)
      /\ Len(SubSeq(chain, 1, kept)) = IF 1 <= kept THEN kept - 1 + 1 ELSE 0
      /\ \A h \in 1 .. kept - 1 + 1 : SubSeq(chain, 1, kept)[h] = chain[1 + h - 1]
    BY <1>2, <1>4, SubSeqProperties
<1>6. Len(chain') = kept /\ \A h \in 1 .. kept : chain'[h] = chain[h]
    BY <1>2, <1>3, <1>5
<1>7. reorgs \in Nat /\ reorgs < MaxReorgs /\ reorgs' = reorgs + 1
      /\ UNCHANGED <<mined, storeVars, pc, head, seen, scan, overlooked, submitted, blind>>
    BY ConstantFacts DEF Reorg, TypeOK
<1>8. reorgs' <= MaxReorgs
    BY <1>7, ConstantFacts
<1>9. QED
    BY <1>2, <1>3, <1>4, <1>5, <1>6, <1>7, <1>8

\* Every other step leaves the chain.
LEMMA ChainCases ==
    ASSUME [Next]_vars
    PROVE  Mine \/ Reorg \/ UNCHANGED <<chain, mined, reorgs, deep>>
BY DEF Next, vars, chainVars, history, PrepareOffer, HandlerSnapshot, HandlerRead, WorkerRead,
   WorkerSnapshot, CompareCursor, ReadBoundary, scanStockReceipts, applyStockScan, CheckReceipt,
   StoreReceipt, Abandon, Finish

LEMMA ChainFollows ==
    ASSUME TypeOK, [Next]_vars
    PROVE  Follows(chain, chain', mined) /\ mined' \in Nat /\ mined <= mined'
<1>1. Len(chain) \in Nat /\ mined \in Nat
    BY ChainTypes
<1>2. CASE Mine
    BY <1>1, <1>2, MineFacts DEF Follows
<1>3. CASE Reorg
    BY <1>1, <1>3, ReorgFacts DEF Follows
<1>4. CASE UNCHANGED <<chain, mined, reorgs, deep>>
    BY <1>1, <1>4 DEF Follows
<1>5. QED
    BY <1>2, <1>3, <1>4, ChainCases

LEMMA ChainStep ==
    ASSUME TypeOK, ChainHolds, [Next]_vars
    PROVE  ChainHolds'
<1>1. stored \subseteq stored'
    BY DEF Next, vars, storeVars, Mine, Reorg, PrepareOffer, HandlerSnapshot, HandlerRead, WorkerRead,
       WorkerSnapshot, CompareCursor, ReadBoundary, scanStockReceipts, applyStockScan, CheckReceipt,
       StoreReceipt, Abandon, Finish
<1>2. Len(chain) \in Nat /\ mined \in Nat /\ \A h \in 1 .. Len(chain) : chain[h].id \in Int
    BY ChainTypes
<1>3. CASE Mine
  <2>1. Len(chain') <= mined'
      BY <1>2, <1>3, MineFacts DEF ChainHolds
  <2>2. \A h \in 1 .. Len(chain') : h \in 1 .. Len(chain) \/ h = Len(chain) + 1
      BY <1>2, <1>3, MineFacts
  <2>3. \A h \in 1 .. Len(chain') : chain'[h].id <= mined'
      BY <1>2, <1>3, <2>2, MineFacts DEF ChainHolds
  <2>4. \A h \in 1 .. Len(chain') : \A r \in chain'[h].events : r[1] \in stored'
      BY <1>1, <1>3, <2>2, MineFacts DEF ChainHolds
  <2>5. \A g, h \in 1 .. Len(chain') : g # h => chain'[g].events \cap chain'[h].events = {}
    <3>1. SUFFICES ASSUME NEW g \in 1 .. Len(chain'), NEW h \in 1 .. Len(chain'), g # h,
                          NEW r \in chain'[g].events, r \in chain'[h].events
                   PROVE  FALSE
        OBVIOUS
    <3>2. CASE g \in 1 .. Len(chain) /\ h \in 1 .. Len(chain)
        BY <1>3, <3>1, <3>2, MineFacts DEF ChainHolds
    <3>3. CASE g = Len(chain) + 1 /\ h \in 1 .. Len(chain)
        BY <1>3, <3>1, <3>3, MineFacts
    <3>4. CASE g \in 1 .. Len(chain) /\ h = Len(chain) + 1
        BY <1>3, <3>1, <3>4, MineFacts
    <3>5. QED
        BY <2>2, <3>1, <3>2, <3>3, <3>4
  <2>6. QED
      BY <2>1, <2>3, <2>4, <2>5 DEF ChainHolds
<1>4. CASE Reorg
  <2>1. mined' = mined /\ Len(chain') <= mined
      BY <1>2, <1>4, ReorgFacts DEF ChainHolds
  <2>2. \A h \in 1 .. Len(chain') : h \in 1 .. Len(chain) /\ chain'[h] = chain[h]
      BY <1>4, ReorgFacts
  <2>3. QED
      BY <1>1, <2>1, <2>2 DEF ChainHolds
<1>5. CASE UNCHANGED <<chain, mined, reorgs, deep>>
    BY <1>1, <1>5 DEF ChainHolds
<1>6. QED
    BY <1>3, <1>4, <1>5, ChainCases

-----------------------------------------------------------------------------
(* What a step does to one pass, and to the store. *)

Same(p) == pc'[p] = pc[p] /\ head'[p] = head[p] /\ seen'[p] = seen[p] /\ scan'[p] = scan[p]

Reset(p) ==
    /\ pc'[p] = "idle" /\ scan'[p] = NoScan /\ head'[p] = 0
    /\ seen'[p] = [offers |-> {}, cursor |-> Start]

Snapshot(p, before, after) ==
    /\ pc[p] = before /\ pc'[p] = after
    /\ head'[p] = Len(chain) /\ seen'[p] = seen[p] /\ scan'[p] = scan[p]
    /\ UNCHANGED <<chain, mined, reorgs, deep, stored, evidence, cursor, submitted, overlooked>>

Read(p, before, after) ==
    /\ pc[p] = before /\ pc'[p] = after
    /\ seen'[p] = [offers |-> stored, cursor |-> cursor] /\ head'[p] = head[p] /\ scan'[p] = scan[p]
    /\ UNCHANGED <<chain, mined, reorgs, deep, stored, evidence, cursor, submitted, overlooked>>

\* A step of a scan, or the check of one receipt.
Looked(p, before, after) ==
    /\ pc[p] = before /\ pc'[p] = after /\ head'[p] = head[p] /\ seen'[p] = seen[p]
    /\ UNCHANGED <<chain, mined, reorgs, deep, stored, evidence, cursor, submitted, overlooked>>

Compares(p) ==
    /\ Looked(p, "ready", "compared")
    /\ ScanFrom(p, MustReset(p)) <= ConfirmedHeight(p)
    /\ scan'[p] = [kind |-> "scan", reset |-> MustReset(p), matched |-> Canonical(seen[p].cursor)]

Bounds(p) ==
    /\ Looked(p, "compared", "boundary")
    /\ ScanTo(p) <= Len(chain)
    /\ scan'[p] = [kind |-> "scan", reset |-> scan[p].reset, cursor |-> NextCursor(p),
                   slipped |-> scan[p].matched /\ ~Canonical(seen[p].cursor)]

Scans(p) ==
    /\ Looked(p, "boundary", "apply")
    /\ Canonical(scan[p].cursor)
    /\ scan'[p] = [kind |-> "scan", reset |-> scan[p].reset, cursor |-> scan[p].cursor,
                   slipped |-> scan[p].slipped,
                   updates |-> ProofsIn(seen[p].offers \X Kinds,
                                        ScanFrom(p, scan[p].reset) .. ScanTo(p))]

Checks(p, r) ==
    /\ Looked(p, "ready", "apply")
    /\ r[1] \in seen[p].offers
    /\ \E h \in 1 .. Lesser(ConfirmedHeight(p), Len(chain)) : r \in chain[h].events
    /\ scan'[p] = [kind |-> "receipt", updates |-> ProofsIn({r}, 1 .. Len(chain))]

LEMMA PassCases ==
    ASSUME TypeOK, ScansTyped, [Next]_vars, NEW p \in Scanners
    PROVE  \/ Same(p)
           \/ Reset(p)
           \/ p \in Handlers /\ Snapshot(p, "idle", "snapshot")
           \/ Snapshot(p, "read", "ready")
           \/ Read(p, "snapshot", "ready")
           \/ p \in Workers /\ Read(p, "idle", "read")
           \/ Compares(p) \/ Bounds(p) \/ Scans(p)
           \/ \E r \in Receipts : p \in Handlers /\ Checks(p, r)
<1>1. DOMAIN pc = Scanners /\ DOMAIN head = Scanners /\ DOMAIN seen = Scanners /\ DOMAIN scan = Scanners
    BY DEF TypeOK, ScansTyped
<1>2. ASSUME NEW q \in Scanners, Finish(q) PROVE Same(p) \/ Reset(p)
    BY <1>1, <1>2 DEF Finish, Same, Reset
<1>3. ASSUME NEW q \in Scanners, q # p,
             HandlerSnapshot(q) \/ HandlerRead(q) \/ WorkerRead(q) \/ WorkerSnapshot(q)
                \/ CompareCursor(q) \/ ReadBoundary(q) \/ scanStockReceipts(q)
                \/ \E r \in Receipts : CheckReceipt(q, r)
      PROVE  Same(p)
    BY <1>1, <1>3 DEF HandlerSnapshot, HandlerRead, WorkerRead, WorkerSnapshot, CompareCursor,
       ReadBoundary, scanStockReceipts, CheckReceipt, SnapshotChain, ReadStore, Same
<1>4. CASE HandlerSnapshot(p)
    BY <1>1, <1>4 DEF HandlerSnapshot, SnapshotChain, Snapshot, chainVars, storeVars, history
<1>5. CASE WorkerSnapshot(p)
    BY <1>1, <1>5 DEF WorkerSnapshot, SnapshotChain, Snapshot, chainVars, storeVars, history
<1>6. CASE HandlerRead(p)
    BY <1>1, <1>6 DEF HandlerRead, ReadStore, Read, chainVars, storeVars, history
<1>7. CASE WorkerRead(p)
    BY <1>1, <1>7 DEF WorkerRead, ReadStore, Read, chainVars, storeVars, history
<1>8. CASE scanStockReceipts(p)
    BY <1>1, <1>8 DEF scanStockReceipts, Scans, Looked, chainVars, storeVars, history
<1>9. ASSUME NEW r \in Receipts, CheckReceipt(p, r) PROVE p \in Handlers /\ Checks(p, r)
    BY <1>1, <1>9 DEF CheckReceipt, Checks, Looked, chainVars, storeVars, history
<1>10. CASE CompareCursor(p)
    BY <1>1, <1>10 DEF CompareCursor, Compares, Looked, chainVars, storeVars, history
<1>11. CASE ReadBoundary(p)
    BY <1>1, <1>11 DEF ReadBoundary, Bounds, Looked, chainVars, storeVars, history
<1>12. CASE UNCHANGED <<pc, head, seen, scan>>
    BY <1>12 DEF Same
<1>13. QED
    BY <1>2, <1>3, <1>4, <1>5, <1>6, <1>7, <1>8, <1>9, <1>10, <1>11, <1>12
    DEF Next, vars, Mine, Reorg, PrepareOffer, applyStockScan, StoreReceipt, Abandon

\* The write of a scan that found the cursor it started from, and of a checked receipt.
Applies(p) ==
    /\ Scanned(p) /\ cursor = seen[p].cursor
    /\ evidence' = Credit(IF scan[p].reset THEN [r \in Receipts |-> NoProof] ELSE evidence, scan[p].updates)
    /\ cursor' = scan[p].cursor /\ UNCHANGED submitted
    /\ blind' = (~scan[p].reset /\ (blind \/ scan[p].slipped))
    /\ UNCHANGED <<chain, mined, reorgs, deep, stored, overlooked>>
    /\ Reset(p) /\ \A q \in Scanners : q # p => Same(q)

Stores(p) ==
    /\ pc[p] = "apply" /\ scan[p].kind = "receipt"
    /\ evidence' = Credit(evidence, scan[p].updates)
    /\ submitted' = submitted \cup DOMAIN scan[p].updates /\ UNCHANGED <<cursor, blind>>
    /\ UNCHANGED <<chain, mined, reorgs, deep, stored, overlooked>> /\ Reset(p)

LEMMA StoreCases ==
    ASSUME TypeOK, ScansTyped, [Next]_vars
    PROVE  UNCHANGED <<evidence, cursor, submitted, blind>> \/ \E p \in Scanners : Applies(p) \/ Stores(p)
<1>1. DOMAIN pc = Scanners /\ DOMAIN head = Scanners /\ DOMAIN seen = Scanners /\ DOMAIN scan = Scanners
    BY DEF TypeOK, ScansTyped
<1>2. ASSUME NEW p \in Scanners, Finish(p) PROVE Reset(p) /\ \A q \in Scanners : q # p => Same(q)
    BY <1>1, <1>2 DEF Finish, Reset, Same
<1>3. ASSUME NEW p \in Scanners, applyStockScan(p)
      PROVE  UNCHANGED <<evidence, cursor, submitted, blind>> \/ Applies(p)
    BY <1>2, <1>3 DEF applyStockScan, CursorUnchanged, Applies, Scanned, storeVars, history, chainVars, Finish
<1>4. ASSUME NEW p \in Scanners, StoreReceipt(p) PROVE Stores(p)
    BY <1>2, <1>4 DEF StoreReceipt, Stores, chainVars, Finish
<1>5. QED
    BY <1>3, <1>4 DEF Next, vars, chainVars, storeVars, history, Mine, Reorg, PrepareOffer,
       HandlerSnapshot, HandlerRead, WorkerRead, WorkerSnapshot, CompareCursor, ReadBoundary,
       scanStockReceipts, CheckReceipt, Abandon

\* Offers are only added; one that is added while a worker has read the store and not yet
\* the chain is overlooked.
LEMMA OffersGrow ==
    ASSUME TypeOK, [Next]_vars
    PROVE  /\ stored \subseteq stored' /\ overlooked \subseteq overlooked'
           /\ \/ UNCHANGED <<stored, overlooked>>
              \/ \E o \in Offers : /\ stored' = stored \cup {o}
                                   /\ (\E w \in Workers : pc[w] = "read") => o \in overlooked'
                                   /\ UNCHANGED <<chain, mined, reorgs, deep, evidence, cursor, pc, head,
                                                  seen, scan, submitted>>
BY DEF Next, vars, chainVars, storeVars, history, Mine, Reorg, PrepareOffer, HandlerSnapshot, HandlerRead,
   WorkerRead, WorkerSnapshot, CompareCursor, ReadBoundary, scanStockReceipts, applyStockScan, CheckReceipt,
   StoreReceipt, Abandon, Finish

\* The proofs of receipts are of the blocks that hold them.
LEMMA ProofsFound ==
    ASSUME TypeOK, NEW rs, NEW heights, heights \subseteq 1 .. Len(chain)
    PROVE  /\ DOMAIN ProofsIn(rs, heights) \subseteq rs
           /\ \A r \in DOMAIN ProofsIn(rs, heights) : \E h \in heights :
                 r \in chain[h].events /\ ProofsIn(rs, heights)[r] = Block(h)
           /\ \A r \in rs, h \in heights : r \in chain[h].events => r \in DOMAIN ProofsIn(rs, heights)
<1> DEFINE found == {r \in rs : \E h \in heights : r \in chain[h].events}
           At(r) == CHOOSE h \in heights : r \in chain[h].events
<1>1. ProofsIn(rs, heights) = [r \in found |-> Block(At(r))]
    BY DEF ProofsIn
<1>2. \A r \in found : At(r) \in heights /\ r \in chain[At(r)].events
    OBVIOUS
<1> HIDE DEF At
<1>3. QED
    BY <1>1, <1>2

\* The blocks a scan looks at.
LEMMA ScanBounds ==
    ASSUME TypeOK, ScansAim, NEW p \in Scanners, Aimed(p)
    PROVE  /\ ConfirmedHeight(p) \in Int /\ ConfirmedHeight(p) <= MaxBlocks - (Confirmations - 1)
           /\ ScanFrom(p, scan[p].reset) \in Nat /\ ScanTo(p) \in Nat
           /\ 1 <= ScanFrom(p, scan[p].reset) /\ ScanFrom(p, scan[p].reset) <= ScanTo(p)
           /\ ScanTo(p) <= ConfirmedHeight(p)
           /\ ~scan[p].reset => ScanFrom(p, scan[p].reset) = seen[p].cursor.height + 1
<1>1. head[p] \in 0 .. MaxBlocks /\ seen[p].cursor \in RefType
    BY DEF TypeOK
<1>2. seen[p].cursor.height \in Nat /\ scan[p].reset \in BOOLEAN
    BY <1>1, RefFacts DEF ScansAim
<1>3. ConfirmedHeight(p) \in Int /\ ConfirmedHeight(p) <= MaxBlocks - (Confirmations - 1)
    BY <1>1, ConstantFacts DEF ConfirmedHeight
<1> DEFINE from == ScanFrom(p, scan[p].reset)
           top == ConfirmedHeight(p)
<1>4. from \in Nat /\ 1 <= from /\ (~scan[p].reset => from = seen[p].cursor.height + 1)
    BY <1>2 DEF ScanFrom
<1>5. from <= top
    BY DEF ScansAim
<1>6. ScanTo(p) = IF from + Span - 1 <= top THEN from + Span - 1 ELSE top
    BY DEF ScanTo, Lesser
<1>7. ScanTo(p) \in Nat /\ from <= ScanTo(p) /\ ScanTo(p) <= top
  <2>1. from \in Nat /\ 1 <= from /\ top \in Int /\ from <= top /\ Span \in Nat /\ 1 <= Span
      BY <1>3, <1>4, <1>5, ConstantFacts
  <2> HIDE DEF from, top
  <2>2. QED
      BY <1>6, <2>1
<1>8. QED
    BY <1>3, <1>4, <1>7

\* The aim of a scan stays with it.
LEMMA AimsStep ==
    ASSUME TypeOK, ScansTyped, ScansAim, [Next]_vars
    PROVE  ScansAim'
<1>1. ASSUME NEW p \in Scanners
      PROVE  /\ Aimed(p)' => scan'[p].reset \in BOOLEAN /\ ScanFrom(p, scan[p].reset)' <= ConfirmedHeight(p)'
             /\ pc'[p] = "compared" /\ ~scan'[p].reset => scan'[p].matched
             /\ Bounded(p)' => scan'[p].cursor.height = ScanTo(p)'
  <2>1. ASSUME seen'[p] = seen[p], head'[p] = head[p], scan'[p].reset = scan[p].reset, Aimed(p)
        PROVE  /\ scan'[p].reset \in BOOLEAN /\ ScanFrom(p, scan[p].reset)' <= ConfirmedHeight(p)'
               /\ ScanTo(p)' = ScanTo(p)
    <3>1. /\ ScanFrom(p, scan[p].reset)' = ScanFrom(p, scan[p].reset)
          /\ ConfirmedHeight(p)' = ConfirmedHeight(p)
        BY <2>1 DEF ScanFrom, ConfirmedHeight
    <3>2. ScanTo(p)' = ScanTo(p)
        BY <3>1 DEF ScanTo
    <3>3. QED
        BY <2>1, <3>1, <3>2 DEF ScansAim
  <2>2. CASE Same(p)
    <3>1. /\ (Aimed(p)' <=> Aimed(p)) /\ (Bounded(p)' <=> Bounded(p)) /\ (Bounded(p) => Aimed(p))
          /\ pc'[p] = pc[p] /\ head'[p] = head[p] /\ seen'[p] = seen[p] /\ scan'[p] = scan[p]
        BY <2>2 DEF Same, Aimed, Bounded, Scanned
    <3>2. /\ pc[p] = "compared" /\ ~scan[p].reset => scan[p].matched
          /\ Bounded(p) => scan[p].cursor.height = ScanTo(p)
        BY DEF ScansAim
    <3>3. QED
        BY <2>1, <3>1, <3>2
  <2>3. CASE Compares(p)
    <3>1. /\ seen'[p] = seen[p] /\ head'[p] = head[p] /\ pc'[p] = "compared"
          /\ scan'[p].reset = MustReset(p) /\ scan'[p].matched = Canonical(seen[p].cursor)
          /\ ScanFrom(p, MustReset(p)) <= ConfirmedHeight(p)
        BY <2>3 DEF Compares, Looked
    <3>2. /\ ScanFrom(p, scan[p].reset)' = ScanFrom(p, MustReset(p))
          /\ ConfirmedHeight(p)' = ConfirmedHeight(p)
        BY <3>1 DEF ScanFrom, ConfirmedHeight
    <3>3. MustReset(p) \in BOOLEAN /\ (~MustReset(p) => Canonical(seen[p].cursor))
        BY DEF MustReset
    <3>4. QED
        BY <3>1, <3>2, <3>3 DEF Bounded, Scanned
  <2>4. CASE Bounds(p)
    <3>1. /\ seen'[p] = seen[p] /\ head'[p] = head[p] /\ pc'[p] = "boundary" /\ Aimed(p)
          /\ scan'[p].reset = scan[p].reset /\ scan'[p].cursor.height = ScanTo(p)
        BY <2>4 DEF Bounds, Looked, Aimed, NextCursor, Block
    <3>2. QED
        BY <2>1, <3>1
  <2>5. CASE Scans(p)
    <3>1. /\ seen'[p] = seen[p] /\ head'[p] = head[p] /\ pc'[p] = "apply" /\ Aimed(p) /\ Bounded(p)
          /\ scan'[p].reset = scan[p].reset /\ scan'[p].cursor = scan[p].cursor
        BY <2>5 DEF Scans, Looked, Aimed, Bounded
    <3>2. QED
        BY <2>1, <3>1 DEF ScansAim
  <2>6. ASSUME NEW r \in Receipts, Checks(p, r) PROVE ~Aimed(p)'
    <3>1. pc'[p] = "apply" /\ scan'[p].kind = "receipt"
        BY <2>6 DEF Checks, Looked
    <3>2. QED
        BY <3>1 DEF Aimed, Bounded, Scanned
  <2>7. CASE Reset(p) \/ (\E a, b : Snapshot(p, a, b) /\ b # "compared" /\ b # "boundary" /\ b # "apply")
                      \/ (\E a, b : Read(p, a, b) /\ b # "compared" /\ b # "boundary" /\ b # "apply")
      BY <2>7 DEF Reset, Snapshot, Read, Aimed, Bounded, Scanned
  <2>8. ~Aimed(p)' => ~Bounded(p)' /\ pc'[p] # "compared"
      BY DEF Aimed
  <2>9. QED
      BY <2>2, <2>3, <2>4, <2>5, <2>6, <2>7, <2>8, PassCases
<1>2. QED
    BY <1>1 DEF ScansAim

\* What a scan finds.
LEMMA ScanFinds ==
    ASSUME TypeOK, ScansAim, NEW p \in Scanners, Scans(p)
    PROVE  /\ scan'[p].kind = "scan" /\ scan'[p].reset = scan[p].reset
           /\ scan'[p].cursor = scan[p].cursor /\ scan'[p].slipped = scan[p].slipped
           /\ scan[p].cursor.height = ScanTo(p) /\ ScanTo(p) \in 1 .. Len(chain)
           /\ Canonical(scan[p].cursor) /\ Aimed(p) /\ Bounded(p)
           /\ DOMAIN scan'[p].updates \subseteq Receipts
           /\ \A r \in DOMAIN scan'[p].updates : \E h \in ScanFrom(p, scan[p].reset) .. ScanTo(p) :
                 h \in 1 .. Len(chain) /\ scan'[p].updates[r] = Block(h)
           /\ \A h \in ScanFrom(p, scan[p].reset) .. ScanTo(p) : \A r \in chain[h].events :
                 r[1] \in seen[p].offers => r \in DOMAIN scan'[p].updates
<1> DEFINE rs == seen[p].offers \X Kinds
           heights == ScanFrom(p, scan[p].reset) .. ScanTo(p)
<1>1. Len(chain) \in Nat /\ Aimed(p) /\ Bounded(p) /\ Canonical(scan[p].cursor)
    BY ChainTypes DEF Scans, Looked, Aimed, Bounded
<1>2. heights \subseteq 1 .. Len(chain) /\ ScanTo(p) \in 1 .. Len(chain)
      /\ scan[p].cursor.height = ScanTo(p)
  <2>1. scan[p].cursor.height = ScanTo(p)
      BY <1>1 DEF ScansAim
  <2>2. /\ ScanFrom(p, scan[p].reset) \in Nat /\ ScanTo(p) \in Nat
        /\ 1 <= ScanFrom(p, scan[p].reset) /\ ScanFrom(p, scan[p].reset) <= ScanTo(p)
      BY <1>1, ScanBounds
  <2>3. ScanTo(p) <= Len(chain)
      BY <1>1, <2>1, <2>2 DEF Canonical
  <2>4. QED
      BY <1>1, <2>1, <2>2, <2>3
<1>3. seen[p].offers \subseteq Offers
    BY DEF TypeOK
<1>4. rs \subseteq Receipts
    BY <1>3 DEF Receipts
<1>5. /\ scan'[p].kind = "scan" /\ scan'[p].reset = scan[p].reset
      /\ scan'[p].cursor = scan[p].cursor /\ scan'[p].slipped = scan[p].slipped
      /\ scan'[p].updates = ProofsIn(rs, heights)
    BY DEF Scans
<1>6. \A h \in heights : \A r \in chain[h].events : r[1] \in seen[p].offers => r \in rs
  <2>1. \A h \in heights : chain[h].events \subseteq Receipts
      BY <1>2, ChainTypes
  <2>2. \A r \in Receipts : r[1] \in seen[p].offers => r \in rs
      BY DEF Receipts
  <2>3. QED
      BY <2>1, <2>2
<1> HIDE DEF rs, heights
<1>7. /\ DOMAIN ProofsIn(rs, heights) \subseteq rs
      /\ \A r \in DOMAIN ProofsIn(rs, heights) : \E h \in heights :
            r \in chain[h].events /\ ProofsIn(rs, heights)[r] = Block(h)
      /\ \A r \in rs, h \in heights : r \in chain[h].events => r \in DOMAIN ProofsIn(rs, heights)
    BY <1>2, ProofsFound
<1>8. QED
    BY <1>1, <1>2, <1>4, <1>5, <1>6, <1>7 DEF rs, heights

\* A receipt that was checked is in a confirmed block.
LEMMA CheckFinds ==
    ASSUME TypeOK, ChainHolds, NEW p \in Scanners, NEW r \in Receipts, Checks(p, r)
    PROVE  /\ scan'[p].kind = "receipt" /\ DOMAIN scan'[p].updates \subseteq Receipts
           /\ \A q \in DOMAIN scan'[p].updates : \E h \in 1 .. Len(chain) :
                 h <= ConfirmedHeight(p) /\ scan'[p].updates[q] = Block(h)
<1>1. Len(chain) \in Nat /\ ConfirmedHeight(p) \in Int
    BY ChainTypes, ConstantFacts DEF ConfirmedHeight, TypeOK
<1>2. PICK g \in 1 .. Lesser(ConfirmedHeight(p), Len(chain)) : r \in chain[g].events
    BY DEF Checks
<1>3. g \in 1 .. Len(chain) /\ g <= ConfirmedHeight(p)
    BY <1>1, <1>2 DEF Lesser
<1>4. \A h \in 1 .. Len(chain) : r \in chain[h].events => h = g
    BY <1>2, <1>3 DEF ChainHolds
<1>5. scan'[p].kind = "receipt" /\ scan'[p].updates = ProofsIn({r}, 1 .. Len(chain))
    BY DEF Checks
<1>6. /\ DOMAIN ProofsIn({r}, 1 .. Len(chain)) \subseteq {r}
      /\ \A q \in DOMAIN ProofsIn({r}, 1 .. Len(chain)) : \E h \in 1 .. Len(chain) :
            q \in chain[h].events /\ ProofsIn({r}, 1 .. Len(chain))[q] = Block(h)
    BY ProofsFound
<1>7. QED
    BY <1>3, <1>4, <1>5, <1>6

\* References to blocks have their type, and are known.
LEMMA BlockRefs ==
    ASSUME TypeOK, ChainHolds, NEW h \in 1 .. Len(chain), h <= MaxBlocks - (Confirmations - 1)
    PROVE  Block(h) \in RefType /\ Block(h).height = h /\ h > 0 /\ Block(h).id <= mined
           /\ Block(h).id = chain[h].id
<1>1. chain[h].id \in 1 .. MaxBlocks /\ chain[h].id <= mined /\ Len(chain) \in Nat
    BY ChainTypes DEF ChainHolds
<1>2. h \in 1 .. MaxBlocks - (Confirmations - 1) /\ chain[h].id \in 0 .. MaxBlocks
    BY <1>1, ConstantFacts
<1>3. QED
    BY <1>1, <1>2, RefFacts DEF Block

\* The block a scan takes for its boundary.
LEMMA BoundFinds ==
    ASSUME TypeOK, ChainHolds, ScansAim, NEW p \in Scanners, Bounds(p)
    PROVE  /\ scan'[p].reset = scan[p].reset
           /\ scan'[p].slipped = (scan[p].matched /\ ~Canonical(seen[p].cursor))
           /\ scan'[p].cursor \in RefType /\ scan'[p].cursor.id <= mined
           /\ scan'[p].cursor.height = ScanTo(p) /\ Canonical(scan'[p].cursor)
           /\ ScanTo(p) \in 1 .. Len(chain) /\ Aimed(p)
<1>1. Len(chain) \in Nat /\ Aimed(p) /\ ScanTo(p) <= Len(chain)
    BY ChainTypes DEF Bounds, Looked, Aimed
<1>2. ScanTo(p) \in 1 .. Len(chain) /\ ScanTo(p) <= MaxBlocks - (Confirmations - 1)
    BY <1>1, ScanBounds, ConstantFacts
<1>3. scan'[p].cursor = Block(ScanTo(p)) /\ scan'[p].reset = scan[p].reset
      /\ scan'[p].slipped = (scan[p].matched /\ ~Canonical(seen[p].cursor))
    BY DEF Bounds, NextCursor
<1>4. Canonical(Block(ScanTo(p)))
    BY <1>2, ChainTypes DEF Canonical, Block
<1>5. QED
    BY <1>1, <1>2, <1>3, <1>4, BlockRefs

LEMMA CreditIs ==
    ASSUME NEW kept, NEW updates, NEW r \in Receipts
    PROVE  Credit(kept, updates)[r] = IF r \in DOMAIN updates /\ r[1] \in stored THEN updates[r] ELSE kept[r]
BY DEF Credit

\* The scans keep their types, and name blocks that were mined.
LEMMA ScansStep ==
    ASSUME TypeOK, ChainHolds, ScansTyped, ScansAim, RefsKnown, [Next]_vars
    PROVE  ScansTyped' /\ \A p \in Scanners :
               /\ pc'[p] = "apply" => \A r \in DOMAIN scan'[p].updates : scan'[p].updates[r].id <= mined'
               /\ Bounded(p)' => scan'[p].cursor.id <= mined'
<1>1. mined' \in Nat /\ mined \in Nat /\ mined <= mined'
    BY ChainFollows, ChainTypes
<1>2. DOMAIN scan' = Scanners
    BY DEF ScansTyped, Next, vars, Mine, Reorg, PrepareOffer, HandlerSnapshot, HandlerRead, WorkerRead,
       WorkerSnapshot, CompareCursor, ReadBoundary, scanStockReceipts, applyStockScan, CheckReceipt,
       StoreReceipt, Abandon, Finish
<1> DEFINE Found(p) ==
        pc'[p] = "apply" =>
            /\ scan'[p].kind \in {"scan", "receipt"}
            /\ DOMAIN scan'[p].updates \subseteq Receipts
            /\ \A r \in DOMAIN scan'[p].updates :
                  /\ scan'[p].updates[r] \in RefType /\ scan'[p].updates[r].height > 0
                  /\ scan'[p].updates[r].id <= mined'
           Ends(p) ==
        Bounded(p)' =>
            scan'[p].cursor \in RefType /\ scan'[p].slipped \in BOOLEAN /\ scan'[p].cursor.id <= mined'
<1>3. ASSUME NEW p \in Scanners, Same(p) PROVE Found(p) /\ Ends(p)
  <2>1. \A ref \in RefType : ref.id \in Int
      BY RefFacts
  <2>2. ASSUME pc[p] = "apply" PROVE Found(p)
    <3>1. \A r \in DOMAIN scan[p].updates :
              scan[p].updates[r] \in RefType /\ scan[p].updates[r].id <= mined
        BY <2>2 DEF ScansTyped, RefsKnown
    <3>2. \A r \in DOMAIN scan[p].updates : scan[p].updates[r].id <= mined'
        BY <1>1, <2>1, <3>1
    <3>3. QED
        BY <1>3, <2>2, <3>2 DEF Same, ScansTyped
  <2>3. ASSUME Bounded(p) PROVE Ends(p)
    <3>1. scan[p].cursor \in RefType /\ scan[p].slipped \in BOOLEAN /\ scan[p].cursor.id <= mined
        BY <2>3 DEF ScansTyped, RefsKnown
    <3>2. scan[p].cursor.id <= mined'
        BY <1>1, <2>1, <3>1
    <3>3. QED
        BY <1>3, <3>1, <3>2 DEF Same
  <2>4. (Bounded(p)' <=> Bounded(p)) /\ pc'[p] = pc[p]
      BY <1>3 DEF Same, Bounded, Scanned
  <2>5. QED
      BY <2>2, <2>3, <2>4
<1>4. ASSUME NEW p \in Scanners, Scans(p) PROVE Found(p) /\ Ends(p)
  <2>1. mined' = mined
      BY <1>4 DEF Scans, Looked
  <2>2. Aimed(p) /\ Bounded(p)
      BY <1>4, ScanFinds
  <2>3. \A h \in ScanFrom(p, scan[p].reset) .. ScanTo(p) : h <= MaxBlocks - (Confirmations - 1)
      BY <2>2, ScanBounds, ConstantFacts
  <2>4. \A r \in DOMAIN scan'[p].updates :
            /\ scan'[p].updates[r] \in RefType /\ scan'[p].updates[r].height > 0
            /\ scan'[p].updates[r].id <= mined'
      BY <1>4, <2>1, <2>3, ScanFinds, BlockRefs
  <2>5. scan[p].cursor \in RefType /\ scan[p].slipped \in BOOLEAN /\ scan[p].cursor.id <= mined
      BY <2>2 DEF ScansTyped, RefsKnown
  <2>6. QED
      BY <1>4, <2>1, <2>4, <2>5, ScanFinds
<1>5. ASSUME NEW p \in Scanners, Bounds(p) PROVE Found(p) /\ Ends(p)
  <2>1. mined' = mined /\ pc'[p] = "boundary"
      BY <1>5 DEF Bounds, Looked
  <2>2. QED
      BY <1>5, <2>1, BoundFinds
<1>6. ASSUME NEW p \in Scanners, NEW r \in Receipts, Checks(p, r) PROVE Found(p) /\ Ends(p)
  <2>1. mined' = mined
      BY <1>6 DEF Checks, Looked
  <2>2. ConfirmedHeight(p) \in Int /\ ConfirmedHeight(p) <= MaxBlocks - (Confirmations - 1)
      BY ConstantFacts DEF ConfirmedHeight, TypeOK
  <2>3. \A h \in 1 .. Len(chain) : h <= ConfirmedHeight(p) => h <= MaxBlocks - (Confirmations - 1)
      BY <2>2, ChainTypes, ConstantFacts
  <2>4. \A q \in DOMAIN scan'[p].updates :
            /\ scan'[p].updates[q] \in RefType /\ scan'[p].updates[q].height > 0
            /\ scan'[p].updates[q].id <= mined'
      BY <1>6, <2>1, <2>3, CheckFinds, BlockRefs
  <2>5. ~Bounded(p)'
      BY <1>6, CheckFinds DEF Checks, Looked, Bounded, Scanned
  <2>6. QED
      BY <1>6, <2>4, <2>5, CheckFinds
<1>7. ASSUME NEW p \in Scanners PROVE Found(p) /\ Ends(p)
  <2>1. pc'[p] \notin {"boundary", "apply"} => Found(p) /\ Ends(p)
      BY DEF Bounded, Scanned
  <2> HIDE DEF Found, Ends
  <2>2. QED
      BY <1>3, <1>4, <1>5, <1>6, <2>1, PassCases DEF Reset, Snapshot, Read, Compares, Looked
<1>8. QED
    BY <1>2, <1>7 DEF ScansTyped

LEMMA EvidenceTypes ==
    ASSUME TypeOK, ScansTyped, RefsKnown, [Next]_vars
    PROVE  /\ evidence' \in [Receipts -> RefType] /\ cursor' \in RefType
           /\ cursor'.id <= mined' /\ \A r \in Receipts : evidence'[r].id <= mined'
<1>1. /\ mined' \in Nat /\ mined \in Nat /\ mined <= mined' /\ 0 <= mined
      /\ evidence \in [Receipts -> RefType] /\ cursor \in RefType
      /\ \A ref \in RefType : ref.id \in Int
      /\ NoProof \in RefType /\ NoProof.id = 0
    BY ChainFollows, ChainTypes, RefFacts DEF TypeOK, NoProof
<1>2. CASE UNCHANGED <<evidence, cursor, submitted, blind>>
    BY <1>1, <1>2 DEF RefsKnown
<1>3. ASSUME NEW p \in Scanners, pc[p] = "apply", NEW kept \in [Receipts -> RefType],
             \A r \in Receipts : kept[r].id <= mined, evidence' = Credit(kept, scan[p].updates)
      PROVE  evidence' \in [Receipts -> RefType] /\ \A r \in Receipts : evidence'[r].id <= mined
  <2>1. \A r \in DOMAIN scan[p].updates : scan[p].updates[r] \in RefType /\ scan[p].updates[r].id <= mined
      BY <1>3 DEF ScansTyped, RefsKnown
  <2>2. \A r \in Receipts : evidence'[r] \in RefType /\ evidence'[r].id <= mined
      BY <1>3, <2>1, CreditIs
  <2>3. DOMAIN evidence' = Receipts /\ evidence' = [r \in Receipts |-> evidence'[r]]
      BY <1>3 DEF Credit
  <2>4. QED
      BY <2>2, <2>3
<1>4. ASSUME NEW p \in Scanners, Applies(p) \/ Stores(p)
      PROVE  /\ evidence' \in [Receipts -> RefType] /\ \A r \in Receipts : evidence'[r].id <= mined
             /\ cursor' \in RefType /\ cursor'.id <= mined /\ mined' = mined
  <2> DEFINE Nothing == [r \in Receipts |-> NoProof]
  <2>1. Nothing \in [Receipts -> RefType] /\ \A r \in Receipts : Nothing[r].id <= mined
      BY <1>1
  <2>2. \A r \in Receipts : evidence[r].id <= mined
      BY DEF RefsKnown
  <2>3. pc[p] = "apply" /\ \E kept \in {Nothing, evidence} : evidence' = Credit(kept, scan[p].updates)
      BY <1>4 DEF Applies, Stores, Scanned
  <2>4. cursor' \in RefType /\ cursor'.id <= mined /\ mined' = mined
      BY <1>1, <1>4 DEF Applies, Stores, ScansTyped, RefsKnown, Scanned, Bounded
  <2> HIDE DEF Nothing
  <2>5. QED
      BY <1>1, <1>3, <2>1, <2>2, <2>3, <2>4
<1>5. QED
    BY <1>1, <1>2, <1>4, StoreCases

LEMMA TypesStep ==
    ASSUME TypeOK, ChainHolds, ScansTyped, ScansAim, RefsKnown, [Next]_vars
    PROVE  TypeOK' /\ ScansTyped' /\ RefsKnown'
<1>1. /\ chain' \in Seq(Blocks) /\ mined' \in 0 .. MaxBlocks /\ reorgs' \in 0 .. MaxReorgs
      /\ Len(chain) <= MaxBlocks
  <2>1. /\ chain \in Seq(Blocks) /\ mined \in 0 .. MaxBlocks /\ reorgs \in 0 .. MaxReorgs
        /\ Len(chain) \in Nat /\ Len(chain) <= mined
      BY ChainTypes DEF TypeOK, ChainHolds
  <2>2. CASE Mine
      BY <2>1, <2>2, MineFacts, ConstantFacts
  <2>3. CASE Reorg
      BY <2>1, <2>3, ReorgFacts, ConstantFacts
  <2>4. CASE UNCHANGED <<chain, mined, reorgs, deep>>
      BY <2>1, <2>4, ConstantFacts
  <2>5. Len(chain) <= MaxBlocks
      BY <2>1, ConstantFacts
  <2>6. QED
      BY <2>2, <2>3, <2>4, <2>5, ChainCases
<1>2. stored' \subseteq Offers
    BY OffersGrow DEF TypeOK
<1>3. evidence' \in [Receipts -> RefType] /\ cursor' \in RefType
    BY EvidenceTypes
<1>4. DOMAIN pc' = Scanners /\ DOMAIN head' = Scanners /\ DOMAIN seen' = Scanners
      /\ pc' = [p \in Scanners |-> pc'[p]] /\ head' = [p \in Scanners |-> head'[p]]
      /\ seen' = [p \in Scanners |-> seen'[p]]
    BY DEF TypeOK, Next, vars, Mine, Reorg, PrepareOffer, HandlerSnapshot, HandlerRead, WorkerRead,
       WorkerSnapshot, CompareCursor, ReadBoundary, scanStockReceipts, applyStockScan, CheckReceipt,
       StoreReceipt, Abandon, Finish,
       SnapshotChain, ReadStore
<1>5. ASSUME NEW p \in Scanners
      PROVE  /\ pc'[p] \in Steps
             /\ head'[p] \in 0 .. MaxBlocks
             /\ seen'[p] \in [offers : SUBSET Offers, cursor : RefType] /\ seen'[p].cursor.id <= mined'
  <2>1. /\ pc[p] \in Steps /\ head[p] \in 0 .. MaxBlocks
        /\ seen[p] \in [offers : SUBSET Offers, cursor : RefType] /\ seen[p].cursor.id <= mined
      BY DEF TypeOK, RefsKnown
  <2>2. /\ mined' \in Nat /\ mined \in Nat /\ mined <= mined' /\ Start \in RefType /\ Start.id = 0
        /\ \A ref \in RefType : ref.id \in Int
      BY ChainFollows, ChainTypes, RefFacts DEF Start
  <2>3. seen[p].cursor.id <= mined'
      BY <2>1, <2>2
  <2>4. Len(chain) \in 0 .. MaxBlocks /\ 0 \in 0 .. MaxBlocks
      BY <1>1, ChainTypes, ConstantFacts
  <2>5. /\ [offers |-> stored, cursor |-> cursor] \in [offers : SUBSET Offers, cursor : RefType]
        /\ cursor.id <= mined'
      BY <2>2 DEF TypeOK, RefsKnown
  <2>6. [offers |-> {}, cursor |-> Start] \in [offers : SUBSET Offers, cursor : RefType]
        /\ Start.id <= mined'
      BY <2>2
  <2>7. CASE Same(p)
      BY <2>1, <2>3, <2>7 DEF Same
  <2>8. CASE Reset(p)
      BY <2>4, <2>6, <2>8 DEF Reset, Steps
  <2>9. ASSUME NEW before, NEW after \in {"snapshot", "ready"}, Snapshot(p, before, after)
        PROVE  /\ pc'[p] \in Steps
               /\ head'[p] \in 0 .. MaxBlocks
               /\ seen'[p] \in [offers : SUBSET Offers, cursor : RefType] /\ seen'[p].cursor.id <= mined'
      BY <2>1, <2>3, <2>4, <2>9 DEF Snapshot, Steps
  <2>10. ASSUME NEW before, NEW after \in {"read", "ready"}, Read(p, before, after)
         PROVE  /\ pc'[p] \in Steps
                /\ head'[p] \in 0 .. MaxBlocks
                /\ seen'[p] \in [offers : SUBSET Offers, cursor : RefType] /\ seen'[p].cursor.id <= mined'
      BY <2>1, <2>5, <2>10 DEF Read, Steps
  <2>11. ASSUME NEW before, NEW after \in {"compared", "boundary", "apply"}, Looked(p, before, after)
         PROVE  /\ pc'[p] \in Steps
                /\ head'[p] \in 0 .. MaxBlocks
                /\ seen'[p] \in [offers : SUBSET Offers, cursor : RefType] /\ seen'[p].cursor.id <= mined'
      BY <2>1, <2>3, <2>11 DEF Looked, Steps
  <2>12. QED
      BY <2>7, <2>8, <2>9, <2>10, <2>11, PassCases DEF Compares, Bounds, Scans, Checks
<1>6. /\ pc' \in [Scanners -> Steps]
      /\ head' \in [Scanners -> 0 .. MaxBlocks]
      /\ seen' \in [Scanners -> [offers : SUBSET Offers, cursor : RefType]]
    BY <1>4, <1>5
<1>7. blind' \in BOOLEAN
  <2>1. ASSUME NEW p \in Scanners, Applies(p) PROVE blind' \in BOOLEAN
      BY <2>1 DEF Applies
  <2>2. QED
      BY <2>1, StoreCases DEF Stores, TypeOK
<1>8. TypeOK'
    BY <1>1, <1>2, <1>3, <1>6, <1>7 DEF TypeOK, Blocks
<1>9. QED
    BY <1>5, <1>8, ScansStep, EvidenceTypes DEF RefsKnown

-----------------------------------------------------------------------------
(* References from one state to the next. *)

LEMMA RefStep ==
    ASSUME TypeOK, [Next]_vars, NEW ref \in RefType, ref.id <= mined
    PROVE  /\ On(chain', ref) => On(chain, ref)
           /\ On(chain, ref) /\ ref.height <= Len(chain') => On(chain', ref)
<1>1. ref \in Refs /\ Follows(chain, chain', mined)
    BY RefFacts, ChainFollows
<1>2. QED
    BY <1>1, NeverBack, StaysOn

\* Below a block that is still there, all are.
LEMMA BelowStays ==
    ASSUME TypeOK, [Next]_vars, NEW top \in RefType, On(chain', top),
           NEW ref \in RefType, ref.id <= mined, On(chain, ref), ref.height <= top.height
    PROVE  On(chain', ref)
<1>1. ref.height \in Nat /\ top.height \in Nat /\ Len(chain') \in Nat
    BY RefFacts, ChainFollows DEF Follows
<1>2. CASE top.height = 0
    BY <1>1, <1>2 DEF On
<1>3. CASE top.height # 0
    BY <1>1, <1>3, RefStep DEF On
<1>4. QED
    BY <1>2, <1>3

\* Blocks at heights that both chains have are the same.
LEMMA BlocksKept ==
    ASSUME TypeOK, [Next]_vars, NEW h \in Nat, 1 <= h, h <= Len(chain), h <= Len(chain')
    PROVE  chain'[h] = chain[h] /\ h \in 1 .. Len(chain) /\ h \in 1 .. Len(chain')
BY ChainFollows DEF Follows

LEMMA EvidenceStep ==
    ASSUME IInv, [Next]_vars
    PROVE  EvidenceBelowCursor'
<1> USE DEF IInv
<1>1. SUFFICES ASSUME ~blind', On(chain', cursor'), NEW r \in Receipts, r \notin submitted'
               PROVE  On(chain', evidence'[r]) /\ evidence'[r].height <= cursor'.height
    BY CanonicalIsOnNext DEF EvidenceBelowCursor
<1>2. /\ cursor \in RefType /\ evidence[r] \in RefType /\ cursor.id <= mined /\ evidence[r].id <= mined
      /\ cursor'.height \in Nat
    BY EvidenceTypes, RefFacts DEF TypeOK, RefsKnown
<1>3. ~blind /\ On(chain, cursor) /\ r \notin submitted =>
          On(chain, evidence[r]) /\ evidence[r].height <= cursor.height
    BY CanonicalIsOn DEF EvidenceBelowCursor
<1>4. CASE UNCHANGED <<evidence, cursor, submitted, blind>>
  <2>1. /\ On(chain', cursor) /\ r \notin submitted /\ ~blind
        /\ evidence'[r] = evidence[r] /\ cursor' = cursor
      BY <1>1, <1>4
  <2>2. On(chain, evidence[r]) /\ evidence[r].height <= cursor.height
      BY <1>2, <1>3, <2>1, RefStep
  <2>3. On(chain', evidence[r])
      BY <1>2, <2>1, <2>2, BelowStays
  <2>4. QED
      BY <2>1, <2>2, <2>3
<1>5. ASSUME NEW p \in Scanners, Applies(p)
      PROVE  On(chain', evidence'[r]) /\ evidence'[r].height <= cursor'.height
  <2>1. /\ chain' = chain /\ cursor' = scan[p].cursor /\ submitted' = submitted
        /\ Scanned(p) /\ Bounded(p) /\ cursor = seen[p].cursor
        /\ ~scan[p].reset => ~blind /\ ~scan[p].slipped
    <3>1. blind' = (~scan[p].reset /\ (blind \/ scan[p].slipped)) /\ Scanned(p)
        BY <1>5 DEF Applies
    <3>2. QED
        BY <1>1, <1>5, <3>1 DEF Applies, Bounded
  <2>2. /\ \A q \in DOMAIN scan[p].updates :
              On(chain, scan[p].updates[q]) /\ scan[p].updates[q].height <= cursor'.height
        /\ ~scan[p].reset => On(chain, cursor) /\ cursor.height <= cursor'.height
      BY <1>1, <2>1, CanonicalIsOn DEF ScanOfOneChain
  <2>3. PICK kept : /\ kept = IF scan[p].reset THEN [q \in Receipts |-> NoProof] ELSE evidence
                    /\ evidence' = Credit(kept, scan[p].updates)
      BY <1>5 DEF Applies
  <2>4. CASE r \in DOMAIN scan[p].updates /\ r[1] \in stored
    <3>1. evidence'[r] = scan[p].updates[r]
        BY <2>3, <2>4, CreditIs
    <3>2. QED
        BY <2>1, <2>2, <2>4, <3>1
  <2>5. CASE ~(r \in DOMAIN scan[p].updates /\ r[1] \in stored)
    <3>1. evidence'[r] = kept[r]
        BY <2>3, <2>5, CreditIs
    <3>2. CASE scan[p].reset
        BY <1>2, <2>3, <3>1, <3>2 DEF On, NoProof
    <3>3. CASE ~scan[p].reset
      <4>1. evidence'[r] = evidence[r]
          BY <2>3, <3>1, <3>3
      <4>2. On(chain, evidence[r]) /\ evidence[r].height <= cursor.height /\ cursor.height <= cursor'.height
          BY <1>1, <1>3, <2>1, <2>2, <3>3
      <4>3. evidence[r].height \in Nat /\ cursor.height \in Nat
          BY <1>2, RefFacts
      <4>4. QED
          BY <1>2, <2>1, <4>1, <4>2, <4>3
    <3>4. QED
        BY <3>2, <3>3
  <2>6. QED
      BY <2>4, <2>5
<1>6. ASSUME NEW p \in Scanners, Stores(p)
      PROVE  On(chain', evidence'[r]) /\ evidence'[r].height <= cursor'.height
  <2>1. chain' = chain /\ cursor' = cursor /\ ~blind /\ r \notin submitted /\ r \notin DOMAIN scan[p].updates
      BY <1>1, <1>6 DEF Stores
  <2>2. evidence'[r] = evidence[r]
      BY <1>6, <2>1, CreditIs DEF Stores
  <2>3. QED
      BY <1>1, <1>3, <2>1, <2>2
<1>7. QED
    BY <1>4, <1>5, <1>6, StoreCases

LEMMA OneChainStep ==
    ASSUME IInv, [Next]_vars
    PROVE  ScanOfOneChain'
<1> USE DEF IInv
<1>1. SUFFICES ASSUME NEW p \in Scanners, Bounded(p)', On(chain', scan'[p].cursor)
               PROVE  /\ Scanned(p)' => \A r \in DOMAIN scan'[p].updates :
                            /\ On(chain', scan'[p].updates[r])
                            /\ scan'[p].updates[r].height <= scan'[p].cursor.height
                      /\ ~scan'[p].reset /\ ~scan'[p].slipped =>
                            /\ On(chain', seen'[p].cursor)
                            /\ seen'[p].cursor.height <= scan'[p].cursor.height
    BY CanonicalIsOnNext DEF ScanOfOneChain
<1>2. CASE Same(p)
  <2>1. /\ Bounded(p) /\ (Scanned(p)' <=> Scanned(p)) /\ scan'[p] = scan[p] /\ seen'[p] = seen[p]
        /\ scan[p].cursor \in RefType /\ scan[p].cursor.id <= mined
        /\ seen[p].cursor \in RefType /\ seen[p].cursor.id <= mined
        /\ Scanned(p) => \A r \in DOMAIN scan[p].updates :
              scan[p].updates[r] \in RefType /\ scan[p].updates[r].id <= mined
      BY <1>1, <1>2 DEF Same, Scanned, Bounded, ScansTyped, RefsKnown, TypeOK
  <2>2. On(chain', scan[p].cursor) /\ On(chain, scan[p].cursor)
      BY <1>1, <2>1, RefStep
  <2>3. /\ Scanned(p) => \A r \in DOMAIN scan[p].updates :
              On(chain, scan[p].updates[r]) /\ scan[p].updates[r].height <= scan[p].cursor.height
        /\ ~scan[p].reset /\ ~scan[p].slipped =>
              On(chain, seen[p].cursor) /\ seen[p].cursor.height <= scan[p].cursor.height
      BY <2>1, <2>2, CanonicalIsOn DEF ScanOfOneChain
  <2>4. /\ Scanned(p) => \A r \in DOMAIN scan[p].updates : On(chain', scan[p].updates[r])
        /\ ~scan[p].reset /\ ~scan[p].slipped => On(chain', seen[p].cursor)
      BY <2>1, <2>2, <2>3, BelowStays
  <2>5. QED
      BY <2>1, <2>3, <2>4
<1>3. CASE Bounds(p)
  <2>1. chain' = chain /\ seen'[p] = seen[p] /\ pc[p] = "compared" /\ ~Scanned(p)'
      BY <1>3 DEF Bounds, Looked, Scanned
  <2>2. /\ scan'[p].reset = scan[p].reset /\ scan'[p].cursor.height = ScanTo(p) /\ Aimed(p)
        /\ scan'[p].slipped = (scan[p].matched /\ ~Canonical(seen[p].cursor))
      BY <1>3, BoundFinds
  <2>3. ASSUME ~scan'[p].reset, ~scan'[p].slipped
        PROVE  On(chain', seen'[p].cursor) /\ seen'[p].cursor.height <= scan'[p].cursor.height
    <3>1. Canonical(seen[p].cursor)
        BY <2>1, <2>2, <2>3 DEF ScansAim
    <3>2. /\ ScanFrom(p, scan[p].reset) = seen[p].cursor.height + 1 /\ ScanFrom(p, scan[p].reset) <= ScanTo(p)
          /\ seen[p].cursor.height \in Nat /\ ScanTo(p) \in Nat
        BY <2>2, <2>3, ScanBounds, RefFacts DEF TypeOK
    <3>3. seen[p].cursor.height <= ScanTo(p)
        BY <3>2
    <3>4. QED
        BY <2>1, <2>2, <3>1, <3>3, CanonicalIsOn
  <2>4. QED
      BY <2>1, <2>3
<1>4. CASE Scans(p)
  <2>1. chain' = chain /\ seen'[p] = seen[p]
      BY <1>4 DEF Scans, Looked
  <2>2. /\ scan'[p].cursor = scan[p].cursor /\ scan[p].cursor.height = ScanTo(p) /\ Bounded(p)
        /\ scan'[p].reset = scan[p].reset /\ scan'[p].slipped = scan[p].slipped
        /\ Canonical(scan[p].cursor)
        /\ \A r \in DOMAIN scan'[p].updates : \E h \in ScanFrom(p, scan[p].reset) .. ScanTo(p) :
              h \in 1 .. Len(chain) /\ scan'[p].updates[r] = Block(h)
      BY <1>4, ScanFinds
  <2>3. \A h \in 1 .. Len(chain) : On(chain, Block(h)) /\ Block(h).height = h
      BY ChainTypes DEF On, Block
  <2>4. \A r \in DOMAIN scan'[p].updates :
            /\ On(chain', scan'[p].updates[r])
            /\ scan'[p].updates[r].height <= scan'[p].cursor.height
      BY <2>1, <2>2, <2>3
  <2>5. ~scan[p].reset /\ ~scan[p].slipped =>
            On(chain, seen[p].cursor) /\ seen[p].cursor.height <= scan[p].cursor.height
      BY <2>2, CanonicalIsOn DEF ScanOfOneChain
  <2>6. QED
      BY <2>1, <2>2, <2>4, <2>5
<1>5. QED
  <2>1. Same(p) \/ Bounds(p) \/ Scans(p)
      BY <1>1, PassCases, CheckFinds DEF Reset, Snapshot, Read, Compares, Checks, Looked, Scanned, Bounded
  <2>2. QED
      BY <1>2, <1>3, <1>4, <2>1

\* What a reorganisation that is not deep leaves.
LEMMA TrustedKept ==
    ASSUME TypeOK, [Next]_vars, ~deep', NEW h \in Int, h <= Len(chain), Trusted(h)
    PROVE  h <= Len(chain')
<1>1. Len(chain) \in Nat
    BY ChainTypes
<1>2. CASE Mine
    BY <1>1, <1>2, MineFacts
<1>3. CASE Reorg
  <2>1. ~Trusted(Len(chain') + 1) /\ Len(chain') \in Nat
      BY <1>3, ReorgFacts
  <2>2. cursor.height \in Nat /\ \A p \in Scanners : ConfirmedHeight(p) \in Int
      BY RefFacts, ConstantFacts DEF TypeOK, ConfirmedHeight
  <2>3. SUFFICES ASSUME h >= Len(chain') + 1 PROVE FALSE
      BY <2>1
  <2>4. Trusted(Len(chain') + 1)
      BY <2>1, <2>2, <2>3 DEF Trusted
  <2>5. QED
      BY <2>1, <2>4
<1>4. CASE UNCHANGED <<chain, mined, reorgs, deep>>
    BY <1>4
<1>5. QED
    BY <1>2, <1>3, <1>4, ChainCases

LEMMA DeepStays == ASSUME TypeOK, [Next]_vars, ~deep' PROVE ~deep
BY ChainCases, ReorgFacts, MineFacts DEF history

LEMMA HeadTypes ==
    ASSUME TypeOK
    PROVE  /\ \A p \in Scanners : ConfirmedHeight(p) \in Int /\ seen[p].cursor.height \in Nat
           /\ cursor.height \in Nat
BY RefFacts, ConstantFacts DEF TypeOK, ConfirmedHeight

LEMMA TrustedStep ==
    ASSUME IInv, [Next]_vars
    PROVE  TrustedStay'
<1> USE DEF IInv
<1>1. SUFFICES ASSUME ~deep'
               PROVE  /\ cursor'.height <= Len(chain')
                      /\ \A p \in Scanners : head'[p] - (Confirmations - 1) <= Len(chain')
    BY DEF TrustedStay, ConfirmedHeight
<1>2. /\ ~deep /\ cursor.height <= Len(chain)
      /\ \A p \in Scanners : ConfirmedHeight(p) <= Len(chain)
    BY <1>1, DeepStays DEF TrustedStay
<1>3. /\ \A p \in Scanners : ConfirmedHeight(p) \in Int
      /\ cursor.height \in Int /\ Len(chain') \in Nat /\ Len(chain) \in Nat
    BY HeadTypes, ChainFollows, ChainTypes DEF Follows
<1>4. cursor.height <= Len(chain') /\ \A p \in Scanners : ConfirmedHeight(p) <= Len(chain')
  <2>1. \A h \in Int : Trusted(h) /\ h <= Len(chain) => h <= Len(chain')
      BY <1>1, TrustedKept
  <2>2. Trusted(cursor.height) /\ \A p \in Scanners : Trusted(ConfirmedHeight(p))
      BY <1>3 DEF Trusted
  <2>3. QED
      BY <1>2, <1>3, <2>1, <2>2
<1>5. cursor'.height <= Len(chain')
  <2>1. ASSUME NEW p \in Scanners, Applies(p) PROVE cursor'.height <= ConfirmedHeight(p)
      BY <1>2, <2>1 DEF Applies, ScansCover
  <2>2. cursor'.height \in Int
      BY EvidenceTypes, RefFacts
  <2>3. QED
      BY <1>3, <1>4, <2>1, <2>2, StoreCases DEF Stores
<1>6. ASSUME NEW p \in Scanners PROVE head'[p] - (Confirmations - 1) <= Len(chain')
  <2>1. CASE head'[p] = head[p]
      BY <1>4, <2>1 DEF ConfirmedHeight
  <2>2. CASE head'[p] = 0
      BY <1>3, <2>2, ConstantFacts
  <2>3. CASE head'[p] = Len(chain) /\ chain' = chain
      BY <1>3, <2>3, ConstantFacts
  <2>4. QED
      BY <2>1, <2>2, <2>3, PassCases DEF Same, Reset, Snapshot, Read, Compares, Bounds, Scans, Checks, Looked
<1>7. QED
    BY <1>5, <1>6

\* Blocks up to a trusted height are kept, as long as no trusted block is taken away.
LEMMA TrustedBlocksKept ==
    ASSUME IInv, [Next]_vars, ~deep', NEW h \in Nat, 1 <= h, Trusted(h)
    PROVE  chain'[h] = chain[h] /\ h \in 1 .. Len(chain) /\ h \in 1 .. Len(chain')
<1>1. h <= Len(chain)
  <2>1. ~deep
      BY DeepStays DEF IInv
  <2>2. /\ \A p \in Scanners : ConfirmedHeight(p) \in Int /\ ConfirmedHeight(p) <= Len(chain)
        /\ cursor.height \in Nat /\ cursor.height <= Len(chain) /\ Len(chain) \in Nat
      BY <2>1, HeadTypes, ChainTypes DEF IInv, TrustedStay
  <2>3. QED
      BY <2>2 DEF Trusted
<1>2. h <= Len(chain')
    BY <1>1, TrustedKept DEF IInv
<1>3. QED
    BY <1>1, <1>2, BlocksKept DEF IInv

LEMMA KnowStep ==
    ASSUME IInv, [Next]_vars
    PROVE  PassesKnow'
<1> USE DEF IInv
<1> SUFFICES ASSUME NEW p \in Scanners
             PROVE  /\ pc'[p] = "read" =>
                          p \in Workers /\ \A o \in stored' : o \in seen'[p].offers \cup overlooked'
                    /\ ~deep' /\ pc'[p] \in Passing =>
                          \A h \in 1 .. head'[p] - (Confirmations - 1) : \A r \in chain'[h].events :
                              r[1] \in seen'[p].offers \cup overlooked'
    BY DEF PassesKnow, ConfirmedHeight
<1>1. overlooked \subseteq overlooked'
    BY OffersGrow
<1>2. ASSUME pc'[p] = "read"
      PROVE  p \in Workers /\ \A o \in stored' : o \in seen'[p].offers \cup overlooked'
  <2>1. CASE Same(p)
    <3>1. /\ p \in Workers /\ pc[p] = "read" /\ seen'[p] = seen[p]
          /\ \A o \in stored : o \in seen[p].offers \cup overlooked
        BY <1>2, <2>1 DEF Same, PassesKnow
    <3>2. QED
        BY <3>1, OffersGrow
  <2>2. CASE p \in Workers /\ Read(p, "idle", "read")
      BY <2>2 DEF Read
  <2>3. QED
      BY <1>2, <2>1, <2>2, PassCases DEF Reset, Snapshot, Read, Compares, Bounds, Scans, Checks, Looked
<1>3. ASSUME ~deep', pc'[p] \in Passing,
             NEW h \in 1 .. head'[p] - (Confirmations - 1), NEW r \in chain'[h].events
      PROVE  r[1] \in seen'[p].offers \cup overlooked'
  <2>1. ConfirmedHeight(p) \in Int /\ Len(chain) \in Nat /\ ~deep
      BY <1>3, HeadTypes, ChainTypes, DeepStays
  <2>2. ASSUME head'[p] = head[p]
        PROVE  h \in 1 .. ConfirmedHeight(p) /\ chain'[h] = chain[h] /\ h \in 1 .. Len(chain)
    <3>1. h \in 1 .. ConfirmedHeight(p) /\ h \in Nat /\ 1 <= h
        BY <2>1, <2>2 DEF ConfirmedHeight
    <3>2. QED
        BY <1>3, <2>1, <3>1, TrustedBlocksKept DEF Trusted
  <2>3. CASE head'[p] = head[p] /\ pc[p] \in Passing /\ seen'[p] = seen[p]
      BY <1>1, <1>3, <2>1, <2>2, <2>3 DEF PassesKnow
  <2>4. CASE Read(p, "snapshot", "ready")
      BY <1>3, <2>2, <2>4 DEF Read, ChainHolds
  <2>5. CASE Snapshot(p, "read", "ready")
    <3>1. chain' = chain /\ seen'[p] = seen[p] /\ head'[p] = Len(chain) /\ pc[p] = "read"
        BY <2>5 DEF Snapshot
    <3>2. h \in 1 .. Len(chain)
        BY <2>1, <3>1, ConstantFacts
    <3>3. r[1] \in stored
        BY <1>3, <3>1, <3>2 DEF ChainHolds
    <3>4. QED
        BY <1>1, <3>1, <3>3 DEF PassesKnow
  <2>6. QED
      BY <1>3, <2>3, <2>4, <2>5, PassCases
      DEF Same, Reset, Snapshot, Read, Compares, Bounds, Scans, Checks, Looked, Passing
<1>4. QED
    BY <1>2, <1>3

LEMMA CoverStep ==
    ASSUME IInv, [Next]_vars
    PROVE  ScansCover'
<1> USE DEF IInv
<1> DEFINE Lowest(q) == IF scan[q].reset THEN 1 ELSE seen[q].cursor.height + 1
<1>1. SUFFICES ASSUME NEW p \in Scanners, ~deep', Scanned(p)'
               PROVE  /\ scan'[p].cursor.height <= head'[p] - (Confirmations - 1)
                      /\ \A h \in Lowest(p)' .. scan'[p].cursor.height : \A r \in chain'[h].events :
                            r \in DOMAIN scan'[p].updates \/ r[1] \in overlooked'
    BY DEF ScansCover, ConfirmedHeight
<1>2. /\ overlooked \subseteq overlooked' /\ ~deep /\ ConfirmedHeight(p) \in Int
      /\ seen[p].cursor.height \in Nat
    BY <1>1, OffersGrow, DeepStays, HeadTypes
<1>3. CASE Same(p)
  <2>1. Scanned(p) /\ scan'[p] = scan[p] /\ seen'[p] = seen[p] /\ head'[p] = head[p]
        /\ scan[p].cursor.height \in Nat
      BY <1>1, <1>3, RefFacts DEF Same, Scanned, Bounded, ScansTyped
  <2>2. /\ scan[p].cursor.height <= ConfirmedHeight(p)
        /\ \A h \in Lowest(p) .. scan[p].cursor.height : \A r \in chain[h].events :
              r \in DOMAIN scan[p].updates \/ r[1] \in overlooked
      BY <1>2, <2>1 DEF ScansCover
  <2>3. Lowest(p)' = Lowest(p) /\ Lowest(p) \in Nat /\ Lowest(p) >= 1
      BY <1>2, <2>1
  <2> HIDE DEF Lowest
  <2>4. ASSUME NEW h \in Lowest(p) .. scan[p].cursor.height PROVE chain'[h] = chain[h]
    <3>1. h \in Nat /\ 1 <= h /\ h <= ConfirmedHeight(p)
        BY <1>2, <2>1, <2>2, <2>3
    <3>2. QED
        BY <1>1, <3>1, TrustedBlocksKept DEF Trusted
  <2>5. QED
      BY <1>2, <2>1, <2>2, <2>3, <2>4 DEF ConfirmedHeight
<1>4. CASE Scans(p)
  <2>1. chain' = chain /\ seen'[p] = seen[p] /\ head'[p] = head[p] /\ pc[p] = "boundary"
      BY <1>4 DEF Scans, Looked
  <2>2. /\ scan'[p].cursor.height = ScanTo(p) /\ scan'[p].reset = scan[p].reset /\ Aimed(p)
        /\ \A h \in ScanFrom(p, scan[p].reset) .. ScanTo(p) : \A r \in chain[h].events :
              r[1] \in seen[p].offers => r \in DOMAIN scan'[p].updates
      BY <1>4, ScanFinds
  <2>3. /\ ScanTo(p) <= ConfirmedHeight(p) /\ Lowest(p)' = ScanFrom(p, scan[p].reset)
        /\ ScanFrom(p, scan[p].reset) \in Nat /\ ScanTo(p) \in Nat /\ 1 <= ScanFrom(p, scan[p].reset)
    <3>1. Lowest(p)' = ScanFrom(p, scan[p].reset)
        BY <2>1, <2>2 DEF ScanFrom
    <3>2. QED
        BY <2>2, <3>1, ScanBounds
  <2> HIDE DEF Lowest
  <2>4. ASSUME NEW h \in ScanFrom(p, scan[p].reset) .. ScanTo(p), NEW r \in chain[h].events
        PROVE  r \in DOMAIN scan'[p].updates \/ r[1] \in overlooked'
    <3>1. h \in 1 .. ConfirmedHeight(p)
        BY <1>2, <2>3
    <3>2. r[1] \in seen[p].offers \cup overlooked
        BY <1>2, <2>1, <3>1 DEF PassesKnow, Passing
    <3>3. QED
        BY <1>2, <2>2, <3>2
  <2>5. QED
      BY <2>1, <2>2, <2>3, <2>4 DEF ConfirmedHeight
<1>5. QED
  <2>1. Same(p) \/ Scans(p)
      BY <1>1, PassCases, CheckFinds DEF Reset, Snapshot, Read, Compares, Bounds, Looked, Scanned
  <2>2. QED
      BY <1>3, <1>4, <2>1

LEMMA CursorStep ==
    ASSUME IInv, [Next]_vars
    PROVE  CursorCoversReceipts'
<1> USE DEF IInv
<1>1. SUFFICES ASSUME ~deep', NEW r \in Receipts, NEW h \in 1 .. cursor'.height, r \in chain'[h].events
               PROVE  evidence'[r] # NoProof \/ r[1] \in overlooked'
    BY DEF CursorCoversReceipts
<1>2. /\ overlooked \subseteq overlooked' /\ ~deep /\ cursor.height \in Nat
      /\ cursor'.height \in Nat /\ h \in Nat /\ 1 <= h
    BY <1>1, OffersGrow, DeepStays, HeadTypes, EvidenceTypes, RefFacts
<1>3. ASSUME h \in 1 .. cursor.height PROVE evidence[r] # NoProof \/ r[1] \in overlooked'
  <2>1. chain'[h] = chain[h]
      BY <1>1, <1>2, <1>3, TrustedBlocksKept DEF Trusted
  <2>2. QED
      BY <1>1, <1>2, <1>3, <2>1 DEF CursorCoversReceipts
<1>4. CASE UNCHANGED <<evidence, cursor, submitted, blind>>
    BY <1>1, <1>3, <1>4
<1>5. ASSUME NEW p \in Scanners, pc[p] = "apply", r \in DOMAIN scan[p].updates, r[1] \in stored,
             NEW kept, evidence' = Credit(kept, scan[p].updates)
      PROVE  evidence'[r] # NoProof
  <2>1. evidence'[r] = scan[p].updates[r]
      BY <1>5, CreditIs
  <2>2. scan[p].updates[r].height > 0
      BY <1>5 DEF ScansTyped
  <2>3. QED
      BY <2>1, <2>2 DEF NoProof
<1>6. ASSUME NEW p \in Scanners, Applies(p) PROVE evidence'[r] # NoProof \/ r[1] \in overlooked'
  <2>1. chain' = chain /\ Scanned(p) /\ pc[p] = "apply" /\ cursor = seen[p].cursor
        /\ cursor' = scan[p].cursor
      BY <1>6 DEF Applies, Scanned
  <2>2. PICK kept : /\ kept = IF scan[p].reset THEN [q \in Receipts |-> NoProof] ELSE evidence
                    /\ evidence' = Credit(kept, scan[p].updates)
      BY <1>6 DEF Applies
  <2>3. /\ scan[p].cursor.height <= ConfirmedHeight(p) /\ ConfirmedHeight(p) \in Int
        /\ \A g \in (IF scan[p].reset THEN 1 ELSE cursor.height + 1) .. scan[p].cursor.height :
              \A q \in chain[g].events : q \in DOMAIN scan[p].updates \/ q[1] \in overlooked
      BY <1>2, <2>1, HeadTypes DEF ScansCover
  <2>4. h \in 1 .. Len(chain) /\ r[1] \in stored
    <3>1. Trusted(h)
        BY <1>1, <1>2, <2>1, <2>3 DEF Trusted
    <3>2. QED
        BY <1>1, <1>2, <2>1, <3>1, TrustedBlocksKept DEF ChainHolds
  <2>5. CASE r \in DOMAIN scan[p].updates
      BY <1>5, <2>1, <2>2, <2>4, <2>5
  <2>6. CASE r \notin DOMAIN scan[p].updates
    <3>1. evidence'[r] = kept[r]
        BY <2>2, <2>6, CreditIs
    <3>2. CASE scan[p].reset \/ h > cursor.height
      <4>1. h \in (IF scan[p].reset THEN 1 ELSE cursor.height + 1) .. scan[p].cursor.height
          BY <1>1, <1>2, <2>1, <3>2
      <4>2. QED
          BY <1>1, <1>2, <2>1, <2>3, <2>6, <4>1
    <3>3. CASE ~scan[p].reset /\ h <= cursor.height
        BY <1>2, <1>3, <2>2, <3>1, <3>3
    <3>4. QED
        BY <1>2, <3>2, <3>3
  <2>7. QED
      BY <2>5, <2>6
<1>7. ASSUME NEW p \in Scanners, Stores(p) PROVE evidence'[r] # NoProof \/ r[1] \in overlooked'
  <2>1. pc[p] = "apply" /\ cursor' = cursor /\ evidence' = Credit(evidence, scan[p].updates)
      BY <1>7 DEF Stores
  <2>2. CASE r \in DOMAIN scan[p].updates /\ r[1] \in stored
      BY <1>5, <2>1, <2>2
  <2>3. CASE ~(r \in DOMAIN scan[p].updates /\ r[1] \in stored)
      BY <1>1, <1>3, <2>1, <2>3, CreditIs
  <2>4. QED
      BY <2>2, <2>3
<1>8. QED
    BY <1>4, <1>6, <1>7, StoreCases

LEMMA AdvanceStep ==
    ASSUME IInv, [Next]_vars
    PROVE  WorkersAdvance'
<1> USE DEF IInv
<1>1. SUFFICES ASSUME reorgs' = 0 PROVE WorkersAdvance'
    BY DEF WorkersAdvance
<1>2. reorgs = 0 /\ Len(chain) \in Nat /\ Len(chain') \in Nat /\ Len(chain) <= Len(chain')
      /\ \A h \in 1 .. Len(chain) : chain'[h] = chain[h]
  <2>1. reorgs \in Nat /\ Len(chain) \in Nat
      BY ChainTypes, ConstantFacts DEF TypeOK
  <2>2. ~Reorg
      BY <1>1, <2>1, ReorgFacts
  <2>3. CASE Mine
      BY <1>1, <2>1, <2>3, MineFacts
  <2>4. QED
      BY <1>1, <2>1, <2>2, <2>3, ChainCases
<1>3. ASSUME NEW ref \in RefType, Buried(ref) PROVE Buried(ref)'
  <2>1. CASE ref.height = 0
      BY <2>1 DEF Buried
  <2>2. CASE ref.height # 0
    <3>1. ref.height \in Nat /\ Canonical(ref) /\ ref.height <= Len(chain) - (Confirmations - 1)
        BY <1>3, <2>2, RefFacts DEF Buried
    <3>2. ref.height \in 1 .. Len(chain) /\ ref.height <= Len(chain') - (Confirmations - 1)
        BY <1>2, <2>2, <3>1, ConstantFacts DEF Canonical
    <3>3. ref.height <= Len(chain') /\ chain'[ref.height].id = ref.id
        BY <1>2, <2>2, <3>1, <3>2 DEF Canonical
    <3>4. QED
        BY <3>2, <3>3 DEF Buried, Canonical
  <2>3. QED
      BY <2>1, <2>2
<1>4. \A ref \in RefType : ref.height \in Nat
    BY RefFacts
<1>5. Buried(cursor)'
  <2>1. CASE cursor' = cursor
      BY <1>2, <1>3, <2>1 DEF WorkersAdvance, TypeOK
  <2>2. ASSUME NEW p \in Scanners, Applies(p) PROVE Buried(cursor)'
    <3>1. scan[p].cursor \in RefType /\ Buried(scan[p].cursor) /\ cursor' = scan[p].cursor
        BY <1>2, <2>2 DEF Applies, Scanned, Bounded, ScansTyped, WorkersAdvance
    <3>2. PICK ref : ref = scan[p].cursor
        OBVIOUS
    <3>3. Buried(ref)' /\ cursor' = ref
        BY <1>3, <3>1, <3>2
    <3>4. QED
        BY <3>3 DEF Buried, Canonical
  <2>3. QED
      BY <2>1, <2>2, StoreCases DEF Stores
<1>6. \A p \in Scanners : head'[p] <= Len(chain')
  <2>1. \A p \in Scanners : head[p] \in Nat /\ head[p] <= Len(chain)
      BY <1>2, ConstantFacts DEF WorkersAdvance, TypeOK
  <2>2. \A p \in Scanners : head'[p] \in {head[p], 0, Len(chain)}
      BY PassCases DEF Same, Reset, Snapshot, Read, Compares, Bounds, Scans, Checks, Looked
  <2>3. QED
      BY <1>2, <2>1, <2>2
<1>7. ASSUME NEW p \in Scanners, Bounds(p)
      PROVE  scan'[p].cursor \in RefType /\ Buried(scan'[p].cursor)
  <2>1. /\ scan'[p].cursor \in RefType /\ scan'[p].cursor.height = ScanTo(p)
        /\ Canonical(scan'[p].cursor) /\ Aimed(p)
      BY <1>7, BoundFinds
  <2>2. ScanTo(p) <= ConfirmedHeight(p) /\ ConfirmedHeight(p) \in Int /\ ScanTo(p) \in Nat
      BY <2>1, ScanBounds
  <2>3. ConfirmedHeight(p) <= Len(chain) - (Confirmations - 1)
    <3>1. head[p] \in Nat /\ head[p] <= Len(chain)
        BY <1>2, ConstantFacts DEF WorkersAdvance, TypeOK
    <3>2. QED
        BY <1>2, <3>1, ConstantFacts DEF ConfirmedHeight
  <2>4. ScanTo(p) <= Len(chain) - (Confirmations - 1)
      BY <1>2, <2>2, <2>3, ConstantFacts
  <2>5. QED
      BY <2>1, <2>4 DEF Buried
<1>8. ASSUME NEW p \in Scanners, Bounded(p)' PROVE Buried(scan[p].cursor)'
  <2>1. Same(p) \/ Bounds(p) \/ Scans(p)
      BY <1>8, PassCases, CheckFinds DEF Reset, Snapshot, Read, Compares, Checks, Looked, Scanned, Bounded
  <2>2. scan'[p].cursor \in RefType /\ Buried(scan'[p].cursor)
    <3>1. CASE Same(p)
        BY <1>2, <1>8, <3>1 DEF Same, Scanned, Bounded, ScansTyped, WorkersAdvance
    <3>2. CASE Scans(p)
      <4>1. scan'[p].cursor = scan[p].cursor /\ Bounded(p)
          BY <3>2, ScanFinds
      <4>2. QED
          BY <1>2, <4>1 DEF ScansTyped, WorkersAdvance
    <3>3. QED
        BY <1>7, <2>1, <3>1, <3>2
  <2>3. PICK ref : ref = scan'[p].cursor
      OBVIOUS
  <2>4. Buried(ref)'
      BY <1>3, <2>2, <2>3
  <2>5. QED
      BY <2>3, <2>4 DEF Buried, Canonical
<1>9. ASSUME NEW w \in Workers
      PROVE  /\ pc'[w] # "idle" => Buried(seen[w].cursor)'
             /\ pc'[w] \in Passing /\ seen'[w].cursor.height > 0 =>
                   seen'[w].cursor.height <= head'[w] - (Confirmations - 1)
             /\ pc'[w] = "compared" /\ seen'[w].cursor.height > 0 => ~scan'[w].reset
             /\ Bounded(w)' => scan'[w].cursor.height > seen'[w].cursor.height
             /\ pc'[w] # "snapshot"
  <2>1. w \in Scanners /\ w \notin Handlers
      BY ConstantFacts
  <2>2. /\ pc[w] # "idle" => Buried(seen[w].cursor)
        /\ pc[w] \in Passing /\ seen[w].cursor.height > 0 =>
              seen[w].cursor.height <= ConfirmedHeight(w)
        /\ pc[w] = "compared" /\ seen[w].cursor.height > 0 => ~scan[w].reset
        /\ Bounded(w) => scan[w].cursor.height > seen[w].cursor.height
        /\ pc[w] # "snapshot" /\ Buried(cursor)
        /\ seen[w].cursor \in RefType /\ cursor \in RefType /\ seen[w].cursor.height \in Nat
      BY <1>2, <1>4, <2>1 DEF WorkersAdvance, TypeOK
  <2>3. /\ \/ Same(w) \/ Reset(w) \/ Snapshot(w, "read", "ready") \/ Read(w, "idle", "read")
           \/ Compares(w) \/ Bounds(w) \/ Scans(w)
        /\ pc'[w] # "snapshot"
      BY <2>1, <2>2, PassCases DEF Same, Reset, Snapshot, Read, Compares, Bounds, Scans, Checks, Looked
  <2>4. ASSUME pc'[w] # "idle" PROVE Buried(seen[w].cursor)'
    <3>1. PICK ref : ref = seen'[w].cursor
        OBVIOUS
    <3>2. ref \in RefType /\ Buried(ref)
        BY <2>2, <2>3, <2>4, <3>1 DEF Same, Reset, Snapshot, Read, Compares, Bounds, Scans, Looked
    <3>3. Buried(ref)'
        BY <1>3, <3>2
    <3>4. QED
        BY <3>1, <3>3 DEF Buried, Canonical
  <2>5. ASSUME pc'[w] \in Passing, seen'[w].cursor.height > 0
        PROVE  seen'[w].cursor.height <= head'[w] - (Confirmations - 1)
    <3>1. CASE Snapshot(w, "read", "ready")
        BY <2>2, <2>5, <3>1 DEF Snapshot, Buried
    <3>2. QED
        BY <2>2, <2>3, <2>5, <3>1
        DEF Same, Reset, Read, Compares, Bounds, Scans, Looked, ConfirmedHeight, Passing
  <2>6. ASSUME pc'[w] = "compared", seen'[w].cursor.height > 0 PROVE ~scan'[w].reset
    <3>1. CASE Same(w)
        BY <2>2, <2>6, <3>1 DEF Same
    <3>2. CASE Compares(w)
      <4>1. seen'[w] = seen[w] /\ pc[w] = "ready" /\ scan'[w].reset = MustReset(w)
          BY <3>2 DEF Compares, Looked
      <4>2. seen[w].cursor.height <= ConfirmedHeight(w) /\ Canonical(seen[w].cursor)
          BY <2>2, <2>6, <4>1 DEF Passing, Buried
      <4>3. ConfirmedHeight(w) \in Int
          BY <2>1, HeadTypes
      <4>4. ~MustReset(w)
          BY <2>2, <4>2, <4>3 DEF MustReset
      <4>5. QED
          BY <4>1, <4>4
    <3>3. QED
        BY <2>3, <2>6, <3>1, <3>2 DEF Reset, Snapshot, Read, Bounds, Scans, Looked
  <2>7. ASSUME Bounded(w)' PROVE scan'[w].cursor.height > seen'[w].cursor.height
    <3>1. CASE Same(w)
        BY <2>2, <2>7, <3>1 DEF Same, Scanned, Bounded
    <3>2. CASE Bounds(w)
      <4>1. seen'[w] = seen[w] /\ pc[w] = "compared"
          BY <3>2 DEF Bounds, Looked
      <4>2. scan'[w].cursor.height = ScanTo(w) /\ Aimed(w)
          BY <2>1, <3>2, BoundFinds
      <4>3. /\ ScanFrom(w, scan[w].reset) <= ScanTo(w) /\ ScanTo(w) \in Nat
            /\ ScanFrom(w, scan[w].reset) \in Nat /\ 1 <= ScanFrom(w, scan[w].reset)
            /\ ~scan[w].reset => ScanFrom(w, scan[w].reset) = seen[w].cursor.height + 1
          BY <2>1, <4>2, ScanBounds
      <4>4. CASE seen[w].cursor.height = 0
          BY <4>1, <4>2, <4>3, <4>4
      <4>5. CASE seen[w].cursor.height > 0
          BY <2>2, <4>1, <4>2, <4>3, <4>5
      <4>6. QED
          BY <2>2, <4>4, <4>5
    <3>3. CASE Scans(w)
      <4>1. seen'[w] = seen[w]
          BY <3>3 DEF Scans, Looked
      <4>2. scan'[w].cursor = scan[w].cursor /\ Bounded(w)
          BY <2>1, <3>3, ScanFinds
      <4>3. QED
          BY <2>2, <4>1, <4>2
    <3>4. QED
        BY <2>3, <2>7, <3>1, <3>2, <3>3 DEF Reset, Snapshot, Read, Compares, Looked, Scanned, Bounded
  <2>8. QED
      BY <2>3, <2>4, <2>5, <2>6, <2>7
<1>10. QED
    BY <1>5, <1>6, <1>8, <1>9 DEF WorkersAdvance, ConfirmedHeight

-----------------------------------------------------------------------------

LEMMA Initially == Init => IInv
<1> SUFFICES ASSUME Init PROVE IInv
    OBVIOUS
<1>1. Start \in RefType /\ NoProof \in RefType /\ Start.height = 0 /\ Start.id = 0 /\ NoProof.id = 0
      /\ NoProof.height = 0
    BY RefFacts DEF Start, NoProof
<1>2. chain = << >> /\ Len(chain) = 0 /\ mined = 0 /\ reorgs = 0 /\ chain \in Seq(Blocks)
    BY DEF Init
<1>3. /\ \A p \in Scanners : pc[p] = "idle" /\ head[p] = 0 /\ seen[p] = [offers |-> {}, cursor |-> Start]
      /\ DOMAIN scan = Scanners /\ stored = {} /\ cursor = Start
      /\ \A r \in Receipts : evidence[r] = NoProof
    BY DEF Init
<1>4. TypeOK
  <2>1. 0 \in 0 .. MaxBlocks /\ 0 \in 0 .. MaxReorgs
      BY ConstantFacts
  <2>2. /\ evidence \in [Receipts -> RefType] /\ pc \in [Scanners -> Steps]
        /\ head \in [Scanners -> 0 .. MaxBlocks] /\ blind \in BOOLEAN
      BY <1>1, <2>1 DEF Init, Steps
  <2>3. seen \in [Scanners -> [offers : SUBSET Offers, cursor : RefType]]
      BY <1>1 DEF Init
  <2>4. QED
      BY <1>1, <1>2, <1>3, <2>1, <2>2, <2>3 DEF TypeOK, Blocks
<1>5. ChainHolds
    BY <1>2 DEF ChainHolds
<1>6. ScansTyped /\ RefsKnown
    BY <1>1, <1>2, <1>3 DEF ScansTyped, RefsKnown, Scanned, Bounded
<1>7. EvidenceBelowCursor /\ ScanOfOneChain
    BY <1>1, <1>3 DEF EvidenceBelowCursor, ScanOfOneChain, Scanned, Bounded, Canonical
<1>8. TrustedStay
    BY <1>1, <1>2, <1>3, ConstantFacts DEF TrustedStay, ConfirmedHeight
<1>9. PassesKnow /\ ScansCover
    BY <1>3 DEF PassesKnow, ScansCover, Scanned, Passing
<1>10. CursorCoversReceipts
    BY <1>1, <1>3 DEF CursorCoversReceipts
<1>11. WorkersAdvance
    BY <1>1, <1>2, <1>3, ConstantFacts DEF WorkersAdvance, Buried, Scanned, Bounded, Passing
<1>12. ScansAim
    BY <1>3 DEF ScansAim, Aimed, Bounded, Scanned
<1>13. QED
    BY <1>4, <1>5, <1>6, <1>7, <1>8, <1>9, <1>10, <1>11, <1>12 DEF IInv

LEMMA Invariant == Spec => []IInv
<1>1. IInv /\ [Next]_vars => IInv'
    BY ChainStep, TypesStep, AimsStep, EvidenceStep, OneChainStep, TrustedStep, KnowStep, CursorStep, CoverStep,
       AdvanceStep DEF IInv
<1>2. QED
    BY Initially, <1>1, PTL DEF Spec

\* What the chain, the store and the passes hold has its type, whatever blocks are taken
\* away and whichever passes fail.
THEOREM TypeCorrect == Spec => []TypeOK
<1>1. IInv => TypeOK
    BY DEF IInv
<1>2. QED
    BY Invariant, <1>1, PTL

\* Every receipt in a block that the cursor has passed is in the store, unless its offer
\* was overlooked, as long as no block is taken away that was taken for confirmed: what
\* scanStockReceipts and applyStockScan promise of receipts that no participant names.
THEOREM CursorCovers == Spec => []CursorCoversReceipts
<1>1. IInv => CursorCoversReceipts
    BY DEF IInv
<1>2. QED
    BY Invariant, <1>1, PTL

\* Once the cursor is on the canonical chain no proof that a scan stored is of a block that
\* was taken away, however deep the reorganisations were, unless the cursor was moved by a
\* scan that compared the hash of the block before it just before that block was taken away
\* (stock-early-pay-reconciliation.ts:35 and :42); a scan that starts again ends that.
THEOREM ReorganisedDropped == Spec => []ReorganisedProofsDropped
<1>1. IInv => ReorganisedProofsDropped
    BY DEF IInv, EvidenceBelowCursor, ReorganisedProofsDropped, EvidenceOnCursorsChain
<1>2. QED
    BY Invariant, <1>1, PTL

\* Without reorganisations it is never a worker's pass that moves the cursor back.
THEOREM WorkersMoveOn == Spec => WorkersDoNotRewind
<1>1. ASSUME IInv, [Next]_vars, cursor'.height < cursor.height, reorgs = 0, NEW w \in Workers
      PROVE  UNCHANGED <<pc[w], scan[w]>>
  <2>1. PICK p \in Scanners : Applies(p)
    <3>1. cursor.height \in Nat
        BY <1>1, HeadTypes DEF IInv
    <3>2. cursor' # cursor
        BY <1>1, <3>1
    <3>3. QED
        BY <1>1, <3>2, StoreCases DEF IInv, Stores
  <2>2. p \notin Workers
    <3>1. SUFFICES ASSUME p \in Workers PROVE FALSE
        OBVIOUS
    <3>2. scan[p].cursor.height > seen[p].cursor.height
        BY <1>1, <2>1, <3>1 DEF IInv, WorkersAdvance, Applies, Bounded
    <3>3. scan[p].cursor.height \in Nat /\ cursor.height \in Nat /\ cursor' = scan[p].cursor
          /\ cursor = seen[p].cursor
        BY <1>1, <2>1, RefFacts, HeadTypes DEF IInv, ScansTyped, Applies, Scanned, Bounded
    <3>4. QED
        BY <1>1, <3>2, <3>3
  <2>3. w \in Scanners /\ w # p
      BY <2>2, ConstantFacts
  <2>4. QED
      BY <2>1, <2>3 DEF Applies, Same
<1>2. IInv /\ [Next]_vars =>
          [cursor'.height < cursor.height /\ reorgs = 0 => \A w \in Workers : UNCHANGED <<pc[w], scan[w]>>]_vars
    BY <1>1
<1>3. QED
    BY Invariant, <1>2, PTL DEF Spec, WorkersDoNotRewind

=============================================================================
