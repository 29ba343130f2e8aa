------------------------------- MODULE TTree -------------------------------
(***************************************************************************)
(* The T-tree of column stores of one tcache_head (src/tcache.c) while the *)
(* cache is built and afterwards.  Every node owns one column store: its   *)
(* rows (item pointers with their tuple header, reduced here to whether    *)
(* vacuum froze it), blkno_min/blkno_max, is_sorted, and the node's        *)
(* children and l_depth/r_depth.                                           *)
(*                                                                         *)
(* tcache_build_main inserts every tuple of the heap scan with             *)
(* tcache_insert_tuple(root) and rebalances at the root, all under the     *)
(* exclusive lwlock, so one insert is one step.  The heap scan returns     *)
(* item pointers in physical order from a start block that a synchronized  *)
(* scan may place anywhere, wrapping round to block 0.  Nothing in the     *)
(* code queues tcache heads or nodes for the columnizer, so no other       *)
(* insert and no compaction-merge ever reaches the tree.  Once READY, page *)
(* pruning marks cached rows dead (tcache_vacuum_column_store).  A cache   *)
(* is dropped when the relation is altered, dropped or truncated and the   *)
(* next scan builds a new one: Rebuild.                                    *)
(*                                                                         *)
(* Asserts are compiled out, as in a production build; a step that would   *)
(* write past a column store or read memory it never wrote is recorded in  *)
(* 'err' and leaves the tree as it was.                                    *)
(***************************************************************************)
EXTENDS Naturals, Sequences, SequencesExt, FiniteSets

CONSTANTS
    Capacity,   \* NUM_ROWS_PER_COLSTORE
    NBlocks,    \* heap blocks 0 .. NBlocks-1
    NOffsets,   \* line pointers 1 .. NOffsets in each block
    MaxNodes    \* bound on the tcache_node pool of the model

ASSUME Capacity \in Nat \ {0} /\ NBlocks \in Nat \ {0}
(* A heap page holds fewer tuples than a column store: a full column store *)
(* always spans at least two blocks.                                       *)
ASSUME NOffsets \in 1..(Capacity - 1)
ASSUME MaxNodes \in Nat \ {0}

Blocks == 0..(NBlocks - 1)
Ctids  == Blocks \X (1..NOffsets)
Nodes  == 1..MaxNodes
NULL   == 0
Blk(c) == c[1]

(* ItemPointerCompare(a, b) < 0 *)
CtidLess(a, b) == a[1] < b[1] \/ (a[1] = b[1] /\ a[2] < b[2])

VARIABLES
    tc,         \* the tree: per-node column store and links, root, free pool
    scanned,    \* item pointers the build scan has returned so far
    lastPos,    \* position of the last of them in the scan order
    startBlk,   \* block the heap scan started from
    phase,      \* "build" (TCACHE_STATE_NOW_BUILD) or "ready"
    spinHeld,   \* tcache_node spinlocks left held
    err         \* "none", or what went wrong in the step that stopped

vars == <<tc, scanned, lastPos, startBlk, phase, spinHeld, err>>

(* Position of an item pointer in a heap scan starting at block s.         *)
ScanPos(c, s) == ((Blk(c) - s + NBlocks) % NBlocks) * NOffsets + c[2]

Row(c) == [ctid |-> c, dead |-> FALSE]

(* tcache_create_tchead: the root node with an empty column store.         *)
EmptyTree ==
    [rows   |-> [n \in Nodes |-> <<>>],
     bmin   |-> [n \in Nodes |-> 0],
     bmax   |-> [n \in Nodes |-> 0],
     sorted |-> [n \in Nodes |-> FALSE],
     left   |-> [n \in Nodes |-> NULL],
     right  |-> [n \in Nodes |-> NULL],
     ld     |-> [n \in Nodes |-> 0],
     rd     |-> [n \in Nodes |-> 0],
     root   |-> 1,
     free   |-> Nodes \ {1},
     err    |-> "none"]

Init ==
    /\ tc = EmptyTree
    /\ scanned = {}
    /\ lastPos = 0
    /\ startBlk \in Blocks
    /\ phase = "build"
    /\ spinHeld = {}
    /\ err = "none"

-----------------------------------------------------------------------------
(* A step that hits one of these stops with the tree it started from.      *)
Fail(T, why) == IF T.err = "none" THEN [T EXCEPT !.err = why] ELSE T
NRows(T, n) == Len(T.rows[n])

(* TCACHE_NODE_DEPTH *)
NodeDepth(T, n) == IF n = NULL THEN 0 ELSE IF T.ld[n] > T.rd[n] THEN T.ld[n] ELSE T.rd[n]

(* tcache_alloc_tcnode: pop a node of the free list with an empty column   *)
(* store.  The code's memset(&tc_node, 0, sizeof(tcache_node)) clears the  *)
(* local pointer, not the node; the node is modelled as the memset of the  *)
(* node that is evidently meant (see README).                              *)
AllocNode(T) == CHOOSE n \in T.free : \A m \in T.free : n <= m
WithNewNode(T, n) ==
    [T EXCEPT !.free = @ \ {n}, !.rows[n] = <<>>, !.bmin[n] = 0,
              !.bmax[n] = 0, !.sorted[n] = FALSE, !.left[n] = NULL,
              !.right[n] = NULL, !.ld[n] = 0, !.rd[n] = 0]

(* Faulty variants of do_insert_tuple: no stop at a full column store;    *)
(* blkno_max not advanced when a row is appended in order.                 *)
DoInsertUnchecked(T, n, c) ==
    LET rs == T.rows[n]  b == Blk(c) IN
    IF T.err # "none" THEN T
    ELSE IF rs = <<>>
         THEN [T EXCEPT !.rows[n] = <<Row(c)>>, !.bmin[n] = b, !.bmax[n] = b,
                        !.sorted[n] = TRUE]
    ELSE [T EXCEPT !.rows[n] = Append(rs, Row(c)),
                   !.sorted[n] = @ /\ CtidLess(Last(rs).ctid, c),
                   !.bmax[n] = IF b > @ THEN b ELSE @,
                   !.bmin[n] = IF b < @ THEN b ELSE @]
DoInsertKeepMax(T, n, c) ==
    LET rs == T.rows[n]  b == Blk(c) IN
    IF T.err # "none" THEN T
    ELSE IF Len(rs) >= Capacity THEN Fail(T, "column store overrun")
    ELSE IF rs = <<>>
         THEN [T EXCEPT !.rows[n] = <<Row(c)>>, !.bmin[n] = b, !.bmax[n] = b,
                        !.sorted[n] = TRUE]
    ELSE [T EXCEPT !.rows[n] = Append(rs, Row(c)),
                   !.sorted[n] = @ /\ CtidLess(Last(rs).ctid, c),
                   !.bmin[n] = IF b < @ THEN b ELSE @]

(* do_insert_tuple: append at nrows and maintain blkno_min/max, is_sorted. *)
DoInsert(T, n, c) ==
    LET rs == T.rows[n]
        b  == Blk(c)
    IN
    IF T.err # "none" THEN T
    ELSE IF Len(rs) >= Capacity THEN Fail(T, "column store overrun")
    ELSE IF rs = <<>>
         THEN [T EXCEPT !.rows[n] = <<Row(c)>>, !.bmin[n] = b, !.bmax[n] = b,
                        !.sorted[n] = TRUE]
    ELSE IF T.sorted[n]
         THEN IF CtidLess(Last(rs).ctid, c)
              THEN [T EXCEPT !.rows[n] = Append(rs, Row(c)), !.bmax[n] = b]
              ELSE [T EXCEPT !.rows[n] = Append(rs, Row(c)), !.sorted[n] = FALSE,
                             !.bmin[n] = IF b < @ THEN b ELSE @]
    ELSE [T EXCEPT !.rows[n] = Append(rs, Row(c)),
                   !.bmax[n] = IF b > @ THEN b ELSE @,
                   !.bmin[n] = IF b < @ THEN b ELSE @]

(* tcache_sort_tcnode_internal sorts the rows by item pointer.             *)
SortRows(rs) == SortSeq(rs, LAMBDA x, y : CtidLess(x.ctid, y.ctid))

(* tcache_compaction_tcnode: copy the rows not frozen by vacuum into a new *)
(* column store whose blkno_min/max start swapped and are widened by each  *)
(* survivor; is_sorted is carried over.                                    *)
Compaction(T, n) ==
    LET live == SelectSeq(T.rows[n], LAMBDA r : ~r.dead)
        blks == {Blk(live[i].ctid) : i \in 1..Len(live)}
    IN
    IF T.err # "none" THEN T
    ELSE [T EXCEPT !.rows[n] = live,
                   !.bmin[n] = Min(blks \cup {T.bmax[n]}),
                   !.bmax[n] = Max(blks \cup {T.bmin[n]})]

(* tcache_split_tcnode: sort in place if needed, move the trailing rows of *)
(* the highest block into a new node chained as the right child (which    *)
(* takes over the old right subtree), then compact the old node.           *)
SplitNoCompact(T, n) ==
    LET rs      == IF T.sorted[n] THEN T.rows[n] ELSE SortRows(T.rows[n])
        nremain == SelectLastInSeq(rs, LAMBDA r : Blk(r.ctid) # T.bmax[n])
        moved   == SubSeq(rs, nremain + 1, Len(rs))
        new     == AllocNode(T)
        T1      == WithNewNode(T, new)
    IN
    IF nremain = 0 \/ moved = <<>>
    THEN Fail(T, "split reads an item pointer outside the column store")
    ELSE [T1 EXCEPT
            !.rows[new]   = moved,
            !.sorted[new] = TRUE,
            !.bmin[new]   = Blk(moved[1].ctid),
            !.bmax[new]   = Blk(Last(moved).ctid),
            !.right[new]  = T.right[n],
            !.rd[new]     = T.rd[n],
            !.right[n]    = new,
            !.rd[n]       = T.rd[n] + 1,
            !.rows[n]     = SubSeq(rs, 1, nremain),
            !.sorted[n]   = TRUE,
            !.bmax[n]     = Blk(rs[nremain].ctid)]

Split(T, n) ==
    IF T.err # "none" THEN T
    ELSE IF T.free = {} THEN Fail(T, "node pool bound")
    ELSE Compaction(SplitNoCompact(T, n), n)

(* The child pointer a rotation rewrites: *p_upper.                        *)
SetSlot(T, slot, x) ==
    CASE slot[1] = "root"  -> [T EXCEPT !.root = x]
      [] slot[1] = "left"  -> [T EXCEPT !.left[slot[2]] = x]
      [] slot[1] = "right" -> [T EXCEPT !.right[slot[2]] = x]

(* tcache_rebalance_tree: one single rotation when the depths recorded on  *)
(* the node differ by more than one.                                       *)
RotateLeft(T, n, slot) ==
    LET r  == T.right[n]
        T1 == [T EXCEPT !.right[n] = T.left[r], !.left[r] = n]
        T2 == [T1 EXCEPT !.rd[n] = NodeDepth(T1, T1.right[n])]
        T3 == [T2 EXCEPT !.ld[r] = NodeDepth(T2, r)]
    IN SetSlot(T3, slot, r)

RotateRight(T, n, slot) ==
    LET l  == T.left[n]
        T1 == [T EXCEPT !.left[n] = T.right[l], !.right[l] = n]
        T2 == [T1 EXCEPT !.ld[n] = NodeDepth(T1, T1.left[n])]
        T3 == [T2 EXCEPT !.rd[l] = NodeDepth(T2, l)]
    IN SetSlot(T3, slot, l)

Rebalance(T, n, slot) ==
    IF T.err # "none" THEN T
    ELSE IF T.ld[n] + 1 < T.rd[n]
         THEN IF T.right[n] = NULL THEN Fail(T, "rotation through NULL")
              ELSE RotateLeft(T, n, slot)
    ELSE IF T.ld[n] > T.rd[n] + 1
         THEN IF T.left[n] = NULL THEN Fail(T, "rotation through NULL")
              ELSE RotateRight(T, n, slot)
    ELSE T

(* Faulty variant: a new child is allocated even when one exists.         *)
InsertSideAlwaysNew(T, n, c, side) ==
    LET T1 == IF T.free = {} THEN Fail(T, "node pool bound")
              ELSE LET m == AllocNode(T) IN
                   IF side = "left"
                   THEN [WithNewNode(T, m) EXCEPT !.left[n] = m, !.ld[n] = 1]
                   ELSE [WithNewNode(T, m) EXCEPT !.right[n] = m, !.rd[n] = 1]
        ch == IF side = "left" THEN T1.left[n] ELSE T1.right[n]
    IN
    IF (IF side = "left" THEN T.left[n] ELSE T.right[n]) = NULL
       /\ NRows(T, n) < Capacity THEN DoInsert(T, n, c)
    ELSE Rebalance(DoInsert(T1, ch, c), ch, <<side, n>>)

(* One side of tcache_insert_tuple for a row below blkno_min (side "left") *)
(* or above blkno_max ("right"): insert here while there is no child and   *)
(* room, else into the child, creating it if missing, then rebalance it.   *)
InsertSide(T, n, c, side) ==
    LET child == IF side = "left" THEN T.left[n] ELSE T.right[n]
        T1 == IF child # NULL THEN T
              ELSE IF T.free = {} THEN Fail(T, "node pool bound")
              ELSE LET m == AllocNode(T) IN
                   IF side = "left"
                   THEN [WithNewNode(T, m) EXCEPT !.left[n] = m, !.ld[n] = 1]
                   ELSE [WithNewNode(T, m) EXCEPT !.right[n] = m, !.rd[n] = 1]
        ch == IF side = "left" THEN T1.left[n] ELSE T1.right[n]
        T2 == DoInsert(T1, ch, c)
        T3 == IF T2.err # "none" THEN T2
              ELSE IF side = "left" THEN [T2 EXCEPT !.ld[n] = NodeDepth(T2, ch)]
              ELSE [T2 EXCEPT !.rd[n] = NodeDepth(T2, ch)]
    IN
    IF child = NULL /\ NRows(T, n) < Capacity THEN DoInsert(T, n, c)
    ELSE Rebalance(T3, ch, <<side, n>>)

(* The body of tcache_insert_tuple after the empty-store shortcut.  After  *)
(* a split it goes back to 'retry' on the same node.  The retry reads the  *)
(* local 'tcs', which compaction has just released; its memory still      *)
(* holds what the split left there, and with no frozen rows (splits only  *)
(* happen while building) that equals the node's new column store.  The   *)
(* retry can never split again: the node keeps fewer rows than it held.    *)
RECURSIVE InsertRetry(_, _, _, _)
InsertRetry(T, n, c, mayRetry) ==
    LET b == Blk(c) IN
    IF T.err # "none" THEN T
    ELSE IF b < T.bmin[n] THEN InsertSide(T, n, c, "left")
    ELSE IF b > T.bmax[n] THEN InsertSide(T, n, c, "right")
    ELSE IF NRows(T, n) < Capacity THEN DoInsert(T, n, c)
    ELSE IF mayRetry THEN InsertRetry(Split(T, n), n, c, FALSE)
    ELSE Fail(T, "second split")

(* tcache_insert_tuple(tc_head, node, tuple) *)
InsertTuple(T, n, c) ==
    IF NRows(T, n) = 0 THEN DoInsert(T, n, c) ELSE InsertRetry(T, n, c, TRUE)

(* Faulty variant: a node whose blkno_max equals b is skipped.             *)
RECURSIVE FindNextSkipMax(_, _, _)
FindNextSkipMax(T, n, b) ==
    IF NRows(T, n) = 0 THEN NULL
    ELSE IF b >= T.bmax[n]
         THEN IF T.right[n] = NULL THEN NULL ELSE FindNextSkipMax(T, T.right[n], b)
    ELSE IF T.left[n] = NULL \/ b >= T.bmin[n] THEN n
    ELSE LET l == FindNextSkipMax(T, T.left[n], b) IN IF l # NULL THEN l ELSE n

(* tcache_find_next_internal: the node whose column store a forward scan  *)
(* fetches next for block b, NULL if none.                                 *)
RECURSIVE FindNext(_, _, _)
FindNext(T, n, b) ==
    IF NRows(T, n) = 0 THEN NULL
    ELSE IF b > T.bmax[n]
         THEN IF T.right[n] = NULL THEN NULL ELSE FindNext(T, T.right[n], b)
    ELSE IF T.left[n] = NULL \/ b >= T.bmin[n] THEN n
    ELSE LET l == FindNext(T, T.left[n], b) IN IF l # NULL THEN l ELSE n

(* The nodes whose spinlock tcache_find_next_internal takes on the way.    *)
RECURSIVE FindNextPath(_, _, _)
FindNextPath(T, n, b) ==
    {n} \cup
    IF NRows(T, n) = 0 THEN {}
    ELSE IF b > T.bmax[n]
         THEN IF T.right[n] = NULL THEN {} ELSE FindNextPath(T, T.right[n], b)
    ELSE IF T.left[n] = NULL \/ b >= T.bmin[n] THEN {}
    ELSE FindNextPath(T, T.left[n], b)

(* tcache_find_prev_internal: the node a backward scan fetches for b.      *)
RECURSIVE FindPrev(_, _, _)
FindPrev(T, n, b) ==
    IF NRows(T, n) = 0 THEN NULL
    ELSE IF b < T.bmin[n]
         THEN IF T.left[n] = NULL THEN NULL ELSE FindPrev(T, T.left[n], b)
    ELSE IF T.right[n] = NULL \/ b <= T.bmax[n] THEN n
    ELSE LET r == FindPrev(T, T.right[n], b) IN IF r # NULL THEN r ELSE n

(* tcache_find_next_record: index (1-based here, 0 for none) of the least  *)
(* item pointer >= c; binary search when is_sorted, else a linear scan.    *)
(* Faulty variant: the search stops at the first item pointer above c.    *)
RECURSIVE BinSearchAbove(_, _, _, _)
BinSearchAbove(rs, c, lo, hi) ==
    IF lo >= hi THEN lo
    ELSE LET mid == (lo + hi) \div 2 IN
         IF CtidLess(c, rs[mid + 1].ctid) THEN BinSearchAbove(rs, c, lo, mid)
         ELSE BinSearchAbove(rs, c, mid + 1, hi)
RECURSIVE BinSearch(_, _, _, _)
BinSearch(rs, c, lo, hi) ==
    IF lo >= hi THEN lo
    ELSE LET mid == (lo + hi) \div 2 IN
         IF ~CtidLess(rs[mid + 1].ctid, c) THEN BinSearch(rs, c, lo, mid)
         ELSE BinSearch(rs, c, mid + 1, hi)
FindNextRecord(T, n, c) ==
    LET rs == T.rows[n]
        ge == {i \in 1..Len(rs) : ~CtidLess(rs[i].ctid, c)}
    IN
    IF rs = <<>> \/ Blk(c) > T.bmax[n] THEN 0
    ELSE IF T.sorted[n]
         THEN LET i == BinSearch(rs, c, 0, Len(rs)) IN IF i < Len(rs) THEN i + 1 ELSE 0
    ELSE IF ge = {} THEN 0
    ELSE CHOOSE i \in ge : \A j \in ge : ~CtidLess(rs[j].ctid, rs[i].ctid)

-----------------------------------------------------------------------------
(* One iteration of the loop of tcache_build_main: the next tuple of the   *)
(* heap scan is inserted from the root and the root is rebalanced.         *)
BuildInsert(c) ==
    LET T == Rebalance(InsertTuple(tc, tc.root, c), tc.root, <<"root">>) IN
    /\ err = "none"
    /\ phase = "build"
    /\ ScanPos(c, startBlk) > lastPos
    /\ T.err # "node pool bound"
    /\ IF T.err = "none"
          THEN /\ tc' = T
               /\ scanned' = scanned \cup {c}
               /\ lastPos' = ScanPos(c, startBlk)
               /\ UNCHANGED err
          ELSE /\ err' = T.err
               /\ UNCHANGED <<tc, scanned, lastPos>>
    /\ UNCHANGED <<startBlk, phase, spinHeld>>

(* heap_getnext returned no more tuples; tcache_end_scan marks READY.      *)
FinishBuild ==
    /\ err = "none"
    /\ phase = "build"
    /\ phase' = "ready"
    /\ UNCHANGED <<tc, scanned, lastPos, startBlk, spinHeld, err>>

(* tcache_vacuum_column_store for heap block b after pruning made the line *)
(* pointers 'gone' dead or unused: under the shared lwlock, find the node, *)
(* take its spinlock, replace an unsorted column store by a sorted copy,   *)
(* then freeze the cached rows of block b whose line pointer is gone.      *)
(* The spinlock is released only when no record is found.  A spinlock     *)
(* already held is never obtained: s_lock PANICs with "stuck spinlock".    *)
Vacuum(b, gone) ==
    LET n    == FindNext(tc, tc.root, b)
        T1   == IF tc.sorted[n] THEN tc
                ELSE [tc EXCEPT !.rows[n] = SortRows(@), !.sorted[n] = TRUE]
        i    == FindNextRecord(T1, n, <<b, 1>>)
        rs   == T1.rows[n]
        last == LET k == SelectInSeq(SubSeq(rs, i, Len(rs)),
                                     LAMBDA r : Blk(r.ctid) # b)
                IN IF k = 0 THEN Len(rs) ELSE i + k - 2
    IN
    /\ err = "none"
    /\ phase = "ready"
    /\ n # NULL
    /\ IF FindNextPath(tc, tc.root, b) \cap spinHeld # {}
          THEN /\ err' = "stuck spinlock"
               /\ UNCHANGED <<tc, spinHeld>>
          ELSE /\ tc' = IF i = 0 THEN T1
                        ELSE [T1 EXCEPT !.rows[n] =
                                [j \in 1..Len(rs) |->
                                   IF j \in i..last /\ rs[j].ctid[2] \in gone
                                   THEN [rs[j] EXCEPT !.dead = TRUE] ELSE rs[j]]]
               /\ spinHeld' = IF i = 0 THEN spinHeld ELSE spinHeld \cup {n}
               /\ UNCHANGED err
    /\ UNCHANGED <<scanned, lastPos, startBlk, phase>>

(* The relation is altered, dropped or truncated (tcache_on_object_access) *)
(* and the next scan creates and builds a new cache; or, after a PANIC,    *)
(* the postmaster re-initialises shared memory and the same happens.       *)
Rebuild ==
    /\ phase = "ready" \/ err # "none"
    /\ tc' = EmptyTree
    /\ scanned' = {}
    /\ lastPos' = 0
    /\ startBlk' \in Blocks
    /\ phase' = "build"
    /\ spinHeld' = {}
    /\ err' = "none"

Next ==
    \/ \E c \in Ctids : BuildInsert(c)
    \/ FinishBuild
    \/ \E b \in Blocks, gone \in SUBSET (1..NOffsets) \ {{}} : Vacuum(b, gone)
    \/ Rebuild

Spec == Init /\ [][Next]_vars

-----------------------------------------------------------------------------
(* In-order node sequence of the subtree at n (depth-bounded, as a cycle   *)
(* in the links would otherwise never end).                                *)
RECURSIVE InOrderD(_, _, _)
InOrderD(T, n, d) ==
    IF n = NULL \/ d = 0 THEN <<>>
    ELSE InOrderD(T, T.left[n], d - 1) \o <<n>> \o InOrderD(T, T.right[n], d - 1)
InOrder(T) == InOrderD(T, T.root, MaxNodes)

TypeOK ==
    /\ tc.root \in Nodes
    /\ tc.free \subseteq Nodes
    /\ \A n \in Nodes :
          /\ tc.rows[n] \in Seq([ctid : Ctids, dead : BOOLEAN])
          /\ Len(tc.rows[n]) <= Capacity
          /\ tc.left[n] \in Nodes \cup {NULL} /\ tc.right[n] \in Nodes \cup {NULL}
          /\ tc.ld[n] \in Nat /\ tc.rd[n] \in Nat
    /\ scanned \subseteq Ctids
    /\ phase \in {"build", "ready"}
    /\ spinHeld \subseteq Nodes

(* Every tuple the build scan returned is cached in exactly one column     *)
(* store of the tree, and nothing else is: splits and rotations neither    *)
(* lose, duplicate nor detach rows.                                        *)
RowsConserved ==
    LET ns == InOrder(tc) IN
    /\ Len(ns) = Cardinality(ToSet(ns))
    /\ FoldSeq(LAMBDA n, acc : acc + NRows(tc, n), 0, ns) = Cardinality(scanned)
    /\ UNION {{tc.rows[n][i].ctid : i \in 1..NRows(tc, n)} : n \in ToSet(ns)}
         = scanned

(* An in-order walk meets column stores whose [blkno_min, blkno_max]       *)
(* ranges contain their rows and are strictly increasing and disjoint.     *)
RangeOrdered ==
    LET ns == SelectSeq(InOrder(tc), LAMBDA n : NRows(tc, n) > 0) IN
    /\ \A i \in 1..Len(ns) : \A j \in 1..NRows(tc, ns[i]) :
          Blk(tc.rows[ns[i]][j].ctid) \in tc.bmin[ns[i]]..tc.bmax[ns[i]]
    /\ \A i \in 1..(Len(ns) - 1) : tc.bmax[ns[i]] < tc.bmin[ns[i + 1]]

(* A forward scan (tcache_scan_next) asking for block b is handed the      *)
(* first column store, in block order, that holds rows at or above b, and *)
(* a backward scan the last one holding rows at or below b: the descent   *)
(* of find_next/find_prev over the tree the inserts and rotations built.  *)
InOrderNonEmpty == SelectSeq(InOrder(tc), LAMBDA n : NRows(tc, n) > 0)
RefNext(b) ==
    LET ns == InOrderNonEmpty
        i  == SelectInSeq(ns, LAMBDA n : tc.bmax[n] >= b)
    IN IF i = 0 THEN NULL ELSE ns[i]
RefPrev(b) ==
    LET ns == InOrderNonEmpty
        i  == SelectLastInSeq(ns, LAMBDA n : tc.bmin[n] <= b)
    IN IF i = 0 THEN NULL ELSE ns[i]
FindAgrees ==
    \A b \in Blocks :
        /\ FindNext(tc, tc.root, b) = RefNext(b)
        /\ FindPrev(tc, tc.root, b) = RefPrev(b)

(* is_sorted, on which tcache_find_next_record's binary search relies, is  *)
(* set only on column stores whose item pointers ascend, and the search    *)
(* returns the least item pointer at or above any probe.                   *)
SortedFlagSound ==
    \A n \in ToSet(InOrder(tc)) :
        /\ tc.sorted[n] =>
              \A i \in 1..(NRows(tc, n) - 1) :
                  CtidLess(tc.rows[n][i].ctid, tc.rows[n][i + 1].ctid)
        /\ \A c \in Ctids :
              LET i  == FindNextRecord(tc, n, c)
                  ge == {j \in 1..NRows(tc, n) : ~CtidLess(tc.rows[n][j].ctid, c)}
              IN IF ge = {} \/ Blk(c) > tc.bmax[n] THEN i = 0
                 ELSE i \in ge /\ \A j \in ge : ~CtidLess(tc.rows[n][j].ctid, tc.rows[n][i].ctid)

(* tcache_insert_tuple never writes a row past NUM_ROWS_PER_COLSTORE.      *)
NoOverrun == err # "column store overrun"

(* Every tcache_node spinlock that vacuum takes is released again.         *)
SpinlocksReleased == spinHeld = {}
=============================================================================
