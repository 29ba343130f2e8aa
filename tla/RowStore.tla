------------------------------ MODULE RowStore ------------------------------
(***************************************************************************)
(* The row stores of one tcache_head (src/tcache.c).  Rows that the        *)
(* synchronizer trigger sees inserted after the cache was built go to      *)
(* tc_head->trs_curr; when it is full it is pushed on the head of          *)
(* tc_head->trs_list and a new one is created.  tcache_scan_next walks the  *)
(* row stores after the column stores; the UPDATE and DELETE triggers copy  *)
(* the new tuple header (its xmax) onto the cached row; the page-prune hook *)
(* removes rows whose heap item died.                                       *)
(*                                                                         *)
(* The head is READY and referenced by every caller.  Triggers, scans and  *)
(* the prune hook all hold the head's lwlock shared, and the only          *)
(* exclusive holder that could meet them here, the columnizer, never gets  *)
(* a head (nothing pushes tc_common->pending_list), so the lwlock is left  *)
(* out.  Every section under tc_head->lock is one step.  A row is its ctid *)
(* <<block, offset>>; a row store is an address of StoreIds.  The build   *)
(* loaded the rows of Loaded into the column store of the root node, the   *)
(* only node of a heap this small.  A wild pointer dereference, or a spin  *)
(* on a spinlock nobody will release (s_lock_stuck PANICs), is recorded in *)
(* err and followed by the crash restart (see Restart).                    *)
(***************************************************************************)
EXTENDS Naturals, Sequences, SequencesExt, FiniteSets

CONSTANTS
    Writers,    \* backends whose statements fire the synchronizer trigger
    Scanners,   \* backends running a tcache scan
    Blocks,     \* heap block numbers
    Ctids,      \* heap tuple slots <<block, line pointer>>
    StoreIds,   \* addresses a tcache_row_store can be allocated at
    Capacity,   \* trs->usage of a new row store, in units
    Width,      \* MAXALIGN(sizeof(HeapTupleData)) + MAXALIGN(t_len), in units
    Loaded      \* ctids the build put into the root's column store

None  == 0
Backends == Writers \cup Scanners
ASSUME None \notin StoreIds /\ Blocks \subseteq Nat /\ Width \in Nat \ {0}
ASSUME Ctids \subseteq Blocks \X (Nat \ {0}) /\ Loaded \subseteq Ctids
NoCtid == <<0, 0>>

VARIABLES
    trsCurr,    \* tc_head->trs_curr
    trsList,    \* tc_head->trs_list, head first
    refcnt,     \* trs->refcnt
    rows,       \* rows[s]: the tuples of s in kern order, [ctid, xmax, gone]
    used,       \* heap: ctids ever allocated
    live,       \* heap: ctids of tuples inserted and not deleted
    pruned,     \* heap: ctids whose line pointer a page prune made dead
    cachedRows, \* history: rows inserted into the row stores since startup
    pc,         \* "idle", "upd_ins" (UPDATE between its two calls),
                \* "rows" (scan walking row stores), "done" (NULL returned)
    upd,        \* upd[b]: the old and new ctid of b's UPDATE
    scanPos,    \* tc_scan->trs_curr
    listed,     \* history: stores on trs_list when b's walk began
    visited,    \* history: stores scan_next returned to b
    cols,       \* cols[d]: the root's copy of loaded row d, [xmax, gone]
    nodeLocked, \* the root tc_node->lock is held
    hinted,     \* history: ctids whose UPDATE or DELETE updated the hints
    err         \* "none", or the undefined behaviour that happened

vars == <<trsCurr, trsList, refcnt, rows, used, live, pruned, cachedRows,
          pc, upd, scanPos, listed, visited, cols, nodeLocked, hinted, err>>
storeVars == <<trsCurr, trsList, refcnt, rows>>
colVars == <<cols, nodeLocked, hinted>>

Init ==
    /\ trsCurr = None
    /\ trsList = <<>>
    /\ refcnt = [s \in StoreIds |-> 0]
    /\ rows = [s \in StoreIds |-> <<>>]
    /\ used = Loaded /\ live = Loaded /\ pruned = {} /\ cachedRows = {}
    /\ pc = [b \in Backends |-> "idle"]
    /\ upd = [b \in Backends |-> [old |-> <<0, 0>>, new |-> <<0, 0>>]]
    /\ scanPos = [b \in Backends |-> None]
    /\ listed = [b \in Backends |-> {}]
    /\ visited = [b \in Backends |-> {}]
    /\ cols = [d \in Loaded |-> [xmax |-> FALSE, gone |-> FALSE]]
    /\ nodeLocked = FALSE
    /\ hinted = {}
    /\ err = "none"

Allocated == {s \in StoreIds : refcnt[s] > 0}
Reachable == ToSet(trsList) \cup ({trsCurr} \ {None})

(* trs->usage and trs->blkno_min/max, which only an insertion changes.     *)
Usage(s)  == Capacity - Width * Len(rows[s])
Blk(s)    == {rows[s][i].ctid[1] : i \in DOMAIN rows[s]}
BlkMin(s) == CHOOSE k \in Blk(s) : \A j \in Blk(s) : k <= j
BlkMax(s) == CHOOSE k \in Blk(s) : \A j \in Blk(s) : k >= j

(* tcache_row_store_insert_tuple: room for one more offset at the head and *)
(* the tuple at the tail, usage_head < usage_tail.                          *)
Fits(s) == Len(rows[s]) + 1 < Usage(s) - Width
ASSUME Width + 1 < Capacity      \* a heap tuple fits an empty row store

(* The ctid the heap gives a new tuple on block k: its first unused line   *)
(* pointer; the block is the free-space map's choice.                      *)
FreeSlots(k) == {c \in Ctids \ used : c[1] = k}
NewCtids == {<<k, Min({c[2] : c \in FreeSlots(k)})>> :
                k \in {j \in Blocks : FreeSlots(j) # {}}}

NewRow(c) == [ctid |-> c, xmax |-> FALSE, gone |-> FALSE]

(* Faulty variant: the reference is not counted.                          *)
GetRowStoreUncounted(s) == refcnt' = refcnt

(* tcache_get_row_store: one more reference, under trs->refcnt_lock.       *)
GetRowStore(s) == refcnt' = [refcnt EXCEPT ![s] = @ + 1]

(* tcache_insert_tuple_row, one step under tc_head->lock.  The row store   *)
(* is taken with tcache_get_row_store and only put again when it was full, *)
(* so every stored tuple leaves one reference behind.  A full trs_curr is  *)
(* pushed on trs_list and the retry creates a new one; creation failing   *)
(* raises "out of shared memory", aborting the transaction after the push. *)
InsertTupleRow(c) ==
    LET full == trsCurr # None /\ ~Fits(trsCurr) IN
    \/ /\ trsCurr # None /\ Fits(trsCurr)
       /\ rows' = [rows EXCEPT ![trsCurr] = Append(@, NewRow(c))]
       /\ GetRowStore(trsCurr)
       /\ cachedRows' = cachedRows \cup {c}
       /\ UNCHANGED <<trsCurr, trsList>>
    \/ /\ trsCurr = None \/ full
       /\ \E n \in StoreIds \ Allocated :
             /\ trsCurr' = n
             /\ trsList' = IF full THEN Cons(trsCurr, trsList) ELSE trsList
             /\ rows' = [rows EXCEPT ![n] = <<NewRow(c)>>]
             /\ refcnt' = [refcnt EXCEPT ![n] = 2]
             /\ cachedRows' = cachedRows \cup {c}

(* The same call when no row store can be allocated: the push of a full   *)
(* trs_curr is all that survives the ERROR.                                 *)
InsertTupleRowOOM ==
    /\ ~(trsCurr # None /\ Fits(trsCurr))
    /\ StoreIds \subseteq Allocated
    /\ trsList' = IF trsCurr = None THEN trsList ELSE Cons(trsCurr, trsList)
    /\ trsCurr' = None
    /\ UNCHANGED <<refcnt, rows, cachedRows>>

(* tcache_update_tuple_hints_rowstore: its early return on the block range *)
InRange(s, k) == ~(k > BlkMax(s) \/ k < BlkMin(s))

(* ItemPointerCompare(a, b) >= 0.                                          *)
CtidGeq(a, b) == a[1] > b[1] \/ (a[1] = b[1] /\ a[2] >= b[2])

(* tcache_find_next_node and tcache_find_next_record on the root: NULL      *)
(* (nrows = 0, or c beyond blkno_max) or -1, else the least loaded ctid at  *)
(* or above c, which the binary search and the linear scan both return.    *)
FindNextRecord(c) ==
    LET cand == {d \in Loaded : CtidGeq(d, c)}
    IN  IF cand = {} THEN NoCtid
        ELSE CHOOSE d \in cand : \A e \in cand : CtidGeq(e, d)

(* tcache_update_tuple_hints.  The root's lock is taken first: held, the    *)
(* backend spins.  A record found by tcache_find_next_record gets the new  *)
(* header, whatever its ctid, and the row stores are skipped.  Otherwise    *)
(* trs_curr, then trs_list in order: the first store holding the ctid in    *)
(* its block range gets the new header (xmax).                              *)
UpdateHints(c) ==
    LET d == FindNextRecord(c)
        order == IF trsCurr = None THEN trsList ELSE <<trsCurr>> \o trsList
        Holds(s) == /\ InRange(s, c[1])
                    /\ \E i \in DOMAIN rows[s] : rows[s][i].ctid = c /\ ~rows[s][i].gone
        hit == SelectInSeq(order, Holds)
        Mark(s) == [i \in DOMAIN rows[s] |->
                       IF rows[s][i].ctid = c /\ ~rows[s][i].gone
                       THEN [rows[s][i] EXCEPT !.xmax = TRUE] ELSE rows[s][i]]
    IN
    \/ /\ nodeLocked
       /\ err' = "stuck spinlock"
       /\ UNCHANGED <<rows, cols>>
    \/ /\ ~nodeLocked /\ d # NoCtid
       /\ cols' = [cols EXCEPT ![d].xmax = TRUE]
       /\ UNCHANGED <<rows, err>>
    \/ /\ ~nodeLocked /\ d = NoCtid
       /\ rows' = IF hit = 0 THEN rows
                  ELSE [rows EXCEPT ![order[hit]] = Mark(order[hit])]
       /\ UNCHANGED <<cols, err>>

(* pgstrom_tcache_synchronizer, after insert for each row.                 *)
TrigInsert(b, c) ==
    /\ err = "none" /\ pc[b] = "idle"
    /\ c \in NewCtids
    /\ used' = used \cup {c}
    /\ \/ InsertTupleRow(c) /\ live' = live \cup {c}
       \/ InsertTupleRowOOM /\ UNCHANGED live
    /\ UNCHANGED <<pruned, pc, upd, scanPos, listed, visited, colVars, err>>

(* After update for each row, first call: the hints of the old version.    *)
TrigUpdate(b, old, new) ==
    /\ err = "none" /\ pc[b] = "idle"
    /\ old \in live /\ new \in NewCtids
    /\ UpdateHints(old)
    /\ hinted' = hinted \cup {old}
    /\ live' = live \ {old}
    /\ used' = used \cup {new}
    /\ pc' = [pc EXCEPT ![b] = "upd_ins"]
    /\ upd' = [upd EXCEPT ![b] = [old |-> old, new |-> new]]
    /\ UNCHANGED <<trsCurr, trsList, refcnt, cachedRows, pruned, scanPos,
                   listed, visited, nodeLocked>>

(* Second call: tcache_insert_tuple_row of the new version.  Its ERROR     *)
(* aborts the UPDATE, and the old version is live again.                  *)
TrigUpdateInsert(b) ==
    /\ err = "none" /\ pc[b] = "upd_ins"
    /\ \/ InsertTupleRow(upd[b].new) /\ live' = live \cup {upd[b].new}
       \/ InsertTupleRowOOM /\ live' = live \cup {upd[b].old}
    /\ pc' = [pc EXCEPT ![b] = "idle"]
    /\ UNCHANGED <<used, pruned, upd, scanPos, listed, visited, colVars, err>>

(* After delete for each row.                                              *)
TrigDelete(b, old) ==
    /\ err = "none" /\ pc[b] = "idle"
    /\ old \in live
    /\ UpdateHints(old)
    /\ hinted' = hinted \cup {old}
    /\ live' = live \ {old}
    /\ UNCHANGED <<trsCurr, trsList, refcnt, cachedRows, used, pruned, pc,
                   upd, scanPos, listed, visited, nodeLocked>>

(* tcache_begin_scan on the READY head.                                     *)
BeginScan(b) ==
    /\ err = "none" /\ pc[b] = "idle"
    /\ pc' = [pc EXCEPT ![b] = "rows"]
    /\ listed' = [listed EXCEPT ![b] = ToSet(trsList)]
    /\ visited' = [visited EXCEPT ![b] = {}]
    /\ UNCHANGED <<trsCurr, trsList, refcnt, rows, used, live, pruned,
                   cachedRows, upd, scanPos, colVars, err>>

(* dnode_is_linked(dnode) is (!prev || !next): true of a node whose chain  *)
(* is zeroed, which is what trs_curr has, false of a node on trs_list.     *)
DnodeIsLinked(s) == s \notin ToSet(trsList)

(* tcache_scan_next.  With no row store held it first walks the column    *)
(* stores (the calls that return them are one step), taking the root's    *)
(* lock in tcache_find_next_column_store: held, the backend spins.  Then,  *)
(* under tc_head->lock, with no previous store it takes the head of        *)
(* trs_list, or trs_curr.  Otherwise, when      *)
(* dnode_is_linked holds, dlist_has_next compares a NULL next with the list *)
(* head and dlist_next_node yields NULL: the container of NULL is          *)
(* dereferenced.  When it does not, trs_curr is taken, or NULL returned.   *)
ScanNext(b) ==
    LET prev == scanPos[b]
        first == IF trsList # <<>> THEN Head(trsList) ELSE trsCurr
        Take(s) == /\ scanPos' = [scanPos EXCEPT ![b] = s]
                   /\ visited' = [visited EXCEPT ![b] = @ \cup {s}]
    IN
    /\ err = "none" /\ pc[b] = "rows"
    /\ \/ /\ prev = None /\ nodeLocked
          /\ err' = "stuck spinlock"
          /\ UNCHANGED <<refcnt, pc, scanPos, visited>>
       \/ /\ prev = None /\ ~nodeLocked /\ first # None
          /\ Take(first)
          /\ GetRowStore(first)
          /\ UNCHANGED <<pc, err>>
       \/ /\ prev = None /\ ~nodeLocked /\ first = None
          /\ pc' = [pc EXCEPT ![b] = "done"]
          /\ UNCHANGED <<refcnt, scanPos, visited, err>>
       \/ /\ prev # None /\ DnodeIsLinked(prev)
          /\ err' = "wild pointer"
          /\ UNCHANGED <<refcnt, pc, scanPos, visited>>
       \/ /\ prev # None /\ ~DnodeIsLinked(prev) /\ trsCurr # None
          /\ Take(trsCurr)
          /\ refcnt' = [refcnt EXCEPT ![trsCurr] = @ + 1, ![prev] = @ - 1]
          /\ UNCHANGED <<pc, err>>
       \/ /\ prev # None /\ ~DnodeIsLinked(prev) /\ trsCurr = None
          /\ scanPos' = [scanPos EXCEPT ![b] = None]
          /\ refcnt' = [refcnt EXCEPT ![prev] = @ - 1]
          /\ pc' = [pc EXCEPT ![b] = "done"]
          /\ UNCHANGED <<visited, err>>
    /\ UNCHANGED <<trsCurr, trsList, rows, used, live, pruned, cachedRows,
                   upd, listed, colVars>>

(* tcache_scan_prev, row-store part, under tc_head->lock; the scan holds   *)
(* no column store yet, as a backward walk visits row stores first.  With  *)
(* no previous store it takes trs_curr, else the tail of trs_list.  A      *)
(* previous store on trs_list (!dnode_is_linked) is put and the tail taken *)
(* again.  For one off the list, dlist_has_prev reads its NULL prev as a   *)
(* node, the inverted test yields NULL, and the store is put.  Whenever    *)
(* the result is NULL the column-store part reads tcs_prev->blkno_min with *)
(* tcs_prev NULL.                                                           *)
ScanPrev(b) ==
    LET prev == scanPos[b]
        tail == IF trsList # <<>> THEN Last(trsList) ELSE None
        first == IF trsCurr # None THEN trsCurr ELSE tail
        Take(s) == /\ scanPos' = [scanPos EXCEPT ![b] = s]
                   /\ visited' = [visited EXCEPT ![b] = @ \cup {s}]
        NullDeref == /\ err' = "NULL dereference"
                     /\ scanPos' = [scanPos EXCEPT ![b] = None]
                     /\ UNCHANGED visited
    IN
    /\ err = "none" /\ pc[b] = "rows"
    /\ \/ /\ prev = None /\ first # None
          /\ Take(first)
          /\ GetRowStore(first)
          /\ UNCHANGED err
       \/ /\ prev = None /\ first = None
          /\ NullDeref
          /\ UNCHANGED refcnt
       \/ /\ prev # None /\ ~DnodeIsLinked(prev)
          /\ Take(tail)
          /\ refcnt' = [refcnt EXCEPT ![tail] = @ + 1, ![prev] = @ - 1]
          /\ UNCHANGED err
       \/ /\ prev # None /\ DnodeIsLinked(prev)
          /\ NullDeref
          /\ refcnt' = [refcnt EXCEPT ![prev] = @ - 1]
    /\ UNCHANGED <<trsCurr, trsList, rows, used, live, pruned, cachedRows,
                   pc, upd, listed, colVars>>

(* Faulty variant: the row store the scan holds is dropped, not put.       *)
RescanNoPut(b) ==
    /\ err = "none" /\ pc[b] \in {"rows", "done"}
    /\ pc' = [pc EXCEPT ![b] = "rows"]
    /\ scanPos' = [scanPos EXCEPT ![b] = None]
    /\ listed' = [listed EXCEPT ![b] = ToSet(trsList)]
    /\ visited' = [visited EXCEPT ![b] = {}]
    /\ UNCHANGED <<trsCurr, trsList, refcnt, rows, used, live, pruned,
                   cachedRows, upd, colVars, err>>

(* tcache_rescan on the READY head: the stores the scan holds are put and  *)
(* its position cleared, so the next call walks from the start again.     *)
Rescan(b) ==
    /\ err = "none" /\ pc[b] \in {"rows", "done"}
    /\ refcnt' = IF scanPos[b] = None THEN refcnt
                 ELSE [refcnt EXCEPT ![scanPos[b]] = @ - 1]
    /\ pc' = [pc EXCEPT ![b] = "rows"]
    /\ scanPos' = [scanPos EXCEPT ![b] = None]
    /\ listed' = [listed EXCEPT ![b] = ToSet(trsList)]
    /\ visited' = [visited EXCEPT ![b] = {}]
    /\ UNCHANGED <<trsCurr, trsList, rows, used, live, pruned, cachedRows,
                   upd, colVars, err>>

(* tcache_end_scan: puts the row store the scan holds; any time, as a      *)
(* LIMIT or an error ends the scan early.                                  *)
EndScan(b) ==
    /\ err = "none" /\ pc[b] \in {"rows", "done"}
    /\ refcnt' = IF scanPos[b] = None THEN refcnt
                 ELSE [refcnt EXCEPT ![scanPos[b]] = @ - 1]
    /\ pc' = [pc EXCEPT ![b] = "idle"]
    /\ scanPos' = [scanPos EXCEPT ![b] = None]
    /\ listed' = [listed EXCEPT ![b] = {}]
    /\ visited' = [visited EXCEPT ![b] = {}]
    /\ UNCHANGED <<trsCurr, trsList, rows, used, live, pruned, cachedRows,
                   upd, colVars, err>>

(* Faulty variant: every row of the block is removed, dead or not.         *)
VacuumAll(s, k, dead) ==
    IF ~(k < BlkMin(s) \/ BlkMax(s) > k)
    THEN [i \in DOMAIN rows[s] |->
            IF rows[s][i].ctid[1] = k THEN [rows[s][i] EXCEPT !.gone = TRUE]
            ELSE rows[s][i]]
    ELSE rows[s]

(* do_vacuum_row_store: returns early unless the block passes the range    *)
(* test as written, (blknum < blkno_min || blkno_max > blknum); then every *)
(* row of the block whose line pointer is no longer normal gets offset 0.  *)
(* HOT redirects, which only move the offset, are not modelled.            *)
VacuumRowStore(s, k, dead) ==
    IF ~(k < BlkMin(s) \/ BlkMax(s) > k)
    THEN [i \in DOMAIN rows[s] |->
            IF rows[s][i].ctid[1] = k /\ rows[s][i].ctid \in dead
            THEN [rows[s][i] EXCEPT !.gone = TRUE] ELSE rows[s][i]]
    ELSE rows[s]

(* tcache_vacuum_column_store: tcache_find_next_node takes the root's lock *)
(* (held: the backend spins) and releases it when no loaded row lies at or *)
(* above block k.  Otherwise the lock is taken again, the store got, and   *)
(* the dead rows of block k frozen (xmax = FrozenTransactionId); the       *)
(* function returns with the lock still held and the store never put.     *)
VacuumColumnStore(k, dead) ==
    \/ /\ nodeLocked
       /\ err' = "stuck spinlock"
       /\ UNCHANGED <<cols, nodeLocked>>
    \/ /\ ~nodeLocked
       /\ cols' = [d \in Loaded |->
                      IF d[1] = k /\ d \in dead THEN [cols[d] EXCEPT !.gone = TRUE]
                      ELSE cols[d]]
       /\ nodeLocked' = \E d \in Loaded : d[1] >= k
       /\ UNCHANGED err

(* heap_page_prune on block k, then tcache_on_page_prune:                  *)
(* tcache_vacuum_row_store on trs_curr and every store of trs_list, under  *)
(* tc_head->lock, then tcache_vacuum_column_store.  The prune kills the    *)
(* line pointers of tuples that are deleted by a committed transaction or  *)
(* never committed.                                                         *)
PagePrune(b, k) ==
    LET pending == {upd[x].old : x \in {y \in Backends : pc[y] = "upd_ins"}}
        dead == pruned \cup {c \in (used \ live) \ pending : c[1] = k}
    IN
    /\ err = "none" /\ pc[b] = "idle"
    /\ pruned' = dead
    /\ rows' = [s \in StoreIds |->
                  IF s \in Reachable THEN VacuumRowStore(s, k, dead) ELSE rows[s]]
    /\ VacuumColumnStore(k, dead)
    /\ UNCHANGED <<trsCurr, trsList, refcnt, used, live, cachedRows, pc, upd,
                   scanPos, listed, visited, hinted>>

(* The postmaster's crash restart: every backend is killed, an UPDATE in   *)
(* flight rolls back and shared memory starts empty.  The next scan builds *)
(* a new head, whose column stores hold every heap tuple: what follows is  *)
(* a behaviour from Init over a different heap, and the restart returns to *)
(* Init.                                                                    *)
Restart ==
    /\ err # "none"
    /\ trsCurr' = None
    /\ trsList' = <<>>
    /\ refcnt' = [s \in StoreIds |-> 0]
    /\ rows' = [s \in StoreIds |-> <<>>]
    /\ used' = Loaded /\ live' = Loaded /\ pruned' = {} /\ cachedRows' = {}
    /\ pc' = [b \in Backends |-> "idle"]
    /\ upd' = [b \in Backends |-> [old |-> <<0, 0>>, new |-> <<0, 0>>]]
    /\ scanPos' = [b \in Backends |-> None]
    /\ listed' = [b \in Backends |-> {}]
    /\ visited' = [b \in Backends |-> {}]
    /\ cols' = [d \in Loaded |-> [xmax |-> FALSE, gone |-> FALSE]]
    /\ nodeLocked' = FALSE
    /\ hinted' = {}
    /\ err' = "none"

Next ==
    \/ \E b \in Writers, c \in Ctids : TrigInsert(b, c)
    \/ \E b \in Writers, o, n \in Ctids : TrigUpdate(b, o, n)
    \/ \E b \in Writers : TrigUpdateInsert(b)
    \/ \E b \in Writers, o \in Ctids : TrigDelete(b, o)
    \/ \E b \in Scanners : BeginScan(b)
    \/ \E b \in Scanners : ScanNext(b)
    \/ \E b \in Scanners : ScanPrev(b)
    \/ \E b \in Scanners : Rescan(b)
    \/ \E b \in Scanners : EndScan(b)
    \/ \E b \in Backends, k \in Blocks : PagePrune(b, k)
    \/ Restart

Spec == Init /\ [][Next]_vars

-----------------------------------------------------------------------------
Rows == [ctid : Ctids, xmax : BOOLEAN, gone : BOOLEAN]

TypeOK ==
    /\ trsCurr \in StoreIds \cup {None}
    /\ trsList \in Seq(StoreIds)
    /\ refcnt \in [StoreIds -> Nat]
    /\ rows \in [StoreIds -> Seq(Rows)]
    /\ used \subseteq Ctids /\ live \subseteq used /\ pruned \subseteq used
    /\ cachedRows \subseteq used
    /\ pc \in [Backends -> {"idle", "upd_ins", "rows", "done"}]
    /\ scanPos \in [Backends -> StoreIds \cup {None}]
    /\ listed \in [Backends -> SUBSET StoreIds]
    /\ visited \in [Backends -> SUBSET StoreIds]
    /\ cols \in [Loaded -> [xmax : BOOLEAN, gone : BOOLEAN]]
    /\ nodeLocked \in BOOLEAN
    /\ hinted \subseteq used
    /\ err \in {"none", "wild pointer", "NULL dereference", "stuck spinlock"}

(* Copies(c): the places (store, index) where the row stores that          *)
(* trs_curr and trs_list reach hold ctid c with a non-zero offset.          *)
Copies(c) == {p \in UNION {{s} \X DOMAIN rows[s] : s \in Reachable} :
                 rows[p[1]][p[2]].ctid = c /\ ~rows[p[1]][p[2]].gone}

(* Every row the synchronizer put into a row store stays reachable from    *)
(* the head exactly once until a page prune removes it, and a prune only   *)
(* removes rows whose line pointer died: no push, creation, ERROR after a  *)
(* push or vacuum loses, duplicates or wrongly drops a cached row.          *)
RowsConserved ==
    /\ \A c \in cachedRows \ pruned : Cardinality(Copies(c)) = 1
    /\ \A s \in Reachable : \A i \in DOMAIN rows[s] :
          rows[s][i].gone => rows[s][i].ctid \in pruned

(* While the system runs, a cached row deleted, or replaced by an UPDATE,  *)
(* carries the deleting xmax in every copy a scan can still read, in the   *)
(* column store or in a row store, and a copy carries an xmax only when   *)
(* its own row was updated or deleted: the hint update finds the copy of  *)
(* the row it is given, whatever trs_curr and trs_list became.             *)
HintsApplied ==
    err = "none" =>
    /\ \A c \in cachedRows \ live : \A p \in Copies(c) : rows[p[1]][p[2]].xmax
    /\ \A d \in Loaded \ live : ~cols[d].gone => cols[d].xmax
    /\ \A d \in Loaded : cols[d].xmax => d \in hinted
    /\ \A c \in Ctids : \A p \in Copies(c) : rows[p[1]][p[2]].xmax => c \in hinted

(* trs->refcnt counts the references that exist: the head's, taken when  *)
(* the store is created, one left by each tuple tcache_insert_tuple_row    *)
(* stored in it (its get is never put), and one for every scan positioned *)
(* on it.  Each scan_next, scan_prev, rescan and end_scan must put exactly *)
(* the store it leaves, or a store is freed under a scan or never freed.   *)
RefcntAccounted ==
    \A s \in StoreIds :
        refcnt[s] = (IF s \in Reachable THEN 1 + Len(rows[s]) ELSE 0)
                    + Cardinality({b \in Scanners : scanPos[b] = s})

(* A scan whose walk of the row stores returned NULL was handed every row  *)
(* store that was on trs_list when it began and is still there.            *)
ScanCoversRowStores ==
    \A b \in Backends :
        pc[b] = "done" => listed[b] \cap ToSet(trsList) \subseteq visited[b]
=============================================================================
