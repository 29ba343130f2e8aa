----------------------------- MODULE TCacheHead -----------------------------
(***************************************************************************)
(* The life of a tcache_head (src/tcache.c): the per-relation cache header *)
(* kept on a hash chain of tc_common, found or created by                  *)
(* tcache_get_tchead, reference counted, built by the first scan under the *)
(* exclusive lwlock, and dropped by DDL or TRUNCATE.  One relation is      *)
(* modelled: every entry of its hash slot belongs to it.                   *)
(*                                                                         *)
(* Backends run the handlers that touch a head: tcache_begin_scan /        *)
(* tcache_scan_next / tcache_end_scan, the synchronizer trigger, the       *)
(* heap_page_prune hook and the object-access hook.  Each section under    *)
(* tc_common->lock or tc_head->lock is one step; a wait for the head's     *)
(* lwlock ends a step, and the acquisition that follows starts the next.  *)
(* An lwlock belongs to a backend until it releases it or its process      *)
(* exits (LWLockReleaseAll in ProcKill).  A head is a model value of       *)
(* HeadIds, its address; a pointer read after the block was freed, or a    *)
(* NULL dlist node deleted, is undefined behaviour, recorded in err and    *)
(* followed by the postmaster's crash restart.  So is a spin on a          *)
(* spinlock that is never released: s_lock_stuck PANICs.                   *)
(*                                                                         *)
(* tcache_get_tchead returns with tc_common->lock still held (it is        *)
(* released only in its PG_CATCH), so in the code as written the next      *)
(* section that takes the lock, in any backend, spins.  KeepCommonLock     *)
(* chooses between that code (TRUE) and the same code with the release its *)
(* callers assume (FALSE), under which the later steps can be checked.     *)
(***************************************************************************)
EXTENDS Naturals, Sequences, SequencesExt, FiniteSets

CONSTANTS
    Backends,   \* backend processes
    NCols,      \* relnatts of the relation
    HeadIds,    \* addresses a tcache_head can be allocated at
    Requests,   \* 'required' attribute sets a scan passes (0 = whole row)
    Events,     \* trigger events: "insert" (also update/delete), "truncate"
    MaxShared,  \* bound on the shared lwlock holds a backend accumulates
    MaxRefcnt,  \* bound on a head's reference counter
    KeepCommonLock \* TRUE: tcache_get_tchead returns holding tc_common->lock

Cols     == 1..NCols
WholeRow == 0
NoHead   == 0
ASSUME KeepCommonLock \in BOOLEAN
ASSUME NoHead \notin HeadIds /\ \A r \in Requests : r \subseteq 0..NCols

VARIABLES
    slot,       \* tc_common->slot[hindex]: the hash chain, head first
    alive,      \* heads whose shared memory block is allocated
    refcnt,     \* tc_head->refcnt
    hstate,     \* tc_head->state
    cached,     \* the attributes listed in tc_head->i_cached
    ncols,      \* tc_head->ncols
    lwEx,       \* backends holding tc_head->lwlock exclusively
    lwSh,       \* lwSh[h][b]: shared holds of tc_head->lwlock by b
    pc,         \* where each backend is
    hold,       \* the head a backend's current call holds a reference to
    need,       \* the 'required' set of a backend's current scan
    heapscan,   \* tc_scan->heapscan is open
    ev,         \* the trigger event a backend is handling
    common,     \* the backends holding tc_common->lock ({} or one)
    tree,       \* tree[h]: tc_head->tcs_root "empty", "built" from the heap,
                \* or "freed" (its nodes on free_list, tcs NULL)
    err         \* "none", or the undefined behaviour that happened

vars == <<slot, alive, refcnt, hstate, cached, ncols, lwEx, lwSh,
          pc, hold, need, heapscan, ev, common, tree, err>>
headVars == <<slot, alive, refcnt, hstate, cached, ncols, tree>>

PCs == {"idle", "bs_sh", "bs_ex", "build", "built", "read",
        "trig", "trig_end", "prune"}

Init ==
    /\ slot = <<>>
    /\ alive = {}
    /\ refcnt = [h \in HeadIds |-> 0]
    /\ hstate = [h \in HeadIds |-> "NOT_BUILT"]
    /\ cached = [h \in HeadIds |-> {}]
    /\ ncols  = [h \in HeadIds |-> 0]
    /\ lwEx = [h \in HeadIds |-> {}]
    /\ lwSh = [h \in HeadIds |-> [b \in Backends |-> 0]]
    /\ pc = [b \in Backends |-> "idle"]
    /\ hold = [b \in Backends |-> NoHead]
    /\ need = [b \in Backends |-> {}]
    /\ heapscan = [b \in Backends |-> FALSE]
    /\ ev = [b \in Backends |-> "insert"]
    /\ common = {}
    /\ tree = [h \in HeadIds |-> "empty"]
    /\ err = "none"

-----------------------------------------------------------------------------
(* The column check of tcache_get_tchead.  Walking 'required' upwards, j   *)
(* advances while the next cached attribute equals the member taken, so   *)
(* it ends at the longest prefix of the sorted cached attributes that      *)
(* 'required' contains; the head is taken when j < ncols.                  *)
MatchedPrefix(h, R) ==
    LET s == SetToSortSeq(cached[h], <)
    IN  Max({k \in 0..Len(s) : \A i \in 1..k : s[i] \in R})
LookupHit(h, R) == MatchedPrefix(h, R) < ncols[h]

(* Faulty variant: the block is freed only when the counter was already   *)
(* zero.                                                                    *)
PutRefLate(h) ==
    /\ refcnt' = [refcnt EXCEPT ![h] = @ - 1]
    /\ alive'  = IF refcnt[h] = 0 THEN alive \ {h} ELSE alive

(* tcache_put_tchead_nolock: drop a reference, free the block at zero.    *)
PutRef(h) ==
    /\ refcnt' = [refcnt EXCEPT ![h] = @ - 1]
    /\ alive'  = IF refcnt[h] = 1 THEN alive \ {h} ELSE alive

HeldBy(b, h) == b \in lwEx[h] \/ lwSh[h][b] > 0
SharedHolds(b) == FoldSet(LAMBDA h, acc : acc + lwSh[h][b], 0, HeadIds)
Fault(kind) == /\ err' = kind
               /\ UNCHANGED <<slot, alive, refcnt, hstate, cached, ncols, lwEx,
                              lwSh, pc, hold, need, heapscan, ev, common, tree>>

(* Faulty variant: the old head is left on the slot and keeps its         *)
(* reference.                                                              *)
CreateHeadKeepOld(n, R, old) ==
    LET tempset == R \cup (IF old = NoHead THEN {} ELSE cached[old])
    IN
    /\ slot' = <<n>> \o slot
    /\ hstate' = [hstate EXCEPT ![n] = "NOT_BUILT"]
    /\ cached' = [cached EXCEPT ![n] = tempset \cap Cols]
    /\ ncols'  = [ncols EXCEPT ![n] = Cardinality(tempset)]
    /\ refcnt' = [refcnt EXCEPT ![n] = 1]
    /\ alive'  = alive \cup {n}
    /\ tree'   = [tree EXCEPT ![n] = "empty"]

(* tcache_create_tchead(reloid, required, tc_old) at address n, linked at  *)
(* the head of the slot by tcache_get_tchead, which then unlinks tc_old   *)
(* and puts it.  tempset is 'required' plus the old head's columns; ncols  *)
(* counts its members, i_cached lists the relation's attributes in it.     *)
CreateHead(n, R, old) ==
    LET tempset == R \cup (IF old = NoHead THEN {} ELSE cached[old])
    IN
    /\ slot' = <<n>> \o (IF old = NoHead THEN slot ELSE Remove(slot, old))
    /\ hstate' = [hstate EXCEPT ![n] = "NOT_BUILT"]
    /\ cached' = [cached EXCEPT ![n] = tempset \cap Cols]
    /\ ncols'  = [ncols EXCEPT ![n] = Cardinality(tempset)]
    /\ tree'   = [tree EXCEPT ![n] = "empty"]
    /\ IF old = NoHead
          THEN /\ refcnt' = [refcnt EXCEPT ![n] = 1]
               /\ alive'  = alive \cup {n}
          ELSE /\ refcnt' = [refcnt EXCEPT ![n] = 1, ![old] = @ - 1]
               /\ alive'  = (alive \cup {n}) \ (IF refcnt[old] = 1 THEN {old} ELSE {})

(* What tc_common->lock is after a section of b that took it: released,   *)
(* unless it is a lookup that returns normally in the code as written.     *)
CommonAfter(b) == IF KeepCommonLock THEN {b} ELSE {}

(* tcache_get_tchead(reloid, R, create) called by backend b, which moves   *)
(* to 'then' holding the head returned; after a NULL return the caller     *)
(* returns, pc unchanged.  SpinLockAcquire(&tc_common->lock) spins when    *)
(* the lock is held, by b itself included.  With the whole-row reference   *)
(* in R the expansion re-adds attribute 0, which bms_first_member takes    *)
(* again, for ever, with the lock held: the next backend spins.            *)
GetTchead(b, R, create, then) ==
    LET h == IF slot = <<>> THEN NoHead ELSE Head(slot)
        miss == IF h = NoHead THEN TRUE ELSE ~LookupHit(h, R)
    IN
    IF common # {} THEN Fault("stuck spinlock") ELSE
    \/ /\ h # NoHead /\ h \notin alive
       /\ Fault("use after free")
    \/ /\ h \in alive /\ WholeRow \in R
       /\ Fault("stuck spinlock")
    \/ /\ h = NoHead \/ (h \in alive /\ WholeRow \notin R)
       /\ common' = CommonAfter(b)
       /\ \/ /\ ~miss
             /\ refcnt[h] < MaxRefcnt
             /\ refcnt' = [refcnt EXCEPT ![h] = @ + 1]
             /\ hold' = [hold EXCEPT ![b] = h]
             /\ pc' = [pc EXCEPT ![b] = then]
             /\ UNCHANGED <<slot, alive, hstate, cached, ncols, tree>>
          \/ /\ miss /\ create
             /\ \E n \in HeadIds \ (alive \cup ToSet(slot)) :
                   /\ CreateHead(n, R, h)
                   /\ hold' = [hold EXCEPT ![b] = n]
             /\ pc' = [pc EXCEPT ![b] = then]
          \/ /\ miss /\ ~create
             /\ UNCHANGED <<headVars, pc, hold>>
       /\ UNCHANGED <<lwEx, lwSh, err>>

-----------------------------------------------------------------------------
(* tcache_begin_scan, up to the first LWLockAcquire(LW_SHARED).            *)
BeginScan(b, R) ==
    /\ err = "none"
    /\ pc[b] = "idle"
    /\ SharedHolds(b) < MaxShared
    /\ GetTchead(b, R, TRUE, "bs_sh")
    /\ need' = IF err' = "none" THEN [need EXCEPT ![b] = R] ELSE need
    /\ UNCHANGED <<heapscan, ev>>

(* When tcache_get_tchead has to create a head and shared memory is        *)
(* exhausted it raises "out of shared memory"; its PG_CATCH releases       *)
(* tc_common->lock, the transaction aborts and LWLockReleaseAll drops      *)
(* every lwlock the backend holds.                                          *)
ReleaseAllOf(b) ==
    /\ lwEx' = [h \in HeadIds |-> lwEx[h] \ {b}]
    /\ lwSh' = [h \in HeadIds |-> [lwSh[h] EXCEPT ![b] = 0]]
BeginScanOOM(b, R) ==
    LET h == IF slot = <<>> THEN NoHead ELSE Head(slot)
    IN
    /\ err = "none"
    /\ pc[b] = "idle"
    /\ SharedHolds(b) < MaxShared
    /\ h = NoHead \/ (h \in alive /\ WholeRow \notin R /\ ~LookupHit(h, R))
    /\ common = {}
    /\ HeadIds \ (alive \cup ToSet(slot)) = {}
    /\ ReleaseAllOf(b)
    /\ UNCHANGED <<headVars, pc, hold, need, heapscan, ev, common, err>>

(* Faulty variant: a head not built yet is built under the shared lock.   *)
AcqSharedNoUpgrade(b) ==
    LET h == hold[b] IN
    /\ err = "none"
    /\ pc[b] = "bs_sh"
    /\ IF h \notin alive THEN Fault("use after free") ELSE
       /\ lwEx[h] = {}
       /\ lwSh' = [lwSh EXCEPT ![h][b] = @ + 1]
       /\ IF hstate[h] = "NOT_BUILT"
             THEN /\ pc' = [pc EXCEPT ![b] = "build"]
                  /\ hstate' = [hstate EXCEPT ![h] = "NOW_BUILD"]
                  /\ heapscan' = [heapscan EXCEPT ![b] = TRUE]
             ELSE /\ pc' = [pc EXCEPT ![b] = "read"]
                  /\ UNCHANGED <<common, hstate, heapscan>>
       /\ UNCHANGED <<common, slot, alive, refcnt, cached, ncols, lwEx, hold, need, ev,
                      tree, err>>

(* The shared lwlock is granted (no exclusive holder) and the state is     *)
(* read under tc_head->lock: a head not built yet sends the backend round  *)
(* the retry for the exclusive lock, anything else is read as READY (the   *)
(* Assert is compiled out).                                                *)
AcqShared(b) ==
    LET h == hold[b] IN
    /\ err = "none"
    /\ pc[b] = "bs_sh"
    /\ IF h \notin alive THEN Fault("use after free") ELSE
       /\ lwEx[h] = {}
       /\ IF hstate[h] = "NOT_BUILT"
             THEN /\ pc' = [pc EXCEPT ![b] = "bs_ex"]
                  /\ UNCHANGED lwSh
             ELSE /\ pc' = [pc EXCEPT ![b] = "read"]
                  /\ lwSh' = [lwSh EXCEPT ![h][b] = @ + 1]
       /\ UNCHANGED <<common, headVars, lwEx, hold, need, heapscan, ev, err>>

(* The exclusive lwlock is granted (no holder at all, the backend itself   *)
(* included).  A head still NOT_BUILT becomes NOW_BUILD and a heap scan is *)
(* opened; else the lock is dropped and the shared one awaited again.      *)
AcqExclusive(b) ==
    LET h == hold[b] IN
    /\ err = "none"
    /\ pc[b] = "bs_ex"
    /\ IF h \notin alive THEN Fault("use after free") ELSE
       /\ lwEx[h] = {}
       /\ \A c \in Backends : lwSh[h][c] = 0
       /\ IF hstate[h] = "NOT_BUILT"
             THEN /\ lwEx' = [lwEx EXCEPT ![h] = {b}]
                  /\ hstate' = [hstate EXCEPT ![h] = "NOW_BUILD"]
                  /\ heapscan' = [heapscan EXCEPT ![b] = TRUE]
                  /\ pc' = [pc EXCEPT ![b] = "build"]
             ELSE /\ pc' = [pc EXCEPT ![b] = "bs_sh"]
                  /\ UNCHANGED <<common, lwEx, hstate, heapscan>>
       /\ UNCHANGED <<common, slot, alive, refcnt, cached, ncols, lwSh, hold, need,
                      ev, tree, err>>

(* The first tcache_scan_next of the builder loads the whole heap         *)
(* (tcache_build_main, see TTree) and closes the heap scan.  Into a freed  *)
(* root, tcache_insert_tuple reads tc_node->tcs->nrows with tcs NULL.      *)
ScanNext(b) ==
    LET h == hold[b] IN
    /\ err = "none"
    /\ pc[b] = "build"
    /\ IF h \notin alive THEN Fault("use after free")
       ELSE IF tree[h] = "freed" THEN Fault("NULL dereference") ELSE
       /\ tree' = [tree EXCEPT ![h] = "built"]
       /\ heapscan' = [heapscan EXCEPT ![b] = FALSE]
       /\ pc' = [pc EXCEPT ![b] = "built"]
       /\ UNCHANGED <<common, slot, alive, refcnt, hstate, cached, ncols, lwEx, lwSh,
                      hold, need, ev, err>>

(* tcache_free_node_recurse from tcs_root: every node goes on free_list   *)
(* with its column store put and tcs NULL; tcs_root is not reset.          *)
FreeTree(h) == [tree EXCEPT ![h] = "freed"]

(* tcache_end_scan: under tc_common->lock, a scan whose heap scan is still *)
(* open frees the tree and leaves the state alone, a finished build makes  *)
(* the head READY; then the reference is put.  No lwlock is released.      *)
EndScan(b) ==
    LET h == hold[b] IN
    /\ err = "none"
    /\ pc[b] \in {"build", "built", "read"}
    /\ IF common # {} THEN Fault("stuck spinlock")
       ELSE IF h \notin alive THEN Fault("use after free") ELSE
       /\ hstate' = IF ~heapscan[b] /\ hstate[h] = "NOW_BUILD"
                       THEN [hstate EXCEPT ![h] = "READY"] ELSE hstate
       /\ tree' = IF heapscan[b] THEN FreeTree(h) ELSE tree
       /\ PutRef(h)
       /\ heapscan' = [heapscan EXCEPT ![b] = FALSE]
       /\ pc' = [pc EXCEPT ![b] = "idle"]
       /\ hold' = [hold EXCEPT ![b] = NoHead]
       /\ need' = [need EXCEPT ![b] = {}]
       /\ UNCHANGED <<slot, cached, ncols, lwEx, lwSh, ev, common, err>>

(* tcache_rescan: the stores the scan holds are put (see RowStore); under  *)
(* tc_head->lock a head still NOW_BUILD has its tree freed, tcs_root left  *)
(* pointing at the freed root; an open heap scan is rewound, so the next   *)
(* scan_next builds again.                                                  *)
Rescan(b) ==
    LET h == hold[b] IN
    /\ err = "none"
    /\ pc[b] \in {"build", "built", "read"}
    /\ IF h \notin alive THEN Fault("use after free") ELSE
       /\ tree' = IF hstate[h] = "NOW_BUILD" THEN FreeTree(h) ELSE tree
       /\ UNCHANGED <<slot, alive, refcnt, hstate, cached, ncols, lwEx, lwSh,
                      pc, hold, need, heapscan, ev, common, err>>
-----------------------------------------------------------------------------
(* pgstrom_tcache_synchronizer, up to LWLockAcquire(LW_SHARED): the head   *)
(* is looked up without creation; a NULL return ends the trigger at once.  *)
TrigGet(b, e) ==
    /\ err = "none"
    /\ pc[b] = "idle"
    /\ GetTchead(b, {}, FALSE, "trig")
    /\ ev' = IF pc'[b] = "trig" THEN [ev EXCEPT ![b] = e] ELSE ev
    /\ UNCHANGED <<need, heapscan>>

(* tcache_unlink_tchead, under tc_common->lock: the head is unlinked and   *)
(* put when its chain node is NULL, and only put otherwise.  Deleting the  *)
(* NULL node faults.                                                        *)
UnlinkTchead(h) ==
    IF common # {}
       THEN /\ err' = "stuck spinlock"
            /\ UNCHANGED <<slot, refcnt, alive>>
    ELSE IF h \notin ToSet(slot)
       THEN /\ err' = "NULL dlist node"
            /\ UNCHANGED <<slot, refcnt, alive>>
       ELSE /\ PutRef(h)
            /\ UNCHANGED <<slot, err>>

(* The body of the trigger, once the shared lwlock is granted.  An insert, *)
(* update or delete goes to the row store (see the row store component);  *)
(* a TRUNCATE unlinks the head.                                            *)
TrigRun(b) ==
    LET h == hold[b] IN
    /\ err = "none"
    /\ pc[b] = "trig"
    /\ IF h \notin alive THEN Fault("use after free") ELSE
       /\ lwEx[h] = {}
       /\ lwSh' = [lwSh EXCEPT ![h][b] = @ + 1]
       /\ IF ev[b] = "truncate"
             THEN UnlinkTchead(h)
             ELSE UNCHANGED <<slot, refcnt, alive, err>>
       /\ pc' = [pc EXCEPT ![b] = "trig_end"]
       /\ UNCHANGED <<hstate, cached, ncols, lwEx, hold, need, heapscan, ev,
                      common, tree>>

(* The end of the trigger: LWLockRelease, then tcache_put_tchead under     *)
(* tc_common->lock.                                                         *)
TrigEnd(b) ==
    LET h == hold[b] IN
    /\ err = "none"
    /\ pc[b] = "trig_end"
    /\ IF h \notin alive THEN Fault("use after free")
       ELSE IF common # {} THEN Fault("stuck spinlock") ELSE
       /\ lwSh' = [lwSh EXCEPT ![h][b] = @ - 1]
       /\ PutRef(h)
       /\ pc' = [pc EXCEPT ![b] = "idle"]
       /\ hold' = [hold EXCEPT ![b] = NoHead]
       /\ ev' = [ev EXCEPT ![b] = "insert"]
       /\ UNCHANGED <<slot, hstate, cached, ncols, lwEx, need, heapscan,
                      common, tree, err>>

(* tcache_on_page_prune, up to the vacuum: the head is looked up without   *)
(* creation.                                                               *)
PruneGet(b) ==
    /\ err = "none"
    /\ pc[b] = "idle"
    /\ GetTchead(b, {}, FALSE, "prune")
    /\ UNCHANGED <<need, heapscan, ev>>

(* The vacuum of the row and column stores runs under a shared lwlock,     *)
(* taken unless the backend already holds the lock; the reference taken by *)
(* tcache_get_tchead is never put.                                         *)
PruneRun(b) ==
    LET h == hold[b] IN
    /\ err = "none"
    /\ pc[b] = "prune"
    /\ IF h \notin alive THEN Fault("use after free") ELSE
       /\ HeldBy(b, h) \/ lwEx[h] = {}
       /\ pc' = [pc EXCEPT ![b] = "idle"]
       /\ hold' = [hold EXCEPT ![b] = NoHead]
       /\ UNCHANGED <<common, headVars, lwEx, lwSh, need, heapscan, ev, err>>

(* tcache_on_object_access for OAT_DROP or OAT_POST_ALTER of the relation: *)
(* every head of it on the slot is unlinked and put, under tc_common->lock. *)
(* With no head linked the section changes nothing but that lock.          *)
ObjectAccess(b) ==
    /\ err = "none"
    /\ pc[b] = "idle"
    /\ slot # <<>> \/ common # {}
    /\ IF common # {} THEN Fault("stuck spinlock")
       ELSE IF \E h \in ToSet(slot) : h \notin alive THEN Fault("use after free") ELSE
       /\ slot' = <<>>
       /\ refcnt' = [h \in HeadIds |-> IF h \in ToSet(slot) THEN refcnt[h] - 1
                                                            ELSE refcnt[h]]
       /\ alive' = {h \in alive : h \in ToSet(slot) => refcnt[h] > 1}
       /\ UNCHANGED <<hstate, cached, ncols, lwEx, lwSh, pc, hold, need,
                      heapscan, ev, common, tree, err>>

(* The backend process exits between calls: LWLockReleaseAll.              *)
Disconnect(b) ==
    /\ err = "none"
    /\ pc[b] = "idle"
    /\ \E h \in HeadIds : HeldBy(b, h)
    /\ IF \E h \in HeadIds \ alive : HeldBy(b, h)
          THEN Fault("use after free")
          ELSE /\ ReleaseAllOf(b)
               /\ UNCHANGED <<common, headVars, pc, hold, need, heapscan, ev,
                              err>>

(* After undefined behaviour the postmaster kills every backend and        *)
(* re-initialises shared memory.                                           *)
Restart ==
    /\ err # "none"
    /\ slot' = <<>>
    /\ alive' = {}
    /\ refcnt' = [h \in HeadIds |-> 0]
    /\ hstate' = [h \in HeadIds |-> "NOT_BUILT"]
    /\ cached' = [h \in HeadIds |-> {}]
    /\ ncols'  = [h \in HeadIds |-> 0]
    /\ lwEx' = [h \in HeadIds |-> {}]
    /\ lwSh' = [h \in HeadIds |-> [b \in Backends |-> 0]]
    /\ pc' = [b \in Backends |-> "idle"]
    /\ hold' = [b \in Backends |-> NoHead]
    /\ need' = [b \in Backends |-> {}]
    /\ heapscan' = [b \in Backends |-> FALSE]
    /\ ev' = [b \in Backends |-> "insert"]
    /\ common' = {}
    /\ tree' = [h \in HeadIds |-> "empty"]
    /\ err' = "none"

Next ==
    \/ \E b \in Backends, R \in Requests : BeginScan(b, R)
    \/ \E b \in Backends, R \in Requests : BeginScanOOM(b, R)
    \/ \E b \in Backends : AcqShared(b)
    \/ \E b \in Backends : AcqExclusive(b)
    \/ \E b \in Backends : ScanNext(b)
    \/ \E b \in Backends : EndScan(b)
    \/ \E b \in Backends : Rescan(b)
    \/ \E b \in Backends : TrigRun(b)
    \/ \E b \in Backends : TrigEnd(b)
    \/ \E b \in Backends : PruneGet(b)
    \/ \E b \in Backends : PruneRun(b)
    \/ \E b \in Backends : ObjectAccess(b)
    \/ \E b \in Backends : Disconnect(b)
    \/ \E b \in Backends, e \in Events : TrigGet(b, e)
    \/ Restart

Spec == Init /\ [][Next]_vars

(* A backend waiting for the lwlock is granted it once nobody holds it in  *)
(* a conflicting mode (LWLockRelease wakes the waiters); a backend inside  *)
(* a call finishes it.  Starting calls, DDL and exiting are never forced.  *)
Fairness ==
    \A b \in Backends :
        /\ WF_vars(AcqShared(b))
        /\ WF_vars(AcqExclusive(b))
        /\ WF_vars(ScanNext(b))
        /\ WF_vars(EndScan(b))
        /\ WF_vars(TrigRun(b))
        /\ WF_vars(TrigEnd(b))
        /\ WF_vars(PruneRun(b))

FairSpec == Spec /\ Fairness

-----------------------------------------------------------------------------
TypeOK ==
    /\ slot \in Seq(HeadIds)
    /\ alive \subseteq HeadIds
    /\ refcnt \in [HeadIds -> 0..MaxRefcnt]
    /\ hstate \in [HeadIds -> {"NOT_BUILT", "NOW_BUILD", "READY"}]
    /\ cached \in [HeadIds -> SUBSET Cols]
    /\ ncols \in [HeadIds -> 0..(NCols + 1)]
    /\ lwEx \in [HeadIds -> SUBSET Backends]
    /\ lwSh \in [HeadIds -> [Backends -> 0..(MaxShared + 1)]]
    /\ pc \in [Backends -> PCs]
    /\ hold \in [Backends -> HeadIds \cup {NoHead}]
    /\ heapscan \in [Backends -> BOOLEAN]
    /\ common \subseteq Backends /\ Cardinality(common) <= 1
    /\ tree \in [HeadIds -> {"empty", "built", "freed"}]
    /\ err \in {"none", "use after free", "stuck spinlock", "NULL dlist node",
                "NULL dereference"}

(* tcache_get_tchead unlinks the old head of a relation whenever it links  *)
(* a new one, so a lookup never has two caches of one relation to choose   *)
(* from.                                                                    *)
SingleLinked == Len(slot) <= 1

(* The heap is loaded into a head only by a backend that holds its lwlock  *)
(* exclusively, while no backend, the builder included, holds it shared   *)
(* and no other backend is reading that head.                             *)
BuilderExclusive ==
    \A b \in Backends :
        (pc[b] = "build" /\ hold[b] \in alive) =>
            /\ lwEx[hold[b]] = {b}
            /\ \A c \in Backends : lwSh[hold[b]][c] = 0
            /\ \A c \in Backends \ {b} :
                  ~(pc[c] \in {"read", "build", "built"} /\ hold[c] = hold[b])

(* No backend ever spins on tc_common->lock until s_lock_stuck PANICs:    *)
(* every section that takes it, the lookup of tcache_get_tchead included,  *)
(* releases it before the backend waits for an lwlock, returns or takes    *)
(* it again (spin.h: a spinlock is held for a few instructions), so the    *)
(* lookups, puts, unlinks and end_scans of any number of backends all get  *)
(* it.                                                                      *)
NoStuckSpinlock == err # "stuck spinlock"

(* A backend that has entered tcache_begin_scan eventually starts to build *)
(* or read the cache.                                                      *)
ScanStarts ==
    \A b \in Backends :
        (pc[b] \in {"bs_sh", "bs_ex"}) ~> (pc[b] \in {"build", "read"} \/ err # "none")
=============================================================================
