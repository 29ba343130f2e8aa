----------------------------- MODULE ShmemArena -----------------------------
(***************************************************************************)
(* The shared memory segment of shmem.c (src/main.c): one segment cut into *)
(* blocks chained in address order (addr_head) and the free blocks chained *)
(* on a second list (free_head).  pgstrom_shmem_alloc is first-fit over    *)
(* free_head and splits a block unless the remainder is under the slack    *)
(* threshold; pgstrom_shmem_free coalesces with the previous and the next  *)
(* block in address order and pushes the result on the head of free_head.  *)
(* Both run entirely under pgstrom_shmem_head->lock, so each is one atomic *)
(* step here.  A block is identified by its offset in the segment, which   *)
(* is what the block pointer of the code is.  Sizes are in abstract units; *)
(* Header stands for the ShmemBlock header plus the overrun marker.        *)
(*                                                                         *)
(* The callers are a set of allocation Sites; each holds at most one block *)
(* obtained from alloc and eventually frees it.  A failed Assert aborts    *)
(* the backend, upon which the postmaster re-initialises shared memory     *)
(* (pgstrom_shmem_startup runs again): that is the Restart action.         *)
(***************************************************************************)
EXTENDS Naturals, Sequences, SequencesExt, FiniteSets

CONSTANTS
    Total,      \* total_size of the segment
    Header,     \* offsetof(ShmemBlock, data) + sizeof(overrun marker)
    Slack,      \* the "similar size" threshold (4096 in the code)
    Sizes,      \* payload sizes callers request
    Tags,       \* SHMEM_BLOCK_STROM_QUEUE, SHMEM_BLOCK_KERNEL_PARAMS, ...
    Sites       \* callers of pgstrom_shmem_alloc

ASSUME Total \in Nat \ {0} /\ Header \in Nat \ {0} /\ Slack \in Nat
ASSUME Sizes \subseteq Nat \ {0}

Free    == "SHMEM_BLOCK_FREE"
NoBlock == [addr |-> Total, req |-> 0]     \* a NULL return / nothing held
Addrs   == 0..(Total - 1)

VARIABLES
    addrList,   \* addr_head: block offsets in list order
    freeList,   \* free_head: free block offsets in list order
    size,       \* block->size, by offset (meaningful for block heads)
    magic,      \* block->magic, by offset
    freeSize,   \* pgstrom_shmem_head->free_size
    owned,      \* owned[s]: the block a Site got from alloc, and what it asked
    panicked    \* an Assert failed; the backend aborted

vars == <<addrList, freeList, size, magic, freeSize, owned, panicked>>

(* required = MAXALIGN(offsetof(ShmemBlock, data) + MAXALIGN(size) + 4)   *)
Required(sz) == Header + sz

-----------------------------------------------------------------------------
(* pgstrom_shmem_startup: one free block spanning the segment.            *)
Init ==
    /\ addrList = <<0>>
    /\ freeList = <<0>>
    /\ size     = [a \in Addrs |-> IF a = 0 THEN Total ELSE 0]
    /\ magic    = [a \in Addrs |-> Free]
    /\ freeSize = Total
    /\ owned    = [s \in Sites |-> NoBlock]
    /\ panicked = FALSE

IndexOf(seq, x) == SelectInSeq(seq, LAMBDA y : y = x)

(* Faulty variant: the remainder block is sized one unit short.           *)
AllocSplitBadSize(b, tag, req) ==
    LET new == b + req IN
    /\ addrList' = InsertAt(addrList, IndexOf(addrList, b) + 1, new)
    /\ freeList' = Cons(new, Remove(freeList, b))
    /\ size'     = [size EXCEPT ![new] = size[b] - req - 1, ![b] = req]
    /\ magic'    = [magic EXCEPT ![new] = Free, ![b] = tag]
    /\ UNCHANGED freeSize

(* The split branch of pgstrom_shmem_alloc: block_new at block + required  *)
(* is linked after block in address order and pushed on free_head; the    *)
(* allocated block shrinks to required.  free_size is left untouched.     *)
AllocSplit(b, tag, req) ==
    LET new == b + req IN
    /\ addrList' = InsertAt(addrList, IndexOf(addrList, b) + 1, new)
    /\ freeList' = Cons(new, Remove(freeList, b))
    /\ size'     = [size EXCEPT ![new] = size[b] - req, ![b] = req]
    /\ magic'    = [magic EXCEPT ![new] = Free, ![b] = tag]
    /\ UNCHANGED freeSize

(* The whole-block branch: the block is unlinked from free_head as is.     *)
AllocWhole(b, tag) ==
    /\ freeList' = Remove(freeList, b)
    /\ magic'    = [magic EXCEPT ![b] = tag]
    /\ freeSize' = freeSize - size[b]
    /\ UNCHANGED <<addrList, size>>

(* pgstrom_shmem_alloc(tag, sz) called from Site s.  The dlist_foreach     *)
(* loop leaves 'block' at the last free block it visited when none is big  *)
(* enough, and that block is returned.  When free_head is empty NULL is    *)
(* returned and nothing changes, so that outcome is not a step.            *)
Alloc(s, tag, sz) ==
    LET req == Required(sz)
        i   == SelectInSeq(freeList, LAMBDA b : size[b] >= req)
    IN
    /\ ~panicked
    /\ owned[s] = NoBlock
    /\ freeList # <<>>
    /\ \/ /\ i # 0
          /\ LET b == freeList[i] IN
             /\ IF size[b] < req + Slack
                   THEN AllocWhole(b, tag)
                   ELSE AllocSplit(b, tag, req)
             /\ owned' = [owned EXCEPT ![s] = [addr |-> b, req |-> req]]
       \/ /\ i = 0
          /\ owned' = [owned EXCEPT ![s] = [addr |-> Last(freeList), req |-> req]]
          /\ UNCHANGED <<addrList, freeList, size, magic, freeSize>>
    /\ UNCHANGED panicked

(* Faulty variants of the coalescing steps: merging into the previous     *)
(* block counts the header twice, or leaves it on free_head; the next      *)
(* block is never merged.                                                  *)
MergePrevHeader(st) ==
    LET i == IndexOf(st.addrs, st.at)
        p == st.addrs[i - 1]
    IN IF i > 1 /\ magic[p] = Free
       THEN [addrs |-> RemoveAt(st.addrs, i),
             frees |-> Remove(st.frees, p),
             size  |-> [st.size EXCEPT ![p] = @ + st.size[st.at] + Header],
             at    |-> p]
       ELSE st
MergePrevKeepFree(st) ==
    LET i == IndexOf(st.addrs, st.at)
        p == st.addrs[i - 1]
    IN IF i > 1 /\ magic[p] = Free
       THEN [addrs |-> RemoveAt(st.addrs, i),
             frees |-> st.frees,
             size  |-> [st.size EXCEPT ![p] = @ + st.size[st.at]],
             at    |-> p]
       ELSE st
MergeNextNone(st) == st

(* The coalescing steps of pgstrom_shmem_free, on a record                *)
(* [addrs, frees, size, at] where 'at' is the block being freed.           *)
MergePrev(st) ==
    LET i == IndexOf(st.addrs, st.at)
        p == st.addrs[i - 1]
    IN IF i > 1 /\ magic[p] = Free
       THEN [addrs |-> RemoveAt(st.addrs, i),
             frees |-> Remove(st.frees, p),
             size  |-> [st.size EXCEPT ![p] = @ + st.size[st.at]],
             at    |-> p]
       ELSE st

MergeNext(st) ==
    LET i == IndexOf(st.addrs, st.at)
        n == st.addrs[i + 1]
    IN IF i < Len(st.addrs) /\ magic[n] = Free
       THEN [st EXCEPT !.addrs = RemoveAt(st.addrs, i + 1),
                       !.frees = Remove(st.frees, n),
                       !.size  = [st.size EXCEPT ![st.at] = @ + st.size[n]]]
       ELSE st

(* pgstrom_shmem_free of the block Site s holds.  Assert(magic is USED)    *)
(* aborts the backend when the block is free; a pointer that is no longer  *)
(* a block head (its block was merged away) reads a stale header, which we *)
(* count as the same abort.                                                *)
ShmemFree(s) ==
    LET b  == owned[s].addr
        st == MergeNext(MergePrev([addrs |-> addrList, frees |-> freeList,
                                   size  |-> size, at |-> b]))
    IN
    /\ ~panicked
    /\ owned[s] # NoBlock
    /\ IF b \in ToSet(addrList) /\ magic[b] # Free
          THEN /\ addrList' = st.addrs
               /\ freeList' = Cons(st.at, st.frees)
               /\ size'     = st.size
               /\ magic'    = [magic EXCEPT ![st.at] = Free]
               /\ freeSize' = freeSize + size[b]
               /\ UNCHANGED panicked
          ELSE /\ panicked' = TRUE
               /\ UNCHANGED <<addrList, freeList, size, magic, freeSize>>
    /\ owned' = [owned EXCEPT ![s] = NoBlock]

(* Crash-restart after an aborted backend: shared memory is rebuilt.       *)
Restart ==
    /\ panicked
    /\ addrList' = <<0>>
    /\ freeList' = <<0>>
    /\ size'     = [a \in Addrs |-> IF a = 0 THEN Total ELSE 0]
    /\ magic'    = [a \in Addrs |-> Free]
    /\ freeSize' = Total
    /\ owned'    = [s \in Sites |-> NoBlock]
    /\ panicked' = FALSE

Next ==
    \/ \E s \in Sites, t \in Tags, sz \in Sizes : Alloc(s, t, sz)
    \/ \E s \in Sites : ShmemFree(s)
    \/ Restart

Spec == Init /\ [][Next]_vars

-----------------------------------------------------------------------------
TypeOK ==
    /\ addrList \in Seq(Addrs)
    /\ freeList \in Seq(Addrs)
    /\ size  \in [Addrs -> 0..Total]
    /\ magic \in [Addrs -> Tags \cup {Free}]
    /\ freeSize \in Nat
    /\ owned \in [Sites -> [addr : Addrs \cup {Total}, req : Nat]]
    /\ panicked \in BOOLEAN

(* The address-ordered list tiles the segment: it starts at offset 0, each *)
(* block begins where the previous one ends, and the last ends at Total.   *)
(* Broken by a split or a merge that miscounts a size.                     *)
SegmentTiled ==
    /\ Len(addrList) > 0
    /\ addrList[1] = 0
    /\ \A i \in 1..(Len(addrList) - 1) :
          addrList[i + 1] = addrList[i] + size[addrList[i]]
    /\ addrList[Len(addrList)] + size[addrList[Len(addrList)]] = Total

(* After every alloc and free, no two address-adjacent blocks are both     *)
(* free: pgstrom_shmem_free must coalesce with both neighbours.            *)
Coalesced ==
    \A i \in 1..(Len(addrList) - 1) :
        ~(magic[addrList[i]] = Free /\ magic[addrList[i + 1]] = Free)

(* free_head holds each free block exactly once and nothing else: a block  *)
(* is on it if and only if its magic is SHMEM_BLOCK_FREE.                  *)
FreeListExact ==
    /\ ToSet(freeList) = {a \in ToSet(addrList) : magic[a] = Free}
    /\ Len(freeList) = Cardinality(ToSet(freeList))

(* Every block handed out by pgstrom_shmem_alloc gives its caller the      *)
(* bytes it asked for inside one used block, and no two callers are given *)
(* overlapping bytes.                                                      *)
Span(s) == owned[s].addr..(owned[s].addr + owned[s].req - 1)
OwnedSpansExclusive ==
    /\ \A s \in Sites : owned[s] # NoBlock =>
          /\ owned[s].addr \in ToSet(addrList)
          /\ magic[owned[s].addr] # Free
          /\ owned[s].req <= size[owned[s].addr]
    /\ \A s, t \in Sites :
          (s # t /\ owned[s] # NoBlock /\ owned[t] # NoBlock)
             => Span(s) \cap Span(t) = {}
=============================================================================
