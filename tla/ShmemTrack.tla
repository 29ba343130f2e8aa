----------------------------- MODULE ShmemTrack -----------------------------
(***************************************************************************)
(* The typed buffers of shmem.c (src/main.c) and the resource-release      *)
(* callback that reclaims them.  Queues, kernel-params buffers and chunk   *)
(* buffers are arena blocks that the allocating process chains on its      *)
(* private shmem_private_track list; varlena buffers are not tracked but   *)
(* hang on the vlbuf_list of a chunk buffer, possibly allocated by another *)
(* process.  pgstrom_shmem_cleanup runs when a resource owner is released  *)
(* (commit or abort, of a transaction or a subtransaction) and frees the   *)
(* owner's chunks, waiting for a kernel still running on each, then its    *)
(* kernel params, then its queues.                                         *)
(*                                                                         *)
(* The arena is a pool: ShmemArena checks first fit, splitting and         *)
(* coalescing; here a block is free or carries its magic, pid and owner.   *)
(* Whoever runs a chunk's kernel (the OpenCL server, not in this           *)
(* repository) is the environment: the owning backend sets is_running     *)
(* when it hands the chunk over, and the server clears it and signals      *)
(* chunk->cond when the kernel ends.                                       *)
(***************************************************************************)
EXTENDS Naturals, Sequences, SequencesExt, FiniteSets

CONSTANTS
    Procs,      \* processes: backends, and loaders filling varlena buffers
    Blocks      \* arena blocks

None    == "none"
Free    == "SHMEM_BLOCK_FREE"
Queue   == "SHMEM_BLOCK_STROM_QUEUE"
Params  == "SHMEM_BLOCK_KERNEL_PARAMS"
Chunk   == "SHMEM_BLOCK_CHUNK_BUFFER"
Varlena == "SHMEM_BLOCK_VARLENA_BUFFER"
Tracked == {Queue, Params, Chunk}

(* The resource owners of a backend: its transaction and one level of      *)
(* subtransaction below it.                                                 *)
Top == "TopTransaction"
Sub == "Subtransaction"

VARIABLES
    blk,        \* blk[a]: block->magic, block->pid, block->owner
    vl,         \* vl[c]: the varlena buffers on chunk->vlbuf_list
    running,    \* running[c]: chunk->is_running
    track,      \* track[p]: shmem_private_track of p, in list order
    stack,      \* stack[p]: p's resource owners, CurrentResourceOwner last
    cpc,        \* cleanup of p: "none", "step1", "wait" (in cond_wait), "woken"
    cur         \* cur[p]: the chunk p's cleanup waits for

vars == <<blk, vl, running, track, stack, cpc, cur>>

Init ==
    /\ blk = [a \in Blocks |-> [tag |-> Free, pid |-> None, owner |-> None]]
    /\ vl = [a \in Blocks |-> {}]
    /\ running = [a \in Blocks |-> FALSE]
    /\ track = [p \in Procs |-> <<>>]
    /\ stack = [p \in Procs |-> <<>>]
    /\ cpc = [p \in Procs |-> "none"]
    /\ cur = [p \in Procs |-> None]

FreeBlocks == {a \in Blocks : blk[a].tag = Free}
Owner(p) == IF stack[p] = <<>> THEN None ELSE Last(stack[p])
InXact(p) == stack[p] # <<>> /\ cpc[p] = "none"

(* pgstrom_shmem_alloc as seen by its callers: a free block gets the       *)
(* magic, getpid() and CurrentResourceOwner.                                *)
Take(p, a, tag) == [tag |-> tag, pid |-> p, owner |-> Owner(p)]

(* pgstrom_shmem_free: the magic becomes SHMEM_BLOCK_FREE.  pid and owner *)
(* stay in the header, but nothing reads them before pgstrom_shmem_alloc   *)
(* overwrites them, so they are cleared here.                              *)
Release(a) == [tag |-> Free, pid |-> None, owner |-> None]

Untrack(p, S) == SelectSeq(track[p], LAMBDA a : a \notin S)

-----------------------------------------------------------------------------
(* Faulty variant: the block is tracked before pgstrom_cond_init is known  *)
(* to have succeeded, and the failure path frees it without untracking.    *)
QueueAllocTrackFirst(p, a, ok) ==
    /\ blk' = [blk EXCEPT ![a] = IF ok THEN Take(p, a, Queue) ELSE @]
    /\ track' = [track EXCEPT ![p] = Append(@, a)]

(* pgstrom_queue_alloc after pgstrom_shmem_alloc returned block a: when    *)
(* pgstrom_cond_init fails the block is freed again and NULL (or ERROR)    *)
(* comes back; otherwise it is chained on the private tracker.             *)
QueueAllocBody(p, a, ok) ==
    /\ blk' = [blk EXCEPT ![a] = IF ok THEN Take(p, a, Queue) ELSE @]
    /\ track' = IF ok THEN [track EXCEPT ![p] = Append(@, a)] ELSE track

QueueAlloc(p) ==
    /\ InXact(p)
    /\ \E a \in FreeBlocks, ok \in BOOLEAN :
          /\ QueueAllocBody(p, a, ok)
          /\ UNCHANGED <<vl, running, stack, cpc, cur>>

(* pgstrom_kernel_params_alloc *)
KernelParamsAlloc(p) ==
    /\ InXact(p)
    /\ \E a \in FreeBlocks :
          /\ blk' = [blk EXCEPT ![a] = Take(p, a, Params)]
          /\ track' = [track EXCEPT ![p] = Append(@, a)]
    /\ UNCHANGED <<vl, running, stack, cpc, cur>>

(* pgstrom_chunk_buffer_alloc: the same cond_init failure path as a queue; *)
(* a tracked chunk starts with an empty vlbuf_list and is_running false.   *)
ChunkBufferAlloc(p) ==
    /\ InXact(p)
    /\ \E a \in FreeBlocks, ok \in BOOLEAN :
          /\ blk' = [blk EXCEPT ![a] = IF ok THEN Take(p, a, Chunk) ELSE @]
          /\ track' = IF ok THEN [track EXCEPT ![p] = Append(@, a)] ELSE track
          /\ vl' = [vl EXCEPT ![a] = {}]
          /\ running' = [running EXCEPT ![a] = FALSE]
    /\ UNCHANGED <<stack, cpc, cur>>

(* pgstrom_varlena_buffer_alloc by any process, not tracked, and put on    *)
(* the vlbuf_list of an allocated chunk as its header comment requires.    *)
VarlenaBufferAlloc(q, c) ==
    /\ cpc[q] = "none"
    /\ blk[c].tag = Chunk
    /\ \E a \in FreeBlocks :
          /\ blk' = [blk EXCEPT ![a] = Take(q, a, Varlena)]
          /\ vl' = [vl EXCEPT ![c] = @ \cup {a}]
    /\ UNCHANGED <<running, track, stack, cpc, cur>>

(* pgstrom_queue_free and pgstrom_kernel_params_free of a block p tracks.  *)
TrackedFree(p, a, tag) ==
    /\ InXact(p)
    /\ a \in ToSet(track[p]) /\ blk[a].tag = tag
    /\ blk' = [blk EXCEPT ![a] = Release(a)]
    /\ track' = [track EXCEPT ![p] = Untrack(p, {a})]
    /\ UNCHANGED <<vl, running, stack, cpc, cur>>

(* Faulty variant: the varlena buffers of the chunk are left allocated.   *)
ChunkBufferFreeKeepVl(p, c) ==
    /\ blk' = [blk EXCEPT ![c] = Release(c)]
    /\ vl' = [vl EXCEPT ![c] = {}]
    /\ track' = [track EXCEPT ![p] = Untrack(p, {c})]

(* pgstrom_chunk_buffer_free: every buffer on vlbuf_list is freed with     *)
(* pgstrom_varlena_buffer_free, then the chunk is untracked and freed.     *)
ChunkBufferFree(p, c) ==
    /\ blk' = [a \in Blocks |-> IF a \in vl[c] \cup {c} THEN Release(a) ELSE blk[a]]
    /\ vl' = [vl EXCEPT ![c] = {}]
    /\ track' = [track EXCEPT ![p] = Untrack(p, {c})]

(* A backend frees its own chunk once its kernel is done with it.          *)
ChunkFree(p, c) ==
    /\ InXact(p)
    /\ c \in ToSet(track[p]) /\ blk[c].tag = Chunk /\ ~running[c]
    /\ ChunkBufferFree(p, c)
    /\ UNCHANGED <<running, stack, cpc, cur>>

(* The backend hands a chunk to the server, is_running set first.         *)
Submit(p, c) ==
    /\ InXact(p)
    /\ c \in ToSet(track[p]) /\ blk[c].tag = Chunk /\ ~running[c]
    /\ running' = [running EXCEPT ![c] = TRUE]
    /\ UNCHANGED <<blk, vl, track, stack, cpc, cur>>

(* The kernel ends: is_running cleared, chunk->cond signalled, which wakes *)
(* a cleanup waiting on it.                                                 *)
Finish(c) ==
    /\ running[c]
    /\ running' = [running EXCEPT ![c] = FALSE]
    /\ cpc' = [p \in Procs |->
                 IF cpc[p] = "wait" /\ cur[p] = c THEN "woken" ELSE cpc[p]]
    /\ UNCHANGED <<blk, vl, track, stack, cur>>

-----------------------------------------------------------------------------
(* StartTransaction and the start of a subtransaction.                     *)
BeginXact(p) ==
    /\ stack[p] = <<>> /\ cpc[p] = "none"
    /\ stack' = [stack EXCEPT ![p] = <<Top>>]
    /\ UNCHANGED <<blk, vl, running, track, cpc, cur>>

BeginSub(p) ==
    /\ InXact(p) /\ Len(stack[p]) = 1
    /\ stack' = [stack EXCEPT ![p] = Append(@, Sub)]
    /\ UNCHANGED <<blk, vl, running, track, cpc, cur>>

(* Commit, abort or an ERROR (out of shared memory, a failed cond_init     *)
(* with abort_on_error) releases CurrentResourceOwner; the callback gets   *)
(* phase RESOURCE_RELEASE_AFTER_LOCKS and does the same for either.        *)
ReleaseOwner(p) ==
    /\ InXact(p)
    /\ cpc' = [cpc EXCEPT ![p] = "step1"]
    /\ UNCHANGED <<blk, vl, running, track, stack, cur>>

OwnedBy(p, tag) == {a \in ToSet(track[p]) : blk[a].tag = tag /\ blk[a].owner = Owner(p)}

(* Faulty variant: step 2 frees every tracked kernel-params buffer.       *)
ParamsOfAny(p) == {a \in ToSet(track[p]) : blk[a].tag = Params}

(* Step 2 of pgstrom_shmem_cleanup: the owner's kernel-params buffers.     *)
ParamsOf(p) == OwnedBy(p, Params)

(* Step 1 of pgstrom_shmem_cleanup takes the first chunk of the owner on   *)
(* the tracker and waits on its condition variable.  With none left, steps *)
(* 2 and 3 free the owner's kernel params and then every other block of    *)
(* the owner still tracked, as a queue; the owner is then gone.            *)
CleanupStep(p) ==
    LET chunks == SelectSeq(track[p], LAMBDA a : a \in OwnedBy(p, Chunk))
        rest   == {a \in ToSet(track[p]) : blk[a].owner = Owner(p)} \ ParamsOf(p)
        gone   == ParamsOf(p) \cup rest
    IN
    /\ cpc[p] = "step1"
    /\ \/ /\ chunks # <<>>
          /\ cur' = [cur EXCEPT ![p] = Head(chunks)]
          /\ cpc' = [cpc EXCEPT ![p] = "wait"]
          /\ UNCHANGED <<blk, track, stack>>
       \/ /\ chunks = <<>>
          /\ blk' = [a \in Blocks |-> IF a \in gone THEN Release(a) ELSE blk[a]]
          /\ track' = [track EXCEPT ![p] = Untrack(p, gone)]
          /\ stack' = [stack EXCEPT ![p] = Front(@)]
          /\ cpc' = [cpc EXCEPT ![p] = "none"]
          /\ UNCHANGED cur
    /\ UNCHANGED <<vl, running>>

(* pgstrom_cond_wait(&chunk->cond, &chunk->lock, 30 * 1000) returns        *)
(* without a signal: a spurious wakeup, or the 30 s timeout (its tv_nsec   *)
(* stays below one second, as timeout % 1000 is 0).                        *)
Spurious(p) ==
    /\ cpc[p] = "wait"
    /\ cpc' = [cpc EXCEPT ![p] = "woken"]
    /\ UNCHANGED <<blk, vl, running, track, stack, cur>>

(* Faulty variant: the wait has no timeout, pgstrom_cond_wait(..., 0).     *)
TimeOutNever(p) == FALSE

TimeOut(p) ==
    /\ cpc[p] = "wait"
    /\ cpc' = [cpc EXCEPT ![p] = "woken"]
    /\ UNCHANGED <<blk, vl, running, track, stack, cur>>

(* Faulty variant: the chunk is freed after the first wait, running or not. *)
CleanupCheckNoRetry(p) ==
    /\ cpc[p] = "woken"
    /\ ChunkBufferFree(p, cur[p])
    /\ cpc' = [cpc EXCEPT ![p] = "step1"]
    /\ cur' = [cur EXCEPT ![p] = None]
    /\ UNCHANGED <<running, stack>>

(* After the wait: while is_running, wait again (goto retry); otherwise    *)
(* pgstrom_chunk_buffer_free and on to the next chunk.  The submitter is   *)
(* this backend, so nothing can set is_running between the test and the    *)
(* free.                                                                    *)
CleanupCheck(p) ==
    /\ cpc[p] = "woken"
    /\ \/ /\ running[cur[p]]
          /\ cpc' = [cpc EXCEPT ![p] = "wait"]
          /\ UNCHANGED <<blk, vl, track, cur>>
       \/ /\ ~running[cur[p]]
          /\ ChunkBufferFree(p, cur[p])
          /\ cpc' = [cpc EXCEPT ![p] = "step1"]
          /\ cur' = [cur EXCEPT ![p] = None]
    /\ UNCHANGED <<running, stack>>

Next ==
    \/ \E p \in Procs :
          \/ QueueAlloc(p) \/ KernelParamsAlloc(p) \/ ChunkBufferAlloc(p)
          \/ \E a \in Blocks : TrackedFree(p, a, Queue) \/ TrackedFree(p, a, Params)
          \/ \E c \in Blocks : ChunkFree(p, c) \/ Submit(p, c) \/ VarlenaBufferAlloc(p, c)
          \/ BeginXact(p) \/ BeginSub(p) \/ ReleaseOwner(p)
          \/ CleanupStep(p) \/ Spurious(p) \/ TimeOut(p) \/ CleanupCheck(p)
    \/ \E c \in Blocks : Finish(c)

(* The callback runs to its end; an armed timer fires; a kernel ends.      *)
(* Spurious wakeups and everything a backend starts are never forced.      *)
Fairness ==
    /\ \A p \in Procs : WF_vars(CleanupStep(p)) /\ WF_vars(CleanupCheck(p))
                        /\ WF_vars(TimeOut(p))
    /\ \A c \in Blocks : WF_vars(Finish(c))

Spec == Init /\ [][Next]_vars /\ Fairness

-----------------------------------------------------------------------------
TypeOK ==
    /\ blk \in [Blocks -> [tag : Tracked \cup {Free, Varlena},
                           pid : Procs \cup {None}, owner : {Top, Sub, None}]]
    /\ vl \in [Blocks -> SUBSET Blocks]
    /\ running \in [Blocks -> BOOLEAN]
    /\ \A a \in Blocks : running[a] => blk[a].tag = Chunk
    /\ track \in [Procs -> Seq(Blocks)]
    /\ stack \in [Procs -> {<<>>, <<Top>>, <<Top, Sub>>}]
    /\ cpc \in [Procs -> {"none", "step1", "wait", "woken"}]
    /\ \A p \in Procs : cur[p] \in IF cpc[p] \in {"wait", "woken"}
                                   THEN Blocks ELSE {None}

(* The private tracker of p lists, once each, exactly the queues, kernel   *)
(* params and chunk buffers p holds: no failed allocation leaves a freed   *)
(* block on it, and no free forgets to unchain one.                        *)
TrackExact ==
    \A p \in Procs :
        /\ IsInjective(track[p])
        /\ ToSet(track[p]) = {a \in Blocks : blk[a].tag \in Tracked /\ blk[a].pid = p}

(* No tracked block outlives its resource owner, and every varlena buffer  *)
(* hangs on an allocated chunk: once the callback for an owner has run,    *)
(* nothing the owner allocated is left in the arena.                       *)
NothingOutlivesOwner ==
    /\ \A p \in Procs : \A a \in ToSet(track[p]) : blk[a].owner \in ToSet(stack[p])
    /\ \A a \in Blocks : blk[a].tag = Varlena =>
          \E c \in Blocks : blk[c].tag = Chunk /\ a \in vl[c]

Freed(a) == blk[a].tag # Free /\ blk'[a].tag = Free

(* A step of pgstrom_shmem_cleanup in process p never frees a chunk buffer *)
(* while a kernel runs on it, and frees only blocks p allocated under the  *)
(* owner being released and the varlena buffers of that owner's chunks:    *)
(* releasing a subtransaction leaves the transaction's blocks alone.       *)
CleanupScoped ==
    [][\A p \in Procs :
          cpc[p] \in {"step1", "woken"} /\ cpc'[p] # cpc[p] =>
             \A a \in Blocks : Freed(a) =>
                /\ ~running[a]
                /\ \/ blk[a].pid = p /\ blk[a].owner = Owner(p)
                   \/ \E c \in Blocks : /\ a \in vl[c] /\ blk[c].pid = p
                                       /\ blk[c].owner = Owner(p)]_vars

(* The release of a resource owner ends: no chunk wait lasts for ever,     *)
(* whether or not the kernel was running, or signalled before the wait.   *)
CleanupTerminates ==
    \A p \in Procs : cpc[p] = "step1" ~> cpc[p] = "none"

=============================================================================
