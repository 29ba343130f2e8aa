---------------------------- MODULE MCShmemArena ----------------------------
(* A segment of eight units, a one-unit header and a two-unit slack, so    *)
(* that first fit, both alloc branches, fragmentation and coalescing with  *)
(* either neighbour all occur with three callers.                          *)
EXTENDS ShmemArena

MCTags == {"SHMEM_BLOCK_CHUNK_BUFFER"}

(* free_size only ever grows past Total through the split branch of alloc, *)
(* which never subtracts; the search stops once it exceeds this bound.    *)
FreeSizeCap == 2 * Total
FreeSizeBound == freeSize <= FreeSizeCap
=============================================================================
