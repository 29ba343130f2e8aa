---------------------------- MODULE MCShmemTrack ----------------------------
(* Two processes, each a backend that can also fill varlena buffers of the *)
(* other's chunks, and four arena blocks: enough for a transaction and a   *)
(* subtransaction to hold chunks, params and queues of both owners at once, *)
(* with a varlena buffer on a chunk.                                        *)
EXTENDS ShmemTrack
=============================================================================
