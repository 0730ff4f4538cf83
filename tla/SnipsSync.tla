------------------------------ MODULE SnipsSync ------------------------------
(* Snips implements ChunkSync: n has advertised the chunks of every proof whose *)
(* snapshot it took, also of proofs that were never built or sent.              *)
EXTENDS Snips

Advertised ==
    [n \in Node |-> UNION {proofs[id].base : id \in
                              {j \in DOMAIN proofs : proofs[j].creator = n}}]

Sync == INSTANCE ChunkSync WITH advertised <- Advertised

(* The abstract promise holds of uploadMissingChunks with stale mappings, of    *)
(* evictions and of crashes: a chunk reaches a store only from a peer that had  *)
(* proved it and that the receiver counts to its neighbourhood.                 *)
ImplementsChunkSync == Sync!Spec
==============================================================================
