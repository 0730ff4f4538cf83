----------------------------- MODULE ChunkSync -----------------------------
(* What SNIPS promises of the chunk stores of a neighbourhood, without proofs,  *)
(* values, mappings or messages: a peer advertises chunks it stores and is      *)
(* responsible for, and a peer that has the advertiser within its own depth     *)
(* may come to store such a chunk. Nothing else adds a chunk to a store.        *)
CONSTANTS Node, Chunk, Neighbor, Radius, InitStores

VARIABLES
    store,      \* store[n]: the chunks that n stores
    advertised  \* advertised[n]: the chunks n has ever made a proof of

vars == <<store, advertised>>

Init ==
    /\ store \in InitStores
    /\ advertised = [n \in Node |-> {}]

(* n proves chunks of its radius that it stores: all of them, if nothing fails. *)
Advertise(n) ==
    /\ \E cs \in SUBSET (store[n] \cap Radius[n]) :
         advertised' = [advertised EXCEPT ![n] = @ \cup cs]
    /\ UNCHANGED store

(* m gets chunks from n, who may have evicted them since.                       *)
Replicate(n, m) ==
    /\ n \in Neighbor[m]
    /\ \E cs \in SUBSET advertised[n] : store' = [store EXCEPT ![m] = @ \cup cs]
    /\ UNCHANGED advertised

(* The localstore of n drops a chunk.                                           *)
Evict(n) ==
    /\ \E c \in store[n] : store' = [store EXCEPT ![n] = @ \ {c}]
    /\ UNCHANGED advertised

Next ==
    \/ \E n \in Node : Advertise(n) \/ Evict(n)
    \/ \E n, m \in Node : Replicate(n, m)

Spec == Init /\ [][Next]_vars
==============================================================================
