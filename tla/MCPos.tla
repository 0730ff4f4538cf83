-------------------------------- MODULE MCPos --------------------------------
(* Small instances of Pos: nodes are numbers on a line of distances.            *)
EXTENDS Pos

(* The distance of the nodes from chunk 1 is their number; chunk 2 lies on the  *)
(* other side.                                                                  *)
LineDist == [c \in Chunk |-> [n \in Node |-> IF c = 1 THEN n ELSE 10 - n]]

Graphs ==
    {r \in [Node -> SUBSET Node] :
        \A m, n \in Node : m \in r[n] => m # n /\ n \in r[m]}

(* Every symmetric topology in which the origin has a peer.                     *)
AnyGraph == {r \in Graphs : r[Origin] # {}}
(* The origin has the file; each other node all of it or nothing.               *)
WholeStores ==
    {s \in [Node -> {{}, Chunk}] : s[Origin] = Chunk}

AnyPublic == SUBSET Node
==============================================================================
