------------------------------- MODULE MCSnips -------------------------------
(* Small instances of Snips: peers, chunk addresses, neighbourhoods, stores.    *)
EXTENDS SnipsSync

CONSTANTS n1, n2, n3

TwoNodes == {n1, n2}
ThreeNodes == {n1, n2, n3}

Clique == [n \in Node |-> Node \ {n}]

(* n1 and n2 are neighbours. n3 sends proofs to n1, whose depth is greater and  *)
(* who does not accept them.                                                    *)
Uneven == [n \in Node |-> IF n = n1 THEN {n2} ELSE {n1}]

Chunks2 == 1 .. 2
Chunks3 == 1 .. 3

(* Everything is everybody's.                                                   *)
WholeRadius == [n \in Node |-> Chunk]
(* The last chunk is outside n1's radius.                                       *)
ShortRadius == [n \in Node |-> IF n = n1 THEN Chunk \ {3} ELSE Chunk]

AnyStores == [Node -> SUBSET Chunk]

(* n1 has chunks 1 and 2, n2 at most 2 and 3, n3 has 3: chunk 3 is foreign to   *)
(* n1's proofs and may take the value of a chunk that is missing.               *)
ForeignStores ==
    {f \in AnyStores : f[n1] = {1, 2} /\ f[n2] \subseteq {2, 3} /\ f[n3] = {3}}

(* The same, and n1 with chunk 3, which is outside its radius, and then one or  *)
(* both of the others missing at n2.                                            *)
CreatorStores ==
    {f \in ForeignStores : f[n2] # {2}}
    \cup {[f EXCEPT ![n1] = Chunk] : f \in {g \in ForeignStores : g[n2] \subseteq {2}}}
==============================================================================
