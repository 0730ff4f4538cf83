----------------------------- MODULE MCPushsync -----------------------------
(* Small instances of Pushsync.                                                 *)
EXTENDS Pushsync

(* A network is given by its links.                                             *)
Linked(L) == [n \in Node |-> {m \in Node : {m, n} \in L}]

Star == Linked({{5, 1}, {5, 2}, {5, 3}, {5, 4}})
Chain == Linked({{5, 3}, {3, 2}, {2, 1}})
Triangle == Linked({{5, 2}, {5, 1}, {2, 1}})
Diamond == Linked({{5, 3}, {5, 2}, {3, 1}, {2, 1}})

Net(reachable, public, warm) ==
    [reachable |-> reachable, public |-> public, warm |-> warm]

(* In two of them a node does not know that it is public, or is not past its    *)
(* warm-up yet.                                                                 *)
Networks ==
    {Net(g, Node, Node) : g \in {Star, Chain, Triangle, Diamond}}
        \cup {Net(Triangle, Node \ {2}, Node), Net(Chain, Node, Node \ {1})}

NearDepth == [n \in Node |-> 1]
=============================================================================
