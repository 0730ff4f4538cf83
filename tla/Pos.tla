--------------------------------- MODULE Pos ---------------------------------
(* Proof of storage, pkg/pos and pkg/pos/sender: Reupload challenges the        *)
(* network for every chunk of a file and pushes the chunks nobody proves.       *)
(*                                                                              *)
(*   reuploadChunk    SendClosest -- Challenge --> handler                      *)
(*                                                 SendClosest -- Challenge --> *)
(*                                                    ...   processChallenge    *)
(*   handleResponse   <----------- Response ------ <----------- Response ------ *)
(*                                                                              *)
(* Each hop waits for the next one, so the challenge for a chunk is the stack   *)
(* of the SendClosest calls that are under way.                                 *)
EXTENDS Naturals, Integers, Sequences, FiniteSets

CONSTANTS
    Node,
    Origin,         \* the node that Reupload is called on
    Chunk,          \* the addresses of the file, numbered in traversal order
    Dist,           \* Dist[c][n]: the distance of n from c
    Radius,         \* Origin's NeighborhoodDepth, as the distance it stands for
    InitReachable,  \* the topologies the network may have
    InitStores,     \* the chunk stores the nodes may start with
    InitPublic,     \* the sets of nodes that may start as public
    parallel,       \* chunks challenged at once
    maxPeers,       \* the retries of a SendClosest call
    MaxHops,        \* bound: SendClosest calls of one challenge
    MaxFaults       \* bound: what goes wrong, and changes of the environment

ASSUME NodeAssumption == Origin \in Node /\ Chunk \subseteq Nat
ASSUME DistAssumption ==
    /\ Dist \in [Chunk -> [Node -> Nat]] /\ Radius \in Nat
    /\ \A c \in Chunk, m, n \in Node : Dist[c][m] = Dist[c][n] => m = n
ASSUME PeerAssumption ==
    /\ InitReachable \subseteq [Node -> SUBSET Node]
    /\ \A r \in InitReachable, n \in Node : n \notin r[n]
ASSUME InitAssumption ==
    InitStores \subseteq [Node -> SUBSET Chunk] /\ InitPublic \subseteq SUBSET Node
ASSUME BoundAssumption ==
    /\ parallel \in Nat \ {0} /\ maxPeers \in Nat
    /\ MaxHops \in Nat /\ MaxFaults \in Nat

VARIABLES
    store,      \* store[n]: the chunks in n's localstore
    enabled,    \* enabled[n]: Options.Enabled
    reachable,  \* reachable[n]: n's connected peers that its reacher has reached
    public,     \* the nodes whose own reachability status is public
    chunk,      \* chunk[c]: the challenge of c and what became of it
    cancelled,  \* the context of the Reupload call is done
    holders,    \* holders[c]: who has held c since its challenge began
    faults      \* faults so far

vars == <<store, enabled, reachable, public, chunk, cancelled, holders, faults>>

(* A SendClosest call: tried is skipPeers, from the requester left out by the   *)
(* handler on, retries what the code calls so. The origin has no requester.     *)
Frame == [node : Node, tried : SUBSET Node, retries : -1 .. maxPeers]

(* How a SendClosest call, and the handler around it, ends.                     *)
Answer == {"none", "response", "ErrNotSent", "ErrNotFound", "Error", "Refused"}

ChunkState ==
    [ pc : {"todo", "send", "return", "push", "done"},
      path : Seq(Frame), answer : Answer, prover : Node,
      status : {"none", "errored", "proved", "reuploaded"} ]

NewFrame(n, tried) == [node |-> n, tried |-> tried, retries |-> maxPeers]

Init ==
    /\ store \in InitStores
    /\ Chunk \subseteq store[Origin]   \* getChunkAddrs found every chunk
    /\ enabled = [n \in Node |-> TRUE]
    /\ reachable \in InitReachable
    /\ public \in InitPublic
    /\ chunk = [c \in Chunk |-> [ pc |-> "todo", path |-> <<>>, answer |-> "none",
                                  prover |-> Origin, status |-> "none" ]]
    /\ cancelled = FALSE
    /\ holders = [c \in Chunk |-> {}]
    /\ faults = 0

Fault == faults < MaxFaults /\ faults' = faults + 1

Hops(c) == Len(chunk[c].path)
Top(c) == chunk[c].path[Hops(c)]
OnTop(path, f) == [path EXCEPT ![Len(path)] = f]

------------------------------------------------------------------------------
(* A mutant of Candidates: a handler never wants itself.                        *)
Others(c, f) == reachable[f.node] \ f.tried

(* Kad.ClosestPeer with the reachable filter. The node is a candidate itself    *)
(* when it is asked as a handler (which has a connected peer) and is public.    *)
Candidates(c, f) ==
    (reachable[f.node] \ f.tried) \cup
    (IF f.node \in public /\ Len(chunk[c].path) > 1 THEN {f.node} ELSE {})

Closest(c, f) ==
    {p \in Candidates(c, f) : \A q \in Candidates(c, f) : Dist[c][p] <= Dist[c][q]}

Sending(c) == chunk[c].pc = "send"

(* The answer of the last SendClosest call is known.                            *)
Answered(c, answer) ==
    chunk' = [chunk EXCEPT ![c] = [@ EXCEPT !.pc = "return", !.answer = answer]]

(* Reupload starts reuploadChunk for the next address when a slot of sem is     *)
(* free.                                                                        *)
StartChunk(c) ==
    /\ chunk[c].pc = "todo"
    /\ \A d \in Chunk : d < c => chunk[d].pc # "todo"
    /\ Cardinality({d \in Chunk : chunk[d].pc \notin {"todo", "done"}}) < parallel
    /\ chunk' = [chunk EXCEPT ![c] =
                   [@ EXCEPT !.pc = "send", !.path = <<NewFrame(Origin, {})>>]]
    /\ holders' = [holders EXCEPT ![c] = {n \in Node : c \in store[n]}]
    /\ UNCHANGED <<store, enabled, reachable, public, cancelled, faults>>

(* The challenge reaches the closest peer, whose handler calls SendClosest      *)
(* without the peer it has it from.                                             *)
Forward(c) ==
    /\ Sending(c) /\ Hops(c) < MaxHops
    /\ cancelled => Hops(c) > 1
    /\ \E p \in Closest(c, Top(c)) \ {Top(c).node} :
         LET f == [Top(c) EXCEPT !.tried = @ \cup {p}] IN
         chunk' = [chunk EXCEPT ![c].path =
                     Append(OnTop(@, f), NewFrame(p, {Top(c).node}))]
    /\ UNCHANGED <<store, enabled, reachable, public, cancelled, holders, faults>>

(* No stream, or the challenge cannot be written: the next closest peer, while  *)
(* there are retries.                                                           *)
SendFails(c) ==
    LET q == chunk[c] IN
    /\ Sending(c)
    /\ IF cancelled /\ Hops(c) = 1 THEN faults' = faults ELSE Fault
    /\ \E p \in Closest(c, Top(c)) \ {Top(c).node} :
         LET f == [Top(c) EXCEPT !.tried = @ \cup {p}, !.retries = @ - 1] IN
         chunk' = [chunk EXCEPT ![c] =
                     [q EXCEPT !.path = OnTop(q.path, f),
                               !.pc = IF f.retries < 0 THEN "return" ELSE q.pc,
                               !.answer = IF f.retries < 0 THEN "ErrNotSent" ELSE q.answer]]
    /\ UNCHANGED <<store, enabled, reachable, public, cancelled, holders>>

(* ClosestPeer returns ErrNotFound: nobody is left to try.                      *)
NoPeer(c) ==
    /\ Sending(c) /\ Closest(c, Top(c)) = {}
    /\ Answered(c, "ErrNotFound")
    /\ UNCHANGED <<store, enabled, reachable, public, cancelled, holders, faults>>

(* It returns ErrWantSelf: the handler answers with a proof, resets the stream  *)
(* when the service is disabled, and only closes it without the chunk.          *)
processChallenge(c) ==
    LET n == Top(c).node IN
    /\ Sending(c) /\ n \in Closest(c, Top(c))
    /\ IF enabled[n] /\ c \in store[n]
       THEN chunk' = [chunk EXCEPT ![c] = [@ EXCEPT !.pc = "return", !.prover = n,
                                                    !.answer = "response"]]
       ELSE Answered(c, "Refused")
    /\ UNCHANGED <<store, enabled, reachable, public, cancelled, holders, faults>>

(* The handler passes a response on; anything else makes it close the stream,   *)
(* which is an Error to the requester: it has sent, so it does not try again.   *)
Return(c) ==
    LET q == chunk[c] IN
    /\ chunk[c].pc = "return" /\ Hops(c) > 1
    /\ chunk' = [chunk EXCEPT ![c] =
         [q EXCEPT !.path = SubSeq(q.path, 1, Hops(c) - 1),
                   !.answer = IF q.answer = "response" THEN "response" ELSE "Error"]]
    /\ UNCHANGED <<store, enabled, reachable, public, cancelled, holders, faults>>

(* Mutants of handleResponse: any prover will do; a challenge without a proof   *)
(* is started over.                                                             *)
handleAnyResponse(c) ==
    /\ chunk[c].pc = "return" /\ Hops(c) = 1
    /\ LET proved == chunk[c].answer = "response" /\ c \in store[Origin]
       IN chunk' = [chunk EXCEPT ![c] =
            [@ EXCEPT !.pc = IF proved THEN "done" ELSE "push",
                      !.status = IF proved THEN "proved" ELSE "none"]]
    /\ UNCHANGED <<store, enabled, reachable, public, cancelled, holders, faults>>
handleResponseOrRetry(c) ==
    /\ chunk[c].pc = "return" /\ Hops(c) = 1
    /\ chunk' = [chunk EXCEPT ![c] =
         IF chunk[c].answer = "response" THEN [@ EXCEPT !.pc = "done", !.status = "proved"]
         ELSE [@ EXCEPT !.pc = "send", !.path = <<NewFrame(Origin, {})>>]]
    /\ UNCHANGED <<store, enabled, reachable, public, cancelled, holders, faults>>

(* reuploadChunk has the result of its SendClosest. handleResponse needs the    *)
(* chunk to verify the proof, and a prover within the depth of the origin.      *)
handleResponse(c) ==
    /\ chunk[c].pc = "return" /\ Hops(c) = 1
    /\ LET proved == /\ chunk[c].answer = "response"
                     /\ c \in store[Origin]
                     /\ Dist[c][chunk[c].prover] < Radius
       IN chunk' = [chunk EXCEPT ![c] =
            [@ EXCEPT !.pc = IF proved THEN "done" ELSE "push",
                      !.status = IF proved THEN "proved" ELSE "none"]]
    /\ UNCHANGED <<store, enabled, reachable, public, cancelled, holders, faults>>

(* pushChunk reads the chunk and pushes it. PushChunkToClosest stores it at a   *)
(* node, or says ErrWantSelf, which is swallowed.                               *)
pushChunk(c) ==
    /\ chunk[c].pc = "push"
    /\ \/ /\ c \notin store[Origin]
          /\ chunk' = [chunk EXCEPT ![c] = [@ EXCEPT !.pc = "done", !.status = "errored"]]
          /\ UNCHANGED <<store, holders>>
       \/ /\ c \in store[Origin]
          /\ chunk' = [chunk EXCEPT ![c] = [@ EXCEPT !.pc = "done", !.status = "reuploaded"]]
          /\ \E n \in Node :
               /\ store' = [store EXCEPT ![n] = @ \cup {c}]
               /\ holders' = [holders EXCEPT ![c] = @ \cup {n}]
    /\ UNCHANGED <<enabled, reachable, public, cancelled, faults>>

Chunks(c) ==
    \/ StartChunk(c)
    \/ Forward(c)
    \/ SendFails(c)
    \/ NoPeer(c)
    \/ processChallenge(c)
    \/ Return(c)
    \/ handleResponse(c)
    \/ pushChunk(c)

------------------------------------------------------------------------------
(* What goes wrong.                                                             *)

(* A read fails somewhere on the way: the calls beyond it go on for nobody.     *)
StreamBreaks(c) ==
    LET q == chunk[c] IN
    /\ chunk[c].pc \in {"send", "return"}
    /\ \E hop \in 1 .. Hops(c) - 1 :
         /\ IF cancelled /\ hop = 1 THEN faults' = faults ELSE Fault
         /\ chunk' = [chunk EXCEPT ![c] =
              [q EXCEPT !.path = SubSeq(q.path, 1, hop), !.pc = "return", !.answer = "Error"]]
    /\ UNCHANGED <<store, enabled, reachable, public, cancelled, holders>>

(* PushChunkToClosest finds no peer that takes the chunk.                       *)
PushFails(c) ==
    /\ chunk[c].pc = "push"
    /\ IF cancelled THEN faults' = faults ELSE Fault
    /\ chunk' = [chunk EXCEPT ![c] = [@ EXCEPT !.pc = "done", !.status = "errored"]]
    /\ UNCHANGED <<store, enabled, reachable, public, cancelled, holders>>

(* The client of the API goes away.                                             *)
Cancel ==
    /\ Fault
    /\ cancelled' = TRUE
    /\ UNCHANGED <<store, enabled, reachable, public, chunk, holders>>

(* Garbage collection removes a chunk from n's localstore.                      *)
Evict(n, c) ==
    /\ Fault
    /\ c \in store[n]
    /\ store' = [store EXCEPT ![n] = @ \ {c}]
    /\ UNCHANGED <<enabled, reachable, public, chunk, cancelled, holders>>

(* The debug API disables or enables a service.                                 *)
SetEnabled(n) ==
    /\ Fault
    /\ enabled' = [enabled EXCEPT ![n] = ~@]
    /\ UNCHANGED <<store, reachable, public, chunk, cancelled, holders>>

(* AutoNAT finds n reachable, or not.                                           *)
UpdateReachability(n) ==
    /\ Fault
    /\ public' = IF n \in public THEN public \ {n} ELSE public \cup {n}
    /\ UNCHANGED <<store, enabled, reachable, chunk, cancelled, holders>>

(* n loses its connection to p or finds it unreachable, or has it back.         *)
PeerChanges(n, p) ==
    /\ Fault
    /\ n # p
    /\ reachable' = [reachable EXCEPT ![n] = IF p \in @ THEN @ \ {p} ELSE @ \cup {p}]
    /\ UNCHANGED <<store, enabled, public, chunk, cancelled, holders>>

Environment ==
    \/ Cancel
    \/ \E c \in Chunk : StreamBreaks(c) \/ PushFails(c)
    \/ \E n \in Node :
         \/ SetEnabled(n)
         \/ UpdateReachability(n)
         \/ \E p \in Node : PeerChanges(n, p)
         \/ \E c \in Chunk : Evict(n, c)

Next == (\E c \in Chunk : Chunks(c)) \/ Environment

Spec == Init /\ [][Next]_vars

(* Handlers and reuploadChunk run on; a read whose context is done returns.     *)
Fairness ==
    \A c \in Chunk :
        WF_vars(Chunks(c)) /\ WF_vars(cancelled /\ StreamBreaks(c) /\ faults' = faults)

FairSpec == Spec /\ Fairness
------------------------------------------------------------------------------
(* Properties.                                                                  *)

TypeOK ==
    /\ store \in [Node -> SUBSET Chunk]
    /\ enabled \in [Node -> BOOLEAN]
    /\ reachable \in [Node -> SUBSET Node]
    /\ public \in SUBSET Node
    /\ chunk \in [Chunk -> ChunkState]
    /\ cancelled \in BOOLEAN
    /\ holders \in [Chunk -> SUBSET Node]
    /\ faults \in Nat

(* "Obtained proof-of-storage": whatever failed, was evicted or changed on the  *)
(* way, the prover held the chunk during the challenge and is deep enough.      *)
ProofOfStorage ==
    \A c \in Chunk :
        chunk[c].status = "proved"
            => chunk[c].prover \in holders[c] /\ Dist[c][chunk[c].prover] < Radius

(* The nodes other than the origin where a challenge for c can come to rest.    *)
Nearest(c) ==
    {n \in Node \ {Origin} :
        \A p \in reachable[n] \ {Origin} : Dist[c][n] < Dist[c][p]}

(* Nobody pushes what is already there: in a network where nothing fails and    *)
(* every node is public, if each node where the greedy routing may end stores   *)
(* the chunk within the depth then another node than the origin proves it.      *)
NeighbourhoodProves ==
    faults = 0 /\ public = Node /\ reachable[Origin] # {} =>
        \A c \in Chunk :
            (\A n \in Nearest(c) : c \in store[n] /\ Dist[c][n] < Radius)
            => /\ chunk[c].pc # "push"
               /\ chunk[c].status = "proved" => chunk[c].prover # Origin

(* Every chunk gets its status, through failed sends, broken streams, lost      *)
(* peers, disabled services and evictions, while all nodes are public: the      *)
(* forwarding does not go round in circles.                                     *)
ReuploadReturns ==
    [](public = Node) => \A c \in Chunk : <>(chunk[c].pc = "done")

(* A cancelled Reupload returns even from a challenge that goes round.          *)
CancelReturns == cancelled ~> \A c \in Chunk : chunk[c].pc = "done"
==============================================================================
