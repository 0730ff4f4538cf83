------------------------------ MODULE Pushsync ------------------------------
(* Push sync of one chunk (pkg/pushsync) between full nodes, with the pusher    *)
(* (pkg/pusher) as the caller at the origin.                                    *)
(*                                                                              *)
(* A path names a chain of streams: <<g>> is the origin's call g of             *)
(* PushChunkToClosest, and q \o <<p>> the stream on which the call at q pushes  *)
(* to p, with the pushPeer goroutine at its near end (push) and the handler     *)
(* with its own call of pushToClosest at the far end (loop).                    *)
EXTENDS Naturals, Integers, Sequences, FiniteSets

CONSTANTS
    Node,           \* by distance from the chunk: node 1 is the closest
    Origin,
    Call,           \* the calls of PushChunkToClosest that may be under way
    Depth,          \* Depth[n]: the farthest node within n's neighbourhood of the chunk
    Network,        \* the networks: each node's reachable peers, who knows itself
                    \* to be public, and who is past its warm-up
    maxAttempts,    \* pushes a call at the origin may have made or under way
    maxPeers,       \* peers a call may try
    nPeersToReplicate,
    retryCount,     \* shallow receipts the pusher takes before it gives in
    MaxFaults       \* bound: failing streams and stores, cancelled contexts, other callers

ASSUME NodeAssumption ==
    Node \subseteq Nat \ {0} /\ Origin \in Node /\ Call \subseteq Nat
ASSUME DepthAssumption == Depth \in [Node -> Nat]
ASSUME NetworkAssumption ==
    /\ Network \subseteq [ reachable : [Node -> SUBSET Node], public : SUBSET Node,
                            warm : SUBSET Node ]
    /\ \A w \in Network, n \in Node : n \notin w.reachable[n]
ASSUME BoundAssumption ==
    /\ maxAttempts \in Nat \ {0} /\ maxPeers \in Nat \ {0}
    /\ nPeersToReplicate \in Nat /\ retryCount \in Nat /\ MaxFaults \in Nat

VARIABLES
    network,    \* an element of Network, fixed at the start but for the warm-up
    stored,     \* the nodes that have put the chunk into their localstore
    skipList,   \* skipList[n]: the peers n's peerSkipList has for the chunk
    loop,       \* the calls of pushToClosest, by path
    push,       \* the pushPeer goroutines, by path
    replicas,   \* the pushToNeighbour goroutines, by the peer they push to
    pusher,     \* the pusher's view of the chunk
    tries,      \* attempts.attempts of the chunk
    faults

vars == <<network, stored, skipList, loop, push, replicas, pusher, tries, faults>>

Front(q) == SubSeq(q, 1, Len(q) - 1)
Owner(q) == IF Len(q) = 1 THEN Origin ELSE q[Len(q)]
Requester(q) == Owner(Front(q))

Without(f, q) == [x \in DOMAIN f \ {q} |-> f[x]]
With(f, q, v) == [x \in DOMAIN f \cup {q} |-> IF x = q THEN v ELSE f[x]]

NoNode == 0
Answer == {"none", "receipt", "ErrWantSelf", "error"}

(* The locals of pushToClosest. Its timer has a deadline (timer) and a channel  *)
(* of capacity one (tick). pc: the handler may still have to store ("store"),   *)
(* write its answer ("reply") and store as a forwarder ("deferred").            *)
Loop == [ caller : {"pusher", "other", "stream"},
          pc : {"loop", "store", "reply", "deferred", "done"},
          tried : SUBSET Node, allowedPushes : -1 .. maxAttempts,
          allowedRetries : -1 .. maxPeers,
          timer : {"off", "now", "p90"}, tick : BOOLEAN,
          answer : Answer, signer : Node \cup {NoNode} ]

PushPeer == [ pc : {"open", "wait", "result"}, pushed : BOOLEAN,
              answer : {"none", "receipt", "error"}, signer : Node \cup {NoNode} ]

NewLoop(q, caller) ==
    [ caller |-> caller, pc |-> "loop", tried |-> {},
      allowedPushes |-> IF Len(q) = 1 THEN maxAttempts ELSE 1,
      allowedRetries |-> maxPeers, timer |-> "now", tick |-> FALSE,
      answer |-> "none", signer |-> NoNode ]

NewPush == [pc |-> "open", pushed |-> FALSE, answer |-> "none", signer |-> NoNode]

Init ==
    /\ network \in Network
    /\ stored = {}
    /\ skipList = [n \in Node |-> {}]
    /\ loop = <<>> /\ push = <<>>
    /\ replicas = {}
    /\ pusher = "queued" /\ tries = 0 /\ faults = 0

Fault == faults < MaxFaults /\ faults' = faults + 1
NoFault == faults' = faults

Active(q) == q \in DOMAIN loop /\ loop[q].pc = "loop"

(* A call slot is free again when nothing of the call before is left.           *)
Free(g) == \A q \in DOMAIN loop \cup DOMAIN push : q[1] # g

-----------------------------------------------------------------------------
(* Callers at the origin                                                        *)

(* chunksWorker hands the chunk to pushChunk; inflight keeps it from being      *)
(* handed out again. The lowest free slot, because slots are alike.             *)
PusherPushes(g) ==
    /\ pusher = "queued" /\ Free(g) /\ \A h \in Call : h < g => ~Free(h)
    /\ pusher' = "pushing"
    /\ loop' = With(loop, <<g>>, NewLoop(<<g>>, "pusher"))
    /\ UNCHANGED <<network, stored, skipList, push, replicas, tries, faults>>

(* A mutant of CheckReceipt: the depth is not looked at.                        *)
CheckNoReceipt(signer) == TRUE

(* checkReceipt, then SetSync. A call that gave up, a shallow receipt while     *)
(* there are tries left, or a failure of SetSync, with the tries forgotten by   *)
(* then, puts the chunk back into the queue by repeat().                        *)
CheckReceipt(signer) == signer <= Depth[Origin] \/ tries + 1 >= retryCount

PusherReturns(g) ==
    LET l == loop[<<g>>] IN
    /\ <<g>> \in DOMAIN loop /\ l.pc = "done" /\ l.caller = "pusher"
    /\ loop' = Without(loop, <<g>>)
    /\ \/ /\ l.answer = "ErrWantSelf"     \* the chunk stays here
          /\ pusher' = "synced" /\ stored' = stored \cup {Origin}
          /\ UNCHANGED tries /\ NoFault
       \/ /\ l.answer = "receipt" /\ CheckReceipt(l.signer)
          /\ pusher' = "synced" /\ tries' = 0
          /\ UNCHANGED stored /\ NoFault
       \/ /\ l.answer = "receipt" /\ ~CheckReceipt(l.signer)
          /\ pusher' = "queued" /\ tries' = tries + 1
          /\ UNCHANGED stored /\ NoFault
       \/ /\ l.answer = "error"
          /\ pusher' = "queued"
          /\ UNCHANGED <<tries, stored>> /\ NoFault
       \/ /\ \/ l.answer = "ErrWantSelf" /\ UNCHANGED tries
             \/ l.answer = "receipt" /\ CheckReceipt(l.signer) /\ tries' = 0
          /\ pusher' = "queued"
          /\ UNCHANGED stored /\ Fault      \* SetSync failed
    /\ UNCHANGED <<network, skipList, push, replicas>>

(* A direct upload, a reupload or the steward calls for the same chunk.         *)
OtherPushes(g) ==
    /\ Fault /\ Free(g) /\ \A h \in Call : h < g => ~Free(h)
    /\ loop' = With(loop, <<g>>, NewLoop(<<g>>, "other"))
    /\ UNCHANGED <<network, stored, skipList, push, replicas, pusher, tries>>

OtherReturns(g) ==
    /\ <<g>> \in DOMAIN loop /\ loop[<<g>>].pc = "done" /\ loop[<<g>>].caller = "other"
    /\ loop' = Without(loop, <<g>>)
    /\ UNCHANGED <<network, stored, skipList, push, replicas, pusher, tries, faults>>

-----------------------------------------------------------------------------
(* pushToClosest                                                                *)

(* It returns: doneChan is closed and the timer stopped.                        *)
Returned(q, answer, signer) ==
    [loop EXCEPT ![q] =
        [@ EXCEPT !.pc = IF Len(q) = 1 THEN "done"
                         ELSE IF answer = "ErrWantSelf" THEN "store" ELSE "reply",
                  !.tried = {}, !.timer = "off", !.tick = FALSE,
                  !.allowedPushes = 0, !.allowedRetries = 0,
                  !.answer = answer, !.signer = signer]]

TimerFires(q) ==
    /\ Active(q) /\ loop[q].timer # "off"
    /\ loop' = [loop EXCEPT ![q].timer = "off", ![q].tick = TRUE]
    /\ UNCHANGED <<network, stored, skipList, push, replicas, pusher, tries, faults>>

(* Kad.ClosestPeer with includeSelf and the filter for reachable peers.         *)
Candidates(q) ==
    LET n == Owner(q) IN
    (network.reachable[n] \ (skipList[n] \cup loop[q].tried)) \cup
        (IF n \in network.public /\ network.reachable[n] # {} THEN {n} ELSE {})

Closest(S) == CHOOSE n \in S : \A m \in S : n <= m

(* The timer's tick: nextPeer finds nobody, ...                                 *)
NoPeer(q) ==
    /\ Active(q) /\ loop[q].tick /\ Candidates(q) = {}
    /\ loop' = Returned(q, "error", NoNode)
    /\ UNCHANGED <<network, stored, skipList, push, replicas, pusher, tries, faults>>

(* ... wants the node itself, which is an error before the warm-up is over and  *)
(* outside the neighbourhood, and otherwise starts replication to neighbours    *)
(* that are farther from the chunk, not skipped, and not the requester, ...     *)
WantSelf(q) ==
    LET n == Owner(q) IN
    /\ Active(q) /\ loop[q].tick /\ Candidates(q) # {} /\ Closest(Candidates(q)) = n
    /\ IF n \in network.warm /\ n <= Depth[n]
       THEN /\ loop' = Returned(q, "ErrWantSelf", NoNode)
            /\ \E R \in SUBSET {p \in network.reachable[n] :
                       p > n /\ p \notin skipList[n] \cup loop[q].tried} :
                  /\ Cardinality(R) <= nPeersToReplicate
                  /\ Len(q) > 1 => Requester(q) \notin R
                  /\ replicas' = replicas \cup R
       ELSE /\ loop' = Returned(q, "error", NoNode)
            /\ UNCHANGED replicas
    /\ UNCHANGED <<network, stored, skipList, push, pusher, tries, faults>>

(* A mutant of NextPeer: the timer is set again whatever is left.               *)
NextPeerForever(q) ==
    LET l == loop[q]
        p == Closest(Candidates(q)) IN
    /\ Active(q) /\ l.tick /\ Candidates(q) # {} /\ p # Owner(q)
    /\ loop' = [loop EXCEPT ![q] = [l EXCEPT !.tick = FALSE,
                  !.tried = @ \cup {p}, !.allowedPushes = @ - 1,
                  !.allowedRetries = @ - 1, !.timer = "p90"]]
    /\ push' = With(push, Append(q, p), NewPush)
    /\ UNCHANGED <<network, stored, skipList, replicas, pusher, tries, faults>>

(* ... or starts a pushPeer goroutine for the closest peer. The timer is set    *)
(* again only while pushes and retries are left; a timer that is already        *)
(* running is left alone.                                                       *)
NextPeer(q) ==
    LET l == loop[q]
        p == Closest(Candidates(q))
        more == l.allowedPushes > 1 /\ l.allowedRetries > 1 IN
    /\ Active(q) /\ l.tick /\ Candidates(q) # {} /\ p # Owner(q)
    /\ loop' = [loop EXCEPT ![q] = [l EXCEPT !.tick = FALSE,
                  !.tried = @ \cup {p}, !.allowedPushes = @ - 1,
                  !.allowedRetries = @ - 1,
                  !.timer = IF more THEN "p90" ELSE @]]
    /\ push' = With(push, Append(q, p), NewPush)
    /\ UNCHANGED <<network, stored, skipList, replicas, pusher, tries, faults>>

(* A result: every attempted peer is skipped from now on. An error gives up     *)
(* when the pushes are used up, also when others are under way; otherwise the   *)
(* timer is set to fire at once, whether or not it has fired.                   *)
OnResult(q, p) ==
    LET r == Append(q, p)
        l == loop[q]
        left == l.allowedPushes + IF push[r].pushed THEN 0 ELSE 1 IN
    /\ Active(q) /\ r \in DOMAIN push /\ push[r].pc = "result"
    /\ push' = Without(push, r)
    /\ skipList' = [skipList EXCEPT ![Owner(q)] =
                       IF Owner(q) \in network.warm THEN @ \cup {p} ELSE @]
    /\ loop' = IF push[r].answer = "receipt"
               THEN Returned(q, "receipt", push[r].signer)
               ELSE IF l.allowedRetries <= 0 \/ left <= 0
               THEN Returned(q, "error", NoNode)
               ELSE [loop EXCEPT ![q].allowedPushes = left, ![q].timer = "now"]
    /\ UNCHANGED <<network, stored, replicas, pusher, tries, faults>>

(* ctx is done: the deadline of a handler's stream, or the caller gave up.      *)
CtxDone(q) ==
    /\ Active(q) /\ Fault
    /\ loop' = Returned(q, "error", NoNode)
    /\ UNCHANGED <<network, stored, skipList, push, replicas, pusher, tries>>

-----------------------------------------------------------------------------
(* pushPeer                                                                     *)

(* The Delivery is written and the handler called: it stores at once if the     *)
(* requester is closer to the chunk, as replication. Else it goes on pushing.   *)
Deliver(r) ==
    /\ r \in DOMAIN push /\ push[r].pc = "open"
    /\ push' = [push EXCEPT ![r].pc = "wait", ![r].pushed = TRUE]
    /\ loop' = With(loop, r,
                  IF Requester(r) < Owner(r)
                  THEN [NewLoop(r, "stream") EXCEPT !.pc = "store", !.timer = "off",
                           !.allowedPushes = 0, !.allowedRetries = 0]
                  ELSE NewLoop(r, "stream"))
    /\ UNCHANGED <<network, stored, skipList, replicas, pusher, tries, faults>>

(* The stream cannot be opened, the Delivery not written; or, later, the        *)
(* receipt not read, or not in time.                                            *)
PushFails(r) ==
    /\ r \in DOMAIN push /\ push[r].pc \in {"open", "wait"} /\ Fault
    /\ push' = [push EXCEPT ![r].pc = "result", ![r].answer = "error"]
    /\ UNCHANGED <<network, stored, skipList, loop, replicas, pusher, tries>>

(* A mutant of Discard: doneChan is not closed.                                 *)
DiscardNot(r) == FALSE /\ UNCHANGED vars

(* The call has returned and closed doneChan.                                   *)
Discard(r) ==
    /\ r \in DOMAIN push /\ push[r].pc = "result" /\ ~Active(Front(r))
    /\ push' = Without(push, r)
    /\ UNCHANGED <<network, stored, skipList, loop, replicas, pusher, tries, faults>>

-----------------------------------------------------------------------------
(* handler, after pushToClosest                                                 *)

IsHandler(r) == r \in DOMAIN loop /\ Len(r) > 1

Answered(r, answer, signer) ==
    IF r \in DOMAIN push /\ push[r].pc = "wait"
    THEN [push EXCEPT ![r].pc = "result", ![r].answer = answer, ![r].signer = signer]
    ELSE push

(* A mutant of Store: the receipt is signed although nothing was stored.        *)
SignOnly(r) ==
    /\ IsHandler(r) /\ loop[r].pc = "store"
    /\ loop' = [loop EXCEPT ![r].pc = "reply", ![r].answer = "receipt",
                            ![r].signer = Owner(r)]
    /\ UNCHANGED <<network, stored, skipList, push, replicas, pusher, tries, faults>>

Store(r) ==
    /\ IsHandler(r) /\ loop[r].pc = "store"
    /\ stored' = stored \cup {Owner(r)}
    /\ loop' = [loop EXCEPT ![r].pc = "reply", ![r].answer = "receipt",
                            ![r].signer = Owner(r)]
    /\ UNCHANGED <<network, skipList, push, replicas, pusher, tries, faults>>

(* The stamp is not valid here, or the store fails: the stream is reset.        *)
StoreFails(r) ==
    /\ IsHandler(r) /\ loop[r].pc \in {"store", "deferred"} /\ Fault
    /\ push' = IF loop[r].pc = "store" THEN Answered(r, "error", NoNode) ELSE push
    /\ loop' = Without(loop, r)
    /\ UNCHANGED <<network, stored, skipList, replicas, pusher, tries>>

Forwarders(r) == Owner(r) \in network.warm /\ Owner(r) <= Depth[Owner(r)]

(* The receipt is written; a forwarder in the neighbourhood stores afterwards.  *)
Reply(r) ==
    /\ IsHandler(r) /\ loop[r].pc = "reply" /\ loop[r].answer = "receipt"
    /\ push' = Answered(r, "receipt", loop[r].signer)
    /\ loop' = IF loop[r].signer # Owner(r) /\ Forwarders(r)
               THEN [loop EXCEPT ![r].pc = "deferred"]
               ELSE Without(loop, r)
    /\ UNCHANGED <<network, stored, skipList, replicas, pusher, tries, faults>>

Deferred(r) ==
    /\ IsHandler(r) /\ loop[r].pc = "deferred"
    /\ stored' = stored \cup {Owner(r)}
    /\ loop' = Without(loop, r)
    /\ UNCHANGED <<network, skipList, push, replicas, pusher, tries, faults>>

(* The push failed: such a forwarder stores before the stream is reset.         *)
ReplyError(r) ==
    /\ IsHandler(r) /\ loop[r].pc = "reply" /\ loop[r].answer = "error"
    /\ stored' = IF Forwarders(r) THEN stored \cup {Owner(r)} ELSE stored
    /\ push' = Answered(r, "error", NoNode)
    /\ loop' = Without(loop, r)
    /\ UNCHANGED <<network, skipList, replicas, pusher, tries, faults>>

(* pushToNeighbour and the replication branch of the peer's handler.            *)
Replicate(n) ==
    /\ n \in replicas
    /\ replicas' = replicas \ {n}
    /\ \/ stored' = stored \cup {n} /\ NoFault
       \/ stored' = stored /\ Fault
    /\ UNCHANGED <<network, skipList, loop, push, pusher, tries>>

(* warmupPeriod is over.                                                        *)
WarmUp(n) ==
    /\ n \notin network.warm
    /\ network' = [network EXCEPT !.warm = @ \cup {n}]
    /\ UNCHANGED <<stored, skipList, loop, push, replicas, pusher, tries, faults>>

(* A mutant of Expire: a peer is skipped for good.                              *)
ExpireNot(n, p) == FALSE /\ UNCHANGED vars

(* sanctionWait is over, or ResetSkiplist was called.                           *)
Expire(n, p) ==
    /\ p \in skipList[n]
    /\ skipList' = [skipList EXCEPT ![n] = @ \ {p}]
    /\ UNCHANGED <<network, stored, loop, push, replicas, pusher, tries, faults>>

-----------------------------------------------------------------------------
LoopStep(q) == NoPeer(q) \/ WantSelf(q) \/ NextPeer(q) \/ \E p \in Node : OnResult(q, p)
HandlerStep(r) == Store(r) \/ Reply(r) \/ Deferred(r) \/ ReplyError(r)

Next ==
    \/ \E g \in Call : \/ PusherPushes(g) \/ PusherReturns(g)
                       \/ OtherPushes(g) \/ OtherReturns(g)
    \/ \E q \in DOMAIN loop :
          \/ TimerFires(q) \/ LoopStep(q) \/ CtxDone(q)
          \/ HandlerStep(q) \/ StoreFails(q)
    \/ \E r \in DOMAIN push : Deliver(r) \/ PushFails(r) \/ Discard(r)
    \/ \E n \in Node : Replicate(n) \/ WarmUp(n) \/ \E p \in Node : Expire(n, p)

Spec == Init /\ [][Next]_vars

(* What a call g still does on its own: its goroutines run, its timers fire,    *)
(* and the handlers it reached answer.                                          *)
Proceed(g) ==
    \/ \E q \in DOMAIN loop : q[1] = g /\ (TimerFires(q) \/ LoopStep(q) \/ HandlerStep(q))
    \/ \E r \in DOMAIN push : r[1] = g /\ (Deliver(r) \/ Discard(r))
    \/ PusherReturns(g) \/ OtherReturns(g)

(* Goroutines are scheduled, time passes for timers, skip lists and warm-ups;   *)
(* the pusher goes on with what is in its queue.                                *)
Fairness ==
    /\ \A g \in Call : WF_vars(Proceed(g))
    /\ WF_vars(\E g \in Call : PusherPushes(g))
    /\ \A n, p \in Node : WF_vars(Expire(n, p))
    /\ \A n \in Node : WF_vars(WarmUp(n))

FairSpec == Spec /\ Fairness

-----------------------------------------------------------------------------
TypeOK ==
    /\ \E w \in Network : network \in [ reachable : {w.reachable}, public : {w.public},
                                        warm : SUBSET Node ]
    /\ stored \subseteq Node /\ replicas \subseteq Node
    /\ skipList \in [Node -> SUBSET Node]
    /\ \A q \in DOMAIN loop : loop[q] \in Loop
    /\ \A r \in DOMAIN push : push[r] \in PushPeer
    /\ pusher \in {"queued", "pushing", "synced"}
    /\ tries \in 0 .. retryCount /\ faults \in 0 .. MaxFaults

(* A receipt, wherever it is on its way, was signed by a node that has stored   *)
(* the chunk.                                                                   *)
ReceiptMeansStored ==
    /\ \A q \in DOMAIN loop : loop[q].answer = "receipt" => loop[q].signer \in stored
    /\ \A r \in DOMAIN push : push[r].answer = "receipt" => push[r].signer \in stored

(* The pusher marks the chunk as synced, and so never pushes it again, only     *)
(* when a node of its neighbourhood of the chunk has stored it, or when it has  *)
(* taken retryCount shallow receipts; whatever the skip lists, the concurrent   *)
(* calls, and the nodes that do not know that they are public.                  *)
SyncedInNeighbourhood ==
    [][pusher # "synced" /\ pusher' = "synced" =>
          (\E n \in stored' : n <= Depth[Origin]) \/ tries + 1 >= retryCount]_vars

(* However results and the timer interleave, a call of pushToClosest has at     *)
(* most one push more than its allowance: ticks do not add up.                  *)
OnePushTooManyAtMost == \A q \in DOMAIN loop : loop[q].allowedPushes >= -1

(* Every call ends, and with it, sooner or later, every goroutine and every     *)
(* handler on other nodes that it started.                                      *)
CallsEnd == \A g \in Call : ~Free(g) ~> Free(g)

(* A peer took longer than p90TTL.                                              *)
Late ==
    \E q \in DOMAIN loop :
        /\ loop[q].timer = "p90"
        /\ q \in DOMAIN loop' /\ loop'[q].timer = "off" /\ loop'[q].tick

(* If nothing fails and the peers answer in time from some point on, the chunk  *)
(* is synced in the end, though peers are skipped after they were tried and     *)
(* receipts may be shallow. Peers that are late every time can keep it from     *)
(* being synced: the call gives up on them, and the next one must skip them.    *)
EventuallySynced == []<><<Late>>_vars \/ <>(pusher = "synced" \/ faults > 0)
=============================================================================
