---------------------------- MODULE PushsyncProofs ----------------------------
(* Proofs about Pushsync for any nodes, networks, calls, attempts and faults.    *)
EXTENDS Pushsync, FiniteSetTheorems, SequenceTheorems, TLAPS

USE NodeAssumption, DepthAssumption, NetworkAssumption, BoundAssumption

(* A path starts with a call of the origin and goes on over nodes.               *)
Path == {q \in Seq(Nat) : Len(q) > 0 /\ \A x \in 2 .. Len(q) : q[x] \in Node}

(* The fields of a call; how far the pushes it may still make fall is not part   *)
(* of this type but of LoopOK.                                                   *)
LoopShape ==
    [ caller : {"pusher", "other", "stream"},
      pc : {"loop", "store", "reply", "deferred", "done"},
      tried : SUBSET Node, allowedPushes : Int, allowedRetries : Int,
      timer : {"off", "now", "p90"}, tick : BOOLEAN,
      answer : Answer, signer : Node \cup {NoNode} ]

(* The pushes a call can still start on its own: for the tick in the channel and *)
(* for the timer that is set.                                                    *)
Ticks(l) == (IF l.tick THEN 1 ELSE 0) + (IF l.timer = "off" THEN 0 ELSE 1)

(* A call l at path q, when the nodes in st have stored the chunk. The allowance *)
(* is not below -1 because each of the two ticks of a call takes one at most,    *)
(* and both can only be there while a push is left.                              *)
LoopOK(q, l, st) ==
    /\ l \in LoopShape
    /\ l.answer = "receipt" => l.signer \in st
    /\ l.answer = "ErrWantSelf" => Owner(q) <= Depth[Owner(q)]
    /\ l.allowedPushes >= -1
    /\ l.pc = "loop" => l.allowedPushes - Ticks(l) >= -1

PushOK(p, st) ==
    /\ p \in PushPeer
    /\ p.answer = "receipt" => p.signer \in st

Loops == DOMAIN loop \subseteq Path /\ \A q \in DOMAIN loop : LoopOK(q, loop[q], stored)

Pushes == DOMAIN push \subseteq Path /\ \A r \in DOMAIN push : PushOK(push[r], stored)

Env ==
    /\ network \in [ reachable : [Node -> SUBSET Node], public : SUBSET Node,
                     warm : SUBSET Node ]
    /\ stored \subseteq Node /\ replicas \subseteq Node
    /\ skipList \in [Node -> SUBSET Node]
    /\ tries \in Nat /\ faults \in Nat

(* The inductive invariant.                                                      *)
Inv == Env /\ Loops /\ Pushes

-------------------------------------------------------------------------------
(* A non-empty set of naturals has a least element: the intervals 1 .. n are      *)
(* finite sets, which inclusion orders well.                                     *)
LEMMA LeastElement ==
    ASSUME NEW S \in SUBSET Nat, S # {}
    PROVE  \E n \in S : \A m \in S : n <= m
<1> DEFINE T == {1 .. n : n \in S}
<1>1. T \subseteq FiniteSubsetsOf(Nat) /\ T # {}
  <2>1. \A n \in S : n \in Int /\ 1 .. n \in SUBSET Nat
    OBVIOUS
  <2>2. \A n \in S : IsFiniteSet(1 .. n)
    BY <2>1, FS_Interval
  <2>3. \A X \in T : X \in SUBSET Nat /\ IsFiniteSet(X)
    BY <2>1, <2>2
  <2>4. T # {}
    <3>1. PICK n \in S : TRUE
      OBVIOUS
    <3>2. 1 .. n \in T
      BY <3>1
    <3> QED BY <3>2
  <2> HIDE DEF T
  <2> QED BY <2>3, <2>4 DEF FiniteSubsetsOf
<1>2. \E X \in T : \A Y \in T : ~ (<<Y, X>> \in StrictSubsetOrdering(Nat))
  BY <1>1, FS_StrictSubsetOrderingWellFounded, WFMin
<1>3. PICK n \in S : \A Y \in T : ~ (<<Y, 1 .. n>> \in StrictSubsetOrdering(Nat))
  BY <1>2
<1>4. ASSUME NEW m \in S, m < n PROVE FALSE
  <2>1. 1 .. m \in SUBSET Nat /\ 1 .. n \in SUBSET Nat /\ 1 .. m \in T
    OBVIOUS
  <2>2. 1 .. m \subseteq 1 .. n /\ n \in 1 .. n /\ n \notin 1 .. m
    BY <1>4
  <2>3. <<1 .. m, 1 .. n>> \in StrictSubsetOrdering(Nat)
    BY <2>1, <2>2 DEF StrictSubsetOrdering
  <2> QED BY <1>3, <2>1, <2>3
<1> QED BY <1>4

(* ClosestPeer's choice among some candidates is one of them.                    *)
LEMMA ClosestIsMember ==
    ASSUME NEW S \in SUBSET Node, S # {}
    PROVE  Closest(S) \in S
<1>1. S \in SUBSET Nat
  OBVIOUS
<1>2. \E n \in S : \A m \in S : n <= m
  BY <1>1, LeastElement
<1> QED BY <1>2 DEF Closest

LEMMA OwnerIsNode ==
    ASSUME NEW q \in Path
    PROVE  /\ Owner(q) \in Node
           /\ \A p \in Node : Append(q, p) \in Path
<1>0. q \in Seq(Nat) /\ Len(q) \in Nat \ {0} /\ \A x \in 2 .. Len(q) : q[x] \in Node
  BY LenProperties DEF Path
<1>1. Owner(q) \in Node
  <2>1. CASE Len(q) = 1
    BY <2>1 DEF Owner
  <2>2. CASE Len(q) # 1
    <3> DEFINE l == Len(q)
    <3>1. l \in Nat \ {0} /\ l # 1
      BY <1>0, <2>2
    <3> HIDE DEF l
    <3>2. l \in 2 .. l
      BY <3>1
    <3> USE DEF l
    <3> QED BY <1>0, <2>2, <3>2 DEF Owner
  <2> QED BY <2>1, <2>2
<1>2. ASSUME NEW p \in Node PROVE Append(q, p) \in Path
  <2>1. /\ Append(q, p) \in Seq(Nat) /\ Len(Append(q, p)) = Len(q) + 1
        /\ \A x \in 1 .. Len(q) : Append(q, p)[x] = q[x]
        /\ Append(q, p)[Len(q) + 1] = p
    BY <1>0, AppendProperties
  <2>2. \A x \in 2 .. Len(Append(q, p)) : x \in 2 .. Len(q) \/ x = Len(q) + 1
    BY <1>0, <2>1
  <2>3. \A x \in 2 .. Len(Append(q, p)) : Append(q, p)[x] \in Node
    BY <1>0, <2>1, <2>2
  <2> HIDE DEF Path
  <2>4. Len(Append(q, p)) > 0
    BY <1>0, <2>1
  <2> QED BY <2>1, <2>3, <2>4 DEF Path
<1> QED BY <1>1, <1>2

(* The candidates of a call are nodes; it tries one of them or wants itself.     *)
LEMMA CandidateIsNode ==
    ASSUME Env, Loops, NEW q \in DOMAIN loop, Candidates(q) # {}
    PROVE  Closest(Candidates(q)) \in Node
<1>1. q \in Path /\ Owner(q) \in Node
  BY OwnerIsNode DEF Loops
<1>2. Candidates(q) \in SUBSET Node
  BY <1>1 DEF Env, Candidates
<1> QED BY <1>2, ClosestIsMember

-------------------------------------------------------------------------------
(* One call, or one goroutine, changes, begins or ends; what was stored stays.   *)
LEMMA LoopsStep ==
    ASSUME Loops, stored \subseteq stored', NEW q \in Path,
           DOMAIN loop' \subseteq DOMAIN loop \cup {q},
           \A x \in DOMAIN loop' : x # q => loop'[x] = loop[x],
           q \in DOMAIN loop' => LoopOK(q, loop'[q], stored')
    PROVE  Loops'
<1>1. ASSUME NEW x \in DOMAIN loop, x \in DOMAIN loop', x # q
      PROVE  LoopOK(x, loop'[x], stored')
  BY <1>1 DEF Loops, LoopOK
<1>2. (\A x \in DOMAIN loop : LoopOK(x, loop[x], stored))'
  BY <1>1
<1> QED BY <1>2 DEF Loops

LEMMA LoopsKept ==
    ASSUME Loops, stored \subseteq stored', UNCHANGED loop
    PROVE  Loops'
<1>1. ASSUME NEW x \in DOMAIN loop PROVE LoopOK(x, loop[x], stored')
  BY <1>1 DEF Loops, LoopOK
<1>2. (\A x \in DOMAIN loop : LoopOK(x, loop[x], stored))'
  BY <1>1
<1> QED BY <1>2 DEF Loops

LEMMA PushesStep ==
    ASSUME Pushes, stored \subseteq stored', NEW r \in Path,
           DOMAIN push' \subseteq DOMAIN push \cup {r},
           \A x \in DOMAIN push' : x # r => push'[x] = push[x],
           r \in DOMAIN push' => PushOK(push'[r], stored')
    PROVE  Pushes'
<1>1. ASSUME NEW x \in DOMAIN push, x \in DOMAIN push', x # r
      PROVE  PushOK(push'[x], stored')
  BY <1>1 DEF Pushes, PushOK
<1>2. (\A x \in DOMAIN push : PushOK(push[x], stored))'
  BY <1>1
<1> QED BY <1>2 DEF Pushes

LEMMA PushesKept ==
    ASSUME Pushes, stored \subseteq stored', UNCHANGED push
    PROVE  Pushes'
<1>1. ASSUME NEW x \in DOMAIN push PROVE PushOK(push[x], stored')
  BY <1>1 DEF Pushes, PushOK
<1>2. (\A x \in DOMAIN push : PushOK(push[x], stored))'
  BY <1>1
<1> QED BY <1>2 DEF Pushes

(* A call starts with one tick to come and one push at least.                    *)
LEMMA NewLoopOK ==
    ASSUME NEW q \in Path, NEW c \in {"pusher", "other", "stream"}, NEW st
    PROVE  LoopOK(q, NewLoop(q, c), st)
BY DEF NewLoop, LoopShape, LoopOK, Answer, Ticks

(* A call that returns makes no more pushes.                                     *)
LEMMA ReturnedOK ==
    ASSUME Loops, NEW q \in DOMAIN loop, NEW st,
           NEW answer \in Answer, NEW signer \in Node \cup {NoNode},
           answer = "receipt" => signer \in st,
           answer = "ErrWantSelf" => Owner(q) <= Depth[Owner(q)]
    PROVE  /\ DOMAIN Returned(q, answer, signer) = DOMAIN loop
           /\ \A x \in DOMAIN loop : x # q => Returned(q, answer, signer)[x] = loop[x]
           /\ LoopOK(q, Returned(q, answer, signer)[q], st)
<1>1. loop[q] \in LoopShape
  BY DEF Loops, LoopOK
<1>2. LoopOK(q, Returned(q, answer, signer)[q], st)
  <2> DEFINE l == Returned(q, answer, signer)[q]
  <2>1. PICK p \in {"done", "store", "reply"} :
           l = [loop[q] EXCEPT !.pc = p, !.tried = {}, !.timer = "off", !.tick = FALSE,
                   !.allowedPushes = 0, !.allowedRetries = 0,
                   !.answer = answer, !.signer = signer]
    BY DEF Returned
  <2>2. /\ l \in LoopShape /\ l.pc # "loop" /\ l.allowedPushes = 0
        /\ l.answer = answer /\ l.signer = signer
    <3>1. l = [ caller |-> loop[q].caller, pc |-> p, tried |-> {}, allowedPushes |-> 0,
                allowedRetries |-> 0, timer |-> "off", tick |-> FALSE,
                answer |-> answer, signer |-> signer ]
      BY <1>1, <2>1 DEF LoopShape
    <3> HIDE DEF l
    <3>2. loop[q].caller \in {"pusher", "other", "stream"}
      BY <1>1 DEF LoopShape
    <3> QED BY <3>1, <3>2 DEF LoopShape
  <2> HIDE DEF l
  <2>3. LoopOK(q, l, st)
    BY <2>2 DEF LoopOK
  <2> QED BY <2>3 DEF l
<1> QED BY <1>2 DEF Returned

LEMMA LoopReturns ==
    ASSUME Loops, NEW q \in DOMAIN loop, UNCHANGED stored,
           NEW answer \in Answer, NEW signer \in Node \cup {NoNode},
           answer = "receipt" => signer \in stored,
           answer = "ErrWantSelf" => Owner(q) <= Depth[Owner(q)],
           loop' = Returned(q, answer, signer)
    PROVE  Loops'
<1>1. q \in Path /\ stored \subseteq stored'
  BY DEF Loops
<1>2. /\ DOMAIN loop' = DOMAIN loop
      /\ \A x \in DOMAIN loop : x # q => loop'[x] = loop[x]
      /\ LoopOK(q, loop'[q], stored)
  BY ReturnedOK
<1>3. LoopOK(q, loop'[q], stored')
  BY <1>2
<1> QED BY <1>1, <1>2, <1>3, LoopsStep

(* A call is entered, or leaves the map.                                         *)
LEMMA LoopEnters ==
    ASSUME Loops, NEW q \in Path, stored \subseteq stored', NEW l, LoopOK(q, l, stored'),
           loop' = With(loop, q, l)
    PROVE  Loops'
<1>1. DOMAIN loop' = DOMAIN loop \cup {q}
  BY DEF With
<1>2. loop'[q] = l
  BY DEF With
<1>3. \A x \in DOMAIN loop' : x # q => loop'[x] = loop[x]
  BY DEF With
<1>4. LoopOK(q, loop'[q], stored')
  BY <1>2
<1> QED BY <1>1, <1>3, <1>4, LoopsStep

LEMMA LoopLeaves ==
    ASSUME Loops, NEW q \in Path, stored \subseteq stored', loop' = Without(loop, q)
    PROVE  Loops'
<1>1. DOMAIN loop' = DOMAIN loop \ {q}
  BY DEF Without
<1>2. \A x \in DOMAIN loop' : x # q => loop'[x] = loop[x]
  BY DEF Without
<1> QED BY <1>1, <1>2, LoopsStep

LEMMA PushEnters ==
    ASSUME Pushes, NEW r \in Path, stored \subseteq stored', NEW p, PushOK(p, stored'),
           push' = With(push, r, p)
    PROVE  Pushes'
<1>1. DOMAIN push' = DOMAIN push \cup {r}
  BY DEF With
<1>2. push'[r] = p
  BY DEF With
<1>3. \A x \in DOMAIN push' : x # r => push'[x] = push[x]
  BY DEF With
<1>4. PushOK(push'[r], stored')
  BY <1>2
<1> QED BY <1>1, <1>3, <1>4, PushesStep

LEMMA PushLeaves ==
    ASSUME Pushes, NEW r \in Path, stored \subseteq stored', push' = Without(push, r)
    PROVE  Pushes'
<1>1. DOMAIN push' = DOMAIN push \ {r}
  BY DEF Without
<1>2. \A x \in DOMAIN push' : x # r => push'[x] = push[x]
  BY DEF Without
<1> QED BY <1>1, <1>2, PushesStep

(* A call, or a goroutine, changes in place.                                     *)
LEMMA LoopChanges ==
    ASSUME Loops, NEW q \in DOMAIN loop, stored \subseteq stored', NEW l,
           LoopOK(q, l, stored'), loop' = [loop EXCEPT ![q] = l]
    PROVE  Loops'
<1>1. q \in Path /\ loop'[q] = l /\ DOMAIN loop' = DOMAIN loop
  BY DEF Loops
<1>2. \A x \in DOMAIN loop' : x # q => loop'[x] = loop[x]
  OBVIOUS
<1>3. LoopOK(q, loop'[q], stored')
  BY <1>1
<1> QED BY <1>1, <1>2, <1>3, LoopsStep

LEMMA PushChanges ==
    ASSUME Pushes, NEW r \in DOMAIN push, stored \subseteq stored', NEW p,
           PushOK(p, stored'), push' = [push EXCEPT ![r] = p]
    PROVE  Pushes'
<1>1. r \in Path /\ push'[r] = p /\ DOMAIN push' = DOMAIN push
  BY DEF Pushes
<1>2. \A x \in DOMAIN push' : x # r => push'[x] = push[x]
  OBVIOUS
<1>3. PushOK(push'[r], stored')
  BY <1>1
<1> QED BY <1>1, <1>2, <1>3, PushesStep

-------------------------------------------------------------------------------
LEMMA CallPath ==
    ASSUME NEW g \in Call
    PROVE  <<g>> \in Path /\ Owner(<<g>>) = Origin
BY DEF Path, Owner

LEMMA InvInit == Init => Inv
BY DEF Init, Inv, Env, Loops, Pushes

(* The steps of the callers at the origin.                                       *)
LEMMA CallersStep ==
    ASSUME Inv, NEW g \in Call,
           PusherPushes(g) \/ PusherReturns(g) \/ OtherPushes(g) \/ OtherReturns(g)
    PROVE  Inv'
<1> USE DEF Inv
<1>0. <<g>> \in Path /\ Owner(<<g>>) = Origin
  BY CallPath
<1>1. ASSUME NEW c \in {"pusher", "other"}, loop' = With(loop, <<g>>, NewLoop(<<g>>, c)),
             UNCHANGED <<push, stored>>
      PROVE  Loops' /\ Pushes'
  <2>1. stored \subseteq stored' /\ LoopOK(<<g>>, NewLoop(<<g>>, c), stored')
    BY <1>0, <1>1, NewLoopOK
  <2> QED BY <1>0, <1>1, <2>1, LoopEnters, PushesKept
<1>2. ASSUME loop' = Without(loop, <<g>>), UNCHANGED push, stored \subseteq stored'
      PROVE  Loops' /\ Pushes'
  BY <1>0, <1>2, LoopLeaves, PushesKept
<1>3. CASE PusherPushes(g)
  BY <1>1, <1>3 DEF PusherPushes, Env
<1>4. CASE PusherReturns(g)
  <2>1. stored \subseteq stored' /\ stored' \subseteq stored \cup {Origin} /\ tries' \in Nat
    BY <1>4 DEF PusherReturns, Env, Fault, NoFault
  <2> QED BY <1>2, <1>4, <2>1 DEF PusherReturns, Env, Fault, NoFault
<1>5. CASE OtherPushes(g)
  BY <1>1, <1>5 DEF OtherPushes, Env, Fault
<1>6. CASE OtherReturns(g)
  BY <1>2, <1>6 DEF OtherReturns, Env
<1> QED BY <1>3, <1>4, <1>5, <1>6

(* The steps of a call of pushToClosest.                                         *)
LEMMA LoopStepsStep ==
    ASSUME Inv, NEW q \in DOMAIN loop,
           TimerFires(q) \/ LoopStep(q) \/ CtxDone(q)
    PROVE  Inv'
<1> USE DEF Inv
<1> DEFINE l == loop[q]
<1>0. q \in Path /\ LoopOK(q, l, stored) /\ l \in LoopShape
  BY DEF Loops, LoopOK
<1>1. CASE TimerFires(q)
  <2>1. loop' = [loop EXCEPT ![q] = [l EXCEPT !.timer = "off", !.tick = TRUE]]
    BY <1>1 DEF TimerFires
  <2>2. l.timer # "off" /\ l.pc = "loop"
    BY <1>1 DEF TimerFires, Active
  <2> DEFINE l2 == [l EXCEPT !.timer = "off", !.tick = TRUE]
  <2>3. /\ l2 \in LoopShape /\ l2.pc = l.pc /\ l2.answer = l.answer /\ l2.signer = l.signer
        /\ l2.allowedPushes = l.allowedPushes /\ l2.timer = "off" /\ l2.tick = TRUE
    BY <1>0, <2>2 DEF LoopShape
  <2>4. UNCHANGED stored
    BY <1>1 DEF TimerFires
  <2> HIDE DEF l2
  <2>5. LoopOK(q, l2, stored')
    <3>1. l.allowedPushes \in Int
      BY <1>0 DEF LoopShape
    <3>2. Ticks(l2) = 1 /\ Ticks(l) \in {1, 2}
      BY <2>2, <2>3 DEF Ticks
    <3> HIDE DEF l
    <3> QED BY <1>0, <2>3, <2>4, <3>1, <3>2 DEF LoopOK
  <2>6. Loops'
    BY <2>1, <2>4, <2>5, LoopChanges DEF l2
  <2> QED BY <1>1, <2>4, <2>6, PushesKept DEF TimerFires, Env
<1>2. CASE NoPeer(q)
  <2>1. loop' = Returned(q, "error", NoNode)
    BY <1>2 DEF NoPeer
  <2>2. Loops'
    BY <1>2, <2>1, LoopReturns DEF NoPeer, Answer
  <2> QED BY <1>2, <2>2, PushesKept DEF NoPeer, Env
<1>3. CASE WantSelf(q)
  <2>1. Loops'
    <3>1. CASE loop' = Returned(q, "ErrWantSelf", NoNode) /\ Owner(q) <= Depth[Owner(q)]
      BY <1>3, <3>1, LoopReturns DEF WantSelf, Answer, NoNode
    <3>2. CASE loop' = Returned(q, "error", NoNode)
      BY <1>3, <3>2, LoopReturns DEF WantSelf, Answer, NoNode
    <3> QED BY <1>3, <3>1, <3>2 DEF WantSelf
  <2>2. Owner(q) \in Node
    BY <1>0, OwnerIsNode
  <2>3. replicas' \subseteq Node
    BY <1>3, <2>2 DEF WantSelf, Env
  <2> QED BY <1>3, <2>1, <2>3, PushesKept DEF WantSelf, Env
<1>4. CASE NextPeer(q)
  <2> DEFINE p == Closest(Candidates(q))
             more == l.allowedPushes > 1 /\ l.allowedRetries > 1
  <2>1. p \in Node /\ Append(q, p) \in Path
    BY <1>0, <1>4, CandidateIsNode, OwnerIsNode DEF NextPeer
  <2> HIDE DEF p
  <2>2. loop' = [loop EXCEPT ![q] = [l EXCEPT !.tick = FALSE,
                  !.tried = @ \cup {p}, !.allowedPushes = @ - 1,
                  !.allowedRetries = @ - 1,
                  !.timer = IF more THEN "p90" ELSE @]]
    BY <1>4 DEF NextPeer, p
  <2>3. l.tick = TRUE /\ l.pc = "loop"
    BY <1>4, <1>0 DEF NextPeer, Active, LoopShape
  <2> DEFINE l2 == [l EXCEPT !.tick = FALSE,
                     !.tried = @ \cup {p}, !.allowedPushes = @ - 1,
                     !.allowedRetries = @ - 1,
                     !.timer = IF more THEN "p90" ELSE @]
  <2>4. LoopOK(q, l2, stored)
    <3>1. /\ l2.tick = FALSE /\ l2.allowedPushes = l.allowedPushes - 1
          /\ l2.timer = IF more THEN "p90" ELSE l.timer
          /\ l2.answer = l.answer /\ l2.signer = l.signer
      BY <1>0 DEF LoopShape
    <3>2. l2 \in LoopShape
      <4>1. l.tried \cup {p} \in SUBSET Node
        BY <1>0, <2>1 DEF LoopShape
      <4>2. l.allowedPushes - 1 \in Int /\ l.allowedRetries - 1 \in Int
        BY <1>0 DEF LoopShape
      <4>3. (IF more THEN "p90" ELSE l.timer) \in {"off", "now", "p90"}
        BY <1>0 DEF LoopShape
      <4> HIDE DEF more
      <4> QED BY <1>0, <4>1, <4>2, <4>3 DEF LoopShape
    <3>3. l.allowedPushes \in Int /\ l.allowedPushes - Ticks(l) >= -1
      BY <1>0, <2>3 DEF LoopOK, LoopShape
    <3> HIDE DEF l2
    <3>4. l2.allowedPushes - Ticks(l2) >= -1 /\ l2.allowedPushes >= -1
      BY <2>3, <3>1, <3>3 DEF Ticks
    <3> QED BY <1>0, <3>1, <3>2, <3>4 DEF LoopOK
  <2>5. Loops'
    <3>1. UNCHANGED stored
      BY <1>4 DEF NextPeer
    <3>2. loop' = [loop EXCEPT ![q] = l2]
      BY <2>2
    <3> HIDE DEF l2
    <3> QED BY <2>4, <3>1, <3>2, LoopChanges
  <2>6. PushOK(NewPush, stored)
    BY DEF PushOK, NewPush, PushPeer
  <2>7. push' = With(push, Append(q, p), NewPush) /\ UNCHANGED stored
    BY <1>4 DEF NextPeer, p
  <2>8. Pushes'
    BY <2>1, <2>6, <2>7, PushEnters
  <2> QED BY <1>4, <2>5, <2>8 DEF NextPeer, Env
<1>5. ASSUME NEW p \in Node, OnResult(q, p) PROVE Inv'
  <2> DEFINE r == Append(q, p)
             left == l.allowedPushes + IF push[r].pushed THEN 0 ELSE 1
  <2>1. r \in DOMAIN push /\ r \in Path /\ PushOK(push[r], stored) /\ UNCHANGED stored
    BY <1>5 DEF OnResult, Pushes
  <2>2. push' = Without(push, r) /\ l.pc = "loop"
    BY <1>5 DEF OnResult, Active
  <2>3. Pushes'
    BY <2>1, <2>2, PushLeaves
  <2>4. Loops'
    <3>1. CASE push[r].answer = "receipt" /\ loop' = Returned(q, "receipt", push[r].signer)
      <4>1. push[r].signer \in Node \cup {NoNode} /\ push[r].signer \in stored
        BY <2>1, <3>1 DEF PushOK, PushPeer
      <4> QED BY <2>1, <3>1, <4>1, LoopReturns DEF Answer
    <3>2. CASE loop' = Returned(q, "error", NoNode)
      BY <2>1, <3>2, LoopReturns DEF Answer
    <3>3. CASE ~(left <= 0) /\ loop' = [loop EXCEPT ![q].allowedPushes = left, ![q].timer = "now"]
      <4>1. left \in Int /\ left >= 1
        BY <1>0, <3>3 DEF LoopShape
      <4> HIDE DEF left
      <4> DEFINE l2 == [l EXCEPT !.allowedPushes = left, !.timer = "now"]
      <4>2. loop' = [loop EXCEPT ![q] = l2]
        BY <3>3
      <4>3. /\ l2 \in LoopShape /\ l2.answer = l.answer /\ l2.signer = l.signer
            /\ l2.allowedPushes = left
        BY <1>0, <4>1 DEF LoopShape
      <4> HIDE DEF l2
      <4>4. LoopOK(q, l2, stored)
        <5>1. Ticks(l2) \in {0, 1, 2}
          BY DEF Ticks
        <5> QED BY <1>0, <4>1, <4>3, <5>1 DEF LoopOK
      <4> QED BY <2>1, <4>2, <4>4, LoopChanges
    <3> QED BY <1>5, <3>1, <3>2, <3>3 DEF OnResult
  <2>5. skipList' \in [Node -> SUBSET Node]
    BY <1>5 DEF OnResult, Env
  <2> QED BY <1>5, <2>3, <2>4, <2>5 DEF OnResult, Env
<1>6. CASE CtxDone(q)
  <2>1. loop' = Returned(q, "error", NoNode)
    BY <1>6 DEF CtxDone
  <2>2. Loops'
    BY <1>6, <2>1, LoopReturns DEF CtxDone, Answer
  <2> QED BY <1>6, <2>2, PushesKept DEF CtxDone, Env, Fault
<1> QED BY <1>1, <1>2, <1>3, <1>4, <1>5, <1>6 DEF LoopStep

(* The steps of a pushPeer goroutine.                                            *)
LEMMA PushStepsStep ==
    ASSUME Inv, NEW r \in DOMAIN push, Deliver(r) \/ PushFails(r) \/ Discard(r)
    PROVE  Inv'
<1> USE DEF Inv
<1>0. r \in Path /\ push[r] \in PushPeer /\ PushOK(push[r], stored)
  BY DEF Pushes, PushOK
<1>1. CASE Deliver(r)
  <2> DEFINE p2 == [push[r] EXCEPT !.pc = "wait", !.pushed = TRUE]
             stores == [NewLoop(r, "stream") EXCEPT !.pc = "store", !.timer = "off",
                           !.allowedPushes = 0, !.allowedRetries = 0]
  <2>1. push' = [push EXCEPT ![r] = p2] /\ UNCHANGED stored
    BY <1>1 DEF Deliver
  <2>2. PushOK(p2, stored)
    BY <1>0 DEF PushOK, PushPeer
  <2> HIDE DEF p2
  <2>3. Pushes'
    BY <2>1, <2>2, PushChanges
  <2>4. LoopOK(r, NewLoop(r, "stream"), stored)
    BY <1>0, NewLoopOK
  <2>5. LoopOK(r, stores, stored)
    <3> DEFINE n == NewLoop(r, "stream")
    <3>1. n \in LoopShape /\ n.answer = "none"
      BY <2>4 DEF LoopOK, NewLoop
    <3> HIDE DEF n
    <3>2. stores = [n EXCEPT !.pc = "store", !.timer = "off",
                             !.allowedPushes = 0, !.allowedRetries = 0]
      BY DEF n
    <3> HIDE DEF stores
    <3>3. /\ stores \in LoopShape /\ stores.pc = "store" /\ stores.answer = "none"
          /\ stores.allowedPushes = 0
      <4>1. stores = [ caller |-> n.caller, pc |-> "store", tried |-> n.tried,
                       allowedPushes |-> 0, allowedRetries |-> 0, timer |-> "off",
                       tick |-> n.tick, answer |-> n.answer, signer |-> n.signer ]
        BY <3>1, <3>2 DEF LoopShape
      <4>2. /\ n.caller \in {"pusher", "other", "stream"} /\ n.tried \in SUBSET Node
            /\ n.tick \in BOOLEAN /\ n.signer \in Node \cup {NoNode} /\ n.answer \in Answer
        BY <3>1 DEF LoopShape
      <4> QED BY <3>1, <4>1, <4>2 DEF LoopShape
    <3> QED BY <3>3 DEF LoopOK
  <2> HIDE DEF stores
  <2>6. loop' = With(loop, r, stores) \/ loop' = With(loop, r, NewLoop(r, "stream"))
    BY <1>1 DEF Deliver, stores
  <2>7. Loops'
    BY <1>0, <2>1, <2>4, <2>5, <2>6, LoopEnters
  <2> QED BY <1>1, <2>3, <2>7 DEF Deliver, Env
<1>2. CASE PushFails(r)
  <2> DEFINE p2 == [push[r] EXCEPT !.pc = "result", !.answer = "error"]
  <2>1. push' = [push EXCEPT ![r] = p2] /\ UNCHANGED stored
    BY <1>2 DEF PushFails
  <2>2. PushOK(p2, stored)
    BY <1>0 DEF PushOK, PushPeer
  <2> HIDE DEF p2
  <2>3. Pushes'
    BY <2>1, <2>2, PushChanges
  <2> QED BY <1>2, <2>3, LoopsKept DEF PushFails, Env, Fault
<1>3. CASE Discard(r)
  <2>1. Pushes'
    BY <1>0, <1>3, PushLeaves DEF Discard
  <2> QED BY <1>3, <2>1, LoopsKept DEF Discard, Env
<1> QED BY <1>1, <1>2, <1>3

(* An answer reaches the goroutine that waits for it, if one still does.         *)
LEMMA AnsweredOK ==
    ASSUME Pushes, NEW r \in Path, stored \subseteq stored',
           NEW answer \in {"receipt", "error"}, NEW signer \in Node \cup {NoNode},
           answer = "receipt" => signer \in stored',
           push' = Answered(r, answer, signer)
    PROVE  Pushes'
<1>1. CASE r \in DOMAIN push /\ push[r].pc = "wait"
  <2> DEFINE p2 == [push[r] EXCEPT !.pc = "result", !.answer = answer, !.signer = signer]
  <2>1. push' = [push EXCEPT ![r] = p2]
    BY <1>1 DEF Answered
  <2>2. push[r] \in PushPeer
    BY <1>1 DEF Pushes, PushOK
  <2>3. PushOK(p2, stored')
    BY <2>2 DEF PushOK, PushPeer
  <2> HIDE DEF p2
  <2> QED BY <1>1, <2>1, <2>3, PushChanges
<1>2. CASE ~(r \in DOMAIN push /\ push[r].pc = "wait")
  BY <1>2, PushesKept DEF Answered
<1> QED BY <1>1, <1>2

(* The steps of a handler after its call of pushToClosest: it signs only what it *)
(* has stored, and passes on what was signed by a node that has.                 *)
LEMMA HandlersStep ==
    ASSUME Inv, NEW r \in DOMAIN loop, HandlerStep(r) \/ StoreFails(r)
    PROVE  Inv'
<1> USE DEF Inv
<1> DEFINE l == loop[r]
<1>0. r \in Path /\ Owner(r) \in Node /\ LoopOK(r, l, stored) /\ l \in LoopShape
  BY OwnerIsNode DEF Loops, LoopOK
<1>1. CASE Store(r)
  <2> DEFINE l2 == [l EXCEPT !.pc = "reply", !.answer = "receipt", !.signer = Owner(r)]
  <2>1. loop' = [loop EXCEPT ![r] = l2] /\ stored' = stored \cup {Owner(r)}
    BY <1>1 DEF Store
  <2>2. LoopOK(r, l2, stored')
    <3>1. l2 \in LoopShape /\ l2.allowedPushes = l.allowedPushes
      BY <1>0 DEF LoopShape, Answer
    <3>2. l2.pc = "reply" /\ l2.answer = "receipt" /\ l2.signer = Owner(r)
      BY <1>0 DEF LoopShape
    <3> HIDE DEF l2
    <3> QED BY <1>0, <2>1, <3>1, <3>2 DEF LoopOK
  <2> HIDE DEF l2
  <2>3. Loops'
    BY <2>1, <2>2, LoopChanges
  <2> QED BY <1>0, <1>1, <2>1, <2>3, PushesKept DEF Store, Env
<1>2. CASE Reply(r)
  <2>1. push' = Answered(r, "receipt", l.signer) /\ l.signer \in stored /\ UNCHANGED stored
    BY <1>0, <1>2 DEF Reply, LoopOK
  <2>2. l.signer \in Node \cup {NoNode}
    BY <1>0 DEF LoopShape
  <2>3. Pushes'
    BY <1>0, <2>1, <2>2, AnsweredOK
  <2>4. Loops'
    <3>1. CASE loop' = Without(loop, r)
      BY <1>0, <2>1, <3>1, LoopLeaves
    <3>2. CASE loop' = [loop EXCEPT ![r].pc = "deferred"]
      <4> DEFINE l2 == [l EXCEPT !.pc = "deferred"]
      <4>1. loop' = [loop EXCEPT ![r] = l2]
        BY <3>2
      <4>2. /\ l2 \in LoopShape /\ l2.allowedPushes = l.allowedPushes
            /\ l2.pc = "deferred" /\ l2.answer = l.answer /\ l2.signer = l.signer
        BY <1>0 DEF LoopShape
      <4> HIDE DEF l2
      <4>3. LoopOK(r, l2, stored)
        BY <1>0, <4>2 DEF LoopOK
      <4> QED BY <2>1, <4>1, <4>3, LoopChanges
    <3> QED BY <1>2, <3>1, <3>2 DEF Reply
  <2> QED BY <1>2, <2>3, <2>4 DEF Reply, Env
<1>3. CASE Deferred(r)
  <2>1. stored' = stored \cup {Owner(r)} /\ loop' = Without(loop, r)
    BY <1>3 DEF Deferred
  <2>2. Loops'
    BY <1>0, <2>1, LoopLeaves
  <2> QED BY <1>0, <1>3, <2>1, <2>2, PushesKept DEF Deferred, Env
<1>4. CASE ReplyError(r)
  <2>1. /\ stored' \in {stored, stored \cup {Owner(r)}} /\ loop' = Without(loop, r)
        /\ push' = Answered(r, "error", NoNode)
    BY <1>4 DEF ReplyError
  <2>2. Loops'
    BY <1>0, <2>1, LoopLeaves
  <2>3. Pushes'
    BY <1>0, <2>1, AnsweredOK
  <2> QED BY <1>0, <1>4, <2>1, <2>2, <2>3 DEF ReplyError, Env
<1>5. CASE StoreFails(r)
  <2>1. loop' = Without(loop, r) /\ UNCHANGED stored
    BY <1>5 DEF StoreFails
  <2>2. Loops'
    BY <1>0, <2>1, LoopLeaves
  <2>3. Pushes'
    <3>1. CASE push' = Answered(r, "error", NoNode)
      BY <1>0, <2>1, <3>1, AnsweredOK
    <3>2. CASE push' = push
      BY <2>1, <3>2, PushesKept
    <3> QED BY <1>5, <3>1, <3>2 DEF StoreFails
  <2> QED BY <1>5, <2>2, <2>3 DEF StoreFails, Env, Fault
<1> QED BY <1>1, <1>2, <1>3, <1>4, <1>5 DEF HandlerStep

LEMMA InvStep == Inv /\ [Next]_vars => Inv'
<1> SUFFICES ASSUME Inv, [Next]_vars PROVE Inv'
  OBVIOUS
<1>1. ASSUME NEW n \in Node, Replicate(n) PROVE Inv'
  <2>1. stored \subseteq stored' /\ stored' \subseteq stored \cup {n} /\ faults' \in Nat
    BY <1>1 DEF Replicate, Fault, NoFault, Inv, Env
  <2> QED BY <1>1, <2>1, LoopsKept, PushesKept DEF Replicate, Inv, Env
<1>2. ASSUME NEW n \in Node, WarmUp(n) PROVE Inv'
  <2>1. network' \in [ reachable : [Node -> SUBSET Node], public : SUBSET Node,
                       warm : SUBSET Node ]
    BY <1>2 DEF WarmUp, Inv, Env
  <2> QED BY <1>2, <2>1, LoopsKept, PushesKept DEF WarmUp, Inv, Env
<1>3. ASSUME NEW n \in Node, NEW p \in Node, Expire(n, p) PROVE Inv'
  <2>1. skipList' \in [Node -> SUBSET Node]
    BY <1>3 DEF Expire, Inv, Env
  <2> QED BY <1>3, <2>1, LoopsKept, PushesKept DEF Expire, Inv, Env
<1>4. CASE UNCHANGED vars
  BY <1>4, LoopsKept, PushesKept DEF vars, Inv, Env
<1> QED
  BY <1>1, <1>2, <1>3, <1>4, CallersStep, LoopStepsStep, PushStepsStep, HandlersStep
     DEF Next

THEOREM Invariant == Spec => []Inv
BY InvInit, InvStep, PTL DEF Spec

(* Every receipt on its way was signed by a node that has stored the chunk, in   *)
(* any network and with any number of nodes, calls and faults.                   *)
THEOREM ReceiptsMeanStored == Spec => []ReceiptMeansStored
<1>1. Inv => ReceiptMeansStored
  BY DEF Inv, Loops, Pushes, LoopOK, PushOK, ReceiptMeansStored
<1> QED BY <1>1, Invariant, PTL

(* A call never makes more than one push above its allowance, whatever number of *)
(* attempts it is allowed.                                                       *)
THEOREM NeverTwoPushesTooMany == Spec => []OnePushTooManyAtMost
<1>1. Inv => OnePushTooManyAtMost
  BY DEF Inv, Loops, LoopOK, OnePushTooManyAtMost
<1> QED BY <1>1, Invariant, PTL

(* The step by which the pusher marks the chunk as synced: only the return of    *)
(* its call does, and the answer it checks was given by a node that has stored.  *)
LEMMA SyncedStep ==
    Inv /\ [Next]_vars =>
        (pusher # "synced" /\ pusher' = "synced" =>
            (\E n \in stored' : n <= Depth[Origin]) \/ tries + 1 >= retryCount)
<1> SUFFICES ASSUME Inv, [Next]_vars, pusher # "synced", pusher' = "synced"
             PROVE  (\E n \in stored' : n <= Depth[Origin]) \/ tries + 1 >= retryCount
  OBVIOUS
<1>1. PICK g \in Call : PusherReturns(g)
  <2>1. ASSUME NEW g \in Call, PusherPushes(g) \/ OtherPushes(g) \/ OtherReturns(g)
        PROVE  FALSE
    BY <2>1 DEF PusherPushes, OtherPushes, OtherReturns
  <2>2. ASSUME NEW q \in DOMAIN loop, TimerFires(q) \/ LoopStep(q) \/ CtxDone(q)
        PROVE  FALSE
    BY <2>2 DEF TimerFires, LoopStep, NoPeer, WantSelf, NextPeer, OnResult, CtxDone
  <2>3. ASSUME NEW q \in DOMAIN loop, HandlerStep(q) \/ StoreFails(q) PROVE FALSE
    BY <2>3 DEF HandlerStep, Store, Reply, Deferred, ReplyError, StoreFails
  <2>4. ASSUME NEW r \in DOMAIN push, Deliver(r) \/ PushFails(r) \/ Discard(r) PROVE FALSE
    BY <2>4 DEF Deliver, PushFails, Discard
  <2>5. ASSUME NEW n \in Node, NEW p \in Node, Replicate(n) \/ WarmUp(n) \/ Expire(n, p)
        PROVE  FALSE
    BY <2>5 DEF Replicate, WarmUp, Expire
  <2>6. ~UNCHANGED vars
    BY DEF vars
  <2> QED BY <2>1, <2>2, <2>3, <2>4, <2>5, <2>6 DEF Next
<1> DEFINE l == loop[<<g>>]
<1>2. <<g>> \in DOMAIN loop /\ Owner(<<g>>) = Origin /\ LoopOK(<<g>>, l, stored)
  BY <1>1, CallPath DEF PusherReturns, Inv, Loops
<1>3. CASE l.answer = "ErrWantSelf" /\ stored' = stored \cup {Origin}
  BY <1>2, <1>3 DEF LoopOK
<1>4. CASE l.answer = "receipt" /\ CheckReceipt(l.signer) /\ UNCHANGED stored
  BY <1>2, <1>4 DEF LoopOK, CheckReceipt
<1> QED BY <1>1, <1>3, <1>4 DEF PusherReturns

(* The pusher stops pushing the chunk only when a node of its neighbourhood has  *)
(* stored it or the retries are used up, for any network, depths and retries.    *)
THEOREM SyncedOnlyInNeighbourhood == Spec => SyncedInNeighbourhood
<1>1. Inv /\ [Next]_vars =>
         [pusher # "synced" /\ pusher' = "synced" =>
            (\E n \in stored' : n <= Depth[Origin]) \/ tries + 1 >= retryCount]_vars
  BY SyncedStep
<1> QED BY <1>1, Invariant, PTL DEF Spec, SyncedInNeighbourhood
===============================================================================
