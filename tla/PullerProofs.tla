----------------------------- MODULE PullerProofs -----------------------------
(* Proofs about Puller for any number of bin ids, workers, topology changes,     *)
(* clears and faults.                                                            *)
EXTENDS Puller, FiniteSetTheorems, TLAPS

USE BoundAssumption

Covered == pulled \cup gone \cup invalid \cup skipped

(* What holds of a worker r when the peer has assigned the ids up to lst and     *)
(* evicted gn, iterations left out sk, and the chunks of dn need not be asked    *)
(* for again: what it has been offered, or will enter into the intervals, has    *)
(* no hole but in gn and sk, because it never looks beyond lst, or the offer     *)
(* ends at MaxUint and is not entered.                                           *)
WorkerOK(r, lst, gn, sk, dn) ==
    /\ r \in WorkerState
    /\ r.pc # "none" => r.kind # "none"
    /\ r.kind = "hist" => r.to <= lst
    /\ r.pc \in {"sync", "offered", "add", "write"} =>
          r.from >= 1 /\ (r.kind = "hist" => r.from <= r.to)
    /\ r.pc = "offered" =>
          r.top = MaxUint \/ (r.top <= lst /\ r.from .. r.top \subseteq r.offer \cup gn \cup sk)
    /\ r.pc \in {"add", "write"} => r.top <= lst
    /\ r.pc \in {"add", "write"} => r.from .. r.top \subseteq dn
    /\ r.pc = "write" => r.seen \subseteq dn

Workers ==
    /\ worker \in [Worker -> WorkerState]
    /\ \A w \in Worker : WorkerOK(worker[w], last, gone, skipped, Covered)

(* The peer, the stores and the manage goroutine have their types; a cursor is   *)
(* an id that was assigned.                                                      *)
Shape ==
    /\ last \in 0 .. MaxId /\ gone \subseteq Id /\ invalid \in InitInvalid
    /\ skipped \subseteq Id /\ pulled \subseteq Id /\ intervals \subseteq Id
    /\ cursor \in [known : BOOLEAN, id : 0 .. MaxId] /\ cursor.id <= last
    /\ topo \in {"wanted", "binOut", "peerOut"} /\ signal \in BOOLEAN
    /\ manage \in [ pc : {"idle", "syncPeer", "cursors", "recalc", "disconnect"},
                    topo : {"wanted", "binOut", "peerOut"}, orphan : BOOLEAN ]
    /\ entry \in [present : BOOLEAN, bin : BOOLEAN, cancels : SUBSET Worker]
    /\ enabled \in BOOLEAN /\ missed \in BOOLEAN
    /\ clearing \in BOOLEAN /\ clears \in 0 .. Clears /\ changes \in 0 .. MaxChanges
    /\ faults \in 0 .. MaxFaults

(* Which contexts syncPeers can cancel: none while the bin is not started, and   *)
(* all that are not cancelled as long as ClearCursors was not called.            *)
Sessions ==
    /\ ~entry.bin => entry.cancels = {}
    /\ ~entry.present => ~entry.bin
    /\ manage.pc \in {"syncPeer", "cursors"} => ~entry.bin
    /\ manage.pc = "cursors" => entry.present \/ manage.orphan
    /\ clears = 0 =>
          /\ ~clearing /\ ~manage.orphan
          /\ \A w \in Worker : Alive(w) => worker[w].cancelled \/ w \in entry.cancels

(* The inductive invariant.                                                      *)
Inv == Shape /\ Workers /\ Sessions /\ IntervalsCovered

-------------------------------------------------------------------------------
(* A non-empty set of naturals has a least element: the intervals 1 .. n are      *)
(* finite sets, which inclusion orders well.                                     *)
LEMMA LeastElement ==
    ASSUME NEW S \in SUBSET Nat, S # {}
    PROVE  \E n \in S : \A m \in S : n <= m
<1> DEFINE T == {1 .. n : n \in S}
<1>1. T \subseteq FiniteSubsetsOf(Nat) /\ T # {}
  <2>1. \A n \in S : n \in Int /\ 1 .. n \in SUBSET Nat
    OBVIOUS
  <2>2. \A n \in S : IsFiniteSet(1 .. n)
    BY <2>1, FS_Interval
  <2>3. \A X \in T : X \in SUBSET Nat /\ IsFiniteSet(X)
    BY <2>1, <2>2
  <2>4. T # {}
    <3>1. PICK n \in S : TRUE
      OBVIOUS
    <3>2. 1 .. n \in T
      BY <3>1
    <3> QED BY <3>2
  <2> HIDE DEF T
  <2> QED BY <2>3, <2>4 DEF FiniteSubsetsOf
<1>2. \E X \in T : \A Y \in T : ~ (<<Y, X>> \in StrictSubsetOrdering(Nat))
  <2>1. IsWellFoundedOn(StrictSubsetOrdering(Nat), FiniteSubsetsOf(Nat))
    BY FS_StrictSubsetOrderingWellFounded
  <2> HIDE DEF T
  <2> QED BY <1>1, <2>1, WFMin
<1>3. PICK n \in S : \A Y \in T : ~ (<<Y, 1 .. n>> \in StrictSubsetOrdering(Nat))
  BY <1>2
<1>4. ASSUME NEW m \in S, m < n PROVE FALSE
  <2>1. 1 .. m \in SUBSET Nat /\ 1 .. n \in SUBSET Nat /\ 1 .. m \in T
    OBVIOUS
  <2>2. 1 .. m \subseteq 1 .. n /\ n \in 1 .. n /\ n \notin 1 .. m
    BY <1>4
  <2>3. <<1 .. m, 1 .. n>> \in StrictSubsetOrdering(Nat)
    BY <2>1, <2>2 DEF StrictSubsetOrdering
  <2> QED BY <1>3, <2>1, <2>3
<1> QED BY <1>4

(* Min and Max of ids are among them.                                            *)
LEMMA MinIsMember ==
    ASSUME NEW S \in SUBSET Nat, S # {}
    PROVE  Min(S) \in S /\ \A m \in S : Min(S) <= m
<1>1. \E n \in S : \A m \in S : n <= m
  BY LeastElement
<1> QED BY <1>1 DEF Min

LEMMA MaxIsMember ==
    ASSUME NEW S \in SUBSET Id, S # {}
    PROVE  Max(S) \in S
<1> DEFINE T == {MaxId - n : n \in S}
<1>1. T \in SUBSET Nat /\ T # {}
  <2>1. \A n \in S : n \in Nat /\ MaxId - n \in Nat
    BY DEF Id
  <2>2. PICK n \in S : TRUE
    OBVIOUS
  <2>3. MaxId - n \in T
    BY <2>2
  <2> QED BY <2>1, <2>3
<1>2. PICK t \in T : \A m \in T : t <= m
  <2> HIDE DEF T
  <2> QED BY <1>1, LeastElement
<1>3. PICK n \in S : t = MaxId - n
  BY <1>2
<1>4. ASSUME NEW m \in S PROVE n >= m
  <2>1. MaxId - m \in T
    OBVIOUS
  <2>2. MaxId - n <= MaxId - m
    BY <1>2, <1>3, <2>1
  <2>3. n \in Nat /\ m \in Nat
    BY DEF Id
  <2> QED BY <2>2, <2>3
<1>5. \E x \in S : \A y \in S : x >= y
  BY <1>4
<1> QED BY <1>5 DEF Max

(* The peer's cursor and the worker's next gap.                                  *)
LEMMA LastBinIdType == Shape => LastBinId \in 0 .. MaxId /\ LastBinId <= last
<1> SUFFICES ASSUME Shape PROVE LastBinId \in 0 .. MaxId /\ LastBinId <= last
  OBVIOUS
<1>1. Present \in SUBSET Id /\ \A n \in Present : n <= last
  BY DEF Present, Shape, Id
<1>2. CASE Present = {}
  BY <1>2 DEF LastBinId, Shape
<1>3. CASE Present # {}
  <2>1. Max(Present) \in Present
    BY <1>1, <1>3, MaxIsMember
  <2>2. LastBinId = Max(Present)
    BY <1>3 DEF LastBinId
  <2>3. LastBinId \in Id /\ LastBinId <= last
    BY <1>1, <2>1, <2>2
  <2> QED BY <2>3 DEF Id
<1> QED BY <1>2, <1>3

LEMMA GapType == Shape => Gap \in 1 .. MaxId + 1
<1> SUFFICES ASSUME Shape PROVE Gap \in 1 .. MaxId + 1
  OBVIOUS
<1> DEFINE S == (1 .. MaxId + 1) \ intervals
<1>1. S \in SUBSET Nat /\ MaxId + 1 \in S
  BY DEF Shape, Id
<1>2. S # {}
  BY <1>1
<1> HIDE DEF S
<1>3. Min(S) \in S
  BY <1>1, <1>2, MinIsMember
<1> QED BY <1>3 DEF Gap, S

-------------------------------------------------------------------------------
(* As the peer assigns and evicts ids and chunks arrive, what holds of a worker  *)
(* goes on to hold.                                                              *)
LEMMA Monotone ==
    ASSUME NEW r, NEW l1 \in Nat, NEW g1, NEW s1, NEW d1, WorkerOK(r, l1, g1, s1, d1),
           NEW l2 \in Nat, NEW g2, NEW s2, NEW d2,
           l1 <= l2, g1 \subseteq g2, s1 \subseteq s2, d1 \subseteq d2
    PROVE  WorkerOK(r, l2, g2, s2, d2)
<1>1. r \in WorkerState /\ r.to \in Nat /\ r.top \in Nat
  BY DEF WorkerOK, WorkerState
<1>2. r.kind = "hist" => r.to <= l2
  BY <1>1 DEF WorkerOK
<1>3. r.top <= l1 => r.top <= l2
  BY <1>1
<1> QED BY <1>1, <1>2, <1>3 DEF WorkerOK

(* The ids the peer has assigned, those that are gone and those that need not be *)
(* asked for again only grow.                                                    *)
Grows ==
    /\ last <= last' /\ last \in Nat /\ last' \in Nat
    /\ gone \subseteq gone' /\ skipped \subseteq skipped' /\ Covered \subseteq Covered'

LEMMA WorkersKept ==
    ASSUME Workers, Grows, UNCHANGED worker
    PROVE  Workers'
<1>1. ASSUME NEW w \in Worker
      PROVE  WorkerOK(worker[w], last', gone', skipped', Covered')
  BY Monotone DEF Workers, Grows
<1>2. (\A w \in Worker : WorkerOK(worker[w], last, gone, skipped, Covered))'
  BY <1>1
<1> QED BY <1>2 DEF Workers

LEMMA WorkerSteps ==
    ASSUME Workers, Grows, NEW w \in Worker, NEW r,
           WorkerOK(r, last', gone', skipped', Covered'), Put(w, r)
    PROVE  Workers'
<1>1. r \in WorkerState
  BY DEF WorkerOK
<1>2. ASSUME NEW x \in Worker
      PROVE  WorkerOK(worker'[x], last', gone', skipped', Covered')
  <2>1. CASE x = w
    BY <2>1 DEF Put, Workers
  <2>2. CASE x # w
    BY <2>2, Monotone DEF Put, Workers, Grows
  <2> QED BY <2>1, <2>2
<1>3. (\A x \in Worker : WorkerOK(worker[x], last, gone, skipped, Covered))'
  BY <1>2
<1> QED BY <1>1, <1>3 DEF Workers, Put

LEMMA NoWorkerFields ==
    /\ NoWorker \in WorkerState
    /\ NoWorker.kind = "none" /\ NoWorker.pc = "none" /\ NoWorker.cancelled = FALSE
    /\ NoWorker.from = 0 /\ NoWorker.to = 0 /\ NoWorker.top = 0
    /\ NoWorker.offer = {} /\ NoWorker.seen = {}
BY DEF NoWorker, WorkerState

LEMMA NoWorkerOK ==
    ASSUME NEW l, NEW g, NEW s, NEW d
    PROVE  WorkerOK(NoWorker, l, g, s, d)
BY DEF WorkerOK, NoWorker, WorkerState

LEMMA CancelledWorkers ==
    ASSUME Workers, Grows, NEW ws \in SUBSET Worker, worker' = Cancel(ws)
    PROVE  Workers'
<1>1. ASSUME NEW w \in Worker
      PROVE  /\ worker'[w] \in WorkerState
             /\ WorkerOK(worker'[w], last', gone', skipped', Covered')
  <2>1. WorkerOK(worker[w], last', gone', skipped', Covered')
    BY Monotone DEF Workers, Grows
  <2> DEFINE r == [worker[w] EXCEPT !.cancelled = TRUE]
  <2>2. /\ r \in WorkerState /\ r.kind = worker[w].kind /\ r.pc = worker[w].pc
        /\ r.from = worker[w].from /\ r.to = worker[w].to /\ r.top = worker[w].top
        /\ r.offer = worker[w].offer /\ r.seen = worker[w].seen
    BY DEF Workers, WorkerState
  <2>3. worker'[w] = r \/ worker'[w] = worker[w]
    BY DEF Cancel
  <2> HIDE DEF r
  <2>4. WorkerOK(r, last', gone', skipped', Covered')
    BY <2>1, <2>2 DEF WorkerOK
  <2> QED BY <2>1, <2>3, <2>4 DEF WorkerOK
<1>2. worker' \in [Worker -> WorkerState]
  BY <1>1 DEF Cancel
<1>3. (\A x \in Worker : WorkerOK(worker[x], last, gone, skipped, Covered))'
  BY <1>1
<1> QED BY <1>2, <1>3 DEF Workers

LEMMA GrowsKept ==
    ASSUME Shape, UNCHANGED <<last, gone, invalid, skipped>>, pulled \subseteq pulled'
    PROVE  Grows
BY DEF Grows, Shape, Covered

(* syncPeerBin starts workers where none was alive, and notes them all.          *)
LEMMA StartedOK ==
    ASSUME Shape, Workers, NEW cur \in 0 .. MaxId, cur <= last,
           NEW ws \in SUBSET Worker, Started(cur, ws), UNCHANGED <<peer, pulled>>
    PROVE  /\ Workers'
           /\ \A w \in Worker : w \in ws \/ worker'[w] = worker[w] \/ worker'[w].pc = "none"
<1>0. Grows
  BY GrowsKept DEF peer
<1>1. PICK h \in Worker, l \in Worker :
        /\ h < l /\ ~Alive(h) /\ ~Alive(l)
        /\ ws = IF cur > 0 THEN {h, l} ELSE {l}
        /\ worker' = [worker EXCEPT
              ![l] = [NoWorker EXCEPT !.kind = "live", !.pc = "sync", !.from = cur + 1,
                                      !.to = MaxCursor],
              ![h] = IF cur > 0
                     THEN [NoWorker EXCEPT !.kind = "hist", !.pc = "next", !.to = cur]
                     ELSE NoWorker]
  BY DEF Started
<1> DEFINE live == [NoWorker EXCEPT !.kind = "live", !.pc = "sync", !.from = cur + 1,
                                    !.to = MaxCursor]
           hist == [NoWorker EXCEPT !.kind = "hist", !.pc = "next", !.to = cur]
<1>2. h # l
  BY <1>1
<1>3. WorkerOK(live, last', gone', skipped', Covered') /\ live.pc # "none"
  <2>1. live.kind = "live" /\ live.pc = "sync" /\ live.from = cur + 1
    BY NoWorkerFields DEF WorkerState
  <2>2. cur + 1 \in 0 .. MaxId + 1 /\ cur + 1 >= 1 /\ MaxCursor \in 0 .. MaxId
    BY DEF MaxCursor
  <2>3. live \in WorkerState
    BY <2>2, NoWorkerFields DEF WorkerState
  <2> HIDE DEF live
  <2> QED BY <2>1, <2>2, <2>3 DEF WorkerOK
<1>4. WorkerOK(hist, last', gone', skipped', Covered') /\ hist.pc # "none"
  <2>1. hist.kind = "hist" /\ hist.pc = "next" /\ hist.to = cur
    BY NoWorkerFields DEF WorkerState
  <2>2. cur <= last'
    BY DEF peer
  <2>3. hist \in WorkerState
    BY NoWorkerFields DEF WorkerState
  <2> HIDE DEF hist
  <2> QED BY <2>1, <2>2, <2>3 DEF WorkerOK
<1> HIDE DEF live, hist
<1>5. /\ worker'[l] = live
      /\ worker'[h] = IF cur > 0 THEN hist ELSE NoWorker
      /\ \A w \in Worker : w # l /\ w # h => worker'[w] = worker[w]
      /\ DOMAIN worker' = Worker
  BY <1>1, <1>2 DEF live, hist, Workers
<1>6. ASSUME NEW w \in Worker
      PROVE  WorkerOK(worker'[w], last', gone', skipped', Covered')
  <2>1. CASE w = l
    BY <1>3, <1>5, <2>1
  <2>2. CASE w = h
    BY <1>4, <1>5, <2>2, NoWorkerOK
  <2>3. CASE w # l /\ w # h
    BY <1>0, <1>5, <2>3, Monotone DEF Workers, Grows
  <2> QED BY <2>1, <2>2, <2>3
<1>7. worker' \in [Worker -> WorkerState]
  <2>1. \A w \in Worker : worker'[w] \in WorkerState
    BY <1>6 DEF WorkerOK
  <2>2. worker' = [w \in Worker |-> worker'[w]]
    BY <1>1, <1>5 DEF Workers
  <2> QED BY <2>1, <2>2
<1>8. (\A x \in Worker : WorkerOK(worker[x], last, gone, skipped, Covered))'
  BY <1>6
<1>9. \A w \in Worker : w \in ws \/ worker'[w] = worker[w] \/ worker'[w].pc = "none"
  BY <1>1, <1>5 DEF NoWorker
<1> QED BY <1>7, <1>8, <1>9 DEF Workers

-------------------------------------------------------------------------------
LEMMA InvInit == Init => Inv
<1> SUFFICES ASSUME Init PROVE Inv
  OBVIOUS
<1>1. NoWorker \in WorkerState /\ \A w \in Worker : worker[w] = NoWorker
  BY DEF Init, NoWorker, WorkerState
<1>2. Workers
  BY <1>1, NoWorkerOK DEF Init, Workers
<1>3. Sessions
  BY <1>1 DEF Init, Sessions, Alive, NoWorker, NoEntry, Idle
<1>4. Shape
  <2>1. /\ last \in 0 .. MaxId /\ invalid \in InitInvalid
        /\ clears \in 0 .. Clears /\ changes \in 0 .. MaxChanges /\ faults \in 0 .. MaxFaults
    BY DEF Init
  <2>2. cursor \in [known : BOOLEAN, id : 0 .. MaxId] /\ cursor.id <= last
    BY <2>1 DEF Init, NoCursor
  <2>3. /\ manage \in [ pc : {"idle", "syncPeer", "cursors", "recalc", "disconnect"},
                        topo : {"wanted", "binOut", "peerOut"}, orphan : BOOLEAN ]
        /\ entry \in [present : BOOLEAN, bin : BOOLEAN, cancels : SUBSET Worker]
    BY DEF Init, Idle, NoEntry
  <2>4. enabled \in BOOLEAN /\ missed = FALSE
    BY DEF Init
  <2> QED BY <2>1, <2>2, <2>3, <2>4 DEF Init, Shape
<1> QED BY <1>2, <1>3, <1>4 DEF Inv, Init, IntervalsCovered

(* The peer's steps: ids only grow, and what is evicted is gone.                 *)
LEMMA PeerStep ==
    ASSUME Inv, PeerStores \/ \E n \in Id : PeerEvicts(n)
    PROVE  Inv'
<1> USE DEF Inv
<1>1. /\ last \in Nat /\ last' \in 0 .. MaxId /\ last <= last' /\ gone \subseteq gone'
      /\ gone' \subseteq Id /\ faults' \in 0 .. MaxFaults
  BY DEF PeerStores, PeerEvicts, Fault, Shape
<1>2. UNCHANGED <<invalid, skipped, pulled, intervals, cursor, signal, manage, entry,
                  worker, topo, clearing, clears, changes, enabled, missed>>
  BY DEF PeerStores, PeerEvicts, env
<1>3. Grows
  BY <1>1, <1>2 DEF Grows, Covered
<1>4. Workers'
  BY <1>2, <1>3, WorkersKept
<1>5. IntervalsCovered'
  BY <1>1, <1>2 DEF IntervalsCovered
<1>6. Shape'
  BY <1>1, <1>2 DEF Shape
<1>7. Sessions'
  BY <1>2 DEF Sessions, Alive
<1> QED BY <1>4, <1>5, <1>6, <1>7

(* The steps of the manage goroutine and of the topology.                        *)
LEMMA ManageStep ==
    ASSUME Inv,
           \/ \E t \in Changes : TopologyChanges(t)
           \/ \E b \in BOOLEAN : SetEnabled(b)
           \/ OnTopologyChange \/ SyncPeer \/ GetCursors \/ GetCursorsFails
           \/ StartBin \/ Recalc \/ DisconnectPeer
    PROVE  Inv'
<1> USE DEF Inv
<1>0. ASSUME UNCHANGED <<peer, pulled, intervals>>
      PROVE  Grows /\ IntervalsCovered' /\ (UNCHANGED worker => Workers')
  <2>1. Grows
    BY <1>0, GrowsKept DEF peer
  <2> QED BY <1>0, <2>1, WorkersKept DEF IntervalsCovered, peer
<1>1. ASSUME NEW t \in Changes, TopologyChanges(t) PROVE Inv'
  <2>1. t \in {"wanted", "binOut", "peerOut"}
    OBVIOUS
  <2>2. Shape'
    BY <1>1, <2>1 DEF TopologyChanges, Shape, peer
  <2>3. Sessions'
    BY <1>1 DEF TopologyChanges, Sessions, Alive
  <2> QED BY <1>0, <1>1, <2>2, <2>3 DEF TopologyChanges
<1>12. ASSUME NEW b \in BOOLEAN, SetEnabled(b) PROVE Inv'
  <2>1. Shape'
    BY <1>12 DEF SetEnabled, Shape, peer
  <2>2. Sessions'
    BY <1>12 DEF SetEnabled, Sessions, Alive
  <2> QED BY <1>0, <1>12, <2>1, <2>2 DEF SetEnabled
<1>13. CASE OnTopologyChange /\ ~enabled
  <2>1. Shape'
    BY <1>13 DEF OnTopologyChange, Shape, peer
  <2>2. Sessions'
    BY <1>13 DEF OnTopologyChange, Sessions, Alive
  <2> QED BY <1>0, <1>13, <2>1, <2>2 DEF OnTopologyChange
<1>2. CASE OnTopologyChange /\ enabled
  <2>1. /\ manage' \in [ pc : {"idle", "syncPeer", "cursors", "recalc", "disconnect"},
                         topo : {"wanted", "binOut", "peerOut"}, orphan : BOOLEAN ]
        /\ manage'.orphan = FALSE
        /\ manage'.pc \in {"syncPeer", "cursors"} => ~entry.present
    <3>1. CASE manage' = [Idle EXCEPT !.pc = IF entry.present THEN "disconnect" ELSE "idle"]
      <4>1. PICK x \in {"idle", "disconnect"} : manage' = [Idle EXCEPT !.pc = x]
        BY <3>1
      <4>2. manage' = [pc |-> x, topo |-> "wanted", orphan |-> FALSE]
        BY <4>1 DEF Idle
      <4> QED BY <4>2
    <3>2. CASE manage' = [pc |-> IF entry.present THEN "recalc" ELSE "syncPeer",
                          topo |-> topo, orphan |-> FALSE]
      BY <3>2 DEF Shape
    <3> QED BY <1>2, <3>1, <3>2 DEF OnTopologyChange
  <2>2. entry' = entry \/ (~entry.present /\ entry' = NewEntry)
    BY <1>2 DEF OnTopologyChange
  <2>3. Shape'
    <3>1. entry' \in [present : BOOLEAN, bin : BOOLEAN, cancels : SUBSET Worker]
      <4>1. NewEntry \in [present : BOOLEAN, bin : BOOLEAN, cancels : SUBSET Worker]
        BY DEF NewEntry
      <4>2. entry \in [present : BOOLEAN, bin : BOOLEAN, cancels : SUBSET Worker]
        BY DEF Shape
      <4> QED BY <2>2, <4>1, <4>2
    <3>2. /\ UNCHANGED <<peer, pulled, intervals, cursor, topo, clearing, clears, changes,
                         enabled, faults>>
          /\ signal' = FALSE /\ missed' \in BOOLEAN
      BY <1>2 DEF OnTopologyChange
    <3> QED BY <2>1, <3>1, <3>2 DEF Shape, peer
  <2>4. Sessions'
    <3>1. entry'.cancels = entry.cancels /\ entry'.bin = entry.bin
      <4>1. CASE ~entry.present /\ entry' = NewEntry
        <5>1. ~entry.bin /\ entry.cancels = {} /\ entry.bin \in BOOLEAN
          BY <4>1 DEF Sessions, Shape
        <5> QED BY <4>1, <5>1 DEF NewEntry
      <4> QED BY <2>2, <4>1
    <3>2. ~entry'.present => ~entry'.bin
      BY <2>2, <3>1 DEF Sessions, NewEntry
    <3>3. UNCHANGED <<worker, clears, clearing>>
      BY <1>2 DEF OnTopologyChange
    <3>4. manage'.pc \in {"syncPeer", "cursors"} => ~entry'.bin
      BY <2>1, <3>1 DEF Sessions
    <3>5. manage'.pc # "cursors"
      BY <1>2 DEF OnTopologyChange, Idle
    <3> QED BY <2>1, <3>1, <3>2, <3>3, <3>4, <3>5 DEF Sessions, Alive
  <2> QED BY <1>0, <1>2, <2>3, <2>4 DEF OnTopologyChange
<1>3. CASE SyncPeer
  <2>1. Shape'
    BY <1>3 DEF SyncPeer, Shape, peer, env
  <2>2. manage'.pc = "cursors" /\ manage'.orphan = manage.orphan
    BY <1>3 DEF SyncPeer, Shape
  <2>3. Sessions'
    BY <1>3, <2>2 DEF SyncPeer, Sessions, Alive, env
  <2> QED BY <1>0, <1>3, <2>1, <2>3 DEF SyncPeer
<1>4. CASE GetCursors
  <2>1. cursor' \in [known : BOOLEAN, id : 0 .. MaxId] /\ cursor'.id <= last
    BY <1>4, LastBinIdType DEF GetCursors
  <2>2. Shape'
    BY <1>4, <2>1 DEF GetCursors, Shape, peer, env
  <2>3. Sessions'
    BY <1>4 DEF GetCursors, Sessions, Alive, env
  <2> QED BY <1>0, <1>4, <2>2, <2>3 DEF GetCursors
<1>5. CASE GetCursorsFails
  <2>1. Shape'
    BY <1>5 DEF GetCursorsFails, Shape, peer, env, Fault, NoEntry, Idle
  <2>2. Sessions'
    BY <1>5 DEF GetCursorsFails, Sessions, Alive, env, NoEntry, Idle
  <2> QED BY <1>0, <1>5, <2>1, <2>2 DEF GetCursorsFails
<1>6. ASSUME NEW ws \in SUBSET Worker, Started(cursor.id, ws), ~entry.bin,
             UNCHANGED <<peer, pulled, intervals, cursor, signal, env, faults>>,
             manage' = Idle,
             \/ manage.orphan /\ UNCHANGED entry
             \/ entry.present /\ entry' = [entry EXCEPT !.bin = TRUE, !.cancels = ws]
      PROVE  Inv'
  <2>1. cursor.id \in 0 .. MaxId /\ cursor.id <= last
    BY DEF Shape
  <2>2. /\ Workers'
        /\ \A w \in Worker : w \in ws \/ worker'[w] = worker[w] \/ worker'[w].pc = "none"
    BY <1>6, <2>1, StartedOK
  <2>3. entry' \in [present : BOOLEAN, bin : BOOLEAN, cancels : SUBSET Worker]
    BY <1>6 DEF Shape
  <2>4. manage' \in [ pc : {"idle", "syncPeer", "cursors", "recalc", "disconnect"},
                      topo : {"wanted", "binOut", "peerOut"}, orphan : BOOLEAN ]
        /\ manage'.pc = "idle" /\ manage'.orphan = FALSE
    BY <1>6 DEF Idle
  <2>5. Shape'
    BY <1>6, <2>3, <2>4 DEF Shape, peer, env
  <2>6. Sessions'
    <3>1. CASE manage.orphan /\ UNCHANGED entry
      <4>1. clears # 0 /\ clears' = clears
        BY <1>6, <3>1 DEF env, Sessions
      <4> QED BY <2>4, <3>1, <4>1 DEF Sessions
    <3>2. CASE entry.present /\ entry' = [entry EXCEPT !.bin = TRUE, !.cancels = ws]
      <4>1. /\ entry'.bin = TRUE /\ entry'.cancels = ws
            /\ entry'.present
        BY <3>2 DEF Shape
      <4>2. clears' = clears /\ clearing' = clearing /\ entry.cancels = {}
        BY <1>6 DEF env, Sessions
      <4>3. ASSUME clears = 0, NEW w \in Worker, worker'[w].pc # "none"
            PROVE  worker'[w].cancelled \/ w \in ws
        BY <2>2, <4>2, <4>3 DEF Sessions, Alive
      <4> QED BY <2>4, <4>1, <4>2, <4>3 DEF Sessions, Alive
    <3> QED BY <1>6, <3>1, <3>2
  <2> QED BY <1>0, <1>6, <2>2, <2>5, <2>6
<1>7. ASSUME manage' = Idle,
             UNCHANGED <<peer, pulled, intervals, cursor, signal, entry, worker, env, faults>>
      PROVE  Inv'
  <2>1. Shape'
    BY <1>7 DEF Shape, Idle, peer, env
  <2>2. Sessions'
    BY <1>7 DEF Sessions, Alive, Idle, env
  <2> QED BY <1>0, <1>7, <2>1, <2>2
<1>8. ASSUME worker' = Cancel(entry.cancels), entry' \in {NewEntry, NoEntry}, manage' = Idle,
             cursor' \in {NoCursor, cursor},
             UNCHANGED <<peer, pulled, intervals, signal, env, faults>>
      PROVE  Inv'
  <2>1. entry.cancels \in SUBSET Worker
    BY DEF Shape
  <2>2. Grows /\ IntervalsCovered'
    BY <1>0, <1>8
  <2>3. Workers'
    BY <1>8, <2>1, <2>2, CancelledWorkers
  <2>4. /\ entry' \in [present : BOOLEAN, bin : BOOLEAN, cancels : SUBSET Worker]
        /\ entry'.bin = FALSE /\ entry'.cancels = {}
    <3>1. CASE entry' = NewEntry
      BY <3>1 DEF NewEntry
    <3>2. CASE entry' = NoEntry
      BY <3>2 DEF NoEntry
    <3> QED BY <1>8, <3>1, <3>2
  <2>5. cursor' \in [known : BOOLEAN, id : 0 .. MaxId] /\ cursor'.id <= last
    <3>1. CASE cursor' = NoCursor
      BY <3>1 DEF NoCursor, Shape
    <3>2. CASE cursor' = cursor
      BY <3>2 DEF Shape
    <3> QED BY <1>8, <3>1, <3>2
  <2>6. manage' \in [ pc : {"idle", "syncPeer", "cursors", "recalc", "disconnect"},
                      topo : {"wanted", "binOut", "peerOut"}, orphan : BOOLEAN ]
        /\ manage'.pc = "idle" /\ manage'.orphan = FALSE
    BY <1>8 DEF Idle
  <2>7. Shape'
    BY <1>8, <2>4, <2>5, <2>6 DEF Shape, peer, env
  <2>8. ASSUME clears = 0, NEW w \in Worker, worker'[w].pc # "none"
        PROVE  worker'[w].cancelled
    <3>1. CASE w \in entry.cancels
      BY <1>8, <3>1 DEF Cancel, Workers, WorkerState
    <3>2. CASE w \notin entry.cancels
      BY <1>8, <2>8, <3>2 DEF Cancel, Sessions, Alive
    <3> QED BY <3>1, <3>2
  <2>9. Sessions'
    BY <1>8, <2>4, <2>6, <2>8 DEF Sessions, Alive, env
  <2> QED BY <2>2, <2>3, <2>7, <2>9
<1>9. CASE StartBin
  <2>1. CASE manage.topo = "wanted"
    BY <1>6, <1>9, <2>1 DEF StartBin, Sessions
  <2>2. CASE manage.topo # "wanted"
    BY <1>7, <1>9, <2>2 DEF StartBin
  <2> QED BY <2>1, <2>2
<1>10. CASE Recalc
  <2>1. CASE ~cursor.known
    <3>1. manage'.pc = "disconnect" /\ manage'.orphan = manage.orphan
      BY <1>10, <2>1 DEF Recalc, Shape
    <3>2. Shape'
      BY <1>10, <2>1 DEF Recalc, Shape, peer, env
    <3>3. Sessions'
      BY <1>10, <2>1, <3>1 DEF Recalc, Sessions, Alive, env
    <3> QED BY <1>0, <1>10, <2>1, <3>2, <3>3 DEF Recalc
  <2>2. CASE cursor.known /\ manage.topo = "wanted" /\ entry.bin
    BY <1>7, <1>10, <2>2 DEF Recalc
  <2>3. CASE cursor.known /\ manage.topo = "wanted" /\ ~entry.bin
    <3>1. PICK ws \in SUBSET Worker :
             /\ Started(cursor.id, ws)
             /\ entry' = [entry EXCEPT !.bin = TRUE, !.cancels = ws]
      BY <1>10, <2>3 DEF Recalc
    <3>2. entry.present /\ UNCHANGED <<peer, pulled, intervals, cursor, signal, env, faults>>
          /\ manage' = Idle
      BY <1>10, <2>3 DEF Recalc
    <3> QED BY <1>6, <2>3, <3>1, <3>2
  <2>4. CASE cursor.known /\ manage.topo # "wanted"
    BY <1>8, <1>10, <2>4 DEF Recalc
  <2> QED BY <2>1, <2>2, <2>3, <2>4
<1>11. CASE DisconnectPeer
  BY <1>8, <1>11 DEF DisconnectPeer
<1> QED BY <1>1, <1>2, <1>3, <1>4, <1>5, <1>9, <1>10, <1>11, <1>12, <1>13 DEF Inv, Shape

(* ClearCursors deletes the cursors and the intervals, then, in a second step,   *)
(* syncPeers; clears counts it from the first step on.                           *)
LEMMA ClearStep == Inv /\ (ClearCursors \/ ClearSyncPeers) => Inv'
<1> SUFFICES ASSUME Inv, ClearCursors \/ ClearSyncPeers PROVE Inv'
  OBVIOUS
<1> USE DEF Inv
<1>1. CASE ClearCursors
  <2>1. cursor' \in [known : BOOLEAN, id : 0 .. MaxId] /\ cursor'.id <= last
    BY <1>1 DEF ClearCursors, NoCursor, Shape
  <2>2. clears' \in 1 .. Clears
    BY <1>1 DEF ClearCursors, Shape
  <2>3. Shape'
    BY <1>1, <2>1, <2>2 DEF ClearCursors, Shape, peer
  <2>4. Grows /\ IntervalsCovered'
    BY <1>1 DEF ClearCursors, Grows, IntervalsCovered, Covered, Shape, peer
  <2>5. Workers'
    BY <1>1, <2>4, WorkersKept DEF ClearCursors
  <2>6. Sessions'
    BY <1>1, <2>2 DEF ClearCursors, Sessions, Alive
  <2> QED BY <2>3, <2>4, <2>5, <2>6
<1>2. CASE ClearSyncPeers
  <2>1. entry' \in [present : BOOLEAN, bin : BOOLEAN, cancels : SUBSET Worker]
        /\ entry'.bin = FALSE /\ entry'.cancels = {}
    BY <1>2 DEF ClearSyncPeers, NoEntry
  <2>2. /\ manage'.pc = manage.pc /\ manage'.topo = manage.topo
        /\ manage'.orphan \in BOOLEAN
        /\ manage.pc = "cursors" => manage'.orphan
    BY <1>2 DEF ClearSyncPeers, Shape
  <2>3. Shape'
    BY <1>2, <2>1, <2>2 DEF ClearSyncPeers, Shape, peer
  <2>4. Grows /\ IntervalsCovered'
    BY <1>2 DEF ClearSyncPeers, Grows, IntervalsCovered, Covered, Shape, peer
  <2>5. Workers'
    BY <1>2, <2>4, WorkersKept DEF ClearSyncPeers
  <2>6. clears' = clears /\ clears # 0
    BY <1>2 DEF ClearSyncPeers, Sessions
  <2>7. Sessions'
    BY <2>1, <2>2, <2>6 DEF Sessions
  <2> QED BY <2>3, <2>4, <2>5, <2>7
<1> QED BY <1>1, <1>2

(* A restart leaves what is persisted and no worker.                             *)
LEMMA RestartStep == Inv /\ (Restart \/ NilSyncPeer) => Inv'
<1> SUFFICES ASSUME Inv, Restarted, faults' \in 0 .. MaxFaults PROVE Inv'
  BY DEF Restart, NilSyncPeer, Fault, Inv, Shape
<1> USE DEF Inv
<1>1. entry' \in [present : BOOLEAN, bin : BOOLEAN, cancels : SUBSET Worker]
      /\ entry'.bin = FALSE /\ entry'.cancels = {}
  BY DEF Restarted, NoEntry
<1>2. cursor' \in [known : BOOLEAN, id : 0 .. MaxId] /\ cursor'.id <= last
  BY DEF Restarted, NoCursor, Shape
<1>3. manage' \in [ pc : {"idle", "syncPeer", "cursors", "recalc", "disconnect"},
                    topo : {"wanted", "binOut", "peerOut"}, orphan : BOOLEAN ]
      /\ manage'.pc = "idle" /\ manage'.orphan = FALSE
  BY DEF Restarted, Idle
<1>4. Shape'
  <2>1. /\ enabled' \in BOOLEAN /\ missed' = FALSE /\ signal' = TRUE
        /\ UNCHANGED <<peer, pulled, intervals, topo, clears, changes>> /\ clearing' = FALSE
    BY DEF Restarted
  <2> QED BY <1>1, <1>2, <1>3, <2>1 DEF Shape, peer
<1>5. /\ worker' \in [Worker -> WorkerState]
      /\ \A w \in Worker : worker'[w] = NoWorker
  BY NoWorkerFields DEF Restarted
<1>6. Workers'
  <2>1. ASSUME NEW w \in Worker
        PROVE  WorkerOK(worker'[w], last', gone', skipped', Covered')
    BY <1>5, NoWorkerOK
  <2>2. (\A w \in Worker : WorkerOK(worker[w], last, gone, skipped, Covered))'
    BY <2>1
  <2> QED BY <1>5, <2>2 DEF Workers
<1>7. Sessions'
  BY <1>1, <1>3, <1>5, NoWorkerFields DEF Restarted, Sessions, Alive
<1>8. IntervalsCovered'
  BY DEF Restarted, IntervalsCovered, peer
<1> QED BY <1>4, <1>6, <1>7, <1>8

-------------------------------------------------------------------------------
(* A worker's step leaves Sessions as it is: the worker ends, or was alive and   *)
(* keeps its context.                                                            *)
LEMMA WorkerKeepsSessions ==
    ASSUME Workers, Sessions, NEW w \in Worker, NEW r, Put(w, r),
           UNCHANGED <<manage, entry, env>>,
           r.pc = "none" \/ (worker[w].pc # "none" /\ r.cancelled = worker[w].cancelled)
    PROVE  Sessions'
<1>1. ASSUME NEW x \in Worker, worker'[x].pc # "none"
      PROVE  worker[x].pc # "none" /\ worker'[x].cancelled = worker[x].cancelled
  <2>1. CASE x = w
    BY <1>1, <2>1 DEF Put, Workers
  <2>2. CASE x # w
    BY <1>1, <2>2 DEF Put, Workers
  <2> QED BY <2>1, <2>2
<1> QED BY <1>1 DEF Sessions, Alive, env

(* A step of the worker w that puts r and leaves the goroutines of the manage    *)
(* loop alone, from what r is.                                                   *)
LEMMA WorkerStep ==
    ASSUME Inv, NEW w \in Worker, NEW r, Put(w, r), Shape', Grows, IntervalsCovered',
           WorkerOK(r, last', gone', skipped', Covered'),
           r.pc = "none" \/ (worker[w].pc # "none" /\ r.cancelled = worker[w].cancelled),
           UNCHANGED <<manage, entry, env>>
    PROVE  Inv'
<1>1. Workers'
  BY WorkerSteps DEF Inv
<1>2. Sessions'
  BY WorkerKeepsSessions DEF Inv
<1> QED BY <1>1, <1>2 DEF Inv

(* A worker that ends, whatever it had pulled.                                   *)
LEMMA WorkerEnds ==
    ASSUME Inv, NEW w \in Worker, Put(w, NoWorker), faults' \in 0 .. MaxFaults,
           pulled \subseteq pulled', pulled' \subseteq Id,
           UNCHANGED <<peer, intervals, cursor, signal, manage, entry, env>>
    PROVE  Inv'
<1>1. Shape'
  BY DEF Inv, Shape, peer, env
<1>2. Grows
  BY GrowsKept DEF Inv, peer
<1>3. IntervalsCovered'
  BY DEF Inv, IntervalsCovered, peer
<1>4. WorkerOK(NoWorker, last', gone', skipped', Covered')
  BY NoWorkerOK
<1> QED BY <1>1, <1>2, <1>3, <1>4, WorkerStep, NoWorkerFields

LEMMA NextIntervalStep ==
    ASSUME Inv, NEW w \in Worker, NextInterval(w)
    PROVE  Inv'
<1> DEFINE q == worker[w]
           r == [q EXCEPT !.pc = "sync", !.from = Gap]
<1>1. CASE Gap > q.to
  BY <1>1, WorkerEnds DEF NextInterval, Inv, Shape
<1>2. CASE ~(Gap > q.to)
  <2>1. /\ q \in WorkerState /\ q.kind = "hist" /\ q.pc = "next"
        /\ WorkerOK(q, last, gone, skipped, Covered)
    BY DEF NextInterval, Inv, Workers
  <2>2. Gap \in 1 .. MaxId + 1 /\ Gap <= q.to
    BY <1>2, <2>1, GapType DEF Inv, WorkerState
  <2>3. /\ r \in WorkerState /\ r.kind = "hist" /\ r.pc = "sync" /\ r.from = Gap
        /\ r.to = q.to /\ r.cancelled = q.cancelled
    <3>1. q \in WorkerState /\ Gap \in 0 .. MaxId + 1
      BY <2>1, <2>2
    <3> HIDE DEF q
    <3>2. r \in WorkerState
      BY <3>1 DEF WorkerState
    <3>3. /\ r.kind = q.kind /\ r.pc = "sync" /\ r.from = Gap
          /\ r.to = q.to /\ r.cancelled = q.cancelled
      BY <3>1 DEF WorkerState
    <3> QED BY <2>1, <3>2, <3>3
  <2>4. Put(w, r)
    BY <1>2 DEF NextInterval
  <2> HIDE DEF r
  <2>5. WorkerOK(r, last', gone', skipped', Covered')
    BY <2>1, <2>2, <2>3 DEF WorkerOK, NextInterval, peer
  <2>6. Shape' /\ IntervalsCovered' /\ Grows
    BY GrowsKept DEF NextInterval, Inv, Shape, peer, env, IntervalsCovered
  <2>7. UNCHANGED <<manage, entry, env>>
    BY DEF NextInterval
  <2> QED BY <2>1, <2>3, <2>4, <2>5, <2>6, <2>7, WorkerStep
<1> QED BY <1>1, <1>2

(* A worker that was offered the ids of offer up to top.                         *)
OfferMade(q, x, offer, top) == [q EXCEPT !.pc = x, !.offer = offer, !.top = top]

LEMMA OfferMadeFields ==
    ASSUME NEW q \in WorkerState, NEW x \in {"offered", "add"},
           NEW offer \in SUBSET Id, NEW top \in 0 .. MaxId,
           NEW r, r = OfferMade(q, x, offer, top)
    PROVE  /\ r \in WorkerState
           /\ r.kind = q.kind /\ r.pc = x /\ r.from = q.from /\ r.seen = q.seen
           /\ r.to = q.to /\ r.top = top /\ r.offer = offer /\ r.cancelled = q.cancelled
<1>1. top \in 0 .. MaxId + 1
  OBVIOUS
<1>2. r \in WorkerState
  BY <1>1 DEF WorkerState, OfferMade
<1>3. /\ r.kind = q.kind /\ r.pc = x /\ r.from = q.from /\ r.seen = q.seen
      /\ r.to = q.to /\ r.top = top /\ r.offer = offer /\ r.cancelled = q.cancelled
  BY <1>1 DEF WorkerState, OfferMade
<1> QED BY <1>2, <1>3

(* The peer's IntervalChunks and an iteration that fails: what the offer leaves  *)
(* out below its top is gone, or skipped by the failure.                         *)
LEMMA OfferIsWorkerOK ==
    ASSUME NEW q, NEW l \in 0 .. MaxId, NEW g, NEW s, NEW d, WorkerOK(q, l, g, s, d),
           q.pc = "sync", g \subseteq d,
           NEW top \in 0 .. MaxId, top <= l, NEW offer \in SUBSET Id,
           NEW x \in {"offered", "add"}, x = "add" => offer = {},
           NEW sk, s \subseteq sk, q.from .. top \subseteq offer \cup g \cup sk,
           NEW r, r = OfferMade(q, x, offer, top)
    PROVE  WorkerOK(r, l, g, sk, d \cup sk)
<1>1. q \in WorkerState
  BY DEF WorkerOK
<1>2. /\ r \in WorkerState
      /\ r.kind = q.kind /\ r.pc = x /\ r.from = q.from /\ r.seen = q.seen
      /\ r.to = q.to /\ r.top = top /\ r.offer = offer /\ r.cancelled = q.cancelled
  BY <1>1, OfferMadeFields
<1>3. r.pc \in {"add", "write"} => r.from .. r.top \subseteq d \cup sk
  BY <1>2
<1> QED BY <1>1, <1>2, <1>3 DEF WorkerOK

(* Below an id that was assigned, only what is gone is not present.              *)
LEMMA PresentOrGone ==
    ASSUME Inv, NEW w \in Worker, NEW top \in 0 .. MaxId, top <= last,
           worker[w].pc = "sync", top <= worker[w].to \/ worker[w].kind = "live"
    PROVE  \A j \in worker[w].from .. top : j \in Present \cup gone
<1>1. /\ worker[w] \in WorkerState /\ worker[w].from >= 1
      /\ WorkerOK(worker[w], last, gone, skipped, Covered)
  BY DEF Inv, Workers, WorkerOK
<1> QED BY <1>1 DEF Present, Inv, Shape, WorkerState

LEMMA MakeOfferStep ==
    ASSUME Inv, NEW w \in Worker, MakeOffer(w)
    PROVE  Inv'
<1> DEFINE q == worker[w]
<1>1. q \in WorkerState /\ q.pc = "sync" /\ q.from \in Nat /\ q.to \in 0 .. MaxId
  <2>1. q \in WorkerState
    BY DEF Inv, Workers
  <2>2. q.pc = "sync"
    BY DEF MakeOffer
  <2> QED BY <2>1, <2>2 DEF WorkerState
<1>2. Offered(q) \in SUBSET Id /\ \A i \in Offered(q) : i <= last /\ i <= q.to
  BY <1>1 DEF Offered, Present, Inv, Shape, Id
<1>3. Shape' /\ IntervalsCovered' /\ Grows
  <2>1. UNCHANGED <<peer, pulled, intervals, cursor, signal, manage, entry, env, faults>>
    BY DEF MakeOffer
  <2> QED BY <2>1, GrowsKept DEF Inv, Shape, peer, env, IntervalsCovered
<1>4. UNCHANGED <<last, gone, skipped, manage, entry, env>> /\ Covered' = Covered
  BY DEF MakeOffer, peer, Covered
<1>5. ASSUME NEW top \in 0 .. MaxId, top <= last, NEW x \in {"offered", "add"},
             NEW offer \in SUBSET Id, x = "add" => offer = {},
             q.from .. top \subseteq offer \cup gone \cup skipped,
             Put(w, [q EXCEPT !.pc = x, !.offer = offer, !.top = top])
      PROVE  Inv'
  <2> DEFINE r == OfferMade(q, x, offer, top)
  <2>1. /\ WorkerOK(q, last, gone, skipped, Covered) /\ gone \subseteq Covered
        /\ last \in 0 .. MaxId
    BY DEF Inv, Workers, Covered, Shape
  <2>2. /\ WorkerOK(r, last, gone, skipped, Covered \cup skipped)
        /\ r.pc # "none" /\ r.cancelled = q.cancelled
    <3>1. r = OfferMade(q, x, offer, top) /\ q.from .. top \subseteq offer \cup gone \cup skipped
      BY <1>5
    <3> HIDE DEF q, r
    <3>2. WorkerOK(r, last, gone, skipped, Covered \cup skipped)
      BY <1>1, <1>5, <2>1, <3>1, OfferIsWorkerOK
    <3>3. r.pc = x /\ r.cancelled = q.cancelled
      BY <1>1, <3>1, OfferMadeFields
    <3> QED BY <3>2, <3>3
  <2>3. Covered \cup skipped = Covered
    BY DEF Covered
  <2>4. WorkerOK(r, last', gone', skipped', Covered')
    BY <1>4, <2>2, <2>3
  <2>5. Put(w, r)
    BY <1>5 DEF OfferMade
  <2> HIDE DEF r
  <2> QED BY <1>1, <1>3, <1>4, <2>2, <2>4, <2>5, WorkerStep
<1>6. CASE /\ \E i \in Present : i >= q.to /\ q.kind = "hist"
           /\ Put(w, [q EXCEPT !.pc = IF Offered(q) = {} THEN "add" ELSE "offered",
                               !.offer = Offered(q), !.top = q.to])
  <2>1. q.to <= last
    BY <1>1, <1>6 DEF Present, Inv, Shape
  <2>2. PICK x \in {"offered", "add"} :
           /\ x = "add" => Offered(q) = {}
           /\ Put(w, [q EXCEPT !.pc = x, !.offer = Offered(q), !.top = q.to])
    BY <1>6
  <2>3. q.from .. q.to \subseteq Offered(q) \cup gone \cup skipped
    BY <1>1, <2>1, PresentOrGone DEF Offered, Inv, Shape
  <2> QED BY <1>1, <1>2, <1>5, <2>1, <2>2, <2>3
<1>7. ASSUME NEW i \in Offered(q),
             Put(w, [q EXCEPT !.pc = "offered", !.top = i,
                              !.offer = {j \in Offered(q) : j <= i}])
      PROVE  Inv'
  <2>1. i \in 0 .. MaxId /\ i <= last /\ i <= q.to
    BY <1>2 DEF Id
  <2>2. q.from .. i \subseteq {j \in Offered(q) : j <= i} \cup gone \cup skipped
    BY <1>1, <2>1, PresentOrGone DEF Offered
  <2>3. Put(w, [q EXCEPT !.pc = "offered", !.offer = {j \in Offered(q) : j <= i}, !.top = i])
    BY <1>1, <1>7 DEF WorkerState
  <2>4. {j \in Offered(q) : j <= i} \in SUBSET Id
    BY <1>2
  <2> QED BY <1>5, <2>1, <2>2, <2>3, <2>4
<1> QED BY <1>6, <1>7 DEF MakeOffer

LEMMA IterationFailsStep ==
    ASSUME Inv, NEW w \in Worker, IterationFails(w)
    PROVE  Inv'
<1> DEFINE q == worker[w]
<1>1. /\ q \in WorkerState /\ q.pc = "sync" /\ q.from \in Nat /\ q.to \in 0 .. MaxId
      /\ q.kind = "hist" => q.to <= last
      /\ q.kind # "none"
  <2>1. q \in WorkerState /\ WorkerOK(q, last, gone, skipped, Covered) /\ q.pc = "sync"
    BY DEF IterationFails, Inv, Workers
  <2> QED BY <2>1 DEF WorkerState, WorkerOK
<1>2. Offered(q) \in SUBSET Id
  BY <1>1 DEF Offered, Present, Inv, Shape, Id
<1>3. /\ UNCHANGED <<last, gone, invalid, pulled, intervals, cursor, signal, manage, entry, env>>
      /\ faults' \in 0 .. MaxFaults
  BY DEF IterationFails, Fault, Inv, Shape
<1>4. PICK i \in 0 .. MaxId :
        LET seen == {j \in Offered(q) : j <= i} IN
        IF q.kind = "live"
        THEN /\ Put(w, IF seen = {} THEN NoWorker
                       ELSE [q EXCEPT !.pc = "offered", !.offer = seen, !.top = MaxUint])
             /\ skipped' = skipped
        ELSE /\ Put(w, [q EXCEPT !.pc = IF seen = {} THEN "add" ELSE "offered",
                                 !.offer = seen, !.top = q.to])
             /\ skipped' = skipped \cup (Offered(q) \ seen)
  BY DEF IterationFails
<1>5. CASE q.kind = "live"
  <2> DEFINE seen == {j \in Offered(q) : j <= i}
             r == [q EXCEPT !.pc = "offered", !.offer = seen, !.top = MaxUint]
  <2>1. (Put(w, NoWorker) \/ Put(w, r)) /\ skipped' = skipped
    BY <1>4, <1>5
  <2>2. UNCHANGED <<peer, intervals, cursor, signal, manage, entry, env>>
    BY <1>3, <2>1 DEF peer
  <2>3. CASE Put(w, NoWorker)
    BY <1>3, <2>2, <2>3, WorkerEnds DEF Inv, Shape
  <2>4. CASE Put(w, r)
    <3>1. seen \in SUBSET Id /\ MaxUint \in 0 .. MaxId + 1
      BY <1>2 DEF MaxUint
    <3>2. /\ r \in WorkerState /\ r.pc = "offered" /\ r.kind = "live" /\ r.from = q.from
          /\ r.top = MaxUint /\ r.cancelled = q.cancelled
      <4> HIDE DEF q, seen
      <4>1. r \in WorkerState
        BY <1>1, <3>1 DEF WorkerState
      <4>2. /\ r.pc = "offered" /\ r.kind = q.kind /\ r.from = q.from
            /\ r.top = MaxUint /\ r.cancelled = q.cancelled
        BY <1>1 DEF WorkerState
      <4> QED BY <1>5, <4>1, <4>2
    <3> HIDE DEF r
    <3>3. WorkerOK(q, last, gone, skipped, Covered)
      BY DEF Inv, Workers
    <3>4. WorkerOK(r, last', gone', skipped', Covered')
      BY <1>1, <3>2, <3>3 DEF WorkerOK
    <3>5. Shape' /\ IntervalsCovered' /\ Grows
      BY <1>3, <2>1, <2>2, GrowsKept DEF Inv, Shape, peer, env, IntervalsCovered
    <3> QED BY <1>1, <1>3, <2>4, <3>2, <3>4, <3>5, WorkerStep
  <2> QED BY <2>1, <2>3, <2>4
<1>6. CASE q.kind # "live"
  <2> DEFINE seen == {j \in Offered(q) : j <= i}
  <2>1. PICK x \in {"offered", "add"} :
           /\ x = "add" => seen = {}
           /\ Put(w, [q EXCEPT !.pc = x, !.offer = seen, !.top = q.to])
    BY <1>4, <1>6
  <2>2. skipped' = skipped \cup (Offered(q) \ seen)
    BY <1>4, <1>6
  <2>3. seen \in SUBSET Id
    BY <1>2
  <2>4. q.kind = "hist"
    BY <1>1, <1>6 DEF WorkerState
  <2>5. q.from .. q.to \subseteq Offered(q) \cup gone
    <3>1. WorkerOK(q, last, gone, skipped, Covered) /\ last \in 0 .. MaxId
      BY <1>1 DEF Inv, Workers, Shape
    <3>2. q.to \in 0 .. MaxId /\ q.to <= last /\ q.from \in Int
      BY <2>4, <3>1 DEF WorkerOK, WorkerState
    <3>3. \A top \in 0 .. MaxId : top <= last /\ top <= q.to =>
              \A j \in q.from .. top : j \in Present \cup gone
      BY <1>1, PresentOrGone
    <3>4. \A j \in q.from .. q.to : j \in Present \cup gone
      BY <3>2, <3>3
    <3>5. \A j \in q.from .. q.to : j >= q.from /\ j <= q.to
      BY <3>2
    <3> QED BY <3>4, <3>5 DEF Offered
  <2>6. q.from .. q.to \subseteq seen \cup gone \cup skipped'
    BY <2>2, <2>5
  <2> DEFINE r == OfferMade(q, x, seen, q.to)
  <2>7. /\ WorkerOK(r, last, gone, skipped', Covered \cup skipped')
        /\ r.pc # "none" /\ r.cancelled = q.cancelled
    <3>1. /\ WorkerOK(q, last, gone, skipped, Covered) /\ gone \subseteq Covered
          /\ last \in 0 .. MaxId /\ skipped \subseteq skipped' /\ q.to <= last
      BY <1>1, <2>2, <2>4 DEF Inv, Workers, Covered, Shape
    <3>2. r = OfferMade(q, x, seen, q.to) /\ (x = "add" => seen = {})
      BY <2>1
    <3> HIDE DEF seen, q, r
    <3>3. WorkerOK(r, last, gone, skipped', Covered \cup skipped')
      BY <1>1, <2>3, <2>6, <3>1, <3>2, OfferIsWorkerOK
    <3>4. r.pc = x /\ r.cancelled = q.cancelled
      BY <1>1, <2>3, <3>2, OfferMadeFields
    <3> QED BY <3>3, <3>4
  <2>8. Covered' = Covered \cup skipped'
    BY <1>3, <2>2 DEF Covered
  <2>9. WorkerOK(r, last', gone', skipped', Covered')
    BY <1>3, <2>7, <2>8
  <2>10. Shape' /\ IntervalsCovered' /\ Grows
    BY <1>2, <1>3, <2>2, <2>8 DEF Inv, Shape, env, IntervalsCovered, Grows
  <2>11. Put(w, r)
    BY <2>1 DEF OfferMade
  <2> HIDE DEF r
  <2> QED BY <1>1, <1>3, <2>7, <2>9, <2>10, <2>11, WorkerStep
<1> QED BY <1>5, <1>6

(* Want, the deliveries and the local Put: what was offered and wanted is pulled, *)
(* or its stamp is not valid.                                                    *)
LEMMA DeliverStep ==
    ASSUME Inv, NEW w \in Worker, Deliver(w)
    PROVE  Inv'
<1> DEFINE q == worker[w]
           r == [q EXCEPT !.pc = "add", !.offer = {}]
<1>1. /\ q \in WorkerState /\ q.pc = "offered"
      /\ WorkerOK(q, last, gone, skipped, Covered)
  BY DEF Deliver, Inv, Workers
<1>2. /\ pulled' = pulled \cup (Wanted(q) \ invalid) /\ Wanted(q) = q.offer \ pulled
      /\ UNCHANGED <<peer, intervals, cursor, signal, manage, entry, env, faults>>
      /\ (Put(w, r) /\ q.top # MaxUint) \/ Put(w, NoWorker)
  BY DEF Deliver, Wanted
<1>3. q.offer \subseteq Id
  BY <1>1 DEF WorkerState
<1>4. pulled \subseteq pulled' /\ pulled' \subseteq Id
  BY <1>2, <1>3 DEF Inv, Shape
<1>5. CASE Put(w, NoWorker)
  BY <1>2, <1>4, <1>5, WorkerEnds DEF Inv, Shape
<1>6. CASE Put(w, r) /\ q.top # MaxUint
  <2>1. /\ r \in WorkerState /\ r.pc = "add" /\ r.kind = q.kind /\ r.from = q.from
        /\ r.to = q.to /\ r.top = q.top /\ r.cancelled = q.cancelled
    <3>1. q \in WorkerState
      BY <1>1
    <3> HIDE DEF q
    <3>2. r \in WorkerState
      BY <3>1 DEF WorkerState
    <3>3. /\ r.pc = "add" /\ r.kind = q.kind /\ r.from = q.from
          /\ r.to = q.to /\ r.top = q.top /\ r.cancelled = q.cancelled
      BY <3>1 DEF WorkerState
    <3> QED BY <3>2, <3>3
  <2> HIDE DEF r
  <2>2. q.from .. q.top \subseteq Covered' /\ q.top <= last
    BY <1>1, <1>2, <1>6 DEF WorkerOK, Covered, peer
  <2>3. Grows
    BY <1>2, <1>4, GrowsKept DEF Inv, peer
  <2>4. WorkerOK(r, last', gone', skipped', Covered')
    BY <1>1, <1>2, <2>1, <2>2 DEF WorkerOK, peer
  <2>5. Shape' /\ IntervalsCovered'
    BY <1>2, <1>4 DEF Inv, Shape, IntervalsCovered, peer, env
  <2> QED BY <1>1, <1>2, <1>6, <2>1, <2>3, <2>4, <2>5, WorkerStep
<1> QED BY <1>2, <1>5, <1>6

(* A worker that fails or is cancelled ends.                                     *)
LEMMA EndStep ==
    ASSUME Inv, NEW w \in Worker, DeliverFails(w) \/ SyncFails(w) \/ Stop(w)
    PROVE  Inv'
<1>1. CASE DeliverFails(w)
  BY <1>1, WorkerEnds DEF DeliverFails, Inv, Shape, peer
<1>2. CASE SyncFails(w)
  <2>1. PICK some \in SUBSET ((Wanted(worker[w]) \cap Present) \ invalid) :
          pulled' = pulled \cup some
    BY <1>2 DEF SyncFails
  <2>2. pulled \subseteq pulled' /\ pulled' \subseteq Id
    <3>1. Present \subseteq Id /\ pulled \subseteq Id
      BY DEF Present, Inv, Shape, Id
    <3> QED BY <2>1, <3>1
  <2>3. /\ UNCHANGED <<peer, intervals, cursor, signal, manage, entry, env>>
        /\ Put(w, NoWorker) /\ faults' \in 0 .. MaxFaults
    BY <1>2 DEF SyncFails, Fault, Inv, Shape
  <2> QED BY <2>2, <2>3, WorkerEnds
<1>3. CASE Stop(w)
  BY <1>3, WorkerEnds DEF Stop, Inv, Shape, peer
<1> QED BY <1>1, <1>2, <1>3

(* addPeerInterval: what it read is covered, and what is covered stays so until  *)
(* it writes.                                                                    *)
LEMMA ReadIntervalsStep ==
    ASSUME Inv, NEW w \in Worker, ReadIntervals(w)
    PROVE  Inv'
<1> DEFINE q == worker[w]
           r == [q EXCEPT !.pc = "write", !.seen = intervals]
<1>1. /\ q \in WorkerState /\ q.pc = "add"
      /\ WorkerOK(q, last, gone, skipped, Covered)
  BY DEF ReadIntervals, Inv, Workers
<1>2. /\ UNCHANGED <<peer, pulled, intervals, cursor, signal, manage, entry, env, faults>>
      /\ Put(w, r)
  BY DEF ReadIntervals
<1>3. /\ r \in WorkerState /\ r.pc = "write" /\ r.kind = q.kind /\ r.from = q.from
      /\ r.to = q.to /\ r.top = q.top /\ r.cancelled = q.cancelled /\ r.seen = intervals
  <2>1. q \in WorkerState /\ intervals \in SUBSET Id
    BY <1>1 DEF Inv, Shape
  <2> HIDE DEF q
  <2>2. r \in WorkerState
    BY <2>1 DEF WorkerState
  <2>3. /\ r.pc = "write" /\ r.kind = q.kind /\ r.from = q.from /\ r.seen = intervals
        /\ r.to = q.to /\ r.top = q.top /\ r.cancelled = q.cancelled
    BY <2>1 DEF WorkerState
  <2> QED BY <2>2, <2>3
<1> HIDE DEF r
<1>4. WorkerOK(r, last, gone, skipped, Covered) /\ Covered' = Covered
  BY <1>1, <1>2, <1>3 DEF WorkerOK, Inv, IntervalsCovered, Covered, peer
<1>5. Shape' /\ IntervalsCovered' /\ Grows
  BY <1>2, GrowsKept DEF Inv, Shape, IntervalsCovered, peer, env
<1>6. WorkerOK(r, last', gone', skipped', Covered')
  BY <1>2, <1>4 DEF peer
<1> QED BY <1>1, <1>2, <1>3, <1>5, <1>6, WorkerStep

LEMMA WriteIntervalsStep ==
    ASSUME Inv, NEW w \in Worker, WriteIntervals(w)
    PROVE  Inv'
<1> DEFINE q == worker[w]
           a == [q EXCEPT !.pc = "next", !.seen = {}, !.from = 0, !.top = 0]
           b == [q EXCEPT !.pc = "sync", !.seen = {}, !.from = q.top + 1, !.top = 0]
<1>1. /\ q \in WorkerState /\ q.pc = "write"
      /\ WorkerOK(q, last, gone, skipped, Covered)
  BY DEF WriteIntervals, Inv, Workers
<1>2. /\ UNCHANGED <<peer, pulled, cursor, signal, manage, entry, env, faults>>
      /\ intervals' = q.seen \cup (q.from .. q.top)
      /\ \/ q.kind = "hist" /\ Put(w, a)
         \/ q.kind # "hist" /\ Put(w, b)
  BY DEF WriteIntervals
<1>3. q.top \in 0 .. MaxId /\ q.from \in Nat /\ q.from >= 1
  BY <1>1 DEF WorkerOK, WorkerState, Inv, Shape
<1>4. intervals' \subseteq Covered /\ intervals' \subseteq Id
  BY <1>1, <1>2, <1>3 DEF WorkerOK, WorkerState, Id
<1>5. Shape' /\ IntervalsCovered' /\ Grows
  BY <1>2, <1>4, GrowsKept DEF Inv, Shape, IntervalsCovered, Covered, peer, env
<1>6. ASSUME q.kind = "hist", Put(w, a) PROVE Inv'
  <2>1. /\ a \in WorkerState /\ a.pc = "next" /\ a.kind = q.kind /\ a.to = q.to
        /\ a.cancelled = q.cancelled
    <3>1. q \in WorkerState /\ 0 \in 0 .. MaxId + 1 /\ {} \in SUBSET Id
      BY <1>1
    <3> HIDE DEF q
    <3>2. a \in WorkerState
      BY <3>1 DEF WorkerState
    <3>3. a.pc = "next" /\ a.kind = q.kind /\ a.to = q.to /\ a.cancelled = q.cancelled
      BY <3>1 DEF WorkerState
    <3> QED BY <3>2, <3>3
  <2>2. Put(w, a)
    BY <1>6
  <2> HIDE DEF a
  <2>3. WorkerOK(a, last', gone', skipped', Covered')
    BY <1>1, <1>2, <2>1 DEF WorkerOK, peer
  <2> QED BY <1>1, <1>2, <1>5, <2>1, <2>2, <2>3, WorkerStep
<1>7. ASSUME q.kind # "hist", Put(w, b) PROVE Inv'
  <2>1. /\ b \in WorkerState /\ b.pc = "sync" /\ b.kind = q.kind /\ b.from >= 1
        /\ b.cancelled = q.cancelled
    <3>1. q \in WorkerState /\ q.top + 1 \in 1 .. MaxId + 1
      BY <1>1, <1>3
    <3>2. b \in WorkerState
      <4>1. q.top + 1 \in 0 .. MaxId + 1 /\ 0 \in 0 .. MaxId + 1 /\ {} \in SUBSET Id
        BY <3>1
      <4> DEFINE n == q.top + 1
      <4> HIDE DEF q, n
      <4> QED BY <3>1, <4>1 DEF WorkerState, n
    <3> HIDE DEF q
    <3>3. b.pc = "sync" /\ b.kind = q.kind /\ b.from = q.top + 1 /\ b.cancelled = q.cancelled
      BY <3>1 DEF WorkerState
    <3> QED BY <3>1, <3>2, <3>3
  <2>2. Put(w, b)
    BY <1>7
  <2> HIDE DEF b
  <2>3. WorkerOK(b, last', gone', skipped', Covered')
    BY <1>1, <1>2, <1>7, <2>1 DEF WorkerOK, peer
  <2> QED BY <1>1, <1>2, <1>5, <2>1, <2>2, <2>3, WorkerStep
<1> QED BY <1>2, <1>6, <1>7

-------------------------------------------------------------------------------
LEMMA InvStep == Inv /\ [Next]_vars => Inv'
<1> SUFFICES ASSUME Inv, [Next]_vars PROVE Inv'
  OBVIOUS
<1>1. CASE PeerStores \/ \E i \in Id : PeerEvicts(i)
  BY <1>1, PeerStep
<1>2. CASE \/ \E t \in Changes : TopologyChanges(t)
           \/ \E b \in BOOLEAN : SetEnabled(b)
           \/ OnTopologyChange \/ SyncPeer \/ GetCursors \/ GetCursorsFails
           \/ StartBin \/ Recalc \/ DisconnectPeer
  BY <1>2, ManageStep
<1>3. CASE ClearCursors \/ ClearSyncPeers
  BY <1>3, ClearStep
<1>4. CASE Restart \/ NilSyncPeer
  BY <1>4, RestartStep
<1>5. ASSUME NEW w \in Worker, Work(w) \/ MakeOffer(w) \/ IterationFails(w) \/ SyncFails(w)
      PROVE  Inv'
  BY <1>5, NextIntervalStep, DeliverStep, EndStep, ReadIntervalsStep, WriteIntervalsStep,
     MakeOfferStep, IterationFailsStep DEF Work
<1>6. CASE UNCHANGED vars
  <2>1. Shape' /\ IntervalsCovered'
    BY <1>6 DEF vars, Inv, Shape, IntervalsCovered
  <2>2. Workers'
    BY <1>6 DEF vars, Inv, Workers, Covered
  <2>3. Sessions'
    BY <1>6 DEF vars, Inv, Sessions, Alive
  <2> QED BY <2>1, <2>2, <2>3 DEF Inv
<1> QED BY <1>1, <1>2, <1>3, <1>4, <1>5, <1>6 DEF Next, Manage

(* The inductive invariant is an invariant.                                      *)
THEOREM Invariant == Spec => []Inv
<1>1. Init => Inv
  BY InvInit
<1>2. Inv /\ [Next]_vars => Inv'
  BY InvStep
<1> QED BY <1>1, <1>2, PTL DEF Spec

(* Type correctness: in particular a worker never asks for an interval that is   *)
(* empty or starts before the first id.                                          *)
THEOREM TypeCorrect == Spec => []TypeOK
<1>1. Inv => TypeOK
  BY DEF Inv, Shape, Workers, WorkerOK, TypeOK
<1> QED BY <1>1, Invariant, PTL

(* The persisted intervals cover only ids that need not be asked for again,      *)
(* whichever workers read and write them back at the same time and wherever the  *)
(* puller is cancelled or restarted.                                             *)
THEOREM IntervalsAreCovered == Spec => []IntervalsCovered
<1>1. Inv => IntervalsCovered
  BY DEF Inv
<1> QED BY <1>1, Invariant, PTL

(* As long as ClearCursors was not called, a worker that goes on is one whose    *)
(* context syncPeers holds: disconnecting the peer stops all of its workers.     *)
THEOREM NoWorkerIsStray == Spec => []NoStrayWorkers
<1>1. Inv => NoStrayWorkers
  BY DEF Inv, Sessions, NoStrayWorkers
<1> QED BY <1>1, Invariant, PTL
===============================================================================
