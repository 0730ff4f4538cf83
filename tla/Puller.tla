------------------------------- MODULE Puller -------------------------------
(* The puller (pkg/puller), pull sync (pkg/pullsync) and the peer's pull        *)
(* subscription (pkg/pullsync/pullstorage, pkg/localstore), for one peer and    *)
(* one bin: the manage loop starts and cancels workers as the topology changes, *)
(* a historical and a live worker sync the peer's bin by intervals of its bin   *)
(* ids, and the interval store remembers what is done.                          *)
EXTENDS Naturals, FiniteSets, FiniteSetsExt

CONSTANTS
    MaxId,          \* bound: the bin ids the peer assigns are 1 .. MaxId
    Worker,         \* bound: worker goroutines alive at a time
    InitInvalid,    \* the sets of ids whose chunks may have an invalid stamp
    Changes,        \* what the topology may be: subsets of {"wanted", "binOut", "peerOut"}
    MaxChanges,     \* bound: how often the topology changes or the switch is set
    Clears,         \* how often ClearCursors may be called
    IterateFails,   \* whether the peer's index iteration may fail
    MaxFaults       \* bound: failing streams, evictions at the peer, restarts

Id == 1 .. MaxId

ASSUME BoundAssumption ==
    /\ MaxId \in Nat \ {0} /\ Worker \subseteq Nat /\ IsFiniteSet(Worker)
    /\ InitInvalid \subseteq SUBSET Id
    /\ Changes \subseteq {"wanted", "binOut", "peerOut"}
    /\ IterateFails \in BOOLEAN /\ MaxFaults \in Nat /\ Clears \in Nat /\ MaxChanges \in Nat

VARIABLES
    last,       \* the last bin id the peer assigned
    gone,       \* the ids whose chunks the peer evicted
    invalid,    \* the ids whose chunks have an invalid stamp
    skipped,    \* history: the ids that an iteration that failed left out
    pulled,     \* the ids whose chunks are in the local store
    intervals,  \* the ids in the persisted intervals
    cursor,     \* puller.cursors of the peer
    topo,       \* the bin against the depth, the peer against the depth
    signal,     \* the channel of SubscribeTopologyChange, which holds one signal
    manage,     \* the manage goroutine
    entry,      \* puller.syncPeers of the peer
    worker,     \* the worker goroutines
    enabled,    \* Options.PullSyncEnabled, which the puller reads through a pointer
    missed,     \* history: the last signal was taken while it was off
    clearing, clears, changes, faults

vars == <<last, gone, invalid, skipped, pulled, intervals, cursor, topo, signal, manage,
          entry, worker, enabled, missed, clearing, clears, changes, faults>>
peer == <<last, gone, invalid, skipped>>
env == <<topo, clearing, clears, changes, enabled, missed>>

NoCursor == [known |-> FALSE, id |-> 0]

(* syncPeers: bin is whether binCancelFuncs has the bin, cancels the workers    *)
(* whose context it cancels.                                                    *)
NoEntry == [present |-> FALSE, bin |-> FALSE, cancels |-> {}]
NewEntry == [present |-> TRUE, bin |-> FALSE, cancels |-> {}]

(* orphan: the syncPeer the manage goroutine works on is no longer in the map.  *)
Idle == [pc |-> "idle", topo |-> "wanted", orphan |-> FALSE]

(* A worker: SyncInterval(from, to) is asked for ("sync"), offered ids up to    *)
(* top ("offered"), its chunks are stored ("add"), and the intervals read into  *)
(* seen are to be written back ("write").                                       *)
NoWorker == [kind |-> "none", pc |-> "none", cancelled |-> FALSE, from |-> 0,
             to |-> 0, top |-> 0, offer |-> {}, seen |-> {}]
WorkerState ==
    [ kind : {"none", "hist", "live"},
      pc : {"none", "next", "sync", "offered", "add", "write"}, cancelled : BOOLEAN,
      from : 0 .. MaxId + 1, to : 0 .. MaxId, top : 0 .. MaxId + 1,
      offer : SUBSET Id, seen : SUBSET Id ]

MaxCursor == MaxId      \* beyond every id that is ever assigned
MaxUint == MaxId + 1    \* math.MaxUint64, where an offer of an ended iteration ends

Init ==
    /\ last \in 0 .. 1 /\ gone = {} /\ invalid \in InitInvalid /\ skipped = {}
    /\ pulled = {} /\ intervals = {} /\ cursor = NoCursor
    /\ topo = "wanted" /\ signal = TRUE
    /\ manage = Idle /\ entry = NoEntry
    /\ worker = [w \in Worker |-> NoWorker]
    /\ enabled \in BOOLEAN /\ missed = FALSE
    /\ clearing = FALSE /\ clears = 0 /\ changes = 0 /\ faults = 0

Fault == faults < MaxFaults /\ faults' = faults + 1

Alive(w) == worker[w].pc # "none"
Cancel(ws) == [w \in Worker |->
                 IF w \in ws THEN [worker[w] EXCEPT !.cancelled = TRUE] ELSE worker[w]]
Put(w, r) == worker' = [worker EXCEPT ![w] = r]

-----------------------------------------------------------------------------
(* The peer                                                                     *)

PeerStores ==
    /\ last < MaxId
    /\ last' = last + 1
    /\ UNCHANGED <<gone, invalid, skipped, pulled, intervals, cursor, signal, manage,
                   entry, worker, env, faults>>

PeerEvicts(i) ==
    /\ Fault /\ i <= last /\ i \notin gone
    /\ gone' = gone \cup {i}
    /\ UNCHANGED <<last, invalid, skipped, pulled, intervals, cursor, signal, manage,
                   entry, worker, env>>

Present == {i \in 1 .. last : i \notin gone}

(* LastPullSubscriptionBinID.                                                   *)
LastBinId == IF Present = {} THEN 0 ELSE Max(Present)

-----------------------------------------------------------------------------
(* manage                                                                       *)

(* The signal may also be for another peer, and the topology of this one as it  *)
(* was.                                                                         *)
TopologyChanges(t) ==
    /\ changes < MaxChanges /\ changes' = changes + 1
    /\ topo' = t /\ signal' = TRUE
    /\ UNCHANGED <<peer, pulled, intervals, cursor, manage, entry, worker, clearing,
                   clears, enabled, missed, faults>>

(* updateSyncState: the debug API sets the switch, and signals nobody.          *)
SetEnabled(b) ==
    /\ changes < MaxChanges /\ changes' = changes + 1
    /\ enabled # b /\ enabled' = b
    /\ UNCHANGED <<peer, pulled, intervals, cursor, topo, signal, manage, entry, worker,
                   missed, clearing, clears, faults>>

(* The part under syncPeersMtx that sorts the peers. While the switch is off    *)
(* the signal is taken all the same, and the change with it.                    *)
OnTopologyChange ==
    /\ manage.pc = "idle" /\ signal
    /\ signal' = FALSE /\ missed' = ~enabled
    /\ IF ~enabled
       THEN UNCHANGED <<manage, entry>>
       ELSE IF topo = "peerOut"
       THEN /\ manage' = [Idle EXCEPT !.pc = IF entry.present THEN "disconnect" ELSE "idle"]
            /\ entry' = entry
       ELSE /\ manage' = [pc |-> IF entry.present THEN "recalc" ELSE "syncPeer",
                          topo |-> topo, orphan |-> FALSE]
            /\ entry' = IF entry.present THEN entry ELSE NewEntry
    /\ UNCHANGED <<peer, pulled, intervals, cursor, worker, topo, clearing, clears,
                   changes, enabled, faults>>

(* syncPeerBin: a context, a historical worker unless the cursor is 0, a live   *)
(* worker.                                                                      *)
Started(cur, ws) ==
    \E h, l \in Worker :
        /\ h < l /\ ~Alive(h) /\ ~Alive(l)
        /\ \A w \in Worker \ {h, l} : Alive(w) \/ w > l
        /\ ws = IF cur > 0 THEN {h, l} ELSE {l}
        /\ worker' = [worker EXCEPT
              ![l] = [NoWorker EXCEPT !.kind = "live", !.pc = "sync", !.from = cur + 1,
                                      !.to = MaxCursor],
              ![h] = IF cur > 0
                     THEN [NoWorker EXCEPT !.kind = "hist", !.pc = "next", !.to = cur]
                     ELSE NoWorker]

(* syncPeer: it holds its syncPeer from here on.                                *)
SyncPeer ==
    /\ manage.pc = "syncPeer" /\ entry.present
    /\ manage' = [manage EXCEPT !.pc = "cursors"]
    /\ UNCHANGED <<peer, pulled, intervals, cursor, signal, entry, worker, env, faults>>

GetCursors ==
    /\ manage.pc = "cursors" /\ ~cursor.known
    /\ cursor' = [known |-> TRUE, id |-> LastBinId]
    /\ UNCHANGED <<peer, pulled, intervals, signal, manage, entry, worker, env, faults>>

GetCursorsFails ==
    /\ manage.pc = "cursors" /\ ~cursor.known /\ Fault
    /\ entry' = NoEntry /\ manage' = Idle
    /\ UNCHANGED <<peer, pulled, intervals, cursor, signal, worker, env>>

(* The bins of the neighbourhood are started with the cursors.                  *)
StartBin ==
    /\ manage.pc = "cursors" /\ cursor.known
    /\ IF manage.topo = "wanted"
       THEN \E ws \in SUBSET Worker :
               /\ Started(cursor.id, ws)
               /\ entry' = IF manage.orphan THEN entry
                           ELSE [entry EXCEPT !.bin = TRUE, !.cancels = ws]
       ELSE UNCHANGED <<worker, entry>>
    /\ manage' = Idle
    /\ UNCHANGED <<peer, pulled, intervals, cursor, signal, env, faults>>

(* A mutant of Recalc: a bin that is wanted again is not started.               *)
RecalcCancelsOnly ==
    /\ manage.pc = "recalc" /\ entry.present
    /\ IF ~cursor.known
       THEN /\ manage' = [manage EXCEPT !.pc = "disconnect"]
            /\ UNCHANGED <<worker, entry>>
       ELSE /\ manage' = Idle
            /\ IF manage.topo = "wanted"
               THEN UNCHANGED <<worker, entry>>
               ELSE /\ worker' = Cancel(entry.cancels)
                    /\ entry' = NewEntry
    /\ UNCHANGED <<peer, pulled, intervals, cursor, signal, env, faults>>

(* recalcPeer: without cursors (they were cleared) the peer is disconnected.    *)
Recalc ==
    /\ manage.pc = "recalc" /\ entry.present
    /\ IF ~cursor.known
       THEN /\ manage' = [manage EXCEPT !.pc = "disconnect"]
            /\ UNCHANGED <<worker, entry>>
       ELSE /\ manage' = Idle
            /\ IF manage.topo = "wanted"
               THEN IF entry.bin
                    THEN UNCHANGED <<worker, entry>>
                    ELSE \E ws \in SUBSET Worker :
                            /\ Started(cursor.id, ws)
                            /\ entry' = [entry EXCEPT !.bin = TRUE, !.cancels = ws]
               ELSE /\ worker' = Cancel(entry.cancels)
                    /\ entry' = NewEntry
    /\ UNCHANGED <<peer, pulled, intervals, cursor, signal, env, faults>>

(* A mutant of DisconnectPeer: the contexts are left alone.                     *)
DisconnectPeerSilently ==
    /\ manage.pc = "disconnect"
    /\ entry' = NoEntry /\ manage' = Idle
    /\ cursor' \in {NoCursor, cursor}
    /\ UNCHANGED <<peer, pulled, intervals, signal, worker, env, faults>>

(* disconnectPeer: the contexts are cancelled; the cursors are deleted only     *)
(* while they are younger than cursorPruneTimeout.                              *)
DisconnectPeer ==
    /\ manage.pc = "disconnect"
    /\ worker' = Cancel(entry.cancels)
    /\ entry' = NoEntry /\ manage' = Idle
    /\ cursor' \in {NoCursor, cursor}
    /\ UNCHANGED <<peer, pulled, intervals, signal, env, faults>>

-----------------------------------------------------------------------------
(* ClearCursors, called through the debug API: first the cursors and intervals, *)
(* then, under the other lock, syncPeers, whose contexts nobody cancels.        *)
ClearCursors ==
    /\ clears < Clears /\ ~clearing /\ clears' = clears + 1
    /\ clearing' = TRUE /\ cursor' = NoCursor /\ intervals' = {}
    /\ UNCHANGED <<peer, pulled, topo, signal, manage, entry, worker, changes, enabled,
                   missed, faults>>

ClearSyncPeers ==
    /\ clearing /\ clearing' = FALSE
    /\ entry' = NoEntry
    /\ manage' = [manage EXCEPT !.orphan = (@ \/ manage.pc = "cursors")]
    /\ UNCHANGED <<peer, pulled, intervals, cursor, topo, signal, worker, clears, changes,
                   enabled, missed, faults>>

-----------------------------------------------------------------------------
(* The workers                                                                  *)

(* A worker that is not cancelled takes the next interval: the historical one   *)
(* the first gap, up to its cursor.                                             *)
Gap == Min((1 .. MaxId + 1) \ intervals)

(* A mutant of NextInterval: the cursor is not compared with.                   *)
NextIntervalAlways(w) ==
    LET r == worker[w] IN
    /\ r.kind = "hist" /\ r.pc = "next" /\ ~r.cancelled
    /\ Put(w, [r EXCEPT !.pc = "sync", !.from = Gap])
    /\ UNCHANGED <<peer, pulled, intervals, cursor, signal, manage, entry, env, faults>>

NextInterval(w) ==
    LET r == worker[w] IN
    /\ r.kind = "hist" /\ r.pc = "next" /\ ~r.cancelled
    /\ Put(w, IF Gap > r.to THEN NoWorker ELSE [r EXCEPT !.pc = "sync", !.from = Gap])
    /\ UNCHANGED <<peer, pulled, intervals, cursor, signal, manage, entry, env, faults>>

(* The peer's IntervalChunks: the chunks of the interval in the order of their  *)
(* ids, all of them once one at or beyond its end was seen (then the interval   *)
(* is complete, even if it is empty), or, after batchTimeout, those seen.       *)
Offered(r) == {i \in Present : i >= r.from /\ i <= r.to}

MakeOffer(w) ==
    LET r == worker[w] IN
    /\ r.pc = "sync" /\ ~r.cancelled
    /\ \/ /\ \E i \in Present : i >= r.to /\ r.kind = "hist"
          /\ Put(w, [r EXCEPT !.pc = IF Offered(r) = {} THEN "add" ELSE "offered",
                              !.offer = Offered(r), !.top = r.to])
       \/ \E i \in Offered(r) :
             Put(w, [r EXCEPT !.pc = "offered", !.top = i,
                              !.offer = {j \in Offered(r) : j <= i}])
    /\ UNCHANGED <<peer, pulled, intervals, cursor, signal, manage, entry, env, faults>>

(* The iteration fails: the subscription's channel is closed, which is taken    *)
(* for the end of the interval. The end of a live worker's is MaxUint64: it     *)
(* stores the chunks seen until then and returns without an interval.           *)
IterationFails(w) ==
    LET r == worker[w] IN
    /\ IterateFails /\ Fault /\ r.pc = "sync" /\ ~r.cancelled
    /\ \E i \in 0 .. MaxId :
          LET seen == {j \in Offered(r) : j <= i} IN
          IF r.kind = "live"
          THEN /\ Put(w, IF seen = {} THEN NoWorker
                         ELSE [r EXCEPT !.pc = "offered", !.offer = seen, !.top = MaxUint])
               /\ skipped' = skipped
          ELSE /\ Put(w, [r EXCEPT !.pc = IF seen = {} THEN "add" ELSE "offered",
                                   !.offer = seen, !.top = r.to])
               /\ skipped' = skipped \cup (Offered(r) \ seen)
    /\ UNCHANGED <<last, gone, invalid, pulled, intervals, cursor, signal, manage, entry, env>>

(* The order of the chunks in a delivery is that of the offer. A chunk with an  *)
(* invalid stamp is left out, but an error if it is the last.                   *)
Wanted(r) == r.offer \ pulled
Sealed(r) == Wanted(r) = {} \/ Max(Wanted(r)) \notin invalid

(* A mutant of Deliver: the interval is sealed without waiting for the chunks.  *)
DeliverSome(w) ==
    LET r == worker[w] IN
    /\ r.pc = "offered" /\ ~r.cancelled /\ Wanted(r) \subseteq Present
    /\ pulled' \in {pulled, pulled \cup (Wanted(r) \ invalid)}
    /\ Put(w, IF Sealed(r) /\ r.top # MaxUint
              THEN [r EXCEPT !.pc = "add", !.offer = {}] ELSE NoWorker)
    /\ UNCHANGED <<peer, intervals, cursor, signal, manage, entry, env, faults>>

(* Want, processWant, the deliveries and the local Put. processWant fails as a  *)
(* whole when one of the chunks has been evicted since the offer.               *)
Deliver(w) ==
    LET r == worker[w] IN
    /\ r.pc = "offered" /\ ~r.cancelled /\ Wanted(r) \subseteq Present
    /\ pulled' = pulled \cup (Wanted(r) \ invalid)
    /\ Put(w, IF Sealed(r) /\ r.top # MaxUint
              THEN [r EXCEPT !.pc = "add", !.offer = {}] ELSE NoWorker)
    /\ UNCHANGED <<peer, intervals, cursor, signal, manage, entry, env, faults>>

DeliverFails(w) ==
    LET r == worker[w] IN
    /\ r.pc = "offered" /\ ~r.cancelled /\ ~(Wanted(r) \subseteq Present)
    /\ Put(w, NoWorker)
    /\ UNCHANGED <<peer, pulled, intervals, cursor, signal, manage, entry, env, faults>>

(* A failing stream, also in the middle of the deliveries, whose chunks are     *)
(* stored all the same: SyncInterval returns the error and the worker ends.     *)
SyncFails(w) ==
    LET r == worker[w] IN
    /\ r.pc \in {"sync", "offered"} /\ ~r.cancelled /\ Fault
    /\ \E some \in SUBSET ((Wanted(r) \cap Present) \ invalid) : pulled' = pulled \cup some
    /\ Put(w, NoWorker)
    /\ UNCHANGED <<peer, intervals, cursor, signal, manage, entry, env>>

(* The context of the bin is cancelled, or the puller is closed, which cancels  *)
(* the contexts of all: SyncInterval fails, or the loop's test ends the worker. *)
Stop(w) ==
    LET r == worker[w] IN
    /\ r.pc \in {"next", "sync", "offered"} /\ r.cancelled
    /\ Put(w, NoWorker)
    /\ UNCHANGED <<peer, pulled, intervals, cursor, signal, manage, entry, env, faults>>

(* addPeerInterval: the intervals are read, and written back with [from, top].  *)
ReadIntervals(w) ==
    LET r == worker[w] IN
    /\ r.pc = "add"
    /\ Put(w, [r EXCEPT !.pc = "write", !.seen = intervals])
    /\ UNCHANGED <<peer, pulled, intervals, cursor, signal, manage, entry, env, faults>>

WriteIntervals(w) ==
    LET r == worker[w] IN
    /\ r.pc = "write"
    /\ intervals' = r.seen \cup (r.from .. r.top)
    /\ Put(w, IF r.kind = "hist"
              THEN [r EXCEPT !.pc = "next", !.seen = {}, !.from = 0, !.top = 0]
              ELSE [r EXCEPT !.pc = "sync", !.seen = {}, !.from = r.top + 1, !.top = 0])
    /\ UNCHANGED <<peer, pulled, cursor, signal, manage, entry, env, faults>>

-----------------------------------------------------------------------------
(* Everything but the interval store, the local store and the peer is lost:     *)
(* the process ends and is started again, with the switch as it is configured.  *)
Restarted ==
    /\ cursor' = NoCursor /\ signal' = TRUE /\ manage' = Idle /\ entry' = NoEntry
    /\ worker' = [w \in Worker |-> NoWorker] /\ clearing' = FALSE
    /\ enabled' \in BOOLEAN /\ missed' = FALSE
    /\ UNCHANGED <<peer, pulled, intervals, topo, clears, changes>>

Restart == Fault /\ Restarted

(* The manage goroutine takes the syncPeer out of the map, from which           *)
(* ClearCursors has deleted it, and locks it: a nil dereference.                *)
NilSyncPeer ==
    /\ manage.pc \in {"syncPeer", "recalc"} /\ ~entry.present
    /\ Restarted
    /\ faults' = faults

Manage == \/ OnTopologyChange \/ SyncPeer \/ GetCursors \/ StartBin \/ Recalc
          \/ DisconnectPeer \/ NilSyncPeer

Work(w) ==
    \/ NextInterval(w) \/ Deliver(w) \/ DeliverFails(w) \/ Stop(w)
    \/ ReadIntervals(w) \/ WriteIntervals(w)

Next ==
    \/ PeerStores \/ \E i \in Id : PeerEvicts(i)
    \/ \E t \in Changes : TopologyChanges(t)
    \/ \E b \in BOOLEAN : SetEnabled(b)
    \/ Manage \/ GetCursorsFails
    \/ ClearCursors \/ ClearSyncPeers
    \/ \E w \in Worker : Work(w) \/ MakeOffer(w) \/ IterationFails(w) \/ SyncFails(w)
    \/ Restart

Spec == Init /\ [][Next]_vars

(* The goroutines are scheduled and the peer answers.                           *)
FairSpec ==
    /\ Spec /\ WF_vars(Manage)
    /\ \A w \in Worker : WF_vars(Work(w)) /\ WF_vars(MakeOffer(w))

-----------------------------------------------------------------------------
TypeOK ==
    /\ last \in 0 .. MaxId /\ gone \subseteq Id /\ invalid \in InitInvalid
    /\ skipped \subseteq Id /\ pulled \subseteq Id /\ intervals \subseteq Id
    /\ cursor \in [known : BOOLEAN, id : 0 .. MaxId]
    /\ topo \in {"wanted", "binOut", "peerOut"} /\ signal \in BOOLEAN
    /\ manage.pc \in {"idle", "syncPeer", "cursors", "recalc", "disconnect"}
    /\ entry \in [present : BOOLEAN, bin : BOOLEAN, cancels : SUBSET Worker]
    /\ worker \in [Worker -> WorkerState]
    /\ \A w \in Worker : worker[w].pc \in {"sync", "offered", "add", "write"} =>
          worker[w].from >= 1 /\ (worker[w].kind = "hist" => worker[w].from <= worker[w].to)
    /\ enabled \in BOOLEAN /\ missed \in BOOLEAN
    /\ clearing \in BOOLEAN /\ clears \in 0 .. Clears /\ changes \in 0 .. MaxChanges
    /\ faults \in 0 .. MaxFaults

(* An id is in the persisted intervals, and so never asked for again, only if   *)
(* its chunk was pulled, or the peer evicted it, or its stamp is not valid, or  *)
(* the peer's iteration failed before it; whichever workers, old and new,       *)
(* update the intervals at the same time, and wherever they are cancelled or    *)
(* the process is restarted.                                                    *)
IntervalsCovered == intervals \subseteq pulled \cup gone \cup invalid \cup skipped

(* Without ClearCursors a peer that is not being synced has no worker that will *)
(* go on.                                                                       *)
NoStrayWorkers ==
    clears = 0 /\ manage.pc = "idle" =>
        \A w \in Worker : Alive(w) => worker[w].cancelled \/ w \in entry.cancels

(* Unless something fails (a peer whose own switch is off resets the stream,    *)
(* which is a failure here), cursors are cleared or a stamp is not valid: when  *)
(* the bin stays wanted every chunk of the peer arrives, though cursors may be  *)
(* stale, workers of earlier sessions still at work, updates of the intervals   *)
(* lost and the switch set to and fro. The exception is a change of the         *)
(* topology that manage takes while the switch is off: it is lost, and setting  *)
(* the switch again does not make up for it; only a later change does.          *)
EventuallyPulled ==
    <>[](topo = "wanted" /\ ~missed) =>
        []<>(1 .. last \subseteq pulled \/ faults > 0 \/ clears > 0 \/ invalid # {})

-----------------------------------------------------------------------------
(* "end of interval reached. no more chunks so interval is complete"            *)
(* (pullstorage.go:142): every chunk of the interval was offered. The           *)
(* subscription's channel is closed in the same way when its iteration fails.   *)
IntervalIsComplete == intervals \subseteq pulled \cup gone \cup invalid
=============================================================================
