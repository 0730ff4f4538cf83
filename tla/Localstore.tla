----------------------------- MODULE Localstore -----------------------------
(* The local store (pkg/localstore) over sharky's slots (pkg/sharky) for the    *)
(* chunks of one postage batch: the modes of Put, Set and Get as updates of     *)
(* the indexes in one LevelDB batch, garbage collection in two phases, eviction *)
(* from the reserve, and a restart that recovers the slots from the index.      *)
EXTENDS Integers, FiniteSets, Sequences, SequencesExt, FiniteSetsExt

CONSTANTS
    Chunk,          \* chunk addresses, as numbers: 1, 2, ...
    Index,          \* the indexes stamps may have; 0 is one of them
    IndexOf,        \* the index in the stamp of a chunk
    TimeOf,         \* the timestamp in the stamp of a chunk
    PO,             \* the proximity order of a chunk
    MaxPO,
    Immutable,      \* whether the batch is immutable
    Slot,           \* bound: the slots of the shard
    cacheCapacity, gcTarget, reserveCapacity, reserveEvictionTarget,
    PutModes,       \* bound: the modes of Put
    MaxCalls,       \* bound: calls of Put and Get, and of Set for pins
    MaxFaults       \* bound: restarts, expiries, and calls that are rare

None == 0

ASSUME BoundAssumption ==
    /\ Chunk \subseteq Nat \ {0} /\ IsFiniteSet(Chunk)
    /\ Slot \subseteq Nat \ {0} /\ IsFiniteSet(Slot)
    /\ Index \subseteq Nat /\ 0 \in Index
    /\ IndexOf \in [Chunk -> Index] /\ TimeOf \in [Chunk -> Nat]
    /\ MaxPO \in Nat /\ PO \in [Chunk -> 0 .. MaxPO] /\ Immutable \in BOOLEAN
    /\ {cacheCapacity, gcTarget, reserveCapacity, reserveEvictionTarget} \subseteq Nat
    /\ {MaxCalls, MaxFaults} \subseteq Nat

VARIABLES
    db,         \* what LevelDB holds
    file,       \* the shard's file: the chunk whose data a slot holds
    free,       \* the free slots
    gc,         \* the worker that collects garbage
    evict,      \* UnreserveBatch, called by the other worker or the batch store
    reader,     \* a Get with ModeGetRequest
    radius,     \* the batch's storage radius in the batch store, MaxPO + 1: expired
    userPins,   \* the chunks pinned through the API
    past,       \* what happened: "restart", or "race": an update met another's
    calls, faults

vars == <<db, file, free, gc, evict, reader, radius, userPins, past, calls, faults>>

(* retrievalDataIndex is loc (its keys are those of postageChunksIndex and,     *)
(* cached chunks aside, of pullIndex), retrievalAccessIndex is access. An entry *)
(* of gcIndex has a value with the stamp's index, and a key with the access     *)
(* time: keyed is whether that is the one of retrievalAccessIndex. The changes  *)
(* of the two sizes that a batch is to make are in gcDelta and reserveDelta.    *)
NewDB ==
    [ loc |-> [c \in Chunk |-> None], access |-> {}, push |-> {}, gc |-> <<>>,
      pin |-> [c \in Chunk |-> 0], index |-> [i \in Index |-> None],
      radius |-> [known |-> FALSE, po |-> 0], gcSize |-> 0, reserveSize |-> 0 ]

Resting == [pc |-> "idle", trigger |-> FALSE, candidates |-> <<>>, dirty |-> {}]
NoCall == [pc |-> "idle", trigger |-> FALSE, locked |-> FALSE, bin |-> 0, to |-> 0,
           start |-> 0, evicted |-> 0]
NoReader == [pc |-> "idle", chunk |-> None, slot |-> None, data |-> None, removed |-> FALSE]

Init ==
    /\ db = NewDB /\ file = [s \in Slot |-> None] /\ free = Slot
    /\ gc = Resting /\ evict = [call |-> NoCall, read |-> <<>>] /\ reader = NoReader
    /\ radius = 0 /\ userPins = {} /\ past = {} /\ calls = 0 /\ faults = 0

Call == calls < MaxCalls /\ calls' = calls + 1
Fault == faults < MaxFaults /\ faults' = faults + 1

Stored(d, c) == d.loc[c] # None
InGC(d, c) == \E i \in DOMAIN d.gc : d.gc[i].chunk = c /\ d.gc[i].keyed
GCEntry(c, i) == [chunk |-> c, index |-> i, keyed |-> TRUE]

(* The entries of a sequence at some of its places, in their order.             *)
Entries(s, places) ==
    [ j \in 1 .. Cardinality(places) |->
        s[CHOOSE i \in places : Cardinality({k \in places : k <= i}) = j] ]

DeleteGC(b, c) ==
    [b EXCEPT !.gc = Entries(b.gc, {i \in DOMAIN b.gc : b.gc[i].chunk # c \/ ~b.gc[i].keyed})]

-----------------------------------------------------------------------------
(* A batch t: the database b it makes of the one d that was read, the shard's   *)
(* file with the slots it wrote, the slots to release and the changes of sizes. *)
Batch(d) == [d |-> d, b |-> d, file |-> file, wrote |-> {}, release |-> {},
             gc |-> 0, reserve |-> 0, failed |-> FALSE]

(* Mutant of Plus: the size may become negative.                                *)
PlusUnchecked(n, change) == n + change

(* A change that would make a size negative is dropped.                         *)
Plus(n, change) == IF n + change < 0 THEN n ELSE n + change

(* incGCSizeInBatch, incReserveSizeInBatch: a size at its capacity is a trigger.*)
Sized(t) == [t.b EXCEPT !.gcSize = Plus(t.d.gcSize, t.gc),
                        !.reserveSize = Plus(t.d.reserveSize, t.reserve)]
(* Mutant: only a size above the capacity is a trigger.                         *)
GCTriggerAbove(t) == t.gc # 0 /\ t.d.gcSize + t.gc > cacheCapacity

GCTrigger(t) == t.gc # 0 /\ t.d.gcSize + t.gc >= cacheCapacity
EvictTrigger(t) == t.reserve # 0 /\ t.d.reserveSize + t.reserve >= reserveCapacity

(* setRemove, with check.                                                       *)
SetRemove(t, c) ==
    LET b == [t.b EXCEPT !.loc[c] = None, !.access = @ \ {c}, !.push = @ \ {c},
                         !.index[IndexOf[c]] = None]
        r == t.release \cup {t.d.loc[c]} IN
    IF InGC(t.d, c)
    THEN [t EXCEPT !.b = DeleteGC(b, c), !.gc = @ - 1, !.release = r]
    ELSE [t EXCEPT !.b = [b EXCEPT !.pin[c] = 0], !.release = r]

(* Mutant: a cached chunk that is pinned stays in the gc index.                 *)
SetPinOnly(t, c) == [t EXCEPT !.b.pin[c] = t.d.pin[c] + 1]

(* setPin: a chunk with an access time is taken to be in the gc index.          *)
SetPin(t, c) ==
    IF t.d.pin[c] = 0 /\ c \in t.d.access
    THEN [t EXCEPT !.b = [DeleteGC(t.b, c) EXCEPT !.pin[c] = 1], !.gc = @ - 1]
    ELSE [t EXCEPT !.b.pin[c] = t.d.pin[c] + 1]

(* preserveOrCache: into the reserve, which is a pin, or the cache.             *)
PreserveOrCache(t, c, within, forcePin, forceCache) ==
    IF ~forceCache /\ (within \/ forcePin)
    THEN [SetPin(t, c) EXCEPT !.reserve = IF forcePin THEN t.reserve ELSE t.reserve + 1]
    ELSE IF t.d.pin[c] > 0 \/ InGC(t.d, c)
    THEN t
    ELSE [t EXCEPT !.b.gc = Append(@, GCEntry(c, IndexOf[c])), !.gc = @ + 1]

(* Mutant: what is unpinned is not counted.                                     *)
SetUnpinUncounted(t, c) ==
    IF t.d.pin[c] > 1 \/ c \in t.d.push
    THEN [t EXCEPT !.b.pin[c] = @ - 1]
    ELSE [t EXCEPT !.b = [t.b EXCEPT !.pin[c] = 0, !.access = @ \cup {c},
                                     !.gc = Append(@, GCEntry(c, 0))]]

(* setUnpin of a pinned chunk. The gc entry's value gets no stamp index, which  *)
(* is index 0.                                                                  *)
SetUnpin(t, c) ==
    IF t.d.pin[c] > 1
    THEN [t EXCEPT !.b.pin[c] = @ - 1]
    ELSE IF c \in t.d.push
    THEN [t EXCEPT !.b.pin[c] = 0]
    ELSE [t EXCEPT !.b = [t.b EXCEPT !.pin[c] = 0, !.access = @ \cup {c},
                                     !.gc = Append(@, GCEntry(c, 0))],
                   !.gc = @ + 1]

-----------------------------------------------------------------------------
(* Put. A stored chunk with the same stamp index and an earlier timestamp is    *)
(* replaced; with a later one the new chunk is dropped, after its data has been *)
(* written; uploadPin pins it all the same. Only putRequest counts what leaves  *)
(* the cache thereby.                                                           *)
Requests == {"request", "requestPin", "requestCache"}
Uploads == {"upload", "uploadPin"}

Replace(t, c, p, mode) ==
    LET r == SetRemove(t, p) IN
    [ r EXCEPT
        !.gc = IF mode \in Requests THEN r.gc ELSE t.gc,
        !.reserve = IF mode \notin Uploads /\ t.d.radius.known /\ PO[c] >= t.d.radius.po
                    THEN r.reserve - 1 ELSE r.reserve ]

Add(t, c, s, mode, within) ==
    LET b == [t EXCEPT !.b.loc[c] = s, !.b.index[IndexOf[c]] = c] IN
    IF mode \in Uploads
    THEN LET u == [b EXCEPT !.b.push = @ \cup {c}] IN
         IF mode = "uploadPin" THEN SetPin(u, c) ELSE u
    ELSE PreserveOrCache([b EXCEPT !.b.access = @ \cup {c}], c, within,
                         mode = "requestPin", mode = "requestCache")

(* Mutant: the chunks of a page are written to the same slot.                   *)
PutChunkSameSlot(t, c, mode, r) ==
    LET s == Min(free) IN
    IF t.failed \/ Stored(t.d, c) \/ t.d.index[IndexOf[c]] # None
    THEN t
    ELSE Add([t EXCEPT !.file[s] = c, !.wrote = @ \cup {s}], c, s, mode, PO[c] >= r)

PutChunk(t, c, mode, r) ==
    LET p == t.d.index[IndexOf[c]]
        s == Min(free \ t.wrote)
        w == [t EXCEPT !.file[s] = c, !.wrote = @ \cup {s}] IN
    IF t.failed \/ Stored(t.d, c)
    THEN t
    ELSE IF p = None
    THEN Add(w, c, s, mode, PO[c] >= r)
    ELSE IF Immutable \/ (TimeOf[c] > TimeOf[p] /\ ~Stored(t.d, p))
    THEN [w EXCEPT !.failed = TRUE]
    ELSE IF TimeOf[c] <= TimeOf[p]
    THEN IF mode = "uploadPin" THEN SetPin(w, c) ELSE w
    ELSE Add(Replace(w, c, p, mode), c, s, mode, PO[c] >= r)

(* batchMu is free: evictReserve holds it while it calls UnreserveBatch.        *)
Unlocked == ~evict.call.locked

(* WriteBatch, the release of slots, the triggers, the addresses noted while    *)
(* garbage is collected (and, in the model only, what a Get or a batch that     *)
(* has read the database does not know). A slot that two chunks of a page both  *)
(* release, having replaced the same chunk, is released once here.              *)
Write(t, cs) ==
    /\ db' = IF t.failed THEN db ELSE Sized(t)
    /\ file' = t.file
    /\ free' = IF t.failed THEN free ELSE (free \ t.wrote) \cup t.release
    /\ gc' = [gc EXCEPT !.dirty = IF gc.pc = "collect" THEN @ \cup cs ELSE @,
                        !.trigger = @ \/ (~t.failed /\ GCTrigger(t))]
    /\ evict' = [evict EXCEPT !.call.trigger = @ \/ (~t.failed /\ EvictTrigger(t))]
    /\ reader' = [reader EXCEPT !.removed = @ \/ (reader.slot \in free')]
    /\ past' = IF evict.call.pc = "write" THEN past \cup {"race"} ELSE past

(* Put of one chunk: if it is stored that is answered without the lock, unless  *)
(* it is to be pinned. Pull sync puts a page, of two chunks here. The radius is *)
(* that of the batch when the stamp was validated, which is earlier than now.   *)
Put(mode, c) ==
    /\ Call
    /\ mode \in {"requestPin", "uploadPin"} \/ ~Stored(db, c)
    /\ Unlocked /\ free # {}
    /\ \E r \in 0 .. MaxPO : r <= radius /\ Write(PutChunk(Batch(db), c, mode, r), {c})
    /\ UNCHANGED <<radius, userPins, faults>>

PutPage(c, d) ==
    /\ Call /\ Unlocked /\ Cardinality(free) >= 2
    /\ \E r \in 0 .. MaxPO :
          r <= radius /\ Write(PutChunk(PutChunk(Batch(db), c, "sync", r), d, "sync", r), {c, d})
    /\ UNCHANGED <<radius, userPins, faults>>

Puts ==
    \/ \E m \in PutModes, c \in Chunk : Put(m, c)
    \/ "sync" \in PutModes /\ \E c, d \in Chunk : c # d /\ PutPage(c, d)

-----------------------------------------------------------------------------
(* Set, one chunk at a time. The pusher syncs what is in the push index (and,   *)
(* as a fault, once more); pins come and go through the pinning service.        *)
Changed(t, c) ==
    /\ Unlocked /\ Write(t, {c}) /\ UNCHANGED radius

(* setSync: the item that is given to preserveOrCache has no radius, which is 0.*)
SetSync(c) ==
    LET t == Batch([db EXCEPT !.push = @ \ {c}]) IN
    /\ (c \in db.push /\ UNCHANGED faults) \/ Fault
    /\ Changed(IF Stored(db, c)
               THEN PreserveOrCache([t EXCEPT !.b.access = @ \cup {c}], c, TRUE, FALSE, FALSE)
               ELSE t, c)
    /\ UNCHANGED <<userPins, calls>>

RemoveChunk(c) ==
    /\ Stored(db, c) /\ Fault
    /\ Changed(SetRemove(Batch(db), c), c)
    /\ UNCHANGED <<userPins, calls>>

Pin(c) ==
    /\ Stored(db, c) /\ c \notin userPins /\ Call /\ userPins' = userPins \cup {c}
    /\ Changed(SetPin(Batch(db), c), c)
    /\ UNCHANGED faults

(* An error, and no change, if the chunk has no pin or is not stored.           *)
Unpin(c) ==
    /\ c \in userPins /\ Call /\ userPins' = userPins \ {c}
    /\ Changed(IF db.pin[c] > 0 /\ Stored(db, c) THEN SetUnpin(Batch(db), c) ELSE Batch(db), c)
    /\ UNCHANGED faults

-----------------------------------------------------------------------------
(* collectGarbage: the candidates are read without the lock, and those whose    *)
(* address was noted in the meantime are passed over under it.                  *)
CollectStart ==
    /\ Unlocked /\ gc.pc = "idle" /\ gc.trigger
    /\ gc' = IF db.gcSize = gcTarget
             THEN Resting
             ELSE [Resting EXCEPT !.pc = "collect", !.candidates = db.gc]
    /\ UNCHANGED <<db, file, free, evict, reader, radius, userPins, past, calls, faults>>

(* Mutant: addresses that were noted are collected all the same.                *)
CleanOrDirty == DOMAIN gc.candidates

Clean == {i \in DOMAIN gc.candidates : gc.candidates[i].chunk \notin gc.dirty}

(* The first of them, until the size would be the target; if all are taken the  *)
(* target may not be reached, and garbage is collected once more.               *)
Collected == {i \in Clean : Cardinality({k \in Clean : k <= i}) + gcTarget <= db.gcSize}

CollectCommit ==
    LET items == {gc.candidates[i] : i \in Collected}
        chunks == {e.chunk : e \in items}
        failed == \E c \in chunks : ~Stored(db, c)
        left == {i \in DOMAIN db.gc : db.gc[i] \notin items} IN
    /\ Unlocked /\ gc.pc = "collect"
    /\ gc' = [Resting EXCEPT !.trigger = gc.trigger \/ failed \/ Collected = Clean]
    /\ db' = IF failed THEN db ELSE
             [db EXCEPT !.loc = [c \in Chunk |-> IF c \in chunks THEN None ELSE db.loc[c]],
                        !.access = @ \ chunks, !.push = @ \ chunks,
                        !.index = [x \in Index |-> IF \E e \in items : e.index = x
                                                   THEN None ELSE db.index[x]],
                        !.gc = Entries(db.gc, left), !.gcSize = @ - Cardinality(Collected)]
    /\ free' = IF failed THEN free ELSE free \cup {db.loc[c] : c \in chunks}
    /\ reader' = [reader EXCEPT !.removed = @ \/ reader.slot \in free']
    /\ past' = IF evict.call.pc = "write" THEN past \cup {"race"} ELSE past
    /\ UNCHANGED <<file, evict, radius, userPins, calls, faults>>

-----------------------------------------------------------------------------
(* UnreserveBatch unpins the batch's chunks bin by bin, from the radius of the  *)
(* last call: by evictReserve up to the batch's storage radius, under the lock, *)
(* or by the batch store when the batch expires, up to MaxPO, without it.       *)
Unreserve(locked, to, start) ==
    evict' = [evict EXCEPT !.call = [NoCall EXCEPT
        !.pc = "unpin", !.locked = locked, !.to = to, !.start = start,
        !.bin = IF db.radius.known THEN db.radius.po ELSE 0,
        !.trigger = evict.call.trigger /\ ~locked]]

(* Whether the batch store has the batch's turn depends on other batches.       *)
EvictReserve ==
    /\ evict.call.pc = "idle" /\ evict.call.trigger
    /\ IF db.reserveSize > reserveEvictionTarget /\ radius <= MaxPO
       THEN Unreserve(TRUE, radius, db.reserveSize) \/ evict' = [evict EXCEPT !.call.trigger = FALSE]
       ELSE evict' = [evict EXCEPT !.call.trigger = FALSE]
    /\ UNCHANGED <<db, file, free, gc, reader, radius, userPins, past, calls, faults>>

Expire ==
    /\ evict.call.pc = "idle" /\ radius <= MaxPO /\ Fault
    /\ Unreserve(FALSE, MaxPO + 1, 0) /\ radius' = MaxPO + 1
    /\ UNCHANGED <<db, file, free, gc, reader, userPins, past, calls>>

(* unpinBatchChunks of one bin, as a batch made from what is read now: setUnpin *)
(* of each chunk of the bin that is pinned.                                     *)
UnpinBatchChunks(bin) ==
    LET pinned == {c \in Chunk : PO[c] = bin /\ Stored(db, c) /\ db.pin[c] > 0}
        cached == {c \in pinned : db.pin[c] = 1 /\ c \notin db.push}
        b == [db EXCEPT !.pin = [c \in Chunk |-> IF c \in pinned THEN db.pin[c] - 1 ELSE db.pin[c]],
                        !.access = @ \cup cached,
                        !.gc = @ \o SetToSeq({GCEntry(c, 0) : c \in cached})] IN
    [Batch(db) EXCEPT !.b = b, !.gc = Cardinality(cached), !.reserve = 0 - Cardinality(pinned)]

(* The batch changes the keys it has in the database as it is when it is        *)
(* written; the two sizes are those it has read.                                *)
Merge(t) ==
    LET old == ToSet(t.d.gc) \cup ToSet(db.gc)
        new == {i \in DOMAIN t.b.gc : t.b.gc[i] \notin old} IN
    [ db EXCEPT
        !.pin = [c \in Chunk |-> IF t.b.pin[c] # t.d.pin[c] THEN t.b.pin[c] ELSE db.pin[c]],
        !.access = @ \cup (t.b.access \ t.d.access),
        !.gc = @ \o Entries(t.b.gc, new),
        !.gcSize = IF t.gc > 0 THEN Plus(t.d.gcSize, t.gc) ELSE db.gcSize,
        !.reserveSize = IF t.reserve # 0 THEN Plus(t.d.reserveSize, t.reserve)
                                         ELSE db.reserveSize ]

Unpinned(t) ==
    /\ db' = Merge(t)
    /\ gc' = [gc EXCEPT !.trigger = @ \/ GCTrigger(t)]
    /\ evict' = [call |-> [evict.call EXCEPT !.pc = "radius", !.evicted = @ - t.reserve,
                                              !.trigger = @ \/ EvictTrigger(t)],
                  read |-> <<>>]

UnpinRead ==
    LET t == UnpinBatchChunks(evict.call.bin) IN
    /\ evict.call.pc = "unpin" /\ evict.call.bin < evict.call.to
    /\ IF evict.call.locked
       THEN Unpinned(t)
       ELSE evict' = [call |-> [evict.call EXCEPT !.pc = "write"], read |-> t] /\ UNCHANGED <<db, gc>>
    /\ UNCHANGED <<file, free, reader, radius, userPins, past, calls, faults>>

UnpinWrite ==
    /\ evict.call.pc = "write" /\ Unpinned(evict.read)
    /\ UNCHANGED <<file, free, reader, radius, userPins, past, calls, faults>>

(* After a bin the radius that is kept is the bin's, none after the last bin.   *)
BinDone ==
    LET bin == evict.call.bin IN
    /\ evict.call.pc = "radius"
    /\ db' = [db EXCEPT !.radius = IF bin = MaxPO THEN NewDB.radius ELSE [known |-> TRUE, po |-> bin]]
    /\ evict' = [evict EXCEPT !.call.pc = "unpin", !.call.bin = @ + 1]
    /\ UNCHANGED <<file, free, gc, reader, radius, userPins, past, calls, faults>>

(* The end of UnreserveBatch and of what called it. Sizes are unsigned, so more *)
(* evicted than there was is not done.                                          *)
UnreserveDone ==
    LET call == evict.call
        done == call.evicted <= call.start /\ call.start - call.evicted <= reserveEvictionTarget IN
    /\ call.pc = "unpin" /\ call.bin >= call.to
    /\ db' = IF call.to = MaxPO + 1 THEN db
             ELSE [db EXCEPT !.radius = [known |-> TRUE, po |-> call.to]]
    /\ gc' = [gc EXCEPT !.trigger = @ \/ db.gcSize >= cacheCapacity]
    /\ radius' = IF call.locked THEN radius + 1 ELSE radius
    /\ evict' = [evict EXCEPT !.call = [NoCall EXCEPT
                    !.trigger = call.trigger \/ (call.locked /\ ~done)]]
    /\ UNCHANGED <<file, free, reader, userPins, past, calls, faults>>

-----------------------------------------------------------------------------
(* Get with ModeGetRequest: location and data are read without a lock; then     *)
(* updateGC notes the access in the background.                                 *)
GetLocation(c) ==
    /\ reader.pc = "idle" /\ Call /\ Stored(db, c)
    /\ reader' = [NoReader EXCEPT !.pc = "located", !.chunk = c, !.slot = db.loc[c]]
    /\ UNCHANGED <<db, file, free, gc, evict, radius, userPins, past, faults>>

GetData ==
    /\ reader.pc = "located"
    /\ reader' = [reader EXCEPT !.pc = "read", !.data = file[reader.slot]]
    /\ UNCHANGED <<db, file, free, gc, evict, radius, userPins, past, calls, faults>>

(* updateGC moves a cached chunk to the end of the gc index. If the chunk was   *)
(* removed and put again, its bin id is another one: the entry is not found but *)
(* the access time, which is part of its key, is changed.                       *)
UpdateGC ==
    LET c == reader.chunk
        stale == reader.removed /\ InGC(db, c) IN
    /\ reader.pc = "read" /\ Unlocked
    /\ reader' = NoReader
    /\ gc' = [gc EXCEPT !.dirty = IF gc.pc = "collect" THEN @ \cup {c} ELSE @]
    /\ db' = IF c \notin db.access \/ ~InGC(db, c)
             THEN db
             ELSE IF stale
             THEN [db EXCEPT !.gc = [i \in DOMAIN db.gc |->
                      IF db.gc[i].chunk = c THEN [db.gc[i] EXCEPT !.keyed = FALSE] ELSE db.gc[i]]]
             ELSE [DeleteGC(db, c) EXCEPT !.gc = Append(@, GCEntry(c, IndexOf[c]))]
    /\ past' = IF stale \/ evict.call.pc = "write" THEN past \cup {"race"} ELSE past
    /\ UNCHANGED <<file, free, evict, radius, userPins, calls, faults>>

(* Mutant: the recovery goes through the chunks that have an access time.       *)
RestartAccessed ==
    /\ Fault
    /\ free' = {s \in Slot : \A c \in db.access : db.loc[c] # s}
    /\ gc' = Resting /\ evict' = [call |-> NoCall, read |-> <<>>] /\ reader' = NoReader
    /\ UNCHANGED <<db, file, radius, userPins, calls, past>>

(* A crash and a restart: safeInit finds the dirty file, and the slots in use   *)
(* are those that retrievalDataIndex names.                                     *)
Restart ==
    /\ Fault
    /\ free' = {s \in Slot : \A c \in Chunk : db.loc[c] # s}
    /\ gc' = Resting /\ evict' = [call |-> NoCall, read |-> <<>>] /\ reader' = NoReader
    /\ past' = past \cup {"restart"}
    /\ UNCHANGED <<db, file, radius, userPins, calls>>

Next ==
    \/ Puts
    \/ \E c \in Chunk : SetSync(c) \/ RemoveChunk(c) \/ Pin(c) \/ Unpin(c) \/ GetLocation(c)
    \/ CollectStart \/ CollectCommit
    \/ EvictReserve \/ Expire \/ UnpinRead \/ UnpinWrite \/ BinDone \/ UnreserveDone
    \/ GetData \/ UpdateGC \/ Restart

Spec == Init /\ [][Next]_vars

(* The two workers and the goroutines of Get and of the batch store go on.      *)
Fairness ==
    /\ WF_vars(CollectStart) /\ WF_vars(CollectCommit) /\ WF_vars(EvictReserve)
    /\ WF_vars(UnpinRead) /\ WF_vars(UnpinWrite) /\ WF_vars(BinDone) /\ WF_vars(UnreserveDone)

FairSpec == Spec /\ Fairness

-----------------------------------------------------------------------------
(* Every index and variable holds values of its type.                           *)
TypeOK ==
    /\ db.loc \in [Chunk -> Slot \cup {None}] /\ db.access \subseteq Chunk /\ db.push \subseteq Chunk
    /\ db.pin \in [Chunk -> Nat] /\ db.index \in [Index -> Chunk \cup {None}]
    /\ db.radius.po \in 0 .. MaxPO /\ {db.gcSize, db.reserveSize} \subseteq Nat
    /\ ToSet(db.gc) \subseteq [chunk : Chunk, index : Index, keyed : BOOLEAN]
    /\ file \in [Slot -> Chunk \cup {None}] /\ free \subseteq Slot
    /\ gc.pc \in {"idle", "collect"} /\ gc.dirty \subseteq Chunk
    /\ evict.call.pc \in {"idle", "unpin", "write", "radius"} /\ evict.call.bin \in 0 .. MaxPO + 1
    /\ reader.pc \in {"idle", "located", "read"} /\ radius \in 0 .. MaxPO + 1
    /\ userPins \subseteq Chunk /\ past \subseteq {"race", "restart"}

(* A chunk in the data index has its data in a slot of its own that no writer   *)
(* will be given, through replacements, garbage collection and restarts (a slot *)
(* that one batch releases twice is taken to be released once).                 *)
DataIsThere ==
    \A c \in Chunk : Stored(db, c) =>
        /\ file[db.loc[c]] = c /\ db.loc[c] \notin free
        /\ \A d \in Chunk \ {c} : db.loc[d] # db.loc[c]

(* Unless an update raced another: what garbage collection may take is stored,  *)
(* pinned by nobody, and found under its access time.                           *)
CacheIsUnpinned ==
    "race" \notin past =>
        \A i \in DOMAIN db.gc :
            Stored(db, db.gc[i].chunk) /\ db.pin[db.gc[i].chunk] = 0 /\ db.gc[i].keyed

(* Garbage collection removes no chunk that is pinned when it commits, also one *)
(* that was pinned after it had become a candidate.                             *)
CollectKeepsPinned ==
    [][CollectCommit /\ "race" \notin past =>
          \A c \in Chunk : Stored(db, c) /\ db.pin[c] > 0 => Stored(db', c)]_vars

(* The cache is never larger than gcSize says: what garbage collection goes by. *)
GCSizeCoversCache == "race" \notin past => db.gcSize >= Len(db.gc)

(* A Get during which its chunk is not removed returns the chunk's data.        *)
GetReturnsData == reader.pc = "read" /\ ~reader.removed => reader.data = reader.chunk

(* A cache at its capacity shrinks to the target, unless the size was counted   *)
(* wrong, an update raced, or a crash lost the trigger.                         *)
CacheShrinks ==
    (db.gcSize >= cacheCapacity) ~>
        (db.gcSize <= gcTarget \/ db.gcSize > Len(db.gc) \/ past # {})

-----------------------------------------------------------------------------
(* "Put stores Chunks to database"; a chunk "found with the same postage stamp  *)
(* index" is replaced "only if timestamp is later" (mode_put.go): so a chunk    *)
(* with the latest timestamp of those stored with its index is then stored.     *)
PutStores ==
    [][\A c \in Chunk :
          /\ \E m \in PutModes : Put(m, c)
          /\ ~Immutable
          /\ \A d \in Chunk \ {c} : Stored(db, d) /\ IndexOf[d] = IndexOf[c] => TimeOf[d] < TimeOf[c]
          => Stored(db', c)]_vars
=============================================================================
