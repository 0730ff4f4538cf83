-------------------------------- MODULE Snips --------------------------------
(* The SNIPS protocol of pkg/snips: how two neighbours find out which chunks of *)
(* their common neighbourhood one of them lacks, and how these are uploaded.    *)
(*                                                                              *)
(*   creator n                              receiver m                          *)
(*   CreateProofForMyChunks, CreateMPHF                                         *)
(*   SendProof ----------- SignedProof ---> handlerIncomingProof                *)
(*   handlerIncomingMaintain <-- Maintain - RetrieveMissingChunks               *)
(*   uploadMissingChunks --- Delivery ----> pushsync handler (snips stream)     *)
(*                       <-- Receipt ------                                     *)
(*   handlerIncomingMaintain - UploadDone -> RetrieveMissingChunks returns      *)
(*   handlerIncomingRequest <-- Request --- handlerIncomingProof                *)
(*                                                                              *)
(* A chunk is a number, its address; the order of addresses is that of numbers. *)
(* A chunk proof (the hash of nonce and data) is as good as the chunk itself.   *)
EXTENDS Naturals, Integers, Sequences, FiniteSets

CONSTANTS
    Node,               \* the peers
    Chunk,              \* chunk addresses, a finite set of numbers
    Nonce,              \* the nonces proofs are created for
    Neighbor,           \* Neighbor[n]: the connected peers within n's own depth
    Radius,             \* Radius[n]: the chunks within n's neighbourhood depth
    InitStores,         \* the chunk stores the peers may start with
    ForeignHits,        \* may an MPHF give a value to a chunk it was not built for
    concurrentMaintain, \* capacity of semmaintain
    concurrentPushes,   \* capacity of sem
    MaxProofs,          \* bound: proofs created in a behaviour
    MaxTriggers,        \* bound: proofs a peer starts by itself for one nonce
    MaxFaults           \* bound: crashes, losses, evictions and option changes

ASSUME ChunkAssumption == IsFiniteSet(Chunk) /\ Chunk \subseteq Nat
ASSUME NeighborAssumption ==
    /\ Neighbor \in [Node -> SUBSET Node]
    /\ \A n \in Node : n \notin Neighbor[n]
ASSUME RadiusAssumption == Radius \in [Node -> SUBSET Chunk]
ASSUME StoresAssumption == InitStores \subseteq [Node -> SUBSET Chunk]
ASSUME ForeignAssumption == ForeignHits \in BOOLEAN
ASSUME BoundAssumption ==
    /\ concurrentMaintain \in Nat \ {0} /\ concurrentPushes \in Nat \ {0}
    /\ MaxProofs \in Nat /\ MaxTriggers \in Nat /\ MaxFaults \in Nat

VARIABLES
    store,           \* store[n]: the chunks in n's localstore
    enabled,         \* enabled[n]: Options.Enabled of n's service
    mapValToChunkId, \* [n][nonce]: value -> chunk; empty when there is no proof
    proofs,          \* the proofs created so far, by every peer
    session,         \* session[id][m]: the exchange of m about proof id
    triggers,        \* triggers[n][nonce]: proofs n started by itself
    faults           \* faults so far

vars == <<store, enabled, mapValToChunkId, proofs, session, triggers, faults>>

ProofId == 1 .. MaxProofs

(* A proof on its way from the snapshot of the store to the last peer it is     *)
(* sent to. base is the set the MPHF is built from, peers those still to serve. *)
Proof == [ creator : Node, nonce : Nonce, pc : {"snapshot", "built", "failed"},
           base : SUBSET Chunk, mphf : [Chunk -> Nat], peers : SUBSET Node ]

(* The two ends of one exchange. rpc: the receiver's handlerIncomingProof;      *)
(* cpc: the creator's handlerIncomingMaintain, with the chunks it has still to  *)
(* push and the one whose Delivery is on its way; request: a Request is unread. *)
Session == [ rpc : {"idle", "proof", "maintain", "done", "failed"},
             cpc : {"idle", "maintain", "waiting", "uploading", "done", "failed"},
             missing : SUBSET Nat, dup : BOOLEAN,
             todo : SUBSET Chunk, push : SUBSET Chunk, request : BOOLEAN ]

Idle == [ rpc |-> "idle", cpc |-> "idle", missing |-> {}, dup |-> FALSE,
          todo |-> {}, push |-> {}, request |-> FALSE ]

Init ==
    /\ store \in InitStores
    /\ enabled = [n \in Node |-> TRUE]
    /\ mapValToChunkId = [n \in Node |-> [nc \in Nonce |-> <<>>]]
    /\ proofs = <<>>
    /\ session = [id \in ProofId |-> [m \in Node |-> Idle]]
    /\ triggers = [n \in Node |-> [nc \in Nonce |-> 0]]
    /\ faults = 0

------------------------------------------------------------------------------
(* Proof creation.                                                              *)

(* BBHash: a bijection from the chunks it is built for to 1..Length; a chunk it *)
(* was not built for is either recognised (0) or takes the value of another.    *)
MPHFs(base) ==
    { f \in [Chunk -> 0 .. Cardinality(base)] :
        /\ \A v \in 1 .. Cardinality(base) : \E c \in base : f[c] = v
        /\ ~ForeignHits => \A c \in Chunk \ base : f[c] = 0 }

Length(p) == Cardinality(p.base)

(* The chunk that value v stands for in proof p. *)
ChunkOf(p, v) == CHOOSE c \in p.base : p.mphf[c] = v

Fault == faults < MaxFaults /\ faults' = faults + 1

(* A mutant of NewProof: all stored chunks, without regard to the depth.        *)
NewProofOfAll(n, nc, peers) ==
    /\ Len(proofs) < MaxProofs
    /\ proofs' = Append(proofs,
                   [ creator |-> n, nonce |-> nc, pc |-> "snapshot", base |-> store[n],
                     mphf |-> [c \in Chunk |-> 0], peers |-> peers ])
    /\ faults' = faults

(* CreateProofForMyChunks up to the end of GetChunksInMyRadius: the iterator    *)
(* over the store is a snapshot, filtered by the neighbourhood depth. When it   *)
(* fails half-way, nobody hears of it: the proof is of the chunks seen so far.  *)
NewProof(n, nc, peers) ==
    LET mine == store[n] \cap Radius[n] IN
    /\ Len(proofs) < MaxProofs
    /\ \E base \in SUBSET mine :
         /\ \/ base = mine /\ faults' = faults
            \/ (\A b \in base, c \in mine \ base : b < c) /\ Fault
         /\ proofs' = Append(proofs,
                        [ creator |-> n, nonce |-> nc, pc |-> "snapshot", base |-> base,
                          mphf |-> [c \in Chunk |-> 0], peers |-> peers ])

(* The API (POST /snips/{nonce}), or the worker on a new block, starts a proof  *)
(* for all neighbours.                                                          *)
CreateAndSendProofForMyChunks(n, nc) ==
    /\ triggers[n][nc] < MaxTriggers
    /\ NewProof(n, nc, Neighbor[n])
    /\ triggers' = [triggers EXCEPT ![n][nc] = @ + 1]
    /\ UNCHANGED <<store, enabled, mapValToChunkId, session>>

(* A mutant of CreateMPHF: the chunk of value 1 is not in chunkProofToId, which  *)
(* yields the zero address.                                                     *)
CreateMPHFWithoutFirst(id) ==
    LET p == proofs[id] IN
    /\ p.pc = "snapshot"
    /\ \E f \in MPHFs(p.base) :
         LET built == [p EXCEPT !.pc = "built", !.mphf = f] IN
         /\ proofs' = [proofs EXCEPT ![id] = built]
         /\ mapValToChunkId' =
              [mapValToChunkId EXCEPT ![p.creator][p.nonce] =
                 [v \in 1 .. Length(built) |->
                    IF v = 1 THEN 0 ELSE ChunkOf(built, v)]]
    /\ UNCHANGED <<store, enabled, session, triggers, faults>>

(* CreateMPHF, under mapVTCMu: a new MPHF, and the node's only mapping for the  *)
(* nonce is replaced by the one of this proof.                                  *)
CreateMPHF(id) ==
    LET p == proofs[id] IN
    /\ p.pc = "snapshot"
    /\ \E f \in MPHFs(p.base) :
         LET built == [p EXCEPT !.pc = "built", !.mphf = f] IN
         /\ proofs' = [proofs EXCEPT ![id] = built]
         /\ mapValToChunkId' =
              [mapValToChunkId EXCEPT ![p.creator][p.nonce] =
                 [v \in 1 .. Length(built) |-> ChunkOf(built, v)]]
    /\ UNCHANGED <<store, enabled, session, triggers, faults>>

(* SendProof to one peer: nothing is sent for an empty proof.                   *)
SendProof(id, m) ==
    LET p == proofs[id] IN
    /\ p.pc = "built" /\ m \in p.peers
    /\ proofs' = [proofs EXCEPT ![id].peers = @ \ {m}]
    /\ session' = IF Length(p) = 0 THEN session
                  ELSE [session EXCEPT ![id][m].rpc = "proof"]
    /\ UNCHANGED <<store, enabled, mapValToChunkId, triggers, faults>>

------------------------------------------------------------------------------
(* The receiver.                                                                *)

(* Begin and End of a proof: only chunks between them are looked up.            *)
InRange(p, c) == (\E b \in p.base : b <= c) /\ (\E e \in p.base : c <= e)

(* A mutant of FindMissingChunks: the last value is never looked at.            *)
FindMissingChunksButLast(p, m) ==
    [v \in 1 .. Length(p) - 1 |->
        1 - Cardinality({c \in store[m] : InRange(p, c) /\ p.mphf[c] = v})]

(* verifySignature: is the creator deep enough, as m sees it.                   *)
verifySignature(p, m) == p.creator \in Neighbor[m]

(* FindMissingChunks: one less for each chunk of m that the MPHF maps to v.     *)
FindMissingChunks(p, m) ==
    [v \in 1 .. Length(p) |->
        1 - Cardinality({c \in store[m] : InRange(p, c) /\ p.mphf[c] = v})]

GetMissingVals(expected) == {v \in DOMAIN expected : expected[v] = 1}

GotMissingAndDuplicate(expected) ==
    /\ \E v \in DOMAIN expected : expected[v] = 1
    /\ \E v \in DOMAIN expected : expected[v] = -1

(* A mutant of handlerIncomingProof: the depth of the creator is not checked.   *)
handlerIncomingProofFromAfar(id, m) ==
    LET s == session[id][m]
        expected == FindMissingChunks(proofs[id], m)
    IN
    /\ s.rpc = "proof"
    /\ session' =
         [session EXCEPT ![id][m] =
            IF ~enabled[m] THEN [s EXCEPT !.rpc = "failed"]
            ELSE IF GetMissingVals(expected) = {} THEN [s EXCEPT !.rpc = "done"]
            ELSE [s EXCEPT !.rpc = "maintain", !.cpc = "maintain",
                           !.missing = GetMissingVals(expected),
                           !.dup = GotMissingAndDuplicate(expected)]]
    /\ UNCHANGED <<store, enabled, mapValToChunkId, proofs, triggers, faults>>

(* handlerIncomingProof and RetrieveMissingChunks up to the Maintain message.   *)
(* The proof is dropped by a disabled service and when its creator is too far   *)
(* away as m sees it.                                                           *)
handlerIncomingProof(id, m) ==
    LET p == proofs[id]
        s == session[id][m]
        expected == FindMissingChunks(p, m)
        missing == GetMissingVals(expected)
        refused == ~enabled[m] \/ ~verifySignature(p, m)
    IN
    /\ s.rpc = "proof"
    /\ session' =
         [session EXCEPT ![id][m] =
            IF refused THEN [s EXCEPT !.rpc = "failed"]
            ELSE IF missing = {} THEN [s EXCEPT !.rpc = "done"]
            ELSE [s EXCEPT !.rpc = "maintain", !.cpc = "maintain",
                           !.missing = missing,
                           !.dup = GotMissingAndDuplicate(expected)]]
    /\ UNCHANGED <<store, enabled, mapValToChunkId, proofs, triggers, faults>>

(* A mutant of UploadDoneReceived: a Maintain that failed is not given up.      *)
UploadDoneAwaited(id, m) ==
    LET s == session[id][m] IN
    /\ s.rpc = "maintain" /\ s.cpc = "done"
    /\ session' = [session EXCEPT ![id][m] =
                     [s EXCEPT !.rpc = "done", !.request = s.dup]]
    /\ UNCHANGED <<store, enabled, mapValToChunkId, proofs, triggers, faults>>

(* The rest of both functions: the UploadDone message, or the failure to read   *)
(* it, which is only logged; then a Request if m saw a missing and a duplicate. *)
UploadDoneReceived(id, m) ==
    LET s == session[id][m] IN
    /\ s.rpc = "maintain" /\ s.cpc \in {"done", "failed"}
    /\ session' = [session EXCEPT ![id][m] =
                     [s EXCEPT !.rpc = "done", !.request = s.dup]]
    /\ UNCHANGED <<store, enabled, mapValToChunkId, proofs, triggers, faults>>

------------------------------------------------------------------------------
(* The creator answers.                                                         *)

(* The slots of semmaintain and sem that n's handlers hold. *)
Maintains(n) == {x \in (1 .. Len(proofs)) \X Node :
                    /\ proofs[x[1]].creator = n
                    /\ session[x[1]][x[2]].cpc = "uploading"}
Pushes(n) == {x \in Maintains(n) : session[x[1]][x[2]].push # {}}

(* A mutant of GetMissingChunks: every chunk of the mapping that n stores.      *)
GetAllChunks(n, nc, missing) ==
    LET mapping == mapValToChunkId[n][nc] IN
    {mapping[v] : v \in DOMAIN mapping} \cap store[n]

(* GetMissingChunks: all the chunks of the missing values in the mapping n has  *)
(* for the nonce now, or none when one is unknown or no longer stored.          *)
GetMissingChunks(n, nc, missing) ==
    LET mapping == mapValToChunkId[n][nc] IN
    IF \A v \in missing : v \in DOMAIN mapping /\ mapping[v] \in store[n]
    THEN {mapping[v] : v \in missing}
    ELSE {}

(* handlerIncomingMaintain takes a slot of semmaintain, for which it may wait   *)
(* after the test of Enabled, and enters uploadMissingChunks, whose errors are  *)
(* only logged.                                                                 *)
handlerIncomingMaintain(id, m) ==
    LET p == proofs[id]
        s == session[id][m]
    IN
    /\ \/ /\ s.cpc = "maintain" /\ ~enabled[p.creator]
          /\ session' = [session EXCEPT ![id][m].cpc = "failed"]
       \/ /\ s.cpc = "maintain" /\ enabled[p.creator]
          /\ Cardinality(Maintains(p.creator)) >= concurrentMaintain
          /\ session' = [session EXCEPT ![id][m].cpc = "waiting"]
       \/ /\ s.cpc = "waiting" \/ (s.cpc = "maintain" /\ enabled[p.creator])
          /\ Cardinality(Maintains(p.creator)) < concurrentMaintain
          /\ session' = [session EXCEPT ![id][m] =
               [s EXCEPT !.cpc = "uploading",
                         !.todo = GetMissingChunks(p.creator, p.nonce, s.missing)]]
    /\ UNCHANGED <<store, enabled, mapValToChunkId, proofs, triggers, faults>>

(* One round of uploadMissingChunks: a slot of sem, a stream, the Delivery.     *)
PushChunk(id, m) ==
    LET s == session[id][m] IN
    /\ s.cpc = "uploading" /\ s.push = {}
    /\ Cardinality(Pushes(proofs[id].creator)) < concurrentPushes
    /\ \E c \in s.todo :
         session' = [session EXCEPT ![id][m] =
                       [s EXCEPT !.todo = @ \ {c}, !.push = {c}]]
    /\ UNCHANGED <<store, enabled, mapValToChunkId, proofs, triggers, faults>>

(* The pushsync handler of m stores the chunk (ModePutRequest) and answers with *)
(* a receipt, which frees the slot of sem.                                      *)
handlerPushsync(id, m) ==
    /\ session[id][m].push # {}
    /\ store' = [store EXCEPT ![m] = @ \cup session[id][m].push]
    /\ session' = [session EXCEPT ![id][m].push = {}]
    /\ UNCHANGED <<enabled, mapValToChunkId, proofs, triggers, faults>>

(* A mutant of UploadDone: sent once the first round is over.                   *)
UploadDoneEarly(id, m) ==
    LET s == session[id][m] IN
    /\ s.cpc = "uploading" /\ s.push = {}
    /\ session' = [session EXCEPT ![id][m] = [s EXCEPT !.cpc = "done", !.todo = {}]]
    /\ UNCHANGED <<store, enabled, mapValToChunkId, proofs, triggers, faults>>

(* All chunks were tried, whatever became of them: UploadDone.                  *)
UploadDone(id, m) ==
    LET s == session[id][m] IN
    /\ s.cpc = "uploading" /\ s.todo = {} /\ s.push = {}
    /\ session' = [session EXCEPT ![id][m].cpc = "done"]
    /\ UNCHANGED <<store, enabled, mapValToChunkId, proofs, triggers, faults>>

(* handlerIncomingRequest: a new proof for the same nonce, for m alone.         *)
handlerIncomingRequest(id, m) ==
    LET p == proofs[id] IN
    /\ session[id][m].request
    /\ IF enabled[p.creator] THEN NewProof(p.creator, p.nonce, {m})
                             ELSE UNCHANGED <<proofs, faults>>
    /\ session' = [session EXCEPT ![id][m].request = FALSE]
    /\ UNCHANGED <<store, enabled, mapValToChunkId, triggers>>

------------------------------------------------------------------------------
(* What goes wrong.                                                             *)

(* bbhash.NewSerial fails at every gamma: no proof, the old mapping stays.      *)
MPHFFails(id) ==
    /\ Fault
    /\ proofs[id].pc = "snapshot"
    /\ proofs' = [proofs EXCEPT ![id].pc = "failed", ![id].peers = {}]
    /\ UNCHANGED <<store, enabled, mapValToChunkId, session, triggers>>

(* SendProof cannot open the stream or write: logged, and on to the next peer.  *)
SendProofFails(id, m) ==
    /\ Fault
    /\ proofs[id].pc = "built" /\ m \in proofs[id].peers
    /\ proofs' = [proofs EXCEPT ![id].peers = @ \ {m}]
    /\ UNCHANGED <<store, enabled, mapValToChunkId, session, triggers>>

(* m's iterator over its store fails, or the Maintain cannot be written.        *)
RetrieveFails(id, m) ==
    /\ Fault
    /\ session[id][m].rpc = "proof"
    /\ session' = [session EXCEPT ![id][m].rpc = "failed"]
    /\ UNCHANGED <<store, enabled, mapValToChunkId, proofs, triggers>>

(* m cannot read UploadDone, logs it and returns as if it had, while the        *)
(* creator goes on uploading.                                                   *)
UploadDoneLost(id, m) ==
    LET s == session[id][m] IN
    /\ Fault
    /\ s.rpc = "maintain" /\ s.cpc \in {"maintain", "waiting", "uploading"}
    /\ session' = [session EXCEPT ![id][m] =
                     [s EXCEPT !.rpc = "done", !.request = s.dup]]
    /\ UNCHANGED <<store, enabled, mapValToChunkId, proofs, triggers>>

(* The Delivery is lost, or refused for its stamp, its content or a disk error: *)
(* the creator notes the error and goes on with the next chunk.                 *)
PushFails(id, m) ==
    /\ Fault
    /\ session[id][m].push # {}
    /\ session' = [session EXCEPT ![id][m].push = {}]
    /\ UNCHANGED <<store, enabled, mapValToChunkId, proofs, triggers>>

(* The Request cannot be written.                                               *)
RequestFails(id, m) ==
    /\ Fault
    /\ session[id][m].request
    /\ session' = [session EXCEPT ![id][m].request = FALSE]
    /\ UNCHANGED <<store, enabled, mapValToChunkId, proofs, triggers>>

(* Garbage collection or an expired batch removes a chunk from n's localstore.  *)
Evict(n, c) ==
    /\ Fault
    /\ c \in store[n]
    /\ store' = [store EXCEPT ![n] = @ \ {c}]
    /\ UNCHANGED <<enabled, mapValToChunkId, proofs, session, triggers>>

(* Options.Enabled is flipped through the debug API.                            *)
SetEnabled(n) ==
    /\ Fault
    /\ enabled' = [enabled EXCEPT ![n] = ~@]
    /\ UNCHANGED <<store, mapValToChunkId, proofs, session, triggers>>

(* n stops and starts again: stopped by its operator, or by the nil stream that *)
(* RetrieveMissingChunks and uploadMissingChunks use when NewStream fails. The  *)
(* localstore survives; the maps, the handlers and the unread messages do not.  *)
Crash(n) ==
    /\ Fault
    /\ mapValToChunkId' = [mapValToChunkId EXCEPT ![n] = [nc \in Nonce |-> <<>>]]
    /\ proofs' = [id \in DOMAIN proofs |->
         IF proofs[id].creator = n
         THEN [proofs[id] EXCEPT !.pc = IF @ = "snapshot" THEN "failed" ELSE @,
                                 !.peers = {}]
         ELSE proofs[id]]
    /\ session' = [id \in ProofId |-> [m \in Node |->
         LET s == session[id][m]
             mine == id \in DOMAIN proofs /\ proofs[id].creator = n
         IN  [ s EXCEPT
               !.rpc = IF m = n /\ @ \in {"proof", "maintain"} THEN "failed" ELSE @,
               !.cpc = IF mine /\ @ \in {"maintain", "waiting", "uploading"} THEN "failed" ELSE @,
               !.todo = IF mine THEN {} ELSE @,
               !.push = IF mine \/ m = n THEN {} ELSE @,
               !.request = @ /\ ~mine ]]]
    /\ UNCHANGED <<store, enabled, triggers>>

------------------------------------------------------------------------------
Create(n) == \E nc \in Nonce : CreateAndSendProofForMyChunks(n, nc)

Exchange(id, m) ==
    \/ SendProof(id, m)
    \/ handlerIncomingProof(id, m)
    \/ UploadDoneReceived(id, m)
    \/ handlerIncomingMaintain(id, m)
    \/ PushChunk(id, m)
    \/ handlerPushsync(id, m)
    \/ UploadDone(id, m)
    \/ handlerIncomingRequest(id, m)

Environment ==
    \/ \E n \in Node : SetEnabled(n) \/ Crash(n) \/ \E c \in Chunk : Evict(n, c)
    \/ \E id \in DOMAIN proofs :
         \/ MPHFFails(id)
         \/ \E m \in Node :
              \/ SendProofFails(id, m)
              \/ RetrieveFails(id, m)
              \/ UploadDoneLost(id, m)
              \/ PushFails(id, m)
              \/ RequestFails(id, m)

Next ==
    \/ \E n \in Node : Create(n)
    \/ \E id \in DOMAIN proofs : CreateMPHF(id) \/ \E m \in Node : Exchange(id, m)
    \/ Environment

Spec == Init /\ [][Next]_vars

(* The goroutines of the handlers run on; proofs go on being started, by the    *)
(* operator or by the worker. Nothing makes the environment act.                *)
Fairness ==
    /\ \A n \in Node : WF_vars(Create(n))
    /\ \A id \in ProofId :
         /\ WF_vars(id \in DOMAIN proofs /\ CreateMPHF(id))
         /\ \A m \in Node : WF_vars(id \in DOMAIN proofs /\ Exchange(id, m))

FairSpec == Spec /\ Fairness

------------------------------------------------------------------------------
(* Properties.                                                                  *)

TypeOK ==
    /\ store \in [Node -> SUBSET Chunk]
    /\ enabled \in [Node -> BOOLEAN]
    /\ mapValToChunkId \in [Node -> [Nonce -> Seq(Chunk)]]
    /\ proofs \in Seq(Proof) /\ Len(proofs) <= MaxProofs
    /\ session \in [ProofId -> [Node -> Session]]
    /\ triggers \in [Node -> [Nonce -> Nat]]
    /\ faults \in Nat

(* The chunks of the proofs that n has built for nonce nc. *)
Proved(n, nc) ==
    UNION {proofs[id].base : id \in {j \in DOMAIN proofs :
              /\ proofs[j].creator = n /\ proofs[j].nonce = nc
              /\ proofs[j].pc = "built"}}

(* Whatever CreateMPHF runs interleave with a pending Maintain message          *)
(* (handlerIncomingRequest, the API and the worker all replace the mapping of   *)
(* the nonce): the chunks the creator uploads are ones it proved for that very  *)
(* nonce, never chunks outside its radius, nor ones proved for another nonce,   *)
(* and only a peer inside whose depth the creator is gets them.                 *)
UploadsWereProved ==
    \A id \in DOMAIN proofs, m \in Node :
        LET uploads == session[id][m].todo \cup session[id][m].push IN
        /\ uploads \subseteq Proved(proofs[id].creator, proofs[id].nonce)
        /\ uploads # {} => proofs[id].creator \in Neighbor[m]

(* No other proof of the same creator for the same nonce has replaced or may    *)
(* have replaced the mapping that proof id built. *)
Sole(id) ==
    \A j \in DOMAIN proofs \ {id} :
        \/ proofs[j].creator # proofs[id].creator
        \/ proofs[j].nonce # proofs[id].nonce
        \/ proofs[j].pc # "built"

(* uploadMissingChunks "uploads the chunks that are missing (requested)":       *)
(* exactly the chunks behind the values of the Maintain message it answers.     *)
UploadAnswersMaintain ==
    \A id \in DOMAIN proofs, m \in Node :
        LET s == session[id][m] IN
        s.todo \cup s.push \subseteq {ChunkOf(proofs[id], v) : v \in s.missing}

(* The same, as far as the code keeps it: as long as the nonce has one proof.   *)
(* Crashes, evictions and proofs for other nonces do not break it.              *)
SoleProofIsAnswered ==
    \A id \in DOMAIN proofs, m \in Node :
        LET s == session[id][m] IN
        Sole(id) => s.todo \cup s.push \subseteq {ChunkOf(proofs[id], v) : v \in s.missing}

(* c is hidden from m: another chunk that m stores takes its value in proof p.  *)
Hidden(p, m, c) ==
    \E x \in store[m] \ {c} : InRange(p, x) /\ p.mphf[x] = p.mphf[c]

(* When handlerIncomingProof ends, no fault happened and the nonce has one      *)
(* proof, the receiver has every chunk of the proof but those that a collision  *)
(* in the MPHF hid from FindMissingChunks.                                      *)
CompleteWhenClean ==
    \A id \in DOMAIN proofs, m \in Node :
        session[id][m].rpc = "done" /\ Sole(id) /\ faults = 0
            => \A c \in proofs[id].base :
                  c \in store[m] \/ Hidden(proofs[id], m, c)

(* Every accepted proof is dealt with and every Maintain is answered, through   *)
(* disabled services, lost messages and crashes: no handler waits for a slot of *)
(* semmaintain or sem, for a receipt or for UploadDone for ever.                *)
ExchangeEnds ==
    \A id \in ProofId, m \in Node :
        /\ session[id][m].rpc \in {"proof", "maintain"} ~> session[id][m].rpc \in {"done", "failed"}
        /\ session[id][m].cpc \in {"maintain", "waiting", "uploading"} ~> session[id][m].cpc \in {"done", "failed"}

(* TestProtocol's claim: once every peer has sent a proof, one for the nonce,   *)
(* and nothing failed, neighbours hold the same chunks of their common          *)
(* neighbourhood, and go on holding them.                                       *)
Converges ==
    <>[](faults = 0 /\ (\A id \in DOMAIN proofs : Sole(id)) => \A n, m \in Node :
           n \in Neighbor[m] /\ m \in Neighbor[n]
             => store[n] \cap Radius[n] \cap Radius[m] \subseteq store[m])
==============================================================================
