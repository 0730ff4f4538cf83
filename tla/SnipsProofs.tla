----------------------------- MODULE SnipsProofs -----------------------------
(* Proofs about Snips for any peers, chunks, neighbourhoods and bounds.         *)
EXTENDS SnipsSync, FiniteSetTheorems, SequenceTheorems, TLAPS

(* The values of the current mapping stand for chunks proved for the nonce.     *)
MappingProved ==
    \A n \in Node, nc \in Nonce : \A v \in DOMAIN mapValToChunkId[n][nc] :
        mapValToChunkId[n][nc][v] \in Proved(n, nc)

(* The creator answers only receivers that have accepted it as a neighbour.     *)
Accepted ==
    \A id \in DOMAIN proofs, m \in Node :
        session[id][m].cpc # "idle" => proofs[id].creator \in Neighbor[m]

(* An exchange in which the creator has no part yet uploads nothing, and there  *)
(* is none about a proof that does not exist.                                   *)
Quiet ==
    \A id \in ProofId, m \in Node :
        /\ session[id][m].cpc = "idle" => session[id][m].todo = {} /\ session[id][m].push = {}
        /\ id \notin DOMAIN proofs => session[id][m].cpc = "idle"

(* The inductive invariant: UploadsWereProved alone says nothing of the mapping *)
(* from which the next Maintain is answered.                                    *)
IInv == TypeOK /\ MappingProved /\ Accepted /\ Quiet /\ UploadsWereProved

USE ChunkAssumption, NeighborAssumption, RadiusAssumption, StoresAssumption,
    ForeignAssumption, BoundAssumption

------------------------------------------------------------------------------
(* An MPHF for base is a function to values, and each of its values but 0 is    *)
(* that of a chunk of base: CreateMPHF's mapping holds only chunks of base.     *)
LEMMA MPHFMapsBase ==
    ASSUME NEW base \in SUBSET Chunk, NEW f \in MPHFs(base)
    PROVE  /\ Cardinality(base) \in Nat
           /\ f \in [Chunk -> Nat]
           /\ \A v \in 1 .. Cardinality(base) : (CHOOSE c \in base : f[c] = v) \in base
<1>1. Cardinality(base) \in Nat
  BY FS_Subset, FS_CardinalityType
<1>2. f \in [Chunk -> 0 .. Cardinality(base)]
  BY DEF MPHFs
<1>3. f \in [Chunk -> Nat]
  BY <1>1, <1>2
<1>4. \A v \in 1 .. Cardinality(base) : \E c \in base : f[c] = v
  BY DEF MPHFs
<1> QED BY <1>1, <1>3, <1>4

(* The proof that NewProof appends is well formed.                              *)
LEMMA NewProofType ==
    ASSUME TypeOK, NEW n \in Node, NEW nc \in Nonce, NEW peers \in SUBSET Node,
           NewProof(n, nc, peers)
    PROVE  /\ proofs' \in Seq(Proof) /\ Len(proofs') = Len(proofs) + 1
           /\ Len(proofs') <= MaxProofs
           /\ \A id \in DOMAIN proofs : id \in DOMAIN proofs' /\ proofs'[id] = proofs[id]
           /\ DOMAIN proofs' = DOMAIN proofs \cup {Len(proofs) + 1}
           /\ proofs'[Len(proofs) + 1].pc = "snapshot"
           /\ proofs'[Len(proofs) + 1].creator = n
           /\ proofs'[Len(proofs) + 1].base \subseteq store[n] \cap Radius[n]
           /\ faults' \in Nat
<1>0. PICK base \in SUBSET (store[n] \cap Radius[n]) :
        /\ faults' = faults \/ Fault
        /\ proofs' = Append(proofs,
                       [ creator |-> n, nonce |-> nc, pc |-> "snapshot", base |-> base,
                         mphf |-> [c \in Chunk |-> 0], peers |-> peers ])
  BY DEF NewProof
<1> DEFINE p == [ creator |-> n, nonce |-> nc, pc |-> "snapshot", base |-> base,
                  mphf |-> [c \in Chunk |-> 0], peers |-> peers ]
<1>1. p \in Proof
  <2>1. base \in SUBSET Chunk
    BY DEF TypeOK
  <2>2. [c \in Chunk |-> 0] \in [Chunk -> Nat]
    OBVIOUS
  <2> QED BY <2>1, <2>2 DEF Proof
<1>2. proofs \in Seq(Proof) /\ Len(proofs) < MaxProofs /\ proofs' = Append(proofs, p)
  BY <1>0 DEF TypeOK, NewProof
<1>3. p.pc = "snapshot" /\ p.creator = n /\ p.base \subseteq store[n] \cap Radius[n]
  OBVIOUS
<1>4. faults' \in Nat
  BY <1>0 DEF Fault, TypeOK
<1> HIDE DEF p
<1> QED BY <1>1, <1>2, <1>3, <1>4

(* One end of one exchange changes to another state of the type.                *)
LEMMA SessionUpdate ==
    ASSUME TypeOK, NEW id \in DOMAIN proofs, NEW m \in Node, NEW s \in Session,
           session' = [session EXCEPT ![id][m] = s]
    PROVE  /\ session' \in [ProofId -> [Node -> Session]]
           /\ session'[id][m] = s
           /\ \A j \in ProofId, k \in Node :
                 j # id \/ k # m => session'[j][k] = session[j][k]
<1>1. id \in ProofId
  BY DEF TypeOK, ProofId
<1> QED BY <1>1 DEF TypeOK

(* The entries of proofs are proofs, their numbers index session.               *)
LEMMA EntryType ==
    ASSUME TypeOK, NEW id \in DOMAIN proofs
    PROVE  /\ id \in ProofId /\ proofs[id] \in Proof
           /\ \A m \in Node : session[id][m] \in Session
<1> QED BY DEF TypeOK, ProofId

(* Every step keeps the type: in particular no mapping is built with a value    *)
(* that is not in 1..Length, and no proof beyond the bound.                     *)
LEMMA TypeStep == TypeOK /\ [Next]_vars => TypeOK'
<1> SUFFICES ASSUME TypeOK, [Next]_vars PROVE TypeOK'
  OBVIOUS
<1>1. ASSUME NEW n \in Node, NEW nc \in Nonce, CreateAndSendProofForMyChunks(n, nc)
      PROVE  TypeOK'
  <2>1. Neighbor[n] \in SUBSET Node
    OBVIOUS
  <2>2. proofs' \in Seq(Proof) /\ Len(proofs') <= MaxProofs /\ faults' \in Nat
    BY <1>1, <2>1, NewProofType DEF CreateAndSendProofForMyChunks
  <2> QED BY <1>1, <2>2 DEF CreateAndSendProofForMyChunks, TypeOK
<1>2. ASSUME NEW id \in DOMAIN proofs, CreateMPHF(id) PROVE TypeOK'
  <2> DEFINE p == proofs[id]
  <2>1. p \in Proof /\ p.base \in SUBSET Chunk
    BY EntryType DEF Proof
  <2>2. PICK f \in MPHFs(p.base) :
          LET built == [p EXCEPT !.pc = "built", !.mphf = f] IN
          /\ proofs' = [proofs EXCEPT ![id] = built]
          /\ mapValToChunkId' =
               [mapValToChunkId EXCEPT ![p.creator][p.nonce] =
                  [v \in 1 .. Length(built) |-> ChunkOf(built, v)]]
    BY <1>2 DEF CreateMPHF
  <2> DEFINE built == [p EXCEPT !.pc = "built", !.mphf = f]
             mapping == [v \in 1 .. Length(built) |-> ChunkOf(built, v)]
  <2>3. f \in [Chunk -> Nat]
    BY <2>1, MPHFMapsBase
  <2>4. built \in Proof /\ built.base = p.base /\ built.mphf = f
    BY <2>1, <2>3 DEF Proof
  <2>5. mapping \in Seq(Chunk)
    <3>1. Length(built) = Cardinality(p.base)
      BY <2>4 DEF Length
    <3>2. \A v \in 1 .. Cardinality(p.base) : ChunkOf(built, v) \in p.base
      BY <2>1, <2>4, MPHFMapsBase DEF ChunkOf
    <3>3. Cardinality(p.base) \in Nat
      BY <2>1, MPHFMapsBase
    <3>4. mapping \in [1 .. Cardinality(p.base) -> Chunk]
      BY <2>1, <3>1, <3>2
    <3> HIDE DEF mapping
    <3> QED BY <3>3, <3>4, SeqDef
  <2> HIDE DEF built, mapping
  <2>6. proofs' \in Seq(Proof) /\ Len(proofs') <= MaxProofs
    BY <2>2, <2>4 DEF TypeOK, built
  <2>7. mapValToChunkId' \in [Node -> [Nonce -> Seq(Chunk)]]
    <3>1. mapValToChunkId' = [mapValToChunkId EXCEPT ![p.creator][p.nonce] = mapping]
      BY <2>2 DEF built, mapping
    <3> QED BY <2>5, <3>1 DEF TypeOK
  <2> QED BY <1>2, <2>6, <2>7 DEF CreateMPHF, TypeOK
<1>3. ASSUME NEW id \in DOMAIN proofs, NEW m \in Node, SendProof(id, m) PROVE TypeOK'
  <2>1. proofs[id] \in Proof /\ id \in ProofId
    BY EntryType
  <2>2. [proofs[id] EXCEPT !.peers = @ \ {m}] \in Proof
    BY <2>1 DEF Proof
  <2>3. proofs' = [proofs EXCEPT ![id] = [proofs[id] EXCEPT !.peers = @ \ {m}]]
    BY <1>3 DEF SendProof
  <2>4. proofs' \in Seq(Proof) /\ Len(proofs') <= MaxProofs
    BY <2>2, <2>3 DEF TypeOK
  <2>5. session' \in [ProofId -> [Node -> Session]]
    <3>1. [session[id][m] EXCEPT !.rpc = "proof"] \in Session
      BY EntryType DEF Session
    <3>2. session' = session
             \/ session' = [session EXCEPT ![id][m] = [session[id][m] EXCEPT !.rpc = "proof"]]
      BY <1>3 DEF SendProof
    <3> QED BY <3>1, <3>2, SessionUpdate DEF TypeOK
  <2> QED BY <1>3, <2>4, <2>5 DEF SendProof, TypeOK
<1>4. ASSUME NEW id \in DOMAIN proofs, NEW m \in Node, Exchange(id, m), ~SendProof(id, m)
      PROVE  TypeOK'
  <2> DEFINE s == session[id][m]
  <2>1. s \in Session /\ proofs[id] \in Proof
    BY EntryType
  <2>2. ASSUME NEW t \in Session, session' = [session EXCEPT ![id][m] = t],
               UNCHANGED <<store, enabled, mapValToChunkId, proofs, triggers, faults>>
        PROVE  TypeOK'
    BY <2>2, SessionUpdate DEF TypeOK
  <2>3. CASE handlerIncomingProof(id, m)
    <3> DEFINE expected == FindMissingChunks(proofs[id], m)
               missing == GetMissingVals(expected)
    <3>1. missing \in SUBSET Nat
      <4>1. Length(proofs[id]) \in Nat
        BY <2>1, FS_Subset, FS_CardinalityType DEF Length, Proof
      <4> QED BY <4>1 DEF FindMissingChunks, GetMissingVals
    <3>2. GotMissingAndDuplicate(expected) \in BOOLEAN
      BY DEF GotMissingAndDuplicate
    <3> HIDE DEF missing, expected
    <3>3. /\ [s EXCEPT !.rpc = "failed"] \in Session
          /\ [s EXCEPT !.rpc = "done"] \in Session
          /\ [s EXCEPT !.rpc = "maintain", !.cpc = "maintain", !.missing = missing,
                       !.dup = GotMissingAndDuplicate(expected)] \in Session
      BY <2>1, <3>1, <3>2 DEF Session
    <3>4. \E t \in Session : session' = [session EXCEPT ![id][m] = t]
      BY <2>3, <3>3 DEF handlerIncomingProof, missing, expected
    <3> QED BY <2>2, <2>3, <3>4 DEF handlerIncomingProof
  <2>4. CASE UploadDoneReceived(id, m)
    <3>1. [s EXCEPT !.rpc = "done", !.request = s.dup] \in Session
      BY <2>1 DEF Session
    <3> QED BY <2>2, <2>4, <3>1 DEF UploadDoneReceived
  <2>5. CASE handlerIncomingMaintain(id, m)
    <3> DEFINE up == GetMissingChunks(proofs[id].creator, proofs[id].nonce, s.missing)
    <3>1. up \in SUBSET Chunk
      <4>1. store[proofs[id].creator] \in SUBSET Chunk
        BY <2>1 DEF TypeOK, Proof
      <4> QED BY <4>1 DEF GetMissingChunks
    <3> HIDE DEF up
    <3>2. /\ [s EXCEPT !.cpc = "failed"] \in Session /\ [s EXCEPT !.cpc = "waiting"] \in Session
          /\ [s EXCEPT !.cpc = "uploading", !.todo = up] \in Session
      BY <2>1, <3>1 DEF Session
    <3>3. \E t \in Session : session' = [session EXCEPT ![id][m] = t]
      BY <2>5, <3>2 DEF handlerIncomingMaintain, up
    <3> QED BY <2>2, <2>5, <3>3 DEF handlerIncomingMaintain
  <2>6. CASE PushChunk(id, m)
    <3>1. PICK c \in s.todo :
            session' = [session EXCEPT ![id][m] = [s EXCEPT !.todo = @ \ {c}, !.push = {c}]]
      BY <2>6 DEF PushChunk
    <3>2. [s EXCEPT !.todo = @ \ {c}, !.push = {c}] \in Session
      <4>1. s.todo \ {c} \in SUBSET Chunk /\ {c} \in SUBSET Chunk
        BY <2>1 DEF Session
      <4> QED BY <2>1, <4>1 DEF Session
    <3> QED BY <2>2, <2>6, <3>1, <3>2 DEF PushChunk
  <2>7. CASE handlerPushsync(id, m)
    <3>1. [s EXCEPT !.push = {}] \in Session /\ s.push \in SUBSET Chunk
      BY <2>1 DEF Session
    <3>2. session' = [session EXCEPT ![id][m] = [s EXCEPT !.push = {}]]
      BY <2>7 DEF handlerPushsync
    <3>3. session' \in [ProofId -> [Node -> Session]]
      BY <3>1, <3>2, SessionUpdate
    <3>4. store' \in [Node -> SUBSET Chunk]
      BY <2>7, <3>1 DEF handlerPushsync, TypeOK
    <3> QED BY <2>7, <3>3, <3>4 DEF handlerPushsync, TypeOK
  <2>8. CASE UploadDone(id, m)
    <3>1. [s EXCEPT !.cpc = "done"] \in Session
      BY <2>1 DEF Session
    <3> QED BY <2>2, <2>8, <3>1 DEF UploadDone
  <2>9. CASE handlerIncomingRequest(id, m)
    <3>1. [s EXCEPT !.request = FALSE] \in Session
      BY <2>1 DEF Session
    <3>2. session' = [session EXCEPT ![id][m] = [s EXCEPT !.request = FALSE]]
      BY <2>9 DEF handlerIncomingRequest
    <3>3. session' \in [ProofId -> [Node -> Session]]
      BY <3>1, <3>2, SessionUpdate
    <3>4. proofs' \in Seq(Proof) /\ Len(proofs') <= MaxProofs /\ faults' \in Nat
      <4>1. proofs[id].creator \in Node /\ proofs[id].nonce \in Nonce
        BY <2>1 DEF Proof
      <4>2. CASE NewProof(proofs[id].creator, proofs[id].nonce, {m})
        BY <4>1, <4>2, NewProofType
      <4>3. CASE UNCHANGED <<proofs, faults>>
        BY <4>3 DEF TypeOK
      <4> QED BY <2>9, <4>2, <4>3 DEF handlerIncomingRequest
    <3> QED BY <2>9, <3>3, <3>4 DEF handlerIncomingRequest, TypeOK
  <2> QED BY <1>4, <2>3, <2>4, <2>5, <2>6, <2>7, <2>8, <2>9 DEF Exchange
<1>5. ASSUME NEW id \in DOMAIN proofs, MPHFFails(id) PROVE TypeOK'
  <2>1. [proofs[id] EXCEPT !.pc = "failed", !.peers = {}] \in Proof
    BY EntryType DEF Proof
  <2>2. proofs' = [proofs EXCEPT ![id] = [proofs[id] EXCEPT !.pc = "failed", !.peers = {}]]
    BY <1>5 DEF MPHFFails, TypeOK
  <2>3. proofs' \in Seq(Proof) /\ Len(proofs') <= MaxProofs
    BY <2>1, <2>2 DEF TypeOK
  <2> QED BY <1>5, <2>3 DEF MPHFFails, Fault, TypeOK
<1>6. ASSUME NEW id \in DOMAIN proofs, NEW m \in Node,
             \/ SendProofFails(id, m) \/ RetrieveFails(id, m) \/ UploadDoneLost(id, m)
             \/ PushFails(id, m) \/ RequestFails(id, m)
      PROVE  TypeOK'
  <2>1. proofs[id] \in Proof /\ session[id][m] \in Session
    BY EntryType
  <2>2. CASE SendProofFails(id, m)
    <3>1. [proofs[id] EXCEPT !.peers = @ \ {m}] \in Proof
      BY <2>1 DEF Proof
    <3>2. proofs' = [proofs EXCEPT ![id] = [proofs[id] EXCEPT !.peers = @ \ {m}]]
      BY <2>2 DEF SendProofFails
    <3>3. proofs' \in Seq(Proof) /\ Len(proofs') <= MaxProofs
      BY <3>1, <3>2 DEF TypeOK
    <3> QED BY <2>2, <3>3 DEF SendProofFails, Fault, TypeOK
  <2>3. CASE PushFails(id, m)
    <3>1. [session[id][m] EXCEPT !.push = {}] \in Session
      BY <2>1 DEF Session
    <3>2. session' = [session EXCEPT ![id][m] = [session[id][m] EXCEPT !.push = {}]]
      BY <2>3 DEF PushFails
    <3>3. session' \in [ProofId -> [Node -> Session]]
      BY <3>1, <3>2, SessionUpdate
    <3> QED BY <2>3, <3>3 DEF PushFails, Fault, TypeOK
  <2>4. CASE RequestFails(id, m)
    <3>1. [session[id][m] EXCEPT !.request = FALSE] \in Session
      BY <2>1 DEF Session
    <3>2. session' = [session EXCEPT ![id][m] = [session[id][m] EXCEPT !.request = FALSE]]
      BY <2>4 DEF RequestFails
    <3>3. session' \in [ProofId -> [Node -> Session]]
      BY <3>1, <3>2, SessionUpdate
    <3> QED BY <2>4, <3>3 DEF RequestFails, Fault, TypeOK
  <2>5. CASE RetrieveFails(id, m) \/ UploadDoneLost(id, m)
    <3> DEFINE s == session[id][m]
    <3>1. /\ [s EXCEPT !.rpc = "failed"] \in Session
          /\ [s EXCEPT !.rpc = "done", !.request = s.dup] \in Session
      BY <2>1 DEF Session
    <3>2. \/ session' = [session EXCEPT ![id][m] = [s EXCEPT !.rpc = "failed"]]
          \/ session' = [session EXCEPT ![id][m] = [s EXCEPT !.rpc = "done", !.request = s.dup]]
      BY <2>5 DEF RetrieveFails, UploadDoneLost
    <3> HIDE DEF s
    <3>3. session' \in [ProofId -> [Node -> Session]]
      BY <3>1, <3>2, SessionUpdate
    <3> QED BY <2>5, <3>3 DEF RetrieveFails, UploadDoneLost, Fault, TypeOK
  <2> QED BY <1>6, <2>2, <2>3, <2>4, <2>5
<1>7. ASSUME NEW n \in Node, Crash(n) PROVE TypeOK'
  <2>1. mapValToChunkId' \in [Node -> [Nonce -> Seq(Chunk)]]
    <3>1. <<>> \in Seq(Chunk)
      OBVIOUS
    <3> QED BY <1>7, <3>1 DEF Crash, TypeOK
  <2>2. proofs' \in Seq(Proof) /\ Len(proofs') <= MaxProofs
    <3>1. \A id \in DOMAIN proofs :
            [proofs[id] EXCEPT !.pc = IF @ = "snapshot" THEN "failed" ELSE @, !.peers = {}]
               \in Proof
      <4> SUFFICES ASSUME NEW id \in DOMAIN proofs
                   PROVE  [proofs[id] EXCEPT !.pc = IF @ = "snapshot" THEN "failed" ELSE @,
                                             !.peers = {}] \in Proof
        OBVIOUS
      <4>1. proofs[id] \in Proof
        BY EntryType
      <4> QED BY <4>1 DEF Proof
    <3>2. DOMAIN proofs = 1 .. Len(proofs) /\ Len(proofs) \in Nat
      BY DEF TypeOK
    <3>3. proofs' \in [1 .. Len(proofs) -> Proof]
      BY <1>7, <3>1, <3>2, EntryType DEF Crash
    <3>4. proofs' \in Seq(Proof) /\ Len(proofs') = Len(proofs)
      BY <3>2, <3>3
    <3> QED BY <3>4 DEF TypeOK
  <2>3. session' \in [ProofId -> [Node -> Session]]
    <3>1. ASSUME NEW id \in ProofId, NEW m \in Node
          PROVE  session'[id][m] \in Session
      <4>1. session[id][m] \in Session
        BY DEF TypeOK
      <4> DEFINE s == session[id][m]
                 mine == id \in DOMAIN proofs /\ proofs[id].creator = n
                 r == IF m = n /\ s.rpc \in {"proof", "maintain"} THEN "failed" ELSE s.rpc
                 c == IF mine /\ s.cpc \in {"maintain", "waiting", "uploading"} THEN "failed" ELSE s.cpc
                 t == IF mine THEN {} ELSE s.todo
                 u == IF mine \/ m = n THEN {} ELSE s.push
                 q == s.request /\ ~mine
      <4>2. session'[id][m] = [s EXCEPT !.rpc = r, !.cpc = c, !.todo = t, !.push = u,
                                        !.request = q]
        BY <1>7 DEF Crash
      <4>3. /\ s.rpc \in {"idle", "proof", "maintain", "done", "failed"}
            /\ s.cpc \in {"idle", "maintain", "waiting", "uploading", "done", "failed"}
            /\ s.todo \in SUBSET Chunk /\ s.push \in SUBSET Chunk
            /\ s.request \in BOOLEAN
        BY <4>1 DEF Session
      <4> HIDE DEF mine, s
      <4>4. /\ r \in {"idle", "proof", "maintain", "done", "failed"}
            /\ c \in {"idle", "maintain", "waiting", "uploading", "done", "failed"}
        BY <4>3
      <4>5. t \in SUBSET Chunk /\ u \in SUBSET Chunk
        BY <4>3
      <4>6. q \in BOOLEAN
        BY <4>3, Zenon
      <4>7. s \in Session
        BY <4>1 DEF s
      <4> HIDE DEF r, c, t, u, q
      <4> QED BY <4>2, <4>4, <4>5, <4>6, <4>7 DEF Session
    <3> DEFINE Mine(id) == id \in DOMAIN proofs /\ proofs[id].creator = n
               After(id, m) ==
                 [ session[id][m] EXCEPT
                   !.rpc = IF m = n /\ @ \in {"proof", "maintain"} THEN "failed" ELSE @,
                   !.cpc = IF Mine(id) /\ @ \in {"maintain", "waiting", "uploading"} THEN "failed" ELSE @,
                   !.todo = IF Mine(id) THEN {} ELSE @,
                   !.push = IF Mine(id) \/ m = n THEN {} ELSE @,
                   !.request = @ /\ ~Mine(id) ]
    <3>2. session' = [id \in ProofId |-> [m \in Node |-> After(id, m)]]
      BY <1>7 DEF Crash
    <3> HIDE DEF After
    <3>3. \A id \in ProofId, m \in Node : After(id, m) \in Session
      BY <3>1, <3>2
    <3> QED BY <3>2, <3>3
  <2>4. faults' \in Nat /\ UNCHANGED <<store, enabled, triggers>>
    <3>1. Fault /\ UNCHANGED <<store, enabled, triggers>>
      BY <1>7, Zenon DEF Crash
    <3> QED BY <3>1 DEF Fault, TypeOK
  <2> QED BY <2>1, <2>2, <2>3, <2>4 DEF TypeOK
<1>8. ASSUME NEW n \in Node, NEW c \in Chunk, Evict(n, c) PROVE TypeOK'
  BY <1>8 DEF Evict, Fault, TypeOK
<1>9. ASSUME NEW n \in Node, SetEnabled(n) PROVE TypeOK'
  BY <1>9 DEF SetEnabled, Fault, TypeOK
<1>10. CASE UNCHANGED vars
  BY <1>10 DEF vars, TypeOK
<1>11. CASE \E n \in Node : Create(n)
  BY <1>1, <1>11 DEF Create
<1>12. CASE \E id \in DOMAIN proofs : CreateMPHF(id) \/ \E m \in Node : Exchange(id, m)
  BY <1>2, <1>3, <1>4, <1>12
<1>13. CASE Environment
  BY <1>5, <1>7, <1>8, <1>9, <1>13, <1>6 DEF Environment
<1> QED
  BY <1>10, <1>11, <1>12, <1>13 DEF Next

------------------------------------------------------------------------------
(* What no step changes of a proof. *)
Kept(id) ==
    /\ id \in DOMAIN proofs'
    /\ proofs'[id].creator = proofs[id].creator
    /\ proofs'[id].nonce = proofs[id].nonce
    /\ proofs'[id].base = proofs[id].base
    /\ proofs[id].pc = "built" => proofs'[id].pc = "built" /\ proofs'[id].mphf = proofs[id].mphf
    /\ proofs'[id].peers \subseteq proofs[id].peers

(* A proof keeps its creator, its nonce and its chunks, and stays built as it is.*)
LEMMA ProofsGrow ==
    ASSUME TypeOK, [Next]_vars, NEW id \in DOMAIN proofs
    PROVE  Kept(id)
<1>1. CASE proofs' = proofs
  BY <1>1 DEF Kept
<1>2. ASSUME NEW n \in Node, NEW nc \in Nonce, NEW peers \in SUBSET Node,
             NewProof(n, nc, peers)
      PROVE  Kept(id)
  BY <1>2, NewProofType DEF Kept
<1>3. ASSUME NEW j \in DOMAIN proofs, NEW p \in Proof, proofs' = [proofs EXCEPT ![j] = p],
             p.creator = proofs[j].creator, p.nonce = proofs[j].nonce,
             p.base = proofs[j].base, p.peers \subseteq proofs[j].peers,
             proofs[j].pc = "built" => p.pc = "built" /\ p.mphf = proofs[j].mphf
      PROVE  Kept(id)
  BY <1>3 DEF TypeOK, Kept
<1>4. ASSUME NEW n \in Node, Create(n) PROVE Kept(id)
  BY <1>2, <1>4 DEF Create, CreateAndSendProofForMyChunks
<1>5. ASSUME NEW j \in DOMAIN proofs, CreateMPHF(j) PROVE Kept(id)
  <2>1. PICK f \in MPHFs(proofs[j].base) :
          proofs' = [proofs EXCEPT ![j] = [proofs[j] EXCEPT !.pc = "built", !.mphf = f]]
    BY <1>5 DEF CreateMPHF
  <2>2. proofs[j] \in Proof /\ f \in [Chunk -> Nat] /\ proofs[j].pc = "snapshot"
    BY <1>5, EntryType, MPHFMapsBase DEF Proof, CreateMPHF
  <2>3. [proofs[j] EXCEPT !.pc = "built", !.mphf = f] \in Proof
    BY <2>2 DEF Proof
  <2> QED BY <1>3, <2>1, <2>2, <2>3 DEF Proof
<1>6. ASSUME NEW j \in DOMAIN proofs, NEW m \in Node,
             SendProof(j, m) \/ SendProofFails(j, m)
      PROVE  Kept(id)
  <2>1. proofs[j] \in Proof /\ [proofs[j] EXCEPT !.peers = @ \ {m}] \in Proof
    BY EntryType DEF Proof
  <2>2. proofs' = [proofs EXCEPT ![j] = [proofs[j] EXCEPT !.peers = @ \ {m}]]
    BY <1>6 DEF SendProof, SendProofFails
  <2> QED BY <1>3, <2>1, <2>2 DEF Proof
<1>7. ASSUME NEW j \in DOMAIN proofs, MPHFFails(j) PROVE Kept(id)
  <2>1. /\ proofs[j] \in Proof
        /\ [proofs[j] EXCEPT !.pc = "failed", !.peers = {}] \in Proof
    BY EntryType DEF Proof
  <2>2. /\ proofs' = [proofs EXCEPT ![j] = [proofs[j] EXCEPT !.pc = "failed", !.peers = {}]]
        /\ proofs[j].pc = "snapshot"
    BY <1>7 DEF MPHFFails, TypeOK
  <2> QED BY <1>3, <2>1, <2>2 DEF Proof
<1>8. ASSUME NEW n \in Node, Crash(n) PROVE Kept(id)
  BY <1>8, EntryType DEF Crash, Proof, Kept
<1>9. ASSUME NEW j \in DOMAIN proofs, NEW m \in Node, handlerIncomingRequest(j, m)
      PROVE  Kept(id)
  <2>1. proofs[j].creator \in Node /\ proofs[j].nonce \in Nonce
    BY EntryType DEF Proof
  <2> QED BY <1>1, <1>2, <1>9, <2>1 DEF handlerIncomingRequest
<1>10. ASSUME NEW j \in DOMAIN proofs, NEW m \in Node, Exchange(j, m) PROVE Kept(id)
  <2>1. SendProof(j, m) \/ handlerIncomingRequest(j, m) \/ proofs' = proofs
    BY <1>10 DEF Exchange, handlerIncomingProof, UploadDoneReceived, handlerIncomingMaintain,
                 PushChunk, handlerPushsync, UploadDone
  <2> QED BY <1>1, <1>6, <1>9, <2>1
<1>11. CASE Environment
  <2>1. \/ proofs' = proofs
        \/ \E n \in Node : Crash(n)
        \/ \E j \in DOMAIN proofs : MPHFFails(j) \/ \E m \in Node : SendProofFails(j, m)
    BY <1>11 DEF Environment, SetEnabled, Evict, RetrieveFails, UploadDoneLost, PushFails,
                 RequestFails
  <2> QED BY <1>1, <1>6, <1>7, <1>8, <2>1
<1>12. CASE UNCHANGED vars
  BY <1>1, <1>12 DEF vars
<1>13. CASE Next
  <2>1. CASE \E n \in Node : Create(n)
    BY <1>4, <2>1
  <2>2. CASE \E j \in DOMAIN proofs : CreateMPHF(j) \/ \E m \in Node : Exchange(j, m)
    BY <1>5, <1>10, <2>2
  <2> QED BY <1>11, <1>13, <2>1, <2>2 DEF Next
<1> QED BY <1>12, <1>13

(* So what a peer has proved for a nonce only grows.                            *)
LEMMA ProvedGrows ==
    ASSUME TypeOK, [Next]_vars, NEW n \in Node, NEW nc \in Nonce
    PROVE  Proved(n, nc) \subseteq Proved(n, nc)'
<1> SUFFICES ASSUME NEW c \in Proved(n, nc) PROVE c \in Proved(n, nc)'
  OBVIOUS
<1>1. PICK id \in DOMAIN proofs : /\ proofs[id].creator = n /\ proofs[id].nonce = nc
                                  /\ proofs[id].pc = "built" /\ c \in proofs[id].base
  BY DEF Proved
<1>2. /\ id \in DOMAIN proofs' /\ proofs'[id].creator = n /\ proofs'[id].nonce = nc
      /\ proofs'[id].pc = "built" /\ c \in proofs'[id].base
  BY <1>1, ProofsGrow DEF Kept
<1> QED BY <1>2 DEF Proved

(* CreateMPHF installs only chunks of the proof it builds; a crash, nothing.    *)
LEMMA MappingStep ==
    ASSUME TypeOK, MappingProved, [Next]_vars PROVE MappingProved'
<1>1. CASE mapValToChunkId' = mapValToChunkId
  <2> SUFFICES ASSUME NEW n \in Node, NEW nc \in Nonce, NEW v \in DOMAIN mapValToChunkId[n][nc]
               PROVE  mapValToChunkId[n][nc][v] \in Proved(n, nc)'
    BY <1>1 DEF MappingProved
  <2> QED BY ProvedGrows DEF MappingProved
<1>2. ASSUME NEW id \in DOMAIN proofs, CreateMPHF(id) PROVE MappingProved'
  <2> DEFINE p == proofs[id]
  <2>1. p \in Proof /\ p.base \in SUBSET Chunk /\ p.creator \in Node /\ p.nonce \in Nonce
    BY EntryType DEF Proof
  <2>2. PICK f \in MPHFs(p.base) :
          LET built == [p EXCEPT !.pc = "built", !.mphf = f] IN
          /\ proofs' = [proofs EXCEPT ![id] = built]
          /\ mapValToChunkId' =
               [mapValToChunkId EXCEPT ![p.creator][p.nonce] =
                  [v \in 1 .. Length(built) |-> ChunkOf(built, v)]]
    BY <1>2 DEF CreateMPHF
  <2> DEFINE built == [p EXCEPT !.pc = "built", !.mphf = f]
             mapping == [v \in 1 .. Length(built) |-> ChunkOf(built, v)]
  <2>3. built.base = p.base /\ built.mphf = f /\ built.pc = "built"
        /\ built.creator = p.creator /\ built.nonce = p.nonce
    BY <2>1 DEF Proof
  <2>4. \A v \in DOMAIN mapping : mapping[v] \in p.base
    <3>1. \A v \in 1 .. Cardinality(p.base) : ChunkOf(built, v) \in p.base
      BY <2>1, <2>3, MPHFMapsBase DEF ChunkOf
    <3>2. Length(built) = Cardinality(p.base)
      BY <2>3 DEF Length
    <3> QED BY <3>1, <3>2
  <2> HIDE DEF built, mapping
  <2>5. ASSUME NEW n \in Node, NEW nc \in Nonce, n = p.creator, nc = p.nonce
        PROVE  p.base \subseteq Proved(n, nc)'
    <3>1. id \in DOMAIN proofs' /\ proofs'[id] = built
      BY <2>2 DEF built, TypeOK
    <3> QED BY <2>3, <2>5, <3>1 DEF Proved
  <2>6. mapValToChunkId' = [mapValToChunkId EXCEPT ![p.creator][p.nonce] = mapping]
    BY <2>2 DEF built, mapping
  <2> SUFFICES ASSUME NEW n \in Node, NEW nc \in Nonce,
                      NEW v \in DOMAIN mapValToChunkId'[n][nc]
               PROVE  mapValToChunkId'[n][nc][v] \in Proved(n, nc)'
    BY DEF MappingProved
  <2>7. CASE n = p.creator /\ nc = p.nonce
    <3>1. mapValToChunkId'[n][nc] = mapping
      BY <2>6, <2>7 DEF TypeOK
    <3> QED BY <2>4, <2>5, <2>7, <3>1
  <2>8. CASE ~(n = p.creator /\ nc = p.nonce)
    <3>1. mapValToChunkId'[n][nc] = mapValToChunkId[n][nc]
      BY <2>1, <2>6, <2>8 DEF TypeOK
    <3> QED BY <3>1, ProvedGrows DEF MappingProved
  <2> QED BY <2>7, <2>8
<1>3. ASSUME NEW x \in Node, Crash(x) PROVE MappingProved'
  <2> SUFFICES ASSUME NEW n \in Node, NEW nc \in Nonce,
                      NEW v \in DOMAIN mapValToChunkId'[n][nc]
               PROVE  mapValToChunkId'[n][nc][v] \in Proved(n, nc)'
    BY DEF MappingProved
  <2>1. mapValToChunkId' = [mapValToChunkId EXCEPT ![x] = [y \in Nonce |-> <<>>]]
    BY <1>3, Zenon DEF Crash
  <2>2. CASE n = x
    BY <2>1, <2>2 DEF TypeOK
  <2>3. CASE n # x
    <3>1. mapValToChunkId'[n][nc] = mapValToChunkId[n][nc]
      BY <2>1, <2>3 DEF TypeOK
    <3> QED BY <3>1, ProvedGrows DEF MappingProved
  <2> QED BY <2>2, <2>3
<1>4. \/ mapValToChunkId' = mapValToChunkId
      \/ \E id \in DOMAIN proofs : CreateMPHF(id)
      \/ \E n \in Node : Crash(n)
  <2>1. ASSUME NEW id \in DOMAIN proofs, NEW m \in Node, Exchange(id, m)
        PROVE  mapValToChunkId' = mapValToChunkId
    BY <2>1 DEF Exchange, SendProof, handlerIncomingProof, UploadDoneReceived, PushChunk,
                handlerIncomingMaintain, handlerPushsync, UploadDone, handlerIncomingRequest
  <2>2. ASSUME Environment, \A n \in Node : ~Crash(n)
        PROVE  mapValToChunkId' = mapValToChunkId
    BY <2>2 DEF Environment, SetEnabled, Evict, MPHFFails, SendProofFails,
                RetrieveFails, UploadDoneLost, PushFails, RequestFails
  <2>3. ASSUME NEW n \in Node, Create(n) PROVE mapValToChunkId' = mapValToChunkId
    BY <2>3 DEF Create, CreateAndSendProofForMyChunks
  <2> QED BY <2>1, <2>2, <2>3 DEF Next, vars
<1> QED BY <1>1, <1>2, <1>3, <1>4

------------------------------------------------------------------------------
(* What a step can do to one exchange, as far as uploads are concerned.         *)
Uploads(s) == s.todo \cup s.push

NoNewUpload(s, t) == Uploads(t) \subseteq Uploads(s) /\ (t.cpc = "idle" <=> s.cpc = "idle")

Accepts(id, m) ==
    /\ id \in DOMAIN proofs /\ proofs[id].creator \in Neighbor[m]
    /\ session'[id][m].cpc = "maintain"
    /\ Uploads(session'[id][m]) = Uploads(session[id][m])

Answers(id, m) ==
    LET p == proofs[id]
        s == session[id][m]
        t == session'[id][m]
    IN
    /\ id \in DOMAIN proofs /\ s.cpc \in {"maintain", "waiting"} /\ t.cpc = "uploading"
    /\ Uploads(t) \subseteq GetMissingChunks(p.creator, p.nonce, s.missing) \cup Uploads(s)

Stepped(id, m) ==
    \/ NoNewUpload(session[id][m], session'[id][m])
    \/ Accepts(id, m)
    \/ Answers(id, m)

(* Only handlerIncomingMaintain gives a creator something new to upload, and    *)
(* only handlerIncomingProof lets it begin.                                     *)
LEMMA SessionStep ==
    ASSUME TypeOK, [Next]_vars, NEW id \in ProofId, NEW m \in Node
    PROVE  Stepped(id, m)
<1>1. CASE session' = session
  BY <1>1 DEF NoNewUpload, Stepped
<1>2. ASSUME NEW j \in DOMAIN proofs, NEW k \in Node, NEW t \in Session,
             session' = [session EXCEPT ![j][k] = t], NoNewUpload(session[j][k], t)
      PROVE  Stepped(id, m)
  <2>1. CASE j = id /\ k = m
    <3>1. j \in ProofId /\ session \in [ProofId -> [Node -> Session]]
      BY DEF TypeOK, ProofId
    <3>2. session'[j][k] = t
      BY <1>2, <3>1
    <3> QED BY <1>2, <2>1, <3>2 DEF Stepped
  <2>2. CASE ~(j = id /\ k = m)
    <3>1. session'[id][m] = session[id][m]
      BY <1>2, <2>2, SessionUpdate
    <3> QED BY <3>1 DEF NoNewUpload, Stepped
  <2> QED BY <2>1, <2>2
<1>3. ASSUME NEW j \in DOMAIN proofs, NEW k \in Node, NEW t \in Session,
             session' = [session EXCEPT ![j][k] = t], j # id \/ k # m
      PROVE  Stepped(id, m)
  <2>1. session'[id][m] = session[id][m]
    BY <1>3, SessionUpdate
  <2> QED BY <2>1 DEF NoNewUpload, Stepped
<1>4. ASSUME NEW j \in DOMAIN proofs, NEW k \in Node, SendProof(j, k)
      PROVE  Stepped(id, m)
  <2>1. session[j][k] \in Session
    BY EntryType
  <2>2. \/ session' = session
        \/ session' = [session EXCEPT ![j][k] = [session[j][k] EXCEPT !.rpc = "proof"]]
    BY <1>4 DEF SendProof
  <2>3. [session[j][k] EXCEPT !.rpc = "proof"] \in Session
    BY <2>1 DEF Session
  <2>4. NoNewUpload(session[j][k], [session[j][k] EXCEPT !.rpc = "proof"])
    BY <2>1 DEF NoNewUpload, Uploads, Session
  <2> QED BY <1>1, <1>2, <2>2, <2>3, <2>4
<1>5. ASSUME NEW j \in DOMAIN proofs, NEW k \in Node, handlerIncomingProof(j, k)
      PROVE  Stepped(id, m)
  <2> DEFINE s == session[j][k]
             expected == FindMissingChunks(proofs[j], k)
             missing == GetMissingVals(expected)
             sent == [s EXCEPT !.rpc = "maintain", !.cpc = "maintain", !.missing = missing,
                               !.dup = GotMissingAndDuplicate(expected)]
  <2>1. s \in Session /\ proofs[j] \in Proof
    BY EntryType
  <2>2. sent \in Session
    <3>1. missing \in SUBSET Nat
      <4>1. Length(proofs[j]) \in Nat
        BY <2>1, FS_Subset, FS_CardinalityType DEF Length, Proof
      <4> QED BY <4>1 DEF FindMissingChunks, GetMissingVals
    <3>2. GotMissingAndDuplicate(expected) \in BOOLEAN
      BY DEF GotMissingAndDuplicate
    <3> HIDE DEF missing, expected
    <3> QED BY <2>1, <3>1, <3>2 DEF Session
  <2>3. Uploads(sent) = Uploads(s) /\ sent.cpc = "maintain"
    BY <2>1 DEF Uploads, Session
  <2> HIDE DEF sent
  <2>4. CASE /\ session' = [session EXCEPT ![j][k] = sent]
             /\ proofs[j].creator \in Neighbor[k]
    <3>1. CASE j = id /\ k = m
      <4>1. session'[j][k] = sent
        BY <2>4, EntryType DEF TypeOK
      <4> QED BY <2>3, <2>4, <3>1, <4>1 DEF Accepts, Stepped
    <3>2. CASE ~(j = id /\ k = m)
      BY <1>3, <2>2, <2>4, <3>2
    <3> QED BY <3>1, <3>2
  <2>5. CASE \/ session' = [session EXCEPT ![j][k] = [s EXCEPT !.rpc = "failed"]]
             \/ session' = [session EXCEPT ![j][k] = [s EXCEPT !.rpc = "done"]]
    <3>1. [s EXCEPT !.rpc = "failed"] \in Session /\ [s EXCEPT !.rpc = "done"] \in Session
      BY <2>1 DEF Session
    <3>2. /\ NoNewUpload(s, [s EXCEPT !.rpc = "failed"])
          /\ NoNewUpload(s, [s EXCEPT !.rpc = "done"])
      BY <2>1 DEF NoNewUpload, Uploads, Session
    <3> QED BY <1>2, <2>5, <3>1, <3>2
  <2> QED BY <1>5, <2>4, <2>5 DEF handlerIncomingProof, verifySignature, sent
<1>6. ASSUME NEW j \in DOMAIN proofs, NEW k \in Node, handlerIncomingMaintain(j, k)
      PROVE  Stepped(id, m)
  <2> DEFINE s == session[j][k]
             up == GetMissingChunks(proofs[j].creator, proofs[j].nonce, s.missing)
             answer == [s EXCEPT !.cpc = "uploading", !.todo = up]
  <2>1. s \in Session /\ proofs[j] \in Proof
    BY EntryType
  <2>2. up \in SUBSET Chunk
    <3>1. store[proofs[j].creator] \in SUBSET Chunk
      BY <2>1 DEF TypeOK, Proof
    <3> QED BY <3>1 DEF GetMissingChunks
  <2> HIDE DEF up
  <2>3. answer \in Session /\ answer.cpc = "uploading" /\ Uploads(answer) \subseteq up \cup Uploads(s)
    BY <2>1, <2>2 DEF Session, Uploads
  <2> HIDE DEF answer
  <2>4. CASE session' = [session EXCEPT ![j][k] = answer]
    <3>1. CASE j = id /\ k = m
      <4>1. session'[j][k] = answer
        BY <2>4, EntryType DEF TypeOK
      <4>2. session[id][m].cpc \in {"maintain", "waiting"}
        BY <1>6, <3>1 DEF handlerIncomingMaintain
      <4> QED BY <2>3, <3>1, <4>1, <4>2 DEF Answers, Stepped, up
    <3>2. CASE ~(j = id /\ k = m)
      BY <1>3, <2>3, <2>4, <3>2
    <3> QED BY <3>1, <3>2
  <2>5. CASE \/ session' = [session EXCEPT ![j][k] = [s EXCEPT !.cpc = "failed"]]
             \/ session' = [session EXCEPT ![j][k] = [s EXCEPT !.cpc = "waiting"]]
    <3>1. [s EXCEPT !.cpc = "failed"] \in Session /\ [s EXCEPT !.cpc = "waiting"] \in Session
      BY <2>1 DEF Session
    <3>2. /\ NoNewUpload(s, [s EXCEPT !.cpc = "failed"])
          /\ NoNewUpload(s, [s EXCEPT !.cpc = "waiting"])
      BY <1>6, <2>1 DEF handlerIncomingMaintain, NoNewUpload, Uploads, Session
    <3> QED BY <1>2, <2>5, <3>1, <3>2
  <2>6. \/ session' = [session EXCEPT ![j][k] = [s EXCEPT !.cpc = "failed"]]
        \/ session' = [session EXCEPT ![j][k] = [s EXCEPT !.cpc = "waiting"]]
        \/ session' = [session EXCEPT ![j][k] = answer]
    BY <1>6 DEF handlerIncomingMaintain, answer, up
  <2> QED BY <2>4, <2>5, <2>6
<1>7. ASSUME NEW j \in DOMAIN proofs, NEW k \in Node, PushChunk(j, k)
      PROVE  Stepped(id, m)
  <2> DEFINE s == session[j][k]
  <2>1. s \in Session
    BY EntryType
  <2>2. PICK c \in s.todo :
          session' = [session EXCEPT ![j][k] = [s EXCEPT !.todo = @ \ {c}, !.push = {c}]]
    BY <1>7 DEF PushChunk
  <2>3. s.todo \ {c} \in SUBSET Chunk /\ {c} \in SUBSET Chunk
    BY <2>1 DEF Session
  <2>4. [s EXCEPT !.todo = @ \ {c}, !.push = {c}] \in Session
    BY <2>1, <2>3 DEF Session
  <2>5. NoNewUpload(s, [s EXCEPT !.todo = @ \ {c}, !.push = {c}])
    BY <2>1 DEF NoNewUpload, Uploads, Session
  <2> QED BY <1>2, <2>2, <2>4, <2>5
<1>8. ASSUME NEW j \in DOMAIN proofs, NEW k \in Node,
             UploadDoneReceived(j, k) \/ UploadDone(j, k) \/ handlerPushsync(j, k)
               \/ handlerIncomingRequest(j, k) \/ PushFails(j, k) \/ RequestFails(j, k)
               \/ RetrieveFails(j, k) \/ UploadDoneLost(j, k)
      PROVE  Stepped(id, m)
  <2> DEFINE s == session[j][k]
  <2>1. s \in Session
    BY EntryType
  <2>2. \/ session' = [session EXCEPT ![j][k] = [s EXCEPT !.rpc = "done", !.request = s.dup]]
        \/ /\ session' = [session EXCEPT ![j][k] = [s EXCEPT !.cpc = "done"]]
           /\ s.cpc = "uploading"
        \/ session' = [session EXCEPT ![j][k] = [s EXCEPT !.push = {}]]
        \/ session' = [session EXCEPT ![j][k] = [s EXCEPT !.request = FALSE]]
        \/ session' = [session EXCEPT ![j][k] = [s EXCEPT !.rpc = "failed"]]
    BY <1>8 DEF UploadDoneReceived, UploadDone, handlerPushsync, handlerIncomingRequest,
                PushFails, RequestFails, RetrieveFails, UploadDoneLost
  <2>3. /\ [s EXCEPT !.rpc = "done", !.request = s.dup] \in Session
        /\ [s EXCEPT !.cpc = "done"] \in Session
        /\ [s EXCEPT !.push = {}] \in Session
        /\ [s EXCEPT !.request = FALSE] \in Session
        /\ [s EXCEPT !.rpc = "failed"] \in Session
    BY <2>1 DEF Session
  <2>4. /\ NoNewUpload(s, [s EXCEPT !.rpc = "done", !.request = s.dup])
        /\ s.cpc = "uploading" => NoNewUpload(s, [s EXCEPT !.cpc = "done"])
        /\ NoNewUpload(s, [s EXCEPT !.push = {}])
        /\ NoNewUpload(s, [s EXCEPT !.request = FALSE])
        /\ NoNewUpload(s, [s EXCEPT !.rpc = "failed"])
    BY <2>1 DEF NoNewUpload, Uploads, Session
  <2> HIDE DEF s
  <2> QED BY <1>2, <2>2, <2>3, <2>4 DEF s
<1>9. ASSUME NEW n \in Node, Crash(n) PROVE Stepped(id, m)
  <2>1. session[id][m] \in Session
    BY DEF TypeOK
  <2>2. NoNewUpload(session[id][m], session'[id][m])
    BY <1>9, <2>1 DEF Crash, NoNewUpload, Uploads, Session
  <2> QED BY <2>2 DEF Stepped
<1>10. ASSUME NEW j \in DOMAIN proofs, NEW k \in Node, Exchange(j, k) PROVE Stepped(id, m)
  BY <1>4, <1>5, <1>6, <1>7, <1>8, <1>10 DEF Exchange
<1>11. CASE Environment
  <2>1. \/ session' = session
        \/ \E n \in Node : Crash(n)
        \/ \E j \in DOMAIN proofs, k \in Node :
             PushFails(j, k) \/ RequestFails(j, k) \/ RetrieveFails(j, k) \/ UploadDoneLost(j, k)
    BY <1>11 DEF Environment, SetEnabled, Evict, MPHFFails, SendProofFails
  <2> QED BY <1>1, <1>8, <1>9, <2>1
<1>12. CASE \E n \in Node : Create(n)
  BY <1>1, <1>12 DEF Create, CreateAndSendProofForMyChunks
<1>13. CASE \E j \in DOMAIN proofs : CreateMPHF(j) \/ \E k \in Node : Exchange(j, k)
  <2>1. ASSUME NEW j \in DOMAIN proofs, CreateMPHF(j) PROVE session' = session
    BY <2>1 DEF CreateMPHF
  <2> QED BY <1>1, <1>10, <1>13, <2>1
<1>14. CASE UNCHANGED vars
  BY <1>1, <1>14 DEF vars
<1> QED BY <1>11, <1>12, <1>13, <1>14 DEF Next

------------------------------------------------------------------------------
(* Initially nothing is proved, mapped or uploaded.                             *)
LEMMA InvInit == Init => IInv
<1> SUFFICES ASSUME Init PROVE IInv
  OBVIOUS
<1>1. TypeOK
  <2>1. Idle \in Session
    BY DEF Idle, Session
  <2>2. session \in [ProofId -> [Node -> Session]]
    BY <2>1 DEF Init
  <2>3. <<>> \in Seq(Proof) /\ Len(<<>>) = 0 /\ <<>> \in Seq(Chunk)
    OBVIOUS
  <2> QED BY <2>2, <2>3 DEF Init, TypeOK
<1>2. DOMAIN proofs = {} /\ \A n \in Node, nc \in Nonce : DOMAIN mapValToChunkId[n][nc] = {}
  BY DEF Init
<1>3. \A id \in ProofId, m \in Node : session[id][m] = Idle
  BY DEF Init
<1> QED BY <1>1, <1>2, <1>3 DEF IInv, MappingProved, Accepted, Quiet, UploadsWereProved, Idle

(* A proof that appears has had no exchange yet.                                *)
LEMMA NewIsQuiet ==
    ASSUME IInv, [Next]_vars, NEW id \in ProofId \ DOMAIN proofs, NEW m \in Node
    PROVE  session'[id][m].cpc = "idle" /\ Uploads(session'[id][m]) = {}
<1>1. session[id][m].cpc = "idle" /\ Uploads(session[id][m]) = {}
  BY DEF IInv, Quiet, Uploads
<1>2. NoNewUpload(session[id][m], session'[id][m])
  BY SessionStep DEF IInv, Stepped, Accepts, Answers
<1> QED BY <1>1, <1>2 DEF NoNewUpload

(* The invariant is inductive: what a Maintain is answered with comes from a     *)
(* mapping of proved chunks, and proofs once built stay built.                  *)
LEMMA InvStep == IInv /\ [Next]_vars => IInv'
<1> SUFFICES ASSUME IInv, [Next]_vars PROVE IInv'
  OBVIOUS
<1> USE DEF IInv
<1>1. TypeOK'
  BY TypeStep
<1>2. MappingProved'
  BY MappingStep
<1>3. \A id \in ProofId, m \in Node : session'[id][m] \in Session
  BY <1>1 DEF TypeOK
<1>4. ASSUME NEW id \in DOMAIN proofs', NEW m \in Node, session'[id][m].cpc # "idle"
      PROVE  proofs'[id].creator \in Neighbor[m]
  <2>1. id \in ProofId
    BY <1>1 DEF TypeOK, ProofId
  <2>2. id \in DOMAIN proofs
    BY <1>4, <2>1, NewIsQuiet
  <2>3. proofs'[id].creator = proofs[id].creator
    BY <2>2, ProofsGrow DEF Kept
  <2>4. session[id][m].cpc # "idle" \/ Accepts(id, m)
    BY <1>4, <2>1, SessionStep DEF Stepped, NoNewUpload, Answers
  <2> QED BY <2>2, <2>3, <2>4 DEF Accepted, Accepts
<1>5. Accepted'
  BY <1>4 DEF Accepted
<1>6. Quiet'
  <2> SUFFICES ASSUME NEW id \in ProofId, NEW m \in Node
               PROVE  /\ session'[id][m].cpc = "idle" => Uploads(session'[id][m]) = {}
                      /\ id \notin DOMAIN proofs' => session'[id][m].cpc = "idle"
    BY DEF Quiet, Uploads
  <2>1. CASE id \notin DOMAIN proofs
    BY <2>1, NewIsQuiet
  <2>2. CASE id \in DOMAIN proofs
    <3>1. id \in DOMAIN proofs'
      BY <2>2, ProofsGrow DEF Kept
    <3>2. session[id][m].cpc = "idle" => Uploads(session[id][m]) = {}
      BY DEF Quiet, Uploads
    <3> QED BY <3>1, <3>2, SessionStep DEF Stepped, NoNewUpload, Accepts, Answers
  <2> QED BY <2>1, <2>2
<1>7. ASSUME NEW id \in DOMAIN proofs', NEW m \in Node, NEW c \in Uploads(session'[id][m])
      PROVE  /\ c \in Proved(proofs[id].creator, proofs[id].nonce)'
             /\ proofs'[id].creator \in Neighbor[m]
  <2>1. id \in ProofId
    BY <1>1 DEF TypeOK, ProofId
  <2>2. id \in DOMAIN proofs
    BY <1>7, <2>1, NewIsQuiet
  <2>3. PICK n \in Node, nc \in Nonce : proofs[id].creator = n /\ proofs[id].nonce = nc
    BY <2>2, EntryType DEF Proof
  <2>4. c \in Proved(n, nc)
    <3>1. CASE c \in Uploads(session[id][m])
      BY <2>2, <2>3, <3>1 DEF UploadsWereProved, Uploads
    <3>2. CASE Answers(id, m) /\ c \notin Uploads(session[id][m])
      <4>1. c \in GetMissingChunks(n, nc, session[id][m].missing)
        BY <1>7, <2>3, <3>2 DEF Answers
      <4>2. PICK v \in DOMAIN mapValToChunkId[n][nc] : c = mapValToChunkId[n][nc][v]
        BY <4>1 DEF GetMissingChunks
      <4> QED BY <4>2 DEF MappingProved
    <3> QED BY <1>7, <2>1, <3>1, <3>2, SessionStep DEF Stepped, NoNewUpload, Accepts
  <2>5. proofs'[id].creator = n /\ proofs'[id].nonce = nc
    BY <2>2, <2>3, ProofsGrow DEF Kept
  <2>6. c \in Proved(n, nc)'
    BY <2>4, ProvedGrows
  <2>7. session'[id][m].cpc # "idle"
    BY <1>6, <1>7, <2>1 DEF Quiet, Uploads
  <2>8. Proved(proofs[id].creator, proofs[id].nonce)' = Proved(n, nc)'
    BY <2>5 DEF Proved
  <2> QED BY <1>4, <2>6, <2>7, <2>8
<1>8. UploadsWereProved'
  BY <1>7 DEF UploadsWereProved, Uploads
<1> QED BY <1>1, <1>2, <1>5, <1>6, <1>8

(* The type invariant: every reachable state of Snips is well formed.           *)
THEOREM TypeCorrect == Spec => []TypeOK
<1>1. IInv => TypeOK
  BY DEF IInv
<1> QED BY <1>1, InvInit, InvStep, PTL DEF Spec

(* Whatever proofs for a nonce replace one another's mapping, a creator only    *)
(* uploads chunks it proved for that nonce, to peers that count it among their  *)
(* neighbours.                                                                  *)
THEOREM UploadsProved == Spec => []UploadsWereProved
<1>1. IInv => UploadsWereProved
  BY DEF IInv
<1> QED BY <1>1, InvInit, InvStep, PTL DEF Spec

------------------------------------------------------------------------------
(* A step that appends no proof advertises nothing.                             *)
LEMMA SameAdvertised ==
    ASSUME TypeOK, [Next]_vars, DOMAIN proofs' = DOMAIN proofs
    PROVE  Advertised' = Advertised
<1>1. \A id \in DOMAIN proofs : /\ proofs'[id].creator = proofs[id].creator
                                /\ proofs'[id].base = proofs[id].base
  BY ProofsGrow DEF Kept
<1> QED BY <1>1 DEF Advertised

(* NewProof advertises what its snapshot holds.                                 *)
LEMMA NewAdvertised ==
    ASSUME TypeOK, NEW n \in Node, NEW nc \in Nonce, NEW peers \in SUBSET Node,
           NewProof(n, nc, peers)
    PROVE  \E cs \in SUBSET (store[n] \cap Radius[n]) :
             Advertised' = [Advertised EXCEPT ![n] = @ \cup cs]
<1> DEFINE new == Len(proofs) + 1
<1>1. /\ DOMAIN proofs' = DOMAIN proofs \cup {new}
      /\ proofs'[new].creator = n /\ proofs'[new].base \subseteq store[n] \cap Radius[n]
      /\ \A id \in DOMAIN proofs : proofs'[id] = proofs[id]
      /\ new \notin DOMAIN proofs
  <2>1. DOMAIN proofs = 1 .. Len(proofs) /\ Len(proofs) \in Nat
    BY DEF TypeOK
  <2>2. new \notin DOMAIN proofs
    BY <2>1
  <2> QED BY <2>2, NewProofType
<1> HIDE DEF new
<1>2. ASSUME NEW k \in Node, k # n PROVE Advertised'[k] = Advertised[k]
  BY <1>1, <1>2 DEF Advertised
<1>3. Advertised'[n] = Advertised[n] \cup proofs'[new].base
  BY <1>1 DEF Advertised
<1>4. Advertised' = [Advertised EXCEPT ![n] = @ \cup proofs'[new].base]
  BY <1>2, <1>3 DEF Advertised
<1> QED BY <1>1, <1>4

(* Initially nothing is advertised.                                             *)
LEMMA SyncInit == Init => Sync!Init
BY DEF Init, Sync!Init, Advertised

(* The step that matters is handlerPushsync: the stored chunk was proved, and   *)
(* what is proved is advertised.                                                *)
LEMMA SyncStep == IInv /\ [Next]_vars => [Sync!Next]_(Sync!vars)
<1> SUFFICES ASSUME IInv, [Next]_vars PROVE Sync!Next \/ UNCHANGED Sync!vars
  OBVIOUS
<1>1. TypeOK /\ UploadsWereProved
  BY DEF IInv
<1>2. ASSUME UNCHANGED store, DOMAIN proofs' = DOMAIN proofs PROVE UNCHANGED Sync!vars
  BY <1>1, <1>2, SameAdvertised DEF Sync!vars
<1>3. ASSUME NEW n \in Node, NEW nc \in Nonce, NEW peers \in SUBSET Node,
             NewProof(n, nc, peers), UNCHANGED store
      PROVE  Sync!Next
  BY <1>1, <1>3, NewAdvertised DEF Sync!Next, Sync!Advertise
<1>4. ASSUME NEW n \in Node, NEW c \in Chunk, Evict(n, c) PROVE Sync!Next
  <2>1. Advertised' = Advertised
    BY <1>1, <1>4, SameAdvertised DEF Evict
  <2> QED BY <1>4, <2>1 DEF Evict, Sync!Next, Sync!Evict
<1>5. ASSUME NEW id \in DOMAIN proofs, NEW m \in Node, handlerPushsync(id, m)
      PROVE  Sync!Next
  <2> DEFINE cs == session[id][m].push
  <2>1. PICK n \in Node, nc \in Nonce : proofs[id].creator = n /\ proofs[id].nonce = nc
    BY <1>1, EntryType DEF Proof
  <2>2. cs # {} /\ store' = [store EXCEPT ![m] = @ \cup cs]
    BY <1>5 DEF handlerPushsync
  <2>3. n \in Neighbor[m] /\ cs \subseteq Proved(n, nc)
    BY <1>1, <2>1, <2>2 DEF UploadsWereProved
  <2>4. Proved(n, nc) \subseteq Advertised[n]
    BY DEF Proved, Advertised
  <2>5. Advertised' = Advertised
    BY <1>1, <1>5, SameAdvertised DEF handlerPushsync
  <2> QED BY <2>2, <2>3, <2>4, <2>5 DEF Sync!Next, Sync!Replicate
<1>6. ASSUME NEW n \in Node, Create(n) PROVE Sync!Next
  BY <1>3, <1>6 DEF Create, CreateAndSendProofForMyChunks
<1>7. ASSUME NEW id \in DOMAIN proofs, CreateMPHF(id) PROVE UNCHANGED Sync!vars
  <2>1. DOMAIN proofs' = DOMAIN proofs /\ UNCHANGED store
    BY <1>1, <1>7 DEF CreateMPHF, TypeOK
  <2> QED BY <1>2, <2>1
<1>8. ASSUME NEW id \in DOMAIN proofs, NEW m \in Node, Exchange(id, m)
      PROVE  Sync!Next \/ UNCHANGED Sync!vars
  <2>1. CASE handlerIncomingRequest(id, m)
    <3>1. proofs[id].creator \in Node /\ proofs[id].nonce \in Nonce
      BY <1>1, EntryType DEF Proof
    <3> QED BY <1>2, <1>3, <2>1, <3>1 DEF handlerIncomingRequest
  <2>2. CASE handlerPushsync(id, m)
    BY <1>5, <2>2
  <2>3. CASE SendProof(id, m)
    <3>1. DOMAIN proofs' = DOMAIN proofs /\ UNCHANGED store
      BY <1>1, <2>3 DEF SendProof, TypeOK
    <3> QED BY <1>2, <3>1
  <2>4. CASE \/ handlerIncomingProof(id, m) \/ UploadDoneReceived(id, m)
             \/ handlerIncomingMaintain(id, m) \/ PushChunk(id, m) \/ UploadDone(id, m)
    <3>1. UNCHANGED <<proofs, store>>
      BY <2>4 DEF handlerIncomingProof, UploadDoneReceived, handlerIncomingMaintain,
                  PushChunk, UploadDone
    <3> QED BY <1>2, <3>1
  <2> QED BY <1>8, <2>1, <2>2, <2>3, <2>4 DEF Exchange
<1>9. CASE Environment
  <2>1. ASSUME NEW n \in Node, Crash(n) PROVE UNCHANGED Sync!vars
    <3>1. DOMAIN proofs' = DOMAIN proofs /\ UNCHANGED store
      BY <2>1, Zenon DEF Crash
    <3> QED BY <1>2, <3>1
  <2>2. ASSUME NEW n \in Node, SetEnabled(n) PROVE UNCHANGED Sync!vars
    BY <1>2, <2>2 DEF SetEnabled
  <2>3. ASSUME NEW id \in DOMAIN proofs, MPHFFails(id) PROVE UNCHANGED Sync!vars
    <3>1. DOMAIN proofs' = DOMAIN proofs /\ UNCHANGED store
      BY <1>1, <2>3 DEF MPHFFails, TypeOK
    <3> QED BY <1>2, <3>1
  <2>4. ASSUME NEW id \in DOMAIN proofs, NEW m \in Node,
               \/ SendProofFails(id, m) \/ RetrieveFails(id, m) \/ UploadDoneLost(id, m)
               \/ PushFails(id, m) \/ RequestFails(id, m)
        PROVE  UNCHANGED Sync!vars
    <3>1. DOMAIN proofs' = DOMAIN proofs /\ UNCHANGED store
      BY <1>1, <2>4 DEF SendProofFails, RetrieveFails, UploadDoneLost, PushFails, RequestFails,
                     TypeOK
    <3> QED BY <1>2, <3>1
  <2> QED BY <1>4, <1>9, <2>1, <2>2, <2>3, <2>4 DEF Environment
<1>10. CASE UNCHANGED vars
  BY <1>2, <1>10 DEF vars
<1> QED BY <1>6, <1>7, <1>8, <1>9, <1>10 DEF Next

(* SNIPS, with its crashes, losses, evictions and stale mappings, replicates    *)
(* only as ChunkSync allows.                                                    *)
THEOREM SnipsImplementsChunkSync == Spec => ImplementsChunkSync
BY InvInit, InvStep, SyncInit, SyncStep, PTL DEF Spec, ImplementsChunkSync, Sync!Spec

------------------------------------------------------------------------------
(* SoleProofIsAnswered and CompleteWhenClean.                                   *)

(* An exchange begins when its proof is sent, which is done once and only of a  *)
(* proof that is built.                                                         *)
Fresh ==
    \A id \in ProofId, m \in Node :
        LET s == session[id][m] IN
        /\ s.rpc \in {"idle", "proof"} => s.cpc = "idle" /\ s.missing = {}
        /\ s.rpc # "idle" => id \in DOMAIN proofs /\ proofs[id].pc = "built" /\ m \notin proofs[id].peers

BuiltByMPHF ==
    \A id \in DOMAIN proofs :
        proofs[id].pc = "built" => proofs[id].mphf \in MPHFs(proofs[id].base)

(* What CreateMPHF makes of proof p for the nonce.                              *)
Mapping(p) == [v \in 1 .. Length(p) |-> ChunkOf(p, v)]
Asked(p, s) == {ChunkOf(p, v) : v \in s.missing}

(* The mapping of a nonce with one proof is that of the proof, or was lost in a *)
(* crash.                                                                       *)
SoleMapping ==
    \A id \in DOMAIN proofs :
        LET p == proofs[id]
            mapping == mapValToChunkId[p.creator][p.nonce]
        IN  p.pc = "built" /\ Sole(id) => mapping = Mapping(p) \/ (mapping = <<>> /\ faults # 0)

(* Without a fault services stay enabled and chunks stay where they are.        *)
Steady ==
    /\ enabled = [n \in Node |-> TRUE]
    /\ \A id \in DOMAIN proofs : proofs[id].base \subseteq store[proofs[id].creator]

(* What the receiver m has found missing of proof id, and what became of it.    *)
Found(id, m) ==
    LET p == proofs[id]
        s == session[id][m]
    IN  s.rpc \in {"maintain", "done"} =>
          /\ s.missing \subseteq 1 .. Length(p)
          /\ \A c \in p.base : c \in store[m] \/ Hidden(p, m, c) \/ p.mphf[c] \in s.missing

Uploaded(id, m) ==
    LET s == session[id][m] IN
    s.cpc \in {"uploading", "done"} => Asked(proofs[id], s) \subseteq store[m] \cup Uploads(s)

Ended(s) ==
    /\ s.cpc # "failed"
    /\ s.rpc = "failed" => s.cpc = "idle"
    /\ s.cpc = "done" => Uploads(s) = {}
    /\ s.rpc = "done" => s.missing = {} \/ s.cpc = "done"

Clean ==
    /\ Steady
    /\ \A id \in DOMAIN proofs, m \in Node :
          Found(id, m) /\ Ended(session[id][m]) /\ (Sole(id) => Uploaded(id, m))

SoleInv == /\ Fresh /\ BuiltByMPHF /\ SoleMapping /\ SoleProofIsAnswered
           /\ faults = 0 => Clean

------------------------------------------------------------------------------
(* What each step does to one exchange, from s to t.                            *)
SameUploads(s, t) == t.todo = s.todo /\ t.push = s.push
SameEnds(s, t) == t.rpc = s.rpc /\ t.cpc = s.cpc /\ t.missing = s.missing

Sending(id, m, s, t) ==
    /\ id \in DOMAIN proofs /\ proofs[id].pc = "built" /\ m \in proofs[id].peers
    /\ m \notin proofs'[id].peers
    /\ t.rpc = "proof" /\ t.cpc = s.cpc /\ t.missing = s.missing /\ SameUploads(s, t)

Asking(id, m, s, t) ==
    LET missing == GetMissingVals(FindMissingChunks(proofs[id], m)) IN
    /\ id \in DOMAIN proofs /\ s.rpc = "proof" /\ SameUploads(s, t)
    /\ \/ t.rpc = "failed" /\ t.cpc = s.cpc /\ t.missing = s.missing
       \/ t.rpc = "done" /\ t.cpc = s.cpc /\ t.missing = s.missing /\ missing = {}
       \/ t.rpc = "maintain" /\ t.cpc = "maintain" /\ t.missing = missing

Returning(s, t) ==
    /\ s.rpc = "maintain" /\ t.rpc = "done" /\ t.cpc = s.cpc /\ t.missing = s.missing
    /\ SameUploads(s, t) /\ (s.cpc \in {"done", "failed"} \/ faults' # 0)

Answering(id, s, t) ==
    LET p == proofs[id] IN
    /\ id \in DOMAIN proofs /\ s.cpc \in {"maintain", "waiting"} /\ t.rpc = s.rpc
    /\ t.missing = s.missing /\ t.push = s.push
    /\ \/ ~enabled[p.creator] /\ t.cpc = "failed" /\ t.todo = s.todo
       \/ t.cpc = "waiting" /\ t.todo = s.todo
       \/ t.cpc = "uploading" /\ t.todo = GetMissingChunks(p.creator, p.nonce, s.missing)

Pushing(m, s, t) ==
    /\ SameEnds(s, t)
    /\ \/ Uploads(t) = Uploads(s)
       \/ t.todo = s.todo /\ t.push = {} /\ (s.push \subseteq store'[m] \/ faults' # 0)

Finishing(s, t) ==
    /\ s.cpc = "uploading" /\ Uploads(s) = {} /\ t.cpc = "done" /\ t.rpc = s.rpc
    /\ t.missing = s.missing /\ SameUploads(s, t)

Crashing(s, t) ==
    /\ faults' # 0 /\ t.missing = s.missing /\ Uploads(t) \subseteq Uploads(s)
    /\ t.rpc = s.rpc \/ (s.rpc \in {"proof", "maintain"} /\ t.rpc = "failed")
    /\ t.cpc = s.cpc \/ (s.cpc \in {"maintain", "waiting", "uploading"} /\ t.cpc = "failed")

Moved(id, m, s, t) ==
    \/ SameEnds(s, t) /\ SameUploads(s, t)
    \/ Sending(id, m, s, t) \/ Asking(id, m, s, t) \/ Returning(s, t) \/ Answering(id, s, t)
    \/ Pushing(m, s, t) \/ Finishing(s, t) \/ Crashing(s, t)

LEMMA Moves ==
    ASSUME TypeOK, [Next]_vars, NEW id \in ProofId, NEW m \in Node
    PROVE  Moved(id, m, session[id][m], session'[id][m])
<1> DEFINE Goal == Moved(id, m, session[id][m], session'[id][m])
<1>1. session'[id][m] = session[id][m] => Goal
  BY DEF Moved, SameEnds, SameUploads
<1>2. ASSUME NEW j \in DOMAIN proofs, NEW k \in Node, NEW t \in Session,
             session' = [session EXCEPT ![j][k] = t], Moved(j, k, session[j][k], t)
      PROVE  Goal
  <2>1. CASE j = id /\ k = m
    <3>1. session'[id][m] = t
      BY <1>2, <2>1, SessionUpdate
    <3> QED BY <1>2, <2>1, <3>1
  <2>2. CASE ~(j = id /\ k = m)
    <3>1. session'[id][m] = session[id][m]
      BY <1>2, <2>2, SessionUpdate
    <3> QED BY <1>1, <3>1
  <2> QED BY <2>1, <2>2
<1>f. Fault => faults' # 0
  BY DEF Fault, TypeOK
<1> HIDE DEF Goal
<1>3. ASSUME NEW j \in DOMAIN proofs, NEW k \in Node, SendProof(j, k) PROVE Goal
  <2> DEFINE s == session[j][k]
             t == [s EXCEPT !.rpc = "proof"]
  <2>1. s \in Session /\ proofs[j] \in Proof
    BY EntryType
  <2>2. t \in Session /\ t.rpc = "proof" /\ t.cpc = s.cpc /\ t.missing = s.missing /\ SameUploads(s, t)
    BY <2>1 DEF Session, SameUploads
  <2>3. session' = session \/ session' = [session EXCEPT ![j][k] = t]
    BY <1>3 DEF SendProof
  <2>4. /\ proofs[j].pc = "built" /\ k \in proofs[j].peers
        /\ proofs' = [proofs EXCEPT ![j] = [proofs[j] EXCEPT !.peers = @ \ {k}]]
    BY <1>3 DEF SendProof
  <2>5. k \notin proofs'[j].peers
    BY <2>1, <2>4 DEF TypeOK, Proof
  <2> HIDE DEF t
  <2>6. Moved(j, k, s, t)
    BY <2>2, <2>4, <2>5 DEF Moved, Sending
  <2> QED BY <1>1, <1>2, <2>2, <2>3, <2>6
<1>4. ASSUME NEW j \in DOMAIN proofs, NEW k \in Node, handlerIncomingProof(j, k) PROVE Goal
  <2> DEFINE s == session[j][k]
             expected == FindMissingChunks(proofs[j], k)
             missing == GetMissingVals(expected)
             failed == [s EXCEPT !.rpc = "failed"]
             done == [s EXCEPT !.rpc = "done"]
             sent == [s EXCEPT !.rpc = "maintain", !.cpc = "maintain", !.missing = missing,
                               !.dup = GotMissingAndDuplicate(expected)]
  <2>1. s \in Session /\ proofs[j] \in Proof
    BY EntryType
  <2>2. missing \in SUBSET Nat
    <3>1. Length(proofs[j]) \in Nat
      BY <2>1, FS_Subset, FS_CardinalityType DEF Length, Proof
    <3> QED BY <3>1 DEF FindMissingChunks, GetMissingVals
  <2>3. GotMissingAndDuplicate(expected) \in BOOLEAN
    BY DEF GotMissingAndDuplicate
  <2>4. /\ s.rpc = "proof"
        /\ \/ session' = [session EXCEPT ![j][k] = failed]
           \/ session' = [session EXCEPT ![j][k] = done] /\ missing = {}
           \/ session' = [session EXCEPT ![j][k] = sent]
    BY <1>4 DEF handlerIncomingProof
  <2>5. missing = GetMissingVals(FindMissingChunks(proofs[j], k))
    OBVIOUS
  <2> HIDE DEF missing, expected
  <2>6. /\ failed \in Session /\ failed.rpc = "failed" /\ failed.cpc = s.cpc
        /\ failed.missing = s.missing /\ SameUploads(s, failed)
    BY <2>1 DEF Session, SameUploads
  <2>7. /\ done \in Session /\ done.rpc = "done" /\ done.cpc = s.cpc
        /\ done.missing = s.missing /\ SameUploads(s, done)
    BY <2>1 DEF Session, SameUploads
  <2>8. /\ sent \in Session /\ sent.rpc = "maintain" /\ sent.cpc = "maintain"
        /\ sent.missing = missing /\ SameUploads(s, sent)
    BY <2>1, <2>2, <2>3 DEF Session, SameUploads
  <2> HIDE DEF failed, done, sent
  <2>9. Moved(j, k, s, failed) /\ (missing = {} => Moved(j, k, s, done)) /\ Moved(j, k, s, sent)
    BY <2>4, <2>5, <2>6, <2>7, <2>8 DEF Moved, Asking
  <2> QED BY <1>2, <2>4, <2>6, <2>7, <2>8, <2>9
<1>5. ASSUME NEW j \in DOMAIN proofs, NEW k \in Node,
             UploadDoneReceived(j, k) \/ UploadDoneLost(j, k)
      PROVE  Goal
  <2> DEFINE s == session[j][k]
             t == [s EXCEPT !.rpc = "done", !.request = s.dup]
  <2>1. s \in Session
    BY EntryType
  <2>2. /\ t \in Session /\ t.rpc = "done" /\ t.cpc = s.cpc /\ t.missing = s.missing
        /\ SameUploads(s, t)
    BY <2>1 DEF Session, SameUploads
  <2>3. /\ session' = [session EXCEPT ![j][k] = t] /\ s.rpc = "maintain"
        /\ s.cpc \in {"done", "failed"} \/ faults' # 0
    BY <1>5, <1>f DEF UploadDoneReceived, UploadDoneLost
  <2> HIDE DEF t
  <2>4. Moved(j, k, s, t)
    BY <2>2, <2>3 DEF Moved, Returning
  <2> QED BY <1>2, <2>2, <2>3, <2>4
<1>6. ASSUME NEW j \in DOMAIN proofs, NEW k \in Node, handlerIncomingMaintain(j, k) PROVE Goal
  <2> DEFINE s == session[j][k]
             up == GetMissingChunks(proofs[j].creator, proofs[j].nonce, s.missing)
             failed == [s EXCEPT !.cpc = "failed"]
             waiting == [s EXCEPT !.cpc = "waiting"]
             answer == [s EXCEPT !.cpc = "uploading", !.todo = up]
  <2>1. s \in Session /\ proofs[j] \in Proof
    BY EntryType
  <2>2. up \in SUBSET Chunk
    <3>1. store[proofs[j].creator] \in SUBSET Chunk
      BY <2>1 DEF TypeOK, Proof
    <3> QED BY <3>1 DEF GetMissingChunks
  <2>3. /\ s.cpc \in {"maintain", "waiting"}
        /\ \/ session' = [session EXCEPT ![j][k] = failed] /\ ~enabled[proofs[j].creator]
           \/ session' = [session EXCEPT ![j][k] = waiting]
           \/ session' = [session EXCEPT ![j][k] = answer]
    BY <1>6 DEF handlerIncomingMaintain
  <2>4. up = GetMissingChunks(proofs[j].creator, proofs[j].nonce, s.missing)
    OBVIOUS
  <2> HIDE DEF up
  <2>5. /\ failed \in Session /\ failed.rpc = s.rpc /\ failed.cpc = "failed"
        /\ failed.missing = s.missing /\ failed.todo = s.todo /\ failed.push = s.push
    BY <2>1 DEF Session
  <2>6. /\ answer \in Session /\ answer.rpc = s.rpc /\ answer.cpc = "uploading"
        /\ answer.missing = s.missing /\ answer.todo = up /\ answer.push = s.push
    BY <2>1, <2>2 DEF Session
  <2>8. /\ waiting \in Session /\ waiting.rpc = s.rpc /\ waiting.cpc = "waiting"
        /\ waiting.missing = s.missing /\ waiting.todo = s.todo /\ waiting.push = s.push
    BY <2>1 DEF Session
  <2> HIDE DEF failed, waiting, answer
  <2>7. /\ ~enabled[proofs[j].creator] => Moved(j, k, s, failed)
        /\ Moved(j, k, s, waiting) /\ Moved(j, k, s, answer)
    BY <2>3, <2>4, <2>5, <2>6, <2>8 DEF Moved, Answering
  <2> QED BY <1>2, <2>3, <2>5, <2>6, <2>7, <2>8
<1>7. ASSUME NEW j \in DOMAIN proofs, NEW k \in Node, PushChunk(j, k) PROVE Goal
  <2> DEFINE s == session[j][k]
  <2>1. s \in Session
    BY EntryType
  <2>2. PICK c \in s.todo :
          session' = [session EXCEPT ![j][k] = [s EXCEPT !.todo = @ \ {c}, !.push = {c}]]
    BY <1>7 DEF PushChunk
  <2> DEFINE t == [s EXCEPT !.todo = @ \ {c}, !.push = {c}]
  <2>3. s.todo \ {c} \in SUBSET Chunk /\ {c} \in SUBSET Chunk /\ s.push = {}
    BY <1>7, <2>1 DEF Session, PushChunk
  <2>4. t \in Session /\ SameEnds(s, t) /\ t.todo = s.todo \ {c} /\ t.push = {c}
    BY <2>1, <2>3 DEF Session, SameEnds
  <2> HIDE DEF t
  <2>5. Uploads(t) = Uploads(s)
    BY <2>3, <2>4 DEF Uploads
  <2>6. Moved(j, k, s, t)
    BY <2>4, <2>5 DEF Moved, Pushing
  <2> QED BY <1>2, <2>2, <2>4, <2>6 DEF t
<1>8. ASSUME NEW j \in DOMAIN proofs, NEW k \in Node, handlerPushsync(j, k) \/ PushFails(j, k)
      PROVE  Goal
  <2> DEFINE s == session[j][k]
             t == [s EXCEPT !.push = {}]
  <2>1. s \in Session
    BY EntryType
  <2>2. session' = [session EXCEPT ![j][k] = t] /\ (s.push \subseteq store'[k] \/ faults' # 0)
    BY <1>8, <1>f DEF handlerPushsync, PushFails, TypeOK
  <2>3. t \in Session /\ SameEnds(s, t) /\ t.todo = s.todo /\ t.push = {}
    BY <2>1 DEF Session, SameEnds
  <2> HIDE DEF t
  <2>4. Moved(j, k, s, t)
    BY <2>2, <2>3 DEF Moved, Pushing
  <2> QED BY <1>2, <2>2, <2>3, <2>4
<1>9. ASSUME NEW j \in DOMAIN proofs, NEW k \in Node, UploadDone(j, k) PROVE Goal
  <2> DEFINE s == session[j][k]
             t == [s EXCEPT !.cpc = "done"]
  <2>1. s \in Session
    BY EntryType
  <2>2. /\ session' = [session EXCEPT ![j][k] = t] /\ s.cpc = "uploading" /\ Uploads(s) = {}
    BY <1>9 DEF UploadDone, Uploads
  <2>3. /\ t \in Session /\ t.cpc = "done" /\ t.rpc = s.rpc /\ t.missing = s.missing
        /\ SameUploads(s, t)
    BY <2>1 DEF Session, SameUploads
  <2> HIDE DEF t
  <2>4. Moved(j, k, s, t)
    BY <2>2, <2>3 DEF Moved, Finishing
  <2> QED BY <1>2, <2>2, <2>3, <2>4
<1>10. ASSUME NEW j \in DOMAIN proofs, NEW k \in Node,
              handlerIncomingRequest(j, k) \/ RequestFails(j, k)
       PROVE  Goal
  <2> DEFINE s == session[j][k]
             t == [s EXCEPT !.request = FALSE]
  <2>1. s \in Session
    BY EntryType
  <2>2. session' = [session EXCEPT ![j][k] = t]
    BY <1>10 DEF handlerIncomingRequest, RequestFails
  <2>3. t \in Session /\ SameEnds(s, t) /\ SameUploads(s, t)
    BY <2>1 DEF Session, SameEnds, SameUploads
  <2> HIDE DEF t
  <2> QED BY <1>2, <2>2, <2>3 DEF Moved
<1>11. ASSUME NEW j \in DOMAIN proofs, NEW k \in Node, RetrieveFails(j, k) PROVE Goal
  <2> DEFINE s == session[j][k]
             t == [s EXCEPT !.rpc = "failed"]
  <2>1. s \in Session
    BY EntryType
  <2>2. session' = [session EXCEPT ![j][k] = t] /\ s.rpc = "proof"
    BY <1>11 DEF RetrieveFails
  <2>3. /\ t \in Session /\ t.rpc = "failed" /\ t.cpc = s.cpc /\ t.missing = s.missing
        /\ SameUploads(s, t)
    BY <2>1 DEF Session, SameUploads
  <2> HIDE DEF t
  <2>4. Moved(j, k, s, t)
    BY <2>2, <2>3 DEF Moved, Asking
  <2> QED BY <1>2, <2>2, <2>3, <2>4
<1>12. ASSUME NEW n \in Node, Crash(n) PROVE Goal
  <2> DEFINE s == session[id][m]
             t == session'[id][m]
             mine == id \in DOMAIN proofs /\ proofs[id].creator = n
  <2>1. s \in Session
    BY DEF TypeOK
  <2>2. t = [ s EXCEPT
               !.rpc = IF m = n /\ @ \in {"proof", "maintain"} THEN "failed" ELSE @,
               !.cpc = IF mine /\ @ \in {"maintain", "waiting", "uploading"} THEN "failed" ELSE @,
               !.todo = IF mine THEN {} ELSE @,
               !.push = IF mine \/ m = n THEN {} ELSE @,
               !.request = @ /\ ~mine ]
    BY <1>12 DEF Crash
  <2> HIDE DEF mine, t
  <2>3. /\ t.missing = s.missing /\ t.todo \subseteq s.todo /\ t.push \subseteq s.push
        /\ t.rpc = s.rpc \/ (s.rpc \in {"proof", "maintain"} /\ t.rpc = "failed")
        /\ t.cpc = s.cpc \/ (s.cpc \in {"maintain", "waiting", "uploading"} /\ t.cpc = "failed")
    BY <2>1, <2>2 DEF Session
  <2>4. faults' # 0
    BY <1>f, <1>12 DEF Crash
  <2>5. Crashing(s, t)
    BY <2>3, <2>4 DEF Crashing, Uploads
  <2> QED BY <2>5 DEF Moved, Goal, t
<1>13. ASSUME NEW j \in DOMAIN proofs, NEW k \in Node, Exchange(j, k) PROVE Goal
  BY <1>3, <1>4, <1>5, <1>6, <1>7, <1>8, <1>9, <1>10, <1>13 DEF Exchange
<1>14. CASE Environment
  <2>1. \/ session' = session
        \/ \E n \in Node : Crash(n)
        \/ \E j \in DOMAIN proofs, k \in Node :
             PushFails(j, k) \/ RequestFails(j, k) \/ RetrieveFails(j, k) \/ UploadDoneLost(j, k)
    BY <1>14 DEF Environment, SetEnabled, Evict, MPHFFails, SendProofFails
  <2> QED BY <1>1, <1>5, <1>8, <1>10, <1>11, <1>12, <2>1 DEF Goal
<1>15. CASE \E n \in Node : Create(n)
  BY <1>1, <1>15 DEF Goal, Create, CreateAndSendProofForMyChunks
<1>16. CASE \E j \in DOMAIN proofs : CreateMPHF(j) \/ \E k \in Node : Exchange(j, k)
  <2>1. ASSUME NEW j \in DOMAIN proofs, CreateMPHF(j) PROVE session' = session
    BY <2>1 DEF CreateMPHF
  <2> QED BY <1>1, <1>13, <1>16, <2>1 DEF Goal
<1>17. CASE UNCHANGED vars
  BY <1>1, <1>17 DEF vars, Goal
<1> QED BY <1>14, <1>15, <1>16, <1>17 DEF Next

------------------------------------------------------------------------------
(* FS_PigeonHole on its own, without what is used everywhere here.              *)
LEMMA Pigeons ==
    ASSUME NEW S, NEW T, IsFiniteSet(S), IsFiniteSet(T), Cardinality(T) < Cardinality(S),
           NEW g \in [S -> T]
    PROVE  \E x, y \in S : x # y /\ g[x] = g[y]
<1> QED BY ONLY FS_PigeonHole, IsFiniteSet(S), IsFiniteSet(T),
            Cardinality(T) < Cardinality(S), g \in [S -> T]

(* A value stands for one chunk of the base only, the pigeons being as many as  *)
(* the holes: ChunkOf inverts the MPHF.                                         *)
LEMMA MPHFInverts ==
    ASSUME NEW base \in SUBSET Chunk, NEW f \in MPHFs(base), NEW c \in base
    PROVE  /\ f[c] \in 1 .. Cardinality(base)
           /\ (CHOOSE x \in base : f[x] = f[c]) = c
<1> DEFINE n == Cardinality(base)
           others == base \ {c}
<1>1. IsFiniteSet(base) /\ n \in Nat
  BY FS_Subset, FS_CardinalityType
<1>2. IsFiniteSet(others) /\ Cardinality(others) = n - 1 /\ Cardinality(others) \in Nat
  BY <1>1, FS_RemoveElement, FS_CardinalityType
<1>3. f \in [Chunk -> 0 .. n] /\ \A v \in 1 .. n : \E x \in base : f[x] = v
  BY DEF MPHFs
<1>4. IsFiniteSet(1 .. n) /\ Cardinality(1 .. n) = n
  BY <1>1, FS_Interval
<1> HIDE DEF n
<1>5. ASSUME \A v \in 1 .. n : \E x \in others : f[x] = v PROVE FALSE
  <2> DEFINE g == [v \in 1 .. n |-> CHOOSE x \in others : f[x] = v]
  <2>1. \A v \in 1 .. n : g[v] \in others /\ f[g[v]] = v
    BY <1>5
  <2>2. g \in [1 .. n -> others]
    BY <2>1
  <2> HIDE DEF g
  <2>3. Cardinality(others) < Cardinality(1 .. n)
    BY <1>1, <1>2, <1>4
  <2> DEFINE holes == 1 .. n
  <2> HIDE DEF others, holes
  <2>4. \E v, w \in holes : v # w /\ g[v] = g[w]
    <3>1. IsFiniteSet(holes) /\ Cardinality(others) < Cardinality(holes) /\ g \in [holes -> others]
      BY <1>4, <2>2, <2>3 DEF holes
    <3> QED BY <1>2, <3>1, Pigeons
  <2> USE DEF holes
  <2> QED BY <2>1, <2>4
<1>6. f[c] \in 1 .. n
  BY <1>1, <1>3, <1>5
<1>7. ASSUME NEW d \in base, f[d] = f[c] PROVE d = c
  BY <1>3, <1>5, <1>7
<1> QED BY <1>6, <1>7 DEF n

(* How far the MPHF of a built proof and its mapping go together.               *)
LEMMA ChunkOfValue ==
    ASSUME TypeOK, BuiltByMPHF, NEW id \in DOMAIN proofs, proofs[id].pc = "built"
    PROVE  /\ Length(proofs[id]) \in Nat
           /\ \A v \in 1 .. Length(proofs[id]) : ChunkOf(proofs[id], v) \in proofs[id].base
           /\ \A c \in proofs[id].base :
                 /\ proofs[id].mphf[c] \in 1 .. Length(proofs[id])
                 /\ ChunkOf(proofs[id], proofs[id].mphf[c]) = c
<1>1. proofs[id].base \in SUBSET Chunk /\ proofs[id].mphf \in MPHFs(proofs[id].base)
  BY EntryType DEF Proof, BuiltByMPHF
<1> DEFINE base == proofs[id].base
           f == proofs[id].mphf
<1> HIDE DEF base, f
<1>2. base \in SUBSET Chunk /\ f \in MPHFs(base)
  BY <1>1 DEF base, f
<1>3. /\ Cardinality(base) \in Nat
      /\ \A v \in 1 .. Cardinality(base) : (CHOOSE c \in base : f[c] = v) \in base
  BY <1>2, MPHFMapsBase
<1>4. \A c \in base : /\ f[c] \in 1 .. Cardinality(base)
                      /\ (CHOOSE x \in base : f[x] = f[c]) = c
  BY <1>2, MPHFInverts
<1> QED BY <1>3, <1>4 DEF Length, ChunkOf, base, f

(* A proof whose mapping no other has replaced had not lost it before.          *)
LEMMA SoleBack ==
    ASSUME TypeOK, [Next]_vars, NEW id \in DOMAIN proofs, Sole(id)'
    PROVE  Sole(id)
<1> SUFFICES ASSUME NEW j \in DOMAIN proofs \ {id},
                    proofs[j].creator = proofs[id].creator,
                    proofs[j].nonce = proofs[id].nonce, proofs[j].pc = "built"
             PROVE  FALSE
  BY DEF Sole
<1>1. Kept(id) /\ Kept(j)
  BY ProofsGrow
<1> QED BY <1>1 DEF Kept, Sole

(* What is built in a step is built by CreateMPHF.                              *)
Builds(id) ==
    LET p == proofs[id] IN
    \E f \in MPHFs(p.base) :
       LET built == [p EXCEPT !.pc = "built", !.mphf = f] IN
       /\ proofs' = [proofs EXCEPT ![id] = built]
       /\ mapValToChunkId' = [mapValToChunkId EXCEPT ![p.creator][p.nonce] = Mapping(built)]

LEMMA BuiltBefore ==
    ASSUME TypeOK, [Next]_vars, NEW id \in DOMAIN proofs', proofs'[id].pc = "built"
    PROVE  /\ id \in DOMAIN proofs
           /\ proofs[id].pc = "built" \/ Builds(id)
<1> DEFINE Goal == id \in DOMAIN proofs /\ (proofs[id].pc = "built" \/ Builds(id))
<1>1. proofs' = proofs => Goal
  BY DEF TypeOK
<1>2. ASSUME NEW n \in Node, NEW nc \in Nonce, NEW peers \in SUBSET Node, NewProof(n, nc, peers)
      PROVE  Goal
  <2>1. id # Len(proofs) + 1
    BY <1>2, NewProofType
  <2> QED BY <1>2, <2>1, NewProofType
<1>3. ASSUME NEW j \in DOMAIN proofs, CreateMPHF(j) PROVE Goal
  <2>1. Builds(j)
    BY <1>3 DEF CreateMPHF, Builds, Mapping
  <2>2. id \in DOMAIN proofs /\ (id # j => proofs'[id] = proofs[id])
    BY <1>3 DEF CreateMPHF, TypeOK
  <2> QED BY <2>1, <2>2
<1>4. ASSUME NEW j \in DOMAIN proofs, NEW m \in Node, SendProof(j, m) \/ SendProofFails(j, m)
      PROVE  Goal
  <2>1. proofs' = [proofs EXCEPT ![j] = [proofs[j] EXCEPT !.peers = @ \ {m}]] /\ proofs[j].pc = "built"
    BY <1>4 DEF SendProof, SendProofFails
  <2> QED BY <2>1 DEF TypeOK
<1>5. ASSUME NEW j \in DOMAIN proofs, MPHFFails(j) PROVE Goal
  <2>1. proofs' = [proofs EXCEPT ![j] = [proofs[j] EXCEPT !.pc = "failed", !.peers = {}]]
    BY <1>5 DEF MPHFFails
  <2>2. id \in DOMAIN proofs /\ (id # j => proofs'[id] = proofs[id])
    BY <2>1 DEF TypeOK
  <2>3. id = j => proofs'[id].pc = "failed"
    <3>1. proofs[j] \in Proof
      BY EntryType
    <3> QED BY <2>1, <3>1 DEF Proof, TypeOK
  <2> QED BY <2>2, <2>3
<1>6. ASSUME NEW n \in Node, Crash(n) PROVE Goal
  <2>1. id \in DOMAIN proofs
    BY <1>6 DEF Crash
  <2>2. proofs[id] \in Proof
    BY <2>1, EntryType
  <2> QED BY <1>6, <2>1, <2>2 DEF Crash, Proof
<1> HIDE DEF Goal
<1>7. ASSUME NEW j \in DOMAIN proofs, NEW m \in Node, Exchange(j, m) PROVE Goal
  <2>1. CASE handlerIncomingRequest(j, m)
    <3>1. proofs[j].creator \in Node /\ proofs[j].nonce \in Nonce /\ {m} \in SUBSET Node
      BY EntryType DEF Proof
    <3> QED BY <1>1, <1>2, <2>1, <3>1 DEF handlerIncomingRequest
  <2>2. CASE SendProof(j, m)
    BY <1>4, <2>2
  <2>3. CASE ~handlerIncomingRequest(j, m) /\ ~SendProof(j, m)
    BY <1>1, <1>7, <2>3 DEF Exchange, handlerIncomingProof, UploadDoneReceived,
        handlerIncomingMaintain, PushChunk, handlerPushsync, UploadDone
  <2> QED BY <2>1, <2>2, <2>3
<1>8. CASE Environment
  BY <1>1, <1>4, <1>5, <1>6, <1>8 DEF Goal, Environment, SetEnabled, Evict, RetrieveFails,
      UploadDoneLost, PushFails, RequestFails
<1>9. CASE \E n \in Node : Create(n)
  <2>1. PICK n \in Node, nc \in Nonce : NewProof(n, nc, Neighbor[n])
    BY <1>9 DEF Create, CreateAndSendProofForMyChunks
  <2> QED BY <1>2, <2>1 DEF Goal
<1>10. CASE \E j \in DOMAIN proofs : CreateMPHF(j) \/ \E m \in Node : Exchange(j, m)
  BY <1>3, <1>7, <1>10 DEF Goal
<1>11. CASE UNCHANGED vars
  BY <1>1, <1>11 DEF vars, Goal
<1> QED BY <1>8, <1>9, <1>10, <1>11 DEF Next

(* Only the base and the MPHF of a proof tell what its values stand for.        *)
LEMMA SameValues ==
    ASSUME TypeOK, [Next]_vars, NEW id \in DOMAIN proofs, proofs[id].pc = "built"
    PROVE  LET p == proofs[id]
               q == proofs'[id]
           IN  /\ id \in DOMAIN proofs' /\ q.pc = "built"
               /\ q.creator = p.creator /\ q.nonce = p.nonce /\ q.base = p.base /\ q.mphf = p.mphf
               /\ Length(q) = Length(p) /\ Mapping(q) = Mapping(p)
               /\ \A v : ChunkOf(q, v) = ChunkOf(p, v)
               /\ \A s : Asked(q, s) = Asked(p, s)
<1>1. Kept(id)
  BY ProofsGrow
<1>2. \A v : ChunkOf(proofs'[id], v) = ChunkOf(proofs[id], v)
  BY <1>1 DEF Kept, ChunkOf
<1>3. Length(proofs'[id]) = Length(proofs[id])
  BY <1>1 DEF Kept, Length
<1> QED BY <1>1, <1>2, <1>3 DEF Kept, Mapping, Asked

LEMMA SoleInit == Init => SoleInv
<1> SUFFICES ASSUME Init PROVE SoleInv
  OBVIOUS
<1>1. DOMAIN proofs = {} /\ \A id \in ProofId, m \in Node : session[id][m] = Idle
  BY DEF Init
<1>2. Fresh
  BY <1>1 DEF Fresh, Idle
<1> QED BY <1>1, <1>2 DEF Init, SoleInv, BuiltByMPHF, SoleMapping, SoleProofIsAnswered, Clean, Steady

(* A proof is sent to a peer once; before the peer has looked at it, nothing    *)
(* has been asked of its creator.                                               *)
LEMMA FreshStep ==
    ASSUME TypeOK, Fresh, [Next]_vars
    PROVE  Fresh'
<1> SUFFICES ASSUME NEW id \in ProofId, NEW m \in Node
             PROVE  LET t == session'[id][m] IN
                    /\ t.rpc \in {"idle", "proof"} => t.cpc = "idle" /\ t.missing = {}
                    /\ t.rpc # "idle" => /\ id \in DOMAIN proofs' /\ proofs'[id].pc = "built"
                                         /\ m \notin proofs'[id].peers
  BY DEF Fresh
<1> DEFINE s == session[id][m]
           t == session'[id][m]
<1>1. /\ s.rpc \in {"idle", "proof"} => s.cpc = "idle" /\ s.missing = {}
      /\ s.rpc # "idle" => id \in DOMAIN proofs /\ proofs[id].pc = "built" /\ m \notin proofs[id].peers
  BY DEF Fresh
<1>2. Moved(id, m, s, t)
  BY Moves
<1>3. id \in DOMAIN proofs => Kept(id)
  BY ProofsGrow
<1> HIDE DEF s, t
<1>4. t.rpc \in {"idle", "proof"} => t.cpc = "idle" /\ t.missing = {}
  BY <1>1, <1>2 DEF Moved, SameEnds, Sending, Asking, Returning, Answering, Pushing, Finishing,
      Crashing
<1>5. t.rpc # "idle" => s.rpc # "idle" \/ Sending(id, m, s, t)
  BY <1>2 DEF Moved, SameEnds, Asking, Returning, Answering, Pushing, Finishing, Crashing
<1>6. t.rpc # "idle" => /\ id \in DOMAIN proofs' /\ proofs'[id].pc = "built"
                        /\ m \notin proofs'[id].peers
  BY <1>1, <1>3, <1>5 DEF Kept, Sending
<1> QED BY <1>4, <1>6 DEF t

LEMMA BuiltByMPHFStep ==
    ASSUME TypeOK, BuiltByMPHF, [Next]_vars
    PROVE  BuiltByMPHF'
<1> SUFFICES ASSUME NEW id \in DOMAIN proofs', proofs'[id].pc = "built"
             PROVE  proofs'[id].mphf \in MPHFs(proofs'[id].base)
  BY DEF BuiltByMPHF, MPHFs
<1>1. id \in DOMAIN proofs /\ (proofs[id].pc = "built" \/ Builds(id))
  BY BuiltBefore
<1>2. CASE proofs[id].pc = "built"
  BY <1>1, <1>2, SameValues DEF BuiltByMPHF
<1>3. CASE Builds(id)
  <2>1. PICK f \in MPHFs(proofs[id].base) :
          proofs' = [proofs EXCEPT ![id] = [proofs[id] EXCEPT !.pc = "built", !.mphf = f]]
    BY <1>3 DEF Builds
  <2>2. proofs[id] \in Proof
    BY <1>1, EntryType
  <2>3. proofs'[id].mphf = f /\ proofs'[id].base = proofs[id].base
    BY <1>1, <2>1, <2>2 DEF Proof, TypeOK
  <2> QED BY <2>3
<1> QED BY <1>1, <1>2, <1>3

(* Only CreateMPHF sets a mapping, and only a crash removes it.                 *)
LEMMA MappingMoves ==
    ASSUME TypeOK, [Next]_vars
    PROVE  /\ \/ mapValToChunkId' = mapValToChunkId
              \/ \E id \in DOMAIN proofs : CreateMPHF(id)
              \/ \E n \in Node : Crash(n) /\ faults' # 0
           /\ faults # 0 => faults' # 0
<1>1. ASSUME Fault PROVE faults' # 0
  BY <1>1 DEF Fault, TypeOK
<1>2. ASSUME NEW n \in Node, NEW nc \in Nonce, NEW peers \in SUBSET Node, NewProof(n, nc, peers)
      PROVE  faults # 0 => faults' # 0
  BY <1>1, <1>2 DEF NewProof
<1>3. CASE Environment
  BY <1>1, <1>3 DEF Environment, SetEnabled, Evict, MPHFFails, SendProofFails, RetrieveFails,
      UploadDoneLost, PushFails, RequestFails, Crash
<1>4. CASE \E n \in Node : Create(n)
  BY <1>2, <1>4 DEF Create, CreateAndSendProofForMyChunks
<1>5. ASSUME NEW id \in DOMAIN proofs, CreateMPHF(id) PROVE faults' = faults
  BY <1>5 DEF CreateMPHF
<1>6. ASSUME NEW id \in DOMAIN proofs, NEW m \in Node, Exchange(id, m)
      PROVE  mapValToChunkId' = mapValToChunkId /\ (faults # 0 => faults' # 0)
  <2>1. CASE handlerIncomingRequest(id, m)
    <3>1. proofs[id].creator \in Node /\ proofs[id].nonce \in Nonce
      BY EntryType DEF Proof
    <3> QED BY <1>2, <2>1, <3>1 DEF handlerIncomingRequest
  <2> QED BY <1>6, <2>1 DEF Exchange, SendProof, handlerIncomingProof, UploadDoneReceived,
              handlerIncomingMaintain, PushChunk, handlerPushsync, UploadDone
<1>7. CASE UNCHANGED vars
  BY <1>7 DEF vars
<1> QED BY <1>3, <1>4, <1>5, <1>6, <1>7 DEF Next, Create, CreateAndSendProofForMyChunks

(* The mapping of the only proof built for a nonce is its own: had another      *)
(* CreateMPHF replaced it, that proof would be built, too.                      *)
LEMMA SoleMappingStep ==
    ASSUME TypeOK, SoleMapping, [Next]_vars
    PROVE  SoleMapping'
<1> SUFFICES ASSUME NEW id \in DOMAIN proofs', proofs'[id].pc = "built", Sole(id)'
             PROVE  LET q == proofs'[id]
                        mapping == mapValToChunkId'[q.creator][q.nonce]
                    IN  mapping = Mapping(q) \/ (mapping = <<>> /\ faults' # 0)
  BY DEF SoleMapping, Mapping, Length, ChunkOf
<1>1. id \in DOMAIN proofs /\ (proofs[id].pc = "built" \/ Builds(id))
  BY BuiltBefore
<1>2. proofs[id] \in Proof
  BY <1>1, EntryType
<1> DEFINE p == proofs[id]
           n == p.creator
           nc == p.nonce
<1>3. n \in Node /\ nc \in Nonce
  BY <1>2 DEF Proof
<1>4. mapValToChunkId \in [Node -> [Nonce -> Seq(Chunk)]]
  BY DEF TypeOK
<1>5. CASE p.pc = "built"
  <2>1. Sole(id)
    BY <1>1, SoleBack
  <2>2. mapValToChunkId[n][nc] = Mapping(p) \/ (mapValToChunkId[n][nc] = <<>> /\ faults # 0)
    BY <1>1, <1>5, <2>1 DEF SoleMapping
  <2>3. proofs'[id].creator = n /\ proofs'[id].nonce = nc /\ Mapping(proofs'[id]) = Mapping(p)
    BY <1>1, <1>5, SameValues
  <2>4. ASSUME NEW j \in DOMAIN proofs, CreateMPHF(j)
        PROVE  mapValToChunkId'[n][nc] = mapValToChunkId[n][nc]
    <3>1. proofs[j] \in Proof /\ j # id
      BY <1>5, <2>4, EntryType DEF CreateMPHF
    <3>2. PICK f \in MPHFs(proofs[j].base) :
            /\ proofs' = [proofs EXCEPT ![j] = [proofs[j] EXCEPT !.pc = "built", !.mphf = f]]
            /\ mapValToChunkId' =
                 [mapValToChunkId EXCEPT ![proofs[j].creator][proofs[j].nonce] =
                    Mapping([proofs[j] EXCEPT !.pc = "built", !.mphf = f])]
      BY <2>4 DEF CreateMPHF, Mapping
    <3>3. /\ j \in DOMAIN proofs' /\ proofs'[j].pc = "built"
          /\ proofs'[j].creator = proofs[j].creator /\ proofs'[j].nonce = proofs[j].nonce
      BY <3>1, <3>2 DEF Proof, TypeOK
    <3>4. proofs[j].creator # n \/ proofs[j].nonce # nc
      BY <2>3, <3>1, <3>3 DEF Sole
    <3>5. proofs[j].creator \in Node /\ proofs[j].nonce \in Nonce
      BY <3>1 DEF Proof
    <3> HIDE DEF n, nc
    <3> QED BY <1>3, <1>4, <3>2, <3>4, <3>5
  <2>5. ASSUME NEW k \in Node, Crash(k)
        PROVE  mapValToChunkId'[n][nc] = mapValToChunkId[n][nc] \/ mapValToChunkId'[n][nc] = <<>>
    BY <1>3, <1>4, <2>5 DEF Crash
  <2> HIDE DEF n, nc, p
  <2>6. \/ mapValToChunkId'[n][nc] = mapValToChunkId[n][nc]
        \/ mapValToChunkId'[n][nc] = <<>> /\ faults' # 0
    BY <2>4, <2>5, MappingMoves
  <2> QED BY <2>2, <2>3, <2>6, MappingMoves
<1>6. CASE Builds(id)
  <2>1. PICK f \in MPHFs(p.base) :
          LET built == [p EXCEPT !.pc = "built", !.mphf = f] IN
          /\ proofs' = [proofs EXCEPT ![id] = built]
          /\ mapValToChunkId' = [mapValToChunkId EXCEPT ![n][nc] = Mapping(built)]
    BY <1>6 DEF Builds
  <2> DEFINE built == [p EXCEPT !.pc = "built", !.mphf = f]
  <2>2. built.creator = n /\ built.nonce = nc
    BY <1>2 DEF Proof
  <2>3. proofs'[id] = built /\ mapValToChunkId' = [mapValToChunkId EXCEPT ![n][nc] = Mapping(built)]
    BY <1>1, <2>1 DEF TypeOK
  <2> HIDE DEF built, n, nc, p
  <2>4. mapValToChunkId'[n][nc] = Mapping(built)
    BY <1>3, <1>4, <2>3
  <2> QED BY <2>2, <2>3, <2>4
<1> QED BY <1>1, <1>5, <1>6

(* Before it is built, a proof is not exchanged.                                *)
LEMMA UnbuiltMoves ==
    ASSUME IInv, Fresh, [Next]_vars, NEW id \in ProofId, NEW m \in Node,
           ~(id \in DOMAIN proofs /\ proofs[id].pc = "built")
    PROVE  LET t == session'[id][m] IN t.cpc = "idle" /\ Uploads(t) = {} /\ t.rpc = "idle"
<1> DEFINE s == session[id][m]
           t == session'[id][m]
<1>1. s.rpc = "idle" /\ s.cpc = "idle" /\ Uploads(s) = {}
  BY DEF IInv, Fresh, Quiet, Uploads
<1>2. Moved(id, m, s, t)
  BY Moves DEF IInv
<1> HIDE DEF s, t
<1>3. t.rpc = "idle" /\ t.cpc = "idle" /\ Uploads(t) \subseteq Uploads(s)
  BY <1>1, <1>2 DEF Moved, SameEnds, SameUploads, Sending, Asking, Returning, Answering, Pushing,
      Finishing, Crashing, Uploads
<1> QED BY <1>1, <1>3 DEF t

(* A Maintain is answered by the mapping of the proof it is about, or not at all.*)
LEMMA SoleAnsweredStep ==
    ASSUME IInv, Fresh, SoleMapping, SoleProofIsAnswered, [Next]_vars
    PROVE  SoleProofIsAnswered'
<1> USE DEF IInv
<1> SUFFICES ASSUME NEW id \in DOMAIN proofs', NEW m \in Node, Sole(id)'
             PROVE  Uploads(session'[id][m]) \subseteq Asked(proofs'[id], session'[id][m])
  BY DEF SoleProofIsAnswered, Uploads, Asked, ChunkOf
<1>1. id \in ProofId
  BY TypeStep DEF TypeOK, ProofId
<1>2. CASE ~(id \in DOMAIN proofs /\ proofs[id].pc = "built")
  BY <1>1, <1>2, UnbuiltMoves
<1>3. CASE id \in DOMAIN proofs /\ proofs[id].pc = "built"
  <2> DEFINE p == proofs[id]
             s == session[id][m]
             t == session'[id][m]
  <2>1. Sole(id) /\ Moved(id, m, s, t)
    BY <1>1, <1>3, SoleBack, Moves
  <2>2. Uploads(s) \subseteq Asked(p, s)
    BY <1>3, <2>1 DEF SoleProofIsAnswered, Uploads, Asked
  <2>3. Asked(proofs'[id], t) = Asked(p, t)
    BY <1>3, SameValues
  <2>4. s.rpc = "proof" => Uploads(s) = {}
    BY <1>1 DEF Fresh, Quiet, Uploads
  <2>5. GetMissingChunks(p.creator, p.nonce, s.missing) \subseteq Asked(p, s)
    <3>1. \/ mapValToChunkId[p.creator][p.nonce] = Mapping(p)
          \/ mapValToChunkId[p.creator][p.nonce] = <<>>
      BY <1>3, <2>1 DEF SoleMapping
    <3> DEFINE mapping == mapValToChunkId[p.creator][p.nonce]
    <3> SUFFICES ASSUME NEW v \in s.missing, v \in DOMAIN mapping
                 PROVE  mapping[v] \in Asked(p, s)
      BY DEF GetMissingChunks
    <3>2. mapping = Mapping(p) /\ v \in DOMAIN Mapping(p)
      BY <3>1
    <3>3. Mapping(p)[v] = ChunkOf(p, v)
      BY <3>2 DEF Mapping
    <3> QED BY <3>2, <3>3 DEF Asked
  <2> HIDE DEF p, s, t
  <2>6. CASE Answering(id, s, t)
    <3>1. t.missing = s.missing /\ t.push = s.push
          /\ (t.todo = s.todo \/ t.todo = GetMissingChunks(p.creator, p.nonce, s.missing))
      BY <2>6 DEF Answering, p
    <3>2. Asked(p, t) = Asked(p, s)
      BY <3>1 DEF Asked
    <3> QED BY <2>2, <2>3, <2>5, <3>1, <3>2 DEF Uploads, t
  <2>7. CASE Asking(id, m, s, t)
    BY <2>4, <2>7 DEF Asking, SameUploads, Uploads, t
  <2>8. CASE ~Answering(id, s, t) /\ ~Asking(id, m, s, t)
    <3>1. t.missing = s.missing /\ Uploads(t) \subseteq Uploads(s)
      BY <2>1, <2>8 DEF Moved, SameEnds, SameUploads, Sending, Returning, Pushing, Finishing,
          Crashing, Uploads
    <3>2. Asked(p, t) = Asked(p, s)
      BY <3>1 DEF Asked
    <3> QED BY <2>2, <2>3, <3>1, <3>2 DEF t
  <2> QED BY <2>6, <2>7, <2>8
<1> QED BY <1>2, <1>3

------------------------------------------------------------------------------
(* Without a fault nothing leaves a store and no service is disabled; a new     *)
(* proof is of chunks its creator stores.                                       *)
NothingLost ==
    /\ faults = 0 /\ enabled' = enabled
    /\ \A n \in Node : store[n] \subseteq store'[n]
    /\ \A id \in DOMAIN proofs' \ DOMAIN proofs :
          proofs'[id].base \subseteq store'[proofs'[id].creator]

LEMMA CleanMoves ==
    ASSUME TypeOK, [Next]_vars, faults' = 0
    PROVE  NothingLost
<1>1. ~Fault
  BY DEF Fault, TypeOK
<1>2. ASSUME faults' = faults, enabled' = enabled, store' = store, DOMAIN proofs' = DOMAIN proofs
      PROVE  NothingLost
  BY <1>2 DEF NothingLost
<1>3. ASSUME NEW n \in Node, NEW nc \in Nonce, NEW peers \in SUBSET Node,
             NewProof(n, nc, peers), enabled' = enabled, store' = store
      PROVE  NothingLost
  <2>1. /\ DOMAIN proofs' = DOMAIN proofs \cup {Len(proofs) + 1}
        /\ proofs'[Len(proofs) + 1].creator = n
        /\ proofs'[Len(proofs) + 1].base \subseteq store[n]
    BY <1>3, NewProofType
  <2>2. faults = 0
    BY <1>1, <1>3 DEF NewProof
  <2> QED BY <1>3, <2>1, <2>2 DEF NothingLost
<1>4. ~Environment
  BY <1>1 DEF Environment, SetEnabled, Evict, MPHFFails, SendProofFails, RetrieveFails,
      UploadDoneLost, PushFails, RequestFails, Crash
<1>5. ASSUME NEW n \in Node, Create(n) PROVE NothingLost
  BY <1>3, <1>5 DEF Create, CreateAndSendProofForMyChunks
<1>6. ASSUME NEW id \in DOMAIN proofs, CreateMPHF(id) PROVE NothingLost
  BY <1>2, <1>6 DEF CreateMPHF
<1>7. ASSUME NEW id \in DOMAIN proofs, NEW m \in Node, Exchange(id, m) PROVE NothingLost
  <2>1. CASE handlerIncomingRequest(id, m)
    <3>1. proofs[id].creator \in Node /\ proofs[id].nonce \in Nonce
      BY EntryType DEF Proof
    <3> QED BY <1>2, <1>3, <2>1, <3>1 DEF handlerIncomingRequest
  <2>2. CASE handlerPushsync(id, m)
    <3>1. /\ store' = [store EXCEPT ![m] = @ \cup session[id][m].push]
          /\ UNCHANGED <<enabled, proofs, faults>>
      BY <2>2 DEF handlerPushsync
    <3>2. \A n \in Node : store[n] \subseteq store'[n]
      BY <3>1 DEF TypeOK
    <3> QED BY <3>1, <3>2 DEF NothingLost
  <2>3. CASE SendProof(id, m)
    BY <1>2, <2>3 DEF SendProof
  <2>4. CASE ~handlerIncomingRequest(id, m) /\ ~handlerPushsync(id, m) /\ ~SendProof(id, m)
    BY <1>2, <1>7, <2>4 DEF Exchange, handlerIncomingProof, UploadDoneReceived,
        handlerIncomingMaintain, PushChunk, UploadDone
  <2> QED BY <2>1, <2>2, <2>3, <2>4
<1>8. CASE UNCHANGED vars
  BY <1>2, <1>8 DEF vars
<1> QED BY <1>4, <1>5, <1>6, <1>7, <1>8 DEF Next

(* FindMissingChunks overlooks a chunk of the proof only when m has it, or when *)
(* another chunk of m takes its value.                                          *)
LEMMA FoundMissing ==
    ASSUME TypeOK, BuiltByMPHF, NEW id \in DOMAIN proofs, proofs[id].pc = "built",
           NEW m \in Node
    PROVE  LET p == proofs[id]
               missing == GetMissingVals(FindMissingChunks(p, m))
           IN  /\ missing \subseteq 1 .. Length(p)
               /\ \A c \in p.base : c \in store[m] \/ Hidden(p, m, c) \/ p.mphf[c] \in missing
<1> DEFINE p == proofs[id]
           hits(v) == {c \in store[m] : InRange(p, c) /\ p.mphf[c] = v}
           missing == GetMissingVals(FindMissingChunks(p, m))
<1>1. missing = {v \in 1 .. Length(p) : 1 - Cardinality(hits(v)) = 1}
  BY DEF GetMissingVals, FindMissingChunks
<1>2. ASSUME NEW c \in p.base, p.mphf[c] \notin missing
      PROVE  c \in store[m] \/ Hidden(p, m, c)
  <2> DEFINE v == p.mphf[c]
  <2>1. v \in 1 .. Length(p)
    BY ChunkOfValue
  <2>2. IsFiniteSet(hits(v))
    <3>1. hits(v) \in SUBSET Chunk
      BY DEF TypeOK
    <3> QED BY <3>1, FS_Subset
  <2>3. Cardinality(hits(v)) # 0
    BY <1>1, <1>2, <2>1
  <2>4. hits(v) # {}
    BY <2>3, FS_EmptySet
  <2>5. PICK x \in store[m] : InRange(p, x) /\ p.mphf[x] = v
    BY <2>4
  <2> QED BY <2>5 DEF Hidden
<1> QED BY <1>1, <1>2

(* While nothing fails, every chunk that m asked for is on its way to it or     *)
(* there already, and nothing ends before that.                                 *)
LEMMA CleanStep ==
    ASSUME IInv, Fresh, BuiltByMPHF, SoleMapping, Clean, [Next]_vars, faults' = 0
    PROVE  Clean'
<1> USE DEF IInv
<1>1. NothingLost /\ TypeOK'
  BY CleanMoves, TypeStep
<1>2. Steady'
  <2>1. enabled' = [n \in Node |-> TRUE]
    BY <1>1 DEF Clean, Steady, NothingLost
  <2>2. ASSUME NEW id \in DOMAIN proofs'
        PROVE  proofs'[id].base \subseteq store'[proofs'[id].creator]
    <3>1. CASE id \in DOMAIN proofs
      <4>1. /\ proofs'[id].base = proofs[id].base /\ proofs'[id].creator = proofs[id].creator
            /\ proofs[id].creator \in Node
        BY <3>1, ProofsGrow, EntryType DEF Kept, Proof
      <4> QED BY <1>1, <3>1, <4>1 DEF Clean, Steady, NothingLost
    <3> QED BY <1>1, <2>2, <3>1 DEF NothingLost
  <2> QED BY <2>1, <2>2 DEF Steady
<1>3. ASSUME NEW id \in DOMAIN proofs', NEW m \in Node
      PROVE  /\ Found(id, m)' /\ Ended(session'[id][m])
             /\ Sole(id)' => Uploaded(id, m)'
  <2>1. id \in ProofId
    BY <1>1 DEF TypeOK, ProofId
  <2> DEFINE p == proofs[id]
             s == session[id][m]
             t == session'[id][m]
             q == proofs'[id]
  <2>2. CASE ~(id \in DOMAIN proofs /\ p.pc = "built")
    BY <2>1, <2>2, UnbuiltMoves DEF Found, Ended, Uploaded
  <2>3. CASE id \in DOMAIN proofs /\ p.pc = "built"
    <3>1. /\ q.base = p.base /\ q.mphf = p.mphf /\ Length(q) = Length(p)
          /\ \A x : Asked(q, x) = Asked(p, x)
      BY <2>3, SameValues
    <3>2. /\ Found(id, m) /\ Ended(s) /\ (Sole(id)' => Sole(id) /\ Uploaded(id, m))
      BY <2>3, SoleBack DEF Clean
    <3>3. Moved(id, m, s, t)
      BY <2>1, Moves
    <3>4. store[m] \subseteq store'[m] /\ \A c \in p.base : Hidden(p, m, c) => Hidden(proofs[id], m, c)'
      BY <1>1, <3>1 DEF NothingLost, Hidden, InRange
    <3>5. s.rpc \in {"idle", "proof"} => s.cpc = "idle" /\ s.missing = {} /\ Uploads(s) = {}
      BY <2>1 DEF Fresh, Quiet, Uploads
    <3>6. enabled[p.creator] = TRUE
      BY <2>3, EntryType DEF Clean, Steady, Proof
    <3>7. s.rpc \in {"idle", "proof", "maintain", "done", "failed"}
      BY <2>3, EntryType DEF Session
    <3>8. LET missing == GetMissingVals(FindMissingChunks(p, m))
          IN  /\ missing \subseteq 1 .. Length(p)
              /\ \A c \in p.base : c \in store[m] \/ Hidden(p, m, c) \/ p.mphf[c] \in missing
      BY <2>3, FoundMissing
    <3>9. ASSUME Sole(id), s.missing \subseteq 1 .. Length(p)
          PROVE  GetMissingChunks(p.creator, p.nonce, s.missing) = Asked(p, s)
      <4>1. mapValToChunkId[p.creator][p.nonce] = Mapping(p)
        BY <1>1, <2>3, <3>9 DEF SoleMapping, NothingLost
      <4>2. /\ DOMAIN Mapping(p) = 1 .. Length(p)
            /\ \A v \in 1 .. Length(p) : Mapping(p)[v] = ChunkOf(p, v)
        BY DEF Mapping
      <4>3. \A v \in s.missing : ChunkOf(p, v) \in store[p.creator]
        BY <2>3, <3>9, ChunkOfValue DEF Clean, Steady
      <4> QED BY <3>9, <4>1, <4>2, <4>3 DEF GetMissingChunks, Asked
    <3> HIDE DEF p, s, t, q
    <3>10. Found(id, m)'
      <4> SUFFICES ASSUME t.rpc \in {"maintain", "done"}
                   PROVE  /\ t.missing \subseteq 1 .. Length(p)
                          /\ \A c \in p.base : c \in store[m] \/ Hidden(p, m, c) \/ p.mphf[c] \in t.missing
        BY <3>1, <3>4 DEF Found, q, t
      <4>1. CASE Asking(id, m, s, t)
        BY <3>5, <3>8, <4>1 DEF Asking, p
      <4>2. CASE ~Asking(id, m, s, t)
        <5>1. s.rpc \in {"maintain", "done"} /\ t.missing = s.missing
          BY <3>3, <4>2, faults' = 0 DEF Moved, SameEnds, Sending, Returning, Answering, Pushing,
              Finishing, Crashing
        <5> QED BY <3>2, <5>1 DEF Found, p, s
      <4> QED BY <4>1, <4>2
    <3>11. Ended(t)
      BY <3>2, <3>3, <3>5, <3>6, faults' = 0 DEF Moved, Ended, SameEnds, SameUploads, Uploads,
         Sending, Asking, Returning, Answering, Pushing, Finishing, Crashing, p
    <3>12. ASSUME Sole(id)', t.cpc \in {"uploading", "done"}
           PROVE  Asked(p, t) \subseteq store'[m] \cup Uploads(t)
      <4>1. CASE Answering(id, s, t)
        <5>1. s.rpc \in {"maintain", "done"}
          BY <3>2, <3>5, <3>7, <4>1 DEF Answering, Ended
        <5>2. t.todo = Asked(p, s) /\ t.missing = s.missing
          BY <3>2, <3>6, <3>9, <3>12, <4>1, <5>1 DEF Answering, Found, p, s
        <5> QED BY <5>2 DEF Asked, Uploads
      <4>2. CASE ~Answering(id, s, t)
        <5>1. s.cpc \in {"uploading", "done"} /\ t.missing = s.missing
          BY <3>3, <3>5, <3>12, <4>2, faults' = 0 DEF Moved, SameEnds, Sending, Asking, Returning,
              Pushing, Finishing, Crashing
        <5>2. Uploads(s) \subseteq Uploads(t) \cup store'[m]
          BY <3>3, <4>2, faults' = 0, <3>5, <5>1 DEF Moved, SameUploads, Sending, Asking, Returning,
              Pushing, Finishing, Crashing, Uploads
        <5>3. Asked(p, s) \subseteq store[m] \cup Uploads(s)
          BY <3>2, <3>12, <5>1 DEF Uploaded, p, s
        <5>4. Asked(p, t) = Asked(p, s)
          BY <5>1 DEF Asked
        <5> QED BY <3>4, <5>2, <5>3, <5>4
      <4> QED BY <4>1, <4>2
    <3>13. Sole(id)' => Uploaded(id, m)'
      BY <3>1, <3>12 DEF Uploaded, q, t
    <3> QED BY <3>10, <3>11, <3>13 DEF q, t
  <2> QED BY <2>2, <2>3
<1> QED BY <1>2, <1>3 DEF Clean

LEMMA SoleStep == IInv /\ SoleInv /\ [Next]_vars => SoleInv'
<1> SUFFICES ASSUME IInv, SoleInv, [Next]_vars PROVE SoleInv'
  OBVIOUS
<1> USE DEF SoleInv
<1>1. TypeOK
  BY DEF IInv
<1>2. Fresh' /\ BuiltByMPHF' /\ SoleMapping' /\ SoleProofIsAnswered'
  BY <1>1, FreshStep, BuiltByMPHFStep, SoleMappingStep, SoleAnsweredStep
<1>3. faults' = 0 => Clean'
  BY <1>1, CleanMoves, CleanStep DEF NothingLost
<1> QED BY <1>2, <1>3

(* A creator uploads exactly what it was asked for, as long as no other proof   *)
(* for the nonce can have replaced the mapping of its own, whatever crashes,    *)
(* evictions and lost messages there are.                                       *)
THEOREM SoleProofsAreAnswered == Spec => []SoleProofIsAnswered
<1>1. SoleInv => SoleProofIsAnswered
  BY DEF SoleInv
<1> QED BY <1>1, InvInit, InvStep, SoleInit, SoleStep, PTL DEF Spec

(* When handlerIncomingProof ends without a fault and the nonce has one proof,  *)
(* the receiver has all of the proof's chunks but those that another chunk of   *)
(* its own hid from FindMissingChunks.                                          *)
THEOREM CleanIsComplete == Spec => []CompleteWhenClean
<1>1. ASSUME IInv, SoleInv, NEW id \in DOMAIN proofs, NEW m \in Node,
             session[id][m].rpc = "done", Sole(id), faults = 0, NEW c \in proofs[id].base
      PROVE  c \in store[m] \/ Hidden(proofs[id], m, c)
  <2> DEFINE p == proofs[id]
             s == session[id][m]
  <2>1. Found(id, m) /\ Ended(s) /\ Uploaded(id, m)
    BY <1>1 DEF SoleInv, Clean
  <2>2. id \in ProofId /\ TypeOK
    BY <1>1, EntryType DEF IInv
  <2>3. p.pc = "built" /\ BuiltByMPHF
    BY <1>1, <2>2 DEF SoleInv, Fresh
  <2>4. ChunkOf(p, p.mphf[c]) = c
    BY <1>1, <2>2, <2>3, ChunkOfValue
  <2>5. s.missing = {} \/ Asked(p, s) \subseteq store[m]
    BY <1>1, <2>1 DEF Ended, Uploaded
  <2> QED BY <1>1, <2>1, <2>4, <2>5 DEF Found, Asked
<1>2. IInv /\ SoleInv => CompleteWhenClean
  BY <1>1 DEF CompleteWhenClean
<1> QED BY <1>2, InvInit, InvStep, SoleInit, SoleStep, PTL DEF Spec
==============================================================================
