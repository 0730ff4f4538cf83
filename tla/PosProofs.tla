------------------------------- MODULE PosProofs -------------------------------
(* Proofs about Pos for any network, file, and number of hops and faults.        *)
EXTENDS Pos, FiniteSetTheorems, SequenceTheorems, TLAPS

USE NodeAssumption, DistAssumption, BoundAssumption

(* The challenge has a stack of SendClosest calls while it is under way, each    *)
(* with retries left while it goes forward.                                      *)
Stacks ==
    \A c \in Chunk :
        /\ chunk[c].pc \in {"send", "return"} => Hops(c) >= 1
        /\ chunk[c].pc = "send" => \A i \in 1 .. Hops(c) : chunk[c].path[i].retries >= 0

(* Who holds a chunk whose challenge has begun is noted, the prover among them,  *)
(* and what is proved was found near enough.                                     *)
Held ==
    \A c \in Chunk :
        /\ chunk[c].pc # "todo" => \A n \in Node : c \in store[n] => n \in holders[c]
        /\ chunk[c].pc = "return" /\ chunk[c].answer = "response"
              => chunk[c].prover \in holders[c]
        /\ chunk[c].pc # "done" => chunk[c].status = "none"

(* The inductive invariant.                                                      *)
Inv == TypeOK /\ Stacks /\ Held /\ ProofOfStorage

-------------------------------------------------------------------------------
(* What the steps do to the challenge of a chunk.                                *)

LEMMA TopType ==
    ASSUME TypeOK, Stacks, NEW c \in Chunk, chunk[c].pc \in {"send", "return"}
    PROVE  /\ chunk[c] \in ChunkState /\ chunk[c].path \in Seq(Frame)
           /\ Hops(c) \in Nat \ {0} /\ Hops(c) = Len(chunk[c].path)
           /\ Top(c) \in Frame /\ Top(c) = chunk[c].path[Hops(c)]
<1>1. chunk[c] \in ChunkState /\ chunk[c].path \in Seq(Frame)
  BY DEF TypeOK, ChunkState
<1>2. Hops(c) \in Nat \ {0}
  BY <1>1, LenProperties DEF Stacks, Hops
<1>3. Top(c) \in Frame
  BY <1>1, <1>2, ElementOfSeq DEF Top, Hops
<1> QED BY <1>1, <1>2, <1>3 DEF Top, Hops

LEMMA NewFrameType ==
    ASSUME NEW n \in Node, NEW tried \in SUBSET Node
    PROVE  /\ NewFrame(n, tried) \in Frame
           /\ NewFrame(n, tried).node = n /\ NewFrame(n, tried).tried = tried
           /\ NewFrame(n, tried).retries >= 0
BY DEF NewFrame, Frame

LEMMA OnTopType ==
    ASSUME NEW path \in Seq(Frame), Len(path) >= 1, NEW f \in Frame
    PROVE  /\ OnTop(path, f) \in Seq(Frame) /\ Len(OnTop(path, f)) = Len(path)
           /\ OnTop(path, f)[Len(path)] = f
           /\ \A i \in 1 .. Len(path) - 1 : OnTop(path, f)[i] = path[i]
<1>1. Len(path) \in 1 .. Len(path)
  BY LenProperties
<1> QED BY <1>1, ExceptSeq, LenProperties DEF OnTop

(* The records that the steps make of the challenge q.                           *)
LEMMA AnsweredType ==
    ASSUME NEW q \in ChunkState, NEW answer \in Answer, NEW prover \in Node,
           NEW r, \/ r = [q EXCEPT !.pc = "return", !.answer = answer] /\ prover = q.prover
                  \/ r = [q EXCEPT !.pc = "return", !.prover = prover, !.answer = answer]
    PROVE  /\ r \in ChunkState /\ r.pc = "return" /\ r.path = q.path /\ r.answer = answer
           /\ r.prover = prover /\ r.status = q.status
<1>1. r \in ChunkState
  BY DEF ChunkState
<1>2. /\ r.pc = "return" /\ r.path = q.path /\ r.answer = answer
      /\ r.prover = prover /\ r.status = q.status
  BY DEF ChunkState
<1> QED BY <1>1, <1>2

LEMMA OthersKept ==
    ASSUME TypeOK, NEW c \in Chunk, NEW r \in ChunkState, chunk' = [chunk EXCEPT ![c] = r]
    PROVE  /\ chunk' \in [Chunk -> ChunkState] /\ chunk'[c] = r
           /\ \A d \in Chunk \ {c} : chunk'[d] = chunk[d]
BY DEF TypeOK

(* A step of the challenge of c that leaves the stores alone.                    *)
LEMMA ChallengeStep ==
    ASSUME Inv, NEW c \in Chunk, NEW r \in ChunkState, chunk' = [chunk EXCEPT ![c] = r],
           UNCHANGED <<store, enabled, reachable, public, cancelled, holders>>,
           faults' \in Nat, chunk[c].pc # "todo",
           r.pc \in {"send", "return"} => Len(r.path) >= 1,
           r.pc = "send" => \A i \in 1 .. Len(r.path) : r.path[i].retries >= 0,
           r.pc = "return" /\ r.answer = "response" => r.prover \in holders[c],
           r.pc # "done" => r.status = "none",
           r.status = "proved" => r.prover \in holders[c] /\ Dist[c][r.prover] < Radius
    PROVE  Inv'
<1>1. /\ chunk' \in [Chunk -> ChunkState] /\ chunk'[c] = r
      /\ \A d \in Chunk \ {c} : chunk'[d] = chunk[d]
  BY OthersKept DEF Inv
<1>2. TypeOK'
  BY <1>1 DEF Inv, TypeOK
<1>3. Stacks'
  BY <1>1 DEF Inv, Stacks, Hops
<1>4. Held'
  BY <1>1 DEF Inv, Held
<1>5. ProofOfStorage'
  BY <1>1 DEF Inv, ProofOfStorage
<1> QED BY <1>2, <1>3, <1>4, <1>5 DEF Inv

-------------------------------------------------------------------------------
LEMMA InvInit == Init => Inv
<1> SUFFICES ASSUME Init PROVE Inv
  OBVIOUS
<1>1. ASSUME NEW c \in Chunk
      PROVE  /\ chunk[c] \in ChunkState /\ chunk[c].pc = "todo"
             /\ chunk[c].status = "none"
  <2>1. <<>> \in Seq(Frame)
    BY EmptySeq
  <2> QED BY <2>1 DEF Init, ChunkState, Answer
<1>2. TypeOK
  BY <1>1, InitAssumption, PeerAssumption DEF Init, TypeOK
<1> QED BY <1>1, <1>2 DEF Inv, Stacks, Held, ProofOfStorage

LEMMA StartChunkStep ==
    ASSUME Inv, NEW c \in Chunk, StartChunk(c)
    PROVE  Inv'
<1> DEFINE q == chunk[c]
           r == [q EXCEPT !.pc = "send", !.path = <<NewFrame(Origin, {})>>]
<1>1. /\ q \in ChunkState /\ q.pc = "todo" /\ q.status = "none"
      /\ UNCHANGED <<store, enabled, reachable, public, cancelled, faults>>
      /\ holders' = [holders EXCEPT ![c] = {n \in Node : c \in store[n]}]
      /\ chunk' = [chunk EXCEPT ![c] = r]
  BY DEF StartChunk, Inv, TypeOK, Held
<1>2. NewFrame(Origin, {}) \in Frame /\ NewFrame(Origin, {}).retries >= 0
  BY NewFrameType
<1>3. <<NewFrame(Origin, {})>> \in Seq(Frame) /\ Len(<<NewFrame(Origin, {})>>) = 1
  BY <1>2
<1>4. /\ r \in ChunkState /\ r.pc = "send" /\ r.path = <<NewFrame(Origin, {})>>
      /\ r.status = "none"
  <2>1. q \in ChunkState /\ <<NewFrame(Origin, {})>> \in Seq(Frame) /\ q.status = "none"
    BY <1>1, <1>3
  <2> HIDE DEF q
  <2>2. r \in ChunkState
    BY <2>1 DEF ChunkState
  <2> QED BY <2>1, <2>2 DEF ChunkState
<1> HIDE DEF r
<1>5. /\ chunk' \in [Chunk -> ChunkState] /\ chunk'[c] = r
      /\ \A d \in Chunk \ {c} : chunk'[d] = chunk[d]
  BY <1>1, <1>4, OthersKept DEF Inv
<1>6. /\ holders' \in [Chunk -> SUBSET Node]
      /\ holders'[c] = {n \in Node : c \in store[n]}
      /\ \A d \in Chunk \ {c} : holders'[d] = holders[d]
  BY <1>1 DEF Inv, TypeOK
<1>7. TypeOK'
  BY <1>1, <1>5, <1>6 DEF Inv, TypeOK
<1>8. Stacks'
  <2>1. Len(r.path) = 1 /\ r.path[1] = NewFrame(Origin, {})
    BY <1>3, <1>4
  <2>2. \A i \in 1 .. Len(r.path) : r.path[i].retries >= 0
    BY <1>2, <2>1
  <2> QED BY <1>5, <2>1, <2>2 DEF Inv, Stacks, Hops
<1>9. Held'
  BY <1>1, <1>4, <1>5, <1>6 DEF Inv, Held
<1>10. ProofOfStorage'
  BY <1>1, <1>4, <1>5, <1>6 DEF Inv, ProofOfStorage
<1> QED BY <1>7, <1>8, <1>9, <1>10 DEF Inv

LEMMA ForwardStep ==
    ASSUME Inv, NEW c \in Chunk, Forward(c)
    PROVE  Inv'
<1>1. PICK p \in Closest(c, Top(c)) \ {Top(c).node} :
        LET f == [Top(c) EXCEPT !.tried = @ \cup {p}] IN
        chunk' = [chunk EXCEPT ![c].path =
                    Append(OnTop(@, f), NewFrame(p, {Top(c).node}))]
  BY DEF Forward
<1> DEFINE q == chunk[c]
           f == [Top(c) EXCEPT !.tried = @ \cup {p}]
           path == Append(OnTop(q.path, f), NewFrame(p, {Top(c).node}))
           r == [q EXCEPT !.path = path]
<1>2. /\ q \in ChunkState /\ q.path \in Seq(Frame) /\ Len(q.path) \in Nat \ {0}
      /\ Top(c) \in Frame /\ Top(c) = q.path[Len(q.path)] /\ q.pc = "send"
      /\ Hops(c) = Len(q.path)
      /\ q.status = "none"
  BY TopType DEF Forward, Sending, Inv, Held
<1>3. p \in Node
  BY <1>1, <1>2 DEF Closest, Candidates, Inv, TypeOK, Frame
<1>4. f \in Frame /\ f.retries = Top(c).retries
  BY <1>2, <1>3 DEF Frame
<1>5. /\ NewFrame(p, {Top(c).node}) \in Frame
      /\ NewFrame(p, {Top(c).node}).retries >= 0
  <2>1. {Top(c).node} \in SUBSET Node
    BY <1>2 DEF Frame
  <2> QED BY <1>3, <2>1, NewFrameType
<1> HIDE DEF f
<1>6. /\ OnTop(q.path, f) \in Seq(Frame) /\ Len(OnTop(q.path, f)) = Len(q.path)
      /\ \A i \in 1 .. Len(q.path) : OnTop(q.path, f)[i].retries >= 0
  <2>1. \A i \in 1 .. Len(q.path) : q.path[i].retries >= 0
    BY <1>2 DEF Inv, Stacks
  <2>2. q.path \in Seq(Frame) /\ Len(q.path) >= 1 /\ Len(q.path) \in Nat
    BY <1>2
  <2> HIDE DEF q
  <2>3. /\ OnTop(q.path, f) \in Seq(Frame) /\ Len(OnTop(q.path, f)) = Len(q.path)
        /\ OnTop(q.path, f)[Len(q.path)] = f
        /\ \A i \in 1 .. Len(q.path) - 1 : OnTop(q.path, f)[i] = q.path[i]
    BY <1>4, <2>2, OnTopType
  <2>4. f.retries >= 0
    BY <1>2, <1>4, <2>1, <2>2
  <2>5. ASSUME NEW i \in 1 .. Len(q.path) PROVE OnTop(q.path, f)[i].retries >= 0
    <3>1. CASE i = Len(q.path)
      BY <2>3, <2>4, <3>1
    <3>2. CASE i # Len(q.path)
      <4>1. i \in 1 .. Len(q.path) - 1
        BY <2>2, <3>2
      <4> QED BY <2>1, <2>3, <4>1
    <3> QED BY <3>1, <3>2
  <2> QED BY <2>3, <2>5
<1>7. /\ path \in Seq(Frame) /\ Len(path) >= 1
      /\ \A i \in 1 .. Len(path) : path[i].retries >= 0
  <2> DEFINE s == OnTop(q.path, f)
             e == NewFrame(p, {Top(c).node})
  <2>1. /\ s \in Seq(Frame) /\ e \in Frame /\ Len(s) \in Nat /\ e.retries >= 0
        /\ \A i \in 1 .. Len(s) : s[i].retries >= 0
    BY <1>2, <1>5, <1>6
  <2> HIDE DEF s, e
  <2>2. /\ Append(s, e) \in Seq(Frame) /\ Len(Append(s, e)) = Len(s) + 1
        /\ \A i \in 1 .. Len(s) : Append(s, e)[i] = s[i]
        /\ Append(s, e)[Len(s) + 1] = e
    BY <2>1, AppendProperties
  <2>3. ASSUME NEW i \in 1 .. Len(s) + 1 PROVE Append(s, e)[i].retries >= 0
    <3>1. CASE i \in 1 .. Len(s)
      BY <2>1, <2>2, <3>1
    <3>2. CASE i = Len(s) + 1
      BY <2>1, <2>2, <3>2
    <3> QED BY <2>1, <3>1, <3>2
  <2>4. path = Append(s, e)
    BY DEF s, e
  <2> HIDE DEF path
  <2> QED BY <2>1, <2>2, <2>3, <2>4
<1> HIDE DEF path
<1>8. r \in ChunkState /\ r.pc = "send" /\ r.path = path /\ r.status = "none"
  BY <1>2, <1>7 DEF ChunkState
<1>9. chunk' = [chunk EXCEPT ![c] = r]
  BY <1>1 DEF path, f
<1>10. UNCHANGED <<store, enabled, reachable, public, cancelled, holders, faults>>
  BY DEF Forward
<1> HIDE DEF r
<1> QED BY <1>2, <1>7, <1>8, <1>9, <1>10, ChallengeStep DEF Inv, TypeOK

LEMMA SendFailsStep ==
    ASSUME Inv, NEW c \in Chunk, SendFails(c)
    PROVE  Inv'
<1> DEFINE F(p) == [Top(c) EXCEPT !.tried = @ \cup {p}, !.retries = @ - 1]
<1>1. PICK p \in Closest(c, Top(c)) \ {Top(c).node} :
        chunk' = [chunk EXCEPT ![c] =
                    [chunk[c] EXCEPT
                        !.path = OnTop(chunk[c].path, F(p)),
                        !.pc = IF F(p).retries < 0 THEN "return" ELSE chunk[c].pc,
                        !.answer = IF F(p).retries < 0 THEN "ErrNotSent" ELSE chunk[c].answer]]
  BY DEF SendFails
<1> DEFINE q == chunk[c]
           f == F(p)
           path == OnTop(q.path, f)
           pc == IF f.retries < 0 THEN "return" ELSE q.pc
           answer == IF f.retries < 0 THEN "ErrNotSent" ELSE q.answer
           r == [q EXCEPT !.path = path, !.pc = pc, !.answer = answer]
<1>2. /\ q \in ChunkState /\ q.path \in Seq(Frame) /\ Len(q.path) \in Nat \ {0}
      /\ Top(c) \in Frame /\ Top(c) = q.path[Len(q.path)] /\ q.pc = "send"
      /\ q.status = "none" /\ Hops(c) = Len(q.path)
  BY TopType DEF SendFails, Sending, Inv, Held
<1>3. p \in Node
  BY <1>1, <1>2 DEF Closest, Candidates, Inv, TypeOK, Frame
<1>4. \A i \in 1 .. Len(q.path) : q.path[i].retries >= 0
  BY <1>2 DEF Inv, Stacks
<1>5. f \in Frame
  <2>1. Top(c).retries \in 0 .. maxPeers
    BY SMTT(30), <1>2, <1>4 DEF Frame
  <2>2. Top(c).tried \cup {p} \in SUBSET Node
    BY <1>2, <1>3 DEF Frame
  <2>3. Top(c).retries - 1 \in -1 .. maxPeers
    BY <2>1
  <2> DEFINE g == Top(c)
             tried == g.tried \cup {p}
             retries == g.retries - 1
  <2>4. f = [g EXCEPT !.tried = tried, !.retries = retries] /\ g \in Frame
    BY <1>2 DEF Frame
  <2> HIDE DEF f, g, tried, retries
  <2>5. tried \in SUBSET Node /\ retries \in -1 .. maxPeers
    BY <2>2, <2>3 DEF g, tried, retries
  <2> QED BY <2>4, <2>5 DEF Frame
<1> HIDE DEF f
<1>6. /\ path \in Seq(Frame) /\ Len(path) = Len(q.path)
      /\ path[Len(q.path)] = f
      /\ \A i \in 1 .. Len(q.path) - 1 : path[i] = q.path[i]
  <2>1. q.path \in Seq(Frame) /\ Len(q.path) >= 1
    BY <1>2
  <2> HIDE DEF q
  <2> QED BY <1>5, <2>1, OnTopType
<1> HIDE DEF path
<1>7. /\ pc \in {"return", "send"} /\ answer \in Answer
      /\ pc = "return" => answer = "ErrNotSent"
      /\ pc = "send" => f.retries >= 0
  BY <1>2, <1>5 DEF ChunkState, Answer, Frame
<1> HIDE DEF pc, answer
<1>8. r \in ChunkState /\ r.pc = pc /\ r.path = path /\ r.answer = answer /\ r.status = "none"
  <2>1. q \in ChunkState /\ q.status = "none"
    BY <1>2
  <2> HIDE DEF q
  <2>2. r \in ChunkState
    BY <1>6, <1>7, <2>1 DEF ChunkState
  <2> QED BY <2>1, <2>2 DEF ChunkState
<1>9. chunk' = [chunk EXCEPT ![c] = r]
  BY <1>1 DEF path, f, pc, answer
<1>10. /\ UNCHANGED <<store, enabled, reachable, public, cancelled, holders>>
       /\ faults' \in Nat
  BY DEF SendFails, Fault, Inv, TypeOK
<1> HIDE DEF r
<1>11. r.pc = "send" => \A i \in 1 .. Len(r.path) : r.path[i].retries >= 0
  BY <1>2, <1>4, <1>6, <1>7, <1>8
<1>12. /\ chunk[c].pc # "todo" /\ Len(r.path) >= 1 /\ r.status # "proved"
       /\ ~ (r.pc = "return" /\ r.answer = "response")
  BY <1>2, <1>6, <1>7, <1>8
<1> QED BY <1>8, <1>9, <1>10, <1>11, <1>12, ChallengeStep

(* A SendClosest call that ends: no peer is left, or the handler is the closest   *)
(* itself. The prover is one that holds the chunk.                               *)
LEMMA NoPeerStep ==
    ASSUME Inv, NEW c \in Chunk, NoPeer(c)
    PROVE  Inv'
<1> DEFINE q == chunk[c]
           r == [q EXCEPT !.pc = "return", !.answer = "ErrNotFound"]
<1>1. q \in ChunkState /\ Len(q.path) >= 1 /\ q.pc = "send" /\ q.status = "none"
  BY TopType DEF NoPeer, Sending, Inv, Held
<1>2. chunk' = [chunk EXCEPT ![c] = r]
  BY DEF NoPeer, Answered
<1>3. r \in ChunkState /\ r.pc = "return" /\ r.path = q.path /\ r.status = "none"
      /\ r.answer = "ErrNotFound"
  <2>1. "ErrNotFound" \in Answer
    BY DEF Answer
  <2> HIDE DEF q
  <2> QED BY <1>1, <2>1 DEF ChunkState
<1>4. /\ UNCHANGED <<store, enabled, reachable, public, cancelled, holders>>
      /\ faults' \in Nat
  BY DEF NoPeer, Inv, TypeOK
<1>5. chunk[c].pc # "todo" /\ Len(r.path) >= 1
  BY <1>1, <1>3
<1> HIDE DEF r, q
<1> QED BY <1>2, <1>3, <1>4, <1>5, ChallengeStep

LEMMA processChallengeStep ==
    ASSUME Inv, NEW c \in Chunk, processChallenge(c)
    PROVE  Inv'
<1> DEFINE q == chunk[c]
           n == Top(c).node
           a == [q EXCEPT !.pc = "return", !.prover = n, !.answer = "response"]
           b == [q EXCEPT !.pc = "return", !.answer = "Refused"]
<1>1. /\ q \in ChunkState /\ Len(q.path) >= 1 /\ q.pc = "send" /\ q.status = "none"
      /\ n \in Node
  BY SMTT(30), TopType DEF processChallenge, Sending, Inv, Held, Frame
<1>2. /\ UNCHANGED <<store, enabled, reachable, public, cancelled, holders>>
      /\ faults' \in Nat
  BY DEF processChallenge, Inv, TypeOK
<1>3. CASE enabled[n] /\ c \in store[n]
  <2>1. chunk' = [chunk EXCEPT ![c] = a]
    BY <1>3 DEF processChallenge
  <2>2. n \in holders[c]
    BY <1>1, <1>3 DEF Inv, Held
  <2>3. a \in ChunkState /\ a.pc = "return" /\ a.path = q.path /\ a.status = "none"
        /\ a.prover = n
    <3>1. "response" \in Answer
      BY DEF Answer
    <3> HIDE DEF q, n
    <3> QED BY <1>1, <3>1 DEF ChunkState
  <2>4. chunk[c].pc # "todo" /\ Len(a.path) >= 1
    BY <1>1, <2>3
  <2> HIDE DEF a, q, n
  <2> QED BY <1>2, <2>1, <2>2, <2>3, <2>4, ChallengeStep
<1>4. CASE ~(enabled[n] /\ c \in store[n])
  <2>1. chunk' = [chunk EXCEPT ![c] = b]
    BY <1>4 DEF processChallenge, Answered
  <2>2. b \in ChunkState /\ b.pc = "return" /\ b.path = q.path /\ b.status = "none"
        /\ b.answer = "Refused"
    <3>1. "Refused" \in Answer
      BY DEF Answer
    <3> HIDE DEF q
    <3> QED BY <1>1, <3>1 DEF ChunkState
  <2>3. chunk[c].pc # "todo" /\ Len(b.path) >= 1
    BY <1>1, <2>2
  <2> HIDE DEF b, q, n
  <2> QED BY <1>2, <2>1, <2>2, <2>3, ChallengeStep
<1> QED BY <1>3, <1>4

(* The stack loses frames when calls return or a stream breaks; a proof that is   *)
(* passed on is the same.                                                        *)
LEMMA PoppedType ==
    ASSUME NEW path \in Seq(Frame), NEW hop \in 1 .. Len(path)
    PROVE  SubSeq(path, 1, hop) \in Seq(Frame) /\ Len(SubSeq(path, 1, hop)) = hop
<1>1. Len(path) \in Nat /\ hop \in Int
  BY LenProperties
<1>2. \A i \in 1 .. hop : path[i] \in Frame
  BY <1>1, ElementOfSeq
<1> QED BY <1>1, <1>2, SubSeqProperties

LEMMA ReturnStep ==
    ASSUME Inv, NEW c \in Chunk, Return(c)
    PROVE  Inv'
<1> DEFINE q == chunk[c]
           path == SubSeq(q.path, 1, Hops(c) - 1)
           answer == IF q.answer = "response" THEN "response" ELSE "Error"
           r == [q EXCEPT !.path = path, !.answer = answer]
<1>1. /\ q \in ChunkState /\ q.path \in Seq(Frame) /\ Hops(c) \in Nat \ {0}
      /\ Hops(c) = Len(q.path) /\ Hops(c) > 1
      /\ q.pc = "return" /\ q.status = "none"
      /\ q.answer = "response" => q.prover \in holders[c]
  BY TopType DEF Return, Inv, Held
<1>2. path \in Seq(Frame) /\ Len(path) >= 1
  <2>1. Hops(c) - 1 \in 1 .. Len(q.path)
    BY <1>1
  <2> HIDE DEF q
  <2> QED BY <1>1, <2>1, PoppedType
<1>3. answer \in Answer /\ (answer = "response" => q.answer = "response")
  BY DEF Answer
<1>4. chunk' = [chunk EXCEPT ![c] = r]
  BY DEF Return
<1> HIDE DEF path, answer
<1>5. /\ r \in ChunkState /\ r.pc = "return" /\ r.path = path /\ r.status = "none"
      /\ r.answer = answer /\ r.prover = q.prover
  <2> HIDE DEF q
  <2>1. r \in ChunkState
    BY <1>1, <1>2, <1>3 DEF ChunkState
  <2> QED BY <1>1, <2>1 DEF ChunkState
<1>6. /\ UNCHANGED <<store, enabled, reachable, public, cancelled, holders>>
      /\ faults' \in Nat
  BY DEF Return, Inv, TypeOK
<1>7. /\ chunk[c].pc # "todo" /\ Len(r.path) >= 1
      /\ r.answer = "response" => r.prover \in holders[c]
  BY <1>1, <1>2, <1>3, <1>5
<1> HIDE DEF r, q
<1> QED BY <1>4, <1>5, <1>6, <1>7, ChallengeStep

LEMMA StreamBreaksStep ==
    ASSUME Inv, NEW c \in Chunk, StreamBreaks(c)
    PROVE  Inv'
<1> DEFINE q == chunk[c]
<1>1. /\ q \in ChunkState /\ q.path \in Seq(Frame) /\ Hops(c) \in Nat \ {0}
      /\ Hops(c) = Len(q.path) /\ q.pc \in {"send", "return"} /\ q.status = "none"
  BY TopType DEF StreamBreaks, Inv, Held
<1>2. PICK hop \in 1 .. Hops(c) - 1 :
        /\ faults' \in Nat
        /\ chunk' = [chunk EXCEPT ![c] =
             [q EXCEPT !.path = SubSeq(q.path, 1, hop), !.pc = "return", !.answer = "Error"]]
  <2>1. faults \in Nat
    BY DEF Inv, TypeOK
  <2>2. PICK hop \in 1 .. Hops(c) - 1 :
          /\ IF cancelled /\ hop = 1 THEN faults' = faults ELSE Fault
          /\ chunk' = [chunk EXCEPT ![c] =
               [q EXCEPT !.path = SubSeq(q.path, 1, hop), !.pc = "return", !.answer = "Error"]]
    BY DEF StreamBreaks
  <2>3. faults' \in Nat
    BY <2>1, <2>2 DEF Fault
  <2> QED BY <2>2, <2>3
<1> DEFINE path == SubSeq(q.path, 1, hop)
           r == [q EXCEPT !.path = path, !.pc = "return", !.answer = "Error"]
<1>3. path \in Seq(Frame) /\ Len(path) >= 1
  <2>1. hop \in 1 .. Len(q.path)
    BY <1>1
  <2> HIDE DEF q
  <2> QED BY <1>1, <2>1, PoppedType
<1>4. chunk' = [chunk EXCEPT ![c] = r]
  BY <1>2
<1> HIDE DEF path
<1>5. /\ r \in ChunkState /\ r.pc = "return" /\ r.path = path /\ r.status = "none"
      /\ r.answer = "Error"
  <2>1. "Error" \in Answer
    BY DEF Answer
  <2> HIDE DEF q
  <2>2. r \in ChunkState
    BY <1>1, <1>3, <2>1 DEF ChunkState
  <2> QED BY <1>1, <2>2 DEF ChunkState
<1>6. UNCHANGED <<store, enabled, reachable, public, cancelled, holders>>
  BY DEF StreamBreaks
<1>7. chunk[c].pc # "todo" /\ Len(r.path) >= 1
  BY <1>1, <1>3, <1>5
<1> HIDE DEF r, q
<1> QED BY <1>2, <1>4, <1>5, <1>6, <1>7, ChallengeStep

(* reuploadChunk has its answer: the proof counts, or the chunk is pushed.       *)
LEMMA handleResponseStep ==
    ASSUME Inv, NEW c \in Chunk, handleResponse(c)
    PROVE  Inv'
<1> DEFINE q == chunk[c]
           proved == /\ q.answer = "response" /\ c \in store[Origin]
                     /\ Dist[c][q.prover] < Radius
           a == [q EXCEPT !.pc = "done", !.status = "proved"]
           b == [q EXCEPT !.pc = "push", !.status = "none"]
<1>1. /\ q \in ChunkState /\ q.pc = "return" /\ q.status = "none"
      /\ q.answer = "response" => q.prover \in holders[c]
  BY TopType DEF handleResponse, Inv, Held, TypeOK
<1>2. /\ UNCHANGED <<store, enabled, reachable, public, cancelled, holders>>
      /\ faults' \in Nat
  BY DEF handleResponse, Inv, TypeOK
<1>3. CASE proved
  <2>1. chunk' = [chunk EXCEPT ![c] = a]
    BY <1>3 DEF handleResponse
  <2>2. a \in ChunkState /\ a.pc = "done" /\ a.prover = q.prover
    <3> HIDE DEF q
    <3> QED BY <1>1 DEF ChunkState
  <2>3. a.prover \in holders[c] /\ Dist[c][a.prover] < Radius
    BY <1>1, <1>3, <2>2
  <2> HIDE DEF a
  <2> QED BY <1>1, <1>2, <2>1, <2>2, <2>3, ChallengeStep
<1>4. CASE ~proved
  <2>1. chunk' = [chunk EXCEPT ![c] = b]
    BY <1>4 DEF handleResponse
  <2>2. b \in ChunkState /\ b.pc = "push" /\ b.status = "none"
    <3> HIDE DEF q
    <3> QED BY <1>1 DEF ChunkState
  <2> HIDE DEF b
  <2> QED BY <1>1, <1>2, <2>1, <2>2, ChallengeStep
<1> QED BY <1>3, <1>4

LEMMA PushStep ==
    ASSUME Inv, NEW c \in Chunk, pushChunk(c) \/ PushFails(c)
    PROVE  Inv'
<1> DEFINE q == chunk[c]
           a == [q EXCEPT !.pc = "done", !.status = "errored"]
           b == [q EXCEPT !.pc = "done", !.status = "reuploaded"]
<1>1. q \in ChunkState /\ q.pc = "push"
  BY DEF pushChunk, PushFails, Inv, TypeOK
<1>2. /\ a \in ChunkState /\ a.pc = "done" /\ a.status = "errored"
      /\ b \in ChunkState /\ b.pc = "done" /\ b.status = "reuploaded"
  <2> HIDE DEF q
  <2> QED BY <1>1 DEF ChunkState
<1>3. /\ UNCHANGED <<enabled, reachable, public, cancelled>> /\ faults' \in Nat
  BY DEF pushChunk, PushFails, Fault, Inv, TypeOK
<1>4. CASE chunk' = [chunk EXCEPT ![c] = a] /\ UNCHANGED <<store, holders>>
  <2> HIDE DEF a
  <2> QED BY <1>1, <1>2, <1>3, <1>4, ChallengeStep
<1>5. ASSUME chunk' = [chunk EXCEPT ![c] = b], NEW n \in Node,
             store' = [store EXCEPT ![n] = @ \cup {c}],
             holders' = [holders EXCEPT ![c] = @ \cup {n}]
      PROVE  Inv'
  <2> HIDE DEF b
  <2>1. /\ chunk' \in [Chunk -> ChunkState] /\ chunk'[c] = b
        /\ \A d \in Chunk \ {c} : chunk'[d] = chunk[d]
    BY <1>2, <1>5, OthersKept DEF Inv
  <2>2. /\ store' \in [Node -> SUBSET Chunk] /\ holders' \in [Chunk -> SUBSET Node]
        /\ \A m \in Node, d \in Chunk \ {c} : d \in store'[m] => d \in store[m]
        /\ \A m \in Node : c \in store'[m] => c \in store[m] \/ m = n
        /\ n \in holders'[c] /\ \A d \in Chunk : holders[d] \subseteq holders'[d]
    BY <1>5 DEF Inv, TypeOK
  <2>3. TypeOK'
    BY <1>3, <2>1, <2>2 DEF Inv, TypeOK
  <2>4. Stacks'
    BY <1>2, <2>1 DEF Inv, Stacks, Hops
  <2>5. Held'
    <3>1. ASSUME NEW d \in Chunk, NEW m \in Node, chunk'[d].pc # "todo", d \in store'[m]
          PROVE  m \in holders'[d]
      BY <1>1, <2>1, <2>2, <3>1 DEF Inv, Held
    <3> QED BY <1>2, <2>1, <2>2, <3>1 DEF Inv, Held
  <2>6. ProofOfStorage'
    BY <1>2, <2>1, <2>2 DEF Inv, ProofOfStorage
  <2> QED BY <2>3, <2>4, <2>5, <2>6 DEF Inv
<1> QED BY <1>4, <1>5 DEF pushChunk, PushFails

(* What goes wrong around a challenge: chunks are evicted, nothing is added.     *)
LEMMA EnvironmentStep ==
    ASSUME Inv, UNCHANGED <<chunk, holders>>,
           \/ Cancel
           \/ \E n \in Node : \/ SetEnabled(n) \/ UpdateReachability(n)
                              \/ \E p \in Node : PeerChanges(n, p)
                              \/ \E c \in Chunk : Evict(n, c)
    PROVE  Inv'
<1>1. /\ store' \in [Node -> SUBSET Chunk]
      /\ \A n \in Node : store'[n] \subseteq store[n]
  <2>1. store \in [Node -> SUBSET Chunk]
    BY DEF Inv, TypeOK
  <2>2. CASE UNCHANGED store
    BY <2>1, <2>2
  <2>3. ASSUME NEW n \in Node, NEW c \in Chunk, store' = [store EXCEPT ![n] = @ \ {c}]
        PROVE  /\ store' \in [Node -> SUBSET Chunk]
               /\ \A m \in Node : store'[m] \subseteq store[m]
    BY <2>1, <2>3
  <2> QED BY <2>2, <2>3 DEF Cancel, SetEnabled, UpdateReachability, PeerChanges, Evict
<1>2. TypeOK'
  <2>1. /\ enabled \in [Node -> BOOLEAN] /\ reachable \in [Node -> SUBSET Node]
        /\ public \in SUBSET Node /\ cancelled \in BOOLEAN /\ faults \in Nat
    BY DEF Inv, TypeOK
  <2>2. faults' \in Nat
    BY <2>1 DEF Cancel, SetEnabled, UpdateReachability, PeerChanges, Evict, Fault
  <2>3. /\ enabled' \in [Node -> BOOLEAN] /\ reachable' \in [Node -> SUBSET Node]
        /\ public' \in SUBSET Node /\ cancelled' \in BOOLEAN
    <3>1. CASE Cancel
      BY <2>1, <3>1 DEF Cancel
    <3>2. ASSUME NEW n \in Node, SetEnabled(n)
          PROVE  /\ enabled' \in [Node -> BOOLEAN]
                 /\ UNCHANGED <<reachable, public, cancelled>>
      BY <2>1, <3>2 DEF SetEnabled
    <3>3. ASSUME NEW n \in Node, UpdateReachability(n)
          PROVE  public' \in SUBSET Node /\ UNCHANGED <<reachable, enabled, cancelled>>
      BY <2>1, <3>3 DEF UpdateReachability
    <3>4. ASSUME NEW n \in Node, NEW p \in Node, PeerChanges(n, p)
          PROVE  /\ reachable' \in [Node -> SUBSET Node]
                 /\ UNCHANGED <<enabled, public, cancelled>>
      BY <2>1, <3>4 DEF PeerChanges
    <3>5. ASSUME NEW n \in Node, NEW c \in Chunk, Evict(n, c)
          PROVE  UNCHANGED <<enabled, reachable, public, cancelled>>
      BY <3>5 DEF Evict
    <3> QED BY <2>1, <3>1, <3>2, <3>3, <3>4, <3>5
  <2> QED BY <1>1, <2>1, <2>2, <2>3 DEF Inv, TypeOK
<1>3. Stacks'
  BY DEF Inv, Stacks, Hops
<1>4. Held'
  BY <1>1 DEF Inv, Held
<1>5. ProofOfStorage'
  BY DEF Inv, ProofOfStorage
<1> QED BY <1>2, <1>3, <1>4, <1>5 DEF Inv

LEMMA InvStep == Inv /\ [Next]_vars => Inv'
<1> SUFFICES ASSUME Inv, [Next]_vars PROVE Inv'
  OBVIOUS
<1>1. ASSUME NEW c \in Chunk, Chunks(c) PROVE Inv'
  BY <1>1, StartChunkStep, ForwardStep, SendFailsStep, NoPeerStep, processChallengeStep,
     ReturnStep, handleResponseStep, PushStep DEF Chunks
<1>2. ASSUME NEW c \in Chunk, StreamBreaks(c) \/ PushFails(c) PROVE Inv'
  BY <1>2, StreamBreaksStep, PushStep
<1>3. CASE \/ Cancel
           \/ \E n \in Node : \/ SetEnabled(n) \/ UpdateReachability(n)
                              \/ \E p \in Node : PeerChanges(n, p)
                              \/ \E c \in Chunk : Evict(n, c)
  <2>1. UNCHANGED <<chunk, holders>>
    BY <1>3 DEF Cancel, SetEnabled, UpdateReachability, PeerChanges, Evict
  <2> QED BY <1>3, <2>1, EnvironmentStep
<1>4. CASE UNCHANGED vars
  BY <1>4 DEF vars, Inv, TypeOK, Stacks, Hops, Held, ProofOfStorage
<1> QED BY <1>1, <1>2, <1>3, <1>4 DEF Next, Environment

(* The inductive invariant is an invariant.                                      *)
THEOREM Invariant == Spec => []Inv
<1>1. Init => Inv
  BY InvInit
<1>2. Inv /\ [Next]_vars => Inv'
  BY InvStep
<1> QED BY <1>1, <1>2, PTL DEF Spec

(* What counts as a proof of storage was given by a node that held the chunk     *)
(* while it was challenged, and is deep enough, whatever failed on the way.      *)
THEOREM ProofsMeanStored == Spec => []ProofOfStorage
<1>1. Inv => ProofOfStorage
  BY DEF Inv
<1> QED BY <1>1, Invariant, PTL

-------------------------------------------------------------------------------
(* Where a challenge comes to rest when nothing fails and every node is public.  *)

(* Connections to the origin are known on both sides.                            *)
Symmetric == \A r \in InitReachable, n \in Node : Origin \in r[n] => n \in r[Origin]

(* Until something fails nothing but the challenges changes.                     *)
Quiet ==
    faults = 0 =>
        /\ ~cancelled /\ enabled = [n \in Node |-> TRUE] /\ reachable \in InitReachable
        /\ \A c \in Chunk : c \in store[Origin]

Lively == faults = 0 /\ public = Node /\ reachable[Origin] # {}

(* A challenge goes to the origin's closest peer and comes closer with each      *)
(* further hop, so that it never returns to the origin.                          *)
OnTheWay(c) ==
    chunk[c].pc = "send" =>
        LET n == Top(c).node IN
        /\ Hops(c) = 1 => n = Origin /\ Top(c).tried = {}
        /\ Hops(c) > 1 =>
              /\ n # Origin
              /\ \E m \in Node : Top(c).tried = {m} /\ (m # Origin => Dist[c][n] < Dist[c][m])
              /\ \A q \in reachable[Origin] :
                    /\ Dist[c][n] <= Dist[c][q]
                    /\ Origin \notin Top(c).tried => Dist[c][n] < Dist[c][q]

NearestStore(c) == \A n \in Nearest(c) : c \in store[n] /\ Dist[c][n] < Radius

(* It ends at a node that is the nearest one it knows.                           *)
Ended(c) ==
    /\ chunk[c].pc = "return" /\ chunk[c].answer = "response" => chunk[c].prover \in Nearest(c)
    /\ chunk[c].status = "proved" => chunk[c].prover # Origin
    /\ NearestStore(c) /\ chunk[c].pc \in {"return", "push"} =>
          chunk[c].pc = "return" /\ chunk[c].answer = "response"

Routes == Lively => \A c \in Chunk : OnTheWay(c) /\ Ended(c)

(* A non-empty set of naturals has a least element: the intervals 1 .. n are      *)
(* finite sets, which inclusion orders well.                                     *)
LEMMA LeastElement ==
    ASSUME NEW S \in SUBSET Nat, S # {}
    PROVE  \E n \in S : \A m \in S : n <= m
<1> DEFINE T == {1 .. n : n \in S}
<1>1. T \subseteq FiniteSubsetsOf(Nat) /\ T # {}
  <2>1. \A n \in S : n \in Int /\ 1 .. n \in SUBSET Nat
    OBVIOUS
  <2>2. \A n \in S : IsFiniteSet(1 .. n)
    BY <2>1, FS_Interval
  <2>3. \A X \in T : X \in SUBSET Nat /\ IsFiniteSet(X)
    BY <2>1, <2>2
  <2>4. T # {}
    <3>1. PICK n \in S : TRUE
      OBVIOUS
    <3>2. 1 .. n \in T
      BY <3>1
    <3> QED BY <3>2
  <2> HIDE DEF T
  <2> QED BY <2>3, <2>4 DEF FiniteSubsetsOf
<1>2. \E X \in T : \A Y \in T : ~ (<<Y, X>> \in StrictSubsetOrdering(Nat))
  <2>1. IsWellFoundedOn(StrictSubsetOrdering(Nat), FiniteSubsetsOf(Nat))
    BY FS_StrictSubsetOrderingWellFounded
  <2> HIDE DEF T
  <2> QED BY <1>1, <2>1, WFMin
<1>3. PICK n \in S : \A Y \in T : ~ (<<Y, 1 .. n>> \in StrictSubsetOrdering(Nat))
  BY <1>2
<1>4. ASSUME NEW m \in S, m < n PROVE FALSE
  <2>1. 1 .. m \in SUBSET Nat /\ 1 .. n \in SUBSET Nat /\ 1 .. m \in T
    OBVIOUS
  <2>2. 1 .. m \subseteq 1 .. n /\ n \in 1 .. n /\ n \notin 1 .. m
    BY <1>4
  <2>3. <<1 .. m, 1 .. n>> \in StrictSubsetOrdering(Nat)
    BY <2>1, <2>2 DEF StrictSubsetOrdering
  <2> QED BY <1>3, <2>1, <2>3
<1> QED BY <1>4

(* Whoever is asked finds a closest candidate: itself at least, or a peer.       *)
LEMMA ClosestExists ==
    ASSUME Inv, NEW c \in Chunk, NEW f \in Frame, Candidates(c, f) # {}
    PROVE  Closest(c, f) # {}
<1>1. Candidates(c, f) \subseteq Node
  BY DEF Candidates, Inv, TypeOK, Frame
<1> DEFINE S == {Dist[c][p] : p \in Candidates(c, f)}
<1>2. S \in SUBSET Nat /\ S # {}
  BY <1>1
<1>3. PICK d \in S : \A e \in S : d <= e
  <2> HIDE DEF S
  <2> QED BY <1>2, LeastElement
<1>4. PICK p \in Candidates(c, f) : d = Dist[c][p]
  BY <1>3
<1>5. \A q \in Candidates(c, f) : Dist[c][p] <= Dist[c][q]
  BY <1>3, <1>4
<1> QED BY <1>4, <1>5 DEF Closest

LEMMA ForwardEffect ==
    ASSUME Inv, NEW c \in Chunk, Forward(c)
    PROVE  \E p \in Closest(c, Top(c)) \ {Top(c).node} :
             /\ p \in Node /\ chunk'[c].pc = "send" /\ chunk'[c].status = "none"
             /\ Len(chunk'[c].path) = Hops(c) + 1
             /\ chunk'[c].path[Hops(c) + 1] = NewFrame(p, {Top(c).node})
<1>1. PICK p \in Closest(c, Top(c)) \ {Top(c).node} :
        LET f == [Top(c) EXCEPT !.tried = @ \cup {p}] IN
        chunk' = [chunk EXCEPT ![c].path =
                    Append(OnTop(@, f), NewFrame(p, {Top(c).node}))]
  BY DEF Forward
<1> DEFINE q == chunk[c]
           f == [Top(c) EXCEPT !.tried = @ \cup {p}]
           s == OnTop(q.path, f)
           e == NewFrame(p, {Top(c).node})
<1>2. /\ q \in ChunkState /\ q.path \in Seq(Frame) /\ Len(q.path) \in Nat \ {0}
      /\ Top(c) \in Frame /\ q.pc = "send" /\ Hops(c) = Len(q.path)
      /\ q.status = "none"
  BY TopType DEF Forward, Sending, Inv, Held
<1>3. p \in Node /\ Top(c).node \in Node
  BY <1>1, <1>2 DEF Closest, Candidates, Inv, TypeOK, Frame
<1>4. f \in Frame
  BY <1>2, <1>3 DEF Frame
<1>5. e \in Frame
  <2>1. {Top(c).node} \in SUBSET Node
    BY <1>3
  <2> QED BY <1>3, <2>1, NewFrameType
<1>6. s \in Seq(Frame) /\ Len(s) = Hops(c)
  <2>1. q.path \in Seq(Frame) /\ Len(q.path) >= 1
    BY <1>2
  <2> HIDE DEF q, f
  <2> QED BY <1>2, <1>4, <2>1, OnTopType
<1>7. chunk' = [chunk EXCEPT ![c].path = Append(s, e)]
  BY <1>1
<1> HIDE DEF s, e
<1>8. /\ chunk'[c].path = Append(s, e) /\ chunk'[c].pc = "send"
      /\ chunk'[c].status = "none"
  BY <1>2, <1>7 DEF Inv, TypeOK, ChunkState
<1>9. Len(Append(s, e)) = Hops(c) + 1 /\ Append(s, e)[Hops(c) + 1] = e
  BY <1>5, <1>6, AppendProperties
<1> QED BY <1>1, <1>3, <1>8, <1>9 DEF e

(* The steps that need no fault.                                                 *)
Progress(c) ==
    \/ StartChunk(c) \/ Forward(c) \/ NoPeer(c) \/ processChallenge(c) \/ Return(c)
    \/ handleResponse(c) \/ pushChunk(c)

LEMMA QuietSteps ==
    ASSUME Inv, Quiet, [Next]_vars, faults' = 0
    PROVE  /\ faults = 0 /\ ~cancelled
           /\ UNCHANGED vars \/ \E c \in Chunk : Progress(c)
<1>1. faults \in Nat
  BY DEF Inv, TypeOK
<1>2. ~Fault
  BY <1>1 DEF Fault
<1>3. ASSUME NEW c \in Chunk, SendFails(c) \/ StreamBreaks(c) \/ PushFails(c)
      PROVE  cancelled /\ faults' = faults
  BY <1>2, <1>3 DEF SendFails, StreamBreaks, PushFails
<1>4. \/ UNCHANGED vars
      \/ \E c \in Chunk : \/ Progress(c)
                          \/ SendFails(c) \/ StreamBreaks(c) \/ PushFails(c)
  BY <1>2 DEF Next, Environment, Chunks, Progress, Cancel, SetEnabled, UpdateReachability,
              PeerChanges, Evict
<1>5. ASSUME NEW c \in Chunk, Progress(c) PROVE faults' = faults
  BY <1>5 DEF Progress, StartChunk, Forward, NoPeer, processChallenge, Return,
              handleResponse, pushChunk
<1>6. faults = 0
  BY <1>3, <1>4, <1>5 DEF vars
<1>7. ~cancelled
  BY <1>6 DEF Quiet
<1> QED BY <1>3, <1>4, <1>6, <1>7

LEMMA ProgressKeeps ==
    ASSUME Inv, NEW c \in Chunk, Progress(c)
    PROVE  /\ UNCHANGED <<enabled, reachable, public, cancelled, faults>>
           /\ \A n \in Node : store[n] \subseteq store'[n]
           /\ \A n \in Node, d \in Chunk \ {c} : d \in store'[n] <=> d \in store[n]
           /\ chunk[c].pc # "push" => UNCHANGED store
           /\ \A d \in Chunk \ {c} : chunk'[d] = chunk[d]
<1>1. /\ UNCHANGED <<enabled, reachable, public, cancelled, faults>>
      /\ chunk[c].pc # "push" => UNCHANGED store
  BY DEF Progress, StartChunk, Forward, NoPeer, processChallenge, Return,
         handleResponse, pushChunk, Sending
<1>2. \/ UNCHANGED store
      \/ \E n \in Node : store' = [store EXCEPT ![n] = @ \cup {c}]
  BY DEF Progress, StartChunk, Forward, NoPeer, processChallenge, Return,
         handleResponse, pushChunk
<1>3. /\ \A n \in Node : store[n] \subseteq store'[n]
      /\ \A n \in Node, d \in Chunk \ {c} : d \in store'[n] <=> d \in store[n]
  BY <1>2 DEF Inv, TypeOK
<1>4. \A d \in Chunk \ {c} : chunk'[d] = chunk[d]
  <2> SUFFICES ASSUME NEW d \in Chunk \ {c} PROVE chunk'[d] = chunk[d]
    OBVIOUS
  <2>1. chunk \in [Chunk -> ChunkState]
    BY DEF Inv, TypeOK
  <2>2. CASE StartChunk(c)
    BY <2>1, <2>2 DEF StartChunk
  <2>3. CASE Forward(c)
    BY <2>1, <2>3 DEF Forward
  <2>4. CASE NoPeer(c)
    BY <2>1, <2>4 DEF NoPeer, Answered
  <2>5. CASE processChallenge(c)
    BY <2>1, <2>5 DEF processChallenge, Answered
  <2>6. CASE Return(c)
    BY <2>1, <2>6 DEF Return
  <2>7. CASE handleResponse(c)
    BY <2>1, <2>7 DEF handleResponse
  <2>8. CASE pushChunk(c)
    BY <2>1, <2>8 DEF pushChunk
  <2> QED BY <2>2, <2>3, <2>4, <2>5, <2>6, <2>7, <2>8 DEF Progress
<1> QED BY <1>1, <1>3, <1>4

LEMMA QuietStep ==
    ASSUME Inv, Quiet, [Next]_vars
    PROVE  Quiet'
<1> SUFFICES ASSUME faults' = 0
             PROVE  /\ ~cancelled' /\ enabled' = [n \in Node |-> TRUE]
                    /\ reachable' \in InitReachable
                    /\ \A c \in Chunk : c \in store'[Origin]
  BY DEF Quiet
<1>1. /\ faults = 0 /\ ~cancelled
      /\ UNCHANGED vars \/ \E c \in Chunk : Progress(c)
  BY QuietSteps
<1>2. CASE UNCHANGED vars
  BY <1>1, <1>2 DEF vars, Quiet
<1>3. ASSUME NEW c \in Chunk, Progress(c)
      PROVE  /\ UNCHANGED <<enabled, reachable, public, cancelled>>
             /\ store[Origin] \subseteq store'[Origin]
  BY <1>3, ProgressKeeps
<1> QED BY <1>1, <1>2, <1>3 DEF Quiet

(* The challenges of other chunks are not affected.                              *)
LEMMA OtherRoutes ==
    ASSUME Inv, NEW c \in Chunk, Progress(c), NEW d \in Chunk \ {c}, OnTheWay(d), Ended(d)
    PROVE  OnTheWay(d)' /\ Ended(d)'
<1>1. /\ chunk'[d] = chunk[d] /\ reachable' = reachable
      /\ \A n \in Node : d \in store'[n] <=> d \in store[n]
  BY ProgressKeeps
<1>2. Nearest(d)' = Nearest(d) /\ Nearest(d) \subseteq Node
  BY <1>1 DEF Nearest
<1>3. NearestStore(d)' = NearestStore(d)
  BY <1>1, <1>2 DEF NearestStore
<1>4. Hops(d)' = Hops(d) /\ Top(d)' = Top(d)
  BY <1>1 DEF Hops, Top
<1> QED BY <1>1, <1>2, <1>3, <1>4 DEF OnTheWay, Ended

(* The candidates of a challenge on the way.                                     *)
LEMMA LivelyCandidates ==
    ASSUME Inv, Lively, NEW c \in Chunk, Sending(c)
    PROVE  LET n == Top(c).node IN
           /\ n \in Node /\ Top(c) \in Frame
           /\ Hops(c) \in Nat \ {0}
           /\ Hops(c) = 1 => Candidates(c, Top(c)) = reachable[n] \ Top(c).tried
           /\ Hops(c) > 1 => Candidates(c, Top(c)) = (reachable[n] \ Top(c).tried) \cup {n}
<1>1. Top(c) \in Frame /\ Hops(c) \in Nat \ {0} /\ Hops(c) = Len(chunk[c].path)
  BY TopType DEF Inv, Sending
<1>2. Top(c).node \in Node
  BY <1>1 DEF Frame
<1>3. Top(c).node \in public /\ public = Node
  BY <1>2 DEF Lively
<1> DEFINE f == Top(c)
<1>4. Candidates(c, f) = (reachable[f.node] \ f.tried) \cup
                         (IF f.node \in public /\ Hops(c) > 1 THEN {f.node} ELSE {})
  BY DEF Candidates, Hops
<1> HIDE DEF f
<1>5. Hops(c) = 1 => Candidates(c, f) = reachable[f.node] \ f.tried
  <2>1. Hops(c) = 1 => ~(Hops(c) > 1)
    OBVIOUS
  <2> QED BY <1>4, <2>1
<1>6. Hops(c) > 1 => Candidates(c, f) = (reachable[f.node] \ f.tried) \cup {f.node}
  BY <1>3, <1>4 DEF f
<1> QED BY <1>1, <1>2, <1>5, <1>6 DEF f

LEMMA ForwardRoutes ==
    ASSUME Inv, Quiet, Lively, Symmetric, NEW c \in Chunk, Forward(c), OnTheWay(c), Ended(c)
    PROVE  OnTheWay(c)' /\ Ended(c)'
<1> DEFINE n == Top(c).node
<1>1. PICK p \in Closest(c, Top(c)) \ {n} :
             /\ p \in Node /\ chunk'[c].pc = "send" /\ chunk'[c].status = "none"
             /\ Len(chunk'[c].path) = Hops(c) + 1
             /\ chunk'[c].path[Hops(c) + 1] = NewFrame(p, {Top(c).node})
  BY ForwardEffect
<1>2. chunk[c].pc = "send" /\ Sending(c) /\ UNCHANGED reachable
  BY DEF Forward, Sending
<1>3. /\ n \in Node /\ Hops(c) \in Nat \ {0}
      /\ Hops(c) = 1 => Candidates(c, Top(c)) = reachable[n] \ Top(c).tried
      /\ Hops(c) > 1 => Candidates(c, Top(c)) = (reachable[n] \ Top(c).tried) \cup {n}
  BY <1>2, LivelyCandidates
<1>4. /\ Hops(c)' = Hops(c) + 1 /\ Top(c)' = NewFrame(p, {n})
      /\ Top(c)'.node = p /\ Top(c)'.tried = {n}
  <2>1. Hops(c)' = Hops(c) + 1
    BY <1>1 DEF Hops
  <2>2. Top(c)' = chunk'[c].path[Hops(c)']
    BY DEF Top
  <2>3. NewFrame(p, {n}).node = p /\ NewFrame(p, {n}).tried = {n}
    BY DEF NewFrame
  <2> HIDE DEF n
  <2> QED BY <1>1, <2>1, <2>2, <2>3 DEF n
<1> HIDE DEF n
<1>5. reachable \in InitReachable /\ reachable[n] \subseteq Node /\ reachable[Origin] \subseteq Node
  BY <1>3 DEF Quiet, Lively, Inv, TypeOK
<1>6. /\ p # n /\ p \in Candidates(c, Top(c))
      /\ \A q \in Candidates(c, Top(c)) : Dist[c][p] <= Dist[c][q]
  BY <1>1 DEF Closest
<1>7. \A x, y \in Node : Dist[c][x] \in Nat /\ (Dist[c][x] <= Dist[c][y] /\ x # y => Dist[c][x] < Dist[c][y])
  OBVIOUS
<1>8. CASE Hops(c) = 1
  <2>1. n = Origin /\ Candidates(c, Top(c)) = reachable[Origin]
    BY <1>2, <1>3, <1>8 DEF OnTheWay, n
  <2>2. p # Origin /\ \A q \in reachable[Origin] : Dist[c][p] <= Dist[c][q]
    BY <1>6, <2>1
  <2>3. \E m \in Node : Top(c)'.tried = {m} /\ (m # Origin => Dist[c][p] < Dist[c][m])
    BY <1>3, <1>4, <2>1
  <2>4. Hops(c)' # 1 /\ Origin \in Top(c)'.tried
    <3>1. Hops(c)' # 1
      BY <1>4, <1>8
    <3>2. Origin \in Top(c)'.tried
      BY <1>4, <2>1
    <3> QED BY <3>1, <3>2
  <2>5. Top(c)'.node # Origin /\ \A q \in reachable'[Origin] : Dist[c][p] <= Dist[c][q]
    BY <1>2, <1>4, <2>2
  <2>6. OnTheWay(c)'
    <3>1. \A q \in reachable'[Origin] :
             /\ Dist[c][p] <= Dist[c][q]
             /\ Origin \notin Top(c)'.tried => Dist[c][p] < Dist[c][q]
      BY <2>4, <2>5
    <3>2. Top(c)'.node = p
      BY <1>4
    <3> QED BY <2>3, <2>4, <2>5, <3>1, <3>2 DEF OnTheWay
  <2> QED BY <1>1, <2>6 DEF Ended
<1>9. CASE Hops(c) > 1
  <2>1. /\ n # Origin
        /\ \A q \in reachable[Origin] :
              /\ Dist[c][n] <= Dist[c][q]
              /\ Origin \notin Top(c).tried => Dist[c][n] < Dist[c][q]
    BY <1>2, <1>9 DEF OnTheWay, n
  <2>2. p \in reachable[n] /\ p \notin Top(c).tried /\ Dist[c][p] < Dist[c][n]
    BY <1>1, <1>3, <1>6, <1>7, <1>9
  <2>3. p # Origin
    <3>1. SUFFICES ASSUME p = Origin PROVE FALSE
      OBVIOUS
    <3>2. n \in reachable[Origin]
      BY <1>3, <1>5, <2>2, <3>1 DEF Symmetric
    <3>3. Dist[c][n] < Dist[c][n]
      BY <2>1, <2>2, <3>1, <3>2
    <3> QED BY <1>3, <1>7, <3>3
  <2>4. ASSUME NEW q \in reachable[Origin] PROVE Dist[c][p] < Dist[c][q]
    <3>1. q \in Node /\ Dist[c][p] \in Nat /\ Dist[c][n] \in Nat /\ Dist[c][q] \in Nat
      BY <1>1, <1>3, <1>5
    <3> QED BY <2>1, <2>2, <3>1
  <2>5. \A q \in reachable[Origin] : Dist[c][p] <= Dist[c][q]
    BY <1>1, <1>5, <1>7, <2>4
  <2>6. \E m \in Node : Top(c)'.tried = {m} /\ (m # Origin => Dist[c][p] < Dist[c][m])
    BY <1>3, <1>4, <2>2
  <2>7. Hops(c)' # 1 /\ Hops(c)' > 1
    BY <1>3, <1>4, <1>9
  <2>8. OnTheWay(c)'
    BY <1>2, <1>4, <2>3, <2>4, <2>5, <2>6, <2>7 DEF OnTheWay
  <2> QED BY <1>1, <2>8 DEF Ended
<1> QED BY <1>3, <1>8, <1>9

(* Nobody is without a closest peer, and who is its own closest is Nearest.      *)
LEMMA NoPeerRoutes ==
    ASSUME Inv, Lively, NEW c \in Chunk, NoPeer(c), OnTheWay(c)
    PROVE  FALSE
<1>1. Sending(c) /\ chunk[c].pc = "send" /\ Closest(c, Top(c)) = {}
  BY DEF NoPeer, Sending
<1> DEFINE n == Top(c).node
<1>2. /\ Top(c) \in Frame /\ Hops(c) \in Nat \ {0}
      /\ Hops(c) = 1 => Candidates(c, Top(c)) = reachable[n] \ Top(c).tried
      /\ Hops(c) > 1 => Candidates(c, Top(c)) = (reachable[n] \ Top(c).tried) \cup {n}
  BY <1>1, LivelyCandidates
<1>3. Hops(c) = 1 => n = Origin /\ Top(c).tried = {}
  BY <1>1 DEF OnTheWay
<1>4. reachable[Origin] # {} /\ (Hops(c) = 1 \/ Hops(c) > 1)
  BY <1>2 DEF Lively
<1> HIDE DEF n
<1>5. Candidates(c, Top(c)) # {}
  BY <1>2, <1>3, <1>4
<1> QED BY <1>1, <1>2, <1>5, ClosestExists

LEMMA processChallengeRoutes ==
    ASSUME Inv, Quiet, Lively, NEW c \in Chunk, processChallenge(c), OnTheWay(c)
    PROVE  OnTheWay(c)' /\ Ended(c)'
<1> DEFINE n == Top(c).node
<1>1. /\ Sending(c) /\ chunk[c].pc = "send" /\ n \in Closest(c, Top(c))
      /\ UNCHANGED <<reachable, store>> /\ chunk[c].status = "none"
      /\ chunk[c] \in ChunkState /\ chunk \in [Chunk -> ChunkState]
  BY DEF processChallenge, Sending, Inv, Held, TypeOK
<1>2. /\ n \in Node /\ Hops(c) \in Nat \ {0}
      /\ Hops(c) = 1 => Candidates(c, Top(c)) = reachable[n] \ Top(c).tried
      /\ Hops(c) > 1 => Candidates(c, Top(c)) = (reachable[n] \ Top(c).tried) \cup {n}
  BY <1>1, LivelyCandidates
<1>3. /\ reachable \in InitReachable /\ reachable[n] \subseteq Node /\ n \notin reachable[n]
      /\ enabled[n]
  BY <1>2, PeerAssumption DEF Quiet, Lively, Inv, TypeOK
<1>4. /\ n \in Candidates(c, Top(c))
      /\ \A q \in Candidates(c, Top(c)) : Dist[c][n] <= Dist[c][q]
  BY <1>1 DEF Closest
<1>5. Hops(c) > 1
  BY <1>2, <1>3, <1>4
<1>6. n \in Nearest(c)
  <2>1. n # Origin
    BY <1>1, <1>5 DEF OnTheWay
  <2>2. PICK m \in Node : Top(c).tried = {m} /\ (m # Origin => Dist[c][n] < Dist[c][m])
    BY <1>1, <1>5 DEF OnTheWay
  <2>3. ASSUME NEW p \in reachable[n] \ {Origin} PROVE Dist[c][n] < Dist[c][p]
    <3>1. CASE p = m
      BY <2>2, <3>1
    <3>2. CASE p # m
      <4>1. p \in Candidates(c, Top(c)) /\ p \in Node /\ p # n
        BY <1>2, <1>3, <1>5, <2>2, <2>3, <3>2
      <4> HIDE DEF n
      <4>2. Dist[c][n] <= Dist[c][p] /\ Dist[c][n] # Dist[c][p]
        BY <1>2, <1>4, <4>1
      <4>3. Dist[c][n] \in Nat /\ Dist[c][p] \in Nat
        BY <1>2, <4>1
      <4> QED BY <4>2, <4>3
    <3> QED BY <3>1, <3>2
  <2> QED BY <1>2, <2>1, <2>3 DEF Nearest
<1>7. Nearest(c)' = Nearest(c) /\ NearestStore(c)' = NearestStore(c)
  BY <1>1 DEF Nearest, NearestStore
<1>8. CASE c \in store[n]
  <2>1. chunk' = [chunk EXCEPT ![c] = [@ EXCEPT !.pc = "return", !.prover = n,
                                                !.answer = "response"]]
    BY <1>3, <1>8 DEF processChallenge
  <2>2. /\ chunk'[c].pc = "return" /\ chunk'[c].prover = n /\ chunk'[c].answer = "response"
        /\ chunk'[c].status = "none"
    BY <1>1, <2>1 DEF ChunkState
  <2> HIDE DEF n
  <2> QED BY <1>6, <1>7, <2>2 DEF OnTheWay, Ended
<1>9. CASE c \notin store[n]
  <2>1. chunk' = [chunk EXCEPT ![c] = [@ EXCEPT !.pc = "return", !.answer = "Refused"]]
    BY <1>9 DEF processChallenge, Answered
  <2>2. /\ chunk'[c].pc = "return" /\ chunk'[c].answer = "Refused"
        /\ chunk'[c].status = "none"
    BY <1>1, <2>1 DEF ChunkState
  <2>3. ~NearestStore(c)
    BY <1>6, <1>9 DEF NearestStore
  <2> QED BY <1>7, <2>2, <2>3 DEF OnTheWay, Ended
<1> QED BY <1>8, <1>9

(* The challenge begins at the origin, which has tried nobody.                   *)
LEMMA StartChunkRoutes ==
    ASSUME Inv, NEW c \in Chunk, StartChunk(c)
    PROVE  OnTheWay(c)' /\ Ended(c)'
<1> DEFINE q == chunk[c]
           path == <<NewFrame(Origin, {})>>
           r == [q EXCEPT !.pc = "send", !.path = path]
<1>1. /\ q \in ChunkState /\ q.status = "none" /\ chunk \in [Chunk -> ChunkState]
      /\ chunk' = [chunk EXCEPT ![c] = r]
  BY DEF StartChunk, Inv, TypeOK, Held
<1>2. r.pc = "send" /\ r.path = path /\ r.status = "none"
  BY <1>1 DEF ChunkState
<1>3. chunk'[c] = r
  BY <1>1
<1>4. Len(path) = 1 /\ path[1] = NewFrame(Origin, {})
  OBVIOUS
<1> HIDE DEF r, path
<1>5. Hops(c)' = 1 /\ Top(c)' = NewFrame(Origin, {})
  BY <1>2, <1>3, <1>4 DEF Hops, Top
<1>6. Top(c)'.node = Origin /\ Top(c)'.tried = {}
  BY <1>5 DEF NewFrame
<1>7. OnTheWay(c)'
  BY <1>5, <1>6 DEF OnTheWay
<1> QED BY <1>2, <1>3, <1>7 DEF Ended

(* A response is handed back as it is, with its prover.                          *)
LEMMA ReturnRoutes ==
    ASSUME Inv, NEW c \in Chunk, Return(c), Ended(c)
    PROVE  OnTheWay(c)' /\ Ended(c)'
<1> DEFINE q == chunk[c]
           path == SubSeq(q.path, 1, Hops(c) - 1)
           answer == IF q.answer = "response" THEN "response" ELSE "Error"
           r == [q EXCEPT !.path = path, !.answer = answer]
<1>1. /\ q \in ChunkState /\ q.pc = "return" /\ q.status = "none"
      /\ chunk \in [Chunk -> ChunkState] /\ UNCHANGED <<store, reachable>>
      /\ chunk' = [chunk EXCEPT ![c] = r]
  BY DEF Return, Inv, TypeOK, Held
<1>2. answer = "response" <=> q.answer = "response"
  OBVIOUS
<1> HIDE DEF path, answer
<1>3. r.pc = "return" /\ r.answer = answer /\ r.prover = q.prover /\ r.status = "none"
  BY <1>1 DEF ChunkState
<1>4. chunk'[c] = r
  BY <1>1
<1>5. Nearest(c)' = Nearest(c) /\ NearestStore(c)' = NearestStore(c)
  BY <1>1 DEF Nearest, NearestStore
<1> HIDE DEF r
<1> QED BY <1>1, <1>2, <1>3, <1>4, <1>5 DEF OnTheWay, Ended

(* With the nearest nodes storing the chunk within the depth the proof counts.   *)
LEMMA handleResponseRoutes ==
    ASSUME Inv, Quiet, Lively, NEW c \in Chunk, handleResponse(c), Ended(c)
    PROVE  OnTheWay(c)' /\ Ended(c)'
<1> DEFINE q == chunk[c]
           proved == /\ q.answer = "response" /\ c \in store[Origin]
                     /\ Dist[c][q.prover] < Radius
           r == [q EXCEPT !.pc = IF proved THEN "done" ELSE "push",
                          !.status = IF proved THEN "proved" ELSE "none"]
<1>1. /\ q \in ChunkState /\ q.pc = "return"
      /\ chunk \in [Chunk -> ChunkState] /\ UNCHANGED <<store, reachable>>
      /\ chunk' = [chunk EXCEPT ![c] = r]
  BY DEF handleResponse, Inv, TypeOK
<1>2. Nearest(c)' = Nearest(c) /\ NearestStore(c)' = NearestStore(c)
  BY <1>1 DEF Nearest, NearestStore
<1>3. q.answer = "response" => q.prover \in Nearest(c) /\ q.prover # Origin
  BY <1>1 DEF Ended, Nearest
<1>4. NearestStore(c) => proved
  <2>1. c \in store[Origin]
    BY DEF Quiet, Lively
  <2> QED BY <1>1, <1>3, <2>1 DEF Ended, NearestStore
<1>5. proved => q.prover # Origin
  BY <1>3
<1> HIDE DEF proved
<1>6. /\ r.pc = (IF proved THEN "done" ELSE "push") /\ r.prover = q.prover
      /\ r.status = (IF proved THEN "proved" ELSE "none")
  BY <1>1 DEF ChunkState
<1>7. chunk'[c] = r
  BY <1>1
<1> HIDE DEF r, q
<1>8. CASE proved
  BY <1>5, <1>6, <1>7, <1>8 DEF OnTheWay, Ended
<1>9. CASE ~proved
  BY <1>2, <1>4, <1>6, <1>7, <1>9 DEF OnTheWay, Ended
<1> QED BY <1>8, <1>9

LEMMA pushChunkRoutes ==
    ASSUME Inv, NEW c \in Chunk, pushChunk(c)
    PROVE  OnTheWay(c)' /\ Ended(c)'
<1> DEFINE q == chunk[c]
<1>1. q \in ChunkState /\ chunk \in [Chunk -> ChunkState]
  BY DEF Inv, TypeOK
<1>2. chunk'[c].pc = "done" /\ chunk'[c].status \in {"errored", "reuploaded"}
  <2>1. CASE chunk' = [chunk EXCEPT ![c] = [q EXCEPT !.pc = "done", !.status = "errored"]]
    BY <1>1, <2>1 DEF ChunkState
  <2>2. CASE chunk' = [chunk EXCEPT ![c] = [q EXCEPT !.pc = "done", !.status = "reuploaded"]]
    BY <1>1, <2>2 DEF ChunkState
  <2> QED BY <2>1, <2>2 DEF pushChunk
<1> QED BY <1>2 DEF OnTheWay, Ended

LEMMA RoutesStep ==
    ASSUME Symmetric, Inv, Quiet, Routes, [Next]_vars
    PROVE  Routes'
<1> SUFFICES ASSUME Lively', NEW d \in Chunk
             PROVE  OnTheWay(d)' /\ Ended(d)'
  BY DEF Routes
<1>1. \/ UNCHANGED vars
      \/ \E c \in Chunk : Progress(c)
  BY QuietSteps DEF Lively
<1>2. CASE UNCHANGED vars
  BY <1>2 DEF vars, Routes, Lively, OnTheWay, Ended, Nearest, NearestStore, Hops, Top
<1>3. ASSUME NEW c \in Chunk, Progress(c)
      PROVE  OnTheWay(d)' /\ Ended(d)'
  <2>1. Lively
    BY <1>3, ProgressKeeps DEF Lively
  <2>2. OnTheWay(d) /\ Ended(d) /\ OnTheWay(c) /\ Ended(c)
    BY <2>1 DEF Routes
  <2>3. CASE d # c
    BY <1>3, <2>2, <2>3, OtherRoutes
  <2>4. CASE d = c
    <3>1. OnTheWay(c)' /\ Ended(c)'
      BY <1>3, <2>1, <2>2, StartChunkRoutes, ForwardRoutes, NoPeerRoutes,
         processChallengeRoutes, ReturnRoutes, handleResponseRoutes, pushChunkRoutes
         DEF Progress
    <3> QED BY <2>4, <3>1
  <2> QED BY <2>3, <2>4
<1> QED BY <1>1, <1>2, <1>3

(* Where connections to the origin are known on both sides, nobody pushes what   *)
(* is already there: while nothing fails and every node is public, a challenge   *)
(* ends at a node that is the nearest one it knows, never at the origin, and if  *)
(* every such node stores the chunk within the depth then its proof counts.      *)
THEOREM WhatIsThereIsNotPushed ==
    ASSUME Symmetric PROVE Spec => []NeighbourhoodProves
<1>1. Init => Inv /\ Quiet /\ Routes
  <2> SUFFICES ASSUME Init PROVE Quiet /\ Routes
    BY InvInit
  <2>1. Quiet
    BY DEF Init, Quiet
  <2>2. \A c \in Chunk : chunk[c].pc = "todo" /\ chunk[c].status = "none"
    BY DEF Init
  <2>3. Routes
    BY <2>2 DEF Routes, OnTheWay, Ended
  <2> QED BY <2>1, <2>3
<1>2. Inv /\ Quiet /\ Routes /\ [Next]_vars => (Inv /\ Quiet /\ Routes)'
  BY InvStep, QuietStep, RoutesStep
<1>3. Inv /\ Quiet /\ Routes => NeighbourhoodProves
  <2> SUFFICES ASSUME Routes, Lively, NEW c \in Chunk, NearestStore(c)
               PROVE  /\ chunk[c].pc # "push"
                      /\ chunk[c].status = "proved" => chunk[c].prover # Origin
    BY DEF NeighbourhoodProves, Lively, NearestStore
  <2>1. Ended(c)
    BY DEF Routes
  <2> QED BY <2>1 DEF Ended
<1> QED BY <1>1, <1>2, <1>3, PTL DEF Spec
===============================================================================
