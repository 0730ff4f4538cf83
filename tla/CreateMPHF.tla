----------------------------- MODULE CreateMPHF -----------------------------
(* The loop of snips.CreateMPHF: it looks for a gamma at which bbhash gives the *)
(* chunk proofs distinct values, and rebuilds mapValToChunkId[nonce] on the     *)
(* way, under mapVTCMu. Gammas are counted in halves (2.5 is 5). The chunks are *)
(* numbered as in baseProof; bb[k] is the value the function gives to chunk k.  *)
EXTENDS Naturals, FiniteSets

CONSTANTS
    Length,     \* len(baseProof)
    MinGamma,   \* Options.MinGamma, in halves
    MaxGamma,   \* Options.MaxGamma, in halves
    GammaBound  \* bound: no construction beyond this gamma

VARIABLES
    pc,      \* "for": the loop's test; "construct": at CONSTRUCTPROOF; "fill"; "return"
    i,       \* the gamma
    bb,      \* the function of the last attempt, or NoFunction
    err,     \* the error of the last attempt
    k,       \* the chunk whose value is entered next
    mapping, \* mapValToChunkId[nonce]: value -> chunk, a partial function
    earlier  \* the mapping of an earlier proof for the nonce, for the properties

vars == <<pc, i, bb, err, k, mapping, earlier>>

Position == 1 .. Length
NoFunction == [v \in {} |-> 0]
(* The mapping an earlier proof may have left: none, or the chunks in order.    *)
Mappings == {NoFunction, [v \in Position |-> v]}

(* No call yet.                                                                 *)
Init ==
    /\ pc = "return" /\ err = TRUE
    /\ i = MinGamma /\ k = 1 /\ bb = NoFunction
    /\ mapping = NoFunction /\ earlier = NoFunction

(* A call for a nonce, of which an earlier proof may have left a mapping.       *)
Call ==
    /\ pc' = "for" /\ err' = FALSE
    /\ i' = MinGamma /\ k' = 1 /\ bb' = NoFunction
    /\ mapping' \in Mappings /\ earlier' = mapping'

(* for i := MinGamma; i <= MaxGamma                                             *)
LoopTest ==
    /\ pc = "for"
    /\ pc' = IF i <= MaxGamma THEN "construct" ELSE "return"
    /\ UNCHANGED <<i, bb, err, k, mapping, earlier>>

(* A mutant of NewSerialFails: the same gamma again.                            *)
NewSerialFailsAgain ==
    /\ pc = "construct" /\ i <= GammaBound
    /\ bb' = NoFunction /\ err' = TRUE
    /\ pc' = "for"
    /\ UNCHANGED <<i, k, mapping, earlier>>

(* bbhash.NewSerial fails; continue adds 1 to the gamma.                        *)
NewSerialFails ==
    /\ pc = "construct" /\ i <= GammaBound
    /\ bb' = NoFunction /\ err' = TRUE
    /\ i' = i + 2
    /\ pc' = "for"
    /\ UNCHANGED <<k, mapping, earlier>>

(* Mutants of NewSerial: a value 0, which Find returns for an unknown key, is   *)
(* taken for a value; the new function is entered where the last one collided.  *)
NewSerialWithZero ==
    /\ pc = "construct" /\ i <= GammaBound
    /\ bb' \in [Position -> 0 .. Length - 1]
    /\ err' = FALSE
    /\ mapping' = NoFunction
    /\ k' = 1
    /\ pc' = "fill"
    /\ UNCHANGED <<i, earlier>>
NewSerialGoesOn ==
    /\ pc = "construct" /\ i <= GammaBound
    /\ bb' \in [Position -> Position]
    /\ err' = FALSE
    /\ mapping' = NoFunction
    /\ pc' = "fill"
    /\ UNCHANGED <<i, k, earlier>>

(* It succeeds: the nonce's old mapping is dropped. bbhash promises distinct     *)
(* values; the code does not rely on that, and nor does the model.              *)
NewSerial ==
    /\ pc = "construct" /\ i <= GammaBound
    /\ bb' \in [Position -> Position]
    /\ err' = FALSE
    /\ mapping' = NoFunction
    /\ k' = 1
    /\ pc' = "fill"
    /\ UNCHANGED <<i, earlier>>

(* The next chunk proof has a value of its own.                                 *)
Enter ==
    /\ pc = "fill" /\ k <= Length
    /\ bb[k] \notin DOMAIN mapping
    /\ mapping' = [v \in DOMAIN mapping \cup {bb[k]} |->
                      IF v = bb[k] THEN k ELSE mapping[v]]
    /\ k' = k + 1
    /\ UNCHANGED <<pc, i, bb, err, earlier>>

(* Its value is taken: gamma grows by a half and goto skips the loop's test.    *)
Collision ==
    /\ pc = "fill" /\ k <= Length
    /\ bb[k] \in DOMAIN mapping
    /\ i' = i + 1
    /\ pc' = "construct"
    /\ UNCHANGED <<bb, err, k, mapping, earlier>>

Break ==
    /\ pc = "fill" /\ k > Length
    /\ pc' = "return"
    /\ UNCHANGED <<i, bb, err, k, mapping, earlier>>

(* The steps of a call.                                                         *)
Step == LoopTest \/ NewSerialFails \/ NewSerial \/ Enter \/ Collision \/ Break

------------------------------------------------------------------------------
TypeOK ==
    /\ pc \in {"for", "construct", "fill", "return"}
    /\ i \in Nat /\ k \in 1 .. Length + 1
    /\ bb \in [Position -> Position] \cup {NoFunction}
    /\ err \in BOOLEAN
    /\ DOMAIN mapping \subseteq Position

(* A returned function comes with its own mapping, complete: each value of the  *)
(* proof leads back to its chunk, after any number of failed and colliding      *)
(* attempts and whatever the nonce's mapping was before.                        *)
MappingOfReturnedProof ==
    pc = "return" /\ ~err /\ MinGamma <= MaxGamma
        => /\ DOMAIN mapping = Position
           /\ \A x \in Position : mapping[bb[x]] = x

(* When the call fails, the nonce's mapping is that of the earlier proof or a   *)
(* remainder of a function that was never sent, with chunks missing: never a    *)
(* complete mapping that would answer a Maintain with other chunks.             *)
FailureLeavesNoOtherMapping ==
    pc = "return" /\ err =>
        mapping = earlier \/ Cardinality(DOMAIN mapping) < Length
==============================================================================
