-------------------------- MODULE SnipsProvingProofs --------------------------
(* Proofs about SnipsProving, the worker of the SNIPS service and CreateMPHF,    *)
(* for any block interval, any number of chunks and any gammas.                  *)
EXTENDS SnipsProving, FiniteSetTheorems, TLAPS

USE IntervalAssumption, HeaderAssumption, GammaAssumption

Multiple(n) == n > 0 /\ n % BlockInterval = 0

(* The inductive invariant behind NoncesIncrease: the watcher notes the height   *)
(* of the chain, not the block it hands on, so what it has in hand lies between   *)
(* the nonces used so far and the height it has noted.                           *)
NoncesInv ==
    /\ TypeOK
    /\ lastBlock <= block
    /\ \A x \in 1 .. Len(proved) : Multiple(proved[x]) /\ proved[x] <= lastBlock
    /\ \A x, y \in 1 .. Len(proved) : x < y => proved[x] < proved[y]
    /\ watcher = "send" =>
          /\ Multiple(root) /\ root <= lastBlock
          /\ \A x \in 1 .. Len(proved) : proved[x] < root

-------------------------------------------------------------------------------
(* PollProvingBlock's arithmetic: the last multiple of the interval up to block   *)
(* is a multiple, and lies above whatever is an interval or more below block.     *)
LEMMA LastMultiple ==
    ASSUME NEW b \in Nat, NEW l \in Nat, b >= l + BlockInterval
    PROVE  /\ b - (b % BlockInterval) \in Nat
           /\ Multiple(b - (b % BlockInterval))
           /\ l < b - (b % BlockInterval) /\ b - (b % BlockInterval) <= b
<1>1. b % BlockInterval \in 0 .. BlockInterval - 1
  OBVIOUS
<1>2. b = BlockInterval * (b \div BlockInterval) + (b % BlockInterval)
  OBVIOUS
<1>3. \A q \in Nat : (BlockInterval * q) % BlockInterval = 0
  OBVIOUS
<1>4. b \div BlockInterval \in Nat
  OBVIOUS
<1>5. b - (b % BlockInterval) = BlockInterval * (b \div BlockInterval)
  BY <1>1, <1>2, <1>4
<1>6. (b - (b % BlockInterval)) % BlockInterval = 0
  BY <1>3, <1>4, <1>5
<1> QED BY <1>1, <1>6 DEF Multiple

LEMMA NoncesInit == Init => NoncesInv
BY DEF Init, NoncesInv, TypeOK

(* Every step of the two goroutines keeps the invariant.                          *)
LEMMA NoncesStep == NoncesInv /\ [Next]_vars => NoncesInv'
<1> SUFFICES ASSUME NoncesInv, [Next]_vars PROVE NoncesInv'
  OBVIOUS
<1> USE DEF NoncesInv, TypeOK
<1>1. CASE NewBlock
  BY <1>1 DEF NewBlock
<1>2. CASE Timer
  BY <1>2 DEF Timer
<1>3. CASE PollAgain
  BY <1>3 DEF PollAgain
<1>4. CASE PollProvingBlock
  <2>1. /\ root' \in Nat /\ Multiple(root') /\ lastBlock < root' /\ root' <= lastBlock'
    BY <1>4, LastMultiple DEF PollProvingBlock
  <2>2. UNCHANGED <<block, worker, proved, quit>> /\ lastBlock' = block
        /\ watcher' \in {"send", "panicked"}
    BY <1>4 DEF PollProvingBlock
  <2>3. TypeOK' /\ lastBlock' <= block'
    BY <2>1, <2>2
  <2>4. (\A x \in 1 .. Len(proved) : Multiple(proved[x]) /\ proved[x] <= lastBlock)'
    BY <2>2 DEF Multiple
  <2>5. (\A x \in 1 .. Len(proved) : proved[x] < root)'
    BY <2>1, <2>2
  <2>6. Multiple(root)'
    BY <2>1, <2>2 DEF Multiple
  <2> QED BY <2>1, <2>2, <2>3, <2>4, <2>5, <2>6
<1>5. CASE HandOff
  <2>1. /\ proved' \in Seq(Nat) /\ Len(proved') = Len(proved) + 1
        /\ \A x \in 1 .. Len(proved) : proved'[x] = proved[x]
        /\ proved'[Len(proved) + 1] = root
    BY <1>5 DEF HandOff
  <2> QED BY SMTT(30), <1>5, <2>1 DEF HandOff, Multiple
<1>6. CASE ProofSent
  BY <1>6 DEF ProofSent
<1>7. CASE Close
  BY <1>7 DEF Close
<1>8. CASE Quit
  BY <1>8 DEF Quit
<1>9. CASE Done
  BY <1>9 DEF Done
<1>10. CASE UNCHANGED vars
  BY <1>10 DEF vars, Multiple
<1> QED BY <1>1, <1>2, <1>3, <1>4, <1>5, <1>6, <1>7, <1>8, <1>9, <1>10 DEF Next

-------------------------------------------------------------------------------
(* The inductive invariant behind MappingFits. While a function is entered, the  *)
(* mapping holds the chunks before k and nothing else; a collision or a failure  *)
(* leaves fewer values than there are chunks, because one value was met twice or *)
(* the earlier mapping was not touched.                                          *)
Entered ==
    /\ bb \in [MPHF!Position -> MPHF!Position] /\ ~err
    /\ DOMAIN mapping = {bb[x] : x \in 1 .. k - 1}
    /\ \A x \in 1 .. k - 1 : mapping[bb[x]] = x

Remainder == mapping = earlier \/ MPHF!Cardinality(DOMAIN mapping) < Length

MappingInv ==
    /\ MPHF!TypeOK
    /\ pc = "fill" => Entered
    /\ pc \in {"for", "construct"} => Remainder
    /\ pc = "for" /\ ~err => i = MinGamma
    /\ MPHF!MappingOfReturnedProof /\ MPHF!FailureLeavesNoOtherMapping

(* Enter's new entry: the chunk k under its value, the others as before.         *)
LEMMA EnterMapping ==
    ASSUME MPHF!TypeOK, Entered, MPHF!Enter
    PROVE  /\ k' \in 1 .. Length + 1
           /\ DOMAIN mapping' \subseteq MPHF!Position
           /\ Entered'
<1> USE DEF MPHF!TypeOK, MPHF!Enter, MPHF!Position
<1>1. k \in 1 .. Length /\ k' = k + 1 /\ bb[k] \in MPHF!Position
  BY DEF Entered
<1>2. DOMAIN mapping' = DOMAIN mapping \cup {bb[k]}
  OBVIOUS
<1>3. 1 .. k' - 1 = (1 .. k - 1) \cup {k}
  BY <1>1
<1>4. DOMAIN mapping' = {bb[x] : x \in 1 .. k' - 1}
  <2>1. DOMAIN mapping = {bb[x] : x \in 1 .. k - 1}
    BY DEF Entered
  <2>2. {bb[x] : x \in (1 .. k - 1) \cup {k}} = {bb[x] : x \in 1 .. k - 1} \cup {bb[k]}
    OBVIOUS
  <2> QED BY <1>2, <1>3, <2>1, <2>2
<1>5. mapping'[bb[k]] = k /\ \A v \in DOMAIN mapping : mapping'[v] = mapping[v]
  OBVIOUS
<1>6. \A x \in 1 .. k' - 1 : mapping'[bb[x]] = x
  BY <1>3, <1>5 DEF Entered
<1>7. UNCHANGED <<bb, err>> /\ bb \in [MPHF!Position -> MPHF!Position] /\ ~err
  BY DEF Entered
<1>8. Entered'
  <2>1. {bb[x] : x \in 1 .. k' - 1} = {bb'[x] : x \in 1 .. k' - 1}
    BY <1>7
  <2>2. \A x \in 1 .. k' - 1 : mapping'[bb'[x]] = x
    BY <1>6, <1>7
  <2> HIDE DEF MPHF!TypeOK, MPHF!Enter, MPHF!Position
  <2> QED BY <1>4, <1>7, <2>1, <2>2 DEF Entered
<1> QED BY <1>1, <1>2, <1>8

(* Fewer values than chunks have been entered when one is met for the second     *)
(* time.                                                                         *)
LEMMA CollisionLeavesRemainder ==
    ASSUME MPHF!TypeOK, Entered, k <= Length
    PROVE  MPHF!Cardinality(DOMAIN mapping) < Length
<1>1. k \in 1 .. Length
  BY DEF MPHF!TypeOK
<1> DEFINE f == [x \in 1 .. k - 1 |-> bb[x]]
<1>2. f \in Surjection(1 .. k - 1, DOMAIN mapping)
  BY DEF Entered, Surjection
<1>3. Cardinality(DOMAIN mapping) <= k - 1
  BY <1>1, <1>2, FS_SurjCardinalityBound DEF ExistsSurjection
<1>4. IsFiniteSet(MPHF!Position)
  BY FS_Interval DEF MPHF!Position
<1>5. Cardinality(DOMAIN mapping) \in Nat
  BY <1>4, FS_Subset, FS_CardinalityType DEF MPHF!TypeOK
<1>6. Cardinality(DOMAIN mapping) = MPHF!Cardinality(DOMAIN mapping)
  BY DEF Cardinality, MPHF!Cardinality
<1> QED BY <1>1, <1>3, <1>5, <1>6

(* All entered: distinct values for all chunks leave none of 1 .. Length out.    *)
LEMMA BreakIsComplete ==
    ASSUME MPHF!TypeOK, Entered, k > Length
    PROVE  /\ DOMAIN mapping = MPHF!Position
           /\ \A x \in MPHF!Position : mapping[bb[x]] = x
<1>1. 1 .. k - 1 = MPHF!Position
  BY DEF MPHF!TypeOK, MPHF!Position
<1>2. DOMAIN mapping = {bb[x] : x \in MPHF!Position}
  BY <1>1 DEF Entered
<1>3. \A x \in MPHF!Position : mapping[bb[x]] = x
  BY <1>1 DEF Entered
<1>4. bb \in Bijection(MPHF!Position, DOMAIN mapping)
  <2>1. bb \in [MPHF!Position -> DOMAIN mapping]
    BY <1>2 DEF Entered
  <2>2. \A x, y \in MPHF!Position : bb[x] = bb[y] => x = y
    BY <1>3
  <2>3. \A v \in DOMAIN mapping : \E x \in MPHF!Position : bb[x] = v
    BY <1>2
  <2> QED BY <2>1, <2>2, <2>3 DEF Bijection, Injection, Surjection, IsInjective
<1>5. IsFiniteSet(MPHF!Position) /\ DOMAIN mapping \subseteq MPHF!Position
  BY FS_Interval DEF MPHF!Position, MPHF!TypeOK
<1>6. Cardinality(DOMAIN mapping) = Cardinality(MPHF!Position)
  BY <1>4, <1>5, FS_Bijection, FS_CardinalityType DEF ExistsBijection
<1>7. DOMAIN mapping = MPHF!Position
  BY <1>5, <1>6, FS_Subset
<1> QED BY <1>3, <1>7

LEMMA MappingInit == MPHF!Init => MappingInv
BY DEF MPHF!Init, MappingInv, MPHF!TypeOK, MPHF!MappingOfReturnedProof,
       MPHF!FailureLeavesNoOtherMapping, MPHF!NoFunction, MPHF!Position

LEMMA MappingCall == MPHF!TypeOK /\ MPHF!Call => MappingInv'
<1> SUFFICES ASSUME MPHF!TypeOK, MPHF!Call PROVE MappingInv'
  OBVIOUS
<1>1. mapping' = earlier' /\ DOMAIN mapping' \subseteq MPHF!Position
  BY DEF MPHF!Call, MPHF!Mappings, MPHF!NoFunction
<1>2. pc' = "for" /\ ~err' /\ i' = MinGamma
  BY DEF MPHF!Call
<1>3. MPHF!TypeOK'
  <2>1. bb' = MPHF!NoFunction /\ k' = 1 /\ err' \in BOOLEAN
    BY DEF MPHF!Call
  <2>2. bb' \in [MPHF!Position -> MPHF!Position] \cup {MPHF!NoFunction}
    BY <2>1
  <2>3. k' \in 1 .. Length + 1 /\ i' \in Nat
    BY <1>2, <2>1
  <2> QED BY <1>1, <1>2, <2>1, <2>2, <2>3 DEF MPHF!TypeOK
<1> QED
  BY <1>1, <1>2, <1>3 DEF MappingInv, Remainder, MPHF!MappingOfReturnedProof,
                          MPHF!FailureLeavesNoOtherMapping

(* Every step of a construction keeps the invariant.                             *)
LEMMA MappingStep == MappingInv /\ MPHF!Step => MappingInv'
<1> SUFFICES ASSUME MappingInv, MPHF!Step PROVE MappingInv'
  OBVIOUS
<1> USE DEF MappingInv
<1>1. CASE MPHF!LoopTest
  BY <1>1 DEF MPHF!LoopTest, MPHF!TypeOK, Remainder, MPHF!MappingOfReturnedProof,
              MPHF!FailureLeavesNoOtherMapping
<1>2. CASE MPHF!NewSerialFails
  BY <1>2 DEF MPHF!NewSerialFails, MPHF!TypeOK, Remainder, MPHF!NoFunction,
              MPHF!MappingOfReturnedProof, MPHF!FailureLeavesNoOtherMapping
<1>3. CASE MPHF!NewSerial
  <2>1. DOMAIN mapping' = {} /\ k' = 1
    BY <1>3 DEF MPHF!NewSerial, MPHF!NoFunction
  <2>2. Entered'
    BY <1>3, <2>1 DEF MPHF!NewSerial, Entered
  <2>3. MPHF!TypeOK'
    <3>1. /\ bb' \in [MPHF!Position -> MPHF!Position] /\ err' \in BOOLEAN
          /\ pc' = "fill" /\ i' = i
      BY <1>3 DEF MPHF!NewSerial
    <3>2. k' \in 1 .. Length + 1 /\ DOMAIN mapping' \subseteq MPHF!Position
      BY <2>1
    <3> QED BY <3>1, <3>2 DEF MPHF!TypeOK
  <2>4. pc' = "fill"
    BY <1>3 DEF MPHF!NewSerial
  <2> QED
    BY <2>2, <2>3, <2>4 DEF MPHF!MappingOfReturnedProof, MPHF!FailureLeavesNoOtherMapping
<1>4. CASE MPHF!Enter
  <2>1. Entered /\ pc' = "fill"
    BY <1>4 DEF MPHF!Enter
  <2>2. /\ k' \in 1 .. Length + 1 /\ DOMAIN mapping' \subseteq MPHF!Position
        /\ Entered'
    BY <1>4, <2>1, EnterMapping
  <2> QED
    BY <1>4, <2>1, <2>2 DEF MPHF!Enter, MPHF!TypeOK, MPHF!MappingOfReturnedProof,
              MPHF!FailureLeavesNoOtherMapping
<1>5. CASE MPHF!Collision
  <2>1. Entered /\ k <= Length /\ pc' = "construct"
    BY <1>5 DEF MPHF!Collision
  <2>2. Remainder'
    BY <1>5, <2>1, CollisionLeavesRemainder DEF MPHF!Collision, Remainder
  <2> QED
    BY <1>5, <2>1, <2>2 DEF MPHF!Collision, MPHF!TypeOK, MPHF!MappingOfReturnedProof,
              MPHF!FailureLeavesNoOtherMapping
<1>6. CASE MPHF!Break
  <2>1. Entered /\ k > Length /\ pc' = "return"
    BY <1>6 DEF MPHF!Break
  <2>2. DOMAIN mapping = MPHF!Position /\ \A x \in MPHF!Position : mapping[bb[x]] = x
    BY <2>1, BreakIsComplete
  <2> QED
    BY <1>6, <2>1, <2>2 DEF MPHF!Break, MPHF!TypeOK, Entered, MPHF!MappingOfReturnedProof,
              MPHF!FailureLeavesNoOtherMapping
<1> QED BY <1>1, <1>2, <1>3, <1>4, <1>5, <1>6 DEF MPHF!Step

-------------------------------------------------------------------------------
(* The worker and its calls together.                                            *)
ProvingInv ==
    /\ NoncesInv /\ MappingInv
    /\ worker # "prove" => pc = "return"

LEMMA ProvingInvInit == ProvingInit => ProvingInv
BY NoncesInit, MappingInit DEF ProvingInit, ProvingInv, MPHF!Init

LEMMA ProvingInvStep == ProvingInv /\ [ProvingNext]_provingVars => ProvingInv'
<1> SUFFICES ASSUME ProvingInv, [ProvingNext]_provingVars PROVE ProvingInv'
  OBVIOUS
<1> USE DEF ProvingInv
<1>0. ASSUME UNCHANGED mphfVars PROVE MappingInv' /\ pc' = pc
  BY <1>0 DEF mphfVars, MappingInv, MPHF!TypeOK, Entered, Remainder,
              MPHF!MappingOfReturnedProof, MPHF!FailureLeavesNoOtherMapping
<1>1. CASE Goroutines /\ UNCHANGED mphfVars
  <2>1. NoncesInv'
    BY <1>1, NoncesStep DEF Goroutines, Next
  <2>2. worker' # "prove" => worker # "prove"
    BY <1>1 DEF Goroutines, NewBlock, Timer, PollAgain, PollProvingBlock, Close, Quit, Done
  <2> QED BY <1>0, <1>1, <2>1, <2>2
<1>2. CASE Calls
  <2>1. NoncesInv' /\ worker' = "prove"
    BY <1>2, NoncesStep DEF Calls, Next, HandOff
  <2>2. MappingInv'
    BY <1>2, MappingCall DEF Calls, MappingInv
  <2> QED BY <2>1, <2>2
<1>3. CASE Runs
  <2>1. NoncesInv' /\ worker' = "prove"
    BY <1>3, NoncesStep DEF Runs, vars
  <2>2. MappingInv'
    BY <1>3, MappingStep DEF Runs
  <2> QED BY <2>1, <2>2
<1>4. CASE Returns
  <2>1. NoncesInv'
    BY <1>4, NoncesStep DEF Returns, Next
  <2> QED BY <1>0, <1>4, <2>1 DEF Returns
<1>5. CASE UNCHANGED provingVars
  <2>1. UNCHANGED mphfVars /\ UNCHANGED vars /\ worker' = worker
    BY <1>5 DEF provingVars, vars
  <2> QED BY <1>0, <2>1, NoncesStep
<1> QED BY <1>1, <1>2, <1>3, <1>4, <1>5 DEF ProvingNext

THEOREM ProvingInvariant == FairSpec => []ProvingInv
<1>1. ProvingInit /\ [][ProvingNext]_provingVars => []ProvingInv
  BY ProvingInvInit, ProvingInvStep, PTL
<1> QED BY <1>1, PTL DEF FairSpec

(* The worker and CreateMPHF have their types, and no construction is under way  *)
(* while the worker waits in its select.                                         *)
THEOREM ProvingTypes == FairSpec => []ProvingTypeOK
<1>1. ProvingInv => ProvingTypeOK
  BY DEF ProvingInv, NoncesInv, MappingInv, ProvingTypeOK
<1> QED BY <1>1, ProvingInvariant, PTL

(* No two proofs of a node share a nonce, whatever the block interval and        *)
(* however slow the worker is.                                                   *)
THEOREM NoncesOnlyIncrease == FairSpec => []NoncesIncrease
<1>1. ProvingInv => NoncesIncrease
  BY DEF ProvingInv, NoncesInv, NoncesIncrease, Multiple
<1> QED BY <1>1, ProvingInvariant, PTL

(* Every function that is sent has its complete mapping, and a failed            *)
(* construction leaves none that is complete, for any number of chunks, any      *)
(* gammas and any functions bbhash returns, with distinct values or without.     *)
THEOREM MappingAlwaysFits == FairSpec => []MappingFits
<1>1. ProvingInv => MappingFits
  BY DEF ProvingInv, MappingInv, MappingFits
<1> QED BY <1>1, ProvingInvariant, PTL
===============================================================================
