---------------------------- MODULE TransactionsProofs -------------------------
(* Proofs about Transactions for any transactions, confirmations and faults.     *)
EXTENDS Transactions, FiniteSetTheorems, SequenceTheorems, TLAPS

USE TxAssumption, ForeignAssumption, DepthAssumption

StoreState == [nonce : Nat, txs : SUBSET Tx, pending : SUBSET Tx]

CheckState ==
    [ at : {"idle", "polled", "receipts"}, used : Nat, old : Nat,
      groups : SUBSET Nat, left : SUBSET Tx, seen : SUBSET Tx,
      confirmed : SUBSET Tx, age : Depths, reorged : BOOLEAN ]

(* The chain has one transaction for each nonce, older blocks used no more of    *)
(* them than younger ones.                                                       *)
Backend ==
    /\ IsFiniteSet(foreign) /\ pool \subseteq sent
    /\ usedAt[0] = Len(chain)
    /\ \A d, e \in Depths : d <= e => usedAt[e] <= usedAt[d]
    /\ \A i \in 1 .. Len(chain) :
          \/ chain[i] = Foreign /\ i - 1 \in foreign
          \/ chain[i] \in sent /\ nonceOf[chain[i]] = i - 1

(* t is made by the Send that has the lock.                                      *)
HasLock(t) == ~cancels[t] /\ doing[t] \notin {"new", "done", "failed"}

(* What has happened to the transaction of a call, by the step it has reached.   *)
Calls ==
    /\ \A s, t \in Tx : HasLock(s) /\ HasLock(t) => s = t
    /\ \A t \in sent : doing[t] \notin {"new", "send"}
    /\ \A t \in Tx : doing[t] \in {"putNonce", "putTx"} => t \in sent
    /\ \A t \in Tx : doing[t] = "putNonce" => ~cancels[t]
    /\ \A t \in Tx : doing[t] \in {"putPending", "done"} => t \in store.txs
    /\ \A t \in store.txs : doing[t] \in {"putPending", "done", "failed"} /\ t \in sent

Covered(n) == n \in foreign \/ \E t \in sent : nonceOf[t] = n

(* The stored nonce has passed the nonce of t.                                   *)
Numbered(t) == ~cancels[t] /\ (doing[t] = "putTx" \/ t \in store.txs)

(* What Send signs has a nonce that is not below the stored one and leaves none  *)
(* out; the stored nonce is above those that were signed, each for one.          *)
Nonces ==
    /\ \A t \in Tx : ~cancels[t] /\ doing[t] \in {"send", "putNonce"} =>
          nonceOf[t] >= store.nonce /\ \A n \in 0 .. nonceOf[t] - 1 : Covered(n)
    /\ \A t \in Tx : Numbered(t) => nonceOf[t] < store.nonce
    /\ \A s, t \in Tx : Numbered(s) /\ Numbered(t) /\ nonceOf[s] = nonceOf[t] => s = t
    /\ \A n \in 0 .. store.nonce - 1 : Covered(n)

(* Only transactions that are recorded are watched and checked.                  *)
Watches ==
    /\ store.pending \subseteq store.txs
    /\ \A w \in Watch : watch[w] # "none" => w[1] \in store.txs
    /\ check.left \subseteq store.txs /\ check.seen \subseteq store.txs
    /\ check.confirmed \subseteq store.txs

(* The part of the chain that a round relies on is final: a receipt that was not *)
(* there does not appear in it.                                                  *)
Rounds ==
    /\ check.old <= usedAt[cancellationDepth]
    /\ \A t \in check.seen : nonceOf[t] < check.old =>
          \/ chain[nonceOf[t] + 1] # t
          \/ \E x \in check.confirmed : nonceOf[x] = nonceOf[t]

(* A receipt that the round has seen is on the chain still, unless blocks were   *)
(* replaced since and the nonce was not final when the round began.              *)
Receipts ==
    /\ check.at # "receipts" => check.confirmed = {}
    /\ \A x \in check.confirmed :
          \/ nonceOf[x] < Len(chain) /\ chain[nonceOf[x] + 1] = x
          \/ check.reorged /\ nonceOf[x] >= check.old

(* The inductive invariant.                                                      *)
Inv == TypeOK /\ Backend /\ Calls /\ Nonces /\ Watches /\ Rounds /\ Receipts

-------------------------------------------------------------------------------
(* The nonces of the backend.                                                    *)

(* A non-empty set of naturals has a least element: the intervals 1 .. n are      *)
(* finite sets, which inclusion orders well.                                     *)
LEMMA LeastElement ==
    ASSUME NEW S \in SUBSET Nat, S # {}
    PROVE  \E n \in S : \A m \in S : n <= m
<1> DEFINE T == {1 .. n : n \in S}
<1>1. T \subseteq FiniteSubsetsOf(Nat) /\ T # {}
  <2>1. \A n \in S : n \in Int /\ 1 .. n \in SUBSET Nat
    OBVIOUS
  <2>2. \A n \in S : IsFiniteSet(1 .. n)
    BY <2>1, FS_Interval
  <2>3. \A X \in T : X \in SUBSET Nat /\ IsFiniteSet(X)
    BY <2>1, <2>2
  <2>4. T # {}
    <3>1. PICK n \in S : TRUE
      OBVIOUS
    <3>2. 1 .. n \in T
      BY <3>1
    <3> QED BY <3>2
  <2> HIDE DEF T
  <2> QED BY <2>3, <2>4 DEF FiniteSubsetsOf
<1>2. \E X \in T : \A Y \in T : ~ (<<Y, X>> \in StrictSubsetOrdering(Nat))
  <2>1. IsWellFoundedOn(StrictSubsetOrdering(Nat), FiniteSubsetsOf(Nat))
    BY FS_StrictSubsetOrderingWellFounded
  <2> HIDE DEF T
  <2> QED BY <1>1, <2>1, WFMin
<1>3. PICK n \in S : \A Y \in T : ~ (<<Y, 1 .. n>> \in StrictSubsetOrdering(Nat))
  BY <1>2
<1>4. ASSUME NEW m \in S, m < n PROVE FALSE
  <2>1. 1 .. m \in SUBSET Nat /\ 1 .. n \in SUBSET Nat /\ 1 .. m \in T
    OBVIOUS
  <2>2. 1 .. m \subseteq 1 .. n /\ n \in 1 .. n /\ n \notin 1 .. m
    BY <1>4
  <2>3. <<1 .. m, 1 .. n>> \in StrictSubsetOrdering(Nat)
    BY <2>1, <2>2 DEF StrictSubsetOrdering
  <2> QED BY <1>3, <2>1, <2>3
<1> QED BY <1>4

(* PendingNonceAt is what its name says: of the numbers up to the size of chain, *)
(* pool and foreign together one is free.                                        *)
LEMMA FirstFree ==
    ASSUME TypeOK, Backend
    PROVE  PendingNonceAt \in Nat /\ \A k \in 0 .. PendingNonceAt - 1 : Taken(k)
<1> DEFINE mined == 0 .. Len(chain) - 1
           pooled == {nonceOf[t] : t \in pool}
           K == Len(chain) + Cardinality(pool) + Cardinality(foreign)
           T == (mined \cup pooled) \cup foreign
<1>1. Len(chain) \in Nat
  BY LenProperties DEF TypeOK
<1>2. IsFiniteSet(mined) /\ Cardinality(mined) = Len(chain)
  <2>1. 0 \in Int /\ Len(chain) - 1 \in Int
    BY <1>1
  <2>2. IsFiniteSet(mined) /\ Cardinality(mined) = IF 0 > Len(chain) - 1 THEN 0 ELSE Len(chain) - 1 - 0 + 1
    BY <2>1, FS_Interval
  <2> QED BY <1>1, <2>2
<1>3. IsFiniteSet(pool) /\ IsFiniteSet(foreign)
  BY FS_Subset DEF TypeOK, Backend
<1>4. IsFiniteSet(pooled) /\ Cardinality(pooled) <= Cardinality(pool)
  <2>1. [t \in pool |-> nonceOf[t]] \in Surjection(pool, pooled)
    BY DEF Surjection
  <2> HIDE DEF pooled
  <2> QED BY <1>3, <2>1, FS_Surjection
<1>5. Cardinality(pool) \in Nat /\ Cardinality(foreign) \in Nat /\ Cardinality(pooled) \in Nat
  BY <1>3, <1>4, FS_CardinalityType
<1> HIDE DEF mined, pooled
<1>6. IsFiniteSet(mined \cup pooled) /\ Cardinality(mined \cup pooled) <= Len(chain) + Cardinality(pool)
  <2>1. /\ IsFiniteSet(mined \cup pooled)
        /\ Cardinality(mined \cup pooled) =
             Cardinality(mined) + Cardinality(pooled) - Cardinality(mined \cap pooled)
    BY <1>2, <1>4, FS_Union
  <2>2. Cardinality(mined \cap pooled) \in Nat
    BY <1>2, FS_Intersection, FS_CardinalityType
  <2> QED BY <1>1, <1>2, <1>4, <1>5, <2>1, <2>2
<1>7. IsFiniteSet(T) /\ Cardinality(T) <= K
  <2>1. /\ IsFiniteSet(T)
        /\ Cardinality(T) = Cardinality(mined \cup pooled) + Cardinality(foreign)
                            - Cardinality((mined \cup pooled) \cap foreign)
    BY <1>3, <1>6, FS_Union
  <2>2. Cardinality((mined \cup pooled) \cap foreign) \in Nat
    BY <1>6, FS_Intersection, FS_CardinalityType
  <2>3. Cardinality(mined \cup pooled) \in Nat
    BY <1>6, FS_CardinalityType
  <2> QED BY <1>1, <1>5, <1>6, <2>1, <2>2, <2>3
<1>8. K \in Nat
  BY <1>1, <1>5
<1>9. \A n \in Nat : Taken(n) <=> n \in T
  BY <1>1 DEF Taken, mined, pooled
<1> HIDE DEF T, K
<1> DEFINE S == (0 .. K) \ T
<1>10. S # {}
  <2> SUFFICES ASSUME 0 .. K \subseteq T PROVE FALSE
    OBVIOUS
  <2>1. Cardinality(0 .. K) <= Cardinality(T)
    BY <1>7, FS_Subset
  <2>2. Cardinality(0 .. K) = K + 1
    <3>1. Cardinality(0 .. K) = IF 0 > K THEN 0 ELSE K - 0 + 1
      BY <1>8, FS_Interval
    <3> QED BY <1>8, <3>1
  <2>3. Cardinality(T) \in Nat
    BY <1>7, FS_CardinalityType
  <2> QED BY <1>7, <1>8, <2>1, <2>2, <2>3
<1>11. PICK n \in S : \A m \in S : n <= m
  <2>1. S \in SUBSET Nat
    BY <1>8
  <2> HIDE DEF S
  <2> QED BY <1>10, <2>1, LeastElement
<1>12. n \in 0 .. K /\ ~Taken(n) /\ \A k \in 0 .. n - 1 : Taken(k)
  <2>1. n \in 0 .. K /\ ~Taken(n)
    BY <1>8, <1>9
  <2>2. ASSUME NEW k \in 0 .. n - 1 PROVE Taken(k)
    BY <1>8, <1>9, <1>11, <2>1
  <2> QED BY <2>1, <2>2
<1>13. PendingNonceAt \in 0 .. K /\ \A k \in 0 .. PendingNonceAt - 1 : Taken(k)
  BY <1>12 DEF PendingNonceAt, K
<1> QED BY <1>8, <1>13

LEMMA NextNonce ==
    ASSUME TypeOK, Backend, Nonces
    PROVE  /\ nextNonce \in Nat /\ nextNonce >= store.nonce
           /\ \A n \in 0 .. nextNonce - 1 : Covered(n)
<1>1. PendingNonceAt \in Nat /\ store.nonce \in Nat
  BY FirstFree DEF TypeOK
<1>2. ASSUME NEW n \in 0 .. PendingNonceAt - 1 PROVE Covered(n)
  <2>1. Taken(n) /\ n \in Nat
    BY <1>1, FirstFree
  <2>2. CASE n < Len(chain)
    <3>1. n + 1 \in 1 .. Len(chain) /\ n + 1 - 1 = n
      BY <2>1, <2>2, LenProperties DEF TypeOK
    <3> QED BY <3>1 DEF Backend, Covered
  <2>3. CASE n \in foreign \/ \E t \in pool : nonceOf[t] = n
    BY <2>3 DEF Backend, Covered
  <2> QED BY <2>1, <2>2, <2>3 DEF Taken
<1> QED BY <1>1, <1>2 DEF nextNonce, Nonces

-------------------------------------------------------------------------------
(* Types.                                                                        *)

LEMMA Types ==
    ASSUME TypeOK
    PROVE  /\ store \in StoreState /\ check \in CheckState
           /\ store.nonce \in Nat /\ store.txs \subseteq Tx /\ store.pending \subseteq Tx
           /\ check.at \in {"idle", "polled", "receipts"}
           /\ check.used \in Nat /\ check.old \in Nat /\ check.groups \subseteq Nat
           /\ check.left \subseteq Tx /\ check.seen \subseteq Tx /\ check.confirmed \subseteq Tx
           /\ check.age \in Depths /\ check.reorged \in BOOLEAN
           /\ Len(chain) \in Nat /\ 0 \in Depths /\ cancellationDepth \in Depths
           /\ \A w \in Watch : w[1] \in Tx /\ w = <<w[1], w[2]>>
<1>1. store \in StoreState /\ check \in CheckState
  BY DEF TypeOK, StoreState, CheckState
<1>2. store.nonce \in Nat /\ store.txs \subseteq Tx /\ store.pending \subseteq Tx
  BY <1>1 DEF StoreState
<1>3. /\ check.at \in {"idle", "polled", "receipts"}
      /\ check.used \in Nat /\ check.old \in Nat /\ check.groups \subseteq Nat
      /\ check.left \subseteq Tx /\ check.seen \subseteq Tx /\ check.confirmed \subseteq Tx
      /\ check.age \in Depths /\ check.reorged \in BOOLEAN
  BY <1>1 DEF CheckState
<1>4. Len(chain) \in Nat /\ 0 \in Depths /\ cancellationDepth \in Depths
  BY LenProperties DEF TypeOK, Depths
<1>5. \A w \in Watch : w[1] \in Tx /\ w = <<w[1], w[2]>>
  BY DEF Watch
<1> QED BY <1>1, <1>2, <1>3, <1>4, <1>5

(* What a block adds to a chain.                                                 *)
LEMMA BlocksType ==
    ASSUME TypeOK, Backend, NEW kept \in Seq(Tx \cup {Foreign}),
           NEW b \in Blocks(kept)
    PROVE  /\ kept \o b \in Seq(Tx \cup {Foreign})
           /\ Len(kept \o b) \in Nat /\ Len(kept) \in Nat
           /\ Len(kept \o b) = Len(kept) \/ Len(kept \o b) = Len(kept) + 1
           /\ \A i \in 1 .. Len(kept) : (kept \o b)[i] = kept[i]
           /\ Len(kept \o b) = Len(kept) + 1 =>
                LET last == (kept \o b)[Len(kept) + 1] IN
                \/ last = Foreign /\ Len(kept) \in foreign
                \/ last \in sent /\ nonceOf[last] = Len(kept)
<1>1. Len(kept) \in Nat
  BY LenProperties
<1>2. \/ b = <<>>
      \/ /\ b \in Seq(Tx \cup {Foreign}) /\ Len(b) = 1
         /\ \/ b[1] = Foreign /\ Len(kept) \in foreign
            \/ b[1] \in sent /\ nonceOf[b[1]] = Len(kept)
  <2>1. CASE b = <<>>
    BY <2>1
  <2>2. ASSUME NEW t \in sent, nonceOf[t] = Len(kept), b = <<t>>
        PROVE  b \in Seq(Tx \cup {Foreign}) /\ Len(b) = 1 /\ b[1] = t
    BY <2>2 DEF TypeOK
  <2>3. ASSUME Len(kept) \in foreign, b = <<Foreign>>
        PROVE  b \in Seq(Tx \cup {Foreign}) /\ Len(b) = 1 /\ b[1] = Foreign
    BY <2>3
  <2>4. \/ b = <<>>
        \/ \E t \in sent : nonceOf[t] = Len(kept) /\ b = <<t>>
        \/ Len(kept) \in foreign /\ b = <<Foreign>>
    BY DEF Blocks
  <2> QED BY <2>1, <2>2, <2>3, <2>4
<1>3. CASE b = <<>>
  <2>1. kept \o b = kept
    BY <1>3, ConcatEmptySeq
  <2> QED BY <1>1, <2>1
<1>4. CASE b \in Seq(Tx \cup {Foreign}) /\ Len(b) = 1
  <2>1. /\ kept \o b \in Seq(Tx \cup {Foreign}) /\ Len(kept \o b) = Len(kept) + 1
        /\ \A i \in 1 .. Len(kept) + 1 : (kept \o b)[i] =
             IF i <= Len(kept) THEN kept[i] ELSE b[i - Len(kept)]
    BY ZenonT(40), <1>4, ConcatProperties
  <2>2. \A i \in 1 .. Len(kept) : (kept \o b)[i] = kept[i]
    BY <1>1, <2>1
  <2>3. (kept \o b)[Len(kept) + 1] = b[1]
    BY <1>1, <2>1
  <2>4. Len(kept \o b) # Len(kept) /\ b # <<>>
    BY <1>1, <1>4, <2>1
  <2> QED BY <1>1, <1>2, <2>1, <2>2, <2>3, <2>4
<1> QED BY <1>2, <1>3, <1>4

(* What a reorganisation keeps.                                                  *)
LEMMA KeptType ==
    ASSUME TypeOK, Backend, NEW d \in Depths
    PROVE  LET kept == SubSeq(chain, 1, usedAt[d]) IN
           /\ usedAt[d] \in Nat /\ usedAt[d] <= Len(chain)
           /\ kept \in Seq(Tx \cup {Foreign}) /\ Len(kept) = usedAt[d]
           /\ \A i \in 1 .. Len(kept) : kept[i] = chain[i]
<1>1. usedAt[d] \in Nat /\ Len(chain) \in Nat
  BY Types DEF TypeOK
<1>2. usedAt[d] <= Len(chain)
  <2>1. 0 \in Depths /\ 0 <= d
    BY DEF Depths
  <2> QED BY <2>1 DEF Backend
<1>3. \A i \in 1 .. usedAt[d] : chain[i] \in Tx \cup {Foreign}
  BY <1>1, <1>2, ElementOfSeq DEF TypeOK
<1> DEFINE kept == SubSeq(chain, 1, usedAt[d])
<1>4. /\ kept \in Seq(Tx \cup {Foreign})
      /\ Len(kept) = IF 1 <= usedAt[d] THEN usedAt[d] - 1 + 1 ELSE 0
      /\ \A i \in 1 .. usedAt[d] - 1 + 1 : kept[i] = chain[1 + i - 1]
  BY <1>1, <1>3, SubSeqProperties
<1> HIDE DEF kept
<1>5. Len(kept) = usedAt[d] /\ \A i \in 1 .. Len(kept) : kept[i] = chain[i]
  BY <1>1, <1>4
<1> QED BY <1>1, <1>2, <1>4, <1>5 DEF kept

(* What the steps do to the calls and to what they have recorded.                *)
LEMMA CallEffects ==
    ASSUME Inv, Next
    PROVE  /\ \/ UNCHANGED <<nonceOf, cancels>>
              \/ \E t \in Tx :
                   /\ doing[t] = "new" /\ doing' = [doing EXCEPT ![t] = "send"]
                   /\ \E n \in Nat : nonceOf' = [nonceOf EXCEPT ![t] = n]
                   /\ \E c \in BOOLEAN : cancels' = [cancels EXCEPT ![t] = c]
           /\ \/ UNCHANGED doing
              \/ \E t \in Tx :
                   \E v \in {"send", "putNonce", "putTx", "putPending", "done", "failed"} :
                     doing' = [doing EXCEPT ![t] = v]
              \/ doing' = [t \in Tx |-> IF doing[t] \in {"new", "done"} THEN doing[t]
                                       ELSE "failed"]
           /\ \/ UNCHANGED store
              \/ \E t \in Tx : \/ store' = [store EXCEPT !.nonce = nonceOf[t] + 1]
                               \/ store' = [store EXCEPT !.txs = @ \cup {t}]
                               \/ store' = [store EXCEPT !.pending = @ \cup {t}]
                               \/ store' = [store EXCEPT !.pending = @ \ {t}]
<1>1. \/ UNCHANGED <<nonceOf, cancels>>
      \/ \E t \in Tx :
           /\ doing[t] = "new" /\ doing' = [doing EXCEPT ![t] = "send"]
           /\ \E n \in Nat : nonceOf' = [nonceOf EXCEPT ![t] = n]
           /\ \E c \in BOOLEAN : cancels' = [cancels EXCEPT ![t] = c]
  <2>1. ASSUME NEW t \in Tx, Send(t)
        PROVE  /\ doing[t] = "new" /\ doing' = [doing EXCEPT ![t] = "send"]
               /\ \E n \in Nat : nonceOf' = [nonceOf EXCEPT ![t] = n]
               /\ \E c \in BOOLEAN : cancels' = [cancels EXCEPT ![t] = c]
    <3>1. nextNonce \in Nat
      BY NextNonce DEF Inv
    <3>2. cancels' = [cancels EXCEPT ![t] = cancels[t]] /\ cancels[t] \in BOOLEAN
      BY <2>1 DEF Send, Inv, TypeOK
    <3> QED BY <2>1, <3>1, <3>2 DEF Send
  <2>2. ASSUME NEW t \in Tx, NEW original \in Tx, CancelTransaction(t, original)
        PROVE  /\ doing[t] = "new" /\ doing' = [doing EXCEPT ![t] = "send"]
               /\ \E n \in Nat : nonceOf' = [nonceOf EXCEPT ![t] = n]
               /\ \E c \in BOOLEAN : cancels' = [cancels EXCEPT ![t] = c]
    BY <2>2 DEF CancelTransaction, Inv, TypeOK
  <2>3. ASSUME \A t \in Tx : ~Send(t) /\ \A original \in Tx : ~CancelTransaction(t, original)
        PROVE  UNCHANGED <<nonceOf, cancels>>
    BY <2>3 DEF Next, Call, SendTransaction, putNonce, putTransaction,
         putPending, putFails, ResendTransaction, WatchFails, Unregister, Vanish, WatchTransaction,
         Monitor, Poll, potentiallyConfirmedTxWatches, TransactionReceipt, Notify,
         CheckFails, NewBlock, Reorganise, ForeignTransaction, Crash, NewService,
         service, backend, monitor
  <2> QED BY <2>1, <2>2, <2>3
<1>2. \/ UNCHANGED doing
      \/ \E t \in Tx :
           \E v \in {"send", "putNonce", "putTx", "putPending", "done", "failed"} :
             doing' = [doing EXCEPT ![t] = v]
      \/ doing' = [t \in Tx |-> IF doing[t] \in {"new", "done"} THEN doing[t]
                               ELSE "failed"]
  BY DEF Next, Send, CancelTransaction, Call, SendTransaction, putNonce, putTransaction,
         putPending, putFails, ResendTransaction, WatchFails, Unregister, Vanish, WatchTransaction,
         Monitor, Poll, potentiallyConfirmedTxWatches, TransactionReceipt, Notify,
         CheckFails, NewBlock, Reorganise, ForeignTransaction, Crash, NewService,
         service, backend, monitor
<1>3. \/ UNCHANGED store
      \/ \E t \in Tx : \/ store' = [store EXCEPT !.nonce = nonceOf[t] + 1]
                       \/ store' = [store EXCEPT !.txs = @ \cup {t}]
                       \/ store' = [store EXCEPT !.pending = @ \cup {t}]
                       \/ store' = [store EXCEPT !.pending = @ \ {t}]
  BY DEF Next, Send, CancelTransaction, Call, SendTransaction, putNonce, putTransaction,
         putPending, putFails, ResendTransaction, WatchFails, Unregister, Vanish, WatchTransaction,
         Monitor, Poll, potentiallyConfirmedTxWatches, TransactionReceipt, Notify,
         CheckFails, NewBlock, Reorganise, ForeignTransaction, Crash, NewService,
         service, backend, monitor
<1> QED BY <1>1, <1>2, <1>3

(* What a step adds stays; what is made has its nonce.                           *)
LEMMA History ==
    ASSUME Inv, Next
    PROVE  /\ sent \subseteq sent' /\ foreign \subseteq foreign'
           /\ store.txs \subseteq store'.txs
           /\ \A t \in Tx : doing[t] # "new" =>
                /\ doing'[t] # "new"
                /\ nonceOf'[t] = nonceOf[t] /\ cancels'[t] = cancels[t]
<1>1. sent \subseteq sent' /\ foreign \subseteq foreign'
  BY DEF Next, Send, CancelTransaction, Call, SendTransaction, putNonce, putTransaction,
         putPending, putFails, ResendTransaction, WatchFails, Unregister, Vanish, WatchTransaction,
         Monitor, Poll, potentiallyConfirmedTxWatches, TransactionReceipt, Notify,
         CheckFails, NewBlock, Reorganise, ForeignTransaction, Crash, NewService,
         service, backend, monitor
<1>2. store.txs \subseteq store'.txs
  BY CallEffects, Types DEF Inv, StoreState
<1>3. ASSUME NEW t \in Tx, doing[t] # "new"
      PROVE  /\ doing'[t] # "new"
             /\ nonceOf'[t] = nonceOf[t] /\ cancels'[t] = cancels[t]
  <2>1. doing'[t] # "new"
    BY <1>3, CallEffects DEF Inv, TypeOK
  <2>2. nonceOf'[t] = nonceOf[t] /\ cancels'[t] = cancels[t]
    BY <1>3, CallEffects DEF Inv, TypeOK
  <2> QED BY <2>1, <2>2
<1> QED BY <1>1, <1>2, <1>3

LEMMA CallsType ==
    ASSUME Inv, Next
    PROVE  /\ doing' \in [Tx -> {"new", "send", "putNonce", "putTx", "putPending", "done",
                                 "failed"}]
           /\ cancels' \in [Tx -> BOOLEAN] /\ nonceOf' \in [Tx -> Nat]
           /\ store' \in StoreState
<1>1. /\ doing \in [Tx -> {"new", "send", "putNonce", "putTx", "putPending", "done", "failed"}]
      /\ cancels \in [Tx -> BOOLEAN] /\ nonceOf \in [Tx -> Nat] /\ store \in StoreState
  BY Types DEF Inv, TypeOK
<1>2. doing' \in [Tx -> {"new", "send", "putNonce", "putTx", "putPending", "done", "failed"}]
  BY <1>1, CallEffects
<1>3. cancels' \in [Tx -> BOOLEAN] /\ nonceOf' \in [Tx -> Nat]
  BY <1>1, CallEffects
<1>4. store' \in StoreState
  BY <1>1, CallEffects DEF StoreState
<1> QED BY <1>2, <1>3, <1>4

LEMMA BackendType ==
    ASSUME Inv, Next
    PROVE  /\ chain' \in Seq(Tx \cup {Foreign}) /\ usedAt' \in [Depths -> Nat]
           /\ pool' \subseteq Tx /\ sent' \subseteq Tx /\ foreign' \subseteq Nat
<1>1. /\ chain \in Seq(Tx \cup {Foreign}) /\ usedAt \in [Depths -> Nat]
      /\ pool \subseteq Tx /\ sent \subseteq Tx /\ foreign \subseteq Nat
      /\ Len(chain) \in Nat
  BY Types DEF Inv, TypeOK
<1>2. CASE NewBlock
  <2>1. PICK b \in Blocks(chain) :
          /\ chain' = chain \o b
          /\ usedAt' = [d \in Depths |-> IF d = 0 THEN Len(chain') ELSE usedAt[d - 1]]
          /\ pool' = {t \in pool : nonceOf[t] >= Len(chain')}
          /\ UNCHANGED <<sent, foreign>>
    BY <1>2 DEF NewBlock, service
  <2>2. chain' \in Seq(Tx \cup {Foreign}) /\ Len(chain') \in Nat
    BY <1>1, <2>1, BlocksType DEF Inv
  <2>3. \A d \in Depths : d # 0 => d - 1 \in Depths
    BY DEF Depths
  <2>4. usedAt' \in [Depths -> Nat]
    BY <1>1, <2>1, <2>2, <2>3
  <2> QED BY <1>1, <2>1, <2>2, <2>4
<1>3. ASSUME NEW d \in 1 .. cancellationDepth, Reorganise(d)
      PROVE  /\ chain' \in Seq(Tx \cup {Foreign}) /\ usedAt' \in [Depths -> Nat]
             /\ pool' \subseteq Tx /\ sent' \subseteq Tx /\ foreign' \subseteq Nat
  <2> DEFINE kept == SubSeq(chain, 1, usedAt[d])
  <2>1. d \in Depths
    BY DEF Depths
  <2>2. kept \in Seq(Tx \cup {Foreign}) /\ Len(kept) \in Nat
    BY <2>1, KeptType DEF Inv
  <2>3. PICK b \in Blocks(kept) : chain' = kept \o b
    BY <1>3 DEF Reorganise
  <2>4. /\ usedAt' = [e \in Depths |-> IF e = 0 THEN Len(chain')
                                      ELSE IF e < d THEN Len(kept) ELSE usedAt[e]]
        /\ pool' \subseteq sent /\ UNCHANGED <<sent, foreign>>
    BY <1>3 DEF Reorganise, service
  <2> HIDE DEF kept
  <2>5. chain' \in Seq(Tx \cup {Foreign}) /\ Len(chain') \in Nat
    BY <2>2, <2>3, BlocksType DEF Inv
  <2>6. usedAt' \in [Depths -> Nat]
    BY <1>1, <2>2, <2>4, <2>5
  <2> QED BY <1>1, <2>4, <2>5, <2>6
<1>4. CASE ForeignTransaction
  <2>1. PendingNonceAt \in Nat
    BY FirstFree DEF Inv
  <2>2. \A n \in Len(chain) .. PendingNonceAt : n \in Nat
    BY <1>1, <2>1
  <2> QED BY <1>1, <1>4, <2>2 DEF ForeignTransaction, service
<1>5. CASE ~NewBlock /\ ~ForeignTransaction /\ \A d \in 1 .. cancellationDepth : ~Reorganise(d)
  <2>1. UNCHANGED <<chain, usedAt, foreign>>
    BY <1>5 DEF Next, Send, CancelTransaction, Call, SendTransaction, putNonce, putTransaction,
         putPending, putFails, ResendTransaction, WatchFails, Unregister, Vanish, WatchTransaction,
         Monitor, Poll, potentiallyConfirmedTxWatches, TransactionReceipt, Notify,
         CheckFails, Crash, NewService, service, backend, monitor
  <2>2. pool' \subseteq Tx /\ sent' \subseteq Tx
    BY <1>1, <1>5 DEF Next, Send, CancelTransaction, Call, SendTransaction, putNonce,
         putTransaction, putPending, putFails, ResendTransaction, WatchFails, Unregister, Vanish,
         WatchTransaction, Monitor, Poll, potentiallyConfirmedTxWatches, TransactionReceipt,
         Notify, CheckFails, Crash, NewService, service, backend, monitor
  <2> QED BY <1>1, <2>1, <2>2
<1> QED BY <1>2, <1>3, <1>4, <1>5

(* What the steps do to the round of checkPending.                               *)
LEMMA CheckEffects ==
    ASSUME Inv, Next
    PROVE  \/ UNCHANGED check
           \/ check' = NoCheck
           \/ \E w \in Watch : \E met \in {{}, {w[1]}} :
                /\ w[1] \in store.txs
                /\ check' = [check EXCEPT !.left = @ \cup met]
           \/ Poll
           \/ potentiallyConfirmedTxWatches
           \/ \E t \in Tx : TransactionReceipt(t)
           \/ NewBlock
           \/ \E d \in 1 .. cancellationDepth : Reorganise(d)
<1>1. ASSUME NEW w \in Watch, WatchTransaction(w)
      PROVE  \E met \in {{}, {w[1]}} : /\ w[1] \in store.txs
                                      /\ check' = [check EXCEPT !.left = @ \cup met]
  BY <1>1 DEF WatchTransaction, Known
<1>2. CASE \A w \in Watch : ~WatchTransaction(w)
  BY <1>2 DEF Next, Send, CancelTransaction, Call, SendTransaction, putNonce, putTransaction,
         putPending, putFails, ResendTransaction, WatchFails, Unregister, Vanish,
         Monitor, Notify, CheckFails, ForeignTransaction, Crash,
         NewService, service, backend, monitor
<1> QED BY <1>1, <1>2

(* What blocks do to it, new ones and those that replace others.                 *)
LEMMA BlockEffects ==
    ASSUME Inv, Next
    PROVE  /\ NewBlock => \E age \in Depths : check' = [check EXCEPT !.age = age]
           /\ \A d \in 1 .. cancellationDepth : Reorganise(d) =>
                \E used \in Nat, reorged \in BOOLEAN :
                   /\ check' = [check EXCEPT !.used = used, !.reorged = reorged]
                   /\ check.at = "receipts" => reorged
<1>1. /\ check \in CheckState /\ check.age \in Depths /\ check.used \in Nat
      /\ check.reorged \in BOOLEAN /\ usedAt' \in [Depths -> Nat]
  BY Types, BackendType DEF Inv
<1>2. ASSUME NewBlock PROVE \E age \in Depths : check' = [check EXCEPT !.age = age]
  <2>1. CASE check' = check
    <3>1. check' = [check EXCEPT !.age = check.age]
      BY <1>1, <2>1 DEF CheckState
    <3> QED BY <1>1, <3>1
  <2>2. CASE check.age # cancellationDepth /\ check' = [check EXCEPT !.age = check.age + 1]
    <3>1. check.age + 1 \in Depths
      BY <1>1, <2>2 DEF Depths
    <3> QED BY <2>2, <3>1
  <2> QED BY <1>2, <2>1, <2>2 DEF NewBlock
<1>3. ASSUME NEW d \in 1 .. cancellationDepth, Reorganise(d)
      PROVE  \E used \in Nat, reorged \in BOOLEAN :
                /\ check' = [check EXCEPT !.used = used, !.reorged = reorged]
                /\ check.at = "receipts" => reorged
  <2> DEFINE reorged == check.reorged \/ check.at = "receipts"
  <2>1. PICK used \in {check.used, usedAt'[check.age]} :
          check' = [check EXCEPT !.used = used, !.reorged = reorged]
    BY <1>3 DEF Reorganise
  <2>2. used \in Nat
    BY <1>1, <2>1
  <2>3. reorged \in BOOLEAN /\ (check.at = "receipts" => reorged)
    OBVIOUS
  <2> HIDE DEF reorged
  <2> QED BY <2>1, <2>2, <2>3
<1> QED BY <1>2, <1>3

LEMMA CheckStep ==
    ASSUME Inv, Next
    PROVE  check' \in CheckState
<1>1. check \in CheckState /\ NoCheck \in CheckState
  BY Types DEF Inv, NoCheck, CheckState
<1>2. /\ check.left \subseteq Tx /\ check.seen \subseteq Tx /\ check.confirmed \subseteq Tx
      /\ \A w \in Watch : w[1] \in Tx
      /\ {} \in SUBSET Tx /\ {} \in SUBSET Nat /\ TRUE \in BOOLEAN /\ 0 \in Nat
      /\ 0 \in Depths /\ cancellationDepth \in Depths
  BY Types DEF Inv
<1>3. CASE UNCHANGED check \/ check' = NoCheck
  BY <1>1, <1>3
<1>4. ASSUME NEW w \in Watch, NEW met \in {{}, {w[1]}},
             check' = [check EXCEPT !.left = check.left \cup met]
      PROVE  check' \in CheckState
  <2>1. check.left \cup met \in SUBSET Tx
    BY <1>2
  <2> QED BY <1>1, <1>4, <2>1 DEF CheckState
<1>5. CASE Poll
  <2>1. usedAt[0] \in Nat /\ usedAt[cancellationDepth] \in Nat
    BY <1>2 DEF Inv, TypeOK
  <2>2. \/ check' = check
        \/ check' = [NoCheck EXCEPT !.at = "polled", !.used = usedAt[0],
                                    !.old = usedAt[cancellationDepth]]
    BY <1>5 DEF Poll
  <2>3. ASSUME check' = [NoCheck EXCEPT !.at = "polled", !.used = usedAt[0],
                                       !.old = usedAt[cancellationDepth]]
        PROVE  check' \in CheckState
    <3>1. "polled" \in {"idle", "polled", "receipts"}
      OBVIOUS
    <3> QED BY <1>1, <2>1, <2>3, <3>1 DEF CheckState
  <2> QED BY <1>1, <2>2, <2>3
<1>6. CASE potentiallyConfirmedTxWatches
  <2> DEFINE groups == {n \in WatchedNonces : n < check.used}
             left == {w[1] : w \in UNION {Watching(n) : n \in groups}}
  <2>1. check' = [check EXCEPT !.at = "receipts", !.groups = groups, !.left = left]
    BY <1>6 DEF potentiallyConfirmedTxWatches
  <2>2. groups \in SUBSET Nat
    BY DEF WatchedNonces, Inv, TypeOK
  <2>3. left \in SUBSET Tx
    BY <1>2 DEF Watching
  <2>4. "receipts" \in {"idle", "polled", "receipts"}
    OBVIOUS
  <2> HIDE DEF groups, left
  <2> QED BY <1>1, <2>1, <2>2, <2>3, <2>4 DEF CheckState
<1>7. ASSUME NEW t \in Tx, TransactionReceipt(t) PROVE check' \in CheckState
  <2> DEFINE confirmed == IF Mined(t)
                          THEN {x \in check.confirmed : nonceOf[x] # nonceOf[t]} \cup {t}
                          ELSE check.confirmed
             left == check.left \ {t}
             seen == check.seen \cup {t}
  <2>1. check' = [check EXCEPT !.left = left, !.seen = seen, !.confirmed = confirmed]
    BY <1>7 DEF TransactionReceipt
  <2>2. left \in SUBSET Tx /\ seen \in SUBSET Tx /\ confirmed \in SUBSET Tx
    BY <1>2
  <2> HIDE DEF confirmed, left, seen
  <2> QED BY <1>1, <2>1, <2>2 DEF CheckState
<1>8. CASE NewBlock
  <2>1. PICK age \in Depths : check' = [check EXCEPT !.age = age]
    BY <1>8, BlockEffects
  <2> QED BY <1>1, <2>1 DEF CheckState
<1>9. ASSUME NEW d \in 1 .. cancellationDepth, Reorganise(d) PROVE check' \in CheckState
  <2>1. PICK used \in Nat, reorged \in BOOLEAN :
          check' = [check EXCEPT !.used = used, !.reorged = reorged]
    BY <1>9, BlockEffects
  <2> QED BY <1>1, <2>1 DEF CheckState
<1> QED BY <1>3, <1>4, <1>5, <1>6, <1>7, <1>8, <1>9, CheckEffects

LEMMA WatchType ==
    ASSUME Inv, Next
    PROVE  /\ watch' \in [Watch -> {"none", "asked", "watching", "receipt", "cancelled", "kept"}]
           /\ up' \in BOOLEAN /\ added' \in BOOLEAN /\ newBlock' \in BOOLEAN
           /\ faults' \in 0 .. MaxFaults
<1> DEFINE State == {"none", "asked", "watching", "receipt", "cancelled", "kept"}
<1>1. /\ watch \in [Watch -> State] /\ up \in BOOLEAN /\ added \in BOOLEAN
      /\ newBlock \in BOOLEAN /\ faults \in 0 .. MaxFaults
  BY Types DEF Inv, TypeOK
<1>2. \A w \in Watch : Answer(w) \in State
  BY <1>1 DEF Answer
<1> HIDE DEF State
<1>3. watch' \in [Watch -> State]
  <2>1. {"none", "asked", "watching", "receipt", "cancelled", "kept"} \subseteq State
    BY DEF State
  <2>2. \/ UNCHANGED watch
        \/ \E w \in Watch, v \in State : watch' = [watch EXCEPT ![w] = v]
        \/ watch' = [w \in Watch |-> IF watch[w] = "watching" /\ nonceOf[w[1]] \in check.groups
                                     THEN Answer(w) ELSE watch[w]]
        \/ \E S : watch' = [w \in Watch |-> IF w \in S THEN "asked" ELSE "none"]
    <3>1. \A t \in Tx : <<t, "service">> \in Watch
      BY DEF Watch
    <3>2. ASSUME NewService
          PROVE  \E S : watch' = [w \in Watch |-> IF w \in S THEN "asked" ELSE "none"]
      <4> WITNESS {x \in Watch : x[2] = "service" /\ x[1] \in store.pending}
      <4> QED BY <3>2 DEF NewService
    <3>3. ASSUME Crash
          PROVE  \E S : watch' = [w \in Watch |-> IF w \in S THEN "asked" ELSE "none"]
      <4> DEFINE nobody == {x \in Watch : FALSE}
      <4>1. watch' = [w \in Watch |-> IF w \in nobody THEN "asked" ELSE "none"]
        BY <3>3 DEF Crash
      <4> HIDE DEF nobody
      <4> QED BY <4>1
    <3>4. ASSUME NEW t \in Tx, putPending(t) \/ WatchFails(t) \/ Unregister(t)
          PROVE  \E w \in Watch, v \in State : watch' = [watch EXCEPT ![w] = v]
      BY <2>1, <3>1, <3>4 DEF putPending, WatchFails, Unregister
    <3>5. ASSUME NEW w \in Watch, WatchTransaction(w)
          PROVE  \E v \in State : watch' = [watch EXCEPT ![w] = v]
      BY <2>1, <3>5 DEF WatchTransaction
    <3>6. ASSUME Notify
          PROVE  watch' = [w \in Watch |-> IF watch[w] = "watching" /\ nonceOf[w[1]] \in check.groups
                                     THEN Answer(w) ELSE watch[w]]
      BY <3>6 DEF Notify
    <3>7. \/ UNCHANGED watch
          \/ NewService \/ Crash \/ Notify \/ \E w \in Watch : WatchTransaction(w)
          \/ \E t \in Tx : putPending(t) \/ WatchFails(t) \/ Unregister(t)
      BY DEF Next, Send, CancelTransaction, Call, SendTransaction, putNonce, putTransaction,
         putFails, ResendTransaction, Vanish,
         Monitor, Poll, potentiallyConfirmedTxWatches, TransactionReceipt,
         CheckFails, NewBlock, Reorganise, ForeignTransaction,
         service, backend, monitor
    <3> QED BY <3>2, <3>3, <3>4, <3>5, <3>6, <3>7
  <2> QED BY <1>1, <1>2, <2>1, <2>2
<1>4. /\ up' = up \/ up' = TRUE \/ up' = FALSE
      /\ added' = added \/ added' = TRUE \/ added' = FALSE
      /\ newBlock' = newBlock \/ newBlock' = TRUE \/ newBlock' = (check.age > 0)
  BY DEF Next, Send, CancelTransaction, Call, SendTransaction, putNonce, putTransaction,
         putPending, putFails, ResendTransaction, WatchFails, Unregister, Vanish, WatchTransaction,
         Monitor, Poll, potentiallyConfirmedTxWatches, TransactionReceipt, Notify,
         CheckFails, NewBlock, Reorganise, ForeignTransaction, Crash, NewService,
         service, backend, monitor
<1>5. faults' = faults \/ Fault
  BY DEF Next, Send, CancelTransaction, Call, SendTransaction, putNonce, putTransaction,
         putPending, putFails, ResendTransaction, WatchFails, Unregister, Vanish, WatchTransaction,
         Monitor, Poll, potentiallyConfirmedTxWatches, TransactionReceipt, Notify,
         CheckFails, NewBlock, Reorganise, ForeignTransaction, Crash, NewService,
         service, backend, monitor
<1>6. faults' \in 0 .. MaxFaults
  BY <1>1, <1>5 DEF Fault
<1>7. up' \in BOOLEAN /\ added' \in BOOLEAN /\ newBlock' \in BOOLEAN
  <2>1. up' \in BOOLEAN
    BY <1>1, <1>4, Zenon
  <2>2. added' \in BOOLEAN
    BY <1>1, <1>4, Zenon
  <2>3. newBlock' \in BOOLEAN
    <3>1. (check.age > 0) \in BOOLEAN
      OBVIOUS
    <3> QED BY <1>1, <1>4, <3>1, Zenon
  <2> QED BY <2>1, <2>2, <2>3
<1> QED BY <1>3, <1>6, <1>7 DEF State

LEMMA TypeStep ==
    ASSUME Inv, Next
    PROVE  TypeOK'
BY CallsType, BackendType, CheckStep, WatchType DEF TypeOK, StoreState, CheckState

-------------------------------------------------------------------------------
(* The parts of the invariant.                                                   *)

LEMMA InvInit == Init => Inv
<1> SUFFICES ASSUME Init PROVE Inv
  OBVIOUS
<1>1. store \in StoreState /\ NoCheck \in CheckState
  <2>1. 0 \in Depths
    BY DEF Depths
  <2> QED BY <2>1 DEF Init, StoreState, NoCheck, CheckState
<1>2. TypeOK
  <2>1. <<>> \in Seq(Tx \cup {Foreign})
    BY EmptySeq
  <2>2. 0 \in 0 .. MaxFaults
    OBVIOUS
  <2> QED BY <1>1, <2>1, <2>2 DEF Init, TypeOK, StoreState, CheckState
<1>3. Backend
  <2>1. 0 \in Depths /\ Len(<<>>) = 0
    BY DEF Depths
  <2> QED BY <2>1, FS_EmptySet DEF Init, Backend
<1>4. Calls
  BY DEF Init, Calls, HasLock
<1>5. Nonces
  BY DEF Init, Nonces, Numbered
<1>6. Watches /\ Rounds /\ Receipts
  <2>1. cancellationDepth \in Depths
    BY DEF Depths
  <2> QED BY <2>1 DEF Init, Watches, Rounds, Receipts, NoCheck
<1> QED BY <1>2, <1>3, <1>4, <1>5, <1>6 DEF Inv

(* A transaction on the chain, in the pool or recorded was sent.                 *)
LEMMA BackendStep ==
    ASSUME Inv, Next
    PROVE  Backend'
<1>1. /\ sent \subseteq sent' /\ foreign \subseteq foreign' /\ sent \subseteq Tx
      /\ \A t \in sent : nonceOf'[t] = nonceOf[t]
  <2>1. sent \subseteq Tx
    BY DEF Inv, TypeOK
  <2> QED BY <2>1, History DEF Inv, Calls
<1>2. IsFiniteSet(foreign')
  <2>1. foreign' = foreign \/ \E n : foreign' = foreign \cup {n}
    BY DEF Next, Send, CancelTransaction, Call, SendTransaction, putNonce, putTransaction,
         putPending, putFails, ResendTransaction, WatchFails, Unregister, Vanish, WatchTransaction,
         Monitor, Poll, potentiallyConfirmedTxWatches, TransactionReceipt, Notify,
         CheckFails, NewBlock, Reorganise, ForeignTransaction, Crash, NewService,
         service, backend, monitor
  <2> QED BY <2>1, FS_AddElement DEF Inv, Backend
<1>3. pool' \subseteq sent'
  <2>1. ASSUME NEW t \in Tx, ResendTransaction(t) PROVE pool' \subseteq sent'
    BY <2>1 DEF ResendTransaction, Known, service, Inv, Backend, Calls
  <2>2. ASSUME NEW t \in Tx, SendTransaction(t) PROVE pool' \subseteq sent'
    BY <2>2 DEF SendTransaction, Inv, Backend
  <2>3. ASSUME NEW d \in 1 .. cancellationDepth, Reorganise(d) PROVE pool' \subseteq sent'
    BY <2>3 DEF Reorganise, service
  <2>4. ASSUME NEW t \in Tx, Vanish(t) PROVE pool' \subseteq sent'
    BY <2>4 DEF Vanish, service, Inv, Backend
  <2>5. CASE NewBlock
    BY <2>5 DEF NewBlock, service, Inv, Backend
  <2>6. CASE /\ ~NewBlock /\ \A d \in 1 .. cancellationDepth : ~Reorganise(d)
             /\ \A t \in Tx : ~ResendTransaction(t) /\ ~SendTransaction(t) /\ ~Vanish(t)
    <3>1. pool' = pool
      BY <2>6 DEF Next, Send, CancelTransaction, Call, putNonce, putTransaction,
         putPending, putFails, WatchFails, Unregister, WatchTransaction,
         Monitor, Poll, potentiallyConfirmedTxWatches, TransactionReceipt, Notify,
         CheckFails, ForeignTransaction, Crash, NewService, service, backend, monitor
    <3> QED BY <1>1, <3>1 DEF Inv, Backend
  <2> QED BY <2>1, <2>2, <2>3, <2>4, <2>5, <2>6
<1>4. 0 \in Depths /\ Len(chain) \in Nat /\ usedAt \in [Depths -> Nat]
  BY Types DEF Inv, TypeOK
<1> DEFINE Ordered == /\ usedAt[0] = Len(chain)
                      /\ \A d, e \in Depths : d <= e => usedAt[e] <= usedAt[d]
           Filled == \A i \in 1 .. Len(chain) :
                       \/ chain[i] = Foreign /\ i - 1 \in foreign
                       \/ chain[i] \in sent /\ nonceOf[chain[i]] = i - 1
<1>5. CASE NewBlock
  <2>1. PICK b \in Blocks(chain) :
          /\ chain' = chain \o b
          /\ usedAt' = [d \in Depths |-> IF d = 0 THEN Len(chain') ELSE usedAt[d - 1]]
          /\ UNCHANGED <<sent, foreign, nonceOf>>
    BY <1>5 DEF NewBlock, service
  <2>2. /\ Len(chain') \in Nat /\ (Len(chain') = Len(chain) \/ Len(chain') = Len(chain) + 1)
        /\ \A i \in 1 .. Len(chain) : chain'[i] = chain[i]
        /\ Len(chain') = Len(chain) + 1 =>
             LET last == chain'[Len(chain) + 1] IN
             \/ last = Foreign /\ Len(chain) \in foreign
             \/ last \in sent /\ nonceOf[last] = Len(chain)
    <3>1. chain \in Seq(Tx \cup {Foreign})
      BY DEF Inv, TypeOK
    <3> QED BY <2>1, <3>1, BlocksType DEF Inv
  <2>3. Ordered'
    <3>1. usedAt'[0] = Len(chain')
      BY <1>4, <2>1
    <3>2. ASSUME NEW d \in Depths, NEW e \in Depths, d <= e PROVE usedAt'[e] <= usedAt'[d]
      <4>1. CASE e = 0
        BY <1>4, <2>2, <3>1, <3>2, <4>1 DEF Depths
      <4>2. CASE e # 0 /\ d # 0
        <5>1. d - 1 \in Depths /\ e - 1 \in Depths /\ d - 1 <= e - 1
          BY <3>2, <4>2 DEF Depths
        <5>2. usedAt'[e] = usedAt[e - 1] /\ usedAt'[d] = usedAt[d - 1]
          BY <2>1, <4>2
        <5> QED BY <5>1, <5>2 DEF Inv, Backend
      <4>3. CASE e # 0 /\ d = 0
        <5>1. e - 1 \in Depths /\ 0 <= e - 1
          BY <4>3 DEF Depths
        <5>2. usedAt'[e] = usedAt[e - 1] /\ usedAt[e - 1] \in Nat
          BY <1>4, <2>1, <4>3, <5>1
        <5>3. usedAt[e - 1] <= Len(chain)
          BY <1>4, <5>1 DEF Inv, Backend
        <5> QED BY <1>4, <2>2, <3>1, <4>3, <5>2, <5>3
      <4> QED BY <4>1, <4>2, <4>3
    <3> QED BY <3>1, <3>2
  <2>4. Filled'
    <3>1. ASSUME NEW i \in 1 .. Len(chain')
          PROVE  \/ chain'[i] = Foreign /\ i - 1 \in foreign
                 \/ chain'[i] \in sent /\ nonceOf[chain'[i]] = i - 1
      <4>1. CASE i \in 1 .. Len(chain)
        BY <2>2, <4>1 DEF Inv, Backend
      <4>2. CASE i \notin 1 .. Len(chain)
        <5>1. i = Len(chain) + 1 /\ Len(chain') = Len(chain) + 1 /\ i - 1 = Len(chain)
          BY <1>4, <2>2, <3>1, <4>2
        <5> QED BY <2>2, <5>1
      <4> QED BY <4>1, <4>2
    <3> QED BY <2>1, <3>1
  <2> QED BY <1>2, <1>3, <2>3, <2>4 DEF Backend
<1>6. ASSUME NEW d \in 1 .. cancellationDepth, Reorganise(d) PROVE Backend'
  <2> DEFINE kept == SubSeq(chain, 1, usedAt[d])
  <2>1. PICK b \in Blocks(kept) : chain' = kept \o b
    BY <1>6 DEF Reorganise
  <2>2. /\ usedAt' = [e \in Depths |-> IF e = 0 THEN Len(chain')
                                      ELSE IF e < d THEN Len(kept) ELSE usedAt[e]]
        /\ UNCHANGED <<sent, foreign, nonceOf>>
    BY <1>6 DEF Reorganise, service
  <2>3. d \in Depths
    BY DEF Depths
  <2>4. /\ usedAt[d] \in Nat /\ usedAt[d] <= Len(chain)
        /\ kept \in Seq(Tx \cup {Foreign}) /\ Len(kept) = usedAt[d]
        /\ \A i \in 1 .. Len(kept) : kept[i] = chain[i]
    BY <2>3, KeptType DEF Inv
  <2> HIDE DEF kept
  <2>5. /\ Len(chain') \in Nat /\ (Len(chain') = Len(kept) \/ Len(chain') = Len(kept) + 1)
        /\ \A i \in 1 .. Len(kept) : chain'[i] = kept[i]
        /\ Len(chain') = Len(kept) + 1 =>
             LET last == chain'[Len(kept) + 1] IN
             \/ last = Foreign /\ Len(kept) \in foreign
             \/ last \in sent /\ nonceOf[last] = Len(kept)
    BY <2>1, <2>4, BlocksType DEF Inv
  <2>6. Ordered'
    <3>1. usedAt'[0] = Len(chain')
      BY <1>4, <2>2
    <3>2. ASSUME NEW x \in Depths, NEW e \in Depths, x <= e PROVE usedAt'[e] <= usedAt'[x]
      <4>1. /\ x \in Nat /\ e \in Nat /\ usedAt[x] \in Nat /\ usedAt[e] \in Nat
            /\ usedAt[e] <= usedAt[x]
            /\ d <= e => usedAt[e] <= usedAt[d]
        <5>1. x \in Nat /\ e \in Nat
          BY DEF Depths
        <5>2. usedAt[e] <= usedAt[x] /\ (d <= e => usedAt[e] <= usedAt[d])
          BY <2>3, <3>2 DEF Inv, Backend
        <5> QED BY <1>4, <5>1, <5>2
      <4>2. usedAt'[x] = (IF x = 0 THEN Len(chain') ELSE IF x < d THEN usedAt[d] ELSE usedAt[x])
        BY <2>2, <2>4
      <4>3. usedAt'[e] = (IF e = 0 THEN Len(chain') ELSE IF e < d THEN usedAt[d] ELSE usedAt[e])
        BY <2>2, <2>4
      <4>4. usedAt[d] <= Len(chain')
        BY <2>4, <2>5
      <4> QED BY <2>4, <2>5, <3>2, <4>1, <4>2, <4>3, <4>4
    <3> QED BY <3>1, <3>2
  <2>7. Filled'
    <3>1. ASSUME NEW i \in 1 .. Len(chain')
          PROVE  \/ chain'[i] = Foreign /\ i - 1 \in foreign
                 \/ chain'[i] \in sent /\ nonceOf[chain'[i]] = i - 1
      <4>1. CASE i \in 1 .. Len(kept)
        <5>1. chain'[i] = chain[i] /\ i \in 1 .. Len(chain)
          BY <1>4, <2>4, <2>5, <4>1
        <5> QED BY <5>1 DEF Inv, Backend
      <4>2. CASE i \notin 1 .. Len(kept)
        <5>1. i = Len(kept) + 1 /\ Len(chain') = Len(kept) + 1 /\ i - 1 = Len(kept)
          BY <2>4, <2>5, <3>1, <4>2
        <5> QED BY <2>5, <5>1
      <4> QED BY <4>1, <4>2
    <3> QED BY <2>2, <3>1
  <2> QED BY <1>2, <1>3, <2>6, <2>7 DEF Backend
<1>7. CASE ~NewBlock /\ \A d \in 1 .. cancellationDepth : ~Reorganise(d)
  <2>1. UNCHANGED <<chain, usedAt>>
    BY <1>7 DEF Next, Send, CancelTransaction, Call, SendTransaction, putNonce, putTransaction,
         putPending, putFails, ResendTransaction, WatchFails, Unregister, Vanish, WatchTransaction,
         Monitor, Poll, potentiallyConfirmedTxWatches, TransactionReceipt, Notify,
         CheckFails, ForeignTransaction, Crash, NewService, service, backend, monitor
  <2>2. Ordered'
    BY <2>1 DEF Inv, Backend
  <2>3. Filled'
    BY <1>1, <2>1 DEF Inv, Backend
  <2> QED BY <1>2, <1>3, <2>2, <2>3 DEF Backend
<1> QED BY <1>5, <1>6, <1>7

(* What a step of a call does, and a crash to all of them.                       *)
LEMMA CallSteps ==
    ASSUME Inv, Next
    PROVE  \/ \E t \in Tx :
                \/ Send(t)
                \/ \E original \in Tx : CancelTransaction(t, original)
                \/ Call(t)
                \/ putFails(t)
           \/ Crash
           \/ /\ UNCHANGED <<doing, cancels, nonceOf, sent>>
              /\ store'.txs = store.txs /\ store'.nonce = store.nonce
<1>1. \/ \E t \in Tx :
                \/ Send(t)
                \/ \E original \in Tx : CancelTransaction(t, original)
                \/ Call(t)
                \/ putFails(t)
      \/ Crash
      \/ /\ UNCHANGED <<doing, cancels, nonceOf, sent>>
         /\ \/ UNCHANGED store
            \/ \E t \in Tx : store' = [store EXCEPT !.pending = @ \ {t}]
  BY DEF Next, ResendTransaction, WatchFails, Unregister, Vanish, WatchTransaction,
         Monitor, Poll, potentiallyConfirmedTxWatches, TransactionReceipt, Notify,
         CheckFails, NewBlock, Reorganise, ForeignTransaction, NewService,
         service, backend, monitor
<1>2. ASSUME NEW t \in Tx, store' = [store EXCEPT !.pending = @ \ {t}]
      PROVE  store'.txs = store.txs /\ store'.nonce = store.nonce
  BY <1>2, Types DEF Inv, StoreState
<1> QED BY <1>1, <1>2

LEMMA CallsStep ==
    ASSUME Inv, Next
    PROVE  Calls'
<1>1. /\ doing \in [Tx -> {"new", "send", "putNonce", "putTx", "putPending", "done", "failed"}]
      /\ cancels \in [Tx -> BOOLEAN] /\ store \in StoreState /\ sent \subseteq Tx
      /\ store.txs \subseteq Tx
  BY Types DEF Inv, TypeOK
<1>2. /\ \A s, t \in Tx : HasLock(s) /\ HasLock(t) => s = t
      /\ \A t \in sent : doing[t] \notin {"new", "send"}
      /\ \A t \in Tx : doing[t] \in {"putNonce", "putTx"} => t \in sent
      /\ \A t \in Tx : doing[t] = "putNonce" => ~cancels[t]
      /\ \A t \in Tx : doing[t] \in {"putPending", "done"} => t \in store.txs
      /\ \A t \in store.txs : doing[t] \in {"putPending", "done", "failed"} /\ t \in sent
  BY DEF Inv, Calls
<1>3. ASSUME NEW t \in Tx, Send(t) PROVE Calls'
  <2>1. /\ doing[t] = "new" /\ doing' = [doing EXCEPT ![t] = "send"]
        /\ UNCHANGED <<cancels, sent, store>> /\ \A s \in Tx : ~HasLock(s)
    BY <1>3 DEF Send, Locked, HasLock
  <2> QED BY <1>1, <1>2, <2>1 DEF Calls, HasLock
<1>4. ASSUME NEW t \in Tx, NEW original \in Tx, CancelTransaction(t, original) PROVE Calls'
  <2>1. /\ doing[t] = "new" /\ doing' = [doing EXCEPT ![t] = "send"]
        /\ cancels' = [cancels EXCEPT ![t] = TRUE] /\ UNCHANGED <<sent, store>>
    BY <1>4 DEF CancelTransaction
  <2> QED BY <1>1, <1>2, <2>1 DEF Calls, HasLock
<1>5. ASSUME NEW t \in Tx, SendTransaction(t) PROVE Calls'
  <2>1. /\ doing[t] = "send" /\ UNCHANGED <<cancels, store>>
        /\ \/ doing' = [doing EXCEPT ![t] = "failed"] /\ (sent' = sent \/ sent' = sent \cup {t})
           \/ /\ doing' = [doing EXCEPT ![t] = IF cancels[t] THEN "putTx" ELSE "putNonce"]
              /\ sent' = sent \cup {t}
    BY <1>5 DEF SendTransaction
  <2>2. CASE doing' = [doing EXCEPT ![t] = "failed"] /\ (sent' = sent \/ sent' = sent \cup {t})
    BY <1>1, <1>2, <2>1, <2>2 DEF Calls, HasLock
  <2>3. CASE /\ doing' = [doing EXCEPT ![t] = IF cancels[t] THEN "putTx" ELSE "putNonce"]
             /\ sent' = sent \cup {t}
    BY <1>1, <1>2, <2>1, <2>3 DEF Calls, HasLock
  <2> QED BY <2>1, <2>2, <2>3
<1>6. ASSUME NEW t \in Tx, putNonce(t) PROVE Calls'
  <2>1. /\ doing[t] = "putNonce" /\ doing' = [doing EXCEPT ![t] = "putTx"]
        /\ UNCHANGED <<cancels, sent>>
    BY <1>6 DEF putNonce
  <2>2. store'.txs = store.txs
    BY <1>1, <1>6 DEF putNonce, StoreState
  <2> QED BY <1>1, <1>2, <2>1, <2>2 DEF Calls, HasLock
<1>7. ASSUME NEW t \in Tx, putTransaction(t) PROVE Calls'
  <2>1. /\ doing[t] = "putTx" /\ doing' = [doing EXCEPT ![t] = "putPending"]
        /\ UNCHANGED <<cancels, sent>>
    BY <1>7 DEF putTransaction
  <2>2. store'.txs = store.txs \cup {t}
    BY <1>1, <1>7 DEF putTransaction, StoreState
  <2> QED BY <1>1, <1>2, <2>1, <2>2 DEF Calls, HasLock
<1>8. ASSUME NEW t \in Tx, putPending(t) PROVE Calls'
  <2>1. /\ doing[t] = "putPending" /\ doing' = [doing EXCEPT ![t] = "done"]
        /\ UNCHANGED <<cancels, sent>>
    BY <1>8 DEF putPending
  <2>2. store'.txs = store.txs
    BY <1>1, <1>8 DEF putPending, StoreState
  <2> QED BY <1>1, <1>2, <2>1, <2>2 DEF Calls, HasLock
<1>9. ASSUME NEW t \in Tx, putFails(t) PROVE Calls'
  <2>1. /\ doing[t] \in {"putNonce", "putTx", "putPending"}
        /\ doing' = [doing EXCEPT ![t] = "failed"]
        /\ UNCHANGED <<cancels, sent, store>>
    BY <1>9 DEF putFails
  <2> QED BY <1>1, <1>2, <2>1 DEF Calls, HasLock
<1>10. CASE Crash
  <2>1. /\ doing' = [t \in Tx |-> IF doing[t] \in {"new", "done"} THEN doing[t] ELSE "failed"]
        /\ UNCHANGED <<cancels, sent, store>>
    BY <1>10 DEF Crash
  <2> QED BY <1>1, <1>2, <2>1 DEF Calls, HasLock
<1>11. CASE UNCHANGED <<doing, cancels, nonceOf, sent>> /\ store'.txs = store.txs
  BY <1>2, <1>11 DEF Calls, HasLock
<1> QED BY <1>3, <1>4, <1>5, <1>6, <1>7, <1>8, <1>9, <1>10, <1>11, CallSteps DEF Call

LEMMA CoveredStep ==
    ASSUME Inv, Next, NEW n, Covered(n)
    PROVE  Covered(n)'
<1>1. \A t \in sent : nonceOf'[t] = nonceOf[t]
  BY History DEF Inv, Calls, TypeOK
<1> QED BY <1>1, History DEF Covered

LEMMA NoncesStep ==
    ASSUME Inv, Next
    PROVE  Nonces'
<1>1. /\ doing \in [Tx -> {"new", "send", "putNonce", "putTx", "putPending", "done", "failed"}]
      /\ cancels \in [Tx -> BOOLEAN] /\ nonceOf \in [Tx -> Nat] /\ store \in StoreState
      /\ store.txs \subseteq Tx /\ store.nonce \in Nat
  BY Types DEF Inv, TypeOK
<1>2. /\ \A s, t \in Tx : HasLock(s) /\ HasLock(t) => s = t
      /\ \A t \in Tx : doing[t] = "putNonce" => ~cancels[t] /\ t \in sent
      /\ \A t \in store.txs : doing[t] \in {"putPending", "done", "failed"}
  BY DEF Inv, Calls
<1>3. /\ \A t \in Tx : ~cancels[t] /\ doing[t] \in {"send", "putNonce"} =>
            nonceOf[t] >= store.nonce /\ \A n \in 0 .. nonceOf[t] - 1 : Covered(n)'
      /\ \A t \in Tx : Numbered(t) => nonceOf[t] < store.nonce
      /\ \A s, t \in Tx : Numbered(s) /\ Numbered(t) /\ nonceOf[s] = nonceOf[t] => s = t
      /\ \A n \in 0 .. store.nonce - 1 : Covered(n)'
  BY CoveredStep DEF Inv, Nonces
<1>4. ASSUME NEW t \in Tx, Send(t) PROVE Nonces'
  <2>1. /\ doing[t] = "new" /\ doing' = [doing EXCEPT ![t] = "send"]
        /\ UNCHANGED <<cancels, store>> /\ nonceOf' = [nonceOf EXCEPT ![t] = nextNonce]
    BY <1>4 DEF Send
  <2>2. /\ nextNonce \in Nat /\ nextNonce >= store.nonce
        /\ \A n \in 0 .. nextNonce - 1 : Covered(n)'
    BY NextNonce, CoveredStep DEF Inv
  <2>3. /\ \A s \in Tx : Numbered(s)' <=> Numbered(s)
        /\ ~Numbered(t)
        /\ \A s \in Tx \ {t} : doing'[s] = doing[s] /\ nonceOf'[s] = nonceOf[s]
        /\ nonceOf'[t] = nextNonce
    BY <1>1, <1>2, <2>1 DEF Numbered
  <2> QED BY <1>3, <2>1, <2>2, <2>3 DEF Nonces
<1>5. ASSUME NEW t \in Tx, NEW original \in Tx, CancelTransaction(t, original) PROVE Nonces'
  <2>1. /\ doing[t] = "new" /\ doing' = [doing EXCEPT ![t] = "send"]
        /\ cancels' = [cancels EXCEPT ![t] = TRUE] /\ UNCHANGED store
        /\ nonceOf' = [nonceOf EXCEPT ![t] = nonceOf[original]]
    BY <1>5 DEF CancelTransaction
  <2>2. /\ \A s \in Tx : Numbered(s)' <=> Numbered(s)
        /\ ~Numbered(t)
        /\ \A s \in Tx \ {t} : /\ doing'[s] = doing[s] /\ nonceOf'[s] = nonceOf[s]
                               /\ cancels'[s] = cancels[s]
        /\ cancels'[t]
    BY <1>1, <1>2, <2>1 DEF Numbered
  <2> QED BY <1>3, <2>1, <2>2 DEF Nonces
<1>6. ASSUME NEW t \in Tx, SendTransaction(t) PROVE Nonces'
  <2>1. /\ doing[t] = "send" /\ UNCHANGED <<cancels, nonceOf, store>>
        /\ \/ doing' = [doing EXCEPT ![t] = "failed"]
           \/ doing' = [doing EXCEPT ![t] = IF cancels[t] THEN "putTx" ELSE "putNonce"]
    BY <1>6 DEF SendTransaction
  <2>2. /\ \A s \in Tx : Numbered(s)' <=> Numbered(s)
        /\ \A s \in Tx : ~cancels[s] /\ doing'[s] \in {"send", "putNonce"} =>
                         doing[s] \in {"send", "putNonce"}
    BY <1>1, <1>2, <2>1 DEF Numbered
  <2> QED BY <1>3, <2>1, <2>2 DEF Nonces
<1>7. ASSUME NEW t \in Tx, putNonce(t) PROVE Nonces'
  <2>1. /\ doing[t] = "putNonce" /\ doing' = [doing EXCEPT ![t] = "putTx"]
        /\ UNCHANGED <<cancels, nonceOf, sent, foreign>>
    BY <1>7 DEF putNonce, backend
  <2>2. store'.txs = store.txs /\ store'.nonce = nonceOf[t] + 1
    BY <1>1, <1>7 DEF putNonce, StoreState
  <2>3. ~cancels[t] /\ t \in sent /\ HasLock(t)
    BY <1>2, <2>1 DEF HasLock
  <2>4. nonceOf[t] \in Nat /\ nonceOf[t] >= store.nonce /\ \A n \in 0 .. nonceOf[t] - 1 : Covered(n)'
    BY <1>1, <1>3, <2>1, <2>3
  <2>5. /\ \A s \in Tx \ {t} : Numbered(s)' <=> Numbered(s)
        /\ \A s \in Tx \ {t} : cancels[s] \/ doing'[s] \notin {"send", "putNonce"}
        /\ doing'[t] = "putTx"
    BY <1>1, <1>2, <2>1, <2>2, <2>3 DEF Numbered, HasLock
  <2>6. \A n \in 0 .. store'.nonce - 1 : Covered(n)'
    <3>1. ASSUME NEW n \in 0 .. store'.nonce - 1 PROVE Covered(n)'
      <4>1. n \in 0 .. nonceOf[t] - 1 \/ n = nonceOf[t]
        BY <2>2, <2>4
      <4>2. CASE n = nonceOf[t]
        <5>1. t \in sent' /\ nonceOf'[t] = n
          BY <2>1, <2>3, <4>2
        <5> QED BY <5>1 DEF Covered
      <4> QED BY <2>4, <4>1, <4>2
    <3> QED BY <3>1
  <2>7. \A s \in Tx \ {t} : Numbered(s)' => nonceOf'[s] < nonceOf'[t]
    BY <1>1, <1>3, <2>1, <2>4, <2>5
  <2>8. \A s \in Tx : Numbered(s)' => nonceOf'[s] < store'.nonce
    BY <1>1, <2>1, <2>2, <2>7
  <2>9. \A r, s \in Tx : Numbered(r)' /\ Numbered(s)' /\ nonceOf'[r] = nonceOf'[s] => r = s
    <3>1. \A s \in Tx \ {t} : Numbered(s)' => nonceOf'[s] # nonceOf'[t]
      BY <1>1, <2>1, <2>7
    <3> QED BY <1>3, <2>1, <2>5, <3>1
  <2> QED BY <2>1, <2>5, <2>6, <2>8, <2>9 DEF Nonces
<1>8. ASSUME NEW t \in Tx, putTransaction(t) PROVE Nonces'
  <2>1. /\ doing[t] = "putTx" /\ doing' = [doing EXCEPT ![t] = "putPending"]
        /\ UNCHANGED <<cancels, nonceOf>>
    BY <1>8 DEF putTransaction
  <2>2. store'.txs = store.txs \cup {t} /\ store'.nonce = store.nonce
    BY <1>1, <1>8 DEF putTransaction, StoreState
  <2>3. /\ \A s \in Tx : Numbered(s)' <=> Numbered(s)
        /\ \A s \in Tx : doing'[s] \in {"send", "putNonce"} => doing[s] \in {"send", "putNonce"}
    BY <1>1, <1>2, <2>1, <2>2 DEF Numbered
  <2> QED BY <1>3, <2>1, <2>2, <2>3 DEF Nonces
<1>9. ASSUME NEW t \in Tx, putPending(t) PROVE Nonces'
  <2>1. /\ doing[t] = "putPending" /\ doing' = [doing EXCEPT ![t] = "done"]
        /\ UNCHANGED <<cancels, nonceOf>>
    BY <1>9 DEF putPending
  <2>2. store'.txs = store.txs /\ store'.nonce = store.nonce
    BY <1>1, <1>9 DEF putPending, StoreState
  <2>3. /\ \A s \in Tx : Numbered(s)' <=> Numbered(s)
        /\ \A s \in Tx : doing'[s] \in {"send", "putNonce"} => doing[s] \in {"send", "putNonce"}
    BY <1>1, <1>2, <2>1, <2>2 DEF Numbered
  <2> QED BY <1>3, <2>1, <2>2, <2>3 DEF Nonces
<1>10. CASE Crash \/ \E t \in Tx : putFails(t)
  <2>1. UNCHANGED <<cancels, nonceOf, store>>
    BY <1>10 DEF Crash, putFails
  <2>2. \A s \in Tx : doing'[s] = doing[s] \/ doing'[s] = "failed"
    BY <1>1, <1>10 DEF Crash, putFails
  <2>3. /\ \A s \in Tx : Numbered(s)' => Numbered(s)
        /\ \A s \in Tx : doing'[s] \in {"send", "putNonce"} => doing[s] \in {"send", "putNonce"}
    BY <2>1, <2>2 DEF Numbered
  <2> QED BY <1>3, <2>1, <2>3 DEF Nonces
<1>11. CASE /\ UNCHANGED <<doing, cancels, nonceOf>>
            /\ store'.txs = store.txs /\ store'.nonce = store.nonce
  <2>1. \A s \in Tx : Numbered(s)' <=> Numbered(s)
    BY <1>11 DEF Numbered
  <2> QED BY <1>3, <1>11, <2>1 DEF Nonces
<1> QED BY <1>4, <1>5, <1>6, <1>7, <1>8, <1>9, <1>10, <1>11, CallSteps DEF Call

LEMMA WatchesStep ==
    ASSUME Inv, Next
    PROVE  Watches'
<1>1. /\ watch \in [Watch -> {"none", "asked", "watching", "receipt", "cancelled", "kept"}]
      /\ store \in StoreState /\ check \in CheckState /\ store.txs \subseteq store'.txs
  BY Types, History DEF Inv, TypeOK
<1>2. /\ store.pending \subseteq store.txs
      /\ \A w \in Watch : watch[w] # "none" => w[1] \in store.txs
      /\ check.left \subseteq store.txs /\ check.seen \subseteq store.txs
      /\ check.confirmed \subseteq store.txs
  BY DEF Inv, Watches
<1>3. store'.pending \subseteq store'.txs
  <2>1. ASSUME NEW t \in Tx, putPending(t) PROVE store'.pending \subseteq store'.txs
    <3>1. store' = [store EXCEPT !.pending = @ \cup {t}] /\ t \in store.txs
      BY <2>1 DEF putPending, Inv, Calls
    <3>2. store'.pending = store.pending \cup {t}
      BY <1>1, <3>1 DEF StoreState
    <3> QED BY <1>1, <1>2, <3>1, <3>2
  <2>2. ASSUME NEW t \in Tx, store' = [store EXCEPT !.pending = @ \ {t}]
        PROVE  store'.pending \subseteq store'.txs
    <3>1. store'.pending = store.pending \ {t}
      BY <1>1, <2>2 DEF StoreState
    <3> QED BY <1>1, <1>2, <3>1
  <2>3. ASSUME NEW t \in Tx, putNonce(t) \/ putTransaction(t)
        PROVE  store'.pending \subseteq store'.txs
    <3>1. store'.pending = store.pending
      BY <1>1, <2>3 DEF putNonce, putTransaction, StoreState
    <3> QED BY <1>1, <1>2, <3>1
  <2>4. \/ UNCHANGED store
        \/ \E t \in Tx : \/ putPending(t) \/ putNonce(t) \/ putTransaction(t)
                         \/ store' = [store EXCEPT !.pending = @ \ {t}]
    BY DEF Next, Send, CancelTransaction, Call, SendTransaction,
         putFails, ResendTransaction, WatchFails, Unregister, Vanish, WatchTransaction,
         Monitor, Poll, potentiallyConfirmedTxWatches, TransactionReceipt, Notify,
         CheckFails, NewBlock, Reorganise, ForeignTransaction, Crash, NewService,
         service, backend, monitor
  <2> QED BY <1>2, <2>1, <2>2, <2>3, <2>4
<1>4. ASSUME NEW w \in Watch, watch'[w] # "none" PROVE w[1] \in store.txs
  <2>1. ASSUME NEW t \in Tx, putPending(t)
        PROVE  /\ t \in store.txs /\ watch' = [watch EXCEPT ![<<t, "service">>] = "asked"]
               /\ <<t, "service">>[1] = t
    BY <2>1 DEF putPending, Inv, Calls
  <2>2. ASSUME NEW x \in Watch, WatchTransaction(x)
        PROVE  x[1] \in store.txs /\ watch' = [watch EXCEPT ![x] = "watching"]
    BY <2>2 DEF WatchTransaction, Known
  <2>3. ASSUME NEW t \in Tx, WatchFails(t) \/ Unregister(t) PROVE watch[w] # "none"
    <3>1. PICK v \in {"none", "kept"} : watch' = [watch EXCEPT ![<<t, "service">>] = v]
      BY <2>3 DEF WatchFails, Unregister
    <3>2. watch[<<t, "service">>] \in {"asked", "receipt", "cancelled"}
      BY <2>3 DEF WatchFails, Unregister
    <3>3. CASE w = <<t, "service">>
      BY <3>2, <3>3
    <3>4. CASE w # <<t, "service">>
      BY <1>1, <1>4, <3>1, <3>4
    <3> QED BY <3>3, <3>4
  <2>4. ASSUME NewService PROVE w[1] \in store.pending
    BY <2>4, <1>4 DEF NewService
  <2>5. ASSUME Crash PROVE FALSE
    BY <2>5, <1>4 DEF Crash
  <2>6. \/ UNCHANGED watch
        \/ Notify \/ NewService \/ Crash
        \/ \E t \in Tx : putPending(t) \/ WatchFails(t) \/ Unregister(t)
        \/ \E x \in Watch : WatchTransaction(x)
    BY DEF Next, Send, CancelTransaction, Call, SendTransaction, putNonce, putTransaction,
         putFails, ResendTransaction, Vanish,
         Monitor, Poll, potentiallyConfirmedTxWatches, TransactionReceipt,
         CheckFails, NewBlock, Reorganise, ForeignTransaction, service, backend, monitor
  <2>7. CASE UNCHANGED watch
    BY <1>2, <1>4, <2>7
  <2>8. ASSUME NEW t \in Tx, putPending(t) PROVE w[1] \in store.txs
    <3>1. CASE w = <<t, "service">>
      BY <2>1, <2>8, <3>1
    <3>2. CASE w # <<t, "service">>
      BY <1>1, <1>2, <1>4, <2>1, <2>8, <3>2
    <3> QED BY <3>1, <3>2
  <2>9. ASSUME NEW x \in Watch, WatchTransaction(x) PROVE w[1] \in store.txs
    BY <1>1, <1>2, <1>4, <2>2, <2>9
  <2>10. CASE Notify
    <3>1. watch[w] # "none"
      BY <1>4, <2>10 DEF Notify
    <3> QED BY <1>2, <3>1
  <2> QED BY <1>2, <2>3, <2>4, <2>5, <2>6, <2>7, <2>8, <2>9, <2>10
<1>5. /\ check'.left \subseteq store.txs /\ check'.seen \subseteq store.txs
      /\ check'.confirmed \subseteq store.txs
  <2>1. CASE UNCHANGED check \/ check' = NoCheck
    BY <1>2, <2>1 DEF NoCheck
  <2>2. ASSUME NEW w \in Watch, NEW met \in {{}, {w[1]}}, w[1] \in store.txs,
               check' = [check EXCEPT !.left = @ \cup met]
        PROVE  /\ check'.left \subseteq store.txs /\ check'.seen \subseteq store.txs
               /\ check'.confirmed \subseteq store.txs
    <3>1. /\ check'.left = check.left \cup met /\ check'.seen = check.seen
          /\ check'.confirmed = check.confirmed
      BY <1>1, <2>2 DEF CheckState
    <3> QED BY <1>2, <2>2, <3>1
  <2>3. CASE Poll
    <3>1. \/ check' = check
          \/ check' = [NoCheck EXCEPT !.at = "polled", !.used = usedAt[0],
                                      !.old = usedAt[cancellationDepth]]
      BY <2>3 DEF Poll
    <3>2. ASSUME check' = [NoCheck EXCEPT !.at = "polled", !.used = usedAt[0],
                                          !.old = usedAt[cancellationDepth]]
          PROVE  check'.left = {} /\ check'.seen = {} /\ check'.confirmed = {}
      BY <3>2 DEF NoCheck
    <3> QED BY <1>2, <3>1, <3>2
  <2>4. CASE potentiallyConfirmedTxWatches
    <3> DEFINE groups == {n \in WatchedNonces : n < check.used}
               left == {w[1] : w \in UNION {Watching(n) : n \in groups}}
    <3>1. check' = [check EXCEPT !.at = "receipts", !.groups = groups, !.left = left]
      BY <2>4 DEF potentiallyConfirmedTxWatches
    <3>2. left \subseteq store.txs
      BY <1>2 DEF Watching
    <3> HIDE DEF groups, left
    <3>3. check'.left = left /\ check'.seen = check.seen /\ check'.confirmed = check.confirmed
      BY <1>1, <3>1 DEF CheckState
    <3> QED BY <1>2, <3>2, <3>3
  <2>5. ASSUME NEW t \in Tx, TransactionReceipt(t)
        PROVE  /\ check'.left \subseteq store.txs /\ check'.seen \subseteq store.txs
               /\ check'.confirmed \subseteq store.txs
    <3> DEFINE confirmed == IF Mined(t)
                            THEN {x \in check.confirmed : nonceOf[x] # nonceOf[t]} \cup {t}
                            ELSE check.confirmed
    <3>1. /\ check' = [check EXCEPT !.left = @ \ {t}, !.seen = @ \cup {t}, !.confirmed = confirmed]
          /\ t \in check.left
      BY <2>5 DEF TransactionReceipt
    <3>2. confirmed \subseteq check.confirmed \cup {t}
      OBVIOUS
    <3> HIDE DEF confirmed
    <3>3. /\ check'.left = check.left \ {t} /\ check'.seen = check.seen \cup {t}
          /\ check'.confirmed = confirmed
      BY <1>1, <3>1 DEF CheckState
    <3> QED BY <1>2, <3>1, <3>2, <3>3
  <2>6. CASE NewBlock \/ \E d \in 1 .. cancellationDepth : Reorganise(d)
    <3>1. /\ check'.left = check.left /\ check'.seen = check.seen
          /\ check'.confirmed = check.confirmed
      BY <1>1, <2>6, BlockEffects DEF CheckState
    <3> QED BY <1>2, <3>1
  <2> QED BY <2>1, <2>2, <2>3, <2>4, <2>5, <2>6, CheckEffects
<1> QED BY <1>1, <1>3, <1>4, <1>5 DEF Watches

(* The part of the chain below usedAt[cancellationDepth] stays as it is.         *)
LEMMA OldBlocksStay ==
    ASSUME Inv, Next
    PROVE  /\ usedAt[cancellationDepth] \in Nat
           /\ usedAt[cancellationDepth] <= usedAt'[cancellationDepth]
           /\ usedAt[cancellationDepth] <= Len(chain)
           /\ \A i \in 1 .. usedAt[cancellationDepth] : chain'[i] = chain[i]
<1> DEFINE D == cancellationDepth
<1>1. /\ D \in Nat \ {0} /\ D \in Depths /\ usedAt \in [Depths -> Nat] /\ Len(chain) \in Nat
      /\ chain \in Seq(Tx \cup {Foreign})
  BY Types DEF Inv, TypeOK
<1>2. usedAt[D] \in Nat /\ usedAt[D] <= Len(chain)
  BY <1>1, KeptType DEF Inv
<1>3. CASE NewBlock
  <2>1. PICK b \in Blocks(chain) :
          /\ chain' = chain \o b
          /\ usedAt' = [d \in Depths |-> IF d = 0 THEN Len(chain') ELSE usedAt[d - 1]]
    BY <1>3 DEF NewBlock
  <2>2. \A i \in 1 .. Len(chain) : chain'[i] = chain[i]
    BY <1>1, <2>1, BlocksType DEF Inv
  <2>3. D - 1 \in Depths /\ D - 1 <= D /\ D # 0
    BY <1>1 DEF Depths
  <2>4. usedAt'[D] = usedAt[D - 1]
    BY <1>1, <2>1, <2>3
  <2>5. usedAt[D] <= usedAt[D - 1]
    BY <1>1, <2>3 DEF Inv, Backend
  <2> QED BY <1>1, <1>2, <2>2, <2>4, <2>5
<1>4. ASSUME NEW d \in 1 .. cancellationDepth, Reorganise(d)
      PROVE  /\ usedAt[D] <= usedAt'[D]
             /\ \A i \in 1 .. usedAt[D] : chain'[i] = chain[i]
  <2> DEFINE kept == SubSeq(chain, 1, usedAt[d])
  <2>1. PICK b \in Blocks(kept) : chain' = kept \o b
    BY <1>4 DEF Reorganise
  <2>2. usedAt' = [e \in Depths |-> IF e = 0 THEN Len(chain')
                                   ELSE IF e < d THEN Len(kept) ELSE usedAt[e]]
    BY <1>4 DEF Reorganise
  <2>3. d \in Depths /\ d <= D /\ ~(D < d) /\ D # 0
    BY <1>1 DEF Depths
  <2>4. usedAt'[D] = usedAt[D]
    BY <1>1, <2>2, <2>3
  <2>5. usedAt[D] <= usedAt[d]
    BY <1>1, <2>3 DEF Inv, Backend
  <2>6. /\ usedAt[d] \in Nat /\ kept \in Seq(Tx \cup {Foreign}) /\ Len(kept) = usedAt[d]
        /\ \A i \in 1 .. Len(kept) : kept[i] = chain[i]
    BY <2>3, KeptType DEF Inv
  <2> HIDE DEF kept
  <2>7. \A i \in 1 .. Len(kept) : chain'[i] = kept[i]
    BY <2>1, <2>6, BlocksType DEF Inv
  <2> QED BY <1>2, <2>4, <2>5, <2>6, <2>7
<1>5. CASE ~NewBlock /\ \A d \in 1 .. cancellationDepth : ~Reorganise(d)
  <2>1. UNCHANGED <<chain, usedAt>>
    BY <1>5 DEF Next, Send, CancelTransaction, Call, SendTransaction, putNonce, putTransaction,
         putPending, putFails, ResendTransaction, WatchFails, Unregister, Vanish, WatchTransaction,
         Monitor, Poll, potentiallyConfirmedTxWatches, TransactionReceipt, Notify,
         CheckFails, ForeignTransaction, Crash, NewService, service, backend, monitor
  <2> QED BY <1>2, <2>1
<1> QED BY <1>2, <1>3, <1>4, <1>5

LEMMA RoundsStep ==
    ASSUME Inv, Next
    PROVE  Rounds'
<1> DEFINE D == cancellationDepth
           Lost(t) == nonceOf[t] < check.old =>
                        \/ chain[nonceOf[t] + 1] # t
                        \/ \E x \in check.confirmed : nonceOf[x] = nonceOf[t]
<1>1. /\ check \in CheckState /\ check.old \in Nat /\ nonceOf \in [Tx -> Nat]
      /\ check.seen \subseteq Tx /\ check.confirmed \subseteq Tx
      /\ check.left \subseteq Tx /\ Len(chain) \in Nat
  BY Types DEF Inv, TypeOK
<1>2. check.old <= usedAt[D] /\ \A t \in check.seen : Lost(t)
  BY DEF Inv, Rounds
<1>3. /\ usedAt[D] \in Nat /\ usedAt'[D] \in Nat /\ usedAt[D] <= usedAt'[D]
      /\ usedAt[D] <= Len(chain)
      /\ \A i \in 1 .. usedAt[D] : chain'[i] = chain[i]
  <2>1. usedAt'[D] \in Nat
    BY Types, BackendType DEF Inv
  <2> QED BY <2>1, OldBlocksStay
<1>4. \A t \in store.txs : nonceOf'[t] = nonceOf[t] /\ t \in Tx
  BY Types, History DEF Inv, Calls
<1>5. /\ check.left \subseteq store.txs /\ check.seen \subseteq store.txs
      /\ check.confirmed \subseteq store.txs
  BY DEF Inv, Watches
<1>6. \A t \in check.seen : nonceOf[t] < check.old => chain'[nonceOf[t] + 1] = chain[nonceOf[t] + 1]
  BY <1>1, <1>2, <1>3
<1>7. ASSUME check'.old = check.old, check'.seen = check.seen, check'.confirmed = check.confirmed
      PROVE  Rounds'
  <2>1. check'.old <= usedAt'[D]
    BY <1>1, <1>2, <1>3, <1>7
  <2>2. \A t \in check'.seen : Lost(t)'
    BY <1>2, <1>4, <1>5, <1>6, <1>7
  <2> QED BY <2>1, <2>2 DEF Rounds
<1>8. ASSUME check'.old <= usedAt[D], check'.old \in Nat, check'.seen = {}
      PROVE  Rounds'
  BY <1>3, <1>8 DEF Rounds
<1>9. CASE UNCHANGED check
  BY <1>7, <1>9
<1>10. CASE check' = NoCheck
  BY <1>3, <1>8, <1>10 DEF NoCheck
<1>11. ASSUME NEW met, check' = [check EXCEPT !.left = @ \cup met] PROVE Rounds'
  BY <1>1, <1>7, <1>11 DEF CheckState
<1>12. CASE Poll
  <2>1. \/ check' = check
        \/ check' = [NoCheck EXCEPT !.at = "polled", !.used = usedAt[0], !.old = usedAt[D]]
    BY <1>12 DEF Poll
  <2>2. ASSUME check' = [NoCheck EXCEPT !.at = "polled", !.used = usedAt[0], !.old = usedAt[D]]
        PROVE  check'.old = usedAt[D] /\ check'.seen = {}
    BY <2>2 DEF NoCheck
  <2> QED BY <1>3, <1>8, <1>9, <2>1, <2>2
<1>13. CASE potentiallyConfirmedTxWatches
  <2> DEFINE groups == {n \in WatchedNonces : n < check.used}
             left == {w[1] : w \in UNION {Watching(n) : n \in groups}}
  <2>1. check' = [check EXCEPT !.at = "receipts", !.groups = groups, !.left = left]
    BY <1>13 DEF potentiallyConfirmedTxWatches
  <2> HIDE DEF groups, left
  <2> QED BY <1>1, <1>7, <2>1 DEF CheckState
<1>14. ASSUME NEW t \in Tx, TransactionReceipt(t) PROVE Rounds'
  <2> DEFINE confirmed == IF Mined(t)
                          THEN {x \in check.confirmed : nonceOf[x] # nonceOf[t]} \cup {t}
                          ELSE check.confirmed
  <2>1. /\ check' = [check EXCEPT !.left = @ \ {t}, !.seen = @ \cup {t}, !.confirmed = confirmed]
        /\ UNCHANGED <<nonceOf, chain, usedAt>>
    BY <1>14 DEF TransactionReceipt, service, backend
  <2>2. \A x \in check.confirmed : \E y \in confirmed : nonceOf[y] = nonceOf[x]
    BY <1>1
  <2>3. Mined(t) => t \in confirmed
    OBVIOUS
  <2> HIDE DEF confirmed
  <2>4. /\ check'.old = check.old /\ check'.seen = check.seen \cup {t}
        /\ check'.confirmed = confirmed
    BY <1>1, <2>1 DEF CheckState
  <2>5. ~Mined(t) /\ nonceOf[t] < check.old => chain[nonceOf[t] + 1] # t
    <3>1. nonceOf[t] < check.old => nonceOf[t] + 1 \in 1 .. Len(chain)
      BY <1>1, <1>2, <1>3
    <3> QED BY <3>1 DEF Mined
  <2>6. \A s \in check.seen \cup {t} : nonceOf[s] < check.old =>
          \/ chain[nonceOf[s] + 1] # s
          \/ \E y \in confirmed : nonceOf[y] = nonceOf[s]
    <3>1. ASSUME NEW s \in check.seen, nonceOf[s] < check.old
          PROVE  \/ chain[nonceOf[s] + 1] # s
                 \/ \E y \in confirmed : nonceOf[y] = nonceOf[s]
      BY <1>2, <2>2, <3>1
    <3> QED BY <2>3, <2>5, <3>1
  <2> QED BY <1>2, <2>1, <2>4, <2>6 DEF Rounds
<1>15. CASE NewBlock \/ \E d \in 1 .. cancellationDepth : Reorganise(d)
  BY <1>1, <1>7, <1>15, BlockEffects DEF CheckState
<1> QED BY <1>9, <1>10, <1>11, <1>12, <1>13, <1>14, <1>15, CheckEffects

LEMMA ReceiptsStep ==
    ASSUME Inv, Next
    PROVE  Receipts'
<1> DEFINE OnChain(x) == nonceOf[x] < Len(chain) /\ chain[nonceOf[x] + 1] = x
<1>1. /\ check \in CheckState /\ check.old \in Nat /\ check.reorged \in BOOLEAN
      /\ nonceOf \in [Tx -> Nat] /\ check.confirmed \subseteq Tx /\ Len(chain) \in Nat
  BY Types DEF Inv, TypeOK
<1>2. /\ check.at # "receipts" => check.confirmed = {}
      /\ \A x \in check.confirmed : \/ OnChain(x)
                                    \/ check.reorged /\ nonceOf[x] >= check.old
  BY DEF Inv, Receipts
<1>3. \A x \in check.confirmed : nonceOf'[x] = nonceOf[x]
  BY History, Types DEF Inv, Calls, Watches
<1>4. CASE check'.confirmed = {}
  BY <1>4 DEF Receipts
<1>5. CASE NewBlock
  <2>1. PICK b \in Blocks(chain) : chain' = chain \o b
    BY <1>5 DEF NewBlock
  <2>2. /\ Len(chain') \in Nat /\ Len(chain) <= Len(chain')
        /\ \A i \in 1 .. Len(chain) : chain'[i] = chain[i]
    <3>1. chain \in Seq(Tx \cup {Foreign})
      BY DEF Inv, TypeOK
    <3> QED BY <1>1, <2>1, <3>1, BlocksType DEF Inv
  <2>3. /\ check'.at = check.at /\ check'.old = check.old
        /\ check'.confirmed = check.confirmed /\ check'.reorged = check.reorged
    BY <1>1, <1>5, BlockEffects DEF CheckState
  <2>4. \A x \in check.confirmed : OnChain(x) => OnChain(x)'
    BY <1>1, <1>3, <2>2
  <2> QED BY <1>2, <1>3, <2>3, <2>4 DEF Receipts
<1>6. ASSUME NEW d \in 1 .. cancellationDepth, Reorganise(d) PROVE Receipts'
  <2>1. /\ check'.at = check.at /\ check'.old = check.old
        /\ check'.confirmed = check.confirmed
        /\ check.at = "receipts" => check'.reorged
    BY <1>1, <1>6, BlockEffects DEF CheckState
  <2>2. /\ usedAt[cancellationDepth] \in Nat /\ check.old <= usedAt[cancellationDepth]
        /\ usedAt[cancellationDepth] <= Len(chain)
        /\ \A i \in 1 .. usedAt[cancellationDepth] : chain'[i] = chain[i]
    BY OldBlocksStay DEF Inv, Rounds
  <2>3. Len(chain') \in Nat /\ usedAt[cancellationDepth] <= Len(chain')
    <3>1. /\ 0 \in Depths /\ cancellationDepth \in Depths /\ 0 <= cancellationDepth
          /\ usedAt' \in [Depths -> Nat]
      BY BackendType DEF Depths
    <3>2. usedAt'[0] = Len(chain') /\ usedAt'[cancellationDepth] <= usedAt'[0]
      BY <3>1, BackendStep DEF Backend
    <3>3. usedAt[cancellationDepth] <= usedAt'[cancellationDepth]
      BY OldBlocksStay
    <3>4. usedAt'[0] \in Nat /\ usedAt'[cancellationDepth] \in Nat
      BY <3>1
    <3> QED BY <2>2, <3>2, <3>3, <3>4
  <2>4. ASSUME NEW x \in check.confirmed, nonceOf[x] < check.old PROVE OnChain(x)'
    <3>1. chain[nonceOf[x] + 1] = x
      BY <1>1, <1>2, <2>4
    <3>2. nonceOf[x] + 1 \in 1 .. usedAt[cancellationDepth] /\ nonceOf[x] < Len(chain')
      BY <1>1, <2>2, <2>3, <2>4
    <3> QED BY <1>3, <2>2, <3>1, <3>2
  <2>5. \A x \in check.confirmed : nonceOf[x] < check.old \/ nonceOf[x] >= check.old
    BY <1>1
  <2> QED BY <1>2, <1>3, <2>1, <2>4, <2>5 DEF Receipts
<1>7. ASSUME ~NewBlock, \A d \in 1 .. cancellationDepth : ~Reorganise(d)
      PROVE  UNCHANGED chain
  BY <1>7 DEF Next, Send, CancelTransaction, Call, SendTransaction, putNonce, putTransaction,
         putPending, putFails, ResendTransaction, WatchFails, Unregister, Vanish,
         WatchTransaction, Monitor, Poll, potentiallyConfirmedTxWatches, TransactionReceipt,
         Notify, CheckFails, ForeignTransaction, Crash, NewService, service, backend, monitor
<1>8. ASSUME UNCHANGED chain, check'.old = check.old, check'.reorged = check.reorged,
             check'.confirmed = check.confirmed,
             check'.at # "receipts" => check.at # "receipts"
      PROVE  Receipts'
  BY <1>2, <1>3, <1>8 DEF Receipts
<1>9. CASE UNCHANGED chain /\ UNCHANGED check
  BY <1>8, <1>9
<1>10. CASE check' = NoCheck
  BY <1>4, <1>10 DEF NoCheck
<1>11. ASSUME UNCHANGED chain, NEW met, check' = [check EXCEPT !.left = @ \cup met]
       PROVE  Receipts'
  BY <1>1, <1>8, <1>11 DEF CheckState
<1>12. CASE UNCHANGED chain /\ Poll
  <2>1. \/ check' = check
        \/ check' = [NoCheck EXCEPT !.at = "polled", !.used = usedAt[0],
                                    !.old = usedAt[cancellationDepth]]
    BY <1>12 DEF Poll
  <2>2. ASSUME check' = [NoCheck EXCEPT !.at = "polled", !.used = usedAt[0],
                                       !.old = usedAt[cancellationDepth]]
        PROVE  check'.confirmed = {}
    BY <2>2 DEF NoCheck
  <2> QED BY <1>4, <1>9, <1>12, <2>1, <2>2
<1>13. CASE UNCHANGED chain /\ potentiallyConfirmedTxWatches
  <2> DEFINE groups == {n \in WatchedNonces : n < check.used}
             left == {w[1] : w \in UNION {Watching(n) : n \in groups}}
  <2>1. check' = [check EXCEPT !.at = "receipts", !.groups = groups, !.left = left]
    BY <1>13 DEF potentiallyConfirmedTxWatches
  <2> HIDE DEF groups, left
  <2>2. /\ check'.old = check.old /\ check'.reorged = check.reorged
        /\ check'.confirmed = check.confirmed /\ check'.at = "receipts"
    BY <1>1, <2>1 DEF CheckState
  <2> QED BY <1>8, <1>13, <2>2
<1>14. ASSUME UNCHANGED chain, NEW t \in Tx, TransactionReceipt(t) PROVE Receipts'
  <2> DEFINE confirmed == IF Mined(t)
                          THEN {x \in check.confirmed : nonceOf[x] # nonceOf[t]} \cup {t}
                          ELSE check.confirmed
  <2>1. /\ check' = [check EXCEPT !.left = @ \ {t}, !.seen = @ \cup {t}, !.confirmed = confirmed]
        /\ check.at = "receipts" /\ nonceOf' = nonceOf
    BY <1>14 DEF TransactionReceipt, service
  <2>2. \A x \in confirmed : x \in check.confirmed \/ (x = t /\ Mined(t))
    OBVIOUS
  <2> HIDE DEF confirmed
  <2>3. /\ check'.old = check.old /\ check'.reorged = check.reorged
        /\ check'.confirmed = confirmed /\ check'.at = "receipts"
    BY <1>1, <2>1 DEF CheckState
  <2>4. ASSUME Mined(t) PROVE OnChain(t)
    <3>1. PICK i \in 1 .. Len(chain) : chain[i] = t
      BY <2>4 DEF Mined
    <3>2. nonceOf[t] = i - 1
      <4>1. t # Foreign
        OBVIOUS
      <4> QED BY <3>1, <4>1 DEF Inv, Backend
    <3> QED BY <1>1, <3>1, <3>2
  <2> QED BY <1>2, <1>14, <2>1, <2>2, <2>3, <2>4 DEF Receipts
<1> QED BY <1>5, <1>6, <1>7, <1>9, <1>10, <1>11, <1>12, <1>13, <1>14, CheckEffects

LEMMA InvStep == Inv /\ [Next]_vars => Inv'
<1> SUFFICES ASSUME Inv, [Next]_vars PROVE Inv'
  OBVIOUS
<1>1. CASE Next
  BY <1>1, TypeStep, BackendStep, CallsStep, NoncesStep, WatchesStep, RoundsStep, ReceiptsStep DEF Inv
<1>2. CASE UNCHANGED vars
  <2>1. TypeOK'
    BY <1>2 DEF vars, service, backend, monitor, Inv, TypeOK
  <2>2. Backend' /\ Calls' /\ Nonces'
    BY <1>2 DEF vars, service, backend, monitor, Inv, Backend, Calls, HasLock, Nonces, Numbered,
                Covered
  <2>3. Watches' /\ Rounds' /\ Receipts'
    BY <1>2 DEF vars, service, backend, monitor, Inv, Watches, Rounds, Receipts
  <2> QED BY <2>1, <2>2, <2>3 DEF Inv
<1> QED BY <1>1, <1>2

-------------------------------------------------------------------------------

(* The inductive invariant is an invariant.                                      *)
THEOREM Invariant == Spec => []Inv
<1>1. Init => Inv
  BY InvInit
<1>2. Inv /\ [Next]_vars => Inv'
  BY InvStep
<1> QED BY <1>1, <1>2, PTL DEF Spec

(* The state of service, chain and monitor is what the code keeps, for every     *)
(* number of transactions, confirmations and faults.                             *)
THEOREM TypeCorrect == Spec => []TypeOK
<1>1. Inv => TypeOK
  BY DEF Inv
<1> QED BY <1>1, Invariant, PTL

(* Send signs no two transactions that it remembers with the same nonce, and     *)
(* leaves no nonce out that nobody has sent a transaction for.                   *)
THEOREM NoncesAreInOrder == Spec => []NoncesInOrder
<1>1. Inv => NoncesInOrder
  <2> SUFFICES ASSUME Inv PROVE NoncesInOrder
    OBVIOUS
  <2>1. store.txs \subseteq Tx
    BY Types DEF Inv
  <2>2. ASSUME NEW s \in store.txs, NEW t \in store.txs, nonceOf[s] = nonceOf[t], s # t
        PROVE  cancels[s] \/ cancels[t]
    BY <2>1, <2>2 DEF Inv, Nonces, Numbered
  <2>3. \A n \in 0 .. store.nonce - 1 : n \in foreign \/ \E t \in sent : nonceOf[t] = n
    BY DEF Inv, Nonces, Covered
  <2> QED BY <2>2, <2>3 DEF NoncesInOrder
<1> QED BY <1>1, Invariant, PTL

(* A transaction that checkPending calls cancelled has lost its nonce to another *)
(* one on the chain, except for a watch that joined after the look-ups, and for  *)
(* nonces that are not final when blocks are replaced during the round.          *)
THEOREM WhatIsCancelledIsLost == Spec => CancelledIsLost
<1> DEFINE Lost(w) == LET t == w[1] n == nonceOf[t] IN
                      \/ n < Len(chain) /\ chain[n + 1] # t
                      \/ n >= check.old /\ check.reorged
                      \/ n < check.old /\ t \notin check.seen
           Step == \A w \in Watch :
                      watch[w] = "watching" /\ watch'[w] = "cancelled" => Lost(w)
<1>1. Inv /\ [Next]_vars => Step
  <2> HIDE DEF Lost
  <2> SUFFICES ASSUME Inv, [Next]_vars, NEW w \in Watch,
                      watch[w] = "watching", watch'[w] = "cancelled"
               PROVE  Lost(w)
    OBVIOUS
  <2> DEFINE t == w[1]
             n == nonceOf[t]
  <2>1. /\ watch \in [Watch -> {"none", "asked", "watching", "receipt", "cancelled", "kept"}]
        /\ t \in Tx /\ n \in Nat /\ check.old \in Nat /\ Len(chain) \in Nat
        /\ cancellationDepth \in Depths /\ usedAt[cancellationDepth] \in Nat
    BY Types DEF Inv, TypeOK
  <2>2. Notify
    <3>1. \A x \in Tx : ~putPending(x) /\ ~WatchFails(x) /\ ~Unregister(x)
      <4>1. ASSUME NEW x \in Tx, NEW v \in {"asked", "none", "kept"}
            PROVE  watch' # [watch EXCEPT ![<<x, "service">>] = v]
        BY <2>1
      <4> QED BY <4>1 DEF putPending, WatchFails, Unregister
    <3>2. \A x \in Watch : ~WatchTransaction(x)
      BY <2>1 DEF WatchTransaction
    <3>3. ~NewService /\ ~Crash
      BY DEF NewService, Crash
    <3>4. watch' # watch
      OBVIOUS
    <3> QED BY <3>1, <3>2, <3>3, <3>4 DEF Next, Send, CancelTransaction, Call, SendTransaction,
         putNonce, putTransaction, putFails, ResendTransaction, Vanish,
         Monitor, Poll, potentiallyConfirmedTxWatches, TransactionReceipt,
         CheckFails, NewBlock, Reorganise, ForeignTransaction, service, backend, monitor, vars
  <2>3. Answer(w) = "cancelled"
    BY <2>2 DEF Notify
  <2> DEFINE receipts == {x \in check.confirmed : nonceOf[x] = n}
  <2>4. t \notin receipts /\ (receipts # {} \/ n < check.old)
    BY <2>3 DEF Answer
  <2>5. CASE receipts # {}
    <3>1. PICK x \in check.confirmed : nonceOf[x] = n /\ x # t
      BY <2>4, <2>5
    <3>2. \/ n < Len(chain) /\ chain[n + 1] = x
          \/ check.reorged /\ n >= check.old
      BY <3>1 DEF Inv, Receipts
    <3> QED BY <3>1, <3>2 DEF Lost
  <2>6. CASE receipts = {}
    <3>1. n < check.old /\ check.old <= usedAt[cancellationDepth]
      BY <2>4, <2>6 DEF Inv, Rounds
    <3>2. usedAt[cancellationDepth] <= Len(chain)
      BY <2>1, KeptType DEF Inv
    <3>3. t \in check.seen => chain[n + 1] # t
      BY <2>6, <3>1 DEF Inv, Rounds
    <3>4. n < Len(chain)
      BY <2>1, <3>1, <3>2
    <3> QED BY <3>1, <3>3, <3>4 DEF Lost
  <2> QED BY <2>5, <2>6
<1>2. Inv /\ [Next]_vars => [Step]_vars
  BY <1>1
<1> HIDE DEF Step
<1>3. [][Step]_vars => CancelledIsLost
  BY DEF CancelledIsLost, Step
<1> QED BY <1>2, <1>3, Invariant, PTL DEF Spec
===============================================================================
