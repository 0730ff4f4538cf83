-------------------------- MODULE AccountingProofs --------------------------
(* Proofs about Accounting: the books of two peers cancel out, a peer's own     *)
(* debt is owed, and who blocklists is owed the limit or has met a crossing     *)
(* refreshment. They need sums over sets of requests.                           *)
EXTENDS Accounting, FiniteSetTheorems, WellFoundedInduction, TLAPS

-----------------------------------------------------------------------------
(* Of the subsets of a finite set that are in T one is smallest: taking an      *)
(* element off it leaves T.                                                     *)
LEMMA SmallestSubset ==
    ASSUME NEW S, IsFiniteSet(S), NEW T \in SUBSET SUBSET S, T # {}
    PROVE  \E X \in T : \A x \in X : X \ {x} \notin T
<1>1. IsWellFoundedOn(StrictSubsetOrdering(S), SUBSET S)
  BY FS_StrictSubsetOrderingWellFounded, FS_FiniteSubsetsOfFinite
<1>2. PICK X \in T : \A Y \in T : ~ (<<Y, X>> \in StrictSubsetOrdering(S))
  BY <1>1, WFMin
<1>3. ASSUME NEW x \in X, X \ {x} \in T PROVE FALSE
  <2>1. X \in SUBSET S /\ X \ {x} \in SUBSET S
    OBVIOUS
  <2>2. X \ {x} \subseteq X /\ X \ {x} # X
    OBVIOUS
  <2>3. <<X \ {x}, X>> \in StrictSubsetOrdering(S)
    BY <2>1, <2>2 DEF StrictSubsetOrdering
  <2> QED BY <1>2, <1>3, <2>3
<1> QED BY <1>3

(* F sums f over the subsets of S.                                              *)
Additive(F, f, S) ==
    /\ F \in [SUBSET S -> Int]
    /\ F[{}] = 0
    /\ \A X \in SUBSET S : \A x \in X : F[X] = f[x] + F[X \ {x}]

(* There is such a function: on the smallest set without one, it would extend   *)
(* the one of a smaller set.                                                    *)
LEMMA AdditiveExists ==
    ASSUME NEW S, IsFiniteSet(S), NEW f, \A x \in S : f[x] \in Int
    PROVE  \E F : Additive(F, f, S)
<1> DEFINE T == {X \in SUBSET S : ~ \E F : Additive(F, f, X)}
<1> SUFFICES ASSUME T # {} PROVE FALSE
  OBVIOUS
<1>1. PICK X \in T : \A x \in X : X \ {x} \notin T
  <2>1. T \in SUBSET SUBSET S
    OBVIOUS
  <2> HIDE DEF T
  <2> QED BY <2>1, SmallestSubset
<1>2. CASE X = {}
  <2> DEFINE F == [Y \in SUBSET X |-> 0]
  <2>1. Additive(F, f, X)
    BY <1>2 DEF Additive
  <2> QED BY <2>1
<1>3. CASE X # {}
  <2>1. PICK x \in X : TRUE
    BY <1>3
  <2>2. X \ {x} \in SUBSET S /\ X \ {x} \notin T
    BY <1>1
  <2>3. PICK F : Additive(F, f, X \ {x})
    BY <2>2
  <2> DEFINE G == [Y \in SUBSET X |-> IF x \in Y THEN f[x] + F[Y \ {x}] ELSE F[Y]]
  <2>4. f[x] \in Int /\ \A Y \in SUBSET X : Y \ {x} \in SUBSET (X \ {x}) /\ F[Y \ {x}] \in Int
    BY <2>3 DEF Additive
  <2>5. G \in [SUBSET X -> Int]
    <3>1. ASSUME NEW Y \in SUBSET X PROVE G[Y] \in Int
      <4>1. CASE x \in Y
        <5>1. G[Y] = f[x] + F[Y \ {x}]
          BY <4>1
        <5> HIDE DEF G
        <5>2. f[x] \in Int /\ F[Y \ {x}] \in Int
          BY <2>4
        <5> QED BY <5>1, <5>2
      <4>2. CASE x \notin Y
        <5>1. Y \ {x} = Y
          BY <4>2
        <5> QED BY <2>4, <4>2, <5>1
      <4> QED BY <4>1, <4>2
    <3> QED BY <3>1
  <2>6. G[{}] = 0
    BY <2>3 DEF Additive
  <2>7. ASSUME NEW Y \in SUBSET X, NEW y \in Y PROVE G[Y] = f[y] + G[Y \ {y}]
    <3>1. Y \ {y} \in SUBSET X
      OBVIOUS
    <3>2. CASE x \notin Y
      <4>1. Y \in SUBSET (X \ {x}) /\ x \notin Y \ {y}
        BY <3>2
      <4>2. F[Y] = f[y] + F[Y \ {y}]
        BY <2>3, <4>1 DEF Additive
      <4> QED BY <3>1, <3>2, <4>1, <4>2
    <3>3. CASE x = y
      BY <3>1, <3>3
    <3>4. CASE x \in Y /\ x # y
      <4>1. Y \ {x} \in SUBSET (X \ {x}) /\ y \in Y \ {x}
        BY <3>4
      <4>2. F[Y \ {x}] = f[y] + F[(Y \ {x}) \ {y}]
        BY <2>3, <4>1 DEF Additive
      <4>3. (Y \ {x}) \ {y} = (Y \ {y}) \ {x} /\ x \in Y \ {y}
        BY <3>4
      <4>4. G[Y] = f[x] + F[Y \ {x}] /\ G[Y \ {y}] = f[x] + F[(Y \ {y}) \ {x}]
        BY <3>1, <3>4, <4>3
      <4>5. f[x] \in Int /\ f[y] \in Int /\ F[(Y \ {y}) \ {x}] \in Int
        BY <2>4, <3>1
      <4>6. F[Y \ {x}] = f[y] + F[(Y \ {y}) \ {x}]
        BY <4>2, <4>3
      <4> HIDE DEF G
      <4> QED BY <4>4, <4>5, <4>6
    <3> QED BY <3>2, <3>3, <3>4
  <2> HIDE DEF G
  <2>8. Additive(G, f, X)
    BY <2>5, <2>6, <2>7 DEF Additive
  <2> QED BY <2>8
<1> QED BY <1>2, <1>3

(* The equation that the fold's function is chosen by.                          *)
FoldEquation(g, f, S) ==
    g = [X \in SUBSET S |-> IF X = {} THEN 0
                            ELSE f[CHOOSE y \in X : TRUE] + g[X \ {CHOOSE y \in X : TRUE}]]

(* SumFunctionOnSet, with the operators it is built of.                         *)
LEMMA SumUnfolds ==
    ASSUME NEW f, NEW S
    PROVE  SumFunctionOnSet(f, S) = (CHOOSE g : FoldEquation(g, f, S))[S]
BY DEF SumFunctionOnSet, FoldFunctionOnSet, MapThenFoldSet, FoldEquation

(* It is the value of any additive function.                                    *)
LEMMA SumIsAdditive ==
    ASSUME NEW U, IsFiniteSet(U), NEW f, \A x \in U : f[x] \in Int,
           NEW F, Additive(F, f, U), NEW S \in SUBSET U
    PROVE  SumFunctionOnSet(f, S) = F[S]
<1> DEFINE H == [X \in SUBSET S |-> F[X]]
           g == CHOOSE g : FoldEquation(g, f, S)
           T == {X \in SUBSET S : g[X] # F[X]}
<1>1. FoldEquation(H, f, S)
  <2>1. ASSUME NEW X \in SUBSET S, X # {}
        PROVE  H[X] = f[CHOOSE y \in X : TRUE] + H[X \ {CHOOSE y \in X : TRUE}]
    <3>1. (CHOOSE y \in X : TRUE) \in X
      BY <2>1
    <3> QED BY <3>1 DEF Additive
  <2>2. H[{}] = 0
    BY DEF Additive
  <2>3. H = [X \in SUBSET S |-> IF X = {} THEN 0
                            ELSE f[CHOOSE y \in X : TRUE] + H[X \ {CHOOSE y \in X : TRUE}]]
    <3> HIDE DEF H
    <3>1. H = [X \in SUBSET S |-> H[X]]
      BY DEF H
    <3> QED BY <2>1, <2>2, <3>1
  <2> HIDE DEF H
  <2> QED BY <2>3 DEF FoldEquation
<1>2. FoldEquation(g, f, S)
  <2> HIDE DEF H
  <2> QED BY <1>1
<1>3. T = {}
  <2> SUFFICES ASSUME T # {} PROVE FALSE
    OBVIOUS
  <2>1. PICK X \in T : \A x \in X : X \ {x} \notin T
    <3>1. T \in SUBSET SUBSET S /\ IsFiniteSet(S)
      BY FS_Subset
    <3> HIDE DEF T
    <3> QED BY <3>1, SmallestSubset
  <2>2. g[X] = IF X = {} THEN 0 ELSE f[CHOOSE y \in X : TRUE] + g[X \ {CHOOSE y \in X : TRUE}]
    <3> HIDE DEF g
    <3> QED BY <1>2 DEF FoldEquation
  <2> HIDE DEF g
  <2>3. X # {}
    BY <2>2 DEF Additive
  <2>4. PICK y : y = (CHOOSE z \in X : TRUE) /\ y \in X
    BY <2>3
  <2>5. g[X \ {y}] = F[X \ {y}]
    BY <2>1, <2>4
  <2>6. F[X] = f[y] + F[X \ {y}]
    BY <2>4 DEF Additive
  <2> QED BY <2>2, <2>3, <2>4, <2>5, <2>6
<1>4. SumFunctionOnSet(f, S) = g[S]
  BY SumUnfolds
<1> HIDE DEF g
<1> QED BY <1>3, <1>4

(* What requests cost, as the proofs use it.                                    *)
LEMMA WorthRules ==
    /\ Worth({}) = 0
    /\ \A S \in SUBSET Request : Worth(S) \in Int
    /\ \A S \in SUBSET Request : \A r \in S : Worth(S) = Price[r] + Worth(S \ {r})
<1>1. IsFiniteSet(Request) /\ \A r \in Request : Price[r] \in Int
  BY RequestAssumption
<1>2. PICK F : Additive(F, Price, Request)
  BY <1>1, AdditiveExists
<1>3. \A S \in SUBSET Request : Worth(S) = F[S]
  BY <1>1, <1>2, SumIsAdditive DEF Worth
<1> QED BY <1>2, <1>3 DEF Additive

(* More requests cost no less.                                                  *)
LEMMA WorthGrows ==
    ASSUME NEW S \in SUBSET Request
    PROVE  \A Q \in SUBSET S : 0 <= Worth(Q) /\ Worth(Q) <= Worth(S)
<1>1. \A r \in Request : Price[r] \in Nat
  BY RequestAssumption
<1>2. ASSUME NEW U \in SUBSET Request PROVE Worth(U) \in Nat
  <2> DEFINE T == {X \in SUBSET U : Worth(X) \notin Nat}
  <2> SUFFICES T = {}
    OBVIOUS
  <2> SUFFICES ASSUME T # {} PROVE FALSE
    OBVIOUS
  <2>1. PICK X \in T : \A x \in X : X \ {x} \notin T
    <3>1. T \in SUBSET SUBSET U /\ IsFiniteSet(U)
      BY FS_Subset, RequestAssumption
    <3> HIDE DEF T
    <3> QED BY <3>1, SmallestSubset
  <2>2. X # {}
    <3>1. Worth({}) \in Nat
      BY WorthRules
    <3> QED BY <3>1
  <2>3. PICK r \in X : TRUE
    BY <2>2
  <2>4. Worth(X \ {r}) \in Nat
    BY <2>1
  <2>5. Worth(X) = Price[r] + Worth(X \ {r})
    <3>1. X \in SUBSET Request
      OBVIOUS
    <3> HIDE DEF T
    <3> QED BY <3>1, WorthRules
  <2> QED BY <1>1, <2>4, <2>5
<1> DEFINE T == {X \in SUBSET S : Worth(S) < Worth(S \ X)}
<1>3. T = {}
  <2> SUFFICES ASSUME T # {} PROVE FALSE
    OBVIOUS
  <2>1. PICK X \in T : \A x \in X : X \ {x} \notin T
    <3>1. T \in SUBSET SUBSET S /\ IsFiniteSet(S)
      BY FS_Subset, RequestAssumption
    <3> HIDE DEF T
    <3> QED BY <3>1, SmallestSubset
  <2>2. X # {}
    <3>1. S \ {} = S /\ Worth(S) \in Nat
      BY <1>2
    <3> QED BY <3>1
  <2>3. PICK r \in X : TRUE
    BY <2>2
  <2>4. S \ (X \ {r}) \in SUBSET Request /\ r \in S \ (X \ {r}) /\ (S \ (X \ {r})) \ {r} = S \ X
    OBVIOUS
  <2>5. Worth(S \ (X \ {r})) = Price[r] + Worth(S \ X)
    BY <2>4, WorthRules
  <2>6. ~ (Worth(S) < Worth(S \ (X \ {r})))
    BY <2>1
  <2>7. Worth(S) \in Nat /\ Worth(S \ X) \in Nat /\ Price[r] \in Nat
    BY <1>1, <1>2
  <2>8. Worth(S) < Worth(S \ X)
    OBVIOUS
  <2> HIDE DEF T
  <2> QED BY <2>5, <2>6, <2>7, <2>8
<1>4. ASSUME NEW Q \in SUBSET S PROVE 0 <= Worth(Q) /\ Worth(Q) <= Worth(S)
  <2>1. S \ (S \ Q) = Q /\ Worth(Q) \in Nat /\ Worth(S) \in Nat
    BY <1>2
  <2>2. ~ (Worth(S) < Worth(S \ (S \ Q)))
    BY <1>3
  <2> QED BY <2>1, <2>2
<1> QED BY <1>4

(* The cost of disjoint sets of requests adds up.                               *)
LEMMA WorthAdds ==
    ASSUME NEW S \in SUBSET Request, NEW Q \in SUBSET Request, S \cap Q = {}
    PROVE  Worth(S \cup Q) = Worth(S) + Worth(Q)
<1> DEFINE T == {X \in SUBSET Q : Worth(S \cup X) # Worth(S) + Worth(X)}
<1> SUFFICES ASSUME T # {} PROVE FALSE
  OBVIOUS
<1>1. PICK X \in T : \A x \in X : X \ {x} \notin T
  <2>1. T \in SUBSET SUBSET Q /\ IsFiniteSet(Q)
    BY FS_Subset, RequestAssumption
  <2> HIDE DEF T
  <2> QED BY <2>1, SmallestSubset
<1>2. X # {}
  <2>1. S \cup {} = S
    OBVIOUS
  <2> QED BY <2>1, WorthRules
<1>3. PICK r \in X : TRUE
  BY <1>2
<1>4. Worth(S \cup (X \ {r})) = Worth(S) + Worth(X \ {r})
  BY <1>1
<1>5. r \in S \cup X /\ (S \cup X) \ {r} = S \cup (X \ {r}) /\ S \cup X \in SUBSET Request
  OBVIOUS
<1>6. Worth(S \cup X) = Price[r] + Worth(S \cup (X \ {r})) /\ Worth(X) = Price[r] + Worth(X \ {r})
  BY <1>5, WorthRules
<1>7. Worth(S) \in Int /\ Worth(X \ {r}) \in Int /\ Price[r] \in Int
  BY WorthRules, RequestAssumption
<1>8. Worth(S \cup X) # Worth(S) + Worth(X)
  OBVIOUS
<1> HIDE DEF T
<1> QED BY <1>4, <1>6, <1>7, <1>8

-----------------------------------------------------------------------------
(* Of each peer there is one other, and that one's other is the peer.           *)
LEMMA Others ==
    ASSUME NEW n \in Peer
    PROVE  /\ Other(n) \in Peer /\ Other(n) # n /\ Other(Other(n)) = n
           /\ \A m \in Peer : m = n \/ m = Other(n)
<1>1. IsFiniteSet(Peer)
  BY PeerAssumption, FS_CardinalityType
<1>2. Cardinality(Peer \ {n}) = 1
  BY <1>1, PeerAssumption, FS_RemoveElement
<1>3. PICK m : Peer \ {n} = {m}
  BY <1>1, <1>2, FS_Singleton, FS_RemoveElement
<1>4. Peer = {m, n} /\ m # n
  BY <1>3
<1> QED BY <1>4 DEF Other

(* Min and Max of two, and the signed parts.                                    *)
LEMMA MinMax ==
    ASSUME NEW x \in Int, NEW y \in Int
    PROVE  /\ Max({x, y}) = IF x >= y THEN x ELSE y
           /\ Min({x, y}) = IF x <= y THEN x ELSE y
BY DEF Max, Min

LEMMA SignedParts ==
    \A x \in Int : /\ Pos(x) \in Nat /\ Pos(x) = (IF x >= 0 THEN x ELSE 0)
                   /\ Neg(x) \in Int /\ Neg(x) = (IF x <= 0 THEN x ELSE 0)
BY DEF Max, Min, Pos, Neg

LEMMA MinOfThree ==
    ASSUME NEW x \in Int, NEW y \in Int, NEW z \in Int
    PROVE  LET w == Min({x, y, z}) IN
           /\ w \in {x, y, z} /\ w <= x /\ w <= y /\ w <= z
BY DEF Min

(* TypeOK but for the shadow reserve and what is accepted of a refreshment,     *)
(* whose signs hang on what is under way and on the clock.                      *)
Loose ==
    [ balance : Int, surplus : Nat, originated : Int,
      reserved : Nat, shadow : Int, refreshReserved : Nat, ghost : Nat,
      refreshTime : Nat, refreshReceived : Nat, sentTime : Nat, payFailed : Nat,
      refresh : [pc : {"none", "sent", "acked", "refused"}, amount : Nat, accepted : Int, time : Nat],
      incoming : [pending : BOOLEAN, amount : Int, time : Nat],
      cheque : [pc : {"none", "sent", "received"}, amount : Nat], blocks : BOOLEAN ]

Types ==
    /\ acc \in [Peer -> Loose]
    /\ client \in [Request -> {"new", "prepared", "applied", "failed"}]
    /\ server \in [Request -> {"new", "prepared", "delivered", "applied", "failed"}]
    /\ now \in Start .. Start + MaxTime /\ faults \in 0 .. MaxFaults

SameMoney(a, b) == b.balance = a.balance /\ b.surplus = a.surplus /\ b.originated = a.originated

SameTimes(a, b) ==
    /\ b.refreshTime = a.refreshTime /\ b.refreshReceived = a.refreshReceived
    /\ b.sentTime = a.sentTime /\ b.incoming = a.incoming

SameShadow(a, b) ==
    b.shadow = a.shadow /\ b.refreshReserved = a.refreshReserved /\ b.cheque = a.cheque

(* What settle may begin: a refreshment, and a cheque that is reserved for; and *)
(* a refreshment before a cheque, if the second of the last one is over.        *)
Settled(a, b) ==
    /\ SameTimes(a, b) /\ b.ghost = a.ghost /\ b.blocks = a.blocks
    /\ \/ SameShadow(a, b)
       \/ /\ a.cheque.pc = "none" /\ b.cheque.pc = "sent"
          /\ b.shadow = a.shadow + b.cheque.amount
          /\ b.refreshReserved = IF b.refresh.pc = "none" THEN a.refreshReserved
                                 ELSE a.refreshReserved + b.cheque.amount
          /\ now - a.refreshTime >= 1 => b.refresh.pc # "none"
    /\ \/ b.refresh = a.refresh
       \/ /\ a.refresh.pc = "none" /\ b.refresh.pc = "sent"
          /\ now - a.refreshTime >= 1 /\ b.refresh.amount = 0 - b.balance - a.shadow
          /\ b.refresh.accepted = 0

Begun(a, s) ==
    s \in Loose /\ SameMoney(a, s) /\ s.reserved = a.reserved /\ Settled(a, s)

LEMMA SettleBegins ==
    ASSUME now \in Nat, NEW a \in Loose
    PROVE  Begun(a, Settle(a))
<1> DEFINE b == StartRefresh(a)
           due == 0 - b.balance - (now - b.refreshTime) * refreshRate - b.shadow
           amount == Min({0 - b.originated, due})
           pay == b.cheque.pc = "none" /\ now - b.payFailed > failedSettlementInterval
                  /\ amount >= minimumPayment
<1>1. refreshRate \in Nat \ {0} /\ minimumPayment \in Nat \ {0}
  BY RateAssumption
<1>2. CASE ShadowBalance(a) < refreshRate
  BY <1>2 DEF Settle, Begun, Settled, SameMoney, SameTimes, SameShadow, Loose
<1>3. CASE ~ (ShadowBalance(a) < refreshRate)
  <2>1. Settle(a) = StartPay(b)
    BY <1>3 DEF Settle
  <2>2. ShadowBalance(a) = 0 - a.balance - a.shadow /\ ShadowBalance(a) \in Nat
    BY <1>1, <1>3 DEF ShadowBalance, Loose
  <2>3. /\ b \in Loose
        /\ b.balance = a.balance /\ b.surplus = a.surplus /\ b.originated = a.originated
        /\ b.reserved = a.reserved /\ b.ghost = a.ghost /\ b.refreshTime = a.refreshTime
        /\ b.refreshReceived = a.refreshReceived /\ b.sentTime = a.sentTime
        /\ b.incoming = a.incoming /\ b.blocks = a.blocks
        /\ b.cheque = a.cheque /\ b.shadow = a.shadow /\ b.refreshReserved = a.refreshReserved
        /\ \/ b.refresh = a.refresh
           \/ /\ a.refresh.pc = "none" /\ b.refresh.pc = "sent"
              /\ now - a.refreshTime >= 1 /\ b.refresh.amount = 0 - a.balance - a.shadow
              /\ b.refresh.accepted = 0
        /\ now - a.refreshTime >= 1 => b.refresh.pc # "none"
    BY <2>2 DEF StartRefresh, Loose
  <2> HIDE DEF b
  <2>4. CASE ~pay
    <3>1. Settle(a) = b
      BY <2>1, <2>4 DEF StartPay
    <3> QED BY <2>3, <3>1 DEF Begun, Settled, SameMoney, SameTimes, SameShadow
  <2>5. CASE pay
    <3>1. amount \in Nat
      <4>1. due \in Int /\ 0 - b.originated \in Int
        BY <1>1, <2>3 DEF Loose
      <4>2. amount \in Int
        BY <4>1, MinMax
      <4> QED BY <1>1, <2>5, <4>2
    <3> DEFINE s == StartPay(b)
    <3>2. s = [b EXCEPT !.cheque = [pc |-> "sent", amount |-> amount], !.shadow = b.shadow + amount,
                        !.refreshReserved = Potential(b, amount)]
      BY <2>5 DEF StartPay
    <3>3. Potential(b, amount) \in Nat
      BY <2>3, <3>1 DEF Potential, Loose
    <3> HIDE DEF amount
    <3>4. /\ s \in Loose
          /\ s.balance = b.balance /\ s.surplus = b.surplus /\ s.originated = b.originated
          /\ s.reserved = b.reserved /\ s.ghost = b.ghost /\ s.refreshTime = b.refreshTime
          /\ s.refreshReceived = b.refreshReceived /\ s.sentTime = b.sentTime
          /\ s.incoming = b.incoming /\ s.blocks = b.blocks /\ s.refresh = b.refresh
          /\ s.cheque = [pc |-> "sent", amount |-> amount]
          /\ s.shadow = b.shadow + amount /\ s.refreshReserved = Potential(b, amount)
      <4> HIDE DEF s
      <4> DEFINE cheque == [pc |-> "sent", amount |-> amount]
                 shadow == b.shadow + amount
      <4>1. b \in Loose /\ Potential(b, amount) \in Nat
            /\ cheque \in [pc : {"none", "sent", "received"}, amount : Nat]
        BY <2>3, <3>1, <3>3
      <4>2. shadow \in Int
        BY <2>3, <3>1 DEF Loose
      <4>3. s = [b EXCEPT !.cheque = cheque, !.shadow = shadow, !.refreshReserved = Potential(b, amount)]
        BY <3>2
      <4> HIDE DEF cheque, shadow
      <4>4. s \in Loose
        BY <4>1, <4>2, <4>3 DEF Loose
      <4>5. /\ s.balance = b.balance /\ s.surplus = b.surplus /\ s.originated = b.originated
            /\ s.reserved = b.reserved /\ s.ghost = b.ghost /\ s.refreshTime = b.refreshTime
            /\ s.refreshReceived = b.refreshReceived /\ s.sentTime = b.sentTime
            /\ s.incoming = b.incoming /\ s.blocks = b.blocks /\ s.refresh = b.refresh
            /\ s.cheque = cheque /\ s.shadow = shadow /\ s.refreshReserved = Potential(b, amount)
        BY <4>1, <4>3 DEF Loose
      <4> QED BY <4>4, <4>5 DEF cheque, shadow
    <3>5. b.cheque.pc = "none"
      BY <2>5
    <3> HIDE DEF s, pay
    <3>6. Settle(a) = s
      BY <2>1 DEF s
    <3>7. /\ s.cheque.pc = "sent" /\ s.cheque.amount = amount
          /\ s.refreshReserved = IF s.refresh.pc = "none" THEN b.refreshReserved
                                 ELSE b.refreshReserved + s.cheque.amount
      BY <3>4 DEF Potential
    <3> QED BY <2>3, <3>4, <3>5, <3>6, <3>7 DEF Begun, Settled, SameMoney, SameTimes, SameShadow
  <2> QED BY <2>4, <2>5
<1> QED BY <1>2, <1>3

-----------------------------------------------------------------------------
(* What each action does to the records of the peers, field by field.           *)
OnlyAt(n) ==
    /\ acc' \in [Peer -> Loose]
    /\ \A m \in Peer \ {n} : acc'[m] = acc[m]

LEMMA PrepareCreditEffect ==
    ASSUME Types, NEW r \in Request, PrepareCredit(r)
    PROVE  LET a == acc[From[r]]
               b == acc'[From[r]] IN
           /\ OnlyAt(From[r]) /\ SameMoney(a, b) /\ Settled(a, b)
           /\ \/ client' = client /\ b.reserved = a.reserved
              \/ /\ client[r] = "new" /\ client' = [client EXCEPT ![r] = "prepared"]
                 /\ b.reserved = a.reserved + Price[r]
                 /\ b.reserved - b.balance <= paymentThreshold + refreshRate
           /\ UNCHANGED <<server, now, faults>>
<1> DEFINE n == From[r]
           a == acc[n]
           b == acc'[n]
           expected == ExpectedDebt(a, Price[r])
           s == IF expected - a.shadow >= earlyPayment /\ a.balance < 0 THEN Settle(a) ELSE a
           allowed == expected <= OverdraftLimit(s)
<1>1. n \in Peer /\ a \in Loose /\ Price[r] \in Nat /\ now \in Nat
  BY RequestAssumption, RateAssumption DEF Types
<1>2. Begun(a, s)
  <2>1. Begun(a, a)
    BY <1>1 DEF Begun, Settled, SameMoney, SameTimes, SameShadow
  <2>2. Begun(a, Settle(a))
    BY <1>1, SettleBegins
  <2> QED BY <2>1, <2>2
<1>3. /\ acc' = [acc EXCEPT ![n] = IF allowed THEN [s EXCEPT !.reserved = a.reserved + Price[r]] ELSE s]
      /\ client' = IF allowed THEN [client EXCEPT ![r] = "prepared"] ELSE client
      /\ client[r] = "new" /\ UNCHANGED <<server, now, faults>>
  BY DEF PrepareCredit
<1> HIDE DEF allowed, s
<1>4. b = IF allowed THEN [s EXCEPT !.reserved = a.reserved + Price[r]] ELSE s
  BY <1>1, <1>3 DEF Types
<1>5. a.reserved + Price[r] \in Nat /\ s \in Loose
  BY <1>1, <1>2 DEF Begun, Loose
<1>6. CASE allowed
  <2> DEFINE reserved == a.reserved + Price[r]
  <2>1. b = [s EXCEPT !.reserved = reserved] /\ reserved \in Nat
    BY <1>4, <1>5, <1>6
  <2> HIDE DEF reserved
  <2>2. b \in Loose
    BY <1>5, <2>1 DEF Loose
  <2>3. /\ SameMoney(s, b) /\ SameTimes(s, b) /\ SameShadow(s, b) /\ b.reserved = reserved
        /\ b.ghost = s.ghost /\ b.blocks = s.blocks /\ b.refresh = s.refresh
    BY <1>5, <2>1 DEF Loose, SameMoney, SameTimes, SameShadow
  <2> HIDE DEF b, a
  <2>4. SameMoney(a, b) /\ Settled(a, b)
    BY <1>2, <2>3 DEF Begun, Settled, SameMoney, SameTimes, SameShadow
  <2>5. OnlyAt(n)
    BY <1>1, <1>3, <2>2 DEF OnlyAt, Types, b
  <2>6. b.reserved - b.balance <= paymentThreshold + refreshRate
    <3>1. expected <= paymentThreshold + Min({now - s.refreshTime, 1}) * refreshRate
      BY <1>6 DEF allowed, OverdraftLimit
    <3> DEFINE due == Min({now - s.refreshTime, 1})
    <3>2. due \in Int /\ due <= 1
      <4> DEFINE passed == now - s.refreshTime
      <4>1. passed \in Int /\ 1 \in Int
        BY <1>1, <1>5 DEF Loose
      <4> HIDE DEF passed
      <4>2. Min({passed, 1}) = IF passed <= 1 THEN passed ELSE 1
        BY <4>1, MinMax
      <4> QED BY <4>1, <4>2 DEF passed
    <3>3. due * refreshRate <= refreshRate /\ due * refreshRate \in Int
      <4> HIDE DEF due
      <4>1. refreshRate \in Nat /\ due <= 1 /\ due \in Int
        BY <3>2, RateAssumption
      <4> QED BY <4>1
    <3>4. a.balance \in Int /\ a.reserved \in Nat /\ a.surplus \in Nat /\ Price[r] \in Nat
      BY <1>1 DEF Loose, a
    <3>5. Pos(0 - a.balance) \in Int /\ Pos(0 - a.balance) >= 0 - a.balance
      <4>1. 0 - a.balance \in Int
        BY <3>4
      <4> QED BY <4>1, SignedParts
    <3>6. expected = Pos(0 - a.balance) + a.reserved + Price[r] + a.surplus
      BY DEF ExpectedDebt
    <3>7. b.balance = a.balance /\ b.reserved = a.reserved + Price[r]
      BY <2>3, <2>4 DEF SameMoney, reserved
    <3> HIDE DEF due, expected
    <3>8. expected <= paymentThreshold + due * refreshRate
      BY <3>1 DEF due
    <3> QED BY <3>3, <3>4, <3>5, <3>6, <3>7, <3>8, RateAssumption
  <2> QED BY <1>3, <1>6, <2>3, <2>4, <2>5, <2>6 DEF a, b, reserved
<1>7. CASE ~allowed
  <2>1. b = s
    BY <1>4, <1>7
  <2>2. OnlyAt(n)
    BY <1>1, <1>3, <1>5, <2>1 DEF OnlyAt, Types
  <2> QED BY <1>2, <1>3, <1>7, <2>1, <2>2 DEF Begun
<1> QED BY <1>6, <1>7

LEMMA ApplyCreditEffect ==
    ASSUME Types, NEW r \in Request, ApplyCredit(r)
    PROVE  LET a == acc[From[r]]
               b == acc'[From[r]] IN
           /\ OnlyAt(From[r]) /\ Settled(a, b)
           /\ b.balance = a.balance - Price[r] /\ b.surplus = a.surplus
           /\ b.reserved = Pos(a.reserved - Price[r])
           /\ Neg(a.balance) <= a.originated => Neg(b.balance) <= b.originated
           /\ Connected /\ client[r] = "prepared" /\ server[r] \in {"delivered", "applied"}
           /\ client' = [client EXCEPT ![r] = "applied"]
           /\ UNCHANGED <<server, now, faults>>
<1> DEFINE n == From[r]
           a == acc[n]
           b == acc'[n]
           balance == a.balance - Price[r]
           originated == IF r \in Originated
                         THEN Max({a.originated - Price[r], Neg(balance)}) ELSE a.originated
           reserved == Pos(a.reserved - Price[r])
           credited == [Release(a, Price[r]) EXCEPT !.balance = balance, !.originated = originated]
           settles == ExpectedDebt(a, Price[r]) - a.shadow > earlyPayment
<1>1. n \in Peer /\ a \in Loose /\ Price[r] \in Nat /\ now \in Nat
  BY RequestAssumption, RateAssumption DEF Types
<1>2. /\ acc' = [acc EXCEPT ![n] = IF settles THEN Settle(credited) ELSE credited]
      /\ client' = [client EXCEPT ![r] = "applied"] /\ UNCHANGED <<server, now, faults>>
      /\ Connected /\ client[r] = "prepared" /\ server[r] \in {"delivered", "applied"}
  BY DEF ApplyCredit
<1>3. /\ balance \in Int /\ originated \in Int /\ reserved \in Nat
      /\ Neg(a.balance) <= a.originated => Neg(balance) <= originated
  <2>1. a.balance \in Int /\ a.originated \in Int /\ a.reserved \in Nat
    BY <1>1 DEF Loose
  <2>2. balance \in Int /\ a.originated - Price[r] \in Int /\ a.reserved - Price[r] \in Int
    BY <1>1, <2>1
  <2> HIDE DEF balance, a
  <2>3. /\ Neg(balance) = IF balance <= 0 THEN balance ELSE 0
        /\ Neg(a.balance) = IF a.balance <= 0 THEN a.balance ELSE 0
        /\ reserved = IF a.reserved - Price[r] >= 0 THEN a.reserved - Price[r] ELSE 0
    BY <2>1, <2>2, SignedParts
  <2>4. Neg(balance) \in Int
    BY <2>2, <2>3
  <2>5. Max({a.originated - Price[r], Neg(balance)}) =
          IF a.originated - Price[r] >= Neg(balance) THEN a.originated - Price[r] ELSE Neg(balance)
    BY <2>2, <2>4, MinMax
  <2>6. balance <= a.balance
    BY <1>1, <2>1 DEF balance
  <2> QED BY <1>1, <2>1, <2>2, <2>3, <2>4, <2>5, <2>6
<1>4. Release(a, Price[r]) = [a EXCEPT !.reserved = reserved]
  BY DEF Release
<1> HIDE DEF balance, originated, reserved, settles, a
<1>5. /\ credited \in Loose
      /\ credited.balance = balance /\ credited.surplus = a.surplus
      /\ credited.originated = originated /\ credited.reserved = reserved
      /\ SameTimes(a, credited) /\ SameShadow(a, credited) /\ credited.ghost = a.ghost
      /\ credited.blocks = a.blocks /\ credited.refresh = a.refresh
  <2>1. credited = [a EXCEPT !.reserved = reserved, !.balance = balance, !.originated = originated]
    BY <1>1, <1>4 DEF Loose
  <2> HIDE DEF credited
  <2>2. credited \in Loose
    BY <1>1, <1>3, <2>1 DEF Loose
  <2> QED BY <1>1, <2>1, <2>2 DEF Loose, SameTimes, SameShadow
<1> HIDE DEF credited
<1>6. b = IF settles THEN Settle(credited) ELSE credited
  BY <1>1, <1>2 DEF Types
<1>7. Begun(credited, b)
  <2>1. Begun(credited, credited)
    BY <1>5 DEF Begun, Settled, SameMoney, SameTimes, SameShadow
  <2>2. Begun(credited, Settle(credited))
    BY <1>1, <1>5, SettleBegins
  <2> QED BY <1>6, <2>1, <2>2
<1>8. OnlyAt(n)
  BY <1>1, <1>2, <1>7 DEF OnlyAt, Types, Begun
<1> HIDE DEF b
<1>9. Settled(a, b)
  BY <1>5, <1>7 DEF Begun, Settled, SameMoney, SameTimes, SameShadow
<1>10. b.balance = balance /\ b.surplus = a.surplus /\ b.reserved = reserved /\ b.originated = originated
  BY <1>5, <1>7 DEF Begun, SameMoney
<1> QED BY <1>2, <1>3, <1>8, <1>9, <1>10 DEF a, b, balance, reserved

LEMMA CleanupCreditEffect ==
    ASSUME Types, NEW r \in Request, CleanupCredit(r)
    PROVE  LET a == acc[From[r]]
               b == acc'[From[r]] IN
           /\ OnlyAt(From[r]) /\ SameMoney(a, b) /\ Settled(a, b) /\ b.refresh = a.refresh
           /\ SameShadow(a, b)
           /\ b.reserved = Pos(a.reserved - Price[r])
           /\ client[r] = "prepared" /\ client' = [client EXCEPT ![r] = "failed"]
           /\ faults' \in 0 .. MaxFaults /\ UNCHANGED <<server, now>>
<1> DEFINE n == From[r]
           a == acc[n]
           b == acc'[n]
           reserved == Pos(a.reserved - Price[r])
<1>1. n \in Peer /\ a \in Loose /\ Price[r] \in Nat
  BY RequestAssumption DEF Types
<1>2. /\ acc' = [acc EXCEPT ![n] = Release(a, Price[r])] /\ client[r] = "prepared"
      /\ client' = [client EXCEPT ![r] = "failed"] /\ UNCHANGED <<server, now>>
      /\ faults' \in 0 .. MaxFaults
  BY RateAssumption DEF CleanupCredit, Fault, Types
<1>3. reserved \in Nat
  <2>1. a.reserved - Price[r] \in Int
    BY <1>1 DEF Loose
  <2> QED BY <2>1, SignedParts
<1>4. b = [a EXCEPT !.reserved = reserved]
  BY <1>1, <1>2 DEF Release, Types
<1> HIDE DEF reserved
<1>5. b \in Loose
  BY <1>1, <1>3, <1>4 DEF Loose
<1>6. /\ SameMoney(a, b) /\ Settled(a, b) /\ SameShadow(a, b) /\ b.reserved = reserved
      /\ b.refresh = a.refresh
  BY <1>1, <1>4 DEF Loose, Settled, SameMoney, SameTimes, SameShadow
<1>7. OnlyAt(n)
  BY <1>1, <1>2, <1>5 DEF OnlyAt, Types
<1> QED BY <1>2, <1>6, <1>7 DEF reserved

LEMMA PrepareDebitEffect ==
    ASSUME Types, NEW r \in Request, PrepareDebit(r)
    PROVE  LET a == acc[To(r)]
               b == acc'[To(r)] IN
           /\ To(r) \in Peer /\ OnlyAt(To(r)) /\ SameMoney(a, b) /\ SameTimes(a, b)
           /\ b.reserved = a.reserved /\ b.refresh = a.refresh /\ b.cheque = a.cheque
           /\ b.ghost = a.ghost /\ b.blocks = a.blocks
           /\ b.shadow = a.shadow + Price[r]
           /\ a.refresh.pc # "none" => b.refreshReserved = a.refreshReserved + Price[r]
           /\ client[r] # "new" /\ server[r] = "new" /\ server' = [server EXCEPT ![r] = "prepared"]
           /\ UNCHANGED <<client, now, faults>>
<1> DEFINE n == To(r)
           a == acc[n]
           b == acc'[n]
           shadow == a.shadow + Price[r]
           refreshReserved == Potential(a, Price[r])
<1>1. n \in Peer /\ a \in Loose /\ Price[r] \in Nat
  BY RequestAssumption, Others DEF Types, To
<1>2. /\ acc' = [acc EXCEPT ![n] = [a EXCEPT !.shadow = shadow, !.refreshReserved = refreshReserved]]
      /\ client[r] # "new" /\ server[r] = "new" /\ server' = [server EXCEPT ![r] = "prepared"]
      /\ UNCHANGED <<client, now, faults>>
  BY DEF PrepareDebit
<1>3. /\ shadow \in Int /\ refreshReserved \in Nat
      /\ a.refresh.pc # "none" => refreshReserved = a.refreshReserved + Price[r]
  BY <1>1 DEF Loose, Potential
<1> HIDE DEF shadow, refreshReserved
<1>4. b = [a EXCEPT !.shadow = shadow, !.refreshReserved = refreshReserved]
  BY <1>1, <1>2 DEF Types
<1>5. b \in Loose
  BY <1>1, <1>3, <1>4 DEF Loose
<1>6. /\ SameMoney(a, b) /\ SameTimes(a, b) /\ b.reserved = a.reserved /\ b.refresh = a.refresh
      /\ b.cheque = a.cheque /\ b.ghost = a.ghost /\ b.blocks = a.blocks
      /\ b.shadow = shadow /\ b.refreshReserved = refreshReserved
  BY <1>1, <1>4 DEF Loose, SameMoney, SameTimes
<1>7. OnlyAt(n)
  BY <1>1, <1>2, <1>5 DEF OnlyAt, Types
<1> QED BY <1>1, <1>2, <1>3, <1>6, <1>7 DEF shadow

LEMMA DeliverEffect ==
    ASSUME Types, NEW r \in Request, Deliver(r)
    PROVE  /\ server[r] = "prepared" /\ server' = [server EXCEPT ![r] = "delivered"]
           /\ UNCHANGED <<acc, client, now, faults>>
BY DEF Deliver

(* A debit is paid out of the surplus, or raises the balance.                   *)
LEMMA IncreaseEffect ==
    ASSUME NEW a \in Loose, NEW price \in Nat
    PROVE  LET b == IncreaseBalance(a, price) IN
           /\ b \in Loose /\ SameTimes(a, b) /\ SameShadow(a, b)
           /\ b.reserved = a.reserved /\ b.refresh = a.refresh
           /\ b.ghost = a.ghost /\ b.blocks = a.blocks
           /\ b.balance - b.surplus = a.balance - a.surplus + price
           /\ b.balance <= a.balance + price /\ (b.balance = a.balance \/ b.surplus = 0)
           /\ Neg(a.balance) <= a.originated => Neg(b.balance) <= b.originated
<1> DEFINE b == IncreaseBalance(a, price)
<1>1. CASE a.surplus >= price
  <2> DEFINE surplus == a.surplus - price
  <2>1. b = [a EXCEPT !.surplus = surplus] /\ surplus \in Nat
    BY <1>1 DEF IncreaseBalance, Loose
  <2> HIDE DEF b, surplus
  <2>2. b \in Loose
    BY <2>1 DEF Loose
  <2>3. /\ SameTimes(a, b) /\ SameShadow(a, b) /\ b.reserved = a.reserved
        /\ b.refresh = a.refresh /\ b.ghost = a.ghost /\ b.blocks = a.blocks
        /\ b.balance = a.balance /\ b.originated = a.originated /\ b.surplus = surplus
    BY <2>1 DEF Loose, SameTimes, SameShadow
  <2>4. a.balance \in Int /\ a.surplus \in Nat
    BY DEF Loose
  <2>5. /\ b.balance - b.surplus = a.balance - a.surplus + price
        /\ b.balance <= a.balance + price /\ b.balance = a.balance
    BY <2>3, <2>4 DEF surplus
  <2> QED BY <2>2, <2>3, <2>5 DEF b
<1>2. CASE ~ (a.surplus >= price)
  <2> DEFINE balance == a.balance + price - a.surplus
             c == [a EXCEPT !.surplus = 0, !.balance = balance]
             originated == Max({a.originated, Neg(balance)})
  <2>1. a.balance \in Int /\ a.surplus \in Nat /\ a.originated \in Int /\ balance \in Int
    BY DEF Loose
  <2>2. b = LimitOriginated(c)
    BY <1>2 DEF IncreaseBalance
  <2>3. Neg(balance) \in Int
    <3> HIDE DEF balance
    <3> QED BY <2>1, SignedParts
  <2>4. originated \in Int /\ originated >= Neg(balance)
    <3> HIDE DEF balance
    <3> QED BY <2>1, <2>3, MinMax
  <2>5. balance - 0 = a.balance - a.surplus + price /\ balance <= a.balance + price
    BY <2>1
  <2> HIDE DEF balance
  <2>6. c.originated = a.originated /\ c.balance = balance
    BY DEF Loose
  <2>7. b = [c EXCEPT !.originated = originated]
    BY <2>2, <2>6 DEF LimitOriginated
  <2>8. b = [a EXCEPT !.surplus = 0, !.balance = balance, !.originated = originated]
    <3> HIDE DEF originated
    <3> QED BY <2>7 DEF Loose
  <2> HIDE DEF b, originated
  <2>9. b \in Loose
    BY <2>1, <2>4, <2>8 DEF Loose
  <2>10. /\ SameTimes(a, b) /\ SameShadow(a, b) /\ b.reserved = a.reserved
         /\ b.refresh = a.refresh /\ b.ghost = a.ghost /\ b.blocks = a.blocks
         /\ b.balance = balance /\ b.originated = originated /\ b.surplus = 0
    BY <2>8 DEF Loose, SameTimes, SameShadow
  <2>11. /\ b.balance - b.surplus = a.balance - a.surplus + price
         /\ b.balance <= a.balance + price /\ b.surplus = 0
    BY <2>5, <2>10
  <2> QED BY <2>4, <2>9, <2>10, <2>11 DEF b
<1> QED BY <1>1, <1>2

LEMMA ApplyDebitEffect ==
    ASSUME Types, NEW r \in Request, ApplyDebit(r)
    PROVE  LET a == acc[To(r)]
               b == acc'[To(r)] IN
           /\ To(r) \in Peer /\ OnlyAt(To(r)) /\ SameTimes(a, b)
           /\ b.reserved = a.reserved /\ b.refresh = a.refresh /\ b.cheque = a.cheque
           /\ b.ghost = a.ghost /\ b.refreshReserved = a.refreshReserved
           /\ b.shadow = a.shadow - Price[r]
           /\ b.balance - b.surplus = a.balance - a.surplus + Price[r]
           /\ b.balance <= a.balance + Price[r] /\ (b.balance = a.balance \/ b.surplus = 0)
           /\ Neg(a.balance) <= a.originated => Neg(b.balance) <= b.originated
           /\ b.blocks => b.balance >= disconnectLimit + Min({now - a.refreshReceived, 1}) * refreshRate
           /\ Connected
           /\ server[r] = "delivered" /\ server' = [server EXCEPT ![r] = "applied"]
           /\ UNCHANGED <<client, now, faults>>
<1> DEFINE n == To(r)
           a == acc[n]
           c == IncreaseBalance(a, Price[r])
           b == acc'[n]
           limit == disconnectLimit + Min({now - c.refreshReceived, 1}) * refreshRate
           shadow == c.shadow - Price[r]
           blocks == c.balance >= limit
<1>1. n \in Peer /\ a \in Loose /\ Price[r] \in Nat
  BY RequestAssumption, Others DEF Types, To
<1>2. /\ acc' = [acc EXCEPT ![n] = [c EXCEPT !.shadow = shadow, !.blocks = blocks]]
      /\ Connected /\ server[r] = "delivered" /\ server' = [server EXCEPT ![r] = "applied"]
      /\ UNCHANGED <<client, now, faults>>
  BY DEF ApplyDebit
<1>3. /\ c \in Loose /\ SameTimes(a, c) /\ SameShadow(a, c)
      /\ c.reserved = a.reserved /\ c.refresh = a.refresh /\ c.ghost = a.ghost
      /\ c.balance - c.surplus = a.balance - a.surplus + Price[r]
      /\ c.balance <= a.balance + Price[r] /\ (c.balance = a.balance \/ c.surplus = 0)
      /\ Neg(a.balance) <= a.originated => Neg(c.balance) <= c.originated
  BY <1>1, IncreaseEffect
<1> HIDE DEF c
<1>4. shadow \in Int /\ shadow = a.shadow - Price[r] /\ blocks \in BOOLEAN
  BY <1>1, <1>3 DEF Loose, SameShadow
<1>5. limit = disconnectLimit + Min({now - a.refreshReceived, 1}) * refreshRate
  BY <1>3 DEF SameTimes
<1> HIDE DEF shadow, limit
<1>6. blocks => c.balance >= limit
  OBVIOUS
<1> HIDE DEF blocks
<1>7. b = [c EXCEPT !.shadow = shadow, !.blocks = blocks]
  BY <1>1, <1>2 DEF Types
<1>8. b \in Loose
  BY <1>3, <1>4, <1>7 DEF Loose
<1>9. /\ SameMoney(c, b) /\ SameTimes(c, b) /\ b.reserved = c.reserved /\ b.refresh = c.refresh
      /\ b.cheque = c.cheque /\ b.ghost = c.ghost /\ b.refreshReserved = c.refreshReserved
      /\ b.shadow = shadow /\ b.blocks = blocks
  BY <1>3, <1>7 DEF Loose, SameMoney, SameTimes
<1>10. OnlyAt(n)
  BY <1>1, <1>2, <1>8 DEF OnlyAt, Types
<1> HIDE DEF a, b
<1>11. SameTimes(a, b) /\ b.cheque = a.cheque /\ b.refreshReserved = a.refreshReserved
  BY <1>3, <1>9 DEF SameTimes, SameShadow
<1> QED BY <1>1, <1>2, <1>3, <1>4, <1>5, <1>6, <1>9, <1>10, <1>11 DEF a, b, SameMoney

LEMMA CleanupDebitEffect ==
    ASSUME Types, NEW r \in Request, CleanupDebit(r)
    PROVE  LET a == acc[To(r)]
               b == acc'[To(r)] IN
           /\ To(r) \in Peer /\ OnlyAt(To(r)) /\ SameMoney(a, b) /\ SameTimes(a, b)
           /\ b.reserved = a.reserved /\ b.refresh = a.refresh /\ b.cheque = a.cheque
           /\ b.refreshReserved = a.refreshReserved
           /\ b.shadow = a.shadow - Price[r]
           /\ b.blocks => b.ghost > disconnectLimit
           /\ server[r] = "prepared" /\ server' = [server EXCEPT ![r] = "failed"]
           /\ faults' \in 0 .. MaxFaults /\ UNCHANGED <<client, now>>
<1> DEFINE n == To(r)
           a == acc[n]
           b == acc'[n]
           shadow == a.shadow - Price[r]
           ghost == a.ghost + Price[r]
           blocks == a.ghost + Price[r] > disconnectLimit
<1>1. n \in Peer /\ a \in Loose /\ Price[r] \in Nat
  BY RequestAssumption, Others DEF Types, To
<1>2. /\ acc' = [acc EXCEPT ![n] = [a EXCEPT !.shadow = shadow, !.ghost = ghost, !.blocks = blocks]]
      /\ server[r] = "prepared" /\ server' = [server EXCEPT ![r] = "failed"]
      /\ UNCHANGED <<client, now>> /\ faults' \in 0 .. MaxFaults
  BY RateAssumption DEF CleanupDebit, Fault, Types
<1>3. shadow \in Int /\ ghost \in Nat /\ blocks \in BOOLEAN /\ (blocks => ghost > disconnectLimit)
  BY <1>1 DEF Loose
<1> HIDE DEF shadow, ghost, blocks
<1>4. b = [a EXCEPT !.shadow = shadow, !.ghost = ghost, !.blocks = blocks]
  BY <1>1, <1>2 DEF Types
<1>5. b \in Loose
  BY ZenonT(40), <1>1, <1>3, <1>4 DEF Loose
<1>6. /\ SameMoney(a, b) /\ SameTimes(a, b) /\ b.reserved = a.reserved /\ b.refresh = a.refresh
      /\ b.cheque = a.cheque /\ b.refreshReserved = a.refreshReserved
      /\ b.ghost = ghost /\ b.shadow = shadow /\ b.blocks = blocks
  BY <1>1, <1>4 DEF Loose, SameMoney, SameTimes
<1>7. OnlyAt(n)
  BY <1>1, <1>2, <1>5 DEF OnlyAt, Types
<1> QED BY <1>1, <1>2, <1>3, <1>6, <1>7 DEF shadow

-----------------------------------------------------------------------------
SameBooks(a, b) ==
    /\ SameMoney(a, b) /\ SameShadow(a, b)
    /\ b.reserved = a.reserved /\ b.ghost = a.ghost /\ b.blocks = a.blocks

LEMMA RefreshAcceptEffect ==
    ASSUME Types, NEW n \in Peer, RefreshAccept(n)
    PROVE  LET m == Other(n)
               a == acc[n]
               b == acc'[n]
               c == acc[m]
               d == acc'[m] IN
           /\ acc' \in [Peer -> Loose] /\ SameBooks(a, b) /\ SameBooks(c, d)
           /\ SameTimes(a, b) /\ d.refresh = c.refresh /\ d.refreshReceived = c.refreshReceived
           /\ d.refreshTime = c.refreshTime /\ d.sentTime = c.sentTime
           /\ Connected /\ a.refresh.pc = "sent" /\ ~c.incoming.pending
           /\ \/ now = c.refreshReceived
              \/ /\ b.refresh = [pc |-> "acked", amount |-> a.refresh.amount,
                                 accepted |-> Accepted(c, a.refresh.amount), time |-> now]
                 /\ d.incoming = [pending |-> TRUE, amount |-> Accepted(c, a.refresh.amount),
                                  time |-> now]
           /\ UNCHANGED <<client, server, now, faults>>
<1> DEFINE m == Other(n)
           a == acc[n]
           b == acc'[n]
           c == acc[m]
           d == acc'[m]
           amount == Accepted(c, a.refresh.amount)
           refused == [pc |-> "refused", amount |-> a.refresh.amount, accepted |-> 0, time |-> 0]
           acked == [pc |-> "acked", amount |-> a.refresh.amount, accepted |-> amount, time |-> now]
           incoming == [pending |-> TRUE, amount |-> amount, time |-> now]
<1>1. n \in Peer /\ m \in Peer /\ m # n /\ a \in Loose /\ c \in Loose /\ now \in Nat
      /\ \A k \in Peer : k = n \/ k = m
  BY RateAssumption, Others DEF Types
<1>2. amount \in Int
  <2> DEFINE time == (now - c.refreshReceived) * refreshRate
             owed == c.balance + c.shadow
  <2>1. a.refresh.amount \in Int /\ time \in Int /\ owed \in Int
    BY <1>1, RateAssumption DEF Loose
  <2>2. amount = Min({a.refresh.amount, time, Pos(owed)})
    BY DEF Accepted
  <2> DEFINE debt == Pos(owed)
             attempt == a.refresh.amount
  <2> HIDE DEF time, owed
  <2>3. debt \in Int
    BY <2>1, SignedParts
  <2>4. attempt \in Int /\ time \in Int /\ amount = Min({attempt, time, debt})
    BY <2>1, <2>2
  <2> HIDE DEF debt, attempt, amount
  <2>5. Min({attempt, time, debt}) \in {attempt, time, debt}
    BY <2>3, <2>4, MinOfThree
  <2> QED BY <2>3, <2>4, <2>5
<1> HIDE DEF amount
<1>3. /\ refused \in [pc : {"none", "sent", "acked", "refused"}, amount : Nat, accepted : Int, time : Nat]
      /\ acked \in [pc : {"none", "sent", "acked", "refused"}, amount : Nat, accepted : Int, time : Nat]
      /\ incoming \in [pending : BOOLEAN, amount : Int, time : Nat]
  BY <1>1, <1>2 DEF Loose
<1>4. /\ acc' = IF now = c.refreshReceived
                THEN [acc EXCEPT ![n] = [a EXCEPT !.refresh = refused]]
                ELSE [acc EXCEPT ![n] = [a EXCEPT !.refresh = acked],
                                 ![m] = [c EXCEPT !.incoming = incoming]]
      /\ Connected /\ a.refresh.pc = "sent" /\ ~c.incoming.pending
      /\ UNCHANGED <<client, server, now, faults>>
  BY DEF RefreshAccept, amount
<1> HIDE DEF refused, acked, incoming
<1>5. CASE now = c.refreshReceived
  <2>1. b = [a EXCEPT !.refresh = refused] /\ d = c
    BY <1>1, <1>4, <1>5 DEF Types
  <2>2. b \in Loose
    BY <1>1, <1>3, <2>1 DEF Loose
  <2>3. SameBooks(a, b) /\ SameTimes(a, b)
    BY <1>1, <2>1 DEF Loose, SameBooks, SameMoney, SameShadow, SameTimes
  <2>4. acc' \in [Peer -> Loose]
    BY <1>1, <1>4, <1>5, <2>2, <2>1 DEF Types
  <2>5. SameBooks(c, d) /\ d.refresh = c.refresh /\ d.refreshReceived = c.refreshReceived
        /\ d.refreshTime = c.refreshTime /\ d.sentTime = c.sentTime
    BY <2>1 DEF SameBooks, SameMoney, SameShadow
  <2> QED BY <1>4, <1>5, <2>3, <2>4, <2>5
<1>6. CASE now # c.refreshReceived
  <2>1. b = [a EXCEPT !.refresh = acked] /\ d = [c EXCEPT !.incoming = incoming]
    BY <1>1, <1>4, <1>6 DEF Types
  <2>2. b \in Loose /\ d \in Loose
    BY <1>1, <1>3, <2>1 DEF Loose
  <2>3. SameBooks(a, b) /\ SameTimes(a, b) /\ b.refresh = acked
    BY <1>1, <2>1 DEF Loose, SameBooks, SameMoney, SameShadow, SameTimes
  <2>4. SameBooks(c, d) /\ d.refresh = c.refresh /\ d.refreshReceived = c.refreshReceived
        /\ d.refreshTime = c.refreshTime /\ d.sentTime = c.sentTime /\ d.incoming = incoming
    BY <1>1, <2>1 DEF Loose, SameBooks, SameMoney, SameShadow
  <2>5. acc' \in [Peer -> Loose]
    BY <1>1, <1>4, <1>6, <2>2 DEF Types
  <2> QED BY <1>4, <2>3, <2>4, <2>5 DEF acked, incoming, amount
<1> QED BY <1>5, <1>6

LEMMA RefreshReceivedEffect ==
    ASSUME Types, NEW n \in Peer, RefreshReceived(n)
    PROVE  LET a == acc[n]
               b == acc'[n] IN
           /\ OnlyAt(n) /\ SameShadow(a, b) /\ b.reserved = a.reserved /\ b.ghost = a.ghost
           /\ b.blocks = a.blocks /\ b.refresh = a.refresh
           /\ b.refreshTime = a.refreshTime /\ b.sentTime = a.sentTime
           /\ b.balance = a.balance - a.incoming.amount
           /\ b.surplus = a.surplus /\ b.originated = a.originated
           /\ b.incoming = NewPeer.incoming /\ b.refreshReceived = a.incoming.time
           /\ Connected /\ a.incoming.pending
           /\ UNCHANGED <<client, server, now, faults>>
<1> DEFINE a == acc[n]
           b == acc'[n]
           balance == a.balance - a.incoming.amount
           incoming == NewPeer.incoming
           time == a.incoming.time
<1>1. a \in Loose
  BY DEF Types
<1>2. /\ acc' = [acc EXCEPT ![n] = [a EXCEPT !.balance = balance, !.incoming = incoming,
                                            !.refreshReceived = time]]
      /\ Connected /\ a.incoming.pending /\ UNCHANGED <<client, server, now, faults>>
  BY DEF RefreshReceived
<1>3. balance \in Int /\ time \in Nat /\ incoming \in [pending : BOOLEAN, amount : Int, time : Nat]
  BY <1>1 DEF Loose, NewPeer
<1> HIDE DEF balance, incoming, time
<1>4. b = [a EXCEPT !.balance = balance, !.incoming = incoming, !.refreshReceived = time]
  BY <1>2 DEF Types
<1>5. b \in Loose
  BY ZenonT(40), <1>1, <1>3, <1>4 DEF Loose
<1>6. /\ SameShadow(a, b) /\ b.reserved = a.reserved /\ b.ghost = a.ghost
      /\ b.blocks = a.blocks /\ b.refresh = a.refresh
      /\ b.refreshTime = a.refreshTime /\ b.sentTime = a.sentTime
      /\ b.balance = balance /\ b.surplus = a.surplus /\ b.originated = a.originated
      /\ b.incoming = incoming /\ b.refreshReceived = time
  BY <1>1, <1>4 DEF Loose, SameShadow
<1>7. OnlyAt(n)
  BY <1>2, <1>5 DEF OnlyAt, Types
<1> QED BY <1>2, <1>6, <1>7 DEF balance, incoming, time

LEMMA RefreshFailsEffect ==
    ASSUME Types, NEW n \in Peer, RefreshFails(n)
    PROVE  LET a == acc[n]
               b == acc'[n] IN
           /\ OnlyAt(n) /\ SameMoney(a, b) /\ SameShadow(a, b)
           /\ b.reserved = a.reserved /\ b.ghost = a.ghost
           /\ b.refreshReceived = a.refreshReceived
           /\ b.sentTime = a.sentTime /\ b.incoming = a.incoming
           /\ b.refresh = NewPeer.refresh /\ a.refresh.pc # "none"
           /\ b.blocks \/ (a.refresh.pc = "sent" /\ SameBooks(a, b))
           /\ Connected /\ faults' # faults
           /\ faults' \in 0 .. MaxFaults /\ UNCHANGED <<client, server, now>>
<1> DEFINE a == acc[n]
           b == acc'[n]
           refresh == NewPeer.refresh
           time == 0
<1>1. a \in Loose
  BY DEF Types
<1>2. PICK found \in BOOLEAN :
         /\ acc' = [acc EXCEPT ![n] = [a EXCEPT !.refresh = refresh, !.refreshTime = time,
                                                !.blocks = found]]
         /\ found \/ a.refresh.pc = "sent"
  BY DEF RefreshFails
<1>3. /\ refresh \in [pc : {"none", "sent", "acked", "refused"}, amount : Nat, accepted : Int, time : Nat]
      /\ time \in Nat
  BY DEF NewPeer
<1>4. /\ a.refresh.pc # "none" /\ UNCHANGED <<client, server, now>> /\ Connected
      /\ faults' \in 0 .. MaxFaults /\ faults' # faults
  BY RateAssumption DEF RefreshFails, Fault, Types
<1> HIDE DEF refresh, time
<1>5. b = [a EXCEPT !.refresh = refresh, !.refreshTime = time, !.blocks = found]
  BY <1>2 DEF Types
<1>6. b \in Loose
  BY ZenonT(40), <1>1, <1>3, <1>5 DEF Loose
<1>7. /\ SameMoney(a, b) /\ SameShadow(a, b) /\ b.reserved = a.reserved /\ b.ghost = a.ghost
      /\ b.refreshReceived = a.refreshReceived
      /\ b.sentTime = a.sentTime /\ b.incoming = a.incoming /\ b.refresh = refresh
  BY <1>1, <1>5 DEF Loose, SameMoney, SameShadow
<1>8. b.blocks = found
  BY <1>1, <1>5 DEF Loose
<1>9. b.blocks \/ (a.refresh.pc = "sent" /\ SameBooks(a, b))
  <2>1. a.blocks = FALSE
    BY <1>1, <1>4 DEF Connected, Loose
  <2>2. CASE found = TRUE
    BY <1>8, <2>2
  <2>3. CASE found = FALSE
    BY <1>2, <1>7, <1>8, <2>1, <2>3 DEF SameBooks
  <2> QED BY <2>2, <2>3
<1>10. OnlyAt(n)
  BY <1>2, <1>6 DEF OnlyAt, Types
<1> QED BY <1>4, <1>7, <1>9, <1>10 DEF refresh

LEMMA RefreshSentEffect ==
    ASSUME Types, NEW n \in Peer, RefreshSent(n)
    PROVE  LET a == acc[n]
               b == acc'[n] IN
           /\ OnlyAt(n) /\ b.surplus = a.surplus /\ b.reserved = a.reserved
           /\ b.shadow = a.shadow /\ b.cheque = a.cheque /\ b.ghost = a.ghost
           /\ b.refreshReceived = a.refreshReceived /\ b.incoming = a.incoming
           /\ b.refresh = NewPeer.refresh
           /\ \/ a.refresh.pc = "refused"
              \/ Short(a) /\ b.blocks /\ b.refreshTime = now
              \/ /\ a.refresh.pc = "acked" /\ b.blocks = a.blocks
                 /\ b.balance = a.balance + a.refresh.accepted /\ Neg(b.balance) <= b.originated
                 /\ b.refreshTime = now /\ b.sentTime = a.refresh.time
           /\ a.refresh.pc # "refused" \/ b.blocks
           /\ Connected /\ UNCHANGED <<client, server, now, faults>>
           /\ Short(a) \/ a.refresh.pc = "refused" => b.balance = a.balance /\ b.originated = a.originated
<1> DEFINE a == acc[n]
           b == acc'[n]
           refresh == NewPeer.refresh
           zero == 0
           yes == TRUE
           time == a.refresh.time
           balance == a.balance + a.refresh.accepted
           originated == Max({a.originated, Neg(balance)})
           ended == [a EXCEPT !.refresh = refresh, !.refreshTime = now]
           sent == [ended EXCEPT !.refreshReserved = 0, !.sentTime = time, !.balance = balance]
<1>1. a \in Loose /\ now \in Nat
  BY RateAssumption DEF Types
<1>2. /\ acc' = [acc EXCEPT ![n] =
             IF a.refresh.pc = "refused"
             THEN [ended EXCEPT !.refreshTime = 0, !.blocks = TRUE]
             ELSE IF Expected(a) > a.refresh.accepted
             THEN [ended EXCEPT !.refreshReserved = 0, !.sentTime = time, !.blocks = TRUE]
             ELSE LimitOriginated(sent)]
      /\ Connected /\ a.refresh.pc \in {"acked", "refused"} /\ UNCHANGED <<client, server, now, faults>>
  BY DEF RefreshSent
<1>3. /\ refresh \in [pc : {"none", "sent", "acked", "refused"}, amount : Nat, accepted : Int, time : Nat]
      /\ zero \in Nat /\ yes \in BOOLEAN /\ time \in Nat /\ balance \in Int
      /\ originated \in Int /\ Neg(balance) <= originated
  <2>1. balance \in Int /\ a.originated \in Int /\ time \in Nat
    BY <1>1 DEF Loose
  <2> HIDE DEF balance
  <2>2. Neg(balance) \in Int
    BY <2>1, SignedParts
  <2>3. originated \in Int /\ Neg(balance) <= originated
    BY <2>1, <2>2, MinMax
  <2> QED BY <2>1, <2>3 DEF NewPeer
<1>4. b = IF a.refresh.pc = "refused"
          THEN [a EXCEPT !.refresh = refresh, !.refreshTime = zero, !.blocks = yes]
          ELSE IF Expected(a) > a.refresh.accepted
          THEN [a EXCEPT !.refresh = refresh, !.refreshTime = now, !.refreshReserved = zero,
                         !.sentTime = time, !.blocks = yes]
          ELSE [a EXCEPT !.refresh = refresh, !.refreshTime = now, !.refreshReserved = zero,
                         !.sentTime = time, !.balance = balance, !.originated = originated]
  <2>1. LimitOriginated(sent) = [a EXCEPT !.refresh = refresh, !.refreshTime = now, !.refreshReserved = zero,
                                          !.sentTime = time, !.balance = balance, !.originated = originated]
    <3> HIDE DEF balance, time, refresh
    <3>1. sent = [a EXCEPT !.refresh = refresh, !.refreshTime = now, !.refreshReserved = 0,
                           !.sentTime = time, !.balance = balance]
      BY <1>1 DEF Loose
    <3>2. sent.originated = a.originated /\ sent.balance = balance
      BY <1>1 DEF Loose
    <3> HIDE DEF sent
    <3>3. LimitOriginated(sent) = [sent EXCEPT !.originated = originated]
      BY <3>2 DEF LimitOriginated
    <3> HIDE DEF originated
    <3> QED BY <1>1, <3>1, <3>3 DEF Loose
  <2>2. [ended EXCEPT !.refreshTime = 0, !.blocks = TRUE]
            = [a EXCEPT !.refresh = refresh, !.refreshTime = zero, !.blocks = yes]
    <3> HIDE DEF refresh
    <3> QED BY <1>1 DEF Loose
  <2>3. [ended EXCEPT !.refreshReserved = 0, !.sentTime = time, !.blocks = TRUE]
            = [a EXCEPT !.refresh = refresh, !.refreshTime = now, !.refreshReserved = zero,
                        !.sentTime = time, !.blocks = yes]
    <3> HIDE DEF refresh, time
    <3> QED BY <1>1 DEF Loose
  <2> HIDE DEF ended, sent, originated, zero, yes, balance, refresh, time
  <2> QED BY <1>2, <2>1, <2>2, <2>3 DEF Types
<1>5. yes /\ \A x \in Int : zero + x = x
  OBVIOUS
<1> HIDE DEF refresh, zero, yes, time, balance, originated, ended, sent
<1>6. /\ b \in Loose /\ b.surplus = a.surplus /\ b.reserved = a.reserved
      /\ b.shadow = a.shadow /\ b.cheque = a.cheque /\ b.ghost = a.ghost
      /\ b.refreshReceived = a.refreshReceived /\ b.incoming = a.incoming
      /\ b.refresh = refresh
  <2>1. CASE a.refresh.pc = "refused"
    <3>1. b = [a EXCEPT !.refresh = refresh, !.refreshTime = zero, !.blocks = yes]
      BY <1>4, <2>1
    <3> HIDE DEF b
    <3>2. b \in Loose
      BY <1>1, <1>3, <3>1 DEF Loose
    <3> QED BY <1>1, <3>1, <3>2 DEF Loose
  <2>2. CASE a.refresh.pc # "refused" /\ Expected(a) > a.refresh.accepted
    <3>1. b = [a EXCEPT !.refresh = refresh, !.refreshTime = now, !.refreshReserved = zero,
                       !.sentTime = time, !.blocks = yes]
      BY <1>4, <2>2
    <3> HIDE DEF b
    <3>2. b \in Loose
      BY <1>1, <1>3, <3>1 DEF Loose
    <3> QED BY <1>1, <3>1, <3>2 DEF Loose
  <2>3. CASE a.refresh.pc # "refused" /\ ~ (Expected(a) > a.refresh.accepted)
    <3>1. b = [a EXCEPT !.refresh = refresh, !.refreshTime = now, !.refreshReserved = zero,
                       !.sentTime = time, !.balance = balance, !.originated = originated]
      BY <1>4, <2>3
    <3> HIDE DEF b
    <3>2. b \in Loose
      BY <1>1, <1>3, <3>1 DEF Loose
    <3> QED BY <1>1, <3>1, <3>2 DEF Loose
  <2> QED BY <2>1, <2>2, <2>3
<1>7. OnlyAt(n)
  BY <1>2, <1>6 DEF OnlyAt, Types
<1>8. CASE a.refresh.pc = "refused"
  <2>1. b.blocks = yes /\ b.balance = a.balance /\ b.originated = a.originated
    BY <1>1, <1>4, <1>8 DEF Loose
  <2> QED BY <1>2, <1>5, <1>6, <1>7, <1>8, <2>1 DEF refresh
<1>9. CASE a.refresh.pc # "refused" /\ Expected(a) > a.refresh.accepted
  <2>1. /\ b.blocks = yes /\ b.balance = a.balance /\ b.originated = a.originated
        /\ b.refreshTime = now
    BY <1>1, <1>4, <1>9 DEF Loose
  <2>2. Short(a)
    BY <1>2, <1>9 DEF Short
  <2> QED BY <1>2, <1>5, <1>6, <1>7, <1>9, <2>1, <2>2 DEF refresh
<1>10. CASE a.refresh.pc # "refused" /\ ~ (Expected(a) > a.refresh.accepted)
  <2>1. /\ b.balance = balance /\ b.originated = originated /\ b.blocks = a.blocks
        /\ b.refreshTime = now /\ b.sentTime = time
    BY <1>1, <1>4, <1>10 DEF Loose
  <2>2. ~Short(a)
    BY <1>10 DEF Short
  <2> QED BY <1>2, <1>3, <1>6, <1>7, <1>10, <2>1, <2>2 DEF refresh, balance, time
<1> QED BY <1>8, <1>9, <1>10

LEMMA PaymentReceivedEffect ==
    ASSUME Types, NEW m \in Peer, PaymentReceived(m)
    PROVE  LET a == acc[Other(m)]
               b == acc[m]
               amount == a.cheque.amount IN
           /\ acc' \in [Peer -> Loose]
           /\ SameMoney(a, acc'[Other(m)]) /\ SameTimes(a, acc'[Other(m)]) /\ SameTimes(b, acc'[m])
           /\ acc'[Other(m)].shadow = a.shadow /\ acc'[Other(m)].refreshReserved = a.refreshReserved
           /\ acc'[Other(m)].cheque = [pc |-> "received", amount |-> amount]
           /\ SameShadow(b, acc'[m])
           /\ acc'[Other(m)].refresh = a.refresh /\ acc'[m].refresh = b.refresh
           /\ acc'[Other(m)].reserved = a.reserved /\ acc'[m].reserved = b.reserved
           /\ acc'[Other(m)].blocks = a.blocks /\ acc'[m].blocks = b.blocks
           /\ acc'[m].balance - acc'[m].surplus = b.balance - b.surplus - amount
           /\ acc'[m].balance <= b.balance
           /\ Neg(b.balance) <= b.originated => Neg(acc'[m].balance) <= acc'[m].originated
           /\ Connected /\ a.cheque.pc = "sent" /\ UNCHANGED <<client, server, now, faults>>
<1> DEFINE k == Other(m)
           a == acc[k]
           b == acc[m]
           amount == a.cheque.amount
           balance == Min({b.balance, Pos(b.balance - amount)})
           surplus == b.surplus + Pos(amount - Pos(b.balance))
           cheque == [pc |-> "received", amount |-> amount]
<1>1. m \in Peer /\ k \in Peer /\ m # k /\ a \in Loose /\ b \in Loose
      /\ \A j \in Peer : j = m \/ j = k
  BY Others DEF Types
<1>2. /\ acc' = [acc EXCEPT ![k] = [a EXCEPT !.cheque = cheque],
                           ![m] = [b EXCEPT !.balance = balance, !.surplus = surplus]]
      /\ Connected /\ a.cheque.pc = "sent" /\ UNCHANGED <<client, server, now, faults>>
  BY DEF PaymentReceived
<1>3. /\ balance \in Int /\ surplus \in Nat
      /\ cheque \in [pc : {"none", "sent", "received"}, amount : Nat]
      /\ balance - surplus = b.balance - b.surplus - amount /\ balance <= b.balance
      /\ Neg(b.balance) <= b.originated => Neg(balance) <= b.originated
  <2> DEFINE x == b.balance
             y == b.surplus
             o == b.originated
  <2>1. x \in Int /\ y \in Nat /\ o \in Int /\ amount \in Nat
    BY <1>1 DEF Loose
  <2> HIDE DEF x, y, amount
  <2>2. /\ x - amount \in Int
        /\ Pos(x) \in Nat /\ Pos(x) = (IF x >= 0 THEN x ELSE 0)
        /\ Neg(x) = (IF x <= 0 THEN x ELSE 0)
    BY <2>1, SignedParts
  <2>3. /\ Pos(x - amount) \in Nat /\ Pos(x - amount) = (IF x - amount >= 0 THEN x - amount ELSE 0)
    BY <2>2, SignedParts
  <2>4. amount - Pos(x) \in Int
    BY <2>1, <2>2
  <2>5. /\ Pos(amount - Pos(x)) \in Nat
        /\ Pos(amount - Pos(x)) = (IF amount - Pos(x) >= 0 THEN amount - Pos(x) ELSE 0)
    BY <2>4, SignedParts
  <2>6. Min({x, Pos(x - amount)}) = IF x <= Pos(x - amount) THEN x ELSE Pos(x - amount)
    <3> DEFINE rest == Pos(x - amount)
    <3>1. rest \in Int
      BY <2>3
    <3> HIDE DEF rest
    <3>2. Min({x, rest}) = IF x <= rest THEN x ELSE rest
      BY <2>1, <3>1, MinMax
    <3> QED BY <3>2 DEF rest
  <2>7. balance = (IF x <= Pos(x - amount) THEN x ELSE Pos(x - amount)) /\ balance \in Int
    BY <2>1, <2>3, <2>6 DEF x
  <2>8. Neg(balance) = (IF balance <= 0 THEN balance ELSE 0)
    BY <2>7, SignedParts
  <2>9. surplus = y + Pos(amount - Pos(x))
    BY DEF x, y
  <2>10. cheque \in [pc : {"none", "sent", "received"}, amount : Nat]
    BY <2>1
  <2> HIDE DEF balance, surplus, cheque, o
  <2>11. surplus \in Nat /\ balance - surplus = x - y - amount /\ balance <= x
    <3> DEFINE p == Pos(x)
               u == Pos(x - amount)
               v == Pos(amount - Pos(x))
    <3>1. /\ p \in Nat /\ p = (IF x >= 0 THEN x ELSE 0)
          /\ u \in Nat /\ u = (IF x - amount >= 0 THEN x - amount ELSE 0)
          /\ v \in Nat /\ v = (IF amount - p >= 0 THEN amount - p ELSE 0)
      BY <2>2, <2>3, <2>5
    <3>2. balance = (IF x <= u THEN x ELSE u) /\ surplus = y + v
      BY <2>7, <2>9
    <3> HIDE DEF p, u, v
    <3>3. CASE x <= 0
      BY <2>1, <3>1, <3>2, <3>3
    <3>4. CASE x > 0 /\ x <= amount
      BY <2>1, <3>1, <3>2, <3>4
    <3>5. CASE x > 0 /\ x > amount
      BY <2>1, <3>1, <3>2, <3>5
    <3> QED BY <2>1, <3>3, <3>4, <3>5
  <2>12. Neg(x) <= o => Neg(balance) <= o
    <3>1. Neg(balance) <= Neg(x)
      BY <2>1, <2>2, <2>7, <2>8, <2>11
    <3>2. Neg(balance) \in Int /\ Neg(x) \in Int
      BY <2>1, <2>2, <2>7, <2>8
    <3> QED BY <2>1, <3>1, <3>2
  <2> QED BY <2>7, <2>10, <2>11, <2>12 DEF x, y, o
<1> HIDE DEF balance, surplus, cheque, amount
<1>4. acc'[k] = [a EXCEPT !.cheque = cheque] /\ acc'[m] = [b EXCEPT !.balance = balance, !.surplus = surplus]
  BY <1>1, <1>2 DEF Types
<1>5. acc'[k] \in Loose /\ acc'[m] \in Loose
  BY ZenonT(40), <1>1, <1>3, <1>4 DEF Loose
<1>6. /\ SameMoney(a, acc'[k]) /\ SameTimes(a, acc'[k]) /\ acc'[k].refresh = a.refresh
      /\ acc'[k].shadow = a.shadow /\ acc'[k].refreshReserved = a.refreshReserved
      /\ acc'[k].reserved = a.reserved /\ acc'[k].blocks = a.blocks /\ acc'[k].cheque = cheque
  BY <1>1, <1>4 DEF Loose, SameMoney, SameTimes
<1>7. /\ SameTimes(b, acc'[m]) /\ SameShadow(b, acc'[m]) /\ acc'[m].refresh = b.refresh
      /\ acc'[m].reserved = b.reserved /\ acc'[m].blocks = b.blocks
      /\ acc'[m].balance = balance /\ acc'[m].surplus = surplus /\ acc'[m].originated = b.originated
  BY <1>1, <1>4 DEF Loose, SameShadow, SameTimes
<1>8. acc' \in [Peer -> Loose]
  BY <1>1, <1>2, <1>5 DEF Types
<1> HIDE DEF a, b, k
<1>9. acc'[m].balance - acc'[m].surplus = b.balance - b.surplus - amount /\ acc'[m].balance <= b.balance
  BY <1>3, <1>7
<1>10. Neg(b.balance) <= b.originated => Neg(acc'[m].balance) <= acc'[m].originated
  BY <1>3, <1>7
<1> QED BY <1>2, <1>6, <1>7, <1>8, <1>9, <1>10 DEF a, b, k, cheque, amount

LEMMA PaymentSentEffect ==
    ASSUME Types, NEW n \in Peer, PaymentSent(n)
    PROVE  LET a == acc[n]
               b == acc'[n]
               amount == a.cheque.amount IN
           /\ OnlyAt(n) /\ SameTimes(a, b) /\ b.refresh = a.refresh
           /\ b.refreshReserved = a.refreshReserved /\ b.surplus = a.surplus
           /\ b.reserved = a.reserved /\ b.ghost = a.ghost /\ b.blocks = a.blocks
           /\ b.shadow = a.shadow - amount /\ b.balance = a.balance + amount
           /\ b.originated = a.originated + amount /\ b.cheque = NewPeer.cheque
           /\ Connected /\ a.cheque.pc = "received" /\ UNCHANGED <<client, server, now, faults>>
<1> DEFINE a == acc[n]
           b == acc'[n]
           amount == a.cheque.amount
           shadow == a.shadow - amount
           balance == a.balance + amount
           originated == a.originated + amount
           cheque == NewPeer.cheque
<1>1. a \in Loose
  BY DEF Types
<1>2. /\ acc' = [acc EXCEPT ![n] = [a EXCEPT !.shadow = shadow, !.balance = balance,
                                            !.originated = originated, !.cheque = cheque]]
      /\ Connected /\ a.cheque.pc = "received" /\ UNCHANGED <<client, server, now, faults>>
  BY DEF PaymentSent
<1>3. /\ shadow \in Int /\ balance \in Int /\ originated \in Int
      /\ cheque \in [pc : {"none", "sent", "received"}, amount : Nat]
  BY <1>1 DEF Loose, NewPeer
<1> HIDE DEF shadow, balance, originated, cheque
<1>4. b = [a EXCEPT !.shadow = shadow, !.balance = balance, !.originated = originated, !.cheque = cheque]
  BY <1>2 DEF Types
<1>5. b \in Loose
  BY ZenonT(40), <1>1, <1>3, <1>4 DEF Loose
<1>6. /\ SameTimes(a, b) /\ b.refresh = a.refresh
      /\ b.refreshReserved = a.refreshReserved /\ b.surplus = a.surplus
      /\ b.reserved = a.reserved /\ b.ghost = a.ghost /\ b.blocks = a.blocks
      /\ b.shadow = shadow /\ b.balance = balance /\ b.originated = originated /\ b.cheque = cheque
  BY <1>1, <1>4 DEF Loose, SameTimes
<1>7. OnlyAt(n)
  BY <1>2, <1>5 DEF OnlyAt, Types
<1> QED BY <1>2, <1>6, <1>7 DEF shadow, balance, originated, cheque

LEMMA PaymentFailsEffect ==
    ASSUME Types, NEW n \in Peer, PaymentFails(n)
    PROVE  LET a == acc[n]
               b == acc'[n]
               amount == a.cheque.amount IN
           /\ OnlyAt(n) /\ SameMoney(a, b) /\ SameTimes(a, b) /\ b.refresh = a.refresh
           /\ b.refreshReserved = a.refreshReserved
           /\ b.reserved = a.reserved /\ b.ghost = a.ghost /\ b.blocks = a.blocks
           /\ b.shadow = a.shadow - amount /\ b.cheque = NewPeer.cheque
           /\ a.cheque.pc = "sent" /\ faults' \in 0 .. MaxFaults /\ UNCHANGED <<client, server, now>>
<1> DEFINE a == acc[n]
           b == acc'[n]
           shadow == a.shadow - a.cheque.amount
           failed == now
           cheque == NewPeer.cheque
<1>1. a \in Loose /\ now \in Nat
  BY RateAssumption DEF Types
<1>2. /\ acc' = [acc EXCEPT ![n] = [a EXCEPT !.shadow = shadow, !.payFailed = failed, !.cheque = cheque]]
      /\ a.cheque.pc = "sent" /\ UNCHANGED <<client, server, now>> /\ faults' \in 0 .. MaxFaults
  BY RateAssumption DEF PaymentFails, Fault, Types
<1>3. /\ shadow \in Int /\ failed \in Nat
      /\ cheque \in [pc : {"none", "sent", "received"}, amount : Nat]
  BY <1>1 DEF Loose, NewPeer
<1> HIDE DEF shadow, failed, cheque
<1>4. b = [a EXCEPT !.shadow = shadow, !.payFailed = failed, !.cheque = cheque]
  BY <1>2 DEF Types
<1>5. b \in Loose
  BY ZenonT(40), <1>1, <1>3, <1>4 DEF Loose
<1>6. /\ SameMoney(a, b) /\ SameTimes(a, b) /\ b.refresh = a.refresh
      /\ b.refreshReserved = a.refreshReserved
      /\ b.reserved = a.reserved /\ b.ghost = a.ghost /\ b.blocks = a.blocks
      /\ b.shadow = shadow /\ b.cheque = cheque
  BY <1>1, <1>4 DEF Loose, SameMoney, SameTimes
<1>7. OnlyAt(n)
  BY <1>2, <1>5 DEF OnlyAt, Types
<1> QED BY <1>2, <1>6, <1>7 DEF shadow, cheque

LEMMA TickEffect ==
    ASSUME Types, Tick
    PROVE  now' = now + 1 /\ now' \in Start .. Start + MaxTime /\ UNCHANGED <<acc, client, server, faults>>
BY RateAssumption DEF Tick, Types

-----------------------------------------------------------------------------
(* The requests a peer has prepared, and those it is answering.                 *)
Asked(n) == {r \in Request : From[r] = n /\ client[r] = "prepared"}
Serving(n) == {r \in Request : To(r) = n /\ server[r] \in {"prepared", "delivered"}}
Debited == {r \in Request : server[r] = "applied"}
Credited == {r \in Request : client[r] = "applied"}

Paying(a) == IF a.cheque.pc = "none" THEN 0 ELSE a.cheque.amount

(* When the other peer last accepted a refreshment of this one.                 *)
Last(n) == IF acc[Other(n)].incoming.pending
           THEN acc[Other(n)].incoming.time ELSE acc[Other(n)].refreshReceived

(* A request is debited only when it was made, and credited when delivered.     *)
Order ==
    \A r \in Request : /\ client[r] = "new" => server[r] = "new"
                       /\ client[r] = "applied" => server[r] \in {"delivered", "applied"}

(* What is reserved, and the shadow reserve, are what is under way.             *)
Reserves == \A n \in Peer : acc[n].reserved = Worth(Asked(n))
Shadows == \A n \in Peer : acc[n].shadow = Worth(Serving(n)) + Paying(acc[n])

Balanced ==
    Connected => \A n \in Peer : Book(n) + Book(Other(n)) = Worth(Debited) - Worth(Credited)

(* A refreshment under way attempts no more than the debt, but for what has been*)
(* reserved since it was begun.                                                 *)
Attempts ==
    \A n \in Peer : acc[n].refresh.pc = "sent" =>
        acc[n].refresh.amount - acc[n].refreshReserved <= 0 - acc[n].balance - acc[n].shadow

OwnDebt == \A n \in Peer : Neg(acc[n].balance) <= acc[n].originated

(* What both peers know of a refreshment: its time and the amount accepted.     *)
Answers ==
    \A n \in Peer :
       LET a == acc[n]
           in == acc[Other(n)].incoming IN
       /\ a.incoming.amount >= 0 /\ a.refresh.accepted >= 0
       /\ a.refresh.pc = "acked" /\ in.pending => in.amount = a.refresh.accepted

(* A refreshment is sent only when the second of the last one is over, so that  *)
(* it is not refused; the peers agree on that second.                           *)
Clock(n) ==
    LET a == acc[n] IN
    /\ Last(n) <= now /\ a.refreshReceived <= now
    /\ a.refresh.pc = "none" => a.sentTime = Last(n) /\ (Last(n) <= a.refreshTime \/ Last(n) < now)
    /\ a.refresh.pc = "sent" => a.sentTime = Last(n) /\ Last(n) < now
    /\ a.refresh.pc = "acked" => a.refresh.time = Last(n)
    /\ a.refresh.pc # "refused"

Clocks == Connected => \A n \in Peer : Clock(n)

Inv == /\ Types /\ Order /\ Reserves /\ Shadows /\ Balanced
       /\ Attempts /\ OwnDebt /\ Answers /\ Clocks

LEMMA TypesStep ==
    ASSUME Types, [Next]_vars
    PROVE  Types'
<1>1. ASSUME NEW r \in Request, PrepareCredit(r) PROVE Types'
  BY <1>1, PrepareCreditEffect DEF Types, OnlyAt
<1>2. ASSUME NEW r \in Request, ApplyCredit(r) PROVE Types'
  BY <1>2, ApplyCreditEffect DEF Types, OnlyAt
<1>3. ASSUME NEW r \in Request, CleanupCredit(r) PROVE Types'
  BY <1>3, CleanupCreditEffect DEF Types, OnlyAt
<1>4. ASSUME NEW r \in Request, PrepareDebit(r) PROVE Types'
  BY <1>4, PrepareDebitEffect DEF Types, OnlyAt
<1>5. ASSUME NEW r \in Request, Deliver(r) PROVE Types'
  BY <1>5, DeliverEffect DEF Types
<1>6. ASSUME NEW r \in Request, ApplyDebit(r) PROVE Types'
  BY <1>6, ApplyDebitEffect DEF Types, OnlyAt
<1>7. ASSUME NEW r \in Request, CleanupDebit(r) PROVE Types'
  BY <1>7, CleanupDebitEffect DEF Types, OnlyAt
<1>8. ASSUME NEW n \in Peer, RefreshAccept(n) PROVE Types'
  BY <1>8, RefreshAcceptEffect DEF Types
<1>9. ASSUME NEW n \in Peer, RefreshReceived(n) PROVE Types'
  BY <1>9, RefreshReceivedEffect DEF Types, OnlyAt
<1>10. ASSUME NEW n \in Peer, RefreshSent(n) PROVE Types'
  BY <1>10, RefreshSentEffect DEF Types, OnlyAt
<1>11. ASSUME NEW n \in Peer, RefreshFails(n) PROVE Types'
  BY <1>11, RefreshFailsEffect DEF Types, OnlyAt
<1>12. ASSUME NEW n \in Peer, PaymentReceived(n) PROVE Types'
  BY <1>12, PaymentReceivedEffect DEF Types
<1>13. ASSUME NEW n \in Peer, PaymentSent(n) PROVE Types'
  BY <1>13, PaymentSentEffect DEF Types, OnlyAt
<1>14. ASSUME NEW n \in Peer, PaymentFails(n) PROVE Types'
  BY <1>14, PaymentFailsEffect DEF Types, OnlyAt
<1>15. ASSUME Tick PROVE Types'
  BY <1>15, TickEffect DEF Types
<1>16. ASSUME UNCHANGED vars PROVE Types'
  BY <1>16 DEF vars, Types
<1> QED BY <1>1, <1>2, <1>3, <1>4, <1>5, <1>6, <1>7, <1>8, <1>9, <1>10,
          <1>11, <1>12, <1>13, <1>14, <1>15, <1>16 DEF Next

LEMMA OrderStep ==
    ASSUME Types, Order, [Next]_vars
    PROVE  Order'
<1>1. ASSUME NEW r \in Request, PrepareCredit(r) PROVE Order'
  BY <1>1 DEF PrepareCredit, Order, Types
<1>2. ASSUME NEW r \in Request, ApplyCredit(r) PROVE Order'
  BY <1>2 DEF ApplyCredit, Order, Types
<1>3. ASSUME NEW r \in Request, CleanupCredit(r) PROVE Order'
  BY <1>3 DEF CleanupCredit, Order, Types
<1>4. ASSUME NEW r \in Request, PrepareDebit(r) PROVE Order'
  BY <1>4 DEF PrepareDebit, Order, Types
<1>5. ASSUME NEW r \in Request, Deliver(r) PROVE Order'
  BY <1>5 DEF Deliver, Order, Types
<1>6. ASSUME NEW r \in Request, ApplyDebit(r) PROVE Order'
  BY <1>6 DEF ApplyDebit, Order, Types
<1>7. ASSUME NEW r \in Request, CleanupDebit(r) PROVE Order'
  BY <1>7 DEF CleanupDebit, Order, Types
<1>8. ASSUME NEW n \in Peer, RefreshAccept(n) PROVE Order'
  BY <1>8 DEF RefreshAccept, Order
<1>9. ASSUME NEW n \in Peer, RefreshReceived(n) PROVE Order'
  BY <1>9 DEF RefreshReceived, Order
<1>10. ASSUME NEW n \in Peer, RefreshSent(n) PROVE Order'
  BY <1>10 DEF RefreshSent, Order
<1>11. ASSUME NEW n \in Peer, RefreshFails(n) PROVE Order'
  BY <1>11 DEF RefreshFails, Order
<1>12. ASSUME NEW n \in Peer, PaymentReceived(n) PROVE Order'
  BY <1>12 DEF PaymentReceived, Order
<1>13. ASSUME NEW n \in Peer, PaymentSent(n) PROVE Order'
  BY <1>13 DEF PaymentSent, Order
<1>14. ASSUME NEW n \in Peer, PaymentFails(n) PROVE Order'
  BY <1>14 DEF PaymentFails, Order
<1>15. ASSUME Tick PROVE Order'
  BY <1>15 DEF Tick, Order
<1>16. ASSUME UNCHANGED vars PROVE Order'
  BY <1>16 DEF vars, Order
<1> QED BY <1>1, <1>2, <1>3, <1>4, <1>5, <1>6, <1>7, <1>8, <1>9, <1>10,
          <1>11, <1>12, <1>13, <1>14, <1>15, <1>16 DEF Next

-----------------------------------------------------------------------------
(* What a step does to the reserve and to the requests it is held for.          *)
ReserveChange ==
    \/ client' = client /\ \A n \in Peer : acc'[n].reserved = acc[n].reserved
    \/ \E r \in Request :
          /\ client[r] = "new" /\ client' = [client EXCEPT ![r] = "prepared"]
          /\ \A n \in Peer : acc'[n].reserved =
                IF n = From[r] THEN acc[n].reserved + Price[r] ELSE acc[n].reserved
    \/ \E r \in Request :
          /\ client[r] = "prepared"
          /\ \E pc \in {"applied", "failed"} : client' = [client EXCEPT ![r] = pc]
          /\ \A n \in Peer : acc'[n].reserved =
                IF n = From[r] THEN Pos(acc[n].reserved - Price[r]) ELSE acc[n].reserved

LEMMA ReserveChanges ==
    ASSUME Types, [Next]_vars
    PROVE  ReserveChange
<1>1. ASSUME NEW r \in Request, PrepareCredit(r) PROVE ReserveChange
  BY <1>1, PrepareCreditEffect DEF ReserveChange, OnlyAt
<1>2. ASSUME NEW r \in Request, ApplyCredit(r) PROVE ReserveChange
  BY <1>2, ApplyCreditEffect DEF ReserveChange, OnlyAt
<1>3. ASSUME NEW r \in Request, CleanupCredit(r) PROVE ReserveChange
  BY <1>3, CleanupCreditEffect DEF ReserveChange, OnlyAt
<1>4. ASSUME NEW r \in Request, PrepareDebit(r) PROVE ReserveChange
  BY <1>4, PrepareDebitEffect DEF ReserveChange, OnlyAt
<1>5. ASSUME NEW r \in Request, Deliver(r) PROVE ReserveChange
  BY <1>5, DeliverEffect DEF ReserveChange
<1>6. ASSUME NEW r \in Request, ApplyDebit(r) PROVE ReserveChange
  BY <1>6, ApplyDebitEffect DEF ReserveChange, OnlyAt
<1>7. ASSUME NEW r \in Request, CleanupDebit(r) PROVE ReserveChange
  BY <1>7, CleanupDebitEffect DEF ReserveChange, OnlyAt
<1>8. ASSUME NEW n \in Peer, RefreshAccept(n) PROVE ReserveChange
  BY ZenonT(40), <1>8, RefreshAcceptEffect, Others DEF ReserveChange, SameBooks
<1>9. ASSUME NEW n \in Peer, RefreshReceived(n) PROVE ReserveChange
  BY <1>9, RefreshReceivedEffect DEF ReserveChange, OnlyAt
<1>10. ASSUME NEW n \in Peer, RefreshSent(n) PROVE ReserveChange
  BY <1>10, RefreshSentEffect DEF ReserveChange, OnlyAt
<1>11. ASSUME NEW n \in Peer, RefreshFails(n) PROVE ReserveChange
  BY <1>11, RefreshFailsEffect DEF ReserveChange, OnlyAt, SameBooks
<1>12. ASSUME NEW n \in Peer, PaymentReceived(n) PROVE ReserveChange
  <2>1. /\ acc'[n].reserved = acc[n].reserved /\ acc'[Other(n)].reserved = acc[Other(n)].reserved
        /\ client' = client
    BY <1>12, PaymentReceivedEffect
  <2>2. \A m \in Peer : m = n \/ m = Other(n)
    BY Others
  <2> QED BY <2>1, <2>2 DEF ReserveChange
<1>13. ASSUME NEW n \in Peer, PaymentSent(n) PROVE ReserveChange
  BY <1>13, PaymentSentEffect DEF ReserveChange, OnlyAt
<1>14. ASSUME NEW n \in Peer, PaymentFails(n) PROVE ReserveChange
  BY <1>14, PaymentFailsEffect DEF ReserveChange, OnlyAt
<1>15. ASSUME Tick PROVE ReserveChange
  BY <1>15, TickEffect DEF ReserveChange
<1>16. ASSUME UNCHANGED vars PROVE ReserveChange
  BY <1>16 DEF vars, ReserveChange
<1> QED BY <1>1, <1>2, <1>3, <1>4, <1>5, <1>6, <1>7, <1>8, <1>9, <1>10,
          <1>11, <1>12, <1>13, <1>14, <1>15, <1>16 DEF Next

LEMMA ReservesStep ==
    ASSUME Types, Types', Reserves, ReserveChange
    PROVE  Reserves'
<1> SUFFICES ASSUME NEW n \in Peer PROVE acc'[n].reserved = Worth(Asked(n)')
  BY DEF Reserves, Worth, Asked
<1>1. acc[n].reserved = Worth(Asked(n)) /\ Asked(n) \in SUBSET Request
  BY DEF Reserves, Asked
<1>2. CASE client' = client /\ acc'[n].reserved = acc[n].reserved
  <2>1. Asked(n)' = Asked(n)
    BY <1>2 DEF Asked
  <2> QED BY <1>1, <1>2, <2>1
<1>3. ASSUME NEW r \in Request, client[r] = "new", client' = [client EXCEPT ![r] = "prepared"],
             acc'[n].reserved = IF n = From[r] THEN acc[n].reserved + Price[r] ELSE acc[n].reserved
      PROVE  acc'[n].reserved = Worth(Asked(n)')
  <2>1. CASE n = From[r]
    <3>1. r \in Asked(n)' /\ Asked(n)' \ {r} = Asked(n) /\ Asked(n)' \in SUBSET Request
      BY <1>3, <2>1 DEF Asked, Types
    <3>2. Worth(Asked(n)') = Price[r] + Worth(Asked(n))
      BY <3>1, WorthRules
    <3>3. Worth(Asked(n)) \in Int /\ Price[r] \in Int
      BY <1>1, WorthRules, RequestAssumption
    <3> QED BY <1>1, <1>3, <2>1, <3>2, <3>3
  <2>2. CASE n # From[r]
    <3>1. Asked(n)' = Asked(n)
      BY <1>3, <2>2 DEF Asked, Types
    <3> QED BY <1>1, <1>3, <2>2, <3>1
  <2> QED BY <2>1, <2>2
<1>4. ASSUME NEW r \in Request, client[r] = "prepared",
             \E pc \in {"applied", "failed"} : client' = [client EXCEPT ![r] = pc],
             acc'[n].reserved = IF n = From[r] THEN Pos(acc[n].reserved - Price[r]) ELSE acc[n].reserved
      PROVE  acc'[n].reserved = Worth(Asked(n)')
  <2>1. CASE n = From[r]
    <3>1. r \in Asked(n) /\ Asked(n)' = Asked(n) \ {r}
      BY <1>4, <2>1 DEF Asked, Types
    <3>2. Worth(Asked(n)) = Price[r] + Worth(Asked(n) \ {r})
      BY <1>1, <3>1, WorthRules
    <3>3. Worth(Asked(n) \ {r}) \in Int /\ 0 <= Worth(Asked(n) \ {r}) /\ Price[r] \in Int
      BY <1>1, WorthGrows, WorthRules, RequestAssumption
    <3>4. acc[n].reserved - Price[r] = Worth(Asked(n) \ {r})
      BY <1>1, <3>2, <3>3
    <3>5. Pos(Worth(Asked(n) \ {r})) = Worth(Asked(n) \ {r})
      BY <3>3, SignedParts
    <3> QED BY <1>4, <2>1, <3>1, <3>4, <3>5
  <2>2. CASE n # From[r]
    <3>1. Asked(n)' = Asked(n)
      BY <1>4, <2>2 DEF Asked, Types
    <3> QED BY <1>1, <1>4, <2>2, <3>1
  <2> QED BY <2>1, <2>2
<1> QED BY <1>2, <1>3, <1>4 DEF ReserveChange

(* What a step does to the shadow reserve, less what is being paid.             *)
Lent(a) == a.shadow - Paying(a)

ShadowChange ==
    \/ server' = server /\ \A n \in Peer : Lent(acc'[n]) = Lent(acc[n])
    \/ \E r \in Request :
          /\ server[r] = "prepared" /\ server' = [server EXCEPT ![r] = "delivered"]
          /\ \A n \in Peer : Lent(acc'[n]) = Lent(acc[n])
    \/ \E r \in Request :
          /\ server[r] = "new" /\ server' = [server EXCEPT ![r] = "prepared"]
          /\ \A n \in Peer : Lent(acc'[n]) =
                IF n = To(r) THEN Lent(acc[n]) + Price[r] ELSE Lent(acc[n])
    \/ \E r \in Request :
          /\ server[r] \in {"prepared", "delivered"}
          /\ \E pc \in {"applied", "failed"} : server' = [server EXCEPT ![r] = pc]
          /\ \A n \in Peer : Lent(acc'[n]) =
                IF n = To(r) THEN Lent(acc[n]) - Price[r] ELSE Lent(acc[n])

LEMMA ShadowChanges ==
    ASSUME Types, Types', [Next]_vars
    PROVE  ShadowChange
<1>0. /\ \A n \in Peer : acc[n].shadow \in Int /\ acc'[n].shadow \in Int
      /\ \A n \in Peer : acc[n].cheque.amount \in Int /\ acc'[n].cheque.amount \in Int
      /\ \A r \in Request : Price[r] \in Int
  BY RequestAssumption DEF Types, Loose
<1>1. ASSUME NEW r \in Request, PrepareCredit(r) PROVE ShadowChange
  BY <1>0, <1>1, PrepareCreditEffect DEF ShadowChange, OnlyAt, Settled, SameShadow, Lent, Paying
<1>2. ASSUME NEW r \in Request, ApplyCredit(r) PROVE ShadowChange
  BY <1>0, <1>2, ApplyCreditEffect DEF ShadowChange, OnlyAt, Settled, SameShadow, Lent, Paying
<1>3. ASSUME NEW r \in Request, CleanupCredit(r) PROVE ShadowChange
  BY <1>0, <1>3, CleanupCreditEffect DEF ShadowChange, OnlyAt, Settled, SameShadow, Lent, Paying
<1>4. ASSUME NEW r \in Request, PrepareDebit(r) PROVE ShadowChange
  BY <1>0, <1>4, PrepareDebitEffect DEF ShadowChange, OnlyAt, SameShadow, Lent, Paying
<1>5. ASSUME NEW r \in Request, Deliver(r) PROVE ShadowChange
  BY <1>5, DeliverEffect DEF ShadowChange, Lent, Paying
<1>6. ASSUME NEW r \in Request, ApplyDebit(r) PROVE ShadowChange
  <2>1. /\ To(r) \in Peer /\ OnlyAt(To(r)) /\ acc'[To(r)].cheque = acc[To(r)].cheque
        /\ acc'[To(r)].shadow = acc[To(r)].shadow - Price[r]
        /\ server[r] = "delivered" /\ server' = [server EXCEPT ![r] = "applied"]
    BY <1>6, ApplyDebitEffect
  <2>2. Lent(acc'[To(r)]) = Lent(acc[To(r)]) - Price[r]
    BY <1>0, <2>1 DEF Lent, Paying
  <2> QED BY <2>1, <2>2 DEF ShadowChange, OnlyAt
<1>7. ASSUME NEW r \in Request, CleanupDebit(r) PROVE ShadowChange
  BY <1>0, <1>7, CleanupDebitEffect DEF ShadowChange, OnlyAt, SameShadow, Lent, Paying
<1>8. ASSUME NEW n \in Peer, RefreshAccept(n) PROVE ShadowChange
  <2>1. /\ Lent(acc'[n]) = Lent(acc[n]) /\ Lent(acc'[Other(n)]) = Lent(acc[Other(n)])
        /\ server' = server
    BY <1>8, RefreshAcceptEffect DEF SameBooks, SameShadow, Lent, Paying
  <2>2. \A m \in Peer : m = n \/ m = Other(n)
    BY Others
  <2> QED BY <2>1, <2>2 DEF ShadowChange
<1>9. ASSUME NEW n \in Peer, RefreshReceived(n) PROVE ShadowChange
  BY <1>0, <1>9, RefreshReceivedEffect DEF ShadowChange, OnlyAt, SameShadow, Lent, Paying
<1>10. ASSUME NEW n \in Peer, RefreshSent(n) PROVE ShadowChange
  BY <1>0, <1>10, RefreshSentEffect DEF ShadowChange, OnlyAt, SameShadow, Lent, Paying
<1>11. ASSUME NEW n \in Peer, RefreshFails(n) PROVE ShadowChange
  BY <1>0, <1>11, RefreshFailsEffect DEF ShadowChange, OnlyAt, SameBooks, SameShadow, Lent, Paying
<1>12. ASSUME NEW n \in Peer, PaymentReceived(n) PROVE ShadowChange
  <2>1. /\ Lent(acc'[n]) = Lent(acc[n]) /\ Lent(acc'[Other(n)]) = Lent(acc[Other(n)])
        /\ server' = server
    <3>1. /\ acc'[Other(n)].cheque = [pc |-> "received", amount |-> acc[Other(n)].cheque.amount]
          /\ acc[Other(n)].cheque.pc = "sent" /\ acc'[Other(n)].shadow = acc[Other(n)].shadow
          /\ SameShadow(acc[n], acc'[n]) /\ server' = server
      BY <1>12, PaymentReceivedEffect
    <3> QED BY <3>1 DEF SameShadow, Lent, Paying
  <2>2. \A m \in Peer : m = n \/ m = Other(n)
    BY Others
  <2> QED BY <2>1, <2>2 DEF ShadowChange
<1>13. ASSUME NEW n \in Peer, PaymentSent(n) PROVE ShadowChange
  BY <1>0, <1>13, PaymentSentEffect DEF ShadowChange, OnlyAt, NewPeer, SameShadow, Lent, Paying
<1>14. ASSUME NEW n \in Peer, PaymentFails(n) PROVE ShadowChange
  BY <1>0, <1>14, PaymentFailsEffect DEF ShadowChange, OnlyAt, NewPeer, SameShadow, Lent, Paying
<1>15. ASSUME Tick PROVE ShadowChange
  BY <1>15, TickEffect DEF ShadowChange, Lent, Paying
<1>16. ASSUME UNCHANGED vars PROVE ShadowChange
  BY <1>16 DEF vars, ShadowChange
<1> QED BY <1>1, <1>2, <1>3, <1>4, <1>5, <1>6, <1>7, <1>8, <1>9, <1>10,
          <1>11, <1>12, <1>13, <1>14, <1>15, <1>16 DEF Next

LEMMA ShadowsStep ==
    ASSUME Types, Types', Shadows, ShadowChange
    PROVE  Shadows'
<1>1. \A n \in Peer : acc[n].shadow \in Int /\ Paying(acc[n]) \in Int
                      /\ acc'[n].shadow \in Int /\ Paying(acc'[n]) \in Int
  BY DEF Types, Loose, Paying
<1>2. \A n \in Peer : Serving(n) \in SUBSET Request /\ Serving(n)' \in SUBSET Request
                      /\ Worth(Serving(n)) \in Int /\ Worth(Serving(n)') \in Int
  <2>1. \A n \in Peer : Serving(n) \in SUBSET Request /\ Serving(n)' \in SUBSET Request
    BY DEF Serving
  <2> QED BY <2>1, WorthRules
<1> SUFFICES ASSUME NEW n \in Peer PROVE Lent(acc'[n]) = Worth(Serving(n)')
  BY <1>1, <1>2 DEF Shadows, Lent, Worth, Serving, Paying
<1>3. Lent(acc[n]) = Worth(Serving(n)) /\ Lent(acc[n]) \in Int
  BY <1>1, <1>2 DEF Shadows, Lent
<1>4. CASE server' = server /\ Lent(acc'[n]) = Lent(acc[n])
  <2>1. Serving(n)' = Serving(n)
    BY <1>4 DEF Serving
  <2> QED BY <1>3, <1>4, <2>1
<1>5. ASSUME NEW r \in Request, server[r] = "prepared", server' = [server EXCEPT ![r] = "delivered"],
             Lent(acc'[n]) = Lent(acc[n])
      PROVE  Lent(acc'[n]) = Worth(Serving(n)')
  <2>1. Serving(n)' = Serving(n)
    BY <1>5 DEF Serving, Types
  <2> QED BY <1>3, <1>5, <2>1
<1>6. ASSUME NEW r \in Request, server[r] = "new", server' = [server EXCEPT ![r] = "prepared"],
             Lent(acc'[n]) = IF n = To(r) THEN Lent(acc[n]) + Price[r] ELSE Lent(acc[n])
      PROVE  Lent(acc'[n]) = Worth(Serving(n)')
  <2>1. CASE n = To(r)
    <3>1. r \in Serving(n)' /\ Serving(n)' \ {r} = Serving(n)
      BY <1>6, <2>1 DEF Serving, Types
    <3>2. Worth(Serving(n)') = Price[r] + Worth(Serving(n))
      BY <1>2, <3>1, WorthRules
    <3>3. Price[r] \in Int
      BY RequestAssumption
    <3> QED BY <1>3, <1>6, <2>1, <3>2, <3>3
  <2>2. CASE n # To(r)
    <3>1. Serving(n)' = Serving(n)
      BY <1>6, <2>2 DEF Serving, Types
    <3> QED BY <1>3, <1>6, <2>2, <3>1
  <2> QED BY <2>1, <2>2
<1>7. ASSUME NEW r \in Request, server[r] \in {"prepared", "delivered"},
             \E pc \in {"applied", "failed"} : server' = [server EXCEPT ![r] = pc],
             Lent(acc'[n]) = IF n = To(r) THEN Lent(acc[n]) - Price[r] ELSE Lent(acc[n])
      PROVE  Lent(acc'[n]) = Worth(Serving(n)')
  <2>1. CASE n = To(r)
    <3>1. r \in Serving(n) /\ Serving(n)' = Serving(n) \ {r}
      BY <1>7, <2>1 DEF Serving, Types
    <3>2. Worth(Serving(n)) = Price[r] + Worth(Serving(n) \ {r})
      BY <1>2, <3>1, WorthRules
    <3>3. Price[r] \in Int /\ Worth(Serving(n)') \in Int
      BY <1>2, RequestAssumption
    <3> QED BY <1>3, <1>7, <2>1, <3>1, <3>2, <3>3
  <2>2. CASE n # To(r)
    <3>1. Serving(n)' = Serving(n)
      BY <1>7, <2>2 DEF Serving, Types
    <3> QED BY <1>3, <1>7, <2>2, <3>1
  <2> QED BY <2>1, <2>2
<1> QED BY <1>4, <1>5, <1>6, <1>7 DEF ShadowChange

-----------------------------------------------------------------------------
(* Book, and the two books together, of the records a and b of the two peers.   *)
BookOf(a, b) ==
    a.balance - a.surplus
    + (IF a.refresh.pc = "acked" /\ ~b.incoming.pending THEN a.refresh.accepted ELSE 0)
    - (IF a.incoming.pending /\ b.refresh.pc # "acked" THEN a.incoming.amount ELSE 0)
    + (IF a.cheque.pc = "received" THEN a.cheque.amount ELSE 0)

Pair(a, b) == BookOf(a, b) + BookOf(b, a)

LEMMA PairIsSymmetric ==
    ASSUME NEW a \in Loose, NEW b \in Loose
    PROVE  Pair(a, b) \in Int /\ Pair(b, a) = Pair(a, b)
<1>1. BookOf(a, b) \in Int /\ BookOf(b, a) \in Int
  BY DEF BookOf, Loose
<1> QED BY <1>1 DEF Pair

(* What a peer has in its book of the other one, and of a refreshment from the   *)
(* first peer to the second what only one of them has entered.                  *)
Money(a) == a.balance - a.surplus + (IF a.cheque.pc = "received" THEN a.cheque.amount ELSE 0)

Flight(a, b) ==
    (IF a.refresh.pc = "acked" /\ ~b.incoming.pending THEN a.refresh.accepted ELSE 0)
    - (IF b.incoming.pending /\ a.refresh.pc # "acked" THEN b.incoming.amount ELSE 0)

LEMMA PairIs ==
    ASSUME NEW a \in Loose, NEW b \in Loose
    PROVE  /\ Money(a) \in Int /\ Money(b) \in Int /\ Flight(a, b) \in Int /\ Flight(b, a) \in Int
           /\ Pair(a, b) = Money(a) + Money(b) + Flight(a, b) + Flight(b, a)
BY DEF Money, Flight, Pair, BookOf, Loose

(* A step that leaves a peer's refreshments where they are.                     *)
KeepsFlight(a, b) ==
    /\ b.refresh.pc = "acked" <=> a.refresh.pc = "acked"
    /\ a.refresh.pc = "acked" => b.refresh.accepted = a.refresh.accepted
    /\ b.incoming = a.incoming

LEMMA FlightIsKept ==
    ASSUME NEW a, NEW b, NEW c, KeepsFlight(a, b)
    PROVE  Flight(b, c) = Flight(a, c) /\ Flight(c, b) = Flight(c, a)
<1>1. \/ a.refresh.pc = "acked" /\ b.refresh.pc = "acked" /\ b.refresh.accepted = a.refresh.accepted
      \/ a.refresh.pc # "acked" /\ b.refresh.pc # "acked"
  BY DEF KeepsFlight
<1>2. b.incoming = a.incoming
  BY DEF KeepsFlight
<1> QED BY <1>1, <1>2 DEF Flight

LEMMA SettledKeepsMoney ==
    ASSUME NEW a \in Loose, NEW b \in Loose, Settled(a, b)
    PROVE  /\ KeepsFlight(a, b)
           /\ Money(b) - Money(a) = (b.balance - b.surplus) - (a.balance - a.surplus)
<1>1. KeepsFlight(a, b)
  BY DEF Settled, SameTimes, KeepsFlight
<1>2. \/ a.cheque.pc = "received" /\ b.cheque = a.cheque
      \/ a.cheque.pc # "received" /\ b.cheque.pc # "received"
  BY DEF Settled, SameShadow
<1>3. a.balance - a.surplus \in Int /\ b.balance - b.surplus \in Int /\ a.cheque.amount \in Int
  BY DEF Loose
<1> QED BY <1>1, <1>2, <1>3 DEF Money

(* What is in the books changes by the price of a request that is debited or    *)
(* credited, and by nothing else.                                               *)
BookChange ==
    \/ /\ Debited' = Debited /\ Credited' = Credited
       /\ \A n \in Peer : Pair(acc'[n], acc'[Other(n)]) = Pair(acc[n], acc[Other(n)])
    \/ \E r \in Request :
          /\ r \notin Debited /\ Debited' = Debited \cup {r} /\ Credited' = Credited
          /\ \A n \in Peer : Pair(acc'[n], acc'[Other(n)]) = Pair(acc[n], acc[Other(n)]) + Price[r]
    \/ \E r \in Request :
          /\ r \notin Credited /\ Credited' = Credited \cup {r} /\ Debited' = Debited
          /\ \A n \in Peer : Pair(acc'[n], acc'[Other(n)]) = Pair(acc[n], acc[Other(n)]) - Price[r]

(* It is enough to look at the pair from the side of one peer.                  *)
LEMMA OneSide ==
    ASSUME Types, Types', NEW n \in Peer, NEW d \in Int,
           Pair(acc'[n], acc'[Other(n)]) = Pair(acc[n], acc[Other(n)]) + d
    PROVE  \A m \in Peer : Pair(acc'[m], acc'[Other(m)]) = Pair(acc[m], acc[Other(m)]) + d
<1>1. Other(n) \in Peer /\ Other(Other(n)) = n /\ \A m \in Peer : m = n \/ m = Other(n)
  BY Others
<1>2. /\ acc[n] \in Loose /\ acc[Other(n)] \in Loose
      /\ acc'[n] \in Loose /\ acc'[Other(n)] \in Loose
  BY <1>1 DEF Types
<1>3. /\ Pair(acc[Other(n)], acc[n]) = Pair(acc[n], acc[Other(n)])
      /\ Pair(acc'[Other(n)], acc'[n]) = Pair(acc'[n], acc'[Other(n)])
  BY <1>2, PairIsSymmetric
<1> QED BY <1>1, <1>3

(* A step of one peer that leaves the refreshments where they are.              *)
LEMMA OneRecord ==
    ASSUME Types, Types', NEW n \in Peer, NEW d \in Int, OnlyAt(n),
           KeepsFlight(acc[n], acc'[n]), Money(acc'[n]) = Money(acc[n]) + d
    PROVE  \A m \in Peer : Pair(acc'[m], acc'[Other(m)]) = Pair(acc[m], acc[Other(m)]) + d
<1> DEFINE a == acc[n]
           b == acc'[n]
           c == acc[Other(n)]
<1>1. a \in Loose /\ b \in Loose /\ c \in Loose /\ acc'[Other(n)] = c
  BY Others DEF Types, OnlyAt
<1>2. Flight(b, c) = Flight(a, c) /\ Flight(c, b) = Flight(c, a) /\ Money(b) = Money(a) + d
  BY FlightIsKept
<1> HIDE DEF a, b, c
<1>3. /\ Money(a) \in Int /\ Money(c) \in Int /\ Flight(a, c) \in Int /\ Flight(c, a) \in Int
      /\ Pair(a, c) = Money(a) + Money(c) + Flight(a, c) + Flight(c, a)
      /\ Pair(b, c) = Money(b) + Money(c) + Flight(b, c) + Flight(c, b)
  BY <1>1, PairIs
<1>4. Pair(b, c) = Pair(a, c) + d
  BY <1>2, <1>3
<1> QED BY <1>1, <1>4, OneSide DEF a, b, c

(* Of connected peers, each step changes the books like this: a refreshment is  *)
(* in flight until both have entered it, and a cheque until it has been sent.   *)
LEMMA BookChanges ==
    ASSUME Types, Types', Answers, Clocks, Connected, Connected', [Next]_vars
    PROVE  BookChange
<1> DEFINE Even == \A m \in Peer : Pair(acc'[m], acc'[Other(m)]) = Pair(acc[m], acc[Other(m)])
           SameRequests == Debited' = Debited /\ Credited' = Credited
<1>0. \A r \in Request : Price[r] \in Int /\ 0 - Price[r] \in Int /\ From[r] \in Peer /\ To(r) \in Peer
  BY RequestAssumption, Others DEF To
<1>a. \A m \in Peer : acc[m] \in Loose /\ acc'[m] \in Loose
  BY DEF Types
<1>b. \A m \in Peer : acc[m].balance - acc[m].surplus \in Int /\ acc'[m].balance - acc'[m].surplus \in Int
  BY <1>a DEF Loose
<1>c. \A m \in Peer : Pair(acc[m], acc[Other(m)]) \in Int
  BY <1>a, Others, PairIsSymmetric
<1>d. SameRequests /\ Even => BookChange
  BY DEF BookChange
<1>e. ASSUME NEW n \in Peer, OnlyAt(n), KeepsFlight(acc[n], acc'[n]), Money(acc'[n]) = Money(acc[n])
      PROVE  Even
  <2>1. Money(acc[n]) \in Int /\ Money(acc'[n]) = Money(acc[n]) + 0
    BY <1>a, <1>e, PairIs
  <2>2. \A m \in Peer : Pair(acc'[m], acc'[Other(m)]) = Pair(acc[m], acc[Other(m)]) + 0
    BY <1>e, <2>1, OneRecord
  <2> QED BY <1>c, <2>2
<1>f. ASSUME NEW n \in Peer, Pair(acc'[n], acc'[Other(n)]) = Pair(acc[n], acc[Other(n)])
      PROVE  Even
  <2>1. Pair(acc'[n], acc'[Other(n)]) = Pair(acc[n], acc[Other(n)]) + 0
    BY <1>c, <1>f
  <2>2. \A m \in Peer : Pair(acc'[m], acc'[Other(m)]) = Pair(acc[m], acc[Other(m)]) + 0
    BY <2>1, OneSide
  <2> QED BY <1>c, <2>2
<1>g. ASSUME NEW n \in Peer, SameMoney(acc[n], acc'[n]), Settled(acc[n], acc'[n])
      PROVE  KeepsFlight(acc[n], acc'[n]) /\ Money(acc'[n]) = Money(acc[n])
  <2>1. KeepsFlight(acc[n], acc'[n])
        /\ Money(acc'[n]) - Money(acc[n])
             = (acc'[n].balance - acc'[n].surplus) - (acc[n].balance - acc[n].surplus)
    BY <1>a, <1>g, SettledKeepsMoney
  <2>2. acc'[n].balance - acc'[n].surplus = acc[n].balance - acc[n].surplus
    BY <1>g DEF SameMoney
  <2>3. Money(acc[n]) \in Int /\ Money(acc'[n]) \in Int
    BY <1>a, PairIs
  <2> QED BY <1>b, <2>1, <2>2, <2>3
<1> HIDE DEF Even
<1>1. ASSUME NEW r \in Request, PrepareCredit(r) PROVE BookChange
  <2>1. OnlyAt(From[r]) /\ SameMoney(acc[From[r]], acc'[From[r]]) /\ Settled(acc[From[r]], acc'[From[r]])
    BY <1>1, PrepareCreditEffect
  <2>2. SameRequests
    BY <1>1, PrepareCreditEffect DEF Debited, Credited, Types
  <2> QED BY <1>0, <1>d, <1>e, <1>g, <2>1, <2>2
<1>2. ASSUME NEW r \in Request, ApplyCredit(r) PROVE BookChange
  <2> DEFINE a == acc[From[r]]
             b == acc'[From[r]]
             d == 0 - Price[r]
  <2>1. /\ OnlyAt(From[r]) /\ Settled(a, b) /\ b.balance = a.balance - Price[r] /\ b.surplus = a.surplus
    BY <1>2, ApplyCreditEffect
  <2>2. r \notin Credited /\ Credited' = Credited \cup {r} /\ Debited' = Debited
    BY <1>2, ApplyCreditEffect DEF Debited, Credited, Types
  <2>3. a \in Loose /\ b \in Loose
    BY <1>0, <1>a
  <2>4. KeepsFlight(a, b) /\ Money(b) - Money(a) = (b.balance - b.surplus) - (a.balance - a.surplus)
    BY <2>1, <2>3, SettledKeepsMoney
  <2>5. Money(b) = Money(a) + d
    <3>1. Money(a) \in Int /\ Money(b) \in Int
      BY <2>3, PairIs
    <3>2. a.balance \in Int /\ a.surplus \in Int
      BY <2>3 DEF Loose
    <3> HIDE DEF a, b
    <3> QED BY <1>0, <2>1, <2>4, <3>1, <3>2
  <2>6. d \in Int /\ From[r] \in Peer
    BY <1>0
  <2> HIDE DEF d
  <2>7. \A m \in Peer : Pair(acc'[m], acc'[Other(m)]) = Pair(acc[m], acc[Other(m)]) + d
    BY <2>1, <2>4, <2>5, <2>6, OneRecord
  <2>8. \A m \in Peer : Pair(acc'[m], acc'[Other(m)]) = Pair(acc[m], acc[Other(m)]) - Price[r]
    BY <1>0, <1>c, <2>7 DEF d
  <2> QED BY <2>2, <2>8 DEF BookChange
<1>3. ASSUME NEW r \in Request, CleanupCredit(r) PROVE BookChange
  <2>1. OnlyAt(From[r]) /\ SameMoney(acc[From[r]], acc'[From[r]]) /\ Settled(acc[From[r]], acc'[From[r]])
    BY <1>3, CleanupCreditEffect
  <2>2. SameRequests
    BY <1>3, CleanupCreditEffect DEF Debited, Credited, Types
  <2> QED BY <1>0, <1>d, <1>e, <1>g, <2>1, <2>2
<1>4. ASSUME NEW r \in Request, PrepareDebit(r) PROVE BookChange
  <2>1. /\ OnlyAt(To(r)) /\ KeepsFlight(acc[To(r)], acc'[To(r)])
        /\ Money(acc'[To(r)]) = Money(acc[To(r)])
    BY <1>4, PrepareDebitEffect DEF SameMoney, SameTimes, KeepsFlight, Money
  <2>2. SameRequests
    BY <1>4, PrepareDebitEffect DEF Debited, Credited, Types
  <2> QED BY <1>0, <1>d, <1>e, <2>1, <2>2
<1>5. ASSUME NEW r \in Request, Deliver(r) PROVE BookChange
  <2>1. SameRequests /\ acc' = acc
    BY <1>5, DeliverEffect DEF Debited, Credited, Types
  <2> QED BY <1>d, <2>1 DEF Even
<1>6. ASSUME NEW r \in Request, ApplyDebit(r) PROVE BookChange
  <2> DEFINE a == acc[To(r)]
             b == acc'[To(r)]
  <2>1. /\ OnlyAt(To(r)) /\ b.balance - b.surplus = a.balance - a.surplus + Price[r]
        /\ b.cheque = a.cheque /\ b.refresh = a.refresh /\ SameTimes(a, b)
    BY <1>6, ApplyDebitEffect
  <2>2. r \notin Debited /\ Debited' = Debited \cup {r} /\ Credited' = Credited
    <3>1. server[r] = "delivered" /\ server' = [server EXCEPT ![r] = "applied"] /\ client' = client
      BY <1>6, ApplyDebitEffect
    <3> QED BY <3>1 DEF Debited, Credited, Types
  <2>3. a \in Loose /\ b \in Loose
    BY <1>0, <1>a
  <2>4. KeepsFlight(a, b)
    BY <2>1 DEF KeepsFlight, SameTimes
  <2>5. Money(b) = Money(a) + Price[r]
    <3>1. a.balance \in Int /\ a.surplus \in Int /\ a.cheque.amount \in Int
      BY <2>3 DEF Loose
    <3> HIDE DEF a, b
    <3> QED BY <1>0, <2>1, <3>1 DEF Money
  <2>6. Price[r] \in Int /\ To(r) \in Peer
    BY <1>0
  <2>7. \A m \in Peer : Pair(acc'[m], acc'[Other(m)]) = Pair(acc[m], acc[Other(m)]) + Price[r]
    BY <2>1, <2>4, <2>5, <2>6, OneRecord
  <2> QED BY <2>2, <2>7 DEF BookChange
<1>7. ASSUME NEW r \in Request, CleanupDebit(r) PROVE BookChange
  <2>1. /\ OnlyAt(To(r)) /\ KeepsFlight(acc[To(r)], acc'[To(r)])
        /\ Money(acc'[To(r)]) = Money(acc[To(r)])
    BY <1>7, CleanupDebitEffect DEF SameMoney, SameTimes, KeepsFlight, Money
  <2>2. SameRequests
    BY <1>7, CleanupDebitEffect DEF Debited, Credited, Types
  <2> QED BY <1>0, <1>d, <1>e, <2>1, <2>2
<1>8. ASSUME NEW n \in Peer, RefreshAccept(n) PROVE BookChange
  <2> DEFINE a == acc[n]
             b == acc'[n]
             c == acc[Other(n)]
             d == acc'[Other(n)]
             amount == Accepted(c, a.refresh.amount)
  <2>1. /\ SameBooks(a, b) /\ SameBooks(c, d) /\ SameTimes(a, b) /\ d.refresh = c.refresh
        /\ a.refresh.pc = "sent" /\ ~c.incoming.pending /\ d.refreshReceived = c.refreshReceived
        /\ \/ now = c.refreshReceived
           \/ /\ b.refresh = [pc |-> "acked", amount |-> a.refresh.amount,
                              accepted |-> amount, time |-> now]
              /\ d.incoming = [pending |-> TRUE, amount |-> amount, time |-> now]
        /\ UNCHANGED <<client, server>>
    BY <1>8, RefreshAcceptEffect
  <2>2. now # c.refreshReceived
    <3>1. Last(n) < now /\ Last(n) = c.refreshReceived /\ now \in Int
      BY <1>8, <2>1, RateAssumption DEF Clocks, Clock, Last, Types
    <3> QED BY <3>1
  <2>3. a \in Loose /\ b \in Loose /\ c \in Loose /\ d \in Loose
    BY <1>a, Others
  <2>4. /\ b.refresh.pc = "acked" /\ b.refresh.accepted = amount
        /\ d.incoming.pending /\ d.incoming.amount = amount
    BY <2>1, <2>2
  <2>5. SameRequests
    BY <2>1 DEF Debited, Credited
  <2> HIDE DEF a, b, c, d, amount
  <2>6. Money(a) = Money(b) /\ Money(c) = Money(d)
    BY <2>1 DEF Money, SameBooks, SameMoney, SameShadow
  <2>7. Flight(d, b) = Flight(c, a)
    BY <2>1 DEF Flight, SameTimes
  <2>8. Flight(a, c) = 0 /\ Flight(b, d) = 0
    BY <2>1, <2>4 DEF Flight
  <2>9. Pair(b, d) = Pair(a, c)
    BY <2>3, <2>6, <2>7, <2>8, PairIs
  <2>10. Even
    BY <1>f, <2>9 DEF a, b, c, d
  <2> QED BY <1>d, <2>5, <2>10
<1>9. ASSUME NEW n \in Peer, RefreshReceived(n) PROVE BookChange
  <2> DEFINE a == acc[n]
             b == acc'[n]
             c == acc[Other(n)]
             amount == a.incoming.amount
  <2>1. /\ OnlyAt(n) /\ b.balance = a.balance - amount /\ b.surplus = a.surplus
        /\ b.cheque = a.cheque /\ b.refresh = a.refresh
        /\ a.incoming.pending /\ ~b.incoming.pending
        /\ UNCHANGED <<client, server>>
    BY <1>9, RefreshReceivedEffect DEF NewPeer, SameShadow
  <2>2. a \in Loose /\ b \in Loose /\ c \in Loose /\ acc'[Other(n)] = c
    BY <1>a, <2>1, Others DEF OnlyAt
  <2>3. c.refresh.pc = "acked" => c.refresh.accepted = amount
    BY <2>1, Others DEF Answers
  <2>4. SameRequests
    BY <2>1 DEF Debited, Credited
  <2>5. amount \in Int /\ a.balance \in Int /\ a.surplus \in Int /\ a.cheque.amount \in Int
    BY <2>2 DEF Loose
  <2> HIDE DEF a, b, c, amount
  <2>6. Money(b) = Money(a) - amount
    BY <2>1, <2>5 DEF Money
  <2>7. Flight(b, c) = Flight(a, c)
    <3>1. Flight(b, c) \in Int
      BY <2>2, PairIs
    <3> QED BY <2>1 DEF Flight
  <2>8. Flight(c, b) = Flight(c, a) + amount
    BY <2>1, <2>3, <2>5 DEF Flight, a, amount
  <2>9. Pair(b, c) = Pair(a, c)
    <3>1. /\ Money(a) \in Int /\ Money(c) \in Int /\ Flight(a, c) \in Int /\ Flight(c, a) \in Int
          /\ Pair(a, c) = Money(a) + Money(c) + Flight(a, c) + Flight(c, a)
          /\ Pair(b, c) = Money(b) + Money(c) + Flight(b, c) + Flight(c, b)
      BY <2>2, PairIs
    <3> QED BY <2>5, <2>6, <2>7, <2>8, <3>1
  <2>10. Even
    BY <1>f, <2>2, <2>9 DEF a, b, c
  <2> QED BY <1>d, <2>4, <2>10
<1>10. ASSUME NEW n \in Peer, RefreshSent(n) PROVE BookChange
  <2> DEFINE a == acc[n]
             b == acc'[n]
             c == acc[Other(n)]
             amount == a.refresh.accepted
  <2>1. /\ OnlyAt(n) /\ b.balance = a.balance + amount /\ b.surplus = a.surplus
        /\ b.cheque = a.cheque /\ b.incoming = a.incoming
        /\ a.refresh.pc = "acked" /\ b.refresh.pc = "none"
        /\ UNCHANGED <<client, server>>
    BY <1>10, RefreshSentEffect DEF NewPeer, Connected
  <2>2. a \in Loose /\ b \in Loose /\ c \in Loose /\ acc'[Other(n)] = c
    BY <1>a, <2>1, Others DEF OnlyAt
  <2>3. c.incoming.pending => c.incoming.amount = amount
    BY <2>1, Others DEF Answers
  <2>4. SameRequests
    BY <2>1 DEF Debited, Credited
  <2>5. amount \in Int /\ a.balance \in Int /\ a.surplus \in Int /\ a.cheque.amount \in Int
    BY <2>2 DEF Loose
  <2> HIDE DEF a, b, c, amount
  <2>6. Money(b) = Money(a) + amount
    BY <2>1, <2>5 DEF Money
  <2>7. Flight(c, b) = Flight(c, a)
    BY <2>1 DEF Flight
  <2>8. Flight(b, c) = Flight(a, c) - amount
    BY <2>1, <2>3, <2>5 DEF Flight, a, amount
  <2>9. Pair(b, c) = Pair(a, c)
    <3>1. /\ Money(a) \in Int /\ Money(c) \in Int /\ Flight(a, c) \in Int /\ Flight(c, a) \in Int
          /\ Pair(a, c) = Money(a) + Money(c) + Flight(a, c) + Flight(c, a)
          /\ Pair(b, c) = Money(b) + Money(c) + Flight(b, c) + Flight(c, b)
      BY <2>2, PairIs
    <3> QED BY <2>5, <2>6, <2>7, <2>8, <3>1
  <2>10. Even
    BY <1>f, <2>2, <2>9 DEF a, b, c
  <2> QED BY <1>d, <2>4, <2>10
<1>11. ASSUME NEW n \in Peer, RefreshFails(n) PROVE BookChange
  <2>0. acc[n].refresh.pc = "sent" /\ SameBooks(acc[n], acc'[n])
    BY <1>11, RefreshFailsEffect DEF Connected
  <2>1. OnlyAt(n) /\ KeepsFlight(acc[n], acc'[n]) /\ Money(acc'[n]) = Money(acc[n])
        /\ UNCHANGED <<client, server>>
    BY <1>11, <2>0, RefreshFailsEffect DEF SameBooks, SameMoney, SameShadow, KeepsFlight, Money, NewPeer
  <2>2. SameRequests
    BY <2>1 DEF Debited, Credited
  <2> QED BY <1>d, <1>e, <2>1, <2>2
<1>12. ASSUME NEW n \in Peer, PaymentReceived(n) PROVE BookChange
  <2> DEFINE a == acc[Other(n)]
             b == acc'[Other(n)]
             c == acc[n]
             d == acc'[n]
             amount == a.cheque.amount
  <2>1. /\ SameMoney(a, b) /\ SameTimes(a, b) /\ b.refresh = a.refresh
        /\ SameTimes(c, d) /\ d.refresh = c.refresh /\ SameShadow(c, d)
        /\ a.cheque.pc = "sent" /\ b.cheque = [pc |-> "received", amount |-> amount]
        /\ d.balance - d.surplus = c.balance - c.surplus - amount
        /\ UNCHANGED <<client, server>>
    BY <1>12, PaymentReceivedEffect
  <2>2. a \in Loose /\ b \in Loose /\ c \in Loose /\ d \in Loose
    BY <1>a, Others
  <2>3. SameRequests
    BY <2>1 DEF Debited, Credited
  <2>4. /\ amount \in Int /\ a.balance \in Int /\ a.surplus \in Int
        /\ c.balance \in Int /\ c.surplus \in Int /\ c.cheque.amount \in Int
    BY <2>2 DEF Loose
  <2> HIDE DEF a, b, c, d, amount
  <2>5. Money(b) = Money(a) + amount
    BY <2>1, <2>4 DEF Money, SameMoney
  <2>6. Money(d) = Money(c) - amount
    BY <2>1, <2>4 DEF Money, SameShadow
  <2>7. Flight(d, b) = Flight(c, a) /\ Flight(b, d) = Flight(a, c)
    BY <2>1 DEF Flight, SameTimes
  <2>8. Pair(d, b) = Pair(c, a)
    <3>1. /\ Money(a) \in Int /\ Money(c) \in Int /\ Flight(a, c) \in Int /\ Flight(c, a) \in Int
          /\ Pair(c, a) = Money(c) + Money(a) + Flight(c, a) + Flight(a, c)
          /\ Pair(d, b) = Money(d) + Money(b) + Flight(d, b) + Flight(b, d)
      BY <2>2, PairIs
    <3> QED BY <2>4, <2>5, <2>6, <2>7, <3>1
  <2>9. Even
    BY <1>f, <2>8 DEF a, b, c, d
  <2> QED BY <1>d, <2>3, <2>9
<1>13. ASSUME NEW n \in Peer, PaymentSent(n) PROVE BookChange
  <2> DEFINE a == acc[n]
             b == acc'[n]
             amount == a.cheque.amount
  <2>1. /\ OnlyAt(n) /\ SameTimes(a, b) /\ b.refresh = a.refresh /\ b.surplus = a.surplus
        /\ b.balance = a.balance + amount /\ a.cheque.pc = "received" /\ b.cheque.pc = "none"
        /\ UNCHANGED <<client, server>>
    BY <1>13, PaymentSentEffect DEF NewPeer
  <2>2. SameRequests
    BY <2>1 DEF Debited, Credited
  <2>3. amount \in Int /\ a.balance \in Int /\ a.surplus \in Int
    BY <1>a DEF Loose
  <2> HIDE DEF a, b, amount
  <2>4. KeepsFlight(a, b)
    BY <2>1 DEF KeepsFlight, SameTimes
  <2>5. Money(b) = Money(a)
    BY <2>1, <2>3 DEF Money, amount
  <2> QED BY <1>d, <1>e, <2>1, <2>2, <2>4, <2>5 DEF a, b
<1>14. ASSUME NEW n \in Peer, PaymentFails(n) PROVE BookChange
  <2>1. OnlyAt(n) /\ KeepsFlight(acc[n], acc'[n]) /\ Money(acc'[n]) = Money(acc[n])
        /\ UNCHANGED <<client, server>>
    BY <1>14, PaymentFailsEffect DEF SameMoney, SameTimes, KeepsFlight, Money, NewPeer
  <2>2. SameRequests
    BY <2>1 DEF Debited, Credited
  <2> QED BY <1>d, <1>e, <2>1, <2>2
<1>15. ASSUME Tick PROVE BookChange
  <2>1. SameRequests /\ acc' = acc
    BY <1>15, TickEffect DEF Debited, Credited
  <2> QED BY <1>d, <2>1 DEF Even
<1>16. ASSUME UNCHANGED vars PROVE BookChange
  <2>1. SameRequests /\ acc' = acc
    BY <1>16 DEF vars, Debited, Credited
  <2> QED BY <1>d, <2>1 DEF Even
<1> QED BY <1>1, <1>2, <1>3, <1>4, <1>5, <1>6, <1>7, <1>8, <1>9, <1>10,
          <1>11, <1>12, <1>13, <1>14, <1>15, <1>16 DEF Next

-----------------------------------------------------------------------------
(* Nothing goes on once a peer is blocklisted.                                  *)
LEMMA StaysDisconnected ==
    ASSUME [Next]_vars
    PROVE  Connected' => Connected
<1>1. Connected \/ acc' = acc
  BY DEF Next, vars, PrepareCredit, ApplyCredit, CleanupCredit, PrepareDebit, Deliver,
         ApplyDebit, CleanupDebit, RefreshAccept, RefreshReceived, RefreshSent, RefreshFails,
         PaymentReceived, PaymentSent, PaymentFails, Tick
<1> QED BY <1>1 DEF Connected

LEMMA BooksAreThePair ==
    ASSUME NEW n \in Peer
    PROVE  Book(n) + Book(Other(n)) = Pair(acc[n], acc[Other(n)])
BY Others DEF Book, Pair, BookOf

LEMMA BalancedStep ==
    ASSUME Types, Types', Balanced, Answers, Clocks, [Next]_vars
    PROVE  Balanced'
<1> SUFFICES ASSUME Connected', NEW n \in Peer
             PROVE  Pair(acc'[n], acc'[Other(n)]) = Worth(Debited') - Worth(Credited')
  <2>1. \A n \in Peer : (Book(n) + Book(Other(n)))' = Pair(acc'[n], acc'[Other(n)])
    BY Others DEF Book, Pair, BookOf
  <2> QED BY <2>1 DEF Balanced, Worth
<1>1. Connected /\ BookChange
  BY StaysDisconnected, BookChanges
<1>2. Pair(acc[n], acc[Other(n)]) = Worth(Debited) - Worth(Credited)
  BY <1>1, BooksAreThePair DEF Balanced
<1>3. /\ Debited \in SUBSET Request /\ Credited \in SUBSET Request
      /\ Debited' \in SUBSET Request /\ Credited' \in SUBSET Request
  BY DEF Debited, Credited
<1>4. Worth(Debited) \in Int /\ Worth(Credited) \in Int
  BY <1>3, WorthRules
<1>5. CASE /\ Debited' = Debited /\ Credited' = Credited
           /\ Pair(acc'[n], acc'[Other(n)]) = Pair(acc[n], acc[Other(n)])
  BY <1>2, <1>5
<1>6. ASSUME NEW r \in Request, r \notin Debited, Debited' = Debited \cup {r}, Credited' = Credited,
             Pair(acc'[n], acc'[Other(n)]) = Pair(acc[n], acc[Other(n)]) + Price[r]
      PROVE  Pair(acc'[n], acc'[Other(n)]) = Worth(Debited') - Worth(Credited')
  <2>1. r \in Debited' /\ Debited' \ {r} = Debited /\ Price[r] \in Int
    BY <1>6, RequestAssumption
  <2>2. Worth(Debited') = Price[r] + Worth(Debited)
    BY <1>3, <2>1, WorthRules
  <2> QED BY <1>2, <1>4, <1>6, <2>1, <2>2
<1>7. ASSUME NEW r \in Request, r \notin Credited, Credited' = Credited \cup {r}, Debited' = Debited,
             Pair(acc'[n], acc'[Other(n)]) = Pair(acc[n], acc[Other(n)]) - Price[r]
      PROVE  Pair(acc'[n], acc'[Other(n)]) = Worth(Debited') - Worth(Credited')
  <2>1. r \in Credited' /\ Credited' \ {r} = Credited /\ Price[r] \in Int
    BY <1>7, RequestAssumption
  <2>2. Worth(Credited') = Price[r] + Worth(Credited)
    BY <1>3, <2>1, WorthRules
  <2> QED BY <1>2, <1>4, <1>7, <2>1, <2>2
<1> QED BY <1>1, <1>5, <1>6, <1>7 DEF BookChange

-----------------------------------------------------------------------------
(* A refreshment is never sent twice in a second, so it is not refused.         *)
LEMMA NotRefused ==
    ASSUME Types, Clocks, NEW n \in Peer, RefreshAccept(n)
    PROVE  now # acc[Other(n)].refreshReceived
<1>1. Connected /\ acc[n].refresh.pc = "sent" /\ ~acc[Other(n)].incoming.pending
  BY DEF RefreshAccept
<1>2. Last(n) < now /\ Last(n) = acc[Other(n)].refreshReceived /\ now \in Int
  BY <1>1, RateAssumption DEF Clocks, Clock, Last, Types
<1> QED BY <1>2

Attempt(a) ==
    a.refresh.pc = "sent" => a.refresh.amount - a.refreshReserved <= 0 - a.balance - a.shadow

LEMMA SettledAttempt ==
    ASSUME NEW a \in Loose, NEW b \in Loose, Attempt(a), Settled(a, b), b.balance <= a.balance
    PROVE  Attempt(b)
BY DEF Attempt, Settled, SameShadow, Loose

LEMMA AttemptsStep ==
    ASSUME Types, Types', Attempts, Answers, Clocks, [Next]_vars
    PROVE  Attempts'
<1> SUFFICES \A n \in Peer : Attempt(acc'[n])
  BY DEF Attempts, Attempt
<1>a. \A n \in Peer : acc[n] \in Loose /\ acc'[n] \in Loose /\ Attempt(acc[n])
  BY DEF Types, Attempts, Attempt
<1>b. \A r \in Request : Price[r] \in Nat /\ From[r] \in Peer /\ To(r) \in Peer
  BY RequestAssumption, Others DEF To
<1>c. \A n \in Peer : OnlyAt(n) /\ Attempt(acc'[n]) => \A m \in Peer : Attempt(acc'[m])
  BY <1>a DEF OnlyAt
<1>1. ASSUME NEW r \in Request, PrepareCredit(r) PROVE \A m \in Peer : Attempt(acc'[m])
  <2>1. OnlyAt(From[r]) /\ acc'[From[r]].balance = acc[From[r]].balance /\ Settled(acc[From[r]], acc'[From[r]])
    BY <1>1, PrepareCreditEffect DEF SameMoney
  <2>2. acc[From[r]] \in Loose /\ acc'[From[r]] \in Loose /\ Attempt(acc[From[r]])
    BY <1>a, <1>b
  <2>3. acc'[From[r]].balance <= acc[From[r]].balance
    BY <2>1, <2>2 DEF Loose
  <2> QED BY <1>b, <1>c, <2>1, <2>2, <2>3, SettledAttempt
<1>2. ASSUME NEW r \in Request, ApplyCredit(r) PROVE \A m \in Peer : Attempt(acc'[m])
  <2>1. /\ OnlyAt(From[r]) /\ acc'[From[r]].balance = acc[From[r]].balance - Price[r]
        /\ Settled(acc[From[r]], acc'[From[r]])
    BY <1>2, ApplyCreditEffect
  <2>2. acc[From[r]] \in Loose /\ acc'[From[r]] \in Loose /\ Attempt(acc[From[r]])
    BY <1>a, <1>b
  <2>3. acc'[From[r]].balance <= acc[From[r]].balance
    BY <1>b, <2>1, <2>2 DEF Loose
  <2> QED BY <1>b, <1>c, <2>1, <2>2, <2>3, SettledAttempt
<1>3. ASSUME NEW r \in Request, CleanupCredit(r) PROVE \A m \in Peer : Attempt(acc'[m])
  <2>1. OnlyAt(From[r]) /\ acc'[From[r]].balance = acc[From[r]].balance /\ Settled(acc[From[r]], acc'[From[r]])
    BY <1>3, CleanupCreditEffect DEF SameMoney
  <2>2. acc[From[r]] \in Loose /\ acc'[From[r]] \in Loose /\ Attempt(acc[From[r]])
    BY <1>a, <1>b
  <2>3. acc'[From[r]].balance <= acc[From[r]].balance
    BY <2>1, <2>2 DEF Loose
  <2> QED BY <1>b, <1>c, <2>1, <2>2, <2>3, SettledAttempt
<1>4. ASSUME NEW r \in Request, PrepareDebit(r) PROVE \A m \in Peer : Attempt(acc'[m])
  <2>1. /\ OnlyAt(To(r)) /\ SameMoney(acc[To(r)], acc'[To(r)])
        /\ acc'[To(r)].refresh = acc[To(r)].refresh /\ acc'[To(r)].shadow = acc[To(r)].shadow + Price[r]
        /\ acc[To(r)].refresh.pc # "none" =>
              acc'[To(r)].refreshReserved = acc[To(r)].refreshReserved + Price[r]
    BY <1>4, PrepareDebitEffect
  <2>2. acc[To(r)] \in Loose /\ Attempt(acc[To(r)])
    BY <1>a, <1>b
  <2>3. Attempt(acc'[To(r)])
    BY <1>b, <2>1, <2>2 DEF Attempt, SameMoney, Loose
  <2> QED BY <1>b, <1>c, <2>1, <2>3
<1>5. ASSUME NEW r \in Request, Deliver(r) PROVE \A m \in Peer : Attempt(acc'[m])
  BY <1>a, <1>5, DeliverEffect
<1>6. ASSUME NEW r \in Request, ApplyDebit(r) PROVE \A m \in Peer : Attempt(acc'[m])
  <2>1. /\ OnlyAt(To(r)) /\ acc'[To(r)].balance <= acc[To(r)].balance + Price[r]
        /\ acc'[To(r)].refresh = acc[To(r)].refresh /\ acc'[To(r)].shadow = acc[To(r)].shadow - Price[r]
        /\ acc'[To(r)].refreshReserved = acc[To(r)].refreshReserved
    BY <1>6, ApplyDebitEffect
  <2>2. acc[To(r)] \in Loose /\ acc'[To(r)] \in Loose /\ Attempt(acc[To(r)])
    BY <1>a, <1>b
  <2>3. Attempt(acc'[To(r)])
    BY <1>b, <2>1, <2>2 DEF Attempt, Loose
  <2> QED BY <1>b, <1>c, <2>1, <2>3
<1>7. ASSUME NEW r \in Request, CleanupDebit(r) PROVE \A m \in Peer : Attempt(acc'[m])
  <2>1. /\ OnlyAt(To(r)) /\ acc'[To(r)].balance = acc[To(r)].balance
        /\ acc'[To(r)].refresh = acc[To(r)].refresh /\ acc'[To(r)].shadow = acc[To(r)].shadow - Price[r]
        /\ acc'[To(r)].refreshReserved = acc[To(r)].refreshReserved
    BY <1>7, CleanupDebitEffect DEF SameMoney
  <2>2. acc[To(r)] \in Loose /\ acc'[To(r)] \in Loose /\ Attempt(acc[To(r)])
    BY <1>a, <1>b
  <2>3. Attempt(acc'[To(r)])
    BY <1>b, <2>1, <2>2 DEF Attempt, Loose
  <2> QED BY <1>b, <1>c, <2>1, <2>3
<1>8. ASSUME NEW n \in Peer, RefreshAccept(n) PROVE \A m \in Peer : Attempt(acc'[m])
  <2>1. acc'[n].refresh.pc = "acked"
    <3> DEFINE amount == Accepted(acc[Other(n)], acc[n].refresh.amount)
    <3>1. now # acc[Other(n)].refreshReceived
      BY <1>8, NotRefused
    <3>2. \/ now = acc[Other(n)].refreshReceived
          \/ acc'[n].refresh = [pc |-> "acked", amount |-> acc[n].refresh.amount,
                                accepted |-> amount, time |-> now]
      BY <1>8, RefreshAcceptEffect
    <3> HIDE DEF amount
    <3> QED BY <3>1, <3>2
  <2>2. /\ SameBooks(acc[Other(n)], acc'[Other(n)])
        /\ acc'[Other(n)].refresh = acc[Other(n)].refresh
    BY <1>8, RefreshAcceptEffect
  <2>3. Attempt(acc'[n]) /\ Attempt(acc'[Other(n)])
    BY <1>a, <2>1, <2>2, Others DEF Attempt, SameBooks, SameMoney, SameShadow
  <2> QED BY <2>3, Others
<1>9. ASSUME NEW n \in Peer, RefreshReceived(n) PROVE \A m \in Peer : Attempt(acc'[m])
  <2>1. /\ OnlyAt(n) /\ SameShadow(acc[n], acc'[n]) /\ acc'[n].refresh = acc[n].refresh
        /\ acc'[n].balance = acc[n].balance - acc[n].incoming.amount
    BY <1>9, RefreshReceivedEffect
  <2>2. acc[n].incoming.amount >= 0
    BY DEF Answers
  <2>3. Attempt(acc'[n])
    BY <1>a, <2>1, <2>2 DEF Attempt, SameShadow, Loose
  <2> QED BY <1>c, <2>1, <2>3
<1>10. ASSUME NEW n \in Peer, RefreshSent(n) PROVE \A m \in Peer : Attempt(acc'[m])
  <2>1. OnlyAt(n) /\ acc'[n].refresh.pc = "none"
    BY <1>10, RefreshSentEffect DEF NewPeer
  <2> QED BY <1>c, <2>1 DEF Attempt
<1>11. ASSUME NEW n \in Peer, RefreshFails(n) PROVE \A m \in Peer : Attempt(acc'[m])
  <2>1. OnlyAt(n) /\ acc'[n].refresh.pc = "none"
    BY <1>11, RefreshFailsEffect DEF NewPeer
  <2> QED BY <1>c, <2>1 DEF Attempt
<1>12. ASSUME NEW n \in Peer, PaymentReceived(n) PROVE \A m \in Peer : Attempt(acc'[m])
  <2>1. /\ acc'[Other(n)].refresh = acc[Other(n)].refresh
        /\ acc'[Other(n)].shadow = acc[Other(n)].shadow
        /\ acc'[Other(n)].refreshReserved = acc[Other(n)].refreshReserved
        /\ SameMoney(acc[Other(n)], acc'[Other(n)])
    BY <1>12, PaymentReceivedEffect
  <2>2. /\ acc'[n].refresh = acc[n].refresh /\ SameShadow(acc[n], acc'[n])
        /\ acc'[n].balance <= acc[n].balance
    BY <1>12, PaymentReceivedEffect
  <2>3. Attempt(acc'[Other(n)])
    BY <1>a, <2>1, Others DEF Attempt, SameMoney
  <2>4. Attempt(acc'[n])
    BY <1>a, <2>2 DEF Attempt, SameShadow, Loose
  <2> QED BY <2>3, <2>4, Others
<1>13. ASSUME NEW n \in Peer, PaymentSent(n) PROVE \A m \in Peer : Attempt(acc'[m])
  <2>1. /\ OnlyAt(n) /\ acc'[n].refresh = acc[n].refresh /\ acc'[n].balance = acc[n].balance + acc[n].cheque.amount
        /\ acc'[n].refreshReserved = acc[n].refreshReserved
        /\ acc'[n].shadow = acc[n].shadow - acc[n].cheque.amount
    BY <1>13, PaymentSentEffect
  <2>2. Attempt(acc'[n])
    BY <1>a, <2>1 DEF Attempt, Loose
  <2> QED BY <1>c, <2>1, <2>2
<1>14. ASSUME NEW n \in Peer, PaymentFails(n) PROVE \A m \in Peer : Attempt(acc'[m])
  <2>1. /\ OnlyAt(n) /\ acc'[n].refresh = acc[n].refresh /\ acc'[n].balance = acc[n].balance
        /\ acc'[n].refreshReserved = acc[n].refreshReserved
        /\ acc'[n].shadow = acc[n].shadow - acc[n].cheque.amount
    BY <1>14, PaymentFailsEffect DEF SameMoney
  <2>2. Attempt(acc'[n])
    BY <1>a, <2>1 DEF Attempt, Loose
  <2> QED BY <1>c, <2>1, <2>2
<1>15. ASSUME Tick PROVE \A m \in Peer : Attempt(acc'[m])
  BY <1>a, <1>15, TickEffect
<1>16. ASSUME UNCHANGED vars PROVE \A m \in Peer : Attempt(acc'[m])
  BY <1>a, <1>16 DEF vars
<1> QED BY <1>1, <1>2, <1>3, <1>4, <1>5, <1>6, <1>7, <1>8, <1>9, <1>10,
          <1>11, <1>12, <1>13, <1>14, <1>15, <1>16 DEF Next

-----------------------------------------------------------------------------
Owing(a) == Neg(a.balance) <= a.originated

LEMMA OwnDebtStep ==
    ASSUME Types, Types', OwnDebt, Answers, [Next]_vars
    PROVE  OwnDebt'
<1> SUFFICES \A n \in Peer : Owing(acc'[n])
  BY DEF OwnDebt, Owing
<1>a. \A n \in Peer : acc[n] \in Loose /\ acc'[n] \in Loose /\ Owing(acc[n])
  BY DEF Types, OwnDebt, Owing
<1>b. \A r \in Request : From[r] \in Peer /\ To(r) \in Peer
  BY RequestAssumption, Others DEF To
<1>c. \A n \in Peer : OnlyAt(n) /\ Owing(acc'[n]) => \A m \in Peer : Owing(acc'[m])
  BY <1>a DEF OnlyAt
<1>d. \A a, b : SameMoney(a, b) /\ Owing(a) => Owing(b)
  BY DEF SameMoney, Owing
<1>1. ASSUME NEW r \in Request, PrepareCredit(r) PROVE \A m \in Peer : Owing(acc'[m])
  BY <1>a, <1>b, <1>c, <1>d, <1>1, PrepareCreditEffect
<1>2. ASSUME NEW r \in Request, ApplyCredit(r) PROVE \A m \in Peer : Owing(acc'[m])
  <2>1. /\ OnlyAt(From[r])
        /\ Neg(acc[From[r]].balance) <= acc[From[r]].originated =>
              Neg(acc'[From[r]].balance) <= acc'[From[r]].originated
    BY <1>2, ApplyCreditEffect
  <2>2. Owing(acc'[From[r]])
    BY <1>a, <1>b, <2>1 DEF Owing
  <2> QED BY <1>b, <1>c, <2>1, <2>2
<1>3. ASSUME NEW r \in Request, CleanupCredit(r) PROVE \A m \in Peer : Owing(acc'[m])
  BY <1>a, <1>b, <1>c, <1>d, <1>3, CleanupCreditEffect
<1>4. ASSUME NEW r \in Request, PrepareDebit(r) PROVE \A m \in Peer : Owing(acc'[m])
  <2>1. OnlyAt(To(r)) /\ SameMoney(acc[To(r)], acc'[To(r)])
    BY <1>4, PrepareDebitEffect
  <2> QED BY <1>a, <1>b, <1>c, <1>d, <2>1
<1>5. ASSUME NEW r \in Request, Deliver(r) PROVE \A m \in Peer : Owing(acc'[m])
  BY <1>a, <1>5, DeliverEffect
<1>6. ASSUME NEW r \in Request, ApplyDebit(r) PROVE \A m \in Peer : Owing(acc'[m])
  <2>1. /\ OnlyAt(To(r))
        /\ Neg(acc[To(r)].balance) <= acc[To(r)].originated =>
              Neg(acc'[To(r)].balance) <= acc'[To(r)].originated
    BY <1>6, ApplyDebitEffect
  <2>2. Owing(acc'[To(r)])
    BY <1>a, <1>b, <2>1 DEF Owing
  <2> QED BY <1>b, <1>c, <2>1, <2>2
<1>7. ASSUME NEW r \in Request, CleanupDebit(r) PROVE \A m \in Peer : Owing(acc'[m])
  <2>1. OnlyAt(To(r)) /\ SameMoney(acc[To(r)], acc'[To(r)])
    BY <1>7, CleanupDebitEffect
  <2> QED BY <1>a, <1>b, <1>c, <1>d, <2>1
<1>8. ASSUME NEW n \in Peer, RefreshAccept(n) PROVE \A m \in Peer : Owing(acc'[m])
  <2>1. SameMoney(acc[n], acc'[n]) /\ SameMoney(acc[Other(n)], acc'[Other(n)])
    BY <1>8, RefreshAcceptEffect DEF SameBooks
  <2> QED BY <1>a, <1>d, <2>1, Others
<1>9. ASSUME NEW n \in Peer, RefreshReceived(n) PROVE \A m \in Peer : Owing(acc'[m])
  <2>1. /\ OnlyAt(n) /\ acc'[n].originated = acc[n].originated
        /\ acc'[n].balance = acc[n].balance - acc[n].incoming.amount
    BY <1>9, RefreshReceivedEffect
  <2>2. acc[n].incoming.amount >= 0
    BY DEF Answers
  <2>3. /\ acc[n].balance \in Int /\ acc'[n].balance \in Int
        /\ acc[n].originated \in Int /\ acc[n].incoming.amount \in Int
    BY <1>a DEF Loose
  <2>4. /\ Neg(acc[n].balance) = IF acc[n].balance <= 0 THEN acc[n].balance ELSE 0
        /\ Neg(acc'[n].balance) = IF acc'[n].balance <= 0 THEN acc'[n].balance ELSE 0
    BY <2>3, SignedParts
  <2>5. Owing(acc'[n])
    BY <1>a, <2>1, <2>2, <2>3, <2>4 DEF Owing
  <2> QED BY <1>c, <2>1, <2>5
<1>10. ASSUME NEW n \in Peer, RefreshSent(n) PROVE \A m \in Peer : Owing(acc'[m])
  <2>1. /\ OnlyAt(n)
        /\ \/ acc'[n].balance = acc[n].balance /\ acc'[n].originated = acc[n].originated
           \/ Neg(acc'[n].balance) <= acc'[n].originated
    BY <1>10, RefreshSentEffect
  <2> QED BY <1>a, <1>c, <2>1 DEF Owing
<1>11. ASSUME NEW n \in Peer, RefreshFails(n) PROVE \A m \in Peer : Owing(acc'[m])
  <2>1. OnlyAt(n) /\ SameMoney(acc[n], acc'[n])
    BY <1>11, RefreshFailsEffect DEF SameBooks
  <2> QED BY <1>a, <1>c, <1>d, <2>1
<1>12. ASSUME NEW n \in Peer, PaymentReceived(n) PROVE \A m \in Peer : Owing(acc'[m])
  <2>1. /\ SameMoney(acc[Other(n)], acc'[Other(n)])
        /\ Neg(acc[n].balance) <= acc[n].originated => Neg(acc'[n].balance) <= acc'[n].originated
    BY <1>12, PaymentReceivedEffect
  <2>2. Owing(acc'[n]) /\ Owing(acc'[Other(n)])
    BY <1>a, <1>d, <2>1, Others DEF Owing
  <2> QED BY <2>2, Others
<1>13. ASSUME NEW n \in Peer, PaymentSent(n) PROVE \A m \in Peer : Owing(acc'[m])
  <2>1. /\ OnlyAt(n) /\ acc'[n].originated = acc[n].originated + acc[n].cheque.amount
        /\ acc'[n].balance = acc[n].balance + acc[n].cheque.amount
    BY <1>13, PaymentSentEffect
  <2>2. /\ acc[n].balance \in Int /\ acc'[n].balance \in Int
        /\ acc[n].originated \in Int /\ acc[n].cheque.amount \in Nat
    BY <1>a DEF Loose
  <2>3. /\ Neg(acc[n].balance) = IF acc[n].balance <= 0 THEN acc[n].balance ELSE 0
        /\ Neg(acc'[n].balance) = IF acc'[n].balance <= 0 THEN acc'[n].balance ELSE 0
    BY <2>2, SignedParts
  <2>4. Owing(acc'[n])
    BY <1>a, <2>1, <2>2, <2>3 DEF Owing
  <2> QED BY <1>c, <2>1, <2>4
<1>14. ASSUME NEW n \in Peer, PaymentFails(n) PROVE \A m \in Peer : Owing(acc'[m])
  BY <1>a, <1>c, <1>d, <1>14, PaymentFailsEffect
<1>15. ASSUME Tick PROVE \A m \in Peer : Owing(acc'[m])
  BY <1>a, <1>15, TickEffect
<1>16. ASSUME UNCHANGED vars PROVE \A m \in Peer : Owing(acc'[m])
  BY <1>a, <1>16 DEF vars
<1> QED BY <1>1, <1>2, <1>3, <1>4, <1>5, <1>6, <1>7, <1>8, <1>9, <1>10,
          <1>11, <1>12, <1>13, <1>14, <1>15, <1>16 DEF Next

-----------------------------------------------------------------------------
(* Both peers know the same answer, to a refreshment from a to b.               *)
Answer(a, b) ==
    /\ b.incoming.amount >= 0 /\ a.refresh.accepted >= 0
    /\ a.refresh.pc = "acked" /\ b.incoming.pending => b.incoming.amount = a.refresh.accepted

(* What settles keeps a refreshment, but for one that it begins.                *)
KeepsAnswer(a, b) ==
    /\ b.incoming = a.incoming
    /\ \/ b.refresh = a.refresh
       \/ b.refresh.pc # "acked" /\ b.refresh.accepted = 0

LEMMA AcceptedIsPositive ==
    ASSUME Types, NEW n \in Peer, acc[n].refreshReceived <= now, NEW amount \in Nat
    PROVE  Accepted(acc[n], amount) >= 0
<1> DEFINE time == (now - acc[n].refreshReceived) * refreshRate
           debt == Pos(acc[n].balance + acc[n].shadow)
<1>1. now - acc[n].refreshReceived \in Nat /\ acc[n].balance + acc[n].shadow \in Int
  BY RateAssumption DEF Types, Loose
<1>2. time \in Nat
  BY <1>1, RateAssumption
<1>3. debt \in Nat
  BY <1>1, SignedParts
<1>4. Accepted(acc[n], amount) = Min({amount, time, debt})
  BY DEF Accepted
<1> HIDE DEF time, debt
<1>5. amount \in Int /\ time \in Int /\ debt \in Int
  BY <1>2, <1>3
<1>6. Min({amount, time, debt}) \in {amount, time, debt}
  BY <1>5, MinOfThree
<1> QED BY <1>2, <1>3, <1>4, <1>6

LEMMA AnswersStep ==
    ASSUME Types, Types', Answers, Clocks, [Next]_vars
    PROVE  Answers'
<1>a. \A n \in Peer : Other(n) \in Peer /\ Other(Other(n)) = n /\ Other(n) # n
                      /\ \A m \in Peer : m = n \/ m = Other(n)
  BY Others
<1>b. \A r \in Request : From[r] \in Peer /\ To(r) \in Peer
  BY RequestAssumption, Others DEF To
<1> SUFFICES \A n \in Peer : Answer(acc'[n], acc'[Other(n)])
  BY <1>a DEF Answers, Answer
<1>c. \A n \in Peer : Answer(acc[n], acc[Other(n)])
  BY <1>a DEF Answers, Answer
<1>d. \A n \in Peer : KeepsAnswer(acc[n], acc[n])
  BY DEF KeepsAnswer
<1>e. (\A n \in Peer : KeepsAnswer(acc[n], acc'[n])) => \A n \in Peer : Answer(acc'[n], acc'[Other(n)])
  <2> SUFFICES ASSUME \A n \in Peer : KeepsAnswer(acc[n], acc'[n]), NEW n \in Peer
               PROVE  Answer(acc'[n], acc'[Other(n)])
    OBVIOUS
  <2>1. /\ KeepsAnswer(acc[n], acc'[n]) /\ acc'[Other(n)].incoming = acc[Other(n)].incoming
        /\ Answer(acc[n], acc[Other(n)])
    BY <1>a, <1>c DEF KeepsAnswer
  <2> QED BY <2>1 DEF Answer, KeepsAnswer
<1>f. \A n \in Peer : OnlyAt(n) /\ KeepsAnswer(acc[n], acc'[n])
                      => \A m \in Peer : Answer(acc'[m], acc'[Other(m)])
  <2> SUFFICES ASSUME NEW n \in Peer, OnlyAt(n), KeepsAnswer(acc[n], acc'[n])
               PROVE  \A m \in Peer : KeepsAnswer(acc[m], acc'[m])
    BY <1>e
  <2> QED BY <1>d DEF OnlyAt
<1>g. \A a, b : Settled(a, b) => KeepsAnswer(a, b)
  BY DEF Settled, SameTimes, KeepsAnswer
<1>1. ASSUME NEW r \in Request, PrepareCredit(r) PROVE \A m \in Peer : Answer(acc'[m], acc'[Other(m)])
  BY <1>b, <1>f, <1>g, <1>1, PrepareCreditEffect
<1>2. ASSUME NEW r \in Request, ApplyCredit(r) PROVE \A m \in Peer : Answer(acc'[m], acc'[Other(m)])
  BY <1>b, <1>f, <1>g, <1>2, ApplyCreditEffect
<1>3. ASSUME NEW r \in Request, CleanupCredit(r) PROVE \A m \in Peer : Answer(acc'[m], acc'[Other(m)])
  BY <1>b, <1>f, <1>g, <1>3, CleanupCreditEffect
<1>4. ASSUME NEW r \in Request, PrepareDebit(r) PROVE \A m \in Peer : Answer(acc'[m], acc'[Other(m)])
  <2>1. OnlyAt(To(r)) /\ SameTimes(acc[To(r)], acc'[To(r)]) /\ acc'[To(r)].refresh = acc[To(r)].refresh
    BY <1>4, PrepareDebitEffect
  <2> QED BY <1>b, <1>f, <2>1 DEF KeepsAnswer, SameTimes
<1>5. ASSUME NEW r \in Request, Deliver(r) PROVE \A m \in Peer : Answer(acc'[m], acc'[Other(m)])
  BY <1>d, <1>e, <1>5, DeliverEffect
<1>6. ASSUME NEW r \in Request, ApplyDebit(r) PROVE \A m \in Peer : Answer(acc'[m], acc'[Other(m)])
  <2>1. OnlyAt(To(r)) /\ SameTimes(acc[To(r)], acc'[To(r)]) /\ acc'[To(r)].refresh = acc[To(r)].refresh
    BY <1>6, ApplyDebitEffect
  <2> QED BY <1>b, <1>f, <2>1 DEF KeepsAnswer, SameTimes
<1>7. ASSUME NEW r \in Request, CleanupDebit(r) PROVE \A m \in Peer : Answer(acc'[m], acc'[Other(m)])
  <2>1. OnlyAt(To(r)) /\ SameTimes(acc[To(r)], acc'[To(r)]) /\ acc'[To(r)].refresh = acc[To(r)].refresh
    BY <1>7, CleanupDebitEffect
  <2> QED BY <1>b, <1>f, <2>1 DEF KeepsAnswer, SameTimes
<1>8. ASSUME NEW n \in Peer, RefreshAccept(n) PROVE \A m \in Peer : Answer(acc'[m], acc'[Other(m)])
  <2> DEFINE amount == Accepted(acc[Other(n)], acc[n].refresh.amount)
  <2>1. now # acc[Other(n)].refreshReceived
    BY <1>8, NotRefused
  <2>2. /\ \/ now = acc[Other(n)].refreshReceived
           \/ /\ acc'[n].refresh = [pc |-> "acked", amount |-> acc[n].refresh.amount,
                                   accepted |-> amount, time |-> now]
              /\ acc'[Other(n)].incoming = [pending |-> TRUE, amount |-> amount, time |-> now]
        /\ SameTimes(acc[n], acc'[n]) /\ acc'[Other(n)].refresh = acc[Other(n)].refresh
        /\ Connected
    BY <1>8, RefreshAcceptEffect
  <2>3. amount >= 0
    <3>1. acc[Other(n)].refreshReceived <= now
      BY <1>a, <2>2 DEF Clocks, Clock
    <3>2. acc[n].refresh.amount \in Nat
      BY DEF Types, Loose
    <3> QED BY <1>a, <3>1, <3>2, AcceptedIsPositive
  <2> HIDE DEF amount
  <2>4. Answer(acc'[n], acc'[Other(n)])
    BY <2>1, <2>2, <2>3 DEF Answer
  <2>5. Answer(acc'[Other(n)], acc'[n])
    <3>1. Answer(acc[Other(n)], acc[n])
      BY <1>a, <1>c
    <3> QED BY <2>2, <3>1 DEF Answer, SameTimes
  <2> QED BY <1>a, <2>4, <2>5
<1>9. ASSUME NEW n \in Peer, RefreshReceived(n) PROVE \A m \in Peer : Answer(acc'[m], acc'[Other(m)])
  <2>1. OnlyAt(n) /\ acc'[n].refresh = acc[n].refresh /\ acc'[n].incoming = NewPeer.incoming
    BY <1>9, RefreshReceivedEffect
  <2>2. acc'[Other(n)] = acc[Other(n)]
    BY <1>a, <2>1 DEF OnlyAt
  <2>3. Answer(acc'[n], acc'[Other(n)])
    BY <1>c, <2>1, <2>2 DEF Answer
  <2>4. Answer(acc'[Other(n)], acc'[n])
    <3>1. Answer(acc[Other(n)], acc[n])
      BY <1>a, <1>c
    <3> QED BY <2>1, <2>2, <3>1 DEF Answer, NewPeer
  <2> QED BY <1>a, <2>3, <2>4
<1>10. ASSUME NEW n \in Peer, RefreshSent(n) PROVE \A m \in Peer : Answer(acc'[m], acc'[Other(m)])
  <2>1. OnlyAt(n) /\ KeepsAnswer(acc[n], acc'[n])
    BY <1>10, RefreshSentEffect DEF NewPeer, KeepsAnswer
  <2> QED BY <1>f, <2>1
<1>11. ASSUME NEW n \in Peer, RefreshFails(n) PROVE \A m \in Peer : Answer(acc'[m], acc'[Other(m)])
  <2>1. OnlyAt(n) /\ KeepsAnswer(acc[n], acc'[n])
    BY <1>11, RefreshFailsEffect DEF NewPeer, KeepsAnswer
  <2> QED BY <1>f, <2>1
<1>12. ASSUME NEW n \in Peer, PaymentReceived(n) PROVE \A m \in Peer : Answer(acc'[m], acc'[Other(m)])
  <2>1. /\ SameTimes(acc[n], acc'[n]) /\ acc'[n].refresh = acc[n].refresh
        /\ SameTimes(acc[Other(n)], acc'[Other(n)])
        /\ acc'[Other(n)].refresh = acc[Other(n)].refresh
    BY <1>12, PaymentReceivedEffect
  <2>2. KeepsAnswer(acc[n], acc'[n]) /\ KeepsAnswer(acc[Other(n)], acc'[Other(n)])
    BY <2>1 DEF KeepsAnswer, SameTimes
  <2> QED BY <1>a, <1>e, <2>2
<1>13. ASSUME NEW n \in Peer, PaymentSent(n) PROVE \A m \in Peer : Answer(acc'[m], acc'[Other(m)])
  <2>1. OnlyAt(n) /\ KeepsAnswer(acc[n], acc'[n])
    BY <1>13, PaymentSentEffect DEF SameTimes, KeepsAnswer
  <2> QED BY <1>f, <2>1
<1>14. ASSUME NEW n \in Peer, PaymentFails(n) PROVE \A m \in Peer : Answer(acc'[m], acc'[Other(m)])
  <2>1. OnlyAt(n) /\ KeepsAnswer(acc[n], acc'[n])
    BY <1>14, PaymentFailsEffect DEF SameTimes, KeepsAnswer
  <2> QED BY <1>f, <2>1
<1>15. ASSUME Tick PROVE \A m \in Peer : Answer(acc'[m], acc'[Other(m)])
  BY <1>d, <1>e, <1>15, TickEffect
<1>16. ASSUME UNCHANGED vars PROVE \A m \in Peer : Answer(acc'[m], acc'[Other(m)])
  BY <1>d, <1>e, <1>16 DEF vars
<1> QED BY <1>1, <1>2, <1>3, <1>4, <1>5, <1>6, <1>7, <1>8, <1>9, <1>10,
          <1>11, <1>12, <1>13, <1>14, <1>15, <1>16 DEF Next

-----------------------------------------------------------------------------
(* Last, from the record of the peer that accepts.                              *)
LastOf(b) == IF b.incoming.pending THEN b.incoming.time ELSE b.refreshReceived

(* Clock, of the record of a peer and what it knows of its own refreshments, at *)
(* the time t, where the other peer has accepted the last one at the time last. *)
ClockOf(a, last, t) ==
    /\ last <= t /\ a.refreshReceived <= t
    /\ a.refresh.pc = "none" => a.sentTime = last /\ (last <= a.refreshTime \/ last < t)
    /\ a.refresh.pc = "sent" => a.sentTime = last /\ last < t
    /\ a.refresh.pc = "acked" => a.refresh.time = last
    /\ a.refresh.pc # "refused"

KeepsClock(a, b) == SameTimes(a, b) /\ b.refresh = a.refresh

LEMMA SettledKeepsClock ==
    ASSUME NEW a \in Loose, NEW b \in Loose, NEW last \in Nat, now \in Nat,
           Settled(a, b), ClockOf(a, last, now)
    PROVE  ClockOf(b, last, now)
BY DEF Settled, SameTimes, ClockOf, Loose

LEMMA ClocksStep ==
    ASSUME Types, Types', Clocks, [Next]_vars
    PROVE  Clocks'
<1> SUFFICES ASSUME Connected'
             PROVE  \A n \in Peer : ClockOf(acc'[n], LastOf(acc'[Other(n)]), now')
  BY DEF Clocks, Clock, Last, LastOf, ClockOf
<1>a. \A n \in Peer : Other(n) \in Peer /\ Other(Other(n)) = n /\ Other(n) # n
                      /\ \A m \in Peer : m = n \/ m = Other(n)
  BY Others
<1>b. \A r \in Request : From[r] \in Peer /\ To(r) \in Peer
  BY RequestAssumption, Others DEF To
<1>c. \A n \in Peer : ClockOf(acc[n], LastOf(acc[Other(n)]), now)
  BY StaysDisconnected DEF Clocks, Clock, Last, LastOf, ClockOf
<1>d. now \in Nat /\ now' \in Nat
      /\ \A n \in Peer : /\ acc[n] \in Loose /\ acc'[n] \in Loose
                         /\ LastOf(acc[n]) \in Nat /\ acc[n].refreshReceived \in Nat
  <2>1. \A n \in Peer : acc[n] \in Loose /\ acc'[n] \in Loose
    BY DEF Types
  <2>2. \A n \in Peer : LastOf(acc[n]) \in Nat /\ acc[n].refreshReceived \in Nat
    BY <2>1 DEF LastOf, Loose
  <2> QED BY <2>1, <2>2, RateAssumption DEF Types
<1>e. \A a, b : SameTimes(a, b) => LastOf(b) = LastOf(a)
  BY DEF SameTimes, LastOf
<1>f. (\A n \in Peer : KeepsClock(acc[n], acc'[n])) /\ now <= now'
      => \A n \in Peer : ClockOf(acc'[n], LastOf(acc'[Other(n)]), now')
  <2> SUFFICES ASSUME \A n \in Peer : KeepsClock(acc[n], acc'[n]), now <= now', NEW n \in Peer
               PROVE  ClockOf(acc'[n], LastOf(acc'[Other(n)]), now')
    OBVIOUS
  <2> DEFINE last == LastOf(acc[Other(n)])
  <2>1. last \in Nat /\ LastOf(acc'[Other(n)]) = last /\ ClockOf(acc[n], last, now)
    BY <1>a, <1>c, <1>d, <1>e DEF KeepsClock
  <2>2. SameTimes(acc[n], acc'[n]) /\ acc'[n].refresh = acc[n].refresh
    BY DEF KeepsClock
  <2> HIDE DEF last
  <2>3. ClockOf(acc'[n], last, now')
    BY <1>d, <2>1, <2>2 DEF ClockOf, SameTimes
  <2> QED BY <2>1, <2>3
<1>g. ASSUME NEW n \in Peer, OnlyAt(n), KeepsClock(acc[n], acc'[n]), now' = now
      PROVE  \A m \in Peer : ClockOf(acc'[m], LastOf(acc'[Other(m)]), now')
  <2>1. \A m \in Peer : KeepsClock(acc[m], acc'[m])
    BY <1>g DEF OnlyAt, KeepsClock, SameTimes
  <2> QED BY <1>d, <1>f, <1>g, <2>1
<1>h. ASSUME NEW n \in Peer, OnlyAt(n), LastOf(acc'[n]) = LastOf(acc[n]), now' = now,
             ClockOf(acc'[n], LastOf(acc[Other(n)]), now)
      PROVE  \A m \in Peer : ClockOf(acc'[m], LastOf(acc'[Other(m)]), now')
  <2>1. acc'[Other(n)] = acc[Other(n)] /\ ClockOf(acc[Other(n)], LastOf(acc[n]), now)
    BY <1>a, <1>c, <1>h DEF OnlyAt
  <2> QED BY <1>a, <1>h, <2>1
<1>i. ASSUME NEW n \in Peer, OnlyAt(n), Settled(acc[n], acc'[n]), now' = now
      PROVE  \A m \in Peer : ClockOf(acc'[m], LastOf(acc'[Other(m)]), now')
  <2>1. LastOf(acc'[n]) = LastOf(acc[n])
    BY <1>e, <1>i DEF Settled
  <2>2. LastOf(acc[Other(n)]) \in Nat /\ ClockOf(acc[n], LastOf(acc[Other(n)]), now)
    BY <1>a, <1>c, <1>d
  <2>3. ClockOf(acc'[n], LastOf(acc[Other(n)]), now)
    BY <1>d, <1>i, <2>2, SettledKeepsClock
  <2> QED BY <1>h, <1>i, <2>1, <2>3
<1>1. ASSUME NEW r \in Request, PrepareCredit(r) PROVE \A m \in Peer : ClockOf(acc'[m], LastOf(acc'[Other(m)]), now')
  BY <1>b, <1>i, <1>1, PrepareCreditEffect
<1>2. ASSUME NEW r \in Request, ApplyCredit(r) PROVE \A m \in Peer : ClockOf(acc'[m], LastOf(acc'[Other(m)]), now')
  BY <1>b, <1>i, <1>2, ApplyCreditEffect
<1>3. ASSUME NEW r \in Request, CleanupCredit(r) PROVE \A m \in Peer : ClockOf(acc'[m], LastOf(acc'[Other(m)]), now')
  BY <1>b, <1>i, <1>3, CleanupCreditEffect
<1>4. ASSUME NEW r \in Request, PrepareDebit(r) PROVE \A m \in Peer : ClockOf(acc'[m], LastOf(acc'[Other(m)]), now')
  <2>1. /\ OnlyAt(To(r)) /\ SameTimes(acc[To(r)], acc'[To(r)])
        /\ acc'[To(r)].refresh = acc[To(r)].refresh /\ now' = now
    BY <1>4, PrepareDebitEffect
  <2> QED BY <1>b, <1>g, <2>1 DEF KeepsClock
<1>5. ASSUME NEW r \in Request, Deliver(r) PROVE \A m \in Peer : ClockOf(acc'[m], LastOf(acc'[Other(m)]), now')
  BY <1>d, <1>f, <1>5, DeliverEffect DEF KeepsClock, SameTimes
<1>6. ASSUME NEW r \in Request, ApplyDebit(r) PROVE \A m \in Peer : ClockOf(acc'[m], LastOf(acc'[Other(m)]), now')
  <2>1. /\ OnlyAt(To(r)) /\ SameTimes(acc[To(r)], acc'[To(r)])
        /\ acc'[To(r)].refresh = acc[To(r)].refresh /\ now' = now
    BY <1>6, ApplyDebitEffect
  <2> QED BY <1>b, <1>g, <2>1 DEF KeepsClock
<1>7. ASSUME NEW r \in Request, CleanupDebit(r) PROVE \A m \in Peer : ClockOf(acc'[m], LastOf(acc'[Other(m)]), now')
  <2>1. /\ OnlyAt(To(r)) /\ SameTimes(acc[To(r)], acc'[To(r)])
        /\ acc'[To(r)].refresh = acc[To(r)].refresh /\ now' = now
    BY <1>7, CleanupDebitEffect
  <2> QED BY <1>b, <1>g, <2>1 DEF KeepsClock
<1>8. ASSUME NEW n \in Peer, RefreshAccept(n) PROVE \A m \in Peer : ClockOf(acc'[m], LastOf(acc'[Other(m)]), now')
  <2> DEFINE a == acc[n]
             b == acc'[n]
             c == acc[Other(n)]
             d == acc'[Other(n)]
             amount == Accepted(c, a.refresh.amount)
  <2>1. now # c.refreshReceived
    BY <1>8, NotRefused
  <2>2. /\ \/ now = c.refreshReceived
           \/ /\ b.refresh = [pc |-> "acked", amount |-> a.refresh.amount,
                              accepted |-> amount, time |-> now]
              /\ d.incoming = [pending |-> TRUE, amount |-> amount, time |-> now]
        /\ SameTimes(a, b) /\ d.refresh = c.refresh
        /\ d.refreshReceived = c.refreshReceived
        /\ d.refreshTime = c.refreshTime /\ d.sentTime = c.sentTime /\ now' = now
    BY <1>8, RefreshAcceptEffect
  <2>3. ClockOf(a, LastOf(c), now) /\ ClockOf(c, LastOf(a), now) /\ LastOf(b) = LastOf(a)
    BY <1>a, <1>c, <1>e, <2>2
  <2> HIDE DEF amount, a, b, c, d
  <2>4. LastOf(d) = now /\ b.refresh.pc = "acked" /\ b.refresh.time = now
        /\ b.refreshReceived = a.refreshReceived
    BY <2>1, <2>2 DEF LastOf, SameTimes
  <2>5. ClockOf(b, LastOf(d), now)
    BY <1>d, <2>3, <2>4 DEF ClockOf
  <2>6. ClockOf(d, LastOf(b), now)
    BY <2>2, <2>3 DEF ClockOf
  <2> QED BY <1>a, <2>2, <2>5, <2>6 DEF b, d
<1>9. ASSUME NEW n \in Peer, RefreshReceived(n) PROVE \A m \in Peer : ClockOf(acc'[m], LastOf(acc'[Other(m)]), now')
  <2>1. /\ OnlyAt(n) /\ acc'[n].refresh = acc[n].refresh /\ acc'[n].incoming = NewPeer.incoming
        /\ acc'[n].refreshTime = acc[n].refreshTime /\ acc'[n].sentTime = acc[n].sentTime
        /\ acc'[n].refreshReceived = acc[n].incoming.time /\ acc[n].incoming.pending /\ now' = now
    BY <1>9, RefreshReceivedEffect
  <2>2. LastOf(acc[n]) = acc[n].incoming.time /\ LastOf(acc'[n]) = LastOf(acc[n])
    BY <2>1 DEF LastOf, NewPeer
  <2>3. ClockOf(acc[n], LastOf(acc[Other(n)]), now) /\ ClockOf(acc[Other(n)], LastOf(acc[n]), now)
    BY <1>a, <1>c
  <2>4. ClockOf(acc'[n], LastOf(acc[Other(n)]), now)
    BY <2>1, <2>2, <2>3 DEF ClockOf
  <2> QED BY <1>h, <2>1, <2>2, <2>4
<1>10. ASSUME NEW n \in Peer, RefreshSent(n) PROVE \A m \in Peer : ClockOf(acc'[m], LastOf(acc'[Other(m)]), now')
  <2>1. /\ OnlyAt(n) /\ acc'[n].refreshReceived = acc[n].refreshReceived
        /\ acc'[n].incoming = acc[n].incoming /\ acc'[n].refresh.pc = "none" /\ now' = now
        /\ acc[n].refresh.pc = "acked"
        /\ acc'[n].refreshTime = now /\ acc'[n].sentTime = acc[n].refresh.time
    BY <1>10, RefreshSentEffect DEF NewPeer, Connected
  <2>2. LastOf(acc'[n]) = LastOf(acc[n]) /\ ClockOf(acc[n], LastOf(acc[Other(n)]), now)
    BY <1>c, <2>1 DEF LastOf
  <2>3. ClockOf(acc'[n], LastOf(acc[Other(n)]), now)
    BY <2>1, <2>2 DEF ClockOf
  <2> QED BY <1>h, <2>1, <2>2, <2>3
<1>11. ASSUME NEW n \in Peer, RefreshFails(n) PROVE \A m \in Peer : ClockOf(acc'[m], LastOf(acc'[Other(m)]), now')
  <2>1. /\ OnlyAt(n) /\ acc'[n].refreshReceived = acc[n].refreshReceived
        /\ acc'[n].incoming = acc[n].incoming /\ acc'[n].refresh.pc = "none" /\ now' = now
        /\ acc[n].refresh.pc = "sent" /\ acc'[n].sentTime = acc[n].sentTime
    BY <1>11, RefreshFailsEffect DEF NewPeer, Connected
  <2>2. LastOf(acc'[n]) = LastOf(acc[n]) /\ ClockOf(acc[n], LastOf(acc[Other(n)]), now)
    BY <1>c, <2>1 DEF LastOf
  <2>3. ClockOf(acc'[n], LastOf(acc[Other(n)]), now)
    BY <2>1, <2>2 DEF ClockOf
  <2> QED BY <1>h, <2>1, <2>2, <2>3
<1>12. ASSUME NEW n \in Peer, PaymentReceived(n) PROVE \A m \in Peer : ClockOf(acc'[m], LastOf(acc'[Other(m)]), now')
  <2>1. /\ KeepsClock(acc[n], acc'[n]) /\ KeepsClock(acc[Other(n)], acc'[Other(n)]) /\ now' = now
    BY <1>12, PaymentReceivedEffect DEF KeepsClock
  <2>2. now <= now'
    BY <1>d, <2>1
  <2> QED BY <1>a, <1>f, <2>1, <2>2
<1>13. ASSUME NEW n \in Peer, PaymentSent(n) PROVE \A m \in Peer : ClockOf(acc'[m], LastOf(acc'[Other(m)]), now')
  <2>1. OnlyAt(n) /\ KeepsClock(acc[n], acc'[n]) /\ now' = now
    BY <1>13, PaymentSentEffect DEF KeepsClock
  <2> QED BY <1>g, <2>1
<1>14. ASSUME NEW n \in Peer, PaymentFails(n) PROVE \A m \in Peer : ClockOf(acc'[m], LastOf(acc'[Other(m)]), now')
  <2>1. OnlyAt(n) /\ KeepsClock(acc[n], acc'[n]) /\ now' = now
    BY <1>14, PaymentFailsEffect DEF KeepsClock
  <2> QED BY <1>g, <2>1
<1>15. ASSUME Tick PROVE \A m \in Peer : ClockOf(acc'[m], LastOf(acc'[Other(m)]), now')
  <2>1. now <= now' /\ acc' = acc
    BY <1>d, <1>15, TickEffect
  <2> QED BY <1>f, <2>1 DEF KeepsClock, SameTimes
<1>16. ASSUME UNCHANGED vars PROVE \A m \in Peer : ClockOf(acc'[m], LastOf(acc'[Other(m)]), now')
  BY <1>d, <1>f, <1>16 DEF vars, KeepsClock, SameTimes
<1> QED BY <1>1, <1>2, <1>3, <1>4, <1>5, <1>6, <1>7, <1>8, <1>9, <1>10,
          <1>11, <1>12, <1>13, <1>14, <1>15, <1>16 DEF Next

-----------------------------------------------------------------------------
LEMMA InvInit ==
    ASSUME Init
    PROVE  Inv
<1>1. /\ acc = [n \in Peer |-> NewPeer] /\ now = Start /\ faults = 0
      /\ client = [r \in Request |-> "new"] /\ server = [r \in Request |-> "new"]
  BY DEF Init
<1>2. NewPeer \in Loose
  BY DEF NewPeer, Loose
<1>3. \A n \in Peer : acc[n] = NewPeer /\ acc[Other(n)] = NewPeer
  BY <1>1, Others
<1>4. Types
  BY <1>1, <1>2, RateAssumption DEF Types
<1>5. Order
  BY <1>1 DEF Order
<1>6. /\ Debited = {} /\ Credited = {} /\ \A n \in Peer : Asked(n) = {} /\ Serving(n) = {}
  BY <1>1 DEF Debited, Credited, Asked, Serving
<1>7. Reserves
  <2>1. \A n \in Peer : acc[n].reserved = 0
    BY <1>3 DEF NewPeer
  <2>2. \A n \in Peer : Worth(Asked(n)) = 0
    BY <1>6, WorthRules
  <2> QED BY <2>1, <2>2 DEF Reserves
<1>8. Shadows
  <2>1. \A n \in Peer : acc[n].shadow = 0 /\ Paying(acc[n]) = 0
    BY <1>3 DEF NewPeer, Paying
  <2>2. \A n \in Peer : Worth(Serving(n)) = 0
    BY <1>6, WorthRules
  <2> QED BY <2>1, <2>2 DEF Shadows
<1>9. Balanced
  <2>1. \A n \in Peer : Pair(acc[n], acc[Other(n)]) = 0
    BY <1>3 DEF Pair, BookOf, NewPeer
  <2>2. Worth(Debited) - Worth(Credited) = 0
    BY <1>6, WorthRules
  <2> QED BY <2>1, <2>2, BooksAreThePair DEF Balanced
<1>10. Attempts /\ Answers
  BY <1>3 DEF Attempts, Answers, NewPeer
<1>11. OwnDebt
  <2>1. Neg(0) = 0
    BY SignedParts
  <2> QED BY <1>3, <2>1 DEF OwnDebt, NewPeer
<1>12. Clocks
  <2>1. Start \in Nat
    BY RateAssumption
  <2>2. \A n \in Peer : Last(n) = 0
    BY <1>3 DEF Last, NewPeer
  <2> QED BY <1>1, <1>3, <2>1, <2>2 DEF Clocks, Clock, NewPeer
<1> QED BY <1>4, <1>5, <1>7, <1>8, <1>9, <1>10, <1>11, <1>12 DEF Inv

LEMMA InvStep ==
    ASSUME Inv, [Next]_vars
    PROVE  Inv'
<1>1. /\ Types /\ Order /\ Reserves /\ Shadows /\ Balanced
      /\ Attempts /\ OwnDebt /\ Answers /\ Clocks
  BY DEF Inv
<1>2. Types'
  BY <1>1, TypesStep
<1>3. Order'
  BY <1>1, OrderStep
<1>4. Reserves'
  BY <1>1, <1>2, ReserveChanges, ReservesStep
<1>5. Shadows'
  BY <1>1, <1>2, ShadowChanges, ShadowsStep
<1>6. Balanced'
  BY <1>1, <1>2, BalancedStep
<1>7. Attempts' /\ OwnDebt'
  BY <1>1, <1>2, AttemptsStep, OwnDebtStep
<1>8. Answers' /\ Clocks'
  BY <1>1, <1>2, AnswersStep, ClocksStep
<1> QED BY <1>2, <1>3, <1>4, <1>5, <1>6, <1>7, <1>8 DEF Inv

(* What is reserved is under way, the books balance, and both peers know of the *)
(* same refreshments, at the same times.                                        *)
THEOREM Invariant == Spec => []Inv
<1>1. Init => Inv
  BY InvInit
<1>2. Inv /\ [Next]_vars => Inv'
  BY InvStep
<1> QED BY <1>1, <1>2, PTL DEF Spec

-----------------------------------------------------------------------------
(* The shadow reserve never goes below zero, whatever is prepared, cleaned up,  *)
(* paid and failed: nothing is taken out of it that was not put in.             *)
THEOREM TypeCorrect == Spec => []TypeOK
<1>1. Inv => TypeOK
  <2> SUFFICES ASSUME Inv PROVE TypeOK
    OBVIOUS
  <2>1. Types /\ Shadows /\ Answers
    BY DEF Inv
  <2>2. ASSUME NEW n \in Peer PROVE acc[n] \in PeerState
    <3> DEFINE a == acc[n]
    <3>1. a \in Loose
      BY <2>1 DEF Types
    <3>2. a.shadow \in Nat
      <4>1. Serving(n) \in SUBSET Request
        BY DEF Serving
      <4>2. Worth(Serving(n)) \in Int /\ 0 <= Worth(Serving(n))
        BY <4>1, WorthRules, WorthGrows
      <4>3. Paying(a) \in Nat
        BY <3>1 DEF Paying, Loose
      <4> QED BY <2>1, <4>2, <4>3 DEF Shadows
    <3>3. a.refresh.accepted >= 0 /\ a.incoming.amount >= 0
      BY <2>1 DEF Answers
    <3> HIDE DEF a
    <3>4. /\ a.refresh \in [pc : {"none", "sent", "acked", "refused"}, amount : Nat, accepted : Nat, time : Nat]
          /\ a.incoming \in [pending : BOOLEAN, amount : Nat, time : Nat]
      BY <3>1, <3>3 DEF Loose
    <3>5. a \in PeerState
      BY <3>1, <3>2, <3>4 DEF Loose, PeerState
    <3> QED BY <3>5 DEF a
  <2> QED BY <2>1, <2>2 DEF Types, TypeOK
<1> QED BY <1>1, Invariant, PTL

(* In every state what a peer has reserved is the price of its requests under   *)
(* way, and of connected peers the two books cancel out, but for the requests   *)
(* that only one of them has entered.                                           *)
THEOREM BooksAlwaysBalance == Spec => []BooksBalance
<1>1. Inv => BooksBalance
  BY DEF Inv, Reserves, Asked, ReservedIsUnderWay, BooksBalance, Balanced, Debited, Credited
<1> QED BY <1>1, Invariant, PTL

(* A peer's debt of its own is debt: no order of debits, refreshments and       *)
(* cheques leaves more of it than it owes.                                      *)
THEOREM OwnDebtIsAlwaysOwed == Spec => []OwnDebtIsOwed
<1>1. Inv => OwnDebtIsOwed
  <2> SUFFICES ASSUME Inv, NEW n \in Peer
               PROVE  0 - acc[n].originated <= Pos(0 - acc[n].balance)
    BY DEF OwnDebtIsOwed
  <2>1. acc[n].balance \in Int /\ acc[n].originated \in Int
    BY DEF Inv, Types, Loose
  <2>2. 0 - acc[n].balance \in Int
    BY <2>1
  <2>3. /\ Neg(acc[n].balance) = IF acc[n].balance <= 0 THEN acc[n].balance ELSE 0
        /\ Pos(0 - acc[n].balance) = IF 0 - acc[n].balance >= 0 THEN 0 - acc[n].balance ELSE 0
    BY <2>1, <2>2, SignedParts
  <2>4. Neg(acc[n].balance) <= acc[n].originated
    BY DEF Inv, OwnDebt
  <2> QED BY <2>1, <2>3, <2>4
<1> QED BY <1>1, Invariant, PTL

-----------------------------------------------------------------------------
(* What two connected peers owe each other and may come to owe is never         *)
(* negative: who is to be paid has entered the debt, or has it in reserve,      *)
(* before the other one enters the credit. It fails only while a refreshment of *)
(* the other peer is entered here and not there.                                *)
LEMMA DebtIsKnown ==
    ASSUME Inv, Connected, NEW n \in Peer, acc[n].refresh.pc = "sent",
           ~acc[Other(n)].incoming.pending, ~Crossed(n)
    PROVE  0 - acc[n].balance - acc[n].shadow <= acc[Other(n)].balance + acc[Other(n)].shadow
<1> DEFINE m == Other(n)
           a == acc[n]
           c == acc[m]
           W == Worth(Serving(n))
           V == Worth(Serving(m))
<1>1. m \in Peer /\ m # n /\ a \in Loose /\ c \in Loose /\ \A k \in Peer : k = n \/ k = m
  BY Others DEF Inv, Types
<1>2. Pair(a, c) = Worth(Debited) - Worth(Credited)
  BY BooksAreThePair DEF Inv, Balanced
<1>3. a.shadow = W + Paying(a) /\ c.shadow = V + Paying(c)
  BY <1>1 DEF Inv, Shadows
<1>4. Worth(Credited) <= Worth(Debited) + W + V
  <2> DEFINE S == Serving(n)
             Q == Serving(m)
             D == Debited
             U == (D \cup S) \cup Q
  <2>1. /\ S \in SUBSET Request /\ Q \in SUBSET Request /\ D \in SUBSET Request
        /\ D \cap S = {} /\ (D \cup S) \cap Q = {}
    BY <1>1 DEF Serving, Debited
  <2>2. Credited \in SUBSET U
    <3>1. \A r \in Request : To(r) \in Peer
      BY RequestAssumption, Others DEF To
    <3>2. \A r \in Request : client[r] = "applied" => server[r] \in {"delivered", "applied"}
      BY DEF Inv, Order
    <3> QED BY <1>1, <3>1, <3>2 DEF Credited, Debited, Serving
  <2> HIDE DEF S, Q, D
  <2>3. Worth(D \cup S) = Worth(D) + Worth(S)
    BY <2>1, WorthAdds
  <2>4. Worth(U) = Worth(D \cup S) + Worth(Q)
    <3> DEFINE T == D \cup S
    <3>1. T \in SUBSET Request /\ T \cap Q = {}
      BY <2>1
    <3> HIDE DEF T
    <3>2. Worth(T \cup Q) = Worth(T) + Worth(Q)
      BY <2>1, <3>1, WorthAdds
    <3> QED BY <3>2 DEF T
  <2>5. U \in SUBSET Request
    BY <2>1
  <2> HIDE DEF U
  <2>6. Worth(Credited) <= Worth(U)
    BY <2>2, <2>5, WorthGrows
  <2>7. Worth(D) \in Int /\ Worth(S) \in Int /\ Worth(Q) \in Int
    BY <2>1, WorthRules
  <2> QED BY <2>3, <2>4, <2>6, <2>7 DEF S, Q, D
<1>5. Worth(Debited) \in Int /\ Worth(Credited) \in Int /\ W \in Int /\ V \in Int
  <2>1. /\ Debited \in SUBSET Request /\ Credited \in SUBSET Request
        /\ Serving(n) \in SUBSET Request /\ Serving(m) \in SUBSET Request
    BY DEF Debited, Credited, Serving
  <2> QED BY <2>1, WorthRules
<1>6. a.incoming.amount >= 0 /\ ~c.incoming.pending /\ a.refresh.pc = "sent"
      /\ (c.refresh.pc # "acked" \/ a.incoming.pending)
  BY DEF Inv, Answers, Crossed
<1> HIDE DEF a, c, W, V
<1>7. Money(a) <= a.balance + Paying(a) /\ Money(c) <= c.balance + Paying(c)
  BY <1>1 DEF Money, Paying, Loose
<1>8. Flight(a, c) = 0
  BY <1>6 DEF Flight
<1>9. Flight(c, a) <= 0
  <2>1. a.incoming.amount \in Int
    BY <1>1 DEF Loose
  <2> QED BY <1>6, <2>1 DEF Flight
<1>10. /\ Money(a) \in Int /\ Money(c) \in Int /\ Flight(c, a) \in Int
       /\ Pair(a, c) = Money(a) + Money(c) + Flight(a, c) + Flight(c, a)
  BY <1>1, PairIs
<1>11. a.balance \in Int /\ c.balance \in Int /\ Paying(a) \in Int /\ Paying(c) \in Int
  BY <1>1 DEF Loose, Paying
<1>12. 0 - a.balance - a.shadow <= c.balance + c.shadow
  BY <1>2, <1>3, <1>4, <1>5, <1>7, <1>8, <1>9, <1>10, <1>11
<1> QED BY <1>12 DEF a, c

(* The bounds of what is expected, and of what is accepted.                     *)
LEMMA ExpectedIs ==
    ASSUME NEW a \in Loose
    PROVE  LET time == (a.refresh.time - a.sentTime) * refreshRate
               rest == a.refresh.amount - a.refreshReserved IN
           /\ time \in Int /\ rest \in Int /\ Expected(a) \in Int
           /\ Expected(a) <= time /\ Expected(a) <= rest /\ Expected(a) <= a.refresh.amount
           /\ \A x \in Int : x <= time /\ x <= rest /\ x <= a.refresh.amount => x <= Expected(a)
<1> DEFINE time == (a.refresh.time - a.sentTime) * refreshRate
           rest == a.refresh.amount - a.refreshReserved
           attempt == a.refresh.amount
<1>1. time \in Int /\ rest \in Int /\ attempt \in Int
  BY RateAssumption DEF Loose
<1>2. Expected(a) = Min({time, rest, attempt})
  BY DEF Expected
<1> HIDE DEF time, rest, attempt
<1> DEFINE w == Min({time, rest, attempt})
<1>3. w \in {time, rest, attempt} /\ w <= time /\ w <= rest /\ w <= attempt
  BY <1>1, MinOfThree
<1> HIDE DEF w
<1>4. /\ w \in Int /\ w <= time /\ w <= rest /\ w <= attempt
      /\ \A x \in Int : x <= time /\ x <= rest /\ x <= attempt => x <= w
  BY <1>1, <1>3
<1> QED BY <1>1, <1>2, <1>4 DEF time, rest, attempt, w

(* Of a refreshment that is answered, less is expected the more is reserved.    *)
KeepsShort(a, b) ==
    b.refresh.pc = "acked" => /\ b.refresh = a.refresh /\ b.sentTime = a.sentTime
                              /\ b.refreshReserved >= a.refreshReserved

LEMMA ShortIsKept ==
    ASSUME NEW a \in Loose, NEW b \in Loose, KeepsShort(a, b), Short(b)
    PROVE  Short(a)
<1>1. /\ b.refresh.pc = "acked" /\ Expected(b) > b.refresh.accepted
      /\ b.refresh = a.refresh /\ b.sentTime = a.sentTime /\ b.refreshReserved >= a.refreshReserved
  BY DEF Short, KeepsShort
<1> DEFINE time == (a.refresh.time - a.sentTime) * refreshRate
<1>2. /\ time \in Int /\ Expected(a) \in Int
      /\ \A x \in Int : x <= time /\ x <= a.refresh.amount - a.refreshReserved
                        /\ x <= a.refresh.amount => x <= Expected(a)
  BY ExpectedIs
<1>3. /\ Expected(b) \in Int /\ Expected(b) <= (b.refresh.time - b.sentTime) * refreshRate
      /\ Expected(b) <= b.refresh.amount - b.refreshReserved /\ Expected(b) <= b.refresh.amount
  BY ExpectedIs
<1>4. Expected(b) <= time /\ Expected(b) <= b.refresh.amount - b.refreshReserved
      /\ Expected(b) <= a.refresh.amount
  BY <1>1, <1>3
<1> HIDE DEF time
<1>5. /\ a.refresh.amount \in Int /\ a.refreshReserved \in Int /\ b.refreshReserved \in Int
      /\ a.refresh.accepted \in Int
  BY DEF Loose
<1>6. Expected(b) <= a.refresh.amount - a.refreshReserved
  BY <1>1, <1>3, <1>5
<1>7. Expected(b) <= Expected(a)
  BY <1>2, <1>3, <1>4, <1>6
<1> QED BY <1>1, <1>2, <1>3, <1>5, <1>7 DEF Short

LEMMA SettledKeepsShort ==
    ASSUME NEW a \in Loose, NEW b \in Loose, Settled(a, b)
    PROVE  KeepsShort(a, b) /\ b.blocks = a.blocks
BY DEF Settled, SameTimes, SameShadow, KeepsShort, Loose

(* Unless it crosses another one, an answer is what the peer expects.           *)
LEMMA AnswerIsEnough ==
    ASSUME Inv, NEW n \in Peer, RefreshAccept(n), ~Crossed(n), acc'[n] \in Loose
    PROVE  ~Short(acc'[n])
<1> DEFINE a == acc[n]
           b == acc'[n]
           c == acc[Other(n)]
           attempt == a.refresh.amount
           amount == Accepted(c, attempt)
           time == (now - c.refreshReceived) * refreshRate
           debt == Pos(c.balance + c.shadow)
<1>1. Types /\ Clocks /\ Attempts /\ a \in Loose /\ c \in Loose /\ now \in Int
  BY Others, RateAssumption DEF Inv, Types
<1>2. now # c.refreshReceived
  BY <1>1, NotRefused
<1>3. /\ Connected /\ a.refresh.pc = "sent" /\ ~c.incoming.pending
      /\ SameBooks(a, b) /\ SameTimes(a, b)
      /\ \/ now = c.refreshReceived
         \/ b.refresh = [pc |-> "acked", amount |-> attempt, accepted |-> amount, time |-> now]
  BY <1>1, RefreshAcceptEffect
<1>4. a.sentTime = c.refreshReceived
  BY <1>1, <1>3 DEF Clocks, Clock, Last
<1>5. attempt - a.refreshReserved <= 0 - a.balance - a.shadow
  BY <1>1, <1>3 DEF Attempts
<1>6. 0 - a.balance - a.shadow <= c.balance + c.shadow
  BY <1>3, DebtIsKnown
<1>7. /\ time \in Int /\ c.balance + c.shadow \in Int /\ 0 - a.balance - a.shadow \in Int
      /\ attempt \in Int /\ attempt - a.refreshReserved \in Int
  BY <1>1, RateAssumption DEF Loose
<1>8. debt \in Int /\ c.balance + c.shadow <= debt
  <2> DEFINE x == c.balance + c.shadow
  <2>1. x \in Int
    BY <1>7
  <2> HIDE DEF x
  <2>2. Pos(x) \in Nat /\ x <= Pos(x)
    BY <2>1, SignedParts
  <2> QED BY <2>2 DEF x
<1>9. amount = Min({attempt, time, debt})
  BY DEF Accepted
<1>10. b.refresh.amount = attempt /\ b.refresh.accepted = amount
       /\ (b.refresh.time - b.sentTime) * refreshRate = time
       /\ b.refreshReserved = a.refreshReserved
  BY <1>2, <1>3, <1>4 DEF SameBooks, SameShadow, SameTimes
<1>11. /\ Expected(b) \in Int /\ Expected(b) <= (b.refresh.time - b.sentTime) * refreshRate
       /\ Expected(b) <= b.refresh.amount - b.refreshReserved /\ Expected(b) <= b.refresh.amount
  BY ExpectedIs
<1> HIDE DEF time, debt, amount, attempt, a, b, c
<1>12. amount \in {attempt, time, debt}
  BY <1>7, <1>8, <1>9, MinOfThree
<1>13. Expected(b) <= amount
  BY <1>5, <1>6, <1>7, <1>8, <1>10, <1>11, <1>12
<1>14. amount \in Int
  BY <1>7, <1>8, <1>12
<1>15. ~ (Expected(b) > b.refresh.accepted)
  BY <1>10, <1>11, <1>13, <1>14
<1> QED BY <1>15 DEF Short, b

(* What BlocksOnlyDebtors says of the records before and after a step.          *)
Blocking(n) ==
    /\ acc'[n].blocks /\ ~acc[n].blocks => Owed(acc'[n]) \/ Short(acc[n]) \/ Broken(n)
    /\ Short(acc'[n]) => Short(acc[n]) \/ Crossed(n)

Harmless(a, b) == KeepsShort(a, b) /\ b.blocks = a.blocks

LEMMA BlockingStep ==
    ASSUME Inv, [Next]_vars
    PROVE  \A n \in Peer : Blocking(n)
<1>a. Types /\ Clocks /\ Types'
  <2>1. Types /\ Clocks
    BY DEF Inv
  <2> QED BY <2>1, TypesStep
<1>b. \A r \in Request : From[r] \in Peer /\ To(r) \in Peer
  BY RequestAssumption, Others DEF To
<1>c. \A n \in Peer : acc[n] \in Loose /\ acc'[n] \in Loose
  BY <1>a DEF Types
<1>d. \A n \in Peer : Harmless(acc[n], acc'[n]) => Blocking(n)
  BY <1>c, ShortIsKept DEF Harmless, Blocking
<1>e. \A n \in Peer : acc'[n] = acc[n] => Blocking(n)
  BY DEF Blocking
<1>f. \A n \in Peer : OnlyAt(n) /\ Blocking(n) => \A m \in Peer : Blocking(m)
  BY <1>e DEF OnlyAt
<1>g. \A n \in Peer : Settled(acc[n], acc'[n]) => Harmless(acc[n], acc'[n])
  BY <1>c, SettledKeepsShort DEF Harmless
<1>h. \A n \in Peer : acc[n].refreshReserved \in Int
  BY <1>c DEF Loose
<1>1. ASSUME NEW r \in Request, PrepareCredit(r) PROVE \A m \in Peer : Blocking(m)
  <2>1. OnlyAt(From[r]) /\ Settled(acc[From[r]], acc'[From[r]])
    BY <1>a, <1>1, PrepareCreditEffect
  <2> QED BY <1>b, <1>d, <1>f, <1>g, <2>1
<1>2. ASSUME NEW r \in Request, ApplyCredit(r) PROVE \A m \in Peer : Blocking(m)
  <2>1. OnlyAt(From[r]) /\ Settled(acc[From[r]], acc'[From[r]])
    BY <1>a, <1>2, ApplyCreditEffect
  <2> QED BY <1>b, <1>d, <1>f, <1>g, <2>1
<1>3. ASSUME NEW r \in Request, CleanupCredit(r) PROVE \A m \in Peer : Blocking(m)
  <2>1. OnlyAt(From[r]) /\ Settled(acc[From[r]], acc'[From[r]])
    BY <1>a, <1>3, CleanupCreditEffect
  <2> QED BY <1>b, <1>d, <1>f, <1>g, <2>1
<1>4. ASSUME NEW r \in Request, PrepareDebit(r) PROVE \A m \in Peer : Blocking(m)
  <2> DEFINE a == acc[To(r)]
             b == acc'[To(r)]
  <2>1. /\ OnlyAt(To(r)) /\ b.refresh = a.refresh /\ SameTimes(a, b) /\ b.blocks = a.blocks
        /\ a.refresh.pc # "none" => b.refreshReserved = a.refreshReserved + Price[r]
    BY <1>a, <1>4, PrepareDebitEffect
  <2>2. a.refreshReserved \in Int /\ Price[r] \in Nat
    BY <1>b, <1>h, RequestAssumption
  <2>3. Harmless(a, b)
    BY <2>1, <2>2 DEF Harmless, KeepsShort, SameTimes
  <2> QED BY <1>b, <1>d, <1>f, <2>1, <2>3
<1>5. ASSUME NEW r \in Request, Deliver(r) PROVE \A m \in Peer : Blocking(m)
  BY <1>a, <1>e, <1>5, DeliverEffect
<1>6. ASSUME NEW r \in Request, ApplyDebit(r) PROVE \A m \in Peer : Blocking(m)
  <2> DEFINE n == To(r)
             a == acc[n]
             b == acc'[n]
             time == Min({now - a.refreshReceived, 1}) * refreshRate
  <2>1. /\ OnlyAt(n) /\ SameTimes(a, b) /\ b.refresh = a.refresh
        /\ b.refreshReserved = a.refreshReserved /\ Connected
        /\ b.blocks => b.balance >= disconnectLimit + time
    BY <1>a, <1>6, ApplyDebitEffect
  <2>2. n \in Peer /\ a \in Loose /\ b \in Loose
    BY <1>b, <1>c
  <2>3. time \in Nat
    <3>1. now \in Int /\ a.refreshReceived \in Int /\ a.refreshReceived <= now
      BY <1>a, <2>1, <2>2, RateAssumption DEF Clocks, Clock, Types, Loose
    <3> DEFINE passed == now - a.refreshReceived
    <3>2. passed \in Nat
      BY <3>1
    <3> HIDE DEF passed
    <3>3. Min({passed, 1}) = IF passed <= 1 THEN passed ELSE 1
      BY <3>2, MinMax
    <3>4. Min({passed, 1}) \in Nat
      BY <3>2, <3>3
    <3> QED BY <3>4, RateAssumption DEF passed
  <2>4. KeepsShort(a, b)
    BY <1>h, <2>1, <2>2 DEF KeepsShort, SameTimes
  <2>5. Short(b) => Short(a)
    BY <2>2, <2>4, ShortIsKept
  <2>6. b.blocks => Owed(b)
    <3>1. b.balance \in Int /\ disconnectLimit \in Int
      BY <2>2, RateAssumption DEF Loose
    <3> HIDE DEF time
    <3> QED BY <2>1, <2>3, <3>1 DEF Owed
  <2>7. Blocking(n)
    BY <2>5, <2>6 DEF Blocking
  <2> QED BY <1>f, <2>1, <2>2, <2>7
<1>7. ASSUME NEW r \in Request, CleanupDebit(r) PROVE \A m \in Peer : Blocking(m)
  <2> DEFINE a == acc[To(r)]
             b == acc'[To(r)]
  <2>1. /\ OnlyAt(To(r)) /\ SameTimes(a, b) /\ b.refresh = a.refresh
        /\ b.refreshReserved = a.refreshReserved /\ (b.blocks => b.ghost > disconnectLimit)
    BY <1>a, <1>7, CleanupDebitEffect
  <2>2. To(r) \in Peer /\ a \in Loose /\ b \in Loose
    BY <1>b, <1>c
  <2>3. KeepsShort(a, b)
    BY <1>h, <2>1, <2>2 DEF KeepsShort, SameTimes
  <2>4. Short(b) => Short(a)
    BY <2>2, <2>3, ShortIsKept
  <2>5. Blocking(To(r))
    BY <2>1, <2>4 DEF Blocking, Owed
  <2> QED BY <1>f, <2>1, <2>2, <2>5
<1>8. ASSUME NEW n \in Peer, RefreshAccept(n) PROVE \A m \in Peer : Blocking(m)
  <2>1. Blocking(n)
    <3>1. acc'[n].blocks = acc[n].blocks
      BY <1>a, <1>8, RefreshAcceptEffect DEF SameBooks
    <3>2. Crossed(n) \/ ~Short(acc'[n])
      BY <1>c, <1>8, AnswerIsEnough
    <3> QED BY <3>1, <3>2 DEF Blocking
  <2>2. Harmless(acc[Other(n)], acc'[Other(n)])
    <3>1. /\ SameBooks(acc[Other(n)], acc'[Other(n)])
          /\ acc'[Other(n)].refresh = acc[Other(n)].refresh
          /\ acc'[Other(n)].sentTime = acc[Other(n)].sentTime
      BY <1>a, <1>8, RefreshAcceptEffect
    <3> QED BY <1>h, <3>1, Others DEF Harmless, KeepsShort, SameBooks, SameShadow
  <2> QED BY <1>d, <2>1, <2>2, Others
<1>9. ASSUME NEW n \in Peer, RefreshReceived(n) PROVE \A m \in Peer : Blocking(m)
  <2>1. OnlyAt(n) /\ Harmless(acc[n], acc'[n])
    BY <1>a, <1>h, <1>9, RefreshReceivedEffect DEF Harmless, KeepsShort, SameShadow
  <2> QED BY <1>d, <1>f, <2>1
<1>10. ASSUME NEW n \in Peer, RefreshSent(n) PROVE \A m \in Peer : Blocking(m)
  <2>1. /\ OnlyAt(n) /\ acc'[n].refresh.pc = "none" /\ Connected
        /\ \/ acc[n].refresh.pc = "refused"
           \/ Short(acc[n])
           \/ acc'[n].blocks = acc[n].blocks
    BY <1>a, <1>10, RefreshSentEffect DEF NewPeer
  <2>2. acc[n].refresh.pc # "refused"
    BY <1>a, <2>1 DEF Clocks, Clock
  <2>3. Blocking(n)
    BY <2>1, <2>2 DEF Blocking, Short
  <2> QED BY <1>f, <2>1, <2>3
<1>11. ASSUME NEW n \in Peer, RefreshFails(n) PROVE \A m \in Peer : Blocking(m)
  <2>1. /\ OnlyAt(n) /\ acc[n].refresh.pc # "none" /\ acc'[n].refresh.pc = "none"
        /\ faults' # faults
    BY <1>a, <1>11, RefreshFailsEffect DEF NewPeer
  <2>2. Blocking(n)
    BY <2>1 DEF Blocking, Broken, Short
  <2> QED BY <1>f, <2>1, <2>2
<1>12. ASSUME NEW n \in Peer, PaymentReceived(n) PROVE \A m \in Peer : Blocking(m)
  <2>1. Harmless(acc[n], acc'[n])
    <3>1. /\ SameTimes(acc[n], acc'[n]) /\ SameShadow(acc[n], acc'[n])
          /\ acc'[n].refresh = acc[n].refresh /\ acc'[n].blocks = acc[n].blocks
      BY <1>a, <1>12, PaymentReceivedEffect
    <3> QED BY <1>h, <3>1 DEF Harmless, KeepsShort, SameTimes, SameShadow
  <2>2. Harmless(acc[Other(n)], acc'[Other(n)])
    <3>1. /\ SameTimes(acc[Other(n)], acc'[Other(n)])
          /\ acc'[Other(n)].refreshReserved = acc[Other(n)].refreshReserved
          /\ acc'[Other(n)].refresh = acc[Other(n)].refresh
          /\ acc'[Other(n)].blocks = acc[Other(n)].blocks
      BY <1>a, <1>12, PaymentReceivedEffect
    <3> QED BY <1>h, <3>1, Others DEF Harmless, KeepsShort, SameTimes
  <2> QED BY <1>d, <2>1, <2>2, Others
<1>13. ASSUME NEW n \in Peer, PaymentSent(n) PROVE \A m \in Peer : Blocking(m)
  <2>1. /\ OnlyAt(n) /\ SameTimes(acc[n], acc'[n]) /\ acc'[n].refresh = acc[n].refresh
        /\ acc'[n].refreshReserved = acc[n].refreshReserved /\ acc'[n].blocks = acc[n].blocks
    BY <1>a, <1>13, PaymentSentEffect
  <2>2. Harmless(acc[n], acc'[n])
    BY <1>h, <2>1 DEF Harmless, KeepsShort, SameTimes
  <2> QED BY <1>d, <1>f, <2>1, <2>2
<1>14. ASSUME NEW n \in Peer, PaymentFails(n) PROVE \A m \in Peer : Blocking(m)
  <2>1. /\ OnlyAt(n) /\ SameTimes(acc[n], acc'[n]) /\ acc'[n].refresh = acc[n].refresh
        /\ acc'[n].refreshReserved = acc[n].refreshReserved /\ acc'[n].blocks = acc[n].blocks
    BY <1>a, <1>14, PaymentFailsEffect
  <2>2. Harmless(acc[n], acc'[n])
    BY <1>h, <2>1 DEF Harmless, KeepsShort, SameTimes
  <2> QED BY <1>d, <1>f, <2>1, <2>2
<1>15. ASSUME Tick PROVE \A m \in Peer : Blocking(m)
  BY <1>a, <1>e, <1>15, TickEffect
<1>16. ASSUME UNCHANGED vars PROVE \A m \in Peer : Blocking(m)
  BY <1>e, <1>16 DEF vars
<1> QED BY <1>1, <1>2, <1>3, <1>4, <1>5, <1>6, <1>7, <1>8, <1>9, <1>10,
          <1>11, <1>12, <1>13, <1>14, <1>15, <1>16 DEF Next

(* Who blocklists is owed the limit, or has failed to deliver for more than it, *)
(* or was answered less than it expects, or its refreshment ended with an error;*)
(* and without an error less is answered only to a refreshment that crosses one *)
(* of the other peer: no order of requests, refreshments and cheques gets a peer*)
(* blocklisted that answers in time and owes less than the limit.               *)
THEOREM OnlyDebtorsAreBlocked == Spec => BlocksOnlyDebtors
<1> DEFINE Step == \A n \in Peer :
              /\ acc'[n].blocks /\ ~acc[n].blocks =>
                    Owed(acc'[n]) \/ Short(acc[n]) \/ Broken(n)
              /\ Short(acc'[n]) => Short(acc[n]) \/ Crossed(n)
<1>1. Inv /\ [Next]_vars => [Step]_vars
  BY BlockingStep DEF Blocking
<1>2. [][Step]_vars => BlocksOnlyDebtors
  BY DEF BlocksOnlyDebtors
<1> HIDE DEF Step
<1> QED BY <1>1, <1>2, Invariant, PTL DEF Spec

-----------------------------------------------------------------------------
(* DebtIsBounded. While nothing fails, a peer n that has sent no refreshment has*)
(* sent no cheque either: settle begins with a refreshment. So the other peer   *)
(* has neither a surplus nor a refreshment to enter.                            *)
Unpaid(n) ==
    /\ acc[n].cheque.pc = "none"
    /\ acc[Other(n)].surplus = 0 /\ ~acc[Other(n)].incoming.pending

(* What the other peer lets itself owe, by its own book.                        *)
Allowed(n) == acc[Other(n)].reserved - acc[Other(n)].balance <= paymentThreshold + refreshRate

(* What it owes by the book of n, which is DebtIsBounded.                       *)
Debt(n) == acc[n].balance - InTransit(n)
Bounded(n) == Debt(n) <= paymentThreshold + refreshRate

NoFailure == faults = 0 => \A r \in Request : client[r] # "failed"

Bounds ==
    /\ NoFailure
    /\ \A n \in Peer : faults = 0 /\ NeverRefreshed(n) => Unpaid(n) /\ Allowed(n) /\ Bounded(n)

(* The requests of n that the other peer alone has entered.                     *)
Unentered(n) == {r \in Request : From[r] = n /\ client[r] = "prepared" /\ server[r] = "applied"}

Entering(a) == IF a.incoming.pending THEN a.incoming.amount ELSE 0

LEMMA InTransitIs ==
    ASSUME NEW n \in Peer
    PROVE  /\ Debt(n) = acc[n].balance - (Worth(Unentered(n)) + Entering(acc[n]))
           /\ Debt(n)' = acc'[n].balance - (Worth(Unentered(n)') + Entering(acc'[n]))
BY DEF Debt, InTransit, Unentered, Entering, Worth

(* Sets that overlap cost no more than both.                                    *)
LEMMA WorthOfUnion ==
    ASSUME NEW S \in SUBSET Request, NEW Q \in SUBSET Request
    PROVE  Worth(S \cup Q) <= Worth(S) + Worth(Q)
<1>1. Q \ S \in SUBSET Request /\ S \cap (Q \ S) = {} /\ S \cup (Q \ S) = S \cup Q
  OBVIOUS
<1>2. Worth(S \cup Q) = Worth(S) + Worth(Q \ S)
  <2>1. Worth(S \cup (Q \ S)) = Worth(S) + Worth(Q \ S)
    BY <1>1, WorthAdds
  <2> QED BY <1>1, <2>1
<1>3. Worth(Q \ S) <= Worth(Q)
  BY WorthGrows
<1>4. Worth(S) \in Int /\ Worth(Q) \in Int /\ Worth(Q \ S) \in Int
  BY WorthRules
<1> QED BY <1>2, <1>3, <1>4

(* A peer that has not refreshed its debt had not before the step; and nothing  *)
(* had failed, if nothing has.                                                  *)
LEMMA NeverBefore ==
    ASSUME Inv, [Next]_vars, NEW n \in Peer, NeverRefreshed(n)', faults' = 0
    PROVE  NeverRefreshed(n) /\ faults = 0
<1>a. Types /\ Clocks
  BY DEF Inv
<1>b. acc'[n].refreshTime = 0 /\ acc'[n].refresh.pc = "none"
  BY DEF NeverRefreshed
<1>c. now \in Nat /\ now # 0 /\ faults \in Nat
  BY <1>a, RateAssumption DEF Types
<1>d. ~Fault
  BY <1>c DEF Fault
<1>e. acc'[n] = acc[n] => NeverRefreshed(n)
  BY <1>b DEF NeverRefreshed
<1>f. SameTimes(acc[n], acc'[n]) /\ acc'[n].refresh = acc[n].refresh => NeverRefreshed(n)
  BY <1>b DEF NeverRefreshed, SameTimes
<1>g. Settled(acc[n], acc'[n]) => NeverRefreshed(n)
  BY <1>b DEF NeverRefreshed, SameTimes, Settled
<1>h. \A k \in Peer : OnlyAt(k) => k = n \/ acc'[n] = acc[n]
  BY DEF OnlyAt
<1>i. \A r \in Request : From[r] \in Peer /\ To(r) \in Peer
  BY RequestAssumption, Others DEF To
<1>1. ASSUME NEW r \in Request, PrepareCredit(r) PROVE NeverRefreshed(n) /\ faults = 0
  BY <1>a, <1>e, <1>g, <1>h, <1>i, <1>1, PrepareCreditEffect
<1>2. ASSUME NEW r \in Request, ApplyCredit(r) PROVE NeverRefreshed(n) /\ faults = 0
  BY <1>a, <1>e, <1>g, <1>h, <1>i, <1>2, ApplyCreditEffect
<1>3. ASSUME NEW r \in Request, CleanupCredit(r) PROVE FALSE
  BY <1>d, <1>3 DEF CleanupCredit
<1>4. ASSUME NEW r \in Request, PrepareDebit(r) PROVE NeverRefreshed(n) /\ faults = 0
  BY <1>a, <1>e, <1>f, <1>h, <1>4, PrepareDebitEffect
<1>5. ASSUME NEW r \in Request, Deliver(r) PROVE NeverRefreshed(n) /\ faults = 0
  BY <1>a, <1>e, <1>5, DeliverEffect
<1>6. ASSUME NEW r \in Request, ApplyDebit(r) PROVE NeverRefreshed(n) /\ faults = 0
  BY <1>a, <1>e, <1>f, <1>h, <1>6, ApplyDebitEffect
<1>7. ASSUME NEW r \in Request, CleanupDebit(r) PROVE FALSE
  BY <1>d, <1>7 DEF CleanupDebit
<1>8. ASSUME NEW k \in Peer, RefreshAccept(k) PROVE NeverRefreshed(n) /\ faults = 0
  <2>1. /\ acc'[Other(k)].refresh = acc[Other(k)].refresh
        /\ acc'[Other(k)].refreshTime = acc[Other(k)].refreshTime /\ faults' = faults
    BY <1>a, <1>8, RefreshAcceptEffect
  <2>2. acc'[k].refresh.pc # "none"
    <3>1. acc'[k].refresh = [pc |-> "acked", amount |-> acc[k].refresh.amount,
                             accepted |-> Accepted(acc[Other(k)], acc[k].refresh.amount), time |-> now]
      BY <1>a, <1>8, RefreshAcceptEffect, NotRefused
    <3> QED BY <3>1
  <2> QED BY <1>b, <2>1, <2>2, Others DEF NeverRefreshed
<1>9. ASSUME NEW k \in Peer, RefreshReceived(k) PROVE NeverRefreshed(n) /\ faults = 0
  <2>1. /\ OnlyAt(k) /\ acc'[k].refresh = acc[k].refresh
        /\ acc'[k].refreshTime = acc[k].refreshTime /\ faults' = faults
    BY <1>a, <1>9, RefreshReceivedEffect
  <2> QED BY <1>b, <1>e, <1>h, <2>1 DEF NeverRefreshed
<1>10. ASSUME NEW k \in Peer, RefreshSent(k) PROVE NeverRefreshed(n) /\ faults = 0
  <2>1. /\ OnlyAt(k) /\ Connected /\ faults' = faults
        /\ acc[k].refresh.pc = "refused" \/ acc'[k].refreshTime = now
    BY <1>a, <1>10, RefreshSentEffect
  <2>2. acc'[k].refreshTime = now
    BY <1>a, <2>1 DEF Clocks, Clock
  <2> QED BY <1>b, <1>c, <1>e, <1>h, <2>1, <2>2
<1>11. ASSUME NEW k \in Peer, RefreshFails(k) PROVE FALSE
  BY <1>d, <1>11 DEF RefreshFails
<1>12. ASSUME NEW k \in Peer, PaymentReceived(k) PROVE NeverRefreshed(n) /\ faults = 0
  <2>1. /\ SameTimes(acc[k], acc'[k]) /\ acc'[k].refresh = acc[k].refresh
        /\ SameTimes(acc[Other(k)], acc'[Other(k)]) /\ acc'[Other(k)].refresh = acc[Other(k)].refresh
        /\ faults' = faults
    BY <1>a, <1>12, PaymentReceivedEffect
  <2>2. n = k \/ n = Other(k)
    BY Others
  <2> QED BY <1>f, <2>1, <2>2
<1>13. ASSUME NEW k \in Peer, PaymentSent(k) PROVE NeverRefreshed(n) /\ faults = 0
  BY <1>a, <1>e, <1>f, <1>h, <1>13, PaymentSentEffect
<1>14. ASSUME NEW k \in Peer, PaymentFails(k) PROVE FALSE
  BY <1>d, <1>14 DEF PaymentFails
<1>15. ASSUME Tick PROVE NeverRefreshed(n) /\ faults = 0
  BY <1>a, <1>e, <1>15, TickEffect
<1>16. ASSUME UNCHANGED vars PROVE NeverRefreshed(n) /\ faults = 0
  BY <1>e, <1>16 DEF vars
<1> QED BY <1>1, <1>2, <1>3, <1>4, <1>5, <1>6, <1>7, <1>8, <1>9, <1>10,
          <1>11, <1>12, <1>13, <1>14, <1>15, <1>16 DEF Next

(* Without a failure no request fails.                                          *)
LEMMA NoFailureStep ==
    ASSUME Types, NoFailure, [Next]_vars
    PROVE  NoFailure'
<1> SUFFICES ASSUME faults' = 0, NEW q \in Request PROVE client'[q] # "failed"
  BY DEF NoFailure
<1>2. faults \in Nat /\ client \in [Request -> {"new", "prepared", "applied", "failed"}]
  BY RateAssumption DEF Types
<1>3. ~Fault
  BY <1>2 DEF Fault
<1>4. faults' = faults
  BY <1>3 DEF Next, vars, PrepareCredit, ApplyCredit, CleanupCredit, PrepareDebit, Deliver,
         ApplyDebit, CleanupDebit, RefreshAccept, RefreshReceived, RefreshSent, RefreshFails,
         PaymentReceived, PaymentSent, PaymentFails, Tick
<1>5. client[q] # "failed"
  BY <1>4 DEF NoFailure
<1>6. \/ client' = client
      \/ \E r \in Request : \E pc \in {"prepared", "applied"} : client' = [client EXCEPT ![r] = pc]
  <2>1. ASSUME NEW r \in Request, CleanupCredit(r) PROVE FALSE
    BY <1>3, <2>1 DEF CleanupCredit
  <2> QED BY <2>1 DEF Next, vars, PrepareCredit, ApplyCredit, PrepareDebit, Deliver,
         ApplyDebit, CleanupDebit, RefreshAccept, RefreshReceived, RefreshSent, RefreshFails,
         PaymentReceived, PaymentSent, PaymentFails, Tick
<1> QED BY <1>2, <1>5, <1>6

(* By the two books, what the debit of a delivered request would make the other *)
(* peer owe, less what it has paid ahead, is what that peer lets itself owe.    *)
LEMMA OwedByTheBooks ==
    ASSUME Inv, Bounds, Connected, faults = 0, NEW n \in Peer, NeverRefreshed(n),
           NEW r \in Request, From[r] = Other(n), server[r] = "delivered"
    PROVE  acc[n].balance - acc[n].surplus + Price[r] - (Worth(Unentered(n)) + Entering(acc[n]))
              <= paymentThreshold + refreshRate
<1> DEFINE m == Other(n)
           a == acc[n]
           b == acc[m]
           U == Unentered(n)
<1>1. m \in Peer /\ m # n /\ \A k \in Peer : k = n \/ k = m
  BY Others
<1>2. /\ a \in Loose /\ b \in Loose
      /\ client \in [Request -> {"new", "prepared", "applied", "failed"}]
  BY <1>1 DEF Inv, Types
<1>3. Unpaid(n) /\ Allowed(n)
  BY DEF Bounds
<1>4. a.balance - a.surplus + b.balance - Entering(a) <= Pair(a, b)
  <2>1. a.refresh.pc = "none" /\ a.cheque.pc = "none" /\ b.surplus = 0 /\ ~b.incoming.pending
    BY <1>3 DEF NeverRefreshed, Unpaid
  <2>2. a.incoming.amount >= 0 /\ b.refresh.accepted >= 0
    BY <1>1 DEF Inv, Answers
  <2>3. /\ a.balance \in Int /\ a.surplus \in Nat /\ b.balance \in Int /\ b.surplus \in Nat
        /\ a.incoming.amount \in Int /\ b.refresh.accepted \in Int /\ b.cheque.amount \in Nat
    BY <1>2 DEF Loose
  <2>4. Money(a) = a.balance - a.surplus /\ Money(b) >= b.balance
    BY <2>1, <2>3 DEF Money
  <2>5. Flight(a, b) = 0 /\ Flight(b, a) >= 0 - Entering(a)
    BY <2>1, <2>2, <2>3 DEF Flight, Entering
  <2>6. /\ Money(a) \in Int /\ Money(b) \in Int /\ Flight(a, b) \in Int /\ Flight(b, a) \in Int
        /\ Pair(a, b) = Money(a) + Money(b) + Flight(a, b) + Flight(b, a)
    BY <1>2, PairIs
  <2>7. Entering(a) \in Int
    BY <2>3 DEF Entering
  <2> HIDE DEF a, b
  <2> QED BY <2>3, <2>4, <2>5, <2>6, <2>7
<1>5. Pair(a, b) = Worth(Debited) - Worth(Credited)
  BY BooksAreThePair DEF Inv, Balanced
<1>6. Debited \cup {r} \in SUBSET (Credited \cup (U \cup Asked(m)))
  <2> SUFFICES ASSUME NEW q \in Debited \cup {r} PROVE q \in Credited \cup (U \cup Asked(m))
    OBVIOUS
  <2>1. q \in Request /\ server[q] # "new" /\ (q = r \/ server[q] = "applied")
    BY DEF Debited
  <2>2. client[q] # "new" /\ client[q] # "failed"
    BY <2>1 DEF Inv, Order, Bounds, NoFailure
  <2>3. client[q] = "applied" \/ client[q] = "prepared"
    BY <1>2, <2>1, <2>2
  <2>4. From[q] = n \/ From[q] = m
    BY <1>1, <2>1, RequestAssumption
  <2> QED BY <1>1, <2>1, <2>3, <2>4 DEF Credited, Unentered, Asked
<1>7. /\ Debited \in SUBSET Request /\ Credited \in SUBSET Request /\ U \in SUBSET Request
      /\ Asked(m) \in SUBSET Request /\ Debited \cup {r} \in SUBSET Request
      /\ U \cup Asked(m) \in SUBSET Request /\ Credited \cup (U \cup Asked(m)) \in SUBSET Request
  BY DEF Debited, Credited, Unentered, Asked
<1> HIDE DEF U, m, a, b
<1>8. Worth(Debited) + Price[r] <= Worth(Credited) + Worth(U) + Worth(Asked(m))
  <2>1. r \notin Debited /\ (Debited \cup {r}) \ {r} = Debited
    BY DEF Debited
  <2>2. Worth(Debited \cup {r}) = Price[r] + Worth(Debited)
    BY <1>7, <2>1, WorthRules
  <2>3. Worth(Debited \cup {r}) <= Worth(Credited \cup (U \cup Asked(m)))
    BY <1>6, <1>7, WorthGrows
  <2>4. Worth(Credited \cup (U \cup Asked(m))) <= Worth(Credited) + Worth(U \cup Asked(m))
    BY <1>7, WorthOfUnion
  <2>5. Worth(U \cup Asked(m)) <= Worth(U) + Worth(Asked(m))
    BY <1>7, WorthOfUnion
  <2>6. /\ Worth(Debited) \in Int /\ Worth(Debited \cup {r}) \in Int /\ Worth(Credited) \in Int
        /\ Worth(U) \in Int /\ Worth(Asked(m)) \in Int /\ Worth(U \cup Asked(m)) \in Int
        /\ Worth(Credited \cup (U \cup Asked(m))) \in Int /\ Price[r] \in Int
    BY <1>7, WorthRules, RequestAssumption
  <2> QED BY <2>2, <2>3, <2>4, <2>5, <2>6
<1>9. b.reserved = Worth(Asked(m))
  BY <1>1 DEF Inv, Reserves, b
<1>10. b.reserved - b.balance <= paymentThreshold + refreshRate
  BY <1>3 DEF Allowed, b, m
<1>11. /\ a.balance \in Int /\ a.surplus \in Int /\ b.balance \in Int /\ b.reserved \in Int
       /\ Entering(a) \in Int
  BY <1>2 DEF Loose, Entering
<1>12. /\ Worth(Debited) \in Int /\ Worth(Credited) \in Int /\ Worth(U) \in Int
       /\ Price[r] \in Int /\ paymentThreshold \in Int /\ refreshRate \in Int
  BY <1>7, WorthRules, RequestAssumption, RateAssumption
<1>13. a.balance - a.surplus + Price[r] - (Worth(U) + Entering(a)) <= paymentThreshold + refreshRate
  BY <1>4, <1>5, <1>8, <1>9, <1>10, <1>11, <1>12
<1> QED BY <1>13 DEF a, U

(* What a step keeps of Bounds, of n and of the other peer.                     *)
KeepsDebt(n) == acc'[n].cheque.pc = "none" /\ Debt(n)' <= paymentThreshold + refreshRate

KeepsAllowance(n) ==
    LET b == acc'[Other(n)] IN
    /\ b.surplus = 0 /\ ~b.incoming.pending
    /\ b.reserved - b.balance <= paymentThreshold + refreshRate

LEMMA BoundsStep ==
    ASSUME Inv, Inv', Bounds, [Next]_vars, NEW n \in Peer, NeverRefreshed(n)', faults' = 0
    PROVE  KeepsDebt(n) /\ KeepsAllowance(n)
<1> DEFINE m == Other(n)
           U == Unentered(n)
           limit == paymentThreshold + refreshRate
<1>a. Types /\ Types' /\ Answers /\ Answers' /\ Clocks
  BY DEF Inv
<1>b. NeverRefreshed(n) /\ faults = 0
  BY NeverBefore
<1>c. Unpaid(n) /\ Allowed(n) /\ Bounded(n)
  BY <1>b DEF Bounds
<1>d. m \in Peer /\ m # n /\ \A k \in Peer : (k = n \/ k = m) /\ (Other(k) = n <=> k = m)
  BY Others
<1>e. /\ acc[n] \in Loose /\ acc'[n] \in Loose /\ acc[m] \in Loose /\ acc'[m] \in Loose
      /\ limit \in Int /\ \A q \in Request : Price[q] \in Nat \ {0} /\ From[q] \in Peer
  BY <1>a, <1>d, RequestAssumption, RateAssumption DEF Types
<1>f. /\ acc[n].balance \in Int /\ acc'[n].balance \in Int /\ acc[n].surplus \in Nat
      /\ acc'[n].surplus \in Nat
      /\ acc[m].balance \in Int /\ acc'[m].balance \in Int /\ acc'[m].surplus \in Nat
      /\ acc[m].reserved \in Nat /\ acc'[m].reserved \in Nat
      /\ Entering(acc[n]) \in Nat /\ Entering(acc'[n]) \in Nat
      /\ acc[m].refresh.accepted \in Nat /\ acc[m].cheque.amount \in Nat
  <2>1. /\ acc[n].incoming.amount >= 0 /\ acc'[n].incoming.amount >= 0
        /\ acc[m].refresh.accepted >= 0
    BY <1>a, <1>d DEF Answers
  <2> QED BY <1>e, <2>1 DEF Loose, Entering
<1>g. U \in SUBSET Request /\ U' \in SUBSET Request /\ Worth(U) \in Int /\ Worth(U') \in Int
  <2>1. U \in SUBSET Request /\ U' \in SUBSET Request
    BY DEF Unentered
  <2> QED BY <2>1, WorthRules
<1>h. /\ Debt(n) = acc[n].balance - (Worth(U) + Entering(acc[n]))
      /\ Debt(n)' = acc'[n].balance - (Worth(U') + Entering(acc'[n]))
      /\ Debt(n) \in Int /\ Debt(n)' \in Int /\ Debt(n) <= limit
  BY <1>c, <1>f, <1>g, InTransitIs DEF Bounded
<1>i. /\ acc[n].cheque.pc = "none" /\ acc[m].surplus = 0 /\ ~acc[m].incoming.pending
      /\ acc[m].reserved - acc[m].balance <= limit /\ acc[n].refresh.pc = "none"
      /\ acc[n].refreshTime = 0
  BY <1>b, <1>c DEF Unpaid, Allowed, NeverRefreshed
<1>j. \A k \in Peer : OnlyAt(k) => (k = n /\ acc'[m] = acc[m]) \/ (k = m /\ acc'[n] = acc[n])
  BY <1>d DEF OnlyAt
<1> HIDE DEF limit
<1>k. acc'[m] = acc[m] => KeepsAllowance(n)
  BY <1>i DEF KeepsAllowance, limit
<1>l. SameTimes(acc[m], acc'[m]) /\ acc'[m].surplus = acc[m].surplus
      /\ acc'[m].reserved - acc'[m].balance <= limit => KeepsAllowance(n)
  BY <1>i DEF KeepsAllowance, SameTimes, limit
<1>m. acc'[m].reserved = acc[m].reserved /\ acc'[m].balance >= acc[m].balance
      => acc'[m].reserved - acc'[m].balance <= limit
  BY <1>e, <1>f, <1>i
<1>n. acc'[n].cheque = acc[n].cheque /\ Debt(n)' <= Debt(n) => KeepsDebt(n)
  <2>1. Debt(n)' <= Debt(n) => Debt(n)' <= limit
    <3> HIDE DEF U
    <3> QED BY <1>e, <1>h
  <2> QED BY <1>i, <2>1 DEF KeepsDebt, limit
<1>o. client' = client /\ server' = server => U' = U
  BY DEF Unentered
<1>p. U' = U /\ Entering(acc'[n]) = Entering(acc[n]) /\ acc'[n].balance <= acc[n].balance
      => Debt(n)' <= Debt(n)
  <2> HIDE DEF U
  <2> QED BY <1>f, <1>g, <1>h
<1>q. acc'[n].incoming = acc[n].incoming => Entering(acc'[n]) = Entering(acc[n])
  BY DEF Entering
<1>r. acc'[n] = acc[n] /\ U' = U => KeepsDebt(n)
  BY <1>f, <1>n, <1>p
<1>s. Settled(acc[n], acc'[n]) => acc'[n].cheque = acc[n].cheque
  <2>1. now \in Nat /\ now # 0 /\ acc'[n].refresh.pc = "none"
    BY <1>a, RateAssumption DEF Types, NeverRefreshed
  <2>2. now - acc[n].refreshTime >= 1
    BY <1>i, <2>1
  <2> QED BY <2>1, <2>2 DEF Settled, SameShadow
<1>t. /\ client \in [Request -> {"new", "prepared", "applied", "failed"}]
      /\ server \in [Request -> {"new", "prepared", "delivered", "applied", "failed"}]
  BY <1>a DEF Types
<1>1. ASSUME NEW r \in Request, PrepareCredit(r) PROVE KeepsDebt(n) /\ KeepsAllowance(n)
  <2> DEFINE a == acc[From[r]]
             b == acc'[From[r]]
  <2>1. /\ OnlyAt(From[r]) /\ SameMoney(a, b) /\ Settled(a, b) /\ server' = server
        /\ \/ client' = client /\ b.reserved = a.reserved
           \/ /\ client[r] = "new" /\ client' = [client EXCEPT ![r] = "prepared"]
              /\ b.reserved - b.balance <= limit
    BY <1>a, <1>1, PrepareCreditEffect DEF limit
  <2>2. U' = U
    <3>1. client[r] = "new" => server[r] = "new"
      BY DEF Inv, Order
    <3> QED BY <1>t, <2>1, <3>1 DEF Unentered
  <2>3. CASE From[r] = n
    <3>1. acc'[m] = acc[m]
      BY <1>d, <1>j, <2>1, <2>3
    <3>2. acc'[n].cheque = acc[n].cheque
      BY <1>s, <2>1, <2>3
    <3>3. acc'[n].incoming = acc[n].incoming /\ acc'[n].balance = acc[n].balance
      BY <2>1, <2>3 DEF SameMoney, Settled, SameTimes
    <3>4. Debt(n)' <= Debt(n)
      BY <1>f, <1>p, <1>q, <2>2, <3>3
    <3> QED BY <1>k, <1>n, <3>1, <3>2, <3>4
  <2>4. CASE From[r] = m
    <3>1. acc'[n] = acc[n]
      BY <1>d, <1>j, <2>1, <2>4
    <3>2. SameTimes(acc[m], acc'[m]) /\ acc'[m].surplus = acc[m].surplus
          /\ acc'[m].balance = acc[m].balance
      BY <2>1, <2>4 DEF Settled, SameMoney
    <3>3. acc'[m].reserved - acc'[m].balance <= limit
      BY <1>i, <2>1, <2>4, <3>2
    <3> QED BY <1>l, <1>r, <2>2, <3>1, <3>2, <3>3
  <2> QED BY <1>d, <1>e, <2>3, <2>4
<1>2. ASSUME NEW r \in Request, ApplyCredit(r) PROVE KeepsDebt(n) /\ KeepsAllowance(n)
  <2> DEFINE a == acc[From[r]]
             b == acc'[From[r]]
  <2>1. /\ OnlyAt(From[r]) /\ Settled(a, b)
        /\ b.balance = a.balance - Price[r] /\ b.surplus = a.surplus
        /\ b.reserved = Pos(a.reserved - Price[r])
        /\ client[r] = "prepared" /\ server[r] \in {"delivered", "applied"}
        /\ client' = [client EXCEPT ![r] = "applied"] /\ server' = server
    BY <1>a, <1>2, ApplyCreditEffect
  <2>2. CASE From[r] = n
    <3>1. acc'[m] = acc[m]
      BY <1>d, <1>j, <2>1, <2>2
    <3>2. acc'[n].cheque = acc[n].cheque
      BY <1>s, <2>1, <2>2
    <3>3. acc'[n].incoming = acc[n].incoming /\ acc'[n].balance = acc[n].balance - Price[r]
      BY <2>1, <2>2 DEF Settled, SameTimes
    <3>4. U' = U \ {r}
      BY <1>t, <2>1 DEF Unentered
    <3>5. Worth(U) <= Worth(U') + Price[r]
      <4>1. CASE r \in U
        <5> HIDE DEF U
        <5> QED BY <1>e, <1>g, <3>4, <4>1, WorthRules
      <4>2. CASE r \notin U
        <5>1. U' = U
          BY <3>4, <4>2
        <5> HIDE DEF U
        <5> QED BY <1>e, <1>g, <5>1
      <4> QED BY <4>1, <4>2
    <3>6. Debt(n)' <= Debt(n)
      <4>1. Entering(acc'[n]) = Entering(acc[n]) /\ Price[r] \in Int
        BY <1>e, <1>q, <3>3
      <4> HIDE DEF U
      <4> QED BY <1>f, <1>g, <1>h, <3>3, <3>5, <4>1
    <3> QED BY <1>k, <1>n, <3>1, <3>2, <3>6
  <2>3. CASE From[r] = m
    <3>1. acc'[n] = acc[n]
      BY <1>d, <1>j, <2>1, <2>3
    <3>2. U' = U
      BY <1>d, <1>t, <2>1, <2>3 DEF Unentered
    <3>3. SameTimes(acc[m], acc'[m]) /\ acc'[m].surplus = acc[m].surplus
          /\ acc'[m].balance = acc[m].balance - Price[r]
          /\ acc'[m].reserved = Pos(acc[m].reserved - Price[r])
      BY <2>1, <2>3 DEF Settled
    <3>4. acc[m].reserved >= Price[r]
      <4>1. Asked(m) \in SUBSET Request /\ r \in Asked(m) /\ Asked(m) \ {r} \in SUBSET Request
            /\ acc[m].reserved = Worth(Asked(m))
        BY <1>d, <2>1, <2>3 DEF Asked, Inv, Reserves
      <4>2. Worth(Asked(m)) = Price[r] + Worth(Asked(m) \ {r})
        BY <4>1, WorthRules
      <4>3. 0 <= Worth(Asked(m) \ {r}) /\ Worth(Asked(m) \ {r}) \in Int
        BY <4>1, WorthGrows, WorthRules
      <4> QED BY <1>e, <4>1, <4>2, <4>3
    <3>5. acc'[m].reserved = acc[m].reserved - Price[r]
      <4> DEFINE left == acc[m].reserved - Price[r]
      <4>1. left \in Int /\ left >= 0
        BY <1>e, <1>f, <3>4
      <4> HIDE DEF left
      <4>2. Pos(left) = left
        BY <4>1, SignedParts
      <4> QED BY <3>3, <4>2 DEF left
    <3>6. acc'[m].reserved - acc'[m].balance <= limit
      BY <1>e, <1>f, <1>i, <3>3, <3>5
    <3> QED BY <1>l, <1>r, <3>1, <3>2, <3>3, <3>6
  <2> QED BY <1>d, <1>e, <2>2, <2>3
<1>3. ASSUME NEW r \in Request, CleanupCredit(r) PROVE FALSE
  BY <1>b, <1>3 DEF CleanupCredit, Fault
<1>4. ASSUME NEW r \in Request, PrepareDebit(r) PROVE KeepsDebt(n) /\ KeepsAllowance(n)
  <2> DEFINE k == To(r)
             a == acc[k]
             b == acc'[k]
  <2>1. /\ k \in Peer /\ OnlyAt(k) /\ SameMoney(a, b) /\ SameTimes(a, b)
        /\ b.reserved = a.reserved /\ b.cheque = a.cheque
        /\ server[r] = "new" /\ server' = [server EXCEPT ![r] = "prepared"] /\ client' = client
    BY <1>a, <1>4, PrepareDebitEffect
  <2>2. U' = U
    BY <1>t, <2>1 DEF Unentered
  <2>3. CASE k = n
    <3>1. acc'[m] = acc[m] /\ acc'[n].cheque = acc[n].cheque
          /\ acc'[n].incoming = acc[n].incoming /\ acc'[n].balance = acc[n].balance
      BY <1>d, <1>j, <2>1, <2>3 DEF SameMoney, SameTimes
    <3>2. Debt(n)' <= Debt(n)
      BY <1>f, <1>p, <1>q, <2>2, <3>1
    <3> QED BY <1>k, <1>n, <3>1, <3>2
  <2>4. CASE k = m
    <3>1. acc'[n] = acc[n] /\ SameTimes(acc[m], acc'[m]) /\ acc'[m].surplus = acc[m].surplus
          /\ acc'[m].reserved = acc[m].reserved /\ acc'[m].balance = acc[m].balance
      BY <1>d, <1>j, <2>1, <2>4 DEF SameMoney
    <3> QED BY <1>f, <1>l, <1>m, <1>r, <2>2, <3>1
  <2> QED BY <1>d, <2>1, <2>3, <2>4
<1>5. ASSUME NEW r \in Request, Deliver(r) PROVE KeepsDebt(n) /\ KeepsAllowance(n)
  <2>1. server[r] = "prepared" /\ server' = [server EXCEPT ![r] = "delivered"]
        /\ acc' = acc /\ client' = client
    BY <1>a, <1>5, DeliverEffect
  <2>2. U' = U
    BY <1>t, <2>1 DEF Unentered
  <2> QED BY <1>k, <1>r, <2>1, <2>2
<1>6. ASSUME NEW r \in Request, ApplyDebit(r) PROVE KeepsDebt(n) /\ KeepsAllowance(n)
  <2> DEFINE k == To(r)
             a == acc[k]
             b == acc'[k]
  <2>1. /\ k \in Peer /\ OnlyAt(k) /\ SameTimes(a, b) /\ b.reserved = a.reserved /\ b.cheque = a.cheque
        /\ b.balance - b.surplus = a.balance - a.surplus + Price[r]
        /\ b.balance <= a.balance + Price[r] /\ (b.balance = a.balance \/ b.surplus = 0)
        /\ Connected /\ server[r] = "delivered" /\ server' = [server EXCEPT ![r] = "applied"]
        /\ client' = client
    BY <1>a, <1>6, ApplyDebitEffect
  <2>2. From[r] \in Peer /\ k = Other(From[r])
    BY <1>e DEF To
  <2>3. CASE k = n
    <3>1. From[r] = m
      BY <1>d, <2>2, <2>3
    <3>2. U' = U
      BY <1>d, <1>t, <2>1, <3>1 DEF Unentered
    <3>3. /\ acc'[m] = acc[m] /\ acc'[n].cheque = acc[n].cheque
          /\ acc'[n].incoming = acc[n].incoming
          /\ acc'[n].balance - acc'[n].surplus = acc[n].balance - acc[n].surplus + Price[r]
          /\ acc'[n].balance = acc[n].balance \/ acc'[n].surplus = 0
      BY <1>d, <1>j, <2>1, <2>3 DEF SameTimes
    <3>4. CASE acc'[n].balance = acc[n].balance
      <4>1. Debt(n)' <= Debt(n)
        BY <1>f, <1>p, <1>q, <3>2, <3>3, <3>4
      <4> QED BY <1>k, <1>n, <3>3, <4>1
    <3>5. CASE acc'[n].surplus = 0
      <4>1. acc[n].balance - acc[n].surplus + Price[r] - (Worth(U) + Entering(acc[n])) <= limit
        BY <1>b, <2>1, <3>1, OwedByTheBooks DEF limit
      <4>2. Entering(acc'[n]) = Entering(acc[n]) /\ Price[r] \in Int
        BY <1>e, <1>q, <3>3
      <4>3. Debt(n)' <= limit
        <5> HIDE DEF U
        <5> QED BY <1>f, <1>g, <1>h, <3>2, <3>3, <3>5, <4>1, <4>2
      <4> QED BY <1>i, <1>k, <3>3, <4>3 DEF KeepsDebt, limit
    <3> QED BY <3>3, <3>4, <3>5
  <2>4. CASE k = m
    <3>1. From[r] = n
      BY <1>d, <2>2, <2>4
    <3>2. acc'[n] = acc[n] /\ SameTimes(acc[m], acc'[m]) /\ acc'[m].reserved = acc[m].reserved
          /\ acc'[m].balance - acc'[m].surplus = acc[m].balance - acc[m].surplus + Price[r]
          /\ (acc'[m].balance = acc[m].balance \/ acc'[m].surplus = 0)
      BY <1>d, <1>j, <2>1, <2>4
    <3>3. acc'[m].surplus = 0 /\ acc'[m].balance >= acc[m].balance
      BY <1>e, <1>f, <1>i, <3>2
    <3>4. KeepsAllowance(n)
      BY <1>i, <1>l, <1>m, <3>2, <3>3
    <3>5. U \in SUBSET U'
      BY <1>t, <2>1 DEF Unentered
    <3>6. Worth(U) <= Worth(U')
      BY <1>g, <3>5, WorthGrows
    <3>7. Debt(n)' <= Debt(n)
      <4> HIDE DEF U
      <4> QED BY <1>f, <1>g, <1>h, <3>2, <3>6
    <3> QED BY <1>n, <3>2, <3>4, <3>7
  <2> QED BY <1>d, <2>1, <2>3, <2>4
<1>7. ASSUME NEW r \in Request, CleanupDebit(r) PROVE FALSE
  BY <1>b, <1>7 DEF CleanupDebit, Fault
<1>8. ASSUME NEW k \in Peer, RefreshAccept(k) PROVE KeepsDebt(n) /\ KeepsAllowance(n)
  <2>1. k = m /\ Other(k) = n
    <3>1. acc[k].refresh.pc = "sent"
      BY <1>a, <1>8, RefreshAcceptEffect
    <3> QED BY <1>d, <1>i, <3>1
  <2>2. /\ SameBooks(acc[m], acc'[m]) /\ SameTimes(acc[m], acc'[m]) /\ SameBooks(acc[n], acc'[n])
        /\ ~acc[n].incoming.pending /\ client' = client /\ server' = server
    BY <1>a, <1>8, <2>1, RefreshAcceptEffect
  <2>3. KeepsAllowance(n)
    BY <1>f, <1>l, <1>m, <2>2 DEF SameBooks, SameMoney
  <2>4. acc'[n].balance = acc[n].balance /\ acc'[n].cheque = acc[n].cheque
    BY <2>2 DEF SameBooks, SameMoney, SameShadow
  <2>5. Entering(acc[n]) = 0
    BY <2>2 DEF Entering
  <2>6. Debt(n)' <= Debt(n)
    <3>1. U' = U
      BY <1>o, <2>2
    <3> HIDE DEF U
    <3> QED BY <1>f, <1>g, <1>h, <2>4, <2>5, <3>1
  <2> QED BY <1>n, <2>3, <2>4, <2>6
<1>9. ASSUME NEW k \in Peer, RefreshReceived(k) PROVE KeepsDebt(n) /\ KeepsAllowance(n)
  <2>1. /\ OnlyAt(k) /\ acc[k].incoming.pending /\ client' = client /\ server' = server
        /\ acc'[k].balance = acc[k].balance - acc[k].incoming.amount
        /\ acc'[k].incoming = NewPeer.incoming /\ acc'[k].cheque = acc[k].cheque
    BY <1>a, <1>9, RefreshReceivedEffect DEF SameShadow
  <2>2. k = n
    BY <1>d, <1>i, <2>1
  <2>3. Entering(acc[n]) = acc[n].incoming.amount /\ Entering(acc'[n]) = 0
    BY <2>1, <2>2 DEF Entering, NewPeer
  <2>4. Debt(n)' <= Debt(n)
    <3>1. U' = U
      BY <1>o, <2>1
    <3> HIDE DEF U
    <3> QED BY <1>f, <1>g, <1>h, <2>1, <2>2, <2>3, <3>1
  <2> QED BY <1>d, <1>j, <1>k, <1>n, <2>1, <2>2, <2>4
<1>10. ASSUME NEW k \in Peer, RefreshSent(k) PROVE KeepsDebt(n) /\ KeepsAllowance(n)
  <2>1. /\ OnlyAt(k) /\ acc'[k].surplus = acc[k].surplus /\ acc'[k].reserved = acc[k].reserved
        /\ acc'[k].incoming = acc[k].incoming /\ client' = client /\ server' = server
        /\ acc'[k].balance = acc[k].balance \/ acc'[k].balance = acc[k].balance + acc[k].refresh.accepted
    BY <1>a, <1>10, RefreshSentEffect
  <2>2. k = m
    <3>1. acc[k].refresh.pc \in {"acked", "refused"}
      BY <1>10 DEF RefreshSent
    <3> QED BY <1>d, <1>i, <3>1
  <2>3. acc'[m].balance >= acc[m].balance
    BY <1>f, <2>1, <2>2
  <2>4. acc'[m].reserved - acc'[m].balance <= limit
    BY <1>m, <2>1, <2>2, <2>3
  <2>5. KeepsAllowance(n)
    BY <1>i, <2>1, <2>2, <2>4 DEF KeepsAllowance, limit
  <2> QED BY <1>d, <1>j, <1>o, <1>r, <2>1, <2>2, <2>5
<1>11. ASSUME NEW k \in Peer, RefreshFails(k) PROVE FALSE
  BY <1>b, <1>11 DEF RefreshFails, Fault
<1>12. ASSUME NEW k \in Peer, PaymentReceived(k) PROVE KeepsDebt(n) /\ KeepsAllowance(n)
  <2>1. /\ acc[Other(k)].cheque.pc = "sent" /\ client' = client /\ server' = server
        /\ acc'[k].balance <= acc[k].balance /\ SameTimes(acc[k], acc'[k]) /\ SameShadow(acc[k], acc'[k])
        /\ SameMoney(acc[Other(k)], acc'[Other(k)]) /\ SameTimes(acc[Other(k)], acc'[Other(k)])
        /\ acc'[Other(k)].reserved = acc[Other(k)].reserved
    BY <1>a, <1>12, PaymentReceivedEffect
  <2>2. k = n
    <3>1. Other(k) # n
      BY <1>i, <2>1
    <3> QED BY <1>d, <3>1
  <2>3. KeepsAllowance(n)
    BY <1>f, <1>l, <1>m, <2>1, <2>2 DEF SameMoney
  <2>4. acc'[n].incoming = acc[n].incoming /\ acc'[n].cheque = acc[n].cheque
    BY <2>1, <2>2 DEF SameTimes, SameShadow
  <2>5. Debt(n)' <= Debt(n)
    BY <1>o, <1>p, <1>q, <2>1, <2>2, <2>4
  <2> QED BY <1>n, <2>3, <2>4, <2>5
<1>13. ASSUME NEW k \in Peer, PaymentSent(k) PROVE KeepsDebt(n) /\ KeepsAllowance(n)
  <2>1. /\ OnlyAt(k) /\ SameTimes(acc[k], acc'[k]) /\ acc'[k].surplus = acc[k].surplus
        /\ acc'[k].reserved = acc[k].reserved /\ acc[k].cheque.pc = "received"
        /\ acc'[k].balance = acc[k].balance + acc[k].cheque.amount
        /\ client' = client /\ server' = server
    BY <1>a, <1>13, PaymentSentEffect
  <2>2. k = m
    BY <1>d, <1>i, <2>1
  <2>3. acc'[m].balance >= acc[m].balance
    BY <1>f, <2>1, <2>2
  <2> QED BY <1>d, <1>j, <1>l, <1>m, <1>o, <1>r, <2>1, <2>2, <2>3
<1>14. ASSUME NEW k \in Peer, PaymentFails(k) PROVE FALSE
  BY <1>b, <1>14 DEF PaymentFails, Fault
<1>15. ASSUME Tick PROVE KeepsDebt(n) /\ KeepsAllowance(n)
  BY <1>a, <1>k, <1>o, <1>r, <1>15, TickEffect
<1>16. ASSUME UNCHANGED vars PROVE KeepsDebt(n) /\ KeepsAllowance(n)
  BY <1>k, <1>o, <1>r, <1>16 DEF vars
<1> QED BY <1>1, <1>2, <1>3, <1>4, <1>5, <1>6, <1>7, <1>8, <1>9, <1>10,
          <1>11, <1>12, <1>13, <1>14, <1>15, <1>16 DEF Next

(* While nothing fails, what a peer owes a creditor that has sent it no         *)
(* refreshment, less what is in transit, stays within the payment threshold and *)
(* one second's refreshment.                                                    *)
THEOREM DebtIsAlwaysBounded == Spec => []DebtIsBounded
<1>1. Init => Bounds
  <2> SUFFICES ASSUME Init PROVE Bounds
    OBVIOUS
  <2>1. \A r \in Request : client[r] = "new"
    BY DEF Init
  <2>2. ASSUME NEW n \in Peer PROVE Unpaid(n) /\ Allowed(n) /\ Bounded(n)
    <3>1. acc[n] = NewPeer /\ acc[Other(n)] = NewPeer
      BY Others DEF Init
    <3>2. Unpaid(n) /\ Allowed(n)
      BY <3>1, RateAssumption DEF Unpaid, Allowed, NewPeer
    <3>3. Unentered(n) = {}
      BY <2>1 DEF Unentered
    <3>4. Debt(n) = 0
      <4>1. Worth({}) = 0
        BY WorthRules
      <4>2. acc[n].balance = 0 /\ Entering(acc[n]) = 0
        BY <3>1 DEF Entering, NewPeer
      <4>3. Debt(n) = acc[n].balance - (Worth(Unentered(n)) + Entering(acc[n]))
        BY InTransitIs
      <4> QED BY <3>3, <4>1, <4>2, <4>3
    <3>5. Bounded(n)
      BY <3>4, RateAssumption DEF Bounded
    <3> QED BY <3>2, <3>5
  <2> QED BY <2>1, <2>2 DEF Bounds, NoFailure
<1>2. Inv /\ Inv' /\ Bounds /\ [Next]_vars => Bounds'
  <2> SUFFICES ASSUME Inv, Inv', Bounds, [Next]_vars PROVE Bounds'
    OBVIOUS
  <2>1. NoFailure'
    BY NoFailureStep DEF Inv, Bounds
  <2>2. ASSUME NEW n \in Peer, NeverRefreshed(n)', faults' = 0
        PROVE  Unpaid(n)' /\ Allowed(n)' /\ Bounded(n)'
    BY <2>2, BoundsStep DEF KeepsDebt, KeepsAllowance, Unpaid, Allowed, Bounded
  <2> QED BY <2>1, <2>2 DEF Bounds
<1>3. Bounds => DebtIsBounded
  BY DEF Bounds, Bounded, Debt, DebtIsBounded
<1> QED BY <1>1, <1>2, <1>3, Invariant, PTL DEF Spec
==============================================================================
