--------------------------- MODULE LocalstoreProofs ----------------------------
(* Proofs about Localstore for any chunks, stamps, bins, capacities and bounds.  *)
EXTENDS Localstore, FiniteSetTheorems, SequenceTheorems, WellFoundedInduction, TLAPS

(* What LevelDB holds, and a batch of updates of it.                             *)
Entry == [chunk : Chunk, index : Index, keyed : BOOLEAN]

File == [Slot -> Chunk \cup {None}]

Database ==
    [ loc : [Chunk -> Slot \cup {None}], access : SUBSET Chunk, push : SUBSET Chunk,
      gc : Seq(Entry), pin : [Chunk -> Nat], index : [Index -> Chunk \cup {None}],
      radius : [known : BOOLEAN, po : 0 .. MaxPO], gcSize : Nat, reserveSize : Nat ]

Updates ==
    [ d : Database, b : Database, file : File, wrote : SUBSET Slot, release : SUBSET Slot,
      gc : Int, reserve : Int, failed : BOOLEAN ]

(* The call of UnreserveBatch: its bins lie below where it goes, which is the    *)
(* radius while it has the lock, so that the radius rises no further than it may.*)
Evicting ==
    /\ evict.call \in [ pc : {"idle", "unpin", "write", "radius"}, trigger : BOOLEAN,
                        locked : BOOLEAN, bin : 0 .. MaxPO + 1, to : 0 .. MaxPO + 1,
                        start : Nat, evicted : Nat ]
    /\ evict.call.pc \in {"write", "radius"} => evict.call.bin < evict.call.to
    /\ evict.call.locked => evict.call.to = radius /\ radius <= MaxPO /\ evict.call.pc # "write"
    /\ evict.call.pc = "write" => evict.read \in Updates /\ evict.read.gc >= 0
                                                        /\ evict.read.reserve <= 0

Types ==
    /\ db \in Database /\ file \in File /\ free \in SUBSET Slot
    /\ gc \in [ pc : {"idle", "collect"}, trigger : BOOLEAN, candidates : Seq(Entry),
                dirty : SUBSET Chunk ]
    /\ evict = [call |-> evict.call, read |-> evict.read] /\ Evicting
    /\ reader \in [ pc : {"idle", "located", "read"}, chunk : Chunk \cup {None},
                    slot : Slot \cup {None}, data : Chunk \cup {None}, removed : BOOLEAN ]
    /\ reader.pc # "idle" => reader.chunk \in Chunk /\ reader.slot \in Slot
    /\ radius \in 0 .. MaxPO + 1 /\ userPins \in SUBSET Chunk
    /\ past \in SUBSET {"race", "restart"}

(* A chunk in the data index has its data in a slot that is not free: for two    *)
(* chunks that is not the same one, as the slot holds the data of one.           *)
Placed(d) == \A c \in Chunk : Stored(d, c) => file[d.loc[c]] = c /\ d.loc[c] \notin free

(* What a Get has read the location of stays there until it is removed.          *)
Reading ==
    /\ reader.pc = "located" /\ ~reader.removed =>
          reader.slot \notin free /\ file[reader.slot] = reader.chunk
    /\ reader.pc = "read" /\ ~reader.removed => reader.data = reader.chunk

(* The gc index has one entry for a chunk at most, under its access time.        *)
Single(s) == \A i, j \in DOMAIN s : s[i].chunk = s[j].chunk => i = j
Proper(s) == Single(s) /\ \A e \in ToSet(s) : e.keyed
Has(s, c) == \E e \in ToSet(s) : e.chunk = c

(* What a database says of a chunk: one that is not stored has, at most, a pin;  *)
(* one with an access time is not in the push index, and it is in the gc index if*)
(* and only if it has no pin.                                                    *)
CachedAt(b, c) ==
    /\ ~Stored(b, c) => c \notin b.access /\ c \notin b.push
    /\ Has(b.gc, c) => Stored(b, c) /\ b.pin[c] = 0 /\ c \in b.access
    /\ c \in b.access => c \notin b.push /\ (b.pin[c] = 0 => Has(b.gc, c))

Cached(b) == Proper(b.gc) /\ \A c \in Chunk : CachedAt(b, c)

(* A candidate that was not noted is still in the gc index, or was removed.      *)
Candidates ==
    gc.pc = "collect" =>
        /\ Single(gc.candidates)
        /\ \A e \in ToSet(gc.candidates) :
              e.chunk \notin gc.dirty => e \in ToSet(db.gc) \/ ~Stored(db, e.chunk)

(* UnpinBatchChunks of a database d, with the file f.                            *)
PinnedIn(d, bin) == {c \in Chunk : PO[c] = bin /\ Stored(d, c) /\ d.pin[c] > 0}
CachedIn(d, bin) == {c \in PinnedIn(d, bin) : d.pin[c] = 1 /\ c \notin d.push}
NewEntries(d, bin) == {GCEntry(c, 0) : c \in CachedIn(d, bin)}

UnpinBatch(d, f, bin) ==
    [ d |-> d,
      b |-> [d EXCEPT !.pin = [c \in Chunk |-> IF c \in PinnedIn(d, bin) THEN d.pin[c] - 1
                                                                        ELSE d.pin[c]],
                      !.access = d.access \cup CachedIn(d, bin),
                      !.gc = d.gc \o SetToSeq(NewEntries(d, bin))],
      file |-> f, wrote |-> {}, release |-> {}, gc |-> Cardinality(CachedIn(d, bin)),
      reserve |-> 0 - Cardinality(PinnedIn(d, bin)), failed |-> FALSE ]

(* Unless an update raced another: the cache, its size, and that what            *)
(* UnreserveBatch is about to write was made from the database as it is.         *)
Cache ==
    "race" \notin past =>
        /\ Cached(db) /\ db.gcSize >= Len(db.gc) /\ Candidates
        /\ evict.call.pc = "write" => evict.read = UnpinBatch(db, file, evict.call.bin)

Inv == Types /\ Placed(db) /\ Reading /\ Cache

-------------------------------------------------------------------------------
(* Sequences and their entries at some places.                                   *)

LEMMA UpTo == \A n \in Nat : IsFiniteSet(1 .. n) /\ Cardinality(1 .. n) = n
BY FS_Interval

(* A non-empty set of naturals has a least element: the intervals 1 .. n are      *)
(* finite sets, which inclusion orders well.                                     *)
LEMMA LeastElement ==
    ASSUME NEW S \in SUBSET Nat, S # {}
    PROVE  \E n \in S : \A m \in S : n <= m
<1> DEFINE T == {1 .. n : n \in S}
<1>1. T \subseteq FiniteSubsetsOf(Nat) /\ T # {}
  <2>1. \A n \in S : n \in Int /\ 1 .. n \in SUBSET Nat
    OBVIOUS
  <2>2. \A n \in S : IsFiniteSet(1 .. n)
    BY <2>1, FS_Interval
  <2>3. \A X \in T : X \in SUBSET Nat /\ IsFiniteSet(X)
    BY <2>1, <2>2
  <2>4. T # {}
    <3>1. PICK n \in S : TRUE
      OBVIOUS
    <3>2. 1 .. n \in T
      BY <3>1
    <3> QED BY <3>2
  <2> HIDE DEF T
  <2> QED BY <2>3, <2>4 DEF FiniteSubsetsOf
<1>2. \E X \in T : \A Y \in T : ~ (<<Y, X>> \in StrictSubsetOrdering(Nat))
  <2>1. IsWellFoundedOn(StrictSubsetOrdering(Nat), FiniteSubsetsOf(Nat))
    BY FS_StrictSubsetOrderingWellFounded
  <2> HIDE DEF T
  <2> QED BY <1>1, <2>1, WFMin
<1>3. PICK n \in S : \A Y \in T : ~ (<<Y, 1 .. n>> \in StrictSubsetOrdering(Nat))
  BY <1>2
<1>4. ASSUME NEW m \in S, m < n PROVE FALSE
  <2>1. 1 .. m \in SUBSET Nat /\ 1 .. n \in SUBSET Nat /\ 1 .. m \in T
    OBVIOUS
  <2>2. 1 .. m \subseteq 1 .. n /\ n \in 1 .. n /\ n \notin 1 .. m
    BY <1>4
  <2>3. <<1 .. m, 1 .. n>> \in StrictSubsetOrdering(Nat)
    BY <2>1, <2>2 DEF StrictSubsetOrdering
  <2> QED BY <1>3, <2>1, <2>3
<1> QED BY <1>4

(* Counting the places up to each numbers them from 1 on.                        *)
LEMMA Numbering ==
    ASSUME NEW n \in Nat, NEW K \in SUBSET (1 .. n)
    PROVE  /\ IsFiniteSet(K) /\ Cardinality(K) \in Nat /\ Cardinality(K) <= n
           /\ \A i \in K : Cardinality({k \in K : k <= i}) \in 1 .. Cardinality(K)
           /\ \A i, l \in K : Cardinality({k \in K : k <= i}) = Cardinality({k \in K : k <= l})
                                => i = l
           /\ \A j \in 1 .. Cardinality(K) : \E i \in K : Cardinality({k \in K : k <= i}) = j
<1>1. IsFiniteSet(K) /\ Cardinality(K) \in Nat /\ Cardinality(K) <= n
  <2>1. IsFiniteSet(1 .. n) /\ Cardinality(1 .. n) = n
    BY FS_Interval
  <2> QED BY <2>1, FS_Subset, FS_CardinalityType
<1>0. \A i \in K : i \in Int
  OBVIOUS
<1> DEFINE upto(i) == {k \in K : k <= i}
           rank == [i \in K |-> Cardinality(upto(i))]
<1>2. \A i \in K : IsFiniteSet(upto(i)) /\ rank[i] \in 1 .. Cardinality(K)
  <2> SUFFICES ASSUME NEW i \in K PROVE IsFiniteSet(upto(i)) /\ rank[i] \in 1 .. Cardinality(K)
    OBVIOUS
  <2>1. upto(i) \in SUBSET K /\ i \in upto(i)
    OBVIOUS
  <2>2. IsFiniteSet(upto(i)) /\ Cardinality(upto(i)) <= Cardinality(K)
    BY <1>1, <2>1, FS_Subset
  <2>3. Cardinality(upto(i)) \in Nat /\ Cardinality(upto(i)) # 0
    BY <2>1, <2>2, FS_CardinalityType, FS_EmptySet
  <2> QED BY <1>1, <2>2, <2>3
<1>3. ASSUME NEW i \in K, NEW l \in K, i < l PROVE rank[i] < rank[l]
  <2>0. i \in Int /\ l \in Int /\ \A k \in K : k <= i => k <= l
    BY <1>0, <1>3
  <2>4. upto(i) \in SUBSET upto(l)
    BY <2>0
  <2>5. l \in upto(l)
    BY <2>0
  <2>6. l \notin upto(i)
    BY <1>3, <2>0
  <2>1. upto(i) \in SUBSET upto(l) /\ l \in upto(l) /\ l \notin upto(i)
    BY <2>4, <2>5, <2>6
  <2>2. Cardinality(upto(i)) <= Cardinality(upto(l)) /\ Cardinality(upto(i)) # Cardinality(upto(l))
    BY <1>2, <2>1, FS_Subset
  <2>3. rank[i] \in Nat /\ rank[l] \in Nat
    BY <1>1, <1>2
  <2> QED BY <2>2, <2>3
<1>4. \A i, l \in K : rank[i] = rank[l] => i = l
  <2> SUFFICES ASSUME NEW i \in K, NEW l \in K, rank[i] = rank[l], i # l PROVE FALSE
    OBVIOUS
  <2>1. i < l \/ l < i
    BY <1>0
  <2>2. rank[i] \in Nat /\ rank[l] \in Nat
    BY <1>1, <1>2
  <2> QED BY <1>3, <2>1, <2>2
<1>5. rank \in Injection(K, 1 .. Cardinality(K))
  <2>1. rank \in [K -> 1 .. Cardinality(K)]
    BY <1>2
  <2> QED BY <1>4, <2>1 DEF Injection, IsInjective
<1>6. IsFiniteSet(1 .. Cardinality(K)) /\ Cardinality(1 .. Cardinality(K)) = Cardinality(K)
  <2> DEFINE m == Cardinality(K)
  <2>1. m \in Nat
    BY <1>1
  <2> HIDE DEF m
  <2>2. IsFiniteSet(1 .. m) /\ Cardinality(1 .. m) = m
    BY <2>1, FS_Interval
  <2> QED BY <2>2 DEF m
<1>7. rank \in Surjection(K, 1 .. Cardinality(K))
  BY <1>5, <1>6, FS_Injection
<1>8. \A j \in 1 .. Cardinality(K) : \E i \in K : rank[i] = j
  BY <1>7 DEF Surjection
<1> QED BY <1>1, <1>2, <1>4, <1>8

(* Entries(s, K), which is u here, has what s has at the places K, once for each. *)
Picks(s, K, u) ==
    /\ u \in Seq(Entry) /\ IsFiniteSet(K) /\ Cardinality(K) \in Nat
    /\ DOMAIN u = 1 .. Cardinality(K)
    /\ Len(u) = Cardinality(K) /\ Cardinality(K) <= Len(s)
    /\ \A j \in DOMAIN u : \E i \in K : u[j] = s[i]
    /\ \A i \in K : \E j \in DOMAIN u : u[j] = s[i]
    /\ \A j, l \in DOMAIN u : \E i, k \in K : u[j] = s[i] /\ u[l] = s[k] /\ (i = k => j = l)

LEMMA EntriesFacts ==
    \A s \in Seq(Entry) : \A K \in SUBSET DOMAIN s : Picks(s, K, Entries(s, K))
<1> SUFFICES ASSUME NEW s \in Seq(Entry), NEW K \in SUBSET DOMAIN s
             PROVE  Picks(s, K, Entries(s, K))
  OBVIOUS
<1> DEFINE n == Cardinality(K)
           u == Entries(s, K)
           rank(i) == Cardinality({k \in K : k <= i})
           place(j) == CHOOSE i \in K : rank(i) = j
<1>1. Len(s) \in Nat /\ DOMAIN s = 1 .. Len(s) /\ K \in SUBSET (1 .. Len(s))
  BY LenProperties
<1>2. /\ IsFiniteSet(K) /\ n \in Nat /\ n <= Len(s)
      /\ \A i \in K : rank(i) \in 1 .. n
      /\ \A i, l \in K : rank(i) = rank(l) => i = l
      /\ \A j \in 1 .. n : \E i \in K : rank(i) = j
  BY <1>1, Numbering
<1> HIDE DEF rank
<1>3. \A j \in 1 .. n : place(j) \in K /\ rank(place(j)) = j
  BY <1>2
<1>4. u = [j \in 1 .. n |-> s[place(j)]]
  BY DEF Entries, rank
<1> HIDE DEF place, u, n
<1>5. \A j \in 1 .. n : s[place(j)] \in Entry
  BY <1>1, <1>3, ElementOfSeq
<1>6. u \in [1 .. n -> Entry]
  BY <1>4, <1>5
<1>7. u \in Seq(Entry) /\ DOMAIN u = 1 .. n /\ Len(u) = n
  BY <1>2, <1>6, SeqDef, LenProperties
<1>8. \A i \in K : \E j \in 1 .. n : u[j] = s[i]
  <2> SUFFICES ASSUME NEW i \in K PROVE \E j \in 1 .. n : u[j] = s[i]
    OBVIOUS
  <2>1. place(rank(i)) = i
    BY <1>2, <1>3
  <2> QED BY <1>2, <1>4, <2>1
<1>9. \A j, l \in 1 .. n : u[j] = s[place(j)] /\ u[l] = s[place(l)] /\ (place(j) = place(l) => j = l)
  BY <1>3, <1>4
<1>10. \A j, l \in 1 .. n : \E i, k \in K : u[j] = s[i] /\ u[l] = s[k] /\ (i = k => j = l)
  BY <1>3, <1>9
<1>11. \A j \in 1 .. n : \E i \in K : u[j] = s[i]
  BY <1>3, <1>4
<1>12. /\ u \in Seq(Entry) /\ IsFiniteSet(K) /\ n \in Nat /\ DOMAIN u = 1 .. n
       /\ Len(u) = n /\ n <= Len(s)
  BY <1>2, <1>7
<1>13. /\ u \in Seq(Entry) /\ IsFiniteSet(K) /\ n \in Nat /\ DOMAIN u = 1 .. n
       /\ Len(u) = n /\ n <= Len(s)
       /\ \A j \in DOMAIN u : \E i \in K : u[j] = s[i]
       /\ \A i \in K : \E j \in DOMAIN u : u[j] = s[i]
       /\ \A j, l \in DOMAIN u : \E i, k \in K :
             u[j] = s[i] /\ u[l] = s[k] /\ (i = k => j = l)
  <2> DEFINE D == DOMAIN u
             N == 1 .. n
  <2>1. D = N
    BY <1>12
  <2>2. /\ \A j \in N : \E i \in K : u[j] = s[i]
        /\ \A i \in K : \E j \in N : u[j] = s[i]
        /\ \A j, l \in N : \E i, k \in K :
              u[j] = s[i] /\ u[l] = s[k] /\ (i = k => j = l)
    BY <1>8, <1>10, <1>11
  <2> HIDE DEF D, N
  <2>3. /\ \A j \in D : \E i \in K : u[j] = s[i]
        /\ \A i \in K : \E j \in D : u[j] = s[i]
        /\ \A j, l \in D : \E i, k \in K :
              u[j] = s[i] /\ u[l] = s[k] /\ (i = k => j = l)
    BY <2>1, <2>2
  <2> QED BY <1>12, <2>3 DEF D
<1> QED BY <1>13 DEF u, n, Picks

LEMMA ToSetFacts ==
    ASSUME NEW s \in Seq(Entry)
    PROVE  /\ DOMAIN s = 1 .. Len(s) /\ Len(s) \in Nat /\ ToSet(s) \subseteq Entry
           /\ \A e : e \in ToSet(s) <=> \E i \in DOMAIN s : s[i] = e
BY LenProperties, ElementOfSeq DEF ToSet

(* What DeleteGC leaves of the gc index s.                                       *)
Without(s, u, c) ==
    /\ u \in Seq(Entry)
    /\ \A e : e \in ToSet(u) <=> e \in ToSet(s) /\ (e.chunk # c \/ ~e.keyed)
    /\ Len(u) <= Len(s)
    /\ (\E e \in ToSet(s) : e.chunk = c /\ e.keyed) => Len(u) + 1 <= Len(s)
    /\ Single(s) => Single(u)

LEMMA Deleted ==
    \A b \in Database, c \in Chunk :
        /\ DeleteGC(b, c) = [b EXCEPT !.gc = DeleteGC(b, c).gc]
        /\ Without(b.gc, DeleteGC(b, c).gc, c)
<1> SUFFICES ASSUME NEW b \in Database, NEW c \in Chunk
             PROVE  /\ DeleteGC(b, c) = [b EXCEPT !.gc = DeleteGC(b, c).gc]
                    /\ Without(b.gc, DeleteGC(b, c).gc, c)
  OBVIOUS
<1> DEFINE s == b.gc
           K == {i \in DOMAIN s : s[i].chunk # c \/ ~s[i].keyed}
           u == Entries(s, K)
<1>1. s \in Seq(Entry)
  BY DEF Database
<1>2. DeleteGC(b, c) = [b EXCEPT !.gc = u]
  BY DEF DeleteGC
<1>3. DeleteGC(b, c).gc = u
  BY <1>2 DEF Database
<1>4. K \in SUBSET DOMAIN s /\ DOMAIN s = 1 .. Len(s) /\ Len(s) \in Nat
  BY <1>1, LenProperties
<1> HIDE DEF u
<1>5. /\ u \in Seq(Entry) /\ Len(u) = Cardinality(K) /\ Cardinality(K) <= Len(s)
      /\ IsFiniteSet(K) /\ Cardinality(K) \in Nat
      /\ \A j \in DOMAIN u : \E i \in K : u[j] = s[i]
      /\ \A i \in K : \E j \in DOMAIN u : u[j] = s[i]
      /\ \A j, l \in DOMAIN u : \E i, k \in K :
            u[j] = s[i] /\ u[l] = s[k] /\ (i = k => j = l)
  <2> HIDE DEF K, s
  <2>1. Picks(s, K, Entries(s, K))
    BY <1>1, <1>4, EntriesFacts
  <2> QED BY <2>1 DEF u, Picks
<1>6. \A e : e \in ToSet(u) <=> e \in ToSet(s) /\ (e.chunk # c \/ ~e.keyed)
  <2>1. \A i \in K : i \in DOMAIN s /\ (s[i].chunk # c \/ ~s[i].keyed)
    OBVIOUS
  <2>2. \A i \in DOMAIN s : s[i].chunk # c \/ ~s[i].keyed => i \in K
    OBVIOUS
  <2> HIDE DEF K, s
  <2>3. ASSUME NEW e \in ToSet(u) PROVE e \in ToSet(s) /\ (e.chunk # c \/ ~e.keyed)
    <3>1. PICK j \in DOMAIN u : e = u[j]
      BY DEF ToSet
    <3>2. PICK i \in K : e = s[i]
      BY <1>5, <3>1
    <3> QED BY <2>1, <3>2 DEF ToSet
  <2>4. ASSUME NEW e \in ToSet(s), e.chunk # c \/ ~e.keyed PROVE e \in ToSet(u)
    <3>1. PICK i \in DOMAIN s : e = s[i]
      BY DEF ToSet
    <3> QED BY <1>5, <2>2, <2>4, <3>1 DEF ToSet
  <2> QED BY <2>3, <2>4
<1>7. ASSUME \E e \in ToSet(s) : e.chunk = c /\ e.keyed PROVE Len(u) + 1 <= Len(s)
  <2>1. PICK i \in 1 .. Len(s) : i \notin K
    BY <1>4, <1>7 DEF ToSet
  <2>2. IsFiniteSet(1 .. Len(s)) /\ Cardinality(1 .. Len(s)) = Len(s)
    BY <1>4, FS_Interval
  <2> HIDE DEF K, s
  <2>3. K \in SUBSET (1 .. Len(s)) /\ K # 1 .. Len(s)
    BY <1>4, <2>1
  <2>4. Cardinality(K) # Len(s)
    BY <2>2, <2>3, FS_Subset
  <2> QED BY <1>4, <1>5, <2>4
<1>8. ASSUME Single(s) PROVE Single(u)
  <2> SUFFICES ASSUME NEW j \in DOMAIN u, NEW l \in DOMAIN u, u[j].chunk = u[l].chunk
               PROVE  j = l
    BY DEF Single
  <2>1. PICK i \in K, k \in K : u[j] = s[i] /\ u[l] = s[k] /\ (i = k => j = l)
    BY <1>5
  <2>2. i = k
    BY <1>8, <2>1 DEF Single
  <2> QED BY <2>1, <2>2
<1> QED BY <1>2, <1>3, <1>5, <1>6, <1>7, <1>8 DEF Without

LEMMA WithoutChunk ==
    ASSUME NEW s \in Seq(Entry), NEW u, NEW c, Without(s, u, c), Proper(s)
    PROVE  Proper(u) /\ ~Has(u, c) /\ (Has(s, c) => Len(u) + 1 <= Len(s))
BY DEF Without, Proper, Has

(* An entry more.                                                                *)
LEMMA Appended ==
    ASSUME NEW s \in Seq(Entry), NEW e \in Entry
    PROVE  /\ Append(s, e) \in Seq(Entry) /\ Len(Append(s, e)) = Len(s) + 1
           /\ \A x : x \in ToSet(Append(s, e)) <=> x \in ToSet(s) \/ x = e
           /\ Single(s) /\ (\A x \in ToSet(s) : x.chunk # e.chunk) => Single(Append(s, e))
<1> DEFINE u == Append(s, e)
<1>1. /\ u \in Seq(Entry) /\ Len(u) = Len(s) + 1 /\ Len(s) \in Nat
      /\ DOMAIN s = 1 .. Len(s) /\ DOMAIN u = 1 .. Len(s) + 1
      /\ \A i \in 1 .. Len(s) : u[i] = s[i]
      /\ u[Len(s) + 1] = e
  BY AppendProperties, LenProperties
<1> HIDE DEF u
<1>2. \A i \in DOMAIN u : i \in DOMAIN s \/ i = Len(s) + 1
  BY <1>1
<1>3. \A x : x \in ToSet(u) <=> x \in ToSet(s) \/ x = e
  <2> SUFFICES ASSUME NEW x PROVE x \in ToSet(u) <=> x \in ToSet(s) \/ x = e
    OBVIOUS
  <2>1. Len(s) + 1 \in DOMAIN u /\ \A i \in DOMAIN s : i \in DOMAIN u /\ u[i] = s[i]
    BY <1>1
  <2> QED BY <1>1, <1>2, <2>1 DEF ToSet
<1>4. ASSUME Single(s), \A x \in ToSet(s) : x.chunk # e.chunk
      PROVE  Single(u)
  <2>1. \A i \in DOMAIN s : u[i] = s[i] /\ s[i].chunk # e.chunk
    BY <1>1, <1>4 DEF ToSet
  <2> QED BY <1>1, <1>2, <1>4, <2>1 DEF Single
<1> QED BY <1>1, <1>3, <1>4 DEF u

-------------------------------------------------------------------------------
-------------------------------------------------------------------------------
USE BoundAssumption
-------------------------------------------------------------------------------
(* The parts of a batch.                                                         *)

(* What a step of a batch leaves alone: all there is of the other chunks.        *)
Others(b, u, c) ==
    /\ \A x \in Chunk \ {c} :
          /\ u.loc[x] = b.loc[x] /\ u.pin[x] = b.pin[x]
          /\ (x \in u.access <=> x \in b.access) /\ (x \in u.push <=> x \in b.push)
    /\ \A e \in Entry : e.chunk # c => (e \in ToSet(u.gc) <=> e \in ToSet(b.gc))

LEMMA Unchanged ==
    ASSUME NEW b \in Database, NEW u \in Database, NEW c \in Chunk, Others(b, u, c),
           NEW x \in Chunk \ {c}
    PROVE  (Has(u.gc, x) <=> Has(b.gc, x)) /\ (CachedAt(b, x) => CachedAt(u, x))
<1>1. ToSet(u.gc) \subseteq Entry /\ ToSet(b.gc) \subseteq Entry
  BY ToSetFacts DEF Database
<1>2. Has(u.gc, x) <=> Has(b.gc, x)
  BY <1>1 DEF Others, Has
<1> QED BY <1>2 DEF CachedAt, Others, Stored

LEMMA UnchangedTwice ==
    ASSUME NEW b, NEW u, NEW w, NEW c, Others(b, u, c), Others(u, w, c)
    PROVE  Others(b, w, c)
BY DEF Others

(* All is cached after a step if it is for the chunk the step is about.          *)
LEMMA CachedStep ==
    ASSUME NEW b \in Database, NEW u \in Database, NEW c \in Chunk, Others(b, u, c),
           \A x \in Chunk \ {c} : CachedAt(b, x), Proper(u.gc), CachedAt(u, c)
    PROVE  Cached(u)
BY Unchanged DEF Cached

(* The change of the size accounts for a new entry of the gc index.              *)
Counted(t, u) == Len(u.b.gc) - u.gc <= Len(t.b.gc) - t.gc

(* The rest of a batch, which only some steps change.                            *)
SameElse(t, u) ==
    /\ u.d = t.d /\ u.file = t.file /\ u.wrote = t.wrote /\ u.release = t.release
    /\ u.failed = t.failed

LEMMA CountedCases ==
    ASSUME NEW t \in Updates, NEW u \in Updates,
           \/ u.b.gc = t.b.gc /\ u.gc = t.gc
           \/ Len(u.b.gc) = Len(t.b.gc) + 1 /\ u.gc = t.gc + 1
           \/ Len(u.b.gc) + 1 <= Len(t.b.gc) /\ u.gc = t.gc - 1
    PROVE  Counted(t, u)
<1> DEFINE k == Len(t.b.gc)
           l == Len(u.b.gc)
           m == t.gc
           n == u.gc
<1>1. k \in Nat /\ l \in Nat /\ m \in Int /\ n \in Int
  BY LenProperties DEF Updates, Database
<1>2. (l = k /\ n = m) \/ (l = k + 1 /\ n = m + 1) \/ (l + 1 <= k /\ n = m - 1)
  <2>1. u.b.gc = t.b.gc => l = k
    OBVIOUS
  <2> QED BY <2>1
<1> HIDE DEF k, l, m, n
<1>3. l - n <= k - m
  BY <1>1, <1>2
<1> QED BY <1>3 DEF k, l, m, n, Counted

LEMMA SetPinFacts ==
    ASSUME NEW t \in Updates, NEW c \in Chunk
    PROVE  LET u == SetPin(t, c) IN
           /\ u \in Updates /\ SameElse(t, u) /\ u.reserve = t.reserve /\ Others(t.b, u.b, c)
           /\ u.b.loc = t.b.loc /\ u.b.access = t.b.access /\ u.b.push = t.b.push
           /\ u.b.pin[c] > 0
           /\ IF t.d.pin[c] = 0 /\ c \in t.d.access
              THEN Without(t.b.gc, u.b.gc, c) /\ u.gc = t.gc - 1
              ELSE u.b.gc = t.b.gc /\ u.gc = t.gc
<1> DEFINE u == SetPin(t, c)
           g == DeleteGC(t.b, c).gc
<1>1. t.b \in Database /\ t.d \in Database /\ t.gc \in Int /\ t.d.pin[c] \in Nat /\ t.b.pin \in [Chunk -> Nat]
  BY DEF Updates, Database
<1>2. DeleteGC(t.b, c) = [t.b EXCEPT !.gc = g] /\ Without(t.b.gc, g, c)
  BY <1>1, Deleted
<1>3. CASE t.d.pin[c] = 0 /\ c \in t.d.access
  <2> DEFINE p == [t.b.pin EXCEPT ![c] = 1]
             b == [t.b EXCEPT !.gc = g, !.pin = p]
             n == t.gc - 1
  <2>1. u = [t EXCEPT !.b = b, !.gc = n]
    <3> DEFINE d == DeleteGC(t.b, c)
    <3>1. u = [t EXCEPT !.b = [d EXCEPT !.pin = [d.pin EXCEPT ![c] = 1]], !.gc = n]
      BY <1>3 DEF SetPin
    <3> HIDE DEF n, g, d
    <3>2. d = [t.b EXCEPT !.gc = g]
      BY <1>2 DEF d
    <3>3. [d EXCEPT !.pin = [d.pin EXCEPT ![c] = 1]] = b
      BY <1>1, <3>2 DEF Database
    <3> QED BY <3>1, <3>3
  <2>2. p \in [Chunk -> Nat] /\ p[c] = 1 /\ \A x \in Chunk \ {c} : p[x] = t.b.pin[x]
    BY <1>1
  <2> HIDE DEF p, g
  <2>3. b \in Database /\ b.loc = t.b.loc /\ b.access = t.b.access /\ b.push = t.b.push
        /\ b.gc = g /\ b.pin = p
    BY <1>1, <1>2, <2>2 DEF Database, Without
  <2>6. n \in Int
    BY <1>1
  <2> HIDE DEF b, n
  <2>4. /\ u \in Updates /\ SameElse(t, u) /\ u.reserve = t.reserve /\ u.b = b /\ u.gc = n
    BY <1>1, <2>1, <2>3, <2>6 DEF Updates, SameElse
  <2>5. Others(t.b, b, c)
    BY <1>2, <2>2, <2>3 DEF Others, Without
  <2> QED BY <1>2, <1>3, <2>2, <2>3, <2>4, <2>5 DEF n
<1>4. CASE ~(t.d.pin[c] = 0 /\ c \in t.d.access)
  <2> DEFINE p == [t.b.pin EXCEPT ![c] = t.d.pin[c] + 1]
             b == [t.b EXCEPT !.pin = p]
  <2>1. u = [t EXCEPT !.b = b]
    BY <1>4 DEF SetPin
  <2>2. p \in [Chunk -> Nat] /\ p[c] > 0 /\ \A x \in Chunk \ {c} : p[x] = t.b.pin[x]
    BY <1>1
  <2> HIDE DEF p
  <2>3. b \in Database /\ b.loc = t.b.loc /\ b.access = t.b.access /\ b.push = t.b.push
        /\ b.gc = t.b.gc /\ b.pin = p
    BY <1>1, <2>2 DEF Database
  <2> HIDE DEF b
  <2>4. /\ u \in Updates /\ SameElse(t, u) /\ u.reserve = t.reserve /\ u.b = b /\ u.gc = t.gc
    BY <1>1, <2>1, <2>3 DEF Updates, SameElse
  <2>5. Others(t.b, b, c)
    BY <2>2, <2>3 DEF Others
  <2> QED BY <1>4, <2>2, <2>3, <2>4, <2>5
<1> QED BY <1>3, <1>4

LEMMA SetRemoveFacts ==
    ASSUME NEW t \in Updates, NEW c \in Chunk, Stored(t.d, c)
    PROVE  LET u == SetRemove(t, c) IN
           /\ u \in Updates /\ u.d = t.d /\ u.file = t.file /\ u.wrote = t.wrote
           /\ u.failed = t.failed /\ u.reserve = t.reserve /\ Others(t.b, u.b, c)
           /\ u.release = t.release \cup {t.d.loc[c]}
           /\ u.b.loc[c] = None /\ c \notin u.b.access /\ c \notin u.b.push
           /\ IF InGC(t.d, c)
              THEN Without(t.b.gc, u.b.gc, c) /\ u.gc = t.gc - 1 /\ u.b.pin = t.b.pin
              ELSE u.b.gc = t.b.gc /\ u.gc = t.gc /\ u.b.pin[c] = 0
<1> DEFINE u == SetRemove(t, c)
           loc == [t.b.loc EXCEPT ![c] = None]
           index == [t.b.index EXCEPT ![IndexOf[c]] = None]
           b == [t.b EXCEPT !.loc = loc, !.access = t.b.access \ {c}, !.push = t.b.push \ {c},
                            !.index = index]
           r == t.release \cup {t.d.loc[c]}
           Common(v) ==
              /\ v.loc = loc /\ v.access = t.b.access \ {c} /\ v.push = t.b.push \ {c}
              /\ \A x \in Chunk \ {c} : v.pin[x] = t.b.pin[x]
           New(w) ==
              /\ u \in Updates /\ u.d = t.d /\ u.file = t.file /\ u.wrote = t.wrote
              /\ u.failed = t.failed /\ u.reserve = t.reserve /\ u.release = r /\ u.b = w
<1>1. t.b \in Database /\ t.d \in Database /\ t.gc \in Int /\ t.release \in SUBSET Slot
  BY DEF Updates
<1>2. r \in SUBSET Slot
  BY <1>1 DEF Database, Stored
<1>3. loc \in [Chunk -> Slot \cup {None}] /\ loc[c] = None
      /\ \A x \in Chunk \ {c} : loc[x] = t.b.loc[x]
  BY <1>1 DEF Database
<1>4. index \in [Index -> Chunk \cup {None}]
  BY <1>1 DEF Database
<1>5. /\ b \in Database /\ b.loc = loc /\ b.access = t.b.access \ {c} /\ b.push = t.b.push \ {c}
      /\ b.gc = t.b.gc /\ b.pin = t.b.pin
  <2> HIDE DEF loc, index
  <2> QED BY <1>1, <1>3, <1>4 DEF Database
<1>6. u = IF InGC(t.d, c)
          THEN [t EXCEPT !.b = DeleteGC(b, c), !.gc = t.gc - 1, !.release = r]
          ELSE [t EXCEPT !.b = [b EXCEPT !.pin = [b.pin EXCEPT ![c] = 0]], !.release = r]
  BY DEF SetRemove
<1> HIDE DEF u, b, loc, r
<1>7. CASE InGC(t.d, c)
  <2> DEFINE g == DeleteGC(b, c).gc
             w == DeleteGC(b, c)
             n == t.gc - 1
  <2>1. w = [b EXCEPT !.gc = g] /\ Without(b.gc, g, c)
    BY <1>5, Deleted
  <2>2. u = [t EXCEPT !.b = w, !.gc = n, !.release = r] /\ n \in Int
    BY <1>1, <1>6, <1>7
  <2> HIDE DEF g, w, n
  <2>3. w \in Database /\ Common(w) /\ w.gc = g /\ w.pin = t.b.pin
    BY <1>5, <2>1 DEF Database, Without
  <2>4. New(w) /\ u.gc = n
    BY <1>1, <1>2, <2>2, <2>3 DEF Updates
  <2>5. Others(t.b, w, c)
    BY <1>3, <1>5, <2>1, <2>3 DEF Others, Without
  <2> QED BY <1>3, <1>5, <1>7, <2>1, <2>3, <2>4, <2>5 DEF n, u, r
<1>8. CASE ~InGC(t.d, c)
  <2> DEFINE p == [b.pin EXCEPT ![c] = 0]
             w == [b EXCEPT !.pin = p]
  <2>1. p \in [Chunk -> Nat] /\ p[c] = 0 /\ \A x \in Chunk \ {c} : p[x] = b.pin[x]
    BY <1>5 DEF Database
  <2>2. u = [t EXCEPT !.b = w, !.release = r]
    BY <1>6, <1>8
  <2> HIDE DEF p
  <2>3. w \in Database /\ Common(w) /\ w.gc = t.b.gc /\ w.pin = p
    BY <1>5, <2>1 DEF Database
  <2> HIDE DEF w
  <2>4. New(w) /\ u.gc = t.gc
    BY <1>1, <1>2, <2>2, <2>3 DEF Updates
  <2>5. Others(t.b, w, c)
    BY <1>3, <1>5, <2>1, <2>3 DEF Others
  <2> QED BY <1>3, <1>5, <1>8, <2>1, <2>3, <2>4, <2>5 DEF u, r
<1> QED BY <1>7, <1>8

(* What the batch t becomes, u, when setUnpin is called for a chunk.             *)
UnpinsChunk(t, u, c) ==
    /\ u \in Updates /\ SameElse(t, u) /\ u.reserve = t.reserve /\ Others(t.b, u.b, c)
    /\ u.b.loc = t.b.loc /\ u.b.push = t.b.push
    /\ t.d.pin[c] > 1 \/ c \in t.d.push =>
          u.b.gc = t.b.gc /\ u.gc = t.gc /\ u.b.access = t.b.access
    /\ u.b.pin[c] = t.d.pin[c] - 1
    /\ ~(t.d.pin[c] > 1 \/ c \in t.d.push) =>
          /\ \E e \in Entry : e.chunk = c /\ e.keyed /\ u.b.gc = Append(t.b.gc, e)
          /\ u.gc = t.gc + 1 /\ c \in u.b.access

LEMMA SetUnpinFacts ==
    ASSUME NEW t \in Updates, NEW c \in Chunk, t.b = t.d, t.d.pin[c] > 0
    PROVE  UnpinsChunk(t, SetUnpin(t, c), c)
<1> DEFINE u == SetUnpin(t, c)
           p == [t.b.pin EXCEPT ![c] = t.d.pin[c] - 1]
           a == t.b.access \cup {c}
           e == GCEntry(c, 0)
           g == Append(t.b.gc, e)
           n == t.gc + 1
           z == [t.b.pin EXCEPT ![c] = 0]
<1>0. t.b \in Database /\ t.d \in Database /\ t.gc \in Int
  BY DEF Updates
<1>1. t.b \in Database /\ t.d \in Database /\ t.gc \in Int /\ n \in Int
      /\ t.d.pin[c] \in Nat /\ t.b.pin \in [Chunk -> Nat]
  <2>1. n \in Int
    BY <1>0
  <2>2. t.d.pin[c] \in Nat /\ t.b.pin \in [Chunk -> Nat]
    BY <1>0 DEF Database
  <2> QED BY <1>0, <2>1, <2>2
<1>2. /\ p \in [Chunk -> Nat] /\ p[c] = t.d.pin[c] - 1 /\ (t.d.pin[c] <= 1 => p = z)
      /\ \A x \in Chunk \ {c} : p[x] = t.b.pin[x]
  BY <1>1
<1>3. e \in Entry /\ e.chunk = c /\ e.keyed
  BY BoundAssumption DEF Entry, GCEntry
<1>4. t.b.gc \in Seq(Entry) /\ a \in SUBSET Chunk
  BY <1>1 DEF Database
<1>5. g \in Seq(Entry) /\ \A x : x \in ToSet(g) <=> x \in ToSet(t.b.gc) \/ x = e
  <2> HIDE DEF e
  <2> QED BY <1>3, <1>4, Appended
<1>6. CASE t.d.pin[c] > 1 \/ c \in t.d.push
  <2> DEFINE b == [t.b EXCEPT !.pin = p]
  <2>1. u = [t EXCEPT !.b = b]
    <3>1. CASE t.d.pin[c] > 1
      BY <3>1 DEF SetUnpin
    <3>2. CASE ~(t.d.pin[c] > 1)
      <4>1. p = z
        BY <1>1, <1>2, <3>2
      <4>2. u = [t EXCEPT !.b = [t.b EXCEPT !.pin = z]]
        BY <1>6, <3>2 DEF SetUnpin
      <4> HIDE DEF u, p, z
      <4> QED BY <4>1, <4>2
    <3> QED BY <3>1, <3>2
  <2> HIDE DEF p, u
  <2>3. b \in Database /\ b.loc = t.b.loc /\ b.access = t.b.access /\ b.push = t.b.push
        /\ b.gc = t.b.gc /\ b.pin = p
    BY <1>1, <1>2 DEF Database
  <2> HIDE DEF b
  <2>4. /\ u \in Updates /\ SameElse(t, u) /\ u.reserve = t.reserve /\ u.b = b /\ u.gc = t.gc
    BY <1>1, <2>1, <2>3 DEF Updates, SameElse
  <2>5. Others(t.b, b, c)
    BY <1>2, <2>3 DEF Others
  <2> QED BY <1>2, <1>6, <2>3, <2>4, <2>5 DEF u, UnpinsChunk
<1>7. CASE ~(t.d.pin[c] > 1 \/ c \in t.d.push)
  <2> DEFINE b == [t.b EXCEPT !.pin = p, !.access = a, !.gc = g]
  <2>1. u = [t EXCEPT !.b = b, !.gc = n]
    <3>1. p = z
      BY <1>1, <1>2, <1>7
    <3>2. u = [t EXCEPT !.b = [t.b EXCEPT !.pin = z, !.access = a, !.gc = g], !.gc = n]
      BY <1>7 DEF SetUnpin
    <3> HIDE DEF u, p, z, a, g
    <3> QED BY <3>1, <3>2
  <2> HIDE DEF p, u, g, n, e
  <2>3. b \in Database /\ b.loc = t.b.loc /\ b.access = a /\ b.push = t.b.push
        /\ b.gc = g /\ b.pin = p
    BY <1>1, <1>2, <1>4, <1>5 DEF Database
  <2> HIDE DEF b
  <2>4. /\ u \in Updates /\ SameElse(t, u) /\ u.reserve = t.reserve /\ u.b = b /\ u.gc = n
    BY <1>1, <2>1, <2>3 DEF Updates, SameElse
  <2>5. Others(t.b, b, c)
    BY <1>2, <1>3, <1>5, <2>3 DEF Others
  <2>6. \E x \in Entry : x.chunk = c /\ x.keyed /\ u.b.gc = Append(t.b.gc, x)
    BY <1>3, <2>3, <2>4 DEF g
  <2> QED BY <1>2, <1>7, <2>3, <2>4, <2>5, <2>6 DEF u, n, UnpinsChunk
<1> QED BY <1>6, <1>7

(* The three outcomes of preserveOrCache: the reserve, nothing, and the cache.   *)
Reserved(t, u, c) ==
    /\ u.b.pin[c] > 0
    /\ IF t.d.pin[c] = 0 /\ c \in t.d.access
       THEN Without(t.b.gc, u.b.gc, c) /\ u.gc = t.gc - 1
       ELSE u.b.gc = t.b.gc /\ u.gc = t.gc

InCache(t, u, c) ==
    /\ u.b.pin = t.b.pin /\ u.gc = t.gc + 1
    /\ \E e \in Entry : e.chunk = c /\ e.keyed /\ u.b.gc = Append(t.b.gc, e)

LEMMA PreserveFacts ==
    ASSUME NEW t \in Updates, NEW c \in Chunk,
           NEW within, NEW forcePin, NEW forceCache
    PROVE  LET u == PreserveOrCache(t, c, within, forcePin, forceCache) IN
           /\ u \in Updates /\ SameElse(t, u) /\ Others(t.b, u.b, c)
           /\ u.b.loc = t.b.loc /\ u.b.access = t.b.access /\ u.b.push = t.b.push
           /\ \/ Reserved(t, u, c)
              \/ u = t /\ (t.d.pin[c] > 0 \/ InGC(t.d, c))
              \/ InCache(t, u, c) /\ ~(t.d.pin[c] > 0 \/ InGC(t.d, c))
           /\ within /\ ~forceCache => Reserved(t, u, c)
<1> DEFINE u == PreserveOrCache(t, c, within, forcePin, forceCache)
           e == GCEntry(c, IndexOf[c])
           g == Append(t.b.gc, e)
           n == t.gc + 1
<1>1. t.b \in Database /\ t.gc \in Int /\ t.reserve \in Int
  BY DEF Updates
<1>2. n \in Int
  BY <1>1
<1>3. e \in Entry /\ e.chunk = c /\ e.keyed
  BY BoundAssumption DEF Entry, GCEntry
<1>4. t.b.gc \in Seq(Entry)
  BY <1>1 DEF Database
<1>5. g \in Seq(Entry) /\ \A x : x \in ToSet(g) <=> x \in ToSet(t.b.gc) \/ x = e
  <2> HIDE DEF e
  <2> QED BY <1>3, <1>4, Appended
<1>6. CASE ~forceCache /\ (within \/ forcePin)
  <2> DEFINE p == SetPin(t, c)
             r == IF forcePin THEN t.reserve ELSE t.reserve + 1
  <2>1. u = [p EXCEPT !.reserve = r]
    BY <1>6 DEF PreserveOrCache
  <2>2. r \in Int
    BY <1>1
  <2>3. /\ p \in Updates /\ SameElse(t, p) /\ Others(t.b, p.b, c)
        /\ p.b.loc = t.b.loc /\ p.b.access = t.b.access /\ p.b.push = t.b.push
        /\ Reserved(t, p, c)
    BY SetPinFacts DEF Reserved
  <2> HIDE DEF p, r, u
  <2>4. u \in Updates /\ u.d = p.d /\ u.file = p.file /\ u.wrote = p.wrote
        /\ u.release = p.release /\ u.failed = p.failed /\ u.b = p.b /\ u.gc = p.gc
    BY <2>1, <2>2, <2>3 DEF Updates
  <2>5. SameElse(t, u) /\ Reserved(t, u, c)
    BY <2>3, <2>4 DEF SameElse, Reserved
  <2> QED BY <2>3, <2>4, <2>5 DEF u
<1>7. CASE ~(~forceCache /\ (within \/ forcePin)) /\ (t.d.pin[c] > 0 \/ InGC(t.d, c))
  <2>1. u = t
    BY <1>7 DEF PreserveOrCache
  <2> HIDE DEF u
  <2>2. Others(t.b, u.b, c) /\ SameElse(t, u)
    BY <2>1 DEF Others, SameElse
  <2> QED BY <1>7, <2>1, <2>2 DEF u
<1>8. CASE ~(~forceCache /\ (within \/ forcePin)) /\ ~(t.d.pin[c] > 0 \/ InGC(t.d, c))
  <2> DEFINE b == [t.b EXCEPT !.gc = g]
  <2>1. u = [t EXCEPT !.b = b, !.gc = n]
    BY <1>8 DEF PreserveOrCache
  <2> HIDE DEF u, g, n, e
  <2>3. b \in Database /\ b.loc = t.b.loc /\ b.access = t.b.access /\ b.push = t.b.push
        /\ b.gc = g /\ b.pin = t.b.pin
    BY <1>1, <1>5 DEF Database
  <2> HIDE DEF b
  <2>4. u \in Updates /\ SameElse(t, u) /\ u.b = b /\ u.gc = n
    BY <1>1, <1>2, <2>1, <2>3 DEF Updates, SameElse
  <2>5. Others(t.b, b, c)
    BY <1>3, <1>5, <2>3 DEF Others
  <2>6. InCache(t, u, c)
    BY <1>3, <2>3, <2>4 DEF g, n, InCache
  <2> QED BY <1>8, <2>3, <2>4, <2>5, <2>6 DEF u
<1> QED BY <1>6, <1>7, <1>8

(* Put adds a chunk that is in neither database.                                 *)
LEMMA AddFacts ==
    \A t \in Updates, c \in Chunk, s \in Slot : \A mode, within :
        LET u == Add(t, c, s, mode, within) IN
        /\ u \in Updates /\ SameElse(t, u) /\ Others(t.b, u.b, c)
        /\ u.b.loc = [t.b.loc EXCEPT ![c] = s]
        /\ /\ Cached(t.b) /\ Cached(t.d) /\ ~Stored(t.b, c) /\ ~Stored(t.d, c)
           /\ t.b.pin[c] = t.d.pin[c]
           => Cached(u.b) /\ Counted(t, u)
<1> SUFFICES ASSUME NEW t \in Updates, NEW c \in Chunk, NEW s \in Slot, NEW mode, NEW within
             PROVE  LET u == Add(t, c, s, mode, within) IN
                    /\ u \in Updates /\ SameElse(t, u) /\ Others(t.b, u.b, c)
                    /\ u.b.loc = [t.b.loc EXCEPT ![c] = s]
                    /\ /\ Cached(t.b) /\ Cached(t.d) /\ ~Stored(t.b, c) /\ ~Stored(t.d, c)
                       /\ t.b.pin[c] = t.d.pin[c]
                       => Cached(u.b) /\ Counted(t, u)
  OBVIOUS
<1> DEFINE u == Add(t, c, s, mode, within)
           loc == [t.b.loc EXCEPT ![c] = s]
           index == [t.b.index EXCEPT ![IndexOf[c]] = c]
           bl == [t.b EXCEPT !.loc = loc, !.index = index]
           bp == [bl EXCEPT !.push = bl.push \cup {c}]
           ba == [bl EXCEPT !.access = bl.access \cup {c}]
           tp == [t EXCEPT !.b = bp]
           ta == [t EXCEPT !.b = ba]
           Same(v) == v.loc = loc /\ v.gc = t.b.gc /\ v.pin = t.b.pin
           Nothing == /\ Cached(t.b) /\ Cached(t.d) /\ ~Stored(t.b, c) /\ ~Stored(t.d, c)
                      /\ t.b.pin[c] = t.d.pin[c]
<1>1. t.b \in Database /\ t.d \in Database /\ t.gc \in Int
  BY DEF Updates
<1>2. loc \in [Chunk -> Slot \cup {None}] /\ loc[c] = s
      /\ \A x \in Chunk \ {c} : loc[x] = t.b.loc[x]
  BY <1>1 DEF Database
<1>3. index \in [Index -> Chunk \cup {None}]
  BY <1>1 DEF Database
<1>4. [t EXCEPT !.b.loc[c] = s, !.b.index[IndexOf[c]] = c] = [t EXCEPT !.b = bl]
  BY <1>1 DEF Updates, Database
<1>5. bl \in Database /\ Same(bl) /\ bl.access = t.b.access /\ bl.push = t.b.push
  <2> HIDE DEF loc, index
  <2> QED BY <1>1, <1>2, <1>3 DEF Database
<1> HIDE DEF bl
<1>6. bp \in Database /\ Same(bp) /\ bp.access = t.b.access /\ bp.push = t.b.push \cup {c}
  BY <1>5 DEF Database
<1>7. ba \in Database /\ Same(ba) /\ ba.access = t.b.access \cup {c} /\ ba.push = t.b.push
  BY <1>5 DEF Database
<1>8. u = IF mode \in Uploads
          THEN IF mode = "uploadPin" THEN SetPin(tp, c) ELSE tp
          ELSE PreserveOrCache(ta, c, within, mode = "requestPin", mode = "requestCache")
  <2> DEFINE w == [t EXCEPT !.b = bl]
  <2>1. [w EXCEPT !.b.push = w.b.push \cup {c}] = tp
    BY <1>1 DEF Updates
  <2>2. [w EXCEPT !.b.access = w.b.access \cup {c}] = ta
    BY <1>1 DEF Updates
  <2>3. w = [t EXCEPT !.b.loc[c] = s, !.b.index[IndexOf[c]] = c]
    BY <1>4
  <2> HIDE DEF w, tp, ta
  <2> QED BY <2>1, <2>2, <2>3 DEF Add
<1> HIDE DEF u, bp, ba
<1>9. tp \in Updates /\ SameElse(t, tp) /\ tp.b = bp /\ tp.gc = t.gc
  BY <1>1, <1>6 DEF Updates, SameElse
<1>10. ta \in Updates /\ SameElse(t, ta) /\ ta.b = ba /\ ta.gc = t.gc
  BY <1>1, <1>7 DEF Updates, SameElse
<1> HIDE DEF tp, ta, loc
<1>11. Others(t.b, bp, c) /\ Others(t.b, ba, c)
  BY <1>2, <1>6, <1>7 DEF Others
<1>12. ASSUME Nothing
       PROVE  /\ t.d.pin[c] = t.b.pin[c] /\ c \notin t.d.access /\ ~InGC(t.d, c)
              /\ t.b.pin[c] \in Nat /\ c \notin t.b.access /\ c \notin t.b.push /\ ~Has(t.b.gc, c)
              /\ Proper(t.b.gc) /\ \A x \in Chunk : CachedAt(t.b, x)
  <2>1. CachedAt(t.d, c) /\ CachedAt(t.b, c) /\ ~Stored(t.b, c) /\ ~Stored(t.d, c)
    BY <1>12 DEF Cached
  <2>2. ~Has(t.d.gc, c) => ~InGC(t.d, c)
    BY DEF Has, InGC, ToSet
  <2>3. t.b.pin[c] \in Nat
    BY <1>1 DEF Database
  <2> QED BY <1>12, <2>1, <2>2, <2>3 DEF CachedAt, Cached
<1>13. s # None
  BY BoundAssumption DEF None
<1> DEFINE Result ==
              /\ u \in Updates /\ SameElse(t, u) /\ Others(t.b, u.b, c) /\ u.b.loc = loc
              /\ Nothing => Cached(u.b) /\ Counted(t, u)
<1>14. ASSUME u \in Updates, SameElse(t, u), Others(t.b, u.b, c), u.b.loc = loc,
              Nothing => /\ Proper(u.b.gc) /\ CachedAt(u.b, c)
                         /\ Counted(t, u)
       PROVE  Result
  <2>1. u.b \in Database
    BY <1>14 DEF Updates
  <2>2. ASSUME Nothing PROVE Cached(u.b)
    <3> DEFINE b == t.b
               v == u.b
    <3>1. /\ b \in Database /\ v \in Database /\ Others(b, v, c)
          /\ \A x \in Chunk \ {c} : CachedAt(b, x)
          /\ Proper(v.gc) /\ CachedAt(v, c)
      BY <1>1, <1>12, <1>14, <2>1, <2>2
    <3> HIDE DEF b, v
    <3>2. Cached(v)
      BY <3>1, CachedStep
    <3> QED BY <3>2 DEF v
  <2> QED BY <1>14, <2>2
<1> HIDE DEF Nothing
<1>15. CASE mode \in Uploads /\ mode # "uploadPin"
  <2>1. u = tp
    BY <1>8, <1>15
  <2>2. ASSUME Nothing PROVE Proper(bp.gc) /\ CachedAt(bp, c)
    BY <1>2, <1>6, <1>12, <1>13, <2>2 DEF CachedAt, Stored
  <2>3. Result
    <3>1. Counted(t, tp)
      BY <1>6, <1>9, CountedCases
    <3> QED BY <1>6, <1>9, <1>11, <1>14, <2>1, <2>2, <3>1
  <2> QED BY <2>3 DEF u, loc, Nothing
<1>16. CASE mode = "uploadPin"
  <2>1. u = SetPin(tp, c)
    BY <1>8, <1>16 DEF Uploads
  <2>2. /\ u \in Updates /\ SameElse(tp, u) /\ Others(bp, u.b, c)
        /\ u.b.loc = loc /\ u.b.access = t.b.access /\ u.b.push = bp.push /\ u.b.pin[c] > 0
        /\ ~(tp.d.pin[c] = 0 /\ c \in tp.d.access) => u.b.gc = t.b.gc /\ u.gc = t.gc
    BY <1>6, <1>9, <2>1, SetPinFacts
  <2>3. SameElse(t, u) /\ Others(t.b, u.b, c)
    BY <1>9, <1>11, <2>2, UnchangedTwice DEF SameElse
  <2>4. ASSUME Nothing
        PROVE  Proper(u.b.gc) /\ CachedAt(u.b, c) /\ u.b.gc = t.b.gc /\ u.gc = t.gc
    <3>1. u.b.gc = t.b.gc /\ u.gc = t.gc
      BY <1>9, <1>12, <2>2, <2>4 DEF SameElse
    <3> QED BY <1>2, <1>12, <1>13, <2>2, <2>4, <3>1 DEF CachedAt, Stored
  <2>5. Result
    <3>1. ASSUME Nothing PROVE Counted(t, u)
      BY <2>2, <2>4, <3>1, CountedCases
    <3> QED BY <1>14, <2>2, <2>3, <2>4, <3>1
  <2> QED BY <2>5 DEF u, loc, Nothing
<1>17. CASE mode \notin Uploads
  <2>1. u = PreserveOrCache(ta, c, within, mode = "requestPin", mode = "requestCache")
    BY <1>8, <1>17
  <2>2. /\ u \in Updates /\ SameElse(ta, u) /\ Others(ta.b, u.b, c)
        /\ u.b.loc = ta.b.loc /\ u.b.access = ta.b.access /\ u.b.push = ta.b.push
        /\ \/ Reserved(ta, u, c)
           \/ u = ta /\ (ta.d.pin[c] > 0 \/ InGC(ta.d, c))
           \/ InCache(ta, u, c) /\ ~(ta.d.pin[c] > 0 \/ InGC(ta.d, c))
    <3> DEFINE forcePin == mode = "requestPin"
               forceCache == mode = "requestCache"
    <3>2. u = PreserveOrCache(ta, c, within, forcePin, forceCache)
      BY <2>1
    <3> HIDE DEF forcePin, forceCache
    <3> QED BY <1>10, <3>2, PreserveFacts
  <2>3. SameElse(t, u) /\ Others(t.b, u.b, c)
    BY <1>10, <1>11, <2>2, UnchangedTwice DEF SameElse
  <2>4. ASSUME Nothing
        PROVE  Proper(u.b.gc) /\ CachedAt(u.b, c) /\ Counted(t, u)
    <3>1. ta.d.pin[c] = t.b.pin[c] /\ c \notin ta.d.access /\ ~InGC(ta.d, c)
      BY <1>10, <1>12, <2>4 DEF SameElse
    <3>2. CASE Reserved(ta, u, c)
      <4>1. u.b.gc = t.b.gc /\ u.gc = t.gc /\ u.b.pin[c] > 0
        BY <1>7, <1>10, <3>1, <3>2 DEF Reserved
      <4>2. Stored(u.b, c)
        BY <1>2, <1>7, <1>10, <1>13, <2>2 DEF Stored
      <4>3. Counted(t, u)
        BY <2>2, <4>1, CountedCases
      <4> QED BY <1>7, <1>10, <1>12, <2>2, <2>4, <4>1, <4>2, <4>3 DEF CachedAt
    <3>4. CASE u = ta /\ ta.d.pin[c] > 0
      <4>1. Proper(ba.gc) /\ ~Has(ba.gc, c) /\ ba.pin[c] > 0
        BY <1>7, <1>12, <2>4, <3>1, <3>4
      <4>2. Stored(ba, c)
        BY <1>2, <1>7, <1>13 DEF Stored
      <4>3. CachedAt(ba, c)
        BY <1>7, <1>12, <2>4, <4>1, <4>2 DEF CachedAt
      <4>4. Counted(t, u)
        BY <1>7, <1>10, <2>2, <3>4, CountedCases
      <4> QED BY <1>10, <3>4, <4>1, <4>3, <4>4
    <3>3. CASE InCache(ta, u, c) /\ ~(ta.d.pin[c] > 0)
      <4>1. PICK e \in Entry : e.chunk = c /\ e.keyed /\ u.b.gc = Append(t.b.gc, e)
        BY <1>7, <1>10, <3>3 DEF InCache
      <4>2. u.b.pin[c] = 0 /\ u.gc = t.gc + 1
        BY <1>7, <1>10, <1>12, <2>4, <3>1, <3>3 DEF InCache
      <4>3. t.b.gc \in Seq(Entry) /\ \A x \in ToSet(t.b.gc) : x.chunk # e.chunk /\ x.keyed
        BY <1>1, <1>12, <2>4, <4>1 DEF Database, Has, Proper
      <4>4. /\ Len(u.b.gc) = Len(t.b.gc) + 1 /\ Single(u.b.gc)
            /\ \A x : x \in ToSet(u.b.gc) <=> x \in ToSet(t.b.gc) \/ x = e
        <5>1. Single(t.b.gc)
          BY <1>12, <2>4 DEF Proper
        <5> QED BY <4>1, <4>3, <5>1, Appended
      <4>5. Proper(u.b.gc) /\ Has(u.b.gc, c)
        BY <4>1, <4>3, <4>4 DEF Proper, Has
      <4>6. Stored(u.b, c)
        BY <1>2, <1>7, <1>10, <1>13, <2>2 DEF Stored
      <4>7. Counted(t, u)
        BY <2>2, <4>2, <4>4, CountedCases
      <4> QED BY <1>7, <1>10, <1>12, <2>2, <2>4, <4>2, <4>5, <4>6, <4>7 DEF CachedAt
    <3> QED BY <2>2, <3>1, <3>2, <3>3, <3>4
  <2>5. Result
    BY <1>7, <1>10, <1>14, <2>2, <2>3, <2>4
  <2> QED BY <2>5 DEF u, loc, Nothing
<1> QED BY <1>15, <1>16, <1>17

-------------------------------------------------------------------------------
(* Put.                                                                          *)

(* A batch writes to slots that were free, and releases none that is: a chunk is *)
(* where it was or in a slot the batch wrote it to.                              *)
SlotsOK(t) ==
    /\ t.d.loc = db.loc /\ t.wrote \subseteq free /\ t.release \cap free = {}
    /\ \A s \in Slot \ t.wrote : t.file[s] = file[s]
    /\ \A c \in Chunk : Stored(t.b, c) =>
          /\ t.b.loc[c] \notin t.release
          /\ \/ t.b.loc[c] = db.loc[c]
             \/ t.b.loc[c] \in t.wrote /\ t.file[t.b.loc[c]] = c

(* What a batch that puts chunks of cs does to the cache: an entry of a chunk    *)
(* that was stored is there as before unless the chunk is removed, the pin of    *)
(* one that was not stored is as before, and the change of the size makes up for *)
(* the entries there are more.                                                   *)
CacheOK(t, cs) ==
    /\ Cached(t.d) /\ Cached(t.b)
    /\ \A c \in Chunk \ cs : Stored(t.b, c) => Stored(t.d, c)
    /\ \A c \in Chunk \ cs : ~Stored(t.d, c) => t.b.pin[c] = t.d.pin[c]
    /\ \A e \in Entry : Stored(t.d, e.chunk) =>
          /\ e \in ToSet(t.b.gc) => e \in ToSet(t.d.gc)
          /\ e \in ToSet(t.d.gc) => e \in ToSet(t.b.gc) \/ ~Stored(t.b, e.chunk)
    /\ Len(t.b.gc) - t.gc <= Len(t.d.gc)

LEMMA LeastSlot ==
    ASSUME NEW S \in SUBSET Slot, S # {}
    PROVE  Min(S) \in S
<1>1. S \in SUBSET Nat
  BY BoundAssumption
<1>2. \E n \in S : \A m \in S : n <= m
  BY <1>1, LeastElement
<1> QED BY <1>2 DEF Min

LEMMA ReplaceFacts ==
    ASSUME NEW t \in Updates, NEW c \in Chunk, NEW p \in Chunk, NEW mode, Stored(t.d, p)
    PROVE  LET u == Replace(t, c, p, mode) IN
           /\ u \in Updates /\ u.d = t.d /\ u.file = t.file /\ u.wrote = t.wrote
           /\ u.failed = t.failed /\ Others(t.b, u.b, p)
           /\ u.release = t.release \cup {t.d.loc[p]}
           /\ u.b.loc[p] = None /\ p \notin u.b.access /\ p \notin u.b.push
           /\ IF InGC(t.d, p)
              THEN Without(t.b.gc, u.b.gc, p) /\ u.b.pin = t.b.pin
              ELSE u.b.gc = t.b.gc /\ u.b.pin[p] = 0
           /\ u.gc = IF InGC(t.d, p) /\ mode \in Requests THEN t.gc - 1 ELSE t.gc
<1> DEFINE u == Replace(t, c, p, mode)
           r == SetRemove(t, p)
           n == IF mode \in Requests THEN r.gc ELSE t.gc
           m == IF mode \notin Uploads /\ t.d.radius.known /\ PO[c] >= t.d.radius.po
                THEN r.reserve - 1 ELSE r.reserve
<1>1. /\ r \in Updates /\ r.d = t.d /\ r.file = t.file /\ r.wrote = t.wrote
      /\ r.failed = t.failed /\ Others(t.b, r.b, p)
      /\ r.release = t.release \cup {t.d.loc[p]}
      /\ r.b.loc[p] = None /\ p \notin r.b.access /\ p \notin r.b.push
      /\ IF InGC(t.d, p)
         THEN Without(t.b.gc, r.b.gc, p) /\ r.gc = t.gc - 1 /\ r.b.pin = t.b.pin
         ELSE r.b.gc = t.b.gc /\ r.gc = t.gc /\ r.b.pin[p] = 0
  BY SetRemoveFacts
<1>2. u = [r EXCEPT !.gc = n, !.reserve = m]
  BY DEF Replace
<1> HIDE DEF r, u
<1>3. r.gc \in Int /\ r.reserve \in Int /\ t.gc \in Int
  BY <1>1 DEF Updates
<1>4. n \in Int /\ m \in Int
  BY <1>3
<1>5. n = IF InGC(t.d, p) /\ mode \in Requests THEN t.gc - 1 ELSE t.gc
  BY <1>1
<1> HIDE DEF n, m
<1>6. /\ u \in Updates /\ u.d = r.d /\ u.file = r.file /\ u.wrote = r.wrote
      /\ u.failed = r.failed /\ u.b = r.b /\ u.release = r.release /\ u.gc = n
  BY <1>1, <1>2, <1>4 DEF Updates
<1> QED BY <1>1, <1>5, <1>6 DEF u

LEMMA PutChunkSlots ==
    ASSUME Placed(db), free \in SUBSET Slot, NEW t \in Updates, SlotsOK(t), NEW c \in Chunk,
           NEW mode, NEW r, free \ t.wrote # {}
    PROVE  LET u == PutChunk(t, c, mode, r) IN
           /\ u \in Updates /\ SlotsOK(u) /\ u.d = t.d
           /\ \E s \in Slot : u.wrote \subseteq t.wrote \cup {s}
<1> DEFINE u == PutChunk(t, c, mode, r)
           s == Min(free \ t.wrote)
           p == t.d.index[IndexOf[c]]
           f == [t.file EXCEPT ![s] = c]
           o == t.wrote \cup {s}
           w == [t EXCEPT !.file = f, !.wrote = o]
           within == PO[c] >= r
           Good(v) == /\ v \in Updates /\ SlotsOK(v) /\ v.d = t.d
                      /\ \E x \in Slot : v.wrote \subseteq t.wrote \cup {x}
<1>1. u = IF t.failed \/ Stored(t.d, c)
          THEN t
          ELSE IF p = None
          THEN Add(w, c, s, mode, within)
          ELSE IF Immutable \/ (TimeOf[c] > TimeOf[p] /\ ~Stored(t.d, p))
          THEN [w EXCEPT !.failed = TRUE]
          ELSE IF TimeOf[c] <= TimeOf[p]
          THEN IF mode = "uploadPin" THEN SetPin(w, c) ELSE w
          ELSE Add(Replace(w, c, p, mode), c, s, mode, within)
  BY DEF PutChunk
<1>2. s \in free /\ s \notin t.wrote /\ s \in Slot /\ s # None
  <2>1. free \ t.wrote \in SUBSET Slot
    OBVIOUS
  <2>2. s \in free \ t.wrote
    BY <2>1, LeastSlot
  <2> QED BY <2>2, BoundAssumption DEF None
<1> HIDE DEF s, within
<1>3. t.d \in Database /\ t.b \in Database /\ t.file \in File /\ t.wrote \in SUBSET Slot
  BY DEF Updates
<1>4. f \in File /\ f[s] = c /\ (\A x \in Slot \ {s} : f[x] = t.file[x]) /\ o \in SUBSET Slot
  BY <1>2, <1>3 DEF File
<1> HIDE DEF f, o
<1>5. /\ w \in Updates /\ w.d = t.d /\ w.b = t.b /\ w.file = f /\ w.wrote = o
      /\ w.release = t.release /\ w.failed = t.failed
  BY <1>3, <1>4 DEF Updates
<1> HIDE DEF w
<1>6. \A x \in Chunk : t.b.loc[x] \in Slot \cup {None}
  BY <1>3 DEF Database
<1>7. SlotsOK(w)
  <2>1. ASSUME NEW x \in Chunk, Stored(w.b, x)
        PROVE  /\ w.b.loc[x] \notin w.release
               /\ \/ w.b.loc[x] = db.loc[x]
                  \/ w.b.loc[x] \in w.wrote /\ w.file[w.b.loc[x]] = x
    <3>1. /\ t.b.loc[x] \notin t.release
          /\ t.b.loc[x] = db.loc[x] \/ (t.b.loc[x] \in t.wrote /\ t.file[t.b.loc[x]] = x)
      BY <1>5, <2>1 DEF SlotsOK, Stored
    <3>2. ASSUME t.b.loc[x] \in t.wrote PROVE t.b.loc[x] \in o /\ f[t.b.loc[x]] = t.file[t.b.loc[x]]
      BY <1>2, <1>3, <1>4, <3>2 DEF o
    <3> QED BY <1>5, <3>1, <3>2
  <2> QED BY <1>2, <1>4, <1>5, <2>1 DEF SlotsOK, o
<1>8. Good(w)
  BY <1>2, <1>5, <1>7 DEF o
<1>9. ASSUME NEW v \in Updates, SlotsOK(v), v.d = t.d, v.wrote = o, v.file = f
      PROVE  Good(Add(v, c, s, mode, within))
  <2> DEFINE a == Add(v, c, s, mode, within)
  <2>0. \A m, i : LET x == Add(v, c, s, m, i) IN
           x \in Updates /\ SameElse(v, x) /\ x.b.loc = [v.b.loc EXCEPT ![c] = s]
    BY <1>2, AddFacts
  <2>1. a \in Updates /\ SameElse(v, a) /\ a.b.loc = [v.b.loc EXCEPT ![c] = s]
    BY <2>0
  <2> HIDE DEF a
  <2>2. v.b.loc \in [Chunk -> Slot \cup {None}]
    BY DEF Updates, Database
  <2>3. a.b.loc[c] = s /\ \A x \in Chunk \ {c} : a.b.loc[x] = v.b.loc[x]
    BY <2>1, <2>2
  <2>4. s \notin v.release /\ s \in v.wrote /\ v.file[s] = c
    BY <1>2, <1>4, <1>9 DEF SlotsOK, o
  <2>5. SlotsOK(a)
    BY <1>9, <2>1, <2>3, <2>4 DEF SlotsOK, SameElse, Stored
  <2>6. Good(a)
    BY <1>2, <1>9, <2>1, <2>5 DEF SameElse, o
  <2> QED BY <2>6 DEF a
<1>10. CASE t.failed \/ Stored(t.d, c)
  <2>1. u = t
    BY <1>1, <1>10
  <2> QED BY <1>2, <2>1
<1>11. CASE ~(t.failed \/ Stored(t.d, c)) /\ p = None
  <2>1. u = Add(w, c, s, mode, within)
    BY <1>1, <1>11
  <2> QED BY <1>5, <1>7, <1>9, <2>1
<1>12. CASE ~(t.failed \/ Stored(t.d, c)) /\ p # None
  <2>1. p \in Chunk
    BY <1>3, <1>12, BoundAssumption DEF Database
  <2>2. CASE Immutable \/ (TimeOf[c] > TimeOf[p] /\ ~Stored(t.d, p))
    <3>1. u = [w EXCEPT !.failed = TRUE]
      BY <1>1, <1>12, <2>2
    <3> HIDE DEF u
    <3>2. /\ u \in Updates /\ u.d = w.d /\ u.b = w.b /\ u.file = w.file /\ u.wrote = w.wrote
          /\ u.release = w.release
      BY <1>5, <3>1 DEF Updates
    <3>3. SlotsOK(u)
      BY <1>7, <3>2 DEF SlotsOK
    <3>4. Good(u)
      BY <1>8, <3>2, <3>3
    <3> QED BY <3>4 DEF u
  <2>3. CASE ~(Immutable \/ (TimeOf[c] > TimeOf[p] /\ ~Stored(t.d, p))) /\ TimeOf[c] <= TimeOf[p]
    <3> DEFINE a == SetPin(w, c)
    <3>1. u = IF mode = "uploadPin" THEN a ELSE w
      BY <1>1, <1>12, <2>3
    <3>2. a \in Updates /\ SameElse(w, a) /\ a.b.loc = w.b.loc
      BY <1>5, SetPinFacts
    <3> HIDE DEF a, u
    <3>3. SlotsOK(a)
      BY <1>7, <3>2 DEF SlotsOK, SameElse, Stored
    <3>4. Good(a)
      BY <1>8, <3>2, <3>3 DEF SameElse
    <3>5. Good(u)
      BY <1>8, <3>1, <3>4
    <3> QED BY <3>5 DEF u
  <2>4. CASE ~(Immutable \/ (TimeOf[c] > TimeOf[p] /\ ~Stored(t.d, p))) /\ ~(TimeOf[c] <= TimeOf[p])
    <3> DEFINE v == Replace(w, c, p, mode)
    <3>1. u = Add(v, c, s, mode, within)
      BY <1>1, <1>12, <2>4
    <3>2. Stored(w.d, p)
      <4>1. TimeOf[c] \in Nat /\ TimeOf[p] \in Nat
        BY <2>1, BoundAssumption
      <4> QED BY <1>5, <2>4, <4>1
    <3>3. /\ v \in Updates /\ v.d = t.d /\ v.file = f /\ v.wrote = o /\ v.failed = w.failed
          /\ Others(w.b, v.b, p) /\ v.release = w.release \cup {db.loc[p]} /\ v.b.loc[p] = None
      <4> HIDE DEF p
      <4> QED BY <1>5, <1>7, <2>1, <3>2, ReplaceFacts DEF SlotsOK
    <3> HIDE DEF v, u, p
    <3>0. w.d.loc = db.loc /\ w.wrote \subseteq free /\ w.release \cap free = {}
          /\ \A x \in Slot \ o : f[x] = file[x]
      BY <1>5, <1>7 DEF SlotsOK
    <3>4. db.loc[p] \notin free /\ file[db.loc[p]] = p
      BY <2>1, <3>0, <3>2 DEF Placed, Stored
    <3>5. ASSUME NEW x \in Chunk, Stored(v.b, x)
          PROVE  /\ v.b.loc[x] \notin v.release
                 /\ \/ v.b.loc[x] = db.loc[x]
                    \/ v.b.loc[x] \in v.wrote /\ v.file[v.b.loc[x]] = x
      <4>1. x # p /\ v.b.loc[x] = w.b.loc[x] /\ Stored(w.b, x)
        BY <2>1, <3>3, <3>5 DEF Others, Stored
      <4>2. v.b.loc[x] # db.loc[p]
        <5>1. w.b.loc[x] = db.loc[x] \/ w.b.loc[x] \in w.wrote
          BY <1>7, <4>1 DEF SlotsOK
        <5>2. CASE w.b.loc[x] = db.loc[x]
          BY <3>4, <4>1, <5>2 DEF Placed, Stored
        <5>3. CASE w.b.loc[x] \in w.wrote
          BY <3>0, <3>4, <4>1, <5>3
        <5> QED BY <5>1, <5>2, <5>3
      <4> QED BY <1>5, <1>7, <3>3, <4>1, <4>2 DEF SlotsOK
    <3>6. SlotsOK(v)
      <4>1. v.d.loc = db.loc /\ v.wrote \subseteq free /\ v.release \cap free = {}
            /\ \A x \in Slot \ v.wrote : v.file[x] = file[x]
        BY <1>5, <3>0, <3>3, <3>4
      <4> QED BY <3>5, <4>1 DEF SlotsOK
    <3>7. Good(Add(v, c, s, mode, within))
      BY <1>9, <3>3, <3>6
    <3> QED BY <3>1, <3>7 DEF u
  <2> QED BY <2>2, <2>3, <2>4
<1> QED BY <1>10, <1>11, <1>12

LEMMA InGCHas ==
    ASSUME NEW b \in Database, NEW c \in Chunk
    PROVE  (InGC(b, c) => Has(b.gc, c)) /\ (Proper(b.gc) /\ Has(b.gc, c) => InGC(b, c))
BY DEF InGC, Has, Proper, ToSet

LEMMA ReplaceCache ==
    ASSUME NEW t \in Updates, NEW cs, CacheOK(t, cs), NEW c \in Chunk, NEW p \in Chunk, NEW mode,
           Stored(t.d, p), mode \in Requests => t.b = t.d
    PROVE  CacheOK(Replace(t, c, p, mode), cs)
<1> DEFINE u == Replace(t, c, p, mode)
           b == t.b
           d == t.d
           v == u.b
<1>1. /\ u \in Updates /\ u.d = d /\ Others(b, v, p)
      /\ v.loc[p] = None /\ p \notin v.access /\ p \notin v.push
      /\ IF InGC(d, p) THEN Without(b.gc, v.gc, p) /\ v.pin = b.pin
                       ELSE v.gc = b.gc /\ v.pin[p] = 0
      /\ u.gc = IF InGC(d, p) /\ mode \in Requests THEN t.gc - 1 ELSE t.gc
  BY ReplaceFacts
<1>2. b \in Database /\ d \in Database /\ v \in Database /\ t.gc \in Int
  BY <1>1 DEF Updates
<1>3. /\ Proper(d.gc) /\ Proper(b.gc) /\ CachedAt(d, p) /\ CachedAt(b, p)
      /\ (\A x \in Chunk : CachedAt(b, x)) /\ Cached(d)
      /\ \A x \in Chunk \ cs : Stored(b, x) => Stored(d, x)
      /\ \A e \in Entry : Stored(d, e.chunk) =>
            /\ e \in ToSet(b.gc) => e \in ToSet(d.gc)
            /\ e \in ToSet(d.gc) => e \in ToSet(b.gc) \/ ~Stored(b, e.chunk)
      /\ Len(b.gc) - t.gc <= Len(d.gc) /\ Stored(d, p) /\ (mode \in Requests => b = d)
  BY DEF CacheOK, Cached
<1>4. /\ b.gc \in Seq(Entry) /\ d.gc \in Seq(Entry) /\ v.gc \in Seq(Entry)
      /\ ToSet(b.gc) \subseteq Entry /\ ToSet(d.gc) \subseteq Entry /\ ToSet(v.gc) \subseteq Entry
      /\ Len(b.gc) \in Nat /\ Len(d.gc) \in Nat /\ Len(v.gc) \in Nat
  <2>1. b.gc \in Seq(Entry) /\ d.gc \in Seq(Entry) /\ v.gc \in Seq(Entry)
    BY <1>2 DEF Database
  <2> HIDE DEF b, d, v
  <2> QED BY <2>1, ToSetFacts
<1> HIDE DEF u, b, d, v
<1>5. /\ Proper(v.gc) /\ ~Has(v.gc, p) /\ Len(v.gc) <= Len(b.gc)
      /\ InGC(d, p) /\ mode \in Requests => Len(v.gc) + 1 <= Len(b.gc)
  <2>1. CASE InGC(d, p)
    <3>1. Has(d.gc, p)
      BY <1>2, <2>1, InGCHas
    <3>2. Has(b.gc, p) \/ ~Stored(b, p)
      BY <1>3, <1>4, <3>1 DEF Has
    <3>4. Proper(v.gc) /\ ~Has(v.gc, p) /\ (Has(b.gc, p) => Len(v.gc) + 1 <= Len(b.gc))
      BY <1>1, <1>3, <1>4, <2>1, WithoutChunk
    <3>5. Len(v.gc) <= Len(b.gc)
      BY <1>1, <2>1 DEF Without
    <3> QED BY <1>1, <1>3, <2>1, <3>1, <3>4, <3>5
  <2>2. CASE ~InGC(d, p)
    <3>1. ~Has(d.gc, p)
      BY <1>2, <1>3, <2>2, InGCHas
    <3>2. ~Has(b.gc, p)
      BY <1>3, <1>4, <3>1 DEF Has
    <3> QED BY <1>1, <1>3, <1>4, <2>2, <3>2, SMTT(40)
  <2> QED BY <2>1, <2>2
<1>6. ~Stored(v, p) /\ \A x \in Chunk \ {p} : Stored(v, x) <=> Stored(b, x)
  BY <1>1 DEF Stored, Others
<1>7. Cached(v)
  <2>1. CachedAt(v, p)
    BY <1>1, <1>5, <1>6 DEF CachedAt
  <2> QED BY <1>1, <1>2, <1>3, <1>5, <2>1, CachedStep
<1>8. \A x \in Chunk \ cs : Stored(v, x) => Stored(d, x)
  BY <1>3, <1>6
<1>9. ASSUME NEW e \in Entry, Stored(d, e.chunk)
      PROVE  /\ e \in ToSet(v.gc) => e \in ToSet(d.gc)
             /\ e \in ToSet(d.gc) => e \in ToSet(v.gc) \/ ~Stored(v, e.chunk)
  <2>1. e.chunk \in Chunk
    BY DEF Entry
  <2>2. CASE e.chunk = p
    BY <1>5, <1>6, <2>2 DEF Has
  <2>3. CASE e.chunk # p
    BY <1>1, <1>3, <1>6, <1>9, <2>1, <2>3 DEF Others
  <2> QED BY <2>2, <2>3
<1>10. Len(v.gc) - u.gc <= Len(d.gc)
  <2> DEFINE k == Len(v.gc)
             l == Len(b.gc)
             m == Len(d.gc)
             n == t.gc
  <2>1. k \in Nat /\ l \in Nat /\ m \in Nat /\ n \in Int /\ l - n <= m /\ k <= l
    BY <1>2, <1>3, <1>4, <1>5
  <2>2. u.gc = n \/ (u.gc = n - 1 /\ k + 1 <= l)
    BY <1>1, <1>5
  <2> HIDE DEF k, l, m, n
  <2>3. k - u.gc <= m
    BY <2>1, <2>2
  <2> QED BY <2>3 DEF k, m
<1>12. \A x \in Chunk \ cs : ~Stored(d, x) => v.pin[x] = d.pin[x]
  <2> SUFFICES ASSUME NEW x \in Chunk \ cs, ~Stored(d, x) PROVE v.pin[x] = d.pin[x]
    OBVIOUS
  <2>1. x # p /\ b.pin[x] = d.pin[x]
    BY <1>3 DEF CacheOK, b, d
  <2> QED BY <1>1, <2>1 DEF Others
<1>11. CacheOK(u, cs)
  BY <1>1, <1>3, <1>7, <1>8, <1>9, <1>10, <1>12 DEF CacheOK, d, v
<1> QED BY <1>11 DEF u

LEMMA AddCache ==
    ASSUME NEW t \in Updates, NEW cs, CacheOK(t, cs), NEW c \in Chunk \ cs, NEW s \in Slot,
           NEW mode, NEW within, ~Stored(t.d, c)
    PROVE  CacheOK(Add(t, c, s, mode, within), cs \cup {c})
<1> DEFINE u == Add(t, c, s, mode, within)
           b == t.b
           d == t.d
           v == u.b
<1>1. /\ Cached(d) /\ Cached(b) /\ ~Stored(d, c) /\ ~Stored(b, c)
      /\ \A x \in Chunk \ cs : Stored(b, x) => Stored(d, x)
      /\ \A x \in Chunk \ cs : ~Stored(d, x) => b.pin[x] = d.pin[x]
      /\ \A e \in Entry : Stored(d, e.chunk) =>
            /\ e \in ToSet(b.gc) => e \in ToSet(d.gc)
            /\ e \in ToSet(d.gc) => e \in ToSet(b.gc) \/ ~Stored(b, e.chunk)
      /\ Len(b.gc) - t.gc <= Len(d.gc)
  BY DEF CacheOK
<1>2. /\ u \in Updates /\ SameElse(t, u) /\ Others(b, v, c) /\ Cached(v)
      /\ Len(v.gc) - u.gc <= Len(b.gc) - t.gc
  <2>1. u \in Updates /\ SameElse(t, u) /\ Others(t.b, u.b, c)
    BY AddFacts
  <2>0. Cached(t.b) /\ Cached(t.d) /\ ~Stored(t.b, c) /\ ~Stored(t.d, c) /\ t.b.pin[c] = t.d.pin[c]
    BY <1>1
  <2>2. Cached(u.b) /\ Counted(t, u)
    BY <2>0, AddFacts
  <2> HIDE DEF u
  <2> QED BY <2>1, <2>2 DEF Counted
<1>3. u.d = d
  BY <1>2 DEF SameElse
<1> HIDE DEF u, b, d, v
<1>4. \A x \in Chunk \ {c} : Stored(v, x) <=> Stored(b, x)
  BY <1>2 DEF Stored, Others
<1>5. \A e \in Entry : Stored(d, e.chunk) =>
         /\ e \in ToSet(v.gc) => e \in ToSet(d.gc)
         /\ e \in ToSet(d.gc) => e \in ToSet(v.gc) \/ ~Stored(v, e.chunk)
  <2>1. \A e \in Entry : e.chunk \in Chunk
    BY DEF Entry
  <2> QED BY <1>1, <1>2, <1>4, <2>1 DEF Others
<1>6. \A x \in Chunk \ (cs \cup {c}) : Stored(v, x) => Stored(d, x)
  BY <1>1, <1>4
<1>8. Len(v.gc) - u.gc <= Len(d.gc)
  <2>1. b \in Database /\ d \in Database /\ v \in Database /\ t.gc \in Int /\ u.gc \in Int
    BY <1>2 DEF Updates, b, d, v
  <2>2. Len(b.gc) \in Nat /\ Len(d.gc) \in Nat /\ Len(v.gc) \in Nat
    BY <2>1, LenProperties DEF Database
  <2> DEFINE i == Len(b.gc)
             j == Len(d.gc)
             k == Len(v.gc)
             m == t.gc
             n == u.gc
  <2>3. i \in Nat /\ j \in Nat /\ k \in Nat /\ m \in Int /\ n \in Int
        /\ i - m <= j /\ k - n <= i - m
    BY <1>1, <1>2, <2>1, <2>2
  <2> HIDE DEF i, j, k, m, n
  <2>4. k - n <= j
    BY <2>3
  <2> QED BY <2>4 DEF j, k, n
<1>9. \A x \in Chunk \ (cs \cup {c}) : ~Stored(d, x) => v.pin[x] = d.pin[x]
  BY <1>1, <1>2 DEF Others
<1>7. CacheOK(u, cs \cup {c})
  BY <1>1, <1>2, <1>3, <1>5, <1>6, <1>8, <1>9 DEF CacheOK, d, v
<1> QED BY <1>7 DEF u

(* A chunk that is uploaded to be pinned has its pin also when it is dropped.     *)
LEMMA DroppedPinCache ==
    ASSUME NEW t \in Updates, NEW cs, CacheOK(t, cs), NEW c \in Chunk \ cs, ~Stored(t.d, c)
    PROVE  CacheOK(SetPin(t, c), cs \cup {c})
<1> DEFINE u == SetPin(t, c)
           b == t.b
           d == t.d
           v == u.b
<1>1. /\ Cached(d) /\ Cached(b) /\ ~Stored(d, c) /\ ~Stored(b, c)
      /\ \A x \in Chunk \ cs : Stored(b, x) => Stored(d, x)
      /\ \A x \in Chunk \ cs : ~Stored(d, x) => b.pin[x] = d.pin[x]
      /\ \A e \in Entry : Stored(d, e.chunk) =>
            /\ e \in ToSet(b.gc) => e \in ToSet(d.gc)
            /\ e \in ToSet(d.gc) => e \in ToSet(b.gc) \/ ~Stored(b, e.chunk)
      /\ Len(b.gc) - t.gc <= Len(d.gc)
  BY DEF CacheOK
<1>2. b \in Database /\ d \in Database
  BY DEF Updates
<1>3. c \notin d.access /\ c \notin b.access /\ c \notin b.push /\ ~Has(b.gc, c) /\ Proper(b.gc)
      /\ \A x \in Chunk : CachedAt(b, x)
  BY <1>1 DEF Cached, CachedAt
<1>4. /\ u \in Updates /\ u.d = d /\ Others(b, v, c) /\ v.loc = b.loc /\ v.access = b.access
      /\ v.push = b.push /\ v.gc = b.gc /\ u.gc = t.gc
  BY <1>3, SetPinFacts DEF SameElse
<1>5. v \in Database
  BY <1>4 DEF Updates
<1> HIDE DEF u, v, b, d
<1>6. CachedAt(v, c)
  BY <1>1, <1>3, <1>4 DEF CachedAt, Stored
<1>7. Cached(v)
  BY <1>2, <1>3, <1>4, <1>5, <1>6, CachedStep
<1>8. \A x \in Chunk : Stored(v, x) <=> Stored(b, x)
  BY <1>4 DEF Stored
<1>9. \A x \in Chunk \ (cs \cup {c}) : ~Stored(d, x) => v.pin[x] = d.pin[x]
  BY <1>1, <1>4 DEF Others
<1>10. /\ \A x \in Chunk \ (cs \cup {c}) : Stored(v, x) => Stored(d, x)
       /\ \A e \in Entry : Stored(d, e.chunk) =>
            /\ e \in ToSet(v.gc) => e \in ToSet(d.gc)
            /\ e \in ToSet(d.gc) => e \in ToSet(v.gc) \/ ~Stored(v, e.chunk)
       /\ Len(v.gc) - u.gc <= Len(d.gc)
  <2>1. \A e \in Entry : e.chunk \in Chunk
    BY DEF Entry
  <2>2. Len(v.gc) - u.gc <= Len(d.gc)
    BY <1>1, <1>4
  <2> QED BY <1>1, <1>4, <1>8, <2>1, <2>2
<1>11. CacheOK(u, cs \cup {c})
  BY <1>1, <1>4, <1>7, <1>9, <1>10 DEF CacheOK, d, v
<1> QED BY <1>11 DEF u

LEMMA CacheOKMore ==
    ASSUME NEW t, NEW cs, NEW more, CacheOK(t, cs), cs \subseteq more
    PROVE  CacheOK(t, more)
BY DEF CacheOK

LEMMA CacheOKSame ==
    ASSUME NEW t, NEW u, NEW cs, CacheOK(t, cs), u.b = t.b, u.d = t.d, u.gc = t.gc
    PROVE  CacheOK(u, cs)
BY DEF CacheOK

LEMMA PutChunkCache ==
    ASSUME free \in SUBSET Slot, NEW t \in Updates, NEW cs, CacheOK(t, cs), NEW c \in Chunk \ cs,
           NEW mode, NEW r, free \ t.wrote # {}, mode \in Requests => t.b = t.d
    PROVE  CacheOK(PutChunk(t, c, mode, r), cs \cup {c})
<1> DEFINE u == PutChunk(t, c, mode, r)
           s == Min(free \ t.wrote)
           p == t.d.index[IndexOf[c]]
           f == [t.file EXCEPT ![s] = c]
           o == t.wrote \cup {s}
           w == [t EXCEPT !.file = f, !.wrote = o]
           within == PO[c] >= r
           more == cs \cup {c}
<1>1. u = IF t.failed \/ Stored(t.d, c)
          THEN t
          ELSE IF p = None
          THEN Add(w, c, s, mode, within)
          ELSE IF Immutable \/ (TimeOf[c] > TimeOf[p] /\ ~Stored(t.d, p))
          THEN [w EXCEPT !.failed = TRUE]
          ELSE IF TimeOf[c] <= TimeOf[p]
          THEN IF mode = "uploadPin" THEN SetPin(w, c) ELSE w
          ELSE Add(Replace(w, c, p, mode), c, s, mode, within)
  BY DEF PutChunk
<1>2. s \in Slot
  <2>1. free \ t.wrote \in SUBSET Slot
    OBVIOUS
  <2> QED BY <2>1, LeastSlot
<1> HIDE DEF s, within
<1>3. t.d \in Database /\ t.file \in File /\ t.wrote \in SUBSET Slot
  BY DEF Updates
<1>4. f \in File /\ o \in SUBSET Slot
  BY <1>2, <1>3 DEF File
<1> HIDE DEF f, o
<1>5. w \in Updates /\ w.d = t.d /\ w.b = t.b /\ w.gc = t.gc
  BY <1>3, <1>4 DEF Updates
<1> HIDE DEF w
<1>6. CacheOK(w, cs) /\ (mode \in Requests => w.b = w.d)
  BY <1>5, CacheOKSame
<1>7. CacheOK(t, more) /\ CacheOK(w, more)
  <2>1. cs \subseteq more
    OBVIOUS
  <2> HIDE DEF more
  <2> QED BY <1>6, <2>1, CacheOKMore
<1>8. CASE t.failed \/ Stored(t.d, c)
  BY <1>1, <1>7, <1>8
<1>9. CASE ~(t.failed \/ Stored(t.d, c)) /\ p = None
  <2>1. u = Add(w, c, s, mode, within)
    BY <1>1, <1>9
  <2>2. ~Stored(w.d, c)
    BY <1>5, <1>9
  <2> QED BY <1>2, <1>5, <1>6, <2>1, <2>2, AddCache
<1>10. CASE ~(t.failed \/ Stored(t.d, c)) /\ p # None
  <2>1. p \in Chunk
    BY <1>3, <1>10, BoundAssumption DEF Database
  <2>2. CASE Immutable \/ (TimeOf[c] > TimeOf[p] /\ ~Stored(t.d, p))
    <3>1. u = [w EXCEPT !.failed = TRUE]
      BY <1>1, <1>10, <2>2
    <3> HIDE DEF u
    <3>2. u.d = w.d /\ u.b = w.b /\ u.gc = w.gc
      BY <1>5, <3>1 DEF Updates
    <3>3. CacheOK(u, more)
      BY <1>7, <3>2, CacheOKSame
    <3> QED BY <3>3 DEF u
  <2>3. CASE ~(Immutable \/ (TimeOf[c] > TimeOf[p] /\ ~Stored(t.d, p))) /\ TimeOf[c] <= TimeOf[p]
    <3>1. u = IF mode = "uploadPin" THEN SetPin(w, c) ELSE w
      BY <1>1, <1>10, <2>3
    <3>2. CacheOK(SetPin(w, c), more)
      BY <1>5, <1>6, <1>10, DroppedPinCache
    <3> HIDE DEF u, more
    <3>3. CacheOK(u, more)
      BY <1>7, <3>1, <3>2
    <3> QED BY <3>3 DEF u, more
  <2>4. CASE ~(Immutable \/ (TimeOf[c] > TimeOf[p] /\ ~Stored(t.d, p))) /\ ~(TimeOf[c] <= TimeOf[p])
    <3> DEFINE v == Replace(w, c, p, mode)
    <3>1. u = Add(v, c, s, mode, within)
      BY <1>1, <1>10, <2>4
    <3>2. Stored(w.d, p)
      <4>1. TimeOf[c] \in Nat /\ TimeOf[p] \in Nat
        BY <2>1, BoundAssumption
      <4> QED BY <1>5, <2>4, <4>1
    <3>3. v \in Updates /\ v.d = w.d /\ CacheOK(v, cs)
      <4> HIDE DEF p
      <4> QED BY <1>5, <1>6, <2>1, <3>2, ReplaceFacts, ReplaceCache
    <3> HIDE DEF v, u, p
    <3>4. ~Stored(v.d, c)
      BY <1>5, <1>10, <3>3
    <3>5. CacheOK(Add(v, c, s, mode, within), cs \cup {c})
      BY <1>2, <3>3, <3>4, AddCache
    <3> QED BY <3>1, <3>5 DEF u
  <2> QED BY <2>2, <2>3, <2>4
<1> QED BY <1>8, <1>9, <1>10

-------------------------------------------------------------------------------
(* Write.                                                                        *)

LEMMA PlusType == \A n \in Nat, change \in Int : Plus(n, change) \in Nat
BY DEF Plus

LEMMA SizedFacts ==
    ASSUME NEW t \in Updates
    PROVE  /\ Sized(t) \in Database /\ Sized(t).loc = t.b.loc /\ Sized(t).access = t.b.access
           /\ Sized(t).push = t.b.push /\ Sized(t).pin = t.b.pin /\ Sized(t).gc = t.b.gc
           /\ Sized(t).gcSize = Plus(t.d.gcSize, t.gc)
<1> DEFINE m == Plus(t.d.gcSize, t.gc)
           n == Plus(t.d.reserveSize, t.reserve)
<1>1. t.d \in Database /\ t.b \in Database /\ t.gc \in Int /\ t.reserve \in Int
  BY DEF Updates
<1>2. m \in Nat /\ n \in Nat
  <2>1. t.d.gcSize \in Nat /\ t.d.reserveSize \in Nat
    BY <1>1 DEF Database
  <2> QED BY <1>1, <2>1, PlusType
<1>3. Sized(t) = [t.b EXCEPT !.gcSize = m, !.reserveSize = n]
  BY DEF Sized
<1> HIDE DEF m, n
<1>4. /\ Sized(t) \in Database /\ Sized(t).loc = t.b.loc /\ Sized(t).access = t.b.access
      /\ Sized(t).push = t.b.push /\ Sized(t).pin = t.b.pin /\ Sized(t).gc = t.b.gc
      /\ Sized(t).gcSize = m
  BY <1>1, <1>2, <1>3 DEF Database
<1> QED BY <1>4 DEF m

(* The cache is a matter of five fields.                                         *)
LEMMA CachedFields ==
    ASSUME NEW b, NEW u, u.loc = b.loc, u.access = b.access, u.push \subseteq b.push,
           u.pin = b.pin, u.gc = b.gc, Cached(b)
    PROVE  Cached(u)
BY DEF Cached, CachedAt, Stored

(* An assignment to the trigger of the call.                                     *)
LEMMA CallTriggered ==
    ASSUME Types, NEW trigger \in BOOLEAN, evict' = [evict EXCEPT !.call.trigger = trigger],
           radius' = radius
    PROVE  /\ (evict = [call |-> evict.call, read |-> evict.read] /\ Evicting)'
           /\ evict'.call.pc = evict.call.pc
<1> DEFINE k == evict.call
           l == [k EXCEPT !.trigger = trigger]
<1>1. evict = [call |-> k, read |-> evict.read]
  BY DEF Types
<1>2. evict' = [call |-> l, read |-> evict.read]
  <2> HIDE DEF k
  <2>1. evict.call = k
    BY <1>1
  <2>2. evict' = [evict EXCEPT !.call = [evict.call EXCEPT !.trigger = trigger]]
    OBVIOUS
  <2> QED BY <1>1, <2>1, <2>2
<1>3. k \in [ pc : {"idle", "unpin", "write", "radius"}, trigger : BOOLEAN,
              locked : BOOLEAN, bin : 0 .. MaxPO + 1, to : 0 .. MaxPO + 1,
              start : Nat, evicted : Nat ]
  BY DEF Types, Evicting
<1> HIDE DEF k
<1>4. /\ l \in [ pc : {"idle", "unpin", "write", "radius"}, trigger : BOOLEAN,
                 locked : BOOLEAN, bin : 0 .. MaxPO + 1, to : 0 .. MaxPO + 1,
                 start : Nat, evicted : Nat ]
      /\ l.pc = k.pc /\ l.locked = k.locked /\ l.bin = k.bin /\ l.to = k.to
  BY <1>3
<1> HIDE DEF l
<1>5. evict'.call = l /\ evict'.read = evict.read /\ evict.call = k
      /\ evict' = [call |-> evict'.call, read |-> evict'.read]
  <2>1. evict'.call = l /\ evict'.read = evict.read
    BY <1>2
  <2>2. evict.call = k
    BY DEF k
  <2> QED BY <1>2, <2>1, <2>2
<1>6. Evicting
  BY DEF Types
<1>7. Evicting'
  BY <1>4, <1>5, <1>6 DEF Evicting
<1> QED BY <1>4, <1>5, <1>7

(* What Write asks of the batch: entries of chunks it is not about are there as  *)
(* before, and the change of the size makes up for those there are more.         *)
CacheKept(t, cs) ==
    /\ Cached(t.b)
    /\ \A c \in Chunk \ cs : Stored(t.b, c) => Stored(t.d, c)
    /\ \A e \in Entry : e.chunk \notin cs /\ Stored(t.d, e.chunk) /\ e \in ToSet(t.d.gc) =>
          e \in ToSet(t.b.gc) \/ ~Stored(t.b, e.chunk)
    /\ Len(t.b.gc) - t.gc <= Len(t.d.gc)

LEMMA WriteKeeps ==
    ASSUME Inv, NEW t \in Updates, SlotsOK(t), NEW cs \in SUBSET Chunk, Write(t, cs),
           radius' = radius, userPins' \in SUBSET Chunk,
           t.d.gc = db.gc, t.d.gcSize = db.gcSize, "race" \notin past => CacheKept(t, cs)
    PROVE  Inv'
<1>0. /\ Types /\ Placed(db) /\ Reading /\ Cache
      /\ db \in Database /\ file \in File /\ free \in SUBSET Slot
      /\ t.d \in Database /\ t.b \in Database /\ t.file \in File
      /\ t.wrote \in SUBSET Slot /\ t.release \in SUBSET Slot /\ t.failed \in BOOLEAN
  BY DEF Inv, Types, Updates
<1>1. /\ db' \in Database
      /\ t.failed => db' = db
      /\ ~t.failed => /\ db'.loc = t.b.loc /\ db'.access = t.b.access /\ db'.push = t.b.push
                      /\ db'.pin = t.b.pin /\ db'.gc = t.b.gc
                      /\ db'.gcSize = Plus(t.d.gcSize, t.gc)
  BY <1>0, SizedFacts DEF Write
<1>2. /\ file' = t.file /\ file' \in File /\ free' \in SUBSET Slot
      /\ free' = IF t.failed THEN free ELSE (free \ t.wrote) \cup t.release
  BY <1>0 DEF Write
<1>3. /\ gc' \in [ pc : {"idle", "collect"}, trigger : BOOLEAN, candidates : Seq(Entry),
                   dirty : SUBSET Chunk ]
      /\ gc'.pc = gc.pc /\ gc'.candidates = gc.candidates
      /\ gc.pc = "collect" => gc'.dirty = gc.dirty \cup cs
  <2> DEFINE dirty == IF gc.pc = "collect" THEN gc.dirty \cup cs ELSE gc.dirty
             trigger == gc.trigger \/ (~t.failed /\ GCTrigger(t))
  <2>1. dirty \in SUBSET Chunk /\ trigger \in BOOLEAN
    BY <1>0 DEF Types
  <2>2. gc' = [gc EXCEPT !.dirty = dirty, !.trigger = trigger]
    BY DEF Write
  <2>3. gc.pc = "collect" => dirty = gc.dirty \cup cs
    OBVIOUS
  <2> HIDE DEF dirty, trigger
  <2>4. gc \in [ pc : {"idle", "collect"}, trigger : BOOLEAN, candidates : Seq(Entry),
                 dirty : SUBSET Chunk ]
    BY <1>0 DEF Types
  <2> QED BY <2>1, <2>2, <2>3, <2>4
<1>4. /\ (evict = [call |-> evict.call, read |-> evict.read] /\ Evicting)'
      /\ evict'.call.pc = evict.call.pc
  <2> DEFINE trigger == evict.call.trigger \/ (~t.failed /\ EvictTrigger(t))
  <2>1. trigger \in BOOLEAN
    BY <1>0 DEF Types, Evicting
  <2>2. evict' = [evict EXCEPT !.call.trigger = trigger]
    BY DEF Write
  <2> HIDE DEF trigger
  <2> QED BY <1>0, <2>1, <2>2, CallTriggered
<1>5. /\ reader' \in [ pc : {"idle", "located", "read"}, chunk : Chunk \cup {None},
                       slot : Slot \cup {None}, data : Chunk \cup {None}, removed : BOOLEAN ]
      /\ reader'.pc = reader.pc /\ reader'.chunk = reader.chunk /\ reader'.slot = reader.slot
      /\ reader'.data = reader.data
      /\ ~reader'.removed => ~reader.removed /\ reader.slot \notin free'
  <2> DEFINE removed == reader.removed \/ reader.slot \in free'
  <2>1. reader' = [reader EXCEPT !.removed = removed]
    BY DEF Write
  <2> QED BY <1>0, <2>1 DEF Types
<1>6. /\ past' \in SUBSET {"race", "restart"} /\ ("race" \notin past' => "race" \notin past)
      /\ "race" \notin past' => evict.call.pc # "write"
  BY <1>0 DEF Types, Write
<1>7. Types'
  BY <1>0, <1>1, <1>2, <1>3, <1>4, <1>5, <1>6 DEF Types
<1>8. Placed(db)'
  <2>1. ASSUME NEW c \in Chunk, Stored(db', c)
        PROVE  file'[db'.loc[c]] = c /\ db'.loc[c] \notin free'
    <3>1. CASE t.failed
      <4> DEFINE l == db.loc[c]
      <4>1. db'.loc[c] = l /\ Stored(db, c)
        BY <1>1, <2>1, <3>1 DEF Stored
      <4>2. file[l] = c /\ l \notin free /\ l \in Slot
        BY <1>0, <4>1 DEF Placed, Stored, Database
      <4> HIDE DEF l
      <4>3. t.file[l] = file[l]
        BY <4>2 DEF SlotsOK
      <4> QED BY <1>2, <3>1, <4>1, <4>2, <4>3
    <3>2. CASE ~t.failed
      <4>1. t.b.loc[c] \in Slot /\ Stored(t.b, c) /\ db'.loc = t.b.loc
        <5>1. db'.loc = t.b.loc /\ Stored(t.b, c)
          BY <1>1, <2>1, <3>2 DEF Stored
        <5>2. t.b.loc[c] \in Slot \cup {None}
          BY <1>0 DEF Database
        <5> QED BY <5>1, <5>2 DEF Stored
      <4>2. CASE t.b.loc[c] = db.loc[c]
        <5>1. file[db.loc[c]] = c /\ db.loc[c] \notin free
          BY <1>0, <4>1, <4>2 DEF Placed, Stored
        <5> DEFINE l == t.b.loc[c]
        <5>2. l \in Slot /\ l \notin free /\ file[l] = c /\ db'.loc[c] = l
          BY <4>1, <4>2, <5>1
        <5>3. l \notin t.release
          BY <4>1 DEF SlotsOK
        <5> HIDE DEF l
        <5>4. l \notin t.wrote /\ t.file[l] = file[l]
          BY <5>2 DEF SlotsOK
        <5> QED BY <1>2, <3>2, <5>2, <5>3, <5>4
      <4>3. CASE t.b.loc[c] \in t.wrote /\ t.file[t.b.loc[c]] = c
        BY <1>2, <3>2, <4>1, <4>3 DEF SlotsOK
      <4> QED BY <4>1, <4>2, <4>3 DEF SlotsOK
    <3> QED BY <3>1, <3>2
  <2> QED BY <2>1 DEF Placed, Stored
<1>9. Reading'
  <2>1. ASSUME reader.pc = "located", ~reader.removed, reader.slot \notin free'
        PROVE  file'[reader.slot] = reader.chunk
    <3>1. reader.slot \notin free /\ file[reader.slot] = reader.chunk /\ reader.slot \in Slot
      BY <1>0, <2>1 DEF Reading, Types
    <3> QED BY <1>2, <3>1 DEF SlotsOK
  <2> QED BY <1>0, <1>5, <2>1 DEF Reading
<1>10. Cache'
  <2> SUFFICES ASSUME "race" \notin past'
               PROVE  /\ Cached(db') /\ db'.gcSize >= Len(db'.gc) /\ Candidates'
                      /\ evict'.call.pc # "write"
    BY DEF Cache
  <2>1. "race" \notin past /\ evict'.call.pc # "write"
    BY <1>4, <1>6
  <2>2. CacheKept(t, cs) /\ Cached(db) /\ db.gcSize >= Len(db.gc) /\ Candidates
    BY <1>0, <2>1 DEF Cache
  <2>3. CASE t.failed
    <3>1. Candidates'
      BY <1>1, <1>3, <2>2, <2>3 DEF Candidates
    <3> QED BY <1>1, <2>1, <2>2, <2>3, <3>1
  <2>4. CASE ~t.failed
    <3>1. Cached(db')
      BY <1>1, <2>2, <2>4, CachedFields DEF CacheKept
    <3>2. db'.gcSize >= Len(db'.gc)
      <4> DEFINE k == Len(t.b.gc)
                 l == Len(t.d.gc)
                 m == t.d.gcSize
                 n == t.gc
      <4>1. k \in Nat /\ l \in Nat /\ m \in Nat /\ n \in Int
        BY <1>0, LenProperties DEF Database, Updates
      <4>2. k - n <= l /\ l <= m
        BY <2>2 DEF CacheKept
      <4>3. db'.gcSize = Plus(m, n) /\ Len(db'.gc) = k
        BY <1>1, <2>4
      <4> HIDE DEF k, l, m, n
      <4>4. Plus(m, n) >= k
        BY <4>1, <4>2 DEF Plus
      <4> QED BY <4>3, <4>4
    <3>3. Candidates'
      <4> SUFFICES ASSUME gc.pc = "collect"
                   PROVE  /\ Single(gc.candidates)
                          /\ \A e \in ToSet(gc.candidates) :
                                e.chunk \notin gc'.dirty =>
                                   e \in ToSet(db'.gc) \/ ~Stored(db', e.chunk)
        BY <1>3 DEF Candidates
      <4>1. ASSUME NEW e \in ToSet(gc.candidates), e.chunk \notin gc'.dirty
            PROVE  e \in ToSet(db'.gc) \/ ~Stored(db', e.chunk)
        <5>1. e \in Entry /\ e.chunk \in Chunk
          <6>1. gc.candidates \in Seq(Entry)
            BY <1>0 DEF Types
          <6> QED BY <6>1, ToSetFacts DEF Entry
        <5>2. e.chunk \notin cs /\ (e \in ToSet(db.gc) \/ ~Stored(db, e.chunk))
          BY <1>3, <2>2, <4>1 DEF Candidates
        <5>3. Stored(t.d, e.chunk) <=> Stored(db, e.chunk)
          BY DEF SlotsOK, Stored
        <5>4. (Stored(db', e.chunk) <=> Stored(t.b, e.chunk)) /\ db'.gc = t.b.gc
          BY <1>1, <2>4 DEF Stored
        <5> QED BY <2>2, <5>1, <5>2, <5>3, <5>4 DEF CacheKept
      <4> QED BY <2>2, <4>1 DEF Candidates
    <3> QED BY <2>1, <3>1, <3>2, <3>3
  <2> QED BY <2>3, <2>4
<1> QED BY <1>7, <1>8, <1>9, <1>10 DEF Inv

-------------------------------------------------------------------------------
(* The calls of Put and Set.                                                     *)

LEMMA BatchFacts ==
    ASSUME Inv, NEW d \in Database, d.loc = db.loc
    PROVE  /\ Batch(d) \in Updates /\ SlotsOK(Batch(d)) /\ (Cached(d) => CacheOK(Batch(d), {}))
           /\ Batch(d).d = d /\ Batch(d).b = d /\ Batch(d).gc = 0 /\ Batch(d).wrote = {}
           /\ Batch(d).release = {}
<1> DEFINE t == Batch(d)
<1>1. file \in File
  BY DEF Inv, Types
<1>2. /\ t.d = d /\ t.b = d /\ t.gc = 0 /\ t.wrote = {} /\ t.release = {} /\ t.file = file
  BY DEF Batch
<1>3. t \in Updates
  BY <1>1 DEF Batch, Updates
<1> HIDE DEF t
<1>4. SlotsOK(t)
  BY <1>2 DEF SlotsOK
<1>5. ASSUME Cached(d) PROVE CacheOK(t, {})
  <2>1. Len(d.gc) - t.gc <= Len(d.gc)
    <3>1. Len(d.gc) \in Nat
      BY LenProperties DEF Database
    <3> QED BY <1>2, <3>1
  <2> QED BY <1>2, <1>5, <2>1 DEF CacheOK
<1> QED BY <1>2, <1>3, <1>4, <1>5 DEF t

LEMMA OKKept ==
    ASSUME NEW t, NEW cs, CacheOK(t, cs)
    PROVE  CacheKept(t, cs)
BY DEF CacheOK, CacheKept

LEMMA PutKeeps ==
    ASSUME Inv, NEW mode, NEW c \in Chunk, Put(mode, c)
    PROVE  Inv'
<1>1. PICK r \in 0 .. MaxPO : Write(PutChunk(Batch(db), c, mode, r), {c})
  BY DEF Put
<1>2. radius' = radius /\ userPins' \in SUBSET Chunk /\ free # {}
  BY DEF Put, Inv, Types
<1>3. Placed(db) /\ free \in SUBSET Slot /\ db \in Database /\ ("race" \notin past => Cached(db))
  BY DEF Inv, Types, Cache
<1> DEFINE t == Batch(db)
           u == PutChunk(t, c, mode, r)
<1>4. /\ t \in Updates /\ SlotsOK(t) /\ (Cached(db) => CacheOK(t, {}))
      /\ t.d = db /\ t.b = db /\ t.wrote = {}
  BY <1>3, BatchFacts
<1> HIDE DEF t
<1>5. free \ t.wrote # {}
  BY <1>2, <1>4
<1>6. u \in Updates /\ SlotsOK(u) /\ u.d = db
  BY <1>3, <1>4, <1>5, PutChunkSlots
<1>7. ASSUME "race" \notin past PROVE CacheKept(u, {c})
  <2>1. CacheOK(t, {}) /\ c \in Chunk \ {} /\ {} \cup {c} = {c} /\ (mode \in Requests => t.b = t.d)
    BY <1>3, <1>4, <1>7
  <2>2. CacheOK(u, {} \cup {c})
    BY <1>3, <1>4, <1>5, <2>1, PutChunkCache
  <2> HIDE DEF u
  <2> QED BY <2>1, <2>2, OKKept
<1>8. Write(u, {c})
  BY <1>1 DEF t
<1> HIDE DEF u
<1> QED BY <1>2, <1>6, <1>7, <1>8, WriteKeeps

LEMMA PutPageKeeps ==
    ASSUME Inv, NEW c \in Chunk, NEW e \in Chunk, c # e, PutPage(c, e)
    PROVE  Inv'
<1>1. PICK r \in 0 .. MaxPO :
         Write(PutChunk(PutChunk(Batch(db), c, "sync", r), e, "sync", r), {c, e})
  BY DEF PutPage
<1>2. radius' = radius /\ userPins' \in SUBSET Chunk /\ Cardinality(free) >= 2
  BY DEF PutPage, Inv, Types
<1>3. Placed(db) /\ free \in SUBSET Slot /\ db \in Database /\ ("race" \notin past => Cached(db))
  BY DEF Inv, Types, Cache
<1> DEFINE t == Batch(db)
           u == PutChunk(t, c, "sync", r)
           v == PutChunk(u, e, "sync", r)
<1>4. /\ t \in Updates /\ SlotsOK(t) /\ (Cached(db) => CacheOK(t, {}))
      /\ t.d = db /\ t.b = db /\ t.wrote = {}
  BY <1>3, BatchFacts
<1> HIDE DEF t
<1>5. \A s \in Slot : ~(free \subseteq {s})
  <2> SUFFICES ASSUME NEW s \in Slot, free \subseteq {s} PROVE FALSE
    OBVIOUS
  <2>1. IsFiniteSet({s}) /\ Cardinality({s}) = 1
    BY FS_Singleton
  <2>2. Cardinality(free) \in Nat /\ Cardinality(free) <= 1
    <3>1. free \in SUBSET {s}
      OBVIOUS
    <3>2. IsFiniteSet(free) /\ Cardinality(free) <= Cardinality({s})
      BY <2>1, <3>1, FS_Subset
    <3> QED BY <2>1, <3>2, FS_CardinalityType
  <2> QED BY <1>2, <2>2
<1>6. free \ t.wrote # {}
  <2>1. free # {}
    <3>1. ASSUME free = {} PROVE FALSE
      BY <1>2, <3>1, FS_EmptySet
    <3> QED BY <3>1
  <2> QED BY <1>4, <2>1
<1>7. u \in Updates /\ SlotsOK(u) /\ u.d = t.d /\ \E s \in Slot : u.wrote \subseteq t.wrote \cup {s}
  BY <1>3, <1>4, <1>6, PutChunkSlots
<1>8. "race" \notin past => CacheOK(u, {c})
  <2>1. "sync" \notin Requests /\ c \in Chunk \ {} /\ {} \cup {c} = {c}
    BY DEF Requests
  <2>2. "race" \notin past => CacheOK(u, {} \cup {c})
    BY <1>3, <1>4, <1>6, <2>1, PutChunkCache
  <2> HIDE DEF u
  <2> QED BY <2>1, <2>2
<1> HIDE DEF u
<1>9. free \ u.wrote # {}
  BY <1>4, <1>5, <1>7
<1>10. v \in Updates /\ SlotsOK(v) /\ v.d = u.d
  BY <1>3, <1>7, <1>9, PutChunkSlots
<1>11. "race" \notin past => CacheKept(v, {c, e})
  <2>1. "sync" \notin Requests /\ e \in Chunk \ {c} /\ {c} \cup {e} = {c, e}
    BY DEF Requests
  <2>2. "race" \notin past => CacheOK(v, {c} \cup {e})
    BY <1>3, <1>7, <1>8, <1>9, <2>1, PutChunkCache
  <2> HIDE DEF v
  <2> QED BY <2>1, <2>2, OKKept
<1>12. Write(v, {c, e})
  BY <1>1 DEF t, u
<1> HIDE DEF v
<1>13. {c, e} \in SUBSET Chunk /\ v.d.gc = db.gc /\ v.d.gcSize = db.gcSize
  BY <1>4, <1>7, <1>10
<1> QED BY <1>2, <1>10, <1>11, <1>12, <1>13, WriteKeeps

(* A call of Set that leaves the chunk where it is.                              *)
LEMMA SetKeeps ==
    ASSUME Inv, NEW d \in Database, d.loc = db.loc, d.gc = db.gc, d.gcSize = db.gcSize,
           NEW c \in Chunk, NEW u \in Updates, SameElse(Batch(d), u), Others(d, u.b, c),
           u.b.loc = db.loc, "race" \notin past => Cached(u.b) /\ Counted(Batch(d), u),
           Changed(u, c), userPins' \in SUBSET Chunk
    PROVE  Inv'
<1> DEFINE t == Batch(d)
<1>1. /\ t \in Updates /\ SlotsOK(t) /\ t.d = d /\ t.b = d /\ t.gc = 0
      /\ t.wrote = {} /\ t.release = {}
  BY BatchFacts
<1> HIDE DEF t
<1>2. /\ u.d = d /\ u.file = t.file /\ u.wrote = {} /\ u.release = {}
  BY <1>1 DEF SameElse, t
<1>3. SlotsOK(u)
  BY <1>1, <1>2 DEF SlotsOK
<1>4. ASSUME "race" \notin past PROVE CacheKept(u, {c})
  <2>1. \A x \in Chunk : Stored(u.b, x) => Stored(u.d, x)
    BY <1>2 DEF Stored
  <2>2. \A e \in Entry : e.chunk # c /\ e \in ToSet(d.gc) => e \in ToSet(u.b.gc)
    BY DEF Others
  <2>3. Len(u.b.gc) - u.gc <= Len(d.gc)
    <3>1. Len(d.gc) \in Nat
      BY LenProperties DEF Database
    <3>2. Len(u.b.gc) - u.gc <= Len(d.gc) - 0
      BY <1>1, <1>4 DEF Counted, t
    <3>3. Len(u.b.gc) \in Nat /\ u.gc \in Int
      BY LenProperties DEF Updates, Database
    <3> QED BY <3>1, <3>2, <3>3
  <2> QED BY <1>2, <1>4, <2>1, <2>2, <2>3 DEF CacheKept
<1>5. Write(u, {c}) /\ radius' = radius /\ {c} \in SUBSET Chunk
  BY DEF Changed
<1> QED BY <1>2, <1>3, <1>4, <1>5, WriteKeeps

LEMMA PinKeeps ==
    ASSUME Inv, NEW c \in Chunk, Pin(c)
    PROVE  Inv'
<1> DEFINE t == Batch(db)
           u == SetPin(t, c)
           v == u.b
<1>1. db \in Database /\ userPins' \in SUBSET Chunk /\ Stored(db, c)
      /\ ("race" \notin past => Cached(db))
  BY DEF Inv, Types, Cache, Pin
<1>2. t \in Updates /\ t.d = db /\ t.b = db /\ t.gc = 0
  BY <1>1, BatchFacts
<1>3. /\ u \in Updates /\ SameElse(t, u) /\ Others(t.b, v, c)
      /\ v.loc = t.b.loc /\ v.access = t.b.access /\ v.push = t.b.push /\ v.pin[c] > 0
      /\ IF t.d.pin[c] = 0 /\ c \in t.d.access
         THEN Without(t.b.gc, v.gc, c) /\ u.gc = t.gc - 1
         ELSE v.gc = t.b.gc /\ u.gc = t.gc
  <2> HIDE DEF t
  <2> QED BY <1>2, SetPinFacts
<1>4. Changed(u, c)
  BY DEF Pin
<1>5. ASSUME "race" \notin past PROVE Cached(v) /\ Counted(t, u)
  <2> HIDE DEF t, u
  <2>1. /\ Proper(db.gc) /\ (\A x \in Chunk : CachedAt(db, x)) /\ CachedAt(db, c)
        /\ db.gc \in Seq(Entry) /\ v \in Database /\ v.gc \in Seq(Entry)
    BY <1>1, <1>3, <1>5 DEF Cached, Database, Updates
  <2>2. Stored(v, c)
    BY <1>1, <1>2, <1>3 DEF Stored
  <2>3. c \in v.access => c \notin v.push
    BY <1>2, <1>3, <2>1 DEF CachedAt
  <2>4. Len(db.gc) \in Nat /\ Len(v.gc) \in Nat
    BY <2>1, LenProperties
  <2>5. CASE db.pin[c] = 0 /\ c \in db.access
    <3>1. Has(db.gc, c) /\ Without(db.gc, v.gc, c) /\ u.gc = t.gc - 1
      BY <1>2, <1>3, <2>1, <2>5 DEF CachedAt
    <3>2. Proper(v.gc) /\ ~Has(v.gc, c) /\ Len(v.gc) + 1 <= Len(db.gc)
      BY <2>1, <3>1, WithoutChunk
    <3>3. CachedAt(v, c)
      BY <1>3, <2>2, <2>3, <3>2 DEF CachedAt
    <3>4. Cached(v)
      BY <1>1, <1>2, <1>3, <2>1, <3>2, <3>3, CachedStep
    <3>5. Counted(t, u)
      BY <1>2, <1>3, <3>1, <3>2, CountedCases
    <3> QED BY <3>4, <3>5
  <2>6. CASE ~(db.pin[c] = 0 /\ c \in db.access)
    <3>1. v.gc = db.gc /\ u.gc = t.gc
      BY <1>2, <1>3, <2>6
    <3>2. Proper(v.gc) /\ ~Has(v.gc, c)
      BY <2>1, <2>6, <3>1 DEF CachedAt
    <3>3. CachedAt(v, c)
      BY <1>3, <2>2, <2>3, <3>2 DEF CachedAt
    <3>4. Cached(v)
      BY <1>1, <1>2, <1>3, <2>1, <3>2, <3>3, CachedStep
    <3>5. Counted(t, u)
      BY <1>2, <1>3, <3>1, CountedCases
    <3> QED BY <3>4, <3>5
  <2> QED BY <2>5, <2>6
<1> QED BY <1>1, <1>2, <1>3, <1>4, <1>5, SetKeeps

LEMMA UnpinKeeps ==
    ASSUME Inv, NEW c \in Chunk, Unpin(c)
    PROVE  Inv'
<1> DEFINE t == Batch(db)
           u == SetUnpin(t, c)
           v == u.b
<1>1. /\ db \in Database /\ userPins' \in SUBSET Chunk
      /\ ("race" \notin past => Cached(db))
      /\ Changed(IF db.pin[c] > 0 /\ Stored(db, c) THEN u ELSE t, c)
  BY DEF Inv, Types, Cache, Unpin
<1>2. t \in Updates /\ t.d = db /\ t.b = db /\ t.gc = 0
  BY <1>1, BatchFacts
<1> HIDE DEF t
<1>3. CASE ~(db.pin[c] > 0 /\ Stored(db, c))
  <2>1. Changed(t, c)
    BY <1>1, <1>3
  <2>2. SameElse(t, t) /\ Others(db, t.b, c) /\ t.b.loc = db.loc
        /\ ("race" \notin past => Cached(t.b) /\ Counted(t, t))
    <3>1. Counted(t, t)
      BY <1>2, CountedCases
    <3> QED BY <1>1, <1>2, <3>1 DEF SameElse, Others
  <2> QED BY <1>1, <1>2, <2>1, <2>2, SetKeeps DEF t
<1>4. CASE db.pin[c] > 0 /\ Stored(db, c)
  <2>1. Changed(u, c)
    BY <1>1, <1>4
  <2>2. /\ u \in Updates /\ SameElse(t, u) /\ Others(t.b, v, c)
        /\ v.loc = t.b.loc /\ v.push = t.b.push /\ v.pin[c] = t.d.pin[c] - 1
        /\ t.d.pin[c] > 1 \/ c \in t.d.push =>
              v.gc = t.b.gc /\ u.gc = t.gc /\ v.access = t.b.access
        /\ ~(t.d.pin[c] > 1 \/ c \in t.d.push) =>
              /\ \E e \in Entry : e.chunk = c /\ e.keyed /\ v.gc = Append(t.b.gc, e)
              /\ u.gc = t.gc + 1 /\ c \in v.access
    <3>1. t \in Updates /\ t.b = t.d /\ t.d.pin[c] > 0
      BY <1>2, <1>4
    <3>2. UnpinsChunk(t, u, c)
      BY <3>1, SetUnpinFacts
    <3> HIDE DEF u
    <3> QED BY <3>2 DEF UnpinsChunk
  <2> HIDE DEF u
  <2>3. ASSUME "race" \notin past PROVE Cached(v) /\ Counted(t, u)
    <3>1. /\ Proper(db.gc) /\ (\A x \in Chunk : CachedAt(db, x)) /\ CachedAt(db, c)
          /\ db.gc \in Seq(Entry) /\ v \in Database /\ v.gc \in Seq(Entry)
          /\ db.pin[c] \in Nat /\ Stored(v, c) /\ ~Has(db.gc, c)
      <4>1. Proper(db.gc) /\ \A x \in Chunk : CachedAt(db, x)
        BY <1>1, <2>3 DEF Cached
      <4>2. v \in Database
        BY <2>2 DEF Updates
      <4> HIDE DEF v
      <4>3. db.gc \in Seq(Entry) /\ v.gc \in Seq(Entry) /\ db.pin[c] \in Nat
        BY <1>1, <4>2 DEF Database
      <4>4. ~Has(db.gc, c)
        BY <1>4, <4>1 DEF CachedAt
      <4>5. Stored(v, c)
        BY <1>2, <1>4, <2>2 DEF Stored
      <4> QED BY <4>1, <4>2, <4>3, <4>4, <4>5
    <3>2. CASE db.pin[c] > 1 \/ c \in db.push
      <4>1. v.gc = db.gc /\ u.gc = t.gc /\ v.access = db.access /\ v.push = db.push
            /\ (v.pin[c] > 0 \/ c \in db.push) /\ Counted(t, u)
        <5>1. v.gc = db.gc /\ u.gc = t.gc /\ v.access = db.access /\ v.push = db.push
              /\ v.pin[c] = db.pin[c] - 1
          BY <1>2, <2>2, <3>2
        <5>2. Counted(t, u)
          BY <1>2, <2>2, <5>1, CountedCases
        <5> QED BY <3>1, <3>2, <5>1, <5>2
      <4>2. CachedAt(v, c)
        BY <3>1, <4>1 DEF CachedAt
      <4>3. Proper(v.gc)
        BY <3>1, <4>1
      <4>4. Cached(v)
        BY <1>1, <1>2, <2>2, <3>1, <4>2, <4>3, CachedStep
      <4> QED BY <4>1, <4>4
    <3>3. CASE ~(db.pin[c] > 1 \/ c \in db.push)
      <4>1. PICK e \in Entry : e.chunk = c /\ e.keyed /\ v.gc = Append(db.gc, e)
        BY <1>2, <2>2, <3>3
      <4>2. u.gc = t.gc + 1 /\ c \in v.access /\ v.push = db.push /\ v.pin[c] = db.pin[c] - 1
        BY <1>2, <2>2, <3>3
      <4>3. v.pin[c] = 0
        BY <1>4, <3>1, <3>3, <4>2
      <4>4. /\ Len(v.gc) = Len(db.gc) + 1 /\ Single(v.gc)
            /\ \A x : x \in ToSet(v.gc) <=> x \in ToSet(db.gc) \/ x = e
        <5>1. Single(db.gc) /\ \A x \in ToSet(db.gc) : x.chunk # e.chunk
          BY <3>1, <4>1 DEF Proper, Has
        <5>2. db.gc \in Seq(Entry) /\ e \in Entry /\ v.gc = Append(db.gc, e)
          BY <3>1, <4>1
        <5> QED BY <5>1, <5>2, Appended
      <4>5. Proper(v.gc) /\ Has(v.gc, c)
        BY <3>1, <4>1, <4>4 DEF Proper, Has
      <4>6. CachedAt(v, c)
        BY <3>1, <3>3, <4>2, <4>3, <4>5 DEF CachedAt
      <4>7. Cached(v)
        <5>1. /\ db \in Database /\ v \in Database /\ Others(db, v, c)
              /\ \A x \in Chunk \ {c} : CachedAt(db, x)
          BY <1>1, <1>2, <2>2, <3>1
        <5> HIDE DEF v
        <5> QED BY <4>5, <4>6, <5>1, CachedStep
      <4>8. Counted(t, u)
        BY <1>2, <2>2, <4>2, <4>4, CountedCases
      <4> QED BY <4>7, <4>8
    <3> QED BY <3>2, <3>3
  <2> QED BY <1>1, <1>2, <2>1, <2>2, <2>3, SetKeeps DEF t
<1> QED BY <1>3, <1>4

LEMMA SetSyncKeeps ==
    ASSUME Inv, NEW c \in Chunk, SetSync(c)
    PROVE  Inv'
<1> DEFINE d == [db EXCEPT !.push = db.push \ {c}]
           t == Batch(d)
           a == [d EXCEPT !.access = d.access \cup {c}]
           ta == [t EXCEPT !.b = a]
           u == PreserveOrCache(ta, c, TRUE, FALSE, FALSE)
           v == u.b
<1>1. db \in Database /\ userPins' \in SUBSET Chunk /\ ("race" \notin past => Cached(db))
  BY DEF Inv, Types, Cache, SetSync
<1>2. /\ d \in Database /\ d.loc = db.loc /\ d.gc = db.gc /\ d.gcSize = db.gcSize
      /\ d.access = db.access /\ d.pin = db.pin /\ d.push = db.push \ {c}
  BY <1>1 DEF Database
<1> HIDE DEF d
<1>3. t \in Updates /\ t.d = d /\ t.b = d /\ t.gc = 0
  BY <1>2, BatchFacts
<1>4. Changed(IF Stored(db, c) THEN u ELSE t, c)
  <2>1. [t EXCEPT !.b.access = t.b.access \cup {c}] = ta
    BY <1>3
  <2> HIDE DEF ta, t
  <2> QED BY <2>1 DEF SetSync, t, d
<1> HIDE DEF t
<1>5. ASSUME "race" \notin past PROVE Cached(d)
  BY <1>1, <1>2, <1>5, CachedFields
<1>6. CASE ~Stored(db, c)
  <2>1. Changed(t, c)
    BY <1>4, <1>6
  <2>2. SameElse(t, t) /\ Others(d, t.b, c) /\ t.b.loc = db.loc
        /\ ("race" \notin past => Cached(t.b) /\ Counted(t, t))
    <3>1. Counted(t, t)
      BY <1>3, CountedCases
    <3> QED BY <1>2, <1>3, <1>5, <3>1 DEF SameElse, Others
  <2> QED BY <1>1, <1>2, <1>3, <2>1, <2>2, SetKeeps DEF t
<1>7. CASE Stored(db, c)
  <2>1. Changed(u, c)
    BY <1>4, <1>7
  <2>2. /\ a \in Database /\ a.loc = db.loc /\ a.gc = db.gc /\ a.access = db.access \cup {c}
        /\ a.pin = db.pin /\ a.push = db.push \ {c}
    BY <1>2 DEF Database
  <2> HIDE DEF a
  <2>3. ta \in Updates /\ SameElse(t, ta) /\ ta.b = a /\ ta.gc = t.gc /\ ta.d = d
    BY <1>3, <2>2 DEF Updates, SameElse
  <2> HIDE DEF ta
  <2>4. /\ u \in Updates /\ SameElse(ta, u) /\ Others(ta.b, v, c)
        /\ v.loc = ta.b.loc /\ v.access = ta.b.access /\ v.push = ta.b.push
        /\ Reserved(ta, u, c)
    <3> DEFINE yes == TRUE
               no == FALSE
    <3>1. u = PreserveOrCache(ta, c, yes, no, no) /\ yes /\ ~no
      OBVIOUS
    <3> HIDE DEF yes, no, u
    <3>2. \A w, f, g : LET x == PreserveOrCache(ta, c, w, f, g) IN
             /\ x \in Updates /\ SameElse(ta, x) /\ Others(ta.b, x.b, c)
             /\ x.b.loc = ta.b.loc /\ x.b.access = ta.b.access /\ x.b.push = ta.b.push
             /\ w /\ ~g => Reserved(ta, x, c)
      BY <2>3, PreserveFacts
    <3> QED BY <3>1, <3>2
  <2> HIDE DEF u
  <2>5. SameElse(t, u) /\ Others(d, v, c) /\ v.loc = db.loc /\ v.access = db.access \cup {c}
        /\ v.push = db.push \ {c} /\ v.pin[c] > 0
    <3>1. Others(d, a, c)
      BY <1>2, <2>2 DEF Others
    <3> QED BY <2>2, <2>3, <2>4, <3>1, UnchangedTwice DEF SameElse, Reserved
  <2>6. ASSUME "race" \notin past PROVE Cached(v) /\ Counted(t, u)
    <3>1. /\ Proper(d.gc) /\ (\A x \in Chunk : CachedAt(d, x)) /\ CachedAt(d, c)
          /\ d.gc \in Seq(Entry) /\ v \in Database /\ v.gc \in Seq(Entry)
          /\ Stored(v, c) /\ c \notin v.push
      BY <1>2, <1>5, <1>7, <2>4, <2>5, <2>6 DEF Cached, Database, Updates, Stored
    <3>2. CASE d.pin[c] = 0 /\ c \in d.access
      <4>1. Has(d.gc, c) /\ Without(d.gc, v.gc, c) /\ u.gc = t.gc - 1
        BY <1>2, <2>2, <2>3, <2>4, <3>1, <3>2 DEF CachedAt, Reserved
      <4>2. Proper(v.gc) /\ ~Has(v.gc, c) /\ Len(v.gc) + 1 <= Len(d.gc)
        BY <3>1, <4>1, WithoutChunk
      <4>3. CachedAt(v, c)
        BY <2>5, <3>1, <4>2, SMTT(40) DEF CachedAt
      <4>4. Cached(v)
        BY <1>2, <2>5, <3>1, <4>2, <4>3, CachedStep
      <4>5. Counted(t, u)
        BY <1>3, <2>4, <4>1, <4>2, CountedCases
      <4> QED BY <4>4, <4>5
    <3>3. CASE ~(d.pin[c] = 0 /\ c \in d.access)
      <4>1. v.gc = d.gc /\ u.gc = t.gc
        BY <1>2, <2>2, <2>3, <2>4, <3>3 DEF Reserved
      <4>2. Proper(v.gc) /\ ~Has(v.gc, c)
        BY <3>1, <3>3, <4>1 DEF CachedAt
      <4>3. CachedAt(v, c)
        BY <2>5, <3>1, <4>2 DEF CachedAt
      <4>4. Cached(v)
        BY <1>2, <2>5, <3>1, <4>2, <4>3, CachedStep
      <4>5. Counted(t, u)
        BY <1>3, <2>4, <4>1, CountedCases
      <4> QED BY <4>4, <4>5
    <3> QED BY <3>2, <3>3
  <2> QED BY <1>1, <1>2, <2>1, <2>4, <2>5, <2>6, SetKeeps DEF t
<1> QED BY <1>6, <1>7

LEMMA RemoveKeeps ==
    ASSUME Inv, NEW c \in Chunk, RemoveChunk(c)
    PROVE  Inv'
<1> DEFINE t == Batch(db)
           u == SetRemove(t, c)
           w == Replace(t, c, c, "request")
<1>1. /\ db \in Database /\ userPins' \in SUBSET Chunk /\ Stored(db, c) /\ Placed(db)
      /\ ("race" \notin past => Cached(db)) /\ Changed(u, c)
  BY DEF Inv, Types, Cache, RemoveChunk
<1>2. /\ t \in Updates /\ t.d = db /\ t.b = db /\ t.wrote = {} /\ t.release = {}
      /\ SlotsOK(t) /\ (Cached(db) => CacheOK(t, {}))
  BY <1>1, BatchFacts
<1> HIDE DEF t
<1>3. /\ u \in Updates /\ u.d = t.d /\ u.file = t.file /\ u.wrote = t.wrote
      /\ Others(t.b, u.b, c) /\ u.release = t.release \cup {t.d.loc[c]} /\ u.b.loc[c] = None
      /\ u.gc \in Int
  BY <1>1, <1>2, SetRemoveFacts DEF Updates
<1>4. SlotsOK(u)
  <2>1. \A x \in Chunk \ {c} : u.b.loc[x] = db.loc[x]
    BY <1>2, <1>3 DEF Others
  <2>2. db.loc[c] \notin free
    BY <1>1 DEF Placed
  <2>3. \A x \in Chunk : Stored(u.b, x) =>
           u.b.loc[x] = db.loc[x] /\ u.b.loc[x] \notin u.release
    BY <1>1, <1>2, <1>3, <2>1 DEF Placed, Stored
  <2> QED BY <1>2, <1>3, <2>2, <2>3 DEF SlotsOK
<1>5. ASSUME "race" \notin past PROVE CacheKept(u, {c})
  <2>1. w.b = u.b /\ w.d = u.d /\ w.gc = u.gc
    <3>1. \E m : w = [u EXCEPT !.gc = u.gc, !.reserve = m]
      BY DEF Replace, Requests
    <3> HIDE DEF w, u
    <3> QED BY <1>3, <3>1 DEF Updates
  <2>2. CacheOK(w, {})
    BY <1>1, <1>2, <1>5, ReplaceCache
  <2> HIDE DEF w, u
  <2>3. CacheOK(u, {})
    BY <2>1, <2>2, CacheOKSame
  <2>4. CacheOK(u, {c})
    BY <2>3, CacheOKMore
  <2> QED BY <2>4, OKKept
<1>6. Write(u, {c}) /\ radius' = radius /\ {c} \in SUBSET Chunk
  BY <1>1 DEF Changed
<1> HIDE DEF u
<1> QED BY <1>1, <1>2, <1>3, <1>4, <1>5, <1>6, WriteKeeps

-------------------------------------------------------------------------------
(* The steps that change neither the database nor the shard.                     *)

CallType ==
    [ pc : {"idle", "unpin", "write", "radius"}, trigger : BOOLEAN, locked : BOOLEAN,
      bin : 0 .. MaxPO + 1, to : 0 .. MaxPO + 1, start : Nat, evicted : Nat ]

LEMMA NewCall ==
    ASSUME NEW k \in CallType, evict'.call = k, evict' = [call |-> k, read |-> evict'.read],
           k.pc \in {"write", "radius"} => k.bin < k.to,
           k.locked => k.to = radius' /\ radius' <= MaxPO /\ k.pc # "write",
           k.pc = "write" => evict'.read \in Updates /\ evict'.read.gc >= 0
                                                     /\ evict'.read.reserve <= 0
    PROVE  (evict = [call |-> evict.call, read |-> evict.read] /\ Evicting)'
BY DEF Evicting, CallType

LEMMA CallSame ==
    ASSUME Types, UNCHANGED <<evict, radius>>
    PROVE  (evict = [call |-> evict.call, read |-> evict.read] /\ Evicting)'
BY DEF Types, Evicting

LEMMA StoreSame ==
    ASSUME Inv, UNCHANGED <<db, file, free, past>>, Types', Reading',
           "race" \notin past => Candidates',
           "race" \notin past /\ evict'.call.pc = "write" =>
              evict'.read = UnpinBatch(db, file, evict'.call.bin)
    PROVE  Inv'
<1>1. Placed(db)'
  BY DEF Inv, Placed, Stored
<1>2. Cache'
  BY DEF Inv, Cache
<1> QED BY <1>1, <1>2 DEF Inv

LEMMA GetLocationKeeps ==
    ASSUME Inv, NEW c \in Chunk, GetLocation(c)
    PROVE  Inv'
<1>1. /\ Types /\ Placed(db) /\ Cache /\ Stored(db, c)
      /\ UNCHANGED <<db, file, free, gc, evict, radius, userPins, past, faults>>
      /\ reader' = [NoReader EXCEPT !.pc = "located", !.chunk = c, !.slot = db.loc[c]]
  BY DEF Inv, GetLocation
<1>2. db.loc[c] \in Slot /\ file[db.loc[c]] = c /\ db.loc[c] \notin free
  <2>1. db.loc[c] \in Slot
    BY <1>1 DEF Types, Stored, Database
  <2> QED BY <1>1, <2>1 DEF Placed
<1>3. reader' = [pc |-> "located", chunk |-> c, slot |-> db.loc[c], data |-> None, removed |-> FALSE]
  BY <1>1 DEF NoReader
<1>4. Types'
  <2>1. /\ reader' \in [ pc : {"idle", "located", "read"}, chunk : Chunk \cup {None},
                         slot : Slot \cup {None}, data : Chunk \cup {None}, removed : BOOLEAN ]
        /\ reader'.chunk \in Chunk /\ reader'.slot \in Slot
    BY <1>2, <1>3
  <2> QED BY <1>1, <2>1, CallSame DEF Types
<1>5. Reading'
  BY <1>1, <1>2, <1>3 DEF Reading
<1>6. Candidates => Candidates'
  BY <1>1 DEF Candidates, Stored
<1> QED BY <1>1, <1>4, <1>5, <1>6, StoreSame DEF Cache

LEMMA GetDataKeeps ==
    ASSUME Inv, GetData
    PROVE  Inv'
<1>1. /\ Types /\ Reading /\ Cache /\ reader.pc = "located"
      /\ UNCHANGED <<db, file, free, gc, evict, radius, userPins, past, calls, faults>>
      /\ reader' = [reader EXCEPT !.pc = "read", !.data = file[reader.slot]]
  BY DEF Inv, GetData
<1>2. file[reader.slot] \in Chunk \cup {None} /\ reader.slot \in Slot /\ reader.chunk \in Chunk
  BY <1>1 DEF Types, File
<1>3. Types'
  BY <1>1, <1>2, CallSame DEF Types
<1>4. Reading'
  BY <1>1 DEF Reading, Types
<1>5. Candidates => Candidates'
  BY <1>1 DEF Candidates, Stored
<1> QED BY <1>1, <1>3, <1>4, <1>5, StoreSame DEF Cache

LEMMA CollectStartKeeps ==
    ASSUME Inv, CollectStart
    PROVE  Inv'
<1>1. /\ Types /\ Reading /\ Cache
      /\ UNCHANGED <<db, file, free, evict, reader, radius, userPins, past, calls, faults>>
      /\ \/ gc' = Resting
         \/ gc' = [Resting EXCEPT !.pc = "collect", !.candidates = db.gc]
  BY DEF Inv, CollectStart
<1>2. db.gc \in Seq(Entry) /\ <<>> \in Seq(Entry)
  BY <1>1 DEF Types, Database
<1>3. \/ gc' = [pc |-> "idle", trigger |-> FALSE, candidates |-> <<>>, dirty |-> {}]
      \/ gc' = [pc |-> "collect", trigger |-> FALSE, candidates |-> db.gc, dirty |-> {}]
  BY <1>1 DEF Resting
<1>4. Types'
  <2>1. gc' \in [ pc : {"idle", "collect"}, trigger : BOOLEAN, candidates : Seq(Entry),
                  dirty : SUBSET Chunk ]
    <3>1. CASE gc' = [pc |-> "idle", trigger |-> FALSE, candidates |-> <<>>, dirty |-> {}]
      BY <1>2, <3>1
    <3>2. CASE gc' = [pc |-> "collect", trigger |-> FALSE, candidates |-> db.gc, dirty |-> {}]
      <4> DEFINE g == db.gc
      <4>1. g \in Seq(Entry) /\ gc' = [pc |-> "collect", trigger |-> FALSE, candidates |-> g, dirty |-> {}]
        BY <1>2, <3>2
      <4> HIDE DEF g
      <4> QED BY <4>1
    <3> QED BY <1>3, <3>1, <3>2
  <2> QED BY <1>1, <2>1, CallSame DEF Types
<1>5. Reading'
  BY <1>1 DEF Reading
<1>6. "race" \notin past => Candidates'
  BY <1>1, <1>3 DEF Cache, Cached, Proper, Candidates
<1> QED BY <1>1, <1>4, <1>5, <1>6, StoreSame DEF Cache

LEMMA UnreserveTyped ==
    ASSUME Types, NEW locked \in BOOLEAN, NEW to \in 0 .. MaxPO + 1, NEW start \in Nat,
           Unreserve(locked, to, start), locked => to = radius' /\ radius' <= MaxPO
    PROVE  /\ (evict = [call |-> evict.call, read |-> evict.read] /\ Evicting)'
           /\ evict'.call.pc # "write"
<1> DEFINE bin == IF db.radius.known THEN db.radius.po ELSE 0
           trigger == evict.call.trigger /\ ~locked
           k == [NoCall EXCEPT !.pc = "unpin", !.locked = locked, !.to = to, !.start = start,
                               !.bin = bin, !.trigger = trigger]
<1>1. bin \in 0 .. MaxPO + 1 /\ trigger \in BOOLEAN
  <2>1. db.radius.po \in 0 .. MaxPO /\ MaxPO \in Nat
    BY BoundAssumption DEF Types, Database
  <2>2. trigger \in BOOLEAN
    BY DEF Types, Evicting
  <2> QED BY <2>1, <2>2
<1>3. evict' = [evict EXCEPT !.call = k]
  BY DEF Unreserve
<1> HIDE DEF bin, trigger
<1>2. k \in CallType /\ k.pc = "unpin" /\ k.locked = locked /\ k.to = to
  <2>1. /\ NoCall \in [ pc : {"idle"}, trigger : {FALSE}, locked : {FALSE}, bin : {0}, to : {0},
                        start : {0}, evicted : {0} ]
    BY DEF NoCall
  <2> QED BY <1>1, <2>1 DEF CallType
<1> HIDE DEF k
<1>5. evict'.call = k /\ evict' = [call |-> k, read |-> evict'.read]
  BY <1>3 DEF Types
<1> QED BY <1>2, <1>5, NewCall

LEMMA EvictReserveKeeps ==
    ASSUME Inv, EvictReserve
    PROVE  Inv'
<1>1. /\ Types /\ Reading /\ Cache /\ evict.call.pc = "idle"
      /\ UNCHANGED <<db, file, free, gc, reader, radius, userPins, past, calls, faults>>
  BY DEF Inv, EvictReserve
<1>2. \/ radius <= MaxPO /\ Unreserve(TRUE, radius, db.reserveSize)
      \/ evict' = [evict EXCEPT !.call.trigger = FALSE]
  BY DEF EvictReserve
<1>3. /\ (evict = [call |-> evict.call, read |-> evict.read] /\ Evicting)'
      /\ evict'.call.pc # "write"
  <2>1. CASE radius <= MaxPO /\ Unreserve(TRUE, radius, db.reserveSize)
    <3> DEFINE yes == TRUE
    <3>1. yes \in BOOLEAN /\ Unreserve(yes, radius, db.reserveSize)
      BY <2>1
    <3> HIDE DEF yes
    <3>2. radius \in 0 .. MaxPO + 1 /\ db.reserveSize \in Nat /\ radius' = radius
      BY <1>1 DEF Types, Database
    <3> QED BY <1>1, <2>1, <3>1, <3>2, UnreserveTyped
  <2>2. CASE evict' = [evict EXCEPT !.call.trigger = FALSE]
    <3> DEFINE no == FALSE
    <3>1. no \in BOOLEAN /\ evict' = [evict EXCEPT !.call.trigger = no]
      BY <2>2
    <3> HIDE DEF no
    <3> QED BY <1>1, <3>1, CallTriggered
  <2> QED BY <1>2, <2>1, <2>2
<1>4. Types'
  BY <1>1, <1>3 DEF Types
<1>5. Reading' /\ (Candidates => Candidates')
  BY <1>1 DEF Reading, Candidates, Stored
<1> QED BY <1>1, <1>3, <1>4, <1>5, StoreSame DEF Cache

LEMMA ExpireKeeps ==
    ASSUME Inv, Expire
    PROVE  Inv'
<1>1. /\ Types /\ Reading /\ Cache /\ radius' = MaxPO + 1
      /\ UNCHANGED <<db, file, free, gc, reader, userPins, past, calls>>
      /\ Unreserve(FALSE, MaxPO + 1, 0)
  BY DEF Inv, Expire
<1>2. MaxPO \in Nat
  BY BoundAssumption
<1>3. /\ (evict = [call |-> evict.call, read |-> evict.read] /\ Evicting)'
      /\ evict'.call.pc # "write"
  <2> DEFINE no == FALSE
             to == MaxPO + 1
  <2>2. to \in 0 .. MaxPO + 1 /\ 0 \in Nat
    BY <1>2
  <2>1. no \in BOOLEAN /\ ~no /\ Unreserve(no, to, 0)
    BY <1>1
  <2> HIDE DEF no, to
  <2> QED BY <1>1, <2>1, <2>2, UnreserveTyped
<1>4. radius' \in 0 .. MaxPO + 1
  BY <1>1, <1>2
<1>5. Types'
  BY <1>1, <1>3, <1>4 DEF Types
<1>6. Reading' /\ (Candidates => Candidates')
  BY <1>1 DEF Reading, Candidates, Stored
<1> QED BY <1>1, <1>3, <1>5, <1>6, StoreSame DEF Cache

LEMMA RestartKeeps ==
    ASSUME Inv, Restart
    PROVE  Inv'
<1>1. /\ Types /\ Placed(db) /\ Cache
      /\ free' = {s \in Slot : \A c \in Chunk : db.loc[c] # s}
      /\ gc' = Resting /\ evict' = [call |-> NoCall, read |-> <<>>] /\ reader' = NoReader
      /\ past' = past \cup {"restart"}
      /\ UNCHANGED <<db, file, radius, userPins, calls>>
  BY DEF Inv, Restart
<1>2. gc' \in [ pc : {"idle", "collect"}, trigger : BOOLEAN, candidates : Seq(Entry),
                dirty : SUBSET Chunk ] /\ gc'.pc = "idle"
  BY <1>1 DEF Resting
<1>3. NoCall \in CallType /\ NoCall.pc = "idle" /\ ~NoCall.locked
  BY BoundAssumption DEF NoCall, CallType
<1>4. (evict = [call |-> evict.call, read |-> evict.read] /\ Evicting)'
  BY <1>1, <1>3, NewCall
<1>5. /\ reader' \in [ pc : {"idle", "located", "read"}, chunk : Chunk \cup {None},
                       slot : Slot \cup {None}, data : Chunk \cup {None}, removed : BOOLEAN ]
      /\ reader'.pc = "idle"
  BY <1>1 DEF NoReader
<1>6. Types'
  BY <1>1, <1>2, <1>4, <1>5 DEF Types
<1>7. Placed(db)'
  BY <1>1 DEF Placed, Stored
<1>8. Reading' /\ Candidates'
  BY <1>2, <1>5 DEF Reading, Candidates
<1>9. Cache'
  BY <1>1, <1>3, <1>8 DEF Cache
<1> QED BY <1>6, <1>7, <1>8, <1>9 DEF Inv

-------------------------------------------------------------------------------
(* The ends of a bin and of UnreserveBatch, and updateGC.                        *)

(* A step that changes nothing but the radius and the call.                      *)
LEMMA CacheSame ==
    ASSUME Inv, Types', UNCHANGED <<file, free, reader, past>>,
           db'.loc = db.loc, db'.access = db.access, db'.push = db.push, db'.pin = db.pin,
           db'.gc = db.gc, db'.gcSize = db.gcSize,
           gc'.pc = gc.pc, gc'.candidates = gc.candidates, gc'.dirty = gc.dirty,
           evict'.call.pc # "write"
    PROVE  Inv'
<1>1. Placed(db)' /\ Reading'
  BY DEF Inv, Placed, Stored, Reading
<1>2. Candidates => Candidates'
  BY DEF Candidates, Stored
<1>3. Cached(db) => Cached(db')
  BY CachedFields
<1>4. Cache'
  BY <1>2, <1>3 DEF Inv, Cache
<1> QED BY <1>1, <1>4 DEF Inv

LEMMA BinDoneKeeps ==
    ASSUME Inv, BinDone
    PROVE  Inv'
<1> DEFINE bin == evict.call.bin
           r == IF bin = MaxPO THEN NewDB.radius ELSE [known |-> TRUE, po |-> bin]
           k == [evict.call EXCEPT !.pc = "unpin", !.bin = bin + 1]
<1>1. /\ Types /\ db \in Database /\ evict.call.pc = "radius" /\ evict.call \in CallType
      /\ Evicting /\ bin < evict.call.to
      /\ UNCHANGED <<file, free, gc, reader, radius, userPins, past, calls, faults>>
  BY DEF Inv, Types, Evicting, BinDone, CallType
<1>2. db' = [db EXCEPT !.radius = r] /\ evict' = [evict EXCEPT !.call = k]
  BY DEF BinDone
<1>3. MaxPO \in Nat /\ bin \in 0 .. MaxPO + 1 /\ evict.call.to \in 0 .. MaxPO + 1
  BY <1>1, BoundAssumption DEF CallType
<1>4. bin \in 0 .. MaxPO /\ bin + 1 \in 0 .. MaxPO + 1
  BY <1>1, <1>3
<1>5. r \in [known : BOOLEAN, po : 0 .. MaxPO]
  BY <1>3, <1>4 DEF NewDB
<1>6. k \in CallType /\ k.pc = "unpin" /\ k.locked = evict.call.locked /\ k.to = evict.call.to
  BY <1>1, <1>4 DEF CallType
<1> HIDE DEF r, k
<1>7. /\ db' \in Database /\ db'.loc = db.loc /\ db'.access = db.access /\ db'.push = db.push
      /\ db'.pin = db.pin /\ db'.gc = db.gc /\ db'.gcSize = db.gcSize
  BY <1>1, <1>2, <1>5 DEF Database
<1>8. evict'.call = k /\ evict' = [call |-> k, read |-> evict'.read]
  BY <1>1, <1>2 DEF Types
<1>9. (evict = [call |-> evict.call, read |-> evict.read] /\ Evicting)'
  <2>1. k.locked => k.to = radius' /\ radius' <= MaxPO
    BY <1>1, <1>6 DEF Evicting
  <2> QED BY <1>6, <1>8, <2>1, NewCall
<1>10. Types'
  BY <1>1, <1>7, <1>9 DEF Types
<1> QED BY <1>1, <1>6, <1>7, <1>8, <1>10, CacheSame

LEMMA UnreserveDoneKeeps ==
    ASSUME Inv, UnreserveDone
    PROVE  Inv'
<1> DEFINE call == evict.call
           done == call.evicted <= call.start /\ call.start - call.evicted <= reserveEvictionTarget
           trigger == call.trigger \/ (call.locked /\ ~done)
           k == [NoCall EXCEPT !.trigger = trigger]
           more == gc.trigger \/ db.gcSize >= cacheCapacity
<1>1. /\ Types /\ db \in Database /\ call \in CallType /\ Evicting
      /\ UNCHANGED <<file, free, reader, userPins, past, calls, faults>>
  BY DEF Inv, Types, Evicting, UnreserveDone, CallType
<1>2. /\ db' = IF call.to = MaxPO + 1 THEN db
               ELSE [db EXCEPT !.radius = [known |-> TRUE, po |-> call.to]]
      /\ gc' = [gc EXCEPT !.trigger = more]
      /\ radius' = IF call.locked THEN radius + 1 ELSE radius
      /\ evict' = [evict EXCEPT !.call = k]
  BY DEF UnreserveDone
<1>3. trigger \in BOOLEAN /\ more \in BOOLEAN
  BY <1>1 DEF Types, CallType
<1> HIDE DEF trigger, more
<1>4. k \in CallType /\ k.pc = "idle" /\ ~k.locked
  <2>1. NoCall \in [ pc : {"idle"}, trigger : {FALSE}, locked : {FALSE}, bin : {0}, to : {0},
                     start : {0}, evicted : {0} ]
    BY DEF NoCall
  <2>2. 0 \in 0 .. MaxPO + 1
    BY BoundAssumption
  <2> QED BY <1>3, <2>1, <2>2 DEF CallType
<1> HIDE DEF k
<1>5. (evict = [call |-> evict.call, read |-> evict.read] /\ Evicting)' /\ evict'.call.pc # "write"
  <2>1. evict'.call = k /\ evict' = [call |-> k, read |-> evict'.read]
    BY <1>1, <1>2 DEF Types
  <2> QED BY <1>4, <2>1, NewCall
<1>6. /\ db' \in Database /\ db'.loc = db.loc /\ db'.access = db.access /\ db'.push = db.push
      /\ db'.pin = db.pin /\ db'.gc = db.gc /\ db'.gcSize = db.gcSize
  <2>1. CASE call.to = MaxPO + 1
    <3>1. db' = db
      BY <1>2, <2>1
    <3> QED BY <1>1, <3>1
  <2>2. CASE call.to # MaxPO + 1
    <3> DEFINE r == [known |-> TRUE, po |-> call.to]
    <3>1. db' = [db EXCEPT !.radius = r]
      BY <1>2, <2>2
    <3>2. call.to \in 0 .. MaxPO
      BY <1>1, <2>2, BoundAssumption DEF CallType
    <3>3. r \in [known : BOOLEAN, po : 0 .. MaxPO]
      BY <3>2
    <3> HIDE DEF r
    <3> QED BY <1>1, <3>1, <3>3 DEF Database
  <2> QED BY <2>1, <2>2
<1>7. radius' \in 0 .. MaxPO + 1
  <2>1. radius \in 0 .. MaxPO + 1 /\ MaxPO \in Nat /\ (call.locked => radius <= MaxPO)
    BY <1>1, BoundAssumption DEF Types, Evicting
  <2> HIDE DEF call
  <2> QED BY <1>2, <2>1
<1>8. /\ gc' \in [ pc : {"idle", "collect"}, trigger : BOOLEAN, candidates : Seq(Entry),
                   dirty : SUBSET Chunk ]
      /\ gc'.pc = gc.pc /\ gc'.candidates = gc.candidates /\ gc'.dirty = gc.dirty
  BY <1>1, <1>2, <1>3 DEF Types
<1>9. Types'
  BY <1>1, <1>5, <1>6, <1>7, <1>8 DEF Types
<1> QED BY <1>1, <1>5, <1>6, <1>8, <1>9, CacheSame

LEMMA UpdateGCKeeps ==
    ASSUME Inv, UpdateGC
    PROVE  Inv'
<1> DEFINE c == reader.chunk
           dirty == IF gc.pc = "collect" THEN gc.dirty \cup {c} ELSE gc.dirty
           stale == reader.removed /\ InGC(db, c)
           s == [i \in DOMAIN db.gc |->
                   IF db.gc[i].chunk = c THEN [db.gc[i] EXCEPT !.keyed = FALSE] ELSE db.gc[i]]
           e == GCEntry(c, IndexOf[c])
           g == DeleteGC(db, c).gc
           h == Append(g, e)
<1>1. /\ Types /\ Placed(db) /\ Cache /\ db \in Database /\ c \in Chunk /\ db.gc \in Seq(Entry)
      /\ reader' = NoReader
      /\ UNCHANGED <<file, free, evict, radius, userPins, calls, faults>>
  BY DEF Inv, Types, Database, UpdateGC
<1>2. /\ gc' = [gc EXCEPT !.dirty = dirty]
      /\ db' = IF c \notin db.access \/ ~InGC(db, c) THEN db
               ELSE IF stale THEN [db EXCEPT !.gc = s]
               ELSE [DeleteGC(db, c) EXCEPT !.gc = h]
      /\ past' = IF stale \/ evict.call.pc = "write" THEN past \cup {"race"} ELSE past
  BY DEF UpdateGC
<1>3. /\ gc' \in [ pc : {"idle", "collect"}, trigger : BOOLEAN, candidates : Seq(Entry),
                   dirty : SUBSET Chunk ]
      /\ gc'.pc = gc.pc /\ gc'.candidates = gc.candidates
      /\ gc.pc = "collect" => gc'.dirty = gc.dirty \cup {c}
  <2>1. dirty \in SUBSET Chunk /\ (gc.pc = "collect" => dirty = gc.dirty \cup {c})
    BY <1>1 DEF Types
  <2> HIDE DEF dirty
  <2> QED BY <1>1, <1>2, <2>1 DEF Types
<1>4. /\ DeleteGC(db, c) = [db EXCEPT !.gc = g] /\ Without(db.gc, g, c)
      /\ e \in Entry /\ e.chunk = c /\ e.keyed
  <2>1. e \in Entry /\ e.chunk = c /\ e.keyed
    BY <1>1, BoundAssumption DEF GCEntry, Entry
  <2> HIDE DEF c
  <2> QED BY <1>1, <2>1, Deleted
<1>5. s \in Seq(Entry)
  <2>1. \A i \in DOMAIN db.gc : db.gc[i] \in Entry
    BY <1>1, ElementOfSeq, LenProperties
  <2>2. \A x \in Entry : [x EXCEPT !.keyed = FALSE] \in Entry
    BY DEF Entry
  <2>3. DOMAIN db.gc = 1 .. Len(db.gc) /\ Len(db.gc) \in Nat
    BY <1>1, LenProperties
  <2>4. \A i \in 1 .. Len(db.gc) :
           (IF db.gc[i].chunk = c THEN [db.gc[i] EXCEPT !.keyed = FALSE] ELSE db.gc[i]) \in Entry
    BY <2>1, <2>2, <2>3
  <2> HIDE DEF c
  <2> QED BY <2>3, <2>4, IsASeq
<1> HIDE DEF s, g, e, stale, c, dirty
<1>6. h \in Seq(Entry) /\ Len(h) = Len(g) + 1 /\ g \in Seq(Entry)
      /\ (\A x : x \in ToSet(h) <=> x \in ToSet(g) \/ x = e)
      /\ (Single(g) /\ (\A x \in ToSet(g) : x.chunk # e.chunk) => Single(h))
  BY <1>4, Appended DEF Without
<1> HIDE DEF h
<1>7. [DeleteGC(db, c) EXCEPT !.gc = h] = [db EXCEPT !.gc = h]
  <2> DEFINE x == DeleteGC(db, c)
  <2>1. x = [db EXCEPT !.gc = g]
    BY <1>4
  <2> HIDE DEF x
  <2>2. [x EXCEPT !.gc = h] = [db EXCEPT !.gc = h]
    BY <1>1, <2>1 DEF Database
  <2> QED BY <2>2 DEF x
<1>8. db' = db \/ (stale /\ db' = [db EXCEPT !.gc = s])
               \/ (c \in db.access /\ InGC(db, c) /\ db' = [db EXCEPT !.gc = h])
  BY <1>2, <1>7
<1>9. /\ db' \in Database /\ db'.loc = db.loc /\ db'.access = db.access /\ db'.push = db.push
      /\ db'.pin = db.pin /\ db'.gcSize = db.gcSize
  <2>1. CASE db' = db
    BY <1>1, <2>1
  <2>2. CASE db' = [db EXCEPT !.gc = s]
    BY <1>1, <1>5, <2>2 DEF Database
  <2>3. CASE db' = [db EXCEPT !.gc = h]
    BY <1>1, <1>6, <2>3 DEF Database
  <2> QED BY <1>8, <2>1, <2>2, <2>3
<1>10. /\ reader' \in [ pc : {"idle", "located", "read"}, chunk : Chunk \cup {None},
                        slot : Slot \cup {None}, data : Chunk \cup {None}, removed : BOOLEAN ]
       /\ reader'.pc = "idle"
  BY <1>1 DEF NoReader
<1>11. past' \in SUBSET {"race", "restart"}
  BY <1>1, <1>2 DEF Types
<1>12. Types'
  BY <1>1, <1>3, <1>9, <1>10, <1>11, CallSame DEF Types
<1>13. Placed(db)' /\ Reading'
  BY <1>1, <1>9, <1>10 DEF Placed, Stored, Reading
<1>14. ASSUME "race" \notin past'
       PROVE  /\ Cached(db') /\ db'.gcSize >= Len(db'.gc) /\ Candidates'
              /\ evict'.call.pc # "write"
  <2>1. ~stale /\ evict.call.pc # "write" /\ "race" \notin past
    BY <1>2, <1>14
  <2>2. Cached(db) /\ db.gcSize >= Len(db.gc) /\ Candidates
    BY <1>1, <2>1 DEF Cache
  <2>3. CASE db' = db
    <3>1. Candidates'
      BY <1>3, <2>2, <2>3 DEF Candidates
    <3> QED BY <1>1, <2>1, <2>2, <2>3, <3>1
  <2>4. CASE c \in db.access /\ InGC(db, c) /\ db' = [db EXCEPT !.gc = h]
    <3>1. db'.gc = h
      BY <1>1, <2>4 DEF Database
    <3>2. /\ Proper(db.gc) /\ (\A x \in Chunk : CachedAt(db, x)) /\ CachedAt(db, c) /\ Has(db.gc, c)
      BY <1>1, <2>2, <2>4, InGCHas DEF Cached
    <3>3. Proper(g) /\ ~Has(g, c) /\ Len(g) + 1 <= Len(db.gc)
      BY <1>1, <1>4, <3>2, WithoutChunk
    <3>4. Proper(h) /\ Has(h, c)
      BY <1>4, <1>6, <3>3 DEF Proper, Has
    <3>5. Others(db, db', c)
      BY <1>4, <1>6, <1>9, <3>1 DEF Others, Without
    <3>6. CachedAt(db', c)
      BY <1>9, <3>1, <3>2, <3>4 DEF CachedAt, Stored
    <3>7. Cached(db')
      BY <1>1, <1>9, <3>1, <3>2, <3>4, <3>5, <3>6, CachedStep
    <3>8. db'.gcSize >= Len(db'.gc)
      <4> DEFINE i == Len(db.gc)
                 j == Len(g)
                 k == Len(h)
                 n == db.gcSize
      <4>1. i \in Nat /\ j \in Nat /\ k \in Nat /\ n \in Nat
        BY <1>1, <1>6, LenProperties DEF Database
      <4>2. n >= i /\ j + 1 <= i /\ k = j + 1
        BY <1>6, <2>2, <3>3
      <4> HIDE DEF i, j, k, n
      <4>3. n >= k
        BY <4>1, <4>2
      <4> QED BY <1>9, <3>1, <4>3 DEF k, n
    <3>9. Candidates'
      <4> SUFFICES ASSUME gc.pc = "collect"
                   PROVE  /\ Single(gc.candidates)
                          /\ \A x \in ToSet(gc.candidates) :
                                x.chunk \notin gc'.dirty =>
                                   x \in ToSet(db'.gc) \/ ~Stored(db', x.chunk)
        BY <1>3 DEF Candidates
      <4>1. ASSUME NEW x \in ToSet(gc.candidates), x.chunk \notin gc'.dirty
            PROVE  x \in ToSet(db'.gc) \/ ~Stored(db', x.chunk)
        <5>1. x \in Entry
          <6>1. gc.candidates \in Seq(Entry)
            BY <1>1 DEF Types
          <6> QED BY <6>1, ToSetFacts
        <5>2. x.chunk # c /\ (x \in ToSet(db.gc) \/ ~Stored(db, x.chunk))
          BY <1>3, <2>2, <4>1 DEF Candidates
        <5> QED BY <1>9, <3>5, <5>1, <5>2 DEF Others, Stored
      <4> QED BY <2>2, <4>1 DEF Candidates
    <3> QED BY <1>1, <2>1, <3>7, <3>8, <3>9
  <2> QED BY <1>8, <2>1, <2>3, <2>4
<1>15. Cache'
  BY <1>14 DEF Cache
<1> QED BY <1>12, <1>13, <1>15 DEF Inv


-------------------------------------------------------------------------------
(* UnreserveBatch: the entries it makes, and the merge of what it writes.        *)

(* SetToSeq lists a finite set: some bijection numbers its elements.             *)
LEMMA SetToSeqFacts ==
    ASSUME NEW S \in SUBSET Entry, IsFiniteSet(S)
    PROVE  /\ SetToSeq(S) \in Seq(Entry)
           /\ \A e : e \in ToSet(SetToSeq(S)) <=> e \in S
           /\ \A i, j \in DOMAIN SetToSeq(S) : SetToSeq(S)[i] = SetToSeq(S)[j] => i = j
<1> DEFINE n == Cardinality(S)
           s == SetToSeq(S)
<1>1. n \in Nat /\ ExistsBijection(1 .. n, S)
  BY FS_CardinalityType
<1> HIDE DEF n
<1>2. \E f \in [1 .. n -> S] : IsInjective(f)
  <2>1. PICK f : f \in Bijection(1 .. n, S)
    BY <1>1 DEF ExistsBijection
  <2> QED BY <2>1 DEF Bijection, Injection
<1>3. s \in [1 .. n -> S] /\ IsInjective(s)
  BY <1>2 DEF SetToSeq, n
<1> HIDE DEF s
<1>4. s \in Seq(Entry) /\ Len(s) = n /\ DOMAIN s = 1 .. n
  <2>1. s \in [1 .. n -> Entry]
    BY <1>3
  <2>2. s \in Seq(Entry)
    BY <1>1, <2>1, SeqDef
  <2> QED BY <1>1, <2>1, <2>2, LenProperties
<1>5. \A i, j \in DOMAIN s : s[i] = s[j] => i = j
  BY <1>3 DEF IsInjective
<1>6. s \in Surjection(1 .. n, S)
  <2>1. s \in Injection(1 .. n, S)
    BY <1>3 DEF Injection
  <2>2. IsFiniteSet(1 .. n) /\ Cardinality(1 .. n) = n
    BY <1>1, FS_Interval
  <2>3. Cardinality(1 .. n) = Cardinality(S)
    BY <2>2 DEF n
  <2> QED BY <2>1, <2>3, FS_Injection
<1>7. \A e : e \in ToSet(s) <=> e \in S
  <2>1. \A e : e \in ToSet(s) <=> \E i \in 1 .. n : s[i] = e
    BY <1>4, ToSetFacts
  <2> QED BY <1>3, <1>6, <2>1 DEF Surjection
<1> QED BY <1>4, <1>5, <1>7 DEF s

(* A sequence with one entry for a chunk at most is no longer than its chunks.   *)
LEMMA SingleBound ==
    ASSUME NEW s \in Seq(Entry), Single(s), NEW C, IsFiniteSet(C),
           \A i \in DOMAIN s : s[i].chunk \in C
    PROVE  Len(s) <= Cardinality(C) /\ Cardinality(C) \in Nat
<1> DEFINE n == Len(s)
           f == [i \in 1 .. n |-> s[i].chunk]
<1>1. n \in Nat /\ DOMAIN s = 1 .. n
  BY LenProperties
<1> HIDE DEF n
<1>2. f \in Injection(1 .. n, C)
  <2>1. f \in [1 .. n -> C]
    BY <1>1
  <2>2. IsInjective(f)
    BY <1>1 DEF Single, IsInjective
  <2> QED BY <2>1, <2>2 DEF Injection
<1>3. Cardinality(1 .. n) <= Cardinality(C)
  BY <1>2, FS_Injection
<1>4. IsFiniteSet(1 .. n) /\ Cardinality(1 .. n) = n
  <2>1. n \in Nat
    BY <1>1
  <2> QED BY <2>1, UpTo
<1> QED BY <1>3, <1>4, FS_CardinalityType DEF n

LEMMA ConcatFacts ==
    ASSUME NEW s \in Seq(Entry), NEW u \in Seq(Entry)
    PROVE  /\ s \o u \in Seq(Entry) /\ Len(s \o u) = Len(s) + Len(u)
           /\ \A e : e \in ToSet(s \o u) <=> e \in ToSet(s) \/ e \in ToSet(u)
           /\ \A i \in DOMAIN (s \o u) :
                 \/ i \in DOMAIN s /\ (s \o u)[i] = s[i]
                 \/ i - Len(s) \in DOMAIN u /\ (s \o u)[i] = u[i - Len(s)]
<1> DEFINE v == s \o u
           m == Len(s)
           n == Len(u)
<1>1. /\ v \in Seq(Entry) /\ Len(v) = m + n /\ m \in Nat /\ n \in Nat
      /\ DOMAIN s = 1 .. m /\ DOMAIN u = 1 .. n
  BY ConcatProperties, LenProperties
<1>2. DOMAIN v = 1 .. m + n
  BY <1>1, LenProperties
<1>3. \A i \in 1 .. m + n : v[i] = IF i <= m THEN s[i] ELSE u[i - m]
  BY ConcatProperties
<1> HIDE DEF v, m, n
<1>4. ASSUME NEW i \in DOMAIN v
      PROVE  \/ i \in DOMAIN s /\ v[i] = s[i]
             \/ i - m \in DOMAIN u /\ v[i] = u[i - m]
  <2>1. i \in 1 .. m + n
    BY <1>2
  <2>2. CASE i <= m
    BY <1>1, <1>3, <2>1, <2>2
  <2>3. CASE ~ (i <= m)
    <3>1. i - m \in 1 .. n
      BY <1>1, <2>1, <2>3
    <3> QED BY <1>1, <1>3, <2>1, <2>3, <3>1
  <2> QED BY <2>2, <2>3
<1>5. ASSUME NEW e, e \in ToSet(v) PROVE e \in ToSet(s) \/ e \in ToSet(u)
  <2>1. PICK i \in DOMAIN v : v[i] = e
    BY <1>1, <1>5, ToSetFacts
  <2>2. CASE i \in DOMAIN s /\ v[i] = s[i]
    BY <2>1, <2>2, ToSetFacts
  <2>3. CASE i - m \in DOMAIN u /\ v[i] = u[i - m]
    BY <2>1, <2>3, ToSetFacts
  <2> QED BY <1>4, <2>2, <2>3
<1>6. ASSUME NEW e, e \in ToSet(s) PROVE e \in ToSet(v)
  <2>1. PICK i \in 1 .. m : s[i] = e
    BY <1>1, <1>6, ToSetFacts
  <2>2. i \in 1 .. m + n /\ i <= m
    BY <1>1
  <2>3. v[i] = e
    BY <1>3, <2>1, <2>2
  <2> QED BY <1>1, <1>2, <2>2, <2>3, ToSetFacts
<1>7. ASSUME NEW e, e \in ToSet(u) PROVE e \in ToSet(v)
  <2>1. PICK i \in 1 .. n : u[i] = e
    BY <1>1, <1>7, ToSetFacts
  <2> DEFINE l == m + i
  <2>2. l \in 1 .. m + n /\ ~ (l <= m) /\ l - m = i
    <3>1. m \in Nat /\ n \in Nat
      BY <1>1
    <3> QED BY <3>1
  <2> HIDE DEF l
  <2>3. v[l] = e
    BY <1>3, <2>1, <2>2
  <2> QED BY <1>1, <1>2, <2>2, <2>3, ToSetFacts
<1>8. \A e : e \in ToSet(v) <=> e \in ToSet(s) \/ e \in ToSet(u)
  BY <1>5, <1>6, <1>7
<1>9. \A i \in DOMAIN v : \/ i \in DOMAIN s /\ v[i] = s[i]
                          \/ i - m \in DOMAIN u /\ v[i] = u[i - m]
  BY <1>4
<1> QED BY <1>1, <1>8, <1>9 DEF v, m, n

LEMMA UnpinBatchIs == \A bin : UnpinBatchChunks(bin) = UnpinBatch(db, file, bin)
<1> SUFFICES ASSUME NEW bin PROVE UnpinBatchChunks(bin) = UnpinBatch(db, file, bin)
  OBVIOUS
<1> DEFINE P == PinnedIn(db, bin)
           C == CachedIn(db, bin)
           E == NewEntries(db, bin)
           pin == [c \in Chunk |-> IF c \in P THEN db.pin[c] - 1 ELSE db.pin[c]]
           b == [db EXCEPT !.pin = pin, !.access = db.access \cup C, !.gc = db.gc \o SetToSeq(E)]
           m == Cardinality(C)
           n == 0 - Cardinality(P)
<1>1. P = {c \in Chunk : PO[c] = bin /\ Stored(db, c) /\ db.pin[c] > 0}
  BY DEF PinnedIn
<1>2. C = {c \in P : db.pin[c] = 1 /\ c \notin db.push}
  BY DEF CachedIn
<1>3. E = {GCEntry(c, 0) : c \in C}
  BY DEF NewEntries
<1>4. UnpinBatch(db, file, bin) =
         [ d |-> db, b |-> b, file |-> file, wrote |-> {}, release |-> {}, gc |-> m,
           reserve |-> n, failed |-> FALSE ]
  BY DEF UnpinBatch
<1> HIDE DEF P, C, E
<1>5. UnpinBatchChunks(bin) = [Batch(db) EXCEPT !.b = b, !.gc = m, !.reserve = n]
  BY <1>1, <1>2, <1>3 DEF UnpinBatchChunks
<1> HIDE DEF b, m, n
<1> QED BY <1>4, <1>5 DEF Batch

(* What t, the batch that UnpinBatch makes of d, contains.                       *)
UnpinsBin(t, d, bin) ==
    /\ t \in Updates /\ t.d = d /\ t.gc = Cardinality(CachedIn(d, bin))
    /\ t.gc >= 0 /\ t.reserve <= 0
    /\ t.b.pin = [c \in Chunk |-> IF c \in PinnedIn(d, bin) THEN d.pin[c] - 1 ELSE d.pin[c]]
    /\ t.b.access = d.access \cup CachedIn(d, bin)
    /\ t.b.gc = d.gc \o SetToSeq(NewEntries(d, bin))
    /\ NewEntries(d, bin) \in SUBSET Entry /\ IsFiniteSet(NewEntries(d, bin))
    /\ IsFiniteSet(CachedIn(d, bin))

LEMMA UnpinBatchFacts ==
    \A d \in Database, f \in File : \A bin : UnpinsBin(UnpinBatch(d, f, bin), d, bin)
<1> SUFFICES ASSUME NEW d \in Database, NEW f \in File, NEW bin
             PROVE  UnpinsBin(UnpinBatch(d, f, bin), d, bin)
  OBVIOUS
<1> DEFINE pin == [c \in Chunk |-> IF c \in PinnedIn(d, bin) THEN d.pin[c] - 1 ELSE d.pin[c]]
           access == d.access \cup CachedIn(d, bin)
           E == NewEntries(d, bin)
           s == d.gc \o SetToSeq(E)
           m == Cardinality(CachedIn(d, bin))
           n == 0 - Cardinality(PinnedIn(d, bin))
           b == [d EXCEPT !.pin = pin, !.access = access, !.gc = s]
           t == UnpinBatch(d, f, bin)
<1>1. PinnedIn(d, bin) \in SUBSET Chunk /\ CachedIn(d, bin) \in SUBSET Chunk
  BY DEF PinnedIn, CachedIn
<1>2. IsFiniteSet(PinnedIn(d, bin)) /\ IsFiniteSet(CachedIn(d, bin))
  BY <1>1, BoundAssumption, FS_Subset
<1>3. m \in Nat /\ n \in Int /\ n <= 0
  BY <1>2, FS_CardinalityType
<1>4. \A c \in CachedIn(d, bin) : GCEntry(c, 0) \in Entry /\ GCEntry(c, 0).chunk = c
  BY <1>1, BoundAssumption DEF GCEntry, Entry
<1>5. E \in SUBSET Entry /\ IsFiniteSet(E)
  <2> DEFINE g == [c \in CachedIn(d, bin) |-> GCEntry(c, 0)]
  <2>1. g \in Surjection(CachedIn(d, bin), E)
    BY DEF Surjection, NewEntries
  <2>2. IsFiniteSet(E)
    BY <1>2, <2>1, FS_Surjection
  <2> QED BY <1>4, <2>2 DEF NewEntries
<1> HIDE DEF E, m, n
<1>6. pin \in [Chunk -> Nat]
  <2>1. \A c \in Chunk : d.pin[c] \in Nat /\ (c \in PinnedIn(d, bin) => d.pin[c] > 0)
    BY DEF Database, PinnedIn
  <2> QED BY <2>1
<1>7. access \in SUBSET Chunk
  BY <1>1 DEF Database
<1>8. s \in Seq(Entry)
  <2>1. d.gc \in Seq(Entry) /\ SetToSeq(E) \in Seq(Entry)
    BY <1>5, SetToSeqFacts DEF Database
  <2> QED BY <2>1, ConcatFacts
<1>9. t = [ d |-> d, b |-> b, file |-> f, wrote |-> {}, release |-> {}, gc |-> m,
            reserve |-> n, failed |-> FALSE ]
  BY DEF UnpinBatch, E, m, n
<1> HIDE DEF pin, access, s, t
<1>10. b \in Database /\ b.pin = pin /\ b.access = access /\ b.gc = s
  BY <1>6, <1>7, <1>8 DEF Database
<1> HIDE DEF b
<1>11. /\ t \in Updates /\ t.d = d /\ t.gc = m /\ t.gc >= 0 /\ t.reserve <= 0 /\ t.b = b
  BY <1>3, <1>9, <1>10 DEF Updates
<1> QED BY <1>2, <1>5, <1>10, <1>11 DEF pin, access, s, t, m, E, UnpinsBin

(* What a batch t writes to the database of now.                                 *)
Fresh(t) == {i \in DOMAIN t.b.gc : t.b.gc[i] \notin ToSet(t.d.gc) \cup ToSet(db.gc)}

LEMMA MergeFacts ==
    ASSUME NEW t \in Updates, db \in Database
    PROVE  /\ Merge(t) \in Database /\ Merge(t).loc = db.loc /\ Merge(t).push = db.push
           /\ Merge(t).pin = [c \in Chunk |-> IF t.b.pin[c] # t.d.pin[c] THEN t.b.pin[c]
                                                                         ELSE db.pin[c]]
           /\ Merge(t).access = db.access \cup (t.b.access \ t.d.access)
           /\ Merge(t).gc = db.gc \o Entries(t.b.gc, Fresh(t))
           /\ Merge(t).gcSize = IF t.gc > 0 THEN Plus(t.d.gcSize, t.gc) ELSE db.gcSize
           /\ Entries(t.b.gc, Fresh(t)) \in Seq(Entry)
<1> DEFINE pin == [c \in Chunk |-> IF t.b.pin[c] # t.d.pin[c] THEN t.b.pin[c] ELSE db.pin[c]]
           access == db.access \cup (t.b.access \ t.d.access)
           u == Entries(t.b.gc, Fresh(t))
           s == db.gc \o u
           m == IF t.gc > 0 THEN Plus(t.d.gcSize, t.gc) ELSE db.gcSize
           n == IF t.reserve # 0 THEN Plus(t.d.reserveSize, t.reserve) ELSE db.reserveSize
<1>1. /\ t.d \in Database /\ t.b \in Database /\ t.gc \in Int /\ t.reserve \in Int
  BY DEF Updates
<1>2. pin \in [Chunk -> Nat] /\ access \in SUBSET Chunk
  BY <1>1 DEF Database
<1>3. u \in Seq(Entry)
  <2>1. t.b.gc \in Seq(Entry) /\ Fresh(t) \in SUBSET DOMAIN t.b.gc
    BY <1>1 DEF Database, Fresh
  <2>2. Picks(t.b.gc, Fresh(t), u)
    BY <2>1, EntriesFacts
  <2> HIDE DEF u
  <2> QED BY <2>2 DEF Picks
<1> HIDE DEF u
<1>4. s \in Seq(Entry)
  <2>1. db.gc \in Seq(Entry)
    BY DEF Database
  <2> QED BY <1>3, <2>1, ConcatFacts
<1>5. m \in Nat /\ n \in Nat
  <2>1. /\ t.d.gcSize \in Nat /\ t.d.reserveSize \in Nat
        /\ db.gcSize \in Nat /\ db.reserveSize \in Nat
    BY <1>1 DEF Database
  <2> QED BY <1>1, <2>1, PlusType
<1>6. Merge(t) = [db EXCEPT !.pin = pin, !.access = access, !.gc = s, !.gcSize = m,
                            !.reserveSize = n]
  BY DEF Merge, Fresh, u
<1> HIDE DEF pin, access, s, m, n
<1>7. /\ Merge(t) \in Database /\ Merge(t).loc = db.loc /\ Merge(t).push = db.push
      /\ Merge(t).pin = pin /\ Merge(t).access = access /\ Merge(t).gc = s /\ Merge(t).gcSize = m
  BY <1>2, <1>4, <1>5, <1>6 DEF Database
<1> QED BY <1>3, <1>7 DEF pin, access, s, m, u

LEMMA SingleConcat ==
    ASSUME NEW s \in Seq(Entry), NEW u \in Seq(Entry), Single(s), Single(u),
           \A e \in ToSet(s), f \in ToSet(u) : e.chunk # f.chunk
    PROVE  Single(s \o u)
<1> DEFINE v == s \o u
           m == Len(s)
           In(i) == i \in DOMAIN s /\ v[i] = s[i] /\ s[i] \in ToSet(s)
           After(i) == i - m \in DOMAIN u /\ v[i] = u[i - m] /\ u[i - m] \in ToSet(u)
<1>1. v \in Seq(Entry) /\ DOMAIN v \subseteq Int /\ m \in Int
  BY ConcatFacts, LenProperties
<1>2. \A i \in DOMAIN v : \/ i \in DOMAIN s /\ v[i] = s[i]
                          \/ i - m \in DOMAIN u /\ v[i] = u[i - m]
  BY ConcatFacts
<1> HIDE DEF v, m
<1>3. \A i \in DOMAIN v : In(i) \/ After(i)
  BY <1>2, ToSetFacts
<1>4. ASSUME NEW i \in DOMAIN v, NEW j \in DOMAIN v, v[i].chunk = v[j].chunk PROVE i = j
  <2>1. i \in Int /\ j \in Int
    BY <1>1
  <2>2. CASE In(i) /\ In(j)
    BY <1>4, <2>2 DEF Single
  <2>3. CASE In(i) /\ After(j)
    BY <1>4, <2>3
  <2>4. CASE After(i) /\ In(j)
    BY <1>4, <2>4
  <2>5. CASE After(i) /\ After(j)
    <3> DEFINE k == i - m
               l == j - m
    <3>1. k \in DOMAIN u /\ l \in DOMAIN u /\ u[k].chunk = u[l].chunk
      BY <1>4, <2>5
    <3>2. k = l
      BY <3>1 DEF Single
    <3>3. m \in Int
      BY <1>1
    <3> QED BY <2>1, <3>2, <3>3
  <2> HIDE DEF In, After
  <2> QED BY <1>3, <2>2, <2>3, <2>4, <2>5
<1> QED BY <1>4 DEF Single, v

(* The entries that are merged: one for each chunk that is unpinned.             *)
LEMMA FreshEntries ==
    ASSUME NEW bin, NEW t, db \in Database, Cached(db), UnpinsBin(t, db, bin)
    PROVE  /\ Entries(t.b.gc, Fresh(t)) \in Seq(Entry) /\ Single(Entries(t.b.gc, Fresh(t)))
           /\ \A e : e \in ToSet(Entries(t.b.gc, Fresh(t))) <=> e \in NewEntries(db, bin)
           /\ Len(Entries(t.b.gc, Fresh(t))) <= Cardinality(CachedIn(db, bin))
           /\ Cardinality(CachedIn(db, bin)) \in Nat
<1> DEFINE g == db.gc
           C == CachedIn(db, bin)
           E == NewEntries(db, bin)
           w == SetToSeq(E)
           s == t.b.gc
           K == Fresh(t)
           u == Entries(s, K)
           L == Len(g)
<1>1. /\ t \in Updates /\ t.d = db /\ s = g \o w /\ E \in SUBSET Entry /\ IsFiniteSet(E)
      /\ IsFiniteSet(C) /\ g \in Seq(Entry) /\ L \in Int
  BY LenProperties DEF UnpinsBin, Database
<1>2. /\ w \in Seq(Entry) /\ \A e : e \in ToSet(w) <=> e \in E
      /\ \A i, j \in DOMAIN w : w[i] = w[j] => i = j
  <2> HIDE DEF E
  <2> QED BY <1>1, SetToSeqFacts
<1>3. \A e \in E : e \notin ToSet(g) /\ e.chunk \in C /\ e.keyed
  <2> SUFFICES ASSUME NEW c \in C
               PROVE  GCEntry(c, 0) \notin ToSet(g) /\ GCEntry(c, 0).chunk = c /\ GCEntry(c, 0).keyed
    BY DEF NewEntries
  <2>1. c \in Chunk /\ db.pin[c] = 1
    BY DEF CachedIn, PinnedIn
  <2>3. CachedAt(db, c)
    BY <2>1 DEF Cached
  <2>2. ~Has(g, c)
    BY <2>1, <2>3 DEF CachedAt
  <2> QED BY <2>2 DEF Has, GCEntry
<1>4. \A e, f \in E : e.chunk = f.chunk => e = f
  <2>1. \A e \in E : e = GCEntry(e.chunk, 0)
    BY DEF NewEntries, GCEntry
  <2> HIDE DEF E
  <2> QED BY <2>1
<1>5. K = {i \in DOMAIN s : s[i] \notin ToSet(g)}
  BY <1>1 DEF Fresh
<1> HIDE DEF E, C, w, K, u, L
<1>6. /\ s \in Seq(Entry) /\ DOMAIN s \subseteq Int
      /\ \A e : e \in ToSet(s) <=> e \in ToSet(g) \/ e \in ToSet(w)
      /\ \A i \in DOMAIN s : \/ i \in DOMAIN g /\ s[i] = g[i]
                             \/ i - L \in DOMAIN w /\ s[i] = w[i - L]
  <2>1. /\ g \o w \in Seq(Entry)
        /\ \A e : e \in ToSet(g \o w) <=> e \in ToSet(g) \/ e \in ToSet(w)
        /\ \A i \in DOMAIN (g \o w) :
              \/ i \in DOMAIN g /\ (g \o w)[i] = g[i]
              \/ i - Len(g) \in DOMAIN w /\ (g \o w)[i] = w[i - Len(g)]
    BY <1>1, <1>2, ConcatFacts
  <2>2. DOMAIN (g \o w) \subseteq Int
    BY <2>1, LenProperties
  <2> QED BY <1>1, <2>1, <2>2 DEF L
<1>7. \A i \in K : i \in Int /\ i - L \in DOMAIN w /\ s[i] = w[i - L]
  <2> SUFFICES ASSUME NEW i \in K PROVE i \in Int /\ i - L \in DOMAIN w /\ s[i] = w[i - L]
    OBVIOUS
  <2>1. i \in DOMAIN s /\ s[i] \notin ToSet(g)
    BY <1>5
  <2>2. ~ (i \in DOMAIN g /\ s[i] = g[i])
    BY <1>1, <2>1, ToSetFacts
  <2> QED BY <1>6, <2>1, <2>2
<1>8. /\ u \in Seq(Entry)
      /\ \A j \in DOMAIN u : \E i \in K : u[j] = s[i]
      /\ \A i \in K : \E j \in DOMAIN u : u[j] = s[i]
      /\ \A j, l \in DOMAIN u : \E i, k \in K : u[j] = s[i] /\ u[l] = s[k] /\ (i = k => j = l)
  <2>1. K \in SUBSET DOMAIN s
    BY <1>5
  <2> HIDE DEF s
  <2>2. Picks(s, K, Entries(s, K))
    BY <1>6, <2>1, EntriesFacts
  <2> QED BY <2>2 DEF u, Picks
<1> HIDE DEF s, g
<1>9. \A i \in K : s[i] \in E
  BY <1>2, <1>7, ToSetFacts
<1>10. ASSUME NEW e PROVE e \in ToSet(u) <=> e \in E
  <2>1. ASSUME e \in ToSet(u) PROVE e \in E
    <3>1. PICK j \in DOMAIN u : u[j] = e
      BY <1>8, <2>1, ToSetFacts
    <3> QED BY <1>8, <1>9, <3>1
  <2>2. ASSUME e \in E PROVE e \in ToSet(u)
    <3>1. e \in ToSet(s) /\ e \notin ToSet(g)
      BY <1>2, <1>3, <1>6, <2>2
    <3>2. PICK i \in DOMAIN s : s[i] = e
      BY <1>6, <3>1, ToSetFacts
    <3>3. i \in K
      BY <1>5, <3>1, <3>2
    <3> QED BY <1>8, <3>2, <3>3, ToSetFacts
  <2> QED BY <2>1, <2>2
<1>11. Single(u)
  <2> SUFFICES ASSUME NEW j \in DOMAIN u, NEW l \in DOMAIN u, u[j].chunk = u[l].chunk
               PROVE  j = l
    BY DEF Single
  <2>1. PICK i \in K, k \in K : u[j] = s[i] /\ u[l] = s[k] /\ (i = k => j = l)
    BY <1>8
  <2>2. s[i] = s[k]
    BY <1>4, <1>9, <2>1
  <2> DEFINE p == i - L
             q == k - L
  <2>3. p \in DOMAIN w /\ q \in DOMAIN w /\ w[p] = w[q]
    BY <1>7, <2>2
  <2>4. p = q
    BY <1>2, <2>3
  <2>5. i = k
    BY <1>1, <1>7, <2>4
  <2> QED BY <2>1, <2>5
<1>12. Len(u) <= Cardinality(C) /\ Cardinality(C) \in Nat
  <2>1. \A i \in DOMAIN u : u[i].chunk \in C
    BY <1>3, <1>8, <1>9
  <2> QED BY <1>1, <1>8, <1>11, <2>1, SingleBound
<1> QED BY <1>8, <1>10, <1>11, <1>12 DEF E, C, K, u, s

LEMMA MergeKeeps ==
    ASSUME NEW bin, NEW t, db \in Database, Cached(db), db.gcSize >= Len(db.gc),
           UnpinsBin(t, db, bin)
    PROVE  /\ Cached(Merge(t)) /\ Merge(t).gcSize >= Len(Merge(t).gc)
           /\ \A e \in ToSet(db.gc) : e \in ToSet(Merge(t).gc)
<1> DEFINE C == CachedIn(db, bin)
           P == PinnedIn(db, bin)
           E == NewEntries(db, bin)
           g == db.gc
           u == Entries(t.b.gc, Fresh(t))
           b == Merge(t)
           h == b.gc
           n == Cardinality(C)
<1>1. /\ t \in Updates /\ t.d = db /\ t.gc = n /\ g \in Seq(Entry) /\ db.gcSize \in Nat
      /\ t.b.pin = [c \in Chunk |-> IF c \in P THEN db.pin[c] - 1 ELSE db.pin[c]]
      /\ t.b.access = db.access \cup C
  BY DEF UnpinsBin, Database
<1>2. /\ b \in Database /\ b.loc = db.loc /\ b.push = db.push
      /\ b.pin = [c \in Chunk |-> IF t.b.pin[c] # t.d.pin[c] THEN t.b.pin[c] ELSE db.pin[c]]
      /\ b.access = db.access \cup (t.b.access \ t.d.access)
      /\ h = g \o u
      /\ b.gcSize = IF t.gc > 0 THEN Plus(t.d.gcSize, t.gc) ELSE db.gcSize
  BY <1>1, MergeFacts
<1>3. /\ u \in Seq(Entry) /\ Single(u) /\ Len(u) <= n /\ n \in Nat
      /\ \A e : e \in ToSet(u) <=> e \in E
  BY FreshEntries
<1> HIDE DEF u, b, n
<1>4. /\ h \in Seq(Entry) /\ Len(h) = Len(g) + Len(u)
      /\ \A e : e \in ToSet(h) <=> e \in ToSet(g) \/ e \in E
  <2>1. /\ g \o u \in Seq(Entry) /\ Len(g \o u) = Len(g) + Len(u)
        /\ \A e : e \in ToSet(g \o u) <=> e \in ToSet(g) \/ e \in ToSet(u)
    BY <1>1, <1>3, ConcatFacts
  <2> QED BY <1>2, <1>3, <2>1
<1>5. \A c \in Chunk : b.pin[c] = IF c \in P THEN db.pin[c] - 1 ELSE db.pin[c]
  BY <1>1, <1>2
<1>6. b.access = db.access \cup C
  BY <1>1, <1>2
<1>7. b.gcSize = db.gcSize + n
  <2>1. Plus(db.gcSize, n) = db.gcSize + n
    BY <1>1, <1>3 DEF Plus
  <2>2. CASE n > 0
    BY <1>1, <1>2, <2>1, <2>2
  <2>3. CASE ~ (n > 0)
    BY <1>1, <1>2, <1>3, <2>3
  <2> QED BY <2>2, <2>3
<1>8. /\ \A c : c \in C <=> c \in P /\ db.pin[c] = 1 /\ c \notin db.push
      /\ \A c : c \in P => c \in Chunk /\ Stored(db, c) /\ db.pin[c] > 0
      /\ \A c \in Chunk : db.pin[c] \in Nat
  BY DEF CachedIn, PinnedIn, Database
<1>9. \A e \in E : e.chunk \in C /\ e.keyed
  BY DEF NewEntries, GCEntry
<1>10. \A c \in C : \E e \in E : e.chunk = c
  <2>1. \A c \in C : GCEntry(c, 0) \in E /\ GCEntry(c, 0).chunk = c
    BY DEF NewEntries, GCEntry
  <2> HIDE DEF C, E
  <2> QED BY <2>1
<1> HIDE DEF C, P, E
<1>11. Proper(g) /\ \A c \in Chunk : CachedAt(db, c)
  BY DEF Cached
<1>12. \A e \in ToSet(g), f \in ToSet(u) : e.chunk # f.chunk
  <2> SUFFICES ASSUME NEW e \in ToSet(g), NEW f \in ToSet(u), e.chunk = f.chunk PROVE FALSE
    OBVIOUS
  <2>1. e.chunk \in C
    BY <1>3, <1>9
  <2>2. e.chunk \in Chunk /\ db.pin[e.chunk] = 1
    BY <1>8, <2>1
  <2>3. Has(g, e.chunk)
    BY DEF Has
  <2>4. CachedAt(db, e.chunk)
    BY <1>11, <2>2
  <2> QED BY <2>2, <2>3, <2>4 DEF CachedAt
<1>13. Proper(h)
  <2>1. Single(g)
    BY <1>11 DEF Proper
  <2>2. Single(h)
    BY <1>1, <1>2, <1>3, <1>12, <2>1, SingleConcat
  <2> QED BY <1>4, <1>9, <1>11, <2>2 DEF Proper
<1>14. \A c \in Chunk : CachedAt(b, c)
  <2> SUFFICES ASSUME NEW c \in Chunk PROVE CachedAt(b, c)
    OBVIOUS
  <2>1. CachedAt(db, c)
    BY <1>11
  <2>2. Stored(b, c) <=> Stored(db, c)
    BY <1>2 DEF Stored
  <2>3. Has(h, c) <=> Has(g, c) \/ c \in C
    BY <1>4, <1>9, <1>10 DEF Has
  <2>4. CASE c \in C
    <3>1. c \in P /\ Stored(db, c) /\ c \notin db.push /\ db.pin[c] = 1
      BY <1>8, <2>4
    <3>2. b.pin[c] = 0
      BY <1>5, <3>1
    <3> QED BY <1>2, <1>6, <2>2, <2>3, <2>4, <3>1, <3>2 DEF CachedAt
  <2>5. CASE c \notin C /\ c \in P
    <3>1. Stored(db, c) /\ db.pin[c] > 0 /\ b.pin[c] = db.pin[c] - 1 /\ db.pin[c] \in Nat
      BY <1>5, <1>8, <2>5
    <3>2. ~ Has(g, c)
      BY <2>1, <3>1 DEF CachedAt
    <3>3. c \in db.access => c \notin db.push
      BY <2>1 DEF CachedAt
    <3>4. c \in b.access => c \notin b.push /\ b.pin[c] # 0
      <4>1. b.push = db.push /\ (c \in b.access => c \in db.access)
        BY <1>2, <1>6, <2>5
      <4>2. b.pin[c] = 0 => c \in C \/ c \in db.push
        <5>1. b.pin[c] = 0 => db.pin[c] = 1
          BY <3>1
        <5> QED BY <1>8, <2>5, <5>1
      <4> QED BY <2>5, <3>3, <4>1, <4>2
    <3> QED BY <2>2, <2>3, <2>5, <3>1, <3>2, <3>4 DEF CachedAt
  <2>6. CASE c \notin C /\ c \notin P
    <3>1. b.pin[c] = db.pin[c]
      BY <1>5, <2>6
    <3>2. c \in b.access <=> c \in db.access
      BY <1>6, <2>6
    <3> QED BY <1>2, <2>1, <2>2, <2>3, <2>6, <3>1, <3>2 DEF CachedAt
  <2> QED BY <2>4, <2>5, <2>6
<1>15. b.gcSize >= Len(h)
  <2>1. Len(g) \in Nat /\ Len(u) \in Nat
    BY <1>1, <1>3, LenProperties
  <2> QED BY <1>1, <1>3, <1>4, <1>7, <2>1
<1> QED BY <1>4, <1>13, <1>14, <1>15 DEF Cached, b

LEMMA UnpinnedKeeps ==
    ASSUME Inv, NEW t \in Updates, t.reserve <= 0, Unpinned(t),
           UNCHANGED <<file, free, reader, radius, userPins, past>>,
           evict.call.bin < evict.call.to,
           "race" \notin past => \E bin : UnpinsBin(t, db, bin)
    PROVE  Inv'
<1> DEFINE more == gc.trigger \/ GCTrigger(t)
           trigger == evict.call.trigger \/ EvictTrigger(t)
           evicted == evict.call.evicted - t.reserve
           k == [evict.call EXCEPT !.pc = "radius", !.evicted = evicted, !.trigger = trigger]
<1>1. /\ Types /\ Placed(db) /\ Reading /\ Cache /\ db \in Database
      /\ evict.call \in CallType /\ Evicting
  BY DEF Inv, Types, Evicting, CallType
<1>2. /\ db' = Merge(t) /\ gc' = [gc EXCEPT !.trigger = more] /\ evict' = [call |-> k, read |-> <<>>]
  BY DEF Unpinned
<1>3. more \in BOOLEAN /\ trigger \in BOOLEAN
  BY <1>1 DEF Types, CallType, GCTrigger, EvictTrigger
<1>4. evicted \in Nat
  <2>1. t.reserve \in Int /\ evict.call.evicted \in Nat
    BY <1>1 DEF Updates, CallType
  <2> QED BY <2>1
<1> HIDE DEF more, trigger, evicted
<1>5. k \in CallType /\ k.pc = "radius" /\ k.bin = evict.call.bin /\ k.to = evict.call.to
      /\ k.locked = evict.call.locked
  BY <1>1, <1>3, <1>4 DEF CallType
<1> HIDE DEF k
<1>6. (evict = [call |-> evict.call, read |-> evict.read] /\ Evicting)' /\ evict'.call.pc = "radius"
  <2>1. evict'.call = k /\ evict' = [call |-> k, read |-> evict'.read]
    BY <1>2
  <2>2. k.locked => k.to = radius' /\ radius' <= MaxPO
    BY <1>1, <1>5 DEF Evicting
  <2>3. k.pc \in {"write", "radius"} => k.bin < k.to
    BY <1>5
  <2> QED BY <1>5, <2>1, <2>2, <2>3, NewCall
<1>7. db' \in Database /\ db'.loc = db.loc
  BY <1>1, <1>2, MergeFacts
<1>8. /\ gc' \in [ pc : {"idle", "collect"}, trigger : BOOLEAN, candidates : Seq(Entry),
                   dirty : SUBSET Chunk ]
      /\ gc'.pc = gc.pc /\ gc'.candidates = gc.candidates /\ gc'.dirty = gc.dirty
  BY <1>1, <1>2, <1>3 DEF Types
<1>9. Types'
  BY <1>1, <1>6, <1>7, <1>8 DEF Types
<1>10. Placed(db)' /\ Reading'
  BY <1>1, <1>7 DEF Placed, Stored, Reading
<1>11. Cache'
  <2> SUFFICES ASSUME "race" \notin past PROVE Cached(db)' /\ (db.gcSize >= Len(db.gc) /\ Candidates)'
    BY <1>6 DEF Cache
  <2>1. Cached(db) /\ db.gcSize >= Len(db.gc) /\ Candidates
    BY <1>1 DEF Cache
  <2>2. PICK bin : UnpinsBin(t, db, bin)
    OBVIOUS
  <2>3. /\ Cached(Merge(t)) /\ Merge(t).gcSize >= Len(Merge(t).gc)
        /\ \A e \in ToSet(db.gc) : e \in ToSet(Merge(t).gc)
    BY <1>1, <2>1, <2>2, MergeKeeps
  <2>4. Cached(db') /\ db'.gcSize >= Len(db'.gc) /\ \A e \in ToSet(db.gc) : e \in ToSet(db'.gc)
    BY <1>2, <2>3
  <2>5. Candidates'
    BY <1>7, <1>8, <2>1, <2>4 DEF Candidates, Stored
  <2> QED BY <2>4, <2>5
<1> QED BY <1>9, <1>10, <1>11 DEF Inv

LEMMA UnpinReadKeeps ==
    ASSUME Inv, UnpinRead
    PROVE  Inv'
<1> DEFINE bin == evict.call.bin
           t == UnpinBatch(db, file, bin)
           k == [evict.call EXCEPT !.pc = "write"]
<1>1. /\ Types /\ Reading /\ Cache /\ db \in Database /\ file \in File
      /\ evict.call \in CallType /\ Evicting
      /\ evict.call.pc = "unpin" /\ bin < evict.call.to
      /\ UNCHANGED <<file, free, reader, radius, userPins, past, calls, faults>>
  BY DEF Inv, Types, Evicting, CallType, UnpinRead
<1>2. IF evict.call.locked
      THEN Unpinned(t)
      ELSE evict' = [call |-> k, read |-> t] /\ UNCHANGED <<db, gc>>
  BY UnpinBatchIs DEF UnpinRead
<1>3. UnpinsBin(t, db, bin)
  BY <1>1, UnpinBatchFacts
<1>4. t \in Updates /\ t.gc >= 0 /\ t.reserve <= 0
  BY <1>3 DEF UnpinsBin
<1>5. CASE evict.call.locked
  <2> HIDE DEF t
  <2>1. Unpinned(t) /\ \E b : UnpinsBin(t, db, b)
    BY <1>2, <1>3, <1>5
  <2> QED BY <1>1, <1>4, <2>1, UnpinnedKeeps
<1>6. CASE ~evict.call.locked
  <2> HIDE DEF t
  <2>1. evict' = [call |-> k, read |-> t] /\ UNCHANGED <<db, gc>>
    BY <1>2, <1>6
  <2>2. k \in CallType /\ k.pc = "write" /\ k.bin = bin /\ k.to = evict.call.to /\ ~k.locked
    BY <1>1, <1>6 DEF CallType
  <2> HIDE DEF k
  <2>3. evict'.call = k /\ evict' = [call |-> k, read |-> evict'.read] /\ evict'.read = t
    BY <2>1
  <2>4. (evict = [call |-> evict.call, read |-> evict.read] /\ Evicting)'
    BY <1>1, <1>4, <2>2, <2>3, NewCall
  <2>5. Types'
    BY <1>1, <2>1, <2>4 DEF Types
  <2>6. Reading'
    BY <1>1 DEF Reading
  <2>7. Candidates => Candidates'
    BY <2>1 DEF Candidates, Stored
  <2>8. evict'.read = UnpinBatch(db, file, evict'.call.bin)
    BY <2>2, <2>3 DEF t
  <2> QED BY <1>1, <2>1, <2>5, <2>6, <2>7, <2>8, StoreSame DEF Cache
<1> QED BY <1>5, <1>6

LEMMA UnpinWriteKeeps ==
    ASSUME Inv, UnpinWrite
    PROVE  Inv'
<1> DEFINE bin == evict.call.bin
           t == evict.read
<1>1. /\ Types /\ Cache /\ db \in Database /\ file \in File /\ Evicting
      /\ evict.call.pc = "write" /\ Unpinned(t)
      /\ UNCHANGED <<file, free, reader, radius, userPins, past, calls, faults>>
  BY DEF Inv, Types, UnpinWrite
<1>2. t \in Updates /\ t.reserve <= 0 /\ bin < evict.call.to
  BY <1>1 DEF Evicting
<1>3. ASSUME "race" \notin past PROVE \E b : UnpinsBin(t, db, b)
  <2>1. t = UnpinBatch(db, file, bin)
    BY <1>1, <1>3 DEF Cache
  <2>2. UnpinsBin(UnpinBatch(db, file, bin), db, bin)
    BY <1>1, UnpinBatchFacts
  <2> QED BY <2>1, <2>2
<1> HIDE DEF t
<1> QED BY <1>1, <1>2, <1>3, UnpinnedKeeps

-------------------------------------------------------------------------------
(* Garbage collection: what is collected when it commits.                        *)
Items == {gc.candidates[i] : i \in Collected}
Taken == {e.chunk : e \in Items}
Left == {i \in DOMAIN db.gc : db.gc[i] \notin Items}

(* The places of what is collected are numbered, up to how far the size of the   *)
(* cache is above the target.                                                    *)
LEMMA CollectedFacts ==
    ASSUME Types
    PROVE  /\ IsFiniteSet(Collected) /\ Cardinality(Collected) \in Nat
           /\ Cardinality(Collected) <= db.gcSize /\ db.gcSize \in Nat
           /\ Collected \subseteq DOMAIN gc.candidates /\ Items \subseteq Entry
           /\ \A i \in Collected : gc.candidates[i].chunk \notin gc.dirty
<1> DEFINE s == gc.candidates
           n == Len(s)
           m == db.gcSize
           rank(i) == Cardinality({k \in Clean : k <= i})
           f == [i \in Collected |-> rank(i)]
<1>1. s \in Seq(Entry) /\ n \in Nat /\ DOMAIN s = 1 .. n /\ m \in Nat /\ gcTarget \in Nat
  BY LenProperties, BoundAssumption DEF Types, Database
<1>2. Clean \in SUBSET (1 .. n)
  BY <1>1 DEF Clean
<1>3. /\ IsFiniteSet(Clean) /\ Cardinality(Clean) \in Nat
      /\ \A i \in Clean : rank(i) \in 1 .. Cardinality(Clean)
      /\ \A i, l \in Clean : rank(i) = rank(l) => i = l
  <2> HIDE DEF n
  <2> QED BY <1>1, <1>2, Numbering
<1>4. Collected = {i \in Clean : rank(i) + gcTarget <= m}
  BY DEF Collected
<1> HIDE DEF rank, m
<1>5. f \in Injection(Collected, 1 .. m)
  <2>1. \A i \in Collected : rank(i) \in 1 .. m
    <3> SUFFICES ASSUME NEW i \in Collected PROVE rank(i) \in 1 .. m
      OBVIOUS
    <3> DEFINE r == rank(i)
    <3>1. r \in 1 .. Cardinality(Clean) /\ r + gcTarget <= m
      BY <1>3, <1>4
    <3> HIDE DEF r
    <3>2. r \in 1 .. m
      BY <1>1, <1>3, <3>1
    <3> QED BY <3>2 DEF r
  <2>2. f \in [Collected -> 1 .. m]
    BY <2>1
  <2>3. IsInjective(f)
    BY <1>3, <1>4 DEF IsInjective
  <2> QED BY <2>2, <2>3 DEF Injection
<1>6. IsFiniteSet(1 .. m) /\ Cardinality(1 .. m) = m
  BY <1>1, UpTo
<1>7. IsFiniteSet(Collected) /\ Cardinality(Collected) <= m
  <2>1. IsFiniteSet(Collected) /\ Cardinality(Collected) <= Cardinality(1 .. m)
    BY <1>5, <1>6, FS_Injection
  <2> QED BY <1>6, <2>1
<1>8. Cardinality(Collected) \in Nat
  BY <1>7, FS_CardinalityType
<1>9. Collected \subseteq DOMAIN s /\ \A i \in Collected : s[i].chunk \notin gc.dirty
  BY <1>4 DEF Clean
<1>10. Items \subseteq Entry
  <2> HIDE DEF s
  <2>1. \A i \in DOMAIN s : s[i] \in Entry
    BY <1>1, ElementOfSeq
  <2> QED BY <1>9, <2>1 DEF Items, s
<1> QED BY <1>1, <1>7, <1>8, <1>9, <1>10 DEF m

LEMMA Parts ==
    ASSUME NEW n \in Nat, NEW S \in SUBSET (1 .. n), NEW T \in SUBSET (1 .. n), S \cap T = {}
    PROVE  /\ IsFiniteSet(S) /\ Cardinality(S) \in Nat /\ IsFiniteSet(T) /\ Cardinality(T) \in Nat
           /\ Cardinality(S) + Cardinality(T) <= n
<1>1. IsFiniteSet(1 .. n) /\ Cardinality(1 .. n) = n
  BY UpTo
<1>2. /\ IsFiniteSet(S) /\ Cardinality(S) \in Nat /\ IsFiniteSet(T) /\ Cardinality(T) \in Nat
  BY <1>1, FS_Subset, FS_CardinalityType
<1>3. Cardinality(S \cup T) = Cardinality(S) + Cardinality(T) - Cardinality(S \cap T)
  BY <1>2, FS_Union
<1>4. Cardinality(S \cap T) = 0
  BY FS_EmptySet
<1>5. Cardinality(S \cup T) <= n
  <2>1. S \cup T \in SUBSET (1 .. n)
    OBVIOUS
  <2>2. Cardinality(S \cup T) <= Cardinality(1 .. n)
    BY <1>1, <2>1, FS_Subset
  <2> QED BY <1>1, <2>2
<1> QED BY <1>2, <1>3, <1>4, <1>5

(* Unless an update raced: all that is collected is in the gc index, if it is    *)
(* stored, and the index shrinks by as much as the size does.                    *)
LEMMA CollectedAre ==
    ASSUME Types, Candidates, Cached(db), gc.pc = "collect", \A c \in Taken : Stored(db, c)
    PROVE  /\ Items \subseteq ToSet(db.gc)
           /\ Entries(db.gc, Left) \in Seq(Entry) /\ Single(Entries(db.gc, Left))
           /\ \A e : e \in ToSet(Entries(db.gc, Left)) <=> e \in ToSet(db.gc) /\ e \notin Items
           /\ Len(Entries(db.gc, Left)) + Cardinality(Collected) <= Len(db.gc)
<1> DEFINE g == db.gc
           s == gc.candidates
           n == Len(g)
           P == {j \in DOMAIN g : g[j] \in Items}
           u == Entries(g, Left)
<1>1. /\ g \in Seq(Entry) /\ s \in Seq(Entry) /\ n \in Nat /\ DOMAIN g = 1 .. n
  BY LenProperties DEF Types, Database
<1>2. /\ Collected \subseteq DOMAIN s /\ \A i \in Collected : s[i].chunk \notin gc.dirty
      /\ Cardinality(Collected) \in Nat
  BY CollectedFacts
<1>3. \A i \in Collected : s[i] \in Items /\ s[i] \in ToSet(s) /\ s[i].chunk \in Taken
  BY <1>1, <1>2, ToSetFacts DEF Items, Taken
<1>4. \A i \in Collected : s[i] \in ToSet(g)
  BY <1>2, <1>3 DEF Candidates
<1>5. Items \subseteq ToSet(g)
  BY <1>4 DEF Items
<1>6. Single(s) /\ Single(g)
  BY DEF Candidates, Cached, Proper
<1> HIDE DEF g, s, n
<1>7. \A i \in Collected : \E j \in P : g[j] = s[i]
  <2> SUFFICES ASSUME NEW i \in Collected PROVE \E j \in P : g[j] = s[i]
    OBVIOUS
  <2>1. PICK j \in DOMAIN g : g[j] = s[i]
    BY <1>1, <1>4, ToSetFacts
  <2> QED BY <1>3, <2>1
<1>8. Left \in SUBSET DOMAIN g /\ Left = DOMAIN g \ P /\ P \in SUBSET DOMAIN g
  BY DEF Left, g
<1> HIDE DEF P
<1>9. /\ IsFiniteSet(P) /\ Cardinality(P) \in Nat /\ Cardinality(Left) \in Nat
      /\ Cardinality(Left) + Cardinality(P) <= n
  <2>1. Left \in SUBSET (1 .. n) /\ P \in SUBSET (1 .. n) /\ Left \cap P = {}
    BY <1>1, <1>8
  <2> QED BY <1>1, <2>1, Parts
<1>10. Cardinality(Collected) <= Cardinality(P)
  <2> DEFINE f == [i \in Collected |-> CHOOSE j \in P : g[j] = s[i]]
  <2>1. \A i \in Collected : f[i] \in P /\ g[f[i]] = s[i]
    BY <1>7
  <2>2. f \in [Collected -> P]
    BY <2>1
  <2> HIDE DEF f
  <2>3. \A i, j \in Collected : f[i] = f[j] => i = j
    BY <1>2, <1>6, <2>1 DEF Single
  <2>4. f \in Injection(Collected, P)
    BY <2>2, <2>3 DEF Injection, IsInjective
  <2> QED BY <1>9, <2>4, FS_Injection
<1>11. /\ u \in Seq(Entry) /\ Len(u) = Cardinality(Left)
       /\ \A j \in DOMAIN u : \E i \in Left : u[j] = g[i]
       /\ \A i \in Left : \E j \in DOMAIN u : u[j] = g[i]
       /\ \A j, l \in DOMAIN u : \E i, k \in Left : u[j] = g[i] /\ u[l] = g[k] /\ (i = k => j = l)
  <2> HIDE DEF u
  <2>1. Picks(g, Left, Entries(g, Left))
    BY <1>1, <1>8, EntriesFacts
  <2> QED BY <2>1 DEF u, Picks
<1> HIDE DEF u
<1>16. \A e : e \in ToSet(u) <=> \E j \in DOMAIN u : u[j] = e
  <2>1. u \in Seq(Entry)
    BY <1>11
  <2> QED BY <2>1, ToSetFacts
<1>12. \A i \in DOMAIN g : i \in Left <=> g[i] \notin Items
  BY DEF Left, g
<1>13. Single(u)
  <2> SUFFICES ASSUME NEW j \in DOMAIN u, NEW l \in DOMAIN u, u[j].chunk = u[l].chunk
               PROVE  j = l
    BY DEF Single
  <2>1. PICK i \in Left, k \in Left : u[j] = g[i] /\ u[l] = g[k] /\ (i = k => j = l)
    BY <1>11
  <2>2. i = k
    BY <1>6, <1>8, <2>1 DEF Single
  <2> QED BY <2>1, <2>2
<1>14. ASSUME NEW e PROVE e \in ToSet(u) <=> e \in ToSet(g) /\ e \notin Items
  <2>1. ASSUME e \in ToSet(u) PROVE e \in ToSet(g) /\ e \notin Items
    <3>1. PICK j \in DOMAIN u : u[j] = e
      BY <1>16, <2>1
    <3>2. PICK i \in Left : u[j] = g[i]
      BY <1>11
    <3>3. i \in DOMAIN g /\ g[i] = e
      BY <1>8, <3>1, <3>2
    <3> QED BY <1>1, <1>12, <3>2, <3>3, ToSetFacts
  <2>2. ASSUME e \in ToSet(g), e \notin Items PROVE e \in ToSet(u)
    <3>1. PICK i \in DOMAIN g : g[i] = e
      BY <1>1, <2>2, ToSetFacts
    <3>2. i \in Left
      BY <1>12, <2>2, <3>1
    <3>3. PICK j \in DOMAIN u : u[j] = g[i]
      BY <1>11, <3>2
    <3> QED BY <1>16, <3>1, <3>3
  <2> QED BY <2>1, <2>2
<1>15. Len(u) + Cardinality(Collected) <= n
  BY <1>1, <1>2, <1>9, <1>10, <1>11
<1> QED BY <1>5, <1>11, <1>13, <1>14, <1>15 DEF g, n, u

(* The database and the free slots after a commit that does not fail.            *)
Committed ==
    /\ db'.loc = [c \in Chunk |-> IF c \in Taken THEN None ELSE db.loc[c]]
    /\ db'.access = db.access \ Taken /\ db'.push = db.push \ Taken /\ db'.pin = db.pin
    /\ db'.gc = Entries(db.gc, Left) /\ db'.gcSize = db.gcSize - Cardinality(Collected)
    /\ free' = free \cup {db.loc[c] : c \in Taken}

LEMMA CommitFacts ==
    ASSUME Inv, CollectCommit
    PROVE  /\ db' \in Database /\ Taken \subseteq Chunk
           /\ (\E c \in Taken : ~Stored(db, c)) => db' = db /\ free' = free
           /\ (\A c \in Taken : Stored(db, c)) => Committed
<1> DEFINE failed == \E c \in Taken : ~Stored(db, c)
           loc == [c \in Chunk |-> IF c \in Taken THEN None ELSE db.loc[c]]
           index == [x \in Index |-> IF \E e \in Items : e.index = x THEN None ELSE db.index[x]]
           u == Entries(db.gc, Left)
           m == db.gcSize - Cardinality(Collected)
           d == [db EXCEPT !.loc = loc, !.access = db.access \ Taken, !.push = db.push \ Taken,
                           !.index = index, !.gc = u, !.gcSize = m]
<1>1. db \in Database /\ Types
  BY DEF Inv, Types
<1>2. /\ db' = IF failed THEN db ELSE d
      /\ free' = IF failed THEN free ELSE free \cup {db.loc[c] : c \in Taken}
  BY DEF CollectCommit, Items, Taken, Left
<1>3. Taken \subseteq Chunk
  BY <1>1, CollectedFacts DEF Taken, Entry
<1>4. loc \in [Chunk -> Slot \cup {None}] /\ index \in [Index -> Chunk \cup {None}]
  BY <1>1 DEF Database
<1>5. u \in Seq(Entry)
  <2>1. db.gc \in Seq(Entry) /\ Left \in SUBSET DOMAIN db.gc
    BY <1>1 DEF Database, Left
  <2>2. Picks(db.gc, Left, u)
    BY <2>1, EntriesFacts
  <2> HIDE DEF u
  <2> QED BY <2>2 DEF Picks
<1>6. m \in Nat
  <2> DEFINE n == Cardinality(Collected)
  <2>1. n \in Nat /\ n <= db.gcSize /\ db.gcSize \in Nat
    BY <1>1, CollectedFacts
  <2> HIDE DEF n
  <2>2. db.gcSize - n \in Nat
    BY <2>1
  <2> QED BY <2>2 DEF n
<1>7. db.access \ Taken \in SUBSET Chunk /\ db.push \ Taken \in SUBSET Chunk
  BY <1>1 DEF Database
<1> HIDE DEF loc, index, u, m
<1>8. /\ d \in Database /\ d.loc = loc /\ d.access = db.access \ Taken
      /\ d.push = db.push \ Taken /\ d.pin = db.pin /\ d.gc = u /\ d.gcSize = m
  BY <1>1, <1>4, <1>5, <1>6, <1>7 DEF Database
<1> HIDE DEF d
<1>9. ASSUME failed PROVE db' = db /\ free' = free
  BY <1>2, <1>9
<1>10. ASSUME ~failed PROVE Committed
  <2>1. db' = d /\ free' = free \cup {db.loc[c] : c \in Taken}
    BY <1>2, <1>10
  <2> QED BY <1>8, <2>1 DEF Committed, loc, u, m
<1>11. db' \in Database
  BY <1>1, <1>2, <1>8
<1> QED BY <1>3, <1>9, <1>10, <1>11

(* What is collected was in the gc index, so that it had no pin.                 *)
LEMMA CommitCache ==
    ASSUME Inv, CollectCommit, "race" \notin past, \A c \in Taken : Stored(db, c)
    PROVE  /\ \A c \in Taken : db.pin[c] = 0
           /\ Cached(db') /\ db'.gcSize >= Len(db'.gc)
<1> DEFINE u == Entries(db.gc, Left)
           n == Cardinality(Collected)
<1>1. /\ Types /\ db \in Database /\ Cached(db) /\ db.gcSize >= Len(db.gc) /\ Candidates
      /\ gc.pc = "collect"
  BY DEF Inv, Types, Cache, CollectCommit
<1>2. Committed /\ db' \in Database /\ Taken \subseteq Chunk
  BY CommitFacts
<1>3. /\ Items \subseteq ToSet(db.gc) /\ u \in Seq(Entry) /\ Single(u)
      /\ \A e : e \in ToSet(u) <=> e \in ToSet(db.gc) /\ e \notin Items
      /\ Len(u) + n <= Len(db.gc)
  BY <1>1, CollectedAre
<1>4. n \in Nat /\ db.gcSize \in Nat
  BY <1>1, CollectedFacts
<1>5. /\ \A e \in Items : e.chunk \in Taken
      /\ \A c \in Taken : \E e \in Items : e.chunk = c
  BY DEF Taken
<1>6. db'.gc = u /\ db'.gcSize = db.gcSize - n /\ db'.pin = db.pin
  BY <1>2 DEF Committed
<1>10. db.gc \in Seq(Entry) /\ Proper(db.gc) /\ \A c \in Chunk : CachedAt(db, c)
  BY <1>1 DEF Cached, Database
<1> HIDE DEF u, n
<1>7. db'.gcSize >= Len(db'.gc)
  <2>1. Len(u) \in Nat /\ Len(db.gc) \in Nat
    BY <1>3, <1>10, LenProperties
  <2> QED BY <1>1, <1>3, <1>4, <1>6, <2>1
<1>8. \A c \in Taken : Has(db.gc, c) /\ db.pin[c] = 0
  <2> SUFFICES ASSUME NEW c \in Taken PROVE Has(db.gc, c) /\ db.pin[c] = 0
    OBVIOUS
  <2>1. Has(db.gc, c)
    BY <1>3, <1>5 DEF Has
  <2> QED BY <1>2, <1>10, <2>1 DEF CachedAt
<1>9. Proper(u)
  BY <1>3, <1>10 DEF Proper
<1>11. \A e, f \in ToSet(db.gc) : e.chunk = f.chunk => e = f
  <2> SUFFICES ASSUME NEW e \in ToSet(db.gc), NEW f \in ToSet(db.gc), e.chunk = f.chunk
               PROVE  e = f
    OBVIOUS
  <2>1. PICK i \in DOMAIN db.gc : db.gc[i] = e
    BY <1>10, ToSetFacts
  <2>2. PICK j \in DOMAIN db.gc : db.gc[j] = f
    BY <1>10, ToSetFacts
  <2> QED BY <1>10, <2>1, <2>2 DEF Proper, Single
<1>12. \A c \in Taken : ~ Has(u, c)
  <2> SUFFICES ASSUME NEW c \in Taken, NEW e \in ToSet(u), e.chunk = c PROVE FALSE
    BY DEF Has
  <2>1. PICK f \in Items : f.chunk = c
    BY <1>5
  <2>2. e \in ToSet(db.gc) /\ f \in ToSet(db.gc) /\ e \notin Items
    BY <1>3
  <2> QED BY <1>11, <2>1, <2>2
<1>13. \A c \in Chunk \ Taken : Has(u, c) <=> Has(db.gc, c)
  BY <1>3, <1>5 DEF Has
<1>14. \A c \in Chunk : CachedAt(db', c)
  <2> SUFFICES ASSUME NEW c \in Chunk PROVE CachedAt(db', c)
    OBVIOUS
  <2>1. CachedAt(db, c)
    BY <1>10
  <2>2. CASE c \in Taken
    <3>1. /\ ~Stored(db', c) /\ db'.pin[c] = 0 /\ c \notin db'.access /\ c \notin db'.push
          /\ ~Has(db'.gc, c)
      BY <1>2, <1>6, <1>8, <1>12, <2>2 DEF Committed, Stored
    <3> QED BY <3>1 DEF CachedAt
  <2>3. CASE c \notin Taken
    <3>1. /\ Stored(db', c) <=> Stored(db, c)
          /\ c \in db'.access <=> c \in db.access
          /\ c \in db'.push <=> c \in db.push
      BY <1>2, <2>3 DEF Committed, Stored
    <3>2. Has(db'.gc, c) <=> Has(db.gc, c)
      BY <1>6, <1>13, <2>3
    <3> QED BY <1>6, <2>1, <3>1, <3>2 DEF CachedAt
  <2> QED BY <2>2, <2>3
<1> QED BY <1>6, <1>7, <1>8, <1>9, <1>14 DEF Cached

LEMMA CollectCommitKeeps ==
    ASSUME Inv, CollectCommit
    PROVE  Inv'
<1> DEFINE failed == \E c \in Taken : ~Stored(db, c)
           trigger == gc.trigger \/ failed \/ Collected = Clean
<1>1. /\ Types /\ Placed(db) /\ Reading /\ Cache /\ db \in Database /\ Evicting
      /\ gc' = [Resting EXCEPT !.trigger = trigger]
      /\ reader' = [reader EXCEPT !.removed = reader.removed \/ reader.slot \in free']
      /\ past' = IF evict.call.pc = "write" THEN past \cup {"race"} ELSE past
      /\ UNCHANGED <<file, evict, radius, userPins, calls, faults>>
  BY DEF Inv, Types, CollectCommit, Items, Taken
<1>2. /\ db' \in Database /\ Taken \subseteq Chunk
      /\ failed => db' = db /\ free' = free
      /\ ~failed => Committed
  BY CommitFacts
<1>3. trigger \in BOOLEAN
  BY <1>1 DEF Types
<1> HIDE DEF trigger
<1>4. gc'.pc = "idle" /\ gc' \in [ pc : {"idle", "collect"}, trigger : BOOLEAN,
                                   candidates : Seq(Entry), dirty : SUBSET Chunk ]
  <2>1. gc' = [pc |-> "idle", trigger |-> trigger, candidates |-> <<>>, dirty |-> {}]
    BY <1>1 DEF Resting
  <2>2. <<>> \in Seq(Entry)
    OBVIOUS
  <2> QED BY <1>3, <2>1, <2>2
<1>5. free' \in SUBSET Slot
  <2>1. CASE failed
    BY <1>1, <1>2, <2>1 DEF Types
  <2>2. CASE ~failed
    <3>1. \A c \in Taken : db.loc[c] \in Slot
      BY <1>1, <1>2, <2>2 DEF Database, Stored
    <3>2. free' = free \cup {db.loc[c] : c \in Taken}
      BY <1>2, <2>2 DEF Committed
    <3>3. free \in SUBSET Slot
      BY <1>1 DEF Types
    <3> QED BY <3>1, <3>2, <3>3
  <2> QED BY <2>1, <2>2
<1>6. reader' \in [ pc : {"idle", "located", "read"}, chunk : Chunk \cup {None},
                    slot : Slot \cup {None}, data : Chunk \cup {None}, removed : BOOLEAN ]
      /\ reader'.pc = reader.pc /\ reader'.chunk = reader.chunk /\ reader'.slot = reader.slot
      /\ reader'.data = reader.data
      /\ reader'.removed = (reader.removed \/ reader.slot \in free')
  <2> DEFINE removed == reader.removed \/ reader.slot \in free'
  <2>1. removed \in BOOLEAN
    BY <1>1 DEF Types
  <2> HIDE DEF removed
  <2>2. reader' = [reader EXCEPT !.removed = removed]
    BY <1>1 DEF removed
  <2>3. reader' \in [ pc : {"idle", "located", "read"}, chunk : Chunk \cup {None},
                      slot : Slot \cup {None}, data : Chunk \cup {None}, removed : BOOLEAN ]
        /\ reader'.pc = reader.pc /\ reader'.chunk = reader.chunk
        /\ reader'.slot = reader.slot /\ reader'.data = reader.data
        /\ reader'.removed = removed
    BY <1>1, <2>1, <2>2 DEF Types
  <2> QED BY <2>3 DEF removed
<1>7. Types'
  <2>1. past' \in SUBSET {"race", "restart"}
    BY <1>1 DEF Types
  <2>2. (evict = [call |-> evict.call, read |-> evict.read] /\ Evicting)'
    BY <1>1, CallSame
  <2>3. reader'.pc # "idle" => reader'.chunk \in Chunk /\ reader'.slot \in Slot
    BY <1>1, <1>6 DEF Types
  <2>4. UNCHANGED <<file, radius, userPins>> /\ file \in File /\ radius \in 0 .. MaxPO + 1
        /\ userPins \in SUBSET Chunk
    BY <1>1 DEF Types
  <2> QED BY <1>2, <1>4, <1>5, <1>6, <2>1, <2>2, <2>3, <2>4 DEF Types
<1>8. Placed(db)'
  <2>1. CASE failed
    BY <1>1, <1>2, <2>1 DEF Placed, Stored
  <2>2. CASE ~failed
    <3> SUFFICES ASSUME NEW c \in Chunk, Stored(db', c)
                 PROVE  file[db'.loc[c]] = c /\ db'.loc[c] \notin free'
      BY <1>1 DEF Placed
    <3>1. c \notin Taken /\ db'.loc[c] = db.loc[c] /\ Stored(db, c)
      BY <1>2, <2>2 DEF Committed, Stored
    <3>2. file[db.loc[c]] = c /\ db.loc[c] \notin free
      BY <1>1, <3>1 DEF Placed
    <3>3. \A d \in Taken : db.loc[d] # db.loc[c]
      BY <1>1, <1>2, <2>2, <3>1, <3>2 DEF Placed
    <3> QED BY <1>2, <2>2, <3>1, <3>2, <3>3 DEF Committed
  <2> QED BY <2>1, <2>2
<1>9. Reading'
  <2>1. reader'.pc = "located" /\ ~reader'.removed =>
           reader'.slot \notin free' /\ file'[reader'.slot] = reader'.chunk
    BY <1>1, <1>6 DEF Reading
  <2>2. reader'.pc = "read" /\ ~reader'.removed => reader'.data = reader'.chunk
    BY <1>1, <1>6 DEF Reading
  <2> QED BY <2>1, <2>2 DEF Reading
<1>10. Cache'
  <2> SUFFICES ASSUME "race" \notin past'
               PROVE  Cached(db') /\ db'.gcSize >= Len(db'.gc)
    BY <1>1, <1>4 DEF Cache, Candidates
  <2>1. "race" \notin past
    BY <1>1
  <2>2. Cached(db) /\ db.gcSize >= Len(db.gc)
    BY <1>1, <2>1 DEF Cache
  <2>3. CASE failed
    BY <1>2, <2>2, <2>3
  <2>4. CASE ~failed
    BY <2>1, <2>4, CommitCache
  <2> QED BY <2>3, <2>4
<1> QED BY <1>7, <1>8, <1>9, <1>10 DEF Inv

-------------------------------------------------------------------------------
(* The invariant holds at the start and after every step.                        *)
LEMMA InitInv == Init => Inv
<1> SUFFICES ASSUME Init PROVE Inv
  OBVIOUS
<1>1. <<>> \in Seq(Entry) /\ DOMAIN <<>> = {} /\ Len(<<>>) = 0
  OBVIOUS
<1>2. 0 \in 0 .. MaxPO /\ 0 \in 0 .. MaxPO + 1
  BY BoundAssumption
<1>3. db = [ loc |-> [c \in Chunk |-> None], access |-> {}, push |-> {}, gc |-> <<>>,
             pin |-> [c \in Chunk |-> 0], index |-> [i \in Index |-> None],
             radius |-> [known |-> FALSE, po |-> 0], gcSize |-> 0, reserveSize |-> 0 ]
  BY DEF Init, NewDB
<1>4. db \in Database
  BY <1>1, <1>2, <1>3 DEF Database
<1>5. file \in File /\ free \in SUBSET Slot
  BY DEF Init, File
<1>6. gc.pc = "idle" /\ gc \in [ pc : {"idle", "collect"}, trigger : BOOLEAN,
                                 candidates : Seq(Entry), dirty : SUBSET Chunk ]
  BY <1>1 DEF Init, Resting
<1>7. NoCall \in CallType /\ NoCall.pc = "idle" /\ ~NoCall.locked
  <2>1. NoCall = [ pc |-> "idle", trigger |-> FALSE, locked |-> FALSE, bin |-> 0, to |-> 0,
                   start |-> 0, evicted |-> 0 ]
    BY DEF NoCall
  <2> QED BY <1>2, <2>1 DEF CallType
<1>8. evict.call = NoCall /\ evict = [call |-> evict.call, read |-> evict.read]
  BY DEF Init
<1>9. Evicting
  BY <1>7, <1>8 DEF Evicting, CallType
<1>10. reader.pc = "idle" /\ reader \in [ pc : {"idle", "located", "read"},
          chunk : Chunk \cup {None}, slot : Slot \cup {None}, data : Chunk \cup {None},
          removed : BOOLEAN ]
  BY DEF Init, NoReader
<1>11. Types
  BY <1>2, <1>4, <1>5, <1>6, <1>8, <1>9, <1>10 DEF Init, Types
<1>12. \A c \in Chunk : ~Stored(db, c)
  BY <1>3 DEF Stored
<1>13. Placed(db) /\ Reading
  BY <1>10, <1>12 DEF Placed, Reading
<1>14. ToSet(db.gc) = {} /\ DOMAIN db.gc = {} /\ Len(db.gc) = 0 /\ db.gcSize = 0
  BY <1>1, <1>3 DEF ToSet
<1>15. Cached(db)
  BY <1>3, <1>12, <1>14 DEF Cached, CachedAt, Proper, Single, Has
<1>16. Cache
  BY <1>6, <1>7, <1>8, <1>14, <1>15 DEF Cache, Candidates
<1> QED BY <1>11, <1>13, <1>16 DEF Inv

LEMMA NothingKeeps ==
    ASSUME Inv, UNCHANGED vars
    PROVE  Inv'
<1>1. /\ Types /\ Reading /\ Cache
      /\ UNCHANGED <<db, file, free, gc, evict, reader, radius, userPins, past, calls, faults>>
  BY DEF Inv, vars
<1>2. Types'
  BY <1>1, CallSame DEF Types
<1>3. Reading'
  BY <1>1 DEF Reading
<1>4. Candidates => Candidates'
  BY <1>1 DEF Candidates, Stored
<1> QED BY <1>1, <1>2, <1>3, <1>4, StoreSame DEF Cache

LEMMA InvNext == Inv /\ [Next]_vars => Inv'
<1> SUFFICES ASSUME Inv, [Next]_vars PROVE Inv'
  OBVIOUS
<1>1. CASE Puts
  <2>1. ASSUME NEW m \in PutModes, NEW c \in Chunk, Put(m, c) PROVE Inv'
    BY <2>1, PutKeeps
  <2>2. ASSUME NEW c \in Chunk, NEW d \in Chunk, c # d, PutPage(c, d) PROVE Inv'
    BY <2>2, PutPageKeeps
  <2> QED BY <1>1, <2>1, <2>2 DEF Puts
<1>2. ASSUME NEW c \in Chunk,
             SetSync(c) \/ RemoveChunk(c) \/ Pin(c) \/ Unpin(c) \/ GetLocation(c)
      PROVE  Inv'
  BY <1>2, SetSyncKeeps, RemoveKeeps, PinKeeps, UnpinKeeps, GetLocationKeeps
<1>3. CASE CollectStart \/ CollectCommit
  BY <1>3, CollectStartKeeps, CollectCommitKeeps
<1>4. CASE EvictReserve \/ Expire \/ UnpinRead \/ UnpinWrite \/ BinDone \/ UnreserveDone
  BY <1>4, EvictReserveKeeps, ExpireKeeps, UnpinReadKeeps, UnpinWriteKeeps, BinDoneKeeps,
     UnreserveDoneKeeps
<1>5. CASE GetData \/ UpdateGC \/ Restart
  BY <1>5, GetDataKeeps, UpdateGCKeeps, RestartKeeps
<1>6. CASE UNCHANGED vars
  BY <1>6, NothingKeeps
<1> QED BY <1>1, <1>2, <1>3, <1>4, <1>5, <1>6 DEF Next

-------------------------------------------------------------------------------
(* Inv is an invariant: the store, the shard, the workers and a Get agree.       *)
THEOREM Invariant == Spec => []Inv
BY InitInv, InvNext, PTL DEF Spec

(* Every index and variable holds values of its type.                            *)
THEOREM TypeCorrect == Spec => []TypeOK
<1>1. Inv => TypeOK
  <2> SUFFICES ASSUME Inv PROVE TypeOK
    OBVIOUS
  <2>1. Types /\ Evicting
    BY DEF Inv, Types
  <2>2. ToSet(db.gc) \subseteq Entry
    BY <2>1, ToSetFacts DEF Types, Database
  <2>3. /\ db.loc \in [Chunk -> Slot \cup {None}] /\ db.access \subseteq Chunk
        /\ db.push \subseteq Chunk /\ db.pin \in [Chunk -> Nat]
        /\ db.index \in [Index -> Chunk \cup {None}] /\ db.radius.po \in 0 .. MaxPO
        /\ {db.gcSize, db.reserveSize} \subseteq Nat
    BY <2>1 DEF Types, Database
  <2>4. /\ file \in [Slot -> Chunk \cup {None}] /\ free \subseteq Slot
        /\ gc.pc \in {"idle", "collect"} /\ gc.dirty \subseteq Chunk
    BY <2>1 DEF Types, File
  <2>5. /\ evict.call.pc \in {"idle", "unpin", "write", "radius"}
        /\ evict.call.bin \in 0 .. MaxPO + 1
    BY <2>1 DEF Evicting
  <2>6. /\ reader.pc \in {"idle", "located", "read"} /\ radius \in 0 .. MaxPO + 1
        /\ userPins \subseteq Chunk /\ past \subseteq {"race", "restart"}
    BY <2>1 DEF Types
  <2> QED BY <2>2, <2>3, <2>4, <2>5, <2>6 DEF TypeOK, Entry
<1> QED BY <1>1, Invariant, PTL

(* A chunk that Put, garbage collection, eviction and recovery leave in the data *)
(* index has its data in a slot of its own, which is not free.                   *)
THEOREM DataStaysThere == Spec => []DataIsThere
<1>1. Inv => DataIsThere
  <2> SUFFICES ASSUME Inv, NEW c \in Chunk, Stored(db, c)
               PROVE  /\ file[db.loc[c]] = c /\ db.loc[c] \notin free
                      /\ \A d \in Chunk \ {c} : db.loc[d] # db.loc[c]
    BY DEF DataIsThere
  <2>1. Placed(db)
    BY DEF Inv
  <2>2. file[db.loc[c]] = c /\ db.loc[c] \notin free
    BY <2>1 DEF Placed
  <2>3. ASSUME NEW d \in Chunk, d # c, db.loc[d] = db.loc[c] PROVE FALSE
    <3>1. Stored(db, d)
      BY <2>3 DEF Stored
    <3> QED BY <2>1, <2>2, <2>3, <3>1 DEF Placed
  <2> QED BY <2>2, <2>3
<1> QED BY <1>1, Invariant, PTL

(* Unless an update raced another: collectGarbage can take nothing that is       *)
(* pinned, or not stored, or not found under its access time.                    *)
THEOREM CacheStaysUnpinned == Spec => []CacheIsUnpinned
<1>1. Inv => CacheIsUnpinned
  <2> SUFFICES ASSUME Inv, "race" \notin past, NEW i \in DOMAIN db.gc
               PROVE  /\ Stored(db, db.gc[i].chunk) /\ db.pin[db.gc[i].chunk] = 0
                      /\ db.gc[i].keyed
    BY DEF CacheIsUnpinned
  <2> DEFINE e == db.gc[i]
             c == e.chunk
  <2>1. Cached(db) /\ db.gc \in Seq(Entry)
    BY DEF Inv, Cache, Types, Database
  <2>2. e \in ToSet(db.gc) /\ e \in Entry
    BY <2>1, ToSetFacts
  <2> HIDE DEF e
  <2>3. c \in Chunk
    BY <2>2 DEF Entry
  <2>4. Has(db.gc, c)
    BY <2>2 DEF Has
  <2>5. CachedAt(db, c) /\ e.keyed
    BY <2>1, <2>2, <2>3 DEF Cached, Proper
  <2>6. Stored(db, c) /\ db.pin[c] = 0 /\ e.keyed
    BY <2>4, <2>5 DEF CachedAt
  <2> QED BY <2>6 DEF e
<1> QED BY <1>1, Invariant, PTL

(* Unless an update raced another: gcSize is never less than what is cached.     *)
THEOREM GCSizeAlwaysCovers == Spec => []GCSizeCoversCache
<1>1. Inv => GCSizeCoversCache
  BY DEF Inv, Cache, GCSizeCoversCache
<1> QED BY <1>1, Invariant, PTL

(* Get reads location and data without the lock, and returns the chunk's data if *)
(* the chunk is not removed meanwhile.                                           *)
THEOREM GetAlwaysReturnsData == Spec => []GetReturnsData
<1>1. Inv => GetReturnsData
  BY DEF Inv, Reading, GetReturnsData
<1> QED BY <1>1, Invariant, PTL

(* Unless an update raced another: collectGarbage removes no chunk that is       *)
(* pinned when it commits, though it chose its candidates earlier.               *)
THEOREM PinnedIsNotCollected == Spec => CollectKeepsPinned
<1> DEFINE Step == CollectCommit /\ "race" \notin past =>
                      \A c \in Chunk : Stored(db, c) /\ db.pin[c] > 0 => Stored(db', c)
<1>1. Inv /\ [Next]_vars => [Step]_vars
  <2> SUFFICES ASSUME Inv, CollectCommit, "race" \notin past,
                      NEW c \in Chunk, Stored(db, c), db.pin[c] > 0
               PROVE  Stored(db', c)
    OBVIOUS
  <2>1. CASE \E d \in Taken : ~Stored(db, d)
    BY <2>1, CommitFacts
  <2>2. CASE \A d \in Taken : Stored(db, d)
    <3>1. Committed
      BY <2>2, CommitFacts
    <3>2. c \notin Taken
      BY <2>2, CommitCache
    <3> QED BY <3>1, <3>2 DEF Committed, Stored
  <2> QED BY <2>1, <2>2
<1> HIDE DEF Step
<1>2. [][Step]_vars => CollectKeepsPinned
  BY DEF CollectKeepsPinned, Step
<1> QED BY <1>1, <1>2, Invariant, PTL DEF Spec
===============================================================================
