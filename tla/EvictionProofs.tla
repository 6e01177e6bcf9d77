----------------------------- MODULE EvictionProofs ----------------------------
(***************************************************************************)
(* What the LRU manager knows and bounds, for any keys, calls, capacity,   *)
(* lengths and number of faults.                                           *)
(***************************************************************************)
EXTENDS Eviction, SequenceTheorems, FiniteSetTheorems, TLAPS

-----------------------------------------------------------------------------
(* The list *)

\* Recent adds k, and repeats nothing.
LEMMA RecentMeans ==
  ASSUME NEW l \in Seq(Keys), IsInjective(l), NEW k \in Keys
  PROVE  /\ Recent(l, k) \in Seq(Keys) /\ IsInjective(Recent(l, k))
         /\ Range(Recent(l, k)) = Range(l) \cup {k}
<1>1. Len(l) \in Nat /\ l \in [1..Len(l) -> Keys] /\ DOMAIN l = 1..Len(l)
  BY LenProperties
<1>2. CASE k \in Range(l)
  <2> DEFINE at == CHOOSE i \in DOMAIN l : l[i] = k
             r == [j \in DOMAIN l |-> IF j < at THEN l[j] ELSE IF j < Len(l) THEN l[j + 1] ELSE k]
  <2>1. at \in 1..Len(l) /\ l[at] = k
    BY <1>1, <1>2 DEF Range
  <2>2. Recent(l, k) = r
    BY <1>2 DEF Recent
  <2> HIDE DEF at
  <2>3. r \in [1..Len(l) -> Keys]
    BY <1>1
  <2>4. r \in Seq(Keys)
    BY <1>1, <2>3, IsASeq
  <2>5. DOMAIN r = 1..Len(l)
    BY <1>1
  <2>6. \A i, j \in 1..Len(l) : l[i] = l[j] => i = j
    BY <1>1 DEF IsInjective
  <2>7. IsInjective(r)
    <3> SUFFICES ASSUME NEW i \in 1..Len(l), NEW j \in 1..Len(l), i < j, r[i] = r[j]
                 PROVE  FALSE
      BY <1>1, <2>5 DEF IsInjective
    <3>1. CASE j < at
      BY <1>1, <2>1, <2>6, <3>1
    <3>2. CASE ~(j < at) /\ j < Len(l)
      BY <1>1, <2>1, <2>6, <3>2
    <3>3. CASE ~(j < at) /\ ~(j < Len(l))
      BY <1>1, <2>1, <2>6, <3>3
    <3> QED
      BY <3>1, <3>2, <3>3
  <2>8. ASSUME NEW x \in Range(l) PROVE x \in Range(r)
    <3>1. PICK i \in 1..Len(l) : l[i] = x
      BY <1>1, <2>8 DEF Range
    <3>2. CASE i < at
      BY <1>1, <2>5, <3>1, <3>2 DEF Range
    <3>3. CASE i = at
      <4>1. Len(l) \in 1..Len(l) /\ ~(Len(l) < at) /\ ~(Len(l) < Len(l))
        BY <1>1, <2>1
      <4>2. r[Len(l)] = k
        BY <1>1, <4>1
      <4> QED
        BY <2>1, <2>5, <3>1, <3>3, <4>1, <4>2 DEF Range
    <3>4. CASE i > at
      <4>1. i - 1 \in 1..Len(l) /\ ~(i - 1 < at) /\ i - 1 < Len(l) /\ (i - 1) + 1 = i
        BY <1>1, <2>1, <3>4
      <4>2. r[i - 1] = l[i]
        BY <1>1, <4>1
      <4> QED
        BY <2>5, <3>1, <4>1, <4>2 DEF Range
    <3> QED
      BY <1>1, <2>1, <3>2, <3>3, <3>4
  <2>9. ASSUME NEW j \in 1..Len(l) PROVE r[j] \in Range(l)
    <3>1. CASE j < at
      BY <1>1, <2>1, <3>1 DEF Range
    <3>2. CASE ~(j < at) /\ j < Len(l)
      BY <1>1, <2>1, <3>2 DEF Range
    <3>3. CASE ~(j < at) /\ ~(j < Len(l))
      BY <1>1, <1>2, <3>3
    <3> QED
      BY <3>1, <3>2, <3>3
  <2>10. Range(r) = Range(l)
    <3> HIDE DEF r
    <3> QED
      BY <2>5, <2>8, <2>9 DEF Range
  <2> QED
    BY <1>2, <2>2, <2>4, <2>7, <2>10
<1>3. CASE k \notin Range(l)
  <2> DEFINE r == Append(l, k)
  <2>1. /\ r \in Seq(Keys) /\ Len(r) = Len(l) + 1
        /\ \A i \in 1..Len(l) : r[i] = l[i]
        /\ r[Len(l) + 1] = k
    BY AppendProperties
  <2>2. Recent(l, k) = r
    BY <1>3 DEF Recent
  <2> HIDE DEF r
  <2>3. DOMAIN r = 1..(Len(l) + 1)
    BY <2>1, LenProperties
  <2>4. \A i \in 1..Len(l) : l[i] # k
    BY <1>1, <1>3 DEF Range
  <2>5. \A i, j \in 1..Len(l) : l[i] = l[j] => i = j
    BY <1>1 DEF IsInjective
  <2>6. IsInjective(r)
    BY <1>1, <2>1, <2>3, <2>4, <2>5 DEF IsInjective
  <2>7. \A x : x \in Range(r) <=> x \in Range(l) \/ x = k
    <3>1. \A x : x \in Range(r) <=> \E i \in 1..(Len(l) + 1) : r[i] = x
      BY <2>3 DEF Range
    <3>2. \A x : x \in Range(l) <=> \E i \in 1..Len(l) : l[i] = x
      BY <1>1 DEF Range
    <3> QED
      BY <1>1, <2>1, <3>1, <3>2
  <2> QED
    BY <2>1, <2>2, <2>6, <2>7
<1> QED
  BY <1>2, <1>3

\* What is left of a list repeats nothing either.
LEMMA RestMeans ==
  ASSUME NEW l \in Seq(Keys), IsInjective(l), NEW n \in 0..Len(l)
  PROVE  LET r == SubSeq(l, n + 1, Len(l))
         IN  r \in Seq(Keys) /\ IsInjective(r) /\ Range(r) \subseteq Range(l)
<1> DEFINE r == SubSeq(l, n + 1, Len(l))
<1>1. Len(l) \in Nat /\ l \in [1..Len(l) -> Keys] /\ DOMAIN l = 1..Len(l)
  BY LenProperties
<1>2. \A i \in (n + 1)..Len(l) : l[i] \in Keys
  BY <1>1
<1>3. /\ r \in Seq(Keys)
      /\ Len(r) = IF n + 1 <= Len(l) THEN Len(l) - (n + 1) + 1 ELSE 0
      /\ \A i \in 1..(Len(l) - (n + 1) + 1) : r[i] = l[n + 1 + i - 1]
  <2>1. n + 1 \in Int /\ Len(l) \in Int
    BY <1>1, SMTT(30)
  <2> QED
    BY <1>2, <2>1, SubSeqProperties
<1> HIDE DEF r
<1>4. DOMAIN r = 1..(Len(l) - n) /\ \A i \in 1..(Len(l) - n) : r[i] = l[n + i]
  <2>1. Len(l) - (n + 1) + 1 = Len(l) - n /\ \A i \in 1..(Len(l) - n) : n + 1 + i - 1 = n + i
    BY <1>1
  <2>2. Len(r) = Len(l) - n
    <3>1. CASE n = Len(l)
      BY <1>1, <1>3, <3>1
    <3>2. CASE n # Len(l)
      <4>0. Len(l) \in Nat
        BY <1>1
      <4>1. n \in Int /\ n + 1 <= Len(l)
        BY <3>2, <4>0
      <4> QED
        BY <1>1, <1>3, <4>1
    <3> QED
      BY <3>1, <3>2
  <2>3. DOMAIN r = 1..Len(r)
    BY <1>3, LenProperties
  <2> QED
    BY <1>1, <1>3, <2>1, <2>2, <2>3
<1>5. \A i \in 1..(Len(l) - n) : n + i \in 1..Len(l)
  BY <1>1
<1>6. IsInjective(r)
  <2>1. \A i, j \in 1..Len(l) : l[i] = l[j] => i = j
    BY <1>1 DEF IsInjective
  <2> QED
    BY <1>1, <1>4, <1>5, <2>1 DEF IsInjective
<1>7. Range(r) \subseteq Range(l)
  BY <1>1, <1>4, <1>5 DEF Range
<1> QED
  BY <1>3, <1>6, <1>7 DEF r

-----------------------------------------------------------------------------
(* The bytes *)

\* Fewer keys that weigh less have fewer bytes.
LEMMA TotalMonotone ==
  ASSUME NEW S \in SUBSET Keys, NEW T \in SUBSET Keys, S \subseteq T, NEW f, NEW g,
         \A k \in S : f[k] \in Int /\ g[k] \in Int /\ f[k] <= g[k]
  PROVE  Total(S, f) \in Nat /\ Total(T, g) \in Nat /\ Total(S, f) <= Total(T, g)
<1> DEFINE A == {b \in S \X (1..MaxSize) : b[2] <= f[b[1]]}
           B == {b \in T \X (1..MaxSize) : b[2] <= g[b[1]]}
<1>1. IsFiniteSet(T) /\ IsFiniteSet(1..MaxSize)
  <2>1. IsFiniteSet(T)
    BY FS_Subset, EvictionAssumption
  <2>2. 1 \in Int /\ MaxSize \in Int
    BY EvictionAssumption
  <2> QED
    BY <2>1, <2>2, FS_Interval
<1>2. IsFiniteSet(T \X (1..MaxSize))
  BY <1>1, FS_Product
<1>3. IsFiniteSet(B)
  BY <1>2, FS_Subset
<1>4. A \subseteq B
  <2> SUFFICES ASSUME NEW b \in A PROVE b \in B
    OBVIOUS
  <2>1. b \in S \X (1..MaxSize) /\ b[1] \in S /\ b[2] \in Int /\ b[2] <= f[b[1]]
    OBVIOUS
  <2>2. b[2] <= g[b[1]]
    BY <2>1
  <2> QED
    BY <2>1, <2>2
<1> HIDE DEF A, B
<1>5. IsFiniteSet(A) /\ Cardinality(A) <= Cardinality(B)
  BY <1>3, <1>4, FS_Subset
<1>6. Cardinality(A) \in Nat /\ Cardinality(B) \in Nat
  BY <1>3, <1>5, FS_CardinalityType
<1> QED
  BY <1>5, <1>6 DEF Total, A, B

\* Nothing weighs nothing.
LEMMA TotalEmpty == ASSUME NEW f PROVE Total({}, f) = 0
<1>1. {b \in {} \X (1..MaxSize) : b[2] <= f[b[1]]} = {}
  OBVIOUS
<1> QED
  BY <1>1, FS_EmptySet DEF Total

-----------------------------------------------------------------------------
(* The invariant *)

LEMMA EmptyDomain == DOMAIN <<>> = {}
<1>1. <<>> \in Seq({}) /\ Len(<<>>) = 0
  BY EmptySeq
<1>2. DOMAIN <<>> = 1..0
  BY <1>1, LenProperties
<1> QED
  BY <1>2

LEMMA InitInv == Init => IInv
<1> SUFFICES ASSUME Init PROVE IInv
  OBVIOUS
<1>0. DOMAIN <<>> = {}
  BY EmptyDomain
<1>1. TypeOK
  <2>1. lru \in Seq(Keys) /\ IsInjective(lru)
    BY EmptySeq, <1>0 DEF Init, IsInjective
  <2>2. 0 \in 0..MaxSize /\ 0 \in Nat
    BY EvictionAssumption
  <2> QED
    BY <2>1, <2>2 DEF Init, TypeOK
<1>2. Settled = {} /\ max_bytes \in Nat
  BY EvictionAssumption, <1>0 DEF Init, Settled, Listed, Range
<1> QED
  BY <1>1, <1>2, TotalEmpty, EvictionAssumption
     DEF Init, IInv, Tracked, StoredOK, FitsOK, Storing

\* What is listed are keys.
LEMMA ListedType == TypeOK => Listed \subseteq Keys
<1> SUFFICES ASSUME TypeOK PROVE Range(lru) \subseteq Keys
  BY DEF Listed
<1>1. lru \in [1..Len(lru) -> Keys] /\ DOMAIN lru = 1..Len(lru)
  BY LenProperties DEF TypeOK
<1> QED
  BY <1>1 DEF Range

\* Fewer keys fit as well.
LEMMA FewerFit ==
  ASSUME TypeOK, NEW S \in SUBSET Keys, NEW T \in SUBSET Keys, S \subseteq T,
         Total(T, weight) <= max_bytes
  PROVE  Total(S, weight) <= max_bytes
<1>1. \A k \in S : weight[k] \in Int /\ weight[k] <= weight[k]
  BY EvictionAssumption DEF TypeOK
<1>2. Total(S, weight) \in Nat /\ Total(T, weight) \in Nat /\ Total(S, weight) <= Total(T, weight)
  BY <1>1, TotalMonotone
<1> QED
  BY <1>2, EvictionAssumption

\* A call moves on: the others are where they were.
LEMMA GotoMeans ==
  ASSUME TypeOK, NEW c \in Calls, NEW from, NEW to, Goto(c, from, to)
  PROVE  /\ pc[c] = from /\ pc'[c] = to
         /\ \A d \in Calls \ {c} : pc'[d] = pc[d]
BY DEF Goto, TypeOK

\* A body that comes to the disk with a call.
LEMMA FinishInv ==
  ASSUME IInv, NEW c \in Calls, NEW n \in 0..MaxSize, Finish(c, n)
  PROVE  IInv'
<1>0. TypeOK /\ Tracked /\ StoredOK /\ FitsOK
  BY DEF IInv
<1>1. PICK k \in Keys : k = key[c]
  BY <1>0 DEF TypeOK
<1>2. /\ disk' = [disk EXCEPT ![k] = n] /\ size' = [size EXCEPT ![c] = n]
      /\ loose' = loose \cup IF Storing(k) # {} THEN {k} ELSE {}
      /\ UNCHANGED <<lru, weight, evicting, key, faults, owed>>
      /\ pc' = [pc EXCEPT ![c] = "stored"]
  BY <1>1 DEF Finish, Goto
<1>3. Storing(k)' = Storing(k) \cup {c} /\ \A x \in Keys \ {k} : Storing(x)' = Storing(x)
  BY <1>0, <1>1, <1>2 DEF Storing, TypeOK
<1>4. TypeOK'
  BY <1>0, <1>1, <1>2 DEF TypeOK
<1>5. \A x \in Keys \ {k} : disk'[x] = disk[x] /\ (x \in loose' <=> x \in loose)
  BY <1>0, <1>1, <1>2 DEF TypeOK
<1>6. \A d \in Calls \ {c} : size'[d] = size[d]
  BY <1>0, <1>2 DEF TypeOK
<1>7. disk'[k] = n /\ size'[c] = n
  BY <1>0, <1>1, <1>2 DEF TypeOK
<1>8. Tracked'
  <2> SUFFICES ASSUME NEW x \in Keys \ {k}, x \notin loose', disk'[x] # None
               PROVE  \/ x \in Listed /\ disk[x] <= weight[x]
                      \/ evicting[x] > 0
                      \/ Storing(x)' # {}
    BY <1>2, <1>3, <1>5 DEF Tracked, Listed
  <2> QED
    BY <1>0, <1>3, <1>5 DEF Tracked
<1>9. StoredOK'
  <2> SUFFICES ASSUME NEW x \in Keys, x \notin loose', NEW d \in Storing(x)'
               PROVE  disk'[x] \in {size'[d], None}
    BY DEF StoredOK
  <2>1. CASE x = k
    <3>1. d = c
      BY <1>2, <1>3, <2>1
    <3> QED
      BY <1>7, <2>1, <3>1
  <2>2. CASE x # k
    <3>1. d # c /\ d \in Calls
      BY <1>1, <1>2, <2>2 DEF Storing
    <3> QED
      BY <1>0, <1>3, <1>5, <1>6, <2>2, <3>1 DEF StoredOK
  <2> QED
    BY <2>1, <2>2
<1>10. FitsOK'
  <2>1. Settled' \subseteq Settled
    <3> SUFFICES ASSUME NEW x \in Settled' PROVE x \in Settled
      OBVIOUS
    <3>1. /\ x \in Listed /\ x \notin loose' /\ disk'[x] # None /\ evicting[x] = 0
          /\ Storing(x)' = {}
      BY <1>2 DEF Settled, Listed
    <3>2. x \in Keys /\ x # k
      BY <1>0, <1>3, <3>1, ListedType
    <3> QED
      BY <1>3, <1>5, <3>1, <3>2 DEF Settled
  <2>2. Settled' \in SUBSET Keys /\ Settled \in SUBSET Keys
    BY <1>0, <2>1, ListedType DEF Settled
  <2> QED
    BY <1>0, <1>2, <2>1, <2>2, FewerFit DEF FitsOK
<1> QED
  BY <1>4, <1>8, <1>9, <1>10 DEF IInv

\* A body that comes to the disk, and the manager does not hear of it.
LEMMA FinishFailsInv ==
  ASSUME IInv, NEW c \in Calls, NEW n \in 0..MaxSize, FinishFails(c, n)
  PROVE  IInv'
<1>0. TypeOK /\ Tracked /\ StoredOK /\ FitsOK
  BY DEF IInv
<1>1. PICK k \in Keys : k = key[c]
  BY <1>0 DEF TypeOK
<1>2. /\ disk' = [disk EXCEPT ![k] = n] /\ size' = [size EXCEPT ![c] = n]
      /\ loose' = loose \cup {k} /\ faults' = faults + 1
      /\ UNCHANGED <<lru, weight, evicting, key, owed>>
      /\ pc[c] = "idle" /\ pc' = [pc EXCEPT ![c] = "done"]
  BY <1>1 DEF FinishFails, Fault, Goto
<1>3. \A x \in Keys : Storing(x)' = Storing(x)
  BY <1>0, <1>2 DEF Storing, TypeOK
<1>4. TypeOK'
  BY <1>0, <1>1, <1>2 DEF TypeOK
<1>5. \A x \in Keys \ {k} : disk'[x] = disk[x] /\ (x \in loose' <=> x \in loose)
  BY <1>0, <1>1, <1>2 DEF TypeOK
<1>6. \A d \in Calls \ {c} : size'[d] = size[d]
  BY <1>0, <1>2 DEF TypeOK
<1>7. k \in loose'
  BY <1>2
<1>8. Tracked'
  <2> SUFFICES ASSUME NEW x \in Keys, x \notin loose', disk'[x] # None
               PROVE  \/ x \in Listed /\ disk'[x] <= weight[x]
                      \/ evicting[x] > 0
                      \/ Storing(x)' # {}
    BY <1>2 DEF Tracked, Listed
  <2> QED
    BY <1>0, <1>3, <1>5, <1>7 DEF Tracked
<1>9. StoredOK'
  <2> SUFFICES ASSUME NEW x \in Keys, x \notin loose', NEW d \in Storing(x)'
               PROVE  disk'[x] \in {size'[d], None}
    BY DEF StoredOK
  <2>1. x # k /\ d \in Storing(x) /\ d # c /\ d \in Calls
    BY <1>2, <1>3, <1>7 DEF Storing
  <2> QED
    BY <1>0, <1>5, <1>6, <2>1 DEF StoredOK
<1>10. FitsOK'
  <2>1. Settled' \subseteq Settled
    <3> SUFFICES ASSUME NEW x \in Settled' PROVE x \in Settled
      OBVIOUS
    <3>1. /\ x \in Listed /\ x \notin loose' /\ disk'[x] # None /\ evicting[x] = 0
          /\ Storing(x)' = {}
      BY <1>2 DEF Settled, Listed
    <3>2. x \in Keys /\ x # k
      BY <1>0, <1>7, <3>1, ListedType
    <3> QED
      BY <1>3, <1>5, <3>1, <3>2 DEF Settled
  <2>2. Settled' \in SUBSET Keys /\ Settled \in SUBSET Keys
    BY <1>0, <2>1, ListedType DEF Settled
  <2> QED
    BY <1>0, <1>2, <2>1, <2>2, FewerFit DEF FitsOK
<1> QED
  BY <1>4, <1>8, <1>9, <1>10 DEF IInv

\* A body is admitted; others are evicted, and listed no longer but about to be purged.
LEMMA AdmitInv ==
  ASSUME IInv, NEW c \in Calls, Admit(c)
  PROVE  IInv'
<1>0. TypeOK /\ Tracked /\ StoredOK /\ FitsOK
  BY DEF IInv
<1>1. PICK k \in Keys : k = key[c]
  BY <1>0 DEF TypeOK
<1>2. PICK w : w = [weight EXCEPT ![k] = size[c]]
  OBVIOUS
<1>3. PICK l : l = Recent(lru, k)
  OBVIOUS
<1>4. l \in Seq(Keys) /\ IsInjective(l) /\ Range(l) = Listed \cup {k}
  BY <1>0, <1>3, RecentMeans DEF TypeOK, Listed
<1>5. PICK n \in 0..Len(l) :
        /\ Total(Range(SubSeq(l, n + 1, Len(l))), w) <= max_bytes
        /\ lru' = SubSeq(l, n + 1, Len(l))
        /\ evicting' = [x \in Keys |-> evicting[x]
             + IF x \in Range(l) \ Range(SubSeq(l, n + 1, Len(l))) THEN 1 ELSE 0]
  BY <1>1, <1>2, <1>3 DEF Admit, Created
<1>6. PICK r : r = SubSeq(l, n + 1, Len(l))
  OBVIOUS
<1>7. r \in Seq(Keys) /\ IsInjective(r) /\ Range(r) \subseteq Range(l)
  BY <1>4, <1>6, RestMeans
<1>8. /\ lru' = r /\ Total(Range(r), w) <= max_bytes
      /\ evicting' = [x \in Keys |-> evicting[x] + IF x \in Range(l) \ Range(r) THEN 1 ELSE 0]
  BY <1>5, <1>6
<1>9. /\ weight' = w /\ owed' = FALSE /\ UNCHANGED <<disk, key, size, faults>>
      /\ pc[c] = "stored" /\ pc' = [pc EXCEPT ![c] = "done"]
      /\ loose' = IF Storing(k) = {c} /\ disk[k] \in {size[c], None} THEN loose \ {k} ELSE loose
  BY <1>1, <1>2 DEF Admit, Created, Goto
<1>10. /\ Storing(k)' = Storing(k) \ {c} /\ c \in Storing(k)
       /\ \A x \in Keys \ {k} : Storing(x)' = Storing(x)
  BY <1>0, <1>1, <1>9 DEF Storing, TypeOK
<1>11. size[c] \in 0..MaxSize /\ w \in [Keys -> 0..MaxSize] /\ w[k] = size[c]
       /\ \A x \in Keys \ {k} : w[x] = weight[x]
  BY <1>0, <1>2 DEF TypeOK
<1>12. TypeOK'
  <2>1. evicting' \in [Keys -> Nat]
    BY <1>0, <1>8 DEF TypeOK
  <2>2. lru' \in Seq(Keys) /\ IsInjective(lru')
    BY <1>7, <1>8
  <2> QED
    BY <1>0, <1>9, <1>11, <2>1, <2>2 DEF TypeOK
<1>13. Listed' = Range(r)
  BY <1>8 DEF Listed
<1>14. \A x \in Keys : /\ evicting[x] > 0 => evicting'[x] > 0
                       /\ x \in Range(l) \ Range(r) => evicting'[x] > 0
  BY <1>0, <1>8 DEF TypeOK
<1>15. Tracked'
  <2> SUFFICES ASSUME NEW x \in Keys, x \notin loose', disk[x] # None
               PROVE  \/ x \in Range(r) /\ disk[x] <= w[x]
                      \/ evicting'[x] > 0
                      \/ Storing(x)' # {}
    BY <1>9, <1>13 DEF Tracked
  <2>1. CASE x # k
    <3>1. x \notin loose
      BY <1>9, <2>1
    <3>2. \/ x \in Listed /\ disk[x] <= weight[x]
          \/ evicting[x] > 0
          \/ Storing(x) # {}
      BY <1>0, <3>1 DEF Tracked
    <3> QED
      BY <1>4, <1>10, <1>11, <1>14, <2>1, <3>2
  <2>2. CASE x = k /\ Storing(k) # {c}
    BY <1>10, <2>2
  <2>3. CASE x = k /\ Storing(k) = {c}
    <3>1. disk[k] \in {size[c], None}
      BY <1>0, <1>9, <2>3 DEF StoredOK
    <3>2. disk[k] <= w[k]
      BY <1>11, <2>3, <3>1
    <3> QED
      BY <1>4, <1>14, <2>3, <3>2
  <2> QED
    BY <2>1, <2>2, <2>3
<1>16. StoredOK'
  <2> SUFFICES ASSUME NEW x \in Keys, x \notin loose', NEW d \in Storing(x)'
               PROVE  disk[x] \in {size[d], None}
    BY <1>9 DEF StoredOK
  <2>1. d \in Storing(x)
    BY <1>10
  <2>2. x \notin loose
    BY <1>9, <1>10
  <2> QED
    BY <1>0, <2>1, <2>2 DEF StoredOK
<1>17. FitsOK'
  <2>1. Settled' \subseteq Range(r)
    BY <1>13 DEF Settled
  <2>2. Range(r) \subseteq Keys
    BY <1>0, <1>4, <1>7, ListedType
  <2>3. \A x \in Settled' : w[x] \in Int /\ w[x] <= w[x]
    BY <1>11, <2>1, <2>2, EvictionAssumption
  <2>4. PICK S : S = Settled'
    OBVIOUS
  <2>5. Total(S, w) \in Nat /\ Total(Range(r), w) \in Nat /\ Total(S, w) <= Total(Range(r), w)
    BY <2>1, <2>2, <2>3, <2>4, TotalMonotone
  <2>6. Total(S, w) <= max_bytes
    BY <1>8, <2>5, EvictionAssumption
  <2> QED
    BY <1>9, <2>4, <2>6 DEF FitsOK
<1> QED
  BY <1>12, <1>15, <1>16, <1>17 DEF IInv

\* A lookup changes nothing but what it found.
LEMMA HitInv ==
  ASSUME IInv, NEW c \in Calls, Hit(c)
  PROVE  IInv'
<1>0. TypeOK /\ Tracked /\ StoredOK /\ FitsOK
  BY DEF IInv
<1>1. PICK k \in Keys : k = key[c]
  BY <1>0 DEF TypeOK
<1>2. /\ disk[k] # None /\ size' = [size EXCEPT ![c] = disk[k]]
      /\ pc[c] = "idle" /\ pc' = [pc EXCEPT ![c] = "found"]
      /\ UNCHANGED <<disk, lru, weight, evicting, key, faults, loose, owed>>
  BY <1>1 DEF Hit, Goto
<1>3. \A x \in Keys : Storing(x)' = Storing(x)
  BY <1>0, <1>2 DEF Storing, TypeOK
<1>4. TypeOK'
  BY <1>0, <1>2 DEF TypeOK
<1>5. Tracked'
  BY <1>0, <1>2, <1>3 DEF Tracked, Listed
<1>6. StoredOK'
  <2> SUFFICES ASSUME NEW x \in Keys, x \notin loose, NEW d \in Storing(x)'
               PROVE  disk[x] \in {size'[d], None}
    BY <1>2 DEF StoredOK
  <2>1. d \in Storing(x) /\ d # c /\ d \in Calls
    BY <1>2, <1>3 DEF Storing
  <2>2. size'[d] = size[d]
    BY <1>0, <1>2, <2>1 DEF TypeOK
  <2> QED
    BY <1>0, <2>1, <2>2 DEF StoredOK
<1>7. FitsOK'
  <2>1. Settled' = Settled
    <3>1. \A x \in Listed : Storing(x)' = Storing(x)
      BY <1>0, <1>3, ListedType
    <3> QED
      BY <1>2, <3>1 DEF Settled, Listed
  <2> QED
    BY <1>0, <1>2, <2>1 DEF FitsOK
<1> QED
  BY <1>4, <1>5, <1>6, <1>7 DEF IInv

\* An access lists a key and evicts nothing, which is owed only if the key was loose.
LEMMA AccessInv ==
  ASSUME IInv, NEW c \in Calls, Access(c)
  PROVE  IInv'
<1>0. TypeOK /\ Tracked /\ StoredOK /\ FitsOK
  BY DEF IInv
<1>1. PICK k \in Keys : k = key[c]
  BY <1>0 DEF TypeOK
<1>2. PICK r : r = Recent(lru, k)
  OBVIOUS
<1>3. r \in Seq(Keys) /\ IsInjective(r) /\ Range(r) = Listed \cup {k}
  BY <1>0, <1>2, RecentMeans DEF TypeOK, Listed
<1>4. /\ lru' = r
      /\ weight' = IF k \in Listed THEN weight ELSE [weight EXCEPT ![k] = size[c]]
      /\ loose' = IF k \notin Listed /\ disk[k] # None /\ disk[k] <= size[c] /\ Storing(k) = {}
                  THEN loose \ {k} ELSE loose
      /\ owed' = (owed \/ (k \in loose /\ k \notin Listed))
      /\ UNCHANGED <<disk, evicting, key, size, faults>>
      /\ pc[c] = "found" /\ pc' = [pc EXCEPT ![c] = "done"]
  BY <1>1, <1>2 DEF Access, Goto
<1>5. \A x \in Keys : Storing(x)' = Storing(x)
  BY <1>0, <1>4 DEF Storing, TypeOK
<1>6. Listed' = Listed \cup {k}
  BY <1>3, <1>4 DEF Listed
<1>7. \A x \in Keys \ {k} : weight'[x] = weight[x] /\ (x \in loose' <=> x \in loose)
  BY <1>0, <1>1, <1>4 DEF TypeOK
<1>8. k \in Listed => weight' = weight /\ loose' = loose
  BY <1>4
<1>9. k \notin Listed => weight'[k] = size[c]
  BY <1>0, <1>1, <1>4 DEF TypeOK
<1>10. TypeOK'
  <2>1. weight' \in [Keys -> 0..MaxSize]
    BY <1>0, <1>4 DEF TypeOK
  <2>2. lru' \in Seq(Keys) /\ IsInjective(lru')
    BY <1>3, <1>4
  <2>3. loose' \in SUBSET Keys /\ owed' \in BOOLEAN
    BY <1>0, <1>4 DEF TypeOK
  <2> QED
    BY <1>0, <1>4, <2>1, <2>2, <2>3 DEF TypeOK
<1>11. Tracked'
  <2> SUFFICES ASSUME NEW x \in Keys, x \notin loose', disk[x] # None
               PROVE  \/ x \in Listed' /\ disk[x] <= weight'[x]
                      \/ evicting[x] > 0
                      \/ Storing(x) # {}
    BY <1>4, <1>5 DEF Tracked
  <2>1. CASE x # k \/ k \in Listed
    <3>1. x \notin loose /\ weight'[x] = weight[x]
      BY <1>7, <1>8, <2>1
    <3> QED
      BY <1>0, <1>6, <3>1 DEF Tracked
  <2>2. CASE x = k /\ k \notin Listed /\ k \in loose
    BY <1>4, <1>6, <1>9, <2>2
  <2>3. CASE x = k /\ k \notin Listed /\ k \notin loose
    BY <1>0, <2>3 DEF Tracked
  <2> QED
    BY <2>1, <2>2, <2>3
<1>12. StoredOK'
  <2> SUFFICES ASSUME NEW x \in Keys, x \notin loose', NEW d \in Storing(x)
               PROVE  disk[x] \in {size[d], None}
    BY <1>4, <1>5 DEF StoredOK
  <2>1. x \notin loose
    BY <1>4
  <2> QED
    BY <1>0, <2>1 DEF StoredOK
<1>13. FitsOK'
  <2> SUFFICES ASSUME ~owed, ~(k \in loose /\ k \notin Listed)
               PROVE  Total(Settled, weight)' <= max_bytes
    BY <1>4 DEF FitsOK
  <2>1. \A x \in Settled' : x \in Settled /\ weight'[x] = weight[x]
    <3> SUFFICES ASSUME NEW x \in Settled' PROVE x \in Settled /\ weight'[x] = weight[x]
      OBVIOUS
    <3>1. x \in Listed \cup {k} /\ x \in Keys
      BY <1>0, <1>6, ListedType DEF Settled
    <3>2. x \notin loose' /\ disk[x] # None /\ evicting[x] = 0 /\ Storing(x) = {}
      BY <1>4, <1>5, <3>1 DEF Settled
    <3>3. x \notin loose
      BY <1>7, <1>8, <3>1, <3>2
    <3>4. x \in Listed
      BY <1>0, <3>1, <3>2, <3>3 DEF Tracked
    <3>5. weight'[x] = weight[x]
      BY <1>7, <1>8, <3>1, <3>4
    <3> QED
      BY <3>2, <3>3, <3>4, <3>5 DEF Settled
  <2>2. Settled \in SUBSET Keys
    BY <1>0, ListedType DEF Settled
  <2>3. \A x \in Settled' : weight'[x] \in Int /\ weight[x] \in Int /\ weight'[x] <= weight[x]
    BY <1>0, <2>1, <2>2, EvictionAssumption DEF TypeOK
  <2>4. PICK S, w : S = Settled' /\ w = weight'
    OBVIOUS
  <2>5. Total(S, w) \in Nat /\ Total(Settled, weight) \in Nat
        /\ Total(S, w) <= Total(Settled, weight)
    BY <2>1, <2>2, <2>3, <2>4, TotalMonotone
  <2>6. Total(S, w) <= max_bytes
    BY <1>0, <2>5, EvictionAssumption DEF FitsOK
  <2> QED
    BY <2>4, <2>6
<1> QED
  BY <1>10, <1>11, <1>12, <1>13 DEF IInv

\* A purge removes the body, whichever it is.
LEMMA PurgeInv ==
  ASSUME IInv, NEW k \in Keys, Purge(k)
  PROVE  IInv'
<1>0. TypeOK /\ Tracked /\ StoredOK /\ FitsOK
  BY DEF IInv
<1>1. /\ evicting[k] > 0 /\ evicting' = [evicting EXCEPT ![k] = @ - 1]
      /\ disk' = [disk EXCEPT ![k] = None] /\ loose' = loose \ {k}
      /\ UNCHANGED <<lru, weight, pc, key, size, faults, owed>>
  BY DEF Purge, callVars
<1>2. \A x \in Keys : Storing(x)' = Storing(x)
  BY <1>1 DEF Storing
<1>3. TypeOK'
  <2>1. evicting' \in [Keys -> Nat]
    BY <1>0, <1>1 DEF TypeOK
  <2>2. disk' \in [Keys -> 0..MaxSize \cup {None}]
    BY <1>0, <1>1 DEF TypeOK
  <2> QED
    BY <1>0, <1>1, <2>1, <2>2 DEF TypeOK
<1>4. /\ disk'[k] = None
      /\ \A x \in Keys \ {k} : /\ disk'[x] = disk[x] /\ evicting'[x] = evicting[x]
                               /\ x \in loose' <=> x \in loose
  BY <1>0, <1>1 DEF TypeOK
<1>5. Tracked'
  <2> SUFFICES ASSUME NEW x \in Keys, x \notin loose', disk'[x] # None
               PROVE  \/ x \in Listed /\ disk'[x] <= weight[x]
                      \/ evicting'[x] > 0
                      \/ Storing(x)' # {}
    BY <1>1 DEF Tracked, Listed
  <2> QED
    BY <1>0, <1>2, <1>4 DEF Tracked
<1>6. StoredOK'
  <2> SUFFICES ASSUME NEW x \in Keys, x \notin loose', NEW d \in Storing(x)'
               PROVE  disk'[x] \in {size[d], None}
    BY <1>1 DEF StoredOK
  <2> QED
    BY <1>0, <1>2, <1>4 DEF StoredOK
<1>7. FitsOK'
  <2>1. Settled' \subseteq Settled
    <3> SUFFICES ASSUME NEW x \in Settled' PROVE x \in Settled
      OBVIOUS
    <3>1. /\ x \in Listed /\ x \notin loose' /\ disk'[x] # None /\ evicting'[x] = 0
          /\ Storing(x)' = {}
      BY <1>1 DEF Settled, Listed
    <3>2. x \in Keys /\ x # k
      BY <1>0, <1>4, <3>1, ListedType
    <3> QED
      BY <1>2, <1>4, <3>1, <3>2 DEF Settled
  <2>2. Settled' \in SUBSET Keys /\ Settled \in SUBSET Keys
    BY <1>0, <2>1, ListedType DEF Settled
  <2> QED
    BY <1>0, <1>1, <2>1, <2>2, FewerFit DEF FitsOK
<1> QED
  BY <1>3, <1>5, <1>6, <1>7 DEF IInv

\* A failed purge leaves a body that the manager may not know.
LEMMA PurgeFailsInv ==
  ASSUME IInv, NEW k \in Keys, PurgeFails(k)
  PROVE  IInv'
<1>0. TypeOK /\ Tracked /\ StoredOK /\ FitsOK
  BY DEF IInv
<1>1. /\ evicting[k] > 0 /\ evicting' = [evicting EXCEPT ![k] = @ - 1]
      /\ loose' = loose \cup
           IF disk[k] = None \/ (k \in Listed /\ weight[k] >= disk[k]) THEN {} ELSE {k}
      /\ owed' = TRUE /\ faults' = faults + 1
      /\ UNCHANGED <<disk, lru, weight, pc, key, size>>
  BY DEF PurgeFails, Fault, callVars
<1>2. \A x \in Keys : Storing(x)' = Storing(x)
  BY <1>1 DEF Storing
<1>3. TypeOK'
  <2>1. evicting' \in [Keys -> Nat]
    BY <1>0, <1>1 DEF TypeOK
  <2> QED
    BY <1>0, <1>1, <2>1 DEF TypeOK
<1>4. \A x \in Keys \ {k} : evicting'[x] = evicting[x]
  BY <1>0, <1>1 DEF TypeOK
<1>5. Tracked'
  <2> SUFFICES ASSUME NEW x \in Keys, x \notin loose', disk[x] # None
               PROVE  \/ x \in Listed /\ disk[x] <= weight[x]
                      \/ evicting'[x] > 0
                      \/ Storing(x) # {}
    BY <1>1, <1>2 DEF Tracked, Listed
  <2>1. CASE x = k
    <3>1. k \in Listed /\ weight[k] >= disk[k]
      BY <1>1, <2>1
    <3>2. weight[k] \in Int /\ disk[k] \in Int
      BY <1>0, <2>1, EvictionAssumption DEF TypeOK
    <3> QED
      BY <2>1, <3>1, <3>2
  <2>2. CASE x # k
    BY <1>0, <1>1, <1>4, <2>2 DEF Tracked
  <2> QED
    BY <2>1, <2>2
<1>6. StoredOK'
  <2> SUFFICES ASSUME NEW x \in Keys, x \notin loose', NEW d \in Storing(x)'
               PROVE  disk[x] \in {size[d], None}
    BY <1>1 DEF StoredOK
  <2> QED
    BY <1>0, <1>1, <1>2 DEF StoredOK
<1>7. FitsOK'
  BY <1>1 DEF FitsOK
<1> QED
  BY <1>3, <1>5, <1>6, <1>7 DEF IInv

\* A new process knows none of the bodies, and all of them are loose.
LEMMA RestartInv ==
  ASSUME IInv, Restart
  PROVE  IInv'
<1>0. TypeOK
  BY DEF IInv
<1>1. /\ lru' = <<>> /\ weight' = [k \in Keys |-> 0] /\ evicting' = [k \in Keys |-> 0]
      /\ pc' = [c \in Calls |-> IF pc[c] = "idle" THEN "idle" ELSE "done"]
      /\ loose' = {k \in Keys : disk[k] # None} /\ owed' = FALSE /\ faults' = faults + 1
      /\ UNCHANGED <<disk, key, size>>
  BY DEF Restart, Fault
<1>2. \A x \in Keys : Storing(x)' = {}
  BY <1>1 DEF Storing
<1>3. DOMAIN <<>> = {}
  BY EmptyDomain
<1>4. TypeOK'
  <2>1. lru' \in Seq(Keys) /\ IsInjective(lru')
    BY <1>1, <1>3, EmptySeq DEF IsInjective
  <2>2. 0 \in 0..MaxSize /\ 0 \in Nat
    BY EvictionAssumption
  <2>3. weight' \in [Keys -> 0..MaxSize] /\ evicting' \in [Keys -> Nat]
    BY <1>1, <2>2
  <2>4. pc' \in [Calls -> {"idle", "found", "stored", "done"}]
    BY <1>0, <1>1 DEF TypeOK
  <2>5. loose' \in SUBSET Keys /\ owed' \in BOOLEAN /\ faults' \in Nat
    <3>1. loose' \in SUBSET Keys
      BY <1>1
    <3>2. owed' \in BOOLEAN
      BY <1>1
    <3>3. faults' \in Nat
      BY <1>0, <1>1 DEF TypeOK
    <3> QED
      BY <3>1, <3>2, <3>3
  <2> QED
    BY <1>0, <1>1, <2>1, <2>3, <2>4, <2>5 DEF TypeOK
<1>5. Tracked'
  BY <1>1 DEF Tracked
<1>6. StoredOK'
  BY <1>2 DEF StoredOK
<1>7. FitsOK'
  <2>1. Settled' = {}
    BY <1>1, <1>3 DEF Settled, Listed, Range
  <2>2. PICK w : w = weight'
    OBVIOUS
  <2>3. Total(Settled, weight)' = Total({}, w)
    BY <2>1, <2>2 DEF Total
  <2> QED
    BY <2>3, TotalEmpty, EvictionAssumption DEF FitsOK
<1> QED
  BY <1>4, <1>5, <1>6, <1>7 DEF IInv

LEMMA NextInv == IInv /\ [Next]_vars => IInv'
<1> SUFFICES ASSUME IInv, [Next]_vars PROVE IInv'
  OBVIOUS
<1>1. CASE \E c \in Calls : \E n \in 0..MaxSize : Finish(c, n)
  BY <1>1, FinishInv
<1>2. CASE \E c \in Calls : \E n \in 0..MaxSize : FinishFails(c, n)
  BY <1>2, FinishFailsInv
<1>3. CASE \E c \in Calls : Admit(c)
  BY <1>3, AdmitInv
<1>4. CASE \E c \in Calls : Hit(c)
  BY <1>4, HitInv
<1>5. CASE \E c \in Calls : Access(c)
  BY <1>5, AccessInv
<1>6. CASE \E k \in Keys : Purge(k)
  BY <1>6, PurgeInv
<1>7. CASE \E k \in Keys : PurgeFails(k)
  BY <1>7, PurgeFailsInv
<1>8. CASE Restart
  BY <1>8, RestartInv
<1>9. CASE UNCHANGED vars
  BY <1>9 DEF vars, callVars, IInv, TypeOK, Tracked, StoredOK, FitsOK, Settled, Storing, Listed
<1> QED
  BY <1>1, <1>2, <1>3, <1>4, <1>5, <1>6, <1>7, <1>8, <1>9 DEF Next

-----------------------------------------------------------------------------
(* Theorems *)

\* The inductive invariant of the manager's bookkeeping (Admit, Access, Purge) and
\* of what the storage does meanwhile (Finish, Hit).
THEOREM Invariant == Spec => []IInv
<1> QED
  BY InitInv, NextInv, PTL DEF Spec

\* The code's values stay in their ranges, and no key is listed twice.
THEOREM TypeCorrect == Spec => []TypeOK
<1>1. IInv => TypeOK
  BY DEF IInv
<1> QED
  BY Invariant, <1>1, PTL

\* finish reports each body it stores, get_eviction_weight each one that is found:
\* none escapes the manager but those that loose names.
THEOREM TrackedHolds == Spec => []Tracked
<1>1. IInv => Tracked
  BY DEF IInv
<1> QED
  BY Invariant, <1>1, PTL

\* CACHE_SIZE_BYTES bounds the bodies on the disk.
THEOREM BoundedHolds == Spec => []Bounded
<1>1. IInv => Bounded
  <2> SUFFICES ASSUME IInv, loose = {}, ~owed,
                      \A c \in Calls : pc[c] \in {"idle", "done"},
                      \A k \in Keys : evicting[k] = 0
               PROVE  DiskBytes <= max_bytes
    BY DEF Bounded
  <2>0. TypeOK /\ Tracked /\ FitsOK
    BY DEF IInv
  <2> DEFINE S == {k \in Keys : disk[k] # None}
  <2>1. \A k \in Keys : Storing(k) = {}
    BY DEF Storing
  <2>2. \A k \in S : k \in Listed /\ disk[k] <= weight[k]
    BY <2>0, <2>1 DEF Tracked
  <2>3. S \subseteq Settled /\ Settled \subseteq Keys
    BY <2>0, <2>1, <2>2, ListedType DEF Settled
  <2>4. \A k \in S : disk[k] \in Int /\ weight[k] \in Int
    BY <2>0, EvictionAssumption DEF TypeOK
  <2>5. Total(S, disk) \in Nat /\ Total(Settled, weight) \in Nat
        /\ Total(S, disk) <= Total(Settled, weight)
    BY <2>2, <2>3, <2>4, TotalMonotone
  <2> QED
    BY <2>0, <2>5, EvictionAssumption DEF FitsOK, DiskBytes
<1> QED
  BY Invariant, <1>1, PTL

=============================================================================
