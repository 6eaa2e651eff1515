---------------------------- MODULE SpiProofs -----------------------------
(***************************************************************************)
(* Proofs about the SPI master framework, SpiMaster, for any clients and   *)
(* devices, and about the transfers of the ECSPI driver below it, EcSpi,   *)
(* for any lengths and any size of the FIFO.                               *)
(***************************************************************************)
EXTENDS SpiMaster, EcSpi, TLAPS, SequenceTheorems, FiniteSetTheorems, WellFoundedInduction

(***************************************************************************)
(* The operators on lists                                                  *)
(***************************************************************************)

(* A set of numbers has a least element.                                   *)
LEMMA LeastNumber ==
  ASSUME NEW T \in SUBSET Nat, T # {}
  PROVE  \E m \in T : \A n \in T : m <= n
<1> DEFINE R == OpToRel(<, Nat)
<1>1. IsWellFoundedOn(R, Nat) BY NatLessThanWellFounded
<1> HIDE DEF R
<1>2. PICK m \in T : \A n \in T : ~ (<<n, m>> \in R) BY <1>1, WFMin, Zenon
<1>3. \A n \in T : n < m => <<n, m>> \in R BY DEF R, OpToRel
<1>4. ASSUME NEW n \in T PROVE m <= n
  <2>1. ~(n < m) BY <1>2, <1>3, Zenon
  <2> QED BY <2>1
<1> QED BY <1>4

LEMMA MinLeast ==
  ASSUME NEW T \in SUBSET Nat, T # {}
  PROVE  Min(T) \in T
BY LeastNumber DEF Min

(* The places of a list.                                                   *)
LEMMA ListType ==
  ASSUME NEW S, NEW l \in Seq(S)
  PROVE  DOMAIN l = 1..Len(l) /\ Len(l) \in Nat /\ \A k \in DOMAIN l : l[k] \in S
OBVIOUS

(* RemoveAt takes out one place and closes the gap.                        *)
LEMMA Removed ==
  ASSUME NEW S, NEW l \in Seq(S), NEW i \in 1..Len(l)
  PROVE  /\ RemoveAt(l, i) \in Seq(S)
         /\ Len(RemoveAt(l, i)) = Len(l) - 1
         /\ \A j \in 1..(Len(l) - 1) : RemoveAt(l, i)[j] = IF j < i THEN l[j] ELSE l[j + 1]
<1> DEFINE left == SubSeq(l, 1, i - 1)
           right == SubSeq(l, i + 1, Len(l))
<1>1. /\ left \in Seq(S) /\ Len(left) = i - 1
      /\ \A j \in 1..(i - 1) : left[j] = l[j]
  BY SubSeqProperties
<1>2. /\ right \in Seq(S) /\ Len(right) = Len(l) - i
      /\ \A j \in 1..(Len(l) - i) : right[j] = l[i + j]
  BY SubSeqProperties
<1>3. RemoveAt(l, i) = left \o right BY DEF RemoveAt
<1> HIDE DEF left, right
<1>4. /\ left \o right \in Seq(S)
      /\ Len(left \o right) = Len(l) - 1
      /\ \A j \in 1..(Len(l) - 1) :
             (left \o right)[j] = IF j <= i - 1 THEN left[j] ELSE right[j - (i - 1)]
  <2>1. Len(left) + Len(right) = Len(l) - 1 BY <1>1, <1>2
  <2>2. /\ left \o right \in Seq(S)
        /\ Len(left \o right) = Len(left) + Len(right)
        /\ \A j \in 1..(Len(left) + Len(right)) :
               (left \o right)[j] = IF j <= Len(left) THEN left[j] ELSE right[j - Len(left)]
    BY <1>1, <1>2, ConcatProperties, Zenon
  <2> QED BY <1>1, <2>1, <2>2
<1>5. ASSUME NEW j \in 1..(Len(l) - 1)
      PROVE  (left \o right)[j] = IF j < i THEN l[j] ELSE l[j + 1]
  BY <1>1, <1>2, <1>4
<1> QED BY <1>3, <1>4, <1>5

(* A lock is put in front of the list.                                     *)
LEMMA Prepended ==
  ASSUME NEW S, NEW l \in Seq(S), NEW e \in S
  PROVE  /\ <<e>> \o l \in Seq(S)
         /\ Len(<<e>> \o l) = Len(l) + 1
         /\ (<<e>> \o l)[1] = e
         /\ \A j \in 1..Len(l) : (<<e>> \o l)[j + 1] = l[j]
<1>1. <<e>> \in Seq(S) /\ Len(<<e>>) = 1 /\ <<e>>[1] = e OBVIOUS
<1>2. /\ <<e>> \o l \in Seq(S)
      /\ Len(<<e>> \o l) = 1 + Len(l)
      /\ \A i \in 1..(1 + Len(l)) : (<<e>> \o l)[i] = IF i <= 1 THEN <<e>>[i] ELSE l[i - 1]
  BY <1>1, ConcatProperties
<1>3. (<<e>> \o l)[1] = e BY <1>1, <1>2
<1>4. ASSUME NEW j \in 1..Len(l) PROVE (<<e>> \o l)[j + 1] = l[j]
  BY <1>2
<1> QED BY <1>2, <1>3, <1>4

(* The members of a set of places, counted from the front: each number up  *)
(* to the size of the set is the rank of a member, and of one only.        *)
LEMMA Ranked ==
  ASSUME NEW n \in Nat, NEW kept \in SUBSET (1..n), NEW j \in 1..Cardinality(kept)
  PROVE  \E k \in kept : Cardinality({m \in kept : m <= k}) = j
<1> DEFINE upto(k) == {m \in kept : m <= k}
<1>1. \A m \in kept : m \in Nat /\ 1 <= m /\ m <= n OBVIOUS
<1>2. IsFiniteSet(kept)
  <2>1. IsFiniteSet(1..n) BY FS_Interval
  <2> QED BY <2>1, FS_Subset, Zenon
<1>3. ASSUME NEW k \in Int PROVE IsFiniteSet(upto(k)) /\ Cardinality(upto(k)) \in Nat
  <2>1. upto(k) \in SUBSET kept OBVIOUS
  <2>2. IsFiniteSet(upto(k)) BY <1>2, <2>1, FS_Subset, Zenon
  <2> QED BY <2>2, FS_CardinalityType, Zenon
<1>4. Cardinality(upto(0)) = 0
  <2>1. \A m \in kept : ~(m <= 0) BY <1>1
  <2>2. upto(0) = {} BY <2>1, Zenon
  <2> QED BY <2>2, FS_EmptySet
<1>5. upto(n) = kept BY <1>1
<1>6. ASSUME NEW k \in 1..n
      PROVE  Cardinality(upto(k)) = IF k \in kept THEN Cardinality(upto(k - 1)) + 1
                                    ELSE Cardinality(upto(k - 1))
  <2>1. CASE k \in kept
    <3>1. k \notin upto(k - 1) OBVIOUS
    <3>2. \A m \in kept : m <= k <=> m <= k - 1 \/ m = k BY <1>1
    <3>3. upto(k) = upto(k - 1) \cup {k} BY <2>1, <3>2
    <3>4. k - 1 \in Int OBVIOUS
    <3>5. IsFiniteSet(upto(k - 1)) BY <1>3, <3>4, Zenon
    <3>6. Cardinality(upto(k - 1) \cup {k}) = Cardinality(upto(k - 1)) + 1
      BY <3>1, <3>5, FS_AddElement, Zenon
    <3> QED BY <2>1, <3>6, <3>3
  <2>2. CASE k \notin kept
    <3>1. \A m \in kept : m <= k <=> m <= k - 1 BY <1>1, <2>2
    <3>2. upto(k) = upto(k - 1) BY <3>1
    <3> QED BY <2>2, <3>2
  <2> QED BY <2>1, <2>2
<1> DEFINE far == {k \in 0..n : Cardinality(upto(k)) >= j}
<1>7. far # {} /\ far \in SUBSET Nat
  <2>1. Cardinality(kept) \in Nat BY <1>2, FS_CardinalityType, Zenon
  <2>2. Cardinality(upto(n)) >= j BY <1>5, <2>1
  <2>3. n \in far BY <2>2
  <2>4. far \subseteq Nat OBVIOUS
  <2> QED BY <2>3, <2>4
<1> HIDE DEF upto
<1>8. PICK k \in far : \A m \in far : k <= m BY <1>7, LeastNumber
<1>9. k \in 1..n BY <1>4, <1>8
<1>10. k - 1 \in 0..n /\ k - 1 \notin far BY <1>8, <1>9
<1>11. Cardinality(upto(k - 1)) \in Nat /\ Cardinality(upto(k - 1)) < j
  BY <1>3, <1>10
<1>12. k \in kept /\ Cardinality(upto(k)) = j
  BY <1>6, <1>8, <1>9, <1>11
<1> QED BY <1>12 DEF upto

(* ... and no two members have the same rank.                              *)
LEMMA RankUnique ==
  ASSUME NEW n \in Nat, NEW kept \in SUBSET (1..n), NEW k \in kept, NEW m \in kept, k # m
  PROVE  Cardinality({x \in kept : x <= k}) # Cardinality({x \in kept : x <= m})
<1> DEFINE upto(i) == {x \in kept : x <= i}
<1>1. \A x \in kept : x \in Nat OBVIOUS
<1>2. IsFiniteSet(kept)
  <2>1. IsFiniteSet(1..n) BY FS_Interval
  <2> QED BY <2>1, FS_Subset, Zenon
<1>3. \A i : IsFiniteSet(upto(i))
  <2> TAKE i
  <2>1. upto(i) \in SUBSET kept OBVIOUS
  <2> QED BY <1>2, <2>1, FS_Subset, Zenon
<1>4. ASSUME NEW i \in kept, NEW j \in kept, i < j
      PROVE  Cardinality(upto(i)) # Cardinality(upto(j))
  <2>1. \A x \in kept : x <= i => x <= j BY <1>1, <1>4
  <2>2. upto(i) \in SUBSET upto(j) BY <2>1
  <2>3. j \in upto(j) /\ j \notin upto(i) BY <1>1, <1>4
  <2> HIDE DEF upto
  <2>4. upto(i) # upto(j) BY <2>3
  <2> QED BY <1>3, <2>2, <2>4, FS_Subset, Zenon
<1>5. k < m \/ m < k BY <1>1
<1> QED BY <1>4, <1>5

(***************************************************************************)
(* The list of locks                                                       *)
(***************************************************************************)

(* No device is in the list twice.                                         *)
OnePerDevice(l) == \A j, k \in DOMAIN l : j # k => l[j].device # l[k].device

(* _spi_islock finds the owner of the lock, or that there is none.         *)
LEMMA IsLock ==
  ASSUME NEW l \in Seq(Lock), NEW d
  PROVE  /\ islock(l, d) \in Clients \cup {Nobody}
         /\ islock(l, d) = Nobody <=> \A k \in DOMAIN l : l[k].device # d
         /\ OnePerDevice(l) => \A k \in DOMAIN l : l[k].device = d => islock(l, d) = l[k].owner
<1> DEFINE at == {k \in DOMAIN l : l[k].device = d}
<1>1. DOMAIN l = 1..Len(l) /\ Len(l) \in Nat /\ \A k \in DOMAIN l : l[k] \in Lock
  BY ListType, Zenon
<1>2. \A k \in DOMAIN l : l[k].owner \in Clients
  <2>1. \A e \in Lock : e.owner \in Clients BY DEF Lock
  <2> QED BY <1>1, <2>1, Zenon
<1>3. 1..Len(l) \subseteq Nat BY <1>1
<1>4. at \in SUBSET Nat BY <1>1, <1>3, Zenon
<1>5. islock(l, d) = IF at = {} THEN Nobody ELSE l[Min(at)].owner BY DEF islock
<1>6. at # {} => Min(at) \in at BY <1>4, MinLeast
<1>7. at # {} => Min(at) \in DOMAIN l /\ l[Min(at)].device = d BY <1>6
<1>8. Nobody \notin Clients BY SpiAssumption
<1>9. at = {} <=> \A k \in DOMAIN l : l[k].device # d OBVIOUS
<1>10. ASSUME OnePerDevice(l), NEW k \in DOMAIN l, l[k].device = d
      PROVE  islock(l, d) = l[k].owner
  <2>1. at # {} BY <1>10
  <2>2. Min(at) = k BY <1>7, <1>10, <2>1 DEF OnePerDevice
  <2> QED BY <1>5, <2>1, <2>2
<1> HIDE DEF at
<1> QED BY <1>2, <1>5, <1>7, <1>8, <1>9, <1>10

(* A list with a lock in front, of a device that had none.                 *)
LEMMA LockInFront ==
  ASSUME NEW l \in Seq(Lock), OnePerDevice(l), NEW d \in Ids, NEW c \in Clients,
         islock(l, d) = Nobody, NEW m \in Seq(Lock), Len(m) = Len(l) + 1,
         m[1].owner = c, m[1].device = d, \A j \in 1..Len(l) : m[j + 1] = l[j]
  PROVE  /\ OnePerDevice(m)
         /\ \A k \in DOMAIN m : \/ m[k].owner = c /\ m[k].device = d
                            \/ \E i \in DOMAIN l : m[k] = l[i]
         /\ \A x : islock(m, x) = IF x = d THEN c ELSE islock(l, x)
<1>1. DOMAIN l = 1..Len(l) /\ Len(l) \in Nat BY ListType, Zenon
<1>2. DOMAIN m = 1..(Len(l) + 1)
  <2>1. DOMAIN m = 1..Len(m) BY ListType, Zenon
  <2> QED BY <2>1
<1>3. ASSUME NEW k \in DOMAIN m, k # 1 PROVE k - 1 \in DOMAIN l /\ m[k] = l[k - 1]
  <2>1. k - 1 \in 1..Len(l) /\ (k - 1) + 1 = k BY <1>1, <1>2, <1>3
  <2> QED BY <1>1, <2>1
<1>4. \A k \in DOMAIN l : l[k].device # d BY IsLock
<1>5. OnePerDevice(m)
  <2> SUFFICES ASSUME NEW i \in DOMAIN m, NEW k \in DOMAIN m, i # k
               PROVE  m[i].device # m[k].device
    BY DEF OnePerDevice
  <2>1. CASE i = 1 BY <1>3, <1>4, <2>1
  <2>2. CASE k = 1 BY <1>3, <1>4, <2>2
  <2>3. CASE i # 1 /\ k # 1
    <3>1. i - 1 # k - 1 BY <1>1, <1>2
    <3> QED BY <1>3, <2>3, <3>1 DEF OnePerDevice
  <2> QED BY <2>1, <2>2, <2>3
<1>6. ASSUME NEW x PROVE islock(m, x) = IF x = d THEN c ELSE islock(l, x)
  <2>1. CASE x = d
    <3>1. 1 \in DOMAIN m BY <1>1, <1>2
    <3> QED BY <1>5, <2>1, <3>1, IsLock
  <2>2. CASE x # d /\ \E k \in DOMAIN l : l[k].device = x
    <3>1. PICK k \in DOMAIN l : l[k].device = x BY <2>2
    <3>2. k + 1 \in DOMAIN m /\ m[k + 1] = l[k] BY <1>1, <1>2
    <3>3. islock(m, x) = l[k].owner BY <1>5, <3>1, <3>2, IsLock
    <3>4. islock(l, x) = l[k].owner BY <3>1, IsLock
    <3> QED BY <2>2, <3>3, <3>4
  <2>3. CASE x # d /\ \A k \in DOMAIN l : l[k].device # x
    <3>1. \A k \in DOMAIN m : m[k].device # x BY <1>3, <2>3
    <3> QED BY <2>3, <3>1, IsLock
  <2> QED BY <2>1, <2>2, <2>3
<1> QED BY <1>3, <1>5, <1>6

(* _spi_lock_dev on a device that has no lock.                             *)
LEMMA Locked ==
  ASSUME NEW l \in Seq(Lock), OnePerDevice(l), NEW d \in Ids, NEW c \in Clients,
         islock(l, d) = Nobody, NEW e, e = [owner |-> c, device |-> d]
  PROVE  /\ <<e>> \o l \in Seq(Lock) /\ OnePerDevice(<<e>> \o l)
         /\ \A k \in DOMAIN (<<e>> \o l) :
               \/ (<<e>> \o l)[k].owner = c /\ (<<e>> \o l)[k].device = d
               \/ \E i \in DOMAIN l : (<<e>> \o l)[k] = l[i]
         /\ \A x : islock(<<e>> \o l, x) = IF x = d THEN c ELSE islock(l, x)
<1> DEFINE m == <<e>> \o l
<1>1. e \in Lock /\ e.owner = c /\ e.device = d BY DEF Lock
<1>2. /\ m \in Seq(Lock) /\ Len(m) = Len(l) + 1 /\ m[1] = e
      /\ \A j \in 1..Len(l) : m[j + 1] = l[j]
  BY <1>1, Prepended
<1> HIDE DEF m
<1>3. m[1].owner = c /\ m[1].device = d BY <1>1, <1>2, Zenon
<1>4. /\ OnePerDevice(m)
      /\ \A k \in DOMAIN m : \/ m[k].owner = c /\ m[k].device = d
                            \/ \E i \in DOMAIN l : m[k] = l[i]
      /\ \A x : islock(m, x) = IF x = d THEN c ELSE islock(l, x)
  BY <1>2, <1>3, LockInFront
<1> QED BY <1>2, <1>4, Zenon DEF m

(* Taking one lock out of the list.                                        *)
LEMMA Unlocked ==
  ASSUME NEW l \in Seq(Lock), OnePerDevice(l), NEW i \in DOMAIN l,
         NEW m, m = RemoveAt(l, i)
  PROVE  /\ m \in Seq(Lock) /\ OnePerDevice(m)
         /\ \A k \in DOMAIN m : \E j \in DOMAIN l : m[k] = l[j]
         /\ \A x : islock(m, x) = IF x = l[i].device THEN Nobody ELSE islock(l, x)
<1>1. DOMAIN l = 1..Len(l) /\ Len(l) \in Nat /\ i \in 1..Len(l) BY ListType, Zenon
<1>2. /\ m \in Seq(Lock) /\ Len(m) = Len(l) - 1
      /\ \A j \in 1..(Len(l) - 1) : m[j] = IF j < i THEN l[j] ELSE l[j + 1]
  BY <1>1, Removed, Zenon
<1>3. DOMAIN m = 1..(Len(l) - 1)
  <2>1. DOMAIN m = 1..Len(m) BY <1>2, ListType, Zenon
  <2> QED BY <1>2, <2>1
<1> DEFINE old(j) == IF j < i THEN j ELSE j + 1
<1>4. ASSUME NEW j \in DOMAIN m PROVE old(j) \in DOMAIN l /\ old(j) # i /\ m[j] = l[old(j)]
  BY <1>1, <1>2, <1>3
<1>5. ASSUME NEW j \in DOMAIN m, NEW k \in DOMAIN m, j # k PROVE old(j) # old(k)
  BY <1>1, <1>3, <1>5
<1>6. ASSUME NEW k \in DOMAIN l, k # i PROVE \E j \in DOMAIN m : m[j] = l[k]
  <2>1. CASE k < i
    <3>1. k \in DOMAIN m /\ m[k] = l[k] BY <1>1, <1>2, <1>3, <2>1
    <3> QED BY <3>1
  <2>2. CASE ~(k < i)
    <3>1. k - 1 \in DOMAIN m /\ m[k - 1] = l[k] BY <1>1, <1>2, <1>3, <1>6, <2>2
    <3> QED BY <3>1
  <2> QED BY <2>1, <2>2
<1> HIDE DEF old
<1>7. OnePerDevice(m) BY <1>4, <1>5 DEF OnePerDevice
<1>8. ASSUME NEW x PROVE islock(m, x) = IF x = l[i].device THEN Nobody ELSE islock(l, x)
  <2>1. CASE x = l[i].device
    <3>1. \A k \in DOMAIN m : m[k].device # x BY <1>4, <2>1 DEF OnePerDevice
    <3> QED BY <1>2, <2>1, <3>1, IsLock
  <2>2. CASE x # l[i].device /\ \E k \in DOMAIN l : l[k].device = x
    <3>1. PICK k \in DOMAIN l : l[k].device = x BY <2>2
    <3>2. PICK j \in DOMAIN m : m[j] = l[k] BY <1>6, <2>2, <3>1
    <3>3. islock(m, x) = l[k].owner BY <1>2, <1>7, <3>1, <3>2, IsLock
    <3>4. islock(l, x) = l[k].owner BY <3>1, IsLock
    <3> QED BY <2>2, <3>3, <3>4
  <2>3. CASE x # l[i].device /\ \A k \in DOMAIN l : l[k].device # x
    <3>1. \A k \in DOMAIN m : m[k].device # x BY <1>4, <2>3
    <3> QED BY <1>2, <2>3, <3>1, IsLock
  <2> QED BY <2>1, <2>2, <2>3
<1> QED BY <1>2, <1>4, <1>7, <1>8

(* Taking all locks of one owner out of the list: each place of the new    *)
(* list has a lock of another owner, and each such lock has its place.     *)
LEMMA Kept ==
  ASSUME NEW l \in Seq(Lock), NEW c, NEW m, m = OwnLocksGone(l, c)
  PROVE  /\ m \in Seq(Lock)
         /\ \A j \in DOMAIN m : \E k \in DOMAIN l : l[k].owner # c /\ m[j] = l[k]
         /\ \A k \in DOMAIN l : l[k].owner # c => \E j \in DOMAIN m : m[j] = l[k]
         /\ OnePerDevice(l) => OnePerDevice(m)
<1> DEFINE kept == {k \in DOMAIN l : l[k].owner # c}
           rank(k) == Cardinality({x \in kept : x <= k})
           place(j) == CHOOSE k \in kept : rank(k) = j
           n == Cardinality(kept)
<1>1. DOMAIN l = 1..Len(l) /\ Len(l) \in Nat /\ \A k \in DOMAIN l : l[k] \in Lock
  BY ListType, Zenon
<1>2. kept \in SUBSET (1..Len(l)) BY <1>1
<1>3. m = [j \in 1..n |-> l[place(j)]] BY DEF OwnLocksGone
<1>4. n \in Nat
  <2>1. IsFiniteSet(1..Len(l)) BY <1>1, FS_Interval
  <2> QED BY <1>2, <2>1, FS_Subset, FS_CardinalityType, Zenon
<1>5. \A k \in kept : k \in DOMAIN l /\ l[k].owner # c OBVIOUS
<1>6. \A k \in DOMAIN l : l[k].owner # c => k \in kept OBVIOUS
<1>7. \A j \in 1..n : \E k \in kept : rank(k) = j BY <1>1, <1>2, Ranked
<1>8. \A k, i \in kept : k # i => rank(k) # rank(i) BY <1>1, <1>2, RankUnique
<1>9. \A k \in kept : rank(k) \in 1..n
  <2> TAKE k \in kept
  <2> DEFINE upto == {x \in kept : x <= k}
  <2>1. IsFiniteSet(kept)
    <3>1. IsFiniteSet(1..Len(l)) BY <1>1, FS_Interval
    <3> QED BY <1>2, <3>1, FS_Subset, Zenon
  <2>2. upto \in SUBSET kept OBVIOUS
  <2>3. k \in upto BY <1>2
  <2> HIDE DEF upto, kept
  <2>4. IsFiniteSet(upto) /\ Cardinality(upto) <= n BY <2>1, <2>2, FS_Subset
  <2>5. Cardinality(upto) \in Nat /\ Cardinality(upto) # 0
    BY <2>3, <2>4, FS_EmptySet, FS_CardinalityType
  <2> QED BY <1>4, <2>4, <2>5 DEF upto
<1> HIDE DEF kept, rank, n
<1>10. \A j \in 1..n : place(j) \in kept /\ rank(place(j)) = j
  <2> TAKE j \in 1..n
  <2>1. PICK k \in kept : rank(k) = j BY <1>7
  <2> QED BY <2>1
<1> HIDE DEF place
<1>11. \A k \in kept : place(rank(k)) = k BY <1>8, <1>9, <1>10
<1>12. DOMAIN m = 1..n /\ \A j \in 1..n : m[j] = l[place(j)] BY <1>3
<1>13. \A j \in 1..n : m[j] \in Lock BY <1>1, <1>5, <1>10, <1>12, Zenon
<1>14. m \in Seq(Lock)
  <2>1. m \in [1..n -> Lock] BY <1>3, <1>12, <1>13
  <2> QED BY <1>4, <2>1, SeqDef
<1>15. \A j \in DOMAIN m : place(j) \in DOMAIN l /\ l[place(j)].owner # c /\ m[j] = l[place(j)]
  BY <1>5, <1>10, <1>12, Zenon
<1>16. ASSUME NEW k \in DOMAIN l, l[k].owner # c PROVE \E j \in DOMAIN m : m[j] = l[k]
  <2>1. k \in kept BY <1>6, <1>16
  <2>2. rank(k) \in DOMAIN m /\ m[rank(k)] = l[k] BY <1>9, <1>11, <1>12, <2>1, Zenon
  <2> QED BY <2>2
<1>17. ASSUME OnePerDevice(l), NEW j \in DOMAIN m, NEW k \in DOMAIN m, j # k
       PROVE  m[j].device # m[k].device
  <2>1. place(j) # place(k) BY <1>10, <1>12, <1>17
  <2> QED BY <1>15, <1>17, <2>1 DEF OnePerDevice
<1> QED BY <1>14, <1>15, <1>16, <1>17 DEF OnePerDevice

(* _spi_close_ocb gives up the locks of the connection and no others.      *)
LEMMA Closed ==
  ASSUME NEW l \in Seq(Lock), OnePerDevice(l), NEW c \in Clients, NEW m, m = OwnLocksGone(l, c)
  PROVE  /\ m \in Seq(Lock) /\ OnePerDevice(m)
         /\ \A k \in DOMAIN m : m[k].owner # c /\ \E j \in DOMAIN l : m[k] = l[j]
         /\ \A x : islock(m, x) = IF islock(l, x) = c THEN Nobody ELSE islock(l, x)
<1>1. m \in Seq(Lock) BY Kept
<1>2. /\ \A j \in DOMAIN m : \E k \in DOMAIN l : l[k].owner # c /\ m[j] = l[k]
      /\ \A k \in DOMAIN l : l[k].owner # c => \E j \in DOMAIN m : m[j] = l[k]
  BY Kept
<1>3. OnePerDevice(m) BY Kept
<1>4. ASSUME NEW x PROVE islock(m, x) = IF islock(l, x) = c THEN Nobody ELSE islock(l, x)
  <2>1. CASE \E k \in DOMAIN l : l[k].device = x
    <3>1. PICK k \in DOMAIN l : l[k].device = x BY <2>1
    <3>2. islock(l, x) = l[k].owner BY <3>1, IsLock
    <3>3. CASE l[k].owner = c
      <4>1. \A j \in DOMAIN m : m[j].device # x
        <5> SUFFICES ASSUME NEW j \in DOMAIN m, m[j].device = x PROVE FALSE OBVIOUS
        <5>1. PICK i \in DOMAIN l : l[i].owner # c /\ m[j] = l[i] BY <1>2
        <5> QED BY <3>1, <3>3, <5>1 DEF OnePerDevice
      <4> QED BY <1>1, <3>2, <3>3, <4>1, IsLock
    <3>4. CASE l[k].owner # c
      <4>1. PICK j \in DOMAIN m : m[j] = l[k] BY <1>2, <3>4
      <4>2. islock(m, x) = l[k].owner BY <1>1, <1>3, <3>1, <4>1, IsLock
      <4> QED BY <3>2, <3>4, <4>2
    <3> QED BY <3>3, <3>4
  <2>2. CASE \A k \in DOMAIN l : l[k].device # x
    <3>1. \A j \in DOMAIN m : m[j].device # x BY <1>2, <2>2
    <3>2. islock(l, x) = Nobody /\ islock(m, x) = Nobody BY <1>1, <2>2, <3>1, IsLock
    <3> QED BY <3>2
  <2> QED BY <2>1, <2>2
<1>5. \A k \in DOMAIN m : m[k].owner # c /\ \E j \in DOMAIN l : m[k] = l[j] BY <1>2
<1> QED BY <1>1, <1>3, <1>4, <1>5

(* _spi_lock_check: it is a client's own device or a free one that the     *)
(* check lets pass; it adds at most one lock, of the client, on a free     *)
(* device, or takes one lock of the client away.                           *)
LEMMA LockCheck ==
  ASSUME NEW l \in Seq(Lock), OnePerDevice(l), NEW c \in Clients,
         NEW dev \in Device, NEW r \in lock_check(l, dev, c)
  PROVE  /\ r.list \in Seq(Lock) /\ OnePerDevice(r.list)
         /\ \A k \in DOMAIN r.list : \/ r.list[k].owner = c /\ r.list[k].device = dev.id
                                     \/ \E i \in DOMAIN l : r.list[k] = l[i]
         /\ r.err = "EOK" => islock(l, dev.id) \in {Nobody, c}
         /\ \/ r.list = l
            \/ /\ islock(l, dev.id) = Nobody /\ "lock" \in dev.flags
               /\ \A x : islock(r.list, x) = IF x = dev.id THEN c ELSE islock(l, x)
            \/ /\ islock(l, dev.id) = c
               /\ dev.id # NONE =>
                      \A x : islock(r.list, x) = IF x = dev.id THEN Nobody ELSE islock(l, x)
<1> DEFINE d == dev.id
           e == [owner |-> c, device |-> d]
<1>1. d \in Ids BY DEF Device
<1>2. Nobody # c BY SpiAssumption
<1>3. CASE islock(l, d) = c /\ "unlock" \in dev.flags
  <2> DEFINE at == {k \in DOMAIN l : (l[k].device = d \/ d = NONE) /\ l[k].owner = c}
  <2>1. r = unlock_dev(l, d, c) BY <1>2, <1>3 DEF lock_check
  <2>2. CASE at = {}
    <3>1. r.list = l BY <2>1, <2>2 DEF unlock_dev
    <3> QED BY <1>3, <3>1
  <2>3. CASE at # {}
    <3> DEFINE i == Min(at)
    <3>1. r.list = RemoveAt(l, i) BY <2>1, <2>3 DEF unlock_dev
    <3>2. i \in at
      <4>1. DOMAIN l = 1..Len(l) /\ Len(l) \in Nat BY ListType, Zenon
      <4>2. at \in SUBSET Nat BY <4>1
      <4> QED BY <2>3, <4>2, MinLeast
    <3>3. i \in DOMAIN l /\ (l[i].device = d \/ d = NONE) BY <3>2
    <3> HIDE DEF i
    <3>4. /\ r.list \in Seq(Lock) /\ OnePerDevice(r.list)
          /\ \A k \in DOMAIN r.list : \E j \in DOMAIN l : r.list[k] = l[j]
          /\ \A x : islock(r.list, x) = IF x = l[i].device THEN Nobody ELSE islock(l, x)
      BY <3>1, <3>3, Unlocked
    <3> QED BY <1>3, <3>3, <3>4
  <2> QED BY <2>2, <2>3
<1>4. CASE islock(l, d) = c /\ "unlock" \notin dev.flags
  <2>1. r.list = l BY <1>2, <1>4 DEF lock_check
  <2> QED BY <1>4, <2>1
<1>5. CASE islock(l, d) \notin {c, Nobody}
  <2>1. r = [err |-> "EPERM", list |-> l] BY <1>5 DEF lock_check
  <2> QED BY <2>1
<1>6. CASE islock(l, d) = Nobody /\ "lock" \in dev.flags
  <2>1. r \in lock_dev(l, d, c) BY <1>2, <1>6 DEF lock_check
  <2>2. CASE r.list = <<e>> \o l
    <3>1. /\ r.list \in Seq(Lock) /\ OnePerDevice(r.list)
          /\ \A x : islock(r.list, x) = IF x = d THEN c ELSE islock(l, x)
      BY <1>1, <1>6, <2>2, Locked
    <3>2. \A k \in DOMAIN r.list : \/ r.list[k].owner = c /\ r.list[k].device = d
                                  \/ \E i \in DOMAIN l : r.list[k] = l[i]
      BY <1>1, <1>6, <2>2, Locked
    <3> QED BY <1>6, <3>1, <3>2
  <2>3. CASE r.list = l BY <1>6, <2>3
  <2> QED BY <2>1, <2>2, <2>3 DEF lock_dev
<1>7. CASE islock(l, d) = Nobody /\ "lock" \notin dev.flags
  <2>1. r.list = l BY <1>2, <1>7 DEF lock_check
  <2> QED BY <1>7, <2>1
<1> QED BY <1>3, <1>4, <1>5, <1>6, <1>7

(***************************************************************************)
(* The specification                                                       *)
(***************************************************************************)

(* What Checked does, for read, write and the SPI messages.                *)
LEMMA CheckedStep ==
  ASSUME TypeOK, LocksOwned, NEW c \in open, NEW dev \in Device, NEW d \in Ids,
         Checked(c, dev, d)
  PROVE  TypeOK' /\ LocksOwned'
<1>1. c \in Clients /\ lock \in Seq(Lock) BY DEF TypeOK
<1>2. OnePerDevice(lock) BY DEF LocksOwned, OnePerDevice
<1>3. PICK r \in lock_check(lock, dev, c) :
        /\ lock' = r.list
        /\ used' = Transfer(c, d, r.list) \/ used' = used
        /\ open' = open /\ chip' = chip
  BY DEF Checked
<1>4. /\ r.list \in Seq(Lock) /\ OnePerDevice(r.list)
      /\ \A k \in DOMAIN r.list : r.list[k].owner = c \/ \E i \in DOMAIN lock : r.list[k] = lock[i]
  BY <1>1, <1>2, LockCheck
<1>5. LocksOwned' BY <1>3, <1>4 DEF LocksOwned, OnePerDevice
<1>6. used' \in [by : Clients \cup {Nobody}, dev : Ids \cup {Nobody}, n : {0, 1},
                 held : Clients \cup {Nobody}]
  <2>1. used \in [by : Clients \cup {Nobody}, dev : Ids \cup {Nobody}, n : {0, 1},
                  held : Clients \cup {Nobody}]
    BY DEF TypeOK
  <2>2. islock(r.list, d) \in Clients \cup {Nobody} BY <1>4, IsLock
  <2>3. Transfer(c, d, r.list) \in [by : Clients \cup {Nobody}, dev : Ids \cup {Nobody},
                                   n : {0, 1}, held : Clients \cup {Nobody}]
    BY <1>1, <2>1, <2>2 DEF Transfer
  <2> QED BY <1>3, <2>1, <2>3
<1>7. TypeOK' BY <1>3, <1>4, <1>6 DEF TypeOK
<1> QED BY <1>5, <1>7

LEMMA Initially == Init => TypeOK /\ LocksOwned
<1> SUFFICES ASSUME Init PROVE TypeOK /\ LocksOwned OBVIOUS
<1>1. lock \in Seq(Lock) /\ DOMAIN lock = {} BY DEF Init
<1>2. NONE \in Ids BY SpiAssumption DEF NONE, Ids
<1>3. TypeOK BY <1>1, <1>2 DEF Init, TypeOK, Device
<1>4. LocksOwned BY <1>1 DEF LocksOwned
<1> QED BY <1>3, <1>4

LEMMA Preserved == TypeOK /\ LocksOwned /\ [Next]_vars => TypeOK' /\ LocksOwned'
<1> SUFFICES ASSUME TypeOK, LocksOwned, [Next]_vars PROVE TypeOK' /\ LocksOwned' OBVIOUS
<1>1. NONE \in Ids BY SpiAssumption DEF NONE, Ids
<1>2. ASSUME NEW c \in Clients, Open(c) PROVE TypeOK' /\ LocksOwned'
  BY <1>2 DEF Open, TypeOK, LocksOwned
<1>3. ASSUME NEW c \in Clients, close_ocb(c) PROVE TypeOK' /\ LocksOwned'
  <2>1. lock \in Seq(Lock) BY DEF TypeOK
  <2>2. OnePerDevice(lock) BY DEF LocksOwned, OnePerDevice
  <2>3. lock' = OwnLocksGone(lock, c) /\ open' = open \ {c} BY <1>3 DEF close_ocb
  <2>4. /\ lock' \in Seq(Lock) /\ OnePerDevice(lock')
        /\ \A k \in DOMAIN lock' : lock'[k].owner # c /\ \E j \in DOMAIN lock : lock'[k] = lock[j]
    BY <2>1, <2>2, <2>3, Closed
  <2>5. TypeOK'
    <3>1. [id |-> NONE, flags |-> {}] \in Device BY <1>1 DEF Device
    <3>2. chip' \in [Clients -> Device] BY <1>3, <3>1 DEF close_ocb, TypeOK
    <3> QED BY <1>3, <2>4, <3>2 DEF close_ocb, TypeOK
  <2>6. LocksOwned' BY <2>3, <2>4 DEF LocksOwned, OnePerDevice
  <2> QED BY <2>5, <2>6
<1>4. ASSUME NEW c \in Clients, read_write(c) PROVE TypeOK' /\ LocksOwned'
  <2>1. chip[c] \in Device /\ chip[c].id \in Ids BY DEF TypeOK, Device
  <2> QED BY <1>4, <2>1, CheckedStep DEF read_write
<1>5. ASSUME NEW c \in Clients, NEW dev \in Device, iomsg(c, dev) PROVE TypeOK' /\ LocksOwned'
  <2>1. (IF dev.id = NONE THEN chip[c].id ELSE dev.id) \in Ids BY DEF TypeOK, Device
  <2> QED BY <1>5, <2>1, CheckedStep DEF iomsg
<1>6. ASSUME NEW c \in Clients, NEW dev \in Device, set_config(c, dev) PROVE TypeOK' /\ LocksOwned'
  BY <1>6 DEF set_config, TypeOK, LocksOwned
<1>7. CASE UNCHANGED vars BY <1>7 DEF vars, TypeOK, LocksOwned
<1> QED BY <1>2, <1>3, <1>4, <1>5, <1>6, <1>7 DEF Next

(* The variables of the interface have their types, whatever the clients   *)
(* ask for: read, write, devctl, messages and close (spi/master).          *)
THEOREM TypeCorrect == Spec => []TypeOK
<1> QED BY Initially, Preserved, PTL DEF Spec

(* However the requests of the clients are interleaved, the list holds one *)
(* lock per device at most, all of open connections: nothing stays locked  *)
(* when its client is gone (_spi_devlock.c, _spi_close_ocb).               *)
THEOREM LocksCorrect == Spec => []LocksOwned
<1> QED BY Initially, Preserved, PTL DEF Spec

(***************************************************************************)
(* The refinement                                                          *)
(***************************************************************************)

(* A connection without a default device asks for no lock.                 *)
NoFlags == \A c \in Clients : chip[c].id = NONE => chip[c].flags = {}

(* Where no message names SPI_DEV_ID_NONE, nothing locks it.               *)
NoneUnlocked == \A k \in DOMAIN lock : lock[k].device # NONE

(* A request that names a device, or that does not ask for a lock, leaves  *)
(* SPI_DEV_ID_NONE without a lock and makes a step of the abstract lock.   *)
LEMMA RequestStep ==
  ASSUME TypeOK, LocksOwned, NoneUnlocked, NEW c \in Clients, NEW dev \in Device,
         dev.id = NONE => dev.flags = {}, Checked(c, dev, dev.id)
  PROVE  NoneUnlocked' /\ [LockSpec!Next]_(LockSpec!vars)
<1> DEFINE d == dev.id
           usage == [by |-> used.by, dev |-> used.dev, n |-> used.n]
<1>1. lock \in Seq(Lock) /\ d \in Ids BY DEF TypeOK, Device
<1>2. OnePerDevice(lock) BY DEF LocksOwned, OnePerDevice
<1>3. PICK r \in lock_check(lock, dev, c) :
        /\ lock' = r.list
        /\ \/ r.err = "EOK" /\ used' = Transfer(c, d, r.list)
           \/ used' = used
  BY DEF Checked
<1>4. /\ \A k \in DOMAIN r.list : \/ r.list[k].owner = c /\ r.list[k].device = d
                                  \/ \E i \in DOMAIN lock : r.list[k] = lock[i]
      /\ r.err = "EOK" => islock(lock, d) \in {Nobody, c}
      /\ \/ r.list = lock
         \/ /\ islock(lock, d) = Nobody /\ "lock" \in dev.flags
            /\ \A x : islock(r.list, x) = IF x = d THEN c ELSE islock(lock, x)
         \/ /\ islock(lock, d) = c
            /\ d # NONE => \A x : islock(r.list, x) = IF x = d THEN Nobody ELSE islock(lock, x)
  BY <1>1, <1>2, LockCheck
<1>5. d = NONE => r.list = lock
  <2> SUFFICES ASSUME d = NONE PROVE r.list = lock OBVIOUS
  <2>1. islock(lock, NONE) = Nobody BY <1>1, IsLock DEF NoneUnlocked
  <2>2. Nobody # c BY SpiAssumption
  <2> QED BY <1>4, <2>1, <2>2
<1>6. NoneUnlocked' BY <1>3, <1>4, <1>5 DEF NoneUnlocked
<1>7. usage' = usage \/ (r.err = "EOK" /\ usage' = [by |-> c, dev |-> d, n |-> 1 - used.n])
  BY <1>3 DEF Transfer
<1>8. CASE r.list = lock
  <2>1. Holder' = Holder BY <1>3, <1>8 DEF Holder
  <2>2. CASE usage' = usage BY <1>6, <2>1, <2>2 DEF LockSpec!vars
  <2>3. CASE r.err = "EOK" /\ usage' = [by |-> c, dev |-> d, n |-> 1 - used.n]
    <3>1. Holder[d] \in {Nobody, c} BY <1>1, <1>4, <2>3 DEF Holder
    <3>2. LockSpec!Request(c, d) BY <2>1, <2>3, <3>1 DEF LockSpec!Request
    <3> QED BY <1>1, <1>6, <3>2 DEF LockSpec!Next
  <2> QED BY <1>7, <2>2, <2>3
<1>9. CASE r.list # lock
  <2>1. Holder[d] \in {Nobody, c} BY <1>1, <1>4, <1>9 DEF Holder
  <2>2. \/ \A x : islock(r.list, x) = IF x = d THEN c ELSE islock(lock, x)
        \/ \A x : islock(r.list, x) = IF x = d THEN Nobody ELSE islock(lock, x)
    BY <1>4, <1>5, <1>9
  <2>3. Holder' = [x \in Ids |-> islock(r.list, x)] BY <1>3 DEF Holder
  <2>4. Holder' = [Holder EXCEPT ![d] = c] \/ Holder' = [Holder EXCEPT ![d] = Nobody]
    BY <1>1, <2>2, <2>3 DEF Holder
  <2>5. LockSpec!Request(c, d) BY <1>7, <2>1, <2>4 DEF LockSpec!Request
  <2> QED BY <1>1, <1>6, <2>5 DEF LockSpec!Next
<1> QED BY <1>6, <1>8, <1>9

LEMMA Mapped ==
  ASSUME ~DefaultMsgs, TypeOK, LocksOwned, NoFlags, NoneUnlocked, [Next]_vars
  PROVE  NoFlags' /\ NoneUnlocked' /\ [LockSpec!Next]_(LockSpec!vars)
<1> DEFINE usage == [by |-> used.by, dev |-> used.dev, n |-> used.n]
<1>1. ASSUME lock' = lock, used' = used
      PROVE  NoneUnlocked' /\ [LockSpec!Next]_(LockSpec!vars)
  BY <1>1 DEF NoneUnlocked, LockSpec!vars, Holder
<1>2. ASSUME NEW c \in Clients, Open(c)
      PROVE  NoFlags' /\ NoneUnlocked' /\ [LockSpec!Next]_(LockSpec!vars)
  BY <1>1, <1>2 DEF Open, NoFlags
<1>3. ASSUME NEW c \in Clients, close_ocb(c)
      PROVE  NoFlags' /\ NoneUnlocked' /\ [LockSpec!Next]_(LockSpec!vars)
  <2>1. lock \in Seq(Lock) BY DEF TypeOK
  <2>2. OnePerDevice(lock) BY DEF LocksOwned, OnePerDevice
  <2>3. lock' = OwnLocksGone(lock, c) /\ used' = used BY <1>3 DEF close_ocb
  <2>4. /\ \A k \in DOMAIN lock' : \E j \in DOMAIN lock : lock'[k] = lock[j]
        /\ \A x : islock(lock', x) = IF islock(lock, x) = c THEN Nobody ELSE islock(lock, x)
    BY <2>1, <2>2, <2>3, Closed
  <2>5. NoFlags' BY <1>3 DEF close_ocb, NoFlags, TypeOK
  <2>6. NoneUnlocked' BY <2>4 DEF NoneUnlocked
  <2>7. Holder' = [x \in Ids |-> IF Holder[x] = c THEN Nobody ELSE Holder[x]]
    BY <2>4 DEF Holder
  <2>8. usage' = usage BY <2>3
  <2>9. LockSpec!Close(c) BY <2>7, <2>8 DEF LockSpec!Close
  <2> QED BY <2>5, <2>6, <2>9 DEF LockSpec!Next
<1>4. ASSUME NEW c \in Clients, read_write(c)
      PROVE  NoFlags' /\ NoneUnlocked' /\ [LockSpec!Next]_(LockSpec!vars)
  <2>1. chip[c] \in Device /\ (chip[c].id = NONE => chip[c].flags = {})
    BY DEF TypeOK, NoFlags
  <2>2. Checked(c, chip[c], chip[c].id) BY <1>4 DEF read_write
  <2>3. NoFlags' BY <2>2 DEF Checked, NoFlags
  <2> QED BY <2>1, <2>2, <2>3, RequestStep
<1>5. ASSUME NEW c \in Clients, NEW dev \in Device, iomsg(c, dev)
      PROVE  NoFlags' /\ NoneUnlocked' /\ [LockSpec!Next]_(LockSpec!vars)
  <2>1. dev.id # NONE /\ Checked(c, dev, dev.id) BY <1>5 DEF iomsg
  <2>2. NoFlags' BY <2>1 DEF Checked, NoFlags
  <2> QED BY <2>1, <2>2, RequestStep
<1>6. ASSUME NEW c \in Clients, NEW dev \in Device, set_config(c, dev)
      PROVE  NoFlags' /\ NoneUnlocked' /\ [LockSpec!Next]_(LockSpec!vars)
  <2>1. NoFlags' BY <1>6 DEF set_config, NoFlags, TypeOK
  <2> QED BY <1>1, <1>6, <2>1 DEF set_config
<1>7. CASE UNCHANGED vars BY <1>1, <1>7 DEF vars, NoFlags
<1> QED BY <1>2, <1>3, <1>4, <1>5, <1>6, <1>7 DEF Next

(* Where every message names its device, the list of locks and the         *)
(* handlers that walk it implement the abstract lock, step by step: a      *)
(* transfer is made on a device that nobody else holds, and a device is    *)
(* given up by its holder or by the end of the holder's connection only.   *)
THEOREM LockImplemented ==
  ASSUME ~DefaultMsgs
  PROVE  Spec => LockSpecImplemented
<1>1. Init => NoFlags /\ NoneUnlocked /\ LockSpec!Init
  <2> SUFFICES ASSUME Init PROVE NoFlags /\ NoneUnlocked /\ LockSpec!Init OBVIOUS
  <2>1. lock \in Seq(Lock) /\ DOMAIN lock = {} BY DEF Init
  <2>2. \A x : islock(lock, x) = Nobody BY <2>1, IsLock
  <2> QED BY <2>1, <2>2 DEF Init, NoFlags, NoneUnlocked, LockSpec!Init, Holder
<1>2. /\ TypeOK /\ LocksOwned /\ NoFlags /\ NoneUnlocked /\ [Next]_vars
      => NoFlags' /\ NoneUnlocked' /\ [LockSpec!Next]_(LockSpec!vars)
  BY Mapped
<1> QED
  BY <1>1, <1>2, TypeCorrect, LocksCorrect, PTL DEF Spec, LockSpecImplemented,
     LockSpec!Spec

(***************************************************************************)
(* The transfers of the ECSPI driver: EcSpi, for any lengths of transfers  *)
(* and characters and any size of the FIFO                                 *)
(***************************************************************************)

(* No transfer is longer than MaxLen.                                      *)
LEMMA LongestLen ==
  MaxLen \in Nat /\ \A l \in Lens \cup {0} : l \in Nat /\ l <= MaxLen
<1>1. CASE Lens = {} BY <1>1 DEF MaxLen
<1>2. CASE Lens # {}
  <2>1. PICK m \in Lens : \A l \in Lens : l <= m BY <1>2, EcSpiAssumption
  <2>2. \A y \in Lens : m >= y BY <2>1, EcSpiAssumption
  <2>3. Max(Lens) \in Lens /\ \A y \in Lens : Max(Lens) >= y BY <2>2 DEF Max
  <2>4. MaxLen = Max(Lens) BY <1>2 DEF MaxLen
  <2>5. MaxLen \in Nat BY <2>3, <2>4, EcSpiAssumption
  <2>6. \A l \in Lens : l \in Nat /\ l <= MaxLen
    <3> SUFFICES ASSUME NEW l \in Lens PROVE l \in Nat /\ l <= MaxLen OBVIOUS
    <3>1. l \in Nat BY EcSpiAssumption
    <3>2. MaxLen >= l BY <2>3, <2>4
    <3> QED BY <2>5, <3>1, <3>2
  <2> QED BY <2>5, <2>6
<1> QED BY <1>1, <1>2

(* The smaller of two numbers.                                             *)
LEMMA MinOfTwo ==
  ASSUME NEW a \in Int, NEW b \in Int
  PROVE  Min({a, b}) = IF a <= b THEN a ELSE b
<1> DEFINE m == IF a <= b THEN a ELSE b
<1>1. m \in {a, b} /\ \A y \in {a, b} : m =< y OBVIOUS
<1>2. Min({a, b}) \in {a, b} /\ \A y \in {a, b} : Min({a, b}) =< y BY <1>1 DEF Min
<1> QED BY <1>2

(* A multiple of the burst, step by step.                                  *)
LEMMA WholeBursts ==
  ASSUME NEW m \in Nat
  PROVE  /\ InBursts(m) \in Nat
         /\ m < BurstMax => InBursts(m) = 0
         /\ m >= BurstMax => InBursts(m) = InBursts(m - BurstMax) + BurstMax
<1> DEFINE B == BurstMax
<1>1. B \in Nat /\ B > 0 BY EcSpiAssumption DEF BurstMax
<1> HIDE DEF B
<1>2. \A a, c \in Nat : a * c \in Nat OBVIOUS
<1>3. m \div B \in Nat BY <1>1
<1>4. m < B => m \div B = 0 BY <1>1
<1>5. m >= B => m \div B = ((m - B) \div B) + 1 BY <1>1
<1>6. ASSUME m >= B PROVE ((m - B) \div B) \in Nat BY <1>1, <1>6
<1>7. \A a \in Nat : (a + 1) * B = a * B + B BY <1>1
<1> QED BY <1>1, <1>2, <1>3, <1>4, <1>5, <1>6, <1>7 DEF InBursts, B

(* One sequence after another.                                             *)
LEMMA Concat ==
  ASSUME NEW S, NEW a \in Seq(S), NEW c \in Seq(S)
  PROVE  /\ a \o c \in Seq(S) /\ Len(a \o c) = Len(a) + Len(c)
         /\ \A k \in 1..(Len(a) + Len(c)) :
              (a \o c)[k] = IF k <= Len(a) THEN a[k] ELSE c[k - Len(a)]
OBVIOUS

LEMMA ConcatSecond ==
  ASSUME NEW S, NEW a \in Seq(S), NEW c \in Seq(S), NEW k \in 1..Len(c)
  PROVE  (a \o c)[Len(a) + k] = c[k]
OBVIOUS

(* A word of bytes of the buffer.                                          *)
LEMMA WordTyped ==
  ASSUME NEW b \in [Index -> Byte], NEW t \in Int, NEW m \in 0..4
  PROVE  /\ Word(b, t, m) \in WordSet
         /\ \A j \in 1..m : Word(b, t, m)[4 - m + j] = Get(b, t + j - 1)
<1>1. \A i \in Int : Get(b, i) \in Byte BY DEF Get, Byte
<1>2. \A k \in 1..4 : k <= 4 - m \/ t + k - 1 - (4 - m) \in Int OBVIOUS
<1>3. Word(b, t, m) \in WordSet
  <2> SUFFICES ASSUME NEW k \in 1..4
               PROVE  (IF k <= 4 - m THEN 0 ELSE Get(b, t + k - 1 - (4 - m))) \in Byte
    BY DEF Word, WordSet
  <2> QED BY <1>1 DEF Byte
<1>4. ASSUME NEW j \in 1..m PROVE Word(b, t, m)[4 - m + j] = Get(b, t + j - 1)
  <2>1. 4 - m + j \in 1..4 /\ ~(4 - m + j <= 4 - m) OBVIOUS
  <2>2. t + (4 - m + j) - 1 - (4 - m) = t + j - 1 OBVIOUS
  <2> QED BY <2>1, <2>2 DEF Word
<1> QED BY <1>3, <1>4

(* What the FIFO is filled with: as many words as the burst needs.         *)
LEMMA Filled ==
  ASSUME NEW b \in [Index -> Byte], NEW x \in Nat, NEW t \in Nat, t <= x, NEW d \in 1..4
  PROVE  /\ Fill(b, x, t, d).words \in Seq(WordSet)
         /\ Fill(b, x, t, d).bcnt = NextBurst(x - t) /\ NextBurst(x - t) \in 0..BurstMax
         /\ Len(Fill(b, x, t, d).words) = Words(NextBurst(x - t))
         /\ Fill(b, x, t, d).tlen \in 0..(x + 3)
         /\ x - t >= BurstMax => Fill(b, x, t, d).tlen = t + BurstMax
         /\ x - t < BurstMax => Fill(b, x, t, d).tlen >= x
<1> DEFINE count == x - t
           p == Partial(count, d)
           full == Min({FifoWords, Words(count - p)})
           w(k) == IF d = 3 THEN <<0, 0, 0, 0>> ELSE Word(b, t + p + 4 * (k - 1), 4)
           first == IF p > 0 THEN <<Word(b, t, p)>> ELSE <<>>
           rest == [k \in 1..full |-> w(k)]
<1>1. count \in Nat /\ FifoWords \in Nat /\ FifoWords > 0 /\ BurstMax = 4 * FifoWords
  BY EcSpiAssumption DEF BurstMax
<1>2. /\ p \in 0..3 /\ p <= count
      /\ p = 0 \/ (p = count % 4 /\ count < BurstMax)
  BY <1>1 DEF Partial
<1>3. full = IF FifoWords <= (count - p + 3) \div 4 THEN FifoWords ELSE (count - p + 3) \div 4
  BY <1>1, <1>2, MinOfTwo DEF Words
<1>4. full \in Nat BY <1>1, <1>2, <1>3
<1>5. /\ NextBurst(count) \in 0..BurstMax
      /\ (IF p > 0 THEN 1 ELSE 0) + full = Words(NextBurst(count))
  BY <1>1, <1>2, <1>3 DEF NextBurst, Words
<1>6. /\ t + p + 4 * full \in 0..(x + 3)
      /\ count >= BurstMax => t + p + 4 * full = t + BurstMax
      /\ count < BurstMax => t + p + 4 * full >= x
  BY <1>1, <1>2, <1>3
<1>7. first \in Seq(WordSet) /\ Len(first) = IF p > 0 THEN 1 ELSE 0
  <2>1. Word(b, t, p) \in WordSet
    <3>1. t \in Int /\ p \in 0..4 BY <1>2
    <3> QED BY <3>1, WordTyped, Zenon
  <2> QED BY <2>1
<1>8. rest \in Seq(WordSet) /\ Len(rest) = full
  <2>1. <<0, 0, 0, 0>> \in WordSet BY DEF WordSet, Byte
  <2>2. \A k \in 1..full : w(k) \in WordSet BY <1>2, <2>1, WordTyped
  <2> HIDE DEF w, full
  <2> QED BY <1>4, <2>2
<1>9. /\ Fill(b, x, t, d).words = first \o rest
      /\ Fill(b, x, t, d).tlen = t + p + 4 * full
      /\ Fill(b, x, t, d).bcnt = NextBurst(count)
  BY DEF Fill
<1> HIDE DEF first, rest, full, p
<1>10. first \o rest \in Seq(WordSet) /\ Len(first \o rest) = Words(NextBurst(count))
  BY <1>4, <1>5, <1>7, <1>8, Concat
<1> QED BY <1>5, <1>6, <1>9, <1>10

(* Without a timeout the words hold the bytes from t on, after the bytes   *)
(* of no meaning at their front.                                           *)
LEMMA FilledExact ==
  ASSUME NEW b \in [Index -> Byte], NEW x \in Nat, NEW t \in Nat, t <= x,
         NEW d \in 1..4,
         d = 1 \/ (d = 2 /\ (x - t) % 2 = 0) \/ (d = 4 /\ (x - t) % 4 = 0),
         NEW k \in 1..NextBurst(x - t)
  PROVE  ByteOf(Fill(b, x, t, d).words, Pad(NextBurst(x - t)) + k) = Get(b, t + k - 1)
<1> DEFINE count == x - t
           p == Partial(count, d)
           full == Min({FifoWords, Words(count - p)})
           w(z) == IF d = 3 THEN <<0, 0, 0, 0>> ELSE Word(b, t + p + 4 * (z - 1), 4)
           first == IF p > 0 THEN <<Word(b, t, p)>> ELSE <<>>
           rest == [z \in 1..full |-> w(z)]
           j == Pad(NextBurst(count)) + k
           q == (j - 1) \div 4
           r == (j - 1) % 4
<1>1. count \in Nat /\ FifoWords \in Nat /\ FifoWords > 0 /\ BurstMax = 4 * FifoWords
  BY EcSpiAssumption DEF BurstMax
<1>2. /\ p \in 0..3 /\ p <= count
      /\ p = 0 \/ (p = count % 4 /\ count < BurstMax)
      /\ p = 0 => NextBurst(count) % 4 = 0
  BY <1>1 DEF Partial, NextBurst
<1>3. full = IF FifoWords <= (count - p + 3) \div 4 THEN FifoWords ELSE (count - p + 3) \div 4
  BY <1>1, <1>2, MinOfTwo DEF Words
<1>4. full \in Nat BY <1>1, <1>2, <1>3
<1>5. (IF p > 0 THEN 1 ELSE 0) + full = Words(NextBurst(count)) /\ NextBurst(count) \in Nat
  BY <1>1, <1>2, <1>3 DEF NextBurst, Words
<1>6. /\ first \in Seq(WordSet)
      /\ Len(first) = IF p > 0 THEN 1 ELSE 0
      /\ p > 0 => first[1] = Word(b, t, p)
  <2>1. Word(b, t, p) \in WordSet
    <3>1. t \in Int /\ p \in 0..4 BY <1>2
    <3> QED BY <3>1, WordTyped, Zenon
  <2> QED BY <1>2, <2>1
<1>7. /\ rest \in Seq(WordSet) /\ Len(rest) = full
      /\ \A z \in 1..full : rest[z] = Word(b, t + p + 4 * (z - 1), 4)
  <2>1. \A z \in 1..full : w(z) = Word(b, t + p + 4 * (z - 1), 4) /\ w(z) \in WordSet
    <3> SUFFICES ASSUME NEW z \in 1..full
                 PROVE  Word(b, t + p + 4 * (z - 1), 4) \in WordSet
      OBVIOUS
    <3>1. t + p + 4 * (z - 1) \in Int /\ 4 \in 0..4 BY <1>2, <1>4
    <3> QED BY <3>1, WordTyped, Zenon
  <2> HIDE DEF w, full
  <2> QED BY <1>4, <2>1
<1>8. Fill(b, x, t, d).words = first \o rest BY DEF Fill
<1>9. /\ j \in Nat /\ j > 0 /\ q \in Nat /\ r \in 0..3 /\ j - 1 = 4 * q + r
      /\ q + 1 <= Words(NextBurst(count))
      /\ p = 0 => j = k
      /\ p > 0 => j = 4 - p + k
  BY <1>1, <1>2, <1>5 DEF Pad, NextBurst, Words
<1>10. ByteOf(Fill(b, x, t, d).words, Pad(NextBurst(count)) + k) = (first \o rest)[q + 1][r + 1]
  BY <1>8 DEF ByteOf
<1>l. /\ Len(rest) \in Nat /\ Len(first) = IF p > 0 THEN 1 ELSE 0
      /\ Len(first) + Len(rest) = Words(NextBurst(count)) /\ p \in 0..3
  BY <1>2, <1>4, <1>5, <1>6, <1>7
<1> HIDE DEF first, rest, full, p, j, q, r
<1>11. CASE p = 0
  <2>1. (first \o rest)[q + 1] = rest[q + 1]
    BY <1>4, <1>5, <1>6, <1>7, <1>9, <1>11, Concat
  <2>2. rest[q + 1] = Word(b, t + 4 * q, 4) BY <1>4, <1>5, <1>7, <1>9, <1>11
  <2>3. Word(b, t + 4 * q, 4)[r + 1] = Get(b, (t + 4 * q) + (r + 1) - 1)
    <3>1. t + 4 * q \in Int /\ 4 \in 0..4 /\ r + 1 \in 1..4 /\ 4 - 4 + (r + 1) = r + 1
      BY <1>9
    <3>2. Word(b, t + 4 * q, 4)[4 - 4 + (r + 1)] = Get(b, (t + 4 * q) + (r + 1) - 1)
      BY <3>1, WordTyped, Zenon
    <3> QED BY <3>1, <3>2
  <2>4. (t + 4 * q) + (r + 1) - 1 = t + k - 1 BY <1>9, <1>11
  <2> QED BY <1>10, <2>1, <2>2, <2>3, <2>4
<1>12. CASE p > 0 /\ k <= p
  <2>1. q + 1 = 1 /\ r + 1 = 4 - p + k BY <1>2, <1>9, <1>12
  <2>2. (first \o rest)[1] = first[1]
    <3>1. 1 \in 1..(Len(first) + Len(rest)) /\ 1 <= Len(first) BY <1>l, <1>12
    <3>2. first \in Seq(WordSet) /\ rest \in Seq(WordSet) BY <1>6, <1>7
    <3> QED BY <3>1, <3>2, Concat
  <2>3. Word(b, t, p)[4 - p + k] = Get(b, t + k - 1)
    <3>1. t \in Int /\ p \in 0..4 /\ k \in 1..p BY <1>2, <1>5, <1>12
    <3> QED BY <3>1, WordTyped, Zenon
  <2>4. first[1] = Word(b, t, p) BY <1>6, <1>12
  <2> QED BY <1>10, <2>1, <2>2, <2>3, <2>4
<1>13. CASE p > 0 /\ k > p
  <2>1. q > 0 BY <1>2, <1>9, <1>13
  <2>2. (first \o rest)[q + 1] = rest[q]
    <3>1. q \in 1..Len(rest) /\ Len(first) + q = q + 1 BY <1>l, <1>9, <1>13, <2>1
    <3>2. first \in Seq(WordSet) /\ rest \in Seq(WordSet) BY <1>6, <1>7
    <3>3. (first \o rest)[Len(first) + q] = rest[q] BY <3>1, <3>2, ConcatSecond
    <3> QED BY <3>1, <3>3
  <2>3. rest[q] = Word(b, t + p + 4 * (q - 1), 4) BY <1>4, <1>5, <1>7, <1>9, <1>13, <2>1
  <2>4. Word(b, t + p + 4 * (q - 1), 4)[r + 1] = Get(b, (t + p + 4 * (q - 1)) + (r + 1) - 1)
    <3>1. /\ t + p + 4 * (q - 1) \in Int /\ 4 \in 0..4
          /\ r + 1 \in 1..4 /\ 4 - 4 + (r + 1) = r + 1
      BY <1>2, <1>9
    <3>2. Word(b, t + p + 4 * (q - 1), 4)[4 - 4 + (r + 1)]
            = Get(b, (t + p + 4 * (q - 1)) + (r + 1) - 1)
      BY <3>1, WordTyped, Zenon
    <3> QED BY <3>1, <3>2
  <2>5. (t + p + 4 * (q - 1)) + (r + 1) - 1 = t + k - 1 BY <1>2, <1>9, <1>13
  <2> QED BY <1>10, <2>2, <2>3, <2>4, <2>5
<1> QED BY <1>2, <1>11, <1>12, <1>13

(* The driver begins without a transfer.                                   *)
LEMMA EcInitially == EcInit => EcInv
<1> SUFFICES ASSUME EcInit PROVE EcInv OBVIOUS
<1>1. EcTypeOK
  <2>1. MaxLen \in Nat BY LongestLen
  <2>2. BurstMax \in Nat /\ Xfers \in Nat BY EcSpiAssumption DEF BurstMax
  <2>3. buf \in [Index -> Byte] BY DEF EcInit, Byte
  <2>4. tx \in Seq(WordSet) /\ rx \in Seq(WordSet) /\ wire \in Seq(Byte) BY DEF EcInit
  <2>5. /\ xch \in BOOLEAN /\ tc \in BOOLEAN /\ inten \in BOOLEAN
        /\ expired \in BOOLEAN /\ backward \in BOOLEAN
    BY DEF EcInit
  <2>6. /\ xlen \in Lens \cup {0} /\ rlen \in Int /\ tlen \in 0..(MaxLen + 3) /\ dlen \in Dlens \cup {0}
        /\ bcnt \in 0..BurstMax /\ pulses \in 0..Xfers /\ begun \in 0..Xfers /\ len \in Int
        /\ pc \in {"idle", "load", "wait", "timedout", "fix"}
    BY <2>1, <2>2 DEF EcInit
  <2> QED BY <2>3, <2>4, <2>5, <2>6 DEF EcTypeOK
<1>2. PulsesInv BY DEF EcInit, PulsesInv
<1>3. QuietInv BY DEF EcInit, QuietInv, Still, Over
<1> QED BY <1>1, <1>2, <1>3 DEF EcInit, EcInv

(* The received words in the buffer.                                       *)
LEMMA ByteTyped ==
  ASSUME NEW s \in Seq(WordSet), NEW k \in 1..(4 * Len(s))
  PROVE  ByteOf(s, k) \in Byte
<1>1. ((k - 1) \div 4) + 1 \in 1..Len(s) /\ ((k - 1) % 4) + 1 \in 1..4 OBVIOUS
<1>2. s[((k - 1) \div 4) + 1] \in WordSet BY <1>1
<1> QED BY <1>1, <1>2 DEF ByteOf, WordSet

LEMMA StoredTyped ==
  ASSUME NEW b \in [Index -> Byte], NEW s \in Seq(WordSet), rlen \in Int
  PROVE  Stored(b, s) \in [Index -> Byte]
<1> SUFFICES ASSUME NEW i \in Index
             PROVE  (IF rlen <= i /\ i < rlen + 4 * Len(s)
                     THEN ByteOf(s, i - rlen + 1) ELSE b[i]) \in Byte
  BY DEF Stored
<1>1. i \in Int BY LongestLen DEF Index
<1>2. CASE rlen <= i /\ i < rlen + 4 * Len(s)
  <2>1. i - rlen + 1 \in 1..(4 * Len(s)) BY <1>1, <1>2
  <2> QED BY <1>2, <2>1, ByteTyped
<1>3. CASE ~(rlen <= i /\ i < rlen + 4 * Len(s)) BY <1>3
<1> QED BY <1>2, <1>3

LEMMA FixTyped ==
  ASSUME NEW b \in [Index -> Byte] PROVE Fix(b) \in [Index -> Byte]
<1>1. \A i : Get(b, i) \in Byte BY DEF Get, Byte
<1> QED BY <1>1 DEF Fix

LEMMA FixBackwardTyped ==
  ASSUME NEW b \in [Index -> Byte] PROVE FixBackward(b) \in [Index -> Byte]
<1>1. \A i : Get(b, i) \in Byte BY DEF Get, Byte
<1> QED BY <1>1 DEF FixBackward

(* Every step keeps the types, and the number of pulses within bounds.     *)
LEMMA NextType == ASSUME EcTypeOK, PulsesInv, [EcNext]_ecVars PROVE EcTypeOK' /\ PulsesInv'
<1>0. /\ MaxLen \in Nat /\ BurstMax \in Nat /\ Xfers \in Nat
      /\ xlen \in Nat /\ xlen <= MaxLen /\ (begun > 0 => dlen \in 1..4)
  BY LongestLen, EcSpiAssumption DEF BurstMax, EcTypeOK, PulsesInv
<1>1. CASE \E l \in Lens, d \in Dlens : Begin(l, d)
  <2> SUFFICES ASSUME NEW l \in Lens, NEW d \in Dlens, Begin(l, d) PROVE EcTypeOK' /\ PulsesInv'
    BY <1>1
  <2>1. buf' \in [Index -> Byte]
    <3>1. \A i \in Index : i + 1 \in Int BY <1>0 DEF Index
    <3> QED BY <3>1 DEF Begin, Byte
  <2>2. EcTypeOK'
    <3>1. backward' \in BOOLEAN /\ expired' \in BOOLEAN BY DEF Begin, EcTypeOK
    <3>2. /\ xch' \in BOOLEAN /\ tc' \in BOOLEAN /\ inten' \in BOOLEAN /\ bcnt' \in 0..BurstMax
      BY DEF Begin, EcTypeOK, regs
    <3>3. /\ xlen' \in Lens \cup {0} /\ rlen' \in Int /\ tlen' \in 0..(MaxLen + 3)
          /\ dlen' \in Dlens \cup {0} /\ begun' \in 0..Xfers /\ pc' = "load"
          /\ wire' \in Seq(Byte)
      BY <1>0 DEF Begin, EcTypeOK
    <3> QED BY <2>1, <3>1, <3>2, <3>3 DEF Begin, EcTypeOK
  <2>3. PulsesInv' BY DEF Begin, EcTypeOK, PulsesInv, regs
  <2> QED BY <2>2, <2>3
<1>2. CASE Load
  <2>1. begun > 0 /\ dlen \in 1..4 BY <1>0, <1>2 DEF Load, PulsesInv
  <2> DEFINE f == Fill(buf, xlen, 0, dlen)
  <2>2. f.words \in Seq(WordSet) /\ f.tlen \in 0..(xlen + 3) /\ f.bcnt \in 0..BurstMax
    <3>1. buf \in [Index -> Byte] /\ 0 \in Nat /\ 0 <= xlen BY <1>0 DEF EcTypeOK
    <3> QED BY <1>0, <2>1, <3>1, Filled
  <2>3. tx' = tx \o f.words /\ tlen' = f.tlen /\ bcnt' = f.bcnt BY <1>2 DEF Load
  <2> HIDE DEF f
  <2>4. tx' \in Seq(WordSet) /\ tlen' \in 0..(MaxLen + 3) /\ bcnt' \in 0..BurstMax
    BY <1>0, <2>2, <2>3 DEF EcTypeOK
  <2>5. EcTypeOK' BY <1>0, <1>2, <2>4 DEF Load, EcTypeOK, history
  <2>6. PulsesInv' BY <1>2 DEF Load, EcTypeOK, PulsesInv
  <2> QED BY <2>5, <2>6
<1>3. CASE WaitPulse
  <2>1. EcTypeOK'
    <3>1. pulses' \in 0..Xfers BY <1>0, <1>3 DEF WaitPulse, EcTypeOK
    <3> QED BY <1>3, <3>1 DEF WaitPulse, EcTypeOK, regs, history
  <2>2. PulsesInv' BY <1>3 DEF WaitPulse, EcTypeOK, PulsesInv, regs
  <2> QED BY <2>1, <2>2
<1>4. CASE WaitTimeout
  BY <1>4 DEF WaitTimeout, EcTypeOK, PulsesInv, regs
<1>5. CASE TimedOut
  BY <1>5 DEF TimedOut, EcTypeOK, PulsesInv, regs, history
<1>6. CASE Finish
  <2>1. buf' \in [Index -> Byte] BY <1>6, FixTyped, FixBackwardTyped DEF Finish, EcTypeOK
  <2>2. rlen' \in Int /\ len' \in Int BY <1>0, <1>6 DEF Finish, EcTypeOK, Pad
  <2>3. EcTypeOK' BY <1>6, <2>1, <2>2 DEF Finish, EcTypeOK, regs
  <2>4. PulsesInv' BY <1>6 DEF Finish, EcTypeOK, PulsesInv, regs
  <2> QED BY <2>3, <2>4
<1>7. CASE Intr
  <2>1. begun > 0 /\ dlen \in 1..4 BY <1>0, <1>7 DEF Intr, PulsesInv, EcTypeOK
  <2>2. tx' \in Seq(WordSet) /\ tlen' \in 0..(MaxLen + 3) /\ bcnt' \in 0..BurstMax
    <3>1. CASE xlen > tlen
      <4> DEFINE f == Fill(buf, xlen, tlen, dlen)
      <4>1. f.words \in Seq(WordSet) /\ f.tlen \in 0..(xlen + 3) /\ f.bcnt \in 0..BurstMax
        <5>1. buf \in [Index -> Byte] /\ tlen \in Nat /\ tlen <= xlen
          BY <1>0, <3>1 DEF EcTypeOK
        <5> QED BY <1>0, <2>1, <5>1, Filled
      <4>2. tx' = tx \o f.words /\ tlen' = f.tlen /\ bcnt' = f.bcnt
        BY <1>7, <3>1 DEF Intr
      <4> HIDE DEF f
      <4> QED BY <1>0, <4>1, <4>2 DEF EcTypeOK
    <3>2. CASE ~(xlen > tlen) BY <1>7, <3>2 DEF Intr, EcTypeOK
    <3> QED BY <3>1, <3>2
  <2>3. buf' \in [Index -> Byte] /\ rlen' \in Int
    <3>1. CASE dlen = 3 BY <1>7, <3>1 DEF Intr, EcTypeOK
    <3>2. CASE dlen # 3
      <4>1. buf' = Stored(buf, rx) /\ rlen' = rlen + 4 * Len(rx) BY <1>7, <3>2 DEF Intr
      <4>2. buf \in [Index -> Byte] /\ rx \in Seq(WordSet) /\ rlen \in Int
        BY DEF EcTypeOK
      <4>3. Stored(buf, rx) \in [Index -> Byte] BY <4>2, StoredTyped
      <4>4. Len(rx) \in Nat BY <4>2
      <4> QED BY <4>1, <4>2, <4>3, <4>4
    <3> QED BY <3>1, <3>2
  <2>a. /\ inten /\ pc' = pc /\ begun' = begun /\ dlen' = dlen /\ xlen' = xlen
        /\ \/ inten' = FALSE /\ pulses' = pulses + 1 /\ xch' = xch
           \/ inten' = inten /\ pulses' = pulses /\ xch' = TRUE
    BY <1>7 DEF Intr, Complete
  <2>b. pulses \in Nat /\ begun \in 0..Xfers /\ pulses + 1 <= begun
    BY <1>0, <2>a DEF EcTypeOK, PulsesInv
  <2>c. (pulses' = pulses + 1 /\ ~inten') \/ (pulses' = pulses /\ inten') BY <2>a
  <2>4. /\ rx' \in Seq(WordSet) /\ pulses' \in 0..Xfers
        /\ xch' \in BOOLEAN /\ tc' \in BOOLEAN /\ inten' \in BOOLEAN
    <3>1. rx' = <<>> /\ tc' = FALSE BY <1>7 DEF Intr
    <3>2. pulses' \in 0..Xfers BY <1>0, <2>b, <2>c
    <3>3. xch' \in BOOLEAN /\ inten' \in BOOLEAN BY <2>a DEF EcTypeOK
    <3>4. rx' \in Seq(WordSet) BY <3>1
    <3>5. tc' \in BOOLEAN BY <3>1
    <3> QED BY <3>2, <3>3, <3>4, <3>5
  <2>5. EcTypeOK' BY <1>7, <2>2, <2>3, <2>4 DEF Intr, EcTypeOK, history
  <2>6. PulsesInv'
    <3>1. inten /\ pc' = pc /\ begun' = begun /\ dlen' = dlen /\ xlen' = xlen BY <2>a
    <3> QED BY <2>b, <2>c, <3>1 DEF PulsesInv
  <2> QED BY <2>5, <2>6
<1>8. CASE Exchange
  <2>1. Words(bcnt) \in Nat /\ Pad(bcnt) \in 0..3 /\ Pad(bcnt) + bcnt = 4 * Words(bcnt)
    BY <1>0 DEF Words, Pad, EcTypeOK
  <2>2. tx' \in Seq(WordSet)
    <3>0. tx \in Seq(WordSet) /\ Len(tx) >= Words(bcnt) BY <1>8 DEF Exchange, EcTypeOK
    <3>1. tx \in Seq(WordSet) /\ Words(bcnt) + 1 \in 1..(Len(tx) + 1) BY <2>1, <3>0
    <3>2. tx' = SubSeq(tx, Words(bcnt) + 1, Len(tx)) BY <1>8 DEF Exchange
    <3> QED BY <3>1, <3>2
  <2>3. rx' \in Seq(WordSet)
    <3> DEFINE in(k) == IF k <= Pad(bcnt) THEN 0 ELSE -(Len(wire) + k - Pad(bcnt))
               got == [w \in 1..Words(bcnt) |-> [k \in 1..4 |-> in(4 * (w - 1) + k)]]
    <3>1. \A w \in 1..Words(bcnt), k \in 1..4 : in(4 * (w - 1) + k) \in Byte
      <4> SUFFICES ASSUME NEW w \in 1..Words(bcnt), NEW k \in 1..4
                   PROVE  in(4 * (w - 1) + k) \in Int
        BY DEF Byte
      <4>1. Len(wire) \in Nat /\ 4 * (w - 1) + k \in Int BY <2>1 DEF EcTypeOK
      <4> QED BY <2>1, <4>1
    <3>2. rx' = rx \o got BY <1>8 DEF Exchange
    <3> HIDE DEF in
    <3>3. got \in Seq(WordSet) BY <2>1, <3>1 DEF WordSet
    <3> HIDE DEF got
    <3> QED BY <3>2, <3>3 DEF EcTypeOK
  <2>4. wire' \in Seq(Byte)
    <3> DEFINE out == [k \in 1..bcnt |-> ByteOf(tx, Pad(bcnt) + k)]
    <3>1. \A k \in 1..bcnt : Pad(bcnt) + k \in 1..(4 * Len(tx))
      <4>1. Len(tx) \in Nat /\ Len(tx) >= Words(bcnt) /\ bcnt \in Nat
        BY <1>8 DEF Exchange, EcTypeOK
      <4> QED BY <2>1, <4>1
    <3>2. \A k \in 1..bcnt : ByteOf(tx, Pad(bcnt) + k) \in Byte
      BY <3>1, ByteTyped DEF EcTypeOK
    <3>3. out \in Seq(Byte) BY <1>0, <3>2 DEF EcTypeOK
    <3>4. wire' = wire \o out BY <1>8 DEF Exchange
    <3> HIDE DEF out
    <3> QED BY <3>3, <3>4 DEF EcTypeOK
  <2>5. EcTypeOK' BY <1>8, <2>2, <2>3, <2>4 DEF Exchange, EcTypeOK, history
  <2>6. PulsesInv' BY <1>8 DEF Exchange, EcTypeOK, PulsesInv
  <2> QED BY <2>5, <2>6
<1>9. CASE UNCHANGED ecVars BY <1>9 DEF ecVars, regs, history, EcTypeOK, PulsesInv
<1> QED BY <1>1, <1>2, <1>3, <1>4, <1>5, <1>6, <1>7, <1>8, <1>9 DEF EcNext, Xfer

(* Every step without a timeout keeps the controller, the handler and the  *)
(* driver in step.                                                         *)
LEMMA NextQuiet ==
  ASSUME EcTypeOK, EcTypeOK', PulsesInv, QuietInv, ~expired, ~expired', [EcNext]_ecVars
  PROVE  QuietInv'
<1>0. /\ FifoWords \in Nat /\ FifoWords > 0 /\ BurstMax = 4 * FifoWords
      /\ xlen \in Nat /\ tlen \in Nat /\ rlen \in Int /\ bcnt \in Nat
      /\ (begun > 0 => dlen \in 1..4)
  BY LongestLen, EcSpiAssumption DEF BurstMax, EcTypeOK, PulsesInv
<1>1. CASE \E l \in Lens, d \in Dlens : Begin(l, d)
  BY <1>1 DEF Begin, QuietInv, Still, Over, regs
<1>2. CASE Load
  <2>1. begun > 0 /\ dlen \in 1..4 BY <1>0, <1>2 DEF Load, PulsesInv
  <2> DEFINE f == Fill(buf, xlen, 0, dlen)
  <2>2. /\ f.words \in Seq(WordSet) /\ f.bcnt = NextBurst(xlen) /\ Len(f.words) = Words(NextBurst(xlen))
        /\ f.tlen \in Nat
        /\ xlen >= BurstMax => f.tlen = BurstMax
        /\ xlen < BurstMax => f.tlen >= xlen
    <3>1. xlen - 0 = xlen /\ 0 + BurstMax = BurstMax /\ 0 \in Nat /\ 0 <= xlen BY <1>0
    <3>2. buf \in [Index -> Byte] BY DEF EcTypeOK
    <3> QED BY <1>0, <2>1, <3>1, <3>2, Filled
  <2>3. tx' = <<>> \o f.words /\ tlen' = f.tlen /\ bcnt' = f.bcnt
    BY <1>2 DEF Load, QuietInv, Still
  <2>4. /\ rlen = 0 /\ pulses = 0 /\ ~tc /\ xch' /\ inten' /\ rx' = <<>> /\ pc' = "wait"
        /\ tc' = tc /\ pulses' = pulses /\ rlen' = rlen /\ xlen' = xlen /\ dlen' = dlen
    BY <1>2 DEF Load, QuietInv, Still
  <2> HIDE DEF f
  <2>5. Len(tx') = Words(bcnt') /\ bcnt' = NextBurst(xlen) BY <2>2, <2>3
  <2>6. Sending' BY <2>4, <2>5 DEF Sending
  <2>7. BurstInv' BY <1>0, <2>2, <2>3, <2>4, <2>5 DEF BurstInv, NextBurst
  <2> QED BY <2>4, <2>6, <2>7 DEF QuietInv, Over
<1>3. CASE WaitPulse
  BY <1>3 DEF WaitPulse, QuietInv, Still, Sending, Sent, Over, regs
<1>4. CASE WaitTimeout BY <1>4 DEF WaitTimeout
<1>5. CASE TimedOut BY <1>5 DEF TimedOut, QuietInv
<1>6. CASE Finish
  <2>1. rlen' = xlen
    BY <1>0, <1>6 DEF Finish, QuietInv, Over, Words, Pad
  <2> QED BY <1>0, <1>6, <2>1 DEF Finish, QuietInv, Still, Over, regs
<1>7. CASE Intr
  <2>1. pc = "wait" /\ Sent /\ BurstInv /\ begun > 0 /\ dlen \in 1..4
    BY <1>0, <1>7 DEF Intr, QuietInv, Still, Sending, Sent, EcTypeOK, PulsesInv
  <2>2. /\ ~tc' /\ rx' = <<>> /\ pc' = "wait" /\ xlen' = xlen /\ dlen' = dlen
        /\ Len(rx) = Words(bcnt) /\ bcnt > 0 /\ tx = <<>> /\ xlen > 0 /\ ~xch
        /\ inten /\ pulses = 0
    BY <1>7, <2>1 DEF Intr, Sent, BurstInv
  <2>3. CASE xlen > tlen
    <3> DEFINE f == Fill(buf, xlen, tlen, dlen)
    <3>1. /\ f.words \in Seq(WordSet) /\ f.bcnt = NextBurst(xlen - tlen)
          /\ Len(f.words) = Words(NextBurst(xlen - tlen))
          /\ f.tlen \in Nat
          /\ xlen - tlen >= BurstMax => f.tlen = tlen + BurstMax
          /\ xlen - tlen < BurstMax => f.tlen >= xlen
      <4>1. buf \in [Index -> Byte] /\ tlen <= xlen BY <1>0, <2>3 DEF EcTypeOK
      <4> QED BY <1>0, <2>1, <4>1, Filled
    <3>2. tx' = <<>> \o f.words /\ tlen' = f.tlen /\ bcnt' = f.bcnt
      BY <1>7, <2>2, <2>3 DEF Intr
    <3> HIDE DEF f
    <3>3. Len(tx') = Words(bcnt') /\ bcnt' = NextBurst(xlen - tlen) BY <3>1, <3>2
    <3>4. dlen # 3 => rlen' = tlen
      BY <1>0, <1>7, <2>1, <2>2, <2>3 DEF Intr, BurstInv, NextBurst, Words
    <3>5. dlen = 3 => rlen' = 0 BY <1>7, <2>1 DEF Intr, BurstInv
    <3>6. xch' /\ inten' /\ pulses' = 0
      <4>1. ~(rlen' >= xlen) BY <1>0, <2>2, <2>3, <3>4, <3>5
      <4>2. IF rlen' >= xlen THEN Complete ELSE xch' = TRUE /\ UNCHANGED <<inten, pulses>>
        BY <1>7 DEF Intr
      <4>3. xch' = TRUE /\ inten' = inten /\ pulses' = pulses BY <4>1, <4>2
      <4> QED BY <2>2, <4>3
    <3>7. Sending' BY <2>2, <3>3, <3>6 DEF Sending
    <3>8. BurstInv'
      <4>1. dlen # 3 => tlen % 4 = 0 BY <1>0, <2>1, <2>3 DEF BurstInv
      <4> QED
        BY <1>0, <2>2, <2>3, <3>1, <3>2, <3>3, <3>4, <3>5, <4>1 DEF BurstInv, NextBurst
    <3> QED BY <2>2, <3>6, <3>7, <3>8 DEF QuietInv, Over
  <2>4. CASE ~(xlen > tlen)
    <3>1. tx' = <<>> /\ tlen' = tlen /\ bcnt' = bcnt BY <1>7, <2>2, <2>4 DEF Intr
    <3>2. CASE dlen = 3
      <4>1. rlen' = 0 /\ rlen = 0 BY <1>7, <2>1, <3>2 DEF Intr, BurstInv
      <4>2. xch' /\ inten' /\ pulses' = 0
        <5>1. ~(rlen' >= xlen) BY <1>0, <2>2, <4>1
        <5>2. IF rlen' >= xlen THEN Complete ELSE xch' = TRUE /\ UNCHANGED <<inten, pulses>>
          BY <1>7 DEF Intr
        <5>3. xch' = TRUE /\ inten' = inten /\ pulses' = pulses BY <5>1, <5>2
        <5> QED BY <2>2, <5>3
      <4>3. Sending' /\ BurstInv' BY <2>2, <3>1, <3>2, <4>1, <4>2 DEF Sending, BurstInv
      <4> QED BY <2>2, <4>2, <4>3 DEF QuietInv, Over
    <3>3. CASE dlen # 3
      <4>1. bcnt = xlen - rlen /\ rlen >= 0 /\ rlen % 4 = 0
        BY <1>0, <2>1, <2>4, <3>3 DEF BurstInv
      <4>2. rlen' = rlen + 4 * Words(bcnt) BY <1>7, <2>2, <3>3 DEF Intr
      <4>3. rlen' = 4 * Words(xlen) /\ rlen' >= xlen BY <1>0, <4>1, <4>2 DEF Words
      <4>4. ~inten' /\ pulses' = 1 /\ ~xch' BY <1>7, <2>2, <4>3 DEF Intr, Complete
      <4> QED BY <2>2, <3>1, <3>3, <4>3, <4>4 DEF QuietInv, Over, Still
    <3> QED BY <3>2, <3>3
  <2> QED BY <2>3, <2>4
<1>8. CASE Exchange
  <2>0. xch BY <1>8 DEF Exchange
  <2>a. pc = "wait"
    <3>1. ~Still BY <2>0 DEF Still
    <3> QED BY <3>1 DEF QuietInv, EcTypeOK
  <2>1. pc = "wait" /\ Sending /\ BurstInv
    <3>1. ~Still /\ ~Sent BY <2>0 DEF Still, Sent
    <3> QED BY <2>a, <3>1 DEF QuietInv
  <2>2. /\ bcnt > 0 /\ Len(tx) >= Words(bcnt) /\ tx' = SubSeq(tx, Words(bcnt) + 1, Len(tx))
        /\ ~xch' /\ tc' /\ inten' = inten /\ pulses' = pulses /\ bcnt' = bcnt /\ pc' = pc
        /\ xlen' = xlen /\ rlen' = rlen /\ tlen' = tlen /\ dlen' = dlen
    BY <1>8 DEF Exchange
  <2>3. Words(bcnt) > 0 /\ Words(bcnt) \in Nat BY <1>0, <2>2 DEF Words
  <2>4. Len(tx) = Words(bcnt)
    <3>1. tx # <<>> BY <2>2, <2>3
    <3> QED BY <2>1, <3>1 DEF Sending
  <2>5. tx' = <<>>
    <3>0. tx \in Seq(WordSet) BY DEF EcTypeOK
    <3>1. Len(tx) \in Int /\ Len(tx) + 1 \in Int /\ Len(tx) < Len(tx) + 1 BY <2>3, <2>4
    <3> QED BY <2>2, <2>4, <3>0, <3>1
  <2>6. Len(rx') = Words(bcnt)
    <3> DEFINE in(k) == IF k <= Pad(bcnt) THEN 0 ELSE -(Len(wire) + k - Pad(bcnt))
               word(w) == [k \in 1..4 |-> in(4 * (w - 1) + k)]
               got == [w \in 1..Words(bcnt) |-> word(w)]
    <3>1. rx' = <<>> \o got BY <1>8, <2>1 DEF Exchange, Sending
    <3> HIDE DEF word
    <3>2. got \in Seq({word(w) : w \in 1..Words(bcnt)}) /\ Len(got) = Words(bcnt)
      BY <2>3
    <3> HIDE DEF got
    <3> QED BY <3>1, <3>2
  <2>7. Sent' BY <2>1, <2>2, <2>5, <2>6 DEF Sent, Sending
  <2>8. BurstInv' BY <2>1, <2>2 DEF BurstInv
  <2>9. pulses' = 0 BY <2>1, <2>2 DEF Sending
  <2> QED BY <2>1, <2>2, <2>7, <2>8, <2>9 DEF QuietInv, Over
<1>9. CASE UNCHANGED ecVars
  BY <1>9 DEF ecVars, regs, QuietInv, Still, Sending, Sent, BurstInv, Over
<1> QED BY <1>1, <1>2, <1>3, <1>4, <1>5, <1>6, <1>7, <1>8, <1>9 DEF EcNext, Xfer

(* Every step without a timeout keeps the bytes of a supported transfer    *)
(* where they belong.                                                      *)
LEMMA NextBytes ==
  ASSUME EcTypeOK, EcTypeOK', PulsesInv, PulsesInv', QuietInv, QuietInv', ~expired, ~expired',
         begun > 0 /\ Supported => BytesInv, [EcNext]_ecVars, begun' > 0, Supported'
  PROVE  BytesInv'
<1>0. /\ FifoWords \in Nat /\ FifoWords > 0 /\ BurstMax = 4 * FifoWords
      /\ MaxLen \in Nat /\ xlen \in Nat /\ xlen <= MaxLen /\ tlen \in Nat /\ rlen \in Int
      /\ bcnt \in Nat /\ bcnt <= BurstMax /\ (begun > 0 => dlen \in 1..4)
      /\ buf \in [Index -> Byte] /\ tx \in Seq(WordSet) /\ rx \in Seq(WordSet)
      /\ wire \in Seq(Byte) /\ Len(wire) \in Nat /\ Len(tx) \in Nat /\ Len(rx) \in Nat
  BY LongestLen, EcSpiAssumption DEF BurstMax, EcTypeOK, PulsesInv
<1>m. /\ FifoWords \in Nat /\ FifoWords > 0 /\ BurstMax = 4 * FifoWords
      /\ MaxLen \in Nat /\ xlen \in Nat /\ xlen <= MaxLen /\ tlen \in Nat /\ rlen \in Int
      /\ bcnt \in Nat /\ bcnt <= BurstMax
  BY <1>0
<1>p. \A m \in Nat : Pad(m) \in 0..3 BY DEF Pad
<1>i. \A i : i \in Index <=> i \in Int /\ 0 <= i /\ i <= MaxLen + 3 BY <1>0 DEF Index
<1>1. CASE \E l \in Lens, d \in Dlens : Begin(l, d)
  <2> SUFFICES ASSUME NEW l \in Lens, NEW d \in Dlens, Begin(l, d) PROVE BytesInv'
    BY <1>1
  <2>1. pc' = "load" /\ wire' = <<>> /\ rlen' = 0 /\ xlen' = l BY DEF Begin
  <2>2. \A i \in Index : Unsent(i)'
    <3> SUFFICES ASSUME NEW i \in Index, i < l PROVE buf'[i] = i + 1 BY <2>1 DEF Unsent
    <3> QED BY DEF Begin
  <2>3. Len(wire') = 0 BY <2>1
  <2> QED BY <2>1, <2>2, <2>3 DEF BytesInv, BytesExact, Over
<1>s. ASSUME begun' = begun, xlen' = xlen, dlen' = dlen
      PROVE  /\ BytesInv /\ dlen \in 1..4
             /\ dlen = 1 \/ (dlen = 2 /\ xlen % 2 = 0) \/ (dlen = 4 /\ xlen % 4 = 0)
  <2>1. Supported /\ begun > 0 BY <1>s DEF Supported
  <2>2. dlen \in 1..4 BY <1>0, <2>1
  <2>3. dlen # 3 /\ xlen % dlen = 0 BY <2>1 DEF Supported
  <2>4. dlen = 1 \/ dlen = 2 \/ dlen = 4 BY <2>2, <2>3
  <2>5. dlen = 1 \/ (dlen = 2 /\ xlen % 2 = 0) \/ (dlen = 4 /\ xlen % 4 = 0)
    BY <2>3, <2>4
  <2> QED BY <2>1, <2>2, <2>5
<1>2. CASE Load
  <2>1. /\ begun' = begun /\ xlen' = xlen /\ dlen' = dlen /\ rlen' = rlen /\ wire' = wire /\ buf' = buf
        /\ pc' = "wait" /\ tc' = tc /\ pulses' = pulses /\ pc = "load"
    BY <1>2 DEF Load
  <2>2. rlen = 0 /\ ~tc /\ pulses = 0 /\ tx = <<>> BY <2>1 DEF QuietInv, Still
  <2>3. /\ BytesInv /\ dlen \in 1..4
        /\ dlen = 1 \/ (dlen = 2 /\ xlen % 2 = 0) \/ (dlen = 4 /\ xlen % 4 = 0)
    BY <2>1, <1>s
  <2>4. wire = <<>> /\ \A i \in Index : Unsent(i) BY <2>1, <2>3 DEF BytesInv
  <2>5. \A i \in Index : Unsent(i)' /\ Answered(i)'
    <3> SUFFICES ASSUME NEW i \in Index PROVE Unsent(i)' /\ Answered(i)' OBVIOUS
    <3>1. Unsent(i)' BY <2>1, <2>4 DEF Unsent
    <3>2. Answered(i)' BY <1>i, <2>1, <2>2 DEF Answered
    <3> QED BY <3>1, <3>2
  <2>6. (InBursts(xlen) = rlen + InBursts(xlen - rlen))'
    <3>1. xlen - 0 = xlen /\ InBursts(xlen) \in Nat BY <1>0, WholeBursts
    <3>2. InBursts(xlen') = InBursts(xlen) /\ InBursts(xlen' - rlen') = InBursts(xlen)
      BY <2>1, <2>2, <3>1
    <3> QED BY <2>1, <2>2, <3>1, <3>2
  <2>7. \A k \in 1..bcnt' : ByteOf(tx', Pad(bcnt') + k) = rlen' + k
    <3> DEFINE f == Fill(buf, xlen, 0, dlen)
    <3>1. xlen - 0 = xlen /\ 0 \in Nat /\ 0 <= xlen BY <1>0
    <3>2. f.words \in Seq(WordSet) /\ f.bcnt = NextBurst(xlen) /\ NextBurst(xlen) \in 0..BurstMax
      BY <1>0, <2>3, <3>1, Filled
    <3>3. tx' = <<>> \o f.words /\ bcnt' = NextBurst(xlen) BY <1>2, <2>2, <3>2 DEF Load
    <3>4. tx' = f.words
      <4> HIDE DEF f
      <4> QED BY <3>2, <3>3
    <3>5. ASSUME NEW k \in 1..NextBurst(xlen)
          PROVE  ByteOf(f.words, Pad(NextBurst(xlen)) + k) = k
      <4>1. k \in Nat /\ k >= 1 /\ k <= xlen BY <1>0, <3>2 DEF NextBurst
      <4>2. ByteOf(f.words, Pad(NextBurst(xlen)) + k) = Get(buf, 0 + k - 1)
        BY <1>0, <2>3, <3>1, FilledExact
      <4>3. 0 + k - 1 = k - 1 /\ k - 1 \in Index /\ 0 <= k - 1 /\ k - 1 < xlen /\ (k - 1) + 1 = k
        BY <1>0, <1>i, <4>1
      <4>4. buf[k - 1] = k BY <2>2, <2>4, <4>3 DEF Unsent
      <4> QED BY <4>2, <4>3, <4>4 DEF Get
    <3> HIDE DEF f
    <3>6. ASSUME NEW k \in 1..bcnt' PROVE ByteOf(tx', Pad(bcnt') + k) = rlen' + k
      <4>1. ByteOf(tx', Pad(bcnt') + k) = k BY <3>3, <3>4, <3>5
      <4>2. rlen' + k = k BY <2>1, <2>2, <3>2, <3>3
      <4> QED BY <4>1, <4>2
    <3> QED BY <3>6
  <2>8. /\ \A k \in 1..Len(wire') : wire'[k] = k
        /\ Len(wire') = rlen' /\ ~tc' /\ pulses' = 0
    BY <2>1, <2>2, <2>4
  <2> QED BY <2>1, <2>5, <2>6, <2>7, <2>8 DEF BytesInv, BytesExact, Over
<1>3. CASE WaitPulse
  <2>1. /\ begun' = begun /\ xlen' = xlen /\ dlen' = dlen /\ wire' = wire /\ buf' = buf
        /\ pc = "wait" /\ pc' = "fix" /\ pulses > 0
    BY <1>3 DEF WaitPulse
  <2>2. BytesInv BY <2>1, <1>s
  <2>3. Over BY <2>1 DEF QuietInv, Over, Sending, Sent
  <2>4. Over' BY <2>1 DEF Over
  <2> QED BY <2>1, <2>2, <2>3, <2>4 DEF BytesInv, BytesExact
<1>4. CASE WaitTimeout BY <1>4 DEF WaitTimeout
<1>5. CASE TimedOut BY <1>5 DEF TimedOut, QuietInv
<1>6. CASE Finish
  <2>1. /\ begun' = begun /\ xlen' = xlen /\ dlen' = dlen /\ wire' = wire
        /\ pc = "fix" /\ pc' = "idle" /\ rlen' = rlen - Pad(xlen) /\ len' = rlen'
        /\ ~backward' => buf' = Fix(buf)
    BY <1>6 DEF Finish
  <2>2. BytesInv BY <2>1, <1>s
  <2>3. Over /\ ~Over' BY <2>1 DEF Over
  <2>4. len' = xlen
    BY <1>0, <2>1, <2>3 DEF QuietInv, Words, Pad
  <2>5. wire = [k \in 1..xlen |-> k]
    <3>1. Len(wire) = xlen /\ \A k \in 1..Len(wire) : wire[k] = k
      BY <2>2, <2>3 DEF BytesInv
    <3>2. wire \in [1..Len(wire) -> Byte] BY <1>0
    <3> QED BY <3>1, <3>2
  <2>6. ASSUME ~backward', NEW i \in 0..(xlen - 1) PROVE buf'[i] = -(i + 1)
    <3>a. Pad(xlen) \in 0..3 /\ InBursts(xlen) \in Nat BY <1>m, <1>p, WholeBursts
    <3>1. /\ i \in Index /\ i \in Int /\ i < xlen /\ Pad(xlen) \in 0..3 /\ i + Pad(xlen) \in Index
          /\ InBursts(xlen) \in Nat
      BY <1>m, <1>i, <3>a
    <3>2. buf'[i] = IF InBursts(xlen) <= i /\ i < xlen THEN Get(buf, i + Pad(xlen)) ELSE buf[i]
      BY <2>1, <2>6, <3>1 DEF Fix
    <3>3. CASE InBursts(xlen) <= i
      <4>1. buf[i + Pad(xlen)] = -(i + 1) BY <2>2, <2>3, <3>1, <3>3 DEF BytesInv
      <4> QED BY <3>1, <3>2, <3>3, <4>1 DEF Get
    <3>4. CASE i < InBursts(xlen)
      <4>1. buf[i] = -(i + 1) BY <2>2, <2>3, <3>1, <3>4 DEF BytesInv
      <4> QED BY <3>1, <3>2, <3>4, <4>1
    <3> QED BY <3>1, <3>3, <3>4
  <2>7. BytesExact' BY <2>1, <2>4, <2>5, <2>6 DEF BytesExact
  <2>8. \A k \in 1..Len(wire') : wire'[k] = k BY <2>1, <2>2 DEF BytesInv
  <2> QED BY <2>1, <2>3, <2>7, <2>8 DEF BytesInv
<1>7. CASE Intr
  <2>1. pc = "wait" /\ Sent /\ BurstInv /\ tc
    BY <1>7 DEF Intr, QuietInv, Still, Sending, Sent, EcTypeOK
  <2>2. /\ begun' = begun /\ xlen' = xlen /\ dlen' = dlen /\ wire' = wire /\ pc' = "wait" /\ ~tc'
    BY <1>7, <2>1 DEF Intr
  <2>3. /\ BytesInv /\ dlen \in 1..4
        /\ dlen = 1 \/ (dlen = 2 /\ xlen % 2 = 0) \/ (dlen = 4 /\ xlen % 4 = 0)
    BY <2>2, <1>s
  <2>4. /\ dlen # 3 /\ Len(rx) = Words(bcnt) /\ bcnt > 0 /\ tx = <<>> /\ ~Over /\ pulses = 0
        /\ rlen >= 0 /\ rlen % 4 = 0 /\ rlen < xlen /\ bcnt = NextBurst(xlen - rlen)
        /\ tlen < xlen => tlen = rlen + BurstMax
        /\ tlen >= xlen => bcnt = xlen - rlen
    BY <2>1, <2>3 DEF Sent, BurstInv, Over
  <2>5. /\ Len(wire) = rlen + bcnt
        /\ \A i \in Index : Unsent(i) /\ Answered(i)
        /\ InBursts(xlen) = rlen + InBursts(xlen - rlen)
        /\ \A k \in 1..bcnt : ByteOf(rx, Pad(bcnt) + k) = -(rlen + k)
    BY <2>1, <2>3, <2>4 DEF BytesInv
  <2>6. buf' = Stored(buf, rx) /\ rlen' = rlen + 4 * Len(rx) BY <1>7, <2>4 DEF Intr
  <2>7. \A i \in Index : buf'[i] = IF rlen <= i /\ i < rlen + 4 * Len(rx)
                                   THEN ByteOf(rx, i - rlen + 1) ELSE buf[i]
    BY <2>6 DEF Stored
  <2>8. \A k \in 1..Len(wire') : wire'[k] = k BY <2>2, <2>3 DEF BytesInv
  <2>9. CASE xlen > tlen
    <3>1. /\ tlen = rlen + BurstMax /\ bcnt = BurstMax /\ 4 * Len(rx) = bcnt /\ Pad(bcnt) = 0
          /\ rlen' = tlen /\ tlen % 4 = 0 /\ tlen \in Int /\ tlen > rlen
      BY <1>0, <2>4, <2>6, <2>9 DEF NextBurst, Words, Pad
    <3>2. \A i \in Index : Unsent(i)' /\ Answered(i)'
      <4> SUFFICES ASSUME NEW i \in Index PROVE Unsent(i)' /\ Answered(i)' OBVIOUS
      <4>0. i \in Int /\ i >= 0 BY <1>i
      <4>1. CASE i < rlen
        <5>1. buf'[i] = buf[i] /\ buf[i] = -(i + 1)
          BY <1>0, <2>5, <2>7, <4>0, <4>1 DEF Answered
        <5> QED BY <1>0, <3>1, <4>0, <4>1, <5>1 DEF Unsent, Answered
      <4>2. CASE rlen <= i /\ i < tlen
        <5>1. i - rlen + 1 \in 1..bcnt /\ Pad(bcnt) + (i - rlen + 1) = i - rlen + 1
              /\ rlen + (i - rlen + 1) = i + 1
          BY <1>0, <3>1, <4>0, <4>2
        <5>2. buf'[i] = ByteOf(rx, i - rlen + 1) BY <1>0, <2>7, <3>1, <4>0, <4>2
        <5>3. ByteOf(rx, Pad(bcnt) + (i - rlen + 1)) = -(rlen + (i - rlen + 1))
          BY <2>5, <5>1
        <5>4. buf'[i] = -(i + 1) BY <5>1, <5>2, <5>3
        <5> QED BY <1>0, <3>1, <4>0, <4>2, <5>4 DEF Unsent, Answered
      <4>3. CASE tlen <= i
        <5>1. buf'[i] = buf[i] BY <1>0, <2>7, <3>1, <4>0, <4>3
        <5>2. i < xlen => buf[i] = i + 1 BY <1>0, <2>5, <3>1, <4>0, <4>3 DEF Unsent
        <5> QED BY <1>0, <2>2, <3>1, <4>0, <4>3, <5>1, <5>2 DEF Unsent, Answered
      <4> QED BY <1>0, <4>0, <4>1, <4>2, <4>3
    <3>3. (InBursts(xlen) = rlen + InBursts(xlen - rlen))'
      <4>1. xlen - rlen \in Nat /\ xlen - rlen >= BurstMax /\ (xlen - rlen) - BurstMax = xlen - tlen
        BY <1>0, <2>4, <2>9, <3>1
      <4>2. InBursts(xlen - rlen) = InBursts(xlen - tlen) + BurstMax
        BY <4>1, WholeBursts
      <4>3. xlen - tlen \in Nat BY <1>0, <2>9
      <4>4. InBursts(xlen - tlen) \in Nat BY <4>3, WholeBursts
      <4>5. InBursts(xlen) = tlen + InBursts(xlen - tlen) 
        <5>1. InBursts(xlen) = rlen + InBursts(xlen - rlen) /\ tlen = rlen + BurstMax
          BY <2>5, <3>1
        <5> QED BY <1>m, <4>2, <4>4, <5>1
      <4> QED BY <2>2, <3>1, <4>5 DEF InBursts
    <3> DEFINE f == Fill(buf, xlen, tlen, dlen)
    <3>4. /\ f.words \in Seq(WordSet) /\ f.bcnt = NextBurst(xlen - tlen)
          /\ NextBurst(xlen - tlen) \in 0..BurstMax
      <4>1. tlen <= xlen BY <1>m, <2>9
      <4> QED BY <1>0, <2>3, <4>1, Filled
    <3>5. tx' = <<>> \o f.words /\ bcnt' = NextBurst(xlen - tlen)
      BY <1>7, <2>4, <2>9, <3>4 DEF Intr
    <3>6. tx' = f.words
      <4> HIDE DEF f
      <4> QED BY <3>4, <3>5
    <3>7. ASSUME NEW k \in 1..NextBurst(xlen - tlen)
          PROVE  ByteOf(f.words, Pad(NextBurst(xlen - tlen)) + k) = tlen + k
      <4>1. k \in Nat /\ k >= 1 /\ k <= xlen - tlen BY <1>0, <2>9, <3>4 DEF NextBurst
      <4>2. \/ dlen = 1 \/ (dlen = 2 /\ (xlen - tlen) % 2 = 0)
            \/ (dlen = 4 /\ (xlen - tlen) % 4 = 0)
        <5>1. tlen % 4 = 0 BY <3>1
        <5> QED BY <1>m, <2>3, <5>1
      <4>3. tlen <= xlen BY <1>0, <2>9
      <4>4. ByteOf(f.words, Pad(NextBurst(xlen - tlen)) + k) = Get(buf, tlen + k - 1)
        BY <1>0, <2>3, <4>2, <4>3, FilledExact
      <4>5. /\ tlen + k - 1 \in Index /\ rlen <= tlen + k - 1 /\ tlen + k - 1 < xlen
            /\ (tlen + k - 1) + 1 = tlen + k
        <5>1. rlen >= 0 /\ rlen < tlen BY <2>4, <3>1
        <5> QED BY <1>m, <1>i, <4>1, <5>1
      <4>6. buf[tlen + k - 1] = tlen + k BY <2>5, <4>5 DEF Unsent
      <4> QED BY <4>4, <4>5, <4>6 DEF Get
    <3> HIDE DEF f
    <3>8. \A k \in 1..bcnt' : ByteOf(tx', Pad(bcnt') + k) = rlen' + k
      BY <3>1, <3>5, <3>6, <3>7
    <3>9. ~Over' /\ Len(wire') = rlen'
      <4>1. Len(wire') = rlen' BY <2>2, <2>5, <3>1
      <4>2. rlen' < xlen BY <2>9, <3>1, <1>0
      <4>3. pulses' = 0
        <5>1. ~(rlen' >= xlen) BY <1>0, <3>1, <4>2
        <5>2. IF rlen' >= xlen THEN Complete ELSE xch' = TRUE /\ UNCHANGED <<inten, pulses>>
          BY <1>7 DEF Intr
        <5> QED BY <2>4, <5>1, <5>2
      <4> QED BY <2>2, <4>1, <4>3 DEF Over
    <3> QED BY <2>2, <2>8, <3>2, <3>3, <3>8, <3>9 DEF BytesInv, BytesExact
  <2>10. CASE ~(xlen > tlen)
    <3>1. /\ bcnt = xlen - rlen /\ Len(wire) = xlen
          /\ rlen + 4 * Len(rx) = 4 * Words(xlen) /\ 4 * Words(xlen) = xlen + Pad(xlen)
          /\ Pad(xlen) = Pad(bcnt) /\ Pad(xlen) \in 0..3
      <4>1. bcnt = xlen - rlen /\ rlen >= 0 /\ rlen % 4 = 0 BY <1>m, <2>4, <2>10
      <4>2. Len(rx) = Words(bcnt) /\ Len(wire) = rlen + bcnt BY <2>4, <2>5
      <4>3. Len(wire) = xlen BY <1>m, <4>1, <4>2
      <4>4. rlen + 4 * Words(bcnt) = 4 * Words(xlen) /\ 4 * Words(xlen) = xlen + Pad(xlen)
        BY <1>m, <4>1 DEF Words, Pad
      <4>5. Pad(xlen) = Pad(bcnt) /\ Pad(xlen) \in 0..3 BY <1>m, <4>1 DEF Pad
      <4> QED BY <4>1, <4>2, <4>3, <4>4, <4>5
    <3>2. pulses' = 1
      <4>1. rlen' >= xlen BY <1>0, <2>6, <3>1
      <4>2. IF rlen' >= xlen THEN Complete ELSE xch' = TRUE /\ UNCHANGED <<inten, pulses>>
        BY <1>7 DEF Intr
      <4> QED BY <2>4, <4>1, <4>2 DEF Complete
    <3>3. Over' BY <2>2, <3>2 DEF Over
    <3>4. ASSUME NEW i \in Index, i < rlen PROVE buf'[i] = -(i + 1)
      BY <1>0, <1>i, <2>5, <2>7, <3>4 DEF Answered
    <3>5. ASSUME NEW i \in Index, rlen <= i, i < xlen PROVE buf'[i + Pad(xlen)] = -(i + 1)
      <4>1. /\ i + Pad(xlen) \in Index /\ rlen <= i + Pad(xlen)
            /\ i + Pad(xlen) < rlen + 4 * Len(rx)
            /\ i - rlen + 1 \in 1..bcnt
            /\ (i + Pad(xlen)) - rlen + 1 = Pad(bcnt) + (i - rlen + 1)
            /\ rlen + (i - rlen + 1) = i + 1
        <5>1. /\ bcnt = xlen - rlen /\ rlen + 4 * Len(rx) = xlen + Pad(xlen)
              /\ Pad(xlen) = Pad(bcnt) /\ Pad(xlen) \in 0..3
          BY <3>1
        <5>2. i \in Int /\ 0 <= i /\ i < xlen BY <1>i, <3>5
        <5>3. i + Pad(xlen) \in Int /\ 0 <= i + Pad(xlen) /\ i + Pad(xlen) <= MaxLen + 3
          BY <1>m, <5>1, <5>2
        <5>4. i + Pad(xlen) \in Index BY <1>i, <5>3
        <5>5. i + Pad(xlen) < rlen + 4 * Len(rx) BY <1>m, <5>1, <5>2
        <5> QED BY <1>m, <3>5, <5>1, <5>2, <5>4, <5>5
      <4>2. buf'[i + Pad(xlen)] = ByteOf(rx, (i + Pad(xlen)) - rlen + 1)
        <5>1. \A z \in Index : rlen <= z /\ z < rlen + 4 * Len(rx) =>
                buf'[z] = ByteOf(rx, z - rlen + 1)
          BY <2>7
        <5>2. /\ i + Pad(xlen) \in Index /\ rlen <= i + Pad(xlen)
              /\ i + Pad(xlen) < rlen + 4 * Len(rx)
          BY <4>1
        <5> QED BY <5>1, <5>2, Zenon
      <4>3. ByteOf(rx, Pad(bcnt) + (i - rlen + 1)) = -(rlen + (i - rlen + 1))
        BY <2>5, <4>1
      <4> QED BY <4>1, <4>2, <4>3
    <3>6. /\ InBursts(xlen) = rlen \/ (InBursts(xlen) = xlen /\ Pad(xlen) = 0)
      <4>1. CASE bcnt < BurstMax
        <5>1. InBursts(bcnt) = 0 BY <1>0, <4>1, WholeBursts
        <5> QED BY <1>0, <2>5, <3>1, <5>1
      <4>2. CASE bcnt >= BurstMax
        <5>1. bcnt = BurstMax /\ Pad(bcnt) = 0 /\ bcnt - BurstMax = 0
          BY <1>m, <4>2 DEF Pad
        <5>2. InBursts(0) = 0 BY <1>0, WholeBursts
        <5>3. InBursts(bcnt) = bcnt BY <1>0, <4>2, <5>1, <5>2, WholeBursts
        <5> QED BY <1>0, <2>5, <3>1, <5>1, <5>3
      <4> QED BY <1>0, <4>1, <4>2
    <3>7. \A i \in Index : i < InBursts(xlen) => buf'[i] = -(i + 1)
      <4> SUFFICES ASSUME NEW i \in Index, i < InBursts(xlen) PROVE buf'[i] = -(i + 1)
        OBVIOUS
      <4>1. CASE i < rlen BY <3>4, <4>1
      <4>2. CASE ~(i < rlen)
        <5>1. i \in Int /\ Pad(xlen) = 0 /\ i + Pad(xlen) = i /\ rlen <= i /\ i < xlen
          BY <1>0, <1>i, <3>6, <4>2
        <5> QED BY <3>5, <5>1
      <4> QED BY <4>1, <4>2
    <3>8. \A i \in Index : InBursts(xlen) <= i /\ i < xlen => buf'[i + Pad(xlen)] = -(i + 1)
      <4> SUFFICES ASSUME NEW i \in Index, InBursts(xlen) <= i, i < xlen
                   PROVE  buf'[i + Pad(xlen)] = -(i + 1)
        OBVIOUS
      <4>1. rlen <= i BY <1>0, <1>i, <3>6
      <4> QED BY <3>5, <4>1
    <3>9. Len(wire') = xlen' BY <2>2, <3>1
    <3> QED BY <2>2, <2>8, <3>3, <3>7, <3>8, <3>9 DEF BytesInv, BytesExact
  <2> QED BY <2>9, <2>10
<1>8. CASE Exchange
  <2>1. pc = "wait" /\ Sending /\ xch /\ ~tc /\ rx = <<>> /\ pulses = 0
    <3>1. ~Still /\ ~Sent BY <1>8 DEF Exchange, Still, Sent
    <3>2. pc = "wait" BY <3>1 DEF QuietInv, EcTypeOK
    <3>3. Sending BY <3>1, <3>2 DEF QuietInv
    <3> QED BY <3>2, <3>3 DEF Sending
  <2>2. /\ begun' = begun /\ xlen' = xlen /\ dlen' = dlen /\ pc' = pc /\ tc' /\ ~xch' /\ bcnt' = bcnt
        /\ rlen' = rlen /\ buf' = buf /\ pulses' = pulses
    BY <1>8 DEF Exchange
  <2>3. BytesInv BY <2>2, <1>s
  <2>4. ~Over /\ ~Over' BY <2>1, <2>2 DEF Over
  <2>5. /\ Len(wire) = rlen /\ \A i \in Index : Unsent(i) /\ Answered(i)
        /\ InBursts(xlen) = rlen + InBursts(xlen - rlen)
        /\ \A k \in 1..bcnt : ByteOf(tx, Pad(bcnt) + k) = rlen + k
        /\ \A k \in 1..Len(wire) : wire[k] = k
    BY <2>1, <2>3, <2>4 DEF BytesInv
  <2>6. Len(wire') = rlen + bcnt /\ \A k \in 1..Len(wire') : wire'[k] = k
    <3> DEFINE out == [k \in 1..bcnt |-> ByteOf(tx, Pad(bcnt) + k)]
    <3>1. wire' = wire \o out BY <1>8 DEF Exchange
    <3>2. \A k \in 1..bcnt : out[k] = rlen + k /\ out[k] \in Int
      BY <1>0, <2>5
    <3>3. out \in Seq(Int) /\ Len(out) = bcnt BY <1>0, <3>2
    <3>4. wire \in Seq(Int) BY <1>0 DEF Byte
    <3> HIDE DEF out
    <3>5. /\ Len(wire \o out) = rlen + bcnt
          /\ \A k \in 1..(rlen + bcnt) :
               (wire \o out)[k] = IF k <= rlen THEN wire[k] ELSE out[k - rlen]
      BY <2>5, <3>3, <3>4, Concat
    <3>6. ASSUME NEW k \in 1..(rlen + bcnt) PROVE (wire \o out)[k] = k
      <4>1. CASE k <= rlen BY <1>0, <2>5, <3>5, <4>1
      <4>2. CASE ~(k <= rlen)
        <5>1. k - rlen \in 1..bcnt /\ rlen + (k - rlen) = k BY <1>0, <4>2
        <5> QED BY <3>2, <3>5, <4>2, <5>1
      <4> QED BY <4>1, <4>2
    <3> QED BY <3>1, <3>5, <3>6
  <2>7. \A k \in 1..bcnt : ByteOf(rx', Pad(bcnt) + k) = -(rlen + k)
    <3> DEFINE in(k) == IF k <= Pad(bcnt) THEN 0 ELSE -(Len(wire) + k - Pad(bcnt))
               word(w) == [k \in 1..4 |-> in(4 * (w - 1) + k)]
               got == [w \in 1..Words(bcnt) |-> word(w)]
    <3>0. Words(bcnt) \in Nat /\ Pad(bcnt) \in 0..3 /\ Pad(bcnt) + bcnt = 4 * Words(bcnt)
      BY <1>0 DEF Words, Pad
    <3>1. rx' = <<>> \o got BY <1>8, <2>1 DEF Exchange
    <3>2. rx' = got
      <4> HIDE DEF word
      <4>1. got \in Seq({word(w) : w \in 1..Words(bcnt)}) BY <3>0
      <4> HIDE DEF got
      <4> QED BY <3>1, <4>1
    <3>3. ASSUME NEW k \in 1..bcnt PROVE ByteOf(got, Pad(bcnt) + k) = -(rlen + k)
      <4> DEFINE j == Pad(bcnt) + k
                 q == (j - 1) \div 4
                 r == (j - 1) % 4
      <4>1. /\ q + 1 \in 1..Words(bcnt) /\ r + 1 \in 1..4 /\ 4 * ((q + 1) - 1) + (r + 1) = j
            /\ ~(j <= Pad(bcnt)) /\ Len(wire) + j - Pad(bcnt) = rlen + k
        <5>1. Len(wire) = rlen BY <2>5
        <5>2. Words(bcnt) \in Nat /\ Pad(bcnt) \in 0..3 /\ Pad(bcnt) + bcnt = 4 * Words(bcnt)
          BY <3>0
        <5> HIDE DEF in, word, got
        <5>3. j \in Nat /\ j > Pad(bcnt) /\ j <= 4 * Words(bcnt) /\ Len(wire) + j - Pad(bcnt) = rlen + k
          BY <1>m, <5>1, <5>2
        <5> HIDE DEF j
        <5>4. q + 1 \in 1..Words(bcnt) /\ r + 1 \in 1..4 /\ 4 * ((q + 1) - 1) + (r + 1) = j
          BY <5>2, <5>3
        <5> QED BY <5>2, <5>3, <5>4
      <4>2. ByteOf(got, j) = got[q + 1][r + 1] BY DEF ByteOf
      <4> HIDE DEF j, q, r
      <4>3. got[q + 1] = word(q + 1) BY <4>1
      <4>4. word(q + 1)[r + 1] = in(4 * ((q + 1) - 1) + (r + 1)) BY <4>1
      <4>5. in(j) = -(rlen + k) BY <4>1
      <4> HIDE DEF in, word, got
      <4>6. ByteOf(got, j) = -(rlen + k) BY <4>1, <4>2, <4>3, <4>4, <4>5
      <4> QED BY <4>6 DEF j
    <3> QED BY <3>2, <3>3
  <2>8. /\ \A i \in Index : Unsent(i)' /\ Answered(i)'
        /\ (InBursts(xlen) = rlen + InBursts(xlen - rlen))'
    BY <2>2, <2>5 DEF Unsent, Answered, InBursts
  <2> QED BY <2>1, <2>2, <2>4, <2>6, <2>7, <2>8 DEF BytesInv, BytesExact
<1>9. CASE UNCHANGED ecVars
  <2>1. BytesInv BY <1>9, <1>s DEF ecVars
  <2> QED
    BY <1>9, <2>1 DEF ecVars, regs, history, BytesInv, BytesExact, Over, Unsent, Answered,
       Supported
<1> QED BY <1>1, <1>2, <1>3, <1>4, <1>5, <1>6, <1>7, <1>8, <1>9 DEF EcNext, Xfer

(* Every step keeps the inductive invariant.  A wait that has timed out    *)
(* stays recorded.                                                         *)
LEMMA EcPreserved == EcInv /\ [EcNext]_ecVars => EcInv'
<1> SUFFICES ASSUME EcInv, [EcNext]_ecVars PROVE EcInv' OBVIOUS
<1>1. EcTypeOK /\ PulsesInv BY DEF EcInv
<1>2. EcTypeOK' /\ PulsesInv' BY <1>1, NextType
<1>3. SUFFICES ASSUME ~expired' PROVE QuietInv' /\ (begun' > 0 /\ Supported' => BytesInv')
  BY <1>2 DEF EcInv
<1>4. ~expired
  BY <1>3 DEF EcNext, Xfer, Begin, Load, WaitPulse, WaitTimeout, TimedOut, Finish,
     Intr, Exchange, ecVars, history
<1>5. QuietInv /\ (begun > 0 /\ Supported => BytesInv) BY <1>4 DEF EcInv
<1>6. QuietInv' BY <1>1, <1>2, <1>3, <1>4, <1>5, NextQuiet
<1>7. ASSUME begun' > 0, Supported' PROVE BytesInv'
  BY <1>1, <1>2, <1>3, <1>4, <1>5, <1>6, <1>7, NextBytes
<1> QED BY <1>6, <1>7

(* The inductive invariant holds always.                                   *)
LEMMA EcInvariant == EcSpec => []EcInv
<1> QED BY EcInitially, EcPreserved, PTL DEF EcSpec

(* Type correctness, whatever waits time out: no burst is longer than the  *)
(* FIFO, and no more is taken from the buffer than its last word.          *)
THEOREM EcTypeCorrect == EcSpec => []EcTypeOK
<1>1. EcInv => EcTypeOK BY DEF EcInv
<1> QED BY <1>1, EcInvariant, PTL

(* While no wait has timed out, spi_intr stores no further than the end of *)
(* the last word, and a finished transfer leaves both FIFOs empty, no      *)
(* pulse in the channel and the controller and its interrupt off: the next *)
(* mx51_xfer starts from the state that it was written for.                *)
THEOREM QuietCorrect == EcSpec => []QuietWhenDone
<1>1. EcInv => QuietWhenDone
  <2> SUFFICES ASSUME EcInv, ~expired PROVE QuietWhenDone BY DEF QuietWhenDone
  <2>1. QuietInv /\ EcTypeOK /\ xlen \in Nat /\ rlen \in Int /\ bcnt \in Nat
    BY LongestLen DEF EcInv, EcTypeOK
  <2>2. rlen <= 4 * ((xlen + 3) \div 4)
    <3>1. CASE Over BY <2>1, <3>1 DEF QuietInv, Words
    <3>2. CASE pc = "idle" BY <2>1, <3>2 DEF QuietInv
    <3>3. CASE pc = "load" BY <2>1, <3>3 DEF QuietInv
    <3>4. CASE pc = "wait" /\ ~Over
      <4>1. BurstInv BY <2>1, <3>4 DEF QuietInv, Over
      <4> QED BY <2>1, <4>1 DEF BurstInv
    <3> QED BY <2>1, <3>1, <3>2, <3>3, <3>4 DEF QuietInv, EcTypeOK, Over
  <2> QED BY <2>1, <2>2 DEF QuietWhenDone, QuietInv, Still
<1> QED BY <1>1, EcInvariant, PTL

(* While no wait has timed out, a transfer of whole characters puts the    *)
(* client's bytes on the wire in order, each read from the shared buffer   *)
(* before spi_intr stores an answer over it, reports the full length and   *)
(* leaves every answer at the place of its byte, after the shift by the    *)
(* partial word, unless memcpy has moved overlapping answers downwards.    *)
THEOREM BytesCorrect == EcSpec => []BytesExact
<1>1. EcInv => BytesExact
  <2> SUFFICES ASSUME EcInv, begun > 0, ~expired, Supported PROVE BytesExact
    BY DEF BytesExact
  <2> QED BY DEF EcInv, BytesInv
<1> QED BY <1>1, EcInvariant, PTL
=============================================================================
