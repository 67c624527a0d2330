---------------------------- MODULE MemoryProofs ----------------------------
(***************************************************************************)
(* Proofs about messages sealed in memory: which keys open one, what its   *)
(* header hides, when unsealing panics, that one fault is noticed, and     *)
(* that it is delivered.  What sorting does to a conjunction, and which    *)
(* identities are equal, is proved first, from the definitions.            *)
(***************************************************************************)
EXTENDS MemoryTransfer, FiniteSetTheorems, SequenceTheorems, TLAPS

-----------------------------------------------------------------------------
\* A set of numbers that is not empty has a least one.
LEMMA LeastNumber ==
  ASSUME NEW T, T \subseteq Nat, T # {}
  PROVE  \E n \in T : \A m \in T : n <= m
<1>1. \A m, n \in Nat : m < n => <<m, n>> \in OpToRel(<, Nat)
  BY DEF OpToRel
<1>2. PICK n \in T : \A m \in T : <<m, n>> \notin OpToRel(<, Nat)
  BY NatLessThanWellFounded, WFMin
<1>3. \A m \in T : ~(m < n)
  BY <1>1, <1>2
<1> QED
  BY <1>3

\* The first bytes of two strings are the same when they are so one by one.
LEMMA SameStart ==
  ASSUME NEW S, NEW s \in Seq(S), NEW r \in Seq(S), NEW n \in Nat, n <= Len(s), n <= Len(r)
  PROVE  SubSeq(s, 1, n) = SubSeq(r, 1, n) <=> \A i \in 1..n : s[i] = r[i]
<1>1. Len(s) \in Nat /\ Len(r) \in Nat
  BY LenProperties
<1>2. \A i \in 1..n : s[i] \in S /\ r[i] \in S
  BY <1>1, ElementOfSeq
<1>3. /\ SubSeq(s, 1, n) \in Seq(S)
      /\ Len(SubSeq(s, 1, n)) = n
      /\ \A i \in 1..n : SubSeq(s, 1, n)[i] = s[i]
  <2>1. /\ SubSeq(s, 1, n) \in Seq(S)
        /\ Len(SubSeq(s, 1, n)) = IF 1 <= n THEN n - 1 + 1 ELSE 0
        /\ \A i \in 1..n - 1 + 1 : SubSeq(s, 1, n)[i] = s[1 + i - 1]
    BY <1>2, SubSeqProperties
  <2> QED
    BY <2>1
<1>4. /\ SubSeq(r, 1, n) \in Seq(S)
      /\ Len(SubSeq(r, 1, n)) = n
      /\ \A i \in 1..n : SubSeq(r, 1, n)[i] = r[i]
  <2>1. /\ SubSeq(r, 1, n) \in Seq(S)
        /\ Len(SubSeq(r, 1, n)) = IF 1 <= n THEN n - 1 + 1 ELSE 0
        /\ \A i \in 1..n - 1 + 1 : SubSeq(r, 1, n)[i] = r[1 + i - 1]
    BY <1>2, SubSeqProperties
  <2> QED
    BY <2>1
<1>5. (\A i \in 1..n : s[i] = r[i]) => SubSeq(s, 1, n) = SubSeq(r, 1, n)
  BY <1>3, <1>4, SeqEqual
<1>6. SubSeq(s, 1, n) = SubSeq(r, 1, n) => \A i \in 1..n : s[i] = r[i]
  BY <1>3, <1>4
<1> QED
  BY <1>5, <1>6

-----------------------------------------------------------------------------
(***************************************************************************)
(* The order of strings: the one that comes first has ended, or has the    *)
(* smaller character, where they differ first.                             *)
(***************************************************************************)
FirstAt(s, r, k) ==
  /\ k \in 1..Len(r)
  /\ k <= Len(s) + 1
  /\ \A i \in 1..k - 1 : s[i] = r[i]
  /\ k = Len(s) + 1 \/ s[k] < r[k]

LEMMA PrecedesWhere ==
  ASSUME NEW s \in Str, NEW r \in Str
  PROVE  Precedes(s, r) <=> \E k \in Nat : FirstAt(s, r, k)
<1>1. Len(s) \in Nat /\ Len(r) \in Nat /\ s \in Seq(Nat) /\ r \in Seq(Nat)
  BY LenProperties DEF Str
<1>2. SubSeq(s, 1, Len(s)) = s
  BY <1>1, SubSeqFull
<1>3. ASSUME Len(s) < Len(r), SubSeq(r, 1, Len(s)) = s
      PROVE  FirstAt(s, r, Len(s) + 1)
  <2>1. \A i \in 1..Len(s) : s[i] = r[i]
    BY <1>1, <1>2, <1>3, SameStart
  <2> QED
    BY <1>1, <1>3, <2>1 DEF FirstAt
<1>4. ASSUME NEW i \in 1..Len(s), i <= Len(r), SubSeq(s, 1, i - 1) = SubSeq(r, 1, i - 1),
             s[i] < r[i]
      PROVE  FirstAt(s, r, i)
  <2>1. i - 1 \in Nat /\ i - 1 <= Len(s) /\ i - 1 <= Len(r)
    BY <1>1, <1>4
  <2>2. \A j \in 1..i - 1 : s[j] = r[j]
    BY <1>1, <1>4, <2>1, SameStart
  <2> QED
    BY <1>1, <1>4, <2>2 DEF FirstAt
<1>5. ASSUME NEW k \in Nat, FirstAt(s, r, k)
      PROVE  Precedes(s, r)
  <2>1. k - 1 \in Nat /\ k - 1 <= Len(s) /\ k - 1 <= Len(r)
    BY <1>1, <1>5 DEF FirstAt
  <2>2. SubSeq(s, 1, k - 1) = SubSeq(r, 1, k - 1)
    BY <1>1, <1>5, <2>1, SameStart DEF FirstAt
  <2>3. CASE k = Len(s) + 1
    <3>1. Len(s) < Len(r) /\ k - 1 = Len(s)
      BY <1>1, <1>5, <2>3 DEF FirstAt
    <3> QED
      BY <1>2, <2>2, <3>1 DEF Precedes
  <2>4. CASE k # Len(s) + 1
    <3>1. k \in 1..Len(s) /\ k <= Len(r) /\ s[k] < r[k]
      BY <1>1, <1>5, <2>4 DEF FirstAt
    <3> QED
      BY <2>2, <3>1 DEF Precedes
  <2> QED
    BY <2>3, <2>4
<1>6. Precedes(s, r) => \E k \in Nat : FirstAt(s, r, k)
  <2> SUFFICES ASSUME Precedes(s, r) PROVE \E k \in Nat : FirstAt(s, r, k)
    OBVIOUS
  <2>1. CASE Len(s) < Len(r) /\ SubSeq(r, 1, Len(s)) = s
    BY <1>1, <1>3, <2>1
  <2>2. CASE \E i \in 1..Len(s) :
               i <= Len(r) /\ SubSeq(s, 1, i - 1) = SubSeq(r, 1, i - 1) /\ s[i] < r[i]
    BY <1>1, <1>4, <2>2
  <2> QED
    BY <2>1, <2>2 DEF Precedes
<1> QED
  BY <1>5, <1>6

\* No string precedes itself.
LEMMA PrecedesIrreflexive ==
  ASSUME NEW s \in Str
  PROVE  ~Precedes(s, s)
<1>1. Len(s) \in Nat /\ \A i \in 1..Len(s) : s[i] \in Nat
  BY LenProperties, ElementOfSeq DEF Str
<1>2. \A k \in Nat : ~FirstAt(s, s, k)
  BY <1>1 DEF FirstAt
<1> QED
  BY <1>2, PrecedesWhere

LEMMA PrecedesTransitive ==
  ASSUME NEW s \in Str, NEW r \in Str, NEW q \in Str, Precedes(s, r), Precedes(r, q)
  PROVE  Precedes(s, q)
<1>1. /\ Len(s) \in Nat /\ \A i \in 1..Len(s) : s[i] \in Nat
      /\ Len(r) \in Nat /\ \A i \in 1..Len(r) : r[i] \in Nat
      /\ Len(q) \in Nat /\ \A i \in 1..Len(q) : q[i] \in Nat
  BY LenProperties, ElementOfSeq DEF Str
<1>2. PICK k \in Nat : FirstAt(s, r, k)
  BY PrecedesWhere
<1>3. PICK l \in Nat : FirstAt(r, q, l)
  BY PrecedesWhere
<1>4. CASE k <= l
  <2>1. CASE k < l
    <3>1. FirstAt(s, q, k)
      BY <1>1, <1>2, <1>3, <2>1 DEF FirstAt
    <3> QED
      BY <3>1, PrecedesWhere
  <2>2. CASE k = l
    <3>1. FirstAt(s, q, k)
      BY <1>1, <1>2, <1>3, <2>2 DEF FirstAt
    <3> QED
      BY <3>1, PrecedesWhere
  <2> QED
    BY <1>4, <2>1, <2>2
<1>5. CASE l < k
  <2>1. FirstAt(s, q, l)
    BY <1>1, <1>2, <1>3, <1>5 DEF FirstAt
  <2> QED
    BY <2>1, PrecedesWhere
<1> QED
  BY <1>4, <1>5

\* Of two strings one precedes the other.
LEMMA PrecedesTotal ==
  ASSUME NEW s \in Str, NEW r \in Str, s # r
  PROVE  Precedes(s, r) \/ Precedes(r, s)
<1> DEFINE T == {k \in Nat \ {0} : k > Len(s) \/ k > Len(r) \/ s[k] # r[k]}
<1>1. /\ Len(s) \in Nat /\ \A i \in 1..Len(s) : s[i] \in Nat
      /\ Len(r) \in Nat /\ \A i \in 1..Len(r) : r[i] \in Nat
  BY LenProperties, ElementOfSeq DEF Str
<1>2. Len(s) + 1 \in T
  BY <1>1
<1>3. PICK k \in T : \A m \in T : k <= m
  BY <1>2, LeastNumber
<1>4. \A i \in 1..k - 1 : i <= Len(s) /\ i <= Len(r) /\ s[i] = r[i]
  <2>1. \A i \in 1..k - 1 : i \in Nat \ {0} /\ i \notin T
    BY <1>3
  <2> QED
    BY <1>1, <2>1
<1>5. k <= Len(s) + 1 /\ k <= Len(r) + 1
  BY <1>1, <1>4
<1>6. ~(k > Len(s) /\ k > Len(r))
  <2> SUFFICES ASSUME k > Len(s), k > Len(r) PROVE FALSE
    OBVIOUS
  <2>1. Len(s) = Len(r) /\ \A i \in 1..Len(s) : s[i] = r[i]
    BY <1>1, <1>4, <1>5
  <2> QED
    BY <2>1, SeqEqual DEF Str
<1>7. k > Len(s) \/ k > Len(r) \/ s[k] < r[k] \/ r[k] < s[k]
  BY <1>1, <1>3
<1>8. FirstAt(s, r, k) \/ FirstAt(r, s, k)
  BY <1>1, <1>3, <1>4, <1>5, <1>6, <1>7 DEF FirstAt
<1> QED
  BY <1>8, PrecedesWhere

-----------------------------------------------------------------------------
(***************************************************************************)
(* The order of attributes is a strict total one, as sorting needs.        *)
(***************************************************************************)
LEMMA ValuePrecedesTransitive ==
  ASSUME NEW v \in Str \cup {NoValue}, NEW w \in Str \cup {NoValue},
         NEW x \in Str \cup {NoValue}, ValuePrecedes(v, w), ValuePrecedes(w, x)
  PROVE  ValuePrecedes(v, x)
<1>1. w \in Str /\ x \in Str /\ Precedes(w, x)
  BY DEF ValuePrecedes
<1>2. CASE v = NoValue
  BY <1>2 DEF ValuePrecedes
<1>3. CASE v # NoValue
  <2>1. v \in Str /\ Precedes(v, w)
    BY <1>3 DEF ValuePrecedes
  <2>2. Precedes(v, x)
    BY <1>1, <2>1, PrecedesTransitive
  <2> QED
    BY <2>2 DEF ValuePrecedes
<1> QED
  BY <1>2, <1>3

LEMMA BeforeIrreflexive ==
  ASSUME NEW a \in Attribute
  PROVE  ~Before(a, a)
<1>1. a.t \in Str /\ a.v \in Str \cup {NoValue}
  BY DEF Attribute
<1>2. ~Precedes(a.t, a.t)
  BY <1>1, PrecedesIrreflexive
<1>3. a.v \in Str => ~Precedes(a.v, a.v)
  BY PrecedesIrreflexive
<1> QED
  BY <1>1, <1>2, <1>3 DEF Before, ValuePrecedes

LEMMA BeforeTransitive ==
  ASSUME NEW a \in Attribute, NEW b \in Attribute, NEW c \in Attribute,
         Before(a, b), Before(b, c)
  PROVE  Before(a, c)
<1>1. /\ a.t \in Str /\ a.v \in Str \cup {NoValue}
      /\ b.t \in Str /\ b.v \in Str \cup {NoValue}
      /\ c.t \in Str /\ c.v \in Str \cup {NoValue}
  BY DEF Attribute
<1>2. Precedes(a.t, b.t) /\ Precedes(b.t, c.t) => Precedes(a.t, c.t)
  BY <1>1, PrecedesTransitive
<1>3. ValuePrecedes(a.v, b.v) /\ ValuePrecedes(b.v, c.v) => ValuePrecedes(a.v, c.v)
  BY <1>1, ValuePrecedesTransitive
<1> QED
  BY <1>2, <1>3, Zenon DEF Before

LEMMA BeforeTotal ==
  ASSUME NEW a \in Attribute, NEW b \in Attribute, a # b
  PROVE  Before(a, b) \/ Before(b, a)
<1>1. /\ a.t \in Str /\ a.v \in Str \cup {NoValue}
      /\ b.t \in Str /\ b.v \in Str \cup {NoValue}
      /\ a.t # b.t \/ a.v # b.v
  BY DEF Attribute
<1>2. CASE a.t # b.t
  BY <1>1, <1>2, PrecedesTotal DEF Before
<1>3. CASE a.t = b.t
  <2>1. a.v \in Str /\ b.v \in Str => Precedes(a.v, b.v) \/ Precedes(b.v, a.v)
    BY <1>1, <1>3, PrecedesTotal
  <2> QED
    BY <1>1, <1>3, <2>1 DEF Before, ValuePrecedes
<1> QED
  BY <1>2, <1>3

-----------------------------------------------------------------------------
(***************************************************************************)
(* Where attributes go when they are sorted.  The i-th goes behind those   *)
(* of Ahead(con, i), itself included; these sets grow along the order, so  *)
(* that each place is taken by one attribute.                              *)
(***************************************************************************)
NotBehind(con, j, i) == Before(con[j], con[i]) \/ (con[j] = con[i] /\ j <= i)

Ahead(con, i) == {j \in DOMAIN con : NotBehind(con, j, i)}

LEMMA PlaceCounts ==
  ASSUME NEW con \in Seq(Attribute), NEW i \in 1..Len(con)
  PROVE  /\ IsFiniteSet(Ahead(con, i))
         /\ Ahead(con, i) \subseteq 1..Len(con)
         /\ i \in Ahead(con, i)
         /\ Place(con, i) = Cardinality(Ahead(con, i))
         /\ Place(con, i) \in 1..Len(con)
<1>1. Len(con) \in Nat /\ DOMAIN con = 1..Len(con)
  BY LenProperties
<1>2. Ahead(con, i) \subseteq 1..Len(con) /\ i \in Ahead(con, i)
  BY <1>1 DEF Ahead, NotBehind
<1>3. IsFiniteSet(1..Len(con)) /\ Cardinality(1..Len(con)) = Len(con)
  BY <1>1, FS_Interval
<1>4. IsFiniteSet(Ahead(con, i)) /\ Cardinality(Ahead(con, i)) <= Len(con)
  BY <1>2, <1>3, FS_Subset
<1>5. Cardinality(Ahead(con, i)) \in Nat /\ Cardinality(Ahead(con, i)) # 0
  BY <1>2, <1>4, FS_CardinalityType, FS_EmptySet
<1>6. Place(con, i) = Cardinality(Ahead(con, i))
  BY DEF Place, Ahead, NotBehind
<1> QED
  BY <1>1, <1>2, <1>4, <1>5, <1>6

LEMMA PlaceGrows ==
  ASSUME NEW con \in Seq(Attribute), NEW i \in 1..Len(con), NEW j \in 1..Len(con),
         i # j, NotBehind(con, i, j)
  PROVE  Place(con, i) < Place(con, j)
<1>1. Len(con) \in Nat /\ DOMAIN con = 1..Len(con)
  BY LenProperties
<1>2. con[i] \in Attribute /\ con[j] \in Attribute
  BY ElementOfSeq
<1>3. j \notin Ahead(con, i)
  <2> SUFFICES ASSUME NotBehind(con, j, i) PROVE FALSE
    BY DEF Ahead
  <2>1. con[i] # con[j]
    <3>1. ~Before(con[i], con[i])
      BY <1>2, BeforeIrreflexive
    <3> QED
      BY <1>1, <3>1 DEF NotBehind
  <2>2. Before(con[i], con[j]) /\ Before(con[j], con[i])
    BY <2>1 DEF NotBehind
  <2> QED
    BY <1>2, <2>2, BeforeTransitive, BeforeIrreflexive
<1>4. Ahead(con, i) \subseteq Ahead(con, j)
  <2> SUFFICES ASSUME NEW k \in 1..Len(con), NotBehind(con, k, i) PROVE NotBehind(con, k, j)
    BY <1>1 DEF Ahead
  <2>1. con[k] \in Attribute
    BY ElementOfSeq
  <2>2. CASE con[k] = con[i] /\ k <= i
    BY <1>1, <2>2 DEF NotBehind
  <2>3. CASE Before(con[k], con[i])
    BY <1>2, <2>1, <2>3, BeforeTransitive DEF NotBehind
  <2> QED
    BY <2>2, <2>3 DEF NotBehind
<1>5. /\ IsFiniteSet(Ahead(con, j)) /\ IsFiniteSet(Ahead(con, i))
      /\ j \in Ahead(con, j)
      /\ Place(con, i) = Cardinality(Ahead(con, i))
      /\ Place(con, j) = Cardinality(Ahead(con, j))
  BY PlaceCounts
<1>6. /\ Cardinality(Ahead(con, i)) <= Cardinality(Ahead(con, j))
      /\ Cardinality(Ahead(con, i)) # Cardinality(Ahead(con, j))
  <2>1. Ahead(con, i) # Ahead(con, j)
    BY <1>3, <1>5
  <2> QED
    BY <1>4, <1>5, <2>1, FS_Subset
<1>7. Cardinality(Ahead(con, i)) \in Nat /\ Cardinality(Ahead(con, j)) \in Nat
  BY <1>5, FS_CardinalityType
<1> QED
  BY <1>5, <1>6, <1>7

\* Of two attributes one is ahead of the other.
LEMMA OneIsAhead ==
  ASSUME NEW con \in Seq(Attribute), NEW i \in 1..Len(con), NEW j \in 1..Len(con)
  PROVE  NotBehind(con, i, j) \/ NotBehind(con, j, i)
<1>1. Len(con) \in Nat /\ con[i] \in Attribute /\ con[j] \in Attribute
  BY LenProperties, ElementOfSeq
<1>2. con[i] # con[j] => Before(con[i], con[j]) \/ Before(con[j], con[i])
  BY <1>1, BeforeTotal
<1> QED
  BY <1>1, <1>2 DEF NotBehind

\* Sorting leaves no place empty and gives none twice.
LEMMA PlacesTaken ==
  ASSUME NEW con \in Seq(Attribute)
  PROVE  /\ \A i, j \in 1..Len(con) : Place(con, i) = Place(con, j) => i = j
         /\ \A k \in 1..Len(con) : \E i \in 1..Len(con) : Place(con, i) = k
<1> DEFINE D == 1..Len(con)
           f == [i \in D |-> Place(con, i)]
<1>1. Len(con) \in Nat /\ IsFiniteSet(D)
  BY LenProperties, FS_Interval
<1>2. \A i \in D : Place(con, i) \in D
  BY PlaceCounts
<1>3. ASSUME NEW i \in D, NEW j \in D, Place(con, i) = Place(con, j)
      PROVE  i = j
  <2> SUFFICES ASSUME i # j PROVE FALSE
    OBVIOUS
  <2>1. Place(con, i) < Place(con, j) \/ Place(con, j) < Place(con, i)
    BY OneIsAhead, PlaceGrows
  <2> QED
    BY <1>1, <1>2, <1>3, <2>1
<1>4. f \in Injection(D, D)
  BY <1>2, <1>3 DEF Injection, IsInjective
<1>5. f \in Surjection(D, D)
  <2> HIDE DEF f, D
  <2> QED
    BY <1>1, <1>4, FS_Injection
<1>6. \A k \in D : \E i \in D : f[i] = k
  <2> HIDE DEF f, D
  <2> QED
    BY <1>5 DEF Surjection
<1> QED
  BY <1>3, <1>6

-----------------------------------------------------------------------------
(***************************************************************************)
(* Sorting is a permutation of the attributes, and puts them in order.     *)
(***************************************************************************)
InOrder(s) ==
  \A k, l \in 1..Len(s) : k < l => s[k] = s[l] \/ Before(s[k], s[l])

Times(s, x) == Cardinality({i \in DOMAIN s : s[i] = x})

Origin(con, k) == CHOOSE i \in DOMAIN con : Place(con, i) = k

LEMMA OriginType ==
  ASSUME NEW con \in Seq(Attribute), NEW k \in 1..Len(con)
  PROVE  /\ Origin(con, k) \in 1..Len(con)
         /\ Place(con, Origin(con, k)) = k
         /\ Sorted(con)[k] = con[Origin(con, k)]
<1>1. DOMAIN con = 1..Len(con)
  BY LenProperties
<1>2. \E i \in DOMAIN con : Place(con, i) = k
  BY <1>1, PlacesTaken
<1>3. Sorted(con)[k] = con[Origin(con, k)]
  BY <1>1 DEF Sorted, Origin
<1>4. Origin(con, k) \in DOMAIN con /\ Place(con, Origin(con, k)) = k
  BY <1>2 DEF Origin
<1> QED
  BY <1>1, <1>3, <1>4

LEMMA SortedType ==
  ASSUME NEW con \in Seq(Attribute)
  PROVE  /\ Sorted(con) \in Seq(Attribute)
         /\ Len(Sorted(con)) = Len(con)
         /\ DOMAIN Sorted(con) = 1..Len(con)
<1>1. DOMAIN con = 1..Len(con) /\ Len(con) \in Nat
  BY LenProperties
<1>2. \A k \in 1..Len(con) : Sorted(con)[k] \in Attribute
  BY OriginType, ElementOfSeq
<1>3. Sorted(con) = [k \in 1..Len(con) |-> Sorted(con)[k]]
  BY <1>1 DEF Sorted
<1>4. Sorted(con) \in [1..Len(con) -> Attribute]
  <2> DEFINE s == Sorted(con)
  <2> HIDE DEF s
  <2> SUFFICES s \in [1..Len(con) -> Attribute]
    BY DEF s
  <2>1. s = [k \in 1..Len(con) |-> s[k]] /\ \A k \in 1..Len(con) : s[k] \in Attribute
    BY <1>2, <1>3 DEF s
  <2> QED
    BY <2>1
<1>5. Sorted(con) \in Seq(Attribute)
  BY <1>1, <1>4
<1>6. DOMAIN Sorted(con) = 1..Len(con)
  BY <1>4
<1>7. Len(Sorted(con)) = Len(con)
  BY <1>1, <1>5, <1>6, LenProperties
<1> QED
  BY <1>5, <1>6, <1>7

LEMMA SortedInOrder ==
  ASSUME NEW con \in Seq(Attribute)
  PROVE  InOrder(Sorted(con))
<1> SUFFICES ASSUME NEW k \in 1..Len(con), NEW l \in 1..Len(con), k < l
             PROVE  Sorted(con)[k] = Sorted(con)[l] \/ Before(Sorted(con)[k], Sorted(con)[l])
  BY SortedType DEF InOrder
<1> DEFINE i == Origin(con, k)
           j == Origin(con, l)
<1>1. /\ i \in 1..Len(con) /\ Place(con, i) = k /\ Sorted(con)[k] = con[i]
      /\ j \in 1..Len(con) /\ Place(con, j) = l /\ Sorted(con)[l] = con[j]
  BY OriginType
<1>2. Len(con) \in Nat
  BY LenProperties
<1> HIDE DEF i, j
<1>3. i # j
  BY <1>1, <1>2
<1>4. ~NotBehind(con, j, i)
  <2> SUFFICES ASSUME NotBehind(con, j, i) PROVE FALSE
    OBVIOUS
  <2>1. Place(con, j) < Place(con, i)
    BY <1>1, <1>3, PlaceGrows
  <2> QED
    BY <1>1, <1>2, <2>1
<1>5. NotBehind(con, i, j)
  BY <1>1, <1>4, OneIsAhead
<1> QED
  BY <1>1, <1>5 DEF NotBehind

LEMMA SortedCounts ==
  ASSUME NEW con \in Seq(Attribute), NEW x
  PROVE  Times(Sorted(con), x) = Times(con, x)
<1> DEFINE S == {k \in 1..Len(con) : Sorted(con)[k] = x}
           T == {i \in 1..Len(con) : con[i] = x}
           f == [k \in S |-> Origin(con, k)]
<1>1. Len(con) \in Nat /\ DOMAIN con = 1..Len(con) /\ DOMAIN Sorted(con) = 1..Len(con)
  BY LenProperties, SortedType
<1>2. IsFiniteSet(S)
  <2>1. IsFiniteSet(1..Len(con)) /\ S \subseteq 1..Len(con)
    BY <1>1, FS_Interval
  <2> QED
    BY <2>1, FS_Subset
<1>3. \A k \in 1..Len(con) :
        /\ Origin(con, k) \in 1..Len(con)
        /\ Place(con, Origin(con, k)) = k
        /\ Sorted(con)[k] = con[Origin(con, k)]
  BY OriginType
<1>4. \A i \in 1..Len(con) : Place(con, i) \in 1..Len(con) /\ Origin(con, Place(con, i)) = i
  <2> TAKE i \in 1..Len(con)
  <2>1. Place(con, i) \in 1..Len(con)
    BY PlaceCounts
  <2>2. /\ Origin(con, Place(con, i)) \in 1..Len(con)
        /\ Place(con, Origin(con, Place(con, i))) = Place(con, i)
    BY <1>3, <2>1
  <2> QED
    BY <2>1, <2>2, PlacesTaken
<1>5. f \in Injection(S, T)
  BY <1>3 DEF Injection, IsInjective
<1>6. f \in Surjection(S, T)
  <2>1. f \in [S -> T]
    BY <1>3
  <2>2. \A i \in T : \E k \in S : f[k] = i
    <3> TAKE i \in T
    <3>1. Place(con, i) \in S /\ Origin(con, Place(con, i)) = i
      BY <1>3, <1>4
    <3> QED
      BY <3>1
  <2> QED
    BY <2>1, <2>2 DEF Surjection
<1>7. ExistsBijection(S, T)
  <2> HIDE DEF S, T, f
  <2> QED
    BY <1>5, <1>6 DEF ExistsBijection, Bijection
<1>8. Cardinality(T) = Cardinality(S)
  <2> HIDE DEF S, T, f
  <2> QED
    BY <1>2, <1>7, FS_Bijection
<1> QED
  BY <1>1, <1>8 DEF Times

-----------------------------------------------------------------------------
(***************************************************************************)
(* Two conjunctions in order that have each attribute as often are equal:  *)
(* where they differ first, one has an attribute once more than the other. *)
(***************************************************************************)
LEMMA OnceMore ==
  ASSUME NEW s \in Seq(Attribute), NEW t \in Seq(Attribute), InOrder(s), InOrder(t),
         NEW k \in 1..Len(s), \A i \in 1..k - 1 : i <= Len(t) /\ s[i] = t[i],
         k > Len(t) \/ Before(s[k], t[k])
  PROVE  Times(t, s[k]) # Times(s, s[k])
<1> DEFINE S == {i \in DOMAIN s : s[i] = s[k]}
           T == {i \in DOMAIN t : t[i] = s[k]}
<1>1. /\ Len(s) \in Nat /\ DOMAIN s = 1..Len(s)
      /\ Len(t) \in Nat /\ DOMAIN t = 1..Len(t)
  BY LenProperties
<1>2. IsFiniteSet(S)
  <2>1. IsFiniteSet(1..Len(s)) /\ S \subseteq 1..Len(s)
    BY <1>1, FS_Interval
  <2> QED
    BY <2>1, FS_Subset
<1>3. k \in S /\ s[k] \in Attribute
  BY <1>1, ElementOfSeq
<1>4. \A i \in T : i < k
  <2> SUFFICES ASSUME NEW i \in T, k <= i PROVE FALSE
    BY <1>1
  <2>1. i \in 1..Len(t) /\ t[i] = s[k] /\ k \in 1..Len(t) /\ Before(s[k], t[k])
    BY <1>1
  <2>2. t[k] \in Attribute
    BY <2>1, ElementOfSeq
  <2>3. t[k] = t[i] \/ Before(t[k], t[i])
    BY <1>1, <2>1 DEF InOrder
  <2>4. ~Before(s[k], s[k])
    BY <1>3, BeforeIrreflexive
  <2>5. t[k] # s[k]
    BY <2>1, <2>4
  <2>6. Before(t[k], s[k])
    BY <2>1, <2>3, <2>5
  <2> QED
    BY <1>3, <2>1, <2>2, <2>4, <2>6, BeforeTransitive
<1>5. T \subseteq S /\ k \notin T
  BY <1>1, <1>4
<1>6. Cardinality(S) # Cardinality(T)
  <2> HIDE DEF S, T
  <2> QED
    BY <1>2, <1>3, <1>5, FS_Subset
<1> QED
  BY <1>6 DEF Times

LEMMA OrderIsUnique ==
  ASSUME NEW s \in Seq(Attribute), NEW t \in Seq(Attribute), InOrder(s), InOrder(t),
         \A x : Times(s, x) = Times(t, x)
  PROVE  s = t
<1> SUFFICES ASSUME s # t PROVE FALSE
  OBVIOUS
<1> DEFINE D == {k \in Nat \ {0} : k > Len(s) \/ k > Len(t) \/ s[k] # t[k]}
<1>1. Len(s) \in Nat /\ Len(t) \in Nat
  BY LenProperties
<1>2. Len(s) + 1 \in D
  BY <1>1
<1>3. PICK k \in D : \A m \in D : k <= m
  BY <1>2, LeastNumber
<1>4. \A i \in 1..k - 1 : i <= Len(s) /\ i <= Len(t) /\ s[i] = t[i]
  <2>1. \A i \in 1..k - 1 : i \in Nat \ {0} /\ i \notin D
    BY <1>3
  <2> QED
    BY <1>1, <2>1
<1>5. k <= Len(s) \/ k <= Len(t)
  <2> SUFFICES ASSUME k > Len(s), k > Len(t) PROVE FALSE
    BY <1>1
  <2>1. k <= Len(s) + 1 /\ k <= Len(t) + 1
    BY <1>1, <1>4
  <2>2. Len(s) = Len(t) /\ \A i \in 1..Len(s) : s[i] = t[i]
    BY <1>1, <1>4, <2>1
  <2> QED
    BY <2>2, SeqEqual
<1>6. CASE k > Len(t)
  <2>1. k \in 1..Len(s)
    BY <1>1, <1>5, <1>6
  <2> QED
    BY <1>4, <1>6, <2>1, OnceMore
<1>7. CASE k > Len(s)
  <2>1. k \in 1..Len(t)
    BY <1>1, <1>5, <1>7
  <2> QED
    BY <1>4, <1>7, <2>1, OnceMore
<1>8. CASE k <= Len(s) /\ k <= Len(t)
  <2>1. k \in 1..Len(s) /\ k \in 1..Len(t) /\ s[k] # t[k]
    BY <1>1, <1>3, <1>8
  <2>2. s[k] \in Attribute /\ t[k] \in Attribute
    BY <2>1, ElementOfSeq
  <2>3. Before(s[k], t[k]) \/ Before(t[k], s[k])
    BY <2>1, <2>2, BeforeTotal
  <2> QED
    BY <1>4, <2>1, <2>3, OnceMore
<1> QED
  BY <1>1, <1>6, <1>7, <1>8

\* Bags say how often each attribute occurs.
LEMMA BagCounts ==
  ASSUME NEW s \in Seq(Attribute), NEW t \in Seq(Attribute)
  PROVE  ToBag(s) = ToBag(t) <=> \A x : Times(s, x) = Times(t, x)
<1>1. \A x : (Times(s, x) = 0 <=> x \notin Range(s)) /\ (Times(t, x) = 0 <=> x \notin Range(t))
  <2> TAKE x
  <2> DEFINE S == {i \in DOMAIN s : s[i] = x}
             T == {i \in DOMAIN t : t[i] = x}
  <2>1. /\ Len(s) \in Nat /\ DOMAIN s = 1..Len(s)
        /\ Len(t) \in Nat /\ DOMAIN t = 1..Len(t)
    BY LenProperties
  <2>2. IsFiniteSet(1..Len(s)) /\ IsFiniteSet(1..Len(t))
    BY <2>1, FS_Interval
  <2>3. S \in SUBSET (1..Len(s)) /\ T \in SUBSET (1..Len(t))
    BY <2>1
  <2>4. IsFiniteSet(S) /\ IsFiniteSet(T)
    BY <2>2, <2>3, FS_Subset
  <2>5. (Cardinality(S) = 0 <=> S = {}) /\ (Cardinality(T) = 0 <=> T = {})
    <3> HIDE DEF S, T
    <3> QED
      BY <2>4, FS_EmptySet
  <2> QED
    BY <2>5 DEF Times, Range
<1>2. /\ ToBag(s) = [x \in Range(s) |-> Times(s, x)]
      /\ ToBag(t) = [x \in Range(t) |-> Times(t, x)]
  BY DEF ToBag, Times
<1>3. ASSUME \A x : Times(s, x) = Times(t, x)
      PROVE  ToBag(s) = ToBag(t)
  <2>1. Range(s) = Range(t)
    BY <1>1, <1>3
  <2> QED
    BY <1>2, <1>3, <2>1
<1>4. ASSUME ToBag(s) = ToBag(t), NEW x
      PROVE  Times(s, x) = Times(t, x)
  <2>1. DOMAIN ToBag(s) = Range(s) /\ DOMAIN ToBag(t) = Range(t)
    BY <1>2
  <2>2. Range(s) = Range(t)
    BY <1>4, <2>1
  <2>3. CASE x \in Range(s)
    <3>1. ToBag(s)[x] = Times(s, x) /\ ToBag(t)[x] = Times(t, x)
      BY <1>2, <2>2, <2>3
    <3> QED
      BY <1>4, <3>1
  <2>4. CASE x \notin Range(s)
    BY <1>1, <2>2, <2>4
  <2> QED
    BY <2>3, <2>4
<1> QED
  BY <1>3, <1>4

(***************************************************************************)
(* derive sorts before it hashes, so that conjunctions with the same       *)
(* attributes have the same order.                                         *)
(***************************************************************************)
LEMMA SortedSame ==
  ASSUME NEW s \in Seq(Attribute), NEW t \in Seq(Attribute)
  PROVE  Sorted(s) = Sorted(t) <=> ToBag(s) = ToBag(t)
<1>1. /\ Sorted(s) \in Seq(Attribute) /\ InOrder(Sorted(s))
      /\ Sorted(t) \in Seq(Attribute) /\ InOrder(Sorted(t))
  BY SortedType, SortedInOrder
<1>2. \A x : Times(Sorted(s), x) = Times(s, x) /\ Times(Sorted(t), x) = Times(t, x)
  BY SortedCounts
<1>3. ASSUME Sorted(s) = Sorted(t)
      PROVE  ToBag(s) = ToBag(t)
  <2>1. \A x : Times(s, x) = Times(t, x)
    BY <1>2, <1>3
  <2> QED
    BY <2>1, BagCounts
<1>4. ASSUME ToBag(s) = ToBag(t)
      PROVE  Sorted(s) = Sorted(t)
  <2>1. \A x : Times(Sorted(s), x) = Times(Sorted(t), x)
    BY <1>2, <1>4, BagCounts
  <2> QED
    BY <1>1, <2>1, OrderIsUnique
<1> QED
  BY <1>3, <1>4

\* The hashes of two attributes in the same place differ when the attributes do.
LEMMA HashesDiffer ==
  ASSUME NEW a \in Attribute, NEW b \in Attribute, NEW i,
         TypeHash(i, a) = TypeHash(i, b), ValueHash(i, a) = ValueHash(i, b)
  PROVE  a = b
<1>1. /\ a = [t |-> a.t, v |-> a.v] /\ a.t \in Str /\ a.v \in Str \cup {NoValue}
      /\ b = [t |-> b.t, v |-> b.v] /\ b.t \in Str /\ b.v \in Str \cup {NoValue}
  BY DEF Attribute
<1>2. a.t = b.t
  BY DEF TypeHash
<1>3. \A v \in Str : Len(v) \in Nat /\ Len(v) # Unset
  BY LenProperties DEF Str, Unset
<1>4. a.v = b.v
  <2>1. CASE a.v = NoValue /\ b.v = NoValue
    BY <2>1
  <2>2. CASE a.v # NoValue /\ b.v # NoValue
    BY <2>2 DEF ValueHash
  <2>3. CASE a.v = NoValue /\ b.v # NoValue
    <3>1. Unset = Len(b.v)
      BY <2>3 DEF ValueHash
    <3> QED
      BY <1>1, <1>3, <2>3, <3>1
  <2>4. CASE a.v # NoValue /\ b.v = NoValue
    <3>1. Unset = Len(a.v)
      BY <2>4 DEF ValueHash
    <3> QED
      BY <1>1, <1>3, <2>4, <3>1
  <2> QED
    BY <2>1, <2>2, <2>3, <2>4
<1> QED
  BY <1>1, <1>2, <1>4

(***************************************************************************)
(* derive.  Two policies have the same identity exactly when they ask for  *)
(* the same attributes, each as often, at the same time: neither the order *)
(* of the attributes nor anything else about a policy is in its identity,  *)
(* and no two policies that differ in one of these share a key.            *)
(***************************************************************************)
THEOREM IdentityOfPolicy ==
  ASSUME NEW p \in Policy, NEW q \in Policy
  PROVE  Derived(p) = Derived(q) <=> SamePolicy(p, q)
<1> DEFINE s == Sorted(p.con)
           t == Sorted(q.con)
           hs == [i \in DOMAIN s |-> <<TypeHash(i, s[i]), ValueHash(i, s[i])>>]
           ht == [i \in DOMAIN t |-> <<TypeHash(i, t[i]), ValueHash(i, t[i])>>]
<1>1. p.con \in Seq(Attribute) /\ q.con \in Seq(Attribute)
  BY DEF Policy
<1>2. Derived(p) = [con |-> hs, ts |-> p.ts] /\ Derived(q) = [con |-> ht, ts |-> q.ts]
  BY DEF Derived
<1>3. s \in Seq(Attribute) /\ t \in Seq(Attribute)
  BY <1>1, SortedType
<1>4. s = t <=> ToBag(p.con) = ToBag(q.con)
  BY <1>1, SortedSame
<1>5. ASSUME hs = ht
      PROVE  s = t
  <2>1. DOMAIN s = DOMAIN t
    <3>1. DOMAIN hs = DOMAIN s /\ DOMAIN ht = DOMAIN t
      OBVIOUS
    <3> HIDE DEF hs, ht, s, t
    <3> QED
      BY <1>5, <3>1
  <2>2. Len(s) = Len(t) /\ DOMAIN s = 1..Len(s)
    <3> HIDE DEF s, t
    <3>1. Len(s) \in Nat /\ DOMAIN s = 1..Len(s) /\ Len(t) \in Nat /\ DOMAIN t = 1..Len(t)
      BY <1>3, LenProperties
    <3>2. \A n \in Nat : Cardinality(1..n) = n
      BY FS_Interval
    <3>3. Cardinality(1..Len(s)) = Cardinality(1..Len(t))
      BY <2>1, <3>1
    <3> QED
      BY <3>1, <3>2, <3>3
  <2>3. ASSUME NEW i \in 1..Len(s)
        PROVE  s[i] = t[i]
    <3>1. s[i] \in Attribute /\ t[i] \in Attribute
      <4> HIDE DEF s, t
      <4> QED
        BY <1>3, <2>2, ElementOfSeq
    <3>2. /\ hs[i] = <<TypeHash(i, s[i]), ValueHash(i, s[i])>>
          /\ ht[i] = <<TypeHash(i, t[i]), ValueHash(i, t[i])>>
      <4> HIDE DEF s, t
      <4> QED
        BY <2>1, <2>2
    <3>3. TypeHash(i, s[i]) = TypeHash(i, t[i]) /\ ValueHash(i, s[i]) = ValueHash(i, t[i])
      <4> HIDE DEF hs, ht, s, t
      <4> QED
        BY <1>5, <3>2
    <3> HIDE DEF s, t
    <3> QED
      BY <3>1, <3>3, HashesDiffer
  <2> HIDE DEF hs, ht, s, t
  <2> QED
    BY <1>3, <2>2, <2>3, SeqEqual
<1>6. s = t => hs = ht
  OBVIOUS
<1> HIDE DEF hs, ht, s, t
<1> QED
  BY <1>2, <1>4, <1>5, <1>6 DEF SamePolicy

-----------------------------------------------------------------------------
(***************************************************************************)
(* Hints.  Every character has a byte of its own, so that there is at most *)
(* one boundary at a place counted in bytes.                               *)
(***************************************************************************)
Wide(s, n) == {i \in 1..n : Width(s[i]) = 2}

LEMMA WideCounts ==
  ASSUME NEW s, NEW n \in Nat
  PROVE  /\ IsFiniteSet(Wide(s, n))
         /\ Cardinality(Wide(s, n)) \in Nat
         /\ BytesOf(s, n) = n + Cardinality(Wide(s, n))
         /\ BytesOf(s, n) \in Nat
<1>1. IsFiniteSet(1..n) /\ Wide(s, n) \in SUBSET (1..n)
  BY FS_Interval DEF Wide
<1>2. IsFiniteSet(Wide(s, n))
  BY <1>1, FS_Subset
<1>3. Cardinality(Wide(s, n)) \in Nat
  BY <1>2, FS_CardinalityType
<1>4. BytesOf(s, n) = n + Cardinality(Wide(s, n))
  BY DEF BytesOf, Wide
<1> QED
  BY <1>2, <1>3, <1>4

LEMMA BytesGrow ==
  ASSUME NEW s, NEW m \in Nat, NEW n \in Nat, m < n
  PROVE  BytesOf(s, m) < BytesOf(s, n)
<1>1. Wide(s, m) \in SUBSET Wide(s, n)
  BY DEF Wide
<1>2. IsFiniteSet(Wide(s, n))
  BY WideCounts
<1>3. Cardinality(Wide(s, m)) <= Cardinality(Wide(s, n))
  BY <1>1, <1>2, FS_Subset
<1>4. /\ Cardinality(Wide(s, m)) \in Nat /\ BytesOf(s, m) = m + Cardinality(Wide(s, m))
      /\ Cardinality(Wide(s, n)) \in Nat /\ BytesOf(s, n) = n + Cardinality(Wide(s, n))
  BY WideCounts
<1> QED
  BY <1>3, <1>4

\* Two values that agree on what may be shown have the same hint.
LEMMA HintsAlike ==
  ASSUME NEW v \in Str, NEW w \in Str, ByteLen(v) = ByteLen(w),
         NEW n \in 0..Len(v), n <= Len(w), SubSeq(v, 1, n) = SubSeq(w, 1, n),
         BytesOf(v, n) >= ByteLen(v) - AmountToHide,
         \E m \in 0..Len(v) : BytesOf(v, m) = HideFrom(v),
         \E m \in 0..Len(w) : BytesOf(w, m) = HideFrom(w)
  PROVE  Hint(v) = Hint(w)
<1> DEFINE H == HideFrom(v)
           m == CHOOSE m \in 0..Len(v) : BytesOf(v, m) = HideFrom(v)
           l == CHOOSE l \in 0..Len(w) : BytesOf(w, l) = HideFrom(w)
<1>1. v \in Seq(Nat) /\ w \in Seq(Nat) /\ Len(v) \in Nat /\ Len(w) \in Nat /\ AmountToHide \in Nat
  BY IdentityAssumption, LenProperties DEF Str
<1>2. ByteLen(v) \in Nat /\ BytesOf(v, n) \in Nat
  BY <1>1, WideCounts DEF ByteLen
<1>3. HideFrom(w) = H /\ H \in Nat /\ BytesOf(v, n) >= H
  BY <1>1, <1>2 DEF HideFrom
<1>4. m \in 0..Len(v) /\ BytesOf(v, m) = H
  OBVIOUS
<1>5. l \in 0..Len(w) /\ BytesOf(w, l) = H
  BY <1>3
<1>6. Hint(v) = SubSeq(v, 1, m) \o [i \in 1..(ByteLen(v) - H) |-> Star]
  BY Zenon DEF Hint
<1>7. Hint(w) = SubSeq(w, 1, l) \o [i \in 1..(ByteLen(w) - HideFrom(w)) |-> Star]
  BY Zenon DEF Hint
<1> HIDE DEF H, m, l
<1>8. m <= n
  <2> SUFFICES ASSUME n < m PROVE FALSE
    BY <1>1, <1>4
  <2>1. BytesOf(v, n) < BytesOf(v, m)
    BY <1>1, <1>4, BytesGrow
  <2> QED
    BY <1>2, <1>3, <1>4, <2>1
<1>9. \A i \in 1..n : v[i] = w[i]
  BY <1>1, SameStart
<1>10. m \in Nat /\ \A i \in 1..m : v[i] = w[i]
  BY <1>1, <1>4, <1>8, <1>9
<1>11. BytesOf(w, m) = H
  <2>1. Wide(w, m) = Wide(v, m)
    BY <1>10 DEF Wide
  <2> QED
    BY <1>4, <1>10, <2>1, WideCounts
<1>12. l = m
  <2>1. l \in Nat /\ m \in Nat /\ BytesOf(w, l) = BytesOf(w, m)
    BY <1>1, <1>5, <1>10, <1>11
  <2>2. BytesOf(w, m) \in Nat
    BY <1>10, WideCounts
  <2>3. ~(l < m) /\ ~(m < l)
    BY <2>1, <2>2, BytesGrow
  <2> QED
    BY <2>1, <2>3
<1>13. SubSeq(v, 1, m) = SubSeq(w, 1, m)
  BY <1>1, <1>4, <1>8, <1>10, SameStart
<1> QED
  BY <1>3, <1>6, <1>7, <1>12, <1>13

\* And so is all that to_hidden makes of an attribute.
LEMMA HiddenAlike ==
  ASSUME NEW a \in Attribute, NEW v \in Str, a.v # NoValue,
         ShowsAlike(a, v), ~HintFails(a), ~HintFails([a EXCEPT !.v = v])
  PROVE  Hidden(a) = Hidden([a EXCEPT !.v = v])
<1> DEFINE b == [a EXCEPT !.v = v]
<1>1. a = [t |-> a.t, v |-> a.v] /\ a.v \in Str /\ v # NoValue
  BY IdentityAssumption DEF Attribute
<1>2. b.t = a.t /\ b.v = v
  BY <1>1
<1> HIDE DEF b
<1>3. CASE a.t \notin HintTypes
  BY <1>1, <1>2, <1>3 DEF b, Hidden, HasHint
<1>4. CASE a.t \in HintTypes
  <2>1. HasHint(a) /\ HasHint(b)
    BY <1>1, <1>2, <1>4 DEF HasHint
  <2>2. /\ \E m \in 0..Len(a.v) : BytesOf(a.v, m) = HideFrom(a.v)
        /\ \E m \in 0..Len(v) : BytesOf(v, m) = HideFrom(v)
    BY <1>2, <2>1 DEF HintFails, b
  <2>3. PICK n \in 0..Len(v) :
          /\ n <= Len(a.v)
          /\ SubSeq(v, 1, n) = SubSeq(a.v, 1, n)
          /\ BytesOf(v, n) >= ByteLen(v) - AmountToHide
    BY <1>4 DEF ShowsAlike
  <2>4. ByteLen(v) = ByteLen(a.v)
    BY <1>4 DEF ShowsAlike
  <2>5. Hint(v) = Hint(a.v)
    BY <1>1, <2>2, <2>3, <2>4, HintsAlike
  <2> QED
    BY <1>1, <1>2, <2>1, <2>5 DEF b, Hidden
<1> QED
  BY <1>3, <1>4

-----------------------------------------------------------------------------
\* A function on the first n numbers is a sequence.
LEMMA SequenceOf ==
  ASSUME NEW S, NEW n \in Nat, NEW f \in [1..n -> S]
  PROVE  f \in Seq(S) /\ Len(f) = n /\ DOMAIN f = 1..n
OBVIOUS

\* A header has a length, as messages are for finitely many.
LEMMA HeaderLenType ==
  ASSUME NEW choice \in Policies, NEW h, h.recipients = NewHeader(choice).recipients
  PROVE  HeaderLen(h) \in Nat /\ DOMAIN h.recipients = DOMAIN choice
<1> DEFINE D == DOMAIN choice
           B(r) == {r} \X (0..Len(h.recipients[r].policy.con))
           T == {B(r) : r \in D}
           f == [r \in D |-> B(r)]
<1>1. IsFiniteSet(D) /\ \A r \in D : choice[r] \in Policy
  BY SealerAssumption
<1>2. h.recipients = [r \in D |-> [policy |-> HiddenPolicy(choice[r]), ct |-> Derived(choice[r])]]
  BY DEF NewHeader
<1>3. DOMAIN h.recipients = D /\ \A r \in D : h.recipients[r].policy = HiddenPolicy(choice[r])
  BY <1>2
<1>4. \A r \in D : Len(h.recipients[r].policy.con) \in Nat
  <2> TAKE r \in D
  <2> DEFINE con == choice[r].con
             S == {Hidden(con[i]) : i \in DOMAIN con}
             g == [i \in DOMAIN con |-> Hidden(con[i])]
  <2>1. con \in Seq(Attribute)
    BY <1>1 DEF Policy
  <2>2. Len(con) \in Nat /\ DOMAIN con = 1..Len(con)
    BY <2>1, LenProperties
  <2>3. g \in [1..Len(con) -> S]
    BY <2>2
  <2>4. h.recipients[r].policy.con = g
    <3>1. HiddenPolicy(choice[r]).con = g
      BY DEF HiddenPolicy
    <3>2. h.recipients[r].policy = HiddenPolicy(choice[r])
      BY <1>3
    <3> HIDE DEF g, D
    <3> QED
      BY <3>1, <3>2
  <2>5. Len(g) = Len(con)
    <3> HIDE DEF g, S
    <3> QED
      BY <2>2, <2>3, SequenceOf
  <2> QED
    BY <2>2, <2>4, <2>5
<1>5. ASSUME NEW r \in D
      PROVE  IsFiniteSet(B(r))
  <2> DEFINE n == Len(h.recipients[r].policy.con)
  <2>0. n \in Nat
    BY <1>4
  <2> HIDE DEF n, D, B, T, f
  <2>1. IsFiniteSet(0..n)
    <3>1. 0 \in Int /\ n \in Int
      BY <2>0
    <3> QED
      BY <3>1, FS_Interval
  <2>2. IsFiniteSet({r})
    BY FS_Singleton, Zenon
  <2>3. IsFiniteSet({r} \X (0..n))
    BY <2>1, <2>2, FS_Product
  <2> QED
    BY <2>3 DEF n, B
<1> HIDE DEF B
<1>6. f \in Surjection(D, T)
  BY DEF Surjection
<1>7. IsFiniteSet(T)
  <2> HIDE DEF f, T, D
  <2> QED
    BY <1>1, <1>6, FS_Surjection
<1>8. \A t \in T : IsFiniteSet(t)
  BY <1>5
<1>9. IsFiniteSet(UNION T)
  <2> HIDE DEF T
  <2> QED
    BY <1>7, <1>8, FS_UNION
<1>10. Cardinality(UNION T) \in Nat
  BY <1>9, FS_CardinalityType
<1>11. HeaderLen(h) = 1 + Cardinality(UNION T)
  BY <1>3 DEF HeaderLen, B
<1> QED
  BY <1>3, <1>10, <1>11

-----------------------------------------------------------------------------
(***************************************************************************)
(* The message as it is sealed, byte by byte.                              *)
(***************************************************************************)
Bytes == Nat \X Nat

SealedWith(h) ==
  Part(1, 1) \o Part(2, 1) \o Part(3, h) \o Part(4, 1) \o Part(5, SigLen) \o CiphertextBytes

ByteAt(h, i) ==
  IF i <= 2 THEN <<i, 1>>
  ELSE IF i <= 2 + h THEN <<3, i - 2>>
  ELSE IF i = 3 + h THEN <<4, 1>>
  ELSE IF i <= 3 + h + SigLen THEN <<5, i - (3 + h)>>
  ELSE <<6, i - (3 + h + SigLen)>>

LEMMA ByteOfPart ==
  ASSUME NEW h \in Nat
  PROVE  /\ \A l \in 1..h : ByteAt(h, 2 + l) = <<3, l>>
         /\ ByteAt(h, 3 + h) = <<4, 1>>
         /\ \A l \in 1..SigLen : ByteAt(h, 3 + h + l) = <<5, l>>
         /\ \A l \in 1..CtLen : ByteAt(h, 3 + h + SigLen + l) = <<6, l>>
<1>1. SigLen \in Nat /\ CtLen \in Nat
  BY SealerAssumption
<1>2. ASSUME NEW l \in 1..h PROVE ByteAt(h, 2 + l) = <<3, l>>
  <2>1. PICK i : i = 2 + l
    OBVIOUS
  <2>2. ~(i <= 2) /\ i <= 2 + h /\ i - 2 = l
    BY <2>1
  <2> QED
    BY <2>1, <2>2 DEF ByteAt
<1>3. ByteAt(h, 3 + h) = <<4, 1>>
  <2>1. ~(3 + h <= 2) /\ ~(3 + h <= 2 + h)
    OBVIOUS
  <2> QED
    BY <2>1 DEF ByteAt
<1>4. ASSUME NEW l \in 1..SigLen PROVE ByteAt(h, 3 + h + l) = <<5, l>>
  <2>1. PICK i : i = 3 + h + l
    OBVIOUS
  <2>2. ~(i <= 2) /\ ~(i <= 2 + h) /\ i # 3 + h /\ i <= 3 + h + SigLen /\ i - (3 + h) = l
    BY <1>1, <2>1
  <2> QED
    BY <2>1, <2>2 DEF ByteAt
<1>5. ASSUME NEW l \in 1..CtLen PROVE ByteAt(h, 3 + h + SigLen + l) = <<6, l>>
  <2>1. PICK i : i = 3 + h + SigLen + l
    OBVIOUS
  <2>2. /\ ~(i <= 2) /\ ~(i <= 2 + h) /\ i # 3 + h /\ ~(i <= 3 + h + SigLen)
        /\ i - (3 + h + SigLen) = l
    BY <1>1, <2>1
  <2> QED
    BY <2>1, <2>2 DEF ByteAt
<1> QED
  BY <1>2, <1>3, <1>4, <1>5

LEMMA PartType ==
  ASSUME NEW k \in Nat, NEW n \in Nat
  PROVE  /\ Part(k, n) \in Seq(Bytes)
         /\ Len(Part(k, n)) = n
         /\ \A i \in 1..n : Part(k, n)[i] = <<k, i>>
<1>1. Part(k, n) = [i \in 1..n |-> <<k, i>>]
  BY DEF Part
<1>2. Part(k, n) \in [1..n -> Bytes]
  BY <1>1 DEF Bytes
<1>3. \A i \in 1..n : Part(k, n)[i] = <<k, i>>
  BY <1>1
<1> QED
  BY <1>2, <1>3, SequenceOf

Sent == SealedWith(HeaderLen(header))

JoinedAt(s, t, n, m) ==
  Len(s) = n /\ Len(t) = m =>
    /\ s \o t \in Seq(Bytes)
    /\ Len(s \o t) = n + m
    /\ \A i \in 1..n : (s \o t)[i] = s[i]
    /\ \A i \in 1..m : (s \o t)[n + i] = t[i]

LEMMA Joined ==
  ASSUME NEW s \in Seq(Bytes), NEW t \in Seq(Bytes), NEW n \in Nat, NEW m \in Nat
  PROVE  JoinedAt(s, t, n, m)
<1> SUFFICES ASSUME Len(s) = n, Len(t) = m
             PROVE  /\ s \o t \in Seq(Bytes)
                    /\ Len(s \o t) = n + m
                    /\ \A i \in 1..n : (s \o t)[i] = s[i]
                    /\ \A i \in 1..m : (s \o t)[n + i] = t[i]
  BY DEF JoinedAt
<1>1. /\ s \o t \in Seq(Bytes)
      /\ Len(s \o t) = n + m
      /\ \A i \in 1..n + m : (s \o t)[i] = IF i <= n THEN s[i] ELSE t[i - n]
  BY ConcatProperties
<1> DEFINE u == s \o t
<1> HIDE DEF u
<1>2. \A i \in 1..n + m : u[i] = IF i <= n THEN s[i] ELSE t[i - n]
  BY <1>1 DEF u
<1>3. \A i \in 1..n : u[i] = s[i]
  BY <1>2
<1>4. ASSUME NEW i \in 1..m
      PROVE  u[n + i] = t[i]
  <2>1. n + i \in 1..n + m /\ ~(n + i <= n) /\ (n + i) - n = i
    OBVIOUS
  <2> QED
    BY <1>2, <2>1
<1> QED
  BY <1>1, <1>3, <1>4 DEF u

LEMMA SealedWithType ==
  ASSUME NEW h \in Nat
  PROVE  /\ SealedWith(h) \in Seq(Bytes)
         /\ Len(SealedWith(h)) = 3 + h + SigLen + CtLen
         /\ \A i \in 1..3 + h + SigLen + CtLen : SealedWith(h)[i] = ByteAt(h, i)
<1>1. SigLen \in Nat /\ CtLen \in Nat
  BY SealerAssumption
<1>2. PICK n1 \in Nat, n2 \in Nat, n3 \in Nat, n4 \in Nat, n5 \in Nat, n6 \in Nat :
        /\ n1 = 1 /\ n2 = 2 /\ n3 = 2 + h /\ n4 = 3 + h
        /\ n5 = 3 + h + SigLen /\ n6 = 3 + h + SigLen + CtLen
  BY <1>1
<1>3. /\ \E p \in Seq(Bytes) : p = Part(1, 1) /\ Len(p) = n1 /\ p[1] = <<1, 1>>
      /\ \E p \in Seq(Bytes) : p = Part(2, 1) /\ Len(p) = n1 /\ p[1] = <<2, 1>>
      /\ \E p \in Seq(Bytes) : p = Part(3, h) /\ Len(p) = h /\ \A i \in 1..h : p[i] = <<3, i>>
      /\ \E p \in Seq(Bytes) : p = Part(4, 1) /\ Len(p) = n1 /\ p[1] = <<4, 1>>
  <2>1. \A k \in Nat : Part(k, 1) \in Seq(Bytes) /\ Len(Part(k, 1)) = n1 /\ Part(k, 1)[1] = <<k, 1>>
    <3> TAKE k \in Nat
    <3>1. /\ Part(k, 1) \in Seq(Bytes) /\ Len(Part(k, 1)) = 1
          /\ \A i \in 1..1 : Part(k, 1)[i] = <<k, i>>
      BY PartType
    <3>2. 1 \in 1..1
      OBVIOUS
    <3> QED
      BY <1>2, <3>1, <3>2
  <2>2. Part(3, h) \in Seq(Bytes) /\ Len(Part(3, h)) = h /\ \A i \in 1..h : Part(3, h)[i] = <<3, i>>
    BY PartType
  <2>3. /\ Part(1, 1) \in Seq(Bytes) /\ Len(Part(1, 1)) = n1 /\ Part(1, 1)[1] = <<1, 1>>
        /\ Part(2, 1) \in Seq(Bytes) /\ Len(Part(2, 1)) = n1 /\ Part(2, 1)[1] = <<2, 1>>
        /\ Part(4, 1) \in Seq(Bytes) /\ Len(Part(4, 1)) = n1 /\ Part(4, 1)[1] = <<4, 1>>
    BY <2>1
  <2> QED
    BY <2>2, <2>3, Zenon
<1>4. /\ \E p \in Seq(Bytes) : p = Part(5, SigLen) /\ Len(p) = SigLen
                               /\ \A i \in 1..SigLen : p[i] = <<5, i>>
      /\ \E p \in Seq(Bytes) : p = CiphertextBytes /\ Len(p) = CtLen
                               /\ \A i \in 1..CtLen : p[i] = <<6, i>>
  <2>1. /\ Part(5, SigLen) \in Seq(Bytes) /\ Len(Part(5, SigLen)) = SigLen
        /\ \A i \in 1..SigLen : Part(5, SigLen)[i] = <<5, i>>
    BY <1>1, PartType
  <2>2. /\ CiphertextBytes \in Seq(Bytes) /\ Len(CiphertextBytes) = CtLen
        /\ \A i \in 1..CtLen : CiphertextBytes[i] = <<6, i>>
    BY <1>1, PartType DEF CiphertextBytes
  <2> QED
    BY <2>1, <2>2, Zenon
<1>5. PICK p1 \in Seq(Bytes) : p1 = Part(1, 1) /\ Len(p1) = n1 /\ p1[1] = <<1, 1>>
  BY <1>3
<1>6. PICK p2 \in Seq(Bytes) : p2 = Part(2, 1) /\ Len(p2) = n1 /\ p2[1] = <<2, 1>>
  BY <1>3
<1>7. PICK p3 \in Seq(Bytes) : p3 = Part(3, h) /\ Len(p3) = h /\ \A i \in 1..h : p3[i] = <<3, i>>
  BY <1>3
<1>8. PICK p4 \in Seq(Bytes) : p4 = Part(4, 1) /\ Len(p4) = n1 /\ p4[1] = <<4, 1>>
  BY <1>3
<1>9. PICK p5 \in Seq(Bytes) : p5 = Part(5, SigLen) /\ Len(p5) = SigLen
                                /\ \A i \in 1..SigLen : p5[i] = <<5, i>>
  BY <1>4
<1>10. PICK p6 \in Seq(Bytes) : p6 = CiphertextBytes /\ Len(p6) = CtLen
                                 /\ \A i \in 1..CtLen : p6[i] = <<6, i>>
  BY <1>4
<1>11. PICK s2 \in Seq(Bytes) :
         /\ s2 = p1 \o p2
         /\ Len(s2) = n2
         /\ \A i \in 1..n1 : s2[i] = p1[i]
         /\ \A i \in 1..n1 : s2[n1 + i] = p2[i]
  <2>1. Len(p1) = n1 /\ Len(p2) = n1
    BY <1>5, <1>6
  <2>2. JoinedAt(p1, p2, n1, n1)
    BY <1>1, Joined
  <2>3. n1 + n1 = n2
    BY <1>1, <1>2
  <2> QED
    BY <2>1, <2>2, <2>3 DEF JoinedAt
<1>12. PICK s3 \in Seq(Bytes) :
         /\ s3 = s2 \o p3
         /\ Len(s3) = n3
         /\ \A i \in 1..n2 : s3[i] = s2[i]
         /\ \A i \in 1..h : s3[n2 + i] = p3[i]
  <2>1. Len(s2) = n2 /\ Len(p3) = h
    BY <1>11, <1>7
  <2>2. JoinedAt(s2, p3, n2, h)
    BY <1>1, Joined
  <2>3. n2 + h = n3
    BY <1>1, <1>2
  <2> QED
    BY <2>1, <2>2, <2>3 DEF JoinedAt
<1>13. PICK s4 \in Seq(Bytes) :
         /\ s4 = s3 \o p4
         /\ Len(s4) = n4
         /\ \A i \in 1..n3 : s4[i] = s3[i]
         /\ \A i \in 1..n1 : s4[n3 + i] = p4[i]
  <2>1. Len(s3) = n3 /\ Len(p4) = n1
    BY <1>12, <1>8
  <2>2. JoinedAt(s3, p4, n3, n1)
    BY <1>1, Joined
  <2>3. n3 + n1 = n4
    BY <1>1, <1>2
  <2> QED
    BY <2>1, <2>2, <2>3 DEF JoinedAt
<1>14. PICK s5 \in Seq(Bytes) :
         /\ s5 = s4 \o p5
         /\ Len(s5) = n5
         /\ \A i \in 1..n4 : s5[i] = s4[i]
         /\ \A i \in 1..SigLen : s5[n4 + i] = p5[i]
  <2>1. Len(s4) = n4 /\ Len(p5) = SigLen
    BY <1>13, <1>9
  <2>2. JoinedAt(s4, p5, n4, SigLen)
    BY <1>1, Joined
  <2>3. n4 + SigLen = n5
    BY <1>1, <1>2
  <2> QED
    BY <2>1, <2>2, <2>3 DEF JoinedAt
<1>15. PICK s6 \in Seq(Bytes) :
         /\ s6 = s5 \o p6
         /\ Len(s6) = n6
         /\ \A i \in 1..n5 : s6[i] = s5[i]
         /\ \A i \in 1..CtLen : s6[n5 + i] = p6[i]
  <2>1. Len(s5) = n5 /\ Len(p6) = CtLen
    BY <1>14, <1>10
  <2>2. JoinedAt(s5, p6, n5, CtLen)
    BY <1>1, Joined
  <2>3. n5 + CtLen = n6
    BY <1>1, <1>2
  <2> QED
    BY <2>1, <2>2, <2>3 DEF JoinedAt
<1>16. SealedWith(h) = s6
  BY <1>5, <1>6, <1>7, <1>8, <1>9, <1>10, <1>11, <1>12, <1>13, <1>14, <1>15 DEF SealedWith
<1>17. ASSUME NEW i \in 1..3 + h + SigLen + CtLen
       PROVE  s6[i] = ByteAt(h, i)
  <2>1. CASE i <= 2
    <3>1. (i = 1 \/ i = 2) /\ i \in 1..n2 /\ i \in 1..n3 /\ i \in 1..n4 /\ i \in 1..n5
      BY <1>1, <1>2, <2>1
    <3>2. s6[i] = s2[i]
      <4>1. s6[i] = s5[i] /\ s5[i] = s4[i] /\ s4[i] = s3[i] /\ s3[i] = s2[i]
        BY <1>12, <1>13, <1>14, <1>15, <3>1, Zenon
      <4> QED
        BY <4>1
    <3>3. s2[1] = p1[1] /\ s2[2] = p2[1]
      <4>1. 1 \in 1..n1 /\ n1 + 1 = 2
        BY <1>2
      <4>2. s2[1] = p1[1] /\ s2[n1 + 1] = p2[1]
        BY <1>11, <4>1, Zenon
      <4> QED
        BY <4>1, <4>2
    <3> QED
      BY <1>5, <1>6, <2>1, <3>1, <3>2, <3>3 DEF ByteAt
  <2>2. CASE 2 < i /\ i <= 2 + h
    <3>1. PICK l \in 1..h : i = n2 + l /\ l = i - 2
      <4>1. i - 2 \in 1..h /\ i = n2 + (i - 2)
        BY <1>2, <2>2
      <4> QED
        BY <4>1
    <3>2. i \in 1..n3 /\ i \in 1..n4 /\ i \in 1..n5
      BY <1>1, <1>2, <2>2
    <3>3. s6[i] = s3[i] /\ s3[n2 + l] = p3[l] /\ p3[l] = <<3, l>>
      <4>1. s6[i] = s5[i] /\ s5[i] = s4[i] /\ s4[i] = s3[i]
        BY <1>13, <1>14, <1>15, <3>2, Zenon
      <4>2. s3[n2 + l] = p3[l] /\ p3[l] = <<3, l>>
        BY <1>7, <1>12, Zenon
      <4> QED
        BY <4>1, <4>2, Zenon
    <3>4. ByteAt(h, i) = <<3, l>>
      BY <1>2, <3>1, ByteOfPart
    <3> QED
      BY <3>1, <3>3, <3>4, Zenon
  <2>3. CASE i = 3 + h
    <3>1. i = n3 + 1 /\ 1 \in 1..n1 /\ i \in 1..n4 /\ i \in 1..n5
      BY <1>1, <1>2, <2>3
    <3>2. s6[i] = s4[i] /\ s4[n3 + 1] = p4[1] /\ p4[1] = <<4, 1>>
      <4>1. s6[i] = s5[i] /\ s5[i] = s4[i]
        BY <1>14, <1>15, <3>1, Zenon
      <4>2. s4[n3 + 1] = p4[1] /\ p4[1] = <<4, 1>>
        BY <1>8, <1>13, <3>1, Zenon
      <4> QED
        BY <4>1, <4>2, Zenon
    <3>3. ByteAt(h, i) = <<4, 1>>
      BY <2>3, ByteOfPart
    <3> QED
      BY <3>1, <3>2, <3>3, Zenon
  <2>4. CASE 3 + h < i /\ i <= 3 + h + SigLen
    <3>1. PICK l \in 1..SigLen : i = n4 + l /\ l = i - (3 + h)
      <4>1. i - (3 + h) \in 1..SigLen /\ i = n4 + (i - (3 + h))
        BY <1>1, <1>2, <2>4
      <4> QED
        BY <4>1
    <3>2. i \in 1..n5
      BY <1>1, <1>2, <2>4
    <3>3. s6[i] = s5[i] /\ s5[n4 + l] = p5[l] /\ p5[l] = <<5, l>>
      BY <1>9, <1>14, <1>15, <3>2, Zenon
    <3>4. ByteAt(h, i) = <<5, l>>
      BY <1>2, <3>1, ByteOfPart
    <3> QED
      BY <3>1, <3>3, <3>4, Zenon
  <2>5. CASE 3 + h + SigLen < i
    <3>1. PICK l \in 1..CtLen : i = n5 + l /\ l = i - (3 + h + SigLen)
      <4>1. i - (3 + h + SigLen) \in 1..CtLen /\ i = n5 + (i - (3 + h + SigLen))
        BY <1>1, <1>2, <2>5
      <4> QED
        BY <4>1
    <3>2. s6[n5 + l] = p6[l] /\ p6[l] = <<6, l>>
      BY <1>10, <1>15, Zenon
    <3>3. ByteAt(h, i) = <<6, l>>
      BY <1>2, <3>1, ByteOfPart
    <3> QED
      BY <3>1, <3>2, <3>3, Zenon
  <2> QED
    BY <1>1, <2>1, <2>2, <2>3, <2>4, <2>5
<1> QED
  BY <1>2, <1>15, <1>16, <1>17

-----------------------------------------------------------------------------
(***************************************************************************)
(* Unsealer::new.  The header that was sent is the only one that verifies, *)
(* so that a message opens with its length only.                           *)
(***************************************************************************)
LEMMA SliceOfBytes ==
  ASSUME NEW s \in Seq(Bytes), NEW from \in Nat \ {0}, NEW to \in Int, to <= Len(s)
  PROVE  /\ SubSeq(s, from, to) \in Seq(Bytes)
         /\ Len(SubSeq(s, from, to)) = IF from <= to THEN to - from + 1 ELSE 0
         /\ \A i \in 1..to - from + 1 : SubSeq(s, from, to)[i] = s[from + i - 1]
<1>1. Len(s) \in Nat
  BY LenProperties
<1>2. \A i \in from..to : s[i] \in Bytes
  BY <1>1, ElementOfSeq
<1> QED
  BY <1>2, SubSeqProperties

LEMMA LengthAtType ==
  ASSUME wire \in Seq(Bytes), NEW p, NEW part, NEW n \in Nat, NEW l \in LengthAt(p, part, n)
  PROVE  l \in Nat /\ (l = n <=> wire[p] = <<part, 1>>)
<1>1. Len(wire) \in Nat
  BY LenProperties
<1>2. CASE wire[p] = <<part, 1>>
  BY <1>2 DEF LengthAt
<1>3. CASE wire[p] # <<part, 1>>
  <2>1. l \in 0..(Len(wire) + 1) \ {n}
    BY <1>3 DEF LengthAt
  <2> QED
    BY <1>1, <1>3, <2>1
<1> QED
  BY <1>2, <1>3

\* What Unsealer::new has read when it has come to the two splits.
Split(h, s) ==
  /\ wire[1] = <<1, 1>>
  /\ h \in HeaderLengths
  /\ h <= Limit
  /\ Len(wire) > Preamble + h
  /\ s \in LengthAt(Preamble + h + 1, 4, SigLen)
  /\ SplitAt(h, s)
  /\ ct' = SubSeq(wire, Preamble + h + 2 + s, Len(wire))

\* What is left when it stops before.
Unsplit ==
  /\ ct' = ct
  /\ \/ Len(wire) < Preamble /\ unseal' = "panic"
     \/ Len(wire) >= Preamble /\ wire[1] # <<1, 1>> /\ unseal' \in {"NotPostGuard", "IncorrectVersion"}
     \/ \E h \in HeaderLengths :
          \/ h > Limit /\ unseal' = "ConstraintViolation"
          \/ Len(wire) >= Preamble /\ Len(wire) <= Preamble + h /\ unseal' = "panic"

LEMMA OpenCases ==
  ASSUME Open
  PROVE  Unsplit \/ \E h, s : Len(wire) >= Preamble /\ Split(h, s)
<1>1. CASE Len(wire) < Preamble /\ unseal' = "panic" /\ UNCHANGED ct
  BY <1>1 DEF Unsplit
<1>2. CASE /\ Len(wire) >= Preamble /\ wire[1] # <<1, 1>>
           /\ unseal' \in {"NotPostGuard", "IncorrectVersion"}
           /\ UNCHANGED ct
  BY <1>2 DEF Unsplit
<1>3. CASE /\ Len(wire) >= Preamble /\ wire[1] = <<1, 1>>
           /\ \E h \in HeaderLengths : SplitHeader(h)
  <2>1. PICK h \in HeaderLengths : SplitHeader(h)
    BY <1>3
  <2>2. CASE h > Limit /\ unseal' = "ConstraintViolation" /\ UNCHANGED ct
    BY <2>2 DEF Unsplit
  <2>3. CASE Len(wire) <= Preamble + h /\ unseal' = "panic" /\ UNCHANGED ct
    BY <1>3, <2>3 DEF Unsplit
  <2>4. CASE /\ h <= Limit
             /\ Len(wire) > Preamble + h
             /\ \E s \in LengthAt(Preamble + h + 1, 4, SigLen) :
                  /\ SplitAt(h, s)
                  /\ ct' = SubSeq(wire, Preamble + h + 2 + s, Len(wire))
    BY <1>3, <2>4, Zenon DEF Split
  <2> QED
    BY <2>1, <2>2, <2>3, <2>4, Zenon DEF SplitHeader
<1> QED
  BY <1>1, <1>2, <1>3, Zenon DEF Open

LEMMA SplitAtCases ==
  ASSUME NEW h, NEW s, SplitAt(h, s)
  PROVE  \/ Len(wire) < Preamble + h + 1 + s /\ unseal' = "panic"
         \/ /\ Len(wire) >= Preamble + h + 1 + s
            /\ unseal' = "Bincode" \/ unseal' = "IncorrectSignature"
            /\ \/ ~(s >= SigLen)
               \/ SubSeq(SubSeq(wire, Preamble + h + 2, Preamble + h + 1 + s), 1, SigLen) # Part(5, SigLen)
               \/ SubSeq(wire, Preamble + 1, Preamble + h) # Part(3, HeaderLen(header))
         \/ /\ Len(wire) >= Preamble + h + 1 + s
            /\ s >= SigLen
            /\ SubSeq(SubSeq(wire, Preamble + h + 2, Preamble + h + 1 + s), 1, SigLen) = Part(5, SigLen)
            /\ SubSeq(wire, Preamble + 1, Preamble + h) = Part(3, HeaderLen(header))
            /\ unseal' = IF header.mode.kind = "InMemory" THEN "opened" ELSE "ModeNotSupported"
<1> DEFINE hb == SubSeq(wire, Preamble + 1, Preamble + h)
           sb == SubSeq(SubSeq(wire, Preamble + h + 2, Preamble + h + 1 + s), 1, SigLen)
<1>1. \/ Len(wire) < Preamble + h + 1 + s /\ unseal' = "panic"
      \/ /\ Len(wire) >= Preamble + h + 1 + s
         /\ \/ ~(s >= SigLen /\ sb = Part(5, SigLen)) /\ unseal' \in {"Bincode", "IncorrectSignature"}
            \/ /\ s >= SigLen /\ sb = Part(5, SigLen)
               /\ hb # Part(3, HeaderLen(header))
               /\ unseal' = "IncorrectSignature"
            \/ /\ s >= SigLen /\ sb = Part(5, SigLen)
               /\ hb = Part(3, HeaderLen(header))
               /\ unseal' = IF header.mode.kind = "InMemory" THEN "opened" ELSE "ModeNotSupported"
  BY Zenon DEF SplitAt
<1> HIDE DEF hb, sb
<1>2. \A x : x \in {"Bincode", "IncorrectSignature"} => x = "Bincode" \/ x = "IncorrectSignature"
  OBVIOUS
<1>3. \/ Len(wire) < Preamble + h + 1 + s /\ unseal' = "panic"
      \/ /\ Len(wire) >= Preamble + h + 1 + s
         /\ unseal' = "Bincode" \/ unseal' = "IncorrectSignature"
         /\ ~(s >= SigLen) \/ sb # Part(5, SigLen) \/ hb # Part(3, HeaderLen(header))
      \/ /\ Len(wire) >= Preamble + h + 1 + s
         /\ s >= SigLen
         /\ sb = Part(5, SigLen)
         /\ hb = Part(3, HeaderLen(header))
         /\ unseal' = IF header.mode.kind = "InMemory" THEN "opened" ELSE "ModeNotSupported"
  BY <1>1, <1>2, Zenon
<1> QED
  BY <1>3, Zenon DEF hb, sb

\* The lengths that were read are numbers, and those that were sent if their
\* bytes are.
LEMMA SplitType ==
  ASSUME wire \in Seq(Bytes), HeaderLen(header) \in Nat, NEW h, NEW s, Split(h, s)
  PROVE  /\ h \in Nat /\ s \in Nat
         /\ h = HeaderLen(header) <=> wire[2] = <<2, 1>>
         /\ s = SigLen <=> wire[3 + h] = <<4, 1>>
<1>1. SigLen \in Nat
  BY SealerAssumption
<1>2. h \in LengthAt(2, 2, HeaderLen(header)) /\ s \in LengthAt(Preamble + h + 1, 4, SigLen)
  BY DEF Split, HeaderLengths
<1>3. h \in Nat /\ (h = HeaderLen(header) <=> wire[2] = <<2, 1>>)
  BY <1>2, LengthAtType
<1>4. s \in Nat /\ (s = SigLen <=> wire[Preamble + h + 1] = <<4, 1>>)
  BY <1>1, <1>2, LengthAtType
<1>5. Preamble + h + 1 = 3 + h
  BY <1>3 DEF Preamble
<1> QED
  BY <1>3, <1>4, <1>5

\* What is known of a message that was opened.
Opened(s) ==
  /\ s \in Nat /\ s >= SigLen
  /\ 3 + HeaderLen(header) + s <= Len(wire)
  /\ wire[1] = <<1, 1>> /\ wire[2] = <<2, 1>>
  /\ \A i \in 1..HeaderLen(header) : wire[2 + i] = <<3, i>>
  /\ s = SigLen <=> wire[3 + HeaderLen(header)] = <<4, 1>>
  /\ \A i \in 1..SigLen : wire[3 + HeaderLen(header) + i] = <<5, i>>
  /\ ct' = SubSeq(wire, 4 + HeaderLen(header) + s, Len(wire))

LEMMA OpenFinds ==
  ASSUME wire \in Seq(Bytes), HeaderLen(header) \in Nat, Open, unseal' = "opened"
  PROVE  \E s : Opened(s)
<1>1. ~Unsplit
  BY DEF Unsplit
<1>2. PICK h, s : Len(wire) >= Preamble /\ Split(h, s)
  BY <1>1, OpenCases
<1>3. /\ h \in Nat /\ s \in Nat
      /\ h = HeaderLen(header) <=> wire[2] = <<2, 1>>
      /\ s = SigLen <=> wire[3 + h] = <<4, 1>>
  BY <1>2, SplitType
<1>4. Len(wire) \in Nat /\ SigLen \in Nat /\ Preamble = 2
  BY LenProperties, SealerAssumption DEF Preamble
<1> DEFINE sig == SubSeq(wire, Preamble + h + 2, Preamble + h + 1 + s)
<1>5. /\ Len(wire) >= Preamble + h + 1 + s
      /\ s >= SigLen
      /\ SubSeq(sig, 1, SigLen) = Part(5, SigLen)
      /\ SubSeq(wire, Preamble + 1, Preamble + h) = Part(3, HeaderLen(header))
  BY <1>2, SplitAtCases DEF Split
<1>6. /\ Len(Part(3, HeaderLen(header))) = HeaderLen(header)
      /\ \A i \in 1..HeaderLen(header) : Part(3, HeaderLen(header))[i] = <<3, i>>
      /\ Len(Part(5, SigLen)) = SigLen
      /\ \A i \in 1..SigLen : Part(5, SigLen)[i] = <<5, i>>
  BY <1>4, PartType
<1>7. h = HeaderLen(header) /\ \A i \in 1..h : wire[2 + i] = <<3, i>>
  <2>1. PICK to \in Int : to = Preamble + h /\ to = 2 + h
    BY <1>3, <1>4
  <2>2. to <= Len(wire)
    BY <1>3, <1>4, <1>5, <2>1
  <2>3. /\ Len(SubSeq(wire, 3, to)) = IF 3 <= to THEN to - 3 + 1 ELSE 0
        /\ \A i \in 1..to - 3 + 1 : SubSeq(wire, 3, to)[i] = wire[3 + i - 1]
    BY <2>2, SliceOfBytes
  <2>4. SubSeq(wire, 3, to) = Part(3, HeaderLen(header))
    BY <1>4, <1>5, <2>1
  <2>5. h = HeaderLen(header)
    BY <1>3, <1>6, <2>1, <2>3, <2>4
  <2>6. ASSUME NEW i \in 1..h
        PROVE  wire[2 + i] = <<3, i>>
    <3>1. SubSeq(wire, 3, to)[i] = wire[3 + i - 1] /\ 3 + i - 1 = 2 + i
      BY <1>3, <2>1, <2>3
    <3> QED
      BY <1>6, <2>4, <2>5, <3>1
  <2> QED
    BY <2>5, <2>6
<1>8. \A i \in 1..SigLen : wire[3 + h + i] = <<5, i>>
  <2>1. PICK from \in Nat \ {0}, to \in Int :
          /\ from = Preamble + h + 2 /\ from = 4 + h
          /\ to = Preamble + h + 1 + s /\ to = 3 + h + s
          /\ to - from + 1 = s /\ (from <= to <=> s # 0)
    <3>1. /\ Preamble + h + 2 \in Nat \ {0} /\ Preamble + h + 2 = 4 + h
          /\ Preamble + h + 1 + s \in Int /\ Preamble + h + 1 + s = 3 + h + s
          /\ (3 + h + s) - (4 + h) + 1 = s /\ (4 + h <= 3 + h + s <=> s # 0)
      BY <1>3, <1>4
    <3> QED
      BY <3>1
  <2>2. to <= Len(wire)
    BY <1>3, <1>4, <1>5, <2>1
  <2>3. /\ SubSeq(wire, from, to) \in Seq(Bytes)
        /\ Len(SubSeq(wire, from, to)) = IF from <= to THEN to - from + 1 ELSE 0
        /\ \A i \in 1..to - from + 1 : SubSeq(wire, from, to)[i] = wire[from + i - 1]
    BY <2>2, SliceOfBytes
  <2>4. Len(SubSeq(wire, from, to)) = s
    BY <2>1, <2>3
  <2>5. \A i \in 1..SigLen : SubSeq(SubSeq(wire, from, to), 1, SigLen)[i] = SubSeq(wire, from, to)[i]
    <3>1. SigLen <= Len(SubSeq(wire, from, to))
      BY <1>5, <2>4
    <3>2. \A i \in 1..SigLen - 1 + 1 :
            SubSeq(SubSeq(wire, from, to), 1, SigLen)[i] = SubSeq(wire, from, to)[1 + i - 1]
      BY <1>4, <2>3, <3>1, SliceOfBytes
    <3>3. SigLen - 1 + 1 = SigLen /\ \A i \in 1..SigLen : 1 + i - 1 = i
      BY <1>4
    <3> QED
      BY <3>2, <3>3
  <2>6. SubSeq(SubSeq(wire, from, to), 1, SigLen) = Part(5, SigLen)
    BY <1>5, <2>1
  <2>7. ASSUME NEW i \in 1..SigLen
        PROVE  wire[3 + h + i] = <<5, i>>
    <3>1. SubSeq(wire, from, to)[i] = wire[from + i - 1] /\ from + i - 1 = 3 + h + i
      BY <1>3, <1>4, <1>5, <2>1, <2>3
    <3> QED
      BY <1>6, <2>5, <2>6, <3>1
  <2> QED
    BY <2>7
<1>9. Preamble + h + 2 + s = 4 + HeaderLen(header) + s
  BY <1>3, <1>4, <1>7
<1>10. ct' = SubSeq(wire, 4 + HeaderLen(header) + s, Len(wire)) /\ wire[1] = <<1, 1>>
  BY <1>2, <1>9 DEF Split
<1> QED
  <2>1. s \in Nat /\ s >= SigLen /\ 3 + h + s <= Len(wire)
    BY <1>3, <1>4, <1>5
  <2>2. wire[2] = <<2, 1>> /\ (s = SigLen <=> wire[3 + h] = <<4, 1>>)
    BY <1>3, <1>7
  <2>3. Opened(s)
    BY <1>7, <1>8, <1>10, <2>1, <2>2 DEF Opened
  <2> QED
    BY <2>3

(***************************************************************************)
(* The ciphertext is found whole only in the message that was sent, or in  *)
(* one in which a longer signature was made up.                            *)
(***************************************************************************)
LEMMA OpenedIsSent ==
  ASSUME wire \in Seq(Bytes), HeaderLen(header) \in Nat, NEW s, Opened(s), ct' = CiphertextBytes
  PROVE  \/ wire = Sent
         \/ Len(wire) > Len(Sent) /\ wire[3 + HeaderLen(header)] # <<4, 1>>
<1> DEFINE H == HeaderLen(header)
<1>1. /\ Len(wire) \in Nat /\ SigLen \in Nat /\ CtLen \in Nat \ {0} /\ s \in Nat /\ H \in Nat
      /\ s >= SigLen /\ 3 + H + s <= Len(wire)
  BY LenProperties, SealerAssumption DEF Opened
<1>2. /\ Sent \in Seq(Bytes) /\ Len(Sent) = 3 + H + SigLen + CtLen
      /\ \A i \in 1..3 + H + SigLen + CtLen : Sent[i] = ByteAt(H, i)
  BY SealedWithType DEF Sent
<1>3. Len(CiphertextBytes) = CtLen /\ \A i \in 1..CtLen : CiphertextBytes[i] = <<6, i>>
  BY <1>1, PartType DEF CiphertextBytes
<1>4. PICK from \in Nat \ {0}, to \in Int : from = 4 + H + s /\ to = Len(wire) /\ to <= Len(wire)
  BY <1>1
<1>5. /\ Len(SubSeq(wire, from, to)) = IF from <= to THEN to - from + 1 ELSE 0
      /\ \A i \in 1..to - from + 1 : SubSeq(wire, from, to)[i] = wire[from + i - 1]
  <2>1. from \in Nat \ {0} /\ to \in Int /\ to <= Len(wire) /\ wire \in Seq(Bytes)
    BY <1>4
  <2> HIDE DEF H
  <2> QED
    BY <2>1, SliceOfBytes
<1>6. SubSeq(wire, from, to) = CiphertextBytes
  BY <1>4 DEF Opened
<1>7. Len(wire) = 3 + H + s + CtLen
  <2>1. (IF from <= to THEN to - from + 1 ELSE 0) = CtLen
    BY <1>3, <1>5, <1>6
  <2> HIDE DEF H
  <2>2. from <= to /\ to - from + 1 = CtLen
    BY <1>1, <1>4, <2>1
  <2> QED
    BY <1>1, <1>4, <2>2
<1>8. CASE s = SigLen
  <2>1. Len(wire) = Len(Sent)
    BY <1>1, <1>2, <1>7, <1>8
  <2>2. ASSUME NEW i \in 1..Len(wire)
        PROVE  wire[i] = ByteAt(H, i)
    <3>1. CASE i <= 2
      <4>1. i = 1 \/ i = 2
        BY <1>1, <3>1
      <4> QED
        BY <3>1, <4>1 DEF ByteAt, Opened
    <3>2. CASE 2 < i /\ i <= 2 + H
      <4>1. PICK l \in 1..H : l = i - 2 /\ i = 2 + l
        <5>1. i - 2 \in 1..H /\ i = 2 + (i - 2)
          BY <1>1, <3>2
        <5> QED
          BY <5>1
      <4>2. wire[2 + l] = <<3, l>>
        BY DEF Opened
      <4> QED
        BY <3>2, <4>1, <4>2 DEF ByteAt
    <3>3. CASE i = 3 + H
      <4>1. wire[3 + H] = <<4, 1>>
        BY <1>8 DEF Opened
      <4>2. ByteAt(H, i) = <<4, 1>>
        BY <1>1, <3>3 DEF ByteAt
      <4> QED
        BY <3>3, <4>1, <4>2
    <3>4. CASE 3 + H < i /\ i <= 3 + H + SigLen
      <4>1. PICK l \in 1..SigLen : l = i - (3 + H) /\ i = 3 + H + l
        <5>1. i - (3 + H) \in 1..SigLen /\ i = 3 + H + (i - (3 + H))
          BY <1>1, <3>4
        <5> QED
          BY <5>1
      <4>2. wire[3 + H + l] = <<5, l>>
        BY DEF Opened
      <4>3. ByteAt(H, 3 + H + l) = <<5, l>>
        BY <1>1, ByteOfPart
      <4> QED
        BY <4>1, <4>2, <4>3
    <3>5. CASE 3 + H + SigLen < i
      <4>1. PICK l \in 1..CtLen : l = i - (3 + H + SigLen) /\ from + l - 1 = i
        <5>1. i - (3 + H + SigLen) \in 1..CtLen /\ from + (i - (3 + H + SigLen)) - 1 = i
          <6>1. Len(wire) = 3 + H + SigLen + CtLen /\ from = 4 + H + SigLen
            BY <1>4, <1>7, <1>8
          <6>2. i \in Nat /\ i <= Len(wire) /\ H \in Nat /\ SigLen \in Nat /\ CtLen \in Nat
            BY <1>1
          <6> HIDE DEF H
          <6> QED
            BY <3>5, <6>1, <6>2
        <5> QED
          BY <5>1
      <4>2. to - from + 1 = CtLen
        <5>1. s \in Nat /\ H \in Nat /\ CtLen \in Nat /\ to = 3 + H + s + CtLen /\ from = 4 + H + s
          BY <1>1, <1>4, <1>7
        <5> HIDE DEF H
        <5> QED
          BY <5>1
      <4>3. wire[i] = <<6, l>>
        BY <1>3, <1>5, <1>6, <4>1, <4>2
      <4>4. ByteAt(H, i) = <<6, l>>
        <5>1. i = 3 + H + SigLen + l
          <6>1. i \in Nat /\ H \in Nat /\ SigLen \in Nat
            BY <1>1
          <6> HIDE DEF H
          <6> QED
            BY <4>1, <6>1
        <5> QED
          BY <1>1, <5>1, ByteOfPart
      <4> QED
        BY <4>3, <4>4
    <3> QED
      BY <1>1, <3>1, <3>2, <3>3, <3>4, <3>5
  <2>3. \A i \in 1..Len(wire) : wire[i] = Sent[i]
    BY <1>2, <2>1, <2>2
  <2>4. wire = Sent
    BY <1>2, <2>1, <2>3, SeqEqual
  <2> QED
    BY <2>4
<1>9. CASE s # SigLen
  <2>1. Len(wire) > Len(Sent)
    BY <1>1, <1>2, <1>7, <1>9
  <2>2. wire[3 + H] # <<4, 1>>
    BY <1>9 DEF Opened
  <2> QED
    BY <2>1, <2>2
<1> QED
  BY <1>8, <1>9

\* Bytes of the message that are those of a part, in their order, are the part.
IsPartAt(w, from, to, k, n) ==
  /\ to <= Len(w)
  /\ n = to - from + 1
  /\ \A i \in 1..n : w[from + i - 1] = <<k, i>>

LEMMA SliceIsPart ==
  ASSUME NEW w \in Seq(Bytes), NEW from \in Nat \ {0}, NEW to \in Int, NEW k \in Nat,
         NEW n \in Nat, IsPartAt(w, from, to, k, n)
  PROVE  SubSeq(w, from, to) = Part(k, n)
<1>0. to <= Len(w) /\ n = to - from + 1 /\ \A i \in 1..n : w[from + i - 1] = <<k, i>>
  BY DEF IsPartAt
<1>1. /\ SubSeq(w, from, to) \in Seq(Bytes)
      /\ Len(SubSeq(w, from, to)) = IF from <= to THEN to - from + 1 ELSE 0
      /\ \A i \in 1..to - from + 1 : SubSeq(w, from, to)[i] = w[from + i - 1]
  BY <1>0, SliceOfBytes
<1>2. Len(SubSeq(w, from, to)) = n
  BY <1>0, <1>1
<1>3. \A i \in 1..n : SubSeq(w, from, to)[i] = <<k, i>>
  BY <1>0, <1>1
<1>4. /\ Part(k, n) \in Seq(Bytes)
      /\ Len(Part(k, n)) = n
      /\ \A i \in 1..n : Part(k, n)[i] = <<k, i>>
  BY PartType
<1> QED
  BY <1>1, <1>2, <1>3, <1>4, SeqEqual

\* The parts of the message that was sent, at their places.
LEMMA PartsOfSent ==
  ASSUME HeaderLen(header) \in Nat
  PROVE  LET H == HeaderLen(header) IN
         /\ Sent \in Seq(Bytes) /\ Len(Sent) = 3 + H + SigLen + CtLen
         /\ Sent[1] = <<1, 1>> /\ Sent[2] = <<2, 1>> /\ Sent[3 + H] = <<4, 1>>
         /\ SubSeq(Sent, 3, 2 + H) = Part(3, H)
         /\ SubSeq(SubSeq(Sent, 4 + H, 3 + H + SigLen), 1, SigLen) = Part(5, SigLen)
         /\ SubSeq(Sent, 4 + H + SigLen, 3 + H + SigLen + CtLen) = CiphertextBytes
<1> DEFINE H == HeaderLen(header)
<1>1. SigLen \in Nat \ {0} /\ CtLen \in Nat \ {0} /\ H \in Nat
  BY SealerAssumption
<1>2. /\ Sent \in Seq(Bytes) /\ Len(Sent) = 3 + H + SigLen + CtLen
      /\ \A i \in 1..3 + H + SigLen + CtLen : Sent[i] = ByteAt(H, i)
  BY SealedWithType DEF Sent
<1> HIDE DEF H
<1>3. Sent[1] = <<1, 1>> /\ Sent[2] = <<2, 1>> /\ Sent[3 + H] = <<4, 1>>
  <2>1. 1 \in 1..3 + H + SigLen + CtLen /\ 2 \in 1..3 + H + SigLen + CtLen
        /\ 3 + H \in 1..3 + H + SigLen + CtLen
    BY <1>1
  <2>2. ByteAt(H, 1) = <<1, 1>> /\ ByteAt(H, 2) = <<2, 1>>
    BY DEF ByteAt
  <2>3. ByteAt(H, 3 + H) = <<4, 1>>
    <3>1. PICK i \in Nat : i = 3 + H
      BY <1>1
    <3>2. ByteAt(H, i) = <<4, 1>>
      BY <1>1, <3>1 DEF ByteAt
    <3> QED
      BY <3>1, <3>2
  <2> QED
    BY <1>2, <2>1, <2>2, <2>3
<1>4. SubSeq(Sent, 3, 2 + H) = Part(3, H)
  <2>1. PICK from \in Nat \ {0}, to \in Int, k \in Nat :
          from = 3 /\ to = 2 + H /\ k = 3 /\ to <= Len(Sent) /\ H = to - from + 1
    BY <1>1, <1>2
  <2>2. ASSUME NEW i \in 1..H
        PROVE  Sent[from + i - 1] = <<k, i>>
    <3>1. PICK l \in 1..3 + H + SigLen + CtLen : l = from + i - 1 /\ l = 2 + i
      BY <1>1, <2>1
    <3>2. ByteAt(H, l) = <<3, l - 2>> /\ l - 2 = i
      BY <1>1, <3>1 DEF ByteAt
    <3> QED
      BY <1>2, <2>1, <3>1, <3>2
  <2>3. SubSeq(Sent, from, to) = Part(k, H)
    <3>1. Sent \in Seq(Bytes) /\ H \in Nat /\ to <= Len(Sent) /\ H = to - from + 1
      BY <1>1, <1>2, <2>1
    <3>2. IsPartAt(Sent, from, to, k, H)
      BY <2>2, <3>1 DEF IsPartAt
    <3> QED
      BY <3>1, <3>2, SliceIsPart
  <2> QED
    BY <2>1, <2>3
<1>5. SubSeq(Sent, 4 + H, 3 + H + SigLen) = Part(5, SigLen)
  <2>1. PICK from \in Nat \ {0}, to \in Int, k \in Nat :
          from = 4 + H /\ to = 3 + H + SigLen /\ k = 5 /\ to <= Len(Sent) /\ SigLen = to - from + 1
    <3>1. 4 + H \in Nat \ {0} /\ 3 + H + SigLen <= Len(Sent) /\ SigLen = (3 + H + SigLen) - (4 + H) + 1
      BY <1>1, <1>2
    <3> QED
      BY <1>1, <3>1
  <2>2. ASSUME NEW i \in 1..SigLen
        PROVE  Sent[from + i - 1] = <<k, i>>
    <3>1. PICK l \in 1..3 + H + SigLen + CtLen : l = from + i - 1 /\ l = 3 + H + i
      BY <1>1, <2>1
    <3>2. ByteAt(H, l) = <<5, l - (3 + H)>> /\ l - (3 + H) = i
      BY <1>1, <3>1 DEF ByteAt
    <3> QED
      BY <1>2, <2>1, <3>1, <3>2
  <2>3. SubSeq(Sent, from, to) = Part(k, SigLen)
    <3>1. Sent \in Seq(Bytes) /\ SigLen \in Nat /\ to <= Len(Sent) /\ SigLen = to - from + 1
      BY <1>1, <1>2, <2>1
    <3>2. IsPartAt(Sent, from, to, k, SigLen)
      BY <2>2, <3>1 DEF IsPartAt
    <3> QED
      BY <3>1, <3>2, SliceIsPart
  <2> QED
    BY <2>1, <2>3
<1>6. SubSeq(SubSeq(Sent, 4 + H, 3 + H + SigLen), 1, SigLen) = Part(5, SigLen)
  <2>1. Part(5, SigLen) \in Seq(Bytes) /\ Len(Part(5, SigLen)) = SigLen
    BY <1>1, PartType
  <2>2. SubSeq(Part(5, SigLen), 1, Len(Part(5, SigLen))) = Part(5, SigLen)
    BY <2>1, SubSeqFull
  <2> QED
    BY <1>5, <2>1, <2>2
<1>7. SubSeq(Sent, 4 + H + SigLen, 3 + H + SigLen + CtLen) = CiphertextBytes
  <2>1. PICK from \in Nat \ {0}, to \in Int, k \in Nat :
          /\ from = 4 + H + SigLen /\ to = 3 + H + SigLen + CtLen /\ k = 6
          /\ to <= Len(Sent) /\ CtLen = to - from + 1
    <3>1. /\ 4 + H + SigLen \in Nat \ {0} /\ 3 + H + SigLen + CtLen <= Len(Sent)
          /\ CtLen = (3 + H + SigLen + CtLen) - (4 + H + SigLen) + 1
      BY <1>1, <1>2
    <3> QED
      BY <1>1, <3>1
  <2>2. ASSUME NEW i \in 1..CtLen
        PROVE  Sent[from + i - 1] = <<k, i>>
    <3>1. PICK l \in 1..3 + H + SigLen + CtLen : l = from + i - 1 /\ l = 3 + H + SigLen + i
      BY <1>1, <2>1
    <3>2. ByteAt(H, l) = <<6, l - (3 + H + SigLen)>> /\ l - (3 + H + SigLen) = i
      BY <1>1, <3>1 DEF ByteAt
    <3> QED
      BY <1>2, <2>1, <3>1, <3>2
  <2>3. SubSeq(Sent, from, to) = Part(k, CtLen)
    <3>1. Sent \in Seq(Bytes) /\ CtLen \in Nat /\ to <= Len(Sent) /\ CtLen = to - from + 1
      BY <1>1, <1>2, <2>1
    <3>2. IsPartAt(Sent, from, to, k, CtLen)
      BY <2>2, <3>1 DEF IsPartAt
    <3> QED
      BY <3>1, <3>2, SliceIsPart
  <2> QED
    BY <2>1, <2>3 DEF CiphertextBytes
<1> QED
  BY <1>2, <1>3, <1>4, <1>6, <1>7 DEF H

(***************************************************************************)
(* What was sent is opened, unless its header is longer than unsealers     *)
(* read or it is not a message for memory; and its ciphertext is found.    *)
(***************************************************************************)
LEMMA OpenSent ==
  ASSUME HeaderLen(header) \in Nat, wire = Sent, Open
  PROVE  /\ unseal' = "opened" => ct' = CiphertextBytes
         /\ header.mode.kind = "InMemory" /\ HeaderLen(header) <= MaxHeader => unseal' = "opened"
<1> DEFINE H == HeaderLen(header)
<1>1. SigLen \in Nat \ {0} /\ CtLen \in Nat \ {0} /\ H \in Nat /\ Preamble = 2
  BY SealerAssumption DEF Preamble
<1>2. /\ wire \in Seq(Bytes) /\ Len(wire) = 3 + H + SigLen + CtLen
      /\ wire[1] = <<1, 1>> /\ wire[2] = <<2, 1>> /\ wire[3 + H] = <<4, 1>>
      /\ SubSeq(wire, 3, 2 + H) = Part(3, H)
      /\ SubSeq(SubSeq(wire, 4 + H, 3 + H + SigLen), 1, SigLen) = Part(5, SigLen)
      /\ SubSeq(wire, 4 + H + SigLen, 3 + H + SigLen + CtLen) = CiphertextBytes
  BY PartsOfSent
<1>3. \A h \in HeaderLengths : h = H
  BY <1>2 DEF HeaderLengths, LengthAt
<1>3a. Len(wire) = 3 + H + SigLen + CtLen
  BY <1>2
<1>4. CASE Unsplit
  <2>1. ~(Len(wire) < Preamble) /\ ~(Len(wire) <= Preamble + H)
    <3> HIDE DEF H
    <3> QED
      BY <1>1, <1>3a
  <2>2. H > MaxHeader /\ unseal' = "ConstraintViolation"
    BY <1>2, <1>3, <1>4, <2>1 DEF Unsplit, Limit
  <2> QED
    BY <1>1, <2>2, HeaderAssumption
<1>5. ASSUME NEW h, NEW s, Split(h, s)
      PROVE  /\ unseal' = IF header.mode.kind = "InMemory" THEN "opened" ELSE "ModeNotSupported"
             /\ ct' = CiphertextBytes
  <2>1. h = H
    BY <1>3, <1>5 DEF Split
  <2>2. s = SigLen
    <3>1. wire[3 + h] = <<4, 1>> /\ wire \in Seq(Bytes)
      BY <1>2, <2>1
    <3> HIDE DEF H
    <3> QED
      BY <1>5, <3>1, SplitType
  <2>3. /\ Preamble + h + 1 + s = 3 + H + SigLen /\ Preamble + h + 2 = 4 + H
        /\ Preamble + 1 = 3 /\ Preamble + h = 2 + H /\ Preamble + h + 2 + s = 4 + H + SigLen
        /\ ~(Len(wire) < Preamble + h + 1 + s) /\ s >= SigLen
    <3> HIDE DEF H
    <3> QED
      BY <1>1, <1>3a, <2>1, <2>2
  <2>4. ct' = SubSeq(wire, Preamble + h + 2 + s, Len(wire))
    BY <1>5 DEF Split
  <2>5. ct' = CiphertextBytes
    BY <1>2, <2>3, <2>4
  <2>6. SplitAt(h, s)
    BY <1>5 DEF Split
  <2>7. /\ SubSeq(SubSeq(wire, Preamble + h + 2, Preamble + h + 1 + s), 1, SigLen) = Part(5, SigLen)
        /\ SubSeq(wire, Preamble + 1, Preamble + h) = Part(3, HeaderLen(header))
    BY <1>2, <2>3
  <2>8. unseal' = IF header.mode.kind = "InMemory" THEN "opened" ELSE "ModeNotSupported"
    BY <2>3, <2>6, <2>7, SplitAtCases, Zenon
  <2> QED
    BY <2>5, <2>8
<1> QED
  BY <1>4, <1>5, OpenCases

\* Unsealer::new panics only when the message is too short, or a length was changed.
LEMMA OpenPanics ==
  ASSUME wire \in Seq(Bytes), HeaderLen(header) \in Nat, Open, unseal' = "panic",
         \A i \in 1..Len(wire) : wire[i] # Junk => i <= Len(Sent) /\ wire[i] = Sent[i]
  PROVE  \/ Len(wire) < 3 + HeaderLen(header) + SigLen
         \/ Junk \in {wire[2], wire[3 + HeaderLen(header)]}
<1> DEFINE H == HeaderLen(header)
<1>1. /\ SigLen \in Nat \ {0} /\ CtLen \in Nat \ {0} /\ H \in Nat /\ Preamble = 2
      /\ Len(wire) \in Nat
  BY LenProperties, SealerAssumption DEF Preamble
<1>2. Sent[2] = <<2, 1>> /\ Sent[3 + H] = <<4, 1>>
  BY PartsOfSent
<1> SUFFICES ASSUME Len(wire) >= 3 + H + SigLen, wire[2] # Junk, wire[3 + H] # Junk PROVE FALSE
  BY <1>1
<1>3. wire[2] = <<2, 1>> /\ wire[3 + H] = <<4, 1>>
  <2>1. 2 \in 1..Len(wire) /\ 3 + H \in 1..Len(wire)
    BY <1>1
  <2> QED
    BY <1>2, <2>1
<1>4. \A h \in HeaderLengths : h = H
  BY <1>3 DEF HeaderLengths, LengthAt
<1>5. ~Unsplit
  <2>1. ~(Len(wire) < Preamble) /\ ~(Len(wire) <= Preamble + H)
    BY <1>1
  <2> QED
    BY <1>4, <2>1 DEF Unsplit
<1>6. PICK h, s : Split(h, s)
  BY <1>5, OpenCases
<1>7. h = H
  BY <1>4, <1>6 DEF Split
<1>8. s = SigLen
  BY <1>3, <1>6, <1>7, SplitType
<1>9. Len(wire) < Preamble + h + 1 + s
  <2>1. SplitAt(h, s)
    BY <1>6 DEF Split
  <2>2. ~(header.mode.kind = "InMemory") => unseal' # "ModeNotSupported"
    OBVIOUS
  <2> QED
    BY <2>1, SplitAtCases
<1> QED
  BY <1>1, <1>7, <1>8, <1>9

\* Unsealer::new ends in one of these ways, and keeps bytes only.
LEMMA OpenType ==
  ASSUME wire \in Seq(Bytes), ct \in Seq(Bytes), HeaderLen(header) \in Nat, Open
  PROVE  /\ ct' \in Seq(Bytes)
         /\ unseal' \in {"panic", "NotPostGuard", "IncorrectVersion", "ConstraintViolation",
                         "Bincode", "IncorrectSignature", "ModeNotSupported", "opened"}
<1>1. CASE Unsplit
  BY <1>1 DEF Unsplit
<1>2. ASSUME NEW h, NEW s, Split(h, s)
      PROVE  /\ ct' \in Seq(Bytes)
             /\ unseal' \in {"panic", "Bincode", "IncorrectSignature", "ModeNotSupported", "opened"}
  <2>1. h \in Nat /\ s \in Nat /\ Len(wire) \in Nat /\ Preamble = 2
    BY <1>2, SplitType, LenProperties DEF Preamble
  <2>2. PICK from \in Nat \ {0}, to \in Int :
          from = Preamble + h + 2 + s /\ to = Len(wire) /\ to <= Len(wire)
    <3>1. Preamble + h + 2 + s \in Nat \ {0} /\ Len(wire) \in Int /\ Len(wire) <= Len(wire)
      BY <2>1
    <3> QED
      BY <3>1
  <2>3. SubSeq(wire, from, to) \in Seq(Bytes)
    BY <2>2, SliceOfBytes
  <2>4. ct' = SubSeq(wire, Preamble + h + 2 + s, Len(wire)) /\ SplitAt(h, s)
    BY <1>2 DEF Split
  <2>5. unseal' \in {"panic", "Bincode", "IncorrectSignature", "ModeNotSupported", "opened"}
    BY <2>4, SplitAtCases
  <2> QED
    BY <2>2, <2>3, <2>4, <2>5
<1> QED
  BY <1>1, <1>2, OpenCases

-----------------------------------------------------------------------------
(***************************************************************************)
(* The inductive invariant.  What the sealer made is that of the message   *)
(* at the call and of the policies; each byte on the wire is one it sent,  *)
(* at its place, or was overwritten; and what the unsealer has found is    *)
(* what was sent when nothing was damaged, and not quite so when it was    *)
(* damaged once.                                                           *)
(***************************************************************************)
SetHeader == WithMode(NewHeader(policies), [kind |-> kind, size |-> len])

Signed == [message |-> Message, sig |-> [over |-> Message, by |-> SigningPolicy]]

InputOK ==
  /\ webSeals \in BOOLEAN
  /\ policies \in Policies
  /\ kind \in {"InMemory", "Streaming"}
  /\ len \in Lens
  /\ pubPol \in Signers
  /\ privPol \in Signers \cup {NoSigner}

SealerInv ==
  /\ InputOK
  /\ seal \in SealRunning \cup SealFailed \cup {"sealed"}
  /\ array \in Seq(Nat)
  /\ seal \in {"new", "created"} => array = Message
  /\ seal \in {"new", "panic"} => header = NewHeader(<<>>)
  /\ seal = "panic" => NewHeaderPanics(policies)
  /\ seal \notin {"new", "panic"} => ~NewHeaderPanics(policies)
  /\ seal = "created" => header = NewHeader(policies)
  /\ seal \notin {"new", "panic", "created"} => header = SetHeader
  /\ plain = Signed \/ plain = [message |-> <<>>, sig |-> [over |-> <<>>, by |-> pubPol]]
  /\ seal \in {"encrypting", "sealed"} => plain = Signed

WireInv ==
  /\ wire \in Seq(Bytes)
  /\ seal # "sealed" => wire = <<>>
  /\ seal = "sealed" =>
       /\ \A i \in 1..Len(wire) : wire[i] # Junk => i <= Len(Sent) /\ wire[i] = Sent[i]
       /\ nfaults = 0 => wire = Sent
       /\ nfaults = 1 /\ unseal = "new" =>
            wire # Sent /\ (Len(wire) <= Len(Sent) \/ wire[3 + HeaderLen(header)] = <<4, 1>>)

UnsealerInv ==
  /\ UnsealerTypeOK
  /\ nfaults \in 0..MaxFaults
  /\ nfaults # 0 => seal \in {"sealed", "JavaScript"}
  /\ unseal # "new" => seal = "sealed"
  /\ unseal = "new" => pubId = NoSigner
  /\ unseal \in UnsealRunning => with = <<>>
  /\ unseal # "ok" => out = <<>> /\ private = NoSigner
  /\ unseal = "opened" =>
       /\ pubId = pubPol
       /\ nfaults = 0 => ct = CiphertextBytes
       /\ nfaults = 1 => ct # CiphertextBytes
  /\ unseal = "ok" =>
       /\ out = Message
       /\ (IF private = NoSigner THEN pubId ELSE private) = SigningPolicy

UnsealHolds == OkNeedsPolicy /\ RightKeyOpens /\ PanicsForAReason /\ DamageIsNoticed

MemoryInv == SealerInv /\ WireInv /\ UnsealerInv /\ UnsealHolds

-----------------------------------------------------------------------------
LEMMA MessageType ==
  ASSUME InputOK
  PROVE  /\ len \in Nat
         /\ Message \in Seq(Nat)
         /\ Len(Message) = len
         /\ SigningPolicy \in Signers
<1>1. len \in Nat
  BY SealerAssumption DEF InputOK
<1>2. Message \in [1..len -> Nat]
  BY DEF Message
<1>3. Message \in Seq(Nat) /\ Len(Message) = len
  BY <1>1, <1>2, SequenceOf
<1>4. SigningPolicy \in Signers
  BY DEF InputOK, SigningPolicy
<1> QED
  BY <1>1, <1>3, <1>4

LEMMA InputsSame ==
  ASSUME UNCHANGED inputVars
  PROVE  /\ InputOK' <=> InputOK
         /\ policies' = policies /\ kind' = kind /\ len' = len /\ pubPol' = pubPol
         /\ Message' = Message
         /\ SigningPolicy' = SigningPolicy
         /\ Signed' = Signed
         /\ SetHeader' = SetHeader
<1>1. /\ webSeals' = webSeals /\ policies' = policies /\ kind' = kind
      /\ len' = len /\ pubPol' = pubPol /\ privPol' = privPol
  BY DEF inputVars
<1>2. (InputOK' <=> InputOK) /\ Message' = Message /\ SigningPolicy' = SigningPolicy
  BY <1>1 DEF InputOK, Message, SigningPolicy
<1>3. Signed' = Signed
  BY <1>2 DEF Signed
<1>4. SetHeader' = SetHeader
  BY <1>1 DEF SetHeader
<1> QED
  BY <1>1, <1>2, <1>3, <1>4

\* The header once it is made for the policies, and once its mode is set.
LEMMA HeaderType ==
  ASSUME InputOK
  PROVE  /\ SetHeader.recipients = NewHeader(policies).recipients
         /\ SetHeader.mode = [kind |-> kind, size |-> len]
         /\ DOMAIN SetHeader.recipients = DOMAIN policies
         /\ \A r \in DOMAIN policies :
              /\ SetHeader.recipients[r].policy = HiddenPolicy(policies[r])
              /\ SetHeader.recipients[r].ct = Derived(policies[r])
         /\ HeaderLen(SetHeader) \in Nat
<1> DEFINE m == [kind |-> kind, size |-> len]
           rs == [r \in DOMAIN policies |->
                    [policy |-> HiddenPolicy(policies[r]), ct |-> Derived(policies[r])]]
<1>1. NewHeader(policies) = [recipients |-> rs, mode |-> [kind |-> "Streaming", size |-> 0]]
  BY DEF NewHeader
<1>2. SetHeader = [NewHeader(policies) EXCEPT !.mode = m]
  BY DEF SetHeader, WithMode
<1> DEFINE d == [kind |-> "Streaming", size |-> 0]
<1> HIDE DEF m, rs, d
<1>3. NewHeader(policies) = [recipients |-> rs, mode |-> d]
  BY <1>1 DEF d
<1>4. SetHeader = [recipients |-> rs, mode |-> m]
  BY <1>2, <1>3
<1>5. SetHeader.recipients = rs /\ SetHeader.mode = m /\ NewHeader(policies).recipients = rs
  BY <1>3, <1>4
<1>6. HeaderLen(SetHeader) \in Nat
  BY <1>5, HeaderLenType DEF InputOK
<1>7. /\ DOMAIN rs = DOMAIN policies
      /\ \A r \in DOMAIN policies :
           rs[r].policy = HiddenPolicy(policies[r]) /\ rs[r].ct = Derived(policies[r])
  BY DEF rs
<1> QED
  BY <1>5, <1>6, <1>7 DEF m

-----------------------------------------------------------------------------
(***************************************************************************)
(* The sealer: what is sealed is what was in the array at the call.        *)
(***************************************************************************)
LEMMA SealerInvInit ==
  ASSUME Init
  PROVE  SealerInv
<1>1. InputOK /\ seal = "new" /\ array = Message /\ header = NewHeader(<<>>)
      /\ plain = [message |-> <<>>, sig |-> [over |-> <<>>, by |-> pubPol]]
  BY DEF Init, SealerInit, InputOK
<1>2. array \in Seq(Nat)
  BY <1>1, MessageType
<1> QED
  BY <1>1, <1>2 DEF SealerInv, SealRunning

LEMMA SealerInvSame ==
  ASSUME SealerInv, UNCHANGED sealerVars
  PROVE  SealerInv'
<1>1. /\ UNCHANGED inputVars
      /\ seal' = seal /\ array' = array /\ header' = header /\ plain' = plain
  BY DEF sealerVars, inputVars
<1> QED
  BY <1>1, InputsSame DEF SealerInv

LEMMA CreateInv ==
  ASSUME SealerInv, Create
  PROVE  SealerInv'
<1>1. UNCHANGED inputVars /\ array' = array /\ plain' = plain
  BY DEF Create
<1>2. CASE NewHeaderPanics(policies)
  <2>1. seal' = "panic" /\ header' = header /\ header = NewHeader(<<>>)
    BY <1>2 DEF Create, SealerInv
  <2> QED
    BY <1>1, <1>2, <2>1, InputsSame DEF SealerInv, SealFailed
<1>3. CASE ~NewHeaderPanics(policies)
  <2>1. seal = "new" /\ seal' = "created" /\ header' = NewHeader(policies)
    BY <1>3 DEF Create
  <2> QED
    BY <1>1, <1>3, <2>1, InputsSame DEF SealerInv, SealRunning
<1> QED
  BY <1>2, <1>3

\* Both sealers set the mode of the header and sign the message, in one step.
LEMMA CallMakes ==
  ASSUME SealerInv, seal = "created", SetMode, UNCHANGED inputVars
  PROVE  /\ header' = SetHeader
         /\ MessageAndSignature = Signed
<1>1. array = Message /\ header = NewHeader(policies)
  BY DEF SealerInv
<1>2. Size = len
  BY <1>1, MessageType DEF SealerInv, Size
<1> QED
  BY <1>1, <1>2 DEF SetMode, SetHeader, MessageAndSignature, Signed

LEMMA SealInv ==
  ASSUME SealerInv, Seal
  PROVE  SealerInv'
<1>1. UNCHANGED inputVars /\ array' = array /\ seal = "created" /\ SetMode
  BY DEF Seal
<1>2. header' = SetHeader /\ MessageAndSignature = Signed
  BY <1>1, CallMakes
<1>3. \/ seal' = "sealed" /\ plain' = Signed
      \/ seal' = "ConstraintViolation" /\ plain' = plain
  BY <1>2 DEF Seal
<1> QED
  BY <1>1, <1>2, <1>3, InputsSame DEF SealerInv, SealFailed

LEMMA CallInv ==
  ASSUME SealerInv, Call
  PROVE  SealerInv'
<1>1. UNCHANGED inputVars /\ array' = array /\ seal = "created" /\ SetMode
      /\ seal' = "encrypting" /\ plain' = MessageAndSignature
  BY DEF Call
<1>2. header' = SetHeader /\ MessageAndSignature = Signed
  BY <1>1, CallMakes
<1> QED
  BY <1>1, <1>2, InputsSame DEF SealerInv, SealRunning

LEMMA EncryptsInv ==
  ASSUME SealerInv, Encrypts
  PROVE  SealerInv'
<1>1. UNCHANGED inputVars /\ array' = array /\ seal = "encrypting" /\ seal' = "sealed"
      /\ header' = header /\ plain' = plain
  BY DEF Encrypts, Encrypted
<1> QED
  BY <1>1, InputsSame DEF SealerInv

LEMMA EncryptFailsInv ==
  ASSUME SealerInv, EncryptFails
  PROVE  SealerInv'
<1>1. UNCHANGED inputVars /\ array' = array /\ seal = "encrypting" /\ seal' = "JavaScript"
      /\ header' = header /\ plain' = plain
  BY DEF EncryptFails
<1> QED
  BY <1>1, InputsSame DEF SealerInv, SealFailed

LEMMA CallerWritesInv ==
  ASSUME SealerInv, CallerWrites
  PROVE  SealerInv'
<1>1. UNCHANGED inputVars /\ seal = "encrypting" /\ seal' = seal
      /\ header' = header /\ plain' = plain
  BY DEF CallerWrites
<1>2. PICK i \in DOMAIN array : array' = [array EXCEPT ![i] = 0]
  BY DEF CallerWrites
<1>3. array' \in Seq(Nat)
  <2>1. Len(array) \in Nat /\ array \in [1..Len(array) -> Nat]
    BY LenProperties DEF SealerInv
  <2>2. array' \in [1..Len(array) -> Nat]
    BY <1>2, <2>1
  <2> QED
    BY <2>1, <2>2, SequenceOf
<1> QED
  BY <1>1, <1>3, InputsSame DEF SealerInv

LEMMA SealerInvStep ==
  ASSUME SealerInv, [Next]_vars
  PROVE  SealerInv'
<1>1. CASE SealerStep
  BY <1>1, CreateInv, SealInv, CallInv, EncryptsInv DEF SealerStep
<1>2. CASE Caller
  BY <1>2, CallerWritesInv DEF Caller
<1>3. CASE Receiver
  BY <1>3, SealerInvSame DEF Receiver
<1>4. CASE Fault
  <2>1. CASE Damage
    BY <2>1, SealerInvSame DEF Damage
  <2>2. CASE BrowserFails
    BY <2>2, SealerInvSame, EncryptFailsInv DEF BrowserFails
  <2> QED
    BY <1>4, <2>1, <2>2 DEF Fault
<1>5. CASE UNCHANGED vars
  <2>1. UNCHANGED sealerVars
    BY <1>5 DEF vars
  <2> QED
    BY <2>1, SealerInvSame
<1> QED
  BY <1>1, <1>2, <1>3, <1>4, <1>5 DEF Next, Done

-----------------------------------------------------------------------------
(***************************************************************************)
(* The wire: what is on it is what was sealed, but for what was done to it.*)
(***************************************************************************)
\* The header, once there is something on the wire.
LEMMA SentHeader ==
  ASSUME SealerInv, seal = "sealed"
  PROVE  header = SetHeader /\ HeaderLen(header) \in Nat
<1>1. header = SetHeader
  BY DEF SealerInv
<1> QED
  BY <1>1, HeaderType DEF SealerInv

LEMMA JunkType == Junk \in Bytes /\ Junk # <<4, 1>>
BY DEF Junk, Bytes

\* What the sealer puts on the wire is what it sent.
LEMMA WireWhenSealed ==
  ASSUME HeaderLen(header') \in Nat, seal' = "sealed", wire' = SealedBytes \o CiphertextBytes,
         nfaults' = 0
  PROVE  WireInv'
<1>1. wire' = SealedWith(HeaderLen(header'))
  BY DEF SealedBytes, SealedWith
<1>2. wire' = Sent'
  BY <1>1 DEF Sent
<1>3. wire' \in Seq(Bytes)
  BY <1>1, SealedWithType
<1> QED
  BY <1>2, <1>3 DEF WireInv

\* A step that leaves the wire alone, on which there is nothing, or the message
\* and all that is known of it.
LEMMA WireUntouched ==
  ASSUME WireInv, wire' = wire, seal # "sealed", seal' # "sealed"
  PROVE  WireInv'
BY DEF WireInv

LEMMA WireSame ==
  ASSUME WireInv, seal = "sealed", wire' = wire, header' = header, seal' = seal,
         nfaults' = 0 => nfaults = 0,
         nfaults' = 1 /\ unseal' = "new" => nfaults = 1 /\ unseal = "new"
  PROVE  WireInv'
<1>1. Sent' = Sent
  BY DEF Sent
<1> QED
  BY <1>1 DEF WireInv

LEMMA CutWire ==
  ASSUME SealerInv, WireInv, seal = "sealed", Cut
  PROVE  /\ wire' \in Seq(Bytes)
         /\ \A i \in 1..Len(wire') : wire'[i] # Junk => i <= Len(Sent) /\ wire'[i] = Sent[i]
         /\ wire = Sent => wire' # Sent /\ Len(wire') <= Len(Sent)
<1>1. wire \in Seq(Bytes) /\ Len(wire) \in Nat
  BY LenProperties DEF WireInv
<1>2. PICK n \in 0..Len(wire) - 1 : wire' = SubSeq(wire, 1, n)
  BY DEF Cut
<1>3. PICK w : w = wire'
  OBVIOUS
<1>4. w \in Seq(Bytes) /\ Len(w) = n /\ \A i \in 1..n : w[i] = wire[i]
  <2>1. 1 \in Nat \ {0} /\ n \in Int /\ n <= Len(wire)
    BY <1>1, <1>2
  <2>2. /\ SubSeq(wire, 1, n) \in Seq(Bytes)
        /\ Len(SubSeq(wire, 1, n)) = IF 1 <= n THEN n - 1 + 1 ELSE 0
        /\ \A i \in 1..n - 1 + 1 : SubSeq(wire, 1, n)[i] = wire[1 + i - 1]
    BY <1>1, <2>1, SliceOfBytes
  <2> QED
    BY <1>1, <1>2, <1>3, <2>2
<1>5. n < Len(wire)
  BY <1>1, <1>2
<1>6. \A i \in 1..n : w[i] # Junk => i <= Len(Sent) /\ w[i] = Sent[i]
  BY <1>1, <1>4, <1>5 DEF WireInv
<1>7. wire = Sent => w # Sent /\ Len(w) <= Len(Sent)
  BY <1>1, <1>4, <1>5
<1> QED
  BY <1>3, <1>4, <1>6, <1>7

LEMMA ExtendWire ==
  ASSUME SealerInv, WireInv, seal = "sealed", Extend
  PROVE  /\ wire' \in Seq(Bytes)
         /\ \A i \in 1..Len(wire') : wire'[i] # Junk => i <= Len(Sent) /\ wire'[i] = Sent[i]
         /\ wire = Sent => wire' # Sent /\ wire'[3 + HeaderLen(header)] = <<4, 1>>
<1>1. wire \in Seq(Bytes) /\ Len(wire) \in Nat /\ HeaderLen(header) \in Nat
  BY LenProperties, SentHeader DEF WireInv
<1>2. PICK w : w = wire'
  OBVIOUS
<1>3. /\ w \in Seq(Bytes) /\ Len(w) = Len(wire) + 1
      /\ \A i \in 1..Len(wire) : w[i] = wire[i]
      /\ w[Len(wire) + 1] = Junk
  <2>1. w = Append(wire, Junk)
    BY <1>2 DEF Extend
  <2> QED
    BY <1>1, <2>1, JunkType, AppendProperties
<1>4. \A i \in 1..Len(w) : w[i] # Junk => i <= Len(Sent) /\ w[i] = Sent[i]
  BY <1>1, <1>3 DEF WireInv
<1>5. wire = Sent => w # Sent /\ w[3 + HeaderLen(header)] = <<4, 1>>
  <2> SUFFICES ASSUME wire = Sent PROVE w # Sent /\ w[3 + HeaderLen(header)] = <<4, 1>>
    OBVIOUS
  <2>1. Sent[3 + HeaderLen(header)] = <<4, 1>> /\ Len(Sent) = 3 + HeaderLen(header) + SigLen + CtLen
    BY <1>1, PartsOfSent
  <2>2. 3 + HeaderLen(header) \in 1..Len(wire)
    BY <1>1, <2>1, SealerAssumption
  <2> QED
    BY <1>1, <1>3, <2>1, <2>2
<1> QED
  BY <1>2, <1>3, <1>4, <1>5

LEMMA CorruptWire ==
  ASSUME SealerInv, WireInv, seal = "sealed", Corrupt
  PROVE  /\ wire' \in Seq(Bytes)
         /\ \A i \in 1..Len(wire') : wire'[i] # Junk => i <= Len(Sent) /\ wire'[i] = Sent[i]
         /\ wire = Sent => wire' # Sent /\ Len(wire') <= Len(Sent)
<1>1. wire \in Seq(Bytes) /\ Len(wire) \in Nat /\ DOMAIN wire = 1..Len(wire)
      /\ wire \in [1..Len(wire) -> Bytes]
  BY LenProperties DEF WireInv
<1>2. PICK i \in DOMAIN wire : wire[i] # Junk /\ wire' = [wire EXCEPT ![i] = Junk]
  BY DEF Corrupt
<1>3. PICK w : w = wire'
  OBVIOUS
<1>4. w \in [1..Len(wire) -> Bytes] /\ w[i] = Junk /\ \A j \in 1..Len(wire) : j # i => w[j] = wire[j]
  BY <1>1, <1>2, <1>3, JunkType
<1>5. w \in Seq(Bytes) /\ Len(w) = Len(wire)
  BY <1>1, <1>4, SequenceOf
<1>6. \A j \in 1..Len(w) : w[j] # Junk => j <= Len(Sent) /\ w[j] = Sent[j]
  BY <1>4, <1>5 DEF WireInv
<1>7. wire = Sent => w # Sent /\ Len(w) <= Len(Sent)
  BY <1>1, <1>2, <1>4, <1>5
<1> QED
  BY <1>3, <1>5, <1>6, <1>7

LEMMA DamageWire ==
  ASSUME SealerInv, WireInv, nfaults \in Nat, Damage, nfaults' = nfaults + 1
  PROVE  WireInv'
<1>1. seal = "sealed" /\ unseal' = unseal /\ unseal = "new" /\ seal' = seal /\ header' = header
  BY DEF Damage, sealerVars, unsealerVars
<1>2. Sent' = Sent
  BY <1>1 DEF Sent
<1>3. /\ wire' \in Seq(Bytes)
      /\ \A i \in 1..Len(wire') : wire'[i] # Junk => i <= Len(Sent) /\ wire'[i] = Sent[i]
      /\ wire = Sent =>
           wire' # Sent /\ (Len(wire') <= Len(Sent) \/ wire'[3 + HeaderLen(header)] = <<4, 1>>)
  BY <1>1, CutWire, ExtendWire, CorruptWire DEF Damage
<1>4. nfaults' # 0 /\ (nfaults' = 1 => nfaults = 0)
  OBVIOUS
<1>5. nfaults = 0 => wire = Sent
  BY <1>1 DEF WireInv
<1> QED
  BY <1>1, <1>2, <1>3, <1>4, <1>5 DEF WireInv

LEMMA WireInvStep ==
  ASSUME SealerInv, WireInv, UnsealerInv, [Next]_vars
  PROVE  WireInv'
<1>1. ASSUME Create \/ Call \/ Caller \/ EncryptFails
      PROVE  WireInv'
  <2>1. wire' = wire /\ seal # "sealed" /\ seal' # "sealed"
    BY <1>1 DEF Create, Call, Caller, CallerWrites, EncryptFails
  <2> QED
    BY <2>1, WireUntouched
<1>2. ASSUME Seal, UNCHANGED <<unsealerVars, nfaults>>
      PROVE  WireInv'
  <2>1. seal = "created" /\ SetMode /\ UNCHANGED inputVars
    BY <1>2 DEF Seal
  <2>2. HeaderLen(header') \in Nat
    BY <2>1, CallMakes, HeaderType DEF SealerInv
  <2>3. nfaults' = 0
    BY <1>2, <2>1 DEF UnsealerInv
  <2>4. CASE seal' = "sealed" /\ wire' = SealedBytes \o CiphertextBytes
    BY <2>2, <2>3, <2>4, WireWhenSealed
  <2>5. CASE seal' = "ConstraintViolation" /\ wire' = wire
    BY <2>1, <2>5, WireUntouched
  <2>6. \/ seal' = "sealed" /\ wire' = SealedBytes \o CiphertextBytes
        \/ seal' = "ConstraintViolation" /\ wire' = wire
    BY <1>2, Zenon DEF Seal
  <2> QED
    BY <2>4, <2>5, <2>6
<1>3. ASSUME Encrypts, UNCHANGED <<unsealerVars, nfaults>>
      PROVE  WireInv'
  <2>1. seal = "encrypting" /\ header' = header /\ seal' = "sealed"
        /\ wire' = SealedBytes \o CiphertextBytes
    BY <1>3 DEF Encrypts
  <2>2. HeaderLen(header') \in Nat
    BY <2>1, HeaderType DEF SealerInv
  <2>3. nfaults' = 0
    BY <1>3, <2>1 DEF UnsealerInv
  <2> QED
    BY <2>1, <2>2, <2>3, WireWhenSealed
<1>4. CASE Receiver
  <2>1. seal = "sealed" /\ wire' = wire /\ header' = header /\ seal' = seal /\ nfaults' = nfaults
    BY <1>4 DEF Receiver, sealerVars
  <2>2. unseal' # "new"
    <3>1. CASE Open
      BY <2>1, <3>1, SentHeader, OpenType DEF WireInv, UnsealerInv, UnsealerTypeOK, Bytes
    <3>2. CASE \E ident \in Idents, usk \in KeyPolicies : Unseal(ident, usk)
      BY <3>2 DEF Unseal, UnsealFails, VerifyMessage, AeadError
    <3> QED
      BY <1>4, <3>1, <3>2 DEF Receiver
  <2> QED
    BY <2>1, <2>2, WireSame
<1>5. CASE Fault
  <2>1. nfaults \in Nat /\ nfaults' = nfaults + 1
    BY <1>5, TransferAssumption DEF Fault, UnsealerInv
  <2>2. CASE Damage
    BY <2>1, <2>2, DamageWire
  <2>3. ASSUME NEW ident, NEW usk, DecryptFails(ident, usk), UNCHANGED <<sealerVars, wire>>
        PROVE  WireInv'
    <3>1. /\ seal = "sealed" /\ wire' = wire /\ header' = header /\ seal' = seal
          /\ unseal' = "JavaScript"
      BY <2>3 DEF DecryptFails, UnsealFails, sealerVars, UnsealerInv
    <3>2. nfaults' # 0
      BY <2>1
    <3> QED
      BY <3>1, <3>2, WireSame
  <2> QED
    BY <1>1, <1>5, <2>2, <2>3 DEF Fault, BrowserFails
<1>6. CASE UNCHANGED vars
  <2>1. /\ wire' = wire /\ header' = header /\ seal' = seal /\ nfaults' = nfaults
        /\ unseal' = unseal
    BY <1>6 DEF vars, sealerVars, unsealerVars
  <2> QED
    BY <2>1, WireSame, WireUntouched
<1> QED
  BY <1>1, <1>2, <1>3, <1>4, <1>5, <1>6 DEF Next, SealerStep, Done

-----------------------------------------------------------------------------
(***************************************************************************)
(* The unsealer.  Before it is called there is nothing to say of it.       *)
(***************************************************************************)
LEMMA NewHolds ==
  ASSUME SealerInv, unseal = "new"
  PROVE  UnsealHolds
BY DEF SealerInv, UnsealHolds, OkNeedsPolicy, RightKeyOpens, UnsealRunning, PanicsForAReason,
       DamageIsNoticed

LEMMA NewHoldsNext ==
  ASSUME SealerInv', unseal' = "new"
  PROVE  UnsealHolds'
BY DEF SealerInv, UnsealHolds, OkNeedsPolicy, RightKeyOpens, UnsealRunning, PanicsForAReason,
       DamageIsNoticed

LEMMA NotCalled ==
  ASSUME UnsealerInv, unseal = "new", UNCHANGED unsealerVars,
         nfaults' \in 0..MaxFaults, nfaults' # 0 => seal' \in {"sealed", "JavaScript"}
  PROVE  UnsealerInv' /\ unseal' = "new"
<1>1. /\ webUnseals' = webUnseals /\ unseal' = unseal /\ pubId' = pubId /\ ct' = ct
      /\ with' = with /\ out' = out /\ private' = private
  BY DEF unsealerVars
<1>2. UnsealerTypeOK'
  BY <1>1 DEF UnsealerInv, UnsealerTypeOK
<1> QED
  BY <1>1, <1>2 DEF UnsealerInv

LEMMA OpenStep ==
  ASSUME SealerInv, WireInv, UnsealerInv, Open, seal = "sealed",
         UNCHANGED <<sealerVars, wire, nfaults>>
  PROVE  UnsealerInv' /\ UnsealHolds'
<1>1. /\ UNCHANGED inputVars /\ seal' = seal /\ header' = header /\ wire' = wire
      /\ nfaults' = nfaults
  BY DEF sealerVars, inputVars
<1>2. /\ header = SetHeader /\ HeaderLen(header) \in Nat /\ header.mode.kind = kind
      /\ wire \in Seq(Bytes) /\ InputOK /\ ~NewHeaderPanics(policies)
      /\ policies' = policies /\ kind' = kind /\ pubPol' = pubPol
  <2>1. header = SetHeader /\ HeaderLen(header) \in Nat
    BY SentHeader
  <2>2. header.mode = [kind |-> kind, size |-> len]
    BY <2>1, HeaderType DEF SealerInv
  <2> QED
    BY <1>1, <2>1, <2>2, InputsSame DEF SealerInv, WireInv
<1>3. /\ unseal = "new" /\ webUnseals' = webUnseals /\ with' = with /\ out' = out
      /\ private' = private
      /\ pubId' = IF unseal' = "opened" THEN pubPol ELSE pubId
  BY DEF Open
<1>4. /\ ct' \in Seq(Bytes)
      /\ unseal' \in {"panic", "NotPostGuard", "IncorrectVersion", "ConstraintViolation",
                      "Bincode", "IncorrectSignature", "ModeNotSupported", "opened"}
  BY <1>2, OpenType DEF UnsealerInv, UnsealerTypeOK, Bytes
<1>5. UnsealerTypeOK'
  <2>1. pubId' \in Signers \cup {NoSigner}
    BY <1>2, <1>3 DEF InputOK, UnsealerInv, UnsealerTypeOK
  <2>2. unseal' \in UnsealRunning \cup UnsealFailed \cup {"ok"}
    BY <1>4 DEF UnsealRunning, UnsealFailed
  <2> QED
    BY <1>3, <1>4, <2>1, <2>2 DEF UnsealerInv, UnsealerTypeOK, Bytes
<1>6. nfaults = 0 /\ unseal' = "opened" => ct' = CiphertextBytes
  BY <1>2, OpenSent DEF WireInv
<1>7. nfaults = 1 /\ unseal' = "opened" => ct' # CiphertextBytes
  <2> SUFFICES ASSUME nfaults = 1, unseal' = "opened", ct' = CiphertextBytes PROVE FALSE
    OBVIOUS
  <2>1. PICK s : Opened(s)
    BY <1>2, OpenFinds
  <2>2. wire = Sent \/ (Len(wire) > Len(Sent) /\ wire[3 + HeaderLen(header)] # <<4, 1>>)
    BY <1>2, <2>1, OpenedIsSent
  <2>3. wire # Sent /\ (Len(wire) <= Len(Sent) \/ wire[3 + HeaderLen(header)] = <<4, 1>>)
    BY <1>3 DEF WireInv
  <2>4. Len(wire) \in Nat /\ Len(Sent) \in Nat
    BY <1>2, PartsOfSent, LenProperties
  <2> QED
    BY <2>2, <2>3, <2>4
<1>8. UnsealerInv'
  BY <1>1, <1>2, <1>3, <1>4, <1>5, <1>6, <1>7 DEF UnsealerInv, UnsealRunning
<1>9. with = <<>> /\ nfaults \in 0..MaxFaults
  BY <1>3 DEF UnsealerInv, UnsealRunning
<1>10. RightKeyOpens'
  <2> SUFFICES ASSUME unseal' \notin UnsealRunning, nfaults = 0, kind = "InMemory",
                      HeaderLen(header) <= MaxHeader
               PROVE  FALSE
    BY <1>1, <1>2 DEF RightKeyOpens
  <2>1. wire = Sent
    BY DEF WireInv
  <2>2. unseal' = "opened"
    BY <1>2, <2>1, OpenSent
  <2> QED
    BY <2>2 DEF UnsealRunning
<1>11. PanicsForAReason'
  <2>1. unseal' = "panic" =>
          \/ Len(wire) < 3 + HeaderLen(header) + SigLen
          \/ Junk \in {wire[2], wire[3 + HeaderLen(header)]}
    BY <1>2, OpenPanics DEF WireInv
  <2> QED
    BY <1>1, <2>1 DEF PanicsForAReason
<1>12. OkNeedsPolicy' /\ DamageIsNoticed'
  BY <1>4 DEF OkNeedsPolicy, DamageIsNoticed
<1> QED
  BY <1>8, <1>10, <1>11, <1>12 DEF UnsealHolds

\* A key decapsulates when it is for the policy of the recipient it is used for.
LEMMA DecapsulatesWhen ==
  ASSUME SealerInv, seal = "sealed", NEW ident \in DOMAIN policies, NEW usk \in KeyPolicies
  PROVE  Decapsulates(header, ident, usk) <=> SamePolicy(usk, policies[ident])
<1>1. header.recipients[ident].ct = Derived(policies[ident])
  BY SentHeader, HeaderType DEF SealerInv
<1>2. policies[ident] \in Policy /\ usk \in Policy
  BY SealerAssumption, UnsealerAssumption DEF SealerInv, InputOK
<1>3. Derived(usk) = Derived(policies[ident]) <=> SamePolicy(usk, policies[ident])
  BY <1>2, IdentityOfPolicy
<1> QED
  BY <1>1, <1>3 DEF Decapsulates

LEMMA UnsealStep ==
  ASSUME SealerInv, UnsealerInv, NEW ident \in Idents, NEW usk \in KeyPolicies,
         Unseal(ident, usk), seal = "sealed", UNCHANGED <<sealerVars, wire, nfaults>>
  PROVE  UnsealerInv' /\ UnsealHolds'
<1>1. /\ UNCHANGED inputVars /\ seal' = seal /\ header' = header /\ wire' = wire
      /\ nfaults' = nfaults /\ plain' = plain
  BY DEF sealerVars, inputVars
<1>2. /\ InputOK /\ ~NewHeaderPanics(policies)
      /\ policies' = policies /\ kind' = kind /\ pubPol' = pubPol
      /\ Message' = Message /\ SigningPolicy' = SigningPolicy
      /\ DOMAIN header.recipients = DOMAIN policies
      /\ header.mode = [kind |-> kind, size |-> len]
      /\ plain = Signed
  BY <1>1, InputsSame, SentHeader, HeaderType DEF SealerInv
<1>3. plain.message = Message /\ plain.sig.over = Message /\ plain.sig.by = SigningPolicy
  BY <1>2 DEF Signed
<1>4. /\ unseal = "opened" /\ with' = <<ident, usk>> /\ webUnseals' = webUnseals
      /\ pubId' = pubId /\ ct' = ct /\ pubId = pubPol /\ out = <<>> /\ private = NoSigner
  BY DEF Unseal, UnsealerInv
<1>5. Message \in Seq(Nat) /\ Len(Message) = len /\ SigningPolicy \in Signers
      /\ NoSigner \notin Signers
  BY <1>2, MessageType, SealerAssumption
<1>6. Verifies /\ SizesAgree
  BY <1>2, <1>3, <1>5 DEF Verifies, SizesAgree
<1>7. Private = (IF pubPol = SigningPolicy THEN NoSigner ELSE SigningPolicy)
  BY <1>3, <1>4 DEF Private
<1>8. CASE /\ ident \in DOMAIN header.recipients /\ Decrypts(ident, usk)
           /\ unseal' = "ok" /\ out' = Message /\ private' = Private
  <2>1. KeyFits'
    <3>1. Decapsulates(header, ident, usk)
      BY <1>8 DEF Decrypts
    <3>2. ident \in DOMAIN policies /\ SamePolicy(usk, policies[ident])
      BY <1>2, <1>8, <3>1, DecapsulatesWhen
    <3>3. with'[1] = ident /\ with'[2] = usk
      BY <1>4
    <3> QED
      BY <1>2, <3>2, <3>3 DEF KeyFits
  <2>2. nfaults # 1
    BY <1>4, <1>8 DEF UnsealerInv, Decrypts
  <2>3. UnsealerTypeOK'
    BY <1>2, <1>4, <1>5, <1>7, <1>8 DEF UnsealerInv, UnsealerTypeOK
  <2>4. (IF private' = NoSigner THEN pubId' ELSE private') = SigningPolicy'
    BY <1>2, <1>4, <1>5, <1>7, <1>8
  <2>5. UnsealerInv'
    BY <1>1, <1>2, <1>4, <1>8, <2>3, <2>4 DEF UnsealerInv, UnsealRunning
  <2>6. UnsealHolds'
    BY <1>1, <1>2, <1>8, <2>1, <2>2
    DEF UnsealHolds, OkNeedsPolicy, RightKeyOpens, PanicsForAReason, DamageIsNoticed
  <2> QED
    BY <2>5, <2>6
<1>9. CASE /\ unseal' \in {"UnknownIdentifier", "KEM", "JavaScript", "Symmetric"}
           /\ out' = out /\ private' = private
           /\ ~(ident \in DOMAIN header.recipients /\ Decrypts(ident, usk))
  <2>1. UnsealerTypeOK'
    BY <1>4, <1>9 DEF UnsealerInv, UnsealerTypeOK, UnsealFailed
  <2>2. UnsealerInv'
    BY <1>1, <1>2, <1>4, <1>9, <2>1 DEF UnsealerInv, UnsealRunning
  <2>3. RightKeyOpens'
    <3> SUFFICES ASSUME nfaults = 0, KeyFits' PROVE FALSE
      BY <1>1, <1>4 DEF RightKeyOpens
    <3>1. with'[1] = ident /\ with'[2] = usk
      BY <1>4
    <3>2. ident \in DOMAIN policies /\ SamePolicy(usk, policies[ident])
      BY <1>2, <3>1 DEF KeyFits
    <3>3. Decapsulates(header, ident, usk)
      BY <3>2, DecapsulatesWhen
    <3>4. ct = CiphertextBytes
      BY <1>4 DEF UnsealerInv
    <3> QED
      BY <1>2, <1>9, <3>2, <3>3, <3>4 DEF Decrypts
  <2>4. PanicsForAReason' /\ OkNeedsPolicy' /\ DamageIsNoticed'
    BY <1>1, <1>2, <1>9 DEF SealerInv, PanicsForAReason, OkNeedsPolicy, DamageIsNoticed
  <2> QED
    BY <2>2, <2>3, <2>4 DEF UnsealHolds
<1>10. AeadError \in {"JavaScript", "Symmetric"}
  BY DEF AeadError
<1>11. VerifyMessage => unseal' = "ok" /\ out' = Message /\ private' = Private
  BY <1>3, <1>6 DEF VerifyMessage
<1>12. \/ ident \notin DOMAIN header.recipients /\ UnsealFails("UnknownIdentifier")
       \/ ident \in DOMAIN header.recipients /\ Decrypts(ident, usk) /\ VerifyMessage
       \/ /\ ident \in DOMAIN header.recipients /\ ~Decrypts(ident, usk)
          /\ UnsealFails(AeadError) \/ UnsealFails("KEM")
  BY Zenon DEF Unseal
<1> QED
  BY <1>8, <1>9, <1>10, <1>11, <1>12 DEF UnsealFails

LEMMA DecryptFailsStep ==
  ASSUME SealerInv, UnsealerInv, NEW ident \in Idents, NEW usk \in KeyPolicies,
         DecryptFails(ident, usk), UNCHANGED <<sealerVars, wire>>,
         nfaults \in Nat, nfaults' = nfaults + 1, nfaults' \in 0..MaxFaults
  PROVE  UnsealerInv' /\ UnsealHolds'
<1>1. /\ seal' = seal /\ policies' = policies
  BY DEF sealerVars, inputVars
<1>2. /\ unseal = "opened" /\ unseal' = "JavaScript" /\ with' = <<ident, usk>>
      /\ webUnseals' = webUnseals /\ pubId' = pubId /\ ct' = ct /\ out' = out
      /\ private' = private /\ seal = "sealed"
  BY DEF DecryptFails, UnsealFails, UnsealerInv
<1>3. UnsealerTypeOK'
  BY <1>2 DEF UnsealerInv, UnsealerTypeOK, UnsealFailed
<1>4. UnsealerInv'
  BY <1>1, <1>2, <1>3 DEF UnsealerInv, UnsealRunning
<1>5. nfaults' # 0
  OBVIOUS
<1>6. UnsealHolds'
  BY <1>1, <1>2, <1>5
  DEF UnsealHolds, OkNeedsPolicy, RightKeyOpens, PanicsForAReason, DamageIsNoticed
<1> QED
  BY <1>4, <1>6

LEMMA UnsealerInvStep ==
  ASSUME SealerInv, SealerInv', WireInv, UnsealerInv, UnsealHolds, [Next]_vars
  PROVE  UnsealerInv' /\ UnsealHolds'
<1>1. nfaults \in 0..MaxFaults /\ nfaults \in Nat /\ MaxFaults \in Nat
  BY TransferAssumption DEF UnsealerInv
<1>2. CASE SealerStep \/ Caller
  <2>1. seal \in {"new", "created", "encrypting"} /\ UNCHANGED <<unsealerVars, nfaults>>
    BY <1>2 DEF SealerStep, Caller, Create, Seal, Call, Encrypts, CallerWrites
  <2>2. unseal = "new" /\ nfaults = 0
    BY <2>1 DEF UnsealerInv
  <2> QED
    BY <1>1, <2>1, <2>2, NotCalled, NewHoldsNext
<1>3. CASE Receiver
  BY <1>3, OpenStep, UnsealStep DEF Receiver
<1>4. CASE Fault
  <2>1. nfaults' = nfaults + 1 /\ nfaults' \in 0..MaxFaults
    BY <1>1, <1>4 DEF Fault
  <2>2. CASE Damage
    <3>1. unseal = "new" /\ seal' = "sealed" /\ UNCHANGED unsealerVars
      BY <2>2 DEF Damage, sealerVars
    <3> QED
      BY <2>1, <3>1, NotCalled, NewHoldsNext
  <2>3. CASE EncryptFails /\ UNCHANGED unsealerVars
    <3>1. seal = "encrypting" /\ seal' = "JavaScript"
      BY <2>3 DEF EncryptFails
    <3>2. unseal = "new"
      BY <3>1 DEF UnsealerInv
    <3> QED
      BY <2>1, <2>3, <3>1, <3>2, NotCalled, NewHoldsNext
  <2>4. CASE /\ \E ident \in Idents, usk \in KeyPolicies : DecryptFails(ident, usk)
             /\ UNCHANGED <<sealerVars, wire>>
    BY <1>1, <2>1, <2>4, DecryptFailsStep
  <2> QED
    BY <1>4, <2>2, <2>3, <2>4 DEF Fault, BrowserFails
<1>5. CASE UNCHANGED vars
  <2>1. /\ webUnseals' = webUnseals /\ unseal' = unseal /\ pubId' = pubId /\ ct' = ct
        /\ with' = with /\ out' = out /\ private' = private /\ nfaults' = nfaults
        /\ wire' = wire /\ header' = header /\ seal' = seal /\ UNCHANGED inputVars
    BY <1>5 DEF vars, unsealerVars, sealerVars, inputVars
  <2>2. policies' = policies /\ kind' = kind /\ pubPol' = pubPol
        /\ Message' = Message /\ SigningPolicy' = SigningPolicy
    BY <2>1, InputsSame
  <2>3. UnsealerInv'
    BY <2>1, <2>2 DEF UnsealerInv, UnsealerTypeOK
  <2>4. UnsealHolds'
    BY <2>1, <2>2 DEF UnsealHolds, OkNeedsPolicy, RightKeyOpens, PanicsForAReason,
                      DamageIsNoticed, KeyFits
  <2> QED
    BY <2>3, <2>4
<1> QED
  BY <1>2, <1>3, <1>4, <1>5 DEF Next, Done

LEMMA MemoryInvInit ==
  ASSUME Init
  PROVE  MemoryInv
<1>1. SealerInv
  BY SealerInvInit
<1>2. /\ seal = "new" /\ wire = <<>> /\ nfaults = 0 /\ webUnseals \in BOOLEAN /\ unseal = "new"
      /\ pubId = NoSigner /\ ct = <<>> /\ with = <<>> /\ out = <<>> /\ private = NoSigner
  BY DEF Init, SealerInit, UnsealerInit
<1>3. WireInv
  BY <1>2 DEF WireInv
<1>4. UnsealerInv
  BY <1>2, TransferAssumption DEF UnsealerInv, UnsealerTypeOK, UnsealRunning
<1> QED
  BY <1>1, <1>2, <1>3, <1>4, NewHolds DEF MemoryInv

\* Every state of a transfer has the invariant.
THEOREM MemoryInvariant == Spec => []MemoryInv
<1>1. Init => MemoryInv
  BY MemoryInvInit
<1>2. MemoryInv /\ [Next]_vars => MemoryInv'
  BY SealerInvStep, WireInvStep, UnsealerInvStep DEF MemoryInv
<1> QED
  BY <1>1, <1>2, PTL DEF Spec

-----------------------------------------------------------------------------
\* The header is empty before it is made, and for the recipients afterwards.
LEMMA HeaderWhenMade ==
  ASSUME SealerInv
  PROVE  /\ header.mode \in Mode
         /\ seal \in {"new", "panic"} => DOMAIN header.recipients = {}
         /\ seal \notin {"new", "panic"} =>
              /\ ~NewHeaderPanics(policies)
              /\ header.recipients = NewHeader(policies).recipients
<1>1. InputOK /\ len \in Nat
  BY MessageType DEF SealerInv
<1>2. ASSUME NEW p
      PROVE  NewHeader(p).mode \in Mode /\ DOMAIN NewHeader(p).recipients = DOMAIN p
  BY DEF NewHeader, Mode
<1>3. CASE seal \in {"new", "panic"}
  <2>1. header = NewHeader(<<>>)
    BY <1>3 DEF SealerInv
  <2> QED
    BY <1>2, <1>3, <2>1
<1>4. CASE seal = "created"
  <2>1. header = NewHeader(policies) /\ ~NewHeaderPanics(policies)
    BY <1>4 DEF SealerInv
  <2> QED
    BY <1>2, <1>4, <2>1
<1>5. CASE seal \notin {"new", "panic", "created"}
  <2>1. header = SetHeader /\ ~NewHeaderPanics(policies)
    BY <1>5 DEF SealerInv
  <2>2. kind \in {"InMemory", "Streaming"}
    BY <1>1 DEF InputOK
  <2>3. header.mode \in Mode
    BY <1>1, <2>1, <2>2, HeaderType DEF Mode
  <2> QED
    BY <1>1, <1>5, <2>1, <2>3, HeaderType
<1> QED
  BY <1>3, <1>4, <1>5

(***************************************************************************)
(* The variables keep their types, and the header of a message that is not *)
(* refused is for the recipients the sealer was given, all of them.        *)
(***************************************************************************)
THEOREM TypeCorrect == Spec => []TypeOK
<1>1. ASSUME MemoryInv
      PROVE  TypeOK
  <2>1. InputOK /\ UnsealerTypeOK /\ nfaults \in 0..MaxFaults /\ wire \in Seq(Nat \X Nat)
    BY <1>1 DEF MemoryInv, SealerInv, WireInv, UnsealerInv, Bytes
  <2>2. Message \in Seq(Nat) /\ SigningPolicy \in Signers
    BY <2>1, MessageType
  <2>3. plain.message \in Seq(Nat) /\ plain.sig.by \in Signers
    <3>1. CASE plain = Signed
      BY <2>2, <3>1 DEF Signed
    <3>2. CASE plain = [message |-> <<>>, sig |-> [over |-> <<>>, by |-> pubPol]]
      BY <2>1, <3>2 DEF InputOK
    <3> QED
      BY <1>1, <3>1, <3>2 DEF MemoryInv, SealerInv
  <2>4. /\ header.mode \in Mode
        /\ seal # "new" /\ seal # "panic" => DOMAIN header.recipients = DOMAIN policies
    BY <1>1, <2>1, HeaderWhenMade, HeaderLenType DEF MemoryInv, InputOK
  <2>5. SealerTypeOK
    BY <1>1, <2>1, <2>3, <2>4 DEF SealerTypeOK, MemoryInv, SealerInv, InputOK
  <2> QED
    BY <2>1, <2>5 DEF TypeOK
<1> QED
  BY <1>1, MemoryInvariant, PTL

(***************************************************************************)
(* A message is unsealed with no other key than one for the policy of the  *)
(* recipient that was named, whatever the recipients and the keys are.     *)
(***************************************************************************)
THEOREM KeyNeeded == Spec => []OkNeedsPolicy
<1>1. MemoryInv => OkNeedsPolicy
  BY DEF MemoryInv, UnsealHolds
<1> QED
  BY <1>1, MemoryInvariant, PTL

(***************************************************************************)
(* And with such a key it is: a message that nothing happened to opens,    *)
(* and no step of the unsealer fails on it.                                *)
(***************************************************************************)
THEOREM KeyOpens == Spec => []RightKeyOpens
<1>1. MemoryInv => RightKeyOpens
  BY DEF MemoryInv, UnsealHolds
<1> QED
  BY <1>1, MemoryInvariant, PTL

(***************************************************************************)
(* Nothing panics but Sealer::new on a hint cut inside a character, and    *)
(* Unsealer::new on a message that is shorter than what a sealer writes,   *)
(* or one of whose lengths was overwritten.                                *)
(***************************************************************************)
THEOREM PanicsExplained == Spec => []PanicsForAReason
<1>1. MemoryInv => PanicsForAReason
  BY DEF MemoryInv, UnsealHolds
<1> QED
  BY <1>1, MemoryInvariant, PTL

(***************************************************************************)
(* A message that was cut, extended or overwritten in one place, or whose  *)
(* encryption or decryption failed once, is not unsealed.                  *)
(***************************************************************************)
THEOREM DamageNoticed == Spec => []DamageIsNoticed
<1>1. MemoryInv => DamageIsNoticed
  BY DEF MemoryInv, UnsealHolds
<1> QED
  BY <1>1, MemoryInvariant, PTL

(***************************************************************************)
(* to_hidden.  The header is the same for any two values of an attribute   *)
(* that agree on what their type lets be shown.                            *)
(***************************************************************************)
THEOREM ValueHidden == Spec => []HintsHideValue
<1>1. ASSUME MemoryInv
      PROVE  HintsHideValue
  <2> SUFFICES ASSUME NEW r \in DOMAIN header.recipients,
                      NEW i \in DOMAIN policies[r].con,
                      policies[r].con[i].v # NoValue,
                      NEW v \in Values,
                      ShowsAlike(policies[r].con[i], v),
                      ~HintFails([policies[r].con[i] EXCEPT !.v = v])
               PROVE  header.recipients[r].policy.con[i] =
                        Hidden([policies[r].con[i] EXCEPT !.v = v])
    BY DEF HintsHideValue
  <2>1. InputOK /\ ~NewHeaderPanics(policies)
        /\ header.recipients = NewHeader(policies).recipients
    BY <1>1, HeaderWhenMade DEF MemoryInv, SealerInv
  <2>2. r \in DOMAIN policies
    BY <2>1, HeaderLenType DEF InputOK
  <2>3. header.recipients[r].policy = HiddenPolicy(policies[r])
    BY <2>1, <2>2, HeaderType
  <2>4. header.recipients[r].policy.con[i] = Hidden(policies[r].con[i])
    BY <2>3 DEF HiddenPolicy
  <2>5. policies[r].con[i] \in Attribute
    <3>1. policies[r] \in Policy
      BY <2>1, <2>2, SealerAssumption DEF InputOK
    <3>2. policies[r].con \in Seq(Attribute)
      BY <3>1 DEF Policy
    <3> QED
      BY <3>2, ElementOfSeq, LenProperties
  <2>6. ~HintFails(policies[r].con[i])
    BY <2>1, <2>2 DEF NewHeaderPanics
  <2>7. v \in Str
    BY TransferAssumption
  <2> QED
    BY <2>4, <2>5, <2>6, <2>7, HiddenAlike
<1> QED
  BY <1>1, MemoryInvariant, PTL

-----------------------------------------------------------------------------
(***************************************************************************)
(* Delivery: a message in memory comes out as a whole, in the step that    *)
(* unseals it.                                                             *)
(***************************************************************************)
LEMMA InitDelivered ==
  ASSUME Init
  PROVE  Delivery!Init
<1>1. InputOK
  BY SealerInvInit DEF SealerInv
<1>2. unseal = "new" /\ out = <<>>
  BY DEF Init, UnsealerInit
<1> QED
  BY <1>1, <1>2, MessageType DEF Delivery!Init, UnsealRunning

\* What an unsealer that has not accepted does is not seen before its verdict.
LEMMA StepDelivered ==
  ASSUME MemoryInv, MemoryInv', UNCHANGED inputVars,
         unseal' = unseal \/ unseal \in UnsealRunning,
         unseal' = unseal => out' = out /\ private' = private /\ pubId' = pubId
  PROVE  [Delivery!Next]_(Delivery!vars)
<1>1. Message' = Message /\ SigningPolicy' = SigningPolicy /\ Message \in Seq(Nat)
  BY InputsSame, MessageType DEF MemoryInv, SealerInv
<1>2. CASE unseal' = unseal
  BY <1>1, <1>2 DEF Delivery!vars
<1>3. CASE unseal \in UnsealRunning /\ unseal' # unseal
  <2>1. unseal # "ok" /\ out = <<>> /\ (unseal' # "ok" => out' = <<>>)
        /\ (unseal' = "ok" => out' = Message
              /\ (IF private' = NoSigner THEN pubId' ELSE private') = SigningPolicy)
    BY <1>1, <1>3 DEF MemoryInv, UnsealerInv, UnsealRunning
  <2>2. Len(Message) \in Nat /\ Delivery!IsPrefix(<<>>, Message)
        /\ Delivery!IsPrefix(<<>>, <<>>) /\ Delivery!IsPrefix(Message, Message)
    BY <1>1, LenProperties DEF Delivery!IsPrefix
  <2>3. CASE unseal' \in UnsealRunning
    BY <1>1, <1>3, <2>1, <2>3 DEF Delivery!vars, UnsealRunning
  <2>4. CASE unseal' = "ok"
    <3>1. Delivery!Accept
      BY <1>1, <1>3, <2>1, <2>2, <2>4 DEF Delivery!Accept, Delivery!More
    <3> QED
      BY <3>1 DEF Delivery!Next
  <2>5. CASE unseal' \notin UnsealRunning /\ unseal' # "ok"
    <3>1. Delivery!Reject
      BY <1>1, <1>3, <2>1, <2>2, <2>5 DEF Delivery!Reject, Delivery!More
    <3> QED
      BY <3>1 DEF Delivery!Next
  <2> QED
    BY <2>3, <2>4, <2>5
<1> QED
  BY <1>2, <1>3

LEMMA NextDelivered ==
  ASSUME MemoryInv, MemoryInv', [Next]_vars
  PROVE  [Delivery!Next]_(Delivery!vars)
<1>1. CASE SealerStep \/ Caller \/ UNCHANGED vars
  <2>1. UNCHANGED inputVars /\ UNCHANGED unsealerVars
    BY <1>1 DEF SealerStep, Caller, Create, Seal, Call, Encrypts, CallerWrites, vars, sealerVars,
                inputVars
  <2> QED
    BY <2>1, StepDelivered DEF unsealerVars
<1>2. CASE Receiver
  <2>1. UNCHANGED inputVars
    BY <1>2 DEF Receiver, sealerVars, inputVars
  <2>2. unseal \in UnsealRunning /\ (unseal' = unseal => FALSE)
    <3>1. CASE Open
      <4>1. unseal = "new" /\ seal = "sealed" /\ HeaderLen(header) \in Nat
        BY <1>2, <3>1, SentHeader DEF Receiver, Open, MemoryInv
      <4>2. unseal' # "new"
        BY <3>1, <4>1, OpenType DEF MemoryInv, WireInv, UnsealerInv, UnsealerTypeOK, Bytes
      <4> QED
        BY <4>1, <4>2 DEF UnsealRunning
    <3>2. CASE \E ident \in Idents, usk \in KeyPolicies : Unseal(ident, usk)
      BY <3>2 DEF Unseal, UnsealFails, VerifyMessage, AeadError, UnsealRunning
    <3> QED
      BY <1>2, <3>1, <3>2 DEF Receiver
  <2> QED
    BY <2>1, <2>2, StepDelivered
<1>3. CASE Fault
  <2>1. CASE Damage \/ (EncryptFails /\ UNCHANGED unsealerVars)
    <3>1. UNCHANGED inputVars /\ UNCHANGED unsealerVars
      BY <2>1 DEF Damage, EncryptFails, sealerVars, inputVars
    <3> QED
      BY <3>1, StepDelivered DEF unsealerVars
  <2>2. ASSUME NEW ident, NEW usk, DecryptFails(ident, usk), UNCHANGED sealerVars
        PROVE  [Delivery!Next]_(Delivery!vars)
    <3>1. UNCHANGED inputVars /\ unseal \in UnsealRunning /\ unseal' # unseal
      BY <2>2 DEF DecryptFails, UnsealFails, UnsealRunning, sealerVars, inputVars
    <3> QED
      BY <3>1, StepDelivered
  <2> QED
    BY <1>3, <2>1, <2>2 DEF Fault, BrowserFails
<1> QED
  BY <1>1, <1>2, <1>3 DEF Next, Done

(***************************************************************************)
(* Memory mode implements the delivery that the streams implement.         *)
(***************************************************************************)
THEOREM MemoryDeliveryImplemented == Spec => Implements
<1>1. Init => Delivery!Init
  BY InitDelivered
<1>2. MemoryInv /\ MemoryInv' /\ [Next]_vars => [Delivery!Next]_(Delivery!vars)
  BY NextDelivered
<1> QED
  BY <1>1, <1>2, MemoryInvariant, PTL DEF Spec, Implements, Delivery!Spec
=============================================================================
