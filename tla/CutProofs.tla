------------------------------ MODULE CutProofs ------------------------------
(***************************************************************************)
(* Proofs that the sealer cuts every message, read in pieces of any size,  *)
(* as its length alone says, and stops only at the limits it is said to;   *)
(* and, because the cut gives every byte of the stream a place of its own, *)
(* that no single fault in the stream goes unnoticed.                      *)
(***************************************************************************)
EXTENDS StreamProofs

-----------------------------------------------------------------------------
(***************************************************************************)
(* The inductive invariant: while the sealer reads, what it has sealed     *)
(* ends where a full segment of the reference cut does, and what it holds  *)
(* fits in the next.                                                       *)
(***************************************************************************)
PolicySize == PolicyHeader(SigningPolicy)

\* The end of the k-th full segment.
SealedTo(k) == IF k = 0 THEN 0 ELSE k * SegmentSize - PolicySize

ReadingHolds ==
  /\ PolicySize <= SegmentSize
  /\ Len(segs) <= FullSegments
  /\ start = IF Len(segs) = 0 THEN PolicySize ELSE 0
  /\ start + Len(pend) <= SegmentSize
  /\ Len(signed) = SealedTo(Len(segs))

CutInv ==
  /\ CanonicalCut
  /\ CounterLimit
  /\ seal = "reading" => ReadingHolds
  /\ seal = "closing" => FullSegments <= CounterMax /\ Len(segs) = FullSegments + 1

-----------------------------------------------------------------------------
\* What follows a part of the message in the message is a slice of it.
LEMMA RestOfPrefix ==
  ASSUME NEW s \in Seq(Nat), NEW t \in Seq(Nat), NEW n \in Nat, s \o t = Prefix(n)
  PROVE  n = Len(s) + Len(t) /\ t = Slice(Len(s), Len(t))
<1>1. Len(s) \in Nat /\ Len(t) \in Nat
  BY LenProperties
<1>2. Len(s \o t) = Len(s) + Len(t) /\ \A i \in 1..Len(s) + Len(t) :
        (s \o t)[i] = IF i <= Len(s) THEN s[i] ELSE t[i - Len(s)]
  BY Concat
<1>3. Len(Prefix(n)) = n /\ \A i \in 1..n : Prefix(n)[i] = i
  BY PrefixType
<1>4. n = Len(s) + Len(t)
  BY <1>2, <1>3
<1> DEFINE r == Slice(Len(s), Len(t))
<1>5. r \in Seq(Nat) /\ Len(r) = Len(t) /\ \A i \in 1..Len(t) : r[i] = Len(s) + i
  BY <1>1, SliceType
<1> HIDE DEF r
<1>6. ASSUME NEW i \in 1..Len(t) PROVE t[i] = r[i]
  <2>1. Len(s) + i \in 1..n /\ ~(Len(s) + i <= Len(s)) /\ (Len(s) + i) - Len(s) = i
    BY <1>1, <1>4
  <2>2. (s \o t)[Len(s) + i] = t[i]
    BY <1>2, <1>4, <2>1
  <2> QED
    BY <1>3, <1>5, <2>1, <2>2
<1>7. t = r
  BY <1>5, <1>6, SeqEqual
<1> QED
  BY <1>4, <1>7 DEF r

-----------------------------------------------------------------------------
\* What the lemmas about cutting ask of a sealer that reads, for Rust or for
\* the web: the signer has absorbed what was sealed, and pos is what was read.
CutTypes ==
  /\ WireTypeOK /\ InputsOK
  /\ start \in Nat /\ pend \in Seq(Nat) /\ signed \in Seq(Nat)

Cutting(pos) ==
  /\ CutTypes /\ SegmentsChain /\ Sealing /\ ReadingHolds
  /\ pos \in Nat /\ pos <= len
  /\ signed \o pend = Prefix(pos)

LEMMA InputSizes ==
  ASSUME InputsOK
  PROVE  /\ PolicySize \in Nat /\ SegmentSize \in Nat \ {0} /\ len \in Nat /\ CounterMax \in Nat
<1>1. SigningPolicy \in Policies
  BY SigningPolicyType
<1> QED
  BY <1>1, StreamAssumption, SealerAssumption DEF PolicySize, PolicyHeader, InputsOK

LEMMA CutSizes ==
  ASSUME CutTypes
  PROVE  /\ PolicySize \in Nat /\ SegmentSize \in Nat \ {0} /\ len \in Nat /\ CounterMax \in Nat
         /\ Len(pend) \in Nat /\ Len(signed) \in Nat /\ Len(segs) \in Nat
BY InputSizes, LenProperties DEF CutTypes, WireTypeOK

\* Full segments are those that end within the message.
LEMMA FullSegmentsEnd ==
  ASSUME InputsOK
  PROVE  /\ FullSegments \in Nat
         /\ \A k \in Nat : k <= FullSegments <=> k * SegmentSize <= PolicySize + len
<1> DEFINE a == PolicySize + len
           s == SegmentSize
           q == a \div s
<1>1. a \in Nat /\ s \in Nat \ {0}
  BY InputSizes
<1>2. FullSegments = q
  BY DEF FullSegments, PolicySize
<1> HIDE DEF a, s
<1>3. q \in Nat /\ q * s <= a /\ a < (q + 1) * s
  BY <1>1, SMTT(60)
<1> HIDE DEF q
<1>4. ASSUME NEW k \in Nat, k <= q PROVE k * s <= a
  <2>1. k * s <= q * s
    BY <1>1, <1>3, <1>4, SMTT(60)
  <2> QED
    BY <1>1, <1>3, <2>1
<1>5. ASSUME NEW k \in Nat, ~(k <= q) PROVE ~(k * s <= a)
  <2>1. q + 1 <= k
    BY <1>3, <1>5
  <2>2. (q + 1) * s <= k * s
    BY <1>1, <1>3, <2>1, SMTT(60)
  <2> QED
    BY <1>1, <1>3, <2>2
<1> QED
  BY <1>2, <1>3, <1>4, <1>5 DEF a, s

LEMMA TimesNext ==
  ASSUME NEW k \in Nat, NEW s \in Nat
  PROVE  (k + 1) * s = k * s + s /\ k * s \in Nat /\ (k > 0 => s <= k * s)
OBVIOUS

-----------------------------------------------------------------------------
\* What depends on the message and the keys alone stays.
LEMMA ReferenceStays ==
  ASSUME UNCHANGED inputVars
  PROVE  /\ PolicySize' = PolicySize /\ FullSegments' = FullSegments
         /\ \A k : SealedTo(k)' = SealedTo(k)
         /\ \A k : ReferenceSegment(k)' = ReferenceSegment(k)
<1>1. len' = len /\ SigningPolicy' = SigningPolicy
  BY DEF inputVars, SigningPolicy
<1>2. PolicySize' = PolicySize /\ FullSegments' = FullSegments
  BY <1>1 DEF PolicySize, FullSegments
<1>3. \A k : EndOf(k)' = EndOf(k)
  BY <1>1, <1>2 DEF EndOf
<1> QED
  BY <1>1, <1>2, <1>3 DEF SealedTo, ReferenceSegment

LEMMA CutStays ==
  ASSUME UNCHANGED <<inputVars, segs>>
  PROVE  /\ CanonicalCut => CanonicalCut'
         /\ UNCHANGED seal /\ CounterLimit => CounterLimit'
         /\ UNCHANGED <<start, pend, signed>> /\ ReadingHolds => ReadingHolds'
<1>1. CanonicalCut => CanonicalCut'
  BY ReferenceStays DEF CanonicalCut
<1>2. UNCHANGED seal /\ CounterLimit => CounterLimit'
  BY ReferenceStays DEF CounterLimit, PolicySize
<1>3. UNCHANGED <<start, pend, signed>> /\ ReadingHolds => ReadingHolds'
  BY ReferenceStays DEF ReadingHolds
<1> QED
  BY <1>1, <1>2, <1>3

-----------------------------------------------------------------------------
(***************************************************************************)
(* Cutting a message.                                                      *)
(***************************************************************************)
\* A segment of the bytes up to the next end is that of the reference cut.
LEMMA NextIsReference ==
  ASSUME CutTypes, Sealing, ReadingHolds,
         NEW m \in Seq(Nat), NEW last \in BOOLEAN,
         last <=> Len(segs) = FullSegments,
         signed \o m = Prefix(EndOf(Len(segs) + 1))
  PROVE  NewSegment(m, last) = ReferenceSegment(Len(segs) + 1)
<1> DEFINE l == Len(segs)
           from == SealedTo(l)
<1>1. /\ l \in Nat /\ from \in Nat /\ Len(signed) = from /\ counter = l /\ FullSegments \in Nat
      /\ signed \in Seq(Nat) /\ Len(m) \in Nat /\ l <= FullSegments
  BY CutSizes, FullSegmentsEnd, LenProperties DEF CutTypes, ReadingHolds, Sealing
<1>2. from = IF l = 0 THEN 0 ELSE EndOf(l)
  BY <1>1 DEF SealedTo, EndOf, PolicySize
<1> HIDE DEF from, l
<1>3. PICK k : k = l + 1
  OBVIOUS
<1>4. /\ k \in Nat /\ k - 1 = l /\ (k = 1 <=> l = 0) /\ signed \o m = Prefix(EndOf(k))
      /\ (last <=> k = FullSegments + 1)
  BY <1>1, <1>3 DEF l
<1>5. EndOf(k) \in Nat /\ EndOf(k) - from = Len(m) /\ m = Slice(from, EndOf(k) - from)
  <2>1. EndOf(k) \in Int
    BY <1>4, CutSizes DEF EndOf, PolicySize
  <2>2. EndOf(k) \in Nat
    <3>1. CASE k <= FullSegments
      <4>1. PolicySize <= SegmentSize /\ EndOf(k) = k * SegmentSize - PolicySize
        BY <3>1 DEF EndOf, PolicySize, ReadingHolds
      <4>2. PICK x : x = k * SegmentSize
        OBVIOUS
      <4>3. SegmentSize <= x /\ x \in Nat
        BY <1>1, <1>4, <4>2, CutSizes, TimesNext
      <4> QED
        BY <2>1, <4>1, <4>2, <4>3, CutSizes
    <3>2. CASE ~(k <= FullSegments)
      BY <3>2, CutSizes DEF EndOf
    <3> QED
      BY <3>1, <3>2
  <2>3. PICK e \in Nat : e = EndOf(k)
    BY <2>2
  <2>4. e = Len(signed) + Len(m) /\ m = Slice(Len(signed), Len(m))
    BY <1>1, <1>4, <2>3, RestOfPrefix
  <2> QED
    BY <1>1, <2>2, <2>3, <2>4
<1>6. PICK pol : pol = IF k = 1 THEN SigningPolicy ELSE NoPolicy
  OBVIOUS
<1>7. last = (k = FullSegments + 1)
  BY <1>4
<1>8. NewSegment(m, last)
        = SegmentOf(pol, m, Signature(signed \o m, counter, last, SigningPolicy))
  <2>1. pol = IF counter = 0 THEN SigningPolicy ELSE NoPolicy
    BY <1>1, <1>4, <1>6
  <2> QED
    BY <2>1, Zenon DEF NewSegment
<1>9. ReferenceSegment(k)
        = SegmentOf(pol, Slice(from, EndOf(k) - from),
                    Signature(Prefix(EndOf(k)), k - 1, k = FullSegments + 1, SigningPolicy))
  <2>1. PICK f : f = IF k = 1 THEN 0 ELSE EndOf(k - 1)
    OBVIOUS
  <2>2. f = from
    BY <1>2, <1>4, <2>1
  <2>3. ReferenceSegment(k)
          = SegmentOf(IF k = 1 THEN SigningPolicy ELSE NoPolicy, Slice(f, EndOf(k) - f),
                      Signature(Prefix(EndOf(k)), k - 1, k = FullSegments + 1, SigningPolicy))
    BY <2>1, Zenon DEF ReferenceSegment
  <2> QED
    BY <1>6, <2>2, <2>3, Zenon
<1>10. counter = k - 1
  BY <1>1, <1>4
<1>11. NewSegment(m, last) = ReferenceSegment(k)
  BY <1>4, <1>5, <1>7, <1>8, <1>9, <1>10, Zenon
<1> QED
  BY <1>3, <1>11 DEF l

\* Sealing it leaves the cut canonical.
LEMMA CutGrows ==
  ASSUME NEW pos, Cutting(pos), CanonicalCut, UNCHANGED inputVars,
         NEW m \in Seq(Nat), NEW last \in BOOLEAN,
         last <=> Len(segs) = FullSegments,
         NEW n \in 0..len, n = EndOf(Len(segs) + 1), signed \o m = Prefix(n),
         segs' = Append(segs, NewSegment(m, last))
  PROVE  CanonicalCut' /\ Len(segs') = Len(segs) + 1
<1>1. PICK seg : seg = NewSegment(m, last)
  OBVIOUS
<1>2. CutTypes /\ Sealing /\ ReadingHolds /\ signed \in Seq(Nat) /\ WireTypeOK /\ InputsOK
  BY DEF Cutting, CutTypes
<1>3. seg = ReferenceSegment(Len(segs) + 1)
  BY <1>1, <1>2, NextIsReference
<1>4. seg \in SegmentType
  BY <1>1, <1>2, SegmentAdded DEF Cutting
<1>5. /\ segs \in Seq(SegmentType) /\ Len(segs) \in Nat /\ FullSegments \in Nat
      /\ Len(segs) <= FullSegments
  BY <1>2, CutSizes, FullSegmentsEnd DEF WireTypeOK, ReadingHolds
<1>6. /\ Len(segs') = Len(segs) + 1 /\ segs'[Len(segs) + 1] = seg
      /\ \A k \in 1..Len(segs) : segs'[k] = segs[k]
  BY <1>1, <1>4, <1>5, AppendProperties
<1>7. \A k \in 1..Len(segs) + 1 : segs'[k] = ReferenceSegment(k)
  BY <1>3, <1>5, <1>6 DEF CanonicalCut
<1> QED
  BY <1>5, <1>6, <1>7, ReferenceStays DEF CanonicalCut

\* Where in the message the segment that is being filled ends.
LEMMA SegmentEnds ==
  ASSUME NEW pos, Cutting(pos)
  PROVE  /\ Room \in Nat /\ Len(segs) \in Nat /\ FullSegments \in Nat /\ len \in Nat
         /\ PolicySize \in Nat /\ pos = SealedTo(Len(segs)) + Len(pend)
         /\ pos + Room = SealedTo(Len(segs) + 1)
         /\ pos + Room = (Len(segs) + 1) * SegmentSize - PolicySize
         /\ Len(segs) + 1 <= FullSegments <=> pos + Room <= len
<1> DEFINE l == Len(segs)
           s == SegmentSize
<1>1. /\ pos \in Nat /\ start \in Nat /\ Len(pend) \in Nat /\ l \in Nat /\ s \in Nat
      /\ PolicySize \in Nat /\ len \in Nat /\ Len(signed) \in Nat
  BY CutSizes DEF Cutting, CutTypes
<1>2. FullSegments \in Nat /\ \A k \in Nat : k <= FullSegments <=> k * s <= PolicySize + len
  BY FullSegmentsEnd DEF Cutting, CutTypes
<1>3. /\ ReadingHolds /\ Room = s - (start + Len(pend))
  BY DEF Cutting, Room
<1>4. Room \in Nat
  BY <1>1, <1>3 DEF ReadingHolds
<1>5. pos = SealedTo(l) + Len(pend)
  <2>1. signed \in Seq(Nat) /\ pend \in Seq(Nat) /\ pos \in Nat /\ signed \o pend = Prefix(pos)
    BY DEF Cutting, CutTypes
  <2>2. pos = Len(signed) + Len(pend)
    BY <2>1, RestOfPrefix
  <2> QED
    BY <1>3, <2>2 DEF ReadingHolds
<1>6. (l + 1) * s = l * s + s /\ l * s \in Nat
  BY <1>1, TimesNext
<1>7. pos + Room = (l + 1) * s - PolicySize
  <2>1. CASE l = 0
    <3>1. start = PolicySize /\ pos = Len(pend) /\ (l + 1) * s = s
      BY <1>1, <1>3, <1>5, <2>1 DEF ReadingHolds, SealedTo
    <3> QED
      BY <1>1, <1>3, <3>1
  <2>2. CASE l # 0
    <3>1. start = 0 /\ pos = l * s - PolicySize + Len(pend)
      BY <1>1, <1>3, <1>5, <2>2 DEF ReadingHolds, SealedTo
    <3> QED
      BY <1>1, <1>3, <1>6, <3>1
  <2> QED
    BY <2>1, <2>2
<1> HIDE DEF s
<1>8. l + 1 <= FullSegments <=> pos + Room <= len
  <2>1. (l + 1) * s <= PolicySize + len <=> pos + Room <= len
    BY <1>1, <1>4, <1>6, <1>7
  <2>2. PICK k \in Nat : k = l + 1
    BY <1>1
  <2>3. k <= FullSegments <=> k * s <= PolicySize + len
    BY <1>2
  <2> QED
    BY <2>1, <2>2, <2>3
<1> QED
  BY <1>1, <1>2, <1>4, <1>5, <1>7, <1>8 DEF SealedTo, s

\* A full segment: the sealer goes on at the start of the buffer.
LEMMA FullCuts ==
  ASSUME NEW pos, Cutting(pos), CanonicalCut, UNCHANGED inputVars,
         pos + Room <= len,
         NEW m \in Seq(Nat), signed \o m = Prefix(pos + Room),
         segs' = Append(segs, NewSegment(m, FALSE)), signed' = signed \o m
  PROVE  /\ CanonicalCut' /\ Len(segs') = Len(segs) + 1
         /\ pend' = <<>> /\ start' = 0 => ReadingHolds'
<1>1. /\ Room \in Nat /\ pos \in Nat /\ Len(segs) \in Nat /\ FullSegments \in Nat /\ len \in Nat
      /\ Len(segs) + 1 <= FullSegments
      /\ pos + Room = SealedTo(Len(segs) + 1)
      /\ pos + Room = (Len(segs) + 1) * SegmentSize - PolicySize
  BY SegmentEnds DEF Cutting
<1>2. pos + Room = EndOf(Len(segs) + 1) /\ pos + Room \in 0..len
  BY <1>1 DEF EndOf, PolicySize
<1>3. CanonicalCut' /\ Len(segs') = Len(segs) + 1
  <2>1. ~(Len(segs) = FullSegments)
    BY <1>1
  <2>2. PICK last \in BOOLEAN : last = FALSE
    OBVIOUS
  <2>3. segs' = Append(segs, NewSegment(m, last)) /\ (last <=> Len(segs) = FullSegments)
    BY <2>1, <2>2
  <2> QED
    BY <1>2, <2>3, CutGrows
<1>4. ASSUME pend' = <<>>, start' = 0 PROVE ReadingHolds'
  <2>1. Len(pend') = 0
    BY <1>4
  <2>2. PICK k : k = Len(segs) + 1
    OBVIOUS
  <2>3. k \in Nat /\ k > 0 /\ k <= FullSegments /\ Len(segs') = k
    BY <1>1, <1>3, <2>2
  <2>4. Len(signed') = SealedTo(k)
    <3>1. PICK e \in Nat : e = pos + Room
      BY <1>1
    <3>2. Len(signed') = e
      BY <3>1, PrefixType
    <3> QED
      BY <1>1, <2>2, <3>1, <3>2
  <2>5. SealedTo(k)' = SealedTo(k)
    BY <2>2, ReferenceStays DEF SealedTo
  <2>6. PolicySize <= SegmentSize /\ SegmentSize \in Nat
    BY StreamAssumption DEF Cutting, ReadingHolds
  <2>7. Len(signed') = SealedTo(Len(segs))'
    BY <2>3, <2>4, <2>5 DEF SealedTo
  <2>8. FullSegments' = FullSegments /\ PolicySize' = PolicySize
    BY ReferenceStays
  <2> QED
    BY <1>4, <2>1, <2>3, <2>6, <2>7, <2>8 DEF ReadingHolds
<1> QED
  BY <1>3, <1>4

\* The last segment, when the message has ended and there is room left.
LEMMA LastCuts ==
  ASSUME Cutting(len), CanonicalCut, UNCHANGED inputVars, Room > 0,
         segs' = Append(segs, NewSegment(pend, TRUE))
  PROVE  CanonicalCut' /\ Len(segs) = FullSegments /\ Len(segs') = Len(segs) + 1
<1>1. /\ Room \in Nat /\ Len(segs) \in Nat /\ FullSegments \in Nat /\ len \in Nat
      /\ ~(Len(segs) + 1 <= FullSegments)
  BY SegmentEnds
<1>2. Len(segs) = FullSegments
  BY <1>1 DEF Cutting, ReadingHolds
<1>3. len = EndOf(Len(segs) + 1) /\ len \in 0..len
  BY <1>1, <1>2 DEF EndOf
<1>4. CanonicalCut' /\ Len(segs') = Len(segs) + 1
  <2>1. pend \in Seq(Nat) /\ signed \o pend = Prefix(len)
    BY DEF Cutting, CutTypes
  <2>2. PICK last \in BOOLEAN : last = TRUE
    OBVIOUS
  <2>3. segs' = Append(segs, NewSegment(pend, last)) /\ (last <=> Len(segs) = FullSegments)
    BY <1>2, <2>2
  <2> QED
    BY <1>3, <2>1, <2>3, CutGrows
<1> QED
  BY <1>2, <1>4

-----------------------------------------------------------------------------
(***************************************************************************)
(* The sealer's steps.                                                     *)
(***************************************************************************)
LEMMA ReadingCuts ==
  ASSUME SealerInv, CutInv, seal = "reading"
  PROVE  /\ Cutting(rd) /\ ReadingHolds /\ CanonicalCut
         /\ counter = Len(segs) /\ encPos = Len(segs) /\ encPos \in 0..CounterMax
         /\ CounterMax \in Nat /\ Len(segs) \in Nat
<1>1. /\ ReadingHolds /\ CanonicalCut /\ Sealing /\ encPos = Len(segs) /\ rd <= len
      /\ signed \o pend = Prefix(rd)
  BY DEF CutInv, SealerInv, SealerHolds
<1>2. CutTypes /\ rd \in Nat /\ SegmentsChain /\ encPos \in 0..CounterMax
  BY InputsType DEF SealerInv, SealerTypeOK, CutTypes
<1> QED
  BY <1>1, <1>2, CutSizes DEF Cutting, Sealing

LEMMA SealHeaderCuts ==
  ASSUME SealerInv, SealHeader
  PROVE  CanonicalCut' /\ CounterLimit' /\ (seal' = "reading" => ReadingHolds')
<1>1. segs = <<>> /\ pend = <<>> /\ signed = <<>> /\ seal = "ready"
  BY DEF SealHeader, SealerInv, SealerHolds
<1>2. UNCHANGED <<inputVars, rd, pend, signed, segs>> /\ start' = PolicySize
  BY DEF SealHeader, PolicySize
<1>3. /\ seal' \in {"ConstraintViolation", "reading", "WriteError"}
      /\ seal' = "ConstraintViolation" => PolicySize > SegmentSize
      /\ seal' = "reading" => ~(PolicySize > SegmentSize)
  BY DEF SealHeader, Write, Fail, PolicySize
<1>4. Len(<<>>) = 0
  OBVIOUS
<1>5. /\ PolicySize' = PolicySize /\ FullSegments' = FullSegments /\ FullSegments \in Nat
      /\ PolicySize \in Nat /\ SegmentSize \in Nat
  BY <1>2, ReferenceStays, FullSegmentsEnd, InputSizes, InputsType DEF SealerInv
<1>6. CanonicalCut'
  BY <1>1, <1>2, <1>4, <1>5 DEF CanonicalCut
<1>7. CounterLimit'
  BY <1>3, <1>5 DEF CounterLimit, PolicySize
<1>8. seal' = "reading" => ReadingHolds'
  BY <1>1, <1>2, <1>3, <1>4, <1>5 DEF ReadingHolds, SealedTo
<1> QED
  BY <1>6, <1>7, <1>8

LEMMA FillSomeCuts ==
  ASSUME SealerInv, CutInv, FillSome PROVE CutInv'
<1>1. PICK n \in ReadSizes \ {0} : n < Room /\ rd' = rd + n /\ pend' = PendAfter(n)
  BY DEF FillSome
<1>2. UNCHANGED <<inputVars, seal, start, signed, segs>> /\ seal = "reading" /\ ReadingHolds
  BY DEF FillSome, wireVars, CutInv
<1>3. /\ start \in Nat /\ Len(pend) \in Nat /\ pend \in Seq(Nat) /\ SegmentSize \in Nat
      /\ rd \in Nat
  BY <1>2, ReadingCuts, CutSizes DEF Cutting, CutTypes
<1>4. n \in Nat
  BY <1>3 DEF ReadSizes, Room
<1>5. Len(pend') = Len(pend) + n
  <2>1. Slice(rd, n) \in Seq(Nat) /\ Len(Slice(rd, n)) = n
    BY <1>3, <1>4, SliceType
  <2> QED
    BY <1>1, <1>3, <2>1, Concat DEF PendAfter
<1>6. ReadingHolds'
  BY <1>1, <1>2, <1>3, <1>4, <1>5, ReferenceStays DEF ReadingHolds, Room
<1> QED
  BY <1>2, <1>6, CutStays DEF CutInv

LEMMA SealFullCuts ==
  ASSUME SealerInv, CutInv, SealFull PROVE CutInv'
<1>1. /\ UNCHANGED inputVars /\ seal = "reading" /\ Room \in ReadSizes /\ EncryptorTakes
      /\ pend' = <<>> /\ start' = 0
  BY DEF SealFull, NextStart
<1>2. PICK m : m = PendAfter(Room)
  OBVIOUS
<1>3. /\ segs' = Append(segs, NewSegment(m, FALSE)) /\ signed' = signed \o m
      /\ \E bytes : Write(bytes, IF counter = CounterMax THEN "panic" ELSE "reading")
  BY <1>2, Zenon DEF SealFull
<1>4. rd + Room <= len /\ m \in Seq(Nat) /\ signed \o m = Prefix(rd + Room)
  BY <1>1, <1>2, ReadOn
<1>5. /\ Cutting(rd) /\ CanonicalCut /\ counter = Len(segs) /\ encPos = Len(segs)
      /\ CounterMax \in Nat /\ encPos \in 0..CounterMax
  BY <1>1, ReadingCuts
<1>6. CanonicalCut' /\ ReadingHolds'
  BY <1>1, <1>3, <1>4, <1>5, FullCuts
<1>7. seal' \in {"reading", "WriteError"}
  BY <1>1, <1>3, <1>5 DEF Write, Fail, EncryptorTakes
<1>8. CounterLimit'
  BY <1>7 DEF CounterLimit
<1> QED
  BY <1>6, <1>7, <1>8 DEF CutInv

LEMMA SealLimitCuts ==
  ASSUME SealerInv, CutInv, SealLimit PROVE CutInv'
<1>1. /\ UNCHANGED <<inputVars, segs>> /\ seal = "reading" /\ Room \in ReadSizes
      /\ ~EncryptorTakes /\ seal' = "StreamError"
  BY DEF SealLimit, Fail
<1>2. /\ Cutting(rd) /\ encPos = Len(segs) /\ encPos \in 0..CounterMax /\ CounterMax \in Nat
  BY <1>1, ReadingCuts
<1>3. Len(segs) + 1 <= FullSegments /\ Len(segs) \in Nat /\ FullSegments \in Nat
  <2>1. rd + Room <= len
    BY <1>1, ReadOn
  <2> QED
    BY <1>2, <2>1, SegmentEnds
<1>4. CounterLimit'
  BY <1>1, <1>2, <1>3, ReferenceStays DEF CounterLimit, EncryptorTakes
<1> QED
  BY <1>1, <1>4, CutStays DEF CutInv

LEMMA SealLastCuts ==
  ASSUME SealerInv, CutInv, SealLast PROVE CutInv'
<1>1. /\ UNCHANGED inputVars /\ seal = "reading" /\ Room > 0 /\ rd = len
  BY DEF SealLast, AtEnd
<1>2. /\ segs' = Append(segs, NewSegment(pend, TRUE))
      /\ \E bytes : Write(bytes, "closing")
  BY Zenon DEF SealLast
<1>3. Cutting(len) /\ CanonicalCut /\ encPos = Len(segs) /\ encPos \in 0..CounterMax
  BY <1>1, ReadingCuts
<1>4. CanonicalCut' /\ Len(segs) = FullSegments /\ Len(segs') = Len(segs) + 1
  BY <1>1, <1>2, <1>3, LastCuts
<1>5. seal' \in {"closing", "WriteError"}
  BY <1>2 DEF Write, Fail
<1>6. FullSegments <= CounterMax /\ CounterLimit'
  BY <1>3, <1>4, <1>5, StreamAssumption DEF CounterLimit
<1> QED
  BY <1>1, <1>4, <1>5, <1>6, ReferenceStays DEF CutInv

LEMMA CutKeeps ==
  ASSUME SealerInv, CutInv, SealStep \/ SealIOError PROVE CutInv'
<1>1. CASE SealHeader
  <2>1. seal' # "closing"
    BY <1>1, SealHeaderKeeps
  <2> QED
    BY <1>1, <2>1, SealHeaderCuts DEF CutInv
<1>2. CASE SealClose
  <2>1. UNCHANGED <<inputVars, segs>> /\ seal = "closing" /\ seal' = "sealed"
    BY <1>2 DEF SealClose
  <2>2. CounterLimit'
    BY <2>1, ReferenceStays DEF CutInv, CounterLimit
  <2> QED
    BY <2>1, <2>2, CutStays DEF CutInv
<1>3. CASE SealIOError
  <2>1. UNCHANGED <<inputVars, segs>> /\ seal' \in {"ReadError", "WriteError"}
    BY <1>3 DEF SealIOError, Fail
  <2>2. CounterLimit'
    BY <2>1 DEF CounterLimit
  <2> QED
    BY <2>1, <2>2, CutStays DEF CutInv
<1> QED
  BY <1>1, <1>2, <1>3, FillSomeCuts, SealFullCuts, SealLimitCuts, SealLastCuts DEF SealStep

-----------------------------------------------------------------------------
(***************************************************************************)
(* The invariant is inductive.                                             *)
(***************************************************************************)
LEMMA InitCuts ==
  ASSUME WireInit, SealerInit PROVE CutInv
<1>1. segs = <<>> /\ Len(<<>>) = 0 /\ seal = "ready"
  BY DEF WireInit, SealerInit
<1>2. FullSegments \in Nat
  BY InitSealer, InputsType, FullSegmentsEnd DEF SealerInv
<1> QED
  BY <1>1, <1>2 DEF CutInv, CanonicalCut, CounterLimit

LEMMA CutNext == IInv /\ CutInv /\ [Next]_vars => CutInv'
<1> SUFFICES ASSUME IInv, CutInv, [Next]_vars PROVE CutInv'
  OBVIOUS
<1>1. CASE SealerStep \/ SealerError
  BY <1>1, CutKeeps DEF IInv, SealerStep, SealerError
<1>2. CASE ReceiverStarts \/ UnsealerStep \/ UnsealerError \/ Damage \/ Done \/ UNCHANGED vars
  <2>1. UNCHANGED sealerVars
    BY <1>2 DEF ReceiverStarts, UnsealerStep, UnsealerError, Damage, Done, vars
  <2>2. segs' = segs
    <3>1. CASE ReceiverStarts
      BY <3>1 DEF ReceiverStarts, StartUnseal, wireVars
    <3>2. CASE UnsealerStep
      BY <3>2 DEF UnsealerStep, UnsealStep, Open, OpenHeader, RejectHeader, Receive, OpenFull,
                  OpenLast, UnsealClose, wireVars
    <3>3. CASE UnsealerError
      BY <3>3 DEF UnsealerError, UnsealIOError, wireVars
    <3>4. CASE Damage \/ Done \/ UNCHANGED vars
      BY <3>4 DEF Damage, Done, vars, wireVars
    <3> QED
      BY <1>2, <3>1, <3>2, <3>3, <3>4
  <2>3. UNCHANGED <<inputVars, segs, seal, start, pend, signed>>
    BY <2>1, <2>2 DEF sealerVars, inputVars
  <2> QED
    BY <2>3, CutStays, ReferenceStays DEF CutInv
<1> QED
  BY <1>1, <1>2 DEF Next

LEMMA CutInvariance == Spec => []CutInv
<1>1. Init => CutInv
  BY InitCuts DEF Init
<1>2. IInv /\ CutInv /\ [Next]_vars => CutInv'
  BY CutNext
<1> QED
  BY <1>1, <1>2, Invariance, PTL DEF Spec

(***************************************************************************)
(* The segments are those of the reference cut, for messages, policies and *)
(* segments of any size and however the reader cuts what it returns.       *)
(***************************************************************************)
THEOREM CutCorrect == Spec => []CanonicalCut
BY CutInvariance, PTL DEF CutInv

(***************************************************************************)
(* seal returns Ok only when the counter could number every segment, and   *)
(* then all are sealed; it stops at the counter's limit, or for a policy,  *)
(* only when it must, and the unwrap behind the counter never fails.       *)
(***************************************************************************)
THEOREM LimitsCorrect == Spec => []CounterLimit
BY CutInvariance, PTL DEF CutInv

-----------------------------------------------------------------------------
(***************************************************************************)
(* Damage.  As all segments but the last are of one length, every byte has *)
(* a place in the stream that can be read off it.  The invariant is about  *)
(* the first n places, those the sealer has written: while nothing was     *)
(* damaged, the bytes that the unsealer holds and those in transit are, in *)
(* their places, all from where the unsealer is to the n-th.  One damage   *)
(* makes that false, and it stays false, whatever is appended behind and   *)
(* accepted in front, unless the stream ends and there is nothing left.    *)
(***************************************************************************)
PosOf(b) == IF b[1] = 0 THEN b[2] ELSE 4 + (b[1] - 1) * BufSize + b[2]

UnsealPos == IF unseal = "new" THEN 0 ELSE 4 + decPos * BufSize

\* The bytes of c are at the places behind from; or anywhere from lo to hi.
Placed(c, from) == \A j \in 1..Len(c) : PosOf(c[j]) = from + j
Within(c, lo, hi) == \A j \in 1..Len(c) : lo <= PosOf(c[j]) /\ PosOf(c[j]) <= hi

InPlace(n) ==
  /\ UnsealPos + Len(buf) + Len(wire) = n
  /\ Placed(buf, UnsealPos)
  /\ Placed(wire, UnsealPos + Len(buf))

Exhausted == eof /\ buf = <<>> /\ wire = <<>>

\* A header with a byte overwritten, so that its length may be any, is not short.
Damaged(n) ==
  /\ ~InPlace(n) \/ Exhausted
  /\ Within(buf, 0, n) /\ Within(wire, 0, n)
  /\ unseal = "new" /\ Len(wire) # n => Within(wire, 1, n)

SentInv(n) ==
  /\ seal = "ready" => n = 0
  /\ seal = "reading" => n = 4 + Len(segs) * BufSize
  /\ segs # <<>> => n <= 4 + (Len(segs) - 1) * BufSize + CiphertextLen(segs[Len(segs)])
  /\ eof => seal \notin SealRunning

ComingInv(n) ==
  /\ unseal \in {"new", "opened"} => buf = <<>>
  /\ unseal \in {"new", "opened", "reading"} =>
       /\ nfaults = 0 => InPlace(n)
       /\ nfaults = 1 => Damaged(n)
  /\ unseal \in {"closing", "ok"} => nfaults # 1 /\ wire = <<>> /\ eof

DamageInv == \E n \in Nat : SentInv(n) /\ ComingInv(n)

-----------------------------------------------------------------------------
\* Places of bytes.
LEMMA StreamSizes ==
  /\ SegmentSize \in Nat \ {0} /\ SigBytes \in Nat /\ TagSize \in Nat \ {0}
  /\ BufSize \in Nat \ {0} /\ BufSize = SegmentSize + SigBytes + TagSize
BY StreamAssumption DEF BufSize

LEMMA PosType ==
  ASSUME NEW b \in Bytes
  PROVE  PosOf(b) \in Nat
<1>1. b[1] \in Nat /\ b[2] \in Nat
  BY DEF Bytes
<1>2. CASE b[1] = 0
  BY <1>1, <1>2 DEF PosOf
<1>3. CASE b[1] # 0
  <2>1. PICK k \in Nat : k = b[1] - 1
    BY <1>1, <1>3
  <2>2. k * BufSize \in Nat
    BY StreamSizes, TimesNext
  <2>3. PosOf(b) = 4 + k * BufSize + b[2]
    BY <1>3, <2>1 DEF PosOf
  <2> QED
    BY <1>1, <2>2, <2>3
<1> QED
  BY <1>2, <1>3

LEMMA PosOfHeader == \A i \in 0..4 : PosOf(<<0, i>>) = i
BY DEF PosOf

LEMMA PosOfSegment ==
  ASSUME NEW k \in Nat, NEW i \in Nat
  PROVE  PosOf(<<k + 1, i>>) = 4 + k * BufSize + i
<1>1. PICK l : l = k + 1
  OBVIOUS
<1>2. l # 0 /\ l - 1 = k
  BY <1>1
<1>3. PosOf(<<l, i>>) = 4 + k * BufSize + i
  BY <1>2 DEF PosOf
<1> QED
  BY <1>1, <1>3

LEMMA PosOfJunk == PosOf(Junk) = 0
BY DEF PosOf, Junk

-----------------------------------------------------------------------------
\* Bytes one after the other.
LEMMA JoinBytes ==
  ASSUME NEW s \in Seq(Bytes), NEW t \in Seq(Bytes)
  PROVE  /\ s \o t \in Seq(Bytes) /\ Len(s) \in Nat /\ Len(t) \in Nat
         /\ Len(s \o t) = Len(s) + Len(t)
         /\ \A j \in 1..Len(s) : (s \o t)[j] = s[j]
         /\ \A j \in 1..Len(t) : (s \o t)[Len(s) + j] = t[j]
<1>1. Len(s) \in Nat /\ Len(t) \in Nat
  BY LenProperties
<1>2. /\ s \o t \in Seq(Bytes)
      /\ Len(s \o t) = Len(s) + Len(t)
      /\ \A i \in 1..Len(s) + Len(t) : (s \o t)[i] = IF i <= Len(s) THEN s[i] ELSE t[i - Len(s)]
  BY ConcatProperties
<1>3. ASSUME NEW j \in 1..Len(t) PROVE (s \o t)[Len(s) + j] = t[j]
  <2>1. Len(s) + j \in 1..Len(s) + Len(t) /\ ~(Len(s) + j <= Len(s)) /\ (Len(s) + j) - Len(s) = j
    BY <1>1
  <2> QED
    BY <1>2, <2>1
<1> QED
  BY <1>1, <1>2, <1>3

LEMMA PlacedJoin ==
  ASSUME NEW s \in Seq(Bytes), NEW t \in Seq(Bytes), NEW from \in Nat
  PROVE  Placed(s \o t, from) <=> Placed(s, from) /\ Placed(t, from + Len(s))
<1>1. PICK u : u = s \o t
  OBVIOUS
<1>2. /\ Len(s) \in Nat /\ Len(t) \in Nat /\ Len(u) = Len(s) + Len(t)
      /\ \A j \in 1..Len(s) : u[j] = s[j]
      /\ \A j \in 1..Len(t) : u[Len(s) + j] = t[j]
  BY <1>1, JoinBytes
<1>3. ASSUME Placed(u, from)
      PROVE  Placed(s, from) /\ Placed(t, from + Len(s))
  <2>1. ASSUME NEW j \in 1..Len(t) PROVE PosOf(t[j]) = from + Len(s) + j
    <3>1. Len(s) + j \in 1..Len(u)
      BY <1>2
    <3> QED
      BY <1>2, <1>3, <3>1 DEF Placed
  <2>2. ASSUME NEW j \in 1..Len(s) PROVE PosOf(s[j]) = from + j
    BY <1>2, <1>3 DEF Placed
  <2> QED
    BY <2>1, <2>2 DEF Placed
<1>4. ASSUME Placed(s, from), Placed(t, from + Len(s))
      PROVE  Placed(u, from)
  <2> SUFFICES ASSUME NEW j \in 1..Len(u) PROVE PosOf(u[j]) = from + j
    BY DEF Placed
  <2>1. CASE j <= Len(s)
    BY <1>2, <1>4, <2>1 DEF Placed
  <2>2. CASE ~(j <= Len(s))
    <3>1. PICK i \in 1..Len(t) : j = Len(s) + i
      <4>1. j - Len(s) \in 1..Len(t) /\ j = Len(s) + (j - Len(s))
        BY <1>2, <2>2
      <4> QED
        BY <4>1
    <3>2. PosOf(t[i]) = from + Len(s) + i
      BY <1>4 DEF Placed
    <3> QED
      BY <1>2, <3>1, <3>2
  <2> QED
    BY <2>1, <2>2
<1> QED
  BY <1>1, <1>3, <1>4

LEMMA WithinJoin ==
  ASSUME NEW s \in Seq(Bytes), NEW t \in Seq(Bytes), NEW lo, NEW hi
  PROVE  Within(s \o t, lo, hi) <=> Within(s, lo, hi) /\ Within(t, lo, hi)
<1>1. PICK u : u = s \o t
  OBVIOUS
<1>2. /\ Len(s) \in Nat /\ Len(t) \in Nat /\ Len(u) = Len(s) + Len(t)
      /\ \A j \in 1..Len(s) : u[j] = s[j]
      /\ \A j \in 1..Len(t) : u[Len(s) + j] = t[j]
  BY <1>1, JoinBytes
<1> DEFINE In(b) == lo <= PosOf(b) /\ PosOf(b) <= hi
<1>3. \A c : Within(c, lo, hi) <=> \A j \in 1..Len(c) : In(c[j])
  BY DEF Within
<1> HIDE DEF In
<1>4. ASSUME \A j \in 1..Len(u) : In(u[j])
      PROVE  (\A j \in 1..Len(s) : In(s[j])) /\ (\A j \in 1..Len(t) : In(t[j]))
  <2>1. ASSUME NEW j \in 1..Len(t) PROVE In(t[j])
    <3>1. Len(s) + j \in 1..Len(u)
      BY <1>2
    <3> QED
      BY <1>2, <1>4, <3>1
  <2>2. ASSUME NEW j \in 1..Len(s) PROVE In(s[j])
    BY <1>2, <1>4
  <2> QED
    BY <2>1, <2>2
<1>5. ASSUME \A j \in 1..Len(s) : In(s[j]), \A j \in 1..Len(t) : In(t[j]), NEW j \in 1..Len(u)
      PROVE  In(u[j])
  <2>1. CASE j <= Len(s)
    BY <1>2, <1>5, <2>1
  <2>2. CASE ~(j <= Len(s))
    <3>1. PICK i \in 1..Len(t) : j = Len(s) + i
      <4>1. j - Len(s) \in 1..Len(t) /\ j = Len(s) + (j - Len(s))
        BY <1>2, <2>2
      <4> QED
        BY <4>1
    <3> QED
      BY <1>2, <1>5, <3>1
  <2> QED
    BY <2>1, <2>2
<1> QED
  BY <1>1, <1>3, <1>4, <1>5

LEMMA PlacedIsWithin ==
  ASSUME NEW c \in Seq(Bytes), NEW from \in Nat, NEW lo \in Nat, NEW hi \in Nat,
         Placed(c, from), lo <= from + 1, from + Len(c) <= hi
  PROVE  Within(c, lo, hi)
<1>1. Len(c) \in Nat
  BY LenProperties
<1> QED
  BY <1>1 DEF Placed, Within

LEMMA WithinMore ==
  ASSUME NEW c \in Seq(Bytes), NEW lo \in Nat, NEW hi \in Nat, NEW to \in Nat,
         Within(c, lo, hi), hi <= to
  PROVE  Within(c, lo, to)
<1>1. \A j \in 1..Len(c) : PosOf(c[j]) \in Nat
  BY ElementOfSeq, PosType
<1> QED
  BY <1>1 DEF Within

\* Part of a sequence of bytes.
LEMMA PartOfBytes ==
  ASSUME NEW s \in Seq(Bytes), NEW i \in Nat \ {0}, NEW j \in Nat, j <= Len(s), i <= j + 1
  PROVE  /\ SubSeq(s, i, j) \in Seq(Bytes)
         /\ Len(SubSeq(s, i, j)) = j + 1 - i
         /\ \A h \in 1..j + 1 - i : SubSeq(s, i, j)[h] = s[i + h - 1] /\ i + h - 1 \in 1..Len(s)
<1>1. Len(s) \in Nat
  BY LenProperties
<1>2. \A h \in i..j : s[h] \in Bytes
  BY <1>1, ElementOfSeq
<1>3. /\ SubSeq(s, i, j) \in Seq(Bytes)
      /\ Len(SubSeq(s, i, j)) = IF i <= j THEN j - i + 1 ELSE 0
      /\ \A h \in 1..j - i + 1 : SubSeq(s, i, j)[h] = s[i + h - 1]
  BY <1>2, SubSeqProperties
<1> QED
  BY <1>1, <1>3

LEMMA WithinPart ==
  ASSUME NEW s \in Seq(Bytes), NEW i \in Nat \ {0}, NEW j \in Nat, j <= Len(s), i <= j + 1,
         NEW lo, NEW hi, Within(s, lo, hi)
  PROVE  Within(SubSeq(s, i, j), lo, hi)
<1>1. PICK p : p = SubSeq(s, i, j)
  OBVIOUS
<1>2. Len(p) = j + 1 - i /\ \A h \in 1..j + 1 - i : p[h] = s[i + h - 1] /\ i + h - 1 \in 1..Len(s)
  BY <1>1, PartOfBytes
<1>3. \A h \in 1..Len(p) : lo <= PosOf(p[h]) /\ PosOf(p[h]) <= hi
  BY <1>2 DEF Within
<1> QED
  BY <1>1, <1>3 DEF Within

\* What is in transit is what is read, and what is left.
LEMMA ReadSplits ==
  ASSUME wire \in Seq(Bytes), NEW k \in Nat, k <= Len(wire)
  PROVE  /\ Take(k) \in Seq(Bytes) /\ Leave(k) \in Seq(Bytes)
         /\ Len(Take(k)) = k /\ Len(Leave(k)) = Len(wire) - k
         /\ \A i \in 1..k : Take(k)[i] = wire[i]
         /\ wire = Take(k) \o Leave(k)
<1>1. Len(wire) \in Nat
  BY LenProperties
<1>2. PICK t : t = Take(k)
  OBVIOUS
<1>3. PICK l : l = Leave(k)
  OBVIOUS
<1>4. t \in Seq(Bytes) /\ Len(t) = k /\ \A i \in 1..k : t[i] = wire[i]
  <2>1. /\ SubSeq(wire, 1, k) \in Seq(Bytes)
        /\ Len(SubSeq(wire, 1, k)) = k + 1 - 1
        /\ \A h \in 1..k + 1 - 1 : SubSeq(wire, 1, k)[h] = wire[1 + h - 1]
    BY <1>1, PartOfBytes
  <2> QED
    BY <1>2, <2>1 DEF Take
<1>5. l \in Seq(Bytes) /\ Len(l) = Len(wire) - k /\ \A i \in 1..Len(wire) - k : l[i] = wire[k + i]
  <2>1. /\ SubSeq(wire, k + 1, Len(wire)) \in Seq(Bytes)
        /\ Len(SubSeq(wire, k + 1, Len(wire))) = Len(wire) + 1 - (k + 1)
        /\ \A h \in 1..Len(wire) + 1 - (k + 1) :
             SubSeq(wire, k + 1, Len(wire))[h] = wire[k + 1 + h - 1]
    BY <1>1, PartOfBytes
  <2> QED
    BY <1>1, <1>3, <2>1 DEF Leave
<1>6. PICK u : u = t \o l
  OBVIOUS
<1>7. /\ u \in Seq(Bytes) /\ Len(u) = Len(wire)
      /\ \A i \in 1..Len(wire) : u[i] = IF i <= k THEN t[i] ELSE l[i - k]
  BY <1>1, <1>4, <1>5, <1>6, ConcatProperties
<1>8. \A i \in 1..Len(u) : u[i] = wire[i]
  BY <1>1, <1>4, <1>5, <1>7
<1>9. wire = u
  BY <1>7, <1>8, SeqEqual
<1> QED
  BY <1>2, <1>3, <1>4, <1>5, <1>6, <1>9
-----------------------------------------------------------------------------
(***************************************************************************)
(* What the sealer writes is appended to both, to what is in transit and   *)
(* to what it has written.                                                 *)
(***************************************************************************)
LEMMA ComingAppends ==
  ASSUME wire \in Seq(Bytes), buf \in Seq(Bytes), decPos \in Nat,
         NEW n \in Nat, ComingInv(n),
         NEW x \in Seq(Bytes), wire' = wire \o x, Placed(x, n),
         UNCHANGED <<unsealerVars, nfaults>>, eof => x = <<>> /\ eof'
  PROVE  ComingInv(n + Len(x))'
<1>1. /\ unseal' = unseal /\ buf' = buf /\ decPos' = decPos /\ nfaults' = nfaults
  BY DEF unsealerVars
<1>2. /\ UnsealPos' = UnsealPos /\ UnsealPos \in Nat
  <2>1. decPos * BufSize \in Nat
    BY StreamSizes, TimesNext
  <2> QED
    BY <1>1, <2>1 DEF UnsealPos
<1>3. /\ Len(wire') = Len(wire) + Len(x) /\ Len(wire) \in Nat /\ Len(x) \in Nat
      /\ Len(buf) \in Nat
  BY JoinBytes
<1>4. PICK m : m = n + Len(x)
  OBVIOUS
<1>5. m \in Nat /\ n <= m
  BY <1>3, <1>4
<1>6. x = <<>> => wire' = wire /\ m = n
  BY <1>3, <1>4, ConcatEmptySeq, EmptySeq
<1>7. Placed(wire', UnsealPos + Len(buf))
        <=> /\ Placed(wire, UnsealPos + Len(buf))
            /\ Placed(x, UnsealPos + Len(buf) + Len(wire))
  BY <1>2, <1>3, PlacedJoin
<1>8. InPlace(m)' <=> InPlace(n)
  <2>1. UnsealPos + Len(buf) + Len(wire') = m <=> UnsealPos + Len(buf) + Len(wire) = n
    <3>1. PICK p \in Nat, k \in Nat, l \in Nat, y \in Nat :
            p = UnsealPos /\ k = Len(buf) /\ l = Len(wire) /\ y = Len(x)
      BY <1>2, <1>3
    <3>2. p + k + (l + y) = n + y <=> p + k + l = n
      OBVIOUS
    <3>3. Len(wire') = l + y /\ m = n + y
      BY <1>3, <1>4, <3>1
    <3> QED
      BY <3>1, <3>2, <3>3
  <2>2. InPlace(m)' <=> /\ UnsealPos + Len(buf) + Len(wire') = m
                        /\ Placed(buf, UnsealPos)
                        /\ Placed(wire', UnsealPos + Len(buf))
    BY <1>1, <1>2 DEF InPlace, Placed
  <2> QED
    BY <1>7, <2>1, <2>2 DEF InPlace
<1>9. Damaged(n) => Damaged(m)'
  <2> SUFFICES ASSUME Damaged(n) PROVE Damaged(m)'
    OBVIOUS
  <2>1. ~InPlace(m)' \/ Exhausted'
    <3>1. CASE ~InPlace(n)
      BY <1>8, <3>1
    <3>2. CASE Exhausted
      BY <1>1, <1>6, <3>2 DEF Exhausted
    <3> QED
      BY <3>1, <3>2 DEF Damaged
  <2>2. Within(x, 0, m) /\ Within(x, 1, m)
    BY <1>3, <1>4, <1>5, PlacedIsWithin
  <2>3. Within(wire', 0, m) /\ Within(buf, 0, m)
    <3>1. Within(wire, 0, m) /\ Within(buf, 0, m)
      BY <1>5, WithinMore DEF Damaged
    <3> QED
      BY <2>2, <3>1, WithinJoin
  <2>4. unseal = "new" /\ Len(wire') # m => Within(wire', 1, m)
    <3> SUFFICES ASSUME unseal = "new", Len(wire') # m PROVE Within(wire', 1, m)
      OBVIOUS
    <3>1. Len(wire) # n
      BY <1>3, <1>4
    <3>2. Within(wire, 1, m)
      BY <1>5, <3>1, WithinMore DEF Damaged
    <3> QED
      BY <2>2, <3>2, WithinJoin
  <2>5. (Within(buf, 0, m) /\ Within(wire, 0, m))' <=> Within(buf, 0, m) /\ Within(wire', 0, m)
    BY <1>1 DEF Within
  <2>6. Within(wire, 1, m)' <=> Within(wire', 1, m)
    BY DEF Within
  <2> QED
    BY <1>1, <2>1, <2>3, <2>4, <2>5, <2>6 DEF Damaged
<1>10. ComingInv(m)'
  BY <1>1, <1>6, <1>8, <1>9 DEF ComingInv
<1> QED
  BY <1>4, <1>10

\* What a write leaves of what is written.
LEMMA WriteAppends ==
  ASSUME NEW bytes \in Seq(Bytes), NEW next, Write(bytes, next)
  PROVE  \E x \in Seq(Bytes) :
           /\ wire' = wire \o x
           /\ Len(x) <= Len(bytes)
           /\ \A j \in 1..Len(x) : x[j] = bytes[j]
           /\ \/ seal' = next /\ eof' = (next \in SealFailed) /\ Len(x) = Len(bytes)
              \/ seal' = "WriteError" /\ eof' = TRUE
<1>1. Len(bytes) \in Nat
  BY LenProperties
<1>2. CASE wire' = wire \o bytes /\ seal' = next /\ eof' = (next \in SealFailed)
  BY <1>1, <1>2
<1>3. CASE /\ \E n \in 0..Len(bytes) - 1 : wire' = wire \o SubSeq(bytes, 1, n)
           /\ Fail("WriteError")
  <2>1. PICK n \in 0..Len(bytes) - 1 : wire' = wire \o SubSeq(bytes, 1, n)
    BY <1>3
  <2>2. PICK x : x = SubSeq(bytes, 1, n)
    OBVIOUS
  <2>3. x \in Seq(Bytes) /\ Len(x) = n /\ \A j \in 1..n : x[j] = bytes[j]
    <3>1. n \in Nat /\ n <= Len(bytes) /\ 1 <= n + 1
      BY <1>1
    <3>2. /\ SubSeq(bytes, 1, n) \in Seq(Bytes)
          /\ Len(SubSeq(bytes, 1, n)) = n + 1 - 1
          /\ \A h \in 1..n + 1 - 1 : SubSeq(bytes, 1, n)[h] = bytes[1 + h - 1]
      BY <3>1, PartOfBytes
    <3> QED
      BY <2>2, <3>1, <3>2
  <2>4. n <= Len(bytes)
    BY <1>1
  <2> QED
    BY <1>3, <2>1, <2>2, <2>3, <2>4 DEF Fail
<1> QED
  BY <1>2, <1>3 DEF Write

\* A segment that starts behind the k-th full one is written to its places.
LEMMA SegmentPlaced ==
  ASSUME NEW k \in Nat, NEW seg \in SegmentType, NEW x,
         Len(x) \in Nat, Len(x) <= CiphertextLen(seg),
         \A j \in 1..Len(x) : x[j] = Ciphertext(k + 1, seg)[j]
  PROVE  Placed(x, 4 + k * BufSize)
<1>1. ASSUME NEW j \in 1..Len(x) PROVE PosOf(x[j]) = 4 + k * BufSize + j
  <2>1. CiphertextLen(seg) \in Nat
    BY CiphertextSize
  <2>2. j \in 1..CiphertextLen(seg) /\ j \in Nat
    BY <2>1
  <2>3. x[j] = <<k + 1, j>>
    BY <2>2 DEF Ciphertext
  <2> QED
    BY <2>2, <2>3, PosOfSegment
<1> QED
  BY <1>1 DEF Placed

\* What the sealer's steps append, and what is said of it.
Sends(n, x) ==
  /\ x \in Seq(Bytes) /\ wire' = wire \o x /\ Placed(x, n)
  /\ eof => x = <<>> /\ eof'
  /\ SentInv(n + Len(x))'

LEMMA SendsNothing ==
  ASSUME wire \in Seq(Bytes), NEW n \in Nat, SentInv(n), wire' = wire, segs' = segs,
         \/ seal' = seal /\ eof' = eof
         \/ seal' \notin SealRunning /\ eof'
  PROVE  \E x : Sends(n, x)
<1>1. <<>> \in Seq(Bytes) /\ Len(<<>>) = 0 /\ wire' = wire \o <<>>
  BY EmptySeq, ConcatEmptySeq
<1>2. Placed(<<>>, n)
  BY <1>1 DEF Placed
<1>3. SentInv(n)'
  BY DEF SentInv, SealRunning
<1>4. n + Len(<<>>) = n
  BY <1>1
<1>5. eof => eof'
  OBVIOUS
<1>6. Sends(n, <<>>)
  BY <1>1, <1>2, <1>3, <1>4, <1>5 DEF Sends
<1> QED
  BY <1>6

LEMMA SealHeaderSends ==
  ASSUME SealerInv, NEW n \in Nat, SentInv(n), SealHeader
  PROVE  \E x : Sends(n, x)
<1>1. segs = <<>> /\ seal = "ready" /\ n = 0 /\ segs' = segs
  BY DEF SealHeader, SealerInv, SealerHolds, SentInv
<1>2. PICK next \in {"ConstraintViolation", "reading"} : Write(HeaderBytes, next)
  BY DEF SealHeader
<1>3. PICK x \in Seq(Bytes) :
        /\ wire' = wire \o x
        /\ Len(x) <= Len(HeaderBytes)
        /\ \A j \in 1..Len(x) : x[j] = HeaderBytes[j]
        /\ \/ seal' = next /\ eof' = (next \in SealFailed) /\ Len(x) = Len(HeaderBytes)
           \/ seal' = "WriteError" /\ eof' = TRUE
  BY <1>2, HeaderType, WriteAppends
<1>4. Len(HeaderBytes) = 4 /\ Len(x) \in Nat /\ Len(<<>>) = 0 /\ 0 * BufSize = 0
  BY LenProperties, StreamSizes DEF HeaderBytes
<1>5. Placed(x, n)
  <2> SUFFICES ASSUME NEW j \in 1..Len(x) PROVE PosOf(x[j]) = n + j
    BY DEF Placed
  <2>1. j \in 1..4 /\ j \in 0..4
    BY <1>3, <1>4
  <2>2. x[j] = <<0, j>>
    BY <1>3, <2>1 DEF HeaderBytes
  <2>3. PosOf(<<0, j>>) = j
    BY <2>1, PosOfHeader
  <2>4. n + j = j
    <3>1. n = 0
      BY <1>1
    <3> QED
      BY <2>1, <3>1
  <2> QED
    BY <2>2, <2>3, <2>4
<1>6. SentInv(Len(x))'
  <2>1. Len(segs') * BufSize = 0
    BY <1>1, <1>4
  <2>2. seal' = "reading" => Len(x) = 4 + Len(segs') * BufSize
    BY <1>2, <1>3, <1>4, <2>1
  <2>3. seal' # "ready" /\ (eof' => seal' \notin SealRunning)
    <3>1. CASE seal' = "reading"
      <4>1. eof' = ("reading" \in SealFailed)
        BY <1>3, <3>1
      <4>2. "reading" \notin SealFailed
        BY DEF SealFailed
      <4> QED
        BY <3>1, <4>1, <4>2
    <3>2. CASE seal' \in {"ConstraintViolation", "WriteError"}
      BY <3>2 DEF SealRunning
    <3> QED
      BY <1>2, <1>3, <3>1, <3>2
  <2> QED
    BY <1>1, <2>2, <2>3 DEF SentInv
<1>7. ~eof /\ n + Len(x) = Len(x)
  BY <1>1, <1>4 DEF SentInv, SealRunning
<1>8. Sends(n, x)
  BY <1>3, <1>5, <1>6, <1>7 DEF Sends
<1> QED
  BY <1>8

LEMMA SegmentSends ==
  ASSUME SealerInv, seal = "reading", NEW n \in Nat, SentInv(n),
         NEW seg \in SegmentType, segs' = Append(segs, seg),
         NEW next \in {"reading", "closing", "panic"},
         Write(Ciphertext(Len(segs) + 1, seg), next),
         next = "reading" => CiphertextLen(seg) = BufSize
  PROVE  \E x : Sends(n, x)
<1> DEFINE c == Ciphertext(Len(segs) + 1, seg)
<1>1. segs \in Seq(SegmentType) /\ Len(segs) \in Nat
  BY LenProperties DEF SealerInv, WireTypeOK
<1>2. c \in Seq(Bytes) /\ CiphertextLen(seg) \in Nat /\ Len(c) = CiphertextLen(seg)
  <2>1. c \in Seq(Bytes) /\ CiphertextLen(seg) \in Nat
    BY <1>1, CiphertextType, CiphertextSize
  <2> QED
    BY <2>1 DEF Ciphertext
<1>3. PICK x \in Seq(Bytes) :
        /\ wire' = wire \o x
        /\ Len(x) <= Len(c)
        /\ \A j \in 1..Len(x) : x[j] = c[j]
        /\ \/ seal' = next /\ eof' = (next \in SealFailed) /\ Len(x) = Len(c)
           \/ seal' = "WriteError" /\ eof' = TRUE
  BY <1>2, WriteAppends
<1>4. Len(x) \in Nat /\ n = 4 + Len(segs) * BufSize /\ ~eof /\ Len(segs) * BufSize \in Nat
  BY <1>1, LenProperties, StreamSizes, TimesNext DEF SentInv, SealRunning
<1>5. Placed(x, n)
  BY <1>1, <1>2, <1>3, <1>4, SegmentPlaced
<1>6. Len(segs') = Len(segs) + 1 /\ segs'[Len(segs) + 1] = seg
  BY <1>1, AppendProperties
<1>7. SentInv(n + Len(x))'
  <2>1. seal' = "reading" => n + Len(x) = 4 + Len(segs') * BufSize
    <3> SUFFICES ASSUME seal' = "reading" PROVE n + Len(x) = 4 + Len(segs') * BufSize
      OBVIOUS
    <3>1. Len(x) = BufSize
      BY <1>2, <1>3
    <3>2. Len(segs') * BufSize = Len(segs) * BufSize + BufSize
      BY <1>1, <1>6, StreamSizes, TimesNext
    <3> QED
      BY <1>4, <3>1, <3>2, StreamSizes
  <2>2. seal' # "ready"
    BY <1>3
  <2>3. eof' => seal' \notin SealRunning
    <3>1. CASE seal' \in {"reading", "closing"}
      <4>1. eof' = (seal' \in SealFailed)
        BY <1>3, <3>1
      <4>2. seal' \notin SealFailed
        BY <3>1 DEF SealFailed
      <4> QED
        BY <4>1, <4>2
    <3>2. CASE seal' \in {"panic", "WriteError"}
      BY <3>2 DEF SealRunning
    <3> QED
      BY <1>3, <3>1, <3>2
  <2>4. n + Len(x) <= 4 + (Len(segs') - 1) * BufSize + CiphertextLen(segs'[Len(segs')])
    <3>1. Len(segs') - 1 = Len(segs) /\ segs'[Len(segs')] = seg
      BY <1>1, <1>6
    <3>2. n + Len(x) <= 4 + Len(segs) * BufSize + CiphertextLen(seg)
      BY <1>2, <1>3, <1>4
    <3> QED
      BY <3>1, <3>2
  <2>5. (CiphertextLen(segs[Len(segs)]))' = CiphertextLen(segs'[Len(segs')])
    BY DEF CiphertextLen
  <2> QED
    BY <2>1, <2>2, <2>3, <2>4, <2>5 DEF SentInv
<1>8. Sends(n, x)
  BY <1>3, <1>4, <1>5, <1>7 DEF Sends
<1> QED
  BY <1>8

\* A full segment is as long as the unsealer's buffer.
LEMMA SealFullSends ==
  ASSUME SealerInv, CutInv, NEW n \in Nat, SentInv(n), SealFull
  PROVE  \E x : Sends(n, x)
<1>1. /\ UNCHANGED inputVars /\ seal = "reading" /\ Room \in ReadSizes
  BY DEF SealFull
<1>2. PICK m : m = PendAfter(Room)
  OBVIOUS
<1>3. PICK seg : seg = NewSegment(m, FALSE)
  OBVIOUS
<1>4. PICK next : next = IF counter = CounterMax THEN "panic" ELSE "reading"
  OBVIOUS
<1>5. segs' = Append(segs, seg) /\ Write(Ciphertext(Len(segs) + 1, seg), next)
  BY <1>2, <1>3, <1>4, Zenon DEF SealFull
<1>6. /\ Cutting(rd) /\ counter = Len(segs) /\ ReadingHolds /\ CutTypes /\ Sealing
  BY <1>1, ReadingCuts DEF Cutting
<1>7. /\ Room \in Nat /\ rd + Room <= len /\ rd + Room \in Nat /\ len \in Nat
      /\ m \in Seq(Nat) /\ signed \o m = Prefix(rd + Room)
  BY <1>1, <1>2, ReadOn
<1>8. seg \in SegmentType
  <2>1. rd + Room \in 0..len
    BY <1>7
  <2>2. PICK last \in BOOLEAN : last = FALSE
    OBVIOUS
  <2>3. NewSegment(m, last) \in SegmentType
    <3>1. PICK s : s = Append(segs, NewSegment(m, last))
      OBVIOUS
    <3>2. segs' = Append(segs, NewSegment(m, last))
      BY <1>3, <1>5, <2>2
    <3> QED
      BY <1>1, <1>6, <1>7, <2>1, <3>2, SegmentAdded DEF Cutting, CutTypes
  <2> QED
    BY <1>3, <2>2, <2>3
<1>9. CiphertextLen(seg) = BufSize
  <2>1. seg.pol = (IF counter = 0 THEN SigningPolicy ELSE NoPolicy) /\ seg.m = m
    BY <1>3 DEF NewSegment, SegmentOf
  <2>2. Len(m) = Len(pend) + Room /\ Len(pend) \in Nat
    <3>1. rd \in Nat /\ pend \in Seq(Nat)
      BY <1>6 DEF Cutting, CutTypes
    <3>2. Slice(rd, Room) \in Seq(Nat) /\ Len(Slice(rd, Room)) = Room
      BY <1>7, <3>1, SliceType
    <3> QED
      BY <1>2, <3>1, <3>2, Concat DEF PendAfter
  <2>3. start + Len(m) = SegmentSize /\ start \in Nat
    BY <1>6, <2>2, StreamSizes DEF Room, CutTypes
  <2>4. SigningPolicy # NoPolicy
    BY <1>6, SigningPolicyType, StreamAssumption DEF CutTypes
  <2>5. (IF seg.pol = NoPolicy THEN 0 ELSE PolicyHeader(seg.pol)) = start
    BY <1>6, <2>1, <2>4 DEF ReadingHolds, PolicySize
  <2> QED
    BY <2>1, <2>3, <2>5, StreamSizes, <2>2 DEF CiphertextLen
<1> QED
  BY <1>1, <1>4, <1>5, <1>8, <1>9, SegmentSends

LEMMA SealLastSends ==
  ASSUME SealerInv, CutInv, NEW n \in Nat, SentInv(n), SealLast
  PROVE  \E x : Sends(n, x)
<1>1. UNCHANGED inputVars /\ seal = "reading" /\ rd = len
  BY DEF SealLast, AtEnd
<1>2. PICK seg : seg = NewSegment(pend, TRUE)
  OBVIOUS
<1>3. segs' = Append(segs, seg) /\ Write(Ciphertext(Len(segs) + 1, seg), "closing")
  BY <1>2, Zenon DEF SealLast
<1>4. Cutting(len) /\ CutTypes /\ Sealing /\ len \in Nat /\ signed \o pend = Prefix(len)
  BY <1>1, ReadingCuts DEF Cutting
<1>5. seg \in SegmentType
  <2>1. len \in 0..len
    BY <1>4
  <2>2. PICK last \in BOOLEAN : last = TRUE
    OBVIOUS
  <2>3. segs' = Append(segs, NewSegment(pend, last))
    BY <1>2, <1>3, <2>2
  <2>4. NewSegment(pend, last) \in SegmentType
    BY <1>1, <1>4, <2>1, <2>3, SegmentAdded DEF Cutting, CutTypes
  <2> QED
    BY <1>2, <2>2, <2>4
<1> QED
  BY <1>1, <1>3, <1>5, SegmentSends

LEMMA SealerSends ==
  ASSUME SealerInv, CutInv, NEW n \in Nat, SentInv(n), SealStep \/ SealIOError
  PROVE  \E x : Sends(n, x)
<1>1. wire \in Seq(Bytes)
  BY DEF SealerInv, WireTypeOK
<1>2. CASE FillSome
  <2>1. wire' = wire /\ segs' = segs /\ seal' = seal /\ eof' = eof
    BY <1>2 DEF FillSome, wireVars
  <2> QED
    BY <1>1, <2>1, SendsNothing
<1>3. CASE SealLimit \/ SealClose \/ SealIOError
  <2>1. /\ wire' = wire /\ segs' = segs /\ eof' = TRUE
        /\ seal' \in {"StreamError", "sealed", "ReadError", "WriteError"}
    BY <1>3 DEF SealLimit, SealClose, SealIOError, Fail
  <2>2. seal' \notin SealRunning
    BY <2>1 DEF SealRunning
  <2> QED
    BY <1>1, <2>1, <2>2, SendsNothing
<1> QED
  BY <1>2, <1>3, SealHeaderSends, SealFullSends, SealLastSends DEF SealStep

-----------------------------------------------------------------------------
(***************************************************************************)
(* What the unsealer accepts is in its place, so that what is left is in   *)
(* place when, and only when, the whole was.                               *)
(***************************************************************************)
LEMMA ComingTypes ==
  ASSUME IInv
  PROVE  /\ wire \in Seq(Bytes) /\ buf \in Seq(Bytes) /\ decPos \in Nat
         /\ Len(wire) \in Nat /\ Len(buf) \in Nat /\ Len(buf) < BufSize
         /\ UnsealPos \in Nat /\ decPos * BufSize \in Nat
         /\ unseal \in {"new", "opened"} => decPos = 0
<1>1. wire \in Seq(Bytes) /\ buf \in Seq(Bytes) /\ decPos \in Nat
  BY StreamAssumption DEF IInv, SealerInv, UnsealerInv, WireTypeOK, UnsealerTypeOK
<1>2. decPos * BufSize \in Nat
  BY <1>1, StreamSizes, TimesNext
<1>3. UnsealPos \in Nat
  BY <1>2 DEF UnsealPos
<1> QED
  BY <1>1, <1>2, <1>3, LenProperties DEF IInv, UnsealerInv, UnsealerHolds

LEMMA NothingPlaced ==
  /\ Len(<<>>) = 0 /\ <<>> \in Seq(Bytes)
  /\ \A from : Placed(<<>>, from)
  /\ \A lo, hi : Within(<<>>, lo, hi)
<1>1. Len(<<>>) = 0 /\ <<>> \in Seq(Bytes)
  BY EmptySeq
<1> QED
  BY <1>1 DEF Placed, Within

LEMMA FailedComing ==
  ASSUME NEW n, unseal' \in UnsealFailed
  PROVE  ComingInv(n)'
BY DEF ComingInv, UnsealFailed

\* The header, whose length, when it was overwritten, may be any.
LEMMA HeaderComing ==
  ASSUME IInv, NEW n \in Nat, ComingInv(n), OpenHeader(pubPol), nfaults' = nfaults
  PROVE  ComingInv(n)'
<1>1. /\ unseal = "new" /\ unseal' = "opened" /\ buf' = buf /\ decPos' = decPos /\ eof' = eof
      /\ buf = <<>> /\ decPos = 0
  BY ComingTypes DEF OpenHeader, ComingInv
<1>2. PICK h \in HeaderEnds : wire' = Leave(h)
  BY DEF OpenHeader
<1>3. wire \in Seq(Bytes) /\ Len(wire) \in Nat /\ h \in 4..Len(wire) /\ h \in Nat /\ h <= Len(wire)
  BY ComingTypes DEF HeaderEnds
<1>4. PICK t : t = Take(h)
  OBVIOUS
<1>5. PICK l : l = Leave(h)
  OBVIOUS
<1>6. /\ t \in Seq(Bytes) /\ l \in Seq(Bytes) /\ Len(t) = h /\ Len(l) = Len(wire) - h
      /\ wire = t \o l /\ wire' = l
  BY <1>2, <1>3, <1>4, <1>5, ReadSplits
<1>7. UnsealPos = 0 /\ UnsealPos' = 4
  <2>1. 0 * BufSize = 0
    BY StreamSizes
  <2> QED
    BY <1>1, <2>1 DEF UnsealPos
<1>8. InPlace(n) <=> Len(wire) = n /\ Placed(wire, 0)
  BY <1>1, <1>3, <1>7, NothingPlaced DEF InPlace
<1>9. InPlace(n)' <=> 4 + Len(l) = n /\ Placed(l, 4)
  <2>1. InPlace(n)' <=> 4 + Len(<<>>) + Len(l) = n /\ Placed(<<>>, 4) /\ Placed(l, 4 + Len(<<>>))
    BY <1>1, <1>6, <1>7 DEF InPlace, Placed
  <2> QED
    BY <2>1, NothingPlaced
<1>10. Damaged(n) => Within(l, 0, n)
  BY <1>6, WithinJoin DEF Damaged
<1>11. Damaged(n)' <=> (~InPlace(n)' \/ Exhausted') /\ Within(l, 0, n)
  <2>1. Damaged(n)' <=> (~InPlace(n)' \/ Exhausted') /\ Within(<<>>, 0, n) /\ Within(l, 0, n)
    BY <1>1, <1>6 DEF Damaged, Within
  <2> QED
    BY <2>1, NothingPlaced
<1>12. CASE h = 4 /\ t = HeaderBytes
  <2>1. Placed(t, 0)
    <3>1. Len(t) = 4 /\ \A i \in 1..4 : t[i] = <<0, i>>
      BY <1>6, <1>12 DEF HeaderBytes
    <3> QED
      BY <3>1, PosOfHeader DEF Placed
  <2>2. Placed(wire, 0) <=> Placed(l, 4)
    <3>1. Placed(t \o l, 0) <=> Placed(t, 0) /\ Placed(l, 0 + Len(t))
      BY <1>6, PlacedJoin
    <3> QED
      BY <1>6, <1>12, <2>1, <3>1
  <2>3. InPlace(n)' <=> InPlace(n)
    BY <1>3, <1>6, <1>8, <1>9, <1>12, <2>2
  <2>4. ~Exhausted
    BY <1>3, EmptySeq DEF Exhausted
  <2>5. Damaged(n) => Damaged(n)'
    BY <1>10, <1>11, <2>3, <2>4 DEF Damaged
  <2> QED
    BY <1>1, <2>3, <2>5 DEF ComingInv
<1>13. CASE wire[3] = Junk /\ (h > 4 \/ (eof /\ h = Len(wire)))
  <2>1. 3 \in 1..Len(wire) /\ PosOf(wire[3]) = 0
    BY <1>3, <1>13, PosOfJunk
  <2>2. nfaults # 0
    <3> SUFFICES ASSUME nfaults = 0 PROVE FALSE
      OBVIOUS
    <3>1. Placed(wire, 0)
      BY <1>1, <1>8 DEF ComingInv
    <3> QED
      BY <2>1, <3>1 DEF Placed
  <2>3. ASSUME nfaults = 1
        PROVE  Damaged(n)'
    <3>1. Damaged(n)
      BY <1>1, <2>3 DEF ComingInv
    <3>2. Len(wire) = n
      <4> SUFFICES ASSUME Len(wire) # n PROVE FALSE
        OBVIOUS
      <4>1. Within(wire, 1, n)
        BY <1>1, <3>1 DEF Damaged
      <4> QED
        BY <2>1, <4>1 DEF Within
    <3>3. ~InPlace(n)' \/ Exhausted'
      <4> SUFFICES ASSUME InPlace(n)' PROVE Exhausted'
        OBVIOUS
      <4>1. h = 4 /\ eof /\ h = Len(wire)
        BY <1>3, <1>6, <1>9, <1>13, <3>2
      <4>2. Len(l) = 0
        BY <1>6, <4>1
      <4>3. l = <<>>
        BY <1>6, <4>2, EmptySeq
      <4> QED
        BY <1>1, <1>6, <4>1, <4>3 DEF Exhausted
    <3> QED
      BY <1>10, <1>11, <3>1, <3>3
  <2> QED
    BY <1>1, <2>2, <2>3 DEF ComingInv
<1> QED
  BY <1>4, <1>12, <1>13 DEF HeaderEnds

LEMMA ReceiveComing ==
  ASSUME IInv, NEW n \in Nat, ComingInv(n), NEW k \in 1..Len(wire), Receive(k), nfaults' = nfaults
  PROVE  ComingInv(n)'
<1>1. /\ unseal = "reading" /\ unseal' = unseal /\ decPos' = decPos /\ eof' = eof
  BY DEF Receive
<1>2. PICK t : t = Take(k)
  OBVIOUS
<1>3. PICK l : l = Leave(k)
  OBVIOUS
<1>4. /\ wire \in Seq(Bytes) /\ buf \in Seq(Bytes) /\ Len(wire) \in Nat /\ Len(buf) \in Nat
      /\ UnsealPos \in Nat /\ UnsealPos' = UnsealPos /\ k \in Nat /\ k <= Len(wire) /\ k >= 1
  BY <1>1, ComingTypes DEF UnsealPos
<1>5. /\ t \in Seq(Bytes) /\ l \in Seq(Bytes) /\ Len(t) = k /\ Len(l) = Len(wire) - k
      /\ wire = t \o l /\ wire' = l /\ buf' = buf \o t
  BY <1>2, <1>3, <1>4, ReadSplits DEF Receive
<1>6. PICK b : b = buf \o t
  OBVIOUS
<1>7. b \in Seq(Bytes) /\ Len(b) = Len(buf) + k
  BY <1>4, <1>5, <1>6, JoinBytes
<1>8. PICK p \in Nat : p = UnsealPos
  BY <1>4
<1>9. InPlace(n)' <=> InPlace(n)
  <2>1. Placed(b, p) <=> Placed(buf, p) /\ Placed(t, p + Len(buf))
    BY <1>4, <1>5, <1>6, PlacedJoin
  <2>2. Placed(wire, p + Len(buf)) <=> Placed(t, p + Len(buf)) /\ Placed(l, p + Len(buf) + k)
    <3>1. PICK q \in Nat : q = p + Len(buf)
      BY <1>4
    <3>2. Placed(t \o l, q) <=> Placed(t, q) /\ Placed(l, q + Len(t))
      BY <1>5, PlacedJoin
    <3> QED
      BY <1>5, <3>1, <3>2
  <2>3. InPlace(n)' <=> p + Len(b) + Len(l) = n /\ Placed(b, p) /\ Placed(l, p + Len(b))
    BY <1>4, <1>5, <1>6, <1>8 DEF InPlace, Placed
  <2>4. p + Len(b) + Len(l) = p + Len(buf) + Len(wire) /\ p + Len(b) = p + Len(buf) + k
    BY <1>4, <1>5, <1>7
  <2> QED
    BY <1>8, <2>1, <2>2, <2>3, <2>4 DEF InPlace
<1>10. ~Exhausted
  BY <1>4, EmptySeq DEF Exhausted
<1>11. Damaged(n) => Within(b, 0, n) /\ Within(l, 0, n)
  BY <1>4, <1>5, <1>6, WithinJoin DEF Damaged
<1>12. Damaged(n)' <=> (~InPlace(n)' \/ Exhausted') /\ Within(b, 0, n) /\ Within(l, 0, n)
  BY <1>1, <1>5, <1>6 DEF Damaged, Within
<1>13. Damaged(n) => Damaged(n)'
  BY <1>9, <1>10, <1>11, <1>12 DEF Damaged
<1> QED
  BY <1>1, <1>9, <1>13 DEF ComingInv

\* What decrypts is in its place: a ciphertext, accepted as a whole.
LEMMA DecryptsPlaced ==
  ASSUME IInv, NEW bytes, NEW last, Decrypts(bytes, last), unseal = "reading"
  PROVE  /\ Placed(bytes, UnsealPos)
         /\ UnsealPos = 4 + decPos * BufSize
         /\ Len(bytes) = CiphertextLen(segs[decPos + 1]) /\ Len(bytes) \in Nat \ {0}
<1>1. /\ decPos + 1 \in 1..Len(segs) /\ segs \in Seq(SegmentType) /\ decPos \in Nat
      /\ bytes = Ciphertext(decPos + 1, segs[decPos + 1])
  BY ComingTypes, LenProperties DEF Decrypts, IInv, SealerInv, WireTypeOK
<1>2. PICK seg \in SegmentType : seg = segs[decPos + 1]
  BY <1>1, ElementOfSeq
<1>3. CiphertextLen(seg) \in Nat \ {0}
  <2>1. CiphertextLen(seg)
          = (IF seg.pol = NoPolicy THEN 0 ELSE PolicyHeader(seg.pol)) + Len(seg.m) + SigBytes + TagSize
    BY DEF CiphertextLen
  <2>2. Len(seg.m) \in Nat
    BY LenProperties DEF SegmentType
  <2>3. (IF seg.pol = NoPolicy THEN 0 ELSE PolicyHeader(seg.pol)) \in Nat
    BY StreamAssumption DEF SegmentType, PolicyHeader
  <2> QED
    BY <2>1, <2>2, <2>3, StreamSizes
<1>4. Len(bytes) = CiphertextLen(seg)
  BY <1>1, <1>2, <1>3 DEF Ciphertext
<1>5. UnsealPos = 4 + decPos * BufSize
  BY DEF UnsealPos
<1>6. Placed(bytes, 4 + decPos * BufSize)
  BY <1>1, <1>2, <1>3, <1>4, SegmentPlaced
<1> QED
  BY <1>2, <1>3, <1>4, <1>5, <1>6

LEMMA OpenFullComing ==
  ASSUME IInv, NEW n \in Nat, ComingInv(n), OpenFull, nfaults' = nfaults
  PROVE  ComingInv(n)'
<1>1. unseal = "reading" /\ eof' = eof /\ Len(wire) >= BufSize - Len(buf)
      /\ wire' = Leave(BufSize - Len(buf))
  BY DEF OpenFull
<1>2. PICK k \in Nat : k = BufSize - Len(buf)
  <2>1. PICK x \in Nat, y \in Nat : x = BufSize /\ y = Len(buf) /\ y < x
    BY ComingTypes, StreamSizes
  <2>2. x - y \in Nat
    BY <2>1
  <2> QED
    BY <2>1, <2>2
<1>3. PICK t : t = Take(k)
  OBVIOUS
<1>4. PICK l : l = Leave(k)
  OBVIOUS
<1>5. /\ wire \in Seq(Bytes) /\ buf \in Seq(Bytes) /\ Len(wire) \in Nat /\ Len(buf) \in Nat
      /\ UnsealPos \in Nat /\ k <= Len(wire) /\ k >= 1 /\ decPos \in Nat
  BY <1>1, <1>2, ComingTypes, StreamSizes
<1>6. /\ t \in Seq(Bytes) /\ l \in Seq(Bytes) /\ Len(t) = k /\ Len(l) = Len(wire) - k
      /\ wire = t \o l /\ wire' = l
  BY <1>1, <1>2, <1>3, <1>4, <1>5, ReadSplits
<1>7. PICK b : b = buf \o t
  OBVIOUS
<1>8. b \in Seq(Bytes) /\ Len(b) = BufSize
  BY <1>2, <1>5, <1>6, <1>7, JoinBytes, StreamSizes
<1>9. CASE unseal' \in UnsealFailed
  BY <1>9, FailedComing
<1>10. CASE unseal' = "reading"
  <2>1. OpenSegment(b, FALSE, "reading")
    BY <1>2, <1>3, <1>7, <1>10 DEF OpenFull
  <2>2. Decrypts(b, FALSE) /\ decPos' = decPos + 1 /\ buf' = <<>>
    BY <1>10, <2>1 DEF OpenSegment
  <2>3. Placed(b, UnsealPos) /\ UnsealPos = 4 + decPos * BufSize
    BY <1>1, <2>2, DecryptsPlaced
  <2>4. PICK p \in Nat : p = UnsealPos
    BY <1>5
  <2>5. UnsealPos' = p + BufSize
    <3>1. (decPos + 1) * BufSize = decPos * BufSize + BufSize /\ decPos * BufSize \in Nat
      BY <1>5, StreamSizes, TimesNext
    <3> QED
      BY <1>10, <2>2, <2>3, <2>4, <3>1, StreamSizes DEF UnsealPos
  <2>6. Placed(buf, p) /\ Placed(t, p + Len(buf))
    BY <1>5, <1>6, <1>7, <2>3, <2>4, PlacedJoin
  <2>7. Placed(wire, p + Len(buf)) <=> Placed(l, p + BufSize)
    <3>1. PICK q \in Nat : q = p + Len(buf)
      BY <1>5
    <3>2. Placed(t \o l, q) <=> Placed(t, q) /\ Placed(l, q + Len(t))
      BY <1>6, PlacedJoin
    <3>3. q + Len(t) = p + BufSize
      BY <1>2, <1>5, <1>6, <3>1, StreamSizes
    <3> QED
      BY <1>6, <2>6, <3>1, <3>2, <3>3
  <2>8. InPlace(n) <=> p + Len(buf) + Len(wire) = n /\ Placed(l, p + BufSize)
    BY <2>4, <2>6, <2>7 DEF InPlace
  <2>9. InPlace(n)' <=> p + BufSize + Len(l) = n /\ Placed(l, p + BufSize)
    <3>1. InPlace(n)' <=> /\ p + BufSize + Len(<<>>) + Len(l) = n
                          /\ Placed(<<>>, p + BufSize)
                          /\ Placed(l, p + BufSize + Len(<<>>))
      BY <1>6, <2>2, <2>5 DEF InPlace, Placed
    <3>2. p + BufSize + Len(<<>>) = p + BufSize
      BY NothingPlaced, StreamSizes
    <3> QED
      BY <3>1, <3>2, NothingPlaced
  <2>10. p + BufSize + Len(l) = p + Len(buf) + Len(wire)
    BY <1>2, <1>5, <1>6, StreamSizes
  <2>11. ~Exhausted
    BY <1>5, EmptySeq DEF Exhausted
  <2>12. Damaged(n) => Damaged(n)'
    <3>1. Damaged(n)' <=> (~InPlace(n)' \/ Exhausted') /\ Within(<<>>, 0, n) /\ Within(l, 0, n)
      BY <1>6, <1>10, <2>2 DEF Damaged, Within
    <3>2. Damaged(n) => Within(l, 0, n)
      BY <1>6, WithinJoin DEF Damaged
    <3> QED
      BY <2>8, <2>9, <2>10, <2>11, <3>1, <3>2, NothingPlaced DEF Damaged
  <2> QED
    BY <1>1, <1>10, <2>8, <2>9, <2>10, <2>12 DEF ComingInv
<1>11. unseal' \in UnsealFailed \cup {"reading"}
  BY DEF OpenFull, OpenSegment, WriteOut, UnsealFailed
<1> QED
  BY <1>9, <1>10, <1>11

\* The last segment, when it decrypts, was written as a whole and is in place:
\* so that nothing was damaged.
LEMMA OpenLastComing ==
  ASSUME IInv, NEW n \in Nat, SentInv(n), ComingInv(n), OpenLast, nfaults' = nfaults
  PROVE  ComingInv(n)'
<1>1. unseal = "reading" /\ wire = <<>> /\ eof /\ wire' = wire /\ eof' = eof
      /\ OpenSegment(buf, TRUE, "closing")
  BY DEF OpenLast, StreamEnds, wireVars
<1>2. CASE unseal' \in UnsealFailed
  BY <1>2, FailedComing
<1>3. CASE unseal' = "closing"
  <2>1. Decrypts(buf, TRUE)
    BY <1>1, <1>3 DEF OpenSegment
  <2>2. /\ Placed(buf, UnsealPos) /\ UnsealPos = 4 + decPos * BufSize
        /\ Len(buf) = CiphertextLen(segs[decPos + 1]) /\ Len(buf) \in Nat \ {0}
    BY <1>1, <2>1, DecryptsPlaced
  <2>3. decPos \in Nat /\ decPos * BufSize \in Nat /\ Len(wire) \in Nat
    BY ComingTypes
  <2>4. Len(segs) = decPos + 1 /\ Len(segs) \in Nat
    BY <2>1, LenProperties DEF Decrypts, IInv, SealerInv, SegmentsChain, WireTypeOK
  <2>5. n <= UnsealPos + Len(buf)
    <3>1. segs # <<>> /\ Len(segs) - 1 = decPos
      BY <2>3, <2>4, EmptySeq
    <3> QED
      BY <2>2, <2>4, <3>1 DEF SentInv
  <2> SUFFICES ASSUME nfaults = 1 PROVE FALSE
    BY <1>1, <1>3 DEF ComingInv
  <2>6. Damaged(n)
    BY <1>1 DEF ComingInv
  <2>7. UnsealPos + Len(buf) <= n
    <3>1. Len(buf) \in 1..Len(buf)
      BY <2>2
    <3> QED
      BY <2>2, <2>6, <3>1 DEF Damaged, Within, Placed
  <2>8. InPlace(n)
    <3>1. UnsealPos + Len(buf) = n
      BY <2>2, <2>3, <2>5, <2>7
    <3>2. UnsealPos + Len(buf) + Len(wire) = n
      BY <1>1, <2>2, <2>3, <3>1, EmptySeq
    <3> QED
      BY <1>1, <2>2, <3>2, NothingPlaced DEF InPlace
  <2>9. ~Exhausted
    BY <2>2, EmptySeq DEF Exhausted
  <2> QED
    BY <2>6, <2>8, <2>9 DEF Damaged
<1>4. unseal' \in UnsealFailed \cup {"closing"}
  BY DEF OpenLast, OpenSegment, WriteOut, UnsealFailed
<1> QED
  BY <1>2, <1>3, <1>4

LEMMA UnsealerComing ==
  ASSUME IInv, NEW n \in Nat, SentInv(n), ComingInv(n),
         UnsealStep \/ UnsealIOError \/ (\E ident, usk \in Idents : StartUnseal(ident, usk)),
         nfaults' = nfaults
  PROVE  ComingInv(n)'
<1>1. CASE RejectHeader \/ UnsealIOError
  <2>1. unseal' \in UnsealFailed
    BY <1>1 DEF RejectHeader, MissingError, ChangedErrors, UnsealIOError, UnsealFailed
  <2> QED
    BY <2>1, FailedComing
<1>2. CASE UnsealClose
  <2>1. unseal = "closing" /\ unseal' = "ok" /\ wire' = wire /\ eof' = eof
    BY <1>2 DEF UnsealClose, wireVars
  <2> QED
    BY <2>1 DEF ComingInv
<1>3. CASE \E ident, usk \in Idents : StartUnseal(ident, usk)
  <2>1. /\ unseal = "opened" /\ wire' = wire /\ eof' = eof /\ buf' = buf /\ decPos' = decPos
        /\ unseal' \in {"reading", "KEM", "UnknownIdentifier"}
    BY <1>3 DEF StartUnseal, wireVars
  <2>2. CASE unseal' = "reading"
    <3>1. UnsealPos' = UnsealPos
      BY <2>1, <2>2 DEF UnsealPos
    <3>2. InPlace(n)' <=> InPlace(n)
      BY <2>1, <3>1 DEF InPlace, Placed
    <3>3. Damaged(n) => Damaged(n)'
      BY <2>1, <2>2, <3>2 DEF Damaged, Within, Exhausted
    <3> QED
      BY <2>1, <2>2, <3>2, <3>3 DEF ComingInv
  <2>3. CASE unseal' \in UnsealFailed
    BY <2>3, FailedComing
  <2> QED
    BY <2>1, <2>2, <2>3 DEF UnsealFailed
<1> QED
  BY <1>1, <1>2, <1>3, HeaderComing, ReceiveComing, OpenFullComing, OpenLastComing
     DEF UnsealStep, Open

-----------------------------------------------------------------------------
(***************************************************************************)
(* One fault in bytes that are in their places: there are fewer or more of *)
(* them, or one is not in its place.                                       *)
(***************************************************************************)
Faulty(w, p, n) ==
  /\ w \in Seq(Bytes)
  /\ Len(w) # Len(wire) \/ ~Placed(w, p)
  /\ Within(w, 0, n)
  /\ Len(w) # Len(wire) => Within(w, 1, n)

LEMMA CutFault ==
  ASSUME wire \in Seq(Bytes), NEW p, NEW n \in Nat, Within(wire, 1, n), Within(wire, 0, n),
         NEW i \in 1..Len(wire), NEW j \in i..Len(wire)
  PROVE  Faulty(Cut(i, j), p, n)
<1> DEFINE a == SubSeq(wire, 1, i - 1)
           d == SubSeq(wire, j + 1, Len(wire))
<1>1. Len(wire) \in Nat
  BY LenProperties
<1>2. PICK h \in Nat : h = i - 1
  <2>1. i - 1 \in Nat
    BY <1>1
  <2> QED
    BY <2>1
<1>3. a \in Seq(Bytes) /\ Len(a) = h /\ Within(a, 0, n) /\ Within(a, 1, n)
  <2>1. h <= Len(wire) /\ 1 <= h + 1 /\ h + 1 - 1 = h
    BY <1>1, <1>2
  <2> QED
    BY <1>1, <1>2, <2>1, PartOfBytes, WithinPart
<1>4. d \in Seq(Bytes) /\ Len(d) = Len(wire) - j /\ Within(d, 0, n) /\ Within(d, 1, n)
  <2>1. j + 1 \in Nat \ {0} /\ j + 1 <= Len(wire) + 1 /\ Len(wire) + 1 - (j + 1) = Len(wire) - j
    BY <1>1
  <2> QED
    BY <1>1, <2>1, PartOfBytes, WithinPart
<1>5. Cut(i, j) = a \o d
  BY DEF Cut
<1> HIDE DEF a, d
<1>6. a \o d \in Seq(Bytes) /\ Len(a \o d) = h + (Len(wire) - j)
  BY <1>3, <1>4, JoinBytes
<1>7. Len(a \o d) # Len(wire)
  BY <1>1, <1>2, <1>6
<1>8. Within(a \o d, 0, n) /\ Within(a \o d, 1, n)
  BY <1>3, <1>4, WithinJoin
<1> QED
  BY <1>5, <1>6, <1>7, <1>8 DEF Faulty

LEMMA CorruptFault ==
  ASSUME wire \in Seq(Bytes), NEW p \in Nat, NEW n \in Nat, Within(wire, 0, n),
         NEW i \in 1..Len(wire)
  PROVE  Faulty([wire EXCEPT ![i] = Junk], p, n)
<1>1. PICK w : w = [wire EXCEPT ![i] = Junk]
  OBVIOUS
<1>2. /\ w \in Seq(Bytes) /\ Len(w) = Len(wire) /\ Len(wire) \in Nat
      /\ \A j \in 1..Len(wire) : w[j] = IF j = i THEN Junk ELSE wire[j]
  <2>1. Junk \in Bytes
    BY DEF Junk, Bytes
  <2> QED
    BY <1>1, <2>1, ExceptSeq, LenProperties
<1>3. ~Placed(w, p)
  <2>1. PosOf(w[i]) = 0
    BY <1>2, PosOfJunk
  <2> QED
    BY <1>2, <2>1 DEF Placed
<1>4. Within(w, 0, n)
  <2> SUFFICES ASSUME NEW j \in 1..Len(w) PROVE 0 <= PosOf(w[j]) /\ PosOf(w[j]) <= n
    BY DEF Within
  <2>1. CASE j = i
    BY <1>2, <2>1, PosOfJunk
  <2>2. CASE j # i
    BY <1>2, <2>2 DEF Within
  <2> QED
    BY <2>1, <2>2
<1> QED
  BY <1>1, <1>2, <1>3, <1>4 DEF Faulty

LEMMA RepeatFault ==
  ASSUME wire \in Seq(Bytes), NEW p, NEW n \in Nat, Within(wire, 1, n), Within(wire, 0, n),
         NEW i \in 1..Len(wire), NEW j \in i..Len(wire)
  PROVE  Faulty(SubSeq(wire, 1, j) \o SubSeq(wire, i, Len(wire)), p, n)
<1> DEFINE a == SubSeq(wire, 1, j)
           d == SubSeq(wire, i, Len(wire))
<1>1. Len(wire) \in Nat
  BY LenProperties
<1>2. a \in Seq(Bytes) /\ Len(a) = j /\ Within(a, 0, n) /\ Within(a, 1, n)
  <2>1. j \in Nat /\ j <= Len(wire) /\ 1 <= j + 1 /\ j + 1 - 1 = j
    BY <1>1
  <2> QED
    BY <1>1, <2>1, PartOfBytes, WithinPart
<1>3. d \in Seq(Bytes) /\ Len(d) = Len(wire) + 1 - i /\ Within(d, 0, n) /\ Within(d, 1, n)
  <2>1. i \in Nat \ {0} /\ i <= Len(wire) + 1
    BY <1>1
  <2> QED
    BY <1>1, <2>1, PartOfBytes, WithinPart
<1> HIDE DEF a, d
<1>4. a \o d \in Seq(Bytes) /\ Len(a \o d) = j + (Len(wire) + 1 - i)
  BY <1>2, <1>3, JoinBytes
<1>5. Len(a \o d) # Len(wire)
  BY <1>1, <1>4
<1>6. Within(a \o d, 0, n) /\ Within(a \o d, 1, n)
  BY <1>2, <1>3, WithinJoin
<1>7. Faulty(a \o d, p, n)
  BY <1>4, <1>5, <1>6 DEF Faulty
<1> QED
  BY <1>7 DEF a, d

LEMMA SwapFault ==
  ASSUME wire \in Seq(Bytes), NEW p \in Nat, NEW n \in Nat, Placed(wire, p),
         Within(wire, 1, n), Within(wire, 0, n),
         NEW i \in 1..Len(wire), NEW j \in i..Len(wire), NEW h \in j..Len(wire), j < h
  PROVE  Faulty(SubSeq(wire, 1, i - 1) \o SubSeq(wire, j + 1, h)
                  \o SubSeq(wire, i, j) \o SubSeq(wire, h + 1, Len(wire)), p, n)
<1> DEFINE a == SubSeq(wire, 1, i - 1)
           b == SubSeq(wire, j + 1, h)
           c == SubSeq(wire, i, j)
           d == SubSeq(wire, h + 1, Len(wire))
<1>1. Len(wire) \in Nat
  BY LenProperties
<1>2. PICK k \in Nat : k = i - 1
  <2>1. i - 1 \in Nat
    BY <1>1
  <2> QED
    BY <2>1
<1>3. a \in Seq(Bytes) /\ Len(a) = k /\ Within(a, 0, n) /\ Within(a, 1, n)
  <2>1. k <= Len(wire) /\ 1 <= k + 1 /\ k + 1 - 1 = k
    BY <1>1, <1>2
  <2> QED
    BY <1>1, <1>2, <2>1, PartOfBytes, WithinPart
<1>4. /\ b \in Seq(Bytes) /\ Len(b) \in Nat \ {0} /\ Within(b, 0, n) /\ Within(b, 1, n)
      /\ b[1] = wire[j + 1]
  <2>1. /\ j + 1 \in Nat \ {0} /\ h \in Nat /\ h <= Len(wire) /\ j + 1 <= h + 1
        /\ h + 1 - (j + 1) \in Nat \ {0} /\ 1 \in 1..h + 1 - (j + 1) /\ j + 1 + 1 - 1 = j + 1
    BY <1>1
  <2>2. /\ b \in Seq(Bytes) /\ Len(b) = h + 1 - (j + 1)
        /\ \A x \in 1..h + 1 - (j + 1) : b[x] = wire[j + 1 + x - 1]
    BY <2>1, PartOfBytes
  <2>3. Within(b, 0, n) /\ Within(b, 1, n)
    BY <2>1, WithinPart
  <2> HIDE DEF b
  <2> QED
    BY <2>1, <2>2, <2>3
<1>5. c \in Seq(Bytes) /\ Within(c, 0, n) /\ Within(c, 1, n)
  <2>1. i \in Nat \ {0} /\ j \in Nat /\ j <= Len(wire) /\ i <= j + 1
    BY <1>1
  <2> QED
    BY <2>1, PartOfBytes, WithinPart
<1>6. d \in Seq(Bytes) /\ Within(d, 0, n) /\ Within(d, 1, n)
  <2>1. h + 1 \in Nat \ {0} /\ h + 1 <= Len(wire) + 1
    BY <1>1
  <2> QED
    BY <1>1, <2>1, PartOfBytes, WithinPart
<1> HIDE DEF a, b, c, d
<1>7. /\ a \o b \in Seq(Bytes) /\ a \o b \o c \in Seq(Bytes) /\ a \o b \o c \o d \in Seq(Bytes)
  BY <1>3, <1>4, <1>5, <1>6, JoinBytes
<1>8. Within(a \o b \o c \o d, 0, n) /\ Within(a \o b \o c \o d, 1, n)
  BY <1>3, <1>4, <1>5, <1>6, <1>7, WithinJoin
<1>9. ~Placed(a \o b \o c \o d, p)
  <2> SUFFICES ASSUME Placed(a \o b \o c \o d, p) PROVE FALSE
    OBVIOUS
  <2>1. Placed(a \o b, p)
    BY <1>3, <1>4, <1>5, <1>6, <1>7, PlacedJoin
  <2>2. Placed(b, p + k)
    BY <1>3, <1>4, <2>1, PlacedJoin
  <2>3. PosOf(b[1]) = p + k + 1
    BY <1>4, <2>2 DEF Placed
  <2>4. PosOf(wire[j + 1]) = p + (j + 1)
    <3>1. j + 1 \in 1..Len(wire)
      BY <1>1
    <3> QED
      BY <3>1 DEF Placed
  <2> QED
    BY <1>1, <1>2, <1>4, <2>3, <2>4
<1>10. Faulty(a \o b \o c \o d, p, n)
  BY <1>7, <1>8, <1>9 DEF Faulty
<1> QED
  BY <1>10 DEF a, b, c, d

LEMMA WireFault ==
  ASSUME wire \in Seq(Bytes), NEW p \in Nat, NEW n \in Nat, Placed(wire, p), p + Len(wire) = n,
         Lose \/ Corrupt \/ LoseSegment \/ Repeat \/ Swap
  PROVE  Faulty(wire', p, n)
<1>1. Len(wire) \in Nat
  BY LenProperties
<1>2. Within(wire, 0, n) /\ Within(wire, 1, n)
  BY <1>1, PlacedIsWithin
<1>3. CASE Lose
  <2>1. PICK i \in 1..Len(wire) : wire' \in {Cut(i, i), Cut(i, Len(wire))}
    BY <1>3 DEF Lose
  <2>2. i \in i..Len(wire) /\ Len(wire) \in i..Len(wire)
    BY <1>1
  <2> QED
    BY <1>2, <2>1, <2>2, CutFault
<1>4. CASE Corrupt
  <2>1. PICK i \in 1..Len(wire) : wire' = [wire EXCEPT ![i] = Junk]
    BY <1>4 DEF Corrupt
  <2> QED
    BY <1>2, <2>1, CorruptFault
<1>5. CASE LoseSegment
  BY <1>2, <1>5, CutFault DEF LoseSegment
<1>6. CASE Repeat
  <2>1. PICK i \in 1..Len(wire) : \E j \in i..Len(wire) :
          wire' = SubSeq(wire, 1, j) \o SubSeq(wire, i, Len(wire))
    BY <1>6 DEF Repeat
  <2> QED
    BY <1>2, <2>1, RepeatFault
<1>7. CASE Swap
  <2>1. PICK i \in 1..Len(wire) : \E j \in i..Len(wire) : \E h \in j..Len(wire) :
          /\ j < h
          /\ wire' = SubSeq(wire, 1, i - 1) \o SubSeq(wire, j + 1, h)
                       \o SubSeq(wire, i, j) \o SubSeq(wire, h + 1, Len(wire))
    BY <1>7 DEF Swap
  <2> QED
    BY <1>2, <2>1, SwapFault
<1> QED
  BY <1>3, <1>4, <1>5, <1>6, <1>7

LEMMA DamageComing ==
  ASSUME IInv, NEW n \in Nat, ComingInv(n), Damage
  PROVE  ComingInv(n)'
<1>1. /\ unseal' = unseal /\ buf' = buf /\ decPos' = decPos /\ eof' = eof
      /\ nfaults' = nfaults + 1 /\ nfaults \in Nat
      /\ Lose \/ Corrupt \/ LoseSegment \/ Repeat \/ Swap
  BY TransferAssumption DEF Damage, unsealerVars, IInv
<1>2. wire \in Seq(Bytes) /\ Len(wire) \in Nat /\ Len(buf) \in Nat /\ UnsealPos \in Nat
      /\ buf \in Seq(Bytes)
  BY ComingTypes
<1>3. wire # <<>>
  <2>1. \E i \in 1..Len(wire) : TRUE
    BY <1>1 DEF Lose, Corrupt, LoseSegment, Repeat, Swap
  <2> QED
    BY <1>2, <2>1, EmptySeq
<1>4. unseal \notin {"closing", "ok"}
  BY <1>3 DEF ComingInv
<1>5. CASE nfaults' # 1
  BY <1>1, <1>4, <1>5 DEF ComingInv
<1>6. CASE nfaults' = 1 /\ unseal \in {"new", "opened", "reading"}
  <2>1. InPlace(n)
    BY <1>1, <1>6 DEF ComingInv
  <2>2. PICK p \in Nat : p = UnsealPos + Len(buf)
    BY <1>2
  <2>3. p + Len(wire) = n /\ Placed(wire, p) /\ Placed(buf, UnsealPos)
    BY <2>1, <2>2 DEF InPlace
  <2>4. Faulty(wire', p, n)
    BY <1>1, <1>2, <2>3, WireFault
  <2>5. Len(wire') \in Nat
    BY <2>4, LenProperties DEF Faulty
  <2>6. ~InPlace(n)'
    <3> SUFFICES ASSUME InPlace(n)' PROVE FALSE
      OBVIOUS
    <3>1. p + Len(wire') = n /\ Placed(wire', p)
      BY <1>1, <2>2 DEF InPlace, Placed, UnsealPos
    <3>2. Len(wire') = Len(wire)
      BY <1>2, <2>3, <2>5, <3>1
    <3> QED
      BY <2>4, <3>1, <3>2 DEF Faulty
  <2>7. Within(buf, 0, n)
    <3>1. UnsealPos + Len(buf) <= n
      BY <1>2, <2>2, <2>3
    <3> QED
      BY <1>2, <2>3, <3>1, PlacedIsWithin
  <2>8. unseal = "new" /\ Len(wire') # n => Within(wire', 1, n)
    <3> SUFFICES ASSUME unseal = "new", Len(wire') # n PROVE Within(wire', 1, n)
      OBVIOUS
    <3>1. UnsealPos = 0 /\ Len(buf) = 0
      BY EmptySeq DEF ComingInv, UnsealPos
    <3>2. n = Len(wire)
      BY <1>2, <2>2, <2>3, <3>1
    <3> QED
      BY <2>4, <3>2 DEF Faulty
  <2>9. Damaged(n)'
    BY <1>1, <2>4, <2>6, <2>7, <2>8 DEF Damaged, Within, Faulty
  <2> QED
    BY <1>1, <1>4, <1>6, <2>9 DEF ComingInv
<1>7. CASE unseal \notin {"new", "opened", "reading"}
  BY <1>1, <1>4, <1>7 DEF ComingInv
<1> QED
  BY <1>5, <1>6, <1>7

-----------------------------------------------------------------------------
\* Steps that leave the sealer's side alone.
LEMMA SentStays ==
  ASSUME NEW n, SentInv(n), seal' = seal, segs' = segs, eof' = eof
  PROVE  SentInv(n)'
BY DEF SentInv, SealRunning

LEMMA UnsealerLeaves ==
  ASSUME ReceiverStarts \/ UnsealerStep \/ UnsealerError
  PROVE  seal' = seal /\ segs' = segs /\ eof' = eof /\ nfaults' = nfaults
<1>1. seal' = seal /\ nfaults' = nfaults
  BY DEF ReceiverStarts, UnsealerStep, UnsealerError, sealerVars
<1>2. segs' = segs /\ eof' = eof
  <2>1. CASE ReceiverStarts
    BY <2>1 DEF ReceiverStarts, StartUnseal, wireVars
  <2>2. CASE UnsealerStep
    BY <2>2 DEF UnsealerStep, UnsealStep, Open, OpenHeader, RejectHeader, Receive, OpenFull,
                OpenLast, UnsealClose, wireVars
  <2>3. CASE UnsealerError
    BY <2>3 DEF UnsealerError, UnsealIOError, wireVars
  <2> QED
    BY <2>1, <2>2, <2>3
<1> QED
  BY <1>1, <1>2

LEMMA DamageInit == Init => DamageInv
<1> SUFFICES ASSUME Init PROVE DamageInv
  OBVIOUS
<1>1. /\ wire = <<>> /\ eof = FALSE /\ segs = <<>> /\ seal = "ready"
      /\ unseal = "new" /\ buf = <<>> /\ nfaults = 0
  BY DEF Init, WireInit, SealerInit, UnsealerInit
<1>2. PICK n \in Nat : n = 0
  OBVIOUS
<1>3. SentInv(n)
  BY <1>1, <1>2 DEF SentInv
<1>4. UnsealPos + Len(buf) + Len(wire) = n
  BY <1>1, <1>2, NothingPlaced DEF UnsealPos
<1>5. InPlace(n)
  BY <1>1, <1>4, NothingPlaced DEF InPlace
<1>6. ComingInv(n)
  BY <1>1, <1>5 DEF ComingInv
<1> QED
  BY <1>3, <1>6 DEF DamageInv

LEMMA DamageNext == IInv /\ CutInv /\ DamageInv /\ [Next]_vars => DamageInv'
<1> SUFFICES ASSUME IInv, CutInv, DamageInv, [Next]_vars PROVE DamageInv'
  OBVIOUS
<1>1. PICK n \in Nat : SentInv(n) /\ ComingInv(n)
  BY DEF DamageInv
<1>2. CASE SealerStep \/ SealerError
  <2>1. (SealStep \/ SealIOError) /\ UNCHANGED <<unsealerVars, nfaults>>
    BY <1>2 DEF SealerStep, SealerError
  <2>2. SealerInv
    BY DEF IInv
  <2>3. PICK x : Sends(n, x)
    BY <1>1, <2>1, <2>2, SealerSends
  <2>4. ComingInv(n + Len(x))'
    BY <1>1, <2>1, <2>3, ComingTypes, ComingAppends DEF Sends
  <2>5. PICK m \in Nat : m = n + Len(x)
    <3>1. Len(x) \in Nat
      BY <2>3, LenProperties DEF Sends
    <3> QED
      BY <3>1
  <2>6. SentInv(m)' /\ ComingInv(m)'
    BY <2>3, <2>4, <2>5 DEF Sends
  <2> QED
    BY <2>6 DEF DamageInv
<1>3. CASE ReceiverStarts \/ UnsealerStep \/ UnsealerError
  <2>1. SentInv(n)'
    BY <1>1, <1>3, UnsealerLeaves, SentStays
  <2>2. /\ nfaults' = nfaults
        /\ UnsealStep \/ UnsealIOError \/ (\E ident, usk \in Idents : StartUnseal(ident, usk))
    BY <1>3, UnsealerLeaves DEF ReceiverStarts, UnsealerStep, UnsealerError
  <2>3. ComingInv(n)'
    BY <1>1, <2>2, UnsealerComing
  <2> QED
    BY <2>1, <2>3 DEF DamageInv
<1>4. CASE Damage
  <2>1. seal' = seal /\ segs' = segs /\ eof' = eof
    BY <1>4 DEF Damage, sealerVars
  <2>2. SentInv(n)'
    BY <1>1, <2>1, SentStays
  <2>3. ComingInv(n)'
    BY <1>1, <1>4, DamageComing
  <2> QED
    BY <2>2, <2>3 DEF DamageInv
<1>5. CASE Done \/ UNCHANGED vars
  <2>1. UNCHANGED <<wireVars, sealerVars, unsealerVars, nfaults>>
    BY <1>5 DEF Done, vars
  <2>2. seal' = seal /\ segs' = segs /\ eof' = eof /\ wire' = wire
        /\ unseal' = unseal /\ buf' = buf /\ decPos' = decPos /\ nfaults' = nfaults
    BY <2>1 DEF wireVars, sealerVars, unsealerVars
  <2>3. SentInv(n)'
    BY <1>1, <2>2, SentStays
  <2>4. ComingInv(n)'
    BY <1>1, <2>2 DEF ComingInv, InPlace, Damaged, Exhausted, Placed, Within, UnsealPos
  <2> QED
    BY <2>3, <2>4 DEF DamageInv
<1> QED
  BY <1>2, <1>3, <1>4, <1>5 DEF Next

LEMMA DamageInvariance == Spec => []DamageInv
<1>1. Init => DamageInv
  BY DamageInit
<1>2. IInv /\ CutInv /\ DamageInv /\ [Next]_vars => DamageInv'
  BY DamageNext
<1> QED
  BY <1>1, <1>2, Invariance, CutInvariance, PTL DEF Spec

(***************************************************************************)
(* One fault in the stream, a byte or all from some place on lost, a byte  *)
(* overwritten, a segment lost, repeated or swapped with the next, and     *)
(* unseal does not return Ok, for messages and segments of any size.       *)
(***************************************************************************)
THEOREM DamageNoticed == Spec => []DamageIsNoticed
<1>1. DamageInv => DamageIsNoticed
  BY DEF DamageInv, ComingInv, DamageIsNoticed
<1> QED
  BY <1>1, DamageInvariance, PTL
=============================================================================
