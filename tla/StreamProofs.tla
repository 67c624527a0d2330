---------------------------- MODULE StreamProofs ----------------------------
(***************************************************************************)
(* Proofs that, for messages, segments, policies and faults of any number  *)
(* and size, the output of the unsealer is a prefix of the message at all  *)
(* times, and all of it when unseal returns Ok; and that the two ends      *)
(* implement the delivery of a message.                                    *)
(*                                                                         *)
(* Each end is reasoned about alone, relying only on what the other keeps: *)
(* the lemmas serve the ends for the web, too (WebProofs).                 *)
(***************************************************************************)
EXTENDS StreamTransfer, SequenceTheorems, TLAPS

-----------------------------------------------------------------------------
(***************************************************************************)
(* The inductive invariant.  What the sealer sealed and what the unsealer  *)
(* wrote are compared through the transcripts that the signatures cover:   *)
(* that of segment k is the message up to the end of the segment.          *)
(***************************************************************************)
Transcript(k) == IF k = 0 THEN <<>> ELSE segs[k].sig.tr

\* Every signature continues the one before, and the last covers the message.
SegmentsChain ==
  \A k \in 1..Len(segs) :
    /\ segs[k].pol = IF k = 1 THEN SigningPolicy ELSE NoPolicy
    /\ segs[k].sig = Signature(Transcript(k - 1) \o segs[k].m, k - 1, segs[k].last, SigningPolicy)
    /\ IsPrefixOfMessage(segs[k].sig.tr)
    /\ segs[k].last => k = Len(segs)

LastIsWhole == \A k \in 1..Len(segs) : segs[k].last => segs[k].sig.tr = Prefix(len)

InputsOK == len \in Lens /\ pubPol \in Policies /\ privPol \in Policies \cup {NoPolicy}

\* The next segment can be signed: the signer has absorbed those before.
Sealing ==
  /\ counter = Len(segs)
  /\ signed = Transcript(Len(segs))
  /\ \A k \in 1..Len(segs) : ~segs[k].last

\* The sealer has sealed, or holds in its buffer, all it read.
SealerHolds ==
  /\ seal = "ready" => /\ segs = <<>> /\ pend = <<>> /\ signed = <<>>
                       /\ rd = 0 /\ counter = 0 /\ encPos = 0
  /\ seal = "reading" =>
       /\ Sealing
       /\ encPos = Len(segs)
       /\ rd <= len
       /\ signed \o pend = Prefix(rd)

SealerInv == WireTypeOK /\ SealerTypeOK /\ SegmentsChain /\ LastIsWhole /\ SealerHolds

\* The unsealer has written, and its verifier absorbed, the first segments.
UnsealerHolds ==
  /\ unseal \in {"new", "opened"} =>
       ucounter = 0 /\ decPos = 0 /\ verified = <<>> /\ out = <<>> /\ polId = NoPolicy
  /\ unseal = "reading" =>
       /\ ucounter = decPos /\ decPos <= Len(segs)
       /\ verified = Transcript(decPos) /\ out = verified
       /\ decPos > 0 => polId = SigningPolicy
  /\ unseal \in {"closing", "ok"} =>
       polId = SigningPolicy /\ \E k \in 1..Len(segs) : segs[k].last /\ out = segs[k].sig.tr
  /\ unseal \in {"opened", "reading", "closing", "ok"} => pubId = pubPol
  /\ unseal = "ok" => private = IF polId = pubId THEN NoPolicy ELSE polId
  /\ IsPrefixOfMessage(out)
  /\ Len(buf) < BufSize

UnsealerInv == UnsealerTypeOK /\ UnsealerHolds

IInv == SealerInv /\ UnsealerInv /\ nfaults \in 0..MaxFaults

\* What either end relies on: that the other one keeps what was sealed before.
SegmentsKept ==
  Len(segs) <= Len(segs') /\ \A k \in 1..Len(segs) : segs'[k] = segs[k]

-----------------------------------------------------------------------------
(***************************************************************************)
(* Messages and their prefixes.                                            *)
(***************************************************************************)
LEMMA Concat ==
  ASSUME NEW s \in Seq(Nat), NEW t \in Seq(Nat)
  PROVE  /\ s \o t \in Seq(Nat)
         /\ Len(s) \in Nat /\ Len(t) \in Nat
         /\ Len(s \o t) = Len(s) + Len(t)
         /\ \A i \in 1..Len(s) + Len(t) :
              (s \o t)[i] = IF i <= Len(s) THEN s[i] ELSE t[i - Len(s)]
BY ConcatProperties, LenProperties

LEMMA ConcatRegroups ==
  \A s, t, u \in Seq(Nat) : (s \o t) \o u = s \o (t \o u)
<1> SUFFICES ASSUME NEW s \in Seq(Nat), NEW t \in Seq(Nat), NEW u \in Seq(Nat)
             PROVE  (s \o t) \o u = s \o (t \o u)
  BY Zenon
<1> QED
  BY ConcatAssociative

LEMMA SliceType ==
  ASSUME NEW from \in Nat, NEW n \in Nat
  PROVE  /\ Slice(from, n) \in Seq(Nat)
         /\ Len(Slice(from, n)) = n
         /\ \A i \in 1..n : Slice(from, n)[i] = from + i
<1>1. Slice(from, n) \in [1..n -> Nat]
  BY DEF Slice
<1>2. Slice(from, n) \in Seq(Nat)
  BY <1>1, SeqDef
<1> QED
  BY <1>1, <1>2, LenProperties DEF Slice

LEMMA PrefixType ==
  ASSUME NEW n \in Nat
  PROVE  /\ Prefix(n) \in Seq(Nat)
         /\ Len(Prefix(n)) = n
         /\ \A i \in 1..n : Prefix(n)[i] = i
<1>1. Prefix(n) \in [1..n -> Nat]
  BY DEF Prefix
<1>2. Prefix(n) \in Seq(Nat)
  BY <1>1, SeqDef
<1> QED
  BY <1>1, <1>2, LenProperties DEF Prefix

\* A message read in pieces is the message.
LEMMA PrefixGrows ==
  ASSUME NEW from \in Nat, NEW n \in Nat
  PROVE  Prefix(from) \o Slice(from, n) = Prefix(from + n)
<1> DEFINE p == Prefix(from)
           q == Slice(from, n)
           r == Prefix(from + n)
<1>1. p \in Seq(Nat) /\ Len(p) = from /\ \A i \in 1..from : p[i] = i
  BY PrefixType
<1>2. q \in Seq(Nat) /\ Len(q) = n /\ \A i \in 1..n : q[i] = from + i
  BY SliceType
<1>3. r \in Seq(Nat) /\ Len(r) = from + n /\ \A i \in 1..from + n : r[i] = i
  BY PrefixType, from + n \in Nat
<1> HIDE DEF p, q, r
<1>4. /\ p \o q \in Seq(Nat)
      /\ Len(p \o q) = from + n
      /\ \A i \in 1..from + n : (p \o q)[i] = IF i <= from THEN p[i] ELSE q[i - from]
  BY <1>1, <1>2, Concat
<1>5. \A i \in 1..from + n : (p \o q)[i] = r[i]
  BY <1>1, <1>2, <1>3, <1>4
<1>6. p \o q = r
  BY <1>3, <1>4, <1>5, SeqEqual
<1> QED
  BY <1>6 DEF p, q, r

LEMMA PrefixGoesOn ==
  ASSUME NEW s \in Seq(Nat), NEW t \in Seq(Nat), NEW from \in Nat, NEW n \in Nat,
         s \o t = Prefix(from)
  PROVE  s \o (t \o Slice(from, n)) = Prefix(from + n)
<1>1. Slice(from, n) \in Seq(Nat)
  BY SliceType
<1>2. (s \o t) \o Slice(from, n) = s \o (t \o Slice(from, n))
  BY <1>1, ConcatRegroups, Zenon
<1> QED
  BY <1>2, PrefixGrows

\* What a failed write leaves of a segment is a prefix of the message still.
LEMMA PartOfPrefix ==
  ASSUME NEW s \in Seq(Nat), NEW t \in Seq(Nat), NEW n \in Nat, s \o t = Prefix(n),
         NEW j \in 0..Len(t)
  PROVE  /\ Len(s) + j \in 0..n
         /\ s \o SubSeq(t, 1, j) = Prefix(Len(s) + j)
<1> DEFINE u == SubSeq(t, 1, j)
           p == Prefix(Len(s) + j)
<1>1. Len(s) \in Nat /\ Len(t) \in Nat /\ n = Len(s) + Len(t) /\ Len(s) + j \in Nat
  <2>1. Len(s) \in Nat /\ Len(t) \in Nat
    BY Concat
  <2> DEFINE w == s \o t
  <2>2. Len(w) = Len(s) + Len(t)
    BY Concat
  <2>3. Len(w) = n
    BY PrefixType, w = Prefix(n)
  <2> HIDE DEF w
  <2>4. n = Len(s) + Len(t)
    BY <2>2, <2>3
  <2>5. j \in Nat
    BY <2>1
  <2>6. Len(s) + j \in Nat
    BY <2>1, <2>5
  <2> QED
    BY <2>1, <2>4, <2>6
<1>2. \A i \in 1..j : t[i] \in Nat
  BY <1>1, ElementOfSeq
<1>3. u \in Seq(Nat) /\ Len(u) = j /\ \A i \in 1..j : u[i] = t[i]
  <2>1. /\ u \in Seq(Nat)
        /\ Len(u) = IF 1 <= j THEN j - 1 + 1 ELSE 0
        /\ \A i \in 1..j - 1 + 1 : u[i] = t[1 + i - 1]
    BY <1>1, <1>2, SubSeqProperties
  <2> QED
    BY <2>1, <1>1
<1>4. p \in Seq(Nat) /\ Len(p) = Len(s) + j /\ \A i \in 1..Len(s) + j : p[i] = i
  BY <1>1, PrefixType
<1> HIDE DEF u, p
<1>5. /\ s \o u \in Seq(Nat)
      /\ Len(s \o u) = Len(s) + j
      /\ \A i \in 1..Len(s) + j : (s \o u)[i] = IF i <= Len(s) THEN s[i] ELSE u[i - Len(s)]
  BY <1>1, <1>3, Concat
<1>6. \A i \in 1..n : (s \o t)[i] = i
  BY PrefixType
<1>7. \A i \in 1..n : (s \o t)[i] = IF i <= Len(s) THEN s[i] ELSE t[i - Len(s)]
  BY <1>1, Concat
<1>8. \A i \in 1..Len(s) + j : (s \o u)[i] = p[i]
  <2> SUFFICES ASSUME NEW i \in 1..Len(s) + j PROVE (s \o u)[i] = p[i]
    OBVIOUS
  <2>1. i \in 1..n
    BY <1>1
  <2>2. (s \o u)[i] = IF i <= Len(s) THEN s[i] ELSE t[i - Len(s)]
    BY <1>1, <1>3, <1>5
  <2> QED
    BY <1>4, <1>6, <1>7, <2>1, <2>2
<1>9. s \o u = p
  BY <1>4, <1>5, <1>8, SeqEqual
<1> QED
  BY <1>1, <1>9 DEF u, p

-----------------------------------------------------------------------------
(***************************************************************************)
(* The types of what goes over the wire.                                   *)
(***************************************************************************)
LEMMA ConcatBytes ==
  ASSUME NEW s \in Seq(Bytes), NEW t \in Seq(Bytes)
  PROVE  s \o t \in Seq(Bytes)
BY ConcatProperties

LEMMA SubBytes ==
  ASSUME NEW s \in Seq(Bytes), NEW from \in Nat \ {0}, NEW to \in Int, to <= Len(s)
  PROVE  SubSeq(s, from, to) \in Seq(Bytes)
<1>1. Len(s) \in Nat
  BY LenProperties
<1>2. \A i \in from..to : s[i] \in Bytes
  <2> SUFFICES ASSUME NEW i \in from..to PROVE s[i] \in Bytes
    OBVIOUS
  <2>1. i \in 1..Len(s)
    BY <1>1
  <2> QED
    BY <2>1, ElementOfSeq
<1>3. from \in Int
  OBVIOUS
<1> QED
  BY <1>2, <1>3, SubSeqProperties

LEMMA CiphertextSize ==
  ASSUME NEW seg \in SegmentType
  PROVE  CiphertextLen(seg) \in Nat
<1>1. Len(seg.m) \in Nat
  BY LenProperties DEF SegmentType
<1>2. seg.pol # NoPolicy => PolicyHeader(seg.pol) \in Nat
  BY StreamAssumption DEF SegmentType, PolicyHeader
<1> QED
  BY <1>1, <1>2, StreamAssumption DEF CiphertextLen

LEMMA CiphertextType ==
  ASSUME NEW k \in Nat, NEW seg \in SegmentType
  PROVE  Ciphertext(k, seg) \in Seq(Bytes)
<1> DEFINE n == CiphertextLen(seg)
<1>1. n \in Nat
  BY CiphertextSize
<1> HIDE DEF n
<1>2. [i \in 1..n |-> <<k, i>>] \in [1..n -> Bytes]
  BY <1>1 DEF Bytes
<1>3. [i \in 1..n |-> <<k, i>>] \in Seq(Bytes)
  BY <1>1, <1>2, SeqDef
<1> QED
  BY <1>3 DEF Ciphertext, n

LEMMA HeaderType == HeaderBytes \in Seq(Bytes)
<1>1. HeaderBytes \in [1..4 -> Bytes]
  BY DEF HeaderBytes, Bytes
<1> QED
  BY <1>1, SeqDef

LEMMA WriteType ==
  ASSUME wire \in Seq(Bytes), eof \in BOOLEAN,
         NEW bytes \in Seq(Bytes), NEW next, Write(bytes, next)
  PROVE  /\ wire' \in Seq(Bytes)
         /\ eof' \in BOOLEAN
         /\ seal' \in {next, "WriteError"}
<1>1. CASE wire' = wire \o bytes /\ seal' = next /\ eof' = (next \in SealFailed)
  <2>1. wire' \in Seq(Bytes)
    BY <1>1, ConcatBytes
  <2> QED
    BY <1>1, <2>1
<1>2. CASE /\ \E n \in 0..Len(bytes) - 1 : wire' = wire \o SubSeq(bytes, 1, n)
           /\ Fail("WriteError")
  <2>1. PICK n \in 0..Len(bytes) - 1 : wire' = wire \o SubSeq(bytes, 1, n)
    BY <1>2
  <2>2. Len(bytes) \in Nat
    BY LenProperties
  <2>3. n \in Int /\ n <= Len(bytes)
    BY <2>2
  <2>4. SubSeq(bytes, 1, n) \in Seq(Bytes)
    BY <2>3, SubBytes
  <2>5. wire' \in Seq(Bytes)
    BY <2>1, <2>4, ConcatBytes
  <2> QED
    BY <1>2, <2>5 DEF Fail
<1> QED
  BY <1>1, <1>2 DEF Write

-----------------------------------------------------------------------------
(***************************************************************************)
(* The sealer's steps.                                                     *)
(***************************************************************************)
LEMMA SigningPolicyType ==
  ASSUME InputsOK PROVE SigningPolicy \in Policies
BY DEF InputsOK, SigningPolicy

LEMMA InputsType ==
  ASSUME SealerTypeOK
  PROVE  InputsOK /\ len \in Nat /\ CounterMax \in Nat
BY StreamAssumption, SealerAssumption DEF SealerTypeOK, InputsOK

LEMMA KeptTranscripts ==
  ASSUME segs \in Seq(SegmentType), segs' \in Seq(SegmentType), SegmentsKept
  PROVE  /\ Len(segs) \in Nat /\ Len(segs') \in Nat
         /\ \A k \in 0..Len(segs) : Transcript(k)' = Transcript(k)
<1>1. Len(segs) \in Nat /\ Len(segs') \in Nat
  BY LenProperties
<1> QED
  BY <1>1 DEF SegmentsKept, Transcript

\* Appending a segment leaves the chain, and the transcripts so far.
LEMMA SegmentAdded ==
  ASSUME WireTypeOK, InputsOK, SegmentsChain, Sealing, UNCHANGED inputVars,
         signed \in Seq(Nat),
         NEW m \in Seq(Nat), NEW last \in BOOLEAN, NEW n \in 0..len,
         signed \o m = Prefix(n),
         segs' = Append(segs, NewSegment(m, last))
  PROVE  /\ NewSegment(m, last) \in SegmentType
         /\ segs' \in Seq(SegmentType)
         /\ Len(segs') = Len(segs) + 1
         /\ SegmentsKept
         /\ SegmentsChain'
         /\ (last => n = len) => LastIsWhole'
         /\ signed \o m = Transcript(Len(segs))'
         /\ ~last => \A k \in 1..Len(segs') : ~segs'[k].last
<1> DEFINE seg == NewSegment(m, last)
           l == Len(segs)
<1>1. /\ segs \in Seq(SegmentType) /\ counter = l /\ signed = Transcript(l)
      /\ \A k \in 1..l : ~segs[k].last
  BY DEF WireTypeOK, Sealing
<1>2. l \in Nat
  BY <1>1, LenProperties
<1> DEFINE tr == signed \o m
<1>3. tr \in Seq(Nat)
  BY <1>1, Concat
<1> HIDE DEF tr
<1>4. /\ seg \in SegmentType
      /\ seg.pol = (IF l = 0 THEN SigningPolicy ELSE NoPolicy)
      /\ seg.m = m /\ seg.last = last /\ seg.sig.tr = tr
      /\ seg.sig = [tr |-> tr, ctr |-> l, last |-> last, by |-> SigningPolicy]
  <2>1. seg = [pol |-> IF l = 0 THEN SigningPolicy ELSE NoPolicy, m |-> m, last |-> last,
               sig |-> [tr |-> tr, ctr |-> l, last |-> last, by |-> SigningPolicy]]
    BY <1>1 DEF NewSegment, SegmentOf, Signature, tr
  <2> HIDE DEF seg
  <2> QED
    BY <1>2, <1>3, <2>1, SigningPolicyType DEF SegmentType
<1> HIDE DEF seg
<1>5. /\ segs' \in Seq(SegmentType) /\ Len(segs') = l + 1
      /\ \A k \in 1..l : segs'[k] = segs[k]
      /\ segs'[l + 1] = seg
  BY <1>1, <1>4, AppendProperties DEF seg
<1>6. SegmentsKept
  BY <1>2, <1>5 DEF SegmentsKept
<1>7. \A k \in 0..l : Transcript(k)' = Transcript(k)
  BY <1>1, <1>5, <1>6, KeptTranscripts
<1>8. SigningPolicy' = SigningPolicy /\ len' = len
  BY DEF inputVars, SigningPolicy
<1>9. SegmentsChain'
  <2> SUFFICES ASSUME NEW k \in 1..l + 1
               PROVE  /\ segs'[k].pol = IF k = 1 THEN SigningPolicy ELSE NoPolicy
                      /\ segs'[k].sig = Signature(Transcript(k - 1)' \o segs'[k].m, k - 1,
                                                  segs'[k].last, SigningPolicy)
                      /\ \E i \in 0..len : segs'[k].sig.tr = Prefix(i)
                      /\ segs'[k].last => k = l + 1
    BY <1>5, <1>8 DEF SegmentsChain, IsPrefixOfMessage
  <2>1. CASE k \in 1..l
    <3>1. segs'[k] = segs[k] /\ ~segs[k].last
      BY <1>1, <1>5, <2>1
    <3>2. Transcript(k - 1)' = Transcript(k - 1)
      BY <1>2, <1>7, <2>1
    <3>3. /\ segs[k].pol = IF k = 1 THEN SigningPolicy ELSE NoPolicy
          /\ segs[k].sig = Signature(Transcript(k - 1) \o segs[k].m, k - 1,
                                     segs[k].last, SigningPolicy)
          /\ \E i \in 0..len : segs[k].sig.tr = Prefix(i)
      BY <2>1, Zenon DEF SegmentsChain, IsPrefixOfMessage
    <3> QED
      BY <3>1, <3>2, <3>3, Zenon
  <2>2. CASE k = l + 1
    <3>1. segs'[k] = seg /\ k - 1 = l /\ (k = 1 <=> l = 0)
      BY <1>2, <1>5, <2>2
    <3>2. Transcript(k - 1)' = signed
      BY <1>1, <1>2, <1>7, <3>1
    <3>3. /\ seg.pol = IF k = 1 THEN SigningPolicy ELSE NoPolicy
          /\ seg.sig = Signature(signed \o seg.m, k - 1, seg.last, SigningPolicy)
          /\ seg.sig.tr = Prefix(n)
      BY <1>4, <3>1 DEF Signature, tr
    <3> QED
      BY <2>2, <3>1, <3>2, <3>3
  <2> QED
    BY <1>2, <2>1, <2>2
<1>10. (last => n = len) => LastIsWhole'
  <2> SUFFICES ASSUME last => n = len, NEW k \in 1..l + 1, segs'[k].last
               PROVE  segs'[k].sig.tr = Prefix(len)
    BY <1>5, <1>8 DEF LastIsWhole
  <2>1. k = l + 1
    BY <1>1, <1>2, <1>5
  <2> QED
    BY <1>4, <1>5, <2>1 DEF tr
<1>11. tr = Transcript(Len(segs))'
  BY <1>2, <1>4, <1>5 DEF Transcript
<1>12. ~last => \A k \in 1..Len(segs') : ~segs'[k].last
  <2> SUFFICES ASSUME ~last, NEW k \in 1..l + 1 PROVE ~segs'[k].last
    BY <1>5
  <2>1. CASE k = l + 1
    BY <1>4, <1>5, <2>1
  <2>2. CASE k \in 1..l
    BY <1>1, <1>5, <2>2
  <2> QED
    BY <1>2, <2>1, <2>2
<1> QED
  BY <1>4, <1>5, <1>6, <1>9, <1>10, <1>11, <1>12 DEF seg, tr

\* A step that seals no segment.
LEMMA NoSegment ==
  ASSUME segs \in Seq(SegmentType), UNCHANGED <<inputVars, segs>>
  PROVE  /\ SegmentsKept
         /\ SegmentsChain => SegmentsChain'
         /\ LastIsWhole => LastIsWhole'
         /\ \A k : Transcript(k)' = Transcript(k)
         /\ InputsOK => InputsOK'
<1>1. \A k : Transcript(k)' = Transcript(k)
  BY DEF Transcript
<1>2. SegmentsChain => SegmentsChain'
  BY <1>1 DEF SegmentsChain, inputVars, SigningPolicy, IsPrefixOfMessage
<1>3. LastIsWhole => LastIsWhole'
  BY DEF LastIsWhole, inputVars
<1>4. Len(segs) \in Nat
  BY LenProperties
<1> QED
  BY <1>1, <1>2, <1>3, <1>4 DEF InputsOK, inputVars, SegmentsKept

\* The unsealer's part of the invariant only speaks of segments that stay.
LEMMA UnsealerStays ==
  ASSUME UnsealerInv, UNCHANGED <<unsealerVars, inputVars>>,
         segs \in Seq(SegmentType), segs' \in Seq(SegmentType), SegmentsKept
  PROVE  UnsealerInv'
<1>1. SigningPolicy' = SigningPolicy /\ len' = len /\ pubPol' = pubPol
  BY DEF inputVars, SigningPolicy
<1>2. IsPrefixOfMessage(out)'
  BY <1>1 DEF UnsealerInv, UnsealerHolds, IsPrefixOfMessage, unsealerVars
<1>3. unseal = "reading" =>
        /\ ucounter = decPos /\ decPos <= Len(segs)
        /\ verified = Transcript(decPos) /\ out = verified
        /\ decPos > 0 => polId = SigningPolicy
  BY DEF UnsealerInv, UnsealerHolds
<1>4. decPos \in Nat
  BY StreamAssumption DEF UnsealerInv, UnsealerTypeOK
<1>5. /\ Len(segs) \in Nat /\ Len(segs') \in Nat
      /\ \A k \in 0..Len(segs) : Transcript(k)' = Transcript(k)
  BY KeptTranscripts
<1>6. unseal' = "reading" =>
        /\ ucounter' = decPos' /\ decPos' <= Len(segs')
        /\ verified' = Transcript(decPos)' /\ out' = verified'
        /\ decPos' > 0 => polId' = SigningPolicy'
  <2> SUFFICES ASSUME unseal = "reading"
               PROVE  /\ ucounter = decPos /\ decPos <= Len(segs')
                      /\ verified = Transcript(decPos)' /\ out = verified
                      /\ decPos > 0 => polId = SigningPolicy
    BY <1>1 DEF unsealerVars
  <2>1. decPos' = decPos /\ decPos \in 0..Len(segs)
    BY <1>3, <1>4, <1>5 DEF unsealerVars
  <2>2. Transcript(decPos)' = Transcript(decPos)
    BY <1>5, <2>1 DEF Transcript
  <2> QED
    BY <1>3, <1>4, <1>5, <2>1, <2>2 DEF SegmentsKept
<1>7. unseal' \in {"closing", "ok"} =>
        /\ polId' = SigningPolicy'
        /\ \E k \in 1..Len(segs') : segs'[k].last /\ out' = segs'[k].sig.tr
  <2> SUFFICES ASSUME unseal \in {"closing", "ok"}
               PROVE  /\ polId = SigningPolicy
                      /\ \E k \in 1..Len(segs') : segs'[k].last /\ out = segs'[k].sig.tr
    BY <1>1 DEF unsealerVars
  <2>1. polId = SigningPolicy
    BY DEF UnsealerInv, UnsealerHolds
  <2>2. PICK k \in 1..Len(segs) : segs[k].last /\ out = segs[k].sig.tr
    BY DEF UnsealerInv, UnsealerHolds
  <2>3. segs'[k] = segs[k] /\ k \in 1..Len(segs')
    BY <1>5, <2>2 DEF SegmentsKept
  <2> QED
    BY <2>1, <2>2, <2>3
<1>8. UnsealerHolds'
  BY <1>1, <1>2, <1>6, <1>7 DEF UnsealerInv, UnsealerHolds, unsealerVars
<1> QED
  BY <1>8 DEF UnsealerInv, UnsealerTypeOK, unsealerVars

\* What was read, and not only what was sealed, is a prefix of the message.
LEMMA ReadOn ==
  ASSUME SealerInv, seal = "reading", NEW n \in ReadSizes
  PROVE  /\ n \in Nat /\ rd + n \in Nat /\ rd + n <= len /\ len \in Nat
         /\ PendAfter(n) \in Seq(Nat)
         /\ signed \o PendAfter(n) = Prefix(rd + n)
<1>1. /\ rd \in Nat /\ start \in Nat /\ pend \in Seq(Nat) /\ signed \in Seq(Nat) /\ len \in Nat
      /\ signed \o pend = Prefix(rd)
  BY SealerAssumption DEF SealerInv, SealerTypeOK, SealerHolds
<1>2. Room \in Int
  BY <1>1, LenProperties, StreamAssumption DEF Room
<1>3. n \in Nat /\ rd + n \in Nat /\ rd + n <= len
  <2>1. n \in 0..Room /\ n <= len - rd
    BY DEF ReadSizes
  <2> HIDE DEF Room
  <2>2. n \in Nat
    BY <1>2, <2>1
  <2> QED
    BY <1>1, <2>1, <2>2
<1>4. Slice(rd, n) \in Seq(Nat) /\ pend \o Slice(rd, n) \in Seq(Nat)
  BY <1>1, <1>3, SliceType, Concat
<1>5. signed \o (pend \o Slice(rd, n)) = Prefix(rd + n)
  BY <1>1, <1>3, PrefixGoesOn
<1> QED
  BY <1>1, <1>3, <1>4, <1>5 DEF PendAfter

\* A segment made of m is sealed, and written or not: the invariant holds of
\* all but what the sealer goes on with.
LEMMA SealSegment ==
  ASSUME WireTypeOK, InputsOK, SegmentsChain, Sealing, UNCHANGED inputVars,
         signed \in Seq(Nat),
         NEW m \in Seq(Nat), NEW last \in BOOLEAN, NEW n \in 0..len, NEW next,
         signed \o m = Prefix(n),
         segs' = Append(segs, NewSegment(m, last)),
         signed' = signed \o m,
         Write(Ciphertext(Len(segs) + 1, NewSegment(m, last)), next)
  PROVE  /\ WireTypeOK' /\ InputsOK' /\ SegmentsKept
         /\ signed' \in Seq(Nat)
         /\ seal' \in {next, "WriteError"}
         /\ SegmentsChain'
         /\ (last => n = len) => LastIsWhole'
         /\ Len(segs') = Len(segs) + 1
         /\ ~last /\ counter' = counter + 1 => Sealing'
<1> DEFINE seg == NewSegment(m, last)
<1>1. /\ seg \in SegmentType /\ segs' \in Seq(SegmentType)
      /\ Len(segs') = Len(segs) + 1
      /\ SegmentsKept /\ SegmentsChain'
      /\ (last => n = len) => LastIsWhole'
      /\ signed \o m = Transcript(Len(segs))'
      /\ ~last => \A k \in 1..Len(segs') : ~segs'[k].last
  BY SegmentAdded
<1> HIDE DEF seg
<1>2. Len(segs) \in Nat
  BY LenProperties DEF WireTypeOK
<1>3. Ciphertext(Len(segs) + 1, seg) \in Seq(Bytes)
  BY <1>1, <1>2, CiphertextType
<1>4. wire' \in Seq(Bytes) /\ eof' \in BOOLEAN /\ seal' \in {next, "WriteError"}
  BY <1>3, WriteType DEF seg, WireTypeOK
<1>5. WireTypeOK'
  BY <1>1, <1>4 DEF WireTypeOK
<1>6. signed' \in Seq(Nat)
  BY Concat
<1>7. InputsOK'
  BY DEF InputsOK, inputVars
<1>8. ~last /\ counter' = counter + 1 => Sealing'
  <2>1. signed' = Transcript(Len(segs))'
    BY <1>1 DEF Transcript
  <2> QED
    BY <1>1, <2>1 DEF Sealing
<1> QED
  BY <1>1, <1>4, <1>5, <1>6, <1>7, <1>8

LEMMA SealHeaderKeeps ==
  ASSUME SealerInv, SealHeader
  PROVE  /\ SealerInv' /\ SegmentsKept /\ UNCHANGED inputVars
         /\ seal' \in {"ConstraintViolation", "reading", "WriteError"}
         /\ seal' = "reading" => Sealing' /\ signed' \o pend' = Prefix(0)
<1>1. UNCHANGED <<inputVars, rd, pend, counter, encPos, signed, segs>> /\ seal = "ready"
  BY DEF SealHeader
<1>2. /\ segs \in Seq(SegmentType) /\ wire \in Seq(Bytes) /\ eof \in BOOLEAN
      /\ InputsOK /\ start' \in Nat
  <2>1. PolicyHeader(SigningPolicy) \in Nat
    BY SigningPolicyType, InputsType, StreamAssumption DEF PolicyHeader, SealerInv
  <2> QED
    BY <2>1, InputsType DEF SealHeader, SealerInv, WireTypeOK
<1>3. /\ wire' \in Seq(Bytes) /\ eof' \in BOOLEAN
      /\ seal' \in {"ConstraintViolation", "reading", "WriteError"}
  <2> DEFINE next == IF PolicyHeader(SigningPolicy) > SegmentSize
                       THEN "ConstraintViolation" ELSE "reading"
  <2>1. Write(HeaderBytes, next)
    BY DEF SealHeader
  <2>2. next \in {"ConstraintViolation", "reading"}
    OBVIOUS
  <2> HIDE DEF next
  <2>3. wire' \in Seq(Bytes) /\ eof' \in BOOLEAN /\ seal' \in {next, "WriteError"}
    BY <1>2, <2>1, HeaderType, WriteType
  <2> QED
    BY <2>2, <2>3
<1>4. WireTypeOK' /\ SealerTypeOK'
  BY <1>1, <1>2, <1>3, InputsType
     DEF SealerInv, WireTypeOK, SealerTypeOK, SealRunning, SealFailed, inputVars
<1>5. /\ segs = <<>> /\ pend = <<>> /\ signed = <<>> /\ rd = 0 /\ counter = 0 /\ encPos = 0
      /\ Len(segs) = 0
  <2>1. segs = <<>> /\ pend = <<>> /\ signed = <<>> /\ rd = 0 /\ counter = 0 /\ encPos = 0
    BY <1>1 DEF SealerInv, SealerHolds
  <2> QED
    BY <2>1, EmptySeq
<1>6. signed \o pend = Prefix(0)
  <2>1. Prefix(0) = <<>>
    BY PrefixType, EmptySeq, SeqEqual
  <2>2. \A s \in Seq(Nat) : s \o <<>> = s
    BY ConcatEmptySeq
  <2> QED
    BY <1>5, <2>1, <2>2, EmptySeq
<1>7. Sealing'
  <2>1. Len(segs') = 0 /\ counter' = 0 /\ signed' = <<>>
    BY <1>1, <1>5
  <2> QED
    BY <2>1 DEF Sealing, Transcript
<1>8. SealerHolds'
  <2>1. seal' # "ready" /\ encPos' = Len(segs') /\ rd' = 0 /\ 0 <= len'
    BY <1>1, <1>2, <1>3, <1>5, SealerAssumption DEF InputsOK, inputVars
  <2> QED
    BY <1>1, <1>6, <1>7, <2>1 DEF SealerHolds
<1> QED
  BY <1>1, <1>2, <1>3, <1>4, <1>6, <1>7, <1>8, NoSegment DEF SealerInv

LEMMA SealerKeeps ==
  ASSUME SealerInv, SealStep \/ SealIOError
  PROVE  SealerInv' /\ SegmentsKept /\ UNCHANGED inputVars
<1>1. /\ wire \in Seq(Bytes) /\ eof \in BOOLEAN /\ rd \in Nat /\ len \in Nat
      /\ start \in Nat /\ pend \in Seq(Nat) /\ signed \in Seq(Nat)
      /\ counter \in 0..CounterMax /\ encPos \in 0..CounterMax /\ CounterMax \in Nat
      /\ segs \in Seq(SegmentType) /\ InputsOK
  BY InputsType DEF SealerInv, WireTypeOK, SealerTypeOK
<1>2. Len(segs) \in Nat
  BY <1>1, LenProperties
<1>3. seal = "reading" =>
        /\ Sealing /\ counter = Len(segs) /\ encPos = Len(segs)
        /\ rd <= len /\ signed \o pend = Prefix(rd)
  BY DEF SealerInv, SealerHolds, Sealing
<1>4. CASE SealHeader
  BY <1>4, SealHeaderKeeps
<1>5. CASE FillSome
  <2>1. UNCHANGED <<inputVars, segs>> /\ seal = "reading"
    BY <1>5 DEF FillSome, wireVars
  <2>2. PICK n \in ReadSizes \ {0} : rd' = rd + n /\ pend' = PendAfter(n)
    BY <1>5 DEF FillSome
  <2>3. /\ rd' \in Nat /\ rd' <= len /\ pend' \in Seq(Nat)
        /\ signed \o pend' = Prefix(rd')
    BY <2>1, <2>2, ReadOn
  <2>4. WireTypeOK' /\ SealerTypeOK'
    BY <1>1, <1>5, <2>1, <2>3 DEF FillSome, SealerInv, WireTypeOK, SealerTypeOK, wireVars, inputVars
  <2>5. SealerHolds'
    BY <1>3, <1>5, <2>1, <2>3 DEF FillSome, SealerHolds, Sealing, Transcript, inputVars
  <2> QED
    BY <1>1, <2>1, <2>4, <2>5, NoSegment DEF SealerInv
<1>6. CASE SealFull
  <2>1. UNCHANGED inputVars /\ seal = "reading" /\ encPos < CounterMax
    BY <1>6 DEF SealFull, EncryptorTakes
  <2>2. Room \in ReadSizes
    BY <1>6 DEF SealFull
  <2> DEFINE m == PendAfter(Room)
  <2>3. /\ rd + Room \in 0..len /\ rd' = rd + Room /\ rd' \in Nat /\ rd' <= len
        /\ m \in Seq(Nat) /\ signed \o m = Prefix(rd + Room)
    BY <1>6, <2>1, <2>2, ReadOn DEF SealFull
  <2>4. /\ segs' = Append(segs, NewSegment(m, FALSE)) /\ signed' = signed \o m
        /\ Write(Ciphertext(Len(segs) + 1, NewSegment(m, FALSE)), "reading")
    <3>1. /\ segs' = Append(segs, NewSegment(m, FALSE)) /\ signed' = signed \o m
          /\ Write(Ciphertext(Len(segs) + 1, NewSegment(m, FALSE)),
                   IF counter = CounterMax THEN "panic" ELSE "reading")
      BY <1>6, Zenon DEF SealFull
    <3>2. (IF counter = CounterMax THEN "panic" ELSE "reading") = "reading"
      BY <1>1, <1>3, <2>1
    <3> QED
      BY <3>1, <3>2, Zenon
  <2> HIDE DEF m
  <2>5. /\ pend' = <<>> /\ pend' \in Seq(Nat) /\ start' = 0
        /\ encPos' = encPos + 1 /\ counter' = counter + 1
    BY <1>1, <1>3, <1>6, <2>1, EmptySeq DEF SealFull, NextStart
  <2>6. /\ WireTypeOK' /\ InputsOK' /\ SegmentsKept
        /\ signed' \in Seq(Nat)
        /\ seal' \in {"reading", "WriteError"}
        /\ SegmentsChain' /\ LastIsWhole'
        /\ Len(segs') = Len(segs) + 1
        /\ Sealing'
    BY <1>1, <1>3, <2>1, <2>3, <2>4, <2>5, SealSegment DEF SealerInv
  <2>7. SealerTypeOK'
    BY <1>1, <1>3, <2>1, <2>3, <2>5, <2>6 DEF SealerTypeOK, SealRunning, SealFailed, InputsOK
  <2>8. signed' \o pend' = Prefix(rd')
    <3>1. signed' \o <<>> = signed'
      BY <2>6, ConcatEmptySeq
    <3> QED
      BY <2>3, <2>4, <2>5, <3>1
  <2>9. SealerHolds'
    <3>1. encPos' = Len(segs') /\ rd' <= len'
      BY <1>3, <2>1, <2>3, <2>5, <2>6 DEF inputVars
    <3> QED
      BY <2>6, <2>8, <3>1 DEF SealerHolds
  <2> QED
    BY <2>1, <2>6, <2>7, <2>9 DEF SealerInv
<1>7. CASE SealLimit
  <2>1. UNCHANGED <<inputVars, segs>> /\ seal = "reading"
    BY <1>7 DEF SealLimit
  <2>2. Room \in ReadSizes
    BY <1>7 DEF SealLimit
  <2>3. rd' \in Nat /\ pend' \in Seq(Nat) /\ signed' \in Seq(Nat)
    BY <1>1, <1>7, <2>1, <2>2, ReadOn, Concat DEF SealLimit
  <2>4. WireTypeOK' /\ SealerTypeOK'
    BY <1>1, <1>7, <2>1, <2>3
       DEF SealLimit, Fail, SealerInv, WireTypeOK, SealerTypeOK, SealFailed, inputVars
  <2>5. SealerHolds'
    BY <1>7 DEF SealLimit, Fail, SealerHolds
  <2> QED
    BY <1>1, <2>1, <2>4, <2>5, NoSegment DEF SealerInv
<1>8. CASE SealLast
  <2>1. UNCHANGED inputVars /\ seal = "reading" /\ rd = len
    BY <1>8 DEF SealLast, AtEnd
  <2>2. /\ segs' = Append(segs, NewSegment(pend, TRUE)) /\ signed' = signed \o pend
        /\ Write(Ciphertext(Len(segs) + 1, NewSegment(pend, TRUE)), "closing")
        /\ rd \in 0..len /\ signed \o pend = Prefix(rd)
    <3>1. /\ segs' = Append(segs, NewSegment(pend, TRUE)) /\ signed' = signed \o pend
          /\ Write(Ciphertext(Len(segs) + 1, NewSegment(pend, TRUE)), "closing")
      BY <1>8, Zenon DEF SealLast
    <3>2. rd \in 0..len /\ signed \o pend = Prefix(rd)
      BY <1>1, <1>3, <2>1
    <3> QED
      BY <3>1, <3>2
  <2>3. /\ WireTypeOK' /\ InputsOK' /\ SegmentsKept
        /\ signed' \in Seq(Nat)
        /\ seal' \in {"closing", "WriteError"}
        /\ SegmentsChain' /\ LastIsWhole'
    BY <1>1, <1>3, <2>1, <2>2, SealSegment DEF SealerInv
  <2>4. SealerTypeOK'
    BY <1>1, <1>8, <2>3 DEF SealLast, SealerTypeOK, SealRunning, SealFailed, InputsOK
  <2>5. SealerHolds'
    BY <2>3 DEF SealerHolds
  <2> QED
    BY <2>1, <2>3, <2>4, <2>5 DEF SealerInv
<1>9. CASE SealClose \/ SealIOError
  <2>1. /\ UNCHANGED <<inputVars, segs>>
        /\ UNCHANGED <<wire, rd, start, pend, counter, encPos, signed>>
        /\ eof' = TRUE /\ seal' \in {"sealed", "ReadError", "WriteError"}
    BY <1>9 DEF SealClose, SealIOError, Fail
  <2>2. WireTypeOK' /\ SealerTypeOK'
    BY <1>1, <2>1 DEF SealerInv, WireTypeOK, SealerTypeOK, SealFailed, inputVars
  <2>3. SealerHolds'
    BY <2>1 DEF SealerHolds
  <2> QED
    BY <1>1, <2>1, <2>2, <2>3, NoSegment DEF SealerInv
<1> QED
  BY <1>4, <1>5, <1>6, <1>7, <1>8, <1>9 DEF SealStep

-----------------------------------------------------------------------------
(***************************************************************************)
(* The unsealer's steps.                                                   *)
(***************************************************************************)
\* They leave the sealer's part of the invariant alone.
LEMMA SealerStays ==
  ASSUME SealerInv, UNCHANGED <<segs, sealerVars>>, WireTypeOK'
  PROVE  SealerInv' /\ SegmentsKept /\ UNCHANGED inputVars
<1>1. UNCHANGED inputVars /\ segs \in Seq(SegmentType)
  BY DEF sealerVars, inputVars, SealerInv, WireTypeOK
<1>2. SegmentsChain' /\ LastIsWhole' /\ \A k : Transcript(k)' = Transcript(k)
  BY <1>1, NoSegment DEF SealerInv
<1>3. Sealing => Sealing'
  BY <1>2 DEF Sealing, sealerVars
<1>4. SealerHolds'
  BY <1>3 DEF SealerInv, SealerHolds, sealerVars
<1> QED
  BY <1>1, <1>2, <1>4, NoSegment DEF SealerInv, SealerTypeOK, sealerVars

LEMMA LeaveType ==
  ASSUME wire \in Seq(Bytes), NEW n \in Nat, n <= Len(wire)
  PROVE  Leave(n) \in Seq(Bytes) /\ Take(n) \in Seq(Bytes)
<1>1. Len(wire) \in Nat
  BY LenProperties
<1>2. n + 1 \in Nat \ {0} /\ Len(wire) \in Int
  BY <1>1
<1> QED
  BY <1>1, <1>2, SubBytes DEF Leave, Take

\* What the unsealer relies on of the sealer.
Sealed == WireTypeOK /\ InputsOK /\ SegmentsChain

\* What decrypts is the next segment: the transcript goes on where it was.
LEMMA NextSegment ==
  ASSUME Sealed, UnsealerInv, unseal = "reading",
         NEW bytes, NEW last \in BOOLEAN, Decrypts(bytes, last)
  PROVE  /\ decPos + 1 \in 1..Len(segs) /\ Len(segs) \in Nat
         /\ Opened.m \in Seq(Nat) /\ verified \in Seq(Nat) /\ out = verified
         /\ PolicyOf(Opened) = SigningPolicy
         /\ verified \o Opened.m = segs[decPos + 1].sig.tr
         /\ IsPrefixOfMessage(verified \o Opened.m)
         /\ segs[decPos + 1].last = last
<1>1. /\ segs \in Seq(SegmentType) /\ verified \in Seq(Nat) /\ decPos \in Nat
      /\ ucounter = decPos /\ verified = Transcript(decPos) /\ out = verified
      /\ decPos > 0 => polId = SigningPolicy
  BY StreamAssumption DEF Sealed, UnsealerInv, WireTypeOK, UnsealerTypeOK, UnsealerHolds
<1>2. decPos + 1 \in 1..Len(segs) /\ Len(segs) \in Nat /\ Opened.last = last
  BY <1>1, LenProperties DEF Decrypts, Opened
<1>3. Opened \in SegmentType
  BY <1>1, <1>2, ElementOfSeq DEF Opened
<1> DEFINE k == decPos + 1
<1>4. /\ Opened.pol = IF k = 1 THEN SigningPolicy ELSE NoPolicy
      /\ Opened.sig = Signature(Transcript(k - 1) \o Opened.m, k - 1, Opened.last, SigningPolicy)
      /\ IsPrefixOfMessage(Opened.sig.tr)
  <2>1. k \in 1..Len(segs) /\ Opened = segs[k]
    BY <1>2 DEF Opened
  <2> HIDE DEF k
  <2> QED
    BY <2>1, Zenon DEF Sealed, SegmentsChain
<1>5. Opened.sig.tr = verified \o Opened.m
  <2>1. k - 1 = decPos
    BY <1>1
  <2> HIDE DEF k
  <2>2. Opened.sig = Signature(verified \o Opened.m, decPos, Opened.last, SigningPolicy)
    BY <1>1, <1>4, <2>1
  <2> QED
    BY <2>2 DEF Signature
<1>6. PolicyOf(Opened) = SigningPolicy
  BY <1>1, <1>4 DEF PolicyOf
<1>7. Opened.m \in Seq(Nat)
  BY <1>3 DEF SegmentType
<1> QED
  BY <1>1, <1>2, <1>4, <1>5, <1>6, <1>7 DEF Opened

\* Written whole or in part, the output stays a prefix of the message.
LEMMA WrittenIsPrefix ==
  ASSUME len \in Nat, out \in Seq(Nat),
         NEW m \in Seq(Nat), NEW next, WriteOut(m, next), IsPrefixOfMessage(out \o m)
  PROVE  /\ out' \in Seq(Nat)
         /\ IsPrefixOfMessage(out')
         /\ unseal' \in {next, "WriteError"}
         /\ unseal' = next => out' = out \o m \/ next = "WriteError"
<1>1. out \in Seq(Nat) /\ len \in Nat
  OBVIOUS
<1>2. CASE out' = out \o m /\ unseal' = next
  BY <1>1, <1>2, Concat
<1>3. CASE unseal' = "WriteError" /\ \E j \in 0..Len(m) - 1 : out' = out \o SubSeq(m, 1, j)
  <2>1. PICK j \in 0..Len(m) - 1 : out' = out \o SubSeq(m, 1, j)
    BY <1>3
  <2>2. PICK n \in 0..len : out \o m = Prefix(n)
    BY DEF IsPrefixOfMessage
  <2>3. n \in Nat /\ Len(m) \in Nat /\ Len(out) \in Nat
    BY <1>1, <2>2, LenProperties
  <2>4. j \in 0..Len(m)
    BY <2>1, <2>3
  <2>5. Len(out) + j \in 0..n /\ out' = Prefix(Len(out) + j)
    BY <1>1, <2>1, <2>2, <2>3, <2>4, PartOfPrefix
  <2>6. Len(out) + j \in 0..len /\ Len(out) + j \in Nat
    BY <1>1, <2>2, <2>5
  <2>7. out' \in Seq(Nat)
    BY <2>5, <2>6, PrefixType
  <2> QED
    BY <1>3, <2>5, <2>6, <2>7 DEF IsPrefixOfMessage
<1> QED
  BY <1>2, <1>3 DEF WriteOut

\* The three ways the processing of a segment ends.
LEMMA OpenOutcomes ==
  ASSUME Sealed, UnsealerInv, unseal = "reading",
         NEW bytes, NEW last \in BOOLEAN, NEW next,
         next \in {"reading", "closing"}, OpenSegment(bytes, last, next)
  PROVE  /\ buf' = <<>>
         /\ verified' \in Seq(Nat) /\ out' \in Seq(Nat)
         /\ polId' \in Policies \cup {NoPolicy}
         /\ IsPrefixOfMessage(out')
         /\ unseal' \in {next, "AEAD", "IncorrectSignature", "WriteError"}
         /\ decPos' \in {decPos, IF last THEN decPos ELSE decPos + 1}
         /\ unseal' = next =>
              /\ decPos' = IF last THEN decPos ELSE decPos + 1
              /\ decPos + 1 \in 1..Len(segs)
              /\ polId' = SigningPolicy
              /\ verified' = segs[decPos + 1].sig.tr
              /\ out' = verified'
              /\ segs[decPos + 1].last = last
<1>1. /\ verified \in Seq(Nat) /\ out \in Seq(Nat) /\ polId \in Policies \cup {NoPolicy}
      /\ IsPrefixOfMessage(out) /\ SigningPolicy \in Policies /\ len \in Nat
  BY SigningPolicyType, SealerAssumption
     DEF Sealed, InputsOK, UnsealerInv, UnsealerTypeOK, UnsealerHolds
<1>2. CASE /\ ~Decrypts(bytes, last) /\ unseal' = "AEAD"
           /\ UNCHANGED <<decPos, polId, verified, out>>
  BY <1>1, <1>2 DEF OpenSegment
<1>3. CASE /\ Decrypts(bytes, last)
           /\ decPos' = IF last THEN decPos ELSE decPos + 1
           /\ polId' = PolicyOf(Opened)
           /\ verified' = verified \o Opened.m
           /\ IF Verifies(Opened, last)
                THEN WriteOut(Opened.m, next)
                ELSE unseal' = "IncorrectSignature" /\ UNCHANGED out
  <2>1. /\ decPos + 1 \in 1..Len(segs) /\ Len(segs) \in Nat
        /\ Opened.m \in Seq(Nat) /\ verified \in Seq(Nat) /\ out = verified
        /\ PolicyOf(Opened) = SigningPolicy
        /\ verified \o Opened.m = segs[decPos + 1].sig.tr
        /\ IsPrefixOfMessage(verified \o Opened.m)
        /\ segs[decPos + 1].last = last
    BY <1>3, NextSegment
  <2>2. verified' \in Seq(Nat)
    BY <1>3, <2>1, Concat
  <2>3. buf' = <<>>
    BY DEF OpenSegment
  <2>4. CASE WriteOut(Opened.m, next)
    <3>1. /\ out' \in Seq(Nat)
          /\ IsPrefixOfMessage(out')
          /\ unseal' \in {next, "WriteError"}
          /\ unseal' = next => out' = out \o Opened.m \/ next = "WriteError"
      BY <1>1, <2>1, <2>4, WrittenIsPrefix
    <3> QED
      BY <1>1, <1>3, <2>1, <2>2, <2>3, <3>1
  <2>5. CASE unseal' = "IncorrectSignature" /\ UNCHANGED out
    BY <1>1, <1>3, <2>1, <2>2, <2>3, <2>5
  <2> QED
    BY <1>3, <2>4, <2>5
<1> QED
  BY <1>2, <1>3 DEF OpenSegment

LEMMA UnsealerKeeps ==
  ASSUME Sealed, UnsealerInv, UNCHANGED sealerVars,
         \/ Open \/ (\E n \in 1..Len(wire) : Receive(n)) \/ OpenFull \/ OpenLast
         \/ UnsealClose \/ UnsealIOError
         \/ \E ident, usk \in Idents : StartUnseal(ident, usk)
  PROVE  WireTypeOK' /\ UnsealerInv' /\ segs' = segs
<1>1. /\ wire \in Seq(Bytes) /\ eof \in BOOLEAN /\ segs \in Seq(SegmentType)
      /\ buf \in Seq(Bytes) /\ ucounter \in 0..CounterMax /\ decPos \in 0..CounterMax
      /\ verified \in Seq(Nat) /\ out \in Seq(Nat) /\ keyOk \in BOOLEAN
      /\ pubId \in Policies \cup {NoPolicy} /\ polId \in Policies \cup {NoPolicy}
      /\ private \in Policies \cup {NoPolicy}
      /\ pubPol \in Policies /\ CounterMax \in Nat /\ len \in Nat
  BY StreamAssumption, SealerAssumption
     DEF Sealed, UnsealerInv, WireTypeOK, InputsOK, UnsealerTypeOK
<1>2. /\ SigningPolicy' = SigningPolicy /\ len' = len /\ pubPol' = pubPol
      /\ SigningPolicy \in Policies
  BY SigningPolicyType DEF sealerVars, SigningPolicy, Sealed
<1>3. Len(wire) \in Nat /\ Len(buf) \in Nat /\ Len(segs) \in Nat
  BY <1>1, LenProperties
<1>4. UnsealerHolds
  BY DEF UnsealerInv
\* It is left to show, of any step, what it does to the unsealer's part.
<1>5. ASSUME segs' = segs, WireTypeOK', UnsealerTypeOK', UnsealerHolds'
      PROVE  WireTypeOK' /\ UnsealerInv' /\ segs' = segs
  BY <1>5 DEF UnsealerInv
<1>6. ASSUME segs' = segs PROVE \A k : Transcript(k)' = Transcript(k)
  BY <1>6 DEF Transcript
<1>7. \A s : IsPrefixOfMessage(s) <=> \E n \in 0..len' : s = Prefix(n)
  BY <1>2 DEF IsPrefixOfMessage
<1>8. CASE Open
  <2>1. /\ UNCHANGED <<keyOk, buf, ucounter, decPos, polId, verified, out, private, eof, segs>>
        /\ unseal = "new"
    BY <1>8 DEF Open, OpenHeader, RejectHeader
  <2>2. CASE OpenHeader(pubPol)
    <3>1. PICK n \in HeaderEnds : wire' = Leave(n)
      BY <2>2 DEF OpenHeader
    <3>2. wire' \in Seq(Bytes)
      <4>1. n \in 4..Len(wire)
        BY DEF HeaderEnds
      <4> QED
        BY <1>1, <1>3, <3>1, <4>1, LeaveType
    <3>3. pubId' = pubPol /\ unseal' = "opened"
      BY <2>2 DEF OpenHeader
    <3>4. WireTypeOK' /\ UnsealerTypeOK'
      BY <1>1, <2>1, <3>2, <3>3 DEF WireTypeOK, UnsealerTypeOK, UnsealRunning
    <3>5. UnsealerHolds'
      BY <1>2, <1>4, <2>1, <3>3 DEF UnsealerHolds, IsPrefixOfMessage
    <3> QED
      BY <1>5, <2>1, <3>4, <3>5
  <2>3. CASE RejectHeader
    <3>1. wire' \in Seq(Bytes)
      <4>1. CASE Len(wire) < 4
        <5>1. wire' = SubSeq(wire, Len(wire) + 1, Len(wire))
          BY <2>3, <4>1 DEF RejectHeader, HeaderRead
        <5> QED
          BY <1>1, <1>3, <5>1, SubBytes
      <4>2. CASE ~(Len(wire) < 4)
        <5>1. wire' = SubSeq(wire, Len(Take(4)) + 1, Len(wire))
          BY <2>3, <4>2 DEF RejectHeader, HeaderRead
        <5>2. Len(Take(4)) \in Nat
          BY <1>1, <1>3, <4>2, LeaveType, LenProperties
        <5> HIDE DEF Take
        <5> QED
          BY <1>1, <1>3, <5>1, <5>2, SubBytes
      <4> QED
        BY <4>1, <4>2
    <3>2. pubId' = pubId /\ unseal' \in UnsealFailed
      BY <2>3 DEF RejectHeader, MissingError, ChangedErrors, UnsealFailed
    <3>3. WireTypeOK' /\ UnsealerTypeOK'
      BY <1>1, <2>1, <3>1, <3>2 DEF WireTypeOK, UnsealerTypeOK
    <3>4. UnsealerHolds'
      BY <1>2, <1>4, <2>1, <3>2 DEF UnsealerHolds, IsPrefixOfMessage, UnsealFailed
    <3> QED
      BY <1>5, <2>1, <3>3, <3>4
  <2> QED
    BY <1>8, <2>2, <2>3 DEF Open
<1>9. CASE \E ident, usk \in Idents : StartUnseal(ident, usk)
  <2>1. /\ UNCHANGED <<pubId, buf, ucounter, decPos, polId, verified, out, private, wireVars>>
        /\ unseal = "opened" /\ keyOk' \in BOOLEAN
        /\ unseal' \in {"reading", "KEM", "UnknownIdentifier"}
    BY <1>1, <1>9 DEF StartUnseal
  <2>2. WireTypeOK' /\ UnsealerTypeOK' /\ segs' = segs
    BY <1>1, <2>1 DEF WireTypeOK, UnsealerTypeOK, wireVars, UnsealRunning, UnsealFailed
  <2>3. Transcript(0) = <<>>
    BY DEF Transcript
  <2>4. UnsealerHolds'
    BY <1>2, <1>3, <1>4, <1>6, <2>1, <2>2, <2>3 DEF UnsealerHolds, IsPrefixOfMessage, Transcript
  <2> QED
    BY <1>5, <2>2, <2>4
<1>10. CASE \E n \in 1..Len(wire) : Receive(n)
  <2>1. PICK n \in 1..Len(wire) : Receive(n)
    BY <1>10
  <2>2. /\ UNCHANGED <<unseal, pubId, keyOk, ucounter, decPos, polId, verified, out, private>>
        /\ eof' = eof /\ segs' = segs
    BY <2>1 DEF Receive
  <2>3. wire' \in Seq(Bytes) /\ buf' \in Seq(Bytes)
    <3>1. Leave(n) \in Seq(Bytes) /\ Take(n) \in Seq(Bytes)
      BY <1>1, <1>3, LeaveType
    <3>2. buf \o Take(n) \in Seq(Bytes)
      BY <1>1, <3>1, ConcatBytes
    <3> QED
      BY <2>1, <3>1, <3>2, Zenon DEF Receive
  <2>4. WireTypeOK' /\ UnsealerTypeOK'
    BY <1>1, <2>2, <2>3 DEF WireTypeOK, UnsealerTypeOK, UnsealerInv
  <2>5. Len(buf') < BufSize
    <3>1. Take(n) \in Seq(Bytes) /\ Len(Take(n)) = n
      <4>1. n \in Nat /\ n <= Len(wire) /\ \A i \in 1..n : wire[i] \in Bytes
        BY <1>1, <1>3, ElementOfSeq
      <4>2. Len(Take(n)) = IF 1 <= n THEN n - 1 + 1 ELSE 0
        BY <4>1, SubSeqProperties DEF Take
      <4> QED
        BY <1>1, <4>1, <4>2, LeaveType
    <3> DEFINE t == Take(n)
    <3>2. buf' = buf \o t /\ Len(buf) + n < BufSize
      BY <2>1 DEF Receive
    <3> HIDE DEF t
    <3>3. Len(buf \o t) = Len(buf) + Len(t)
      BY <1>1, <3>1, ConcatProperties DEF t
    <3> QED
      BY <3>1, <3>2, <3>3 DEF t
  <2>6. UnsealerHolds'
    BY <1>2, <1>4, <1>6, <2>2, <2>5 DEF UnsealerHolds, IsPrefixOfMessage, BufSize
  <2> QED
    BY <1>5, <2>2, <2>4, <2>6
<1>11. CASE OpenFull
  <2>1. /\ UNCHANGED <<pubId, keyOk, private, eof, segs>> /\ unseal = "reading"
        /\ BufSize - Len(buf) <= Len(wire)
        /\ wire' = Leave(BufSize - Len(buf))
        /\ ucounter' = IF unseal' = "reading" THEN NextCounter ELSE ucounter
    BY <1>3, <1>11, StreamAssumption DEF OpenFull, BufSize
  <2>2. BufSize - Len(buf) \in Nat /\ BufSize > 0 /\ Len(<<>>) = 0
    BY <1>3, <1>4, StreamAssumption DEF UnsealerHolds, BufSize
  <2>3. WireTypeOK'
    BY <1>1, <2>1, <2>2, LeaveType DEF WireTypeOK
  <2>4. CASE decPos = CounterMax
    <3>1. unseal' = "AEAD" /\ UNCHANGED <<buf, ucounter, decPos, polId, verified, out>>
      BY <1>11, <2>1, <2>4 DEF OpenFull
    <3>2. UnsealerTypeOK'
      BY <1>1, <2>1, <3>1 DEF UnsealerTypeOK, UnsealFailed
    <3>3. UnsealerHolds'
      BY <1>2, <1>4, <3>1 DEF UnsealerHolds, IsPrefixOfMessage, BufSize
    <3> QED
      BY <1>5, <2>1, <2>3, <3>2, <3>3
  <2>5. CASE decPos # CounterMax
    <3> DEFINE bytes == buf \o Take(BufSize - Len(buf))
    <3>1. OpenSegment(bytes, FALSE, "reading")
      BY <1>11, <2>5 DEF OpenFull
    <3> HIDE DEF bytes
    <3>2. /\ buf' = <<>> /\ verified' \in Seq(Nat) /\ out' \in Seq(Nat)
          /\ polId' \in Policies \cup {NoPolicy}
          /\ IsPrefixOfMessage(out')
          /\ unseal' \in {"reading", "AEAD", "IncorrectSignature", "WriteError"}
          /\ decPos' \in {decPos, decPos + 1}
          /\ unseal' = "reading" =>
               /\ decPos' = decPos + 1 /\ decPos + 1 \in 1..Len(segs)
               /\ polId' = SigningPolicy
               /\ verified' = segs[decPos + 1].sig.tr
               /\ out' = verified'
      BY <2>1, <3>1, OpenOutcomes
    <3>3. /\ decPos' \in 0..CounterMax /\ buf' \in Seq(Bytes)
          /\ ucounter' \in 0..CounterMax /\ (unseal' = "reading" => ucounter' = decPos + 1)
      <4>1. ucounter = decPos
        BY <1>4, <2>1 DEF UnsealerHolds
      <4> QED
        BY <1>1, <2>1, <2>5, <3>2, <4>1, EmptySeq DEF NextCounter
    <3>4. UnsealerTypeOK'
      BY <1>1, <2>1, <3>2, <3>3 DEF UnsealerTypeOK, UnsealRunning, UnsealFailed
    <3>5. unseal' = "reading" =>
            /\ ucounter' = decPos' /\ decPos' <= Len(segs')
            /\ verified' = Transcript(decPos)' /\ out' = verified'
            /\ decPos' > 0 => polId' = SigningPolicy'
      <4> SUFFICES ASSUME unseal' = "reading"
                   PROVE  /\ ucounter' = decPos' /\ decPos' <= Len(segs')
                          /\ verified' = Transcript(decPos)' /\ out' = verified'
                          /\ decPos' > 0 => polId' = SigningPolicy'
        OBVIOUS
      <4>1. Transcript(decPos)' = segs[decPos + 1].sig.tr
        BY <1>1, <2>1, <3>2 DEF Transcript
      <4> QED
        BY <1>2, <1>3, <2>1, <3>2, <3>3, <4>1
    <3>6. pubId' = pubPol'
      BY <1>2, <1>4, <2>1 DEF UnsealerHolds
    <3>7. IsPrefixOfMessage(out)'
      BY <1>2, <3>2 DEF IsPrefixOfMessage
    <3>8. UnsealerHolds'
      BY <2>2, <3>2, <3>5, <3>6, <3>7 DEF UnsealerHolds, BufSize
    <3> QED
      BY <1>5, <2>1, <2>3, <3>4, <3>8
  <2> QED
    BY <2>4, <2>5
<1>12. CASE OpenLast
  <2>1. /\ UNCHANGED <<pubId, keyOk, ucounter, private, wireVars>> /\ unseal = "reading"
        /\ OpenSegment(buf, TRUE, "closing")
    BY <1>12 DEF OpenLast
  <2>2. /\ buf' = <<>> /\ verified' \in Seq(Nat) /\ out' \in Seq(Nat)
        /\ polId' \in Policies \cup {NoPolicy}
        /\ IsPrefixOfMessage(out')
        /\ unseal' \in {"closing", "AEAD", "IncorrectSignature", "WriteError"}
        /\ decPos' = decPos
        /\ unseal' = "closing" =>
             polId' = SigningPolicy /\ \E k \in 1..Len(segs) : segs[k].last /\ out' = segs[k].sig.tr
    <3>1. /\ buf' = <<>> /\ verified' \in Seq(Nat) /\ out' \in Seq(Nat)
          /\ polId' \in Policies \cup {NoPolicy}
          /\ IsPrefixOfMessage(out')
          /\ unseal' \in {"closing", "AEAD", "IncorrectSignature", "WriteError"}
          /\ decPos' = decPos
          /\ unseal' = "closing" =>
               /\ polId' = SigningPolicy /\ decPos + 1 \in 1..Len(segs)
               /\ segs[decPos + 1].last /\ out' = segs[decPos + 1].sig.tr
      BY <2>1, OpenOutcomes
    <3> QED
      BY <3>1
  <2>3. WireTypeOK' /\ UnsealerTypeOK' /\ segs' = segs
    BY <1>1, <2>1, <2>2, EmptySeq
       DEF WireTypeOK, UnsealerTypeOK, UnsealRunning, UnsealFailed, wireVars
  <2>4. UnsealerHolds'
    <3>1. pubId' = pubPol'
      BY <1>2, <1>4, <2>1 DEF UnsealerHolds
    <3>2. IsPrefixOfMessage(out)'
      BY <1>2, <2>2 DEF IsPrefixOfMessage
    <3>3. BufSize > 0 /\ Len(<<>>) = 0
      BY StreamAssumption DEF BufSize
    <3> QED
      BY <1>2, <2>2, <2>3, <3>1, <3>2, <3>3 DEF UnsealerHolds, BufSize
  <2> QED
    BY <1>5, <2>3, <2>4
<1>13. CASE UnsealClose
  <2>1. /\ UNCHANGED <<pubId, keyOk, buf, ucounter, decPos, polId, verified, out, wireVars>>
        /\ unseal = "closing" /\ unseal' = "ok"
        /\ private' = IF polId = pubId THEN NoPolicy ELSE polId
    BY <1>13 DEF UnsealClose, PrivateResult
  <2>2. WireTypeOK' /\ UnsealerTypeOK' /\ segs' = segs
    BY <1>1, <2>1 DEF WireTypeOK, UnsealerTypeOK, wireVars
  <2>3. UnsealerHolds'
    BY <1>2, <1>4, <2>1, <2>2 DEF UnsealerHolds, IsPrefixOfMessage, BufSize
  <2> QED
    BY <1>5, <2>2, <2>3
<1>14. CASE UnsealIOError
  <2>1. /\ UNCHANGED <<pubId, keyOk, buf, ucounter, decPos, polId, verified, out, private, wireVars>>
        /\ unseal' \in {"NotPostGuard", "ConstraintViolation", "FormatViolation",
                       "ReadError", "WriteError"}
    BY <1>14 DEF UnsealIOError
  <2>2. WireTypeOK' /\ UnsealerTypeOK' /\ segs' = segs
    BY <1>1, <2>1 DEF WireTypeOK, UnsealerTypeOK, wireVars, UnsealFailed
  <2>3. UnsealerHolds'
    BY <1>2, <1>4, <2>1, <2>2 DEF UnsealerHolds, IsPrefixOfMessage, BufSize
  <2> QED
    BY <1>5, <2>2, <2>3
<1> QED
  BY <1>8, <1>9, <1>10, <1>11, <1>12, <1>13, <1>14

-----------------------------------------------------------------------------
(***************************************************************************)
(* Damage changes nothing but the bytes in transit.                        *)
(***************************************************************************)
LEMMA DamageType ==
  ASSUME WireTypeOK, Lose \/ Corrupt \/ LoseSegment \/ Repeat \/ Swap
  PROVE  wire' \in Seq(Bytes)
<1>1. wire \in Seq(Bytes) /\ Len(wire) \in Nat
  BY LenProperties DEF WireTypeOK
<1>2. \A i \in 1..Len(wire) : \A j \in 0..Len(wire) : SubSeq(wire, i, j) \in Seq(Bytes)
  <2> SUFFICES ASSUME NEW i \in 1..Len(wire), NEW j \in 0..Len(wire)
               PROVE  SubSeq(wire, i, j) \in Seq(Bytes)
    OBVIOUS
  <2>1. i \in Nat \ {0} /\ j \in Int /\ j <= Len(wire)
    BY <1>1
  <2> QED
    BY <1>1, <2>1, SubBytes
<1>3. \A i \in 1..Len(wire) : SubSeq(wire, i + 1, Len(wire)) \in Seq(Bytes)
  <2> SUFFICES ASSUME NEW i \in 1..Len(wire)
               PROVE  SubSeq(wire, i + 1, Len(wire)) \in Seq(Bytes)
    OBVIOUS
  <2>1. i + 1 \in Nat \ {0} /\ Len(wire) \in Int /\ Len(wire) <= Len(wire)
    BY <1>1
  <2> QED
    BY <1>1, <2>1, SubBytes
<1>4. \A i \in 1..Len(wire) : SubSeq(wire, 1, i - 1) \in Seq(Bytes)
  <2> SUFFICES ASSUME NEW i \in 1..Len(wire)
               PROVE  SubSeq(wire, 1, i - 1) \in Seq(Bytes)
    OBVIOUS
  <2>1. 1 \in Nat \ {0} /\ i - 1 \in Int /\ i - 1 <= Len(wire)
    BY <1>1
  <2> QED
    BY <1>1, <2>1, SubBytes
<1>5. \A i, j \in 1..Len(wire) : Cut(i, j) \in Seq(Bytes)
  BY <1>3, <1>4, ConcatBytes DEF Cut
<1>6. CASE Lose \/ LoseSegment
  <2>1. \E i, j \in 1..Len(wire) : wire' = Cut(i, j)
    <3>1. CASE Lose
      <4>1. PICK i \in 1..Len(wire) : wire' \in {Cut(i, i), Cut(i, Len(wire))}
        BY <3>1 DEF Lose
      <4>2. Len(wire) \in 1..Len(wire)
        BY <1>1, <4>1
      <4> QED
        BY <4>1, <4>2
    <3>2. CASE LoseSegment
      <4>1. PICK i \in 1..Len(wire) : \E j \in i..Len(wire) : wire' = Cut(i, j)
        BY <3>2 DEF LoseSegment
      <4>2. PICK j \in i..Len(wire) : wire' = Cut(i, j)
        BY <4>1
      <4>3. j \in 1..Len(wire)
        BY <1>1, <4>1, <4>2
      <4> QED
        BY <4>2, <4>3
    <3> QED
      BY <1>6, <3>1, <3>2
  <2> QED
    BY <1>5, <2>1
<1>7. CASE Corrupt
  <2>1. PICK i \in 1..Len(wire) : wire' = [wire EXCEPT ![i] = Junk]
    BY <1>7 DEF Corrupt
  <2>2. Junk \in Bytes
    BY DEF Junk, Bytes
  <2> QED
    BY <1>1, <2>1, <2>2, ExceptSeq
<1>8. CASE Repeat
  <2>1. PICK i \in 1..Len(wire) : \E j \in i..Len(wire) :
          wire' = SubSeq(wire, 1, j) \o SubSeq(wire, i, Len(wire))
    BY <1>8 DEF Repeat
  <2>2. PICK j \in i..Len(wire) : wire' = SubSeq(wire, 1, j) \o SubSeq(wire, i, Len(wire))
    BY <2>1
  <2>3. /\ 1 \in 1..Len(wire) /\ j \in 0..Len(wire) /\ Len(wire) \in 0..Len(wire)
    BY <1>1, <2>1, <2>2
  <2>4. SubSeq(wire, 1, j) \in Seq(Bytes) /\ SubSeq(wire, i, Len(wire)) \in Seq(Bytes)
    BY <1>2, <2>1, <2>3
  <2> QED
    BY <2>2, <2>4, ConcatBytes
<1>9. CASE Swap
  <2>1. PICK i \in 1..Len(wire) : \E j \in i..Len(wire) : \E h \in j..Len(wire) :
          /\ j < h
          /\ wire' = SubSeq(wire, 1, i - 1) \o SubSeq(wire, j + 1, h)
                       \o SubSeq(wire, i, j) \o SubSeq(wire, h + 1, Len(wire))
    BY <1>9 DEF Swap
  <2>2. PICK j \in i..Len(wire) : \E h \in j..Len(wire) :
          /\ j < h
          /\ wire' = SubSeq(wire, 1, i - 1) \o SubSeq(wire, j + 1, h)
                       \o SubSeq(wire, i, j) \o SubSeq(wire, h + 1, Len(wire))
    BY <2>1
  <2>3. PICK h \in j..Len(wire) :
          /\ j < h
          /\ wire' = SubSeq(wire, 1, i - 1) \o SubSeq(wire, j + 1, h)
                       \o SubSeq(wire, i, j) \o SubSeq(wire, h + 1, Len(wire))
    BY <2>2
  <2> DEFINE a == SubSeq(wire, 1, i - 1)
             b == SubSeq(wire, j + 1, h)
             c == SubSeq(wire, i, j)
             d == SubSeq(wire, h + 1, Len(wire))
  <2>4. /\ j + 1 \in 1..Len(wire) /\ h \in 0..Len(wire) /\ j \in 0..Len(wire)
        /\ h \in 1..Len(wire)
    BY <1>1, <2>1, <2>2, <2>3
  <2>5. a \in Seq(Bytes) /\ b \in Seq(Bytes) /\ c \in Seq(Bytes) /\ d \in Seq(Bytes)
    BY <1>2, <1>3, <1>4, <2>1, <2>4
  <2>6. wire' = a \o b \o c \o d
    BY <2>3
  <2> HIDE DEF a, b, c, d
  <2>7. a \o b \in Seq(Bytes)
    BY <2>5, ConcatBytes
  <2>8. a \o b \o c \in Seq(Bytes)
    BY <2>5, <2>7, ConcatBytes
  <2> QED
    BY <2>5, <2>6, <2>8, ConcatBytes
<1> QED
  BY <1>6, <1>7, <1>8, <1>9

-----------------------------------------------------------------------------
(***************************************************************************)
(* The invariant is inductive.                                             *)
(***************************************************************************)
LEMMA InitSealer ==
  ASSUME WireInit, SealerInit PROVE SealerInv
<1>1. /\ 0 \in 0..CounterMax /\ len \in Lens /\ pubPol \in Policies
      /\ privPol \in Policies \cup {NoPolicy} /\ seal = "ready" /\ rd = 0 /\ start = 0
      /\ pend = <<>> /\ counter = 0 /\ encPos = 0 /\ signed = <<>> /\ segs = <<>>
      /\ wire = <<>> /\ eof = FALSE
  BY StreamAssumption DEF SealerInit, WireInit
<1>2. WireTypeOK /\ SealerTypeOK
  BY <1>1, EmptySeq DEF WireTypeOK, SealerTypeOK, SealRunning
<1>3. SegmentsChain /\ LastIsWhole
  BY <1>1 DEF SegmentsChain, LastIsWhole
<1>4. SealerHolds
  BY <1>1 DEF SealerHolds
<1> QED
  BY <1>2, <1>3, <1>4 DEF SealerInv

LEMMA EmptyIsPrefix ==
  ASSUME len \in Nat PROVE IsPrefixOfMessage(<<>>)
<1>1. <<>> = Prefix(0)
  BY PrefixType, EmptySeq, SeqEqual
<1> QED
  BY <1>1 DEF IsPrefixOfMessage

LEMMA InitUnsealer ==
  ASSUME len \in Nat, UnsealerInit PROVE UnsealerInv
<1> USE StreamAssumption
<1>1. /\ unseal = "new" /\ 0 \in 0..CounterMax /\ Len(<<>>) = 0 /\ 0 < BufSize
      /\ pubId = NoPolicy /\ keyOk = FALSE /\ buf = <<>> /\ ucounter = 0 /\ decPos = 0
      /\ polId = NoPolicy /\ verified = <<>> /\ out = <<>> /\ private = NoPolicy
  BY DEF UnsealerInit, BufSize
<1>2. UnsealerTypeOK
  BY <1>1, EmptySeq DEF UnsealerTypeOK, UnsealRunning
<1>3. UnsealerHolds
  BY <1>1, EmptyIsPrefix DEF UnsealerHolds
<1> QED
  BY <1>2, <1>3 DEF UnsealerInv

LEMMA InitIInv == Init => IInv
<1> SUFFICES ASSUME Init PROVE IInv
  OBVIOUS
<1>1. SealerInv
  BY InitSealer DEF Init
<1>2. UnsealerInv
  BY <1>1, InputsType, InitUnsealer DEF Init, SealerInv
<1>3. nfaults \in 0..MaxFaults
  BY TransferAssumption DEF Init
<1> QED
  BY <1>1, <1>2, <1>3 DEF IInv

LEMMA NextIInv == IInv /\ [Next]_vars => IInv'
<1> SUFFICES ASSUME IInv, [Next]_vars PROVE IInv'
  OBVIOUS
<1>1. /\ SealerInv /\ UnsealerInv /\ nfaults \in 0..MaxFaults /\ Sealed
      /\ segs \in Seq(SegmentType)
  BY InputsType DEF IInv, SealerInv, Sealed, WireTypeOK
\* A step of one end, or of what lies between them.
<1>2. ASSUME SealStep \/ SealIOError, UNCHANGED <<unsealerVars, nfaults>>
      PROVE  IInv'
  <2>1. SealerInv' /\ SegmentsKept /\ UNCHANGED inputVars
    BY <1>1, <1>2, SealerKeeps
  <2>2. segs' \in Seq(SegmentType)
    BY <2>1 DEF SealerInv, WireTypeOK
  <2> QED
    BY <1>1, <1>2, <2>1, <2>2, UnsealerStays DEF IInv
<1>3. ASSUME WireTypeOK', UnsealerInv', segs' = segs, UNCHANGED <<sealerVars, nfaults>>
      PROVE  IInv'
  BY <1>1, <1>3, SealerStays DEF IInv
<1>4. CASE SealerStep \/ SealerError
  BY <1>2, <1>4 DEF SealerStep, SealerError
<1>5. CASE ReceiverStarts
  BY <1>1, <1>3, <1>5, UnsealerKeeps DEF ReceiverStarts
<1>6. CASE UnsealerStep \/ UnsealerError
  <2>1. UNCHANGED <<sealerVars, nfaults>>
    BY <1>6 DEF UnsealerStep, UnsealerError
  <2>2. \/ Open \/ (\E n \in 1..Len(wire) : Receive(n)) \/ OpenFull \/ OpenLast
        \/ UnsealClose \/ UnsealIOError
    BY <1>6 DEF UnsealerStep, UnsealStep, UnsealerError
  <2> QED
    BY <1>1, <1>3, <2>1, <2>2, UnsealerKeeps
<1>7. CASE Damage
  <2>1. /\ UNCHANGED <<eof, segs, sealerVars, unsealerVars>>
        /\ nfaults < MaxFaults /\ nfaults' = nfaults + 1
        /\ Lose \/ Corrupt \/ LoseSegment \/ Repeat \/ Swap
    BY <1>7 DEF Damage
  <2>2. WireTypeOK'
    BY <1>1, <2>1, DamageType DEF Sealed, WireTypeOK
  <2>3. nfaults' \in 0..MaxFaults
    BY <1>1, <2>1, TransferAssumption
  <2>4. SealerInv' /\ SegmentsKept /\ UNCHANGED inputVars
    BY <1>1, <2>1, <2>2, SealerStays
  <2>5. UnsealerInv'
    BY <1>1, <2>1, <2>4, UnsealerStays
  <2> QED
    BY <2>3, <2>4, <2>5 DEF IInv
<1>8. CASE Done \/ UNCHANGED vars
  <2>1. UNCHANGED <<wireVars, segs, sealerVars, unsealerVars, nfaults>>
    BY <1>8 DEF Done, vars, wireVars
  <2>2. WireTypeOK'
    BY <1>1, <2>1 DEF Sealed, WireTypeOK, wireVars
  <2>3. SealerInv' /\ SegmentsKept /\ UNCHANGED inputVars
    BY <1>1, <2>1, <2>2, SealerStays
  <2>4. UnsealerInv'
    BY <1>1, <2>1, <2>3, UnsealerStays
  <2> QED
    BY <1>1, <2>1, <2>3, <2>4 DEF IInv
<1> QED
  BY <1>4, <1>5, <1>6, <1>7, <1>8 DEF Next

LEMMA Invariance == Spec => []IInv
BY InitIInv, NextIInv, PTL DEF Spec

-----------------------------------------------------------------------------
(***************************************************************************)
(* Every variable of the two ends keeps its type; in particular the        *)
(* counters, incremented without a check on one side and with an unwrap on *)
(* the other, never exceed what the AEAD counts.                           *)
(***************************************************************************)
THEOREM TypeCorrect == Spec => []TypeOK
<1>1. IInv => TypeOK
  BY DEF IInv, SealerInv, UnsealerInv, TypeOK
<1> QED
  BY <1>1, Invariance, PTL

(***************************************************************************)
(* Whatever the stream does to the bytes it carries, what unseal has       *)
(* written is the beginning of the message that was sealed.                *)
(***************************************************************************)
THEOREM OutputCorrect == Spec => []OutputIsPrefix
<1>1. IInv => OutputIsPrefix
  BY DEF IInv, UnsealerInv, UnsealerHolds, OutputIsPrefix
<1> QED
  BY <1>1, Invariance, PTL

\* The segment that ended the stream was the one that ends the message.
LEMMA OkCovers ==
  ASSUME UnsealerInv, LastIsWhole PROVE OkIsComplete
BY DEF UnsealerInv, UnsealerHolds, LastIsWhole, OkIsComplete

(***************************************************************************)
(* When unseal returns Ok, all of the message was written.                 *)
(***************************************************************************)
THEOREM OkCorrect == Spec => []OkIsComplete
<1>1. IInv => OkIsComplete
  BY OkCovers DEF IInv, SealerInv
<1> QED
  BY <1>1, Invariance, PTL

(***************************************************************************)
(* When unseal returns Ok, the policies it reports are those of the keys   *)
(* the header and the message were signed with.                            *)
(***************************************************************************)
THEOREM SignerCorrect == Spec => []OkNamesSigner
<1>1. IInv => OkNamesSigner
  BY StreamAssumption
     DEF IInv, UnsealerInv, UnsealerHolds, OkNamesSigner, SigningPolicy, SealerInv, SealerTypeOK
<1> QED
  BY <1>1, Invariance, PTL

(***************************************************************************)
(* The unsealer's counter and the decryptor's position agree, and neither  *)
(* passes the number of segments that were sealed.                         *)
(***************************************************************************)
THEOREM CountersCorrect == Spec => []CountersAgree
<1>1. IInv => CountersAgree
  BY DEF IInv, UnsealerInv, UnsealerHolds, CountersAgree
<1> QED
  BY <1>1, Invariance, PTL

-----------------------------------------------------------------------------
\* Nothing written is taken back.
LEMMA WritingGrows ==
  ASSUME out \in Seq(Nat), NEW m \in Seq(Nat), NEW next, WriteOut(m, next)
  PROVE  Len(out) <= Len(out')
<1>1. Len(m) \in Nat /\ Len(out) \in Nat
  BY LenProperties
<1>2. CASE out' = out \o m
  <2>1. Len(out \o m) = Len(out) + Len(m)
    BY Concat
  <2> QED
    BY <1>1, <1>2, <2>1
<1>3. CASE \E n \in 0..Len(m) - 1 : out' = out \o SubSeq(m, 1, n)
  <2>1. PICK n \in 0..Len(m) - 1 : out' = out \o SubSeq(m, 1, n)
    BY <1>3
  <2> DEFINE t == SubSeq(m, 1, n)
  <2>2. t \in Seq(Nat)
    <3>1. \A i \in 1..n : m[i] \in Nat
      BY <1>1, ElementOfSeq
    <3> QED
      BY <1>1, <3>1, SubSeqProperties
  <2> HIDE DEF t
  <2>3. Len(out \o t) = Len(out) + Len(t) /\ Len(t) \in Nat
    BY <2>2, Concat
  <2> QED
    BY <1>1, <2>1, <2>3 DEF t
<1> QED
  BY <1>2, <1>3 DEF WriteOut

LEMMA OpeningGrows ==
  ASSUME Sealed, UnsealerInv, unseal = "reading",
         NEW bytes, NEW last \in BOOLEAN, NEW next, OpenSegment(bytes, last, next)
  PROVE  Len(out) <= Len(out')
<1>1. out \in Seq(Nat) /\ Len(out) \in Nat
  BY LenProperties DEF UnsealerInv, UnsealerTypeOK
<1>2. CASE UNCHANGED out
  BY <1>1, <1>2
<1>3. CASE Decrypts(bytes, last) /\ WriteOut(Opened.m, next)
  BY <1>1, <1>3, NextSegment, WritingGrows
<1> QED
  BY <1>2, <1>3 DEF OpenSegment

\* A step of a call that has returned changes nothing the receiver sees, and
\* one of a call that has not takes nothing back.
LEMMA OutputGrows ==
  ASSUME Sealed, UnsealerInv,
         \/ UNCHANGED unsealerVars
         \/ Open \/ (\E n \in 1..Len(wire) : Receive(n)) \/ OpenFull \/ OpenLast
         \/ UnsealClose \/ UnsealIOError
         \/ \E ident, usk \in Idents : StartUnseal(ident, usk)
  PROVE  \/ UNCHANGED <<unseal, out, pubId, private>>
         \/ unseal \in UnsealRunning /\ Len(out) <= Len(out')
<1>1. Len(out) \in Nat
  BY LenProperties DEF UnsealerInv, UnsealerTypeOK
<1>2. CASE UNCHANGED unsealerVars
  BY <1>2 DEF unsealerVars
<1>3. CASE Open \/ UnsealClose \/ UnsealIOError \/ \E i, k \in Idents : StartUnseal(i, k)
  BY <1>1, <1>3
     DEF Open, OpenHeader, RejectHeader, UnsealClose, UnsealIOError, StartUnseal, UnsealRunning
<1>4. CASE \E n \in 1..Len(wire) : Receive(n)
  BY <1>4 DEF Receive
<1>5. CASE OpenFull
  <2>1. unseal = "reading"
    BY <1>5 DEF OpenFull
  <2>2. CASE decPos = CounterMax
    BY <1>1, <1>5, <2>1, <2>2 DEF OpenFull, UnsealRunning
  <2>3. CASE decPos # CounterMax
    BY <1>5, <2>1, <2>3, OpeningGrows DEF OpenFull, UnsealRunning
  <2> QED
    BY <2>2, <2>3
<1>6. CASE OpenLast
  BY <1>6, OpeningGrows DEF OpenLast, UnsealRunning
<1> QED
  BY <1>2, <1>3, <1>4, <1>5, <1>6

-----------------------------------------------------------------------------
(***************************************************************************)
(* The two ends implement the delivery of a message: every step of theirs, *)
(* and of what lies between them, is one of MessageDelivery's, or leaves   *)
(* its variables as they are.                                              *)
(***************************************************************************)
LEMMA InitDelivers ==
  ASSUME SealerInit, UnsealerInit PROVE Delivery!Init
<1>1. Prefix(len) \in Seq(Nat)
  BY SealerAssumption, PrefixType DEF SealerInit
<1>2. SigningPolicy \in Policies
  BY DEF SealerInit, SigningPolicy
<1> QED
  BY <1>1, <1>2 DEF Delivery!Init, UnsealerInit, UnsealRunning

\* What the receiver sees of a step, and what there must be to it.
LEMMA StepDelivers ==
  ASSUME InputsOK, UNCHANGED inputVars, IsPrefixOfMessage(out), IsPrefixOfMessage(out)',
         \/ UNCHANGED <<unseal, out, pubId, private>>
         \/ unseal \in UnsealRunning /\ Len(out) <= Len(out'),
         unseal' = "ok" =>
           /\ out' = Prefix(len')
           /\ polId' = SigningPolicy'
           /\ private' = IF polId' = pubId' THEN NoPolicy ELSE polId'
  PROVE  [Delivery!Next]_(Delivery!vars)
<1>1. len' = len /\ pubPol' = pubPol /\ SigningPolicy' = SigningPolicy
  BY DEF inputVars, SigningPolicy
<1>2. Prefix(len)' = Prefix(len)
  BY <1>1 DEF Prefix
<1>3. CASE UNCHANGED <<unseal, out, pubId, private>>
  BY <1>1, <1>2, <1>3 DEF Delivery!vars
<1>4. CASE unseal \in UnsealRunning /\ Len(out) <= Len(out')
  <2>1. Delivery!More
    <3>1. len \in Nat
      BY SealerAssumption DEF InputsOK
    <3>2. PICK a \in 0..len : out = Prefix(a)
      BY DEF IsPrefixOfMessage
    <3>3. PICK b \in 0..len : out' = Prefix(b)
      BY <1>1 DEF IsPrefixOfMessage, Prefix
    <3>4. /\ Len(out) = a /\ \A i \in 1..a : out[i] = i
          /\ Len(out') = b /\ \A i \in 1..b : out'[i] = i
          /\ Len(Prefix(len)) = len /\ \A i \in 1..len : Prefix(len)[i] = i
      BY <3>1, <3>2, <3>3, PrefixType
    <3>5. a <= b
      BY <1>4, <3>4
    <3>6. Delivery!IsPrefix(out, out')
      BY <3>1, <3>4, <3>5 DEF Delivery!IsPrefix
    <3>7. Delivery!IsPrefix(out', Prefix(len))
      BY <3>1, <3>4 DEF Delivery!IsPrefix
    <3> QED
      BY <1>1, <1>2, <3>6, <3>7 DEF Delivery!More
  <2>2. unseal # "ok"
    BY <1>4 DEF UnsealRunning
  <2>3. CASE unseal' \in UnsealRunning
    <3>1. unseal' # "ok"
      BY <2>3 DEF UnsealRunning
    <3>2. Delivery!Deliver
      BY <1>4, <2>1, <2>2, <2>3, <3>1 DEF Delivery!Deliver, UnsealRunning
    <3> QED
      BY <3>2 DEF Delivery!Next
  <2>4. CASE unseal' = "ok"
    <3>1. /\ out' = Prefix(len)
          /\ (IF private' = NoPolicy THEN pubId' ELSE private') = SigningPolicy
      <4>1. SigningPolicy # NoPolicy
        BY SigningPolicyType, StreamAssumption
      <4> QED
        BY <1>1, <1>2, <2>4, <4>1
    <3>2. Delivery!Accept
      BY <1>4, <2>1, <2>2, <2>4, <3>1 DEF Delivery!Accept
    <3> QED
      BY <3>2 DEF Delivery!Next
  <2>5. CASE unseal' \notin UnsealRunning /\ unseal' # "ok"
    <3>1. Delivery!Reject
      BY <1>4, <2>1, <2>2, <2>5 DEF Delivery!Reject, UnsealRunning
    <3> QED
      BY <3>1 DEF Delivery!Next
  <2> QED
    BY <2>3, <2>4, <2>5
<1> QED
  BY <1>3, <1>4

LEMMA StreamStepDelivers ==
  ASSUME IInv, IInv', [Next]_vars
  PROVE  [Delivery!Next]_(Delivery!vars)
<1>1. SealerInv /\ UnsealerInv /\ Sealed
  BY InputsType DEF IInv, SealerInv, Sealed
<1>2. UNCHANGED inputVars
  <2>1. CASE SealerStep \/ SealerError
    BY <1>1, <2>1, SealerKeeps DEF SealerStep, SealerError
  <2>2. CASE ReceiverStarts \/ UnsealerStep \/ UnsealerError \/ Damage \/ Done \/ UNCHANGED vars
    BY <2>2 DEF ReceiverStarts, UnsealerStep, UnsealerError, Damage, Done, vars, sealerVars,
                inputVars
  <2> QED
    BY <2>1, <2>2 DEF Next
<1>3. \/ UNCHANGED <<unseal, out, pubId, private>>
      \/ unseal \in UnsealRunning /\ Len(out) <= Len(out')
  <2>1. CASE SealerStep \/ SealerError \/ Damage \/ Done \/ UNCHANGED vars
    BY <2>1 DEF SealerStep, SealerError, Damage, Done, vars, unsealerVars
  <2>2. CASE ReceiverStarts \/ UnsealerStep \/ UnsealerError
    BY <1>1, <2>2, OutputGrows DEF ReceiverStarts, UnsealerStep, UnsealStep, UnsealerError
  <2> QED
    BY <2>1, <2>2 DEF Next
<1>4. /\ IsPrefixOfMessage(out) /\ IsPrefixOfMessage(out)'
      /\ unseal' = "ok" => /\ polId' = SigningPolicy'
                           /\ private' = IF polId' = pubId' THEN NoPolicy ELSE polId'
  BY DEF IInv, UnsealerInv, UnsealerHolds
<1>5. unseal' = "ok" => out' = Prefix(len')
  <2>1. UnsealerInv' /\ LastIsWhole'
    BY DEF IInv, SealerInv
  <2> QED
    BY <2>1 DEF UnsealerInv, UnsealerHolds, LastIsWhole
<1> QED
  BY <1>1, <1>2, <1>3, <1>4, <1>5, StepDelivers DEF Sealed

(***************************************************************************)
(* The two ends of a stream implement the delivery of a message: what      *)
(* unseal has written only grows, and always as the message goes on; its   *)
(* verdict is final; it is Ok only with all of the message written and its *)
(* signer named.                                                           *)
(***************************************************************************)
THEOREM DeliveryImplemented == Spec => Implements
<1>1. Init => Delivery!Init
  BY InitDelivers DEF Init
<1>2. IInv /\ IInv' /\ [Next]_vars => [Delivery!Next]_(Delivery!vars)
  BY StreamStepDelivers
<1> QED
  BY <1>1, <1>2, Invariance, PTL DEF Spec, Implements, Delivery!Spec
=============================================================================
