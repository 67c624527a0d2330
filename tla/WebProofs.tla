------------------------------ MODULE WebProofs ------------------------------
(***************************************************************************)
(* Proofs about the sealer and the unsealer for the web, each talking to   *)
(* either implementation of the other: for messages, segments, chunks and  *)
(* policies of any size, any number of faults and of calls, the output is  *)
(* a prefix of the message; while no read fails, what is sealed is cut as  *)
(* in Rust, and Ok means all of the message.                               *)
(***************************************************************************)
EXTENDS WebTransfer, CutProofs

-----------------------------------------------------------------------------
(***************************************************************************)
(* The inductive invariant.  That there is room in the sealer's buffer is  *)
(* needed for the types already: how much of a chunk is left depends on it.*)
(* A stream that fails looks to the web's sealer as one that ends, so that *)
(* only without failures its last segment ends the message.                *)
(***************************************************************************)
WebSealerHolds ==
  /\ seal = "ready" => /\ segs = <<>> /\ pend = <<>> /\ signed = <<>>
                       /\ rd = 0 /\ chunk = 0 /\ counter = 0
  /\ seal = "reading" =>
       /\ Cutting(rd - chunk) /\ rd <= len
       /\ CanonicalCut
       /\ Room = 0 => pend = <<>> /\ segs = <<>>
  /\ "read" \notin IOErrors => LastIsWhole /\ (CanonicalCut \/ FullLastSegment)

WebSealerInv == WireTypeOK /\ WebSealerTypeOK /\ SegmentsChain /\ WebSealerHolds

(***************************************************************************)
(* The verifier keeps what earlier calls absorbed, so that nothing can be  *)
(* said of it: a segment whose signature it accepts is the right one.      *)
(***************************************************************************)
WebUnsealerHolds ==
  /\ decPos = ucounter
  /\ unseal \in {"new", "opened"} => ucounter = 0 /\ out = <<>>
  /\ unseal = "reading" =>
       /\ ucounter <= Len(segs)
       /\ out = Transcript(ucounter)
  /\ unseal \in {"closing", "ok"} =>
       polId = SigningPolicy /\ \E k \in 1..Len(segs) : segs[k].last /\ out = segs[k].sig.tr
  /\ pubId \in {NoPolicy, pubPol}
  /\ unseal \in {"opened", "reading", "closing", "ok"} => pubId = pubPol
  /\ calls = 0 => unseal = "opened" \/ pubId = NoPolicy
  /\ unseal = "ok" => private = IF polId = pubId THEN NoPolicy ELSE polId
  /\ IsPrefixOfMessage(out)
  /\ Len(buf) < BufSize

WebUnsealerInv == WebUnsealerTypeOK /\ WebUnsealerHolds

-----------------------------------------------------------------------------
(***************************************************************************)
(* The web's sealer.                                                       *)
(***************************************************************************)
LEMMA WebInputs ==
  ASSUME WebSealerTypeOK
  PROVE  InputsOK /\ len \in Nat /\ CounterMax \in Nat /\ SegmentSize \in Nat
BY StreamAssumption, SealerAssumption DEF WebSealerTypeOK, InputsOK

LEMMA FeedType ==
  ASSUME wire \in Seq(Bytes), eof \in BOOLEAN,
         NEW bytes \in Seq(Bytes), NEW next, Feed(bytes, next)
  PROVE  /\ wire' \in Seq(Bytes)
         /\ eof' \in BOOLEAN
         /\ seal' \in {next, "WriteError"}
<1>1. CASE wire' = wire \o bytes /\ seal' = next /\ eof' = (next \in WebSealFailed)
  <2>1. wire' \in Seq(Bytes)
    BY <1>1, ConcatBytes
  <2> QED
    BY <1>1, <2>1
<1>2. CASE UNCHANGED wire /\ Fail("WriteError")
  BY <1>2 DEF Fail
<1> QED
  BY <1>1, <1>2 DEF Feed

\* In the beginning the two sealers are alike.
LEMMA WebHeaderKeeps ==
  ASSUME WebSealerInv, WebSealHeader
  PROVE  WebSealerInv' /\ SegmentsKept /\ UNCHANGED inputVars
<1>1. /\ seal = "ready" /\ chunk' = chunk /\ SealHeader
      /\ UNCHANGED <<inputVars, rd, pend, counter, encPos, signed, segs>>
  BY DEF WebSealHeader, SealHeader
<1>2. SealerInv
  <2>1. /\ segs = <<>> /\ pend = <<>> /\ signed = <<>> /\ rd = 0 /\ counter = 0 /\ encPos = 0
        /\ Len(segs) = 0
    BY <1>1 DEF WebSealerInv, WebSealerHolds, WebSealerTypeOK
  <2>2. SealerTypeOK
    BY <1>1, <2>1, StreamAssumption DEF WebSealerInv, WebSealerTypeOK, SealerTypeOK, SealRunning
  <2>3. LastIsWhole /\ SealerHolds
    BY <1>1, <2>1 DEF LastIsWhole, SealerHolds
  <2> QED
    BY <2>2, <2>3 DEF WebSealerInv, SealerInv
<1>3. /\ SealerInv' /\ SegmentsKept
      /\ seal' \in {"ConstraintViolation", "reading", "WriteError"}
      /\ seal' = "reading" => Sealing' /\ signed' \o pend' = Prefix(0)
  BY <1>1, <1>2, SealHeaderKeeps
<1>4. CanonicalCut' /\ (seal' = "reading" => ReadingHolds')
  BY <1>1, <1>2, SealHeaderCuts
<1>5. rd' = 0 /\ chunk' = 0 /\ pend' = <<>> /\ segs' = <<>>
  BY <1>1 DEF WebSealerInv, WebSealerHolds
<1>6. WebSealerTypeOK'
  BY <1>1, <1>3, <1>5
     DEF SealerInv, SealerTypeOK, WebSealerInv, WebSealerTypeOK, SealRunning, WebSealFailed
<1>7. seal' = "reading" => Cutting(rd - chunk)' /\ rd' <= len'
  <2> SUFFICES ASSUME seal' = "reading" PROVE Cutting(rd - chunk)' /\ rd' <= len'
    OBVIOUS
  <2>1. CutTypes' /\ SegmentsChain'
    BY <1>3, <1>6 DEF SealerInv, WebSealerTypeOK, CutTypes, InputsOK
  <2>2. Sealing' /\ ReadingHolds' /\ signed' \o pend' = Prefix(0)
    BY <1>3, <1>4
  <2>3. /\ rd' - chunk' \in Nat /\ rd' - chunk' <= len' /\ rd' <= len'
        /\ signed' \o pend' = Prefix(rd' - chunk')
    <3>1. rd' - chunk' = 0 /\ len' \in Nat
      BY <1>5, <1>6, SealerAssumption DEF WebSealerTypeOK
    <3> QED
      BY <1>5, <2>2, <3>1
  <2> QED
    BY <2>1, <2>2, <2>3 DEF Cutting, Prefix
<1>8. WebSealerHolds'
  BY <1>3, <1>4, <1>5, <1>7 DEF WebSealerHolds, SealerInv
<1> QED
  BY <1>1, <1>3, <1>6, <1>8 DEF WebSealerInv, SealerInv

\* What a sealer that reads holds.
LEMMA WebReading ==
  ASSUME WebSealerInv, seal = "reading"
  PROVE  /\ WireTypeOK /\ InputsOK /\ SegmentsChain /\ Sealing /\ CanonicalCut
         /\ Cutting(rd - chunk) /\ signed \o pend = Prefix(rd - chunk)
         /\ segs \in Seq(SegmentType) /\ wire \in Seq(Bytes) /\ eof \in BOOLEAN
         /\ pend \in Seq(Nat) /\ signed \in Seq(Nat) /\ start \in Nat
         /\ rd \in Nat /\ chunk \in Nat /\ rd - chunk \in Nat /\ rd <= len /\ len \in Nat
         /\ Room \in Nat /\ CounterMax \in Nat /\ counter \in 0..CounterMax /\ encPos = 0
         /\ Room = 0 => pend = <<>> /\ segs = <<>>
<1>1. Cutting(rd - chunk) /\ CanonicalCut /\ rd <= len /\ (Room = 0 => pend = <<>> /\ segs = <<>>)
  BY DEF WebSealerInv, WebSealerHolds
<1>2. /\ pend \in Seq(Nat) /\ signed \in Seq(Nat) /\ start \in Nat /\ rd \in Nat /\ chunk \in 0..rd
      /\ counter \in 0..CounterMax /\ encPos = 0
  BY DEF WebSealerInv, WebSealerTypeOK
<1>3. chunk \in Nat /\ rd - chunk \in Nat
  BY <1>2
<1>4. Room \in Nat
  BY <1>1, SegmentEnds
<1> QED
  BY <1>1, <1>2, <1>3, <1>4, WebInputs DEF WebSealerInv, Cutting, WireTypeOK

\* The next bytes of the chunk are the next of the message.
LEMMA TakenGoesOn ==
  ASSUME WebSealerInv, seal = "reading", NEW n \in Nat, n <= chunk
  PROVE  /\ pend \o Taken(n) \in Seq(Nat) /\ Len(pend \o Taken(n)) = Len(pend) + n
         /\ signed \o (pend \o Taken(n)) = Prefix((rd - chunk) + n)
         /\ (rd - chunk) + n \in 0..len
<1>1. /\ pend \in Seq(Nat) /\ signed \in Seq(Nat) /\ rd \in Nat /\ chunk \in Nat
      /\ rd - chunk \in Nat /\ rd <= len /\ len \in Nat
      /\ signed \o pend = Prefix(rd - chunk)
  BY WebReading
<1>2. PICK pos \in Nat : pos = rd - chunk
  BY <1>1
<1>3. Taken(n) = Slice(pos, n) /\ Slice(pos, n) \in Seq(Nat) /\ Len(Slice(pos, n)) = n
  BY <1>2, SliceType DEF Taken
<1>4. pend \o Slice(pos, n) \in Seq(Nat) /\ Len(pend \o Slice(pos, n)) = Len(pend) + n
  BY <1>1, <1>3, Concat
<1>5. signed \o (pend \o Slice(pos, n)) = Prefix(pos + n)
  <2>1. signed \o pend = Prefix(pos) /\ pend \in Seq(Nat) /\ signed \in Seq(Nat)
    BY <1>1, <1>2, Zenon
  <2> QED
    BY <2>1, PrefixGoesOn
<1>6. pos + n \in 0..len
  BY <1>1, <1>2
<1> QED
  BY <1>2, <1>3, <1>4, <1>5, <1>6

\* A segment made of m is sealed, and fed to the sink or not.
LEMMA WebSealSegment ==
  ASSUME WebSealerInv, seal = "reading", UNCHANGED inputVars,
         NEW m \in Seq(Nat), NEW last \in BOOLEAN, NEW n \in 0..len, NEW next,
         signed \o m = Prefix(n),
         segs' = Append(segs, NewSegment(m, last)),
         signed' = signed \o m,
         Feed(Ciphertext(Len(segs) + 1, NewSegment(m, last)), next)
  PROVE  /\ WireTypeOK' /\ InputsOK' /\ SegmentsKept /\ SegmentsChain'
         /\ signed' \in Seq(Nat)
         /\ seal' \in {next, "WriteError"}
         /\ (last => n = len) => LastIsWhole'
         /\ Len(segs') = Len(segs) + 1
         /\ ~last /\ counter' = counter + 1 => Sealing'
<1> DEFINE seg == NewSegment(m, last)
<1>1. /\ WireTypeOK /\ InputsOK /\ SegmentsChain /\ Sealing /\ signed \in Seq(Nat)
      /\ Len(segs) \in Nat /\ wire \in Seq(Bytes) /\ eof \in BOOLEAN
  BY WebReading, LenProperties
<1>2. /\ seg \in SegmentType /\ segs' \in Seq(SegmentType)
      /\ Len(segs') = Len(segs) + 1
      /\ SegmentsKept /\ SegmentsChain'
      /\ (last => n = len) => LastIsWhole'
      /\ signed \o m = Transcript(Len(segs))'
      /\ ~last => \A k \in 1..Len(segs') : ~segs'[k].last
  BY <1>1, SegmentAdded
<1> HIDE DEF seg
<1>3. Ciphertext(Len(segs) + 1, seg) \in Seq(Bytes)
  BY <1>1, <1>2, CiphertextType
<1>4. wire' \in Seq(Bytes) /\ eof' \in BOOLEAN /\ seal' \in {next, "WriteError"}
  BY <1>1, <1>3, FeedType DEF seg
<1>5. WireTypeOK' /\ InputsOK' /\ signed' \in Seq(Nat)
  BY <1>1, <1>2, <1>4, Concat DEF WireTypeOK, InputsOK, inputVars
<1>6. ~last /\ counter' = counter + 1 => Sealing'
  <2>1. signed' = Transcript(Len(segs))'
    BY <1>2 DEF Transcript
  <2> QED
    BY <1>1, <1>2, <2>1 DEF Sealing
<1> QED
  BY <1>2, <1>4, <1>5, <1>6

\* A step after which the sealer does not read, and after which the cut is as
\* the invariant wants it whatever it was.
LEMMA WebSealerLeaves ==
  ASSUME WebSealerInv, UNCHANGED <<inputVars, segs>>, WireTypeOK', WebSealerTypeOK',
         seal' \notin {"ready", "reading"}
  PROVE  WebSealerInv' /\ SegmentsKept /\ UNCHANGED inputVars
<1>1. segs \in Seq(SegmentType) /\ SegmentsChain
  BY DEF WebSealerInv, WireTypeOK
<1>2. /\ SegmentsKept /\ SegmentsChain' /\ (LastIsWhole => LastIsWhole')
      /\ (CanonicalCut => CanonicalCut')
  BY <1>1, NoSegment, CutStays
<1>3. FullLastSegment' = FullLastSegment
  BY DEF FullLastSegment, inputVars, SigningPolicy
<1>4. WebSealerHolds'
  BY <1>2, <1>3 DEF WebSealerInv, WebSealerHolds
<1> QED
  BY <1>2, <1>4 DEF WebSealerInv

\* While it fills its buffer, nothing that was sealed or signed changes.
LEMMA WebFilling ==
  ASSUME WebSealerInv, ReadChunk \/ FillChunk
  PROVE  WebSealerInv' /\ SegmentsKept /\ UNCHANGED inputVars
<1>1. /\ seal = "reading" /\ seal' = seal
      /\ UNCHANGED <<inputVars, start, counter, encPos, signed, wireVars>>
      /\ UNCHANGED <<wire, eof, segs>>
  BY DEF ReadChunk, FillChunk, wireVars
<1>2. /\ WireTypeOK /\ InputsOK /\ SegmentsChain /\ Sealing /\ CanonicalCut
      /\ Cutting(rd - chunk) /\ signed \o pend = Prefix(rd - chunk)
      /\ segs \in Seq(SegmentType)
      /\ pend \in Seq(Nat) /\ signed \in Seq(Nat) /\ start \in Nat
      /\ rd \in Nat /\ chunk \in Nat /\ rd - chunk \in Nat /\ rd <= len /\ len \in Nat
      /\ Room \in Nat /\ CounterMax \in Nat /\ counter \in 0..CounterMax /\ encPos = 0
      /\ Room = 0 => pend = <<>> /\ segs = <<>>
  BY <1>1, WebReading
<1>3. /\ SegmentsKept /\ SegmentsChain' /\ (LastIsWhole => LastIsWhole') /\ CanonicalCut'
      /\ Sealing' /\ WireTypeOK' /\ InputsOK'
  <2>1. Sealing'
    BY <1>1, <1>2, NoSegment DEF Sealing
  <2>2. WireTypeOK'
    BY <1>1, <1>2 DEF WireTypeOK
  <2> QED
    BY <1>1, <1>2, <2>1, <2>2, NoSegment, CutStays
<1>4. FullLastSegment' = FullLastSegment /\ len' = len
  BY <1>1 DEF FullLastSegment, inputVars, SigningPolicy
<1>5. /\ ReadingHolds
      /\ Len(pend) \in Nat /\ Len(segs) \in Nat /\ PolicySize \in Nat /\ SegmentSize \in Nat
  BY <1>2, CutSizes DEF Cutting
\* It is left to show what there is now, and that it fits.
<1>6. ASSUME rd' \in Nat, chunk' \in 0..rd', rd' <= len, pend' \in Seq(Nat),
             signed \o pend' = Prefix(rd' - chunk'), start + Len(pend') <= SegmentSize,
             SegmentSize - (start + Len(pend')) = 0 => pend' = <<>> /\ segs = <<>>
      PROVE  WebSealerInv' /\ SegmentsKept /\ UNCHANGED inputVars
  <2>1. WebSealerTypeOK'
    BY <1>1, <1>2, <1>3, <1>6 DEF WebSealerTypeOK, SealRunning, InputsOK
  <2>2. ReadingHolds'
    BY <1>1, <1>5, <1>6, ReferenceStays DEF ReadingHolds
  <2>3. CutTypes'
    BY <1>1, <1>2, <1>3, <1>6 DEF CutTypes
  <2>4. rd' - chunk' \in Nat /\ rd' - chunk' <= len'
    <3>1. PICK r : r = rd'
      OBVIOUS
    <3>2. PICK c : c = chunk'
      OBVIOUS
    <3>3. r \in Nat /\ c \in 0..r /\ r <= len /\ len \in Nat
      BY <1>2, <1>6, <3>1, <3>2
    <3>4. r - c \in Nat /\ r - c <= len
      BY <3>3
    <3> QED
      BY <1>4, <3>1, <3>2, <3>4
  <2>5. Cutting(rd - chunk)'
    BY <1>1, <1>3, <1>6, <2>2, <2>3, <2>4 DEF Cutting, Prefix
  <2>6. Room' = 0 => pend' = <<>> /\ segs' = <<>>
    BY <1>1, <1>6 DEF Room
  <2>7. WebSealerHolds'
    BY <1>1, <1>3, <1>4, <1>6, <2>5, <2>6 DEF WebSealerHolds, WebSealerInv
  <2> QED
    BY <1>1, <1>3, <2>1, <2>7 DEF WebSealerInv
<1>7. CASE ReadChunk
  <2>1. PICK n \in 1..len - rd : chunk' = n /\ rd' = rd + n
    BY <1>7 DEF ReadChunk
  <2>2. chunk = 0 /\ UNCHANGED <<pend, start>>
    BY <1>7 DEF ReadChunk
  <2>3. rd' - chunk' = rd - chunk /\ rd' \in Nat /\ chunk' \in 0..rd' /\ rd' <= len
    BY <1>2, <2>1, <2>2
  <2> QED
    BY <1>2, <1>5, <1>6, <2>2, <2>3 DEF Room, ReadingHolds
<1>8. CASE FillChunk
  <2>1. chunk < Room /\ pend' = pend \o Taken(chunk) /\ chunk' = 0 /\ UNCHANGED <<rd, start>>
    BY <1>8 DEF FillChunk, Fits
  <2>2. /\ pend' \in Seq(Nat) /\ Len(pend') = Len(pend) + chunk
        /\ signed \o pend' = Prefix((rd - chunk) + chunk)
    <3>1. PICK n \in Nat : n = chunk
      BY <1>2
    <3>2. /\ pend \o Taken(n) \in Seq(Nat) /\ Len(pend \o Taken(n)) = Len(pend) + n
          /\ signed \o (pend \o Taken(n)) = Prefix((rd - chunk) + n)
      <4>1. n <= chunk
        BY <3>1
      <4> QED
        BY <1>1, <4>1, TakenGoesOn
    <3> QED
      BY <2>1, <3>1, <3>2
  <2>3. rd' - chunk' = (rd - chunk) + chunk /\ chunk' \in 0..rd' /\ rd' \in Nat
    BY <1>2, <2>1
  <2>4. start + Len(pend') < SegmentSize
    BY <1>2, <1>5, <2>1, <2>2 DEF Room
  <2>5. start + Len(pend') <= SegmentSize /\ SegmentSize - (start + Len(pend')) # 0
    BY <1>2, <1>5, <2>2, <2>4
  <2> QED
    BY <1>2, <1>6, <2>1, <2>2, <2>3, <2>5
<1> QED
  BY <1>7, <1>8

LEMMA WebSealFullKeeps ==
  ASSUME WebSealerInv, WebSealFull
  PROVE  WebSealerInv' /\ SegmentsKept /\ UNCHANGED inputVars
<1>1. /\ seal = "reading" /\ ~(chunk < Room) /\ chunk' = chunk - Room /\ pend' = <<>> /\ start' = 0
      /\ UNCHANGED inputVars /\ UNCHANGED <<rd, encPos>>
      /\ counter' = IF counter = CounterMax THEN counter ELSE counter + 1
  BY DEF WebSealFull, Fits
<1>2. /\ WireTypeOK /\ InputsOK /\ SegmentsChain /\ Sealing /\ CanonicalCut
      /\ Cutting(rd - chunk)
      /\ rd \in Nat /\ chunk \in Nat /\ rd - chunk \in Nat /\ rd <= len /\ len \in Nat
      /\ Room \in Nat /\ CounterMax \in Nat /\ counter \in 0..CounterMax /\ encPos = 0
      /\ Len(segs) \in Nat /\ signed \in Seq(Nat)
  BY <1>1, WebReading, LenProperties
<1> DEFINE next == IF CounterEnds THEN "Symmetric" ELSE "reading"
<1>3. PICK m : m = pend \o Taken(Room)
  OBVIOUS
<1>4. /\ segs' = Append(segs, NewSegment(m, FALSE)) /\ signed' = signed \o m
      /\ Feed(Ciphertext(Len(segs) + 1, NewSegment(m, FALSE)), next)
  BY <1>3, Zenon DEF WebSealFull
<1>5. next \in {"Symmetric", "reading"} /\ (next = "reading" => counter # CounterMax)
  BY DEF CounterEnds
<1> HIDE DEF next
<1>6. PICK pos \in Nat : pos = rd - chunk
  BY <1>2
<1>7. /\ m \in Seq(Nat) /\ signed \o m = Prefix(pos + Room) /\ pos + Room \in 0..len
      /\ pos + Room <= len
  <2>1. Room <= chunk
    BY <1>1, <1>2
  <2>2. m \in Seq(Nat) /\ signed \o m = Prefix(pos + Room) /\ pos + Room \in 0..len
    BY <1>1, <1>2, <1>3, <1>6, <2>1, TakenGoesOn
  <2> QED
    BY <1>2, <2>2
<1>8. /\ WireTypeOK' /\ InputsOK' /\ SegmentsKept /\ SegmentsChain' /\ signed' \in Seq(Nat)
      /\ seal' \in {next, "WriteError"} /\ LastIsWhole'
      /\ Len(segs') = Len(segs) + 1
      /\ counter' = counter + 1 => Sealing'
  <2>1. PICK n \in 0..len : n = pos + Room
    BY <1>7
  <2>2. PICK last \in BOOLEAN : last = FALSE
    OBVIOUS
  <2>3. /\ signed \o m = Prefix(n) /\ segs' = Append(segs, NewSegment(m, last))
        /\ Feed(Ciphertext(Len(segs) + 1, NewSegment(m, last)), next)
    BY <1>4, <1>7, <2>1, <2>2
  <2>4. /\ WireTypeOK' /\ InputsOK' /\ SegmentsKept /\ SegmentsChain' /\ signed' \in Seq(Nat)
        /\ seal' \in {next, "WriteError"} /\ ((last => n = len) => LastIsWhole')
        /\ Len(segs') = Len(segs) + 1
        /\ ~last /\ counter' = counter + 1 => Sealing'
    BY <1>1, <1>4, <1>7, <2>3, WebSealSegment
  <2> QED
    BY <2>2, <2>4
<1>9. CanonicalCut' /\ ReadingHolds'
  BY <1>1, <1>2, <1>4, <1>6, <1>7, FullCuts
<1>10. /\ chunk' \in 0..rd' /\ rd' \in Nat /\ rd' <= len' /\ rd' - chunk' = pos + Room
       /\ rd' - chunk' \in Nat /\ rd' - chunk' <= len'
  BY <1>1, <1>2, <1>6, <1>7 DEF inputVars
<1>11. pend' \in Seq(Nat) /\ start' \in Nat /\ counter' \in 0..CounterMax
  BY <1>1, <1>2, EmptySeq
<1>12. WebSealerTypeOK'
  BY <1>1, <1>2, <1>5, <1>8, <1>10, <1>11
     DEF WebSealerTypeOK, SealRunning, WebSealFailed, InputsOK
<1>13. signed' \o pend' = Prefix(rd' - chunk')
  <2>1. signed' \o <<>> = signed'
    BY <1>8, ConcatEmptySeq
  <2> QED
    BY <1>1, <1>4, <1>7, <1>10, <2>1
<1>14. seal' = "reading" => Cutting(rd - chunk)'
  <2> SUFFICES ASSUME seal' = "reading" PROVE Cutting(rd - chunk)'
    OBVIOUS
  <2>1. Sealing'
    BY <1>1, <1>5, <1>8
  <2>2. CutTypes'
    BY <1>8, <1>11 DEF CutTypes
  <2> QED
    BY <1>8, <1>9, <1>10, <1>13, <2>1, <2>2 DEF Cutting, Prefix
<1>15. Room' # 0
  BY <1>1, StreamAssumption DEF Room
<1>16. WebSealerHolds'
  BY <1>5, <1>8, <1>9, <1>10, <1>14, <1>15 DEF WebSealerHolds
<1> QED
  BY <1>1, <1>8, <1>12, <1>16 DEF WebSealerInv

LEMMA WebSealLastKeeps ==
  ASSUME WebSealerInv, WebSealLast
  PROVE  WebSealerInv' /\ SegmentsKept /\ UNCHANGED inputVars
<1>1. /\ seal = "reading" /\ chunk = 0 /\ (rd = len \/ "read" \in IOErrors)
      /\ UNCHANGED inputVars /\ UNCHANGED <<chunk, rd, start, pend, counter, encPos>>
  BY DEF WebSealLast, WebAtEnd
<1>2. /\ WireTypeOK /\ InputsOK /\ SegmentsChain /\ Sealing /\ CanonicalCut
      /\ Cutting(rd - chunk) /\ signed \o pend = Prefix(rd - chunk)
      /\ pend \in Seq(Nat) /\ signed \in Seq(Nat) /\ start \in Nat
      /\ rd \in Nat /\ rd - chunk = rd /\ rd <= len /\ len \in Nat
      /\ Room \in Nat /\ (Room = 0 => pend = <<>> /\ segs = <<>>)
  BY <1>1, WebReading
<1>3. /\ segs' = Append(segs, NewSegment(pend, TRUE)) /\ signed' = signed \o pend
      /\ Feed(Ciphertext(Len(segs) + 1, NewSegment(pend, TRUE)), "closing")
  BY Zenon DEF WebSealLast
<1>4. PICK n \in 0..len : n = rd
  BY <1>2
<1>5. signed \o pend = Prefix(n)
  BY <1>2, <1>4
<1>6. /\ WireTypeOK' /\ InputsOK' /\ SegmentsKept /\ SegmentsChain' /\ signed' \in Seq(Nat)
      /\ seal' \in {"closing", "WriteError"} /\ (n = len => LastIsWhole')
  BY <1>1, <1>2, <1>3, <1>5, WebSealSegment
<1>7. WebSealerTypeOK'
  BY <1>1, <1>6 DEF WebSealerInv, WebSealerTypeOK, SealRunning, WebSealFailed, InputsOK
<1>8. rd = len => CanonicalCut' \/ FullLastSegment'
  <2> SUFFICES ASSUME rd = len PROVE CanonicalCut' \/ FullLastSegment'
    OBVIOUS
  <2>1. Cutting(len)
    <3>1. Cutting(rd)
      BY <1>2
    <3> QED
      BY <3>1
  <2>2. CASE Room > 0
    BY <1>1, <1>2, <1>3, <2>1, <2>2, LastCuts
  <2>3. CASE ~(Room > 0)
    <3>1. Room = 0 /\ pend = <<>> /\ segs = <<>> /\ Len(<<>>) = 0
      <4>1. Room = 0
        BY <1>2, <2>3
      <4> QED
        BY <1>2, <4>1, EmptySeq
    <3>2. len = 0 /\ start = PolicySize
      <4>1. len = SealedTo(Len(segs)) + Len(pend) /\ Len(segs) = 0 /\ ReadingHolds
        BY <2>1, <3>1, SegmentEnds DEF Cutting
      <4> QED
        BY <3>1, <4>1 DEF SealedTo, ReadingHolds
    <3>3. PolicySize = SegmentSize
      BY <1>2, <3>1, <3>2, InputSizes DEF Room
    <3>4. FullLastSegment
      BY <3>2, <3>3 DEF FullLastSegment, PolicySize
    <3> QED
      BY <1>1, <3>4 DEF FullLastSegment, inputVars, SigningPolicy
  <2> QED
    BY <2>2, <2>3
<1>9. WebSealerHolds'
  BY <1>1, <1>4, <1>6, <1>8 DEF WebSealerHolds
<1> QED
  BY <1>1, <1>6, <1>7, <1>9 DEF WebSealerInv

LEMMA WebSealerKeeps ==
  ASSUME WebSealerInv, WebSealStep \/ WebSealError
  PROVE  WebSealerInv' /\ SegmentsKept /\ UNCHANGED inputVars
<1>1. CASE WebSealClose \/ WebSealError
  <2>1. /\ UNCHANGED <<inputVars, segs>>
        /\ UNCHANGED <<wire, chunk, rd, start, pend, counter, encPos, signed>>
        /\ eof' = TRUE /\ seal' \in {"sealed", "CastError", "WriteError"}
    BY <1>1 DEF WebSealClose, SealClose, WebSealError, Fail
  <2>2. WireTypeOK' /\ WebSealerTypeOK'
    BY <2>1 DEF WebSealerInv, WireTypeOK, WebSealerTypeOK, WebSealFailed, inputVars
  <2> QED
    BY <2>1, <2>2, WebSealerLeaves
<1> QED
  BY <1>1, WebHeaderKeeps, WebFilling, WebSealFullKeeps, WebSealLastKeeps DEF WebSealStep

\* What the unsealer does leaves the sealer's part alone.
LEMMA WebSealerStays ==
  ASSUME WebSealerInv, UNCHANGED <<segs, sealerVars, chunk>>, WireTypeOK'
  PROVE  WebSealerInv' /\ SegmentsKept /\ UNCHANGED inputVars
<1>1. /\ UNCHANGED <<inputVars, segs>> /\ segs \in Seq(SegmentType)
      /\ UNCHANGED <<seal, rd, chunk, start, pend, counter, encPos, signed>>
  BY DEF sealerVars, inputVars, WebSealerInv, WireTypeOK
<1>2. /\ SegmentsKept /\ SegmentsChain' /\ (LastIsWhole => LastIsWhole')
      /\ (CanonicalCut => CanonicalCut') /\ (ReadingHolds => ReadingHolds')
      /\ (Sealing => Sealing')
  <2>1. Sealing => Sealing'
    BY <1>1, NoSegment DEF Sealing
  <2> QED
    BY <1>1, <2>1, NoSegment, CutStays DEF WebSealerInv
<1>3. WebSealerTypeOK'
  BY <1>1 DEF WebSealerInv, WebSealerTypeOK, inputVars
<1>4. FullLastSegment' = FullLastSegment /\ len' = len /\ Room' = Room
  BY <1>1 DEF FullLastSegment, inputVars, SigningPolicy, Room
<1>5. Cutting(rd - chunk) => Cutting(rd - chunk)'
  BY <1>1, <1>2, <1>4 DEF Cutting, CutTypes, Prefix, InputsOK, inputVars
<1>6. WebSealerHolds'
  BY <1>1, <1>2, <1>4, <1>5 DEF WebSealerInv, WebSealerHolds
<1> QED
  BY <1>1, <1>2, <1>3, <1>6 DEF WebSealerInv

-----------------------------------------------------------------------------
(***************************************************************************)
(* The web's unsealer.                                                     *)
(***************************************************************************)
LEMMA WebUnsealerTypes ==
  ASSUME Sealed, WebUnsealerInv
  PROVE  /\ wire \in Seq(Bytes) /\ eof \in BOOLEAN /\ segs \in Seq(SegmentType)
         /\ Len(wire) \in Nat /\ Len(segs) \in Nat /\ Len(buf) \in Nat
         /\ buf \in Seq(Bytes) /\ spill \in Seq(Bytes) /\ array \in Seq(Bytes)
         /\ pubId \in Policies \cup {NoPolicy} /\ polId \in Policies \cup {NoPolicy}
         /\ private \in Policies \cup {NoPolicy} /\ keyOk \in BOOLEAN
         /\ ucounter \in 0..CounterMax /\ decPos = ucounter /\ CounterMax \in Nat
         /\ verified \in Seq(Nat) /\ out \in Seq(Nat)
         /\ calls \in 0..MaxCalls /\ MaxCalls \in Nat /\ spoilt \in BOOLEAN
         /\ len \in Nat /\ pubPol \in Policies /\ SigningPolicy \in Policies
         /\ BufSize \in Nat \ {0} /\ Len(buf) < BufSize
<1>1. SigningPolicy \in Policies
  BY SigningPolicyType DEF Sealed
<1>2. BufSize \in Nat \ {0}
  BY StreamAssumption DEF BufSize
<1>3. buf \in Seq(Bytes) /\ wire \in Seq(Bytes) /\ segs \in Seq(SegmentType)
  BY DEF Sealed, WireTypeOK, WebUnsealerInv, WebUnsealerTypeOK
<1> QED
  BY <1>1, <1>2, <1>3, LenProperties, StreamAssumption, SealerAssumption, WebUnsealerAssumption
     DEF Sealed, WireTypeOK, InputsOK, WebUnsealerInv, WebUnsealerTypeOK, WebUnsealerHolds

\* Its part of the invariant only speaks of segments that stay.
LEMMA WebUnsealerStays ==
  ASSUME WebUnsealerInv, UNCHANGED <<webUnsealerVars, inputVars>>,
         segs \in Seq(SegmentType), segs' \in Seq(SegmentType), SegmentsKept
  PROVE  WebUnsealerInv'
<1>1. SigningPolicy' = SigningPolicy /\ len' = len /\ pubPol' = pubPol
  BY DEF inputVars, SigningPolicy
<1>2. /\ UNCHANGED <<unseal, pubId, keyOk, buf, ucounter, decPos, polId, verified, out, private>>
      /\ UNCHANGED <<spill, array, calls, spoilt>>
  BY DEF webUnsealerVars, unsealerVars
<1>3. /\ Len(segs) \in Nat /\ Len(segs') \in Nat /\ Len(segs) <= Len(segs')
      /\ \A k \in 0..Len(segs) : Transcript(k)' = Transcript(k)
  BY KeptTranscripts DEF SegmentsKept
<1>4. unseal' = "reading" => ucounter' <= Len(segs') /\ out' = Transcript(ucounter)'
  <2> SUFFICES ASSUME unseal = "reading"
               PROVE  ucounter <= Len(segs') /\ out = Transcript(ucounter)'
    BY <1>2
  <2>1. ucounter <= Len(segs) /\ out = Transcript(ucounter) /\ ucounter \in Nat
    BY StreamAssumption DEF WebUnsealerInv, WebUnsealerHolds, WebUnsealerTypeOK
  <2>2. ucounter \in 0..Len(segs) /\ ucounter' = ucounter
    BY <1>2, <1>3, <2>1
  <2>3. Transcript(ucounter)' = Transcript(ucounter)
    BY <1>3, <2>2 DEF Transcript
  <2> QED
    BY <1>3, <2>1, <2>3
<1>5. unseal' \in {"closing", "ok"} =>
        /\ polId' = SigningPolicy'
        /\ \E k \in 1..Len(segs') : segs'[k].last /\ out' = segs'[k].sig.tr
  <2> SUFFICES ASSUME unseal \in {"closing", "ok"}
               PROVE  /\ polId = SigningPolicy
                      /\ \E k \in 1..Len(segs') : segs'[k].last /\ out = segs'[k].sig.tr
    BY <1>1, <1>2
  <2>1. polId = SigningPolicy
    BY DEF WebUnsealerInv, WebUnsealerHolds
  <2>2. PICK k \in 1..Len(segs) : segs[k].last /\ out = segs[k].sig.tr
    BY DEF WebUnsealerInv, WebUnsealerHolds
  <2>3. segs'[k] = segs[k] /\ k \in 1..Len(segs')
    BY <1>3, <2>2 DEF SegmentsKept
  <2> QED
    BY <2>1, <2>2, <2>3
<1>6. IsPrefixOfMessage(out)'
  BY <1>1, <1>2 DEF WebUnsealerInv, WebUnsealerHolds, IsPrefixOfMessage
<1>7. WebUnsealerHolds'
  BY <1>1, <1>2, <1>4, <1>5, <1>6 DEF WebUnsealerInv, WebUnsealerHolds
<1>8. WebUnsealerTypeOK'
  BY <1>2 DEF WebUnsealerInv, WebUnsealerTypeOK
<1> QED
  BY <1>7, <1>8 DEF WebUnsealerInv

\* A step that neither opens a segment nor begins a call, after which the call
\* goes on as before or has failed.
LEMMA WebCallStays ==
  ASSUME Sealed, WebUnsealerInv, UNCHANGED <<sealerVars, segs>>,
         WireTypeOK', WebUnsealerTypeOK',
         UNCHANGED <<pubId, ucounter, decPos, polId, out, calls>>,
         Len(buf') < BufSize,
         \/ UNCHANGED <<unseal, private>>
         \/ unseal # "opened" /\ unseal' \in WebUnsealFailed
  PROVE  WireTypeOK' /\ WebUnsealerInv' /\ segs' = segs
<1>1. /\ SigningPolicy' = SigningPolicy /\ len' = len /\ pubPol' = pubPol /\ BufSize' = BufSize
      /\ \A k : Transcript(k)' = Transcript(k) /\ segs' = segs
  BY DEF sealerVars, SigningPolicy, Transcript, BufSize
<1>2. IsPrefixOfMessage(out)'
  BY <1>1 DEF WebUnsealerInv, WebUnsealerHolds, IsPrefixOfMessage
<1>3. Transcript(ucounter)' = Transcript(ucounter)
  BY DEF Transcript
<1>4. CASE UNCHANGED <<unseal, private>>
  <2>1. WebUnsealerHolds'
    BY <1>1, <1>2, <1>3, <1>4 DEF WebUnsealerInv, WebUnsealerHolds
  <2> QED
    BY <1>1, <2>1 DEF WebUnsealerInv
<1>5. CASE unseal # "opened" /\ unseal' \in WebUnsealFailed
  <2>1. unseal' \notin {"new", "opened", "reading", "closing", "ok"}
    BY <1>5 DEF WebUnsealFailed, UnsealFailed
  <2>2. WebUnsealerHolds'
    BY <1>1, <1>2, <1>5, <2>1 DEF WebUnsealerInv, WebUnsealerHolds
  <2> QED
    BY <1>1, <2>2 DEF WebUnsealerInv
<1> QED
  BY <1>4, <1>5

\* What is left when the header could not be used.
LEMMA RejectType ==
  ASSUME wire \in Seq(Bytes)
  PROVE  SubSeq(wire, Len(HeaderRead) + 1, Len(wire)) \in Seq(Bytes)
<1>1. Len(wire) \in Nat
  BY LenProperties
<1>2. CASE Len(wire) < 4
  <2>1. HeaderRead = wire
    BY <1>2 DEF HeaderRead
  <2> QED
    BY <1>1, <2>1, SubBytes
<1>3. CASE ~(Len(wire) < 4)
  <2>1. HeaderRead = Take(4)
    BY <1>3 DEF HeaderRead
  <2>2. Len(Take(4)) \in Nat
    BY <1>1, <1>3, LeaveType, LenProperties
  <2> HIDE DEF Take
  <2> QED
    BY <1>1, <2>1, <2>2, SubBytes
<1> QED
  BY <1>2, <1>3

LEMMA WebHeaderRead ==
  ASSUME Sealed, WebUnsealerInv, UNCHANGED sealerVars,
         WebOpenHeader(pubPol) \/ WebRejectHeader
  PROVE  WireTypeOK' /\ WebUnsealerInv' /\ segs' = segs
<1>1. /\ UNCHANGED <<keyOk, buf, ucounter, decPos, polId, verified, out, private, eof, segs>>
      /\ UNCHANGED <<array, calls, spoilt>> /\ unseal = "new"
  BY DEF WebOpenHeader, WebRejectHeader
<1>2. /\ wire \in Seq(Bytes) /\ eof \in BOOLEAN /\ segs \in Seq(SegmentType)
      /\ Len(wire) \in Nat /\ Len(buf) < BufSize /\ pubPol \in Policies
      /\ spill \in Seq(Bytes) /\ pubId \in Policies \cup {NoPolicy}
  BY WebUnsealerTypes
<1>3. CASE WebOpenHeader(pubPol)
  <2>1. PICK end \in HeaderEnds : \E n \in end..Len(wire) :
          spill' = SubSeq(wire, end + 1, n) /\ wire' = Leave(n)
    BY <1>3 DEF WebOpenHeader
  <2>2. PICK n \in end..Len(wire) : spill' = SubSeq(wire, end + 1, n) /\ wire' = Leave(n)
    BY <2>1
  <2>3. end \in 4..Len(wire)
    BY DEF HeaderEnds
  <2>4. n \in Nat /\ n <= Len(wire) /\ end + 1 \in Nat \ {0} /\ n \in Int
    BY <1>2, <2>2, <2>3
  <2>5. wire' \in Seq(Bytes) /\ spill' \in Seq(Bytes)
    BY <1>2, <2>2, <2>4, LeaveType, SubBytes
  <2>6. pubId' = pubPol /\ unseal' = "opened"
    BY <1>3 DEF WebOpenHeader
  <2>7. WireTypeOK' /\ WebUnsealerTypeOK'
    BY <1>1, <1>2, <2>5, <2>6
       DEF WireTypeOK, WebUnsealerInv, WebUnsealerTypeOK, UnsealRunning
  <2>8. SigningPolicy' = SigningPolicy /\ len' = len /\ pubPol' = pubPol
    BY DEF sealerVars, SigningPolicy
  <2>9. WebUnsealerHolds'
    BY <1>1, <2>6, <2>8 DEF WebUnsealerInv, WebUnsealerHolds, IsPrefixOfMessage, BufSize
  <2> QED
    BY <1>1, <2>7, <2>9 DEF WebUnsealerInv
<1>4. CASE WebRejectHeader
  <2>1. wire' \in Seq(Bytes)
    BY <1>2, <1>4, RejectType DEF WebRejectHeader
  <2>2. /\ UNCHANGED <<pubId, spill>> /\ unseal' \in WebUnsealFailed
    BY <1>4 DEF WebRejectHeader, ChangedErrors, WebUnsealFailed, UnsealFailed
  <2>3. WireTypeOK' /\ WebUnsealerTypeOK'
    BY <1>1, <1>2, <2>1, <2>2 DEF WireTypeOK, WebUnsealerInv, WebUnsealerTypeOK
  <2> QED
    BY <1>1, <1>2, <2>2, <2>3, WebCallStays
<1> QED
  BY <1>3, <1>4

\* A call begins, the first or another.
LEMMA WebCallBegins ==
  ASSUME Sealed, WebUnsealerInv, UNCHANGED sealerVars,
         WebNextCall \/ \E ident, usk \in Idents : WebStartUnseal(ident, usk)
  PROVE  WireTypeOK' /\ WebUnsealerInv' /\ segs' = segs
<1>1. /\ SigningPolicy' = SigningPolicy /\ len' = len /\ pubPol' = pubPol
      /\ \A k : Transcript(k)' = IF k = 0 THEN <<>> ELSE segs'[k].sig.tr
  BY DEF sealerVars, SigningPolicy, Transcript
<1>2. /\ Len(segs) \in Nat /\ calls \in Nat /\ MaxCalls \in Nat /\ len \in Nat
      /\ ucounter \in 0..CounterMax /\ CounterMax \in Nat /\ keyOk \in BOOLEAN
      /\ BufSize \in Nat \ {0} /\ spoilt \in BOOLEAN
      /\ spill \in Seq(Bytes) /\ verified \in Seq(Nat) /\ pubId \in Policies \cup {NoPolicy}
      /\ calls \in 0..MaxCalls
  BY WebUnsealerTypes
<1>3. UNCHANGED <<wire, eof, segs>>
  BY DEF WebNextCall, WebStartUnseal, StartUnseal, wireVars
<1>4. WireTypeOK'
  BY <1>3 DEF Sealed, WireTypeOK
<1>5. CASE WebNextCall
  <2>1. /\ unseal \notin UnsealRunning /\ pubId # NoPolicy /\ unseal' = "opened"
        /\ spoilt' \in BOOLEAN
        /\ buf' = <<>> /\ array' = <<>> /\ ucounter' = 0 /\ decPos' = 0
        /\ keyOk' = FALSE /\ polId' = NoPolicy /\ out' = <<>> /\ private' = NoPolicy
        /\ UNCHANGED <<pubId, verified, spill, calls>>
    BY <1>2, <1>5 DEF WebNextCall
  <2>2. WebUnsealerTypeOK'
    <3>1. 0 \in 0..CounterMax /\ <<>> \in Seq(Nat) /\ <<>> \in Seq(Bytes)
      BY <1>2, EmptySeq
    <3> QED
      BY <1>2, <2>1, <3>1 DEF WebUnsealerTypeOK, UnsealRunning
  <2>3. IsPrefixOfMessage(<<>>) /\ Len(<<>>) = 0
    BY <1>2, EmptyIsPrefix, EmptySeq
  <2>4. pubId = pubPol
    BY <2>1 DEF WebUnsealerInv, WebUnsealerHolds
  <2>5. WebUnsealerHolds'
    BY <1>1, <1>2, <2>1, <2>3, <2>4 DEF WebUnsealerHolds, IsPrefixOfMessage, BufSize
  <2> QED
    BY <1>3, <1>4, <2>2, <2>5 DEF WebUnsealerInv
<1>6. CASE \E ident, usk \in Idents : WebStartUnseal(ident, usk)
  <2>1. /\ UNCHANGED <<pubId, buf, ucounter, decPos, polId, verified, out, private>>
        /\ unseal = "opened" /\ keyOk' \in BOOLEAN
        /\ unseal' \in {"reading", "KEM", "UnknownIdentifier"}
        /\ UNCHANGED <<spill, array, spoilt>> /\ calls < MaxCalls /\ calls' = calls + 1
    BY <1>2, <1>6 DEF WebStartUnseal, StartUnseal, Call
  <2>2. calls' \in 0..MaxCalls /\ calls' # 0
    BY <1>2, <2>1
  <2>3. WebUnsealerTypeOK'
    BY <2>1, <2>2
       DEF WebUnsealerInv, WebUnsealerTypeOK, UnsealRunning, WebUnsealFailed, UnsealFailed
  <2>4. ucounter = 0 /\ out = <<>> /\ Transcript(ucounter)' = <<>>
    BY <2>1 DEF WebUnsealerInv, WebUnsealerHolds, Transcript
  <2>5. /\ ucounter' <= Len(segs') /\ out' = Transcript(ucounter)' /\ decPos' = ucounter'
        /\ pubId' = pubPol' /\ Len(buf') < BufSize'
    BY <1>1, <1>2, <1>3, <2>1, <2>4 DEF WebUnsealerInv, WebUnsealerHolds, BufSize
  <2>6. IsPrefixOfMessage(out)'
    BY <1>1, <2>1 DEF WebUnsealerInv, WebUnsealerHolds, IsPrefixOfMessage
  <2>7. WebUnsealerHolds'
    BY <2>1, <2>2, <2>5, <2>6 DEF WebUnsealerHolds
  <2> QED
    BY <1>3, <1>4, <2>3, <2>7 DEF WebUnsealerInv
<1> QED
  BY <1>5, <1>6

\* Chunks are moved, from the spill or the stream, into the buffer.
LEMMA WebChunkMoves ==
  ASSUME Sealed, WebUnsealerInv, UNCHANGED sealerVars, NextChunk \/ Absorb
  PROVE  WireTypeOK' /\ WebUnsealerInv' /\ segs' = segs
<1>1. /\ UNCHANGED <<unseal, pubId, keyOk, ucounter, decPos, polId, verified, out, private>>
      /\ UNCHANGED <<calls, spoilt, eof, segs>>
  BY DEF NextChunk, Absorb, wireVars
<1>2. /\ wire \in Seq(Bytes) /\ Len(wire) \in Nat /\ Len(buf) \in Nat /\ Len(buf) < BufSize
      /\ buf \in Seq(Bytes) /\ spill \in Seq(Bytes) /\ array \in Seq(Bytes)
      /\ BufSize \in Nat \ {0}
  BY WebUnsealerTypes
<1>3. CASE NextChunk
  <2>1. NextArray /\ buf' = buf
    BY <1>3 DEF NextChunk
  <2>2. wire' \in Seq(Bytes) /\ spill' \in Seq(Bytes) /\ array' \in Seq(Bytes)
    <3>1. CASE FromSpill
      BY <1>2, <3>1, EmptySeq DEF FromSpill
    <3>2. CASE FromStream
      <4>1. PICK n \in 1..Len(wire) : array' = Take(n) /\ wire' = Leave(n) /\ UNCHANGED spill
        BY <3>2 DEF FromStream
      <4>2. n \in Nat /\ n <= Len(wire)
        BY <1>2, <4>1
      <4> QED
        BY <1>2, <4>1, <4>2, LeaveType
    <3> QED
      BY <2>1, <3>1, <3>2 DEF NextArray
  <2>3. WireTypeOK' /\ WebUnsealerTypeOK'
    BY <1>1, <1>2, <2>1, <2>2 DEF Sealed, WireTypeOK, WebUnsealerInv, WebUnsealerTypeOK
  <2> QED
    BY <1>1, <1>2, <2>1, <2>3, WebCallStays
<1>4. CASE Absorb
  <2>1. /\ buf' = buf \o array /\ array' = <<>> /\ UNCHANGED <<spill, wire>>
        /\ Len(array) < BufSize - Len(buf)
    BY <1>4 DEF Absorb, wireVars
  <2>2. buf' \in Seq(Bytes) /\ Len(buf') = Len(buf) + Len(array) /\ Len(array) \in Nat
    BY <1>2, <2>1, ConcatBytes, ConcatProperties, LenProperties
  <2>3. Len(buf') < BufSize
    BY <1>2, <2>1, <2>2
  <2>4. WireTypeOK' /\ WebUnsealerTypeOK'
    BY <1>1, <1>2, <2>1, <2>2, EmptySeq
       DEF Sealed, WireTypeOK, WebUnsealerInv, WebUnsealerTypeOK
  <2> QED
    BY <1>1, <2>3, <2>4, WebCallStays
<1> QED
  BY <1>3, <1>4

\* What decrypts is the next segment, whatever the verifier has absorbed.
LEMMA WebNextSegment ==
  ASSUME Sealed, WebUnsealerInv, unseal = "reading",
         NEW bytes, NEW last \in BOOLEAN, Decrypts(bytes, last)
  PROVE  /\ ucounter + 1 \in 1..Len(segs) /\ segs[ucounter + 1].last = last
         /\ Opened.m \in Seq(Nat) /\ Opened.pol \in Policies \cup {NoPolicy}
         /\ Opened.sig.by = SigningPolicy
         /\ out \o Opened.m = segs[ucounter + 1].sig.tr
         /\ IsPrefixOfMessage(out \o Opened.m)
<1>1. /\ segs \in Seq(SegmentType) /\ ucounter \in Nat /\ decPos = ucounter
      /\ Len(segs) \in Nat
  BY WebUnsealerTypes
<1>2. out = Transcript(ucounter)
  BY DEF WebUnsealerInv, WebUnsealerHolds
<1>3. PICK k : k = ucounter + 1
  OBVIOUS
<1>4. k \in 1..Len(segs) /\ Opened = segs[k] /\ Opened.last = last /\ k - 1 = ucounter
  BY <1>1, <1>3 DEF Decrypts, Opened
<1>5. Opened \in SegmentType
  BY <1>1, <1>4, ElementOfSeq
<1>6. /\ segs[k].sig = Signature(Transcript(k - 1) \o segs[k].m, k - 1, segs[k].last, SigningPolicy)
      /\ IsPrefixOfMessage(segs[k].sig.tr)
  BY <1>4, Zenon DEF Sealed, SegmentsChain
<1>7. Opened.sig = Signature(out \o Opened.m, ucounter, last, SigningPolicy)
  BY <1>2, <1>4, <1>6
<1>8. Opened.sig.tr = out \o Opened.m /\ Opened.sig.by = SigningPolicy
  BY <1>7 DEF Signature
<1> QED
  BY <1>3, <1>4, <1>5, <1>6, <1>8 DEF SegmentType

LEMMA WebOpenOutcomes ==
  ASSUME Sealed, WebUnsealerInv, unseal = "reading",
         NEW bytes, NEW last \in BOOLEAN, NEW next, WebOpenSegment(bytes, last, next)
  PROVE  /\ verified' \in Seq(Nat) /\ out' \in Seq(Nat) /\ polId' \in Policies \cup {NoPolicy}
         /\ IsPrefixOfMessage(out')
         /\ unseal' \in {next, "AEAD", "IncorrectSignature", "WriteError"}
         /\ unseal' = next /\ next \notin {"AEAD", "IncorrectSignature", "WriteError"} =>
              /\ ucounter + 1 \in 1..Len(segs) /\ segs[ucounter + 1].last = last
              /\ polId' = SigningPolicy
              /\ out' = segs[ucounter + 1].sig.tr
<1>1. /\ verified \in Seq(Nat) /\ out \in Seq(Nat) /\ polId \in Policies \cup {NoPolicy}
      /\ IsPrefixOfMessage(out)
  BY WebUnsealerTypes DEF WebUnsealerInv, WebUnsealerHolds
<1>2. CASE ~Decrypts(bytes, last) /\ unseal' = "AEAD" /\ UNCHANGED <<polId, verified, out>>
  BY <1>1, <1>2
<1>3. CASE /\ Decrypts(bytes, last)
           /\ polId' = PolicyOf(Opened)
           /\ verified' = verified \o Opened.m
           /\ \/ ~Verifies(Opened, last) /\ unseal' = "IncorrectSignature" /\ UNCHANGED out
              \/ /\ Verifies(Opened, last)
                 /\ \/ out' = out \o Opened.m /\ unseal' = next
                    \/ "write" \in UnsealIOErrors /\ unseal' = "WriteError" /\ UNCHANGED out
  <2>1. /\ ucounter + 1 \in 1..Len(segs) /\ segs[ucounter + 1].last = last
        /\ Opened.m \in Seq(Nat) /\ Opened.pol \in Policies \cup {NoPolicy}
        /\ Opened.sig.by = SigningPolicy
        /\ out \o Opened.m = segs[ucounter + 1].sig.tr
        /\ IsPrefixOfMessage(out \o Opened.m)
    BY <1>3, WebNextSegment
  <2>2. verified' \in Seq(Nat) /\ out \o Opened.m \in Seq(Nat)
    BY <1>1, <1>3, <2>1, Concat
  <2>3. polId' \in Policies \cup {NoPolicy}
    BY <1>1, <1>3, <2>1 DEF PolicyOf
  <2>4. Verifies(Opened, last) => polId' = SigningPolicy
    BY <1>3, <2>1 DEF Verifies, Signature
  <2> QED
    BY <1>1, <1>3, <2>1, <2>2, <2>3, <2>4
<1> QED
  BY <1>2, <1>3, Zenon DEF WebOpenSegment

LEMMA WebOpenFullKeeps ==
  ASSUME Sealed, WebUnsealerInv, UNCHANGED sealerVars, WebOpenFull
  PROVE  WireTypeOK' /\ WebUnsealerInv' /\ segs' = segs
<1> DEFINE room == BufSize - Len(buf)
           next == IF UCounterEnds THEN "Symmetric" ELSE "reading"
<1>1. /\ UNCHANGED <<pubId, keyOk, spill, calls, spoilt, private>>
      /\ UNCHANGED <<wire, eof, segs>> /\ unseal = "reading" /\ buf' = <<>>
      /\ ucounter' = IF unseal' = "reading" THEN ucounter + 1 ELSE ucounter
      /\ decPos' = ucounter'
      /\ Len(array) >= room /\ array' = SubSeq(array, room + 1, Len(array))
  BY DEF WebOpenFull, wireVars
<1>2. WebOpenSegment(buf \o SubSeq(array, 1, room), FALSE, next)
  BY DEF WebOpenFull
<1>3. /\ ucounter \in 0..CounterMax /\ CounterMax \in Nat /\ Len(segs) \in Nat
      /\ array \in Seq(Bytes) /\ Len(buf) \in Nat /\ Len(buf) < BufSize
      /\ BufSize \in Nat \ {0} /\ Len(array) \in Nat
  BY WebUnsealerTypes, LenProperties
<1>4. next \in {"Symmetric", "reading"} /\ (next = "reading" => ucounter # CounterMax)
  BY DEF UCounterEnds
<1>5. array' \in Seq(Bytes) /\ <<>> \in Seq(Bytes) /\ Len(<<>>) = 0
  <2>1. room + 1 \in Nat \ {0} /\ Len(array) \in Int /\ Len(array) <= Len(array)
    BY <1>3
  <2> QED
    BY <1>1, <1>3, <2>1, SubBytes, EmptySeq
<1> HIDE DEF room, next
<1>6. PICK last \in BOOLEAN : last = FALSE
  OBVIOUS
<1>7. /\ verified' \in Seq(Nat) /\ out' \in Seq(Nat) /\ polId' \in Policies \cup {NoPolicy}
      /\ IsPrefixOfMessage(out')
      /\ unseal' \in {next, "AEAD", "IncorrectSignature", "WriteError"}
      /\ unseal' = next /\ next \notin {"AEAD", "IncorrectSignature", "WriteError"} =>
           /\ ucounter + 1 \in 1..Len(segs)
           /\ out' = segs[ucounter + 1].sig.tr
  BY <1>1, <1>2, <1>6, WebOpenOutcomes
<1>8. /\ unseal' \in {"reading", "Symmetric", "AEAD", "IncorrectSignature", "WriteError"}
      /\ unseal' = "reading" =>
           /\ ucounter # CounterMax /\ ucounter' = ucounter + 1
           /\ ucounter + 1 \in 1..Len(segs)
           /\ out' = segs[ucounter + 1].sig.tr
  BY <1>1, <1>4, <1>7
<1>9. ucounter' \in 0..CounterMax
  BY <1>1, <1>3, <1>8
<1>10. WireTypeOK' /\ WebUnsealerTypeOK'
  BY <1>1, <1>5, <1>7, <1>8, <1>9
     DEF Sealed, WireTypeOK, WebUnsealerInv, WebUnsealerTypeOK, UnsealRunning, WebUnsealFailed,
         UnsealFailed
<1>11. unseal' = "reading" => ucounter' <= Len(segs') /\ out' = Transcript(ucounter)'
  <2> SUFFICES ASSUME unseal' = "reading"
               PROVE  ucounter' <= Len(segs') /\ out' = Transcript(ucounter)'
    OBVIOUS
  <2>1. PICK k : k = ucounter + 1
    OBVIOUS
  <2>2. k \in 1..Len(segs) /\ ucounter' = k /\ out' = segs[k].sig.tr /\ k # 0
    BY <1>3, <1>8, <2>1
  <2>3. Transcript(ucounter)' = segs[k].sig.tr
    BY <1>1, <2>2 DEF Transcript
  <2> QED
    BY <1>1, <1>3, <2>2, <2>3
<1>12. SigningPolicy' = SigningPolicy /\ len' = len /\ pubPol' = pubPol /\ BufSize' = BufSize
  BY DEF sealerVars, SigningPolicy, BufSize
<1>13. IsPrefixOfMessage(out)'
  BY <1>7, <1>12 DEF IsPrefixOfMessage
<1>14. WebUnsealerHolds'
  BY <1>1, <1>3, <1>5, <1>8, <1>11, <1>12, <1>13 DEF WebUnsealerInv, WebUnsealerHolds
<1> QED
  BY <1>1, <1>10, <1>14 DEF WebUnsealerInv

LEMMA WebOpenLastKeeps ==
  ASSUME Sealed, WebUnsealerInv, UNCHANGED sealerVars, WebOpenLast
  PROVE  WireTypeOK' /\ WebUnsealerInv' /\ segs' = segs
<1>1. /\ UNCHANGED <<pubId, keyOk, ucounter, decPos, spill, array, calls, spoilt, private>>
      /\ UNCHANGED <<wire, eof, segs>> /\ unseal = "reading" /\ buf' = <<>>
      /\ WebOpenSegment(buf, TRUE, "closing")
  BY DEF WebOpenLast, wireVars
<1>2. /\ verified' \in Seq(Nat) /\ out' \in Seq(Nat) /\ polId' \in Policies \cup {NoPolicy}
      /\ IsPrefixOfMessage(out')
      /\ unseal' \in {"closing", "AEAD", "IncorrectSignature", "WriteError"}
      /\ unseal' = "closing" =>
           polId' = SigningPolicy /\ \E k \in 1..Len(segs) : segs[k].last /\ out' = segs[k].sig.tr
  <2>1. PICK last \in BOOLEAN : last = TRUE
    OBVIOUS
  <2>2. /\ verified' \in Seq(Nat) /\ out' \in Seq(Nat) /\ polId' \in Policies \cup {NoPolicy}
        /\ IsPrefixOfMessage(out')
        /\ unseal' \in {"closing", "AEAD", "IncorrectSignature", "WriteError"}
        /\ unseal' = "closing" =>
             /\ ucounter + 1 \in 1..Len(segs) /\ segs[ucounter + 1].last = last
             /\ polId' = SigningPolicy /\ out' = segs[ucounter + 1].sig.tr
    BY <1>1, <2>1, WebOpenOutcomes
  <2> QED
    BY <2>1, <2>2
<1>3. BufSize \in Nat \ {0} /\ Len(<<>>) = 0 /\ <<>> \in Seq(Bytes)
  BY WebUnsealerTypes, EmptySeq
<1>4. WireTypeOK' /\ WebUnsealerTypeOK'
  BY <1>1, <1>2, <1>3
     DEF Sealed, WireTypeOK, WebUnsealerInv, WebUnsealerTypeOK, UnsealRunning, WebUnsealFailed,
         UnsealFailed
<1>5. SigningPolicy' = SigningPolicy /\ len' = len /\ pubPol' = pubPol /\ BufSize' = BufSize
  BY DEF sealerVars, SigningPolicy, BufSize
<1>6. IsPrefixOfMessage(out)'
  BY <1>2, <1>5 DEF IsPrefixOfMessage
<1>7. unseal' \in {"closing", "ok"} =>
        polId' = SigningPolicy' /\ \E k \in 1..Len(segs') : segs'[k].last /\ out' = segs'[k].sig.tr
  BY <1>1, <1>2, <1>5
<1>8. unseal' \notin {"new", "opened", "reading", "ok"}
  BY <1>2
<1>9. WebUnsealerHolds'
  BY <1>1, <1>3, <1>5, <1>6, <1>7, <1>8 DEF WebUnsealerInv, WebUnsealerHolds
<1> QED
  BY <1>1, <1>4, <1>9 DEF WebUnsealerInv

LEMMA WebUnsealerKeeps ==
  ASSUME Sealed, WebUnsealerInv, UNCHANGED sealerVars,
         \/ WebUnsealStep \/ WebUnsealError \/ WebNextCall
         \/ \E ident, usk \in Idents : WebStartUnseal(ident, usk)
  PROVE  WireTypeOK' /\ WebUnsealerInv' /\ segs' = segs
<1>1. CASE WebUnsealClose
  <2>1. /\ UNCHANGED <<pubId, keyOk, buf, ucounter, decPos, polId, verified, out>>
        /\ UNCHANGED <<spill, array, calls, spoilt>> /\ UNCHANGED <<wire, eof, segs>>
        /\ unseal = "closing" /\ unseal' = "ok"
        /\ private' = IF polId = pubId THEN NoPolicy ELSE polId
    BY <1>1 DEF WebUnsealClose, UnsealClose, PrivateResult, wireVars
  <2>2. WireTypeOK' /\ WebUnsealerTypeOK'
    BY <2>1 DEF Sealed, WireTypeOK, WebUnsealerInv, WebUnsealerTypeOK
  <2>3. SigningPolicy' = SigningPolicy /\ len' = len /\ pubPol' = pubPol /\ BufSize' = BufSize
    BY DEF sealerVars, SigningPolicy, BufSize
  <2>4. IsPrefixOfMessage(out)'
    BY <2>1, <2>3 DEF WebUnsealerInv, WebUnsealerHolds, IsPrefixOfMessage
  <2>5. WebUnsealerHolds'
    BY <2>1, <2>3, <2>4 DEF WebUnsealerInv, WebUnsealerHolds
  <2> QED
    BY <2>1, <2>2, <2>5 DEF WebUnsealerInv
<1>2. CASE WebUnsealError
  <2>1. /\ UNCHANGED <<pubId, keyOk, buf, ucounter, decPos, polId, verified, out, private>>
        /\ UNCHANGED <<spill, array, calls, spoilt>> /\ UNCHANGED <<wire, eof, segs>>
        /\ unseal # "opened" /\ unseal' \in {"FormatViolation", "CastError", "WriteError"}
    BY <1>2 DEF WebUnsealError, wireVars
  <2>2. WireTypeOK' /\ WebUnsealerTypeOK'
    BY <2>1
       DEF Sealed, WireTypeOK, WebUnsealerInv, WebUnsealerTypeOK, WebUnsealFailed, UnsealFailed
  <2>3. Len(buf') < BufSize
    BY <2>1, WebUnsealerTypes
  <2> QED
    BY <2>1, <2>2, <2>3, WebCallStays DEF WebUnsealFailed, UnsealFailed
<1> QED
  BY <1>1, <1>2, WebHeaderRead, WebCallBegins, WebChunkMoves, WebOpenFullKeeps, WebOpenLastKeeps
     DEF WebUnsealStep

-----------------------------------------------------------------------------
(***************************************************************************)
(* The invariant is inductive.                                             *)
(***************************************************************************)
SealerPart == IF ends[1] = "web" THEN WebSealerInv ELSE SealerInv /\ CutInv
UnsealerPart == IF ends[2] = "web" THEN WebUnsealerInv ELSE UnsealerInv

WebIInv == SealerPart /\ UnsealerPart /\ nfaults \in 0..MaxFaults /\ ends \in Ends

LEMMA SealerPartSealed ==
  ASSUME SealerPart PROVE Sealed /\ segs \in Seq(SegmentType)
<1>1. CASE WebSealerInv
  BY <1>1, WebInputs DEF WebSealerInv, Sealed, WireTypeOK
<1>2. CASE SealerInv
  BY <1>2, InputsType DEF SealerInv, Sealed, WireTypeOK
<1> QED
  BY <1>1, <1>2 DEF SealerPart

LEMMA UnsealerPartStays ==
  ASSUME UnsealerPart, UNCHANGED <<webUnsealerVars, inputVars, ends>>,
         segs \in Seq(SegmentType), segs' \in Seq(SegmentType), SegmentsKept
  PROVE  UnsealerPart'
<1>1. UNCHANGED unsealerVars
  BY DEF webUnsealerVars
<1> QED
  BY <1>1, UnsealerStays, WebUnsealerStays DEF UnsealerPart

LEMMA SealerPartStays ==
  ASSUME SealerPart, UNCHANGED <<webSealerVars, segs, ends>>, WireTypeOK'
  PROVE  SealerPart' /\ SegmentsKept /\ UNCHANGED inputVars
<1>1. UNCHANGED sealerVars /\ UNCHANGED <<sealerVars, chunk>>
  BY DEF webSealerVars
<1>2. CASE ends[1] = "web"
  BY <1>1, <1>2, WebSealerStays DEF SealerPart
<1>3. CASE ends[1] # "web"
  <2>1. SealerInv /\ CutInv
    BY <1>3 DEF SealerPart
  <2>2. SealerInv' /\ SegmentsKept /\ UNCHANGED inputVars
    BY <1>1, <2>1, SealerStays
  <2>3. UNCHANGED <<inputVars, segs, seal, start, pend, signed>>
    BY <1>1 DEF sealerVars, inputVars
  <2>4. CutInv'
    BY <2>1, <2>3, CutStays, ReferenceStays DEF CutInv
  <2> QED
    BY <1>3, <2>2, <2>4 DEF SealerPart
<1> QED
  BY <1>2, <1>3

LEMMA WebInitIInv == WebInit => WebIInv
<1> SUFFICES ASSUME WebInit PROVE WebIInv
  OBVIOUS
<1>1. WireInit /\ SealerInit /\ chunk = 0 /\ UnsealerInit /\ spill = <<>> /\ array = <<>>
      /\ calls = 0 /\ spoilt = FALSE /\ nfaults = 0 /\ ends \in Ends
  BY DEF WebInit, WebSealerInit, WebUnsealerInit
<1>2. SealerInv /\ CutInv /\ len \in Nat
  BY <1>1, InitSealer, InitCuts, InputsType DEF SealerInv
<1>3. WebSealerInv
  <2>1. seal = "ready" /\ segs = <<>> /\ pend = <<>> /\ signed = <<>> /\ rd = 0 /\ counter = 0
        /\ encPos = 0
    BY <1>1 DEF WireInit, SealerInit
  <2>2. WebSealerTypeOK
    BY <1>1, <1>2, <2>1 DEF SealerInv, SealerTypeOK, WebSealerTypeOK, SealRunning
  <2>3. WebSealerHolds
    BY <1>1, <1>2, <2>1 DEF WebSealerHolds, SealerInv, CutInv
  <2> QED
    BY <1>2, <2>2, <2>3 DEF WebSealerInv, SealerInv
<1>4. UnsealerInv
  BY <1>1, <1>2, InitUnsealer
<1>5. WebUnsealerInv
  <2>1. unseal = "new" /\ decPos = 0 /\ ucounter = 0 /\ out = <<>> /\ pubId = NoPolicy
    BY <1>1 DEF UnsealerInit
  <2>2. WebUnsealerTypeOK
    <3>1. <<>> \in Seq(Bytes) /\ 0 \in 0..MaxCalls
      BY EmptySeq, WebUnsealerAssumption
    <3>2. UnsealerTypeOK /\ unseal \in UnsealRunning /\ buf = <<>>
      BY <1>1, <1>4 DEF UnsealerInv, UnsealerInit, UnsealRunning
    <3> QED
      BY <1>1, <3>1, <3>2 DEF UnsealerTypeOK, WebUnsealerTypeOK
  <2>3. WebUnsealerHolds
    BY <1>4, <2>1 DEF WebUnsealerHolds, UnsealerInv, UnsealerHolds
  <2> QED
    BY <2>2, <2>3 DEF WebUnsealerInv
<1> QED
  BY <1>1, <1>2, <1>3, <1>4, <1>5, TransferAssumption DEF WebIInv, SealerPart, UnsealerPart

\* What a step of one of the ends, or of what lies between them, leaves.
LEMMA WebNextIInv == WebIInv /\ [WebNext]_webVars => WebIInv' /\ UNCHANGED inputVars
<1> SUFFICES ASSUME WebIInv, [WebNext]_webVars PROVE WebIInv' /\ UNCHANGED inputVars
  OBVIOUS
<1>1. SealerPart /\ UnsealerPart /\ nfaults \in 0..MaxFaults /\ ends \in Ends
      /\ Sealed /\ segs \in Seq(SegmentType)
  BY SealerPartSealed DEF WebIInv
<1>2. ASSUME SealerPart', SegmentsKept, UNCHANGED <<inputVars, webUnsealerVars, ends>>,
             nfaults' \in 0..MaxFaults
      PROVE  WebIInv' /\ UNCHANGED inputVars
  <2>1. segs' \in Seq(SegmentType)
    BY <1>2 DEF SealerPart, SealerInv, WebSealerInv, WireTypeOK
  <2>2. UnsealerPart'
    BY <1>1, <1>2, <2>1, UnsealerPartStays
  <2> QED
    BY <1>1, <1>2, <2>2 DEF WebIInv
<1>3. ASSUME WireTypeOK', UnsealerPart', segs' = segs, UNCHANGED <<webSealerVars, nfaults, ends>>
      PROVE  WebIInv' /\ UNCHANGED inputVars
  BY <1>1, <1>3, SealerPartStays DEF WebIInv
<1>4. CASE SealerMoves \/ SealerFails
  <2>1. UNCHANGED <<webUnsealerVars, nfaults, ends>>
    BY <1>4 DEF SealerMoves, SealerFails
  <2>2. CASE ends[1] = "web"
    <3>1. WebSealStep \/ WebSealError
      BY <1>4, <2>2 DEF SealerMoves, SealerFails
    <3>2. WebSealerInv' /\ SegmentsKept /\ UNCHANGED inputVars
      BY <1>1, <2>2, <3>1, WebSealerKeeps DEF SealerPart
    <3> QED
      BY <1>1, <1>2, <2>1, <2>2, <3>2 DEF SealerPart
  <2>3. CASE ends[1] # "web"
    <3>1. SealStep \/ SealIOError
      BY <1>4, <2>3 DEF SealerMoves, SealerFails
    <3>2. SealerInv' /\ CutInv' /\ SegmentsKept /\ UNCHANGED inputVars
      BY <1>1, <2>3, <3>1, SealerKeeps, CutKeeps DEF SealerPart
    <3> QED
      BY <1>1, <1>2, <2>1, <2>3, <3>2 DEF SealerPart
  <2> QED
    BY <2>2, <2>3
<1>5. CASE UnsealerMoves \/ UnsealerFails \/ ReceiverCalls \/ ReceiverCallsAgain
  <2>1. UNCHANGED <<webSealerVars, nfaults, ends>> /\ UNCHANGED sealerVars
    BY <1>5 DEF UnsealerMoves, UnsealerFails, ReceiverCalls, ReceiverCallsAgain, webSealerVars
  <2>2. CASE ends[2] = "web"
    <3>1. \/ WebUnsealStep \/ WebUnsealError \/ WebNextCall
          \/ \E ident, usk \in Idents : WebStartUnseal(ident, usk)
      BY <1>5, <2>2 DEF UnsealerMoves, UnsealerFails, ReceiverCalls, ReceiverCallsAgain
    <3>2. WireTypeOK' /\ WebUnsealerInv' /\ segs' = segs
      BY <1>1, <2>1, <2>2, <3>1, WebUnsealerKeeps DEF UnsealerPart
    <3> QED
      BY <1>3, <2>1, <2>2, <3>2 DEF UnsealerPart
  <2>3. CASE ends[2] # "web"
    <3>1. \/ Open \/ (\E n \in 1..Len(wire) : Receive(n)) \/ OpenFull \/ OpenLast
          \/ UnsealClose \/ UnsealIOError
          \/ \E ident, usk \in Idents : StartUnseal(ident, usk)
      BY <1>5, <2>3
         DEF UnsealerMoves, UnsealStep, UnsealerFails, ReceiverCalls, ReceiverCallsAgain
    <3>2. WireTypeOK' /\ UnsealerInv' /\ segs' = segs
      BY <1>1, <2>1, <2>3, <3>1, UnsealerKeeps DEF UnsealerPart
    <3> QED
      BY <1>3, <2>1, <2>3, <3>2 DEF UnsealerPart
  <2> QED
    BY <2>2, <2>3
<1>6. CASE WebDamage
  <2>1. /\ UNCHANGED <<eof, segs, sealerVars, unsealerVars, chunk, spill, array, calls, spoilt, ends>>
        /\ nfaults < MaxFaults /\ nfaults' = nfaults + 1
        /\ Lose \/ Corrupt \/ LoseSegment \/ Repeat \/ Swap
    BY <1>6 DEF WebDamage, Damage
  <2>2. UNCHANGED <<webSealerVars, segs, ends>> /\ UNCHANGED <<webUnsealerVars, ends>>
    BY <2>1 DEF webSealerVars, webUnsealerVars
  <2>3. WireTypeOK'
    BY <1>1, <2>1, DamageType DEF Sealed, WireTypeOK
  <2>4. SealerPart' /\ SegmentsKept /\ UNCHANGED inputVars
    BY <1>1, <2>2, <2>3, SealerPartStays
  <2>5. nfaults' \in 0..MaxFaults
    BY <1>1, <2>1, TransferAssumption
  <2> QED
    BY <1>2, <2>2, <2>4, <2>5
<1>7. CASE WebDone \/ UNCHANGED webVars
  <2>1. UNCHANGED vars /\ UNCHANGED <<chunk, spill, array, calls, spoilt, ends>>
    BY <1>7 DEF WebDone, webVars
  <2>2. UNCHANGED <<wire, eof, segs>> /\ UNCHANGED <<webSealerVars, segs, ends>>
        /\ UNCHANGED <<webUnsealerVars, ends>> /\ UNCHANGED nfaults
    BY <2>1 DEF vars, wireVars, webSealerVars, webUnsealerVars
  <2>3. WireTypeOK'
    BY <1>1, <2>2 DEF Sealed, WireTypeOK
  <2>4. SealerPart' /\ SegmentsKept /\ UNCHANGED inputVars
    BY <1>1, <2>2, <2>3, SealerPartStays
  <2> QED
    BY <1>1, <1>2, <2>2, <2>4
<1> QED
  BY <1>4, <1>5, <1>6, <1>7 DEF WebNext

LEMMA WebInvariance == WebSpec => []WebIInv
<1>1. WebIInv /\ [WebNext]_webVars => WebIInv'
  BY WebNextIInv
<1> QED
  BY <1>1, WebInitIInv, PTL DEF WebSpec

-----------------------------------------------------------------------------
(***************************************************************************)
(* Every variable of either pair of ends keeps its type: the counters stay *)
(* within what a nonce holds, and what is left of a chunk within what was  *)
(* read.                                                                   *)
(***************************************************************************)
THEOREM WebTypeCorrect == WebSpec => []WebTypeOK
<1>1. WebIInv => WebTypeOK
  BY DEF WebIInv, SealerPart, UnsealerPart, SealerInv, WebSealerInv, UnsealerInv, WebUnsealerInv,
         WebTypeOK
<1> QED
  BY <1>1, WebInvariance, PTL

(***************************************************************************)
(* Whatever the stream does, in every call of unseal, and even when the    *)
(* sealer took an error of its stream for its end, the output is the       *)
(* beginning of the message.                                               *)
(***************************************************************************)
THEOREM WebOutputCorrect == WebSpec => []OutputIsPrefix
<1>1. WebIInv => OutputIsPrefix
  BY DEF WebIInv, UnsealerPart, UnsealerInv, WebUnsealerInv, UnsealerHolds, WebUnsealerHolds,
         OutputIsPrefix
<1> QED
  BY <1>1, WebInvariance, PTL

(***************************************************************************)
(* The web's sealer takes an error of its stream for the end of it.  What  *)
(* follows is about the systems in which that does not happen.             *)
(***************************************************************************)
NoEarlyEnd == "read" \notin IOErrors \/ \A pair \in Ends : pair[1] # "web"

LEMMA LastSegmentIsWhole ==
  ASSUME NoEarlyEnd, WebIInv PROVE LastIsWhole
BY DEF NoEarlyEnd, WebIInv, SealerPart, WebSealerInv, WebSealerHolds, SealerInv

\* The segment that ended the stream was the one that ends the message.
LEMMA WebOkCovers ==
  ASSUME NoEarlyEnd, WebIInv PROVE OkIsComplete
<1>1. LastIsWhole
  BY LastSegmentIsWhole
<1>2. unseal = "ok" => \E k \in 1..Len(segs) : segs[k].last /\ out = segs[k].sig.tr
  BY DEF WebIInv, UnsealerPart, UnsealerInv, WebUnsealerInv, UnsealerHolds, WebUnsealerHolds
<1> QED
  BY <1>1, <1>2 DEF LastIsWhole, OkIsComplete

(***************************************************************************)
(* When a call of unseal returns Ok, be it the first or another, all of    *)
(* the message was written in that call.                                   *)
(***************************************************************************)
THEOREM WebOkCorrect ==
  ASSUME NoEarlyEnd PROVE WebSpec => []OkIsComplete
<1>1. WebIInv => OkIsComplete
  BY WebOkCovers
<1> QED
  BY <1>1, WebInvariance, PTL

(***************************************************************************)
(* Both sealers cut every message into the segments of the reference cut,  *)
(* but for the one whose policy alone fills a segment.                     *)
(***************************************************************************)
THEOREM WebCutCorrect ==
  ASSUME NoEarlyEnd PROVE WebSpec => []SameCut
<1>1. WebIInv => SameCut
  BY DEF NoEarlyEnd, WebIInv, SealerPart, WebSealerInv, WebSealerHolds, CutInv, SameCut
<1> QED
  BY <1>1, WebInvariance, PTL

-----------------------------------------------------------------------------
\* Nothing written is taken back while a call runs.
LEMMA WebOutputGrows ==
  ASSUME Sealed, WebUnsealerInv,
         \/ WebUnsealStep \/ WebUnsealError
         \/ \E ident, usk \in Idents : WebStartUnseal(ident, usk)
  PROVE  unseal \in UnsealRunning /\ Len(out) <= Len(out')
<1>1. out \in Seq(Nat) /\ Len(out) \in Nat
  BY WebUnsealerTypes, LenProperties
<1>2. ASSUME NEW bytes, NEW last \in BOOLEAN, NEW next, unseal = "reading",
             WebOpenSegment(bytes, last, next)
      PROVE  Len(out) <= Len(out')
  <2>1. CASE UNCHANGED out
    BY <1>1, <2>1
  <2>2. CASE Decrypts(bytes, last) /\ out' = out \o Opened.m
    <3>1. Opened.m \in Seq(Nat)
      BY <1>2, <2>2, WebNextSegment
    <3>2. Len(out \o Opened.m) = Len(out) + Len(Opened.m) /\ Len(Opened.m) \in Nat
      BY <1>1, <3>1, Concat
    <3> QED
      BY <1>1, <2>2, <3>2
  <2> QED
    BY <1>2, <2>1, <2>2, Zenon DEF WebOpenSegment
<1>3. CASE WebOpenFull
  BY <1>2, <1>3 DEF WebOpenFull, UnsealRunning
<1>4. CASE WebOpenLast
  BY <1>2, <1>4 DEF WebOpenLast, UnsealRunning
<1>5. CASE \/ WebOpenHeader(pubPol) \/ WebRejectHeader \/ NextChunk \/ Absorb \/ WebUnsealClose
           \/ WebUnsealError \/ \E ident, usk \in Idents : WebStartUnseal(ident, usk)
  <2>1. unseal \in UnsealRunning /\ out' = out
    BY <1>5
       DEF WebOpenHeader, WebRejectHeader, NextChunk, Absorb, WebUnsealClose, UnsealClose,
           WebUnsealError, WebStartUnseal, StartUnseal, UnsealRunning
  <2> QED
    BY <1>1, <2>1
<1> QED
  BY <1>3, <1>4, <1>5 DEF WebUnsealStep

\* unseal is not called again when it is called once only.
LEMMA CalledOnce ==
  ASSUME WebUnsealerInv, MaxCalls <= 1 PROVE ~WebNextCall
<1>1. calls \in Nat /\ MaxCalls \in Nat
  BY WebUnsealerAssumption DEF WebUnsealerInv, WebUnsealerTypeOK
<1>2. calls < MaxCalls => calls = 0
  BY <1>1
<1>3. calls = 0 => unseal = "opened" \/ pubId = NoPolicy
  BY DEF WebUnsealerInv, WebUnsealerHolds
<1> QED
  BY <1>2, <1>3 DEF WebNextCall, UnsealRunning

LEMMA WebStepDelivers ==
  ASSUME NoEarlyEnd, MaxCalls <= 1, WebIInv, WebIInv', [WebNext]_webVars
  PROVE  [Delivery!Next]_(Delivery!vars)
<1>1. Sealed /\ UNCHANGED inputVars
  BY SealerPartSealed, WebNextIInv DEF WebIInv
<1>2. /\ IsPrefixOfMessage(out) /\ IsPrefixOfMessage(out)'
      /\ unseal' = "ok" => /\ polId' = SigningPolicy'
                           /\ private' = IF polId' = pubId' THEN NoPolicy ELSE polId'
  BY DEF WebIInv, UnsealerPart, UnsealerInv, WebUnsealerInv, UnsealerHolds, WebUnsealerHolds
<1>3. unseal' = "ok" => out' = Prefix(len')
  <2>1. LastIsWhole'
    BY DEF NoEarlyEnd, WebIInv, SealerPart, WebSealerInv, WebSealerHolds, SealerInv
  <2>2. unseal' = "ok" => \E k \in 1..Len(segs') : segs'[k].last /\ out' = segs'[k].sig.tr
    BY DEF WebIInv, UnsealerPart, UnsealerInv, WebUnsealerInv, UnsealerHolds, WebUnsealerHolds
  <2> QED
    BY <2>1, <2>2 DEF LastIsWhole
<1>4. \/ UNCHANGED <<unseal, out, pubId, private>>
      \/ unseal \in UnsealRunning /\ Len(out) <= Len(out')
  <2>1. CASE SealerMoves \/ SealerFails \/ WebDamage \/ WebDone \/ UNCHANGED webVars
    BY <2>1 DEF SealerMoves, SealerFails, WebDamage, Damage, WebDone, webVars, vars,
                webUnsealerVars, unsealerVars
  <2>2. CASE UnsealerMoves \/ UnsealerFails \/ ReceiverCalls \/ ReceiverCallsAgain
    <3>1. CASE ends[2] = "web"
      <4>1. WebUnsealerInv
        BY <3>1 DEF WebIInv, UnsealerPart
      <4>2. \/ WebUnsealStep \/ WebUnsealError
            \/ \E ident, usk \in Idents : WebStartUnseal(ident, usk)
        BY <2>2, <3>1, <4>1, CalledOnce
           DEF UnsealerMoves, UnsealerFails, ReceiverCalls, ReceiverCallsAgain
      <4> QED
        BY <1>1, <4>1, <4>2, WebOutputGrows
    <3>2. CASE ends[2] # "web"
      <4>1. UnsealerInv
        BY <3>2 DEF WebIInv, UnsealerPart
      <4>2. \/ Open \/ (\E n \in 1..Len(wire) : Receive(n)) \/ OpenFull \/ OpenLast
            \/ UnsealClose \/ UnsealIOError
            \/ \E ident, usk \in Idents : StartUnseal(ident, usk)
        BY <2>2, <3>2
           DEF UnsealerMoves, UnsealStep, UnsealerFails, ReceiverCalls, ReceiverCallsAgain
      <4> QED
        BY <1>1, <4>1, <4>2, OutputGrows
    <3> QED
      BY <3>1, <3>2
  <2> QED
    BY <2>1, <2>2 DEF WebNext
<1> QED
  BY <1>1, <1>2, <1>3, <1>4, StepDelivers DEF Sealed

(***************************************************************************)
(* Each pair of ends implements the delivery of a message to one call of   *)
(* unseal; another call has a verdict of its own.                          *)
(***************************************************************************)
THEOREM WebDeliveryImplemented ==
  ASSUME NoEarlyEnd, MaxCalls <= 1 PROVE WebSpec => Implements
<1>1. WebInit => Delivery!Init
  BY InitDelivers DEF WebInit, WebSealerInit, WebUnsealerInit
<1>2. WebIInv /\ WebIInv' /\ [WebNext]_webVars => [Delivery!Next]_(Delivery!vars)
  BY WebStepDelivers
<1> QED
  BY <1>1, <1>2, WebInvariance, PTL DEF WebSpec, Implements, Delivery!Spec
=============================================================================
