---------------------------- MODULE StreamSealer ----------------------------
(***************************************************************************)
(* Sealer::seal for streams (pg-core/src/client/rust/stream.rs): it reads  *)
(* the message from an AsyncRead in chunks of any size, cuts it into       *)
(* segments and writes each one, signed and encrypted, to an AsyncWrite.   *)
(* An action is one iteration of its loop.                                 *)
(***************************************************************************)
EXTENDS StreamFormat

CONSTANTS
  Lens,      \* the message lengths to choose from
  IOErrors   \* which ends may fail: a subset of {"read", "write"}

ASSUME SealerAssumption == Lens \subseteq Nat

VARIABLES
  len,       \* the length of the message
  pubPol,    \* the policy of the public signing key
  privPol,   \* that of the private one, NoPolicy when there is none
  seal,      \* where the sealer is, or what its call returned
  rd,        \* bytes read from the reader
  start,     \* where the message starts in the buffer
  pend,      \* buf[start..buf_tail]: message bytes read and not yet sealed
  counter,   \* the segment counter that is signed
  encPos,    \* the position of the AEAD stream encryptor
  signed     \* the message bytes the signer has absorbed

inputVars == <<len, pubPol, privPol>>
sealerVars == <<len, pubPol, privPol, seal, rd, start, pend, counter, encPos, signed>>

\* The private key signs when there is one, the public key otherwise.
SigningPolicy == IF privPol = NoPolicy THEN pubPol ELSE privPol

SealRunning == {"ready", "reading", "closing"}
SealFailed == {"ConstraintViolation", "StreamError", "ReadError", "WriteError", "panic"}

SealerTypeOK ==
  /\ len \in Lens
  /\ pubPol \in Policies
  /\ privPol \in Policies \cup {NoPolicy}
  /\ seal \in SealRunning \cup SealFailed \cup {"sealed"}
  /\ rd \in Nat
  /\ start \in Nat
  /\ pend \in Seq(Nat)
  /\ counter \in 0..CounterMax
  /\ encPos \in 0..CounterMax
  /\ signed \in Seq(Nat)

SealerInit ==
  /\ len \in Lens
  /\ pubPol \in Policies
  /\ privPol \in Policies \cup {NoPolicy}
  /\ seal = "ready"
  /\ rd = 0
  /\ start = 0
  /\ pend = <<>>
  /\ counter = 0
  /\ encPos = 0
  /\ signed = <<>>

-----------------------------------------------------------------------------
\* An error returns from seal and drops the writer, which ends the stream.
Fail(error) == seal' = error /\ eof' = TRUE

\* write_all delivers everything, or fails having delivered a part; next is how
\* the sealer goes on after a write that succeeds.
Write(bytes, next) ==
  \/ /\ wire' = wire \o bytes
     /\ seal' = next
     /\ eof' = (next \in SealFailed)
  \/ /\ "write" \in IOErrors
     /\ \E n \in 0..Len(bytes) - 1 : wire' = wire \o SubSeq(bytes, 1, n)
     /\ Fail("WriteError")

(***************************************************************************)
(* The preamble, the header and its signature go out first; that a policy  *)
(* does not fit a segment is noticed only after they did.                  *)
(***************************************************************************)
SealHeader ==
  /\ seal = "ready"
  /\ start' = PolicyHeader(SigningPolicy)
  /\ Write(HeaderBytes, IF PolicyHeader(SigningPolicy) > SegmentSize
                          THEN "ConstraintViolation" ELSE "reading")
  /\ UNCHANGED <<inputVars, rd, pend, counter, encPos, signed, segs>>

(***************************************************************************)
(* A read returns between one byte and all that is wanted; it returns none *)
(* at the end of the message, and when there is no room.                   *)
(***************************************************************************)
Room == SegmentSize - (start + Len(pend))

ReadSizes ==
  {n \in 0..Room : n <= len - rd /\ (n = 0 => Room = 0 \/ rd = len)}

\* buf[start..buf_tail] once n more bytes were read.
PendAfter_Late(n) == pend \o Slice(rd + 1, n)   \* mutant: one byte further on
PendAfter(n) == pend \o Slice(rd, n)

\* The segment made of m: it is signed over all bytes the signer absorbed.
NewSegment(m, last) ==
  SegmentOf(IF counter = 0 THEN SigningPolicy ELSE NoPolicy, m,
            Signature(signed \o m, counter, last, SigningPolicy))

\* The read leaves room: the loop goes round.
FillSome ==
  /\ seal = "reading"
  /\ \E n \in ReadSizes \ {0} :
       /\ n < Room
       /\ rd' = rd + n
       /\ pend' = PendAfter(n)
  /\ UNCHANGED <<inputVars, seal, start, counter, encPos, signed, wireVars>>

\* encrypt_next_in_place refuses the largest position, and seal returns then.
EncryptorTakes_Any == TRUE      \* mutant: it goes on
EncryptorTakes == encPos < CounterMax

\* From the second segment on, messages start at the start of the buffer.
NextStart_Kept == start         \* mutant: room for a policy stays
NextStart == 0

\* The read fills the segment: it is sealed, and is not the last.
SealFull ==
  /\ seal = "reading"
  /\ EncryptorTakes
  /\ Room \in ReadSizes
  /\ LET m == PendAfter(Room)
         seg == NewSegment(m, FALSE)
     IN /\ signed' = signed \o m
        /\ segs' = Append(segs, seg)
        /\ Write(Ciphertext(Len(segs) + 1, seg),
                 IF counter = CounterMax THEN "panic" ELSE "reading")
  /\ rd' = rd + Room
  /\ pend' = <<>>
  /\ start' = NextStart
  /\ encPos' = encPos + 1
  /\ counter' = IF counter = CounterMax THEN counter ELSE counter + 1
  /\ UNCHANGED inputVars

\* The same when the encryptor refuses.
SealLimit ==
  /\ seal = "reading"
  /\ ~EncryptorTakes
  /\ Room \in ReadSizes
  /\ signed' = signed \o PendAfter(Room)
  /\ rd' = rd + Room
  /\ pend' = PendAfter(Room)
  /\ Fail("StreamError")
  /\ UNCHANGED <<inputVars, start, counter, encPos, wire, segs>>

\* A read of no byte, when there was room for one, is the end of the message.
AtEnd_Any == TRUE               \* mutant: so is any other
AtEnd == rd = len

\* The message ends, with room left: what is buffered is the last segment.
SealLast ==
  /\ seal = "reading"
  /\ Room > 0
  /\ AtEnd
  /\ LET seg == NewSegment(pend, TRUE)
     IN /\ signed' = signed \o pend
        /\ segs' = Append(segs, seg)
        /\ Write(Ciphertext(Len(segs) + 1, seg), "closing")
  /\ UNCHANGED <<inputVars, rd, start, pend, counter, encPos>>

\* flush and close.
SealClose ==
  /\ seal = "closing"
  /\ seal' = "sealed"
  /\ eof' = TRUE
  /\ UNCHANGED <<inputVars, rd, start, pend, counter, encPos, signed, wire, segs>>

\* The reader, or the flush and close of the writer, fails.
SealIOError ==
  /\ \/ seal = "reading" /\ "read" \in IOErrors /\ Fail("ReadError")
     \/ seal = "closing" /\ "write" \in IOErrors /\ Fail("WriteError")
  /\ UNCHANGED <<inputVars, rd, start, pend, counter, encPos, signed, wire, segs>>

SealStep == SealHeader \/ FillSome \/ SealFull \/ SealLimit \/ SealLast \/ SealClose

-----------------------------------------------------------------------------
(***************************************************************************)
(* How a message is to be cut, as a function of its length alone: the      *)
(* policy and the message are laid out one after the other and cut every   *)
(* SegmentSize bytes; the rest, possibly empty, is the last segment.       *)
(***************************************************************************)
FullSegments == (PolicyHeader(SigningPolicy) + len) \div SegmentSize

EndOf(k) == IF k <= FullSegments
              THEN k * SegmentSize - PolicyHeader(SigningPolicy)
              ELSE len

ReferenceSegment(k) ==
  LET from == IF k = 1 THEN 0 ELSE EndOf(k - 1)
      last == k = FullSegments + 1
  IN SegmentOf(IF k = 1 THEN SigningPolicy ELSE NoPolicy,
               Slice(from, EndOf(k) - from),
               Signature(Prefix(EndOf(k)), k - 1, last, SigningPolicy))

(***************************************************************************)
(* Whatever sizes the reads return, the segments are those of the          *)
(* reference cut: no byte is lost, repeated or moved at a segment          *)
(* boundary, and the last flag is on the segment that ends the message.    *)
(***************************************************************************)
CanonicalCut ==
  /\ Len(segs) <= FullSegments + 1
  /\ \A k \in 1..Len(segs) : segs[k] = ReferenceSegment(k)

(***************************************************************************)
(* seal returns Ok only for messages whose segments the counter can number,*)
(* and then it has written all of them; the counter limit stops it only    *)
(* for longer ones, and the size of a policy only when it does not fit a   *)
(* segment.  The unwrap behind the counter's increment, said to be unable  *)
(* to fail, does not.                                                      *)
(***************************************************************************)
CounterLimit ==
  /\ seal = "sealed" => /\ FullSegments <= CounterMax
                        /\ Len(segs) = FullSegments + 1
  /\ seal = "StreamError" => FullSegments > CounterMax
  /\ seal = "ConstraintViolation" => PolicyHeader(SigningPolicy) > SegmentSize
  /\ seal # "panic"
=============================================================================
