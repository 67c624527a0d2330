------------------------------ MODULE WebSealer ------------------------------
(***************************************************************************)
(* Sealer::seal for the streams of the web (pg-core/src/client/web/        *)
(* stream.rs): the same format as StreamSealer, but the message comes in   *)
(* chunks whose size the reader chooses, which may span several segments,  *)
(* and every segment's nonce is made from the counter, so there is no      *)
(* encryptor with a position of its own (encPos stays 0).                  *)
(***************************************************************************)
EXTENDS StreamSealer

VARIABLE chunk   \* bytes of array: those of the last chunk not yet in buf

webSealerVars == <<sealerVars, chunk>>

WebSealFailed == {"ConstraintViolation", "Symmetric", "CastError", "WriteError"}

WebSealerTypeOK ==
  /\ len \in Lens
  /\ pubPol \in Policies
  /\ privPol \in Policies \cup {NoPolicy}
  /\ seal \in SealRunning \cup WebSealFailed \cup {"sealed"}
  /\ rd \in Nat /\ chunk \in 0..rd
  /\ start \in Nat
  /\ pend \in Seq(Nat)
  /\ counter \in 0..CounterMax /\ encPos = 0
  /\ signed \in Seq(Nat)

WebSealerInit == SealerInit /\ chunk = 0

\* The header is fed in whole items, and fails as in StreamSealer.
WebSealHeader == SealHeader /\ UNCHANGED chunk

\* A sink takes an item or fails; Error::JavaScript is called by its cause.
Feed(bytes, next) ==
  \/ /\ wire' = wire \o bytes
     /\ seal' = next
     /\ eof' = (next \in WebSealFailed)
  \/ "write" \in IOErrors /\ UNCHANGED wire /\ Fail("WriteError")

\* The next n bytes of array.
Taken_Last(n) == Slice(rd - n, n)     \* mutant: the last n
Taken(n) == Slice(rd - chunk, n)

\* The next chunk, of any size; an empty one changes nothing.
ReadChunk ==
  /\ seal = "reading"
  /\ chunk = 0
  /\ \E n \in 1..len - rd : chunk' = n /\ rd' = rd + n
  /\ UNCHANGED <<inputVars, seal, start, pend, counter, encPos, signed, wireVars>>

\* A chunk goes to the buffer when it leaves room.
Fits_Full == chunk <= Room            \* mutant: or fills it
Fits == chunk < Room

FillChunk ==
  /\ seal = "reading"
  /\ chunk > 0
  /\ Fits
  /\ pend' = pend \o Taken(chunk)
  /\ chunk' = 0
  /\ UNCHANGED <<inputVars, seal, rd, start, counter, encPos, signed, wireVars>>

\* checked_add, after the segment was fed.
CounterEnds_Never == FALSE            \* mutant: the counter stays instead
CounterEnds == counter = CounterMax

\* Otherwise the chunk fills the segment, which is sealed and not the last.
WebSealFull ==
  /\ seal = "reading"
  /\ chunk > 0
  /\ ~Fits
  /\ LET m == pend \o Taken(Room)
         seg == NewSegment(m, FALSE)
     IN /\ signed' = signed \o m
        /\ segs' = Append(segs, seg)
        /\ Feed(Ciphertext(Len(segs) + 1, seg), IF CounterEnds THEN "Symmetric" ELSE "reading")
  /\ chunk' = chunk - Room
  /\ pend' = <<>>
  /\ start' = 0
  /\ counter' = IF counter = CounterMax THEN counter ELSE counter + 1
  /\ UNCHANGED <<inputVars, rd, encPos>>

\* The loop over chunks ends with the stream, and with an error of the stream.
WebAtEnd_Any == TRUE                  \* mutant: after any chunk
WebAtEnd == rd = len \/ "read" \in IOErrors

\* What is buffered is the last segment, however long it is.
WebSealLast ==
  /\ seal = "reading"
  /\ chunk = 0
  /\ WebAtEnd
  /\ LET seg == NewSegment(pend, TRUE)
     IN /\ signed' = signed \o pend
        /\ segs' = Append(segs, seg)
        /\ Feed(Ciphertext(Len(segs) + 1, seg), "closing")
  /\ UNCHANGED <<inputVars, chunk, rd, start, pend, counter, encPos>>

WebSealClose == SealClose /\ UNCHANGED chunk

\* An item that is no Uint8Array, or the flush or close of the sink failing.
WebSealError ==
  /\ \/ seal = "reading" /\ chunk = 0 /\ "cast" \in IOErrors /\ Fail("CastError")
     \/ seal = "closing" /\ "write" \in IOErrors /\ Fail("WriteError")
  /\ UNCHANGED <<inputVars, chunk, rd, start, pend, counter, encPos, signed, wire, segs>>

WebSealStep ==
  WebSealHeader \/ ReadChunk \/ FillChunk \/ WebSealFull \/ WebSealLast \/ WebSealClose

-----------------------------------------------------------------------------
\* The policy fills the first segment and there is no message: no chunk comes to
\* make a full segment of it, and it becomes the last one, as long as a full one.
FullLastSegment == len = 0 /\ PolicyHeader(SigningPolicy) = SegmentSize

\* What seal returns for a stream and a sink that do not fail.
WebSealResult ==
  IF PolicyHeader(SigningPolicy) > SegmentSize THEN seal = "ConstraintViolation"
  ELSE IF FullSegments > CounterMax /\ ~FullLastSegment
    THEN seal = "Symmetric" /\ Len(segs) = CounterMax + 1
  ELSE seal = "sealed"

(***************************************************************************)
(* "Seals the contents of a ReadableStream" (pg-wasm/src/lib.rs): Ok means *)
(* that the stream was read to its end.                                    *)
(***************************************************************************)
SealedIsWhole == seal = "sealed" => rd = len
=============================================================================
