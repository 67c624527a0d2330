----------------------------- MODULE WebUnsealer -----------------------------
(***************************************************************************)
(* Unsealer::new and Unsealer::unseal for the streams of the web           *)
(* (pg-core/src/client/web/stream.rs).  The stream comes in chunks of any  *)
(* size: what is left of the one the header ends in is spilled, and comes  *)
(* first in unseal.  unseal borrows the unsealer and can be called again;  *)
(* spill, verifier and stream are then where the last call left them.      *)
(* decPos is the counter in the nonce, which here is the counter itself.   *)
(***************************************************************************)
EXTENDS StreamUnsealer

CONSTANT MaxCalls   \* how often unseal is called

ASSUME WebUnsealerAssumption == MaxCalls \in Nat

VARIABLES
  spill,   \* bytes read behind the header
  array,   \* bytes of the current chunk not yet in buf
  calls,   \* calls of unseal so far
  spoilt   \* one of them, which has ended, came to read segments

webUnsealerVars == <<unsealerVars, spill, array, calls, spoilt>>

\* Errors of the stream, the sink and Web Crypto are all Error::JavaScript, and
\* called by their cause here.
WebUnsealFailed == (UnsealFailed \ {"ReadError"}) \cup {"Symmetric", "CastError"}

WebUnsealerTypeOK ==
  /\ unseal \in UnsealRunning \cup WebUnsealFailed \cup {"ok"}
  /\ pubId \in Policies \cup {NoPolicy}
  /\ keyOk \in BOOLEAN
  /\ {buf, spill, array} \subseteq Seq(Bytes)
  /\ ucounter \in 0..CounterMax /\ decPos \in 0..CounterMax
  /\ polId \in Policies \cup {NoPolicy}
  /\ {verified, out} \subseteq Seq(Nat)
  /\ private \in Policies \cup {NoPolicy}
  /\ calls \in 0..MaxCalls /\ spoilt \in BOOLEAN

WebUnsealerInit ==
  UnsealerInit /\ spill = <<>> /\ array = <<>> /\ calls = 0 /\ spoilt = FALSE

-----------------------------------------------------------------------------
(***************************************************************************)
(* Unsealer::new: the chunk the header ends in holds whatever follows it.  *)
(***************************************************************************)
WebOpenHeader(signer) ==
  /\ unseal = "new"
  /\ \E end \in HeaderEnds : \E n \in end..Len(wire) :
       /\ end > 4 \/ Take(4) = HeaderBytes
       /\ spill' = SubSeq(wire, end + 1, n)
       /\ wire' = Leave(n)
  /\ pubId' = signer
  /\ unseal' = "opened"
  /\ UNCHANGED <<keyOk, buf, ucounter, decPos, polId, verified, out, private, eof, segs>>
  /\ UNCHANGED <<array, calls, spoilt>>

\* read_atleast has one error for whatever is missing, which is also that of a
\* signature length that is too large for the stream.
WebRejectHeader ==
  /\ unseal = "new"
  /\ Len(wire) < 4 => eof
  /\ \E j \in 1..4 :
       /\ \A i \in 1..j - 1 : i <= Len(wire) /\ wire[i] = HeaderBytes[i]
       /\ IF j > Len(wire)
            THEN unseal' = "FormatViolation"
            ELSE /\ wire[j] # HeaderBytes[j]
                 /\ unseal' \in ChangedErrors(j) \cup {"FormatViolation"}
  /\ wire' = SubSeq(wire, Len(HeaderRead) + 1, Len(wire))
  /\ UNCHANGED <<pubId, keyOk, buf, ucounter, decPos, polId, verified, out, private, eof, segs>>
  /\ UNCHANGED <<spill, array, calls, spoilt>>

\* A call of unseal, which begins with its own buffer, counter and sink.
Call ==
  /\ calls < MaxCalls
  /\ calls' = calls + 1
  /\ UNCHANGED <<spill, array, spoilt>>

WebStartUnseal(ident, usk) == StartUnseal(ident, usk) /\ Call

\* The call before returned: its locals are gone.
WebNextCall ==
  /\ unseal \notin UnsealRunning
  /\ pubId # NoPolicy
  /\ calls < MaxCalls
  /\ unseal' = "opened"
  /\ spoilt' = (spoilt \/ unseal \notin {"UnknownIdentifier", "KEM"})
  /\ buf' = <<>> /\ array' = <<>> /\ ucounter' = 0 /\ decPos' = 0
  /\ keyOk' = FALSE /\ polId' = NoPolicy /\ out' = <<>> /\ private' = NoPolicy
  /\ UNCHANGED <<pubId, verified, spill, calls, wireVars>>

-----------------------------------------------------------------------------
(***************************************************************************)
(* The loop: chunks are taken from the spill first, then from the stream,  *)
(* and poured into the buffer, which is decrypted whenever it is full.     *)
(***************************************************************************)
FromSpill == spill # <<>> /\ array' = spill /\ spill' = <<>> /\ UNCHANGED wire

FromStream ==
  \E n \in 1..Len(wire) : array' = Take(n) /\ wire' = Leave(n) /\ UNCHANGED spill

\* Mutant: the stream first, then the spill.
NextArray_StreamFirst == IF wire # <<>> THEN FromStream ELSE FromSpill
NextArray == IF spill # <<>> THEN FromSpill ELSE FromStream

NextChunk ==
  /\ unseal = "reading"
  /\ array = <<>>
  /\ NextArray
  /\ UNCHANGED <<unseal, pubId, keyOk, buf, ucounter, decPos, polId, verified, out, private>>
  /\ UNCHANGED <<calls, spoilt, eof, segs>>

\* The chunk leaves room in the buffer.
Absorb ==
  /\ unseal = "reading"
  /\ array # <<>>
  /\ Len(array) < BufSize - Len(buf)
  /\ buf' = buf \o array
  /\ array' = <<>>
  /\ UNCHANGED <<unseal, pubId, keyOk, ucounter, decPos, polId, verified, out, private>>
  /\ UNCHANGED <<spill, calls, spoilt, wireVars>>

\* A segment is decrypted, verified and fed to the sink, which takes all or
\* nothing of it; next is how the call goes on after that.
WebOpenSegment(bytes, last, next) ==
  \/ /\ ~Decrypts(bytes, last)
     /\ unseal' = "AEAD"
     /\ UNCHANGED <<polId, verified, out>>
  \/ /\ Decrypts(bytes, last)
     /\ polId' = PolicyOf(Opened)
     /\ verified' = verified \o Opened.m
     /\ \/ ~Verifies(Opened, last) /\ unseal' = "IncorrectSignature" /\ UNCHANGED out
        \/ /\ Verifies(Opened, last)
           /\ \/ out' = out \o Opened.m /\ unseal' = next
              \/ "write" \in UnsealIOErrors /\ unseal' = "WriteError" /\ UNCHANGED out

\* checked_add, after the segment was fed.
UCounterEnds_Never == FALSE     \* mutant: the counter is not checked
UCounterEnds == ucounter = CounterMax

\* The chunk fills the buffer with a segment that is not the last.
WebOpenFull ==
  /\ unseal = "reading"
  /\ LET room == BufSize - Len(buf)
     IN /\ Len(array) > 0 /\ Len(array) >= room
        /\ WebOpenSegment(buf \o SubSeq(array, 1, room), FALSE,
                          IF UCounterEnds THEN "Symmetric" ELSE "reading")
        /\ array' = SubSeq(array, room + 1, Len(array))
  /\ buf' = <<>>
  /\ ucounter' = IF unseal' = "reading" THEN ucounter + 1 ELSE ucounter
  /\ decPos' = ucounter'
  /\ UNCHANGED <<pubId, keyOk, spill, calls, spoilt, private, wireVars>>

\* The stream ends; so does, to the code, one that fails.
NoMoreChunks_InSegment ==       \* mutant: not between segments
  spill = <<>> /\ ((wire = <<>> /\ eof) \/ "read" \in UnsealIOErrors) /\ buf # <<>>
NoMoreChunks == spill = <<>> /\ ((wire = <<>> /\ eof) \/ "read" \in UnsealIOErrors)

WebOpenLast ==
  /\ unseal = "reading"
  /\ array = <<>>
  /\ NoMoreChunks
  /\ WebOpenSegment(buf, TRUE, "closing")
  /\ buf' = <<>>
  /\ UNCHANGED <<pubId, keyOk, ucounter, decPos, spill, array, calls, spoilt, private, wireVars>>

WebUnsealClose == UnsealClose /\ UNCHANGED <<spill, array, calls, spoilt>>

\* In new, an error of the stream is a missing header.  An item may be no
\* Uint8Array, in new and in unseal, and the flush or close of the sink fail.
WebUnsealError ==
  /\ \/ unseal = "new" /\ "read" \in UnsealIOErrors /\ unseal' = "FormatViolation"
     \/ unseal = "new" /\ "cast" \in UnsealIOErrors /\ unseal' = "CastError"
     \/ /\ unseal = "reading" /\ array = <<>> /\ spill = <<>>
        /\ "cast" \in UnsealIOErrors
        /\ unseal' = "CastError"
     \/ unseal = "closing" /\ "write" \in UnsealIOErrors /\ unseal' = "WriteError"
  /\ UNCHANGED <<pubId, keyOk, buf, ucounter, decPos, polId, verified, out, private, wireVars>>
  /\ UNCHANGED <<spill, array, calls, spoilt>>
=============================================================================
