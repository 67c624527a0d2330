--------------------------- MODULE StreamUnsealer ---------------------------
(***************************************************************************)
(* Unsealer::new and Unsealer::unseal for streams (pg-core/src/client/     *)
(* rust/stream.rs): they read a sealed stream from an AsyncRead, in chunks *)
(* of any size, and write the message to an AsyncWrite, one segment at a   *)
(* time.  An action is one iteration of unseal's loop.                     *)
(***************************************************************************)
EXTENDS StreamFormat

CONSTANTS
  Idents,         \* identifiers of recipients, and others
  Recipients,     \* those the header was made for
  UnsealIOErrors  \* which ends may fail: a subset of {"read", "write"}

ASSUME UnsealerAssumption == Recipients \subseteq Idents

VARIABLES
  unseal,   \* where the unsealer is, or what its call returned
  pubId,    \* the policy found in the header signature
  keyOk,    \* decapsulation gave the key the stream is encrypted with
  buf,      \* buf[..buf_tail]: bytes read and not yet decrypted
  ucounter, \* the segment counter that is verified
  decPos,   \* the position of the AEAD stream decryptor
  polId,    \* the policy found in the first segment
  verified, \* the message bytes the verifier has absorbed
  out,      \* the message bytes written
  private   \* the private policy of the result

unsealerVars == <<unseal, pubId, keyOk, buf, ucounter, decPos, polId, verified, out, private>>

UnsealRunning == {"new", "opened", "reading", "closing"}
UnsealFailed ==
  {"NotPostGuard", "IncorrectVersion", "ConstraintViolation", "FormatViolation",
   "Bincode", "IncorrectSignature", "UnknownIdentifier", "KEM", "AEAD",
   "ReadError", "WriteError"}

UnsealerTypeOK ==
  /\ unseal \in UnsealRunning \cup UnsealFailed \cup {"ok"}
  /\ pubId \in Policies \cup {NoPolicy}
  /\ keyOk \in BOOLEAN
  /\ buf \in Seq(Bytes)
  /\ ucounter \in 0..CounterMax
  /\ decPos \in 0..CounterMax
  /\ polId \in Policies \cup {NoPolicy}
  /\ verified \in Seq(Nat)
  /\ out \in Seq(Nat)
  /\ private \in Policies \cup {NoPolicy}

UnsealerInit ==
  /\ unseal = "new"
  /\ pubId = NoPolicy
  /\ keyOk = FALSE
  /\ buf = <<>>
  /\ ucounter = 0
  /\ decPos = 0
  /\ polId = NoPolicy
  /\ verified = <<>>
  /\ out = <<>>
  /\ private = NoPolicy

-----------------------------------------------------------------------------
Take(n) == SubSeq(wire, 1, n)
Leave(n) == SubSeq(wire, n + 1, Len(wire))

(***************************************************************************)
(* Unsealer::new.  The four parts of the header are read whole, or up to   *)
(* the end of the stream; the header signature must verify.                *)
(***************************************************************************)
HeaderRead == IF Len(wire) < 4 THEN wire ELSE Take(4)

\* Mutant: the header is used without its signature being verified.
HeaderEnds_Unverified == {n \in {4} : n <= Len(wire) /\ wire[1] = HeaderBytes[1]}

\* Where the segments may start when the signature verifies: behind the header,
\* or further on when its length, which is not signed, was changed to a larger
\* one, as the bytes behind a signature are ignored.
HeaderEnds ==
  {n \in 4..Len(wire) :
     \/ n = 4 /\ Take(4) = HeaderBytes
     \/ /\ wire[3] = Junk
        /\ \A i \in {1, 2, 4} : wire[i] = HeaderBytes[i]
        /\ n > 4 \/ (eof /\ n = Len(wire))}

OpenHeader(signer) ==
  /\ unseal = "new"
  /\ \E n \in HeaderEnds : wire' = Leave(n)
  /\ pubId' = signer
  /\ unseal' = "opened"
  /\ UNCHANGED <<keyOk, buf, ucounter, decPos, polId, verified, out, private, eof, segs>>

\* The errors when part j is the first that is missing or changed; lengths that
\* were changed also make what follows be read at the wrong places.
MissingError(j) ==
  CASE j = 1 -> "NotPostGuard" [] j \in {2, 3} -> "FormatViolation" [] j = 4 -> "Bincode"

ChangedErrors(j) ==
  (IF j = 1 THEN {"NotPostGuard", "IncorrectVersion", "ConstraintViolation"} ELSE {})
    \cup (IF j \in {1, 2} THEN {"FormatViolation"} ELSE {})
    \cup {"Bincode", "IncorrectSignature"}

RejectHeader ==
  /\ unseal = "new"
  /\ Len(wire) < 4 => eof
  /\ \E j \in 1..4 :
       /\ \A i \in 1..j - 1 : i <= Len(wire) /\ wire[i] = HeaderBytes[i]
       /\ IF j > Len(wire)
            THEN unseal' = MissingError(j)
            ELSE wire[j] # HeaderBytes[j] /\ unseal' \in ChangedErrors(j)
  /\ wire' = SubSeq(wire, Len(HeaderRead) + 1, Len(wire))
  /\ UNCHANGED <<pubId, keyOk, buf, ucounter, decPos, polId, verified, out, private, eof, segs>>

(***************************************************************************)
(* The start of unseal: ident is looked up among the recipients, and the   *)
(* session key decapsulated with the user secret key for usk, which fails, *)
(* or gives another key, unless it is that recipient's.                    *)
(***************************************************************************)
StartUnseal(ident, usk) ==
  /\ unseal = "opened"
  /\ \/ ident \notin Recipients /\ unseal' = "UnknownIdentifier" /\ UNCHANGED keyOk
     \/ /\ ident \in Recipients
        /\ keyOk' = (usk = ident)
        /\ unseal' \in (IF usk = ident THEN {"reading"} ELSE {"reading", "KEM"})
  /\ UNCHANGED <<pubId, buf, ucounter, decPos, polId, verified, out, private, wireVars>>

-----------------------------------------------------------------------------
(***************************************************************************)
(* The loop.  The buffer holds one full segment's ciphertext: without the  *)
(* policy, which is inside the first segment, all full ones are as long.   *)
(***************************************************************************)
BufSize == SegmentSize + SigBytes + TagSize

\* A read returns between one byte and all that fit.
Receive(n) ==
  /\ unseal = "reading"
  /\ n \in 1..Len(wire)
  /\ Len(buf) + n < BufSize
  /\ buf' = buf \o Take(n)
  /\ wire' = Leave(n)
  /\ UNCHANGED <<unseal, pubId, keyOk, ucounter, decPos, polId, verified, out, private, eof, segs>>

\* The AEAD accepts a ciphertext only as a whole, under the key, at the
\* position and with the last flag it was made for.
Decrypts(bytes, last) ==
  /\ keyOk
  /\ decPos + 1 \in DOMAIN segs
  /\ segs[decPos + 1].last = last
  /\ bytes = Ciphertext(decPos + 1, segs[decPos + 1])

\* What decryption at the current position yields, and the policy it is
\* verified for: the first segment's own, or the one found there.
Opened == segs[decPos + 1]
PolicyOf(seg) == IF ucounter = 0 THEN seg.pol ELSE polId

\* The signature must be by that policy, over all that was absorbed.
Verifies(seg, last) ==
  seg.sig = Signature(verified \o seg.m, ucounter, last, PolicyOf(seg))

\* write_all writes everything, or fails having written a part.
WriteOut(m, next) ==
  \/ out' = out \o m /\ unseal' = next
  \/ /\ "write" \in UnsealIOErrors
     /\ \E n \in 0..Len(m) - 1 : out' = out \o SubSeq(m, 1, n)
     /\ unseal' = "WriteError"

\* The segment in the buffer is decrypted, verified and written, in that order.
OpenSegment(bytes, last, next) ==
  /\ buf' = <<>>
  /\ \/ /\ ~Decrypts(bytes, last)
        /\ unseal' = "AEAD"
        /\ UNCHANGED <<decPos, polId, verified, out>>
     \/ /\ Decrypts(bytes, last)
        /\ decPos' = IF last THEN decPos ELSE decPos + 1
        /\ polId' = PolicyOf(Opened)
        /\ verified' = verified \o Opened.m
        /\ IF Verifies(Opened, last)
             THEN WriteOut(Opened.m, next)
             ELSE unseal' = "IncorrectSignature" /\ UNCHANGED out

\* The counter follows the decryptor's position.
NextCounter_Kept == ucounter    \* mutant: it does not
NextCounter == ucounter + 1

\* The read fills the buffer: it holds a segment that is not the last.
OpenFull ==
  /\ unseal = "reading"
  /\ Len(wire) >= BufSize - Len(buf)
  /\ wire' = Leave(BufSize - Len(buf))
  /\ IF decPos = CounterMax
       THEN /\ unseal' = "AEAD"    \* decrypt_next refuses the largest position
            /\ UNCHANGED <<buf, decPos, polId, verified, out>>
       ELSE OpenSegment(buf \o Take(BufSize - Len(buf)), FALSE, "reading")
  /\ ucounter' = IF unseal' = "reading" THEN NextCounter ELSE ucounter
  /\ UNCHANGED <<pubId, keyOk, private, eof, segs>>

\* A read returns no byte.
StreamEnds_InSegment == wire = <<>> /\ eof /\ buf # <<>>   \* mutant: not between segments
StreamEnds == wire = <<>> /\ eof

\* The stream ends: what is in the buffer is the last segment.
OpenLast ==
  /\ unseal = "reading"
  /\ StreamEnds
  /\ Len(buf) < BufSize
  /\ OpenSegment(buf, TRUE, "closing")
  /\ UNCHANGED <<pubId, keyOk, ucounter, private, wireVars>>

\* The policy of the message is reported when it is not that of the header.
PrivateResult_Always == polId     \* mutant: it always is
PrivateResult_Never == NoPolicy   \* mutant: it never is
PrivateResult == IF polId = pubId THEN NoPolicy ELSE polId

\* The writer is closed.
UnsealClose ==
  /\ unseal = "closing"
  /\ unseal' = "ok"
  /\ private' = PrivateResult
  /\ UNCHANGED <<pubId, keyOk, buf, ucounter, decPos, polId, verified, out, wireVars>>

\* The reader, which new gives other names, or the close of the writer fails.
UnsealIOError ==
  /\ \/ /\ unseal = "new"
        /\ "read" \in UnsealIOErrors
        /\ unseal' \in {"NotPostGuard", "ConstraintViolation", "FormatViolation", "ReadError"}
     \/ unseal = "reading" /\ "read" \in UnsealIOErrors /\ unseal' = "ReadError"
     \/ unseal = "closing" /\ "write" \in UnsealIOErrors /\ unseal' = "WriteError"
  /\ UNCHANGED <<pubId, keyOk, buf, ucounter, decPos, polId, verified, out, private, wireVars>>
=============================================================================
