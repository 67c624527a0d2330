--------------------------- MODULE StreamTransfer ---------------------------
(***************************************************************************)
(* A sealer and an unsealer running at either end of a byte stream that    *)
(* may damage what it carries.                                             *)
(***************************************************************************)
EXTENDS StreamSealer, StreamUnsealer

CONSTANTS
  MaxFaults,   \* how often the stream may do damage
  FaultKinds   \* in which ways

ASSUME TransferAssumption == MaxFaults \in Nat

VARIABLE nfaults   \* how often it did

vars == <<wireVars, sealerVars, unsealerVars, nfaults>>

TypeOK == WireTypeOK /\ SealerTypeOK /\ UnsealerTypeOK /\ nfaults \in 0..MaxFaults

Init == WireInit /\ SealerInit /\ UnsealerInit /\ nfaults = 0

SealerStep == SealStep /\ UNCHANGED <<unsealerVars, nfaults>>

SealerError == SealIOError /\ UNCHANGED <<unsealerVars, nfaults>>

\* The header names the policy of the key it is signed with.
Open == OpenHeader(pubPol) \/ RejectHeader

UnsealStep == Open \/ (\E n \in 1..Len(wire) : Receive(n)) \/ OpenFull \/ OpenLast \/ UnsealClose

UnsealerStep == UnsealStep /\ UNCHANGED <<sealerVars, nfaults>>

\* The receiver chooses an identifier, and a user secret key it has.
ReceiverStarts ==
  /\ \E ident, usk \in Idents : StartUnseal(ident, usk)
  /\ UNCHANGED <<sealerVars, nfaults>>

UnsealerError == UnsealIOError /\ UNCHANGED <<sealerVars, nfaults>>

-----------------------------------------------------------------------------
(***************************************************************************)
(* Damage done on the way, to bytes in transit.  Ranges are whole segments *)
(* where the damage is to their order: anything else is cut, in effect, to *)
(* the same pieces by the unsealer.                                        *)
(***************************************************************************)
Cut(from, to) == SubSeq(wire, 1, from - 1) \o SubSeq(wire, to + 1, Len(wire))

\* The places of the bytes of segment k, when it is in transit as a whole.
IsSegmentAt(k, from, to) ==
  /\ to - from + 1 = CiphertextLen(segs[k])
  /\ SubSeq(wire, from, to) = Ciphertext(k, segs[k])

Lose ==       \* one byte, or everything from some place on
  /\ "lose" \in FaultKinds
  /\ \E i \in 1..Len(wire) : wire' \in {Cut(i, i), Cut(i, Len(wire))}

Corrupt ==
  /\ "corrupt" \in FaultKinds
  /\ \E i \in 1..Len(wire) : wire[i] # Junk /\ wire' = [wire EXCEPT ![i] = Junk]

LoseSegment ==
  /\ "segment" \in FaultKinds
  /\ \E k \in DOMAIN segs : \E i \in 1..Len(wire) : \E j \in i..Len(wire) :
       IsSegmentAt(k, i, j) /\ wire' = Cut(i, j)

Repeat ==
  /\ "segment" \in FaultKinds
  /\ \E k \in DOMAIN segs : \E i \in 1..Len(wire) : \E j \in i..Len(wire) :
       /\ IsSegmentAt(k, i, j)
       /\ wire' = SubSeq(wire, 1, j) \o SubSeq(wire, i, Len(wire))

Swap ==
  /\ "segment" \in FaultKinds
  /\ \E k, l \in DOMAIN segs : \E i \in 1..Len(wire) : \E j \in i..Len(wire) : \E h \in j..Len(wire) :
       /\ j < h
       /\ IsSegmentAt(k, i, j)
       /\ IsSegmentAt(l, j + 1, h)
       /\ wire' = SubSeq(wire, 1, i - 1) \o SubSeq(wire, j + 1, h)
                    \o SubSeq(wire, i, j) \o SubSeq(wire, h + 1, Len(wire))

Damage ==
  /\ nfaults < MaxFaults
  /\ Lose \/ Corrupt \/ LoseSegment \/ Repeat \/ Swap
  /\ nfaults' = nfaults + 1
  /\ UNCHANGED <<eof, segs, sealerVars, unsealerVars>>

-----------------------------------------------------------------------------
Finished == seal \notin SealRunning /\ unseal \notin UnsealRunning

Done == Finished /\ UNCHANGED vars

Next == SealerStep \/ SealerError \/ ReceiverStarts \/ UnsealerStep \/ UnsealerError \/ Damage \/ Done

(***************************************************************************)
(* The executor polls both tasks until they return, and the receiver, once *)
(* it has the header, does go on.  Errors of reader, writer and stream are *)
(* never forced.                                                           *)
(***************************************************************************)
Fairness == WF_vars(SealerStep) /\ WF_vars(UnsealerStep) /\ WF_vars(ReceiverStarts)

Spec == Init /\ [][Next]_vars
FairSpec == Spec /\ Fairness

-----------------------------------------------------------------------------
IsPrefixOfMessage(s) == \E n \in 0..len : s = Prefix(n)

(***************************************************************************)
(* Each segment is authenticated before it is written, so that consumers   *)
(* may use the output before the stream has ended (pg-core/README.md):     *)
(* whatever the stream does, and wherever either end stops, the output is  *)
(* the beginning of the message, nothing missing, twice or out of order.   *)
(***************************************************************************)
OutputIsPrefix == IsPrefixOfMessage(out)

(***************************************************************************)
(* unseal returns Ok only when all of the message was written, never for a *)
(* stream that was cut at a segment's boundary or whose sealer gave up.    *)
(***************************************************************************)
OkIsComplete == unseal = "ok" => out = Prefix(len)

(***************************************************************************)
(* The result names the key that signed the header as public, and a        *)
(* private policy if and only if the message was signed with a key of      *)
(* another policy, which it then names.                                    *)
(***************************************************************************)
OkNamesSigner ==
  unseal = "ok" =>
    /\ pubId = pubPol
    /\ private = (IF SigningPolicy = pubPol THEN NoPolicy ELSE privPol)

(***************************************************************************)
(* One fault anywhere in the stream, in its header, between two segments   *)
(* or at its end, and unseal does not return Ok.                           *)
(***************************************************************************)
DamageIsNoticed == nfaults = 1 => unseal # "ok"

(***************************************************************************)
(* The unsealer's counter, incremented without a check, stays within what  *)
(* the AEAD counts, and agrees with its position.                          *)
(***************************************************************************)
CountersAgree == unseal = "reading" => ucounter = decPos /\ ucounter <= Len(segs)

(***************************************************************************)
(* unseal returns, with a result or an error, whatever happened to the     *)
(* stream: it never waits for bytes that were lost.                        *)
(***************************************************************************)
UnsealReturns == <>(Finished)

(***************************************************************************)
(* debug_assert!(seg.len() > SIG_BYTES) in verify_segment: every segment   *)
(* that is verified has bytes before its signature.                        *)
(***************************************************************************)
VerifiesASegment == decPos' # decPos \/ (unseal' # unseal /\ unseal' = "closing")

SegmentAssertion == [][VerifiesASegment => SigBytes + Len(Opened.m) > SigBytes]_vars

-----------------------------------------------------------------------------
(***************************************************************************)
(* Every behaviour of the two ends is one the abstract specification       *)
(* allows: the signer named is the private policy, or the public one when  *)
(* the result has none.                                                    *)
(***************************************************************************)
Delivery == INSTANCE MessageDelivery WITH
  Signers <- Policies,
  NoSigner <- NoPolicy,
  message <- Prefix(len),
  sender <- SigningPolicy,
  delivered <- out,
  verdict <- IF unseal = "ok" THEN "ok"
             ELSE IF unseal \in UnsealRunning THEN "pending" ELSE "failed",
  signer <- IF unseal # "ok" THEN NoPolicy
            ELSE IF private = NoPolicy THEN pubId ELSE private

Implements == Delivery!Spec
=============================================================================
