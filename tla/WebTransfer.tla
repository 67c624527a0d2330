----------------------------- MODULE WebTransfer -----------------------------
(***************************************************************************)
(* A sealer and an unsealer at either end of a stream, each of them the    *)
(* one for Rust or the one for the web: either must read what the other    *)
(* writes.                                                                 *)
(***************************************************************************)
EXTENDS StreamTransfer, WebSealer, WebUnsealer

CONSTANT Ends   \* the pairs of implementations, <<sealer, unsealer>>

ASSUME EndsAssumption == Ends \subseteq {"rust", "web"} \X {"rust", "web"}

VARIABLE ends

webVars == <<vars, chunk, spill, array, calls, spoilt, ends>>

WebTypeOK ==
  /\ WireTypeOK /\ nfaults \in 0..MaxFaults /\ ends \in Ends
  /\ IF ends[1] = "web" THEN WebSealerTypeOK ELSE SealerTypeOK
  /\ IF ends[2] = "web" THEN WebUnsealerTypeOK ELSE UnsealerTypeOK

WebInit ==
  /\ WireInit /\ WebSealerInit /\ WebUnsealerInit
  /\ nfaults = 0
  /\ ends \in Ends

-----------------------------------------------------------------------------
SealerMoves ==
  /\ \/ ends[1] = "rust" /\ SealStep /\ UNCHANGED chunk
     \/ ends[1] = "web" /\ WebSealStep
  /\ UNCHANGED <<webUnsealerVars, nfaults, ends>>

SealerFails ==
  /\ \/ ends[1] = "rust" /\ SealIOError /\ UNCHANGED chunk
     \/ ends[1] = "web" /\ WebSealError
  /\ UNCHANGED <<webUnsealerVars, nfaults, ends>>

WebUnsealStep ==
  \/ WebOpenHeader(pubPol) \/ WebRejectHeader
  \/ NextChunk \/ Absorb \/ WebOpenFull \/ WebOpenLast \/ WebUnsealClose

UnsealerMoves ==
  /\ \/ ends[2] = "rust" /\ UnsealStep /\ UNCHANGED <<spill, array, calls, spoilt>>
     \/ ends[2] = "web" /\ WebUnsealStep
  /\ UNCHANGED <<webSealerVars, nfaults, ends>>

ReceiverCalls ==
  /\ \E ident, usk \in Idents :
       \/ ends[2] = "rust" /\ StartUnseal(ident, usk) /\ UNCHANGED <<spill, array, calls, spoilt>>
       \/ ends[2] = "web" /\ WebStartUnseal(ident, usk)
  /\ UNCHANGED <<webSealerVars, nfaults, ends>>

ReceiverCallsAgain ==
  /\ ends[2] = "web"
  /\ WebNextCall
  /\ UNCHANGED <<webSealerVars, nfaults, ends>>

UnsealerFails ==
  /\ \/ ends[2] = "rust" /\ UnsealIOError /\ UNCHANGED <<spill, array, calls, spoilt>>
     \/ ends[2] = "web" /\ WebUnsealError
  /\ UNCHANGED <<webSealerVars, nfaults, ends>>

WebDamage == Damage /\ UNCHANGED <<chunk, spill, array, calls, spoilt, ends>>

WebDone == Finished /\ UNCHANGED webVars

WebNext ==
  \/ SealerMoves \/ SealerFails \/ UnsealerMoves \/ UnsealerFails
  \/ ReceiverCalls \/ ReceiverCallsAgain \/ WebDamage \/ WebDone

WebSpec == WebInit /\ [][WebNext]_webVars

\* As in StreamTransfer: nothing fair about errors, damage, or a second call.
WebFairSpec ==
  WebSpec /\ WF_webVars(SealerMoves) /\ WF_webVars(UnsealerMoves) /\ WF_webVars(ReceiverCalls)

-----------------------------------------------------------------------------
(***************************************************************************)
(* Whatever the sizes of reads and chunks, and however many segments a     *)
(* chunk spans, both sealers cut a message into the same segments, those   *)
(* of the reference cut, except in the corner FullLastSegment.             *)
(***************************************************************************)
SameCut == CanonicalCut \/ (ends[1] = "web" /\ FullLastSegment)

(***************************************************************************)
(* With a stream and a sink that do not fail the web's seal returns, and   *)
(* it is Ok exactly when the policy fits and checked_add lets the counter  *)
(* number all segments: the limit is StreamSealer's, though it is noticed  *)
(* only after one more segment was written.                                *)
(***************************************************************************)
WebSealReturns == <>[](ends[1] = "web" => WebSealResult)

(***************************************************************************)
(* Over a stream that does no harm, what either sealer sealed is unsealed  *)
(* by either unsealer with the recipient's key; a call refused for its     *)
(* identifier or its key before takes nothing from the stream.  The        *)
(* exception is a web sealer's last segment that is as long as a full one. *)
(***************************************************************************)
SealedIsUnsealed ==
  (/\ seal = "sealed" /\ keyOk /\ ~spoilt
   /\ ~(ends[1] = "web" /\ FullLastSegment))
    ~> unseal = "ok" \/ nfaults > 0

(***************************************************************************)
(* A call of unseal returns once the sealer's has, whatever was damaged.   *)
(***************************************************************************)
CallsReturn ==
  (unseal \in UnsealRunning \ {"opened"} /\ seal \notin SealRunning)
    ~> unseal \notin UnsealRunning \ {"opened"}

(***************************************************************************)
(* The same without the exception: what the tests of pg-wasm expect of     *)
(* streams that one end sealed and the other unseals.                      *)
(***************************************************************************)
RoundTrip == (seal = "sealed" /\ keyOk /\ ~spoilt) ~> unseal = "ok" \/ nfaults > 0
=============================================================================
