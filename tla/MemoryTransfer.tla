--------------------------- MODULE MemoryTransfer ---------------------------
(***************************************************************************)
(* A message sealed in memory, in Rust or on the web, on its way to a      *)
(* receiver who unseals it, in either.                                     *)
(***************************************************************************)
EXTENDS MemoryUnsealer, SequencesExt

CONSTANTS
  MaxFaults,   \* how often the message may be damaged, or the browser fail
  Values       \* the values an attribute may have

ASSUME TransferAssumption == MaxFaults \in Nat /\ Values \subseteq Str

VARIABLE nfaults   \* how often that was

vars == <<sealerVars, wire, unsealerVars, nfaults>>

TypeOK == SealerTypeOK /\ UnsealerTypeOK /\ nfaults \in 0..MaxFaults

Init == SealerInit /\ UnsealerInit /\ nfaults = 0

SealerStep == (Create \/ Seal \/ Call \/ Encrypts) /\ UNCHANGED <<unsealerVars, nfaults>>

Caller == CallerWrites /\ UNCHANGED <<unsealerVars, nfaults>>

\* The receiver gets the message when the sealer has returned it, and then a key.
Receiver ==
  /\ seal = "sealed"
  /\ Open \/ (\E ident \in Idents, usk \in KeyPolicies : Unseal(ident, usk))
  /\ UNCHANGED <<sealerVars, wire, nfaults>>

-----------------------------------------------------------------------------
Cut == \E n \in 0..Len(wire) - 1 : wire' = SubSeq(wire, 1, n)

Extend == wire' = Append(wire, Junk)

Corrupt == \E i \in DOMAIN wire : wire[i] # Junk /\ wire' = [wire EXCEPT ![i] = Junk]

Damage ==
  /\ seal = "sealed"
  /\ unseal = "new"
  /\ Cut \/ Extend \/ Corrupt
  /\ UNCHANGED <<sealerVars, unsealerVars>>

BrowserFails ==
  \/ EncryptFails /\ UNCHANGED unsealerVars
  \/ /\ \E ident \in Idents, usk \in KeyPolicies : DecryptFails(ident, usk)
     /\ UNCHANGED <<sealerVars, wire>>

Fault ==
  /\ nfaults < MaxFaults
  /\ Damage \/ BrowserFails
  /\ nfaults' = nfaults + 1

Finished == seal \in SealFailed \/ unseal \notin UnsealRunning

Done == Finished /\ UNCHANGED vars

Next == SealerStep \/ Caller \/ Receiver \/ Fault \/ Done

Spec == Init /\ [][Next]_vars

-----------------------------------------------------------------------------
\* The same attributes, each as often, in whatever order, and the same time.
SamePolicy(p, q) == p.ts = q.ts /\ ToBag(p.con) = ToBag(q.con)

KeyFits == with[1] \in DOMAIN policies /\ SamePolicy(with[2], policies[with[1]])

(***************************************************************************)
(* A message opens with the key of a recipient's policy only, which is     *)
(* more than the hidden policy shows: all attributes with their values, an *)
(* empty value not being none, as often as they occur, and the timestamp.  *)
(***************************************************************************)
OkNeedsPolicy == unseal = "ok" => KeyFits

(***************************************************************************)
(* What was sealed is opened, and with such a key it is unsealed, in       *)
(* whatever order sender, receiver and PKG put the attributes, whichever   *)
(* sealer and unsealer were used and whatever the caller writes to the     *)
(* array once the web's sealer has started; unless the header the sealer   *)
(* wrote is too long for unsealers.                                        *)
(***************************************************************************)
RightKeyOpens ==
  /\ unseal \notin UnsealRunning
  /\ nfaults = 0
  /\ kind = "InMemory"
  /\ HeaderLen(header) <= MaxHeader
  /\ with # <<>> => KeyFits
  => unseal = "ok"

(***************************************************************************)
(* The header shows the same for any two values that agree on what their   *)
(* type lets be shown: nothing but their presence, and for some types the  *)
(* length and all but the last bytes.                                      *)
(***************************************************************************)
ShowsAlike(a, v) ==
  \/ a.t \notin HintTypes
  \/ /\ ByteLen(v) = ByteLen(a.v)
     /\ \E n \in 0..Len(v) :
          /\ n <= Len(a.v)
          /\ SubSeq(v, 1, n) = SubSeq(a.v, 1, n)
          /\ BytesOf(v, n) >= ByteLen(v) - AmountToHide

HintsHideValue ==
  \A r \in DOMAIN header.recipients : \A i \in DOMAIN policies[r].con :
    LET a == policies[r].con[i]
    IN a.v # NoValue =>
         \A v \in Values : 
           ShowsAlike(a, v) /\ ~HintFails([a EXCEPT !.v = v]) =>
             header.recipients[r].policy.con[i] = Hidden([a EXCEPT !.v = v])

(***************************************************************************)
(* Sealing panics only on a hint cut inside a character, and unsealing     *)
(* only on a message that was cut, or whose lengths were changed: the      *)
(* splits and the assertion do not fail on what a sealer wrote, nor on     *)
(* what was added behind it.                                               *)
(***************************************************************************)
PanicsForAReason ==
  /\ seal = "panic" => NewHeaderPanics(policies)
  /\ unseal = "panic" =>
       \/ Len(wire) < 3 + HeaderLen(header) + SigLen
       \/ Junk \in {wire[2], wire[3 + HeaderLen(header)]}

(***************************************************************************)
(* One fault anywhere in the message, and it does not open.                *)
(***************************************************************************)
DamageIsNoticed == nfaults = 1 => unseal # "ok"

(***************************************************************************)
(* Memory mode promises what the streams do, all at once: the message that *)
(* was in the array when seal started, or nothing, and its signer.         *)
(***************************************************************************)
Delivery == INSTANCE MessageDelivery WITH
  NoSigner <- NoSigner,
  Signers <- Signers,
  message <- Message,
  sender <- SigningPolicy,
  delivered <- out,
  verdict <- IF unseal = "ok" THEN "ok"
             ELSE IF unseal \in UnsealRunning THEN "pending" ELSE "failed",
  signer <- IF unseal # "ok" THEN NoSigner
            ELSE IF private = NoSigner THEN pubId ELSE private

Implements == Delivery!Spec
=============================================================================
