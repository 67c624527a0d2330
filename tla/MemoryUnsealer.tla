--------------------------- MODULE MemoryUnsealer ---------------------------
(***************************************************************************)
(* Unsealer::new and Unsealer::unseal for a message in memory, in Rust     *)
(* (pg-core/src/client/rust/mod.rs) and for the web (client/web/mod.rs).   *)
(* The bytes of a sealed message are those of MemorySealer.                *)
(***************************************************************************)
EXTENDS MemorySealer

CONSTANTS
  Idents,       \* identifiers of recipients, and others
  KeyPolicies   \* the policies that receivers have keys for

ASSUME UnsealerAssumption == KeyPolicies \subseteq Policy

VARIABLES
  webUnseals,   \* it is the web's unsealer
  unseal,       \* where the unsealer is, or what its call returned
  pubId,        \* the policy found in the header signature
  ct,           \* the bytes behind it
  with,         \* the identifier and the key that were used, once they were
  out,          \* the message that was returned
  private       \* the private policy of the result

unsealerVars == <<webUnseals, unseal, pubId, ct, with, out, private>>

UnsealRunning == {"new", "opened"}
UnsealFailed ==
  {"NotPostGuard", "IncorrectVersion", "ConstraintViolation", "Bincode", "IncorrectSignature",
   "ModeNotSupported", "UnknownIdentifier", "KEM", "Symmetric", "JavaScript", "panic"}

UnsealerTypeOK ==
  /\ webUnseals \in BOOLEAN
  /\ unseal \in UnsealRunning \cup UnsealFailed \cup {"ok"}
  /\ pubId \in Signers \cup {NoSigner}
  /\ ct \in Seq(Nat \X Nat)
  /\ with \in {<<>>} \cup (Idents \X KeyPolicies)
  /\ out \in Seq(Nat)
  /\ private \in Signers \cup {NoSigner}

UnsealerInit ==
  /\ webUnseals \in BOOLEAN
  /\ unseal = "new"
  /\ pubId = NoSigner
  /\ ct = <<>>
  /\ with = <<>>
  /\ out = <<>>
  /\ private = NoSigner

-----------------------------------------------------------------------------
(***************************************************************************)
(* Unsealer::new.  The input is split at the lengths read from it, and     *)
(* nothing checks that it is long enough: split_at panics when it is not.  *)
(***************************************************************************)
Preamble == 2   \* prelude and version, and the header's length

\* A length that was changed may be any other.
LengthAt(p, part, n) ==
  IF wire[p] = <<part, 1>> THEN {n} ELSE 0..(Len(wire) + 1) \ {n}

Limit == MaxHeader

HeaderLengths == LengthAt(2, 2, HeaderLen(header))

\* A signature that was changed does not parse, or does not verify; bytes behind
\* one are ignored.
SplitAt(h, s) ==
  LET headerBytes == SubSeq(wire, Preamble + 1, Preamble + h)
      sigBytes == SubSeq(wire, Preamble + h + 2, Preamble + h + 1 + s)
      sigParses == s >= SigLen /\ SubSeq(sigBytes, 1, SigLen) = Part(5, SigLen)
  IN \/ Len(wire) < Preamble + h + 1 + s /\ unseal' = "panic"
     \/ /\ Len(wire) >= Preamble + h + 1 + s
        /\ \/ ~sigParses /\ unseal' \in {"Bincode", "IncorrectSignature"}
           \/ /\ sigParses
              /\ headerBytes # Part(3, HeaderLen(header))
              /\ unseal' = "IncorrectSignature"
           \/ /\ sigParses
              /\ headerBytes = Part(3, HeaderLen(header))
              /\ unseal' = IF header.mode.kind = "InMemory" THEN "opened" ELSE "ModeNotSupported"

SplitHeader(h) ==
  \/ h > Limit /\ unseal' = "ConstraintViolation" /\ UNCHANGED ct
  \/ /\ h <= Limit
     /\ Len(wire) <= Preamble + h
     /\ unseal' = "panic"
     /\ UNCHANGED ct
  \/ /\ h <= Limit
     /\ Len(wire) > Preamble + h
     /\ \E s \in LengthAt(Preamble + h + 1, 4, SigLen) :
          /\ SplitAt(h, s)
          /\ ct' = SubSeq(wire, Preamble + h + 2 + s, Len(wire))

Open ==
  /\ unseal = "new"
  /\ \/ Len(wire) < Preamble /\ unseal' = "panic" /\ UNCHANGED ct
     \/ /\ Len(wire) >= Preamble
        /\ wire[1] # <<1, 1>>
        /\ unseal' \in {"NotPostGuard", "IncorrectVersion"}
        /\ UNCHANGED ct
     \/ /\ Len(wire) >= Preamble
        /\ wire[1] = <<1, 1>>
        /\ \E h \in HeaderLengths : SplitHeader(h)
  /\ pubId' = IF unseal' = "opened" THEN pubPol ELSE pubId
  /\ UNCHANGED <<webUnseals, with, out, private>>

-----------------------------------------------------------------------------
(***************************************************************************)
(* unseal.  The AEAD accepts a ciphertext only as a whole and under the    *)
(* key it was made with; its errors have another name on the web.          *)
(***************************************************************************)
AeadError == IF webUnseals THEN "JavaScript" ELSE "Symmetric"

Decrypts_Prefix(ident, usk) ==      \* mutant: bytes behind it are ignored
  /\ Len(ct) >= CtLen /\ SubSeq(ct, 1, CtLen) = CiphertextBytes
  /\ Decapsulates(header, ident, usk)
Decrypts(ident, usk) == ct = CiphertextBytes /\ Decapsulates(header, ident, usk)

Verifies == plain.sig.over = plain.message

\* In debug builds it is an assertion that the sizes agree.
SizesAgree == header.mode.size = Len(plain.message)

\* A private policy is reported when it is not, attribute by attribute, the other.
Private_Identity ==     \* mutant: when it is not for the same identity
  IF Derived(pubId) = Derived(plain.sig.by) THEN NoSigner ELSE plain.sig.by
Private == IF pubId = plain.sig.by THEN NoSigner ELSE plain.sig.by

UnsealFails(error) == unseal' = error /\ UNCHANGED <<out, private>>

VerifyMessage ==
  IF ~Verifies THEN UnsealFails("IncorrectSignature")
  ELSE IF ~SizesAgree THEN UnsealFails("panic")
  ELSE unseal' = "ok" /\ out' = plain.message /\ private' = Private

Unseal(ident, usk) ==
  /\ unseal = "opened"
  /\ \/ ident \notin DOMAIN header.recipients /\ UnsealFails("UnknownIdentifier")
     \/ /\ ident \in DOMAIN header.recipients
        /\ IF Decrypts(ident, usk)
             THEN VerifyMessage
             ELSE \/ UnsealFails(AeadError)
                  \/ ~Decapsulates(header, ident, usk) /\ UnsealFails("KEM")
  /\ with' = <<ident, usk>>
  /\ UNCHANGED <<webUnseals, pubId, ct>>

\* A promise of the browser is rejected.
DecryptFails(ident, usk) ==
  /\ unseal = "opened"
  /\ webUnseals
  /\ ident \in DOMAIN header.recipients
  /\ UnsealFails("JavaScript")
  /\ with' = <<ident, usk>>
  /\ UNCHANGED <<webUnseals, pubId, ct>>
=============================================================================
