---------------------------- MODULE MemorySealer ----------------------------
(***************************************************************************)
(* Sealer::new and Sealer::seal for a message in memory, in Rust           *)
(* (pg-core/src/client/rust/mod.rs) and for the web (client/web/mod.rs,    *)
(* called by seal of pg-wasm).  In Rust seal is one step.  On the web it   *)
(* is suspended while the browser encrypts, and the caller may go on       *)
(* writing to the array it passed.                                         *)
(*                                                                         *)
(* The sealed message is                                                   *)
(*                                                                         *)
(*   prelude and version || header length || header                        *)
(*                       || sig length || header sig || ciphertext         *)
(*                                                                         *)
(* where byte i of part k is <<k, i>>.  A byte of the message is its       *)
(* position.  What the ciphertext decrypts to is recorded in plain.        *)
(***************************************************************************)
EXTENDS Header

CONSTANTS
  Policies,   \* the choices of recipients and their policies
  Lens,       \* the message lengths to choose from
  Signers,    \* signing policies
  NoSigner,   \* no (private) signing policy
  MaxSize,    \* u32::MAX
  SigLen,     \* the length of the header signature
  CtLen       \* that of the ciphertext

ASSUME SealerAssumption ==
  /\ \A choice \in Policies :
       IsFiniteSet(DOMAIN choice) /\ \A r \in DOMAIN choice : choice[r] \in Policy
  /\ Lens \subseteq Nat
  /\ MaxSize \in Nat
  /\ SigLen \in Nat \ {0}
  /\ CtLen \in Nat \ {0}
  /\ NoSigner \notin Signers

VARIABLES
  webSeals,   \* it is the web's sealer
  policies,   \* whom the message is for
  kind,       \* "InMemory", or "Streaming" for a message of the stream sealer
  len,        \* the length of the message
  pubPol,     \* the policy of the public signing key
  privPol,    \* that of the private one, NoSigner when there is none
  seal,       \* where the sealer is, or what its call returned
  array,      \* what is in the array that holds the message
  header,     \* the header
  plain,      \* the message and its signature, serialised to be encrypted
  wire        \* the sealed message

inputVars == <<webSeals, policies, kind, len, pubPol, privPol>>
sealerVars == <<webSeals, policies, kind, len, pubPol, privPol, seal, array, header, plain>>

Message == [i \in 1..len |-> i]

SigningPolicy == IF privPol = NoSigner THEN pubPol ELSE privPol

SealRunning == {"new", "created", "encrypting"}
SealFailed == {"ConstraintViolation", "JavaScript", "panic"}

SealerTypeOK ==
  /\ webSeals \in BOOLEAN
  /\ policies \in Policies
  /\ kind \in {"InMemory", "Streaming"}
  /\ len \in Lens
  /\ pubPol \in Signers
  /\ privPol \in Signers \cup {NoSigner}
  /\ seal \in SealRunning \cup SealFailed \cup {"sealed"}
  /\ array \in Seq(Nat)
  /\ header.mode \in Mode
  /\ seal # "new" /\ seal # "panic" => DOMAIN header.recipients = DOMAIN policies
  /\ plain.message \in Seq(Nat)
  /\ plain.sig.by \in Signers
  /\ wire \in Seq(Nat \X Nat)

SealerInit ==
  /\ webSeals \in BOOLEAN
  /\ policies \in Policies
  /\ kind \in {"InMemory", "Streaming"}
  /\ len \in Lens
  /\ webSeals => len <= MaxSize     \* a Uint8Array is not longer
  /\ pubPol \in Signers
  /\ privPol \in Signers \cup {NoSigner}
  /\ seal = "new"
  /\ array = Message
  /\ header = NewHeader(<<>>)
  /\ plain = [message |-> <<>>, sig |-> [over |-> <<>>, by |-> pubPol]]
  /\ wire = <<>>

-----------------------------------------------------------------------------
Part(k, n) == [i \in 1..n |-> <<k, i>>]
Junk == <<0, 0>>

CiphertextBytes == Part(6, CtLen)

SealedBytes ==
  Part(1, 1) \o Part(2, 1) \o Part(3, HeaderLen(header')) \o Part(4, 1) \o Part(5, SigLen)

Create ==
  /\ seal = "new"
  /\ IF NewHeaderPanics(policies)
       THEN seal' = "panic" /\ UNCHANGED header
       ELSE seal' = "created" /\ header' = NewHeader(policies)
  /\ UNCHANGED <<inputVars, array, plain, wire>>

\* What is encrypted: the message as it is when it is read, and its signature.
MessageAndSignature ==
  [message |-> array, sig |-> [over |-> array, by |-> SigningPolicy]]

Size_Default == 0       \* mutant: the size is not set
Size == Len(array)

SetMode == header' = WithMode(header, [kind |-> kind, size |-> Size])

\* Lengths are written in 32 bits.
Fits == Size <= MaxSize /\ HeaderLen(header) <= MaxSize

Seal ==
  /\ seal = "created"
  /\ ~webSeals
  /\ SetMode
  /\ IF Fits
       THEN /\ plain' = MessageAndSignature
            /\ wire' = SealedBytes \o CiphertextBytes
            /\ seal' = "sealed"
       ELSE seal' = "ConstraintViolation" /\ UNCHANGED <<plain, wire>>
  /\ UNCHANGED <<inputVars, array>>

(***************************************************************************)
(* On the web, all that is made of the message is made before the call is  *)
(* suspended for the first time, but for the ciphertext.  Call is the      *)
(* first poll of the future, which js_seal's caller gets to see as a       *)
(* promise, and which runs in a microtask after the call in JavaScript.    *)
(* The message is what is in the array then: what the caller writes        *)
(* between the two is in the choice of message.                            *)
(***************************************************************************)
Call ==
  /\ seal = "created"
  /\ webSeals
  /\ SetMode
  /\ plain' = MessageAndSignature
  /\ seal' = "encrypting"
  /\ UNCHANGED <<inputVars, array, wire>>

Encrypted == plain

Encrypts ==
  /\ seal = "encrypting"
  /\ plain' = Encrypted
  /\ header' = header
  /\ wire' = SealedBytes \o CiphertextBytes
  /\ seal' = "sealed"
  /\ UNCHANGED <<inputVars, array>>

\* A promise of the browser is rejected.
EncryptFails ==
  /\ seal = "encrypting"
  /\ seal' = "JavaScript"
  /\ UNCHANGED <<inputVars, array, header, plain, wire>>

\* The caller writes to the array while seal is suspended.
CallerWrites ==
  /\ seal = "encrypting"
  /\ \E i \in DOMAIN array : array' = [array EXCEPT ![i] = 0]
  /\ UNCHANGED <<inputVars, seal, header, plain, wire>>
=============================================================================
