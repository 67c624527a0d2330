---------------------------- MODULE StreamFormat ----------------------------
(***************************************************************************)
(* The sealed byte stream of PostGuard's streaming mode, as the sealer     *)
(* (StreamSealer) writes it and the unsealer (StreamUnsealer) reads it:    *)
(*                                                                         *)
(*   preamble || header || sig length || header sig || seg 1 || seg 2 ...  *)
(*                                                                         *)
(* Data are abstracted to what the code can tell apart.  A byte of the     *)
(* message is its position, 1 .. len.  A byte of the stream is a pair: the *)
(* four parts of the header are <<0, 1>> .. <<0, 4>> (each read as a       *)
(* whole), byte i of the ciphertext of segment k is <<k, i>>, and Junk is  *)
(* a byte nobody wrote.  What a ciphertext decrypts to is recorded in      *)
(* segs, so that decryption is a lookup: the AEAD is taken to be ideal.    *)
(***************************************************************************)
EXTENDS Integers, Sequences

CONSTANTS
  SegmentSize,   \* plaintext bytes in a full segment, the policy included
  PolSizeSize,   \* bytes of the length field before the policy
  SigBytes,      \* bytes of the signature behind each segment's message
  TagSize,       \* bytes of the AEAD tag
  CounterMax,    \* the largest value of the AEAD's segment counter
  Policies,      \* signing policies
  PolLen,        \* the serialised length of each policy
  NoPolicy       \* no (private) signing policy

ASSUME StreamAssumption ==
  /\ SegmentSize \in Nat \ {0}
  /\ PolSizeSize \in Nat
  /\ SigBytes \in Nat
  /\ TagSize \in Nat \ {0}
  /\ CounterMax \in Nat
  /\ PolLen \in [Policies -> Nat]
  /\ NoPolicy \notin Policies

VARIABLES
  wire,   \* the bytes in transit from the sealer to the unsealer
  eof,    \* the sealer's end is gone: no byte will follow
  segs    \* the segments encrypted so far, in order

wireVars == <<wire, eof, segs>>

(***************************************************************************)
(* Messages.                                                               *)
(***************************************************************************)
Prefix(n) == [i \in 1..n |-> i]
Slice(from, n) == [i \in 1..n |-> from + i]     \* n bytes behind position from

(***************************************************************************)
(* Segments.  The first one starts with the signing policy; the signature  *)
(* covers the whole message up to and including the segment, the segment's *)
(* counter and whether it is the last one.                                 *)
(***************************************************************************)
PolicyHeader(p) == PolSizeSize + PolLen[p]

Signature(tr, ctr, last, by) == [tr |-> tr, ctr |-> ctr, last |-> last, by |-> by]

SegmentOf(pol, m, sig) == [pol |-> pol, m |-> m, last |-> sig.last, sig |-> sig]

CiphertextLen(seg) ==
  (IF seg.pol = NoPolicy THEN 0 ELSE PolicyHeader(seg.pol))
     + Len(seg.m) + SigBytes + TagSize

Ciphertext(k, seg) == [i \in 1..CiphertextLen(seg) |-> <<k, i>>]

(***************************************************************************)
(* The header: version, recipients and mode, signed with the public key.   *)
(***************************************************************************)
HeaderBytes == [i \in 1..4 |-> <<0, i>>]
Junk == <<0, 0>>

Bytes == Nat \X Nat

SegmentType ==
  [pol: Policies \cup {NoPolicy}, m: Seq(Nat), last: BOOLEAN,
   sig: [tr: Seq(Nat), ctr: Nat, last: BOOLEAN, by: Policies]]

WireTypeOK ==
  /\ wire \in Seq(Bytes)
  /\ eof \in BOOLEAN
  /\ segs \in Seq(SegmentType)

WireInit == wire = <<>> /\ eof = FALSE /\ segs = <<>>
=============================================================================
