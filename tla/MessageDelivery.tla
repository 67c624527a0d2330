--------------------------- MODULE MessageDelivery ---------------------------
(***************************************************************************)
(* What sealing a stream promises to the one who unseals it, without       *)
(* segments, keys or channels: the bytes that come out are at any time the *)
(* first bytes of the message, a successful end means that all of it came  *)
(* out, and the signer it names is the one who sealed it.                  *)
(***************************************************************************)
EXTENDS Integers, Sequences

CONSTANTS Signers, NoSigner

VARIABLES
  message,    \* what was sealed
  sender,     \* who signed it
  delivered,  \* what came out
  verdict,    \* "pending", "ok" or "failed"
  signer      \* the signer named by a successful end

vars == <<message, sender, delivered, verdict, signer>>

IsPrefix(s, t) == Len(s) <= Len(t) /\ \A i \in 1..Len(s) : s[i] = t[i]

Init ==
  /\ message \in Seq(Nat)
  /\ sender \in Signers
  /\ delivered = <<>>
  /\ verdict = "pending"
  /\ signer = NoSigner

More ==
  /\ IsPrefix(delivered, delivered')
  /\ IsPrefix(delivered', message)
  /\ UNCHANGED <<message, sender>>

Deliver == verdict = "pending" /\ More /\ UNCHANGED <<verdict, signer>>

Reject ==
  /\ verdict = "pending"
  /\ More
  /\ verdict' = "failed"
  /\ UNCHANGED signer

Accept ==
  /\ verdict = "pending"
  /\ More
  /\ delivered' = message
  /\ verdict' = "ok"
  /\ signer' = sender

Next == Deliver \/ Reject \/ Accept

Spec == Init /\ [][Next]_vars
=============================================================================
