-------------------------- MODULE MCMemoryTransfer --------------------------
(***************************************************************************)
(* Types 1, of which nothing is shown, and 2, of which all but the last    *)
(* byte is; characters from 5 on have two bytes.  The values are empty, a  *)
(* character of one byte, two pairs of such that differ in the last, and   *)
(* one that ends in a character of two bytes, which a hint cuts.           *)
(***************************************************************************)
EXTENDS MemoryTransfer

Attr(t, v) == [t |-> <<t>>, v |-> v]

MCValues == {<<>>, <<1>>, <<1, 1>>, <<1, 2>>, <<1, 5>>}
MCHintTypes == {<<2>>}

A == Attr(1, <<1>>)
B == Attr(2, <<1, 1>>)

\* For me: no attribute, each kind of value, and conjunctions in any order, with
\* an attribute twice, and too long for unsealers together with yours.
MyCons ==
  {<<>>, <<A>>, <<Attr(1, NoValue)>>, <<Attr(1, <<>>)>>, <<B>>, <<Attr(2, <<1, 5>>)>>,
   <<A, B>>, <<B, A>>, <<A, A>>, <<B, A, A>>}

MCPolicies ==
  [{"me"} -> {[con |-> c, ts |-> 1] : c \in MyCons}]
    \cup [{"me", "you"} -> {[con |-> c, ts |-> 1] : c \in {<<A>>, <<Attr(2, <<1, 2>>), A>>}}]

\* Attributes are disclosed with values.
MCKeyPolicies ==
  [con: {<<>>, <<A>>, <<Attr(1, <<>>)>>, <<B>>, <<A, B>>, <<B, A>>, <<A, A>>, <<A, B, A>>},
   ts: {1, 2}]

MCSigners == {[con |-> c, ts |-> 1] : c \in {<<A, B>>, <<B, A>>}}
MCLens == {0, 2, 9}
=============================================================================
