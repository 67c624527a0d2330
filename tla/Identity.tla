------------------------------ MODULE Identity ------------------------------
(***************************************************************************)
(* Policies, and what is made of them (pg-core/src/identity.rs): the       *)
(* identity a policy is hashed to, which keys and ciphertexts are for, and *)
(* the hidden policy that a header shows to everybody.                     *)
(*                                                                         *)
(* Strings are sequences of code points; a hash is what goes into it.      *)
(***************************************************************************)
EXTENDS Integers, Sequences, FiniteSets

CONSTANTS
  NoValue,      \* an attribute without a value
  HintTypes,    \* attribute types of which headers show a part
  AmountToHide, \* AMOUNT_CHARS_TO_HIDE
  Ascii         \* code points below this one take one byte, others two

Str == Seq(Nat)

ASSUME IdentityAssumption ==
  /\ NoValue \notin Str
  /\ AmountToHide \in Nat
  /\ Ascii \in Nat

Attribute == [t: Str, v: Str \cup {NoValue}]
Policy == [con: Seq(Attribute), ts: Nat]

-----------------------------------------------------------------------------
(***************************************************************************)
(* The derived order of attributes: by type, then by value, and none first.*)
(***************************************************************************)
Precedes(s, r) ==
  \/ Len(s) < Len(r) /\ SubSeq(r, 1, Len(s)) = s
  \/ \E i \in 1..Len(s) :
       i <= Len(r) /\ SubSeq(s, 1, i - 1) = SubSeq(r, 1, i - 1) /\ s[i] < r[i]

ValuePrecedes(v, w) == w # NoValue /\ (v = NoValue \/ Precedes(v, w))

Before(a, b) == Precedes(a.t, b.t) \/ (a.t = b.t /\ ValuePrecedes(a.v, b.v))

\* Where the i-th attribute goes: behind those before it, and equal ones in front.
Place(con, i) ==
  Cardinality({j \in DOMAIN con : Before(con[j], con[i]) \/ (con[j] = con[i] /\ j <= i)})

Sorted_AsGiven(con) == con      \* mutant: the conjunction is not sorted
Sorted(con) == [k \in DOMAIN con |-> con[CHOOSE i \in DOMAIN con : Place(con, i) = k]]

(***************************************************************************)
(* derive.  Type and value of the i-th attribute are hashed with numbers   *)
(* of their own, and with their lengths, an absent value with a length no  *)
(* value has; the hashes are hashed with the timestamp.  That a policy has *)
(* more than MAX_CON attributes is refused, and no Vec can hold so many.   *)
(***************************************************************************)
TypeHash(i, a) == <<2 * i - 1, Len(a.t), a.t>>

Unset == 0 - 1
ValueHash_Empty(i, a) ==        \* mutant: no value is as good as an empty one
  IF a.v = NoValue THEN <<2 * i, 0, <<>>>> ELSE <<2 * i, Len(a.v), a.v>>
ValueHash(i, a) ==
  IF a.v = NoValue THEN <<2 * i, Unset, <<>>>> ELSE <<2 * i, Len(a.v), a.v>>

Derived(pol) ==
  LET s == Sorted(pol.con)
  IN [con |-> [i \in DOMAIN s |-> <<TypeHash(i, s[i]), ValueHash(i, s[i])>>], ts |-> pol.ts]

-----------------------------------------------------------------------------
(***************************************************************************)
(* to_hidden.  Of some types the value is shown but for its last bytes,    *)
(* which are stars; the place in front of them is counted in bytes, and    *)
(* must be a boundary of characters.                                       *)
(***************************************************************************)
Width(c) == IF c < Ascii THEN 1 ELSE 2

\* The bytes of the first n characters.
BytesOf(s, n) == n + Cardinality({i \in 1..n : Width(s[i]) = 2})
ByteLen(s) == BytesOf(s, Len(s))

HideFrom_Start(s) == ByteLen(s)   \* mutant: nothing is hidden
HideFrom(s) == IF ByteLen(s) > AmountToHide THEN ByteLen(s) - AmountToHide ELSE 0

HasHint(a) == a.t \in HintTypes /\ a.v # NoValue

HintFails(a) ==
  HasHint(a) /\ \A n \in 0..Len(a.v) : BytesOf(a.v, n) # HideFrom(a.v)

Star == 0       \* a character no value has

Hint(s) ==
  LET n == CHOOSE n \in 0..Len(s) : BytesOf(s, n) = HideFrom(s)
  IN SubSeq(s, 1, n) \o [i \in 1..(ByteLen(s) - HideFrom(s)) |-> Star]

Hidden(a) ==
  [t |-> a.t, v |-> IF a.v = NoValue THEN NoValue ELSE IF HasHint(a) THEN Hint(a.v) ELSE <<>>]

HiddenPolicy(pol) == [con |-> [i \in DOMAIN pol.con |-> Hidden(pol.con[i])], ts |-> pol.ts]
=============================================================================
