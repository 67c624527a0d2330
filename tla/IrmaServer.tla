----------------------------- MODULE IrmaServer -----------------------------
(***************************************************************************)
(* The IRMA (Yivi) server and the clock, as the PKG and its clients use    *)
(* them: a disclosure session is started, a user's app answers it or does  *)
(* not, and its result can be had, signed, as a JWT at any moment.         *)
(***************************************************************************)
EXTENDS Integers, FiniteSets

CONSTANTS
  Tokens,      \* session tokens
  AttrTypes,   \* attribute types
  Values,      \* attribute values
  NoValue,     \* an attribute request without a value
  Wallet,      \* the value of each attribute in the user's app
  MaxTime      \* the clock stops here

ASSUME IrmaAssumption ==
  /\ NoValue \notin Values
  /\ Wallet \in [AttrTypes -> Values]
  /\ MaxTime \in Nat

VARIABLES
  now,    \* the clock, in seconds
  sess    \* the session of each token

irmaVars == <<now, sess>>

Ongoing == {"INITIALIZED", "CONNECTED"}
Statuses == Ongoing \cup {"DONE", "CANCELLED", "TIMEOUT"}
Proofs == {"VALID", "INVALID"}
NoProof == "NONE"

Attribute == [t: AttrTypes, v: Values \cup {NoValue}]

\* What the app discloses: its own values, of which the server says whether
\* the request asked for them.
Disclosed == [t: AttrTypes, v: Values, present: BOOLEAN]

\* Sessions are started by the PKG or by another application; which of the two
\* is history, nothing the server or a JWT tells.
Starters == {"pkg", "other"}
SessionTypes == {"disclosing", "signing"}

Session ==
  [status: Statuses \cup {"NONE"}, starter: Starters, stype: SessionTypes, validity: Nat,
   con: SUBSET Attribute, proof: Proofs \cup {NoProof}, disclosed: SUBSET Disclosed]

NewSession(starter, stype, con, validity) ==
  [status |-> "INITIALIZED", starter |-> starter, stype |-> stype, validity |-> validity,
   con |-> con, proof |-> NoProof, disclosed |-> {}]

IrmaTypeOK == now \in 0..MaxTime /\ sess \in [Tokens -> Session]

IrmaInit ==
  /\ now = 0
  /\ sess = [k \in Tokens |-> [NewSession("pkg", "disclosing", {}, 0) EXCEPT !.status = "NONE"]]

-----------------------------------------------------------------------------
Tick == now < MaxTime /\ now' = now + 1 /\ UNCHANGED sess

\* Another application starts a session at the same server, of either type and
\* valid for as long as it likes.
ForeignSession(k, stype, con, validity) ==
  /\ sess[k].status = "NONE"
  /\ sess' = [sess EXCEPT ![k] = NewSession("other", stype, con, validity)]
  /\ UNCHANGED now

Move(k, from, to) ==
  /\ sess[k].status \in from
  /\ sess' = [sess EXCEPT ![k].status = to]
  /\ UNCHANGED now

Connect(k) == Move(k, {"INITIALIZED"}, "CONNECTED")
Cancel(k) == Move(k, Ongoing, "CANCELLED")
Expire(k) == Move(k, Ongoing, "TIMEOUT")

\* The app discloses some of its attributes; those that the request did not ask
\* for are not counted as present.
Disclosure(types, con) ==
  {[t |-> t, v |-> Wallet[t], present |-> \E a \in con : a.t = t] : t \in types}

\* The app can answer a request it has the values for, and only then is the
\* proof valid; a bad answer leaves a finished session with an invalid one.
Answers(types, con) == \A a \in con : a.t \in types /\ a.v \in {NoValue, Wallet[a.t]}

Answer(k) ==
  /\ sess[k].status = "CONNECTED"
  /\ \E types \in SUBSET AttrTypes, p \in Proofs :
       /\ p = "VALID" => Answers(types, sess[k].con)
       /\ sess' = [sess EXCEPT ![k].status = "DONE", ![k].proof = p,
                               ![k].disclosed = Disclosure(types, sess[k].con)]
  /\ UNCHANGED now

IrmaStep == \E k \in Tokens : Connect(k) \/ Cancel(k) \/ Expire(k) \/ Answer(k)

-----------------------------------------------------------------------------
(***************************************************************************)
(* GET /session/{token}/result-jwt: the state of the session at this       *)
(* moment, valid for as long as the session's request said.                *)
(***************************************************************************)
Jwt ==
  [token: Tokens, status: Statuses, stype: SessionTypes,
   proof: Proofs \cup {NoProof}, disclosed: SUBSET Disclosed, iat: Nat, exp: Nat]

ResultJwt(k) ==
  [token |-> k, status |-> sess[k].status, stype |-> sess[k].stype, proof |-> sess[k].proof,
   disclosed |-> sess[k].disclosed, iat |-> now, exp |-> now + sess[k].validity]
=============================================================================
