---------------------------- MODULE SessionProofs ----------------------------
(***************************************************************************)
(* Lemmas about the sessions of the IRMA server, their JWTs and what the   *)
(* key service makes of them, for the proofs about its clients.            *)
(***************************************************************************)
EXTENDS KeyService, TLAPS

-----------------------------------------------------------------------------
\* A session that is done was answered; the PKG's own are not valid for too long.
SessionsHold ==
  \A k \in Tokens :
    /\ sess[k].status = "DONE" =>
         \E types \in SUBSET AttrTypes :
           /\ sess[k].disclosed = Disclosure(types, sess[k].con)
           /\ sess[k].proof = "VALID" => Answers(types, sess[k].con)
    /\ sess[k].starter = "pkg" => sess[k].validity <= MaxValidity

IrmaHolds == IrmaTypeOK /\ SessionsHold

\* A JWT is a picture of its session; what it says of one that is done stays true.
IsPicture(j) ==
  LET s == sess[j.token]
  IN /\ s.status # "NONE"
     /\ j.stype = s.stype
     /\ j.exp = j.iat + s.validity
     /\ j.status = "DONE" =>
          s.status = "DONE" /\ j.proof = s.proof /\ j.disclosed = s.disclosed

-----------------------------------------------------------------------------
(***************************************************************************)
(* Attributes.                                                             *)
(***************************************************************************)
LEMMA DisclosureType ==
  ASSUME NEW types \in SUBSET AttrTypes, NEW con
  PROVE  Disclosure(types, con) \in SUBSET Disclosed
<1> SUFFICES ASSUME NEW t \in types
             PROVE  [t |-> t, v |-> Wallet[t], present |-> \E a \in con : a.t = t] \in Disclosed
  BY DEF Disclosure
<1>1. Wallet[t] \in Values /\ t \in AttrTypes
  BY IrmaAssumption
<1> DEFINE p == \E a \in con : a.t = t
<1>2. p \in BOOLEAN
  OBVIOUS
<1> HIDE DEF p
<1>3. [t |-> t, v |-> Wallet[t], present |-> p] \in Disclosed
  BY <1>1, <1>2 DEF Disclosed
<1> QED
  BY <1>3 DEF p

LEMMA ValidatedType ==
  ASSUME NEW j \in Jwt PROVE Validated(j) \in SUBSET Attribute
BY DEF Jwt, Validated, Disclosed, Attribute

-----------------------------------------------------------------------------
(***************************************************************************)
(* The sessions.  Whatever the IRMA server does, a session that was        *)
(* started stays what it is for, and one that is done stays as it is.      *)
(***************************************************************************)
SessionsGoOn ==
  /\ now' >= now
  /\ \A k \in Tokens : sess[k].status # "NONE" =>
       /\ sess'[k].status # "NONE"
       /\ sess'[k].stype = sess[k].stype
       /\ sess'[k].starter = sess[k].starter
       /\ sess'[k].validity = sess[k].validity
       /\ sess'[k].con = sess[k].con
       /\ sess[k].status = "DONE" => sess'[k] = sess[k]

LEMMA SessionsInit == IrmaInit => IrmaHolds
<1> SUFFICES ASSUME IrmaInit PROVE IrmaHolds
  OBVIOUS
<1> DEFINE s == [NewSession("pkg", "disclosing", {}, 0) EXCEPT !.status = "NONE"]
<1>1. /\ s \in Session /\ s.status = "NONE" /\ s.stype = "disclosing" /\ s.validity = 0
  BY DEF NewSession, Session, Starters, SessionTypes
<1>2. sess = [k \in Tokens |-> s] /\ now = 0
  BY DEF IrmaInit
<1> HIDE DEF s
<1>3. IrmaTypeOK
  BY <1>1, <1>2, IrmaAssumption DEF IrmaTypeOK
<1>4. SessionsHold
  BY <1>1, <1>2, KeyServiceAssumption DEF SessionsHold
<1> QED
  BY <1>3, <1>4 DEF IrmaHolds

LEMMA IrmaStays ==
  ASSUME IrmaHolds, UNCHANGED irmaVars PROVE IrmaHolds' /\ SessionsGoOn
<1>1. now' = now /\ sess' = sess /\ now \in Nat
  BY IrmaAssumption DEF irmaVars, IrmaHolds, IrmaTypeOK
<1>2. IrmaTypeOK'
  BY <1>1 DEF IrmaHolds, IrmaTypeOK
<1>3. SessionsHold'
  BY <1>1 DEF IrmaHolds, SessionsHold
<1> QED
  BY <1>1, <1>2, <1>3 DEF IrmaHolds, SessionsGoOn

LEMMA TickHolds ==
  ASSUME IrmaHolds, Tick PROVE IrmaHolds' /\ SessionsGoOn
<1>1. now < MaxTime /\ now' = now + 1 /\ sess' = sess /\ now \in 0..MaxTime /\ MaxTime \in Nat
  BY IrmaAssumption DEF Tick, IrmaHolds, IrmaTypeOK
<1>2. IrmaTypeOK'
  BY <1>1 DEF IrmaHolds, IrmaTypeOK
<1>3. SessionsHold'
  BY <1>1 DEF IrmaHolds, SessionsHold
<1> QED
  BY <1>1, <1>2, <1>3 DEF IrmaHolds, SessionsGoOn

\* A session that was not there is started.
LEMMA NewSessionHolds ==
  ASSUME IrmaHolds, NEW k \in Tokens, sess[k].status = "NONE", NEW con \in SUBSET Attribute,
         NEW starter \in Starters, NEW stype \in SessionTypes, NEW validity \in Nat,
         starter = "pkg" => validity <= MaxValidity,
         sess' = [sess EXCEPT ![k] = NewSession(starter, stype, con, validity)], UNCHANGED now
  PROVE  IrmaHolds' /\ SessionsGoOn
<1> DEFINE s == NewSession(starter, stype, con, validity)
<1>1. /\ s \in Session /\ s.status = "INITIALIZED"
      /\ s.starter = starter /\ s.stype = stype /\ s.validity = validity
  BY DEF NewSession, Session, Statuses, Ongoing
<1> HIDE DEF s
<1>2. now \in Nat /\ sess \in [Tokens -> Session]
  BY IrmaAssumption DEF IrmaHolds, IrmaTypeOK
<1>3. sess' \in [Tokens -> Session] /\ \A l \in Tokens : sess'[l] = IF l = k THEN s ELSE sess[l]
  BY <1>1, <1>2 DEF s
<1>4. IrmaTypeOK'
  BY <1>3 DEF IrmaHolds, IrmaTypeOK
<1>5. SessionsHold'
  BY <1>1, <1>3 DEF IrmaHolds, SessionsHold
<1>6. SessionsGoOn
  BY <1>2, <1>3 DEF SessionsGoOn
<1> QED
  BY <1>4, <1>5, <1>6 DEF IrmaHolds

LEMMA MoveHolds ==
  ASSUME IrmaHolds, NEW k \in Tokens, NEW to \in {"CONNECTED", "CANCELLED", "TIMEOUT"},
         Move(k, Ongoing, to)
  PROVE  IrmaHolds' /\ SessionsGoOn
<1>1. /\ now' = now /\ now \in Nat /\ sess \in [Tokens -> Session]
      /\ sess' = [sess EXCEPT ![k].status = to] /\ sess[k].status \in Ongoing
  BY IrmaAssumption DEF IrmaHolds, IrmaTypeOK, Move
<1>2. /\ sess' \in [Tokens -> Session]
      /\ \A l \in Tokens \ {k} : sess'[l] = sess[l]
      /\ sess'[k].status = to /\ sess'[k].stype = sess[k].stype
      /\ sess'[k].starter = sess[k].starter
      /\ sess'[k].validity = sess[k].validity /\ sess'[k].con = sess[k].con
  BY <1>1 DEF Session, Statuses, Ongoing
<1>3. IrmaTypeOK'
  BY <1>1, <1>2 DEF IrmaHolds, IrmaTypeOK
<1>4. SessionsHold'
  BY <1>1, <1>2 DEF IrmaHolds, SessionsHold
<1>5. SessionsGoOn
  BY <1>1, <1>2 DEF SessionsGoOn, Ongoing
<1> QED
  BY <1>3, <1>4, <1>5 DEF IrmaHolds

LEMMA AnswerHolds ==
  ASSUME IrmaHolds, NEW k \in Tokens, Answer(k)
  PROVE  IrmaHolds' /\ SessionsGoOn
<1>1. /\ now' = now /\ now \in Nat /\ sess \in [Tokens -> Session]
      /\ sess[k].status = "CONNECTED"
  BY IrmaAssumption DEF IrmaHolds, IrmaTypeOK, Answer
<1>2. PICK types \in SUBSET AttrTypes, p \in Proofs :
        /\ p = "VALID" => Answers(types, sess[k].con)
        /\ sess' = [sess EXCEPT ![k].status = "DONE", ![k].proof = p,
                                ![k].disclosed = Disclosure(types, sess[k].con)]
  BY DEF Answer
<1> DEFINE d == Disclosure(types, sess[k].con)
<1>3. d \in SUBSET Disclosed
  BY DisclosureType
<1>4. sess' = [sess EXCEPT ![k].status = "DONE", ![k].proof = p, ![k].disclosed = d]
  BY <1>2
<1> HIDE DEF d
<1>5. /\ sess' \in [Tokens -> Session]
      /\ \A l \in Tokens \ {k} : sess'[l] = sess[l]
      /\ sess'[k].status = "DONE" /\ sess'[k].stype = sess[k].stype
      /\ sess'[k].starter = sess[k].starter
      /\ sess'[k].validity = sess[k].validity /\ sess'[k].con = sess[k].con
      /\ sess'[k].proof = p /\ sess'[k].disclosed = d
  <2>1. PICK s, t : s = sess[k] /\ t = [s EXCEPT !.status = "DONE", !.proof = p, !.disclosed = d]
    OBVIOUS
  <2>2. s \in Session
    BY <1>1, <2>1
  <2>3. /\ t \in Session /\ t.status = "DONE" /\ t.stype = s.stype /\ t.starter = s.starter
        /\ t.validity = s.validity /\ t.con = s.con /\ t.proof = p /\ t.disclosed = d
    BY <1>3, <2>1, <2>2 DEF Session, Statuses
  <2>4. sess' = [sess EXCEPT ![k] = t]
    BY <1>1, <1>4, <2>1
  <2> QED
    BY <1>1, <2>1, <2>3, <2>4
<1>6. IrmaTypeOK'
  BY <1>1, <1>5 DEF IrmaHolds, IrmaTypeOK
<1>7. SessionsHold'
  BY <1>2, <1>5 DEF IrmaHolds, SessionsHold, d
<1>8. SessionsGoOn
  BY <1>1, <1>5 DEF SessionsGoOn
<1> QED
  BY <1>6, <1>7, <1>8 DEF IrmaHolds

LEMMA IrmaStepHolds ==
  ASSUME IrmaHolds, IrmaStep PROVE IrmaHolds' /\ SessionsGoOn
<1>1. PICK k \in Tokens : Connect(k) \/ Cancel(k) \/ Expire(k) \/ Answer(k)
  BY DEF IrmaStep
<1>2. CASE Connect(k)
  <2>1. Move(k, Ongoing, "CONNECTED")
    BY <1>2 DEF Connect, Move, Ongoing
  <2> QED
    BY <2>1, MoveHolds
<1>3. CASE Cancel(k)
  BY <1>3, MoveHolds DEF Cancel
<1>4. CASE Expire(k)
  BY <1>4, MoveHolds DEF Expire
<1>5. CASE Answer(k)
  BY <1>5, AnswerHolds
<1> QED
  BY <1>1, <1>2, <1>3, <1>4, <1>5

-----------------------------------------------------------------------------
(***************************************************************************)
(* JWTs.                                                                   *)
(***************************************************************************)
\* A JWT that is fetched is a picture of its session as it is.
LEMMA PictureTaken ==
  ASSUME IrmaHolds, NEW k \in Tokens, sess[k].status # "NONE", NEW j, j = ResultJwt(k)
  PROVE  /\ j \in Jwt /\ IsPicture(j)
         /\ j.token = k /\ j.iat = now /\ j.iat \in Nat /\ j.exp \in Nat /\ j.exp >= j.iat
         /\ j.status = sess[k].status
<1>1. now \in Nat /\ sess[k] \in Session
  BY IrmaAssumption DEF IrmaHolds, IrmaTypeOK
<1>2. sess[k].validity \in Nat
  BY <1>1 DEF Session
<1>3. j \in Jwt
  BY <1>1, <1>2 DEF ResultJwt, Jwt, Session
<1>4. IsPicture(j)
  BY DEF ResultJwt, IsPicture
<1> QED
  BY <1>1, <1>2, <1>3, <1>4 DEF ResultJwt

LEMMA PictureStays ==
  ASSUME SessionsGoOn, NEW j \in Jwt, IsPicture(j) PROVE IsPicture(j)'
BY DEF SessionsGoOn, IsPicture, Jwt

\* What the types of a key's attributes are when the session's proof is valid.
LEMMA ValidTypes ==
  ASSUME IrmaHolds, NEW j \in Jwt, IsPicture(j),
         j.status = "DONE", j.proof = "VALID", j.stype = "disclosing"
  PROVE  {a.t : a \in Validated(j)} = {a.t : a \in sess[j.token].con}
<1> DEFINE s == sess[j.token]
<1>1. j.token \in Tokens /\ s \in Session
  BY DEF Jwt, IrmaHolds, IrmaTypeOK
<1>2. s.status = "DONE" /\ s.proof = "VALID" /\ j.disclosed = s.disclosed
  BY DEF IsPicture
<1>3. PICK types \in SUBSET AttrTypes :
        s.disclosed = Disclosure(types, s.con) /\ Answers(types, s.con)
  BY <1>1, <1>2 DEF IrmaHolds, SessionsHold
<1> HIDE DEF s
<1>4. Validated(j) = {[t |-> d.t, v |-> d.v] : d \in {x \in Disclosure(types, s.con) : x.present}}
  BY <1>2, <1>3 DEF Validated
<1>5. \A t : (\E a \in Validated(j) : a.t = t) <=> (\E a \in s.con : a.t = t)
  <2>1. ASSUME NEW a \in Validated(j) PROVE \E b \in s.con : b.t = a.t
    <3>1. PICK d \in Disclosure(types, s.con) : d.present /\ a = [t |-> d.t, v |-> d.v]
      BY <1>4
    <3>2. PICK t \in types :
            d = [t |-> t, v |-> Wallet[t], present |-> \E b \in s.con : b.t = t]
      BY DEF Disclosure
    <3>3. (d.present <=> \E b \in s.con : b.t = t) /\ d.t = t
      BY <3>2, Zenon
    <3>4. a.t = t
      BY <3>1, <3>3
    <3> QED
      BY <3>1, <3>3, <3>4
  <2>2. ASSUME NEW b \in s.con PROVE \E a \in Validated(j) : a.t = b.t
    <3> DEFINE p == \E c \in s.con : c.t = b.t
               d == [t |-> b.t, v |-> Wallet[b.t], present |-> p]
    <3>1. b.t \in types
      BY <1>3 DEF Answers
    <3>2. d \in Disclosure(types, s.con)
      BY <3>1, Zenon DEF Disclosure
    <3>3. p
      OBVIOUS
    <3> HIDE DEF p
    <3>4. d.present /\ d.t = b.t
      BY <3>3
    <3> HIDE DEF d
    <3>5. [t |-> d.t, v |-> d.v] \in Validated(j)
      BY <1>4, <3>2, <3>4
    <3> QED
      BY <3>4, <3>5
  <2> QED
    BY <2>1, <2>2
<1>6. \A t : t \in {a.t : a \in Validated(j)} <=> t \in {a.t : a \in s.con}
  BY <1>5
<1>7. {a.t : a \in Validated(j)} = {a.t : a \in s.con}
  BY <1>6, Zenon
<1> QED
  BY <1>7 DEF s
=============================================================================
