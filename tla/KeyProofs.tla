------------------------------ MODULE KeyProofs ------------------------------
(***************************************************************************)
(* Proofs about the key service: for any number of sessions, attributes,   *)
(* clients and requests, a key has what was disclosed and is for a time it *)
(* may be for.                                                             *)
(***************************************************************************)
EXTENDS KeyRequests, SessionProofs

-----------------------------------------------------------------------------
(***************************************************************************)
(* The inductive invariant.  A JWT is a picture of its session, and what   *)
(* it says of one that is done stays true; the keys in a response are made *)
(* from the JWT in its request, and the clock has only advanced since.     *)
(***************************************************************************)
JwtsHold == jwts \subseteq Jwt /\ \A j \in jwts : IsPicture(j)

RequestHolds(r) ==
  /\ r \in RequestType
  /\ r.jwt \in jwts
  /\ r.kind = "key" => r.priv = NoKey
  /\ r.stage = "authenticated" => r.con = Validated(r.jwt)

RequestsHold == DOMAIN req = Clients /\ \A c \in Clients : req[c] = Idle \/ RequestHolds(req[c])

KeyHolds(a) ==
  /\ a.priv = NoKey
  /\ a.req.ts \in 0..now
  /\ a.req.ts <= a.req.jwt.exp
  /\ a.key = Policy(a.req.con, a.req.ts)

SigningKeyHolds(a) ==
  IF a.req.jwt.status = "DONE"
    THEN \E ts \in 0..now :
           /\ a.key = Policy(PublicCon(a.req), ts)
           /\ a.priv = IF a.req.priv = NoKey THEN NoKey ELSE Policy(PrivateCon(a.req), ts)
    ELSE a.key = NoKey /\ a.priv = NoKey

\* An error that answers a request has a reason.
RefusalHolds(a) ==
  a.req = Idle \/ (RequestHolds(a.req) /\ MayRefuse(a.req.stage, a.req, a.at))

ResponseHolds(a) ==
  IF a.code = "OK"
    THEN /\ RequestHolds(a.req)
         /\ a.req.stage = "authenticated"
         /\ a.req.kind = "key" => KeyHolds(a)
         /\ a.req.kind = "signing" => SigningKeyHolds(a)
    ELSE /\ a.code \in Errors \cup {"none"} /\ a.key = NoKey /\ a.priv = NoKey
         /\ RefusalHolds(a)

ResponsesHold ==
  resp = [c \in Clients |-> resp[c]] /\ \A c \in Clients : ResponseHolds(resp[c])

IInv == IrmaTypeOK /\ SessionsHold /\ JwtsHold /\ RequestsHold /\ ResponsesHold

-----------------------------------------------------------------------------
(***************************************************************************)
(* JWTs, requests and responses: they stay right while sessions go on and  *)
(* more JWTs are fetched.                                                  *)
(***************************************************************************)
LEMMA JwtsStay ==
  ASSUME JwtsHold, SessionsGoOn, UNCHANGED jwts PROVE JwtsHold'
<1>1. \A j \in jwts : IsPicture(j)'
  BY PictureStays DEF JwtsHold
<1> QED
  BY <1>1 DEF JwtsHold

LEMMA RequestStays ==
  ASSUME jwts \subseteq jwts' PROVE \A r : RequestHolds(r) => RequestHolds(r)'
BY DEF RequestHolds

LEMMA ResponseStays ==
  ASSUME IrmaTypeOK, now' \in Nat, now' >= now, jwts \subseteq jwts'
  PROVE  \A a : ResponseHolds(a) => ResponseHolds(a)'
<1> SUFFICES ASSUME NEW a, ResponseHolds(a) PROVE ResponseHolds(a)'
  OBVIOUS
<1>1. 0..now \subseteq 0..now'
  BY IrmaAssumption DEF IrmaTypeOK
<1>2. KeyHolds(a) => KeyHolds(a)'
  BY <1>1 DEF KeyHolds
<1>3. SigningKeyHolds(a) => SigningKeyHolds(a)'
  BY <1>1 DEF SigningKeyHolds
<1> QED
  BY <1>2, <1>3, RequestStays DEF ResponseHolds, RefusalHolds

\* A step that gives client c another request, or none, and another response.
LEMMA ClientHolds ==
  ASSUME IInv, IrmaHolds', SessionsGoOn, jwts \subseteq jwts', JwtsHold', NEW c \in Clients,
         NEW r, NEW a, req' = [req EXCEPT ![c] = r], resp' = [resp EXCEPT ![c] = a],
         r = Idle \/ RequestHolds(r)', ResponseHolds(a)'
  PROVE  IInv'
<1>1. now' \in Nat /\ now' >= now
  BY IrmaAssumption DEF IrmaHolds, IrmaTypeOK, SessionsGoOn
<1>2. RequestsHold'
  <2>1. DOMAIN req' = Clients /\ \A d \in Clients : req'[d] = IF d = c THEN r ELSE req[d]
    BY DEF IInv, RequestsHold
  <2>2. ASSUME NEW d \in Clients PROVE req'[d] = Idle \/ RequestHolds(req[d])'
    <3>1. PICK q : q = req[d]
      OBVIOUS
    <3>2. q = Idle \/ RequestHolds(q)'
      BY <3>1, RequestStays DEF IInv, RequestsHold
    <3>3. PICK u : u = req'[d]
      OBVIOUS
    <3>4. u = Idle \/ RequestHolds(u)'
      BY <2>1, <3>1, <3>2, <3>3
    <3> QED
      BY <3>3, <3>4 DEF RequestHolds
  <2> QED
    BY <2>1, <2>2 DEF RequestsHold
<1>3. ResponsesHold'
  <2>1. /\ resp' = [d \in Clients |-> resp'[d]]
        /\ \A d \in Clients : resp'[d] = IF d = c THEN a ELSE resp[d]
    BY DEF IInv, ResponsesHold
  <2>2. ASSUME NEW d \in Clients PROVE ResponseHolds(resp[d])'
    <3>1. PICK q : q = resp[d]
      OBVIOUS
    <3>2. ResponseHolds(q)'
      BY <1>1, <3>1, ResponseStays DEF IInv, ResponsesHold
    <3>3. PICK u : u = resp'[d]
      OBVIOUS
    <3>4. ResponseHolds(u)'
      BY <2>1, <3>1, <3>2, <3>3
    <3> QED
      BY <3>3, <3>4 DEF ResponseHolds, RefusalHolds, KeyHolds, SigningKeyHolds, RequestHolds
  <2> QED
    BY <2>1, <2>2 DEF ResponsesHold
<1> QED
  BY <1>2, <1>3 DEF IInv, IrmaHolds

LEMMA ClientsStay ==
  ASSUME IInv, IrmaHolds', SessionsGoOn, jwts \subseteq jwts', JwtsHold', UNCHANGED keyVars
  PROVE  IInv'
<1>1. now' \in Nat /\ now' >= now /\ req' = req /\ resp' = resp
  BY IrmaAssumption DEF IrmaHolds, IrmaTypeOK, SessionsGoOn, keyVars
<1>2. RequestsHold'
  BY <1>1, RequestStays DEF IInv, RequestsHold
<1>3. ResponsesHold'
  BY <1>1, ResponseStays DEF IInv, ResponsesHold
<1> QED
  BY <1>2, <1>3 DEF IInv, IrmaHolds

-----------------------------------------------------------------------------
(***************************************************************************)
(* The handlers.                                                           *)
(***************************************************************************)
\* Every answer to a client that is an error.
LEMMA ErrorHolds ==
  ASSUME IInv, NEW c \in Clients, NEW e \in Errors \cup {"none"}, NEW r, NEW q, NEW t,
         req' = [req EXCEPT ![c] = r], resp' = [resp EXCEPT ![c] = ErrorResponse(e, q, t)],
         r = Idle \/ RequestHolds(r)', UNCHANGED <<irmaVars, jwts>>,
         q = Idle \/ (RequestHolds(q) /\ MayRefuse(q.stage, q, t))
  PROVE  IInv'
<1>1. IrmaHolds' /\ SessionsGoOn
  BY IrmaStays DEF IInv, IrmaHolds
<1>2. jwts \subseteq jwts' /\ JwtsHold'
  BY <1>1, JwtsStay DEF IInv
<1>3. PICK a : a = ErrorResponse(e, q, t)
  OBVIOUS
<1>4. ResponseHolds(a)'
  <2>1. q = Idle \/ (RequestHolds(q)' /\ MayRefuse(q.stage, q, t))
    BY <1>2, RequestStays
  <2>2. a.req = q /\ a.at = t /\ a.code = e /\ a.key = NoKey /\ a.priv = NoKey /\ a.code # "OK"
    BY <1>3 DEF ErrorResponse, Errors
  <2>3. RefusalHolds(a)'
    BY <2>1, <2>2 DEF RefusalHolds
  <2> QED
    BY <2>2, <2>3 DEF ResponseHolds
<1> QED
  BY <1>1, <1>2, <1>3, <1>4, ClientHolds

LEMMA SendHolds ==
  ASSUME IInv, NEW c \in Clients, NEW r, Send(c, r), RequestHolds(r), UNCHANGED <<irmaVars, jwts>>
  PROVE  IInv'
<1>1. RequestHolds(r)'
  BY RequestStays
<1>2. PICK idle, t : idle = Idle /\ t = 0
  OBVIOUS
<1>3. resp' = [resp EXCEPT ![c] = ErrorResponse("none", idle, t)] /\ req' = [req EXCEPT ![c] = r]
  BY <1>2 DEF Send, NoResponse
<1> QED
  BY <1>1, <1>2, <1>3, ErrorHolds

LEMMA AuthenticateHolds ==
  ASSUME IInv, NEW c \in Clients, Authenticate(c), UNCHANGED jwts
  PROVE  IInv'
<1>1. req[c].stage = "sent" /\ UNCHANGED irmaVars
  BY DEF Authenticate
<1>2. RequestHolds(req[c])
  BY <1>1 DEF IInv, RequestsHold, Idle
<1>3. CASE now > req[c].jwt.exp /\ Respond(c, ErrorResponse("ChronologyError", req[c], now))
  <2>1. PICK r, q, t : r = Idle /\ q = req[c] /\ t = now
    OBVIOUS
  <2>2. RequestHolds(q) /\ MayRefuse(q.stage, q, t)
    BY <1>1, <1>2, <1>3, <2>1 DEF MayRefuse
  <2>3. /\ req' = [req EXCEPT ![c] = r]
        /\ resp' = [resp EXCEPT ![c] = ErrorResponse("ChronologyError", q, t)]
    BY <1>3, <2>1 DEF Respond
  <2> QED
    BY <1>1, <2>1, <2>2, <2>3, ErrorHolds DEF Errors
<1>4. CASE /\ req' = [req EXCEPT ![c].stage = "authenticated", ![c].con = Validated(req[c].jwt)]
           /\ UNCHANGED resp
  <2>1. PICK r : r = [req[c] EXCEPT !.stage = "authenticated", !.con = Validated(req[c].jwt)]
    OBVIOUS
  <2>2. req' = [req EXCEPT ![c] = r]
    BY <1>4, <2>1 DEF IInv, RequestsHold
  <2>3. Validated(req[c].jwt) \in SUBSET Attribute
    BY <1>2, ValidatedType DEF RequestHolds, RequestType
  <2> DEFINE con == Validated(req[c].jwt)
  <2>4. /\ r \in RequestType /\ r.jwt = req[c].jwt /\ r.con = con
        /\ r.kind = req[c].kind /\ r.priv = req[c].priv
    <3> HIDE DEF con
    <3>1. r = [req[c] EXCEPT !.stage = "authenticated", !.con = con]
      BY <2>1 DEF con
    <3>2. con \in SUBSET Attribute
      BY <2>3 DEF con
    <3>3. req[c] \in RequestType
      BY <1>2 DEF RequestHolds
    <3> QED
      BY <3>1, <3>2, <3>3 DEF RequestType
  <2>5. RequestHolds(r)
    BY <1>2, <2>4 DEF RequestHolds
  <2>6. RequestHolds(r)'
    BY <2>5, RequestStays
  <2>7. PICK a : a = resp[c]
    OBVIOUS
  <2>8. resp' = [resp EXCEPT ![c] = a]
    BY <1>4, <2>7 DEF IInv, ResponsesHold
  <2>9. IrmaHolds' /\ SessionsGoOn
    BY <1>1, IrmaStays DEF IInv, IrmaHolds
  <2>10. jwts \subseteq jwts' /\ JwtsHold'
    BY <2>9, JwtsStay DEF IInv
  <2>11. ResponseHolds(a)'
    <3>1. now' \in Nat /\ now' >= now
      BY <2>9, IrmaAssumption DEF IrmaHolds, IrmaTypeOK, SessionsGoOn
    <3> QED
      BY <2>7, <2>10, <3>1, ResponseStays DEF IInv, ResponsesHold
  <2> QED
    BY <2>2, <2>6, <2>8, <2>9, <2>10, <2>11, ClientHolds
<1> QED
  BY <1>3, <1>4 DEF Authenticate

LEMMA HandleKeyHolds ==
  ASSUME IInv, NEW c \in Clients, HandleKey(c), UNCHANGED jwts
  PROVE  IInv'
<1>1. req[c].stage = "authenticated" /\ req[c].kind = "key" /\ UNCHANGED irmaVars
  BY DEF HandleKey
<1>2. PICK r : r = req[c]
  OBVIOUS
<1>3. RequestHolds(r) /\ r.stage = "authenticated" /\ r.kind = "key"
  BY <1>1, <1>2 DEF IInv, RequestsHold, Idle
<1>4. PICK idle : idle = Idle
  OBVIOUS
<1>5. ASSUME NEW e \in Errors, Respond(c, ErrorResponse(e, r, now)), TooLate(r) \/ r.ts = NoValue
      PROVE  IInv'
  <2>1. PICK t : t = now
    OBVIOUS
  <2>2. MayRefuse(r.stage, r, t)
    BY <1>3, <1>5, <2>1 DEF MayRefuse, TooLate
  <2>3. /\ req' = [req EXCEPT ![c] = idle]
        /\ resp' = [resp EXCEPT ![c] = ErrorResponse(e, r, t)]
    BY <1>4, <1>5, <2>1 DEF Respond
  <2> QED
    BY <1>1, <1>3, <1>4, <2>2, <2>3, ErrorHolds
<1>6. CASE ~TooLate(r) /\ r.ts # NoValue
  <2>1. Respond(c, OkResponse(r, Policy(r.con, r.ts), NoKey))
    BY <1>2, <1>6 DEF HandleKey
  <2>2. PICK a : a = OkResponse(r, Policy(r.con, r.ts), NoKey)
    OBVIOUS
  <2>3. IrmaHolds' /\ SessionsGoOn /\ now' = now
    BY <1>1, IrmaStays DEF IInv, IrmaHolds, irmaVars
  <2>4. jwts \subseteq jwts' /\ JwtsHold'
    BY <2>3, JwtsStay DEF IInv
  <2>5. /\ a.code = "OK" /\ a.req = r /\ a.priv = NoKey
        /\ a.key = Policy(r.con, r.ts)
    BY <2>2 DEF OkResponse
  <2>6. r.ts \in 0..now /\ r.ts <= r.jwt.exp
    <3>1. r.ts \in Nat /\ r.jwt.exp \in Nat \cup Int
      <4>1. r \in RequestType
        BY <1>3 DEF RequestHolds
      <4>2. r.jwt \in Jwt /\ JwtsHold
        BY <4>1 DEF RequestType, IInv
      <4> QED
        BY <1>6, <4>1, <4>2 DEF RequestType, Jwt
    <3>2. now \in Nat
      BY IrmaAssumption DEF IInv, IrmaTypeOK
    <3> QED
      BY <1>6, <3>1, <3>2 DEF TooLate
  <2>7. RequestHolds(r)'
    BY <1>3, <2>4, RequestStays
  <2>8. ResponseHolds(a)'
    BY <1>3, <2>3, <2>5, <2>6, <2>7 DEF ResponseHolds, KeyHolds
  <2> QED
    BY <1>4, <2>1, <2>2, <2>3, <2>4, <2>8, ClientHolds DEF Respond
<1> QED
  BY <1>2, <1>5, <1>6, Zenon DEF HandleKey, Errors

LEMMA HandleSigningKeyHolds ==
  ASSUME IInv, NEW c \in Clients, HandleSigningKey(c), UNCHANGED jwts
  PROVE  IInv'
<1>1. req[c].stage = "authenticated" /\ req[c].kind = "signing" /\ UNCHANGED irmaVars
  BY DEF HandleSigningKey
<1>2. PICK r : r = req[c]
  OBVIOUS
<1>3. RequestHolds(r) /\ r.stage = "authenticated" /\ r.kind = "signing"
  BY <1>1, <1>2 DEF IInv, RequestsHold, Idle
<1>4. PICK idle : idle = Idle
  OBVIOUS
<1>5. PICK a : a = IF r.jwt.status # "DONE"
                     THEN OkResponse(r, NoKey, NoKey)
                     ELSE OkResponse(r, Policy(PublicCon(r), now),
                            IF r.priv = NoKey THEN NoKey ELSE Policy(PrivateCon(r), now))
  OBVIOUS
<1>6. Respond(c, a)
  BY <1>2, <1>5 DEF HandleSigningKey
<1>7. IrmaHolds' /\ SessionsGoOn /\ now' = now /\ now \in 0..now
  BY <1>1, IrmaStays, IrmaAssumption DEF IInv, IrmaHolds, irmaVars, IrmaTypeOK
<1>8. jwts \subseteq jwts' /\ JwtsHold'
  BY <1>7, JwtsStay DEF IInv
<1>9. RequestHolds(r)'
  BY <1>3, <1>8, RequestStays
<1>10. a.code = "OK" /\ a.req = r
  BY <1>5 DEF OkResponse
<1>11. SigningKeyHolds(a)'
  <2>1. CASE r.jwt.status # "DONE"
    BY <1>5, <1>10, <2>1 DEF SigningKeyHolds, OkResponse
  <2>2. CASE r.jwt.status = "DONE"
    <3>1. /\ a.key = Policy(PublicCon(r), now)
          /\ a.priv = IF r.priv = NoKey THEN NoKey ELSE Policy(PrivateCon(r), now)
      BY <1>5, <2>2 DEF OkResponse
    <3> QED
      BY <1>7, <1>10, <2>2, <3>1 DEF SigningKeyHolds
  <2> QED
    BY <2>1, <2>2
<1>12. ResponseHolds(a)'
  BY <1>3, <1>9, <1>10, <1>11 DEF ResponseHolds
<1> QED
  BY <1>4, <1>6, <1>7, <1>8, <1>12, ClientHolds DEF Respond

-----------------------------------------------------------------------------
(***************************************************************************)
(* The invariant is inductive.                                             *)
(***************************************************************************)
LEMMA InitIInv == Init => IInv
<1> SUFFICES ASSUME Init PROVE IInv
  OBVIOUS
<1> USE DEF Init
<1>1. IrmaHolds
  BY SessionsInit
<1>2. JwtsHold
  BY DEF JwtsHold
<1>3. RequestsHold
  BY DEF KeyServiceInit, RequestsHold
<1>4. ResponsesHold
  BY DEF KeyServiceInit, ResponsesHold, ResponseHolds, RefusalHolds, NoResponse, ErrorResponse,
         Errors
<1> QED
  BY <1>1, <1>2, <1>3, <1>4 DEF IInv, IrmaHolds

LEMMA FetchHolds ==
  ASSUME IInv, FetchJwt PROVE IInv'
<1>1. PICK k \in Tokens : sess[k].status # "NONE" /\ jwts' = jwts \cup {ResultJwt(k)}
  BY DEF FetchJwt
<1>2. UNCHANGED irmaVars /\ UNCHANGED keyVars /\ sess' = sess
  BY DEF FetchJwt, irmaVars
<1>3. IrmaHolds' /\ SessionsGoOn
  BY <1>2, IrmaStays DEF IInv, IrmaHolds
<1>4. PICK j : j = ResultJwt(k)
  OBVIOUS
<1>5. j \in Jwt /\ IsPicture(j)
  BY <1>1, <1>4, PictureTaken DEF IInv, IrmaHolds
<1>6. JwtsHold'
  BY <1>1, <1>2, <1>4, <1>5 DEF IInv, JwtsHold, IsPicture
<1> QED
  BY <1>1, <1>2, <1>3, <1>6, ClientsStay

LEMMA StartHolds ==
  ASSUME IInv, StartSession PROVE IInv'
<1>1. PICK k \in Tokens, con \in Cons :
        \/ \E v \in Validities : Start(k, con, v)
        \/ /\ \E v \in Validities \ {NoValue}, stype \in SessionTypes :
                ForeignSession(k, stype, con, v)
           /\ UNCHANGED keyVars
  BY DEF StartSession
<1>2. con \in SUBSET Attribute /\ UNCHANGED jwts
  BY RequestsAssumption DEF StartSession
<1>3. IrmaHolds' /\ SessionsGoOn /\ UNCHANGED keyVars
  <2>1. CASE \E v \in Validities : Start(k, con, v)
    <3>1. PICK v \in Validities : Start(k, con, v)
      BY <2>1
    <3> DEFINE validity == SessionValidity(v)
    <3>2. validity \in Nat
      BY RequestsAssumption, KeyServiceAssumption DEF SessionValidity
    <3>3. /\ sess[k].status = "NONE" /\ validity <= MaxValidity
          /\ sess' = [sess EXCEPT ![k] = NewSession("pkg", "disclosing", con, validity)]
          /\ UNCHANGED now /\ UNCHANGED keyVars
      BY <3>1 DEF Start
    <3> HIDE DEF validity
    <3> QED
      BY <1>2, <3>2, <3>3, NewSessionHolds DEF IInv, IrmaHolds, Starters, SessionTypes
  <2>2. CASE /\ \E v \in Validities \ {NoValue}, stype \in SessionTypes :
                  ForeignSession(k, stype, con, v)
             /\ UNCHANGED keyVars
    <3>1. PICK v \in Validities \ {NoValue}, stype \in SessionTypes :
            ForeignSession(k, stype, con, v)
      BY <2>2
    <3>2. /\ sess[k].status = "NONE"
          /\ sess' = [sess EXCEPT ![k] = NewSession("other", stype, con, v)]
          /\ UNCHANGED now /\ v \in Nat
      BY <3>1, RequestsAssumption DEF ForeignSession
    <3> QED
      BY <1>2, <2>2, <3>2, NewSessionHolds DEF IInv, IrmaHolds, Starters
  <2> QED
    BY <1>1, <2>1, <2>2
<1> QED
  BY <1>2, <1>3, JwtsStay, ClientsStay DEF IInv

LEMMA SendKeyHolds ==
  ASSUME IInv, NEW c \in Clients, SendKeyRequest(c) PROVE IInv'
<1>1. PICK jwt \in jwts, ts \in (0..MaxTime) \cup {NoValue} :
        Send(c, Request("key", jwt, ts, {}, NoKey))
  BY DEF SendKeyRequest
<1>2. PICK r : r = Request("key", jwt, ts, {}, NoKey)
  OBVIOUS
<1>3. RequestHolds(r)
  <2>1. jwt \in Jwt
    BY DEF IInv, JwtsHold
  <2>2. ts \in Nat \cup {NoValue}
    OBVIOUS
  <2> QED
    BY <1>2, <2>1, <2>2 DEF RequestHolds, Request, RequestType
<1> QED
  BY <1>1, <1>2, <1>3, SendHolds DEF SendKeyRequest

LEMMA SendSigningHolds ==
  ASSUME IInv, NEW c \in Clients, SendSigningRequest(c) PROVE IInv'
<1>1. PICK jwt \in jwts, pub \in SignIds, priv \in SignIds \cup {NoKey} :
        Send(c, Request("signing", jwt, NoValue, pub, priv))
  BY DEF SendSigningRequest
<1>2. PICK r : r = Request("signing", jwt, NoValue, pub, priv)
  OBVIOUS
<1>3. RequestHolds(r)
  <2>1. jwt \in Jwt
    BY DEF IInv, JwtsHold
  <2>2. pub \in SUBSET Attribute /\ priv \in (SUBSET Attribute) \cup {NoKey}
    BY RequestsAssumption
  <2> QED
    BY <1>2, <2>1, <2>2 DEF RequestHolds, Request, RequestType
<1> QED
  BY <1>1, <1>2, <1>3, SendHolds DEF SendSigningRequest

LEMMA NextIInv == IInv /\ [Next]_vars => IInv'
<1> SUFFICES ASSUME IInv, [Next]_vars PROVE IInv'
  OBVIOUS
<1>1. CASE (Tick \/ IrmaStep) /\ UNCHANGED <<keyVars, jwts>>
  BY <1>1, TickHolds, IrmaStepHolds, JwtsStay, ClientsStay DEF IInv, IrmaHolds
<1>2. CASE StartSession
  BY <1>2, StartHolds
<1>3. CASE StartRefused \/ NoJwt
  <2>1. PICK c \in Clients, e \in Errors : Respond(c, ErrorResponse(e, Idle, now))
    BY <1>3 DEF StartRefused, RefuseStart, NoJwt, Errors
  <2>2. PICK idle, t : idle = Idle /\ t = now
    OBVIOUS
  <2>3. UNCHANGED <<irmaVars, jwts>>
    BY <1>3 DEF StartRefused, RefuseStart, NoJwt
  <2> QED
    BY <2>1, <2>2, <2>3, ErrorHolds DEF Respond
<1>4. CASE FetchJwt
  BY <1>4, FetchHolds
<1>5. CASE \E c \in Clients : SendKeyRequest(c) \/ SendSigningRequest(c)
  BY <1>5, SendKeyHolds, SendSigningHolds
<1>6. CASE ServiceStep /\ UNCHANGED jwts
  BY <1>6, AuthenticateHolds, HandleKeyHolds, HandleSigningKeyHolds DEF ServiceStep
<1>7. CASE UNCHANGED vars
  <2>1. UNCHANGED irmaVars /\ UNCHANGED keyVars /\ UNCHANGED jwts
    BY <1>7 DEF vars
  <2> QED
    BY <2>1, IrmaStays, JwtsStay, ClientsStay DEF IInv, IrmaHolds
<1> QED
  BY <1>1, <1>2, <1>3, <1>4, <1>5, <1>6, <1>7 DEF Next

LEMMA Invariance == Spec => []IInv
BY InitIInv, NextIInv, PTL DEF Spec

-----------------------------------------------------------------------------
\* Signing keys are for the session's attributes, and a time that has come.
LEMMA SigningKeys ==
  ASSUME IInv, NEW c \in Clients, resp[c].code = "OK", resp[c].req.kind = "signing",
         NEW key \in KeysOf(resp[c])
  PROVE  \E ts \in 0..now :
           \/ key = Policy(PublicCon(resp[c].req), ts)
           \/ key = Policy(PrivateCon(resp[c].req), ts)
<1>1. SigningKeyHolds(resp[c])
  BY DEF IInv, ResponsesHold, ResponseHolds
<1>2. (key = resp[c].key \/ key = resp[c].priv) /\ key # NoKey
  BY DEF KeysOf
<1>3. PICK ts \in 0..now :
        /\ resp[c].key = Policy(PublicCon(resp[c].req), ts)
        /\ resp[c].priv = IF resp[c].req.priv = NoKey THEN NoKey
                           ELSE Policy(PrivateCon(resp[c].req), ts)
  BY <1>1, <1>2 DEF SigningKeyHolds
<1> QED
  BY <1>2, <1>3

(***************************************************************************)
(* Sessions, JWTs, requests and responses keep their types.                *)
(***************************************************************************)
THEOREM TypeCorrect == Spec => []TypeOK
<1>1. IInv => TypeOK
  <2> SUFFICES ASSUME IInv PROVE TypeOK
    OBVIOUS
  <2>1. \A c \in Clients : req[c] = Idle \/ req[c] \in RequestType
    BY DEF IInv, RequestsHold, RequestHolds
  <2>2. ASSUME NEW c \in Clients
        PROVE  /\ resp[c].code \in Errors \cup {"OK", "none"}
               /\ KeysOf(resp[c]) \subseteq [con: SUBSET Attribute, ts: 0..now]
    <3>1. ResponseHolds(resp[c])
      BY DEF IInv, ResponsesHold
    <3>2. CASE resp[c].code # "OK"
      BY <3>1, <3>2 DEF ResponseHolds, KeysOf
    <3>3. CASE resp[c].code = "OK"
      <4> DEFINE r == resp[c].req
      <4>1. r \in RequestType
        BY <3>1, <3>3 DEF ResponseHolds, RequestHolds
      <4>2. r.con \in SUBSET Attribute /\ r.kind \in {"key", "signing"}
        BY <4>1 DEF RequestType
      <4>3. PublicCon(r) \in SUBSET Attribute /\ PrivateCon(r) \in SUBSET Attribute
        BY <4>2 DEF PublicCon, PrivateCon
      <4> DEFINE Keys == [con: SUBSET Attribute, ts: 0..now]
      <4>4. CASE r.kind = "key"
        <5>1. resp[c].priv = NoKey /\ r.ts \in 0..now /\ resp[c].key = Policy(r.con, r.ts)
          BY <3>1, <3>3, <4>4 DEF ResponseHolds, KeyHolds
        <5>2. resp[c].key \in Keys
          BY <4>2, <5>1 DEF Policy
        <5> QED
          BY <3>3, <5>1, <5>2 DEF KeysOf
      <4>5. CASE r.kind = "signing"
        <5>1. \A con \in SUBSET Attribute, ts \in 0..now : Policy(con, ts) \in Keys
          BY DEF Policy
        <5>2. \A key \in KeysOf(resp[c]) : \E ts \in 0..now :
                key = Policy(PublicCon(r), ts) \/ key = Policy(PrivateCon(r), ts)
          BY <3>3, <4>5, SigningKeys
        <5>3. KeysOf(resp[c]) \subseteq Keys
          BY <4>3, <5>1, <5>2
        <5> QED
          BY <3>3, <5>3
      <4> QED
        BY <3>3, <4>2, <4>4, <4>5
    <3> QED
      BY <3>2, <3>3
  <2> QED
    BY <2>1, <2>2 DEF IInv, JwtsHold, TypeOK
<1> QED
  BY <1>1, Invariance, PTL

(***************************************************************************)
(* However many JWTs are fetched, and whenever, every attribute in the     *)
(* policy of a key was disclosed in the session its JWT is of.             *)
(***************************************************************************)
THEOREM KeysProven == Spec => []KeysAreProven
<1>1. IInv => KeysAreProven
  <2> SUFFICES ASSUME IInv, NEW c \in Clients, NEW key \in KeysOf(resp[c])
               PROVE  LET k == resp[c].req.jwt.token
                      IN /\ key.con \subseteq Proven(k)
                         /\ key.con # {} => /\ sess[k].status = "DONE"
                                            /\ sess[k].proof = "VALID"
                                            /\ sess[k].stype = "disclosing"
    BY DEF KeysAreProven
  <2> DEFINE r == resp[c].req
             j == r.jwt
  <2>1. ResponseHolds(resp[c]) /\ resp[c].code = "OK"
    BY DEF IInv, ResponsesHold, ResponseHolds, KeysOf
  <2>2. r \in RequestType /\ j \in jwts /\ r.con = Validated(j) /\ r.kind \in {"key", "signing"}
    BY <2>1 DEF ResponseHolds, RequestHolds, RequestType
  <2>3. key.con \subseteq r.con
    <3>1. CASE r.kind = "key"
      BY <2>1, <3>1 DEF ResponseHolds, KeyHolds, KeysOf, Policy
    <3>2. CASE r.kind = "signing"
      <4>1. PICK ts \in 0..now : key = Policy(PublicCon(r), ts) \/ key = Policy(PrivateCon(r), ts)
        BY <2>1, <3>2, SigningKeys
      <4> QED
        <5>1. key.con = PublicCon(r) \/ key.con = PrivateCon(r)
          BY <4>1 DEF Policy
        <5> HIDE DEF r
        <5>2. PublicCon(r) \subseteq r.con /\ PrivateCon(r) \subseteq r.con
          BY DEF PublicCon, PrivateCon
        <5> QED
          BY <5>1, <5>2
    <3> QED
      BY <2>2, <3>1, <3>2
  <2> HIDE DEF r
  <2>4. IsPicture(j)
    BY <2>2 DEF IInv, JwtsHold
  <2> HIDE DEF j
  <2>5. CASE Validated(j) = {}
    BY <2>2, <2>3, <2>5
  <2>6. CASE Validated(j) # {}
    <3>1. j.status = "DONE" /\ j.proof = "VALID" /\ j.stype = "disclosing"
      BY <2>6 DEF Validated
    <3>2. /\ sess[j.token].status = "DONE" /\ sess[j.token].proof = "VALID"
          /\ sess[j.token].stype = "disclosing" /\ j.disclosed = sess[j.token].disclosed
      BY <2>4, <3>1 DEF IsPicture
    <3>3. Validated(j) = Proven(j.token)
      BY <3>1, <3>2 DEF Validated, Proven
    <3> QED
      BY <2>2, <2>3, <3>2, <3>3 DEF j, r
  <2> QED
    BY <2>5, <2>6 DEF j, r
<1> QED
  BY <1>1, Invariance, PTL

(***************************************************************************)
(* No key is for a time to come, for a time after its JWT expires or, from *)
(* a session of the PKG's own, for one more than MaxValidity after the JWT *)
(* was issued.                                                             *)
(***************************************************************************)
THEOREM KeysTimely == Spec => []KeysAreTimely
<1>1. IInv => KeysAreTimely
  <2> SUFFICES ASSUME IInv, NEW c \in Clients, NEW key \in KeysOf(resp[c])
               PROVE  /\ key.ts <= now
                      /\ resp[c].req.kind = "key" =>
                           /\ key.ts <= resp[c].req.jwt.exp
                           /\ key.con # {} /\ sess[resp[c].req.jwt.token].starter = "pkg" =>
                                key.ts <= resp[c].req.jwt.iat + MaxValidity
    BY DEF KeysAreTimely
  <2> DEFINE r == resp[c].req
             j == r.jwt
  <2>1. ResponseHolds(resp[c]) /\ resp[c].code = "OK"
    BY DEF IInv, ResponsesHold, ResponseHolds, KeysOf
  <2>2. r \in RequestType /\ j \in jwts /\ r.con = Validated(j) /\ r.kind \in {"key", "signing"}
    BY <2>1 DEF ResponseHolds, RequestHolds, RequestType
  <2>3. now \in Nat
    BY IrmaAssumption DEF IInv, IrmaTypeOK
  <2>4. CASE r.kind = "key"
    <3>1. r.ts \in 0..now /\ r.ts <= j.exp /\ key = Policy(r.con, r.ts)
      BY <2>1, <2>4 DEF ResponseHolds, KeyHolds, KeysOf
    <3>2. key.ts = r.ts /\ key.con = r.con
      BY <3>1 DEF Policy
    <3>3. ASSUME sess[j.token].starter = "pkg" PROVE key.ts <= j.iat + MaxValidity
      <4> HIDE DEF j, r
      <4>1. j \in Jwt /\ j.exp = j.iat + sess[j.token].validity
        BY <2>2 DEF IInv, JwtsHold, IsPicture
      <4>2. j.token \in Tokens /\ j.iat \in Nat
        BY <4>1 DEF Jwt
      <4>3. sess[j.token].validity <= MaxValidity /\ sess[j.token].validity \in Nat
        BY <3>3, <4>2 DEF IInv, SessionsHold, IrmaTypeOK, Session
      <4> QED
        BY <2>3, <3>1, <3>2, <4>1, <4>2, <4>3, KeyServiceAssumption
    <3> QED
      BY <2>3, <3>1, <3>2, <3>3
  <2>5. CASE r.kind = "signing"
    <3>1. PICK ts \in 0..now : key.ts = ts
      <4>1. PICK ts \in 0..now : key = Policy(PublicCon(r), ts) \/ key = Policy(PrivateCon(r), ts)
        BY <2>1, <2>5, SigningKeys
      <4> QED
        BY <4>1 DEF Policy
    <3> QED
      BY <2>3, <2>5, <3>1
  <2> QED
    BY <2>2, <2>4, <2>5
<1> QED
  BY <1>1, Invariance, PTL

\* The types of an intersection by types.
LEMMA TypesMeet ==
  ASSUME NEW con, NEW other
  PROVE  Types({a \in con : \E x \in other : x.t = a.t}) = Types(con) \cap Types(other)
<1>1. \A t : t \in Types({a \in con : \E x \in other : x.t = a.t})
               <=> t \in Types(con) \cap Types(other)
  BY DEF Types
<1> QED
  BY <1>1, Zenon

\* The private identity, which is compared as a whole.
LEMMA PrivateTypes ==
  ASSUME NEW r, r.priv \in SUBSET Attribute
  PROVE  /\ Types(r.con) \cap Types({x \in r.priv : x.v = NoValue}) \subseteq Types(PrivateCon(r))
         /\ Types(PrivateCon(r)) \subseteq Types(r.con) \cap Types(r.priv)
<1>1. ASSUME NEW a \in r.con, NEW x \in r.priv, x.v = NoValue, x.t = a.t
      PROVE  a \in PrivateCon(r)
  <2>1. x = [t |-> a.t, v |-> NoValue]
    BY <1>1 DEF Attribute
  <2> QED
    BY <2>1 DEF PrivateCon
<1>2. ASSUME NEW a \in PrivateCon(r) PROVE a \in r.con /\ \E x \in r.priv : x.t = a.t
  <2>1. a \in r.con /\ [t |-> a.t, v |-> NoValue] \in r.priv
    BY DEF PrivateCon
  <2>2. [t |-> a.t, v |-> NoValue].t = a.t
    OBVIOUS
  <2> QED
    BY <2>1, <2>2, Zenon
<1> QED
  BY <1>1, <1>2 DEF Types

(***************************************************************************)
(* A valid disclosure gives keys unless there is a reason to refuse them,  *)
(* the public ones with all that was asked for; and no key, public or      *)
(* private, has an attribute that was not requested.                       *)
(***************************************************************************)
THEOREM KeysComplete == Spec => []KeysAreComplete
<1>1. ASSUME IInv, NEW c \in Clients, NEW a, NEW r, NEW j, a = resp[c], r = a.req, j = r.jwt,
             r # Idle, j.status = "DONE", j.proof = "VALID", j.stype = "disclosing",
             NEW asked, asked = Types(sess[j.token].con)
      PROVE  IsComplete(a, r, asked)
  <2>1. ResponseHolds(a)
    BY <1>1 DEF IInv, ResponsesHold
  <2>2. CASE a.code # "OK"
    BY <1>1, <2>1, <2>2 DEF ResponseHolds, RefusalHolds, IsComplete
  <2>3. CASE a.code = "OK"
    <3>1. /\ r \in RequestType /\ j \in jwts /\ r.con = Validated(j)
          /\ (r.kind = "key" => r.priv = NoKey)
      BY <1>1, <2>1, <2>3 DEF ResponseHolds, RequestHolds
    <3>2. /\ r.con \in SUBSET Attribute /\ r.kind \in {"key", "signing"}
          /\ r.priv \in (SUBSET Attribute) \cup {NoKey}
      BY <3>1 DEF RequestType
    <3>3. Types(r.con) = asked
      <4>1. IrmaHolds /\ j \in Jwt /\ IsPicture(j)
        BY <1>1, <3>1 DEF IInv, IrmaHolds, JwtsHold
      <4>2. {x.t : x \in Validated(j)} = {x.t : x \in sess[j.token].con}
        BY <1>1, <4>1, ValidTypes
      <4> QED
        BY <1>1, <3>1, <4>2 DEF Types
    <3>4. ASSUME NEW con \in SUBSET Attribute, NEW ts \in Nat
          PROVE  Policy(con, ts) # NoKey /\ Policy(con, ts).con = con
      <4>1. Policy(con, ts) \in [con: SUBSET Attribute, ts: Nat]
        BY DEF Policy
      <4> QED
        BY <4>1, KeyServiceAssumption DEF Policy
    <3>5. CASE r.kind = "key"
      <4>1. /\ a.priv = NoKey /\ r.ts \in 0..now /\ a.key = Policy(r.con, r.ts)
        BY <1>1, <2>1, <2>3, <3>5 DEF ResponseHolds, KeyHolds
      <4>2. r.ts \in Nat
        BY <4>1
      <4>3. a.key # NoKey /\ a.key.con = r.con
        BY <3>2, <3>4, <4>1, <4>2
      <4> QED
        BY <2>3, <3>1, <3>3, <3>5, <4>1, <4>3 DEF IsComplete
    <3>6. CASE r.kind = "signing"
      <4>1. PICK ts \in 0..now :
              /\ a.key = Policy(PublicCon(r), ts)
              /\ a.priv = IF r.priv = NoKey THEN NoKey ELSE Policy(PrivateCon(r), ts)
        BY <1>1, <2>1, <2>3, <3>6 DEF ResponseHolds, SigningKeyHolds
      <4>2. ts \in Nat /\ PublicCon(r) \in SUBSET Attribute /\ PrivateCon(r) \in SUBSET Attribute
        BY <3>2 DEF PublicCon, PrivateCon
      <4>3. a.key # NoKey /\ a.key.con = PublicCon(r)
        BY <3>4, <4>1, <4>2
      <4>4. Types(PublicCon(r)) = asked \cap Types(r.pub)
        BY <3>3, TypesMeet DEF PublicCon
      <4>5. ASSUME r.priv # NoKey
            PROVE  /\ a.priv # NoKey
                   /\ asked \cap Types({x \in r.priv : x.v = NoValue}) \subseteq Types(a.priv.con)
                   /\ Types(a.priv.con) \subseteq asked \cap Types(r.priv)
        <5>1. a.priv # NoKey /\ a.priv.con = PrivateCon(r)
          BY <3>4, <4>1, <4>2, <4>5
        <5> QED
          BY <3>2, <3>3, <4>5, <5>1, PrivateTypes
      <4> QED
        BY <2>3, <3>6, <4>1, <4>3, <4>4, <4>5 DEF IsComplete
    <3> QED
      BY <3>2, <3>5, <3>6
  <2> QED
    BY <2>2, <2>3
<1>2. IInv => KeysAreComplete
  <2> SUFFICES ASSUME IInv, NEW c \in Clients, NEW a, NEW r, NEW asked,
                      a = resp[c], r = a.req, asked = Types(sess[r.jwt.token].con),
                      r # Idle /\ r.jwt.status = "DONE" /\ r.jwt.proof = "VALID"
                        /\ r.jwt.stype = "disclosing"
               PROVE  IsComplete(a, r, asked)
    BY DEF KeysAreComplete
  <2>1. PICK j : j = r.jwt
    OBVIOUS
  <2> QED
    BY <1>1, <2>1
<1> QED
  BY <1>2, Invariance, PTL
=============================================================================
