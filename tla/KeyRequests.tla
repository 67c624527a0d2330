---------------------------- MODULE KeyRequests ----------------------------
(***************************************************************************)
(* The key service under clients that fetch a session's JWT whenever they  *)
(* like and use it as often, as late and for whatever they like.           *)
(***************************************************************************)
EXTENDS KeyService

CONSTANTS
  Cons,         \* what sessions are started for
  Validities,   \* for how long, NoValue for the default
  SignIds,      \* identities asked for in signing key requests
  MaxJwts       \* how many JWTs are fetched

ASSUME RequestsAssumption ==
  /\ Cons \subseteq SUBSET Attribute
  /\ SignIds \subseteq SUBSET Attribute
  /\ Validities \subseteq Nat \cup {NoValue}

VARIABLE jwts   \* the JWTs the clients have

vars == <<irmaVars, keyVars, jwts>>

RequestType ==
  [stage: {"sent", "authenticated"}, kind: {"key", "signing"}, jwt: Jwt, ts: Nat \cup {NoValue},
   pub: SUBSET Attribute, priv: (SUBSET Attribute) \cup {NoKey}, con: SUBSET Attribute]

KeysOf(r) == {r.key, r.priv} \ {NoKey}

TypeOK ==
  /\ IrmaTypeOK
  /\ jwts \subseteq Jwt
  /\ \A c \in Clients : req[c] = Idle \/ req[c] \in RequestType
  /\ \A c \in Clients :
       /\ resp[c].code \in Errors \cup {"OK", "none"}
       /\ KeysOf(resp[c]) \subseteq [con: SUBSET Attribute, ts: 0..now]

Init == IrmaInit /\ KeyServiceInit /\ jwts = {}

\* A start handler's call of the IRMA server, or that of another application.
StartSession ==
  /\ \E k \in Tokens, con \in Cons :
       \/ \E v \in Validities : Start(k, con, v)
       \/ /\ \E v \in Validities \ {NoValue}, stype \in SessionTypes :
               ForeignSession(k, stype, con, v)
          /\ UNCHANGED keyVars
  /\ UNCHANGED jwts

StartRefused ==
  /\ \E c \in Clients, v \in Validities : req[c] = Idle /\ RefuseStart(c, v)
  /\ UNCHANGED jwts

(***************************************************************************)
(* GET /irma/jwt/{token} forwards the IRMA server's result, also that of a *)
(* session that is not over; and an error when there is no such session.   *)
(***************************************************************************)
FetchJwt ==
  /\ \E k \in Tokens : /\ sess[k].status # "NONE"
                       /\ jwts' = jwts \cup {ResultJwt(k)}
  /\ Cardinality(jwts') <= MaxJwts
  /\ UNCHANGED <<irmaVars, keyVars>>

NoJwt ==
  /\ \E k \in Tokens, c \in Clients :
       /\ req[c] = Idle
       /\ sess[k].status = "NONE"
       /\ Respond(c, ErrorResponse("UpstreamError", Idle, now))
  /\ UNCHANGED <<irmaVars, jwts>>

SendKeyRequest(c) ==
  /\ req[c] = Idle
  /\ \E jwt \in jwts, ts \in (0..MaxTime) \cup {NoValue} :
       Send(c, Request("key", jwt, ts, {}, NoKey))
  /\ UNCHANGED <<irmaVars, jwts>>

SendSigningRequest(c) ==
  /\ req[c] = Idle
  /\ \E jwt \in jwts, pub \in SignIds, priv \in SignIds \cup {NoKey} :
       Send(c, Request("signing", jwt, NoValue, pub, priv))
  /\ UNCHANGED <<irmaVars, jwts>>

Next ==
  \/ (Tick \/ IrmaStep) /\ UNCHANGED <<keyVars, jwts>>
  \/ StartSession
  \/ StartRefused
  \/ FetchJwt
  \/ NoJwt
  \/ \E c \in Clients : SendKeyRequest(c) \/ SendSigningRequest(c)
  \/ ServiceStep /\ UNCHANGED jwts

Spec == Init /\ [][Next]_vars

-----------------------------------------------------------------------------
Proven(k) == {[t |-> d.t, v |-> d.v] : d \in {x \in sess[k].disclosed : x.present}}

(***************************************************************************)
(* Every attribute in the policy of a key was asked for and disclosed, in  *)
(* the session the JWT is of, which is a disclosure session that is done   *)
(* and whose proof is valid: whenever the JWT was fetched, whatever became *)
(* of the session since, and whatever other sessions the server has.       *)
(***************************************************************************)
KeysAreProven ==
  \A c \in Clients : \A key \in KeysOf(resp[c]) :
    LET k == resp[c].req.jwt.token
    IN /\ key.con \subseteq Proven(k)
       /\ key.con # {} => /\ sess[k].status = "DONE"
                          /\ sess[k].proof = "VALID"
                          /\ sess[k].stype = "disclosing"

(***************************************************************************)
(* No key is for a time to come; a decryption key is not for a time after  *)
(* the expiry of the JWT, even when the JWT expires between its            *)
(* verification and the handling of the request; and a JWT of the PKG's    *)
(* own sessions gives no keys for a time more than MaxValidity after it    *)
(* was issued.  A session of another application may be valid for longer.  *)
(***************************************************************************)
KeysAreTimely ==
  \A c \in Clients : \A key \in KeysOf(resp[c]) :
    /\ key.ts <= now
    /\ resp[c].req.kind = "key" =>
         /\ key.ts <= resp[c].req.jwt.exp
         /\ key.con # {} /\ sess[resp[c].req.jwt.token].starter = "pkg" =>
              key.ts <= resp[c].req.jwt.iat + MaxValidity

Types(con) == {a.t : a \in con}

\* Answer a to request r is as it should be for the types that were asked for.
IsComplete(a, r, asked) ==
  IF a.code # "OK"
    THEN MayRefuse(r.stage, r, a.at)
    ELSE /\ a.key # NoKey
         /\ Types(a.key.con) = IF r.kind = "key" THEN asked ELSE asked \cap Types(r.pub)
         /\ IF r.priv = NoKey
              THEN a.priv = NoKey
              ELSE /\ a.priv # NoKey
                   /\ asked \cap Types({x \in r.priv : x.v = NoValue}) \subseteq Types(a.priv.con)
                   /\ Types(a.priv.con) \subseteq asked \cap Types(r.priv)

(***************************************************************************)
(* The holder of the JWT of a valid disclosure gets keys for it unless     *)
(* there is a reason to refuse the request, and what is in them is exact,  *)
(* as to types: a decryption key has all that the session asked for, the   *)
(* public signing key what was requested of that.  A private signing key   *)
(* is given when a private identity is requested, and only then; it has    *)
(* all that is requested in it without a value, and nothing that is not    *)
(* requested in it.                                                        *)
(***************************************************************************)
KeysAreComplete ==
  \A c \in Clients :
    LET r == resp[c].req
    IN (r # Idle /\ r.jwt.status = "DONE" /\ r.jwt.proof = "VALID" /\ r.jwt.stype = "disclosing") =>
         IsComplete(resp[c], r, Types(sess[r.jwt.token].con))

-----------------------------------------------------------------------------
(***************************************************************************)
(* api.rs, of KeyResponse and of the public key of SigningKeyResponse:     *)
(* "The key will remain `None` until the status is `Done` and the proof is *)
(* `Valid`."  It is stated of one of the two here, so that a state where   *)
(* this is false refutes both.                                             *)
(***************************************************************************)
WaitsForProof(kind) ==
  \A c \in Clients :
    resp[c].code = "OK" /\ resp[c].req.kind = kind /\ resp[c].key # NoKey =>
      resp[c].status = "DONE" /\ resp[c].proof = "VALID"

KeysWaitForProof == WaitsForProof("key") \/ WaitsForProof("signing")

(***************************************************************************)
(* README of pg-wasm: a private identity requested with its value, and     *)
(* disclosed, is in the policy of the private signing key.                 *)
(***************************************************************************)
PrivateIdentityIsSigned ==
  \A c \in Clients :
    LET r == resp[c].req
    IN resp[c].code = "OK" /\ r.kind = "signing" /\ resp[c].priv # NoKey =>
         r.priv \cap Validated(r.jwt) \subseteq resp[c].priv.con
=============================================================================
