----------------------------- MODULE KeyService -----------------------------
(***************************************************************************)
(* The handlers of the Private Key Generator (pg-pkg) that deal with keys: *)
(* start, jwt, key and signing_key, and the middleware IrmaAuth in front   *)
(* of the last two.  The server keeps no state of its own; a request is    *)
(* authenticated in one step and handled in a later one, and the clock may *)
(* advance between the two.                                                *)
(***************************************************************************)
EXTENDS IrmaServer

CONSTANTS
  Clients,
  MaxValidity,      \* the longest validity of a session a client may ask for
  DefaultValidity,
  NoKey             \* no key in a response

\* A time is a time, and a key is not "no key".
ASSUME KeyServiceAssumption ==
  /\ MaxValidity \in Nat
  /\ DefaultValidity \in 0..MaxValidity
  /\ NoValue \notin Nat
  /\ NoKey \notin [con: SUBSET Attribute, ts: Nat]

VARIABLES
  req,    \* each client's request, in one of the stages below
  resp    \* and the last response it got

keyVars == <<req, resp>>

(***************************************************************************)
(* Keys and what clients send and receive.                                 *)
(***************************************************************************)
Policy(con, ts) == [con |-> con, ts |-> ts]

\* A key request has a timestamp, a signing key request two identities, the
\* private one being optional (NoKey stands for its absence).
Request(kind, jwt, ts, pub, priv) ==
  [stage |-> "sent", kind |-> kind, jwt |-> jwt, ts |-> ts, pub |-> pub, priv |-> priv,
   con |-> {}]

Idle == [stage |-> "idle"]

Errors == {"ChronologyError", "NoTimestampError", "ValidityError", "UpstreamError"}

\* The request is part of the response, and the time of a refusal part of an
\* error: they are what properties are about.
ErrorResponse(e, r, t) ==
  [code |-> e, status |-> NoProof, proof |-> NoProof, key |-> NoKey, priv |-> NoKey,
   req |-> r, at |-> t]

OkResponse(r, key, priv) ==
  [code |-> "OK", status |-> r.jwt.status, proof |-> r.jwt.proof, key |-> key, priv |-> priv,
   req |-> r]

NoResponse == ErrorResponse("none", Idle, 0)

KeyServiceInit ==
  /\ req = [c \in Clients |-> Idle]
  /\ resp = [c \in Clients |-> NoResponse]

Send(c, r) ==
  /\ req' = [req EXCEPT ![c] = r]
  /\ resp' = [resp EXCEPT ![c] = NoResponse]

Respond(c, r) ==
  /\ resp' = [resp EXCEPT ![c] = r]
  /\ req' = [req EXCEPT ![c] = Idle]

-----------------------------------------------------------------------------
(***************************************************************************)
(* POST /irma/start: a disclosure session for the attributes, valid for as *)
(* long as was asked; not more than MaxValidity.                           *)
(***************************************************************************)
SessionValidity(asked) == IF asked = NoValue THEN DefaultValidity ELSE asked

Start(k, con, asked) ==
  /\ sess[k].status = "NONE"
  /\ SessionValidity(asked) <= MaxValidity
  /\ sess' = [sess EXCEPT ![k] = NewSession("pkg", "disclosing", con, SessionValidity(asked))]
  /\ UNCHANGED <<now, keyVars>>

RefuseStart(c, asked) ==
  /\ SessionValidity(asked) > MaxValidity
  /\ Respond(c, ErrorResponse("ValidityError", Idle, now))
  /\ UNCHANGED irmaVars

-----------------------------------------------------------------------------
(***************************************************************************)
(* IrmaAuth: the JWT must not have expired, with no leeway.  Attributes    *)
(* are taken from it when it is that of a finished disclosure session with *)
(* a valid proof, and only those that were asked for.                      *)
(***************************************************************************)
Validated_AnyProof(jwt) ==   \* mutant: the proof is not looked at
  IF jwt.status = "DONE" /\ jwt.stype = "disclosing"
    THEN {[t |-> d.t, v |-> d.v] : d \in {x \in jwt.disclosed : x.present}}
    ELSE {}
Validated(jwt) ==
  IF jwt.status = "DONE" /\ jwt.proof = "VALID" /\ jwt.stype = "disclosing"
    THEN {[t |-> d.t, v |-> d.v] : d \in {x \in jwt.disclosed : x.present}}
    ELSE {}

Authenticate(c) ==
  /\ req[c].stage = "sent"
  /\ IF now > req[c].jwt.exp
       THEN Respond(c, ErrorResponse("ChronologyError", req[c], now))
       ELSE /\ req' = [req EXCEPT ![c].stage = "authenticated",
                                  ![c].con = Validated(req[c].jwt)]
            /\ UNCHANGED resp
  /\ UNCHANGED irmaVars

(***************************************************************************)
(* GET /irma/key/{timestamp}: the user secret key for the attributes and   *)
(* the timestamp, which must be neither in the future nor after the JWT's  *)
(* expiry.  A key is given whatever the session's status.                  *)
(***************************************************************************)
TooLate_Unchecked(r) == r.ts > now     \* mutant: the expiry is not checked again
TooLate_Future(r) == r.ts > r.jwt.exp  \* mutant: times to come are not refused
TooLate_Strict(r) == r.ts >= now \/ r.ts > r.jwt.exp  \* mutant: off by one
TooLate(r) == r.ts > now \/ r.ts > r.jwt.exp

HandleKey(c) ==
  LET r == req[c]
  IN /\ r.stage = "authenticated" /\ r.kind = "key"
     /\ IF r.ts = NoValue
          THEN Respond(c, ErrorResponse("NoTimestampError", r, now))
          ELSE IF TooLate(r)
          THEN Respond(c, ErrorResponse("ChronologyError", r, now))
          ELSE Respond(c, OkResponse(r, Policy(r.con, r.ts), NoKey))
     /\ UNCHANGED irmaVars

(***************************************************************************)
(* POST /irma/sign/key: a signing key for the attributes of the requested  *)
(* public types, and one for the private identity if there is one, both    *)
(* with the time of the handler as timestamp.  Nothing before the session  *)
(* is done.                                                                *)
(***************************************************************************)
PublicCon(r) == {a \in r.con : \E x \in r.pub : x.t = a.t}

\* The requested attributes are compared as a whole, without a value.
PrivateCon_All(r) == r.con   \* mutant: all that was disclosed
PrivateCon(r) == {a \in r.con : [t |-> a.t, v |-> NoValue] \in r.priv}

HandleSigningKey(c) ==
  LET r == req[c]
  IN /\ r.stage = "authenticated" /\ r.kind = "signing"
     /\ Respond(c, IF r.jwt.status # "DONE"
                     THEN OkResponse(r, NoKey, NoKey)
                     ELSE OkResponse(r, Policy(PublicCon(r), now),
                            IF r.priv = NoKey THEN NoKey ELSE Policy(PrivateCon(r), now)))
     /\ UNCHANGED irmaVars

ServiceStep == \E c \in Clients : Authenticate(c) \/ HandleKey(c) \/ HandleSigningKey(c)

-----------------------------------------------------------------------------
\* The reasons there are to refuse request r at time t, before it is
\* authenticated and after; the properties of the clients share them.
MayRefuse(stage, r, t) ==
  IF stage = "sent"
    THEN t > r.jwt.exp
    ELSE r.kind = "key" /\ (r.ts = NoValue \/ r.ts > t \/ r.ts > r.jwt.exp)
=============================================================================
