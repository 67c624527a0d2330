----------------------------- MODULE KeyPolling -----------------------------
(***************************************************************************)
(* The command line tool as a client of the key service: enc and dec each  *)
(* start a session, then poll for its result and the keys that go with it  *)
(* (wait_on_signing_keys, wait_on_decryption_key), until the session is    *)
(* done, a call fails, or it has polled MaxPolls times.                    *)
(***************************************************************************)
EXTENDS KeyService

CONSTANTS
  Cons,      \* attributes of a recipient
  SignIds,   \* identities to sign with
  MaxPolls   \* 120 in the code

ASSUME PollingAssumption ==
  /\ MaxPolls \in Nat
  /\ Cons \subseteq SUBSET Attribute
  /\ SignIds \subseteq SUBSET Attribute

VARIABLE wait   \* where each client is

vars == <<irmaVars, keyVars, wait>>

(***************************************************************************)
(* What a client wants: a decryption key for the time in a ciphertext's    *)
(* header, which the sealer's clock set, or signing keys.                  *)
(***************************************************************************)
Wishes ==
  {Request("key", [status |-> "NONE"], ts, con, NoKey) : ts \in 0..MaxTime, con \in Cons}
    \cup {Request("signing", [status |-> "NONE"], NoValue, pub, priv) :
            pub \in SignIds, priv \in SignIds \cup {NoKey}}

\* enc starts one session for both identities.
SessionCon(r) == r.pub \cup (IF r.priv = NoKey THEN {} ELSE r.priv)

Results == {"ok", "timeout", "failed"}

\* In the state jwt the next step is to poll again, in key a JWT was fetched.
States == {"start", "jwt", "key", "waiting"} \cup Results

RequestType ==
  [stage: {"sent", "authenticated"}, kind: {"key", "signing"}, jwt: Jwt, ts: Nat \cup {NoValue},
   pub: SUBSET Attribute, priv: (SUBSET Attribute) \cup {NoKey}, con: SUBSET Attribute]

TypeOK ==
  /\ IrmaTypeOK
  /\ \A c \in Clients :
       /\ req[c] = Idle \/ req[c] \in RequestType
       /\ wait[c].state \in States /\ wait[c].token \in Tokens \cup {NoValue}
       /\ wait[c].polls \in 0..MaxPolls
       /\ wait[c].state \in {"key", "waiting"} => wait[c].polls < MaxPolls

Init ==
  /\ IrmaInit /\ KeyServiceInit
  /\ wait \in [Clients -> {[state |-> "start", wish |-> w, token |-> NoValue, polls |-> MaxPolls] :
                             w \in Wishes}]

-----------------------------------------------------------------------------
GoTo(c, s) == wait' = [wait EXCEPT ![c].state = s]

RequestStart(c) ==
  /\ wait[c].state = "start"
  /\ \E k \in Tokens :
       /\ Start(k, SessionCon(wait[c].wish), NoValue)
       /\ wait' = [wait EXCEPT ![c].state = "jwt", ![c].token = k]

\* The counter of the loop; each iteration fetches the JWT anew.
Polled_Uncounted(c) == wait[c].polls   \* mutant: the loop has no bound
Polled(c) == wait[c].polls - 1

RequestJwt(c) ==
  /\ wait[c].state = "jwt" /\ wait[c].polls > 0
  /\ wait' = [wait EXCEPT ![c].state = "key", ![c].polls = Polled(c),
                          ![c].wish.jwt = ResultJwt(wait[c].token)]
  /\ UNCHANGED <<irmaVars, keyVars>>

GiveUp(c) ==
  /\ wait[c].state = "jwt" /\ wait[c].polls = 0
  /\ GoTo(c, "timeout")
  /\ UNCHANGED <<irmaVars, keyVars>>

\* A decryption key request has no body: the identities are those of the session.
RequestKey(c) ==
  LET w == wait[c].wish
  IN /\ wait[c].state = "key"
     /\ Send(c, IF w.kind = "key" THEN [w EXCEPT !.pub = {}] ELSE w)
     /\ GoTo(c, "waiting")
     /\ UNCHANGED irmaVars

(***************************************************************************)
(* A response with the status DONE ends the wait, whatever the proof; any  *)
(* other is followed by half a second of sleep and the next iteration.     *)
(***************************************************************************)
AfterResponse_AnyStatus(r) ==   \* mutant: any response ends the wait
  IF r.code = "OK" THEN "ok" ELSE "failed"
AfterResponse_NeverFails(r) ==  \* mutant: only a key ends the wait
  IF r.code = "OK" /\ r.status = "DONE" /\ r.proof = "VALID" THEN "ok" ELSE "jwt"
AfterResponse(r) ==
  IF r.code # "OK" THEN "failed" ELSE IF r.status = "DONE" THEN "ok" ELSE "jwt"

ReceiveKey(c) ==
  /\ wait[c].state = "waiting" /\ req[c] = Idle
  /\ GoTo(c, AfterResponse(resp[c]))
  /\ UNCHANGED <<irmaVars, keyVars>>

\* Any of the calls may fail, and with it the wait.
HttpError(c) ==
  /\ wait[c].state \in {"start", "jwt", "key", "waiting"}
  /\ wait[c].state = "jwt" => wait[c].polls > 0
  /\ GoTo(c, "failed")
  /\ req' = [req EXCEPT ![c] = Idle]
  /\ resp' = [resp EXCEPT ![c] = NoResponse]
  /\ UNCHANGED irmaVars

ClientStep(c) ==
  RequestStart(c) \/ RequestJwt(c) \/ GiveUp(c) \/ RequestKey(c) \/ ReceiveKey(c)

Serve(c) ==
  (Authenticate(c) \/ HandleKey(c) \/ HandleSigningKey(c)) /\ UNCHANGED wait

Next ==
  \/ (Tick \/ IrmaStep) /\ UNCHANGED <<keyVars, wait>>
  \/ \E c \in Clients : ClientStep(c) \/ Serve(c) \/ HttpError(c)

Spec == Init /\ [][Next]_vars

(***************************************************************************)
(* The client's loop and the server's handlers go on; nothing is assumed   *)
(* of the clock, the user and the network.                                 *)
(***************************************************************************)
FairSpec == Spec /\ \A c \in Clients : WF_vars(ClientStep(c)) /\ WF_vars(Serve(c))

-----------------------------------------------------------------------------
(***************************************************************************)
(* A wait that ends well gives a key: enc and dec unwrap it.  With a valid *)
(* proof, the key is for every attribute the client asked for, and a       *)
(* decryption key for the time in the header.                              *)
(***************************************************************************)
OkHasKey ==
  \A c \in Clients : wait[c].state = "ok" =>
    LET w == wait[c].wish
        r == resp[c]
    IN /\ r.key # NoKey
       /\ sess[wait[c].token].status = "DONE"
       /\ r.proof = "VALID" =>
            /\ {a.t : a \in w.pub} \subseteq {a.t : a \in r.key.con}
            /\ w.kind = "key" => r.key.ts = w.ts

(***************************************************************************)
(* A wait times out only after MaxPolls polls, in the last of which the    *)
(* session was not done when its JWT was made.                             *)
(***************************************************************************)
TimeoutIsPending ==
  \A c \in Clients : wait[c].state = "timeout" =>
    wait[c].polls = 0 /\ (MaxPolls > 0 => wait[c].wish.jwt.status # "DONE")

(***************************************************************************)
(* Every wait ends, whether or not the user ever answers.                  *)
(***************************************************************************)
WaitReturns ==
  \A c \in Clients : wait[c].state = "jwt" ~> wait[c].state \in Results

(***************************************************************************)
(* A session that is done while polls are left is noticed: the wait does   *)
(* not end in a timeout.                                                   *)
(***************************************************************************)
DoneIsReturned ==
  \A c \in Clients :
    (wait[c].state = "jwt" /\ wait[c].polls > 0 /\ sess[wait[c].token].status = "DONE")
      ~> wait[c].state \in {"ok", "failed"}

(***************************************************************************)
(* If no call fails, a wait fails only for a reason the PKG had at the     *)
(* time it refused: the JWT had expired when it came in, or the header's   *)
(* time was then still to come, or is after the JWT's expiry.  A PKG that  *)
(* refuses the very second of its clock makes it false.                    *)
(***************************************************************************)
FailsForAReason ==
  \A c \in Clients : wait[c].state = "failed" /\ resp[c] # NoResponse =>
    MayRefuse(resp[c].req.stage, wait[c].wish, resp[c].at)
=============================================================================
