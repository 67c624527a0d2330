---------------------------- MODULE PollingProofs ----------------------------
(***************************************************************************)
(* Proofs about the command line tool as a client of the key service: for  *)
(* any number of clients, sessions, attributes and polls, a wait ends well *)
(* only with a key, and badly only for a reason.                           *)
(***************************************************************************)
EXTENDS KeyPolling, SessionProofs

-----------------------------------------------------------------------------
(***************************************************************************)
(* The inductive invariant: what each state of a wait w knows, r being the *)
(* client's request and a the last response it got.                        *)
(***************************************************************************)
WishType ==
  [stage: {"sent"}, kind: {"key", "signing"}, jwt: Jwt \cup {[status |-> "NONE"]},
   ts: (0..MaxTime) \cup {NoValue}, pub: SUBSET Attribute,
   priv: (SUBSET Attribute) \cup {NoKey}, con: {{}}]

WaitType == [state: States, wish: WishType, token: Tokens \cup {NoValue}, polls: 0..MaxPolls]

\* The wait has a session of its own.
Begun(w) ==
  /\ w.token \in Tokens
  /\ sess[w.token].status # "NONE"
  /\ sess[w.token].stype = "disclosing"
  /\ sess[w.token].con = SessionCon(w.wish)

\* The JWT it has is one of that session.
Fetched(w) ==
  LET j == w.wish.jwt
  IN /\ j \in Jwt /\ IsPicture(j) /\ j.token = w.token
     /\ j.iat <= now /\ j.iat <= j.exp

\* The request on its way is the one it wants answered.
Asked(w, r) ==
  /\ r \in RequestType
  /\ r.kind = w.wish.kind /\ r.jwt = w.wish.jwt /\ r.ts = w.wish.ts
  /\ r.kind = "signing" => r.pub = w.wish.pub
  /\ r.stage = "authenticated" => r.con = Validated(r.jwt)

\* The PKG had a reason to refuse wish p, at the time it did.
Excused(p, a) == MayRefuse(a.req.stage, p, a.at)

KeyCon(p) ==
  IF p.kind = "key" THEN Validated(p.jwt)
  ELSE {a \in Validated(p.jwt) : \E x \in p.pub : x.t = a.t}

Answered(w, a) ==
  IF a.code = "OK"
    THEN /\ a.status = w.wish.jwt.status /\ a.proof = w.wish.jwt.proof
         /\ a.status = "DONE" =>
              /\ a.key \in [con: SUBSET Attribute, ts: Nat]
              /\ a.key.con = KeyCon(w.wish)
              /\ w.wish.kind = "key" => a.key.ts = w.wish.ts
    ELSE Excused(w.wish, a)

WaitHolds(w) ==
  /\ w \in WaitType
  /\ w.wish.kind = "key" => w.wish.ts \in 0..MaxTime
  /\ w.state \in {"jwt", "key", "waiting", "ok"} => Begun(w)
  /\ w.state \in {"key", "waiting", "ok"} => Fetched(w)
  /\ w.state \in {"key", "waiting"} => w.polls < MaxPolls
  /\ w.state \in {"jwt", "timeout"} /\ w.polls < MaxPolls => w.wish.jwt.status # "DONE"
  /\ w.state = "timeout" => w.polls = 0
  /\ w.state = "start" => w.polls = MaxPolls

ClientHolds(w, r, a) ==
  /\ WaitHolds(w)
  /\ w.state # "waiting" => r = Idle
  /\ w.state = "waiting" => Asked(w, r) \/ (r = Idle /\ Answered(w, a))
  /\ w.state = "ok" => Answered(w, a) /\ a.code = "OK" /\ a.status = "DONE"
  /\ w.state = "failed" => a = NoResponse \/ Excused(w.wish, a)

ClientsHold ==
  /\ wait = [c \in Clients |-> wait[c]]
  /\ req = [c \in Clients |-> req[c]]
  /\ resp = [c \in Clients |-> resp[c]]
  /\ \A c \in Clients : ClientHolds(wait[c], req[c], resp[c])

IInv == IrmaHolds /\ ClientsHold

-----------------------------------------------------------------------------
(***************************************************************************)
(* What a client knows stays true while sessions go on.                    *)
(***************************************************************************)
LEMMA ClientStays ==
  ASSUME IrmaHolds, IrmaHolds', SessionsGoOn, NEW w, NEW r, NEW a, ClientHolds(w, r, a)
  PROVE  ClientHolds(w, r, a)'
<1>1. now \in Nat /\ now' \in Nat /\ now' >= now
  BY IrmaAssumption DEF IrmaHolds, IrmaTypeOK, SessionsGoOn
<1>2. Begun(w) => Begun(w)'
  BY DEF Begun, SessionsGoOn
<1>3. Fetched(w) => Fetched(w)'
  <2>1. PICK j : j = w.wish.jwt
    OBVIOUS
  <2>2. ASSUME j \in Jwt, IsPicture(j) PROVE IsPicture(j)'
    BY <2>2, PictureStays
  <2>3. j \in Jwt => j.iat \in Nat
    BY DEF Jwt
  <2> QED
    BY <1>1, <2>1, <2>2, <2>3 DEF Fetched, IsPicture
<1>4. Excused(w.wish, a) => Excused(w.wish, a)'
  BY DEF Excused
<1>5. WaitHolds(w)'
  BY <1>2, <1>3 DEF ClientHolds, WaitHolds
<1>6. Answered(w, a) => Answered(w, a)'
  BY <1>4 DEF Answered
<1> QED
  BY <1>4, <1>5, <1>6, Zenon DEF ClientHolds, Asked

\* A step that changes what client c has, and what it wants to know.
LEMMA ClientChanges ==
  ASSUME IInv, IrmaHolds', SessionsGoOn, NEW c \in Clients, NEW w, NEW r, NEW a,
         wait' = [wait EXCEPT ![c] = w], req' = [req EXCEPT ![c] = r],
         resp' = [resp EXCEPT ![c] = a], ClientHolds(w, r, a)'
  PROVE  IInv'
<1>1. /\ wait' = [d \in Clients |-> wait'[d]] /\ req' = [d \in Clients |-> req'[d]]
      /\ resp' = [d \in Clients |-> resp'[d]]
      /\ \A d \in Clients : /\ wait'[d] = IF d = c THEN w ELSE wait[d]
                            /\ req'[d] = IF d = c THEN r ELSE req[d]
                            /\ resp'[d] = IF d = c THEN a ELSE resp[d]
  BY DEF IInv, ClientsHold
<1>2. ASSUME NEW d \in Clients PROVE ClientHolds(wait[d], req[d], resp[d])'
  <2>1. PICK w1, r1, a1 : w1 = wait[d] /\ r1 = req[d] /\ a1 = resp[d]
    OBVIOUS
  <2>2. ClientHolds(w1, r1, a1)'
    BY <2>1, ClientStays DEF IInv, ClientsHold
  <2>3. PICK w2, r2, a2 : w2 = wait'[d] /\ r2 = req'[d] /\ a2 = resp'[d]
    OBVIOUS
  <2>4. (w2 = w /\ r2 = r /\ a2 = a) \/ (w2 = w1 /\ r2 = r1 /\ a2 = a1)
    BY <1>1, <2>1, <2>3
  <2>5. ClientHolds(w2, r2, a2)'
    BY <2>2, <2>4
  <2>6. WaitHolds(w2)' => WaitHolds(wait[d])'
    BY <2>3 DEF WaitHolds, Begun, Fetched
  <2>7. Asked(w2, r2)' => Asked(wait[d], req[d])'
    BY <2>3 DEF Asked
  <2>8. Answered(w2, a2)' => Answered(wait[d], resp[d])'
    BY <2>3 DEF Answered, Excused
  <2>9. Excused(w2.wish, a2)' => Excused(wait[d].wish, resp[d])'
    BY <2>3 DEF Excused
  <2> QED
    BY <2>3, <2>5, <2>6, <2>7, <2>8, <2>9 DEF ClientHolds
<1> QED
  BY <1>1, <1>2 DEF IInv, ClientsHold

\* The same, when the sessions and the clock stay as they are.
LEMMA QuietStep ==
  ASSUME IInv, UNCHANGED irmaVars, NEW c \in Clients, NEW w, NEW r, NEW a,
         wait' = [wait EXCEPT ![c] = w], req' = [req EXCEPT ![c] = r],
         resp' = [resp EXCEPT ![c] = a], ClientHolds(w, r, a)
  PROVE  IInv'
<1>1. IrmaHolds' /\ SessionsGoOn
  BY IrmaStays DEF IInv
<1>2. ClientHolds(w, r, a)'
  BY <1>1, ClientStays DEF IInv
<1> QED
  BY <1>1, <1>2, ClientChanges

LEMMA ClientsStay ==
  ASSUME IInv, IrmaHolds', SessionsGoOn, UNCHANGED <<keyVars, wait>>
  PROVE  IInv'
<1>1. wait' = wait /\ req' = req /\ resp' = resp
  BY DEF keyVars
<1>2. ASSUME NEW c \in Clients PROVE ClientHolds(wait[c], req[c], resp[c])'
  <2>1. PICK w, r, a : w = wait[c] /\ r = req[c] /\ a = resp[c]
    OBVIOUS
  <2>2. ClientHolds(w, r, a)'
    BY <2>1, ClientStays DEF IInv, ClientsHold
  <2> QED
    BY <1>1, <2>1, <2>2 DEF ClientHolds, WaitHolds, Begun, Fetched, Asked, Excused, Answered
<1> QED
  BY <1>1, <1>2 DEF IInv, ClientsHold

-----------------------------------------------------------------------------
(***************************************************************************)
(* The client's steps.                                                     *)
(***************************************************************************)
\* What is known of a client in the state it is in, by names that do not change.
LEMMA ClientNow ==
  ASSUME IInv, NEW c \in Clients, NEW w, NEW r, NEW a,
         w = wait[c], r = req[c], a = resp[c]
  PROVE  /\ ClientHolds(w, r, a) /\ w \in WaitType
         /\ wait = [wait EXCEPT ![c] = w] /\ req = [req EXCEPT ![c] = r]
         /\ resp = [resp EXCEPT ![c] = a]
BY DEF IInv, ClientsHold, ClientHolds, WaitHolds

LEMMA RequestStays ==
  ASSUME IInv, NEW c \in Clients, NEW r, NEW a, r = req[c], a = resp[c], UNCHANGED keyVars
  PROVE  req' = [req EXCEPT ![c] = r] /\ resp' = [resp EXCEPT ![c] = a]
<1>1. req' = req /\ resp' = resp
  BY DEF keyVars
<1> QED
  BY <1>1 DEF IInv, ClientsHold

\* A client that goes to another state.
LEMMA GoesTo ==
  ASSUME IInv, NEW c \in Clients, NEW s, NEW w, w = wait[c], GoTo(c, s)
  PROVE  wait' = [wait EXCEPT ![c] = [w EXCEPT !.state = s]]
BY DEF GoTo, IInv, ClientsHold

LEMMA RequestStartHolds ==
  ASSUME IInv, NEW c \in Clients, RequestStart(c) PROVE IInv'
<1>1. PICK w, r, a : w = wait[c] /\ r = req[c] /\ a = resp[c]
  OBVIOUS
<1>2. ClientHolds(w, r, a) /\ w \in WaitType /\ w.state = "start" /\ r = Idle
  BY <1>1, ClientNow DEF RequestStart, ClientHolds
<1>3. PICK k \in Tokens :
        /\ Start(k, SessionCon(w.wish), NoValue)
        /\ wait' = [wait EXCEPT ![c].state = "jwt", ![c].token = k]
  BY <1>1 DEF RequestStart
<1> DEFINE con == SessionCon(w.wish)
           v == [w EXCEPT !.state = "jwt", !.token = k]
<1>4. con \in SUBSET Attribute
  BY <1>2 DEF SessionCon, WaitType, WishType
<1>5. /\ sess[k].status = "NONE" /\ UNCHANGED now /\ UNCHANGED keyVars
      /\ sess' = [sess EXCEPT ![k] = NewSession("pkg", "disclosing", con, DefaultValidity)]
  BY <1>3 DEF Start, SessionValidity
<1> HIDE DEF con
<1>6. IrmaHolds' /\ SessionsGoOn
  <2>1. DefaultValidity \in Nat /\ DefaultValidity <= MaxValidity
    BY KeyServiceAssumption
  <2> QED
    BY <1>4, <1>5, <2>1, NewSessionHolds DEF IInv, Starters, SessionTypes
<1>7. wait' = [wait EXCEPT ![c] = v] /\ req' = [req EXCEPT ![c] = r] /\ resp' = [resp EXCEPT ![c] = a]
  BY <1>1, <1>3, <1>5, RequestStays DEF IInv, ClientsHold
<1>8. PICK u : u = v
  OBVIOUS
<1>9. /\ u \in WaitType /\ u.state = "jwt" /\ u.token = k
      /\ u.wish = w.wish /\ u.polls = w.polls
  BY <1>2, <1>8 DEF WaitType, States
<1>10. sess'[k] = NewSession("pkg", "disclosing", con, DefaultValidity)
  BY <1>5 DEF IInv, IrmaHolds, IrmaTypeOK
<1>11. Begun(u)'
  BY <1>9, <1>10 DEF Begun, NewSession, con
<1>12. WaitHolds(u)'
  BY <1>2, <1>9, <1>11, PollingAssumption DEF ClientHolds, WaitHolds
<1>13. ClientHolds(u, r, a)'
  BY <1>2, <1>9, <1>12 DEF ClientHolds
<1> QED
  BY <1>6, <1>7, <1>8, <1>13, ClientChanges

LEMMA RequestJwtHolds ==
  ASSUME IInv, NEW c \in Clients, RequestJwt(c) PROVE IInv'
<1>1. PICK w, r, a : w = wait[c] /\ r = req[c] /\ a = resp[c]
  OBVIOUS
<1>2. /\ ClientHolds(w, r, a) /\ w \in WaitType /\ w.state = "jwt" /\ w.polls > 0 /\ r = Idle
      /\ UNCHANGED irmaVars /\ UNCHANGED keyVars
  BY <1>1, ClientNow DEF RequestJwt, ClientHolds
<1>3. PICK j, n : j = ResultJwt(w.token) /\ n = w.polls - 1
  OBVIOUS
<1> DEFINE v == [w EXCEPT !.state = "key", !.polls = n, !.wish.jwt = j]
<1>4. wait' = [wait EXCEPT ![c] = v] /\ req' = [req EXCEPT ![c] = r] /\ resp' = [resp EXCEPT ![c] = a]
  <2>1. PICK f, g : f = wait /\ g = wait'
    OBVIOUS
  <2>2. g = [f EXCEPT ![c].state = "key", ![c].polls = n, ![c].wish.jwt = j]
    BY <1>1, <1>3, <2>1 DEF RequestJwt, Polled
  <2>3. f = [d \in Clients |-> f[d]] /\ f[c] = w
    BY <1>1, <2>1 DEF IInv, ClientsHold
  <2>4. g[c] = v
    BY <2>2, <2>3
  <2> HIDE DEF v
  <2>5. g = [d \in Clients |-> g[d]] /\ \A d \in Clients \ {c} : g[d] = f[d]
    BY <2>2, <2>3
  <2>6. g = [f EXCEPT ![c] = v]
    BY <2>3, <2>4, <2>5
  <2>7. wait' = [wait EXCEPT ![c] = v]
    BY <2>1, <2>6
  <2>8. req' = [req EXCEPT ![c] = r] /\ resp' = [resp EXCEPT ![c] = a]
    BY <1>1, <1>2, RequestStays
  <2> QED
    BY <2>7, <2>8
<1>5. Begun(w)
  BY <1>2 DEF ClientHolds, WaitHolds
<1>6. /\ j \in Jwt /\ IsPicture(j) /\ j.token = w.token /\ j.iat = now
      /\ j.iat \in Nat /\ j.exp \in Nat /\ j.exp >= j.iat
  BY <1>3, <1>5, PictureTaken DEF IInv, Begun
<1>7. PICK u : u = v
  OBVIOUS
<1>8. n \in 0..MaxPolls /\ n < MaxPolls
  BY <1>2, <1>3, PollingAssumption DEF WaitType
<1>9. PICK p : p = [w.wish EXCEPT !.jwt = j]
  OBVIOUS
<1>10. /\ p \in WishType /\ p.jwt = j /\ p.kind = w.wish.kind /\ p.ts = w.wish.ts
       /\ p.pub = w.wish.pub /\ p.priv = w.wish.priv
  <2>1. w.wish \in WishType
    BY <1>2 DEF WaitType
  <2> QED
    BY <1>6, <1>9, <2>1 DEF WishType
<1>11. /\ u \in WaitType /\ u.state = "key" /\ u.token = w.token /\ u.polls = n
       /\ u.wish = p
  <2>1. u = [w EXCEPT !.state = "key", !.polls = n, !.wish = p]
    BY <1>2, <1>7, <1>9 DEF WaitType
  <2> QED
    BY <1>2, <1>8, <1>10, <2>1 DEF WaitType, States
<1>12. Begun(u)
  BY <1>5, <1>10, <1>11 DEF Begun, SessionCon
<1>13. Fetched(u)
  BY <1>6, <1>10, <1>11 DEF Fetched
<1>14. ClientHolds(u, r, a)
  BY <1>2, <1>8, <1>10, <1>11, <1>12, <1>13 DEF ClientHolds, WaitHolds
<1> QED
  BY <1>2, <1>4, <1>7, <1>14, QuietStep

\* Any step that only changes the state of the wait.
LEMMA StateType ==
  ASSUME NEW w \in WaitType, NEW s \in States, NEW u, u = [w EXCEPT !.state = s]
  PROVE  /\ u \in WaitType /\ u.state = s /\ u.token = w.token /\ u.polls = w.polls
         /\ u.wish = w.wish
BY DEF WaitType

LEMMA GiveUpHolds ==
  ASSUME IInv, NEW c \in Clients, GiveUp(c) PROVE IInv'
<1>1. PICK w, r, a : w = wait[c] /\ r = req[c] /\ a = resp[c]
  OBVIOUS
<1>2. /\ ClientHolds(w, r, a) /\ w \in WaitType /\ w.state = "jwt" /\ w.polls = 0 /\ r = Idle
      /\ UNCHANGED irmaVars /\ UNCHANGED keyVars /\ GoTo(c, "timeout")
  BY <1>1, ClientNow DEF GiveUp, ClientHolds
<1>3. PICK u : u = [w EXCEPT !.state = "timeout"]
  OBVIOUS
<1>4. wait' = [wait EXCEPT ![c] = u]
  BY <1>1, <1>2, <1>3, GoesTo
<1>5. req' = [req EXCEPT ![c] = r] /\ resp' = [resp EXCEPT ![c] = a]
  BY <1>1, <1>2, RequestStays
<1>6. u \in WaitType /\ u.state = "timeout" /\ u.polls = w.polls /\ u.wish = w.wish
  BY <1>2, <1>3, StateType DEF States, Results
<1>7. ClientHolds(u, r, a)
  BY <1>2, <1>6 DEF ClientHolds, WaitHolds
<1> QED
  BY <1>2, <1>4, <1>5, <1>7, QuietStep

LEMMA RequestKeyHolds ==
  ASSUME IInv, NEW c \in Clients, RequestKey(c) PROVE IInv'
<1>1. PICK w, r, a : w = wait[c] /\ r = req[c] /\ a = resp[c]
  OBVIOUS
<1>2. /\ ClientHolds(w, r, a) /\ w \in WaitType /\ w.state = "key"
      /\ UNCHANGED irmaVars /\ GoTo(c, "waiting")
  BY <1>1, ClientNow DEF RequestKey
<1>3. PICK u : u = [w EXCEPT !.state = "waiting"]
  OBVIOUS
<1>4. wait' = [wait EXCEPT ![c] = u]
  BY <1>1, <1>2, <1>3, GoesTo
<1>5. PICK q : q = IF w.wish.kind = "key" THEN [w.wish EXCEPT !.pub = {}] ELSE w.wish
  OBVIOUS
<1>6. req' = [req EXCEPT ![c] = q] /\ resp' = [resp EXCEPT ![c] = NoResponse]
  BY <1>1, <1>5 DEF RequestKey, Send
<1>7. u \in WaitType /\ u.state = "waiting" /\ u.polls = w.polls /\ u.wish = w.wish /\ u.token = w.token
  BY <1>2, <1>3, StateType DEF States
<1>8. Begun(w) /\ Fetched(w) /\ w.polls < MaxPolls
  BY <1>2 DEF ClientHolds, WaitHolds
<1>9. Begun(u) /\ Fetched(u)
  BY <1>7, <1>8 DEF Begun, Fetched
<1>10. /\ q \in RequestType /\ q.stage = "sent" /\ q.kind = w.wish.kind /\ q.jwt = w.wish.jwt
       /\ q.ts = w.wish.ts /\ (q.kind = "signing" => q.pub = w.wish.pub)
  <2>1. w.wish \in WishType /\ w.wish.jwt \in Jwt /\ 0..MaxTime \subseteq Nat
    BY <1>2, <1>8 DEF WaitType, Fetched
  <2> QED
    BY <1>5, <2>1 DEF WishType, RequestType
<1>11. Asked(u, q)
  BY <1>7, <1>10 DEF Asked
<1>12. PICK b : b = NoResponse
  OBVIOUS
<1>13. ClientHolds(u, q, b)
  BY <1>2, <1>7, <1>8, <1>9, <1>11 DEF ClientHolds, WaitHolds
<1> QED
  BY <1>2, <1>4, <1>6, <1>12, <1>13, QuietStep

LEMMA ReceiveKeyHolds ==
  ASSUME IInv, NEW c \in Clients, ReceiveKey(c) PROVE IInv'
<1>1. PICK w, r, a : w = wait[c] /\ r = req[c] /\ a = resp[c]
  OBVIOUS
<1>2. /\ ClientHolds(w, r, a) /\ w \in WaitType /\ w.state = "waiting" /\ r = Idle
      /\ UNCHANGED irmaVars /\ UNCHANGED keyVars /\ GoTo(c, AfterResponse(a))
  BY <1>1, ClientNow DEF ReceiveKey
<1>3. PICK s : s = AfterResponse(a)
  OBVIOUS
<1>4. s \in States
  BY <1>3 DEF AfterResponse, States, Results
<1>5. PICK u : u = [w EXCEPT !.state = s]
  OBVIOUS
<1>6. wait' = [wait EXCEPT ![c] = u]
  BY <1>1, <1>2, <1>3, <1>5, GoesTo
<1>7. req' = [req EXCEPT ![c] = r] /\ resp' = [resp EXCEPT ![c] = a]
  BY <1>1, <1>2, RequestStays
<1>8. u \in WaitType /\ u.state = s /\ u.polls = w.polls /\ u.wish = w.wish /\ u.token = w.token
  BY <1>2, <1>4, <1>5, StateType
<1>9. Begun(w) /\ Fetched(w) /\ w.polls < MaxPolls
  BY <1>2 DEF ClientHolds, WaitHolds
<1>10. Begun(u) /\ Fetched(u)
  BY <1>8, <1>9 DEF Begun, Fetched
<1>11. Answered(w, a)
  <2>1. ~Asked(w, r)
    BY <1>2 DEF Asked, RequestType, Idle
  <2> QED
    BY <1>2, <2>1 DEF ClientHolds
<1>12. Answered(u, a)
  BY <1>8, <1>11 DEF Answered
<1>13. WaitHolds(u)
  <2>1. s \in {"jwt", "failed", "ok"} /\ (s = "jwt" => w.wish.jwt.status # "DONE")
    BY <1>3, <1>11 DEF AfterResponse, Answered
  <2> QED
    BY <1>2, <1>8, <1>10, <2>1 DEF ClientHolds, WaitHolds
<1>14. ClientHolds(u, r, a)
  <2>1. s = "ok" => a.code = "OK" /\ a.status = "DONE"
    BY <1>3 DEF AfterResponse
  <2>2. s = "failed" => Excused(u.wish, a)
    BY <1>3, <1>12 DEF AfterResponse, Answered
  <2>3. s # "waiting"
    BY <1>3 DEF AfterResponse
  <2> QED
    BY <1>2, <1>8, <1>12, <1>13, <2>1, <2>2, <2>3 DEF ClientHolds
<1> QED
  BY <1>2, <1>6, <1>7, <1>14, QuietStep

LEMMA HttpErrorHolds ==
  ASSUME IInv, NEW c \in Clients, HttpError(c) PROVE IInv'
<1>1. PICK w, r, a : w = wait[c] /\ r = Idle /\ a = NoResponse
  OBVIOUS
<1>2. PICK u : u = [w EXCEPT !.state = "failed"]
  OBVIOUS
<1>3. wait' = [wait EXCEPT ![c] = u]
  BY <1>1, <1>2, GoesTo DEF HttpError
<1>4. WaitHolds(w) /\ w \in WaitType
  BY <1>1 DEF IInv, ClientsHold, ClientHolds, WaitHolds
<1>5. u \in WaitType /\ u.state = "failed" /\ u.polls = w.polls /\ u.wish = w.wish
  BY <1>2, <1>4, StateType DEF States, Results
<1>6. ClientHolds(u, r, a)
  BY <1>1, <1>4, <1>5 DEF ClientHolds, WaitHolds
<1> QED
  BY <1>1, <1>3, <1>6, QuietStep DEF HttpError

-----------------------------------------------------------------------------
(***************************************************************************)
(* The service's steps, for a client that waits.                           *)
(***************************************************************************)
\* The client is answered.
LEMMA AnsweredHolds ==
  ASSUME IInv, NEW c \in Clients, NEW w, NEW a, w = wait[c], w.state = "waiting",
         UNCHANGED irmaVars, UNCHANGED wait, Respond(c, a), Answered(w, a)
  PROVE  IInv'
<1>1. PICK idle : idle = Idle
  OBVIOUS
<1>2. PICK r, b : r = req[c] /\ b = resp[c]
  OBVIOUS
<1>3. ClientHolds(w, r, b) /\ wait' = [wait EXCEPT ![c] = w]
  BY <1>2, ClientNow
<1>4. ClientHolds(w, idle, a)
  BY <1>1, <1>3 DEF ClientHolds
<1> QED
  BY <1>1, <1>3, <1>4, QuietStep DEF Respond

\* A request that is being served is that of a wait.
LEMMA WaitingNow ==
  ASSUME IInv, NEW c \in Clients, NEW w, NEW r, NEW a, w = wait[c], r = req[c], a = resp[c],
         r.stage \in {"sent", "authenticated"}
  PROVE  /\ ClientHolds(w, r, a) /\ w \in WaitType /\ w.state = "waiting"
         /\ Asked(w, r) /\ Begun(w) /\ Fetched(w) /\ r.jwt \in Jwt
         /\ wait = [wait EXCEPT ![c] = w] /\ resp = [resp EXCEPT ![c] = a]
<1>1. r # Idle
  BY DEF Idle
<1>2. /\ ClientHolds(w, r, a) /\ w \in WaitType
      /\ wait = [wait EXCEPT ![c] = w] /\ resp = [resp EXCEPT ![c] = a]
  BY ClientNow
<1>3. w.state = "waiting" /\ Asked(w, r)
  BY <1>1, <1>2 DEF ClientHolds
<1>4. Begun(w) /\ Fetched(w)
  BY <1>2, <1>3 DEF ClientHolds, WaitHolds
<1> QED
  BY <1>2, <1>3, <1>4 DEF Asked, Fetched

LEMMA AuthenticateHolds ==
  ASSUME IInv, NEW c \in Clients, Authenticate(c), UNCHANGED wait
  PROVE  IInv'
<1>1. PICK w, r, a : w = wait[c] /\ r = req[c] /\ a = resp[c]
  OBVIOUS
<1>2. r.stage = "sent" /\ UNCHANGED irmaVars
  BY <1>1 DEF Authenticate
<1>3. /\ ClientHolds(w, r, a) /\ w \in WaitType /\ w.state = "waiting"
      /\ Asked(w, r) /\ Begun(w) /\ Fetched(w) /\ r.jwt \in Jwt
      /\ wait = [wait EXCEPT ![c] = w] /\ resp = [resp EXCEPT ![c] = a]
  BY <1>1, <1>2, WaitingNow
<1>4. CASE now > r.jwt.exp
  <2>1. PICK e : e = ErrorResponse("ChronologyError", r, now)
    OBVIOUS
  <2>2. Respond(c, e)
    BY <1>1, <1>4, <2>1 DEF Authenticate
  <2>3. Answered(w, e)
    BY <1>2, <1>3, <1>4, <2>1 DEF Answered, Excused, MayRefuse, Asked, ErrorResponse
  <2> QED
    BY <1>1, <1>2, <1>3, <2>2, <2>3, AnsweredHolds
<1>5. CASE ~(now > r.jwt.exp)
  <2>1. PICK con : con = Validated(r.jwt)
    OBVIOUS
  <2>2. con \in SUBSET Attribute
    BY <1>3, <2>1, ValidatedType
  <2>3. PICK q : q = [r EXCEPT !.stage = "authenticated", !.con = con]
    OBVIOUS
  <2>4. /\ q \in RequestType /\ q.stage = "authenticated" /\ q.con = con
        /\ q.kind = r.kind /\ q.jwt = r.jwt /\ q.ts = r.ts /\ q.pub = r.pub
    <3>1. r \in RequestType
      BY <1>3 DEF Asked
    <3> QED
      BY <2>2, <2>3, <3>1 DEF RequestType
  <2>5. Asked(w, q)
    BY <1>3, <2>1, <2>4 DEF Asked
  <2>6. ClientHolds(w, q, a)
    BY <1>3, <2>5 DEF ClientHolds
  <2>7. req' = [req EXCEPT ![c] = q] /\ resp' = resp
    <3>1. /\ req' = [req EXCEPT ![c].stage = "authenticated", ![c].con = con]
          /\ resp' = resp
      BY <1>1, <1>5, <2>1 DEF Authenticate
    <3> QED
      BY <1>1, <2>3, <3>1 DEF IInv, ClientsHold
  <2> QED
    BY <1>2, <1>3, <2>6, <2>7, QuietStep
<1> QED
  BY <1>4, <1>5

LEMMA HandleKeyHolds ==
  ASSUME IInv, NEW c \in Clients, HandleKey(c), UNCHANGED wait
  PROVE  IInv'
<1>1. PICK w, r, a : w = wait[c] /\ r = req[c] /\ a = resp[c]
  OBVIOUS
<1>2. r.stage = "authenticated" /\ r.kind = "key" /\ UNCHANGED irmaVars
  BY <1>1 DEF HandleKey
<1>3. /\ ClientHolds(w, r, a) /\ w \in WaitType /\ w.state = "waiting"
      /\ Asked(w, r) /\ Begun(w) /\ Fetched(w) /\ r.jwt \in Jwt
  BY <1>1, <1>2, WaitingNow
<1>4. r.ts \in 0..MaxTime /\ r.ts \in Nat /\ r.ts # NoValue
  BY <1>2, <1>3, KeyServiceAssumption DEF ClientHolds, WaitHolds, Asked
<1>5. CASE TooLate(r)
  <2>1. PICK e : e = ErrorResponse("ChronologyError", r, now)
    OBVIOUS
  <2>2. Respond(c, e)
    BY <1>1, <1>4, <1>5, <2>1 DEF HandleKey
  <2>3. Answered(w, e)
    BY <1>2, <1>3, <1>5, <2>1 DEF Answered, Excused, MayRefuse, TooLate, Asked, ErrorResponse
  <2> QED
    BY <1>1, <1>2, <1>3, <2>2, <2>3, AnsweredHolds
<1>6. CASE ~TooLate(r)
  <2>1. PICK key : key = Policy(r.con, r.ts)
    OBVIOUS
  <2>2. PICK b : b = OkResponse(r, key, NoKey)
    OBVIOUS
  <2>3. Respond(c, b)
    BY <1>1, <1>4, <1>6, <2>1, <2>2 DEF HandleKey
  <2>4. /\ key \in [con: SUBSET Attribute, ts: Nat]
        /\ key.con = r.con /\ key.ts = r.ts
    BY <1>3, <1>4, <2>1 DEF Policy, Asked, RequestType
  <2>5. b.code = "OK" /\ b.status = r.jwt.status /\ b.proof = r.jwt.proof /\ b.key = key
    BY <2>2 DEF OkResponse
  <2>6. Answered(w, b)
    BY <1>2, <1>3, <2>4, <2>5 DEF Answered, Asked, KeyCon
  <2> QED
    BY <1>1, <1>2, <1>3, <2>3, <2>6, AnsweredHolds
<1> QED
  BY <1>5, <1>6

LEMMA HandleSigningKeyHolds ==
  ASSUME IInv, NEW c \in Clients, HandleSigningKey(c), UNCHANGED wait
  PROVE  IInv'
<1>1. PICK w, r, a : w = wait[c] /\ r = req[c] /\ a = resp[c]
  OBVIOUS
<1>2. r.stage = "authenticated" /\ r.kind = "signing" /\ UNCHANGED irmaVars
  BY <1>1 DEF HandleSigningKey
<1>3. /\ ClientHolds(w, r, a) /\ w \in WaitType /\ w.state = "waiting"
      /\ Asked(w, r) /\ Begun(w) /\ Fetched(w) /\ r.jwt \in Jwt
  BY <1>1, <1>2, WaitingNow
<1>4. PICK b : b = IF r.jwt.status # "DONE"
                     THEN OkResponse(r, NoKey, NoKey)
                     ELSE OkResponse(r, Policy(PublicCon(r), now),
                            IF r.priv = NoKey THEN NoKey ELSE Policy(PrivateCon(r), now))
  OBVIOUS
<1>5. Respond(c, b)
  BY <1>1, <1>4 DEF HandleSigningKey
<1>6. b.code = "OK" /\ b.status = r.jwt.status /\ b.proof = r.jwt.proof
  BY <1>4 DEF OkResponse
<1>7. ASSUME r.jwt.status = "DONE"
      PROVE  b.key \in [con: SUBSET Attribute, ts: Nat] /\ b.key.con = KeyCon(w.wish)
  <2>1. PICK con : con = PublicCon(r)
    OBVIOUS
  <2>2. b.key = Policy(con, now)
    BY <1>4, <1>7, <2>1 DEF OkResponse
  <2>3. con \in SUBSET Attribute /\ con = KeyCon(w.wish)
    BY <1>2, <1>3, <2>1 DEF PublicCon, KeyCon, Asked, RequestType
  <2>4. now \in Nat
    BY IrmaAssumption DEF IInv, IrmaHolds, IrmaTypeOK
  <2> QED
    BY <2>2, <2>3, <2>4 DEF Policy
<1>8. Answered(w, b)
  BY <1>2, <1>3, <1>6, <1>7 DEF Answered, Asked
<1> QED
  BY <1>1, <1>2, <1>3, <1>5, <1>8, AnsweredHolds

-----------------------------------------------------------------------------
(***************************************************************************)
(* The invariant is inductive.                                             *)
(***************************************************************************)
LEMMA InitIInv == Init => IInv
<1> SUFFICES ASSUME Init PROVE IInv
  OBVIOUS
<1>1. IrmaHolds
  BY SessionsInit DEF Init
<1>2. ASSUME NEW c \in Clients PROVE ClientHolds(wait[c], req[c], resp[c])
  <2>1. PICK w, p : /\ w = wait[c] /\ p \in Wishes
                    /\ w = [state |-> "start", wish |-> p, token |-> NoValue, polls |-> MaxPolls]
    BY DEF Init
  <2>2. p \in WishType /\ (p.kind = "key" => p.ts \in 0..MaxTime)
    <3>1. CASE \E ts \in 0..MaxTime, con \in Cons :
                 p = Request("key", [status |-> "NONE"], ts, con, NoKey)
      BY <3>1, PollingAssumption DEF WishType, Request
    <3>2. CASE \E pub \in SignIds, priv \in SignIds \cup {NoKey} :
                 p = Request("signing", [status |-> "NONE"], NoValue, pub, priv)
      BY <3>2, PollingAssumption DEF WishType, Request
    <3> QED
      BY <2>1, <3>1, <3>2 DEF Wishes
  <2>3. w \in WaitType
    BY <2>1, <2>2, PollingAssumption DEF WaitType, States
  <2>4. WaitHolds(w)
    BY <2>1, <2>2, <2>3 DEF WaitHolds
  <2>5. req[c] = Idle
    BY DEF Init, KeyServiceInit
  <2> QED
    BY <2>1, <2>4, <2>5 DEF ClientHolds
<1>3. ClientsHold
  BY <1>2 DEF ClientsHold, Init, KeyServiceInit
<1> QED
  BY <1>1, <1>3 DEF IInv

LEMMA NextIInv == IInv /\ [Next]_vars => IInv'
<1> SUFFICES ASSUME IInv, [Next]_vars PROVE IInv'
  OBVIOUS
<1>1. CASE (Tick \/ IrmaStep) /\ UNCHANGED <<keyVars, wait>>
  BY <1>1, TickHolds, IrmaStepHolds, ClientsStay DEF IInv
<1>2. ASSUME NEW c \in Clients, ClientStep(c) PROVE IInv'
  BY <1>2, RequestStartHolds, RequestJwtHolds, GiveUpHolds, RequestKeyHolds, ReceiveKeyHolds
     DEF ClientStep
<1>3. ASSUME NEW c \in Clients, Serve(c) PROVE IInv'
  BY <1>3, AuthenticateHolds, HandleKeyHolds, HandleSigningKeyHolds DEF Serve
<1>4. ASSUME NEW c \in Clients, HttpError(c) PROVE IInv'
  BY <1>4, HttpErrorHolds
<1>5. CASE UNCHANGED vars
  BY <1>5, IrmaStays, ClientsStay DEF IInv, vars
<1> QED
  BY <1>1, <1>2, <1>3, <1>4, <1>5 DEF Next

LEMMA Invariance == Spec => []IInv
BY InitIInv, NextIInv, PTL DEF Spec

-----------------------------------------------------------------------------
(***************************************************************************)
(* Sessions, requests and waits keep their types, and a wait never polls   *)
(* more than MaxPolls times.                                               *)
(***************************************************************************)
THEOREM TypeCorrect == Spec => []TypeOK
<1>1. IInv => TypeOK
  <2> SUFFICES ASSUME IInv, NEW c \in Clients
               PROVE  /\ req[c] = Idle \/ req[c] \in RequestType
                      /\ wait[c].state \in States /\ wait[c].token \in Tokens \cup {NoValue}
                      /\ wait[c].polls \in 0..MaxPolls
                      /\ wait[c].state \in {"key", "waiting"} => wait[c].polls < MaxPolls
    BY DEF IInv, IrmaHolds, TypeOK
  <2>1. ClientHolds(wait[c], req[c], resp[c])
    BY DEF IInv, ClientsHold
  <2> QED
    BY <2>1 DEF ClientHolds, WaitHolds, WaitType, Asked
<1> QED
  BY <1>1, Invariance, PTL

(***************************************************************************)
(* A wait that ends well gives a key; with a valid proof, one for every    *)
(* attribute the client asked for and for the time in the header.          *)
(***************************************************************************)
THEOREM OkIsKey == Spec => []OkHasKey
<1>1. IInv => OkHasKey
  <2> SUFFICES ASSUME IInv, NEW c \in Clients, wait[c].state = "ok"
               PROVE  LET w == wait[c].wish
                          r == resp[c]
                      IN /\ r.key # NoKey
                         /\ sess[wait[c].token].status = "DONE"
                         /\ r.proof = "VALID" =>
                              /\ {a.t : a \in w.pub} \subseteq {a.t : a \in r.key.con}
                              /\ w.kind = "key" => r.key.ts = w.ts
    BY DEF OkHasKey
  <2>1. PICK w, a, j : w = wait[c] /\ a = resp[c] /\ j = w.wish.jwt
    OBVIOUS
  <2>2. /\ w.state = "ok" /\ w \in WaitType /\ Begun(w) /\ Fetched(w) /\ Answered(w, a)
        /\ a.code = "OK" /\ a.status = "DONE"
    BY <2>1 DEF IInv, ClientsHold, ClientHolds, WaitHolds
  <2>3. /\ j \in Jwt /\ IsPicture(j) /\ j.token = w.token
        /\ j.status = "DONE" /\ a.proof = j.proof
        /\ a.key \in [con: SUBSET Attribute, ts: Nat]
        /\ a.key.con = KeyCon(w.wish) /\ (w.wish.kind = "key" => a.key.ts = w.wish.ts)
    BY <2>1, <2>2 DEF Answered, Fetched
  <2>4. sess[w.token].status = "DONE" /\ j.stype = "disclosing"
    BY <2>2, <2>3 DEF IsPicture, Begun
  <2>5. a.key # NoKey
    BY <2>3, KeyServiceAssumption
  <2>6. ASSUME a.proof = "VALID"
        PROVE  {x.t : x \in w.wish.pub} \subseteq {x.t : x \in a.key.con}
    <3>1. {x.t : x \in Validated(j)} = {x.t : x \in sess[j.token].con}
      BY <2>3, <2>4, <2>6, ValidTypes DEF IInv
    <3>2. w.wish.pub \subseteq sess[j.token].con
      BY <2>2, <2>3 DEF Begun, SessionCon
    <3>3. ASSUME NEW y \in w.wish.pub PROVE \E x \in a.key.con : x.t = y.t
      <4>1. PICK x \in Validated(j) : x.t = y.t
        BY <3>1, <3>2
      <4>2. x \in KeyCon(w.wish)
        BY <2>1, <4>1 DEF KeyCon
      <4> QED
        BY <2>3, <4>1, <4>2
    <3> QED
      BY <3>3
  <2> QED
    BY <2>1, <2>3, <2>4, <2>5, <2>6
<1> QED
  BY <1>1, Invariance, PTL

(***************************************************************************)
(* A wait times out when all its polls are used, and the session was not   *)
(* done at the last of them.                                               *)
(***************************************************************************)
THEOREM TimeoutPending == Spec => []TimeoutIsPending
<1>1. IInv => TimeoutIsPending
  <2> SUFFICES ASSUME IInv, NEW c \in Clients, wait[c].state = "timeout"
               PROVE  wait[c].polls = 0 /\ (MaxPolls > 0 => wait[c].wish.jwt.status # "DONE")
    BY DEF TimeoutIsPending
  <2>1. WaitHolds(wait[c])
    BY DEF IInv, ClientsHold, ClientHolds
  <2> QED
    BY <2>1 DEF WaitHolds
<1> QED
  BY <1>1, Invariance, PTL

(***************************************************************************)
(* If no call fails, a wait fails only for a reason the PKG had when it    *)
(* refused the request.                                                    *)
(***************************************************************************)
THEOREM FailsForCause == Spec => []FailsForAReason
<1>1. IInv => FailsForAReason
  <2> SUFFICES ASSUME IInv, NEW c \in Clients, wait[c].state = "failed", resp[c] # NoResponse
               PROVE  MayRefuse(resp[c].req.stage, wait[c].wish, resp[c].at)
    BY DEF FailsForAReason
  <2>1. Excused(wait[c].wish, resp[c])
    BY DEF IInv, ClientsHold, ClientHolds
  <2> QED
    BY <2>1 DEF Excused
<1> QED
  BY <1>1, Invariance, PTL
=============================================================================
