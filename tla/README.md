# A verification of PostGuard in TLA+

PostGuard is identity-based encryption with authentication by attributes: a
sender seals a message for policies (conjunctions of attributes and a time), a
recipient proves with the Yivi app that they have the attributes and gets a
key from the Private Key Generator (PKG). The repository has four crates:
`pg-core` (sealing and unsealing), `pg-pkg` (the PKG's HTTP service), `pg-cli`
(a command line client) and `pg-wasm` (bindings for JavaScript).

This directory has TLA+ models of the parts with state, the TLC configurations
that check them, and proofs checked by TLAPS. `PROJECT.json` lists the
components, the runs, a table from definitions to source lines, the hazards of
the code, the findings, and for each property a *mutant*.

## The system

| Component | State | Operations | What makes it correct |
|---|---|---|---|
| Stream sealer, `client/rust/stream.rs` | buffer and its tail, segment counter, AEAD position, running signature | `Sealer::new`, `seal` | the cut into segments depends on the message only; `Ok` means that all of it is in the stream; it returns |
| Stream unsealer, same file | buffer and its tail, counter, AEAD position, running verification, policies found | `Unsealer::new`, `unseal` | output is always a prefix of the message; `Ok` means all of it, by the signer named; it returns |
| Stream sealer and unsealer for the web, `client/web/stream.rs` | the same, chunks of a JavaScript stream, and a spill behind the header | the same | the same, and that both implementations read each other's streams |
| In-memory sealer and unsealer, `client/rust/mod.rs`, `client/web/mod.rs` | the header and keys of one message; on the web `seal` is suspended while the browser encrypts, and the caller still has the array | `Sealer::new`, `seal`, `Unsealer::new`, `unseal` | the message that is there when `seal` starts comes out whole or not at all, with its signer; only the key of a recipient's policy opens it; what a sealer wrote does not make an unsealer panic |
| Header, `client/header.rs` | none | `Header::new`, `decaps` | one shared key for all recipients, and for nobody else; a header that was written can be read |
| Policies, `identity.rs` | none | `derive`, `to_hidden` | the same identity for the same conjunction, in any order, and another for any other; the hidden policy hides |
| PKG: keys, `handlers/{start,jwt,key,signing_key}.rs`, `middleware/irma.rs` | none; what a request carries between middleware and handler, and the clock | `start`, `jwt`, `key`, `signing_key` | keys only for what was disclosed, in time, and complete |
| PKG: parameters, `handlers/parameters.rs`, `util.rs` | text, date and tag computed at start | `ParametersData::new`, `parameters` | a client whose copy is confirmed has the parameters of the server's keys |
| PKG: keys on disk, `generate.rs`, `server.rs` | four files, made one after the other and never overwritten | `gen`, the start of `server` | a server that starts has secret keys that belong to its public ones, unless one was taken from under the other |
| PKG: metrics | a counter | `collect_metrics`, `metrics` | counts each request once |
| Client, `pg-cli/src/client.rs`, `encrypt.rs`, `decrypt.rs` | the loop of polls | `enc`, `dec`, `wait_on_*` | every wait ends; what ends well has a key |
| Bindings, `pg-wasm` | none of their own | conversions | - |

How they interact: `enc` starts a session at the PKG (which starts it at the
IRMA server), polls for the session's JWT and with it for signing keys, and
seals a file. The stream goes through storage nobody vouches for. `dec` reads
the header, starts a session for the attributes of a recipient, polls for the
decryption key of the header's time, and unseals.

What is hard in this code, at the lines `PROJECT.json` names under `hazards`:
reads of any size against a buffer that must be cut at exact places; messages
that end at the boundary of a segment; two counters (the signed one and the
AEAD's) that must not part; errors halfway through a stream that cannot be
taken back; streams that were cut, repeated or reordered on the way; JWTs that
are snapshots of a session and live on after it; a clock that advances between
authentication and handling; a client that polls against all of it; a caller
who writes to the array that is being sealed; lengths read from the input that
is split by them; hints cut at a byte that may be inside a character; attributes
in any order, twice, or with a value that is empty and not none; runs of `gen`
that race, fail halfway and are repeated while a server reads their files; and
copies of parameters confirmed by a tag or by a date.

## Modules

    StreamFormat ----> StreamSealer
         |                  |
         +--> StreamUnsealer|
                    |       |
                    StreamTransfer -----> MCStreamTransfer
                       |      |
      MessageDelivery -+      +---------> StreamProofs --> CutProofs
           |                  |                                |
           |  StreamSealer -> WebSealer                        |
           |                  |   |                            |
           |                  WebTransfer ------> MCWebTransfer|
           |                  |   |                            |
           |                  |   +---------> WebProofs <------+
           |  StreamUnsealer -> WebUnsealer
           |
           +--------------------------------------+
                                                  |
    Identity -> Header -> MemorySealer -> MemoryUnsealer
                                                  |
                                          MemoryTransfer --> MCMemoryTransfer
                                                  +--------> MemoryProofs

    IrmaServer --> KeyService --> KeyRequests --> MCKeyRequests
                     |   |             +--------> KeyProofs
                     |   |                          |
                     |   +--> SessionProofs --------+
                     |                              |
                     |                 +--------> PollingProofs
                     +----------> KeyPolling ---> MCKeyPolling

    KeyFiles --> ParameterServer --> MCParameterServer
                       +-----------> ParameterProofs

An operator named `X_Something` stands before `X` and is a mutant of it: `X` as
a plausible mistake would have it. It is used by no module; each property is
checked to fail when its mutant takes the place of `X`.

### StreamFormat

The stream between the two ends: `wire` (bytes written and not yet read), `eof`
(the sealer's end is gone) and `segs` (the segments encrypted so far). A byte
of the message is its position in it. A byte of the stream is a pair of the
segment and its place in the ciphertext; the four parts of the header, each of
which the code reads as a whole, are the bytes of segment 0. What decrypting a
ciphertext yields is looked up in `segs`. Two assumptions are in this: the AEAD
and the signatures are ideal. A ciphertext opens only as a whole, under its
key, at its position and with its last flag, and a signature verifies only what
was signed. Nothing else about cryptography is claimed.

A signature is the record of what the code puts into it: the message from its
start (the `Signer` is never reset), the counter, the last flag, and the policy.

### StreamSealer (`Sealer::seal`, rust/stream.rs:88-186)

| Variable | In the code |
|---|---|
| `start`, `pend` | `start` and `buf[start..buf_tail]` |
| `rd` | the bytes the reader has returned |
| `counter`, `encPos` | `counter`, and the position inside `EncryptorBE32` |
| `signed` | what `signer` has absorbed |
| `seal` | where the call is, or what it returned |
| `len`, `pubPol`, `privPol` | the message and the keys |

`SealHeader` is lines 93-132, `FillSome` an iteration whose read leaves room,
`SealFull` one whose read fills the segment, `SealLimit` the same when
`encrypt_next_in_place` refuses, `SealLast` one whose read returns 0, `SealClose`
flush and close. `Write` may fail after a part of its bytes, `SealIOError` is a
failing reader or close.

The reads are all those the contract of `AsyncRead` allows. The read of an empty
slice returns 0, which happens when the policy leaves no room in the first
segment; the code's order of tests (full first, then 0) matters there.

`CanonicalCut` compares with `ReferenceSegment`, which says without a buffer and
without reads how a message is cut.

### StreamUnsealer (`Unsealer::new` and `unseal`, rust/stream.rs:196-374)

`OpenHeader` and `RejectHeader` are `new`, `StartUnseal` lines 255-274,
`Receive` an iteration whose read leaves room, `OpenFull` one that fills the
buffer, `OpenLast` one whose read returns 0, `UnsealClose` lines 361-373.
`OpenSegment` is what the two branches share: decrypt, take the policy from the
first segment, verify, write. `ucounter` is the counter in the signature and
`decPos` the position inside `DecryptorBE32`.

### StreamTransfer and MessageDelivery

`StreamTransfer` runs both ends at once on one stream, and a stream that may
lose a byte or its tail, change a byte, and lose, repeat or swap whole segments
(`Damage`, at most `MaxFaults` times). `MessageDelivery` is what sealing
promises: the bytes delivered are at any time the first of the message, a good
end has all of them, and the signer named is the one who sealed. `Implements`
is the refinement, with `delivered <- out` and the verdict read off `unseal`.

A changed preamble, header or signature is an error of `new`, but the length in
front of the signature may be changed to a larger one: the signature then still
verifies (bytes behind it are ignored) and the segments start too late
(`HeaderEnds`). `DamageIsNoticed` says that unseal fails then.

### WebSealer, WebUnsealer, WebTransfer (web/stream.rs)

The web's ends extend the Rust ones and share the format, the making and
verifying of segments, the header and the start of `unseal`. What they do
otherwise is in their own actions:

| | In the code |
|---|---|
| `chunk`, `array` | the rest of the chunk being poured into `buf` (a count at the sealer, bytes at the unsealer) |
| `spill` | `config.spill`, what `read_atleast` read behind the header |
| `calls`, `spoilt` | history: calls of `unseal`, and whether one that came to read segments has ended |
| `ReadChunk`, `FillChunk`, `WebSealFull`, `WebSealLast` | lines 143-144, 150-153, 154-184, 189-204 |
| `NextChunk`, `Absorb`, `WebOpenFull`, `WebOpenLast` | lines 359-370, 371-379, 380-421, 425-454 |
| `WebNextCall` | `unseal(&mut self)` called again: locals start anew; stream, spill and verifier do not |

A sink takes an item or fails; a chunk is whole. An error of the stream ends the
loops as the end of the stream does (`WebAtEnd`, `NoMoreChunks`). The counter is
checked after a segment was fed, where the Rust ends' AEAD refuses before.
Errors that are all `Error::JavaScript` are named by their cause. A failure of Web
Crypto itself looks like a failing sink and has no action of its own.

`WebTransfer` pairs ends of either kind (`ends`). `SameCut` says that both sealers cut
a message alike; the refinement of `MessageDelivery` is the one of `StreamTransfer`.

### Identity and Header (identity.rs, header.rs)

Pure operators. A string is a sequence of code points, with the bytes each
takes, since a hint is cut at a byte (`HideFrom`, `Hint`, `HintFails`). A hash is
what goes into it, so `Derived` is the record of the numbers, lengths and strings
that `derive` feeds to its hashes, after `Sorted`, which puts each attribute at the
place that the number of attributes before it gives (`Place`; of equal ones, the
earlier is before). A key for a policy and an
encapsulated key are the identity they are for; decapsulation with another gives
no key or a wrong one, in one of the two ways `Unseal` has an error for it.

### MemorySealer, MemoryUnsealer, MemoryTransfer

A sealed message is a sequence of bytes `<<k, i>>`, byte `i` of part `k`, in the
order of the code: preamble, length, header, length, signature, ciphertext.

| | In the code |
|---|---|
| `Create` | `Sealer::new` and `Header::new`, with the panic of a hint |
| `Seal` | `seal` of Rust, one step, with both limits of 32 bits |
| `Call`, `Encrypts`, `EncryptFails` | `seal` of the web from its first poll up to its first `await`, and from there |
| `CallerWrites` | the caller, between the two |
| `Open`, `SplitHeader`, `SplitAt` | `Unsealer::new` with its two `split_at`, each length the one written or, when its byte was changed, any other |
| `Unseal`, `DecryptFails` | `unseal` with its errors in their order |

`MemoryTransfer` puts a fault between the ends (`Cut`, `Extend`, `Corrupt`) and
pairs any sealer with any unsealer. `js_seal` is exported as an asynchronous function,
so its first poll comes in a microtask after the call in JavaScript has returned. What
is sealed is what the array holds at that poll: that is the message of the model, and
what the caller writes before it is in the choice of the message. Messages of the stream sealer (`kind`) reach
the unsealer too, which must refuse them. The assertion on the sizes at the end of
`unseal` is taken as in debug builds, where it can fail. The refinement of
`MessageDelivery` is the one of the streams: message, signer and verdict are the
same, and the message is delivered at once.

### KeyFiles and ParameterServer (generate.rs, server.rs, util.rs, parameters.rs)

`KeyFiles` has the four files. A run of `gen` creates a file that must not exist
(`OpenFile`) and writes it (`WriteFile`), one file after the other; it may be cut
short anywhere (`Interrupt`), and two may run at once. The operator is no code
and is assumed to do anything: `Remove` takes any files away, `Restore` brings back
the files `BackUp` copied, both at any moment, also while `gen` has a file open, which
is then written in vain (`IsFileOf`), and while a server starts.

`ParameterServer` has the server: `StartServer`, `ReadKey` four times while files
change, `DateParameters`, where the public key's file is looked at again and may be
another or none (`DateOfKey`), and `Fetch`, the handler, answering `304` by tag or by
date. Time is counted in half seconds, since the dates of HTTP are in whole ones. The
clock does not go back.

Nothing in the code makes the two keys of a pair match, and an operator can mix them:
remove `ibe_pub` only and run `gen`, which creates a new public key before it fails on
the secret key that is still there (generate.rs:41-42); the server then starts with the
two. So the properties have provisos, each kept as history of what happened:

| | What is excepted |
|---|---|
| `orphaned` | a public key was taken away while its secret key stayed, or before the run of `gen` that made it created the secret key |
| `lost` | a public key was removed or replaced after this start had read it, and before the start was over |
| `copy.lost` | the same of the start that sent the client its copy: the copy may have the date of another key file |
| `restored` | old files came back, with their dates |
| `made`, `copy.made` | keys written within the same second, which HTTP dates do not tell apart |

Each is needed: without any one of them TLC finds a counterexample.

### IrmaServer, KeyService

`IrmaServer` is external code, modelled from its use: sessions with a status, a
proof, and attributes disclosed, and their results as JWTs, with an expiry.
Sessions of other applications (`ForeignSession`), of either type and valid for as
long as those like, get JWTs signed by the same key, which is why the middleware looks
at the type of the session. A disclosing one gives keys like the PKG's own, but its
validity was not limited by `start`; that is what `KeysAreTimely` leaves to `starter`,
which is history: nothing the PKG sees tells.

`KeyService` has the handlers. A request goes through two steps, because the
clock is read twice: `Authenticate` is the middleware (`Validated` the
attributes it takes from a JWT), `HandleKey` and `HandleSigningKey` the
handlers. `Start` and `RefuseStart` are `start`. A response keeps its request and an
error its time, so that `MayRefuse` can say of any error whether there was a reason
for it at that time; `KeysAreComplete` and `FailsForAReason` rest on it. A key is its policy:
the attributes and the time that are hashed into the identity it is extracted for.

### KeyRequests and KeyPolling

Two clients of the service. In `KeyRequests` a client keeps JWTs and uses them
for any request at any time, as anyone on the web may; in `KeyPolling` it is the
loop of `pg-cli`: `RequestStart`, then `RequestJwt`, `RequestKey`, `ReceiveKey`
up to `MaxPolls` times, `GiveUp` after, `HttpError` whenever a call fails. The
sleep between iterations is not a step: any time may pass between two steps.

## Runs

| Run | Instance | What it shows |
|---|---|---|
| `transfer` | segments of 3 bytes, policies that leave 1 or 0 bytes of the first one or do not fit; lengths 0 to 6, counters to 2; one fault of the stream, errors of reader and writer at both ends, right and wrong recipients and keys (919,080 states) | the cut does not depend on the reads; the counter's limit is exact and its `unwrap` safe; output stays a prefix; `Ok` means complete and names the signers; a fault is always an error; message delivery is implemented; the unsealer returns |
| `ends` | lengths 0 to 6, the four pairings of Rust and web ends, errors of streams and sinks, one call of `unseal` | either sealer cuts alike; message delivery is implemented |
| `web_calls` | lengths 0 to 3, the three pairings with a web end, one lost byte, tail or segment, or one repeated or moved; two calls of `unseal` | output of every call is a prefix; `Ok` is complete; what was sealed is unsealed, also after a refused call; calls return; the limit of the web's counter |
| `key_requests` | one session, of the PKG or foreign, two JWTs of it, four seconds, validities of 0 to more than the maximum, attributes with and without values (2,014,362 states) | keys are for what was disclosed, in time, and complete, the private ones too; refusals have a reason |
| `key_polling` | a session, two polls, errors | how a wait ends, and that it does |
| `memory` | the four pairings; one or two recipients, policies with no attribute, with an empty value and with none, in both orders, with an attribute twice, with a hint cut in a character, and too long for a header together; messages empty, of two bytes, and too long; a fault (611,928 states) | which keys open a message; what a header shows; when the ends panic; a fault is always an error; message delivery is implemented |
| `pkg_server` | two runs of `gen`, one removal of any files, one restore, two seconds, any number of starts (2,277,003 states) | when a server's keys match; what a confirmed copy of the parameters is worth |

Five more runs find violations, described under *Findings*.

The bounds. A segment of three bytes is the smallest that has a first, a middle
and a last byte, so reads can split it everywhere; six bytes make up to three
segments, which is the first where a counter, a position and a policy are used
after they were set, used again and changed; a chunk of the web can span them
all. Policies are longer than what they share a segment with, fill it exactly,
or do not fit. `CounterMax` stands for 2^32-1, and messages go past it. `transfer` has one fault and the theorems any
number; `DamageIsNoticed` is about exactly one, since two can undo each other (a segment
repeated and then lost). With a fault and two calls, `web_calls` has lengths up to
3 and counters to 1, which still makes a full segment, a last one, and a message
too long. Reader errors of the web sealer are left to the run
`web_read_error`, because `Ok` does not mean complete with them.
In the key service nothing depends on two clients or on two sessions: requests
share no state. One session can be a foreign one or the PKG's own, its JWTs can
be of two moments, and four seconds are enough for a JWT to expire before,
between and after the middleware and the handler. Two polls are a first and a
last one.
In memory, a hint hides one byte and a character has one or two, so that a cut
falls on either side of a character and inside it; a header of five units takes one recipient
with three attributes and not two recipients with three between them; the sizes of
signature and ciphertext, two each, have a first byte to keep and a last to
lose. Of `gen`, two runs are what can race, or one follows the removal of what the
other made; a removal and a restore can both fall into one start of the server; half
seconds up to two give two files one date or two. The theorems have no such bounds.

Fairness. The sealer and the unsealer are tasks that an executor polls until
they return, hence weak fairness of their steps. Readers and writers are
assumed to make progress, not to succeed; the receiver is assumed to go on once it
has a header (`ReceiverStarts`, `ReceiverCalls`), not to call again. In
`KeyPolling` the loop and the handlers are fair; the clock, the user, and the network are not. Deadlock is checked in
the runs of streams and of the in-memory mode, where `Done` is the end, and in
`pkg_server`, where the server can always be stopped and started. In the runs of
keys nothing has to happen once clients, clock and sessions are done, and it is
not.

## What is proved

For all values of the constants: any segment size, policies, lengths and counter
range, any number of faults, clients, sessions, attributes, calls, polls, runs of
`gen`, removals and seconds. All theorems are in `PROJECT.json`. They say of every
invariant that a passing run checks, and of its refinements, that it holds beyond that
run's bounds. What they assume are the `ASSUME`s of the modules,
which TLC evaluates in every run, and two hypotheses about the web's streams, named
below. The assumptions are on the types and ranges of constants, but for these: a
tag of the AEAD has a byte at least (it has 16), so that no ciphertext is empty and a
lost one is missed; in memory neither a signature nor a ciphertext is empty; policies
have finitely many recipients; and what stands for "none" is no value.

`StreamProofs`, of `StreamTransfer!Spec`: the type invariant, `OutputIsPrefix`,
`OkIsComplete`, `OkNamesSigner`, `CountersAgree`. None of these is inductive. What
relates the two ends is the transcript each signature covers, and `IInv` says so:
`SegmentsChain`, every signature continues the transcript of the one before and
the last segment's is the whole message; `SealerHolds`, what was signed and what
waits in the buffer are together what was read; `UnsealerHolds`, the unsealer has
written what it verified, which is the transcript of the segment at its position.
Either end relies on the other for one thing, that segments once sealed are kept
(`SegmentsKept`), so that the lemmas about an end serve it in any pairing. The
damage the stream does needs no argument besides types: what opens is looked up by
position, which is the AEAD's promise. The last theorem is `Spec => Implements`:
each step is one of `MessageDelivery` or a stutter, since what a segment adds to the
output is the next piece of the message by `IInv` before the step and after it.

`CutProofs`: `CanonicalCut` and `CounterLimit`, which are about the sealer alone.
`CutInv` adds `ReadingHolds`: while the sealer reads, what it sealed ends where a
full segment of the reference cut ends, and its buffer has what was read since.
The two ways to the last segment, a read of 0 in a buffer with room and a segment
just filled, then lead to the same cut.

`CutProofs` also proves `DamageIsNoticed`. Nothing in the state says what the fault
was, so `DamageInv` has to recognise a damaged stream by the bytes that are left of
it. It can because the cut is canonical: all segments but the last have one length,
so the place a byte was sent to can be read off the byte (`PosOf`), and if `n` bytes
were sent, the bytes in the buffer and in transit are undamaged exactly when each is
in its place and the last one is at `n` (`InPlace`). One fault makes that false
(`WireFault`, with one lemma for each way to do damage). It stays false: what the
sealer appends goes behind its place (`ComingAppends`), and what the unsealer accepts
was in its place and of its length, so that the fault is in the rest
(`OpenFullComing`). At the end there is a rest of one segment, and if that is
accepted as the last one, all bytes were in place after all (`OpenLastComing`). The
exception is a header whose length was made larger, which may swallow bytes that are
in their places and leave nothing; then there is no segment to open (`Exhausted`).
The theorem is about exactly one fault, as two can undo each other.

`WebProofs`, of `WebTransfer!WebSpec`, for Rust and web ends in any pairing:
`WebTypeOK`, `OutputIsPrefix`, `OkIsComplete`, `SameCut` and `Implements`. `WebIInv`
takes each end's part of the invariant by its kind. The web's sealer has the same
transcript between chunk and segment (`WebSealerHolds`), and its cut is the
reference cut until its input ends; the web's unsealer has in `WebUnsealerHolds`
what `UnsealerHolds` says, of each call, but nothing of what the verifier has absorbed,
since it keeps what earlier calls put there: only the segment that is expected has a
signature that it then accepts. Two hypotheses:

- `NoEarlyEnd`, for `OkIsComplete`, `SameCut` and `Implements`: readers do not fail, or
  no sealer is the web's. Without it they are false: a web sealer takes an error for
  the end (see *Findings*). `OutputIsPrefix` holds without it.
- `MaxCalls <= 1`, for `Implements`: another call of `unseal` has a verdict of its own,
  and `MessageDelivery` has one. The other theorems are about any number of calls.

`MemoryProofs`, of `MemoryTransfer!Spec`: all invariants of the run `memory` and
`Implements`. First, of the operators of `Identity`: `Before` is a strict total
order of attributes, by a least-number argument where strings differ; `Sorted` is
in order and has each attribute as often as what was sorted; hence two conjunctions
with the same attributes sort alike (`OrderIsUnique`), and two policies have the same
identity exactly when attributes, counted, and time agree (`IdentityOfPolicy`).
`OkNeedsPolicy` and `RightKeyOpens` rest on it. `HintsHideValue` rests on where a hint
is cut: at the same character for any two values that agree as far as it shows
(`HintsAlike`). The invariant `MemoryInv` says of a sealed message that each byte is
one that was sent, at its place, or overwritten, and of one damaged once that it is
not what was sent and is longer only with the length of its signature intact. So
the unsealer splits an undamaged message where the sealer joined it (`OpenSent`), and of
a damaged one gets a ciphertext that is not the one sealed (`OpenStep`), whatever
lengths an overwritten byte made it read.

`ParameterProofs`: the type invariant, `PairsMatch` and `ParametersFitKeys` of
`ParameterServer!Spec`. `FilesInv` says of each pair of files whose public key was
never orphaned (`PairHolds`) that a secret key, on disk and in the backup, has the
public key of its run beside it, and that a run of `gen` about to create the secret key
still has its public key there. A start reads the public key
first, so what it read stays beside the secret key it reads next, or it is `lost`
(`LoadedHolds`). For the dates (`DatesAgree`): as long as no old files came back, a key
that is read later was written no earlier, every date is the second of its key's file
but for the copies excepted, and so a copy that is as new as the server's key is of that
key or of one of the same second (`Confirmed`).

`SessionProofs` (lemmas), `KeyProofs`: the type invariant, `KeysAreProven`,
`KeysAreTimely` and `KeysAreComplete` of `KeyRequests!Spec`. A JWT is a picture of its
session, and what it says of one that is done stays true (`IsPicture`); a request
has the attributes of its JWT, a response the keys made from them, at a time that is
over, and an error the reason it was given for (`RefusalHolds`). That no private key
has too much or too little is a fact about types of attributes (`PrivateTypes`).

`PollingProofs`: the type invariant, `OkHasKey`, `TimeoutIsPending` and
`FailsForAReason` of `KeyPolling!Spec`. The invariant says for each state of a wait
what is known there: its session (`Begun`), its JWT (`Fetched`), the request it
sent (`Asked`), the response to it (`Answered`), and, of a failure, what excused it
when the PKG refused (`Excused`).

Only model-checked is liveness, out of the prover's reach: `UnsealReturns`,
`SealedIsUnsealed`, `CallsReturn`, `WebSealReturns`, `WaitReturns`, `DoneIsReturned`.
The proofs use no induction over data, which the provers cannot do: `Sorted`,
`BytesOf` and `HeaderLen` are defined by cardinalities, not by recursion, and the
arguments about them cite the library's theorems on finite sets and on least elements.

## Findings

- `transfer_assertion`: `verify_segment` asserts that a segment is longer than its
  signature. The sealer's last segment has no message bytes when the message ends
  at the boundary of a segment, or is empty, which is what TLC shows. A first segment
  that the policy fills has none either; the run leaves such policies out, to show
  that ordinary ones suffice. A build with debug assertions panics; a release build is
  right.
- `web_read_error`: the web sealer takes an error of the stream for its end: it returns
  `Ok` for a part of the message, and unseals as such. The Rust sealer returns the
  error.
- `web_corner`: a policy that fills the first segment exactly (it must be 256 KiB
  less the length field) and an empty message make the web sealer write a last
  segment as long as a full one, which no unsealer takes for the last.
- `keys_wait`: `handlers/key.rs` gives a key to every authenticated request, for
  the empty conjunction when there is no valid proof, and
  `handlers/signing_key.rs` signing keys likewise when the session is done and its
  proof invalid, with which `pg-cli` then signs as nobody. `api.rs` and the README of
  `pg-pkg` say there is none. `KeysAreProven` holds nevertheless.
- `private_identity`: a private identity requested with its value, as the README of
  `pg-wasm` does, is not found among the attributes and left out of the key.

## Not modelled, and the plan

- `artifacts.rs`: encodings of keys, no state. `aesgcm.rs`: calls of the
  browser's cryptography, which is an ideal AEAD here and may reject a promise.
- `pg-wasm`: its functions convert their arguments, and fail before anything
  happens when they cannot; then they are the calls of the in-memory mode and of
  the web's streams.
- Metrics: a counter incremented after a request was answered. No answer depends
  on it.
- `pg-cli`: prompts, progress bars, and the file that is sealed or unsealed; the
  parameters it fetches are those of `ParameterServer`, without validators.
- `pg-pkg`: routes, options, logging, and the connection to the IRMA server.
  `irma_noauth.rs` is for tests, and `IrmaAuthType::Token` is used by no route.
- Header: the choice of algorithm, initialisation vectors, and the hint of a
  stream's size. More than `MAX_CON` attributes do not fit into a `Vec`.

What could follow is a module `PostGuard`: polling, key service and stream together,
from the policy that was sealed for to the message that comes out. The parts share
the policy of a key only, which `OkHasKey` and `OkNeedsPolicy` state at either side.
