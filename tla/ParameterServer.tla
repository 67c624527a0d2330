-------------------------- MODULE ParameterServer --------------------------
(***************************************************************************)
(* The PKG's server between its key files and its clients: its start, in   *)
(* which it reads the files one after the other (exec in                   *)
(* pg-pkg/src/server.rs, util.rs), and the handler of /v2/parameters       *)
(* (handlers/parameters.rs), whose answers clients keep and validate.      *)
(***************************************************************************)
EXTENDS KeyFiles

CONSTANT NoKey   \* no key was read, or is kept

ASSUME NoKeyAssumption == NoKey \notin 1..MaxGens

VARIABLES
  server,     \* "down", "starting", "up", or how a start ended
  loaded,     \* the key read from each file
  modified,   \* last_modified of the parameters, in seconds
  copy,       \* the client's copy: a public key and the date it came with, and
              \* of the server that sent it (history) made and lost
  validated,  \* the client has had an answer from this run of the server
  made,       \* history: when the public IBE key that was loaded was written
  lost        \* history: public keys that were removed after this start read them

serverVars == <<server, loaded, modified, made, lost>>
clientVars == <<copy, validated>>
vars == <<fileVars, serverVars, clientVars>>

ServerTypeOK ==
  /\ server \in {"down", "starting", "dating", "up", "panic", "Setup", "StdIO"}
  /\ loaded \in [Paths -> 1..MaxGens \cup {NoKey}]
  /\ modified \in 0..MaxTime
  /\ copy.key \in 1..MaxGens \cup {NoKey}
  /\ copy.date \in 0..MaxTime
  /\ copy.made \in 0..MaxTime
  /\ copy.lost \subseteq Publics
  /\ validated \in BOOLEAN
  /\ made \in 0..MaxTime
  /\ lost \subseteq Publics

TypeOK == FilesTypeOK /\ ServerTypeOK

NothingLoaded == [p \in Paths |-> NoKey]

Init ==
  /\ FilesInit
  /\ server = "down"
  /\ loaded = NothingLoaded
  /\ modified = 0
  /\ made = 0
  /\ lost = {}
  /\ copy = [key |-> NoKey, date |-> 0, made |-> 0, lost |-> {}]
  /\ validated = FALSE

-----------------------------------------------------------------------------
Reads == server \in {"starting", "dating"}

StartServer ==
  /\ server \notin {"starting", "dating", "up"}
  /\ server' = "starting"
  /\ loaded' = NothingLoaded
  /\ lost' = {}
  /\ UNCHANGED <<fileVars, modified, made, clientVars>>

\* A missing file: the IBE keys are unwrapped.
MissingError(path) == IF path \in {"ibe_pub", "ibe_sec"} THEN "panic" ELSE "StdIO"

\* The i-th file is to be read next.
NextToRead(i) == loaded[Order[i]] = NoKey /\ \A j \in 1..i - 1 : loaded[Order[j]] # NoKey

ReadFile(path, next) ==
  \/ /\ files[path] = NoFile
     /\ server' = MissingError(path)
     /\ UNCHANGED <<loaded, made>>
  \/ /\ files[path] # NoFile
     /\ ~files[path].whole
     /\ server' = "Setup"
     /\ UNCHANGED <<loaded, made>>
  \/ /\ files[path] # NoFile
     /\ files[path].whole
     /\ loaded' = [loaded EXCEPT ![path] = files[path].key]
     /\ made' = IF path = "ibe_pub" THEN files[path].mtime ELSE made
     /\ server' = next

ReadKey ==
  /\ server = "starting"
  /\ \E i \in 1..4 : NextToRead(i) /\ ReadFile(Order[i], IF i = 4 THEN "dating" ELSE "starting")
  /\ UNCHANGED <<fileVars, modified, lost, clientVars>>

\* An HttpDate counts seconds.
Seconds(t) == t \div 2

\* ParametersData::new dates the parameters by their file, as it is by then.
DateOfKey_Started == now    \* mutant: dated by the start of the server
DateOfKey == IF files["ibe_pub"] = NoFile THEN now ELSE files["ibe_pub"].mtime

DateParameters ==
  /\ server = "dating"
  /\ modified' = Seconds(DateOfKey)
  /\ server' = "up"
  /\ UNCHANGED <<fileVars, loaded, made, lost, clientVars>>

StopServer ==
  /\ server \in {"starting", "dating", "up"}
  /\ server' = "down"
  /\ validated' = FALSE
  /\ UNCHANGED <<fileVars, loaded, modified, made, lost, copy>>

-----------------------------------------------------------------------------
TagMatches == copy.key = loaded["ibe_pub"]

NotModified == modified <= copy.date

(***************************************************************************)
(* A client asks for the parameters, sending any of the validators of its  *)
(* copy; either can have it answered that it was not modified.             *)
(***************************************************************************)
Answer304(validators) ==
  \/ "tag" \in validators /\ TagMatches
  \/ "date" \in validators /\ NotModified

Fetch(validators) ==
  /\ server = "up"
  /\ validators # {} => copy.key # NoKey
  /\ copy' = IF Answer304(validators)
               THEN copy
               ELSE [key |-> loaded["ibe_pub"], date |-> modified,
                     made |-> made, lost |-> lost]
  /\ validated' = TRUE
  /\ UNCHANGED <<fileVars, serverVars>>

-----------------------------------------------------------------------------
\* What a start has read may be removed or replaced before the start is over.
Files ==
  /\ GenStep \/ Remove \/ BackUp \/ Restore \/ Tick
  /\ lost' = IF Reads
               THEN lost \cup {p \in Publics : loaded[p] # NoKey /\ files'[p] # files[p]}
               ELSE lost
  /\ UNCHANGED <<server, loaded, modified, made, clientVars>>

Server == StartServer \/ ReadKey \/ DateParameters \/ StopServer

Client == \E validators \in SUBSET {"tag", "date"} : Fetch(validators)

Next == Files \/ Server \/ Client

Spec == Init /\ [][Next]_vars

-----------------------------------------------------------------------------
(***************************************************************************)
(* A server that is up has the secret keys of its public keys, though      *)
(* nothing checks it: that files are never overwritten, and the order in   *)
(* which they are written and read, leaves no pair made by two runs of     *)
(* gen.  Not so for a public key that was, at any time, taken from under   *)
(* its secret key, or was removed or replaced after this start read it and *)
(* before the start was over: the server may be up with keys that do not   *)
(* match.                                                                  *)
(***************************************************************************)
PairsMatch ==
  server = "up" =>
    \A pair \in Pairs : pair[1] \notin orphaned \cup lost => loaded[pair[1]] = loaded[pair[2]]

(***************************************************************************)
(* The parameters a client has had confirmed, by the tag, by the date or   *)
(* by a new copy, are those the server has; unless old files were brought  *)
(* back, or the two keys were written within a second.  A copy has a date  *)
(* that is not its key's when the key file was removed or replaced after   *)
(* the server had read it and before it was dated: such a copy is excepted *)
(* as well, but not a server that started so.                              *)
(***************************************************************************)
ParametersFitKeys ==
  validated /\ ~restored /\ "ibe_pub" \notin copy.lost =>
    copy.key = loaded["ibe_pub"] \/ Seconds(copy.made) = Seconds(made)
=============================================================================
