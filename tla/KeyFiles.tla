------------------------------ MODULE KeyFiles ------------------------------
(***************************************************************************)
(* The PKG's master keys on disk: its command gen, which makes two key     *)
(* pairs and writes them to four files (pg-pkg/src/generate.rs), run again *)
(* or twice at once, cut short at any place; and the operator, who removes *)
(* any files at any time, and may bring old ones back.                     *)
(*                                                                         *)
(* A key is the number of the run that made it, and a file is told from    *)
(* another at its path by its key, as a run opens each path once.  Time is *)
(* in half seconds.                                                        *)
(***************************************************************************)
EXTENDS Integers, Sequences, FiniteSets

CONSTANTS
  MaxGens,      \* how often gen is run
  MaxRemovals,  \* how often the operator removes files
  MaxTime,      \* when time stops
  NoFile        \* what is at a path where there is no file

ASSUME KeyFilesAssumption ==
  /\ MaxGens \in Nat
  /\ MaxRemovals \in Nat
  /\ MaxTime \in Nat

VARIABLES
  now,        \* the time
  files,      \* the file at each path
  gens,       \* where each run of gen is
  backup,     \* a copy of the files
  removals,   \* how often files were removed
  restored,   \* old files were brought back
  orphaned    \* history: public keys that were taken from under their secret keys

fileVars == <<now, files, gens, backup, removals, restored, orphaned>>

\* The files in the order in which they are written, and in which they are read.
Order_SecretsFirst == <<"ibe_sec", "ibe_pub", "ibs_sec", "ibs_pub">>   \* mutant
Order == <<"ibe_pub", "ibe_sec", "ibs_pub", "ibs_sec">>

Paths == {"ibe_pub", "ibe_sec", "ibs_pub", "ibs_sec"}
Pairs == {<<"ibe_pub", "ibe_sec">>, <<"ibs_pub", "ibs_sec">>}
Publics == {pair[1] : pair \in Pairs}

File == [key: 1..MaxGens, whole: BOOLEAN, mtime: 0..MaxTime]

ASSUME NoFileAssumption == NoFile \notin File

Gen == [at: 1..4, does: {"nothing", "open", "write", "done", "fail"}]

FilesTypeOK ==
  /\ now \in 0..MaxTime
  /\ files \in [Paths -> File \cup {NoFile}]
  /\ gens \in [1..MaxGens -> Gen]
  /\ backup \in [Paths -> File \cup {NoFile}]
  /\ removals \in 0..MaxRemovals
  /\ restored \in BOOLEAN
  /\ orphaned \subseteq Publics

Empty == [p \in Paths |-> NoFile]

FilesInit ==
  /\ now = 0
  /\ files = Empty
  /\ gens = [g \in 1..MaxGens |-> [at |-> 1, does |-> "nothing"]]
  /\ backup = Empty
  /\ removals = 0
  /\ restored = FALSE
  /\ orphaned = {}

-----------------------------------------------------------------------------
AtWork(g) == gens[g].does \in {"open", "write"}

Becomes(g, does) == gens' = [gens EXCEPT ![g].does = does]
Ends(g, does) == gens' = [gens EXCEPT ![g] = [at |-> 1, does |-> does]]

Start(g) ==
  /\ gens[g].does = "nothing"
  /\ \A h \in 1..g - 1 : gens[h].does # "nothing"    \* runs are numbered as they start
  /\ Becomes(g, "open")
  /\ UNCHANGED <<now, files, backup, removals, restored, orphaned>>

MayCreate(path) == files[path] = NoFile

\* write_owned creates the file, which must not exist, ...
OpenFile(g) ==
  LET path == Order[gens[g].at]
  IN /\ gens[g].does = "open"
     /\ IF MayCreate(path)
          THEN /\ files' = [files EXCEPT ![path] = [key |-> g, whole |-> FALSE, mtime |-> now]]
               /\ Becomes(g, "write")
          ELSE Ends(g, "fail") /\ UNCHANGED files
     /\ UNCHANGED <<now, backup, removals, restored, orphaned>>

IsLast_Never(path) == FALSE     \* mutant: there is always a next file
IsLast(path) == path = Order[4]

IsFileOf(path, g) == files[path] # NoFile /\ files[path].key = g

\* ... and writes it, which is in vain when the file was removed; the next one follows.
WriteFile(g) ==
  LET path == Order[gens[g].at]
      file == [key |-> g, whole |-> TRUE, mtime |-> now]
  IN /\ gens[g].does = "write"
     /\ files' = [files EXCEPT ![path] = IF IsFileOf(path, g) THEN file ELSE @]
     /\ IF IsLast(path)
          THEN Ends(g, "done")
          ELSE gens' = [gens EXCEPT ![g] = [at |-> gens[g].at + 1, does |-> "open"]]
     /\ UNCHANGED <<now, backup, removals, restored, orphaned>>

\* A write fails, or gen is killed: what it wrote stays.
Interrupt(g) ==
  /\ AtWork(g)
  /\ Ends(g, "fail")
  /\ UNCHANGED <<now, files, backup, removals, restored, orphaned>>

GenStep == \E g \in 1..MaxGens : Start(g) \/ OpenFile(g) \/ WriteFile(g) \/ Interrupt(g)

-----------------------------------------------------------------------------
(***************************************************************************)
(* A public key is taken from under its secret key when the secret key     *)
(* stays, or the run of gen that made the two has yet to create it.  The   *)
(* next run finds the way free to a new public key, and only then that the *)
(* secret key exists.  Nothing prevents it: it is recorded.                *)
(***************************************************************************)
SecretIsDue(pair) ==
  \E g \in 1..MaxGens :
    /\ IsFileOf(pair[1], g)
    /\ <<Order[gens[g].at], gens[g].does>> \in {<<pair[1], "write">>, <<pair[2], "open">>}

SecretStays(pair, gone) == pair[2] \notin gone /\ files[pair[2]] # NoFile

Orphans(gone) ==
  {p \in gone : \E pair \in Pairs : pair[1] = p /\ (SecretStays(pair, gone) \/ SecretIsDue(pair))}

Remove ==
  /\ removals < MaxRemovals
  /\ \E gone \in SUBSET {p \in Paths : files[p] # NoFile} \ {{}} :
       /\ files' = [p \in Paths |-> IF p \in gone THEN NoFile ELSE files[p]]
       /\ orphaned' = orphaned \cup Orphans(gone)
  /\ removals' = removals + 1
  /\ UNCHANGED <<now, gens, backup, restored>>

\* All files are copied, once they are complete, or brought back, with their dates.
BackUp ==
  /\ backup = Empty
  /\ \A p \in Paths : files[p] # NoFile /\ files[p].whole
  /\ backup' = files
  /\ UNCHANGED <<now, files, gens, removals, restored, orphaned>>

Restore ==
  /\ backup # Empty
  /\ ~restored
  /\ files' = backup
  /\ orphaned' = orphaned \cup Orphans(Paths)
  /\ restored' = TRUE
  /\ UNCHANGED <<now, gens, backup, removals>>

Tick ==
  /\ now < MaxTime
  /\ now' = now + 1
  /\ UNCHANGED <<files, gens, backup, removals, restored, orphaned>>
=============================================================================
