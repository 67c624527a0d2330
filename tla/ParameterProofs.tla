-------------------------- MODULE ParameterProofs --------------------------
(***************************************************************************)
(* Proofs that, for any number of runs of gen, of removals and of seconds, *)
(* the keys of a server match, and the parameters its clients have had     *)
(* confirmed are its own, but for the exceptions the properties state.     *)
(***************************************************************************)
EXTENDS ParameterServer, TLAPS

-----------------------------------------------------------------------------
(***************************************************************************)
(* The inductive invariant, first of the files.  As long as nobody takes   *)
(* it away, the public key of a run is there when the run creates its      *)
(* secret key; hence a secret key is never without its public key, neither *)
(* on disk nor in the backup.                                              *)
(***************************************************************************)
GensHold == \A g \in 1..MaxGens : ~AtWork(g) => gens[g].at = 1

HasPublic(fs, pub, sec) == fs[sec] # NoFile => fs[pub] # NoFile /\ fs[pub].key = fs[sec].key

PairHolds(pub, sec) ==
  pub \notin orphaned =>
    /\ \A g \in 1..MaxGens :
         /\ (gens[g].does = "write" /\ Order[gens[g].at] = pub => IsFileOf(pub, g))
         /\ (gens[g].does = "open" /\ Order[gens[g].at] = sec => IsFileOf(pub, g))
    /\ HasPublic(files, pub, sec)
    /\ HasPublic(backup, pub, sec)

FilesInv ==
  /\ FilesTypeOK
  /\ GensHold
  /\ PairHolds("ibe_pub", "ibe_sec")
  /\ PairHolds("ibs_pub", "ibs_sec")

(***************************************************************************)
(* Then of what the server has read: a public key that is not lost is      *)
(* still there when its secret key is read.                                *)
(***************************************************************************)
LoadedStays ==
  Reads => \A p \in Publics \ lost : loaded[p] # NoKey =>
             /\ IsFileOf(p, loaded[p])
             /\ p = "ibe_pub" => files[p].mtime = made

LoadedPair(pub, sec) ==
  loaded[sec] # NoKey =>
    /\ loaded[pub] # NoKey
    /\ pub \notin orphaned \cup lost => loaded[pub] = loaded[sec]

LoadedHolds ==
  /\ LoadedStays
  /\ LoadedPair("ibe_pub", "ibe_sec")
  /\ LoadedPair("ibs_pub", "ibs_sec")
  /\ server \in {"dating", "up"} => \A p \in Paths : loaded[p] # NoKey

(***************************************************************************)
(* And of the dates, as long as no old files are brought back: none is     *)
(* ahead of the next, from the copy's key to the server's, to the one on   *)
(* disk, to the clock.                                                     *)
(***************************************************************************)
HasCopy == copy.key # NoKey
HasLoaded == loaded["ibe_pub"] # NoKey

CopyDated ==
  HasCopy => /\ copy.made <= now
             /\ "ibe_pub" \notin copy.lost => copy.date = Seconds(copy.made)

LoadedDated ==
  HasLoaded => /\ made <= now
               /\ HasCopy => copy.made <= made

FileDated ==
  files["ibe_pub"] # NoFile =>
    /\ files["ibe_pub"].mtime <= now
    /\ HasCopy => copy.made <= files["ibe_pub"].mtime
    /\ HasLoaded => made <= files["ibe_pub"].mtime

ServerDated ==
  server = "up" => /\ Seconds(made) <= modified
                   /\ "ibe_pub" \notin lost => modified = Seconds(made)

Confirmed ==
  validated => \/ "ibe_pub" \in copy.lost
               \/ copy.key = loaded["ibe_pub"]
               \/ Seconds(copy.made) = Seconds(made)

DatesAgree == ~restored => CopyDated /\ LoadedDated /\ FileDated /\ ServerDated /\ Confirmed

Validated == validated => server = "up"

ServerInv == ServerTypeOK /\ LoadedHolds /\ Validated /\ DatesAgree

IInv == FilesInv /\ ServerInv

-----------------------------------------------------------------------------
(***************************************************************************)
(* The order of the files and the count of seconds, as the steps use them. *)
(***************************************************************************)
LEMMA OrderFacts ==
  /\ Order[1] = "ibe_pub" /\ Order[2] = "ibe_sec" /\ Order[3] = "ibs_pub" /\ Order[4] = "ibs_sec"
  /\ \A i \in 1..4 : Order[i] \in Paths
  /\ \A i, j \in 1..4 : Order[i] = Order[j] => i = j
  /\ \A p \in Paths : \E i \in 1..4 : p = Order[i]
<1>1. Order[1] = "ibe_pub" /\ Order[2] = "ibe_sec" /\ Order[3] = "ibs_pub" /\ Order[4] = "ibs_sec"
  BY DEF Order
<1>2. \A i \in 1..4 : i = 1 \/ i = 2 \/ i = 3 \/ i = 4
  OBVIOUS
<1>3. \A i \in 1..4 : Order[i] \in Paths
  BY <1>1, <1>2 DEF Paths
<1>4. \A i, j \in 1..4 : Order[i] = Order[j] => i = j
  BY <1>1, <1>2
<1>5. \A p \in Paths : \E i \in 1..4 : p = Order[i]
  BY <1>1 DEF Paths
<1> QED
  BY <1>1, <1>3, <1>4, <1>5

LEMMA PairFacts ==
  /\ Pairs = {<<"ibe_pub", "ibe_sec">>, <<"ibs_pub", "ibs_sec">>}
  /\ Publics = {"ibe_pub", "ibs_pub"} /\ Publics \subseteq Paths
BY DEF Pairs, Publics, Paths

LEMMA SecondsFacts ==
  /\ \A t \in Nat : Seconds(t) \in Nat /\ Seconds(t) <= t
  /\ \A t, u \in Nat : t <= u => Seconds(t) <= Seconds(u)
BY DEF Seconds

-----------------------------------------------------------------------------
(***************************************************************************)
(* A step of gen, of the operator or of the clock keeps the invariant of   *)
(* the files.  All that the server relies on besides is FileStep: an       *)
(* orphan stays one, and, but for old files that are brought back, a new   *)
(* date is that of the moment.                                             *)
(***************************************************************************)
FileStep ==
  /\ now <= now'
  /\ orphaned \subseteq orphaned'
  /\ restored => restored'
  /\ ~restored' => \/ files'["ibe_pub"] \in {files["ibe_pub"], NoFile}
                   \/ files'["ibe_pub"].mtime = now' 

LEMMA FileTypes ==
  ASSUME FilesTypeOK
  PROVE  /\ now \in Nat /\ now <= MaxTime /\ MaxTime \in Nat /\ MaxGens \in Nat
         /\ files \in [Paths -> File \cup {NoFile}] /\ backup \in [Paths -> File \cup {NoFile}]
         /\ gens \in [1..MaxGens -> Gen]
         /\ \A g \in 1..MaxGens : gens[g] \in Gen /\ gens[g].at \in 1..4 /\ Order[gens[g].at] \in Paths
BY KeyFilesAssumption, OrderFacts DEF FilesTypeOK, Gen

LEMMA StartHolds ==
  ASSUME FilesInv, NEW g \in 1..MaxGens, Start(g)
  PROVE  FilesInv' /\ FileStep
<1> USE DEF FilesInv
<1>1. UNCHANGED <<now, files, backup, removals, restored, orphaned>> /\ gens[g].at = 1
  BY DEF Start, GensHold, AtWork
<1>2. gens' = [gens EXCEPT ![g].does = "open"] /\ gens \in [1..MaxGens -> Gen]
  BY FileTypes DEF Start, Becomes
<1>3. gens' \in [1..MaxGens -> Gen]
  BY <1>2 DEF Gen
<1>4. FilesTypeOK'
  BY <1>1, <1>3, Zenon DEF FilesTypeOK
<1>5. /\ gens'[g].does = "open" /\ gens'[g].at = 1
      /\ \A h \in 1..MaxGens : h # g => gens'[h] = gens[h]
  BY <1>1, <1>2 DEF Gen
<1>6. GensHold'
  BY <1>5 DEF GensHold, AtWork
<1>7. PairHolds("ibe_pub", "ibe_sec")' /\ PairHolds("ibs_pub", "ibs_sec")'
  BY <1>1, <1>5, OrderFacts DEF PairHolds, HasPublic, IsFileOf
<1>8. FileStep
  BY <1>1, FileTypes DEF FileStep
<1> QED
  BY <1>4, <1>6, <1>7, <1>8

LEMMA InterruptHolds ==
  ASSUME FilesInv, NEW g \in 1..MaxGens, Interrupt(g)
  PROVE  FilesInv' /\ FileStep
<1> USE DEF FilesInv
<1>1. /\ UNCHANGED <<now, files, backup, removals, restored, orphaned>>
      /\ gens' = [gens EXCEPT ![g] = [at |-> 1, does |-> "fail"]]
      /\ gens \in [1..MaxGens -> Gen]
  BY FileTypes DEF Interrupt, Ends
<1>2. gens' \in [1..MaxGens -> Gen]
  BY <1>1 DEF Gen
<1>3. FilesTypeOK'
  BY <1>1, <1>2, Zenon DEF FilesTypeOK
<1>4. /\ gens'[g].does = "fail" /\ gens'[g].at = 1
      /\ \A h \in 1..MaxGens : h # g => gens'[h] = gens[h]
  BY <1>1
<1>5. GensHold'
  BY <1>4 DEF GensHold, AtWork
<1>6. PairHolds("ibe_pub", "ibe_sec")' /\ PairHolds("ibs_pub", "ibs_sec")'
  BY <1>1, <1>4 DEF PairHolds, HasPublic, IsFileOf
<1>7. FileStep
  BY <1>1, FileTypes DEF FileStep
<1> QED
  BY <1>3, <1>5, <1>6, <1>7

LEMMA OpenFileHolds ==
  ASSUME FilesInv, NEW g \in 1..MaxGens, OpenFile(g)
  PROVE  FilesInv' /\ FileStep
<1> DEFINE path == Order[gens[g].at]
           file == [key |-> g, whole |-> FALSE, mtime |-> now]
<1> USE DEF FilesInv
<1>1. UNCHANGED <<now, backup, removals, restored, orphaned>> /\ gens[g].does = "open"
  BY DEF OpenFile
<1>2. /\ gens \in [1..MaxGens -> Gen] /\ gens[g].at \in 1..4 /\ path \in Paths
      /\ files \in [Paths -> File \cup {NoFile}] /\ now \in 0..MaxTime
      /\ file \in File /\ file # NoFile
  <2>1. now \in 0..MaxTime
    BY DEF FilesTypeOK
  <2>2. file \in File
    BY <2>1 DEF File
  <2>3. file # NoFile
    BY <2>2, NoFileAssumption, Zenon
  <2> QED
    BY <2>1, <2>2, <2>3, FileTypes
<1>3. CASE files[path] # NoFile
  <2>1. gens' = [gens EXCEPT ![g] = [at |-> 1, does |-> "fail"]] /\ UNCHANGED files
    BY <1>3 DEF OpenFile, MayCreate, Ends
  <2>2. gens' \in [1..MaxGens -> Gen]
    BY <1>2, <2>1 DEF Gen
  <2>3. FilesTypeOK'
    BY <1>1, <2>1, <2>2, Zenon DEF FilesTypeOK
  <2>4. /\ gens'[g].does = "fail" /\ gens'[g].at = 1
        /\ \A h \in 1..MaxGens : h # g => gens'[h] = gens[h]
    BY <1>2, <2>1
  <2>5. GensHold'
    BY <2>4 DEF GensHold, AtWork
  <2>6. PairHolds("ibe_pub", "ibe_sec")' /\ PairHolds("ibs_pub", "ibs_sec")'
    BY <1>1, <2>1, <2>4 DEF PairHolds, HasPublic, IsFileOf
  <2>7. FileStep
    BY <1>1, <2>1, FileTypes DEF FileStep
  <2> QED
    BY <2>3, <2>5, <2>6, <2>7
<1>4. CASE files[path] = NoFile
  <2>1. /\ gens' = [gens EXCEPT ![g].does = "write"]
        /\ files' = [files EXCEPT ![path] = file]
    BY <1>4 DEF OpenFile, MayCreate, Becomes
  <2>2. gens' \in [1..MaxGens -> Gen]
    BY <1>2, <2>1 DEF Gen
  <2>3. files' \in [Paths -> File \cup {NoFile}]
    BY <1>2, <2>1
  <2>4. FilesTypeOK'
    BY <1>1, <2>2, <2>3, Zenon DEF FilesTypeOK
  <2>5. /\ gens'[g].does = "write" /\ gens'[g].at = gens[g].at
        /\ \A h \in 1..MaxGens : h # g => gens'[h] = gens[h]
    BY <1>2, <2>1 DEF Gen
  <2>6. /\ files'[path] = file /\ file.key = g /\ file.mtime = now
        /\ \A p \in Paths : p # path => files'[p] = files[p]
    BY <1>2, <2>1
  <2> HIDE DEF file
  <2>7. GensHold'
    BY <2>5 DEF GensHold, AtWork
  <2>8. ASSUME NEW pub \in Paths, NEW sec \in Paths, pub # sec, PairHolds(pub, sec)
        PROVE  PairHolds(pub, sec)'
    <3> SUFFICES ASSUME pub \notin orphaned PROVE PairHolds(pub, sec)'
      BY <1>1 DEF PairHolds
    <3>1. CASE path = pub
      <4>1. files[sec] = NoFile /\ files'[sec] = NoFile
        BY <1>4, <2>6, <2>8, <3>1 DEF PairHolds, HasPublic
      <4>2. IsFileOf(pub, g)'
        BY <1>2, <2>6, <3>1 DEF IsFileOf
      <4>3. \A h \in 1..MaxGens : h # g =>
              /\ ~(gens'[h].does = "write" /\ Order[gens'[h].at] = pub)
              /\ ~(gens'[h].does = "open" /\ Order[gens'[h].at] = sec)
        BY <1>4, <2>5, <2>8, <3>1 DEF PairHolds, IsFileOf
      <4> QED
        BY <1>1, <2>8, <4>1, <4>2, <4>3 DEF PairHolds, HasPublic
    <3>2. CASE path # pub
      <4>1. files'[pub] = files[pub]
        BY <2>6, <3>2
      <4>2. path = sec => IsFileOf(pub, g)
        BY <1>1, <2>8 DEF PairHolds
      <4>3. HasPublic(files', pub, sec)
        BY <2>6, <2>8, <3>2, <4>1, <4>2 DEF PairHolds, HasPublic, IsFileOf
      <4>4. gens'[g].does = "write" /\ Order[gens'[g].at] # pub
        BY <2>5, <3>2
      <4> QED
        BY <1>1, <2>5, <2>8, <4>1, <4>3, <4>4 DEF PairHolds, HasPublic, IsFileOf
    <3> QED
      BY <3>1, <3>2
  <2>9. PairHolds("ibe_pub", "ibe_sec")' /\ PairHolds("ibs_pub", "ibs_sec")'
    BY <2>8 DEF Paths
  <2>10. FileStep
    BY <1>1, <1>2, <2>6, FileTypes DEF FileStep, Paths
  <2> QED
    BY <2>4, <2>7, <2>9, <2>10
<1> QED
  BY <1>3, <1>4

\* Writing changes no key.
LEMMA WriteFileHolds ==
  ASSUME FilesInv, NEW g \in 1..MaxGens, WriteFile(g)
  PROVE  FilesInv' /\ FileStep
<1> DEFINE path == Order[gens[g].at]
           file == [key |-> g, whole |-> TRUE, mtime |-> now]
<1> USE DEF FilesInv
<1>1. /\ UNCHANGED <<now, backup, removals, restored, orphaned>> /\ gens[g].does = "write"
      /\ files' = [files EXCEPT ![path] = IF IsFileOf(path, g) THEN file ELSE files[path]]
  BY DEF WriteFile
<1>2. /\ gens \in [1..MaxGens -> Gen] /\ gens[g].at \in 1..4 /\ path \in Paths
      /\ files \in [Paths -> File \cup {NoFile}] /\ now \in 0..MaxTime
      /\ file \in File /\ file # NoFile /\ file.key = g /\ file.mtime = now
  <2>1. now \in 0..MaxTime
    BY DEF FilesTypeOK
  <2>2. file \in File
    BY <2>1 DEF File
  <2>3. file # NoFile
    BY <2>2, NoFileAssumption, Zenon
  <2> QED
    BY <2>1, <2>2, <2>3, FileTypes
<1>3. IF IsLast(path)
        THEN gens' = [gens EXCEPT ![g] = [at |-> 1, does |-> "done"]]
        ELSE gens' = [gens EXCEPT ![g] = [at |-> gens[g].at + 1, does |-> "open"]]
  BY DEF WriteFile, Ends
<1>4. ~IsLast(path) => gens[g].at + 1 \in 1..4
  BY <1>2, OrderFacts DEF IsLast
<1>5. gens' \in [1..MaxGens -> Gen]
  <2>1. CASE IsLast(path)
    BY <2>1, <1>2, <1>3 DEF Gen
  <2>2. CASE ~IsLast(path)
    <3>1. [at |-> gens[g].at + 1, does |-> "open"] \in Gen
      BY <2>2, <1>4 DEF Gen
    <3> QED
      BY <3>1, <2>2, <1>2, <1>3
  <2> QED
    BY <2>1, <2>2
<1>6. files' \in [Paths -> File \cup {NoFile}]
  BY <1>1, <1>2
<1>7. FilesTypeOK'
  BY <1>1, <1>5, <1>6, Zenon DEF FilesTypeOK
<1>8. /\ \A h \in 1..MaxGens : h # g => gens'[h] = gens[h]
      /\ IsLast(path) => gens'[g] = [at |-> 1, does |-> "done"]
      /\ ~IsLast(path) => gens'[g] = [at |-> gens[g].at + 1, does |-> "open"]
  BY <1>2, <1>3
<1>9. GensHold'
  BY <1>8 DEF GensHold, AtWork
<1> HIDE DEF file
<1>10. \A p \in Paths : files'[p] = IF p = path /\ IsFileOf(p, g) THEN file ELSE files[p]
  BY <1>1, <1>2
<1>11. \A p \in Paths : /\ files'[p] = NoFile <=> files[p] = NoFile
                        /\ files[p] # NoFile => files'[p].key = files[p].key
  BY <1>2, <1>10 DEF IsFileOf
<1>12. \A p \in Paths, h \in 1..MaxGens : IsFileOf(p, h)' <=> IsFileOf(p, h)
  BY <1>11 DEF IsFileOf
<1>13. ASSUME NEW pub \in Paths, NEW sec \in Paths, PairHolds(pub, sec),
              gens'[g].does = "open" /\ Order[gens'[g].at] = sec => path = pub
       PROVE  PairHolds(pub, sec)'
  <2> SUFFICES ASSUME pub \notin orphaned PROVE PairHolds(pub, sec)'
    BY <1>1 DEF PairHolds
  <2>1. HasPublic(files', pub, sec) /\ HasPublic(backup', pub, sec)
    BY <1>1, <1>11, <1>13 DEF PairHolds, HasPublic
  <2>2. gens'[g].does # "write"
    BY <1>8
  <2>3. path = pub => IsFileOf(pub, g)'
    BY <1>1, <1>12, <1>13 DEF PairHolds
  <2>4. \A h \in 1..MaxGens :
          /\ (gens'[h].does = "write" /\ Order[gens'[h].at] = pub => IsFileOf(pub, h)')
          /\ (gens'[h].does = "open" /\ Order[gens'[h].at] = sec => IsFileOf(pub, h)')
    BY <1>8, <1>12, <1>13, <2>2, <2>3 DEF PairHolds
  <2> QED
    BY <2>1, <2>4 DEF PairHolds
<1>14. gens'[g].does = "open" =>
         /\ (Order[gens'[g].at] = "ibe_sec" => path = "ibe_pub")
         /\ (Order[gens'[g].at] = "ibs_sec" => path = "ibs_pub")
  <2>1. gens'[g].does = "open" => gens'[g].at = gens[g].at + 1 /\ gens'[g].at \in 1..4
    BY <1>4, <1>8
  <2> QED
    BY <1>2, <2>1, OrderFacts
<1>15. PairHolds("ibe_pub", "ibe_sec")' /\ PairHolds("ibs_pub", "ibs_sec")'
  BY <1>13, <1>14 DEF Paths
<1>16. FileStep
  BY <1>1, <1>2, <1>10, FileTypes DEF FileStep, Paths
<1> QED
  BY <1>7, <1>9, <1>15, <1>16

(***************************************************************************)
(* Where no orphan is made, the secret key goes with its public key and no *)
(* run of gen has still to create it.                                      *)
(***************************************************************************)
LEMMA NotOrphaned ==
  ASSUME NEW pub \in Paths, NEW sec \in Paths, <<pub, sec>> \in Pairs, NEW gone \in SUBSET Paths,
         PairHolds(pub, sec), pub \notin orphaned, pub \in gone, pub \notin Orphans(gone)
  PROVE  /\ sec \in gone \/ files[sec] = NoFile
         /\ \A g \in 1..MaxGens :
              /\ ~(gens[g].does = "write" /\ Order[gens[g].at] = pub)
              /\ ~(gens[g].does = "open" /\ Order[gens[g].at] = sec)
<1>1. ~SecretStays(<<pub, sec>>, gone) /\ ~SecretIsDue(<<pub, sec>>)
  BY DEF Orphans
<1>2. sec \in gone \/ files[sec] = NoFile
  BY <1>1 DEF SecretStays
<1>3. ASSUME NEW g \in 1..MaxGens,
             (gens[g].does = "write" /\ Order[gens[g].at] = pub)
               \/ (gens[g].does = "open" /\ Order[gens[g].at] = sec)
      PROVE  FALSE
  <2>1. IsFileOf(pub, g)
    BY <1>3 DEF PairHolds
  <2>2. <<Order[gens[g].at], gens[g].does>> \in {<<pub, "write">>, <<sec, "open">>}
    BY <1>3
  <2> QED
    BY <1>1, <2>1, <2>2 DEF SecretIsDue
<1> QED
  BY <1>2, <1>3

LEMMA RemoveHolds ==
  ASSUME FilesInv, Remove
  PROVE  FilesInv' /\ FileStep
<1> USE DEF FilesInv
<1>1. removals < MaxRemovals /\ removals' = removals + 1 /\ UNCHANGED <<now, gens, backup, restored>>
  BY DEF Remove
<1>2. PICK gone \in SUBSET Paths :
        /\ files' = [p \in Paths |-> IF p \in gone THEN NoFile ELSE files[p]]
        /\ orphaned' = orphaned \cup Orphans(gone)
  BY DEF Remove
<1>3. /\ files \in [Paths -> File \cup {NoFile}] /\ removals \in 0..MaxRemovals
      /\ orphaned \subseteq Publics
  BY DEF FilesTypeOK
<1>4. removals' \in 0..MaxRemovals
  BY <1>1, <1>3, KeyFilesAssumption
<1>5. files' \in [Paths -> File \cup {NoFile}]
  BY <1>2, <1>3
<1>6. orphaned' \subseteq Publics
  BY <1>2, <1>3 DEF Orphans, Publics
<1>7. FilesTypeOK'
  BY <1>1, <1>4, <1>5, <1>6, Zenon DEF FilesTypeOK
<1>8. GensHold'
  BY <1>1 DEF GensHold, AtWork
<1>9. \A p \in Paths : files'[p] = IF p \in gone THEN NoFile ELSE files[p]
  BY <1>2
<1>10. ASSUME NEW pub \in Paths, NEW sec \in Paths, <<pub, sec>> \in Pairs, PairHolds(pub, sec)
       PROVE  PairHolds(pub, sec)'
  <2> SUFFICES ASSUME pub \notin orphaned' PROVE PairHolds(pub, sec)'
    BY DEF PairHolds
  <2>1. pub \notin orphaned /\ pub \notin Orphans(gone)
    BY <1>2
  <2>2. CASE pub \in gone
    <3>1. /\ sec \in gone \/ files[sec] = NoFile
          /\ \A g \in 1..MaxGens :
               /\ ~(gens[g].does = "write" /\ Order[gens[g].at] = pub)
               /\ ~(gens[g].does = "open" /\ Order[gens[g].at] = sec)
      BY <1>10, <2>1, <2>2, NotOrphaned
    <3> QED
      BY <1>1, <1>9, <1>10, <2>1, <3>1 DEF PairHolds, HasPublic
  <2>3. CASE pub \notin gone
    BY <1>1, <1>9, <1>10, <2>1, <2>3 DEF PairHolds, HasPublic, IsFileOf
  <2> QED
    BY <2>2, <2>3
<1>11. PairHolds("ibe_pub", "ibe_sec")' /\ PairHolds("ibs_pub", "ibs_sec")'
  BY <1>10, PairFacts DEF Paths
<1>12. FileStep
  BY <1>1, <1>2, <1>9, FileTypes DEF FileStep, Paths
<1> QED
  BY <1>7, <1>8, <1>11, <1>12

LEMMA BackUpHolds ==
  ASSUME FilesInv, BackUp
  PROVE  FilesInv' /\ FileStep
<1> USE DEF FilesInv
<1>1. UNCHANGED <<now, files, gens, removals, restored, orphaned>> /\ backup' = files
  BY DEF BackUp
<1>2. FilesTypeOK'
  BY <1>1, Zenon DEF FilesTypeOK
<1>3. PairHolds("ibe_pub", "ibe_sec")' /\ PairHolds("ibs_pub", "ibs_sec")'
  BY <1>1 DEF PairHolds, HasPublic, IsFileOf
<1>4. GensHold'
  BY <1>1 DEF GensHold, AtWork
<1>5. FileStep
  BY <1>1, FileTypes DEF FileStep
<1> QED
  BY <1>2, <1>3, <1>4, <1>5

LEMMA RestoreHolds ==
  ASSUME FilesInv, Restore
  PROVE  FilesInv' /\ FileStep
<1> USE DEF FilesInv
<1>1. /\ UNCHANGED <<now, gens, backup, removals>> /\ files' = backup
      /\ orphaned' = orphaned \cup Orphans(Paths)
  BY DEF Restore
<1>2. restored' = TRUE /\ restored' \in BOOLEAN
  BY Zenon DEF Restore
<1>3. orphaned' \subseteq Publics
  BY <1>1 DEF Orphans, Publics, FilesTypeOK
<1>4. FilesTypeOK'
  BY <1>1, <1>2, <1>3, Zenon DEF FilesTypeOK
<1>5. GensHold'
  BY <1>1 DEF GensHold, AtWork
<1>6. ASSUME NEW pub \in Paths, NEW sec \in Paths, <<pub, sec>> \in Pairs, PairHolds(pub, sec)
      PROVE  PairHolds(pub, sec)'
  <2> SUFFICES ASSUME pub \notin orphaned' PROVE PairHolds(pub, sec)'
    BY DEF PairHolds
  <2>1. pub \notin orphaned /\ pub \notin Orphans(Paths)
    BY <1>1
  <2>2. \A g \in 1..MaxGens :
          /\ ~(gens[g].does = "write" /\ Order[gens[g].at] = pub)
          /\ ~(gens[g].does = "open" /\ Order[gens[g].at] = sec)
    BY <1>6, <2>1, NotOrphaned
  <2> QED
    BY <1>1, <1>6, <2>1, <2>2 DEF PairHolds, HasPublic
<1>7. PairHolds("ibe_pub", "ibe_sec")' /\ PairHolds("ibs_pub", "ibs_sec")'
  BY <1>6, PairFacts DEF Paths
<1>8. FileStep
  BY <1>1, <1>2, FileTypes DEF FileStep
<1> QED
  BY <1>4, <1>5, <1>7, <1>8

LEMMA TickHolds ==
  ASSUME FilesInv, Tick
  PROVE  FilesInv' /\ FileStep
<1> USE DEF FilesInv
<1>1. /\ UNCHANGED <<files, gens, backup, removals, restored, orphaned>>
      /\ now < MaxTime /\ now' = now + 1
  BY DEF Tick
<1>2. now \in Nat /\ now' \in 0..MaxTime /\ now <= now'
  BY <1>1, FileTypes
<1>3. FilesTypeOK'
  BY <1>1, <1>2, Zenon DEF FilesTypeOK
<1>4. GensHold' /\ PairHolds("ibe_pub", "ibe_sec")' /\ PairHolds("ibs_pub", "ibs_sec")'
  BY <1>1 DEF GensHold, AtWork, PairHolds, HasPublic, IsFileOf
<1>5. FileStep
  BY <1>1, <1>2 DEF FileStep
<1> QED
  BY <1>3, <1>4, <1>5

LEMMA FilesHold ==
  ASSUME FilesInv, GenStep \/ Remove \/ BackUp \/ Restore \/ Tick
  PROVE  FilesInv' /\ FileStep
<1>1. CASE GenStep
  BY <1>1, StartHolds, OpenFileHolds, WriteFileHolds, InterruptHolds DEF GenStep
<1>2. CASE Remove \/ BackUp \/ Restore \/ Tick
  BY <1>2, RemoveHolds, BackUpHolds, RestoreHolds, TickHolds
<1> QED
  BY <1>1, <1>2

-----------------------------------------------------------------------------
(***************************************************************************)
(* The server and its clients, under such a step: what changes of the      *)
(* public keys it has read, while it reads, is lost by definition.         *)
(***************************************************************************)
LEMMA ServerTypes ==
  ASSUME FilesTypeOK, ServerTypeOK
  PROVE  /\ now \in Nat /\ made \in Nat /\ modified \in Nat /\ MaxTime \in Nat
         /\ copy.made \in Nat /\ copy.date \in Nat
         /\ loaded \in [Paths -> 1..MaxGens \cup {NoKey}]
         /\ files \in [Paths -> File \cup {NoFile}]
         /\ files["ibe_pub"] # NoFile => files["ibe_pub"].mtime \in Nat
BY KeyFilesAssumption DEF FilesTypeOK, ServerTypeOK, File, Paths

LEMMA FilesKeepServer ==
  ASSUME IInv, Files
  PROVE  IInv'
<1> USE DEF IInv, ServerInv
<1>1. FilesInv' /\ FileStep
  BY FilesHold DEF Files
<1>2. /\ UNCHANGED <<server, loaded, modified, made, copy, validated>>
      /\ lost' = IF Reads THEN lost \cup {p \in Publics : loaded[p] # NoKey /\ files'[p] # files[p]}
                          ELSE lost
  BY DEF Files, clientVars
<1>3. lost \subseteq Publics /\ lost \subseteq lost' /\ lost' \subseteq Publics
  BY <1>2 DEF ServerTypeOK
<1>4. ServerTypeOK'
  BY <1>2, <1>3, Zenon DEF ServerTypeOK
<1>5. LoadedStays'
  <2> SUFFICES ASSUME Reads, NEW p \in Publics \ lost', loaded[p] # NoKey
               PROVE  IsFileOf(p, loaded[p])' /\ (p = "ibe_pub" => files'[p].mtime = made)
    BY <1>2 DEF LoadedStays, Reads
  <2>1. p \notin lost /\ files'[p] = files[p]
    BY <1>2
  <2> QED
    BY <2>1, <1>2 DEF LoadedHolds, LoadedStays, IsFileOf
<1>6. LoadedHolds'
  BY <1>1, <1>2, <1>3, <1>5 DEF LoadedHolds, LoadedPair, FileStep
<1>7. DatesAgree'
  <2> SUFFICES ASSUME ~restored' PROVE DatesAgree'
    BY DEF DatesAgree
  <2>1. /\ ~restored /\ now <= now' /\ now' \in Nat
        /\ files'["ibe_pub"] \in {files["ibe_pub"], NoFile} \/ files'["ibe_pub"].mtime = now'
    BY <1>1 DEF FileStep, FilesInv, FilesTypeOK
  <2>2. /\ now \in Nat /\ made \in Nat /\ copy.made \in Nat
        /\ files["ibe_pub"] # NoFile => files["ibe_pub"].mtime \in Nat
    BY ServerTypes DEF FilesInv
  <2>3. CopyDated' /\ LoadedDated'
    BY <1>2, <2>1, <2>2 DEF DatesAgree, CopyDated, LoadedDated, HasCopy, HasLoaded, Seconds
  <2>4. FileDated'
    <3> SUFFICES ASSUME files'["ibe_pub"] # NoFile PROVE FileDated'
      BY DEF FileDated
    <3>1. CASE files'["ibe_pub"] = files["ibe_pub"]
      BY <1>2, <2>1, <2>2, <3>1 DEF DatesAgree, FileDated, HasCopy, HasLoaded
    <3>2. CASE files'["ibe_pub"].mtime = now'
      BY <2>1, <2>3, <3>2 DEF FileDated, CopyDated, LoadedDated
    <3> QED
      BY <2>1, <3>1, <3>2
  <2>5. ServerDated' /\ Confirmed'
    BY <1>2, <1>3, <2>1 DEF DatesAgree, ServerDated, Confirmed, Seconds
  <2> QED
    BY <2>3, <2>4, <2>5 DEF DatesAgree
<1> QED
  BY <1>1, <1>2, <1>4, <1>6, <1>7 DEF Validated

-----------------------------------------------------------------------------
(***************************************************************************)
(* Then the steps of the server and of its clients.                        *)
(***************************************************************************)
LEMMA FilesUnchanged == FilesInv /\ UNCHANGED fileVars => FilesInv'
BY DEF FilesInv, fileVars, FilesTypeOK, GensHold, AtWork, PairHolds, HasPublic, IsFileOf

LEMMA StartServerHolds ==
  ASSUME IInv, StartServer
  PROVE  IInv'
<1> USE DEF IInv, ServerInv
<1>1. /\ server \notin {"starting", "dating", "up"} /\ server' = "starting"
      /\ loaded' = NothingLoaded /\ lost' = {} /\ UNCHANGED <<fileVars, modified, made, clientVars>>
  BY DEF StartServer
<1>2. loaded' \in [Paths -> 1..MaxGens \cup {NoKey}] /\ \A p \in Paths : loaded'[p] = NoKey
  BY <1>1 DEF NothingLoaded
<1>3. FilesInv'
  BY <1>1, FilesUnchanged
<1>4. ServerTypeOK'
  BY <1>1, <1>2, Zenon DEF ServerTypeOK, clientVars
<1>5. LoadedHolds'
  BY <1>1, <1>2, PairFacts DEF LoadedHolds, LoadedStays, LoadedPair, Paths
<1>6. ~validated'
  BY <1>1 DEF Validated, clientVars
<1>7. DatesAgree'
  BY <1>1, <1>2, <1>6 DEF DatesAgree, CopyDated, LoadedDated, FileDated, ServerDated, Confirmed,
                          HasCopy, HasLoaded, Seconds, Paths, fileVars, clientVars
<1> QED
  BY <1>3, <1>4, <1>5, <1>6, <1>7 DEF Validated

\* The secret key is read from beside the public key, unless that is lost.
LEMMA ReadKeyHolds ==
  ASSUME IInv, ReadKey
  PROVE  IInv'
<1> USE DEF IInv, ServerInv
<1>1. server = "starting" /\ UNCHANGED <<fileVars, modified, lost, clientVars>>
  BY DEF ReadKey
<1>2. PICK i \in 1..4 :
        NextToRead(i) /\ ReadFile(Order[i], IF i = 4 THEN "dating" ELSE "starting")
  BY DEF ReadKey
<1>3. /\ loaded \in [Paths -> 1..MaxGens \cup {NoKey}]
      /\ files \in [Paths -> File \cup {NoFile}] /\ Order[i] \in Paths
  BY ServerTypes, OrderFacts DEF FilesInv
<1>4. FilesInv'
  BY <1>1, FilesUnchanged
<1>5. ~validated /\ ~validated'
  BY <1>1 DEF Validated, clientVars
<1>6. CASE server' \in {"panic", "Setup", "StdIO"} /\ UNCHANGED <<loaded, made>>
  <2>1. ServerTypeOK'
    BY <1>1, <1>6, Zenon DEF ServerTypeOK, clientVars
  <2>2. LoadedHolds'
    BY <1>1, <1>6 DEF LoadedHolds, LoadedStays, LoadedPair, Reads, fileVars
  <2>3. DatesAgree'
    BY <1>1, <1>5, <1>6 DEF DatesAgree, CopyDated, LoadedDated, FileDated, ServerDated, Confirmed,
                            HasCopy, HasLoaded, Seconds, fileVars, clientVars
  <2> QED
    BY <1>4, <1>5, <2>1, <2>2, <2>3 DEF Validated
<1>7. CASE /\ files[Order[i]] # NoFile /\ files[Order[i]].whole
           /\ loaded' = [loaded EXCEPT ![Order[i]] = files[Order[i]].key]
           /\ made' = IF Order[i] = "ibe_pub" THEN files[Order[i]].mtime ELSE made
           /\ server' = IF i = 4 THEN "dating" ELSE "starting"
  <2>1. files[Order[i]].key \in 1..MaxGens /\ files[Order[i]].mtime \in 0..MaxTime
    BY <1>3, <1>7 DEF File
  <2>2. /\ loaded' \in [Paths -> 1..MaxGens \cup {NoKey}] /\ server' \in {"dating", "starting"}
        /\ loaded'[Order[i]] = files[Order[i]].key
        /\ \A p \in Paths : p # Order[i] => loaded'[p] = loaded[p]
    BY <1>3, <1>7, <2>1
  <2>3. made \in 0..MaxTime /\ made' \in 0..MaxTime
    BY <1>7, <2>1 DEF ServerTypeOK
  <2>4. ServerTypeOK'
    BY <1>1, <2>2, <2>3, Zenon DEF ServerTypeOK, clientVars
  <2>5. loaded[Order[i]] = NoKey /\ \A j \in 1..i - 1 : loaded[Order[j]] # NoKey
    BY <1>2 DEF NextToRead
  <2>6. LoadedStays'
    <3> SUFFICES ASSUME NEW p \in Publics \ lost, loaded'[p] # NoKey
                 PROVE  IsFileOf(p, loaded'[p]) /\ (p = "ibe_pub" => files[p].mtime = made')
      BY <1>1 DEF LoadedStays, IsFileOf, fileVars
    <3>1. CASE p = Order[i]
      BY <3>1, <1>7, <2>2 DEF IsFileOf
    <3>2. CASE p # Order[i]
      BY <3>2, <1>1, <1>7, <2>2, PairFacts DEF LoadedHolds, LoadedStays, Reads
    <3> QED
      BY <3>1, <3>2
  <2>7. ASSUME NEW pub \in Publics, NEW sec \in Paths, pub # sec, LoadedPair(pub, sec),
               PairHolds(pub, sec), sec = Order[i] => loaded[pub] # NoKey
        PROVE  LoadedPair(pub, sec)'
    <3> SUFFICES ASSUME loaded'[sec] # NoKey
                 PROVE  /\ loaded'[pub] # NoKey
                        /\ pub \notin orphaned \cup lost => loaded'[pub] = loaded'[sec]
      BY <1>1 DEF LoadedPair, fileVars
    <3>0. pub \in Paths
      BY PairFacts
    <3>1. CASE sec = Order[i]
      <4>1. loaded'[pub] = loaded[pub] /\ loaded[pub] # NoKey
        BY <2>2, <2>7, <3>0, <3>1
      <4>2. pub \notin lost => IsFileOf(pub, loaded[pub])
        BY <1>1, <4>1 DEF LoadedHolds, LoadedStays, Reads
      <4>3. pub \notin orphaned => files[pub] # NoFile /\ files[pub].key = files[sec].key
        BY <1>7, <2>7, <3>1 DEF PairHolds, HasPublic
      <4> QED
        BY <2>2, <3>1, <4>1, <4>2, <4>3 DEF IsFileOf
    <3>2. CASE sec # Order[i]
      <4>1. loaded[sec] # NoKey /\ loaded'[sec] = loaded[sec]
        BY <2>2, <3>2
      <4>2. loaded[pub] # NoKey /\ pub # Order[i]
        BY <2>5, <2>7, <4>1 DEF LoadedPair
      <4> QED
        BY <2>2, <2>7, <3>0, <4>1, <4>2 DEF LoadedPair
    <3> QED
      BY <3>1, <3>2
  <2>8. /\ "ibe_sec" = Order[i] => loaded["ibe_pub"] # NoKey
        /\ "ibs_sec" = Order[i] => loaded["ibs_pub"] # NoKey
    BY <2>5, OrderFacts
  <2>9. LoadedPair("ibe_pub", "ibe_sec")' /\ LoadedPair("ibs_pub", "ibs_sec")'
    BY <2>7, <2>8, PairFacts DEF LoadedHolds, FilesInv, Paths
  <2>10. server' = "dating" => \A p \in Paths : loaded'[p] # NoKey
    <3> SUFFICES ASSUME i = 4 PROVE \A p \in Paths : loaded'[p] # NoKey
      BY <1>7
    <3>1. \A j \in 1..4 : loaded'[Order[j]] # NoKey
      BY <1>3, <2>1, <2>2, <2>5, NoKeyAssumption, OrderFacts
    <3> QED
      BY <3>1, OrderFacts
  <2>11. LoadedHolds'
    BY <2>2, <2>6, <2>9, <2>10 DEF LoadedHolds
  <2>12. DatesAgree'
    <3> SUFFICES ASSUME ~restored PROVE DatesAgree'
      BY <1>1 DEF DatesAgree, fileVars
    <3>1. CopyDated' /\ ServerDated' /\ Confirmed'
      BY <1>1, <1>5, <2>2 DEF DatesAgree, CopyDated, ServerDated, Confirmed, HasCopy, Seconds,
                              fileVars, clientVars
    <3>2. CASE Order[i] = "ibe_pub"
      <4>1. files["ibe_pub"] # NoFile /\ made' = files["ibe_pub"].mtime /\ made' \in Nat
        BY <1>7, <2>3, <3>2
      <4>2. HasCopy' <=> HasCopy
        BY <1>1 DEF HasCopy, clientVars
      <4> QED
        BY <1>1, <3>1, <4>1, <4>2 DEF DatesAgree, FileDated, LoadedDated, fileVars, clientVars
    <3>3. CASE Order[i] # "ibe_pub"
      <4>1. made' = made /\ loaded'["ibe_pub"] = loaded["ibe_pub"]
        BY <1>7, <2>2, <3>3 DEF Paths
      <4> QED
        BY <1>1, <3>1, <4>1 DEF DatesAgree, FileDated, LoadedDated, HasCopy, HasLoaded, fileVars,
                                clientVars
    <3> QED
      BY <3>2, <3>3
  <2> QED
    BY <1>4, <1>5, <2>4, <2>11, <2>12 DEF Validated
<1> QED
  BY <1>2, <1>6, <1>7 DEF ReadFile, MissingError

\* The parameters are dated by the file as it is by then, which is no older than the key.
LEMMA DateHolds ==
  ASSUME IInv, DateParameters
  PROVE  IInv'
<1> USE DEF IInv, ServerInv
<1>1. /\ server = "dating" /\ server' = "up" /\ modified' = Seconds(DateOfKey)
      /\ UNCHANGED <<fileVars, loaded, made, lost, clientVars>>
  BY DEF DateParameters
<1>2. DateOfKey \in 0..MaxTime /\ DateOfKey \in Nat
  BY KeyFilesAssumption DEF FilesInv, FilesTypeOK, File, Paths, DateOfKey
<1>3. Seconds(DateOfKey) \in 0..MaxTime
  BY <1>2, KeyFilesAssumption, SecondsFacts
<1>4. ServerTypeOK'
  BY <1>1, <1>3, Zenon DEF ServerTypeOK, clientVars
<1>5. FilesInv'
  BY <1>1, FilesUnchanged
<1>6. ~validated /\ ~validated'
  BY <1>1 DEF Validated, clientVars
<1>7. LoadedHolds'
  BY <1>1 DEF LoadedHolds, LoadedStays, LoadedPair, Reads, fileVars
<1>8. HasLoaded
  BY <1>1 DEF LoadedHolds, HasLoaded, Paths
<1>9. DatesAgree'
  <2> SUFFICES ASSUME ~restored PROVE DatesAgree'
    BY <1>1 DEF DatesAgree, fileVars
  <2>1. CopyDated' /\ LoadedDated' /\ FileDated' /\ Confirmed'
    BY <1>1, <1>6 DEF DatesAgree, CopyDated, LoadedDated, FileDated, Confirmed, HasCopy, HasLoaded,
                      Seconds, fileVars, clientVars
  <2>2. made <= DateOfKey /\ made \in Nat
    BY <1>8, ServerTypes DEF DatesAgree, LoadedDated, FileDated, DateOfKey, FilesInv
  <2>3. Seconds(made) <= Seconds(DateOfKey)
    BY <1>2, <2>2, SecondsFacts
  <2>4. "ibe_pub" \notin lost => DateOfKey = made
    BY <1>1, <1>8, PairFacts DEF LoadedHolds, LoadedStays, Reads, HasLoaded, IsFileOf, DateOfKey
  <2>5. ServerDated'
    BY <1>1, <2>3, <2>4 DEF ServerDated, Seconds
  <2> QED
    BY <2>1, <2>5 DEF DatesAgree
<1> QED
  BY <1>4, <1>5, <1>6, <1>7, <1>9 DEF Validated

LEMMA StopServerHolds ==
  ASSUME IInv, StopServer
  PROVE  IInv'
<1> USE DEF IInv, ServerInv
<1>1. /\ server' = "down" /\ UNCHANGED <<fileVars, loaded, modified, made, lost, copy>>
  BY DEF StopServer
<1>2. ~validated' /\ validated' \in BOOLEAN
  BY Zenon DEF StopServer
<1>3. ServerTypeOK'
  BY <1>1, <1>2, Zenon DEF ServerTypeOK
<1>4. FilesInv'
  BY <1>1, FilesUnchanged
<1>5. LoadedHolds'
  BY <1>1 DEF LoadedHolds, LoadedStays, LoadedPair, Reads, fileVars
<1>6. DatesAgree'
  BY <1>1, <1>2 DEF DatesAgree, CopyDated, LoadedDated, FileDated, ServerDated, Confirmed,
                    HasCopy, HasLoaded, Seconds, fileVars
<1> QED
  BY <1>2, <1>3, <1>4, <1>5, <1>6 DEF Validated

\* A copy that is confirmed by its date is from the second of the server's key.
LEMMA FetchHolds ==
  ASSUME IInv, NEW validators \in SUBSET {"tag", "date"}, Fetch(validators)
  PROVE  IInv'
<1> DEFINE new == [key |-> loaded["ibe_pub"], date |-> modified,
                   made |-> made, lost |-> lost]
<1> USE DEF IInv, ServerInv
<1>1. /\ server = "up" /\ UNCHANGED <<fileVars, serverVars>>
      /\ validators # {} => copy.key # NoKey
      /\ copy' = IF Answer304(validators) THEN copy ELSE new
  BY DEF Fetch
<1>2. validated' \in BOOLEAN
  BY Zenon DEF Fetch
<1>3. /\ new.key \in 1..MaxGens \cup {NoKey} /\ new.date \in 0..MaxTime
      /\ new.made \in 0..MaxTime
  BY DEF ServerTypeOK, Paths
<1>4. new.lost \subseteq Publics
  BY DEF ServerTypeOK
<1>5. ServerTypeOK'
  <2>1. CASE copy' = copy
    BY <1>1, <1>2, <2>1, Zenon DEF ServerTypeOK, serverVars
  <2>2. CASE copy' = new
    BY <1>1, <1>2, <1>3, <1>4, <2>2, Zenon DEF ServerTypeOK, serverVars
  <2> QED
    BY <1>1, <2>1, <2>2
<1>6. FilesInv'
  BY <1>1, FilesUnchanged
<1>7. LoadedHolds'
  BY <1>1 DEF LoadedHolds, LoadedStays, LoadedPair, Reads, fileVars, serverVars
<1>8. HasLoaded
  BY <1>1 DEF LoadedHolds, HasLoaded, Paths
<1>9. DatesAgree'
  <2> SUFFICES ASSUME ~restored PROVE DatesAgree'
    BY <1>1 DEF DatesAgree, fileVars
  <2>1. CASE Answer304(validators)
    <3>1. copy' = copy /\ HasCopy
      BY <1>1, <2>1 DEF Answer304, HasCopy
    <3>2. CASE TagMatches
      BY <1>1, <3>1, <3>2 DEF DatesAgree, CopyDated, LoadedDated, FileDated, ServerDated, Confirmed,
                              HasCopy, HasLoaded, Seconds, TagMatches, fileVars, serverVars
    <3>3. CASE NotModified
      <4>1. /\ copy.made \in Nat /\ made \in Nat /\ modified \in Nat
            /\ copy.made <= made /\ Seconds(made) <= modified
        BY <1>1, <1>8, <3>1, ServerTypes DEF DatesAgree, LoadedDated, ServerDated, FilesInv
      <4>2. Seconds(copy.made) <= Seconds(made) /\ Seconds(copy.made) \in Nat /\ Seconds(made) \in Nat
        BY <4>1, SecondsFacts
      <4>3. "ibe_pub" \notin copy.lost => modified <= Seconds(copy.made)
        BY <3>1, <3>3 DEF DatesAgree, CopyDated, NotModified
      <4>4. "ibe_pub" \in copy.lost \/ Seconds(copy.made) = Seconds(made)
        BY <4>1, <4>2, <4>3
      <4> QED
        BY <1>1, <3>1, <4>4 DEF DatesAgree, CopyDated, LoadedDated, FileDated, ServerDated,
                                Confirmed, HasCopy, HasLoaded, Seconds, fileVars, serverVars
    <3> QED
      BY <2>1, <3>2, <3>3 DEF Answer304
  <2>2. CASE ~Answer304(validators)
    <3>1. /\ copy'.key = loaded["ibe_pub"] /\ copy'.date = modified
          /\ copy'.made = made /\ copy'.lost = lost
      BY <1>1, <2>2
    <3>2. made \in Nat
      BY ServerTypes DEF FilesInv
    <3> QED
      BY <1>1, <1>8, <3>1, <3>2 DEF DatesAgree, CopyDated, LoadedDated, FileDated, ServerDated,
                                    Confirmed, HasLoaded, Seconds, fileVars, serverVars
  <2> QED
    BY <2>1, <2>2
<1> QED
  BY <1>1, <1>5, <1>6, <1>7, <1>9 DEF Validated, serverVars

-----------------------------------------------------------------------------
(***************************************************************************)
(* The invariant holds at the start, and every step keeps it.              *)
(***************************************************************************)
LEMMA InitHolds == Init => IInv
<1> SUFFICES ASSUME Init PROVE IInv
  OBVIOUS
<1> USE DEF Init, FilesInit
<1>1. FilesTypeOK
  <2>1. 0 \in 0..MaxTime /\ 0 \in 0..MaxRemovals
    BY KeyFilesAssumption
  <2>2. gens \in [1..MaxGens -> Gen]
    BY DEF Gen
  <2>3. restored \in BOOLEAN
    BY Zenon
  <2> QED
    BY <2>1, <2>2, <2>3, Zenon DEF FilesTypeOK, Empty
<1>2. ServerTypeOK
  <2>1. 0 \in 0..MaxTime
    BY KeyFilesAssumption
  <2>2. validated \in BOOLEAN
    BY Zenon
  <2>3. loaded \in [Paths -> 1..MaxGens \cup {NoKey}]
    BY DEF NothingLoaded
  <2>4. copy.key = NoKey /\ copy.date = 0 /\ copy.made = 0 /\ copy.lost = {}
    OBVIOUS
  <2> QED
    BY <2>1, <2>2, <2>3, <2>4, Zenon DEF ServerTypeOK
<1>3. GensHold
  BY DEF GensHold
<1>4. PairHolds("ibe_pub", "ibe_sec") /\ PairHolds("ibs_pub", "ibs_sec")
  BY DEF PairHolds, HasPublic, Empty, Paths
<1>5. LoadedHolds
  BY DEF LoadedHolds, LoadedStays, LoadedPair, Reads, NothingLoaded, Paths
<1>6. DatesAgree /\ Validated
  BY DEF DatesAgree, CopyDated, LoadedDated, FileDated, ServerDated, Confirmed, Validated,
         HasCopy, HasLoaded, NothingLoaded, Empty, Paths
<1> QED
  BY <1>1, <1>2, <1>3, <1>4, <1>5, <1>6 DEF IInv, FilesInv, ServerInv

LEMMA StutterHolds ==
  ASSUME IInv, UNCHANGED vars
  PROVE  IInv'
<1>1. FilesInv'
  BY FilesUnchanged DEF IInv, vars
<1>2. ServerTypeOK' /\ LoadedHolds' /\ Validated'
  BY DEF IInv, ServerInv, ServerTypeOK, LoadedHolds, LoadedStays, LoadedPair, Reads, Validated,
         IsFileOf, vars, fileVars, serverVars, clientVars
<1>3. DatesAgree'
  BY DEF IInv, ServerInv, DatesAgree, CopyDated, LoadedDated, FileDated, ServerDated, Confirmed,
         HasCopy, HasLoaded, Seconds, vars, fileVars, serverVars, clientVars
<1> QED
  BY <1>1, <1>2, <1>3 DEF IInv, ServerInv

LEMMA StepHolds == IInv /\ [Next]_vars => IInv'
<1> SUFFICES ASSUME IInv, [Next]_vars PROVE IInv'
  OBVIOUS
<1>1. CASE Files
  BY <1>1, FilesKeepServer
<1>2. CASE Server
  BY <1>2, StartServerHolds, ReadKeyHolds, DateHolds, StopServerHolds DEF Server
<1>3. CASE Client
  BY <1>3, FetchHolds DEF Client
<1>4. CASE UNCHANGED vars
  BY <1>4, StutterHolds
<1> QED
  BY <1>1, <1>2, <1>3, <1>4 DEF Next

LEMMA InvariantHolds == Spec => []IInv
BY InitHolds, StepHolds, PTL DEF Spec

-----------------------------------------------------------------------------
(***************************************************************************)
(* What follows from it.  First, that the variables have their types.      *)
(***************************************************************************)
THEOREM TypeCorrect == Spec => []TypeOK
<1>1. IInv => TypeOK
  BY DEF IInv, FilesInv, ServerInv, TypeOK
<1> QED
  BY <1>1, InvariantHolds, PTL

(***************************************************************************)
(* A server that is up has the secret keys of its public keys: however     *)
(* many runs of gen raced, failed or were repeated, and whatever was       *)
(* removed or brought back meanwhile, but for a public key that was taken  *)
(* from under its secret key, or while a start was between the two.        *)
(***************************************************************************)
THEOREM PairsCorrect == Spec => []PairsMatch
<1>1. IInv => PairsMatch
  BY PairFacts DEF IInv, ServerInv, LoadedHolds, LoadedPair, PairsMatch, Paths
<1> QED
  BY <1>1, InvariantHolds, PTL

(***************************************************************************)
(* The parameters a client has had confirmed, by tag or by date, are those *)
(* of the server, whose key file may have changed while it started, but    *)
(* for the exceptions that the property states.                            *)
(***************************************************************************)
THEOREM ParametersCorrect == Spec => []ParametersFitKeys
<1>1. IInv => ParametersFitKeys
  BY DEF IInv, ServerInv, DatesAgree, Confirmed, ParametersFitKeys
<1> QED
  BY <1>1, InvariantHolds, PTL
=============================================================================
