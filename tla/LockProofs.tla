----------------------------- MODULE LockProofs -----------------------------
(***************************************************************************)
(* Theorems about what locks protect: the files of instances of the        *)
(* program (LockFile, any number of instances and lock files) and the      *)
(* terminal of one (Screen, any number of goroutines and Loggers).         *)
(***************************************************************************)
EXTENDS LockFile, Screen, SequenceTheorems, TLAPS

USE DEF NoFile, File

----------------------------------------------------------------------------
(* The inductive invariant of LockFile.                                    *)

(* The locks that i has are the first depth[i] of its own. *)
LocksHeld ==
  \A i \in Instance, k \in Nat : <<i, k>> \in locked <=> k \in 1 .. depth[i]

(* Their files are open, and that of the next once it has opened it. *)
FilesOpen ==
  \A i \in Instance : \A k \in Locks(i) :
    fd[i][k] # NoFile <=>
      k =< depth[i] \/ (k = depth[i] + 1 /\ state[i] = "opened")

(* The place of an instance tells how many locks it has. *)
PlaceTells ==
  \A i \in Instance :
    /\ state[i] \in {"start", "opened", "unlocked"} => depth[i] < Len(LocksOf[i])
    /\ state[i] = "running" => depth[i] = Len(LocksOf[i])
    /\ state[i] = "releasing" => depth[i] \in 1 .. Len(LocksOf[i]) - 1
    /\ state[i] = "exited" => depth[i] = 0

(* A file is locked by one, through one of its locks. *)
OneHolder ==
  \A i, j \in Instance : \A k \in 1 .. depth[i], l \in 1 .. depth[j] :
    fd[i][k] = fd[j][l] => i = j /\ k = l

(* Who has a file open under a name that was never removed has the file of *)
(* that name.                                                              *)
NamedFile ==
  \A i \in Instance : \A k \in Locks(i) :
    fd[i][k] # NoFile /\ LocksOf[i][k] \notin removed
      => fd[i][k] = path[LocksOf[i][k]]

(* r has removed a lock file and has another to release. *)
Releasing(r) ==
  \/ state[r] = "releasing"
  \/ state[r] = "unlocked" /\ depth[r] + 1 < Len(LocksOf[r])

(* The file that j has open as its second lock has lost its name. *)
Stale(j) ==
  Len(LocksOf[j]) > 1 /\ fd[j][2] # NoFile /\ fd[j][2] # path[LocksOf[j][2]]

(* What one release can do: it has the first lock while it removes the     *)
(* second, so those it leaves with a second file that has lost its name    *)
(* have another first lock than it.                                        *)
OneRelease ==
  /\ \A r \in Instance : Releasing(r) => releases > 0
  /\ releases = 0 => removed = {}
  /\ releases =< 1 =>
       /\ \A r, q \in Instance : Releasing(r) /\ Releasing(q) => r = q
       /\ \A r, i \in Instance : Releasing(r) => LocksOf[i][1] \notin removed
       /\ \A j \in Instance : Stale(j) =>
            /\ LocksOf[j][1] \notin removed
            /\ \A r \in Instance : Releasing(r) => LocksOf[j][1] # LocksOf[r][1]

LockInv ==
  LockTypeOK /\ LocksHeld /\ FilesOpen /\ PlaceTells /\ OneHolder /\ NamedFile /\ OneRelease

----------------------------------------------------------------------------

(* What an instance locks: a sequence of names, not empty. *)
LEMMA LocksTyped ==
  ASSUME NEW i \in Instance
  PROVE  /\ LocksOf[i] \in Seq(Name) /\ Len(LocksOf[i]) \in Nat \ {0}
         /\ 1 \in Locks(i)
         /\ \A k \in Locks(i) : k \in Nat /\ LocksOf[i][k] \in Name
  <1>1. LocksOf[i] \in Seq(Name) /\ LocksOf[i] # <<>>
    BY LocksAssumption
  <1>2. Len(LocksOf[i]) \in Nat \ {0}
    BY <1>1, SMT
  <1> QED  BY <1>1, <1>2, SMT DEF Locks

(* The flock of a file is free: nobody has a lock whose file it is. *)
LEMMA FreeFile ==
  ASSUME LockInv, NEW i \in Instance, Free(i),
         NEW j \in Instance, NEW k \in 1 .. depth[j]
  PROVE  fd[j][k] # fd[i][depth[i] + 1]
  <1>1. <<j, k>> \in locked
    BY DEF LockInv, LockTypeOK, LocksHeld
  <1>2. <<j, k>>[1] = j /\ <<j, k>>[2] = k
    OBVIOUS
  <1> QED  BY <1>1, <1>2 DEF Free

(* An instance opens or closes files: the open files keep their type. *)
LEMMA FdTyped ==
  ASSUME LockTypeOK, NEW i \in Instance, NEW f \in [Locks(i) -> File \cup {NoFile}],
         fd' = [fd EXCEPT ![i] = f]
  PROVE  /\ fd' \in [Instance -> UNION {[Locks(j) -> File \cup {NoFile}] : j \in Instance}]
         /\ \A j \in Instance : fd'[j] \in [Locks(j) -> File \cup {NoFile}]
  BY DEF LockTypeOK

(* Once i is at p with d locks, that p tells so is enough. *)
LEMMA PlaceTold ==
  ASSUME LockTypeOK, PlaceTells, NEW i \in Instance, NEW p, NEW d \in Nat,
         state' = [state EXCEPT ![i] = p], depth' = [depth EXCEPT ![i] = d],
         p \in {"start", "opened", "unlocked"} => d < Len(LocksOf[i]),
         p = "running" => d = Len(LocksOf[i]),
         p = "releasing" => d \in 1 .. Len(LocksOf[i]) - 1,
         p = "exited" => d = 0
  PROVE  PlaceTells'
  BY DEF LockTypeOK, PlaceTells

(* A process that is gone leaves the state typed. *)
LEMMA ExitTyped ==
  ASSUME LockTypeOK, PlaceTells, NEW i \in Instance, Exit(i),
         path' \in [Name -> File \cup {NoFile}], UNCHANGED created,
         removed' \subseteq Name, releases' \in Nat
  PROVE  LockTypeOK' /\ PlaceTells'
  <1>1. /\ fd' \in [Instance -> UNION {[Locks(j) -> File \cup {NoFile}] : j \in Instance}]
        /\ \A j \in Instance : fd'[j] \in [Locks(j) -> File \cup {NoFile}]
    BY FdTyped DEF Exit
  <1> QED  BY <1>1, LocksTyped DEF Exit, Enters, LockTypeOK, PlaceTells

(* Typing: in each step the state keeps its type, and the place of an      *)
(* instance goes on telling how many locks it has.                         *)
LEMMA LockTyped ==
  ASSUME LockInv, [LockNext]_lockVars
  PROVE  LockTypeOK' /\ PlaceTells'
  <1> USE LocksTyped, MaxFilesAssumption
  <1> SUFFICES ASSUME NEW i \in Instance,
                      \/ Open(i) \/ Lock(i) \/ Refused(i) \/ UnlockFile(i)
                      \/ RemoveFile(i) \/ Crash(i) \/ Start(i)
               PROVE  LockTypeOK' /\ PlaceTells'
    <2>1. CASE UNCHANGED lockVars
      BY <2>1 DEF LockInv, LockTypeOK, PlaceTells, lockVars, Locks
    <2> QED  BY <2>1 DEF LockNext
  <1>0. LockTypeOK /\ PlaceTells /\ LocksHeld
    BY DEF LockInv
  <1>1. CASE Open(i)
    <2> DEFINE n == LocksOf[i][depth[i] + 1]
    <2>1. depth[i] + 1 \in Locks(i) /\ n \in Name
      <3>1. depth[i] \in Nat /\ depth[i] < Len(LocksOf[i])
        BY <1>0, <1>1 DEF Open, PlaceTells, LockTypeOK
      <3> QED  BY <3>1 DEF Locks
    <2>2. /\ path' \in [Name -> File \cup {NoFile}] /\ created' \in 0 .. MaxFiles
          /\ path'[n] \in File
      <3>1. CASE path[n] # NoFile
        BY <1>0, <1>1, <2>1, <3>1 DEF Open, LockTypeOK
      <3>2. CASE path[n] = NoFile
        <4>1. created' = created + 1 /\ path' = [path EXCEPT ![n] = created + 1]
          BY <1>1, <3>2 DEF Open
        <4>2. created + 1 \in File
          BY <1>0, <1>1, <3>2 DEF Open, LockTypeOK
        <4> QED  BY <1>0, <2>1, <4>1, <4>2 DEF LockTypeOK
      <3> QED  BY <3>1, <3>2
    <2>3. fd' = [fd EXCEPT ![i] = [fd[i] EXCEPT ![depth[i] + 1] = path'[n]]]
      BY <1>1 DEF Open
    <2>4. [fd[i] EXCEPT ![depth[i] + 1] = path'[n]] \in [Locks(i) -> File \cup {NoFile}]
      BY <1>0, <2>2 DEF LockTypeOK
    <2>5. /\ fd' \in [Instance -> UNION {[Locks(j) -> File \cup {NoFile}] : j \in Instance}]
          /\ \A j \in Instance : fd'[j] \in [Locks(j) -> File \cup {NoFile}]
      BY <1>0, <2>3, <2>4, FdTyped
    <2>6. PlaceTells'
      BY <1>0, <1>1 DEF Open, Enters, LockTypeOK, PlaceTells
    <2> QED  BY <1>0, <1>1, <2>2, <2>5, <2>6 DEF Open, Enters, LockTypeOK
  <1>2. CASE Lock(i)
    <2>1. depth' = [depth EXCEPT ![i] = depth[i] + 1] /\ depth[i] + 1 =< Len(LocksOf[i])
      BY <1>0, <1>2 DEF Lock, LockTypeOK, PlaceTells
    <2>2. locked' \subseteq Instance \X Nat
      BY <1>0, <1>2 DEF Lock, LockTypeOK
    <2>3. PICK p \in {"running", "start"} :
            /\ state' = [state EXCEPT ![i] = p]
            /\ p = "running" <=> depth[i] + 1 = Len(LocksOf[i])
      BY <1>2 DEF Lock, Enters
    <2>4. LockTypeOK'
      BY <1>0, <1>2, <2>1, <2>2, <2>3 DEF Lock, LockTypeOK
    <2>5. PlaceTells'
      <3>1. depth[i] + 1 \in Nat
        BY <1>0 DEF LockTypeOK
      <3>2. p # "running" => depth[i] + 1 < Len(LocksOf[i])
        BY <2>1, <2>3, <3>1
      <3>3. p \notin {"opened", "unlocked", "releasing", "exited"}
        OBVIOUS
      <3> QED  BY <1>0, <2>1, <2>3, <3>1, <3>2, <3>3, PlaceTold
    <2> QED  BY <2>4, <2>5
  <1>4. CASE Refused(i)
    BY <1>0, <1>4, ExitTyped DEF Refused, LockTypeOK
  <1>5. CASE UnlockFile(i)
    <2>1. depth[i] \in Locks(i) /\ depth[i] - 1 \in Nat
      BY <1>0, <1>5 DEF UnlockFile, PlaceTells, LockTypeOK, Locks
    <2>2. [fd[i] EXCEPT ![depth[i]] = NoFile] \in [Locks(i) -> File \cup {NoFile}]
      BY <1>0 DEF LockTypeOK
    <2>3. fd' = [fd EXCEPT ![i] = [fd[i] EXCEPT ![depth[i]] = NoFile]]
      BY <1>5 DEF UnlockFile
    <2>4. depth' = [depth EXCEPT ![i] = depth[i] - 1] /\ state' = [state EXCEPT ![i] = "unlocked"]
      BY <1>5 DEF UnlockFile, Enters
    <2>5. LockTypeOK'
      <3>1. /\ fd' \in [Instance -> UNION {[Locks(j) -> File \cup {NoFile}] : j \in Instance}]
            /\ \A j \in Instance : fd'[j] \in [Locks(j) -> File \cup {NoFile}]
        BY <1>0, <2>2, <2>3, FdTyped
      <3>2. locked' \subseteq Instance \X Nat
        BY <1>0, <1>5 DEF UnlockFile, LockTypeOK
      <3>3. UNCHANGED <<path, created, removed, releases>>
        BY <1>5 DEF UnlockFile
      <3> QED  BY <1>0, <2>1, <2>4, <3>1, <3>2, <3>3 DEF LockTypeOK
    <2>6. depth[i] - 1 < Len(LocksOf[i])
      BY <2>1 DEF Locks
    <2>7. PlaceTells'
      BY <1>0, <2>1, <2>4, <2>6, PlaceTold
    <2> QED  BY <2>5, <2>7
  <1>6. CASE RemoveFile(i)
    <2>1. /\ path' \in [Name -> File \cup {NoFile}] /\ removed' \subseteq Name
          /\ releases' \in Nat
      <3>1. depth[i] \in Nat /\ depth[i] < Len(LocksOf[i])
        BY <1>0, <1>6 DEF RemoveFile, PlaceTells, LockTypeOK
      <3>2. LocksOf[i][depth[i] + 1] \in Name
        BY <3>1 DEF Locks
      <3> QED  BY <1>0, <1>6, <3>2 DEF RemoveFile, LockTypeOK
    <2>2. depth[i] < Len(LocksOf[i]) /\ UNCHANGED created
      BY <1>0, <1>6 DEF RemoveFile, PlaceTells
    <2>3. CASE depth[i] > 0
      <3>1. state' = [state EXCEPT ![i] = "releasing"] /\ UNCHANGED <<fd, locked, depth>>
        BY <1>6, <2>3 DEF RemoveFile, Enters
      <3>2. LockTypeOK'
        BY <1>0, <2>1, <2>2, <3>1 DEF LockTypeOK
      <3>3. depth[i] \in 1 .. Len(LocksOf[i]) - 1
        BY <1>0, <2>2, <2>3 DEF LockTypeOK
      <3>4. PlaceTells'
        BY <1>0, <3>1, <3>3 DEF PlaceTells, LockTypeOK
      <3> QED  BY <3>2, <3>4
    <2>4. CASE ~(depth[i] > 0)
      <3>1. Exit(i)
        BY <1>6, <2>4 DEF RemoveFile
      <3> QED  BY <1>0, <2>1, <2>2, <3>1, ExitTyped
    <2> QED  BY <2>3, <2>4
  <1>7. CASE Crash(i)
    BY <1>0, <1>7, ExitTyped DEF Crash, LockTypeOK
  <1>8. CASE Start(i)
    BY <1>0, <1>8 DEF Start, Enters, LockTypeOK, PlaceTells, Locks
  <1> QED  BY <1>1, <1>2, <1>4, <1>5, <1>6, <1>7, <1>8

(* What opening, unlocking and exiting do to the open files, each of them. *)
LEMMA OpenFiles ==
  ASSUME LockInv, NEW i \in Instance, Open(i)
  PROVE  /\ depth[i] + 1 \in Locks(i) /\ depth[i] \in Nat
         /\ path'[LocksOf[i][depth[i] + 1]] \in File
         /\ \A j \in Instance : \A k \in Locks(j) :
              fd'[j][k] = IF j = i /\ k = depth[i] + 1
                          THEN path'[LocksOf[i][depth[i] + 1]] ELSE fd[j][k]
  <1> DEFINE n == LocksOf[i][depth[i] + 1]
  <1>0. LockTypeOK /\ PlaceTells
    BY DEF LockInv
  <1>1. depth[i] + 1 \in Locks(i) /\ depth[i] \in Nat /\ n \in Name
    <2>1. depth[i] \in Nat /\ depth[i] < Len(LocksOf[i])
      BY <1>0 DEF Open, PlaceTells, LockTypeOK
    <2> QED  BY <2>1, LocksTyped DEF Locks
  <1>2. path'[n] \in File
    <2>1. CASE path[n] # NoFile
      BY <1>0, <1>1, <2>1 DEF Open, LockTypeOK
    <2>2. CASE path[n] = NoFile
      <3>1. path' = [path EXCEPT ![n] = created + 1] /\ created < MaxFiles
        BY <2>2 DEF Open
      <3> QED  BY <1>0, <1>1, <3>1, MaxFilesAssumption DEF LockTypeOK
    <2> QED  BY <2>1, <2>2
  <1>3. fd' = [fd EXCEPT ![i][depth[i] + 1] = path'[n]]
    BY DEF Open
  <1> HIDE DEF n
  <1>4. \A j \in Instance : \A k \in Locks(j) :
          fd'[j][k] = IF j = i /\ k = depth[i] + 1 THEN path'[n] ELSE fd[j][k]
    BY <1>0, <1>1, <1>3 DEF LockTypeOK
  <1> QED  BY <1>1, <1>2, <1>4 DEF n

LEMMA UnlockFiles ==
  ASSUME LockInv, NEW i \in Instance, UnlockFile(i)
  PROVE  /\ depth[i] \in Locks(i) /\ depth[i] \in Nat
         /\ \A j \in Instance : \A k \in Locks(j) :
              fd'[j][k] = IF j = i /\ k = depth[i] THEN NoFile ELSE fd[j][k]
  <1>0. LockTypeOK /\ PlaceTells
    BY DEF LockInv
  <1>1. depth[i] \in Locks(i) /\ depth[i] \in Nat
    BY <1>0, LocksTyped DEF UnlockFile, PlaceTells, LockTypeOK, Locks
  <1>2. fd' = [fd EXCEPT ![i][depth[i]] = NoFile]
    BY DEF UnlockFile
  <1> QED  BY <1>0, <1>1, <1>2 DEF LockTypeOK

LEMMA ExitFiles ==
  ASSUME LockInv, NEW i \in Instance, Exit(i),
         NEW j \in Instance, NEW k \in Locks(j)
  PROVE  fd'[j][k] = IF j = i THEN NoFile ELSE fd[j][k]
  BY DEF Exit, LockInv, LockTypeOK

(* The locks an instance has are some of its own. *)
LEMMA DepthTyped ==
  ASSUME LockInv, NEW i \in Instance
  PROVE  depth[i] \in Nat /\ depth[i] =< Len(LocksOf[i]) /\ 1 .. depth[i] \subseteq Locks(i)
  <1>1. /\ depth[i] \in Nat
        /\ state[i] \in {"start", "opened", "running", "unlocked", "releasing", "exited"}
    BY DEF LockInv, LockTypeOK
  <1>2. depth[i] =< Len(LocksOf[i])
    BY <1>1, LocksTyped DEF LockInv, PlaceTells
  <1> QED  BY <1>1, <1>2, LocksTyped DEF Locks

(* What an instance has locked stays its own: nobody else gets a flock on  *)
(* a file that is locked.                                                  *)
LEMMA HeldKept ==
  ASSUME LockInv, [LockNext]_lockVars
  PROVE  LocksHeld' /\ FilesOpen' /\ OneHolder'
  <1> USE LocksTyped, DepthTyped
  <1>0. LockTypeOK /\ LocksHeld /\ FilesOpen /\ OneHolder
    BY DEF LockInv
  <1> SUFFICES ASSUME NEW i \in Instance,
                      \/ Open(i) \/ Lock(i) \/ Refused(i) \/ UnlockFile(i)
                      \/ RemoveFile(i) \/ Crash(i) \/ Start(i)
               PROVE  LocksHeld' /\ FilesOpen' /\ OneHolder'
    <2>1. CASE UNCHANGED lockVars
      BY <1>0, <2>1 DEF LocksHeld, FilesOpen, OneHolder, lockVars, Locks
    <2> QED  BY <2>1 DEF LockNext
  <1>1. CASE Open(i)
    <2>1. LocksHeld'
      BY <1>0, <1>1 DEF LocksHeld, Open
    <2>2. \A j \in Instance : state'[j] = IF j = i THEN "opened" ELSE state[j]
      BY <1>0, <1>1 DEF LockTypeOK, Open, Enters
    <2>. UNCHANGED depth /\ state[i] = "start"
      BY <1>1 DEF Open
    <2>4. FilesOpen'
      BY <1>0, <1>1, <2>2, OpenFiles DEF FilesOpen
    <2>3. OneHolder'
      BY <1>0, <1>1, OpenFiles DEF OneHolder, Open
    <2> QED  BY <2>1, <2>3, <2>4
  <1>2. CASE Lock(i)
    <2>1. /\ \A j \in Instance : depth'[j] = IF j = i THEN depth[i] + 1 ELSE depth[j]
          /\ \A j \in Instance : state'[j] = "opened" <=> j # i /\ state[j] = "opened"
          /\ fd' = fd /\ state[i] = "opened"
      BY <1>0, <1>2 DEF LockTypeOK, Lock, Enters
    <2>2. LocksHeld'
      <3> SUFFICES ASSUME NEW j \in Instance, NEW k \in Nat
                   PROVE  <<j, k>> \in locked' <=> k \in 1 .. depth'[j]
        BY DEF LocksHeld
      <3>1. <<j, k>> \in locked' <=> <<j, k>> \in locked \/ (j = i /\ k = depth[i] + 1)
        BY <1>2 DEF Lock
      <3>2. <<j, k>> \in locked <=> k \in 1 .. depth[j]
        BY <1>0 DEF LocksHeld
      <3> QED  BY <2>1, <3>1, <3>2
    <2>3. FilesOpen'
      BY <1>0, <2>1 DEF FilesOpen
    <2>4. OneHolder'
      BY <1>0, <1>2, <2>1, FreeFile DEF OneHolder, Lock
    <2> QED  BY <2>2, <2>3, <2>4
  <1>3. ASSUME Exit(i)
        PROVE  LocksHeld' /\ FilesOpen' /\ OneHolder'
    <2>1. /\ \A j \in Instance : depth'[j] = IF j = i THEN 0 ELSE depth[j]
          /\ \A j \in Instance : state'[j] = IF j = i THEN "exited" ELSE state[j]
      BY <1>0, <1>3 DEF LockTypeOK, Exit, Enters
    <2>2. LocksHeld'
      <3> SUFFICES ASSUME NEW j \in Instance, NEW k \in Nat
                   PROVE  <<j, k>> \in locked' <=> k \in 1 .. depth'[j]
        BY DEF LocksHeld
      <3>1. <<j, k>> \in locked' <=> <<j, k>> \in locked /\ j # i
        BY <1>3 DEF Exit
      <3>2. <<j, k>> \in locked <=> k \in 1 .. depth[j]
        BY <1>0 DEF LocksHeld
      <3> QED  BY <2>1, <3>1, <3>2
    <2>3. FilesOpen'
      <3> SUFFICES ASSUME NEW j \in Instance, NEW k \in Locks(j)
                   PROVE  fd'[j][k] # NoFile <=>
                            k =< depth'[j] \/ (k = depth'[j] + 1 /\ state'[j] = "opened")
        BY DEF FilesOpen, Locks
      <3>1. fd'[j][k] = IF j = i THEN NoFile ELSE fd[j][k]
        BY <1>3, ExitFiles
      <3>2. k \in Nat \ {0}
        BY DEF Locks
      <3>3. CASE j = i
        BY <2>1, <3>1, <3>2, <3>3
      <3>4. CASE j # i
        BY <1>0, <2>1, <3>1, <3>4 DEF FilesOpen
      <3> QED  BY <3>3, <3>4
    <2>4. OneHolder'
      <3> SUFFICES ASSUME NEW j \in Instance, NEW q \in Instance,
                          NEW k \in 1 .. depth'[j], NEW l \in 1 .. depth'[q],
                          fd'[j][k] = fd'[q][l]
                   PROVE  j = q /\ k = l
        BY DEF OneHolder
      <3>1. j # i /\ q # i /\ k \in 1 .. depth[j] /\ l \in 1 .. depth[q]
        BY <2>1
      <3>2. k \in Locks(j) /\ l \in Locks(q)
        BY <3>1
      <3>3. fd[j][k] = fd[q][l]
        BY <1>3, <3>1, <3>2, ExitFiles
      <3> QED  BY <1>0, <3>1, <3>3 DEF OneHolder
    <2> QED  BY <2>2, <2>3, <2>4
  <1>4. CASE Refused(i)
    BY <1>3, <1>4 DEF Refused
  <1>5. CASE UnlockFile(i)
    <2>1. /\ \A j \in Instance : depth'[j] = IF j = i THEN depth[i] - 1 ELSE depth[j]
          /\ \A j \in Instance : state'[j] = IF j = i THEN "unlocked" ELSE state[j]
          /\ state[i] # "opened"
      BY <1>0, <1>5 DEF LockTypeOK, UnlockFile, Enters
    <2>5. depth[i] > 0
      BY <1>5, UnlockFiles DEF Locks
    <2>2. LocksHeld'
      <3> SUFFICES ASSUME NEW j \in Instance, NEW k \in Nat
                   PROVE  <<j, k>> \in locked' <=> k \in 1 .. depth'[j]
        BY DEF LocksHeld
      <3>1. <<j, k>> \in locked' <=> <<j, k>> \in locked /\ ~(j = i /\ k = depth[i])
        BY <1>5 DEF UnlockFile
      <3>2. <<j, k>> \in locked <=> k \in 1 .. depth[j]
        BY <1>0 DEF LocksHeld
      <3> QED  BY <2>1, <2>5, <3>1, <3>2
    <2>3. FilesOpen'
      BY <1>0, <1>5, <2>1, <2>5, UnlockFiles DEF FilesOpen, Locks
    <2>4. OneHolder'
      <3> SUFFICES ASSUME NEW j \in Instance, NEW q \in Instance,
                          NEW k \in 1 .. depth'[j], NEW l \in 1 .. depth'[q],
                          fd'[j][k] = fd'[q][l]
                   PROVE  j = q /\ k = l
        BY DEF OneHolder
      <3>1. k \in 1 .. depth[j] /\ l \in 1 .. depth[q]
        BY <2>1
      <3>2. fd'[j][k] = fd[j][k] /\ fd'[q][l] = fd[q][l]
        <4>1. k \in Locks(j) /\ l \in Locks(q)
          BY <3>1
        <4>2. ~(j = i /\ k = depth[i]) /\ ~(q = i /\ l = depth[i])
          BY <2>1, <2>5
        <4> QED  BY <1>5, <4>1, <4>2, UnlockFiles
      <3>3. fd[j][k] = fd[q][l]
        BY <3>2
      <3> QED  BY <1>0, <3>1, <3>3 DEF OneHolder
    <2> QED  BY <2>2, <2>3, <2>4
  <1>6. CASE RemoveFile(i)
    <2>1. CASE depth[i] > 0
      <3>1. UNCHANGED <<fd, locked, depth>> /\ state[i] = "unlocked"
        BY <1>6, <2>1 DEF RemoveFile
      <3>2. \A j \in Instance : state'[j] = "opened" <=> state[j] = "opened"
        BY <1>0, <1>6, <2>1, <3>1 DEF LockTypeOK, RemoveFile, Enters
      <3> QED  BY <1>0, <3>1, <3>2 DEF LocksHeld, FilesOpen, OneHolder
    <2>2. CASE ~(depth[i] > 0)
      BY <1>3, <1>6, <2>2 DEF RemoveFile
    <2> QED  BY <2>1, <2>2
  <1>7. CASE Crash(i)
    BY <1>3, <1>7 DEF Crash
  <1>8. CASE Start(i)
    <2>1. UNCHANGED <<fd, locked, depth>>
      BY <1>8 DEF Start
    <2>2. \A j \in Instance : state'[j] = "opened" <=> state[j] = "opened"
      BY <1>0, <1>8 DEF LockTypeOK, Start, Enters
    <2> QED  BY <1>0, <2>1, <2>2 DEF LocksHeld, FilesOpen, OneHolder
  <1> QED  BY <1>1, <1>2, <1>4, <1>5, <1>6, <1>7, <1>8

(* A step that opens no file and removes none: no file loses its name, and *)
(* nobody is releasing who was not.                                        *)
LEMMA NothingRemoved ==
  ASSUME LockInv, UNCHANGED <<path, removed, releases>>,
         \A j \in Instance : \A k \in Locks(j) : fd'[j][k] \in {NoFile, fd[j][k]},
         \A r \in Instance : Releasing(r)' => Releasing(r)
  PROVE  NamedFile' /\ OneRelease'
  <1>1. NamedFile'
    BY LocksTyped DEF LockInv, NamedFile, Locks
  <1>2. \A j \in Instance : Len(LocksOf[j]) > 1 => 2 \in Locks(j)
    BY LocksTyped DEF Locks
  <1>3. \A j \in Instance : Stale(j)' => Stale(j)
    BY <1>2 DEF Stale
  <1>4. OneRelease
    BY DEF LockInv
  <1>5. /\ \A r \in Instance : Releasing(r)' => releases' > 0
        /\ releases' = 0 => removed' = {}
    BY <1>4 DEF OneRelease
  <1>6. ASSUME releases' =< 1
        PROVE  /\ \A r, q \in Instance : Releasing(r)' /\ Releasing(q)' => r = q
               /\ \A r, i \in Instance : Releasing(r)' => LocksOf[i][1] \notin removed'
               /\ \A j \in Instance : Stale(j)' =>
                    /\ LocksOf[j][1] \notin removed'
                    /\ \A r \in Instance : Releasing(r)' => LocksOf[j][1] # LocksOf[r][1]
    BY <1>3, <1>4, <1>6 DEF OneRelease
  <1>7. OneRelease'
    BY <1>5, <1>6 DEF OneRelease
  <1> QED  BY <1>1, <1>7

(* Opening a file gives the one that the name stands for. *)
LEMMA OpenKept ==
  ASSUME LockInv, NEW i \in Instance, Open(i)
  PROVE  NamedFile' /\ OneRelease'
  <1> DEFINE n == LocksOf[i][depth[i] + 1]
  <1>0. LockTypeOK /\ NamedFile /\ OneRelease
    BY DEF LockInv
  <1>1. /\ depth[i] + 1 \in Locks(i) /\ depth[i] \in Nat /\ n \in Name
        /\ \A j \in Instance : \A k \in Locks(j) :
             fd'[j][k] = IF j = i /\ k = depth[i] + 1 THEN path'[n] ELSE fd[j][k]
    BY OpenFiles, LocksTyped
  <1>2. \A m \in Name : path[m] # NoFile => path'[m] = path[m]
    <2>1. path[n] # NoFile => path' = path
      BY DEF Open
    <2>2. path[n] = NoFile => path' = [path EXCEPT ![n] = created + 1]
      BY DEF Open
    <2> QED  BY <1>0, <2>1, <2>2 DEF LockTypeOK
  <1>3. UNCHANGED <<depth, removed, releases>>
    BY DEF Open
  <1> HIDE DEF n
  <1>4. NamedFile'
    <2> SUFFICES ASSUME NEW j \in Instance, NEW k \in Locks(j),
                        fd'[j][k] # NoFile, LocksOf[j][k] \notin removed
                 PROVE  fd'[j][k] = path'[LocksOf[j][k]]
      BY <1>3 DEF NamedFile, Locks
    <2>1. CASE j = i /\ k = depth[i] + 1
      BY <1>1, <2>1 DEF n
    <2>2. CASE ~(j = i /\ k = depth[i] + 1)
      BY <1>0, <1>1, <1>2, <2>2, LocksTyped DEF NamedFile
    <2> QED  BY <2>1, <2>2
  <1>5. \A j \in Instance : Stale(j)' => Stale(j)
    <2> SUFFICES ASSUME NEW j \in Instance, Stale(j)'
                 PROVE  Stale(j)
      OBVIOUS
    <2>1. /\ Len(LocksOf[j]) > 1 /\ 2 \in Locks(j) /\ LocksOf[j][2] \in Name
          /\ fd'[j][2] # NoFile /\ fd'[j][2] # path'[LocksOf[j][2]]
      BY LocksTyped DEF Stale, Locks
    <2>2. fd'[j][2] = fd[j][2]
      BY <1>1, <2>1 DEF n
    <2> QED  BY <1>2, <2>1, <2>2 DEF Stale
  <1>6. \A r \in Instance : Releasing(r)' => Releasing(r)
    BY <1>0, <1>3 DEF Open, Enters, Releasing, LockTypeOK
  <1>7. /\ \A r \in Instance : Releasing(r)' => releases' > 0
        /\ releases' = 0 => removed' = {}
    BY <1>0, <1>3, <1>6 DEF OneRelease
  <1>8. ASSUME releases' =< 1
        PROVE  /\ \A r, q \in Instance : Releasing(r)' /\ Releasing(q)' => r = q
               /\ \A r, q \in Instance : Releasing(r)' => LocksOf[q][1] \notin removed'
               /\ \A j \in Instance : Stale(j)' =>
                    /\ LocksOf[j][1] \notin removed'
                    /\ \A r \in Instance : Releasing(r)' => LocksOf[j][1] # LocksOf[r][1]
    BY <1>0, <1>3, <1>5, <1>6, <1>8 DEF OneRelease
  <1> QED  BY <1>4, <1>7, <1>8 DEF OneRelease

(* What a removal does to the names and to the open files. *)
LEMMA RemoveEffect ==
  ASSUME LockInv, NEW i \in Instance, RemoveFile(i)
  PROVE  /\ depth[i] + 1 \in Locks(i) /\ depth[i] \in Nat /\ state[i] = "unlocked"
         /\ path' = [path EXCEPT ![LocksOf[i][depth[i] + 1]] = NoFile]
         /\ removed' = removed \cup {LocksOf[i][depth[i] + 1]}
         /\ releases' = IF depth[i] + 1 = Len(LocksOf[i]) THEN releases + 1 ELSE releases
         /\ \A j \in Instance : \A k \in Locks(j) : fd'[j][k] \in {NoFile, fd[j][k]}
         /\ \A r \in Instance :
              Releasing(r)' <=> IF r = i THEN depth[i] > 0 ELSE Releasing(r)
  <1>0. LockTypeOK /\ PlaceTells
    BY DEF LockInv
  <1>1. depth[i] + 1 \in Locks(i) /\ depth[i] \in Nat /\ state[i] = "unlocked"
    BY <1>0, LocksTyped DEF RemoveFile, LockTypeOK, PlaceTells, Locks
  <1>2. /\ path' = [path EXCEPT ![LocksOf[i][depth[i] + 1]] = NoFile]
        /\ removed' = removed \cup {LocksOf[i][depth[i] + 1]}
        /\ releases' = IF depth[i] + 1 = Len(LocksOf[i]) THEN releases + 1 ELSE releases
    BY <1>0 DEF RemoveFile, LockTypeOK
  <1>3. CASE depth[i] > 0
    <2>1. state' = [state EXCEPT ![i] = "releasing"] /\ UNCHANGED <<fd, depth>>
      BY <1>3 DEF RemoveFile, Enters
    <2>2. \A r \in Instance :
            Releasing(r)' <=> IF r = i THEN depth[i] > 0 ELSE Releasing(r)
      BY <1>0, <1>3, <2>1 DEF Releasing, LockTypeOK
    <2> QED  BY <1>1, <1>2, <2>1, <2>2
  <1>4. CASE ~(depth[i] > 0)
    <2>1. Exit(i)
      BY <1>4 DEF RemoveFile
    <2>2. \A j \in Instance : \A k \in Locks(j) : fd'[j][k] \in {NoFile, fd[j][k]}
      BY <2>1, ExitFiles
    <2>3. \A r \in Instance :
            Releasing(r)' <=> IF r = i THEN depth[i] > 0 ELSE Releasing(r)
      BY <1>0, <1>4, <2>1 DEF Exit, Enters, Releasing, LockTypeOK
    <2> QED  BY <1>1, <1>2, <2>2, <2>3
  <1> QED  BY <1>3, <1>4

(* A removal that takes the name of j's second file away is that of an     *)
(* instance that has its first lock, so not the first lock of j.           *)
LEMMA BecomesStale ==
  ASSUME LockInv, NEW i \in Instance, RemoveFile(i), NEW j \in Instance,
         Stale(j)', ~Stale(j), LocksOf[i][1] \notin removed
  PROVE  depth[i] = 1 /\ LocksOf[j][1] # LocksOf[i][1]
  <1>1. /\ Len(LocksOf[j]) > 1 /\ 1 \in Locks(j) /\ 2 \in Locks(j)
        /\ LocksOf[j][2] \in Name /\ LocksOf[j][1] \in Name
        /\ fd'[j][2] # NoFile /\ fd'[j][2] # path'[LocksOf[j][2]]
    BY LocksTyped DEF Stale, Locks
  <1>2. /\ depth[i] + 1 \in Locks(i) /\ depth[i] \in Nat /\ state[i] = "unlocked"
        /\ path' = [path EXCEPT ![LocksOf[i][depth[i] + 1]] = NoFile]
        /\ fd'[j][2] = fd[j][2]
    BY <1>1, RemoveEffect
  <1>3. fd[j][2] = path[LocksOf[j][2]]
    BY <1>1, <1>2 DEF Stale
  <1>4. LocksOf[j][2] = LocksOf[i][depth[i] + 1]
    BY <1>1, <1>2, <1>3 DEF LockInv, LockTypeOK
  <1>5. depth[i] = 1
    BY <1>1, <1>2, <1>4, OrderAssumption DEF Locks
  <1>6. ASSUME LocksOf[j][1] = LocksOf[i][1]
        PROVE  FALSE
    <2>1. 1 \in Locks(i) /\ 2 \in Locks(i) /\ fd[i][1] # NoFile /\ fd[i][2] = NoFile
      BY <1>2, <1>5, LocksTyped DEF LockInv, FilesOpen, Locks
    <2>2. depth[j] \in Nat /\ depth[j] >= 1 /\ fd[j][1] # NoFile
      BY <1>1, <1>2, DepthTyped DEF LockInv, FilesOpen, Locks
    <2>3. fd[i][1] = path[LocksOf[i][1]] /\ fd[j][1] = path[LocksOf[i][1]]
      BY <1>1, <1>6, <2>1, <2>2 DEF LockInv, NamedFile
    <2>4. 1 \in 1 .. depth[i] /\ 1 \in 1 .. depth[j]
      BY <1>5, <2>2
    <2>5. i = j
      BY <2>3, <2>4 DEF LockInv, OneHolder
    <2> QED  BY <1>1, <1>2, <2>1, <2>5
  <1> QED  BY <1>5, <1>6

(* The release of a lock file: the first such release takes no first name  *)
(* away before it is over.                                                 *)
LEMMA RemoveKept ==
  ASSUME LockInv, NEW i \in Instance, RemoveFile(i)
  PROVE  NamedFile' /\ OneRelease'
  <1> DEFINE n == LocksOf[i][depth[i] + 1]
  <1>0. LockTypeOK /\ PlaceTells /\ NamedFile /\ OneRelease
    BY DEF LockInv
  <1>1. /\ depth[i] + 1 \in Locks(i) /\ depth[i] \in Nat /\ state[i] = "unlocked"
        /\ path' = [path EXCEPT ![n] = NoFile]
        /\ removed' = removed \cup {n}
        /\ releases' = IF depth[i] + 1 = Len(LocksOf[i]) THEN releases + 1 ELSE releases
        /\ \A j \in Instance : \A k \in Locks(j) : fd'[j][k] \in {NoFile, fd[j][k]}
        /\ \A r \in Instance :
             Releasing(r)' <=> IF r = i THEN depth[i] > 0 ELSE Releasing(r)
    BY RemoveEffect
  <1>2. n \in Name /\ releases \in Nat /\ depth[i] + 1 =< Len(LocksOf[i])
    BY <1>0, <1>1, LocksTyped DEF LockTypeOK, Locks
  <1>3. \A j \in Instance : n = LocksOf[j][1] => depth[i] = 0
    BY <1>1, LocksTyped, OrderAssumption DEF Locks
  <1> HIDE DEF n
  <1>4. NamedFile'
    <2> SUFFICES ASSUME NEW j \in Instance, NEW k \in Locks(j),
                        fd'[j][k] # NoFile, LocksOf[j][k] \notin removed'
                 PROVE  fd'[j][k] = path'[LocksOf[j][k]]
      BY DEF NamedFile, Locks
    <2>1. fd'[j][k] = fd[j][k] /\ LocksOf[j][k] \notin removed /\ LocksOf[j][k] # n
      BY <1>1
    <2>2. fd[j][k] = path[LocksOf[j][k]]
      BY <1>0, <2>1 DEF NamedFile
    <2>3. path'[LocksOf[j][k]] = path[LocksOf[j][k]]
      BY <1>0, <1>1, <2>1, LocksTyped DEF LockTypeOK
    <2> QED  BY <2>1, <2>2, <2>3
  <1>5. releases' > 0
    <2>1. CASE depth[i] + 1 = Len(LocksOf[i])
      BY <1>1, <1>2, <2>1
    <2>2. CASE depth[i] + 1 # Len(LocksOf[i])
      <3>1. Releasing(i)
        BY <1>1, <1>2, <2>2, LocksTyped DEF Releasing
      <3> QED  BY <1>0, <1>1, <2>2, <3>1 DEF OneRelease
    <2> QED  BY <2>1, <2>2
  <1>6. ASSUME releases' =< 1
        PROVE  /\ \A r, q \in Instance : Releasing(r)' /\ Releasing(q)' => r = q
               /\ \A r, q \in Instance : Releasing(r)' => LocksOf[q][1] \notin removed'
               /\ \A j \in Instance : Stale(j)' =>
                    /\ LocksOf[j][1] \notin removed'
                    /\ \A r \in Instance : Releasing(r)' => LocksOf[j][1] # LocksOf[r][1]
    <2>1. /\ \A q \in Instance : LocksOf[q][1] \notin removed
          /\ \A r \in Instance : Releasing(r) => r = i
          /\ \A j \in Instance : Stale(j) => LocksOf[j][1] # LocksOf[i][1]
      <3>1. CASE depth[i] + 1 = Len(LocksOf[i])
        <4>1. releases = 0
          BY <1>1, <1>2, <1>6, <3>1
        <4>2. removed = {} /\ \A r \in Instance : ~Releasing(r)
          BY <1>0, <4>1 DEF OneRelease
        <4>3. \A j \in Instance : ~Stale(j)
          BY <1>0, <4>2, LocksTyped DEF NamedFile, Stale, Locks
        <4> QED  BY <4>2, <4>3
      <3>2. CASE depth[i] + 1 # Len(LocksOf[i])
        <4>1. Releasing(i) /\ releases =< 1
          BY <1>1, <1>2, <1>6, <3>2, LocksTyped DEF Releasing
        <4> QED  BY <1>0, <4>1 DEF OneRelease
      <3> QED  BY <3>1, <3>2
    <2>2. \A r \in Instance : Releasing(r)' => r = i /\ depth[i] > 0
      BY <1>1, <2>1
    <2>3. \A r, q \in Instance : Releasing(r)' => LocksOf[q][1] \notin removed'
      BY <1>1, <1>3, <2>1, <2>2
    <2>4. ASSUME NEW j \in Instance, Stale(j)'
          PROVE  LocksOf[j][1] \notin removed' /\ LocksOf[j][1] # LocksOf[i][1]
      <3>1. LocksOf[j][1] # LocksOf[i][1]
        BY <2>1, <2>4, BecomesStale
      <3>2. n # LocksOf[j][1]
        BY <1>3, <3>1 DEF n
      <3> QED  BY <1>1, <2>1, <3>1, <3>2
    <2> QED  BY <2>2, <2>3, <2>4
  <1> QED  BY <1>4, <1>5, <1>6 DEF OneRelease

LEMMA LockInvKept ==
  ASSUME LockInv, [LockNext]_lockVars
  PROVE  LockInv'
  <1>1. LockTypeOK' /\ PlaceTells'
    BY LockTyped
  <1>2. LocksHeld' /\ FilesOpen' /\ OneHolder'
    BY HeldKept
  <1>0. LockTypeOK
    BY DEF LockInv
  <1>3. NamedFile' /\ OneRelease'
    <2> SUFFICES ASSUME NEW i \in Instance,
                        \/ Open(i) \/ Lock(i) \/ Refused(i) \/ UnlockFile(i)
                        \/ RemoveFile(i) \/ Crash(i) \/ Start(i)
                 PROVE  NamedFile' /\ OneRelease'
      <3>1. CASE UNCHANGED lockVars
        BY <3>1, NothingRemoved DEF lockVars, Releasing
      <3> QED  BY <3>1 DEF LockNext
    <2>1. CASE Open(i)
      BY <2>1, OpenKept
    <2>2. CASE Lock(i)
      <3>1. \A r \in Instance : Releasing(r)' => Releasing(r)
        BY <1>0, <2>2 DEF Lock, Enters, Releasing, LockTypeOK
      <3> QED  BY <2>2, <3>1, NothingRemoved DEF Lock
    <2>3. ASSUME Exit(i), UNCHANGED <<path, created, removed, releases>>
          PROVE  NamedFile' /\ OneRelease'
      <3>1. \A r \in Instance : Releasing(r)' => Releasing(r)
        BY <1>0, <2>3 DEF Exit, Enters, Releasing, LockTypeOK
      <3> QED  BY <2>3, <3>1, ExitFiles, NothingRemoved
    <2>4. CASE Refused(i)
      BY <2>3, <2>4 DEF Refused
    <2>5. CASE UnlockFile(i)
      <3>1. depth[i] \in Nat /\ depth' = [depth EXCEPT ![i] = depth[i] - 1]
        BY <2>5, UnlockFiles DEF UnlockFile
      <3>2. state' = [state EXCEPT ![i] = "unlocked"]
        BY <2>5 DEF UnlockFile, Enters
      <3>3. state[i] = "running" => depth[i] = Len(LocksOf[i])
        BY DEF LockInv, PlaceTells
      <3>4. \A r \in Instance : Releasing(r)' => Releasing(r)
        <4>1. ASSUME Releasing(i)'
              PROVE  Releasing(i)
          <5>1. depth[i] < Len(LocksOf[i])
            BY <1>0, <3>1, <3>2, <4>1, LocksTyped DEF Releasing, LockTypeOK
          <5> QED  BY <2>5, <3>1, <3>3, <5>1, LocksTyped DEF UnlockFile, Releasing
        <4>2. \A r \in Instance \ {i} : Releasing(r)' => Releasing(r)
          BY <1>0, <3>1, <3>2 DEF Releasing, LockTypeOK
        <4> QED  BY <4>1, <4>2
      <3> QED  BY <2>5, <3>4, UnlockFiles, NothingRemoved DEF UnlockFile
    <2>6. CASE RemoveFile(i)
      BY <2>6, RemoveKept
    <2>7. CASE Crash(i)
      BY <2>3, <2>7 DEF Crash
    <2>8. CASE Start(i)
      <3>1. \A r \in Instance : Releasing(r)' => Releasing(r)
        BY <1>0, <2>8 DEF Start, Enters, Releasing, LockTypeOK
      <3> QED  BY <2>8, <3>1, NothingRemoved DEF Start
    <2> QED  BY <2>1, <2>2, <2>4, <2>5, <2>6, <2>7, <2>8
  <1> QED  BY <1>1, <1>2, <1>3 DEF LockInv

LEMMA LockInvHolds == LockSpec => []LockInv
  <1>1. LockInit => LockInv
    <2> SUFFICES ASSUME LockInit
                 PROVE  LockInv
      OBVIOUS
    <2> USE LocksTyped
    <2>1. \A i \in Instance : fd[i] \in [Locks(i) -> File \cup {NoFile}]
      BY DEF LockInit
    <2>2. LockTypeOK
      BY <2>1, MaxFilesAssumption DEF LockInit, LockTypeOK
    <2>3. LocksHeld /\ FilesOpen /\ OneHolder
      BY DEF LockInit, LocksHeld, FilesOpen, OneHolder, Locks
    <2>4. PlaceTells
      <3> SUFFICES ASSUME NEW i \in Instance
                   PROVE  /\ state[i] = "start" /\ depth[i] = 0
                          /\ depth[i] < Len(LocksOf[i])
        BY DEF PlaceTells
      <3>1. state[i] = "start" /\ depth[i] = 0
        BY DEF LockInit
      <3>2. Len(LocksOf[i]) \in Nat \ {0}
        OBVIOUS
      <3> QED  BY <3>1, <3>2
    <2>5. NamedFile /\ OneRelease
      BY DEF LockInit, NamedFile, OneRelease, Stale, Releasing, Locks
    <2> QED  BY <2>2, <2>3, <2>4, <2>5 DEF LockInv
  <1> QED  BY <1>1, LockInvKept, PTL DEF LockSpec

----------------------------------------------------------------------------

(* The locks keep their type, and a flock that was granted belongs to an   *)
(* instance that has the file open.                                        *)
THEOREM LockTypeCorrect == LockSpec => [](LockTypeOK /\ LocksHeld /\ FilesOpen)
  <1>1. LockInv => LockTypeOK /\ LocksHeld /\ FilesOpen
    BY DEF LockInv
  <1> QED  BY <1>1, LockInvHolds, PTL

(* The locks of util/lock.go exclude: of instances that share a lock file  *)
(* that nobody has removed at most one runs, whoever was refused, failed   *)
(* or died before.                                                         *)
THEOREM Exclusive == LockSpec => []ExclusiveUntilRemoved
  <1>1. LockInv => ExclusiveUntilRemoved
    <2> SUFFICES ASSUME LockInv, NEW i \in Running, NEW j \in Running,
                        NEW n \in NamesOf(i) \cap NamesOf(j), n \notin removed
                 PROVE  i = j
      BY DEF ExclusiveUntilRemoved
    <2>1. i \in Instance /\ j \in Instance /\ depth[i] = Len(LocksOf[i])
          /\ depth[j] = Len(LocksOf[j])
      BY DEF Running, LockInv, PlaceTells
    <2>2. PICK k \in Locks(i) : LocksOf[i][k] = n
      BY DEF NamesOf
    <2>3. PICK l \in Locks(j) : LocksOf[j][l] = n
      BY DEF NamesOf
    <2>4. k \in 1 .. depth[i] /\ l \in 1 .. depth[j]
      BY <2>1 DEF Locks
    <2>5. fd[i][k] # NoFile /\ fd[j][l] # NoFile
      BY <2>1, <2>4 DEF LockInv, FilesOpen, Locks
    <2>6. fd[i][k] = fd[j][l]
      BY <2>1, <2>2, <2>3, <2>5 DEF LockInv, NamedFile
    <2> QED  BY <2>1, <2>4, <2>6 DEF LockInv, OneHolder
  <1> QED  BY <1>1, LockInvHolds, PTL

(* Two locks are better than one: with main's two lock files in common,    *)
(* two instances never run together because of one release.                *)
THEOREM TwoLocksHold == LockSpec => []SecondLockHolds
  <1>1. LockInv => SecondLockHolds
    <2> SUFFICES ASSUME LockInv, NEW i \in Running, NEW j \in Running,
                        LocksOf[i] = LocksOf[j], Len(LocksOf[i]) > 1, releases =< 1
                 PROVE  i = j
      BY DEF SecondLockHolds
    <2>1. /\ i \in Instance /\ j \in Instance
          /\ depth[i] = Len(LocksOf[i]) /\ depth[j] = Len(LocksOf[i])
      BY DEF Running, LockInv, PlaceTells
    <2>2. \A k \in {1, 2} : /\ k \in Locks(i) /\ k \in Locks(j)
                            /\ k \in 1 .. depth[i] /\ k \in 1 .. depth[j]
      BY <2>1, LocksTyped DEF Locks
    <2>3. \A k \in {1, 2} : fd[i][k] # NoFile /\ fd[j][k] # NoFile
      BY <2>1, <2>2 DEF LockInv, FilesOpen
    <2>4. CASE LocksOf[i][1] \notin removed
      <3>1. fd[i][1] = fd[j][1]
        BY <2>1, <2>2, <2>3, <2>4 DEF LockInv, NamedFile
      <3> QED  BY <2>1, <2>2, <3>1 DEF LockInv, OneHolder
    <2>5. CASE LocksOf[i][1] \in removed
      <3>1. ~Stale(i) /\ ~Stale(j)
        BY <2>1, <2>5 DEF LockInv, OneRelease
      <3>2. fd[i][2] = fd[j][2]
        BY <2>3, <3>1 DEF Stale
      <3> QED  BY <2>1, <2>2, <3>2 DEF LockInv, OneHolder
    <2> QED  BY <2>4, <2>5
  <1> QED  BY <1>1, LockInvHolds, PTL

----------------------------------------------------------------------------
(* The inductive invariant of Screen.                                      *)

(* Where a goroutine has the mutex of its operation. *)
Inside == {"print", "store", "compose", "emit", "unlock"}

(* What an operation has still to print once it has begun. *)
Queues(op) ==
  IF op = "merge" THEN {<<"merge">>} ELSE {<<"audio", "video">>, <<"video">>}

(* g is in the middle of printing the status of a category. *)
Printing(g) ==
  \/ pc[g] \in {"print", "store"}
  \/ pc[g] \in {"compose", "emit"} /\ doing[g] \in Category

Shape ==
  \A g \in Goroutines :
    /\ pc[g] # "idle" => doing[g] \in Category \cup Loggers
    /\ pc[g] \in {"print", "store"} => doing[g] \in Category
    /\ queue[g] \in IF Printing(g) THEN Queues(doing[g]) ELSE {<<>>}

(* Who has which mutex. *)
Holders ==
  /\ \A g \in Goroutines :
       /\ pc[g] \in Inside => holder[MutexOf(doing[g])] = g
       /\ pc[g] = "emit" <=> holder["progress"] = g
  /\ \A m \in Mutex \ {"progress"} :
       holder[m] # none => pc[holder[m]] \in Inside /\ MutexOf(doing[holder[m]]) = m

(* The categories that g will yet store, and the one it has stored and     *)
(* will yet show.                                                          *)
Elements(q) == {c \in Category : \E i \in 1 .. Len(q) : q[i] = c}
ToStore(g) ==
  IF ~Printing(g) THEN {}
  ELSE Elements(IF pc[g] \in {"print", "store"} THEN queue[g] ELSE Tail(queue[g]))
ToShow(g) ==
  IF Printing(g) /\ pc[g] \in {"compose", "emit"} THEN {Head(queue[g])} ELSE {}

(* The status is the last update's, unless that one has yet to store it. *)
Stored ==
  /\ \A g \in Goroutines : pc[g] = "store" => message[g] = count[Head(queue[g])]
  /\ \A c \in Category :
       /\ status[c] =< count[c]
       /\ (\A g \in Goroutines : c \notin ToStore(g)) => status[c] = count[c]

(* The screen shows the status, unless who stored it has yet to show it. *)
Showing ==
  \A c \in Category :
    /\ Shown(c) =< status[c]
    /\ (\A g \in Goroutines : c \notin ToShow(g)) => Shown(c) = status[c]

(* The buffers: of who emits the screen's, of who has its mutex a Logger's. *)
Buffers ==
  /\ wroteStatus <=> (screen # <<>> \/ holder["progress"] # none)
  /\ \A g \in Goroutines :
       /\ pc[g] = "emit" =>
            buf = [up |-> IF screen = <<>> THEN 0 ELSE 3, rows |-> Data(g) \o StatusRows]
       /\ pc[g] \in {"compose", "emit"} /\ doing[g] \in Loggers =>
            lbuf[doing[g]] = [of |-> g, n |-> calls[g]]

(* What is logged was called for, once. *)
Logged ==
  \A g \in Goroutines :
    /\ said[g] \subseteq 0 .. calls[g]
    /\ pc[g] \in {"lock", "compose", "emit"} /\ doing[g] \in Loggers
         => calls[g] \notin said[g]

ScreenInv ==
  TypeOK /\ Shape /\ Holders /\ Stored /\ Showing /\ Buffers /\ Logged /\ LogKept

----------------------------------------------------------------------------

(* The queue of an operation: its first category, and what is left. *)
LEMMA QueueFacts ==
  ASSUME NEW op \in Category, NEW q \in Queues(op)
  PROVE  /\ q # <<>> /\ q \in Seq(Category) /\ Head(q) \in Category
         /\ MutexOf(Head(q)) = MutexOf(op)
         /\ Tail(q) \in Queues(op) \cup {<<>>}
         /\ \A c \in Elements(q) : MutexOf(c) = MutexOf(op)
         /\ Elements(q) = {Head(q)} \cup Elements(Tail(q))
         /\ Head(q) \notin Elements(Tail(q))
  <1>1. CASE q = <<"merge">>
    <2>1. Head(q) = "merge" /\ Tail(q) = <<>> /\ Len(q) = 1 /\ Len(Tail(q)) = 0
      BY <1>1
    <2>2. Elements(q) = {"merge"} /\ Elements(Tail(q)) = {}
      BY <1>1, <2>1 DEF Elements, Category
    <2> QED  BY <1>1, <2>1, <2>2 DEF Queues, MutexOf, Category
  <1>2. CASE q = <<"audio", "video">>
    <2>1. Head(q) = "audio" /\ Tail(q) = <<"video">> /\ Len(q) = 2 /\ Len(Tail(q)) = 1
      BY <1>2
    <2>2. Elements(q) = {"audio", "video"} /\ Elements(Tail(q)) = {"video"}
      BY <1>2, <2>1 DEF Elements, Category
    <2> QED  BY <1>2, <2>1, <2>2 DEF Queues, MutexOf, Category
  <1>3. CASE q = <<"video">>
    <2>1. Head(q) = "video" /\ Tail(q) = <<>> /\ Len(q) = 1 /\ Len(Tail(q)) = 0
      BY <1>3
    <2>2. Elements(q) = {"video"} /\ Elements(Tail(q)) = {}
      BY <1>3, <2>1 DEF Elements, Category
    <2> QED  BY <1>3, <2>1, <2>2 DEF Queues, MutexOf, Category
  <1> QED  BY <1>1, <1>2, <1>3 DEF Queues

LEMMA PrintsFacts ==
  ASSUME NEW op \in Category
  PROVE  Prints(op) \in Queues(op) /\ op \in Elements(Prints(op))
  <1>1. Len(Prints(op)) = IF op = "merge" THEN 1 ELSE 2
    BY DEF Prints
  <1> QED  BY <1>1 DEF Prints, Queues, Category, Elements

(* The mutex of an operation is not that of the screen, and that of a      *)
(* Logger is its own.                                                      *)
LEMMA MutexFacts ==
  ASSUME NEW op \in Category \cup Loggers
  PROVE  MutexOf(op) \in Mutex \ {"progress"}
  BY LoggersAssumption DEF MutexOf, Mutex, Category

(* A function on 1 .. n is a sequence of length n. *)
LEMMA FunctionIsSeq ==
  ASSUME NEW S, NEW n \in Nat, NEW f \in [1 .. n -> S]
  PROVE  f \in Seq(S) /\ Len(f) = n
  <1>1. f \in Seq(S)
    BY SeqDef
  <1>2. Len(f) \in Nat /\ DOMAIN f = 1 .. Len(f)
    BY <1>1, LenProperties
  <1>3. 1 .. n = 1 .. Len(f)
    BY <1>2
  <1>4. n \in 1 .. n \/ n = 0
    OBVIOUS
  <1>5. Len(f) \in 1 .. Len(f) \/ Len(f) = 0
    BY <1>2
  <1> QED  BY <1>1, <1>2, <1>3, <1>4, <1>5

LEMMA StatusRowsFacts ==
  ASSUME TypeOK
  PROVE  /\ StatusRows \in Seq(Row) /\ Len(StatusRows) = 3
         /\ \A i \in 1 .. 3 :
              StatusRows[i] = [of |-> progressOrder[i], n |-> status[progressOrder[i]]]
  <1>1. progressOrder[1] = "audio" /\ progressOrder[2] = "video" /\ progressOrder[3] = "merge"
    BY DEF progressOrder
  <1>2. \A i \in 1 .. 3 : progressOrder[i] \in Category
    BY <1>1 DEF Category
  <1>3. \A i \in 1 .. 3 : [of |-> progressOrder[i], n |-> status[progressOrder[i]]] \in Row
    BY <1>2 DEF TypeOK, Row
  <1>4. StatusRows \in [1 .. 3 -> Row]
    BY <1>3 DEF StatusRows
  <1> QED  BY <1>4, FunctionIsSeq DEF StatusRows

LEMMA DataFacts ==
  ASSUME TypeOK, NEW g \in Goroutines
  PROVE  /\ Data(g) \in Seq(Row)
         /\ doing[g] \in Loggers => Len(Data(g)) = 1 /\ Data(g)[1] = lbuf[doing[g]]
         /\ doing[g] \notin Loggers => Len(Data(g)) = 0
  BY DEF TypeOK, Data

(* The rows above the status lines. *)
Kept == IF screen = <<>> THEN 0 ELSE Above

LEMMA KeptFacts ==
  ASSUME ScreenInv
  PROVE  Kept \in Nat /\ Kept =< Len(screen) /\ Len(screen) \in Nat
  <1>1. screen \in Seq(Row)
    BY DEF ScreenInv, TypeOK
  <1>2. screen # <<>> => Above >= 0
    BY DEF ScreenInv, LogKept
  <1> QED  BY <1>1, <1>2 DEF Kept, Above

(* What doWrite writes: the rows above stay, then comes the one that was   *)
(* logged, if any, and then the status.                                    *)
LEMMA PaintedFacts ==
  ASSUME ScreenInv, NEW g \in Goroutines, pc[g] = "emit"
  PROVE  /\ Painted \in Seq(Row)
         /\ Len(Painted) = Kept + Len(Data(g)) + 3
         /\ \A i \in 1 .. Kept : Painted[i] = screen[i]
         /\ doing[g] \in Loggers => Painted[Kept + 1] = lbuf[doing[g]]
         /\ \A i \in 1 .. 3 : Painted[Kept + Len(Data(g)) + i] = StatusRows[i]
  <1> DEFINE d == Data(g)
             r == d \o StatusRows
  <1>0. TypeOK /\ screen \in Seq(Row)
    BY DEF ScreenInv, TypeOK
  <1>1. Kept \in Nat /\ Kept =< Len(screen)
    BY KeptFacts
  <1>2. buf = [up |-> IF screen = <<>> THEN 0 ELSE 3, rows |-> r]
    BY DEF ScreenInv, Buffers
  <1>3. d \in Seq(Row) /\ Len(d) \in Nat /\ StatusRows \in Seq(Row) /\ Len(StatusRows) = 3
    BY <1>0, DataFacts, StatusRowsFacts
  <1>4. Len(screen) - buf.up = Kept
    BY <1>0, <1>2 DEF Kept, Above
  <1> HIDE DEF d
  <1>5. /\ r \in Seq(Row) /\ Len(r) = Len(d) + 3
        /\ \A i \in 1 .. Len(d) + 3 :
             r[i] = IF i <= Len(d) THEN d[i] ELSE StatusRows[i - Len(d)]
    <2>1. /\ d \o StatusRows \in Seq(Row)
          /\ Len(d \o StatusRows) = Len(d) + Len(StatusRows)
          /\ \A i \in 1 .. Len(d) + Len(StatusRows) :
               (d \o StatusRows)[i] = IF i <= Len(d) THEN d[i] ELSE StatusRows[i - Len(d)]
      BY <1>3, ConcatProperties, Zenon
    <2> QED  BY <1>3, <2>1
  <1>6. /\ \A i \in 1 .. Len(d) : r[i] = d[i]
        /\ \A i \in 1 .. 3 : r[Len(d) + i] = StatusRows[i]
    BY <1>3, <1>5
  <1> HIDE DEF r
  <1>7. Painted = [i \in 1 .. Kept + Len(r) |-> IF i =< Kept THEN screen[i] ELSE r[i - Kept]]
    BY <1>2, <1>4 DEF Painted
  <1>8. \A i \in 1 .. Kept + Len(r) : (IF i =< Kept THEN screen[i] ELSE r[i - Kept]) \in Row
    BY <1>0, <1>1, <1>3, <1>5
  <1>9. Painted \in [1 .. Kept + Len(r) -> Row]
    BY <1>7, <1>8
  <1>10. Painted \in Seq(Row) /\ Len(Painted) = Kept + Len(r)
    <2>1. Kept + Len(r) \in Nat
      BY <1>1, <1>3, <1>5
    <2> QED  BY <1>9, <2>1, FunctionIsSeq
  <1>11. \A i \in 1 .. Kept : Painted[i] = screen[i]
    BY <1>1, <1>3, <1>5, <1>7
  <1>12. \A i \in 1 .. Len(r) : Painted[Kept + i] = r[i]
    BY <1>1, <1>3, <1>5, <1>7
  <1>13. doing[g] \in Loggers => Painted[Kept + 1] = lbuf[doing[g]]
    <2>1. doing[g] \in Loggers => Len(d) = 1 /\ d[1] = lbuf[doing[g]]
      BY <1>0, DataFacts DEF d
    <2> QED  BY <1>5, <1>6, <1>12, <2>1
  <1>14. \A i \in 1 .. 3 : Painted[Kept + Len(d) + i] = StatusRows[i]
    <2> SUFFICES ASSUME NEW i \in 1 .. 3
                 PROVE  Painted[Kept + Len(d) + i] = StatusRows[i]
      OBVIOUS
    <2>1. Len(d) + i \in 1 .. Len(r) /\ Kept + Len(d) + i = Kept + (Len(d) + i)
      BY <1>1, <1>3, <1>5
    <2> QED  BY <1>6, <1>12, <2>1
  <1>15. Len(Painted) = Kept + Len(d) + 3
    BY <1>1, <1>3, <1>5, <1>10
  <1> QED  BY <1>10, <1>11, <1>13, <1>14, <1>15 DEF d

(* The row that shows a category is the one at its place. *)
LEMMA RowOfCategory ==
  ASSUME NEW s \in Seq(Row), Len(s) - 3 >= 0, NEW i \in 1 .. 3,
         \A k \in 1 .. 3 : s[Len(s) - 3 + k].of = progressOrder[k]
  PROVE  (CHOOSE k \in Len(s) - 3 + 1 .. Len(s) : s[k].of = progressOrder[i])
           = Len(s) - 3 + i
  <1>1. Len(s) \in Nat
    BY LenProperties
  <1>2. \A k, l \in 1 .. 3 : progressOrder[k] = progressOrder[l] => k = l
    BY DEF progressOrder
  <1>3. Len(s) - 3 + i \in Len(s) - 3 + 1 .. Len(s)
    BY <1>1
  <1>4. s[Len(s) - 3 + i].of = progressOrder[i]
    OBVIOUS
  <1>5. ASSUME NEW k \in Len(s) - 3 + 1 .. Len(s), s[k].of = progressOrder[i]
        PROVE  k = Len(s) - 3 + i
    <2>1. k - (Len(s) - 3) \in 1 .. 3 /\ k = Len(s) - 3 + (k - (Len(s) - 3))
      BY <1>1
    <2>2. progressOrder[k - (Len(s) - 3)] = progressOrder[i]
      BY <1>5, <2>1
    <2>3. k - (Len(s) - 3) = i
      BY <1>2, <2>1, <2>2
    <2> QED  BY <1>1, <2>3
  <1> QED  BY <1>3, <1>4, <1>5

LEMMA EachCategory ==
  ASSUME NEW c \in Category
  PROVE  \E i \in 1 .. 3 : progressOrder[i] = c
  <1>1. progressOrder[1] = "audio" /\ progressOrder[2] = "video" /\ progressOrder[3] = "merge"
    BY DEF progressOrder
  <1>2. 1 \in 1 .. 3 /\ 2 \in 1 .. 3 /\ 3 \in 1 .. 3
    OBVIOUS
  <1> QED  BY <1>1, <1>2 DEF Category

----------------------------------------------------------------------------
(* Each step keeps the invariant.                                          *)

(* The steps, and what none of them touches: the other goroutines. *)
LEMMA ScreenSteps ==
  ASSUME TypeOK, [Next]_vars
  PROVE  \/ UNCHANGED vars
         \/ \E g \in Goroutines :
              /\ Step(g) \/ (\E op \in Ops[g] : Call(g, op))
              /\ \A h \in Goroutines \ {g} :
                   /\ pc'[h] = pc[h] /\ doing'[h] = doing[h] /\ queue'[h] = queue[h]
                   /\ message'[h] = message[h] /\ calls'[h] = calls[h] /\ said'[h] = said[h]
  <1> SUFFICES ASSUME NEW g \in Goroutines, Step(g) \/ (\E op \in Ops[g] : Call(g, op)),
                      NEW h \in Goroutines \ {g}
               PROVE  /\ pc'[h] = pc[h] /\ doing'[h] = doing[h] /\ queue'[h] = queue[h]
                      /\ message'[h] = message[h] /\ calls'[h] = calls[h] /\ said'[h] = said[h]
    BY DEF Next, Terminated
  <1> USE DEF TypeOK, Goes
  <1>1. CASE \E op \in Ops[g] : Call(g, op)
    BY <1>1 DEF Call
  <1>2. CASE Update(g)
    BY <1>2 DEF Update
  <1>3. CASE FormatStatus(g)
    BY <1>3 DEF FormatStatus
  <1>4. CASE Store(g)
    BY <1>4 DEF Store
  <1>5. CASE Format(g)
    BY <1>5 DEF Format
  <1>6. CASE Compose(g)
    BY <1>6 DEF Compose
  <1>7. CASE Emit(g)
    BY <1>7 DEF Emit
  <1>8. CASE Unlock(g)
    BY <1>8 DEF Unlock
  <1> QED  BY <1>1, <1>2, <1>3, <1>4, <1>5, <1>6, <1>7, <1>8 DEF Step

LEMMA ScreenTyped ==
  ASSUME ScreenInv, NEW g \in Goroutines, Step(g) \/ (\E op \in Ops[g] : Call(g, op))
  PROVE  TypeOK'
  <1>0. TypeOK /\ Shape
    BY DEF ScreenInv
  <1>a. /\ progressOrder \in Seq(Category)
        /\ pc[g] \in {"print", "store"} => doing[g] \in Category
        /\ pc[g] \notin {"idle"} => doing[g] \in Category \cup Loggers
    BY <1>0 DEF Shape, progressOrder, Category
  <1>b. Printing(g) => /\ queue[g] \in Seq(Category) /\ Head(queue[g]) \in Category
                       /\ Tail(queue[g]) \in Seq(Category)
    <2> SUFFICES ASSUME Printing(g)
                 PROVE  /\ queue[g] \in Seq(Category) /\ Head(queue[g]) \in Category
                        /\ Tail(queue[g]) \in Seq(Category)
      OBVIOUS
    <2>1. doing[g] \in Category /\ queue[g] \in Queues(doing[g])
      BY <1>0 DEF Shape, Printing
    <2>2. queue[g] # <<>> /\ queue[g] \in Seq(Category) /\ Head(queue[g]) \in Category
      BY <2>1, QueueFacts
    <2> QED  BY <2>2, HeadTailProperties
  <1>1. CASE \E op \in Ops[g] : Call(g, op)
    <2>1. PICK op \in Ops[g] : Call(g, op)
      BY <1>1
    <2>2. op \in Category \cup Loggers
      BY OpsAssumption
    <2>3. calls[g] + 1 \in 0 .. MaxOps
      BY <1>0, <2>1, MaxOpsAssumption DEF TypeOK, Call
    <2> QED  BY <1>0, <2>1, <2>2, <2>3 DEF TypeOK, Call, Goes, display
  <1>2. CASE Update(g)
    <2>1. doing[g] \in Category /\ Prints(doing[g]) \in Queues(doing[g])
      BY <1>2, PrintsFacts DEF Update
    <2>2. Prints(doing[g]) \in Seq(Category)
      BY <2>1, QueueFacts
    <2>3. UNCHANGED <<status, wroteStatus, buf, screen, lbuf, doing, message, calls, said>>
      BY <1>2 DEF Update, display
    <2>4. /\ holder' \in [Mutex -> Goroutines \cup {none}] /\ count' \in [Category -> Nat]
          /\ queue' \in [Goroutines -> Seq(Category)]
          /\ pc' = [pc EXCEPT ![g] = "print"]
      <3>1. holder' = [holder EXCEPT ![MutexOf(doing[g])] = g]
        BY <1>2 DEF Update
      <3>2. count' = [count EXCEPT ![doing[g]] = count[doing[g]] + 1]
        BY <1>2 DEF Update
      <3>3. queue' = [queue EXCEPT ![g] = Prints(doing[g])]
        BY <1>2 DEF Update
      <3>4. pc' = [pc EXCEPT ![g] = "print"]
        BY <1>2 DEF Update, Goes
      <3>5. holder' \in [Mutex -> Goroutines \cup {none}]
        BY <1>0, <3>1 DEF TypeOK
      <3>6. count[doing[g]] + 1 \in Nat
        BY <1>0, <2>1 DEF TypeOK
      <3>7. count' \in [Category -> Nat]
        BY <1>0, <3>2, <3>6 DEF TypeOK
      <3>8. queue' \in [Goroutines -> Seq(Category)]
        BY <1>0, <2>2, <3>3 DEF TypeOK
      <3> QED  BY <3>4, <3>5, <3>7, <3>8
    <2> QED  BY <1>0, <2>3, <2>4 DEF TypeOK
  <1>3. CASE FormatStatus(g)
    <2>1. count[Head(queue[g])] \in Nat
      BY <1>0, <1>3, <1>b DEF FormatStatus, Printing, TypeOK
    <2> QED  BY <1>0, <1>3, <2>1 DEF TypeOK, FormatStatus, Goes, display
  <1>4. CASE Store(g)
    <2>1. status' \in [Category -> Nat]
      BY <1>0, <1>4, <1>b DEF Store, Printing, TypeOK
    <2> QED  BY <1>0, <1>4, <2>1 DEF TypeOK, Store, Goes
  <1>5. CASE Format(g)
    <2>1. [of |-> g, n |-> calls[g]] \in Row
      BY <1>0, MaxOpsAssumption DEF TypeOK, Row
    <2>2. lbuf' \in [Loggers -> Row] /\ holder' \in [Mutex -> Goroutines \cup {none}]
      BY <1>0, <1>5, <2>1 DEF TypeOK, Format
    <2> QED  BY <1>0, <1>5, <2>2 DEF TypeOK, Format, Goes, display
  <1>6. CASE Compose(g)
    <2>1. Data(g) \o StatusRows \in Seq(Row)
      BY <1>0, DataFacts, StatusRowsFacts, ConcatProperties
    <2>2. buf' \in [up : {0, 3}, rows : Seq(Row)]
      BY <1>6, <2>1 DEF Compose
    <2>3. holder' \in [Mutex -> Goroutines \cup {none}] /\ wroteStatus' = TRUE
      BY <1>0, <1>6 DEF TypeOK, Compose
    <2> QED  BY <1>0, <1>6, <2>2, <2>3 DEF TypeOK, Compose, Goes
  <1>7. CASE Emit(g)
    <2>1. screen' \in Seq(Row)
      BY <1>7, PaintedFacts DEF Emit
    <2>2. Rest(g) \in Seq(Category)
      BY <1>0, <1>7, <1>b DEF Emit, Rest, Printing, Shape
    <2>3. calls[g] \in Nat
      BY <1>0, MaxOpsAssumption DEF TypeOK
    <2>4. said' \in [Goroutines -> SUBSET Nat]
      BY <1>0, <1>7, <2>3 DEF TypeOK, Emit
    <2>5. /\ holder' \in [Mutex -> Goroutines \cup {none}]
          /\ queue' \in [Goroutines -> Seq(Category)]
          /\ pc' \in [Goroutines -> {"idle", "lock", "print", "store", "compose", "emit", "unlock"}]
      BY <1>0, <1>7, <2>2 DEF TypeOK, Emit, Goes
    <2> QED  BY <1>0, <1>7, <2>1, <2>4, <2>5 DEF TypeOK, Emit
  <1>8. CASE Unlock(g)
    BY <1>0, <1>8 DEF TypeOK, Unlock, Goes, display
  <1> QED  BY <1>1, <1>2, <1>3, <1>4, <1>5, <1>6, <1>7, <1>8 DEF Step

(* Each operation goes through its places in order, and has its mutex from *)
(* one to the other.                                                       *)
LEMMA HoldersKept ==
  ASSUME ScreenInv, NEW g \in Goroutines, Step(g) \/ (\E op \in Ops[g] : Call(g, op)),
         \A h \in Goroutines \ {g} :
           pc'[h] = pc[h] /\ doing'[h] = doing[h] /\ queue'[h] = queue[h]
  PROVE  Shape' /\ Holders'
  <1>0. TypeOK /\ Shape /\ Holders
    BY DEF ScreenInv
  <1>a. \A h \in Goroutines :
          pc[h] # "idle" => MutexOf(doing[h]) \in Mutex \ {"progress"}
    BY <1>0, MutexFacts DEF Shape
  <1>b. none \notin Goroutines /\ "progress" \in Mutex
    BY GoroutinesAssumption DEF Mutex
  <1>e. \A m \in Mutex \ {"progress"} :
          /\ holder[m] \notin {none, g} =>
               pc'[holder[m]] \in Inside /\ MutexOf(doing'[holder[m]]) = m
          /\ holder[m] = g => pc[g] \in Inside /\ MutexOf(doing[g]) = m
    <2> TAKE m \in Mutex \ {"progress"}
    <2>1. holder[m] # none => /\ holder[m] \in Goroutines
                             /\ pc[holder[m]] \in Inside /\ MutexOf(doing[holder[m]]) = m
      BY <1>0 DEF Holders, TypeOK
    <2> QED  BY <1>b, <2>1
  (* The others: what holds of them depends on their own state and mutex.  *)
  <1>c. ASSUME \A h \in Goroutines \ {g} :
                 /\ pc[h] \in Inside => holder'[MutexOf(doing[h])] = h
                 /\ pc[h] = "emit" <=> holder'["progress"] = h,
               pc'[g] # "idle" => doing'[g] \in Category \cup Loggers,
               pc'[g] \in {"print", "store"} => doing'[g] \in Category,
               queue'[g] \in IF Printing(g)' THEN Queues(doing'[g]) ELSE {<<>>},
               pc'[g] \in Inside => holder'[MutexOf(doing'[g])] = g,
               pc'[g] = "emit" <=> holder'["progress"] = g,
               \A m \in Mutex \ {"progress"} : holder'[m] # none =>
                 pc'[holder'[m]] \in Inside /\ MutexOf(doing'[holder'[m]]) = m
        PROVE  Shape' /\ Holders'
    <2>1. \A h \in Goroutines \ {g} : Printing(h)' <=> Printing(h)
      BY DEF Printing
    <2>2. Shape'
      BY <1>0, <1>c, <2>1 DEF Shape
    <2>3. Holders'
      BY <1>c DEF Holders
    <2> QED  BY <2>2, <2>3
  (* What follows when g neither takes nor returns the mutex of its operation. *)
  <1>d. ASSUME UNCHANGED doing, pc[g] \in Inside <=> pc'[g] \in Inside,
               \A m \in Mutex \ {"progress"} : holder'[m] = holder[m],
               pc'[g] # "idle" => doing[g] \in Category \cup Loggers
        PROVE  /\ \A h \in Goroutines \ {g} :
                    pc[h] \in Inside => holder'[MutexOf(doing[h])] = h
               /\ pc'[g] \in Inside => holder'[MutexOf(doing'[g])] = g
               /\ \A m \in Mutex \ {"progress"} : holder'[m] # none =>
                    pc'[holder'[m]] \in Inside /\ MutexOf(doing'[holder'[m]]) = m
    <2>1. \A h \in Goroutines : pc[h] \in Inside => holder'[MutexOf(doing[h])] = h
      BY <1>0, <1>a, <1>d DEF Holders, Inside
    <2>2. \A h \in Goroutines : pc'[h] \in Inside <=> pc[h] \in Inside
      BY <1>d
    <2>3. \A m \in Mutex : holder[m] # none => holder[m] \in Goroutines
      BY <1>0 DEF TypeOK
    <2> QED  BY <1>0, <1>d, <2>1, <2>2, <2>3 DEF Holders
  <1>1. CASE \E op \in Ops[g] : Call(g, op)
    <2>1. PICK op \in Ops[g] : Call(g, op)
      BY <1>1
    <2>2. op \in Category \cup Loggers
      BY OpsAssumption
    <2>3. pc[g] = "idle" /\ pc'[g] = "lock" /\ doing'[g] = op /\ UNCHANGED <<holder, queue>>
      BY <1>0, <2>1 DEF Call, Goes, TypeOK
    <2>4. ~Printing(g) /\ ~Printing(g)'
      BY <2>3 DEF Printing
    <2>5. \A m \in Mutex \ {"progress"} : holder'[m] # none =>
            pc'[holder'[m]] \in Inside /\ MutexOf(doing'[holder'[m]]) = m
      BY <1>e, <2>3 DEF Inside
    <2> QED  BY <1>0, <1>c, <2>2, <2>3, <2>4, <2>5 DEF Shape, Holders, Inside
  <1>2. CASE Update(g)
    <2>1. /\ pc[g] = "lock" /\ pc'[g] = "print" /\ doing' = doing /\ doing[g] \in Category
          /\ holder[MutexOf(doing[g])] = none /\ queue'[g] = Prints(doing[g])
          /\ holder' = [holder EXCEPT ![MutexOf(doing[g])] = g]
      BY <1>0, <1>2 DEF Update, Goes, TypeOK
    <2>2. queue'[g] \in Queues(doing[g]) /\ Printing(g)'
      BY <2>1, PrintsFacts DEF Printing
    <2>3. /\ \A m \in Mutex : holder'[m] = IF m = MutexOf(doing[g]) THEN g ELSE holder[m]
          /\ MutexOf(doing[g]) \in Mutex \ {"progress"}
      BY <1>0, <1>a, <2>1 DEF TypeOK
    <2>4. \A m \in Mutex \ {"progress"} : holder'[m] # none =>
            pc'[holder'[m]] \in Inside /\ MutexOf(doing'[holder'[m]]) = m
      BY <1>e, <2>1, <2>3 DEF Inside
    <2>5. \A h \in Goroutines \ {g} :
            /\ pc[h] \in Inside => holder'[MutexOf(doing[h])] = h
            /\ pc[h] = "emit" <=> holder'["progress"] = h
      BY <1>0, <1>a, <1>b, <2>1, <2>3 DEF Holders, Inside
    <2> QED  BY <1>0, <1>b, <1>c, <2>1, <2>2, <2>3, <2>4, <2>5 DEF Holders, Inside
  <1>5. CASE Format(g)
    <2>1. /\ pc[g] = "lock" /\ pc'[g] = "compose" /\ doing' = doing /\ doing[g] \in Loggers
          /\ holder[MutexOf(doing[g])] = none /\ queue' = queue
          /\ holder' = [holder EXCEPT ![MutexOf(doing[g])] = g]
      BY <1>0, <1>5, LoggersAssumption DEF Format, Goes, TypeOK, MutexOf
    <2>2. ~Printing(g) /\ ~Printing(g)'
      BY <2>1, LoggersAssumption DEF Printing, Category
    <2>3. /\ \A m \in Mutex : holder'[m] = IF m = MutexOf(doing[g]) THEN g ELSE holder[m]
          /\ MutexOf(doing[g]) \in Mutex \ {"progress"}
      BY <1>0, <1>a, <2>1 DEF TypeOK
    <2>4. \A m \in Mutex \ {"progress"} : holder'[m] # none =>
            pc'[holder'[m]] \in Inside /\ MutexOf(doing'[holder'[m]]) = m
      BY <1>e, <2>1, <2>3 DEF Inside
    <2>5. \A h \in Goroutines \ {g} :
            /\ pc[h] \in Inside => holder'[MutexOf(doing[h])] = h
            /\ pc[h] = "emit" <=> holder'["progress"] = h
      BY <1>0, <1>a, <1>b, <2>1, <2>3 DEF Holders, Inside
    <2> QED  BY <1>0, <1>b, <1>c, <2>1, <2>2, <2>3, <2>4, <2>5 DEF Shape, Holders, Inside
  <1>8. CASE Unlock(g)
    <2>1. /\ pc[g] = "unlock" /\ pc'[g] = "idle" /\ queue' = queue
          /\ holder' = [holder EXCEPT ![MutexOf(doing[g])] = none]
      BY <1>0, <1>8 DEF Unlock, Goes, TypeOK
    <2>2. ~Printing(g) /\ ~Printing(g)'
      BY <2>1 DEF Printing
    <2>3. /\ \A m \in Mutex : holder'[m] = IF m = MutexOf(doing[g]) THEN none ELSE holder[m]
          /\ MutexOf(doing[g]) \in Mutex \ {"progress"}
      BY <1>0, <1>a, <2>1 DEF TypeOK
    <2>4. \A m \in Mutex \ {"progress"} : holder'[m] # none =>
            pc'[holder'[m]] \in Inside /\ MutexOf(doing'[holder'[m]]) = m
      BY <1>e, <2>1, <2>3 DEF Inside
    <2>5. \A h \in Goroutines \ {g} :
            /\ pc[h] \in Inside => holder'[MutexOf(doing[h])] = h
            /\ pc[h] = "emit" <=> holder'["progress"] = h
      BY <1>0, <1>a, <1>b, <2>1, <2>3 DEF Holders, Inside
    <2> QED  BY <1>0, <1>b, <1>c, <2>1, <2>2, <2>3, <2>4, <2>5 DEF Shape, Holders, Inside
  (* The steps between: from one place inside to another. *)
  <1>3. CASE FormatStatus(g) \/ Store(g)
    <2>1. /\ pc[g] \in {"print", "store"} /\ pc'[g] \in {"store", "compose"}
          /\ UNCHANGED <<doing, queue, holder>>
      BY <1>0, <1>3 DEF FormatStatus, Store, Goes, TypeOK
    <2>2. Printing(g) /\ Printing(g)' /\ doing[g] \in Category
      BY <1>0, <2>1 DEF Printing, Shape
    <2>3. /\ \A h \in Goroutines \ {g} :
               pc[h] \in Inside => holder'[MutexOf(doing[h])] = h
          /\ pc'[g] \in Inside => holder'[MutexOf(doing'[g])] = g
          /\ \A m \in Mutex \ {"progress"} : holder'[m] # none =>
               pc'[holder'[m]] \in Inside /\ MutexOf(doing'[holder'[m]]) = m
      BY <1>d, <2>1, <2>2 DEF Inside
    <2> QED  BY <1>0, <1>c, <2>1, <2>2, <2>3 DEF Shape, Holders
  <1>6. CASE Compose(g)
    <2>1. /\ pc[g] = "compose" /\ pc'[g] = "emit" /\ UNCHANGED <<doing, queue>>
          /\ holder["progress"] = none /\ holder' = [holder EXCEPT !["progress"] = g]
      BY <1>0, <1>6 DEF Compose, Goes, TypeOK
    <2>2. Printing(g) <=> Printing(g)'
      BY <2>1 DEF Printing
    <2>3. \A m \in Mutex : holder'[m] = IF m = "progress" THEN g ELSE holder[m]
      BY <1>0, <2>1 DEF TypeOK
    <2>4. /\ \A h \in Goroutines \ {g} :
               pc[h] \in Inside => holder'[MutexOf(doing[h])] = h
          /\ pc'[g] \in Inside => holder'[MutexOf(doing'[g])] = g
          /\ \A m \in Mutex \ {"progress"} : holder'[m] # none =>
               pc'[holder'[m]] \in Inside /\ MutexOf(doing'[holder'[m]]) = m
      BY <1>0, <1>d, <2>1, <2>3 DEF Inside, Shape
    <2> QED  BY <1>0, <1>b, <1>c, <2>1, <2>2, <2>3, <2>4 DEF Shape, Holders
  <1>7. CASE Emit(g)
    <2>1. /\ pc[g] = "emit" /\ doing' = doing
          /\ pc'[g] = IF Rest(g) = <<>> THEN "unlock" ELSE "print"
          /\ queue'[g] = Rest(g) /\ holder' = [holder EXCEPT !["progress"] = none]
      BY <1>0, <1>7 DEF Emit, Goes, TypeOK
    <2>2. \A m \in Mutex : holder'[m] = IF m = "progress" THEN none ELSE holder[m]
      BY <1>0, <2>1 DEF TypeOK
    <2>3. Rest(g) \in IF Rest(g) # <<>> THEN Queues(doing[g]) ELSE {<<>>}
      <3>1. CASE Printing(g)
        <4>1. queue[g] \in Queues(doing[g]) /\ doing[g] \in Category
          BY <1>0, <2>1, <3>1 DEF Shape, Printing
        <4>2. Tail(queue[g]) \in Queues(doing[g]) \cup {<<>>} /\ queue[g] # <<>>
          BY <4>1, QueueFacts
        <4> QED  BY <4>2 DEF Rest
      <3>2. CASE ~Printing(g)
        BY <1>0, <3>2 DEF Shape, Rest
      <3> QED  BY <3>1, <3>2
    <2>4. Rest(g) # <<>> => doing[g] \in Category
      BY <1>0, <2>1 DEF Shape, Rest, Printing
    <2>5. Printing(g)' <=> Rest(g) # <<>>
      BY <2>1 DEF Printing
    <2>6. /\ \A h \in Goroutines \ {g} :
               pc[h] \in Inside => holder'[MutexOf(doing[h])] = h
          /\ pc'[g] \in Inside => holder'[MutexOf(doing'[g])] = g
          /\ \A m \in Mutex \ {"progress"} : holder'[m] # none =>
               pc'[holder'[m]] \in Inside /\ MutexOf(doing'[holder'[m]]) = m
      BY <1>0, <1>d, <2>1, <2>2 DEF Inside, Shape
    <2> QED  BY <1>0, <1>b, <1>c, <2>1, <2>2, <2>3, <2>4, <2>5, <2>6 DEF Shape, Holders
  <1> QED  BY <1>1, <1>2, <1>3, <1>5, <1>6, <1>7, <1>8 DEF Step

(* The categories that g has to store and to show, after each step. *)
LEMMA Printed ==
  ASSUME ScreenInv, NEW g \in Goroutines
  PROVE  /\ \A op \in Ops[g] : Call(g, op) => ToStore(g)' = ToStore(g) /\ ToShow(g)' = ToShow(g)
         /\ Update(g) => ToStore(g)' = Elements(Prints(doing[g])) /\ ToShow(g)' = ToShow(g)
         /\ FormatStatus(g) => ToStore(g)' = ToStore(g) /\ ToShow(g)' = ToShow(g)
         /\ Store(g) => /\ Head(queue[g]) \in Category
                        /\ ToStore(g) = ToStore(g)' \cup {Head(queue[g])}
                        /\ ToShow(g) = {} /\ ToShow(g)' = {Head(queue[g])}
         /\ Format(g) => ToStore(g)' = ToStore(g) /\ ToShow(g)' = ToShow(g)
         /\ Compose(g) => ToStore(g)' = ToStore(g) /\ ToShow(g)' = ToShow(g)
         /\ Emit(g) => ToStore(g)' = ToStore(g)
         /\ Unlock(g) => ToStore(g)' = ToStore(g) /\ ToShow(g)' = ToShow(g)
  <1>0. TypeOK /\ Shape
    BY DEF ScreenInv
  <1>1. ASSUME NEW op \in Ops[g], Call(g, op)
        PROVE  ToStore(g)' = ToStore(g) /\ ToShow(g)' = ToShow(g)
    <2>1. pc[g] = "idle" /\ pc'[g] = "lock"
      BY <1>0, <1>1 DEF Call, Goes, TypeOK
    <2> QED  BY <2>1 DEF ToStore, ToShow, Printing
  <1>2. ASSUME Update(g)
        PROVE  ToStore(g)' = Elements(Prints(doing[g])) /\ ToShow(g)' = ToShow(g)
    <2>1. pc[g] = "lock" /\ pc'[g] = "print" /\ queue'[g] = Prints(doing[g])
      BY <1>0, <1>2 DEF Update, Goes, TypeOK
    <2> QED  BY <2>1 DEF ToStore, ToShow, Printing
  <1>3. ASSUME FormatStatus(g)
        PROVE  ToStore(g)' = ToStore(g) /\ ToShow(g)' = ToShow(g)
    <2>1. pc[g] = "print" /\ pc'[g] = "store" /\ queue' = queue
      BY <1>0, <1>3 DEF FormatStatus, Goes, TypeOK
    <2> QED  BY <2>1 DEF ToStore, ToShow, Printing
  <1>4. ASSUME Store(g)
        PROVE  /\ Head(queue[g]) \in Category
               /\ ToStore(g) = ToStore(g)' \cup {Head(queue[g])}
               /\ ToShow(g) = {} /\ ToShow(g)' = {Head(queue[g])}
    <2>1. pc[g] = "store" /\ pc'[g] = "compose" /\ queue' = queue /\ doing' = doing
      BY <1>0, <1>4 DEF Store, Goes, TypeOK
    <2>2. doing[g] \in Category /\ queue[g] \in Queues(doing[g])
      BY <1>0, <2>1 DEF Shape, Printing
    <2>3. /\ Head(queue[g]) \in Category
          /\ Elements(queue[g]) = {Head(queue[g])} \cup Elements(Tail(queue[g]))
      BY <2>2, QueueFacts
    <2> QED  BY <2>1, <2>2, <2>3 DEF ToStore, ToShow, Printing
  <1>5. ASSUME Format(g)
        PROVE  ToStore(g)' = ToStore(g) /\ ToShow(g)' = ToShow(g)
    <2>1. pc[g] = "lock" /\ pc'[g] = "compose" /\ doing' = doing /\ doing[g] \notin Category
      BY <1>0, <1>5, LoggersAssumption DEF Format, Goes, TypeOK, Category
    <2> QED  BY <2>1 DEF ToStore, ToShow, Printing
  <1>6. ASSUME Compose(g)
        PROVE  ToStore(g)' = ToStore(g) /\ ToShow(g)' = ToShow(g)
    <2>1. pc[g] = "compose" /\ pc'[g] = "emit" /\ queue' = queue /\ doing' = doing
      BY <1>0, <1>6 DEF Compose, Goes, TypeOK
    <2> QED  BY <2>1 DEF ToStore, ToShow, Printing
  <1>7. ASSUME Emit(g)
        PROVE  ToStore(g)' = ToStore(g)
    <2>1. /\ pc[g] = "emit" /\ pc'[g] = IF Rest(g) = <<>> THEN "unlock" ELSE "print"
          /\ queue'[g] = Rest(g) /\ doing' = doing
      BY <1>0, <1>7 DEF Emit, Goes, TypeOK
    <2>2. CASE Printing(g)
      <3>1. doing[g] \in Category /\ queue[g] \in Queues(doing[g])
        BY <1>0, <2>2 DEF Shape, Printing
      <3>2. Rest(g) = Tail(queue[g])
        BY <3>1, QueueFacts DEF Rest
      <3>3. Elements(<<>>) = {}
        BY DEF Elements
      <3> QED  BY <2>1, <2>2, <3>2, <3>3 DEF ToStore, Printing
    <2>3. CASE ~Printing(g)
      <3>1. Rest(g) = <<>>
        BY <1>0, <2>3 DEF Shape, Rest
      <3> QED  BY <2>1, <2>3, <3>1 DEF ToStore, Printing
    <2> QED  BY <2>2, <2>3
  <1>8. ASSUME Unlock(g)
        PROVE  ToStore(g)' = ToStore(g) /\ ToShow(g)' = ToShow(g)
    <2>1. pc[g] = "unlock" /\ pc'[g] = "idle"
      BY <1>0, <1>8 DEF Unlock, Goes, TypeOK
    <2> QED  BY <2>1 DEF ToStore, ToShow, Printing
  <1> QED  BY <1>1, <1>2, <1>3, <1>4, <1>5, <1>6, <1>7, <1>8

(* Who has a category to store or to show has its mutex. *)
LEMMA HasMutex ==
  ASSUME ScreenInv, NEW g \in Goroutines, NEW c \in ToStore(g) \cup ToShow(g)
  PROVE  holder[MutexOf(c)] = g
  <1>1. Printing(g)
    BY DEF ToStore, ToShow
  <1>2. doing[g] \in Category /\ queue[g] \in Queues(doing[g])
    BY <1>1 DEF ScreenInv, Shape, Printing
  <1>3. c \in {Head(queue[g])} \cup Elements(queue[g])
    BY <1>2, QueueFacts DEF ToStore, ToShow
  <1>4. MutexOf(c) = MutexOf(doing[g])
    BY <1>2, <1>3, QueueFacts
  <1>5. pc[g] \in Inside
    BY <1>1 DEF Printing, Inside
  <1> QED  BY <1>4, <1>5 DEF ScreenInv, Holders

(* A status is stored while the mutex keeps the progress from changing. *)
LEMMA StoredKept ==
  ASSUME ScreenInv, NEW g \in Goroutines, Step(g) \/ (\E op \in Ops[g] : Call(g, op)),
         \A h \in Goroutines \ {g} :
           /\ pc'[h] = pc[h] /\ doing'[h] = doing[h] /\ queue'[h] = queue[h]
           /\ message'[h] = message[h]
  PROVE  Stored'
  <1>0. TypeOK /\ Shape /\ Stored /\ Holders
    BY DEF ScreenInv
  <1>a. \A h \in Goroutines \ {g} : ToStore(h)' = ToStore(h)
    BY DEF ToStore, Printing
  <1>b. \A h \in Goroutines : pc[h] = "store" =>
          /\ Head(queue[h]) \in Category /\ holder[MutexOf(Head(queue[h]))] = h
    <2> SUFFICES ASSUME NEW h \in Goroutines, pc[h] = "store"
                 PROVE  Head(queue[h]) \in Category /\ holder[MutexOf(Head(queue[h]))] = h
      OBVIOUS
    <2>1. doing[h] \in Category /\ queue[h] \in Queues(doing[h])
      BY <1>0 DEF Shape, Printing
    <2> QED  BY <1>0, <2>1, QueueFacts DEF Holders, Inside
  (* Steps that leave the statuses and the progresses alone. *)
  <1>c. ASSUME UNCHANGED <<status, count>>, ToStore(g)' = ToStore(g),
               pc'[g] = "store" => message'[g] = count[Head(queue'[g])]
        PROVE  Stored'
    <2>1. \A h \in Goroutines : pc'[h] = "store" => message'[h] = count'[Head(queue'[h])]
      BY <1>0, <1>c DEF Stored
    <2>2. \A h \in Goroutines : ToStore(h)' = ToStore(h)
      BY <1>a, <1>c
    <2>3. \A c \in Category :
            /\ status'[c] =< count'[c]
            /\ (\A h \in Goroutines : c \notin ToStore(h)') => status'[c] = count'[c]
      BY <1>0, <1>c, <2>2 DEF Stored
    <2> QED  BY <2>1, <2>3 DEF Stored
  <1>1. CASE \E op \in Ops[g] : Call(g, op)
    <2>1. UNCHANGED <<status, count>> /\ pc'[g] = "lock"
      BY <1>0, <1>1 DEF Call, Goes, TypeOK, display
    <2> QED  BY <1>1, <1>c, <2>1, Printed
  <1>2. CASE Update(g)
    <2>1. /\ doing[g] \in Category /\ holder[MutexOf(doing[g])] = none /\ pc'[g] = "print"
          /\ UNCHANGED status
          /\ \A c \in Category : count'[c] = IF c = doing[g] THEN count[c] + 1 ELSE count[c]
      BY <1>0, <1>2 DEF Update, Goes, TypeOK, display
    <2>2. none \notin Goroutines
      BY GoroutinesAssumption
    <2>3. \A h \in Goroutines : pc'[h] = "store" => message'[h] = count'[Head(queue'[h])]
      <3> SUFFICES ASSUME NEW h \in Goroutines, pc'[h] = "store"
                   PROVE  message'[h] = count'[Head(queue'[h])]
        OBVIOUS
      <3>1. h # g /\ pc[h] = "store" /\ message'[h] = message[h] /\ queue'[h] = queue[h]
        BY <2>1
      <3>2. Head(queue[h]) \in Category /\ Head(queue[h]) # doing[g]
        BY <1>b, <2>1, <2>2, <3>1
      <3> QED  BY <1>0, <2>1, <3>1, <3>2 DEF Stored
    <2>4. doing[g] \in ToStore(g)' /\ ToStore(g) = {}
      <3>1. pc[g] = "lock"
        BY <1>2 DEF Update
      <3> QED  BY <1>2, <2>1, <3>1, Printed, PrintsFacts DEF ToStore, Printing
    <2>5. \A c \in Category :
            /\ status'[c] =< count'[c]
            /\ (\A h \in Goroutines : c \notin ToStore(h)') => status'[c] = count'[c]
      <3> TAKE c \in Category
      <3>1. status[c] \in Nat /\ count[c] \in Nat /\ status[c] =< count[c]
        BY <1>0 DEF TypeOK, Stored
      <3>2. (\A h \in Goroutines : c \notin ToStore(h)') =>
              c # doing[g] /\ \A h \in Goroutines : c \notin ToStore(h)
        BY <1>a, <2>4
      <3> QED  BY <1>0, <2>1, <3>1, <3>2 DEF Stored
    <2> QED  BY <2>3, <2>5 DEF Stored
  <1>3. CASE FormatStatus(g)
    <2>1. UNCHANGED <<status, count>> /\ message'[g] = count[Head(queue'[g])]
      BY <1>0, <1>3 DEF FormatStatus, TypeOK, display
    <2> QED  BY <1>3, <1>c, <2>1, Printed
  <1>4. CASE Store(g)
    <2> DEFINE c0 == Head(queue[g])
    <2>1. /\ c0 \in Category /\ ToStore(g) = ToStore(g)' \cup {c0}
          /\ pc[g] = "store" /\ pc'[g] = "compose" /\ UNCHANGED count
          /\ status' = [status EXCEPT ![c0] = message[g]]
      BY <1>0, <1>4, Printed DEF Store, Goes, TypeOK
    <2>2. message[g] = count[c0]
      BY <1>0, <2>1 DEF Stored
    <2> HIDE DEF c0
    <2>3. \A h \in Goroutines : pc'[h] = "store" => message'[h] = count'[Head(queue'[h])]
      BY <1>0, <2>1 DEF Stored
    <2>4. \A c \in Category : status'[c] = IF c = c0 THEN count[c] ELSE status[c]
      BY <1>0, <2>1, <2>2 DEF TypeOK
    <2>5. \A c \in Category :
            /\ status'[c] =< count'[c]
            /\ (\A h \in Goroutines : c \notin ToStore(h)') => status'[c] = count'[c]
      <3> TAKE c \in Category
      <3>1. status[c] \in Nat /\ count[c] \in Nat /\ status[c] =< count[c]
        BY <1>0 DEF TypeOK, Stored
      <3>2. c # c0 /\ (\A h \in Goroutines : c \notin ToStore(h)') =>
              \A h \in Goroutines : c \notin ToStore(h)
        BY <1>a, <2>1
      <3> QED  BY <1>0, <2>1, <2>4, <3>1, <3>2 DEF Stored
    <2> QED  BY <2>3, <2>5 DEF Stored
  <1>5. CASE Format(g)
    <2>1. UNCHANGED <<status, count>> /\ pc'[g] = "compose"
      BY <1>0, <1>5 DEF Format, Goes, TypeOK, display
    <2> QED  BY <1>5, <1>c, <2>1, Printed
  <1>6. CASE Compose(g)
    <2>1. UNCHANGED <<status, count>> /\ pc'[g] = "emit"
      BY <1>0, <1>6 DEF Compose, Goes, TypeOK
    <2> QED  BY <1>6, <1>c, <2>1, Printed
  <1>7. CASE Emit(g)
    <2>1. UNCHANGED <<status, count>> /\ pc'[g] # "store"
      BY <1>0, <1>7 DEF Emit, Goes, TypeOK
    <2> QED  BY <1>7, <1>c, <2>1, Printed
  <1>8. CASE Unlock(g)
    <2>1. UNCHANGED <<status, count>> /\ pc'[g] = "idle"
      BY <1>0, <1>8 DEF Unlock, Goes, TypeOK, display
    <2> QED  BY <1>8, <1>c, <2>1, Printed
  <1> QED  BY <1>1, <1>2, <1>3, <1>4, <1>5, <1>6, <1>7, <1>8 DEF Step

(* After doWrite the screen shows the status as it is. *)
LEMMA EmitShows ==
  ASSUME ScreenInv, NEW g \in Goroutines, Emit(g)
  PROVE  /\ screen' = Painted /\ screen' \in Seq(Row) /\ screen' # <<>>
         /\ Above' = Kept + Len(Data(g)) /\ Above' >= 0
         /\ \A i \in 1 .. 3 : screen'[Above' + i] = StatusRows[i]
         /\ \A c \in Category : Shown(c)' = status[c]
  <1>0. TypeOK
    BY DEF ScreenInv
  <1>1. screen' = Painted /\ pc[g] = "emit"
    BY DEF Emit
  <1>2. /\ screen' \in Seq(Row) /\ Len(screen') = Kept + Len(Data(g)) + 3
        /\ \A i \in 1 .. 3 : screen'[Kept + Len(Data(g)) + i] = StatusRows[i]
    BY <1>1, PaintedFacts
  <1>3. Kept \in Nat /\ Len(Data(g)) \in Nat
    BY <1>0, KeptFacts, DataFacts, LenProperties
  <1>4. Len(screen') - 3 = Kept + Len(Data(g)) /\ Len(screen') - 3 >= 0
    BY <1>2, <1>3
  <1>5. screen' # <<>>
    <2>1. Len(screen') > 0
      BY <1>2, <1>3
    <2> QED  BY <2>1, EmptySeq
  <1>6. Above' = Len(screen') - 3
    BY DEF Above
  <1>7. \A i \in 1 .. 3 : screen'[Len(screen') - 3 + i] = StatusRows[i]
    BY <1>2, <1>4
  <1>8. ASSUME NEW c \in Category
        PROVE  Shown(c)' = status[c]
    <2>1. PICK i \in 1 .. 3 : progressOrder[i] = c
      BY EachCategory
    <2>2. \A k \in 1 .. 3 : StatusRows[k] = [of |-> progressOrder[k], n |-> status[progressOrder[k]]]
      BY <1>0, StatusRowsFacts
    <2>3. \A k \in 1 .. 3 : screen'[Len(screen') - 3 + k].of = progressOrder[k]
      BY <1>7, <2>2
    <2>4. (CHOOSE k \in Len(screen') - 3 + 1 .. Len(screen') : screen'[k].of = progressOrder[i])
            = Len(screen') - 3 + i
      BY <1>2, <1>4, <2>3, RowOfCategory
    <2>5. Shown(c)' = screen'[Len(screen') - 3 + i].n
      BY <1>5, <2>1, <2>4 DEF Shown, Above
    <2>6. screen'[Len(screen') - 3 + i] = [of |-> progressOrder[i], n |-> status[progressOrder[i]]]
      BY <1>7, <2>2
    <2> QED  BY <2>1, <2>5, <2>6
  <1> QED  BY <1>1, <1>2, <1>4, <1>5, <1>6, <1>7, <1>8

(* The screen lags behind the status by what is yet to be shown, and no    *)
(* status on it is replaced by an older one.                               *)
LEMMA ShowingKept ==
  ASSUME ScreenInv, NEW g \in Goroutines, Step(g) \/ (\E op \in Ops[g] : Call(g, op)),
         \A h \in Goroutines \ {g} :
           pc'[h] = pc[h] /\ doing'[h] = doing[h] /\ queue'[h] = queue[h]
  PROVE  Showing' /\ \A c \in Category : Shown(c)' >= Shown(c)
  <1>0. TypeOK /\ Shape /\ Stored /\ Showing
    BY DEF ScreenInv
  <1>a. \A h \in Goroutines \ {g} : ToShow(h)' = ToShow(h)
    BY DEF ToShow, Printing
  (* Shown(c) is the number of a row of the screen, or 0. *)
  <1>b. \A c \in Category : Shown(c) \in Nat
    <2> SUFFICES ASSUME NEW c \in Category, screen # <<>>
                 PROVE  Shown(c) \in Nat
      BY DEF Shown
    <2>1. PICK i \in 1 .. 3 : progressOrder[i] = c
      BY EachCategory
    <2>2. /\ screen \in Seq(Row) /\ Len(screen) \in Nat /\ Len(screen) - 3 >= 0
          /\ \A k \in 1 .. 3 : screen[Len(screen) - 3 + k].of = progressOrder[k]
      BY <1>0, KeptFacts DEF ScreenInv, LogKept, Above, TypeOK
    <2>3. (CHOOSE k \in Len(screen) - 3 + 1 .. Len(screen) : screen[k].of = progressOrder[i])
            = Len(screen) - 3 + i
      BY <2>2, RowOfCategory
    <2>4. Shown(c) = screen[Len(screen) - 3 + i].n
      BY <2>1, <2>3 DEF Shown, Above
    <2>5. Len(screen) - 3 + i \in 1 .. Len(screen)
      BY <2>2
    <2>6. screen[Len(screen) - 3 + i] \in Row
      BY <2>2, <2>5, ElementOfSeq
    <2> QED  BY <2>4, <2>6 DEF Row
  <1>c. ASSUME UNCHANGED <<status, screen>>, ToShow(g)' = ToShow(g)
        PROVE  Showing' /\ \A c \in Category : Shown(c)' >= Shown(c)
    <2>1. \A c \in Category : Shown(c)' = Shown(c)
      BY <1>c DEF Shown, Above
    <2>2. \A h \in Goroutines : ToShow(h)' = ToShow(h)
      BY <1>a, <1>c
    <2>3. Showing'
      BY <1>0, <1>c, <2>1, <2>2 DEF Showing
    <2> QED  BY <1>b, <2>1, <2>3
  <1>1. CASE \E op \in Ops[g] : Call(g, op)
    BY <1>1, <1>c, Printed DEF Call, display
  <1>2. CASE Update(g)
    BY <1>2, <1>c, Printed DEF Update, display
  <1>3. CASE FormatStatus(g)
    BY <1>3, <1>c, Printed DEF FormatStatus, display
  <1>4. CASE Store(g)
    <2> DEFINE c0 == Head(queue[g])
    <2>1. /\ c0 \in Category /\ ToShow(g) = {} /\ ToShow(g)' = {c0}
          /\ UNCHANGED screen /\ status' = [status EXCEPT ![c0] = message[g]]
          /\ pc[g] = "store"
      BY <1>4, Printed DEF Store
    <2>2. message[g] = count[c0]
      BY <1>0, <2>1 DEF Stored
    <2> HIDE DEF c0
    <2>3. \A c \in Category : status'[c] = IF c = c0 THEN count[c] ELSE status[c]
      BY <1>0, <2>1, <2>2 DEF TypeOK
    <2>4. \A c \in Category : Shown(c)' = Shown(c)
      BY <2>1 DEF Shown, Above
    <2>5. Showing'
      <3> SUFFICES ASSUME NEW c \in Category
                   PROVE  /\ Shown(c)' =< status'[c]
                          /\ (\A h \in Goroutines : c \notin ToShow(h)') => Shown(c)' = status'[c]
        BY DEF Showing
      <3>1. /\ status[c] \in Nat /\ count[c] \in Nat /\ status[c] =< count[c]
            /\ Shown(c) \in Nat /\ Shown(c) =< status[c]
        BY <1>0, <1>b DEF TypeOK, Stored, Showing
      <3>2. (\A h \in Goroutines : c \notin ToShow(h)') =>
              c # c0 /\ \A h \in Goroutines : c \notin ToShow(h)
        BY <1>a, <2>1
      <3> QED  BY <1>0, <2>3, <2>4, <3>1, <3>2 DEF Showing
    <2> QED  BY <1>b, <2>4, <2>5
  <1>5. CASE Format(g)
    BY <1>5, <1>c, Printed DEF Format, display
  <1>6. CASE Compose(g)
    BY <1>6, <1>c, Printed DEF Compose
  <1>7. CASE Emit(g)
    <2>1. \A c \in Category : Shown(c)' = status[c]
      BY <1>7, EmitShows
    <2>2. UNCHANGED status
      BY <1>7 DEF Emit
    <2>3. \A c \in Category : status[c] \in Nat
      BY <1>0 DEF TypeOK
    <2>4. Showing'
      BY <2>1, <2>2, <2>3 DEF Showing
    <2>5. \A c \in Category : Shown(c)' >= Shown(c)
      BY <1>0, <1>b, <2>1, <2>3 DEF Showing
    <2> QED  BY <2>4, <2>5
  <1>8. CASE Unlock(g)
    BY <1>8, <1>c, Printed DEF Unlock, display
  <1> QED  BY <1>1, <1>2, <1>3, <1>4, <1>5, <1>6, <1>7, <1>8 DEF Step

(* The buffers belong to who has their mutex. *)
LEMMA BuffersKept ==
  ASSUME ScreenInv, NEW g \in Goroutines, Step(g) \/ (\E op \in Ops[g] : Call(g, op)),
         \A h \in Goroutines \ {g} :
           pc'[h] = pc[h] /\ doing'[h] = doing[h] /\ calls'[h] = calls[h]
  PROVE  Buffers'
  <1>0. TypeOK /\ Shape /\ Holders /\ Buffers
    BY DEF ScreenInv
  <1>a. none \notin Goroutines /\ \A l \in Loggers : MutexOf(l) = l /\ l \notin Category
    BY GoroutinesAssumption, LoggersAssumption DEF MutexOf, Category
  <1>b. \A h \in Goroutines : pc[h] # "idle" => MutexOf(doing[h]) # "progress"
    BY <1>0, MutexFacts DEF Shape
  (* Steps that touch neither the screen nor a Logger's buffer. *)
  <1>c. ASSUME UNCHANGED <<wroteStatus, screen, lbuf, buf>>,
               holder'["progress"] = holder["progress"], pc'[g] # "emit",
               pc[g] # "emit" /\ holder["progress"] # none => UNCHANGED status,
               pc'[g] = "compose" => doing'[g] \notin Loggers
        PROVE  Buffers'
    <2>1. wroteStatus' <=> (screen' # <<>> \/ holder'["progress"] # none)
      BY <1>0, <1>c DEF Buffers
    <2>2. ASSUME NEW h \in Goroutines, pc'[h] = "emit"
          PROVE  buf' = [up |-> IF screen' = <<>> THEN 0 ELSE 3, rows |-> (Data(h) \o StatusRows)']
      <3>1. h # g /\ pc[h] = "emit" /\ holder["progress"] = h /\ doing'[h] = doing[h]
        BY <1>0, <1>c, <2>2 DEF Holders
      <3>2. pc[g] # "emit"
        BY <1>0, <3>1 DEF Holders
      <3>3. UNCHANGED status
        BY <1>a, <1>c, <3>1, <3>2
      <3>4. Data(h)' = Data(h) /\ StatusRows' = StatusRows
        BY <1>c, <3>1, <3>3 DEF Data, StatusRows
      <3> QED  BY <1>0, <1>c, <3>1, <3>4 DEF Buffers
    <2>3. ASSUME NEW h \in Goroutines, pc'[h] \in {"compose", "emit"}, doing'[h] \in Loggers
          PROVE  lbuf'[doing'[h]] = [of |-> h, n |-> calls'[h]]
      <3>1. h # g
        BY <1>c, <2>3
      <3> QED  BY <1>0, <1>c, <2>3, <3>1 DEF Buffers
    <2> QED  BY <2>1, <2>2, <2>3 DEF Buffers
  <1>1. CASE \E op \in Ops[g] : Call(g, op)
    <2>1. UNCHANGED <<wroteStatus, screen, lbuf, buf, status, holder>> /\ pc'[g] = "lock"
      BY <1>0, <1>1 DEF Call, Goes, TypeOK, display
    <2> QED  BY <1>c, <2>1
  <1>2. CASE Update(g)
    <2>1. /\ UNCHANGED <<wroteStatus, screen, lbuf, buf, status>> /\ pc'[g] = "print"
          /\ holder' = [holder EXCEPT ![MutexOf(doing[g])] = g] /\ pc[g] = "lock"
      BY <1>0, <1>2 DEF Update, Goes, TypeOK, display
    <2>2. holder'["progress"] = holder["progress"]
      BY <1>0, <1>b, <2>1 DEF TypeOK
    <2> QED  BY <1>c, <2>1, <2>2
  <1>3. CASE FormatStatus(g)
    <2>1. UNCHANGED <<wroteStatus, screen, lbuf, buf, status, holder>> /\ pc'[g] = "store"
      BY <1>0, <1>3 DEF FormatStatus, Goes, TypeOK, display
    <2> QED  BY <1>c, <2>1
  <1>4. CASE Store(g)
    <2>1. /\ UNCHANGED <<wroteStatus, screen, lbuf, buf, holder, doing>> /\ pc'[g] = "compose"
          /\ holder["progress"] = none /\ pc[g] = "store"
      BY <1>0, <1>4 DEF Store, Goes, TypeOK
    <2>2. doing'[g] \notin Loggers
      BY <1>0, <1>a, <2>1 DEF Shape
    <2> QED  BY <1>c, <2>1, <2>2
  <1>5. CASE Format(g)
    <2>1. /\ UNCHANGED <<wroteStatus, screen, buf, status, doing, calls>>
          /\ pc[g] = "lock" /\ pc'[g] = "compose" /\ doing[g] \in Loggers
          /\ holder[doing[g]] = none /\ holder' = [holder EXCEPT ![doing[g]] = g]
          /\ lbuf' = [lbuf EXCEPT ![doing[g]] = [of |-> g, n |-> calls[g]]]
      BY <1>0, <1>5 DEF Format, Goes, TypeOK, display
    <2>2. holder'["progress"] = holder["progress"]
      BY <1>0, <1>a, <1>b, <2>1 DEF TypeOK
    <2>3. \A h \in Goroutines \ {g} : pc[h] \in Inside => doing[h] # doing[g]
      BY <1>0, <1>a, <2>1 DEF Holders
    <2>4. wroteStatus' <=> (screen' # <<>> \/ holder'["progress"] # none)
      BY <1>0, <2>1, <2>2 DEF Buffers
    <2>5. ASSUME NEW h \in Goroutines, pc'[h] = "emit"
          PROVE  buf' = [up |-> IF screen' = <<>> THEN 0 ELSE 3, rows |-> (Data(h) \o StatusRows)']
      <3>1. h # g /\ pc[h] = "emit" /\ doing[h] # doing[g]
        BY <2>1, <2>3, <2>5 DEF Inside
      <3>2. Data(h)' = Data(h) /\ StatusRows' = StatusRows
        BY <1>0, <2>1, <3>1 DEF Data, StatusRows, TypeOK
      <3> QED  BY <1>0, <2>1, <3>1, <3>2 DEF Buffers
    <2>6. ASSUME NEW h \in Goroutines, pc'[h] \in {"compose", "emit"}, doing'[h] \in Loggers
          PROVE  lbuf'[doing'[h]] = [of |-> h, n |-> calls'[h]]
      <3>1. CASE h = g
        BY <1>0, <2>1, <3>1 DEF TypeOK
      <3>2. CASE h # g
        <4>1. doing[h] # doing[g] /\ doing[h] \in Loggers /\ pc[h] \in {"compose", "emit"}
          BY <2>1, <2>3, <2>6, <3>2 DEF Inside
        <4> QED  BY <1>0, <2>1, <3>2, <4>1 DEF Buffers, TypeOK
      <3> QED  BY <3>1, <3>2
    <2> QED  BY <2>4, <2>5, <2>6 DEF Buffers
  <1>6. CASE Compose(g)
    <2>1. /\ UNCHANGED <<screen, status, doing, calls, lbuf>>
          /\ pc[g] = "compose" /\ pc'[g] = "emit"
          /\ holder["progress"] = none /\ holder'["progress"] = g /\ wroteStatus' = TRUE
          /\ buf' = [up |-> IF wroteStatus THEN 3 ELSE 0, rows |-> Data(g) \o StatusRows]
      BY <1>0, <1>6 DEF Compose, Goes, TypeOK, Mutex
    <2>2. wroteStatus <=> screen # <<>>
      BY <1>0, <2>1 DEF Buffers
    <2>3. \A h \in Goroutines : pc'[h] = "emit" => h = g
      BY <1>0, <1>a, <2>1 DEF Holders
    <2>4. Data(g)' = Data(g) /\ StatusRows' = StatusRows
      BY <2>1 DEF Data, StatusRows
    <2>5. buf' = [up |-> IF screen' = <<>> THEN 0 ELSE 3, rows |-> (Data(g) \o StatusRows)']
      BY <2>1, <2>2, <2>4
    <2>6. \A h \in Goroutines : pc'[h] \in {"compose", "emit"} => pc[h] \in {"compose", "emit"}
      BY <2>1
    <2> QED  BY <1>0, <1>a, <2>1, <2>3, <2>5, <2>6 DEF Buffers
  <1>7. CASE Emit(g)
    <2>1. /\ UNCHANGED <<wroteStatus, doing, calls, lbuf>> /\ holder["progress"] = g
          /\ pc[g] = "emit" /\ pc'[g] \in {"unlock", "print"} /\ holder'["progress"] = none
      BY <1>0, <1>7 DEF Emit, Goes, TypeOK, Mutex, Holders
    <2>2. screen' # <<>> /\ wroteStatus'
      BY <1>0, <1>7, <1>a, <2>1, EmitShows DEF Buffers
    <2>3. \A h \in Goroutines : pc'[h] # "emit"
      BY <1>0, <2>1 DEF Holders
    <2>4. \A h \in Goroutines : pc'[h] = "compose" => pc[h] = "compose"
      BY <2>1
    <2> QED  BY <1>0, <2>1, <2>2, <2>3, <2>4 DEF Buffers
  <1>8. CASE Unlock(g)
    <2>1. /\ UNCHANGED <<wroteStatus, screen, lbuf, buf, status>> /\ pc'[g] = "idle"
          /\ holder' = [holder EXCEPT ![MutexOf(doing[g])] = none] /\ pc[g] = "unlock"
      BY <1>0, <1>8 DEF Unlock, Goes, TypeOK, display
    <2>2. holder'["progress"] = holder["progress"]
      BY <1>0, <1>b, <2>1 DEF TypeOK
    <2> QED  BY <1>c, <2>1, <2>2
  <1> QED  BY <1>1, <1>2, <1>3, <1>4, <1>5, <1>6, <1>7, <1>8 DEF Step

(* What a doWrite does to the logged lines: the lines of the screen stay,  *)
(* and that of a Logger's caller comes after its earlier ones.             *)
LEMMA EmitLogs ==
  ASSUME ScreenInv, NEW g \in Goroutines, Emit(g)
  PROVE  Logged' /\ LogKept'
  <1>0. TypeOK /\ Shape /\ Buffers /\ Logged /\ LogKept
    BY DEF ScreenInv
  <1> DEFINE d == Len(Data(g))
  <1>1. /\ pc[g] = "emit" /\ UNCHANGED <<calls, doing>>
        /\ \A h \in Goroutines : pc'[h] \in {"lock", "compose", "emit"} => h # g \/ doing[g] \notin Loggers
        /\ \A h \in Goroutines \ {g} : pc'[h] = pc[h]
    <2>1. pc[g] = "emit" /\ UNCHANGED <<calls, doing>> /\ pc'[g] \in {"unlock", "print"}
      BY <1>0 DEF Emit, Goes, TypeOK
    <2>2. pc'[g] \notin {"lock", "compose", "emit"}
      BY <2>1
    <2> QED  BY <1>0, <2>1, <2>2 DEF Emit, Goes, TypeOK
  <1>2. \A h \in Goroutines : calls[h] \in Nat
    BY <1>0, MaxOpsAssumption DEF TypeOK
  <1>3. \A h \in Goroutines :
          said'[h] = IF h = g /\ doing[g] \in Loggers THEN said[h] \cup {calls[h]} ELSE said[h]
    BY <1>0 DEF Emit, TypeOK
  <1>4. Logged'
    <2> SUFFICES ASSUME NEW h \in Goroutines
                 PROVE  /\ said'[h] \subseteq 0 .. calls'[h]
                        /\ pc'[h] \in {"lock", "compose", "emit"} /\ doing'[h] \in Loggers
                             => calls'[h] \notin said'[h]
      BY DEF Logged
    <2>1. said[h] \subseteq 0 .. calls[h] /\ calls[h] \in 0 .. calls[h]
      BY <1>0, <1>2 DEF Logged
    <2>2. said'[h] \subseteq 0 .. calls'[h]
      BY <1>1, <1>3, <2>1
    <2>3. ASSUME pc'[h] \in {"lock", "compose", "emit"}, doing'[h] \in Loggers
          PROVE  calls'[h] \notin said'[h]
      <3>1. h # g
        BY <1>1, <2>3
      <3>2. pc[h] \in {"lock", "compose", "emit"} /\ doing[h] \in Loggers
        BY <1>1, <2>3, <3>1
      <3> QED  BY <1>0, <1>1, <1>3, <3>1, <3>2 DEF Logged
    <2> QED  BY <2>2, <2>3
  <1>5. /\ screen' # <<>> /\ Above' = Kept + d /\ Above' >= 0
        /\ Kept \in Nat /\ d \in {0, 1} /\ (d = 1 <=> doing[g] \in Loggers)
        /\ \A i \in 1 .. 3 : screen'[Above' + i].of = progressOrder[i]
        /\ \A i \in 1 .. Kept : screen'[i] = screen[i]
        /\ d = 1 => screen'[Kept + 1] = [of |-> g, n |-> calls[g]]
    <2>1. /\ screen' = Painted /\ screen' # <<>> /\ Above' = Kept + d /\ Above' >= 0
          /\ \A i \in 1 .. 3 : screen'[Above' + i] = StatusRows[i]
      BY EmitShows
    <2>2. Kept \in Nat /\ d \in {0, 1} /\ (d = 1 <=> doing[g] \in Loggers)
      BY <1>0, KeptFacts, DataFacts
    <2>3. \A i \in 1 .. 3 : screen'[Above' + i].of = progressOrder[i]
      <3>1. \A i \in 1 .. 3 :
              StatusRows[i] = [of |-> progressOrder[i], n |-> status[progressOrder[i]]]
        BY <1>0, StatusRowsFacts
      <3> QED  BY <2>1, <3>1
    <2>4. \A i \in 1 .. Kept : screen'[i] = screen[i]
      BY <1>1, <2>1, PaintedFacts
    <2>5. d = 1 => screen'[Kept + 1] = [of |-> g, n |-> calls[g]]
      BY <1>0, <1>1, <2>1, <2>2, PaintedFacts DEF Buffers
    <2> QED  BY <2>1, <2>2, <2>3, <2>4, <2>5
  <1> HIDE DEF d
  (* The lines above, as they were. *)
  <1>6. /\ \A i \in 1 .. Kept : screen[i].of \in Goroutines
        /\ \A i, j \in 1 .. Kept :
             screen[i].of = screen[j].of /\ i < j => screen[i].n < screen[j].n
        /\ \A h \in Goroutines : \A n : n \in said[h] <=>
             \E i \in 1 .. Kept : screen[i].of = h /\ screen[i].n = n
    <2>1. CASE screen = <<>>
      <3>1. Kept = 0 /\ \A h \in Goroutines : said[h] = {}
        BY <1>0, <2>1 DEF Kept, LogKept
      <3> QED  BY <3>1
    <2>2. CASE screen # <<>>
      <3>1. Kept = Above
        BY <2>2 DEF Kept
      <3> QED  BY <1>0, <2>2, <3>1 DEF LogKept
    <2> QED  BY <2>1, <2>2
  <1>7. doing[g] \in Loggers => \A n \in said[g] : n < calls[g]
    <2> SUFFICES ASSUME doing[g] \in Loggers, NEW n \in said[g]
                 PROVE  n < calls[g]
      OBVIOUS
    <2>1. n \in 0 .. calls[g] /\ n # calls[g]
      BY <1>0, <1>1 DEF Logged
    <2> QED  BY <1>2, <2>1
  <1>8. \A i \in 1 .. Above' : i \in 1 .. Kept \/ (i = Kept + 1 /\ d = 1)
    BY <1>5
  <1>9. \A i \in 1 .. Above' : screen'[i].of \in Goroutines
    BY <1>5, <1>6, <1>8
  <1>10. ASSUME NEW i \in 1 .. Above', NEW j \in 1 .. Above',
                screen'[i].of = screen'[j].of, i < j
         PROVE  screen'[i].n < screen'[j].n
    <2>1. i \in 1 .. Kept
      BY <1>5, <1>8, <1>10
    <2>2. CASE j \in 1 .. Kept
      BY <1>5, <1>6, <1>10, <2>1, <2>2
    <2>3. CASE j = Kept + 1 /\ d = 1
      <3>1. screen[i].of = g /\ screen'[j].n = calls[g] /\ screen'[i] = screen[i]
        BY <1>5, <1>10, <2>1, <2>3
      <3>2. screen[i].n \in said[g]
        BY <1>6, <2>1, <3>1
      <3> QED  BY <1>5, <1>7, <2>3, <3>1, <3>2
    <2> QED  BY <1>8, <2>2, <2>3
  <1>11. ASSUME NEW h \in Goroutines
         PROVE  said'[h] = {screen'[i].n : i \in {k \in 1 .. Above' : screen'[k].of = h}}
    <2>1. ASSUME NEW n
          PROVE  n \in said'[h] <=> \E i \in 1 .. Above' : screen'[i].of = h /\ screen'[i].n = n
      <3>1. ASSUME n \in said[h]
            PROVE  \E i \in 1 .. Above' : screen'[i].of = h /\ screen'[i].n = n
        <4>1. PICK i \in 1 .. Kept : screen[i].of = h /\ screen[i].n = n
          BY <1>6, <3>1
        <4>2. i \in 1 .. Above'
          BY <1>5
        <4> QED  BY <1>5, <4>1, <4>2
      <3>2. ASSUME h = g, doing[g] \in Loggers, n = calls[h]
            PROVE  \E i \in 1 .. Above' : screen'[i].of = h /\ screen'[i].n = n
        <4>1. Kept + 1 \in 1 .. Above'
          BY <1>5, <3>2
        <4> QED  BY <1>5, <3>2, <4>1
      <3>3. ASSUME NEW i \in 1 .. Above', screen'[i].of = h, screen'[i].n = n
            PROVE  n \in said'[h]
        <4>1. CASE i \in 1 .. Kept
          <5>1. screen[i].of = h /\ screen[i].n = n
            BY <1>5, <3>3, <4>1
          <5>2. n \in said[h]
            BY <1>6, <4>1, <5>1
          <5> QED  BY <1>3, <5>2
        <4>2. CASE i = Kept + 1 /\ d = 1
          <5>1. h = g /\ n = calls[g] /\ doing[g] \in Loggers
            BY <1>5, <3>3, <4>2
          <5> QED  BY <1>3, <5>1
        <4> QED  BY <1>8, <4>1, <4>2
      <3> QED  BY <1>3, <3>1, <3>2, <3>3
    <2> QED  BY <2>1
  <1>12. LogKept'
    BY <1>5, <1>9, <1>10, <1>11 DEF LogKept
  <1> QED  BY <1>4, <1>12

LEMMA LoggedKept ==
  ASSUME ScreenInv, NEW g \in Goroutines, Step(g) \/ (\E op \in Ops[g] : Call(g, op)),
         \A h \in Goroutines \ {g} :
           pc'[h] = pc[h] /\ doing'[h] = doing[h] /\ calls'[h] = calls[h]
  PROVE  Logged' /\ LogKept'
  <1>0. TypeOK /\ Shape /\ Logged /\ LogKept
    BY DEF ScreenInv
  <1>a. \A h \in Goroutines : calls[h] \in Nat
    BY <1>0, MaxOpsAssumption DEF TypeOK
  <1>b. ASSUME UNCHANGED <<screen, said>>,
               \/ calls'[g] = calls[g] + 1
               \/ calls'[g] = calls[g]
                  /\ (pc'[g] \in {"lock", "compose", "emit"} /\ doing'[g] \in Loggers
                        => pc[g] \in {"lock", "compose", "emit"} /\ doing[g] \in Loggers)
        PROVE  Logged' /\ LogKept'
    <2>1. LogKept'
      BY <1>0, <1>b DEF LogKept, Above
    <2>2. ASSUME NEW h \in Goroutines
          PROVE  /\ said'[h] \subseteq 0 .. calls'[h]
                 /\ pc'[h] \in {"lock", "compose", "emit"} /\ doing'[h] \in Loggers
                      => calls'[h] \notin said'[h]
      <3>1. CASE h # g
        BY <1>0, <1>b, <3>1 DEF Logged
      <3>2. CASE h = g /\ calls'[g] = calls[g] + 1
        <4>1. 0 .. calls[g] \subseteq 0 .. calls[g] + 1 /\ calls[g] + 1 \notin 0 .. calls[g]
          BY <1>a
        <4>2. said[g] \subseteq 0 .. calls[g]
          BY <1>0 DEF Logged
        <4> QED  BY <1>b, <3>2, <4>1, <4>2
      <3>3. CASE h = g /\ calls'[g] # calls[g] + 1
        BY <1>0, <1>b, <3>3 DEF Logged
      <3> QED  BY <3>1, <3>2, <3>3
    <2> QED  BY <2>1, <2>2 DEF Logged
  <1>1. CASE \E op \in Ops[g] : Call(g, op)
    <2>1. UNCHANGED <<screen, said>> /\ calls'[g] = calls[g] + 1
      BY <1>0, <1>1 DEF Call, display, TypeOK
    <2> QED  BY <1>b, <2>1
  <1>2. CASE Update(g)
    <2>1. UNCHANGED <<screen, said, calls>> /\ pc'[g] = "print"
      BY <1>0, <1>2 DEF Update, display, TypeOK, Goes
    <2> QED  BY <1>b, <2>1
  <1>3. CASE FormatStatus(g)
    <2>1. UNCHANGED <<screen, said, calls>> /\ pc'[g] = "store"
      BY <1>0, <1>3 DEF FormatStatus, display, TypeOK, Goes
    <2> QED  BY <1>b, <2>1
  <1>4. CASE Store(g)
    <2>1. UNCHANGED <<screen, said, calls, doing>> /\ pc[g] = "store"
      BY <1>4 DEF Store
    <2>2. doing[g] \notin Loggers
      BY <1>0, <2>1, LoggersAssumption DEF Shape, Category
    <2> QED  BY <1>b, <2>1, <2>2
  <1>5. CASE Format(g)
    <2>1. UNCHANGED <<screen, said, calls, doing>> /\ pc[g] = "lock" /\ doing[g] \in Loggers
      BY <1>5 DEF Format, display
    <2> QED  BY <1>b, <2>1
  <1>6. CASE Compose(g)
    <2>1. UNCHANGED <<screen, said, calls, doing>> /\ pc[g] = "compose"
      BY <1>6 DEF Compose
    <2> QED  BY <1>b, <2>1
  <1>7. CASE Emit(g)
    BY <1>7, EmitLogs
  <1>8. CASE Unlock(g)
    <2>1. UNCHANGED <<screen, said, calls>> /\ pc'[g] = "idle"
      BY <1>0, <1>8 DEF Unlock, display, TypeOK, Goes
    <2> QED  BY <1>b, <2>1
  <1> QED  BY <1>1, <1>2, <1>3, <1>4, <1>5, <1>6, <1>7, <1>8 DEF Step

LEMMA ScreenStep ==
  ASSUME ScreenInv, [Next]_vars
  PROVE  ScreenInv' /\ (UNCHANGED vars \/ \A c \in Category : Shown(c)' >= Shown(c))
  <1>1. TypeOK
    BY DEF ScreenInv
  <1>2. CASE UNCHANGED vars
    <2> USE <1>2 DEF ScreenInv, vars, display
    <2>1. TypeOK' /\ Shape' /\ Holders'
      BY DEF TypeOK, Shape, Holders, Printing
    <2>2. Stored'
      BY DEF Stored, ToStore, Printing
    <2>3. Showing'
      BY DEF Showing, Shown, Above, ToShow, Printing
    <2>4. Buffers'
      BY DEF Buffers, Data, StatusRows
    <2>5. Logged' /\ LogKept'
      BY DEF Logged, LogKept, Above
    <2> QED  BY <2>1, <2>2, <2>3, <2>4, <2>5
  <1>3. ASSUME NEW g \in Goroutines, Step(g) \/ (\E op \in Ops[g] : Call(g, op)),
               \A h \in Goroutines \ {g} :
                 /\ pc'[h] = pc[h] /\ doing'[h] = doing[h] /\ queue'[h] = queue[h]
                 /\ message'[h] = message[h] /\ calls'[h] = calls[h] /\ said'[h] = said[h]
        PROVE  ScreenInv' /\ \A c \in Category : Shown(c)' >= Shown(c)
    <2>1. TypeOK'
      BY <1>3, ScreenTyped
    <2>2. Shape' /\ Holders'
      BY <1>3, HoldersKept
    <2>3. Stored'
      BY <1>3, StoredKept
    <2>4. Showing' /\ \A c \in Category : Shown(c)' >= Shown(c)
      BY <1>3, ShowingKept
    <2>5. Buffers'
      BY <1>3, BuffersKept
    <2>6. Logged' /\ LogKept'
      BY <1>3, LoggedKept
    <2> QED  BY <2>1, <2>2, <2>3, <2>4, <2>5, <2>6 DEF ScreenInv
  <1> QED  BY <1>1, <1>2, <1>3, ScreenSteps

LEMMA ScreenInvHolds == Spec => []ScreenInv
  <1>1. Init => ScreenInv
    <2> SUFFICES ASSUME Init
                 PROVE  ScreenInv
      OBVIOUS
    <2>1. screen = <<>> /\ \A c \in Category : Shown(c) = 0
      BY DEF Init, Shown
    <2>2. NoRow \in Row /\ <<>> \in Seq(Row) /\ <<>> \in Seq(Category)
      BY DEF NoRow, Row, Category
    <2>3. TypeOK
      <3>1. /\ holder \in [Mutex -> Goroutines \cup {none}]
            /\ count \in [Category -> Nat] /\ status \in [Category -> Nat]
            /\ wroteStatus \in BOOLEAN /\ screen \in Seq(Row) /\ lbuf \in [Loggers -> Row]
        BY <2>2 DEF Init
      <3>2. buf \in [up : {0, 3}, rows : Seq(Row)]
        BY <2>2 DEF Init
      <3>3. /\ pc \in [Goroutines -> {"idle", "lock", "print", "store", "compose", "emit", "unlock"}]
            /\ doing \in [Goroutines -> Category \cup Loggers \cup {none}]
            /\ queue \in [Goroutines -> Seq(Category)]
        BY <2>2 DEF Init
      <3>4. /\ message \in [Goroutines -> Nat] /\ calls \in [Goroutines -> 0 .. MaxOps]
            /\ said \in [Goroutines -> SUBSET Nat]
        BY MaxOpsAssumption DEF Init
      <3> QED  BY <3>1, <3>2, <3>3, <3>4 DEF TypeOK
    <2>4. \A g \in Goroutines : pc[g] = "idle" /\ queue[g] = <<>> /\ ~Printing(g)
      BY DEF Init, Printing
    <2>5. Shape
      BY <2>4 DEF Shape
    <2>6. Holders
      BY GoroutinesAssumption DEF Init, Holders, Mutex, Inside
    <2>7. Stored /\ Showing
      BY <2>1 DEF Init, Stored, Showing
    <2>8. Buffers
      BY DEF Init, Buffers, Mutex
    <2>9. Logged /\ LogKept
      BY DEF Init, Logged, LogKept
    <2> QED  BY <2>3, <2>5, <2>6, <2>7, <2>8, <2>9 DEF ScreenInv
  <1>2. ScreenInv /\ [Next]_vars => ScreenInv'
    BY ScreenStep
  <1> QED  BY <1>1, <1>2, PTL DEF Spec

----------------------------------------------------------------------------

(* The state of log and progress keeps its type, each operation goes       *)
(* through its places in order and has its mutex from the first to the     *)
(* last of them: no mutex is held by one who is not inside, none by two.   *)
THEOREM ScreenTypeCorrect == Spec => [](TypeOK /\ Shape /\ Holders)
  <1>1. ScreenInv => TypeOK /\ Shape /\ Holders
    BY DEF ScreenInv
  <1> QED  BY <1>1, ScreenInvHolds, PTL

(* Once an update of a progress has returned, the screen shows it or a     *)
(* later one: storing and printing are two critical sections of            *)
(* progress.mu, but one of the mutex of the progress.                      *)
THEOREM ScreenIsCurrent == Spec => []ScreenCurrent
  <1>1. ScreenInv => ScreenCurrent
    <2> SUFFICES ASSUME ScreenInv, NEW c \in Category, holder[MutexOf(c)] = none
                 PROVE  Shown(c) = count[c]
      BY DEF ScreenCurrent
    <2>1. \A g \in Goroutines : c \notin ToStore(g) /\ c \notin ToShow(g)
      BY HasMutex, GoroutinesAssumption
    <2>2. status[c] = count[c]
      BY <2>1 DEF ScreenInv, Stored
    <2>3. Shown(c) = status[c]
      BY <2>1 DEF ScreenInv, Showing
    <2> QED  BY <2>2, <2>3
  <1> QED  BY <1>1, ScreenInvHolds, PTL

(* Every line that was logged is on the screen once, above the status and  *)
(* in the order of its goroutine.                                          *)
THEOREM LinesKept == Spec => []LogKept
  <1>1. ScreenInv => LogKept
    BY DEF ScreenInv
  <1> QED  BY <1>1, ScreenInvHolds, PTL

(* No status line is replaced by an older one. *)
THEOREM StatusNeverOlder == Spec => NeverOlder
  <1>1. ScreenInv /\ [Next]_vars => [\A c \in Category : Shown(c)' >= Shown(c)]_vars
    BY ScreenStep
  <1> QED  BY <1>1, ScreenInvHolds, PTL DEF Spec, NeverOlder

(* What a goroutine waits for at its place: the mutex of its operation,    *)
(* that of the screen, or nothing.                                         *)
CanStep(g) ==
  \/ pc[g] \in {"print", "emit", "unlock"}
  \/ pc[g] = "lock" /\ holder[MutexOf(doing[g])] = none
  \/ pc[g] \in {"store", "compose"} /\ holder["progress"] = none

(* The mutexes are nested in one order, that of the screen inside the      *)
(* others: while anybody is in a call, somebody does not wait for a mutex. *)
THEOREM NobodyStuck ==
  Spec => [](\A g \in Goroutines : pc[g] # "idle" => \E h \in Goroutines : CanStep(h))
  <1>1. ScreenInv => \A g \in Goroutines : pc[g] # "idle" => \E h \in Goroutines : CanStep(h)
    <2> SUFFICES ASSUME ScreenInv, NEW g \in Goroutines, pc[g] # "idle"
                 PROVE  \E h \in Goroutines : CanStep(h)
      OBVIOUS
    <2>0. TypeOK /\ Shape /\ Holders
      BY DEF ScreenInv
    <2>1. CASE holder["progress"] # none
      <3>1. holder["progress"] \in Goroutines
        BY <2>0, <2>1 DEF TypeOK, Mutex
      <3>2. pc[holder["progress"]] = "emit"
        BY <2>0, <3>1 DEF Holders
      <3> QED  BY <3>1, <3>2 DEF CanStep
    <2>2. CASE holder["progress"] = none /\ pc[g] # "lock"
      BY <2>0, <2>2 DEF CanStep, TypeOK
    <2>3. CASE holder["progress"] = none /\ pc[g] = "lock"
      <3>1. MutexOf(doing[g]) \in Mutex \ {"progress"}
        BY <2>0, <2>3, MutexFacts DEF Shape
      <3>2. CASE holder[MutexOf(doing[g])] = none
        BY <2>3, <3>2 DEF CanStep
      <3>3. CASE holder[MutexOf(doing[g])] # none
        <4>1. holder[MutexOf(doing[g])] \in Goroutines
          BY <2>0, <3>1, <3>3 DEF TypeOK
        <4>2. pc[holder[MutexOf(doing[g])]] \in Inside
          BY <2>0, <3>1, <3>3 DEF Holders
        <4> QED  BY <2>3, <4>1, <4>2 DEF CanStep, Inside
      <3> QED  BY <3>2, <3>3
    <2> QED  BY <2>1, <2>2, <2>3
  <1> QED  BY <1>1, ScreenInvHolds, PTL
=============================================================================
