------------------------------ MODULE LockFile ------------------------------
(***************************************************************************)
(* LockFile of util/lock.go and the locks main takes with it so that two   *)
(* instances of the program do not work on the same files: one in the      *)
(* temporary directory, then one next to the output file, both released    *)
(* by defer, the last one first.  A lock is a flock on an open file, not   *)
(* on a name: TryLock opens the file of that name, creating it if need be, *)
(* and locks what it has opened; the release unlocks it and then removes   *)
(* the name.                                                               *)
(*                                                                         *)
(* The system calls are external: an open file outlives its name, a lock   *)
(* is gone when its file is closed, and a process that dies, or exits      *)
(* through os.Exit or log.Fatalf, closes its files and removes nothing.    *)
(***************************************************************************)
EXTENDS Naturals, Sequences

CONSTANTS
  Instance,  \* the instances of the program
  Name,      \* the names of lock files
  LocksOf,   \* the locks each of them takes, in this order
  MaxFiles   \* bound: how many lock files are created

(* Each instance takes a lock at least, and a lock file is always the same *)
(* lock of those who take it: the first is in the temporary directory and  *)
(* named after the id of a video (or after nothing, with --merge and no    *)
(* -i), the second next to the output, named after that file with the      *)
(* extension of its container or, with --merge, without one.  That no name *)
(* of the second kind is one of the first is assumed of the user's files.  *)
ASSUME LocksAssumption == LocksOf \in [Instance -> Seq(Name) \ {<<>>}]
ASSUME OrderAssumption ==
  \A i, j \in Instance : \A k \in 1 .. Len(LocksOf[i]), l \in 1 .. Len(LocksOf[j]) :
    LocksOf[i][k] = LocksOf[j][l] => k = l
ASSUME MaxFilesAssumption == MaxFiles \in Nat \ {0}

File == 1 .. MaxFiles
NoFile == 0

VARIABLES
  path,     \* the file each name stands for, or NoFile
  created,  \* how many files were created so far
  fd,       \* the file each instance has open at each of its locks
  locked,   \* the <<instance, lock>> whose flock was granted
  depth,    \* how many locks each instance has
  state,    \* "start" (about to lock), "opened", "running" (it has them
            \* all), "unlocked" (half-way through a release), "releasing"
            \* (between two) or "exited"
  removed,  \* history: the names that were ever removed
  releases  \* history: how many instances have got as far as removing one

lockVars == <<path, created, fd, locked, depth, state, removed, releases>>

Locks(i) == 1 .. Len(LocksOf[i])

LockTypeOK ==
  /\ path \in [Name -> File \cup {NoFile}]
  /\ created \in 0 .. MaxFiles
  /\ fd \in [Instance -> UNION {[Locks(i) -> File \cup {NoFile}] : i \in Instance}]
  /\ \A i \in Instance : fd[i] \in [Locks(i) -> File \cup {NoFile}]
  /\ locked \subseteq Instance \X Nat
  /\ depth \in [Instance -> Nat]
  /\ state \in [Instance -> {"start", "opened", "running", "unlocked", "releasing", "exited"}]
  /\ removed \subseteq Name
  /\ releases \in Nat

LockInit ==
  /\ path = [n \in Name |-> NoFile]
  /\ created = 0
  /\ fd = [i \in Instance |-> [k \in Locks(i) |-> NoFile]]
  /\ locked = {}
  /\ depth = [i \in Instance |-> 0]
  /\ state = [i \in Instance |-> "start"]
  /\ removed = {}
  /\ releases = 0

Enters(i, place) == state' = [state EXCEPT ![i] = place]

(* TryLock of the next lock opens its file, with O_CREATE.                 *)
Open(i) ==
  LET n == LocksOf[i][depth[i] + 1]
  IN  /\ state[i] = "start"
      /\ IF path[n] # NoFile THEN UNCHANGED <<path, created>>
         ELSE /\ created < MaxFiles
              /\ created' = created + 1
              /\ path' = [path EXCEPT ![n] = created + 1]
      /\ fd' = [fd EXCEPT ![i][depth[i] + 1] = path'[n]]
      /\ Enters(i, "opened")
      /\ UNCHANGED <<locked, depth, removed, releases>>

(* A mutant: only the first lock is looked at.                             *)
Free_First(i) ==
  depth[i] > 0 \/ \A l \in locked : fd[l[1]][l[2]] # fd[i][depth[i] + 1]

(* Whether the flock on the file that i has opened last is free.           *)
Free(i) == \A l \in locked : fd[l[1]][l[2]] # fd[i][depth[i] + 1]

(* TryLock gets the flock: LockFile returns, and main goes on.             *)
Lock(i) ==
  /\ state[i] = "opened"
  /\ Free(i)
  /\ locked' = locked \cup {<<i, depth[i] + 1>>}
  /\ depth' = [depth EXCEPT ![i] = @ + 1]
  /\ Enters(i, IF depth[i] + 1 = Len(LocksOf[i]) THEN "running" ELSE "start")
  /\ UNCHANGED <<path, created, fd, removed, releases>>

(* The process is gone, and what it had open is closed.                    *)
Exit(i) ==
  /\ fd' = [fd EXCEPT ![i] = [k \in Locks(i) |-> NoFile]]
  /\ locked' = {l \in locked : l[1] # i}
  /\ depth' = [depth EXCEPT ![i] = 0]
  /\ Enters(i, "exited")

(* A mutant: a refused instance goes on. *)
Refused_Ignored(i) ==
  /\ state[i] = "opened"
  /\ ~Free(i)
  /\ depth' = [depth EXCEPT ![i] = @ + 1]
  /\ Enters(i, IF depth[i] + 1 = Len(LocksOf[i]) THEN "running" ELSE "start")
  /\ UNCHANGED <<path, created, fd, locked, removed, releases>>

(* TryLock does not get it: the message, and os.Exit(1), which skips the   *)
(* release of what was locked before.                                      *)
Refused(i) ==
  /\ state[i] = "opened"
  /\ ~Free(i)
  /\ Exit(i)
  /\ UNCHANGED <<path, created, removed, releases>>

(* The first half of a deferred release: lock.Unlock(), which closes the   *)
(* file as well.                                                           *)
UnlockFile(i) ==
  /\ state[i] \in {"running", "releasing"}
  /\ locked' = locked \ {<<i, depth[i]>>}
  /\ fd' = [fd EXCEPT ![i][depth[i]] = NoFile]
  /\ depth' = [depth EXCEPT ![i] = @ - 1]
  /\ Enters(i, "unlocked")
  /\ UNCHANGED <<path, created, removed, releases>>

(* The second half: os.Remove(path), whatever file that is by now.         *)
RemoveFile(i) ==
  LET n == LocksOf[i][depth[i] + 1]
  IN  /\ state[i] = "unlocked"
      /\ path' = [path EXCEPT ![n] = NoFile]
      /\ removed' = removed \cup {n}
      /\ releases' = releases + (IF depth[i] + 1 = Len(LocksOf[i]) THEN 1 ELSE 0)
      /\ IF depth[i] > 0
         THEN Enters(i, "releasing") /\ UNCHANGED <<fd, locked, depth>>
         ELSE Exit(i)
      /\ UNCHANGED created

(* The process dies, or leaves through log.Fatalf, which skips the release. *)
Crash(i) ==
  /\ state[i] # "exited"
  /\ Exit(i)
  /\ UNCHANGED <<path, created, removed, releases>>

(* Another instance is started with the same arguments. *)
Start(i) ==
  /\ state[i] = "exited"
  /\ Enters(i, "start")
  /\ UNCHANGED <<path, created, fd, locked, depth, removed, releases>>

LockNext ==
  \E i \in Instance :
    \/ Open(i) \/ Lock(i) \/ Refused(i)
    \/ UnlockFile(i) \/ RemoveFile(i)
    \/ Crash(i) \/ Start(i)

LockSpec == LockInit /\ [][LockNext]_lockVars

----------------------------------------------------------------------------

Running == {i \in Instance : state[i] = "running"}

NamesOf(i) == {LocksOf[i][k] : k \in Locks(i)}

(* Of instances that work on the same files at most one runs ("This video  *)
(* is already being downloaded by another instance"; "Another instance is  *)
(* already writing to this output file"), whatever instances were refused, *)
(* failed or died and left their lock files: as long as one lock file that *)
(* they share was never removed.                                           *)
ExclusiveUntilRemoved ==
  \A i, j \in Running : ~(NamesOf(i) \cap NamesOf(j) \subseteq removed) => i = j

(* Two locks are better than one: a release whose removal of a lock file   *)
(* lets two instances in at one lock does not do so at both.  Those that   *)
(* have both locks in common only meet after a second such release.        *)
SecondLockHolds ==
  \A i, j \in Running :
    /\ LocksOf[i] = LocksOf[j] /\ Len(LocksOf[i]) > 1
    /\ releases =< 1
    => i = j
=============================================================================
