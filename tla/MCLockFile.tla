----------------------------- MODULE MCLockFile -----------------------------
(* Small instances of LockFile for TLC. *)
EXTENDS LockFile, TLC

CONSTANTS i1, i2, i3, m

InstanceSymmetry == Permutations({i1, i2})

(* The same command twice, another directory with the same output, and a   *)
(* --merge with the same input (-i) and directory: its first lock is that  *)
(* of the downloads, its second one is named after the output without the  *)
(* extension, and so is another one than theirs.                           *)
FourInstances ==
  i1 :> <<"temp", "output">> @@ i2 :> <<"temp", "output">>
  @@ i3 :> <<"other", "output">> @@ m :> <<"temp", "merged">>
=============================================================================
