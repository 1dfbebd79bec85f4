------------------------------ MODULE MCMuxer ------------------------------
(* Small instances of Muxer for TLC: sets of command lines.                 *)
EXTENDS Muxer

Flags(merger, only, tempDir, flags) ==
  [merger |-> merger, only |-> only, tempDir |-> tempDir,
   keepFiles |-> "k" \in flags, disableResume |-> "d" \in flags,
   overwriteTemp |-> "o" \in flags, mergeOnly |-> "m" \in flags]

(* Each merger with what makes a difference to it: deleting at the end,     *)
(* after each segment or never; one stream or both; a directory that is     *)
(* deleted or one that the next run finds, and may overwrite files in; the  *)
(* segments of both streams, or one, downloaded now and merged later.       *)
Ordinary ==
  {Flags("concat", "both", "given", {}), Flags("concat", "both", "given", {"o"}),
   Flags("concat", "audio", "given", {"d", "o"}),
   Flags("concat", "both", "random", {"d"}),
   Flags("tcp", "video", "given", {}), Flags("tcp", "audio", "given", {"d"}),
   Flags("tcp", "both", "random", {}), Flags("tcp", "both", "random", {"k"}),
   Flags("download-only", "both", "random", {"k"}),
   Flags("download-only", "audio", "given", {}),
   Flags("concat", "both", "given", {"m", "d"}), Flags("tcp", "both", "random", {"m"})}

(* ytarchive-raw-go --merger download-only -i ...                           *)
DownloadOnly == {Flags("download-only", "both", "random", {})}

(* --disable-resume and --keep-files.                                       *)
DeleteAndKeep ==
  {Flags(m, "both", dir, {"d", "k"}) : m \in {"concat", "tcp"}, dir \in {"given", "random"}}

(* All the defaults, with each of the mergers FFmpeg may support.           *)
Defaults == {Flags(m, "both", "random", {}) : m \in {"concat", "tcp"}}
=============================================================================
