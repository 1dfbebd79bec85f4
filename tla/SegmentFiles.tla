---------------------------- MODULE SegmentFiles ----------------------------
(***************************************************************************)
(* downloadSegment (download/download.go) and the two files it has for a   *)
(* segment in the temporary directory: ".incomplete", which it writes the  *)
(* answer to, and ".done", which is taken for the segment from then on, by *)
(* the merger and by every later run of the program, until the merger, the *)
(* muxer or main deletes it.                                               *)
(*                                                                         *)
(* The names hold the number of the segment counted from --start-segment;  *)
(* the server knows segments by their number in the stream.  A file is the *)
(* sequence of its blocks, and a block is named after the segment of the   *)
(* stream it was taken from.                                               *)
(*                                                                         *)
(* The program may be killed at every point, and so may the machine, which *)
(* takes along what was not written to the disk.  The file system is       *)
(* external: a file that was not synced comes back shorter or empty, and a *)
(* rename may be undone.                                                   *)
(***************************************************************************)
EXTENDS Integers, Sequences

CONSTANTS
  Segments,   \* how many segments a run downloads
  Starts,     \* values of --start-segment
  Length,     \* the number of blocks of each segment of the stream
  MaxRuns     \* bound: how often the program is run on the directory

Segment == 0 .. Segments - 1
Absolute == {first + s : first \in Starts, s \in Segment}

ASSUME SegmentsAssumption == Segments \in Nat
ASSUME StartsAssumption == Starts \subseteq Nat
ASSUME LengthAssumption == Length \in [Absolute -> Nat \ {0}]
ASSUME MaxRunsAssumption == MaxRuns \in Nat \ {0}

Content == Seq(Absolute)
NoFile == <<-1>>  \* no content: -1 is the number of no segment

VARIABLES
  startSegment, fsync,  \* --start-segment and --fsync of this run
  runs,        \* how many runs there were
  incomplete,  \* the content of each segment's .incomplete file, or NoFile
  done,        \* the content of each segment's .done file, or NoFile
  pc,          \* "new" (not tried yet), "requested", "copying", "copied",
               \* "synced", "closed", "renamed", "failed" (an attempt), "ok"
               \* or "lost" (reported to SegmentStatus)
  copied,      \* how many blocks io.Copy has written
  synced,      \* the segments whose file is on the disk as it is
  renamed,     \* those whose last rename may not be on the disk yet
  fetched,     \* history: the segments reported as downloaded by any run,
               \* and not deleted since
  cuts,        \* history: how many power cuts there were
  relaxed,     \* history: some run did without --fsync
  moved        \* history: some run had another --start-segment than this one

fileVars == <<incomplete, done, synced, renamed>>
runVars == <<startSegment, fsync, runs, cuts, relaxed, moved>>
vars == <<runVars, fileVars, pc, copied, fetched>>

Attempting == {"requested", "copying", "copied", "synced", "closed", "renamed"}

(* The number in the stream that segmentBaseFileName leaves out.           *)
Number(s) == startSegment + s

TypeOK ==
  /\ startSegment \in Starts /\ fsync \in BOOLEAN
  /\ runs \in 1 .. MaxRuns /\ cuts \in Nat
  /\ incomplete \in [Segment -> Content \cup {NoFile}]
  /\ done \in [Segment -> Content \cup {NoFile}]
  /\ pc \in [Segment -> Attempting \cup {"new", "failed", "ok", "lost"}]
  /\ copied \in [Segment -> Nat]
  /\ \A s \in Segment : pc[s] = "copying" => copied[s] =< Length[Number(s)]
  /\ synced \subseteq Segment /\ renamed \subseteq Segment
  /\ fetched \subseteq Segment
  /\ relaxed \in BOOLEAN /\ moved \in BOOLEAN

Init ==
  /\ startSegment \in Starts /\ fsync \in BOOLEAN
  /\ runs = 1 /\ cuts = 0
  /\ incomplete = [s \in Segment |-> NoFile]
  /\ done = [s \in Segment |-> NoFile]
  /\ pc = [s \in Segment |-> "new"]
  /\ copied = [s \in Segment |-> 0]
  /\ synced = Segment /\ renamed = {}
  /\ fetched = {}
  /\ relaxed = ~fsync /\ moved = FALSE

(* What the server answers for the segment of that number in the stream.   *)
Body(a) == [i \in 1 .. Length[a] |-> a]

(* util.FileNotEmpty of the .done file. *)
FileNotEmpty(s) == done[s] # NoFile /\ done[s] # <<>>

----------------------------------------------------------------------------
(* downloadSegment, up to the answer of the server *)

MayTry(s) == pc[s] \in {"new", "failed"}

Goes(s, place) == pc' = [pc EXCEPT ![s] = place]

(* "already downloaded": the segment is reported without a request.        *)
Cached(s) ==
  /\ MayTry(s)
  /\ FileNotEmpty(s)
  /\ Goes(s, "ok")
  /\ fetched' = fetched \cup {s}
  /\ UNCHANGED <<runVars, fileVars, copied>>

(* A mutant: what an earlier run has downloaded is not looked at.          *)
Request_Always(s) ==
  /\ MayTry(s)
  /\ Goes(s, "requested")
  /\ UNCHANGED <<runVars, fileVars, copied, fetched>>

Request(s) ==
  /\ MayTry(s)
  /\ ~FileNotEmpty(s)
  /\ Goes(s, "requested")
  /\ UNCHANGED <<runVars, fileVars, copied, fetched>>

(* No answer, another status than 200, or the file cannot be opened.       *)
RequestFails(s) ==
  /\ pc[s] = "requested"
  /\ Goes(s, "failed")
  /\ UNCHANGED <<runVars, fileVars, copied, fetched>>

(* os.O_RDWR|os.O_CREATE: what an earlier run has left in it stays.        *)
OpenFile(s) ==
  /\ pc[s] = "requested"
  /\ incomplete' = [incomplete EXCEPT ![s] = IF @ = NoFile THEN <<>> ELSE @]
  /\ Goes(s, "copying")
  /\ copied' = [copied EXCEPT ![s] = 0]
  /\ UNCHANGED <<runVars, done, synced, renamed, fetched>>

----------------------------------------------------------------------------
(* downloadSegment, from there on *)

(* A file with block n written over: the blocks behind it stay.            *)
Written(content, n, block) ==
  [i \in 1 .. (IF n > Len(content) THEN n ELSE Len(content)) |->
     IF i = n THEN block ELSE content[i]]

(* A mutant: the segment is written to the .done file itself.              *)
CopyBlock_InPlace(s) ==
  /\ pc[s] = "copying"
  /\ copied[s] < Length[Number(s)]
  /\ copied' = [copied EXCEPT ![s] = @ + 1]
  /\ done' = [done EXCEPT ![s] = Written(IF @ = NoFile THEN <<>> ELSE @, copied[s] + 1, Number(s))]
  /\ incomplete' = done'
  /\ synced' = synced \ {s}
  /\ UNCHANGED <<runVars, renamed, pc, fetched>>

(* io.Copy writes the next block. *)
CopyBlock(s) ==
  /\ pc[s] = "copying"
  /\ copied[s] < Length[Number(s)]
  /\ copied' = [copied EXCEPT ![s] = @ + 1]
  /\ incomplete' = [incomplete EXCEPT ![s] = Written(@, copied[s] + 1, Number(s))]
  /\ synced' = synced \ {s}
  /\ UNCHANGED <<runVars, done, renamed, pc, fetched>>

(* io.Copy returns without an error. *)
CopyEnds(s) ==
  /\ pc[s] = "copying"
  /\ copied[s] = Length[Number(s)]
  /\ Goes(s, "copied")
  /\ UNCHANGED <<runVars, fileVars, copied, fetched>>

(* A mutant: --fsync is ignored. *)
Sync_Nothing(s) ==
  /\ pc[s] = "copied" /\ fsync
  /\ Goes(s, "synced")
  /\ UNCHANGED <<runVars, fileVars, copied, fetched>>

Sync(s) ==
  /\ pc[s] = "copied" /\ fsync
  /\ synced' = synced \cup {s}
  /\ Goes(s, "synced")
  /\ UNCHANGED <<runVars, incomplete, done, renamed, copied, fetched>>

Close(s) ==
  /\ pc[s] = IF fsync THEN "synced" ELSE "copied"
  /\ Goes(s, "closed")
  /\ UNCHANGED <<runVars, fileVars, copied, fetched>>

Rename(s) ==
  /\ pc[s] = "closed"
  /\ done' = [done EXCEPT ![s] = incomplete[s]]
  /\ incomplete' = [incomplete EXCEPT ![s] = NoFile]
  /\ renamed' = renamed \cup {s}
  /\ Goes(s, "renamed")
  /\ UNCHANGED <<runVars, synced, copied, fetched>>

(* io.Copy, Sync, Close or Rename returns an error: the file is removed,   *)
(* unless that fails as well, which nobody looks at.                       *)
WriteFails(s) ==
  /\ pc[s] \in {"copying", "copied", "synced", "closed"}
  /\ pc[s] = "synced" => fsync
  /\ \/ incomplete' = [incomplete EXCEPT ![s] = NoFile]
     \/ UNCHANGED incomplete
  /\ Goes(s, "failed")
  /\ UNCHANGED <<runVars, done, synced, renamed, copied, fetched>>

(* status.Downloaded with the name of the .done file.                      *)
Report(s) ==
  /\ pc[s] = "renamed"
  /\ Goes(s, "ok")
  /\ fetched' = fetched \cup {s}
  /\ UNCHANGED <<runVars, fileVars, copied>>

(* downloadTask gives up after an attempt that has failed.                 *)
GiveUp(s) ==
  /\ pc[s] = "failed"
  /\ Goes(s, "lost")
  /\ UNCHANGED <<runVars, fileVars, copied, fetched>>

(* os.Remove of a segment that was reported and merged: by the merger with *)
(* --disable-resume, by Mux after the video was made (also in a run with   *)
(* --merge that follows), or by main with the whole directory.             *)
Delete(s) ==
  /\ pc[s] = "ok" /\ done[s] # NoFile
  /\ done' = [done EXCEPT ![s] = NoFile]
  /\ renamed' = renamed \ {s}
  /\ fetched' = fetched \ {s}
  /\ UNCHANGED <<runVars, incomplete, synced, pc, copied>>

----------------------------------------------------------------------------
(* The end of a run, at any point, and the next one *)

Rerun ==
  /\ runs < MaxRuns
  /\ runs' = runs + 1
  /\ startSegment' \in Starts /\ fsync' \in BOOLEAN
  /\ relaxed' = (relaxed \/ ~fsync')
  /\ moved' = (moved \/ startSegment' # startSegment)
  /\ pc' = [s \in Segment |-> "new"]
  /\ copied' = [s \in Segment |-> 0]
  /\ UNCHANGED fetched

(* Ctrl-C, a crash, log.Fatalf, or simply the end; then another run with   *)
(* the same temporary directory.                                           *)
Killed ==
  /\ Rerun
  /\ UNCHANGED <<fileVars, cuts>>

(* What a file that was not synced may be after a power cut.               *)
Remains(content) ==
  IF content = NoFile THEN {NoFile}
  ELSE {SubSeq(content, 1, n) : n \in 0 .. Len(content)}

(* The files of a segment after a power cut, as <<.incomplete, .done>>.    *)
AfterCut(s) ==
  LET kept == IF s \in synced THEN {<<incomplete[s], done[s]>>}
              ELSE {<<i, d>> : i \in Remains(incomplete[s]), d \in Remains(done[s])}
  IN kept \cup (IF s \in renamed THEN {<<k[2], NoFile>> : k \in kept} ELSE {})

PowerCut ==
  /\ Rerun
  /\ cuts' = cuts + 1
  /\ \E files \in [Segment -> UNION {AfterCut(s) : s \in Segment}] :
       /\ \A s \in Segment : files[s] \in AfterCut(s)
       /\ incomplete' = [s \in Segment |-> files[s][1]]
       /\ done' = [s \in Segment |-> files[s][2]]
  /\ synced' = Segment
  /\ renamed' = {}

Next ==
  \/ \E s \in Segment :
       \/ Cached(s) \/ Request(s) \/ RequestFails(s) \/ OpenFile(s)
       \/ CopyBlock(s) \/ CopyEnds(s) \/ Sync(s) \/ Close(s) \/ Rename(s)
       \/ WriteFails(s) \/ Report(s) \/ GiveUp(s) \/ Delete(s)
  \/ Killed \/ PowerCut

Spec == Init /\ [][Next]_vars

----------------------------------------------------------------------------
(* Properties *)

(* What may spoil a segment: another --start-segment in the same directory, *)
(* and a power cut when some run did without --fsync.                       *)
Trusted == ~moved /\ (cuts > 0 => ~relaxed)

(* A file that is called .done, and what was reported as downloaded from it *)
(* and not deleted, is the whole segment and nothing else, whatever earlier *)
(* runs have left half done and wherever they were stopped.                 *)
OwnSegment ==
  Trusted =>
    \A s \in Segment :
      /\ done[s] \in {NoFile, Body(Number(s))}
      /\ pc[s] = "renamed" \/ (pc[s] = "ok" /\ s \in fetched) => done[s] = Body(Number(s))

(* As long as its file is not deleted, no run from the same --start-segment *)
(* asks the server again for a segment that an earlier one has reported     *)
(* ("reuse already downloaded segments"), unless the power was cut in       *)
(* between.                                                                 *)
Reuses ==
  cuts = 0 /\ ~moved => \A s \in fetched : pc[s] \in {"new", "ok"}

(* While the machine runs, a .done file with something in it never changes, *)
(* and disappears only after it was reported: the merger reads it, without  *)
(* a lock, from the report on.                                              *)
DoneStays ==
  [][cuts' = cuts =>
       \A s \in Segment : FileNotEmpty(s) =>
         done'[s] = done[s] \/ (done'[s] = NoFile /\ pc[s] = "ok")]_vars
=============================================================================
