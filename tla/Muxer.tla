------------------------------- MODULE Muxer -------------------------------
(***************************************************************************)
(* One run of the program after the command line was read (main.go): the   *)
(* audio and the video download feed a merger each (merge/merge.go,        *)
(* concat.go, tcp.go, download_only.go), a muxer makes the output file of  *)
(* what they merged, with FFmpeg or as a JSON file, and main waits for all *)
(* of them and deletes what the options say.  The files survive the run,   *)
(* and the next run on the same temporary directory resumes from them.     *)
(* With --merge, a run makes the output file of the segments that a JSON   *)
(* file lists, which an earlier run with the download-only merger wrote    *)
(* (MergeDownloadInfoJson of download_only.go).                            *)
(*                                                                         *)
(* A segment file is a segment number, a merged file or stream a sequence  *)
(* of them.  FFmpeg is external: it opens its inputs in order, and         *)
(* succeeds only after it has read each of them to the end.                *)
(***************************************************************************)
EXTENDS Feeds, Integers, Sequences

CONSTANTS
  Options,  \* the command lines to run with
  MaxRuns   \* bound: how often the program is run

Stream == {"audio", "video"}

Option == [merger : {"concat", "tcp", "download-only"},
           only : {"both", "audio", "video"},
           keepFiles : BOOLEAN, disableResume : BOOLEAN,
           overwriteTemp : BOOLEAN,
           tempDir : {"given", "random"},
           mergeOnly : BOOLEAN]  \* --merge, with the JSON file of an earlier run

ASSUME OptionsAssumption == Options \subseteq Option
ASSUME RunsAssumption == MaxRuns \in Nat \ {0}

VARIABLES
  opts,      \* the options of this run
  runs,      \* how many runs there were
  main,      \* "create", "waiting" for the downloads, "muxer" (for its
             \* result), "success" or "exited" (with an error, or killed)
  feed,      \* the download of each stream
  files,     \* the .done files of each stream in the temporary directory
  merge,     \* each Merge goroutine: "off", "started", "next", "result"
             \* (NextToMerge has returned one) or "done"
  output,    \* what each one has merged: a file for concat, the bytes sent
             \* to FFmpeg for tcp
  segments,  \* the segments field of each merger
  unmerged,  \* history: segments that could not be copied
  mux,       \* the goroutine in Mux: "off", "waiting", "ffmpeg", "muxed",
             \* "deleting", "ok" or "failed"
  opened,    \* the tcp inputs FFmpeg has connected to
  final,     \* the video file
  json,      \* the JSON file: the results of each stream, in order
  progress   \* mergeProgress

runVars == <<opts, runs>>
mergeVars == <<merge, output, segments, unmerged>>
muxVars == <<mux, opened, final, json>>
vars == <<runVars, main, feed, files, mergeVars, muxVars, progress>>

(* An empty list of results is written as null, and read as no stream.     *)
Ignored(st) ==
  \/ opts.only \notin {"both", st}
  \/ opts.mergeOnly /\ json.results[st] = <<>>
Used == {st \in Stream : ~Ignored(st)}

Empty == [st \in Stream |-> <<>>]
NoFinal == [kind |-> "none", content |-> Empty]
NoJson == [written |-> FALSE, results |-> Empty]
Result == [segment : FeedSegment, outcome : {"ok", "lost"}]

NewProgress == [total |-> -1, merged |-> [st \in Stream |-> 0], ended |-> FALSE]

TypeOK ==
  /\ opts \in Options
  /\ runs \in 1 .. MaxRuns
  /\ main \in {"create", "waiting", "muxer", "success", "exited"}
  /\ feed \in [Stream -> Feed]
  /\ files \in [Stream -> SUBSET FeedSegment]
  /\ merge \in [Stream -> {"off", "started", "next", "result", "done"}]
  /\ output \in [Stream -> Seq(FeedSegment)]
  /\ segments \in [Stream -> Seq(FeedSegment)]
  /\ unmerged \in [Stream -> SUBSET FeedSegment]
  /\ mux \in {"off", "waiting", "ffmpeg", "muxed", "deleting", "ok", "failed"}
  /\ opened \subseteq Stream
  /\ final \in [kind : {"none", "broken", "video"},
                content : [Stream -> Seq(FeedSegment)]]
  /\ json \in [written : BOOLEAN, results : [Stream -> Seq(Result)]]
  /\ progress \in [total : {-1, 0, Segments},
                   merged : [Stream -> 0 .. Segments],
                   ended : BOOLEAN]

(* The memory of a new process. *)
NewProcess ==
  /\ main' = "create"
  /\ feed' = [st \in Stream |-> NewFeed]
  /\ merge' = [st \in Stream |-> "off"]
  /\ segments' = Empty
  /\ unmerged' = [st \in Stream |-> {}]
  /\ mux' = "off"
  /\ opened' = {}
  /\ progress' = NewProgress

Init ==
  /\ opts \in Options
  /\ runs = 1
  /\ main = "create"
  /\ feed = [st \in Stream |-> NewFeed]
  /\ files = [st \in Stream |-> {}]
  /\ merge = [st \in Stream |-> "off"]
  /\ output = Empty
  /\ segments = Empty
  /\ unmerged = [st \in Stream |-> {}]
  /\ mux = "off"
  /\ opened = {}
  /\ final = NoFinal
  /\ json = NoJson
  /\ progress = NewProgress

Running == main \notin {"success", "exited"}

----------------------------------------------------------------------------
(* merge/progress.go *)

(* A mutant: the bar ends with the merging. *)
Updated_EndsEarly(p) ==
  IF p.merged["audio"] + p.merged["video"] >= 2 * p.total
  THEN [p EXCEPT !.ended = TRUE] ELSE p

(* updated: a total of 0 is the end. *)
Updated(p) == IF p.total = 0 THEN [p EXCEPT !.ended = TRUE] ELSE p

(* initTotal: the first merger to come here sets the total.                *)
InitTotal(p, n) == IF p.total < 0 THEN Updated([p EXCEPT !.total = n]) ELSE p

(* mergedAudio, mergedVideo. *)
CountMerged(p, st) ==
  Updated([p EXCEPT !.merged = [p.merged EXCEPT ![st] = @ + 1]])

(* done. *)
EndProgress(p) == Updated([p EXCEPT !.ended = TRUE])

----------------------------------------------------------------------------
(* main, up to the start of the goroutines *)

(* createConcatTask finds a merged file of an earlier run, and must not    *)
(* overwrite it: "Unable to create muxer".                                 *)
RefuseLeftovers ==
  /\ main = "create"
  /\ opts.merger = "concat"
  /\ ~opts.overwriteTemp
  /\ \E st \in Stream : output[st] # <<>>
  /\ main' = "exited"
  /\ UNCHANGED <<runVars, feed, files, mergeVars, muxVars, progress>>

(* A mutant: a merged file of an earlier run stays. *)
Start_KeepsLeftovers ==
  /\ main = "create" /\ ~opts.mergeOnly
  /\ opts.merger = "concat" /\ ~opts.overwriteTemp =>
       \A st \in Stream : output[st] = <<>>
  /\ main' = "waiting"
  /\ merge' = [st \in Stream |-> IF Ignored(st) THEN "started" ELSE "off"]
  /\ mux' = "waiting"
  /\ UNCHANGED <<runVars, feed, files, output, segments, unmerged, opened,
                 final, json, progress>>

(* The muxer is created, without what an earlier run has merged; main      *)
(* starts the downloads, MergeNothing for an ignored stream, and Mux.      *)
Start ==
  /\ main = "create" /\ ~opts.mergeOnly
  /\ opts.merger = "concat" /\ ~opts.overwriteTemp =>
       \A st \in Stream : output[st] = <<>>
  /\ main' = "waiting"
  /\ output' = Empty
  /\ merge' = [st \in Stream |-> IF Ignored(st) THEN "started" ELSE "off"]
  /\ mux' = "waiting"
  /\ UNCHANGED <<runVars, feed, files, segments, unmerged, opened, final,
                 json, progress>>

(* "Failed to merge": there is no JSON file, or none that can be read, the *)
(* merger is download-only, or there is nothing to merge.                  *)
RefuseMerge ==
  /\ main = "create" /\ opts.mergeOnly
  /\ ~json.written \/ opts.merger = "download-only" \/ Used = {}
  /\ main' = "exited"
  /\ UNCHANGED <<runVars, feed, files, mergeVars, muxVars, progress>>

(* MergeDownloadInfoJson creates the muxer and calls Mux itself; a         *)
(* feedMerger for each stream starts its Merge.                            *)
StartMerge ==
  /\ main = "create" /\ opts.mergeOnly
  /\ json.written /\ opts.merger # "download-only" /\ Used # {}
  /\ opts.merger = "concat" /\ ~opts.overwriteTemp =>
       \A st \in Stream : output[st] = <<>>
  /\ main' = "muxer"
  /\ feed' = [st \in Stream |-> Started(feed[st])]
  /\ output' = Empty
  /\ merge' = [st \in Stream |-> "started"]
  /\ mux' = "waiting"
  /\ UNCHANGED <<runVars, files, segments, unmerged, opened, final, json,
                 progress>>

(* feedMerger reports the results of its list in their order.              *)
FeedResult(st, s) ==
  /\ main = "muxer" /\ opts.mergeOnly
  /\ s < Len(json.results[st])
  /\ MayReport(feed[st], s) /\ \A r \in 0 .. s - 1 : ~MayReport(feed[st], r)
  /\ feed' = [feed EXCEPT ![st] = Reported(@, s, json.results[st][s + 1].outcome)]
  /\ UNCHANGED <<runVars, main, files, mergeVars, muxVars, progress>>

----------------------------------------------------------------------------
(* The downloads: what StreamFeed says of them, and their files *)

Downloading(st) ==
  main \in {"waiting", "muxer"} /\ ~opts.mergeOnly /\ st \in Used

CountFails(st) ==
  /\ Downloading(st)
  /\ Counting(feed[st])
  /\ feed' = [feed EXCEPT ![st] = Failed(@)]
  /\ UNCHANGED <<runVars, main, files, mergeVars, muxVars, progress>>

(* run starts the merger once the number of segments is known.             *)
StartDownload(st) ==
  /\ Downloading(st)
  /\ Counting(feed[st])
  /\ feed' = [feed EXCEPT ![st] = Started(@)]
  /\ merge' = [merge EXCEPT ![st] = "started"]
  /\ UNCHANGED <<runVars, main, files, output, segments, unmerged, muxVars,
                 progress>>

(* A segment whose file is there is never lost.                            *)
Download(st, s, r) ==
  /\ Downloading(st)
  /\ MayReport(feed[st], s)
  /\ r = "lost" => s \notin files[st]
  /\ feed' = [feed EXCEPT ![st] = Reported(@, s, r)]
  /\ files' = IF r = "ok" THEN [files EXCEPT ![st] = @ \cup {s}] ELSE files
  /\ UNCHANGED <<runVars, main, mergeVars, muxVars, progress>>

EndDownload(st) ==
  /\ Downloading(st)
  /\ MayEnd(feed[st])
  /\ feed' = [feed EXCEPT ![st] = Ended(@)]
  /\ UNCHANGED <<runVars, main, files, mergeVars, muxVars, progress>>

----------------------------------------------------------------------------
(* Merge and forEachSegment *)

(* The tcp merger accepts FFmpeg's connection first; an ignored stream has *)
(* no listener to wait at.                                                 *)
Connected(st) == opts.merger = "tcp" /\ ~Ignored(st) => st \in opened

(* The total is set; an ignored stream has no segments.                    *)
BeginMerge(st) ==
  /\ Running
  /\ merge[st] = "started"
  /\ Connected(st)
  /\ progress' = InitTotal(progress, IF Ignored(st) THEN 0 ELSE Segments)
  /\ merge' = [merge EXCEPT ![st] = IF Ignored(st) THEN "done" ELSE "next"]
  /\ UNCHANGED <<runVars, main, feed, files, output, segments, unmerged, muxVars>>

(* A mutant: the merger waits for a segment that was lost. *)
NextToMerge_WaitsForOk(st) ==
  /\ Running
  /\ merge[st] = "next"
  /\ MayMerge(feed[st])
  /\ feed[st].outcome[feed[st].merged] = "ok"
  /\ feed' = [feed EXCEPT ![st] = Merged(@)]
  /\ merge' = [merge EXCEPT ![st] = "result"]
  /\ UNCHANGED <<runVars, main, files, output, segments, unmerged, muxVars,
                 progress>>

(* NextToMerge finds a result.                                             *)
NextToMerge(st) ==
  /\ Running
  /\ merge[st] = "next"
  /\ MayMerge(feed[st])
  /\ feed' = [feed EXCEPT ![st] = Merged(@)]
  /\ merge' = [merge EXCEPT ![st] = "result"]
  /\ UNCHANGED <<runVars, main, files, output, segments, unmerged, muxVars,
                 progress>>

(* The segment NextToMerge has returned, and its outcome.                  *)
Current(st) == feed[st].merged - 1
CurrentOk(st) == feed[st].outcome[Current(st)] = "ok"

(* What every result ends with: it is counted, and the next one fetched.   *)
Count(st) ==
  /\ Running
  /\ merge[st] = "result"
  /\ merge' = [merge EXCEPT ![st] = "next"]
  /\ progress' = CountMerged(progress, st)
  /\ UNCHANGED <<runVars, main, feed, muxVars>>

SkipLost(st) ==
  /\ Count(st)
  /\ ~CurrentOk(st)
  /\ opts.merger # "download-only"
  /\ UNCHANGED <<files, output, segments, unmerged>>

(* concat appends the file to the merged one, tcp sends it to FFmpeg; then *)
(* the file is deleted or remembered.                                      *)
CopySegment(st) ==
  /\ Count(st)
  /\ CurrentOk(st) /\ Current(st) \in files[st]
  /\ opts.merger # "download-only"
  /\ output' = [output EXCEPT ![st] = Append(@, Current(st))]
  /\ IF opts.disableResume
     THEN /\ files' = [files EXCEPT ![st] = @ \ {Current(st)}]
          /\ UNCHANGED segments
     ELSE /\ segments' = [segments EXCEPT ![st] = Append(@, Current(st))]
          /\ UNCHANGED files
  /\ UNCHANGED unmerged

(* A mutant: the file is deleted whether or not it was copied. *)
CopyFails_Deletes(st) ==
  /\ Count(st)
  /\ CurrentOk(st)
  /\ opts.merger # "download-only"
  /\ unmerged' = [unmerged EXCEPT ![st] = @ \cup {Current(st)}]
  /\ files' = IF opts.disableResume
              THEN [files EXCEPT ![st] = @ \ {Current(st)}] ELSE files
  /\ UNCHANGED <<output, segments>>

(* "Unable to merge file", "Unable to send file", because it is not there  *)
(* or for any other reason: the segment is skipped.                        *)
CopyFails(st) ==
  /\ Count(st)
  /\ CurrentOk(st)
  /\ opts.merger # "download-only"
  /\ unmerged' = [unmerged EXCEPT ![st] = @ \cup {Current(st)}]
  /\ UNCHANGED <<files, output, segments>>

(* download-only remembers the result, whatever it is.                     *)
RememberResult(st) ==
  /\ Count(st)
  /\ opts.merger = "download-only"
  /\ segments' = [segments EXCEPT ![st] = Append(@, Current(st))]
  /\ UNCHANGED <<files, output, unmerged>>

(* SegmentStatus.Done: Merge returns, wg.Done for concat and download-only *)
(* and the end of the connection for tcp.                                  *)
EndMerge(st) ==
  /\ Running
  /\ merge[st] = "next"
  /\ feed[st].merged = Segments
  /\ merge' = [merge EXCEPT ![st] = "done"]
  /\ UNCHANGED <<runVars, main, feed, files, output, segments, unmerged, muxVars,
                 progress>>

----------------------------------------------------------------------------
(* Mux *)

BothMerged == \A st \in Stream : merge[st] = "done"

(* concat waits for both mergers, tcp does not.                            *)
StartFfmpeg ==
  /\ Running
  /\ mux = "waiting"
  /\ opts.merger \in {"concat", "tcp"}
  /\ opts.merger = "concat" => BothMerged
  /\ mux' = "ffmpeg"
  /\ UNCHANGED <<runVars, main, feed, files, mergeVars, opened, final, json,
                 progress>>

(* FFmpeg opens the next tcp input, once it has seen the start of the one  *)
(* before it.                                                              *)
OpenInput(st) ==
  /\ Running
  /\ mux = "ffmpeg" /\ opts.merger = "tcp"
  /\ st \in Used \ opened
  /\ st = "video" /\ "audio" \in Used =>
       "audio" \in opened /\ (output["audio"] # <<>> \/ merge["audio"] = "done")
  /\ opened' = opened \cup {st}
  /\ UNCHANGED <<runVars, main, feed, files, mergeVars, mux, final, json,
                 progress>>

(* Nothing more will come: a merged file is there, a connection was closed. *)
InputsEnded ==
  opts.merger = "tcp" => \A st \in Used : st \in opened /\ merge[st] = "done"

(* FFmpeg reads its inputs to the end, of which there must be something.   *)
FfmpegSucceeds ==
  /\ Running
  /\ mux = "ffmpeg"
  /\ InputsEnded
  /\ \A st \in Used : output[st] # <<>>
  /\ mux' = "muxed"
  /\ final' = [kind |-> "video",
               content |-> [st \in Stream |->
                              IF st \in Used THEN output[st] ELSE <<>>]]
  /\ UNCHANGED <<runVars, main, feed, files, mergeVars, opened, json, progress>>

(* The thumbnail cannot be written, or FFmpeg fails, at any point: but as  *)
(* long as it waits for input, nothing makes it fail.                      *)
FfmpegFails ==
  /\ Running
  /\ mux = "ffmpeg"
  /\ mux' = "failed"
  /\ \/ UNCHANGED final
     \/ final' = [NoFinal EXCEPT !.kind = "broken"]
  /\ UNCHANGED <<runVars, main, feed, files, mergeVars, opened, json, progress>>

(* progress.done, and concat removes the merged files.                     *)
RemoveMerged ==
  /\ Running
  /\ mux = "muxed"
  /\ progress' = EndProgress(progress)
  /\ output' = Empty
  /\ mux' = "deleting"
  /\ UNCHANGED <<runVars, main, feed, files, merge, segments, unmerged, opened,
                 final, json>>

InSegments(st) == {segments[st][i] : i \in 1 .. Len(segments[st])}

(* deleteSegmentFiles, unless --keep-files; Mux returns.                   *)
DeleteSegments ==
  /\ Running
  /\ mux = "deleting"
  /\ files' = IF opts.keepFiles THEN files
              ELSE [st \in Stream |-> files[st] \ InSegments(st)]
  /\ mux' = "ok"
  /\ UNCHANGED <<runVars, main, feed, mergeVars, opened, final, json, progress>>

Results(st) ==
  [i \in DOMAIN segments[st] |->
     [segment |-> segments[st][i], outcome |-> feed[st].outcome[segments[st][i]]]]

(* Mux of the download-only muxer.  A write that fails may have truncated  *)
(* the file.                                                               *)
WriteJson ==
  /\ Running
  /\ mux = "waiting"
  /\ opts.merger = "download-only"
  /\ BothMerged
  /\ progress' = EndProgress(progress)
  /\ \/ /\ mux' = "ok"
        /\ json' = [written |-> TRUE, results |-> [st \in Stream |-> Results(st)]]
     \/ mux' = "failed" /\ json' \in {json, NoJson}
  /\ UNCHANGED <<runVars, main, feed, files, mergeVars, opened, final>>

----------------------------------------------------------------------------
(* main, from there on *)

(* audioTask.Wait() and videoTask.Wait() return.                           *)
WaitDownloads ==
  /\ main = "waiting"
  /\ \A st \in Used : feed[st].phase \in {"ended", "failed"}
  /\ main' = "muxer"
  /\ UNCHANGED <<runVars, feed, files, mergeVars, muxVars, progress>>

DeletesTempDir == opts.tempDir = "random" /\ ~opts.keepFiles /\ ~opts.mergeOnly

(* Mux has returned nil: "Success!", and a random directory is deleted,    *)
(* but not with --merge.                                                   *)
Succeed ==
  /\ main = "muxer"
  /\ mux = "ok"
  /\ main' = "success"
  /\ IF DeletesTempDir
     THEN files' = [st \in Stream |-> {}] /\ output' = Empty
     ELSE UNCHANGED <<files, output>>
  /\ UNCHANGED <<runVars, feed, merge, segments, unmerged, muxVars, progress>>

(* "Muxing failed", "Failed to merge".                                     *)
ExitWithError ==
  /\ main = "muxer"
  /\ mux = "failed"
  /\ main' = "exited"
  /\ UNCHANGED <<runVars, feed, files, mergeVars, muxVars, progress>>

(* Ctrl-C, a crash, log.Fatalf elsewhere: the files stay as they are.      *)
Killed ==
  /\ Running
  /\ main' = "exited"
  /\ UNCHANGED <<runVars, feed, files, mergeVars, muxVars, progress>>

(* What may be run next: the same merger on the same directory, or --merge. *)
MayFollow(o) ==
  \/ o.mergeOnly
  \/ o.merger = opts.merger /\ opts.tempDir = "given" /\ o.tempDir = "given"

(* The program is run again; what was sent to FFmpeg is gone, and merged   *)
(* files are found in the directory they were written to.                  *)
Rerun ==
  /\ ~Running
  /\ runs < MaxRuns
  /\ runs' = runs + 1
  /\ opts' \in {o \in Options : MayFollow(o)}
  /\ NewProcess
  /\ output' = IF /\ opts.merger = "concat" /\ opts'.merger = "concat"
                  /\ opts.tempDir = "given" /\ opts'.tempDir = "given"
               THEN output ELSE Empty
  /\ UNCHANGED <<files, final, json>>

Terminated == ~Running /\ UNCHANGED vars

----------------------------------------------------------------------------

DownloadStep(st) ==
  \/ StartDownload(st)
  \/ CountFails(st)
  \/ \E s \in FeedSegment, r \in {"ok", "lost"} : Download(st, s, r)
  \/ EndDownload(st)
  \/ \E s \in FeedSegment : FeedResult(st, s)

MergeStep(st) ==
  \/ BeginMerge(st)
  \/ NextToMerge(st)
  \/ SkipLost(st)
  \/ CopySegment(st)
  \/ CopyFails(st)
  \/ RememberResult(st)
  \/ EndMerge(st)

MuxStep ==
  \/ StartFfmpeg
  \/ \E st \in Stream : OpenInput(st)
  \/ FfmpegSucceeds
  \/ FfmpegFails
  \/ RemoveMerged
  \/ DeleteSegments
  \/ WriteJson

MainStep ==
  \/ RefuseLeftovers
  \/ Start
  \/ RefuseMerge
  \/ StartMerge
  \/ WaitDownloads
  \/ Succeed
  \/ ExitWithError

Next ==
  \/ \E st \in Stream : DownloadStep(st) \/ MergeStep(st)
  \/ MuxStep
  \/ MainStep
  \/ Killed
  \/ Rerun
  \/ Terminated

Spec == Init /\ [][Next]_vars

(* What Mux and FFmpeg do unless they wait for somebody: FFmpeg ends, well *)
(* or badly, after its inputs have ended.  It may fail before, but does    *)
(* not have to.                                                            *)
MuxGoesOn ==
  \/ StartFfmpeg
  \/ \E st \in Stream : OpenInput(st)
  \/ InputsEnded /\ (FfmpegSucceeds \/ FfmpegFails)
  \/ RemoveMerged
  \/ DeleteSegments
  \/ WriteJson

(* All goroutines and FFmpeg keep running; nobody has to kill the program  *)
(* or to run it again.                                                     *)
Fairness ==
  /\ \A st \in Stream : WF_vars(DownloadStep(st)) /\ WF_vars(MergeStep(st))
  /\ WF_vars(MuxGoesOn)
  /\ WF_vars(MainStep)

FairSpec == Spec /\ Fairness

----------------------------------------------------------------------------

(* Whether q holds each of these segments once, and in order.              *)
Lists(q, these) ==
  /\ {q[i] : i \in 1 .. Len(q)} = these
  /\ \A i, j \in 1 .. Len(q) : i < j => q[i] < q[j]

(* The segments of a stream that were downloaded and could be copied.      *)
Copied(st) == {s \in FeedSegment : feed[st].outcome[s] = "ok"} \ unmerged[st]

(* When Mux has made a video, it holds, of every stream that was asked     *)
(* for, all the segments that were downloaded (but those whose copy failed *)
(* and was logged), once each and in order: FFmpeg was not started, and    *)
(* did not end, before the last segment was merged, and nothing of an      *)
(* earlier run was left in the merged files.  With --merge the streams and *)
(* segments are those of the run that wrote the JSON file.                 *)
FinalComplete ==
  mux \in {"muxed", "deleting", "ok"} /\ opts.merger # "download-only" =>
    /\ final.kind = "video"
    /\ \A st \in Used : Lists(final.content[st], Copied(st))
    /\ opts.mergeOnly =>
         \A st \in Used : \A s \in FeedSegment :
           [segment |-> s, outcome |-> feed[st].outcome[s]] \in
             {json.results[st][i] : i \in DOMAIN json.results[st]}

InSequence(s, q) == \E i \in 1 .. Len(q) : q[i] = s

(* What justifies that the file of segment s disappears in a step: it was  *)
(* merged, this run has made a video with it, or this run was a success.   *)
MayDelete(st, s) ==
  /\ ~opts.keepFiles
  /\ \/ opts.disableResume /\ InSequence(s, output'[st])
     \/ mux = "deleting" /\ final.kind = "video" /\ InSequence(s, final.content[st])
     \/ DeletesTempDir /\ mux = "ok" /\ main' = "success"

(* The file of a segment is deleted after it was merged (--disable-resume: *)
(* "Fragment files will be deleted as soon as they have been merged,       *)
(* instead of being deleted only after the download is done"), or once it  *)
(* is in the video of this run, or with a random directory after           *)
(* everything went well: a run that fails or is killed can be resumed from *)
(* what is left.  With --keep-files none is: "If both this option and      *)
(* 'keep-files' are passed, segments won't be deleted at all."             *)
DeletesOnlyMerged ==
  [][\A st \in Stream : \A s \in files[st] \ files'[st] : MayDelete(st, s)]_vars

(* The command lines for which the code keeps that promise.                *)
NeverBoth == \A o \in Options : ~(o.keepFiles /\ o.disableResume)

(* The merge bar counts what each merger is done with, although the        *)
(* mergers run side by side; with two streams that have segments it does   *)
(* not show the end before Mux is over.                                    *)
MergeBar ==
  /\ \A st \in Stream :
       progress.merged[st] =
         feed[st].merged - (IF merge[st] = "result" THEN 1 ELSE 0)
  /\ progress.ended /\ Used = Stream /\ Segments > 0 =>
       mux \in {"deleting", "ok", "failed"}

(* The program ends, whatever segments are lost or cannot be copied, and   *)
(* whether or not FFmpeg fails, if the segments can be counted: FFmpeg and *)
(* the tcp mergers wait for each other, but not in a circle.               *)
MainEnds == <>(\E st \in Stream : feed[st].phase = "failed") \/ <>[](~Running)

(* "Waiting for muxing to finish", "This can take a while for long videos": *)
(* the wait ends.                                                          *)
MuxingFinishes == <>[](~Running)

(* The JSON file of the download-only merger is there to be merged later   *)
(* (--merge): the downloaded segments it lists are.                        *)
JsonUsable ==
  main = "success" /\ opts.merger = "download-only" =>
    \A st \in Stream : \A i \in DOMAIN json.results[st] :
      json.results[st][i].outcome = "ok" => json.results[st][i].segment \in files[st]
=============================================================================
