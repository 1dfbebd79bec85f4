# A TLA+ model of ytarchive-raw-go

`ytarchive-raw-go` downloads the segments of the audio and the video stream of an
archived YouTube live stream, with many threads, retries and requeues, merges the
segments of each stream in order while they are still being downloaded, and muxes
the two merged streams into one file with FFmpeg. It has almost no tests; what
makes it correct is the interplay of goroutines, mutexes, files and an external
process. This directory models that interplay, checks it with TLC on small
instances, and proves the parts that matter most with TLAPS for every instance.

Contents: [1 The system](#1-the-system), [2 Modules](#2-modules),
[3 Runs](#3-runs), [4 Fairness](#4-fairness), [5 Proofs](#5-proofs),
[6 Findings](#6-findings), [7 Abstractions](#7-abstractions),
[8 Not modelled](#8-not-modelled), [9 Plan and what is left](#9-plan-and-what-is-left).

## 1 The system

### Components

| component | source | state it keeps | operations |
|---|---|---|---|
| sequential scheduler | `download/segments/work_queue.go` 42-110 | counter `next`, FIFO `failed` of requeued segments with count and timestamp; one mutex | `NextSegment`, `RequeueFailed` |
| out-of-order scheduler | `work_queue.go` 112-262 | per worker a batch `start..end` and a FIFO `failed`, each with a mutex of its own | the split (`makeBatchedScheduler`), `NextSegment` (own batch, then steal), `RequeueFailed` |
| segment status | `download/segments/segments.go` | map `segments` of results, list `missed`, merge position `mergedCount`; one mutex | `Downloaded`, `NextToMerge`, `Done`, `MissedSegments` (no lock), `IsLast`, `Total` |
| download task | `download/download.go` | the result; per thread `seg`, `requeues`, `failCount`, `networkFailCount`; the files of the segments | `Start`, `run`, `downloadTask`, `downloadSegment`, `Wait` |
| download progress | `download/progress_bar.go` | counters per stream and the set of requeued segments; one mutex | `init`, `requeued`, `lost`, `done` |
| http requester | `util/http.go` | one requester per address of the IP pool, each with its current client; per client `shouldClose` and `pendingRequests`; a mutex each | `GetRequester`, `Do`, `Dispose`, closing of a response body |
| mergers | `merge/concat.go`, `tcp.go`, `download_only.go`, `merge.go` | merged file or connection, list of segments to delete, a `WaitGroup` | `Merge` (one goroutine per stream), `MergeNothing`, `MergeDownloadInfoJson` (`--merge`) |
| muxers | the same files, `merge/ffmpeg.go` | the two mergers, output file | `Mux` (a goroutine), the run of FFmpeg |
| merge progress | `merge/progress.go` | `total`, counts, `ended`; one mutex | `initTotal`, `mergedAudio`, `mergedVideo`, `done` |
| main program | `main.go` | the options, which directory is to be deleted | creates everything, starts it, waits, cleans up |
| instance lock | `util/lock.go` | two lock files, in the temporary directory and next to the output, and the flocks on them | `LockFile`, the release it returns |
| log and terminal | `log/log.go` | the status of each progress, the print buffer, what is on the screen, a buffer per `Logger`; a mutex each | `Progress`, `Logger.output`, `doWrite` |
| templates | `util/util.go` 139-192, 234-237 | the text as far as it is expanded | `FormatTemplate` |
| command line, URLs, update check, platform shims | `args.go`, `download/parsed_url.go`, ... | settings | section 8 |

### How they interact

`main` takes the two locks, makes the output name from a template, creates a muxer with one merger per stream, and
starts a `DownloadTask` per stream (or `MergeNothing` for a stream that is not
wanted), a goroutine that runs `Mux`, and then waits first for the downloads and
then for `Mux`. A task's `run` learns the number of segments, creates the
`SegmentStatus` with its scheduler, starts `Merge` on it and the download threads,
and returns when the threads have ended. A thread gets segments from its work
queue, tries them through the http requester which it shares with all the other
threads, and hands each one either back to the queue, to be retried later by
anybody, or to `SegmentStatus`. `Merge` polls `SegmentStatus` for the segments in
order and copies each one to a file (`concat`) or to FFmpeg (`tcp`), or lists it
(`download-only`). `Mux` waits for the merges (`concat`, `download-only`) or lets
FFmpeg wait for them (`tcp`), and deletes what it has used. With `--merge` nothing
is downloaded: a goroutine per stream reports what a JSON file of an earlier
`download-only` run lists, to mergers that run as usual. All of them log, and the
downloads and the mergers keep status lines at the bottom of the terminal.

### What is hard about it

`PROJECT.json` lists every hazard with its line. In short:

* *Interleaving and atomicity.* Every component has a mutex of its own, so one
  logical step (a segment is done) is several critical sections. The scan of the
  out-of-order scheduler takes one lock after another (`work_queue.go` 228-242); a
  failed segment leaves its queue before its delay is waited for (101, 252);
  `Do` lets go of the requester's lock before it uses the client it got
  (`http.go` 235-244); `MissedSegments` takes no lock at all.
* *Ordering.* Threads report in any order, the merger consumes in segment order;
  `Mux` runs beside everything it depends on.
* *Retries.* A segment's attempts are spread over threads and rounds; the counters
  live partly in the thread, partly with the segment.
* *Nested locks.* A progress or a `Logger` holds its own mutex while it takes that of
  the screen, and a status is stored in one critical section and printed in another.
* *Text chosen by others.* A template is expanded with the title and the description
  of a video, which may hold keys and separators themselves.
* *Liveness.* "No more work" is final for a thread while other threads may still
  requeue; five kinds of goroutines and a process wait for each other.
* *Crashes and partial failures.* The program is made to be killed and resumed;
  copies may fail, FFmpeg may fail at any time, a response may come with an error.
  A segment's file passes through two names, is written over what an earlier run
  left, and is synced to the disk or not.
* *Arithmetic at the boundary.* The split into batches, batches eaten from both
  ends, the number of attempts of the last segment.

### What makes each component correct

* The schedulers: no segment is handed out twice or dropped; whoever is told that
  there is no more work leaves nothing behind that nobody will fetch; the delay of
  a requeued segment is waited for; everything is handed out in the end.
* The segment status and the task: a result is kept until the merger is at it; the
  missed segments are exactly those without a file; a segment is given up only
  after all its attempts; the result that `run` returns is final and complete.
* The segment files: what is called `.done` is the whole segment, never changes and,
  until it is deleted, is not downloaded again.
* The requester: a client is closed once, never in use, and in the end.
* The mergers, muxers and `main`: the output is complete and in order, files are
  deleted only when they are merged and nobody asked to keep them, and the program
  ends.
* The locks: of instances that share files one at a time.
* The screen: every logged line stays, the status lines are current once an update
  has returned and never go back, and whoever logs returns.
* The templates: the expansion is what a reader expects, keeps the separators of the
  template, and the directory if that is given without a key, and is found in the end.

## 2 Modules

    Batches ─────┬─ BatchSplit                    SegmentPool (abstract queue)
                 └─ BatchedScheduler ──implements──┤   │
                    SequentialScheduler ─implements┘   │ extended by
                                                   DownloadTask
                                                       │ implements
    Feeds ──── StreamFeed (abstract download) ─────────┘
       └────── Muxer (takes its two streams from Feeds)

    SegmentFiles (one attempt of DownloadTask in full)
    HttpClient (its requests)      LockFile      Screen      Template

Two abstract specifications tie the modules together. `SegmentPool` is what the
download threads rely on: a set of segments that are queued, held or finished.
Both schedulers are shown to implement it, and `DownloadTask` is written on top of
it, so what is checked and proved of the task holds with either scheduler.
`StreamFeed` is what the mergers rely on: every segment is reported once, in any
order, as downloaded or lost, and `run` returns when all are. `DownloadTask` is
shown to implement it, and `Muxer` composes two such feeds (its download actions
are the operators of `Feeds` that `StreamFeed` is made of) with the mergers, the
muxer and `main`.

* **SegmentPool** - `Take`, `Leave`, `Requeue` and `Finish` per worker. `Leave`
  may happen while segments are queued, as the code's scan allows it, but not if
  the last worker leaves.
* **SequentialScheduler** - `next`, the queue `failed`, and per worker where it is
  in `NextSegment`: `TakeNext` and `TakeFailed` are the two branches of
  `nextInternal`, `WaitOver` the end of `f.wait()`, `NoMoreWork` the return of
  `ok = false`. The caller may requeue its segment up to `RequeueLimit` times.
* **Batches**, **BatchSplit** - the split: the loops of `makeBatchedScheduler`, an
  iteration per step, and its closed form.
* **BatchedScheduler** - the batches of the closed form. `TakeOwn`,
  `TakeOwnFailed` are `tryGetNext`; `StartScan`, `StealFailed`, `StealFresh` and
  `StealNothing` are `nextInternal` and `trySteal`, one batch, i.e. one critical
  section, per step; `NoMoreWork` is the end of the scan.
* **DownloadTask** - `run` (`CountSegmentsFails`, `StartThreads`, `Return`), a
  thread's loop (`NextSegment`, `NoMoreSegments`, `ReplaceClient`,
  `RequeueSegment`, `GiveUp`, `DownloadOk`, `DownloadFails`), the later calls on
  `Progress` (`ShowRequeued`, `ShowLost`, `ShowDone`: each with another lock, so a
  step of its own), and the merger's `NextToMerge`.
* **SegmentFiles** - `downloadSegment` on the files of a segment: `Cached` (there is
  a `.done` file), `Request`, `RequestFails`, `OpenFile` (without truncation),
  `CopyBlock`, `CopyEnds`, `Sync`, `Close`, `Rename`, `WriteFails` at each of these,
  `Report`, the caller's `GiveUp`, and `Delete`, by which mergers, muxers and `main`
  remove a file that was reported; `Killed` at any point and `PowerCut`, which takes
  what was not synced, each followed by another run, with other values of
  `--start-segment` and `--fsync`.
* **HttpClient** - a requester per address; `Do` in its critical sections
  (`GetClient`, `StartRequest` or `CloseRequested`, then `Responds`, `RequestFails`
  or `TooManyRedirects`), the retries of `doRequest`, the second request that
  `downloadSegment` makes, the bodies that a thread has open, `CloseBody`, and
  `ReplaceClient` (`Dispose` and `GetRequester`).
* **Feeds**, **StreamFeed** - the abstract download.
* **Muxer** - `main` from the creation of the muxer on (`RefuseLeftovers`, `Start`,
  `WaitDownloads`, `Succeed`, `ExitWithError`), the downloads, `Merge`
  (`BeginMerge`, `NextToMerge`, then `SkipLost`, `CopySegment`, `CopyFails` or
  `RememberResult`, and `EndMerge`), `--merge` (`RefuseMerge`, `StartMerge`, and
  `FeedResult` in place of a download), `Mux` (`StartFfmpeg`, `RemoveMerged`,
  `DeleteSegments`, `WriteJson`), FFmpeg as an external reader (`OpenInput`,
  `FfmpegSucceeds`, `FfmpegFails`), and a user who kills the program at any time
  (`Killed`) and runs it again on the same directory (`Rerun`).
* **LockFile** - the two locks of each instance, one after the other: `Open`, `Lock`,
  `Refused`, then `UnlockFile` and `RemoveFile` for each in reverse order, and `Crash`
  and `Start`; a lock belongs to the open file, the name is separate.
* **Screen** - a goroutine's call: `Update`, `FormatStatus`, `Store`, `Compose`,
  `Emit` for a progress, `Format`, `Compose`, `Emit` for a line of a `Logger`, and
  `Unlock`; `holder` says who has which mutex. A line of a `Logger` is
  its goroutine and the number of the call.
* **Template** - a replacement of the first key per step (`Replace`), `UnknownKey`,
  `ReturnText`; keys are looked up in lower case.

`MC*` modules and `*.cfg` hold the instances for TLC, `*Proofs` and
`SchedulerLemmas` the proofs. Definitions whose comment starts with "A mutant" are
no part of the model: each is a plausible bug in the definition that follows it,
listed in `PROJECT.json` with the property that finds it.

## 3 Runs

| run | instance | distinct states | properties |
|---|---|---|---|
| `sequential` | 3 workers, 3 segments, 2 requeues each | 22 thousand | `TypeOK`, `DelayHonoured`, `ImplementsPool`, `EverythingFinishes` |
| `loops` | all of 0..24 segments, 1..8 workers; 7 templates, titles of up to 2 tokens, keys in values | 8800 | `ClosedForm`, `Partition`, `Expanded`, `SavedWhereAsked`, `Returns` |
| `batched` | 3 workers, 3 segments, 2 requeues each | 377 thousand | `TypeOK`, `NoOrphanedWork`, `DelayHonoured`, `ImplementsPool`, `EverythingFinishes` |
| `download` | 2 threads, 3 segments, threshold 1, one requeue, the last segment not requeued | 1.3 million | `TypeOK`, `OnePlace`, `MergeWindow`, `MissedExactly`, `LostAfterAllTries`, `ProgressAdds`, `RequeuedShown`, `LostIsFinal`, `ImplementsFeed`, `TaskEnds` |
| `segment_files` | 2 segments of 1 or 2 blocks, 3 runs, from 2 starts | 1.7 million | `OwnSegment`, `Reuses`, `DoneStays` |
| `http` | 2 threads, 2 addresses, 3 clients each, 2 tries, 1 endless redirect | 442 thousand | `NotClosedInUse`, `ClosedOnce`, `ClosedByLastRequest` |
| `muxer` | 2 segments per stream, 12 command lines, 2 runs | 1.1 million | `FinalComplete`, `MergeBar`, `DeletesOnlyMerged`, `MainEnds` |
| `lock` | 3 downloads and a `--merge` with 2 locks each, 5 lock files | 909 thousand (with symmetry) | `ExclusiveUntilRemoved`, `SecondLockHolds` |
| `screen` | 3 goroutines, 2 operations each, one `Logger` | 49 thousand | `ScreenCurrent`, `LogKept`, `NeverOlder`, `CallsReturn` |
| `mux_hang`, `mux_json`, `mux_keep` | small | | one property each, violated: section 6 |

What they show:

* **sequential, batched.** A requeued segment is in one queue once, is not started
  before its delay is over even if it was stolen, and every segment is handed out
  and reported by the time the last worker is told that there is no more work.
  `ImplementsPool` says that of every step. `NoOrphanedWork` is the reason why the
  non-atomic scan is safe: only the owner puts segments into a batch, and it reads
  it again before it looks elsewhere; a worker that misses a requeued segment can
  leave, the owner is still there. Three workers are needed for two thieves and a
  victim; three segments make batches of two, one and none, so there is a worker
  that only steals, a batch eaten from both ends and a thief robbed by a thief;
  two requeues let a stolen segment be stolen back. The proofs cover all other
  numbers.
* **loops.** The two loops of the program that work on data alone, one after the
  other. `makeBatchedScheduler` makes exactly one batch per worker and the closed form
  used by `BatchedScheduler` is what it computes; the ranges include no segments,
  fewer segments than workers, and every remainder. `FormatTemplate` is run on
  templates with a key twice, in another case, inside another one, unknown or erased,
  and on values that hold keys, halves of keys and separators: where the values hold no
  part of a key the result is what expanding each value by itself gives; whatever they
  hold, the number of separators stays that of `--output`, and so does a directory
  without a key in it; and the result is found, unless values bring each other in in a
  circle.
* **download.** The files, the results, the missed list, the attempts and the
  counters of the bar agree at every interleaving; the task is a `StreamFeed`; and
  it ends whatever the server does. Threshold 1 makes a round of one attempt; the
  last segment gets 5 (`max(FailThreshold / 4, 5)`), enough for the network
  failures (more than 3) to replace the client within a segment and between two.
  Any subset of the segments may be on disk at the start.
* **segment_files.** Wherever runs are stopped and whatever they left in
  `.incomplete`, a `.done` file is the whole segment of that number, stays as it is
  until it is deleted, and until then no run with the same start requests what was
  reported once. The exceptions are in `Trusted` and `Reuses`, because the code has
  them: a run from another `--start-segment` in the same directory, and a power cut
  when some run went without `--fsync`. As long as the start is the same, a leftover in
  `.incomplete` is never longer than what is written over it; the two lengths are for
  whole blocks that are missing after a power cut. The third run is needed to find what
  the second made of the leftovers of the first.
* **http.** Whoever disposes of a shared client when, it is closed once, by the
  disposer or by the last user, never under an open response. Two threads are the
  user and the disposer, two addresses let a thread dispose of one client while it
  holds the other, and with three clients both threads can be a client behind.
* **muxer.** With each merger, both streams or one, a directory that is deleted or
  resumed from, segments lost, copies failing, FFmpeg failing at any time, the
  program killed at any time and run again with other options: a video that `Mux`
  reports is complete and in order; a file disappears only once it is merged, in this
  run, and not with `--keep-files` (but for the two options of finding 3, which have a
  run of their own); `main` ends if the segments can be counted, also with an FFmpeg
  that waits for its inputs as long as they are open; the merge bar counts what was
  merged; and `--merge` makes of a JSON file what a download would have made. Two
  segments per stream suffice for order, for a lost or uncopied segment next to a
  good one, and for leftovers with part of the segments. Two runs suffice for
  leftovers: nothing of a run survives but its files.
* **lock.** Crashed, refused and failed instances keep nobody out and let no two
  in that share a lock file which no release has removed yet. After the first
  release that removes one, two may be in at one lock, and the other still keeps
  apart those that share both; only a second such release can let them meet. The
  third instance has another temporary directory and the same output, the fourth is
  a `--merge` with `-i` in the directory of the first two: it has their first lock, and
  as its second one that of its output without an extension (`main.go` 54,
  `download_only.go` 65), which none of the others takes.
* **screen.** Two downloads share a mutex and the merger has its own, so all three
  kinds of mutex meet: nobody is stuck, no line is lost or shown twice, and no
  status line goes back, because whoever stores a status keeps its own mutex until
  it is printed. With two operations each, every order of two updates of one
  category and of two goroutines' lines occurs.

Bounds that cut behaviour: `RequeueLimit`, `RequeueFailed`, `FailThreshold`,
`RetryThreshold`, `Starts` and `LocksOf` are settings of the program and not cuts.
`MaxClients` keeps the last client of an address from being disposed of,
`MaxLoops` limits dropped responses, `MaxFiles` the creations of lock files,
`MaxRuns` the runs, `MaxOps` the calls of a goroutine, `MaxLength` the text that an
endless expansion is followed to. `MaxFiles` stops the instances, `MaxRuns` the
segment files (hence `CHECK_DEADLOCK FALSE` in both). Elsewhere deadlock is checked:
`Terminated` and `Over` stutter only in the states in which the program has really
ended, or at `MaxLength`.

## 4 Fairness

* Schedulers, `DownloadTask`: weak fairness of each worker's step, of `run` and of
  the merger. These are goroutines; Go's scheduler is preemptive, mutexes are held
  for a bounded number of instructions, and the merger polls. Weak fairness of
  `DelayElapses(s)` is the clock. Fairness is on the disjunction of a worker's
  steps, so nothing is assumed of the outcome: every attempt may fail.
* Both of these assume that a request ends. That is an assumption on the network,
  not on the code: the clients dial with a timeout and keep connections alive, but
  no request has a deadline (`http.go` 211-215), so a server that falls silent in the
  middle of a response holds its thread, and with it `run`, for as long as the
  connection lives.
* `HttpClient`: weak fairness of a thread's steps inside `downloadSegment`: a
  request is answered or fails in the end. Beginning another download or disposing
  of a client is not fair.
* `Muxer`: weak fairness of each stream's download and merge, of `Mux` with
  FFmpeg, and of `main`. `Killed` and `Rerun` are not fair. FFmpeg opens its inputs
  when it can, and ends, successfully or not, after all of them have ended
  (`InputsEnded`). Before that it may fail at any time, but nothing makes it: an
  FFmpeg that waits for input waits for ever (`MuxGoesOn` has `FfmpegFails` only
  together with `InputsEnded`), so `MainEnds` would find a circle of FFmpeg, the tcp
  mergers and the downloads, and `mux_hang` finds the wait for a merger that is never
  started with either merger.
* `Screen`: weak fairness of each goroutine's steps. Nobody sleeps or waits for
  anything else while it holds one of these mutexes, and Go's mutexes let everybody
  through in the end (a goroutine that has waited for a millisecond is served next).
* `Template`: weak fairness of the loop.
* `LockFile` and `SegmentFiles` have no liveness property: an instance may run
  forever, and a segment is tried again by `DownloadTask`, where that is checked.

## 5 Proofs

All proofs are checked by tlapm with SMT, Zenon and LS4, for every value of the
constants under the assumptions the modules name: any natural number of segments,
a non-empty set of workers (`WorkersAssumption`, `WorkerAssumption`; at least one
thread in `ThreadsAssumption`), natural limits, a threshold of at least 1
(`ThresholdAssumption`: `DownloadTask.Start` replaces anything less), and finitely
many threads (`FiniteWorkers`, `FiniteThreads`, used only to count them), command
lines of the known form (`OptionsAssumption`), segments of at least one block
(`LengthAssumption`: an empty file is not taken for a segment, section 7), goroutines
that are told from the status lines by their names (`GoroutinesAssumption`), lock files
that are the same lock, the first or the second, of all who take them
(`OrderAssumption`: the first is in the temporary directory and named after the id of a
video, `main.go` 54, the second is next to the output and named after it, `main.go` 112
and `download_only.go` 65; that a user does not make one name of the two is assumed),
a lower case for every word (`LowerAssumption`), and words that are no delimiters
(`WordAssumption`). Templates, keys and values are any. `DeletedOnceMerged` is proved
under `NeverBoth`, that no command line has both `--keep-files` and `--disable-resume`:
with both the code does otherwise (finding 3).
`NoSegment` is not a segment, as -1 is not.

| module | theorems | the inductive invariant |
|---|---|---|
| `SequentialSchedulerProofs` | `TypeCorrect`, `RequeuedOnce`, `WaitsForDelay`, `ImplementsThePool` | what a worker holds is below `next`, in no queue and in no other hands; only what was fetched once is queued as failed or has a delay. Without the last part a fresh segment could have a delay running and be started at once. |
| `BatchedSchedulerProofs`, on `BatchSplit` | `SplitClosedForm`, `SplitPartition`, `SplitMakesInit` | the loop invariant: so many full batches so far, each as computed, and `lastSeg` right after them. The arithmetic of the closed form (`BatchesPartition`) is in `SchedulerLemmas`. `SplitMakesInit` joins the two modules: what the loops leave is the scheduler's initial state. |
| `BatchedSchedulerProofs` | `TypeCorrect`, `BatchesKeepTheirOwner`, `RequeuedOnce`, `WaitsForDelay`, `ImplementsThePool` | fresh parts and failed queues are apart from each other and from what workers hold, and `NoOrphanedWork`. The latter is what makes `NoMoreWork` a legal `Leave`: if a worker leaves with segments queued, the batch they are in has an owner that is neither scanning nor gone, and so is still live. |
| `DownloadTaskProofs` | of the pool: `PoolTypeCorrect`, `PoolOnePlace`, `PoolNothingLeftBehind`; of the task: `TypeCorrect`, `MergesInOrder`, `MissedIsExact`, `TriedBeforeLost`, `NoneForgotten`, `LostFinal`, `ResultsKept`, `ProgressCounts`, `RequeuesShown`, `ImplementsTheFeed` | for the pool `OnePlace`, plus: whoever left holds nothing, and when all have left nothing is queued (`NothingLeftBehind` alone speaks only of the moment when all have left). For the task the invariant of the pool (its steps are steps of the pool), `Control` (what a thread's locals say of the shared state), `MergeWindow`, `MissedExactly`, and `TriesCounted`: the attempts of a queued segment are full rounds, those of a segment in work full rounds plus the thread's `failCount`. `LostAfterAllTries` speaks only of lost segments and is not inductive without it. |
| `FileProofs`, on `SegmentFiles` | `TypeCorrect`, `WholeSegments`, `FetchedOnce`, `DoneFilesStay` | `Good`: the place of an attempt says what is in the two files, block by block, and which part of it is on the disk; and what is in `fetched` has its file. `OwnSegment` speaks of the file that was renamed; that it is whole depends on what was written over what since the file was opened. |
| `FileProofs`, on `Template` | `SavedInItsDirectory`, `ExpandedInPlace` | for the separators their number: what is replaced has none and a value has none once it is sanitized. For the directory `BeginsAsGiven`: the text still begins with it, since no key to be replaced begins there; with as many separators as before none comes after it. For the expansion `FillInv`: the text is always the template with the keys of some set replaced, each in its place; replacing one more key everywhere adds it to the set (`FilledUpto`), only keys outside the set are left to be found (`OnlyOthersLeft`), and all of those are (`OthersAreLeft`). |
| `HttpClientProofs` | `TypeCorrect`, `NeverClosedInUse`, `ClosedOnlyOnce`, `ClosedByTheLast`, `CurrentIsOpen` | the pending count of a client is the number of its requests, its open bodies and its dropped responses (a cardinality, so `FiniteSetTheorems` is used), a client is closed exactly if it is to be closed and nothing is pending, and the current client of a requester is not to be closed. `ClosedByTheLast` is the safety half of `ClosedByLastRequest`: whoever is the last user, the client is closed when there is none any more. |
| `MuxerProofs` | `TypeCorrect`, `VideoComplete`, `BarCounts`, `DeletedOnceMerged`, `StreamsAreFeeds` | per stream `Merging` (how far the merger is, and that the bar agrees), `Contents` (what was merged are the downloaded and copied segments up to there, and only merged ones are to be deleted) and `Fed` (the JSON file lists all segments or none, and a stream of `--merge` reports what it lists), and `Muxing`: how far `Mux` may be. `FinalComplete` speaks of the video only; that it is complete is decided when each segment is merged. `StreamsAreFeeds` closes the composition: of a stream `Muxer` sees a `StreamFeed`, the same that `DownloadTask` implements, or a rerun. |
| `LockProofs`, on `LockFile` | `LockTypeCorrect`, `Exclusive`, `TwoLocksHold` | whoever has a lock has its file open, a file is locked through one lock only, and who has a file open under a name that was never removed has the file of that name (`NamedFile`). For `TwoLocksHold`: the first release to remove a second lock file still has its first lock while it does, so those it leaves with a nameless second file do not have that first lock, and it removes the first file only later. |
| `LockProofs`, on `Screen` | `ScreenTypeCorrect`, `ScreenIsCurrent`, `LinesKept`, `StatusNeverOlder`, `NobodyStuck` | the screen lags behind the status, and the status behind the progress, exactly by the categories that somebody has still to show or to store, and whoever has holds the mutex of that progress; the buffers belong to the holder of their mutex; the lines on the screen and in the buffers are those called for. `NobodyStuck`: of those inside a call one waits for no mutex, the deadlock freedom of the nesting. |

The refinements (`ImplementsThePool`, `ImplementsTheFeed`) show that initial states
map to initial states and each step to a step or a stutter, under the invariant.
`SchedulerLemmas` states what taking the head of a queue without repetitions and
appending to it do, and the arithmetic of the batches.

Proved and not checked by a run of its own: `FailedOnce` of both schedulers,
`NothingLeftBehind`, `NothingForgotten`, `ResultsStay`, and the type invariants of
`SegmentFiles`, `HttpClient`, `Muxer`, `LockFile`, `Screen` and `Template`,
`NoneLeftOpen`, `CurrentOpen`, `StartsWithSplit` and `NobodyStuck`.

Every invariant and every action property that a passing run checks is also proved.
Only model-checked: all liveness (`EverythingFinishes`, `TaskEnds`,
`ClosedByLastRequest`, `MainEnds`, `CallsReturn`, `Returns`), because the provers
have neither fairness nor `ENABLED`.

Induction over data. The library's induction theorems take a predicate as a
parameter and cannot be instantiated here, but the one over well-founded relations
that speaks of sets (`WFMin`) can: `NatSetInduction` in `FileProofs` takes the set
of the numbers for which a fact holds. From it follow what `FlattenSeq` computes
(`Flattened`, `FlatConcat`), induction over sequences (`SeqSetInduction`) and over
the tokens and keys of a template (`BlockInduction`), and that the recursive
`Expansion` has a value (`ExpansionFrom`).

## 6 Findings

Three properties that the repository's own text promises are violated; each has a
run that finds the behaviour.

1. `mux_hang` / `MuxingFinishes` (`main.go:201`). When the segments of a stream
   cannot be counted, `run` returns before it starts `Merge`; `Mux` waits for it
   forever (with tcp FFmpeg does, for input, and `Mux` for FFmpeg), and `main` for
   `Mux`.
2. `mux_json` / `JsonUsable` (`main.go:215`). With `--merger download-only` and the
   default temporary directory `main` deletes the directory, with the segments the
   JSON file lists, before anybody can merge them as the usage shows.
3. `mux_keep` / `DeletesOnlyMerged` (`merge/concat.go:144`, the same in `tcp.go` 146).
   With `--keep-files` and `--disable-resume` together "segments won't be deleted at
   all", says the usage (`args.go` 96-97); the mergers delete each one they have merged.
   `DeletesOnlyMerged` demands what the usage says; the run `muxer` checks it on the
   command lines that do not have both (`NeverBoth`).

Observations that have no run of their own:

* The last segment is tried `max(FailThreshold / 4, 5)` times, more often than the
  others if the threshold is below 5 (`download.go` 207-215).
* `networkFailCount` is reset neither by a success nor by a new segment (217-225).
* A worker of the out-of-order scheduler sleeps on its own unripe segment although
  other batches have fresh ones (`work_queue.go` 195-201, `TakeOwnFailed`).
* `Progress.requeued` may come after the segment was downloaded by another thread,
  and then shows it as requeued for ever; `RequeuedShown` allows exactly that.
* A segment whose copy failed is not among the lost segments, and its file goes
  with a random temporary directory.
* An ignored stream sets the total of the merge bar to 0 if its merger is first, and
  the bar shows the end at once (`MergeBar` speaks of its end only for two streams).
* After ten redirects `http.Client.Do` returns a response together with an error.
  `internalClient.do` wraps its body in an `endReader`, `doRequest` drops it
  (`http.go` 303): the pending count never comes back to 0, and a client that was
  disposed of is never closed. `ClosedByLastRequest` therefore leaves out clients
  with a dropped response.
* The release of a lock unlocks and then removes (`lock.go` 22). An instance that
  opened the file in between locks a file without a name, the next one creates and
  locks a new file: hence `ExclusiveUntilRemoved`, and at most one release that has
  got as far as a removal in `SecondLockHolds`.
* `--merge` and a download share a lock less often than one may think. The first lock
  is `<id>.lock` only if the video is given with `-i`, and `.lock` without it
  (`main.go` 54); the second one of a download is named after the output with its
  extension, that of `--merge` after the output without one (`main.go` 112,
  `download_only.go` 65). So a download and a `--merge` may write the same video at the
  same time. A `download-only` run and one that makes the video name their second lock
  after different files, too (`download_only.go` 119, `concat.go` 82).
* `ConcatMuxer.Mux` removes the merged audio and video also with `--keep-files`
  (`concat.go` 62-72).
* `--merge` without `--temp-dir` leaves its random directory behind.
* Another `--start-segment` on the same directory takes `.done` files for segments
  they are not, and a shorter segment written over a longer `.incomplete` keeps the end
  of the latter; after a power cut without `--fsync` a `.done` file that is short is
  believed (`Trusted` in `SegmentFiles`).
* A title with `%(title)s` or `%(TITLE)s` in it is expanded for ever (`Acyclic` in
  `Template`).
* Where the directory of `--output` has a key in it, its value decides: a channel or a
  title that is `..` stays as it is (`util.go` 187), and an erased key leaves its
  component empty. `SavedWhereAsked` therefore speaks of directories without a key.

## 7 Abstractions

* A segment is a number, and a segment file is there (complete and not empty) or
  not. A merged file or FFmpeg's input is the sequence of the segments copied to it;
  a copy either succeeds or adds nothing (a copy that fails half-way would leave
  part of a segment in the merged file).
* Time: a requeued segment's timestamp is `s \in unripe`, and delays elapse in any
  order, although with a constant delay they elapse in the order of the requeues.
  Sleeps and backoff are left out: any step may take any time.
* `SegmentFiles`: a file is the sequence of its blocks and a block is named after the
  segment it is from. The file system is external: a file that was not synced comes
  back shorter or empty, a rename may be undone; a deletion is on the disk at once (a
  file that comes back is as whole as before). A segment has at least one block; an
  answer with an empty body makes a `.done` file that `FileNotEmpty` does not
  believe. The threads are left out, because two of them never have the same segment
  (`OnePlace`).
* `DownloadTask` takes the outcome of `downloadSegment` as given: success, a
  network failure or another failure; a segment whose file is there always
  succeeds. Its `onDisk` means that the file was produced; that mergers delete it
  again is in `Muxer`.
* The number of segments is found or not; that it may come from the command line
  is one of the ways of finding it. In `Muxer` both streams have the same number.
* In `Muxer`, FFmpeg opens its inputs in the order of its arguments, and the second
  one only when it has seen the start or the end of the first; it succeeds only
  after it has read all inputs to their end and there was something in each; it
  may fail at any time, with the output untouched or broken. What a merger sends is
  buffered, i.e. an FFmpeg that does not read does not stop the sender. What `main` and the
  muxers call `log.Fatalf` for (directories that cannot be created and the like)
  is covered by `Killed`, which may happen at any time. An error of `Accept` is
  left out. A rerun uses the same directory and merger, or is `--merge`.
* The JSON file is written in one step, which may fail and leave it as it was or
  unusable.
* `HttpClient`: the requests are those of `downloadSegment`; the one by which
  `getSegmentCount` counts the segments is left out. Endless redirects happen on
  one client.
* `Screen`: a logged message is one row, no wider than the terminal; a status is the
  number of its updates. Which goroutine gets a free mutex is arbitrary.
* `Template`: a text is a sequence of tokens, `%(`, `)s`, words and `/`, the latter for
  all that `sanitizeFilename` replaces.
  A key is looked up in lower case (`Lower`), as in the code.
* `LockFile` models `flock` on Unix: the lock goes with the open file, an open
  file outlives its name, and a process that dies closes its files.
* The history variables `tries`, `closes`, `dropped`, `removed`, `releases`,
  `unmerged`, `fetched`, `cuts`, `relaxed`, `moved`, `said` and `given` are not in the code; no
  guard but the bound of `TooManyRedirects` reads them.

## 8 Not modelled

* `args.go`: sequential parsing of flags into settings. The bounds that other modules
  assume of settings are cited where they are assumed.
* `parsed_url.go`, and the parsing of the fregJSON file in `util.go`: pure functions
  on strings, without state.
* `http.go`: transports, sockets, QUIC and the IP pool file: configuration of the
  clients, which keeps no state others depend on; and that a request has no deadline
  (212), which is an assumption of section 4.
* Four hazards of `PROJECT.json` have no property, because the code is exposed to them
  and no text of the repository promises otherwise; the properties next to them exempt
  just that case: the dropped response (`http.go` 304), the request without a deadline
  (212), another `--start-segment` on one directory (`download.go` 289), and the end of
  a longer leftover, which takes such a change of the start (326).
* `ffmpeg.go`: finding FFmpeg, its protocols and its arguments. Its run is external
  in `Muxer`.
* `log`: formatting, levels and the window title.
* `progress_bar.go`, `progress.go`: the estimated time and the wording of the lines.
* `main.go` before the locks, and the wiring of options to tasks: single steps in
  sequence.
* `update_check.go`, rlimit and console shims: single calls at start-up.

## 9 Plan and what is left

The order of work was: what loses or duplicates segments first, then what loses
files, then what only shows.

| | modules | what for | state |
|---|---|---|---|
| 1 | `SegmentPool`, `SequentialScheduler`, `Batches`, `BatchSplit`, `BatchedScheduler` | the queues and their common abstraction | modelled, checked, proved |
| 2 | `DownloadTask`, `Feeds`, `StreamFeed` | threads, retries, status, progress; the abstraction for the mergers | modelled, checked, safety proved |
| 3 | `SegmentFiles` | a segment's files over crashes, power cuts and resumes | modelled, checked, proved |
| 4 | `HttpClient` | clients that are replaced while in use | modelled, checked, safety proved |
| 5 | `Muxer` | composition of two feeds, or a JSON file, with mergers, muxers, FFmpeg, `main`, crashes and reruns | modelled, checked, safety proved |
| 6 | `LockFile`, `Screen` | the protocols between instances and on the terminal | modelled, checked, safety proved |
| 7 | `Template` | the expansion of names | modelled, checked, safety proved |

Left: a refinement of `SegmentFiles` to the `onDisk` of `DownloadTask`, which today
share only the outcome of an attempt.
