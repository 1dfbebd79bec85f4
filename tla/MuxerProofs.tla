----------------------------- MODULE MuxerProofs -----------------------------
(* The video is complete, in order and of one run, and nothing is deleted   *)
(* before it is in there, for any number of segments, any command lines and *)
(* any number of runs, wherever they are stopped.                           *)
EXTENDS Muxer, TLAPS

(* How many results each merger is done with.                               *)
Dealt(st) == feed[st].merged - (IF merge[st] = "result" THEN 1 ELSE 0)

(* The segments that should be in what a stream has merged so far.          *)
DoneSoFar(st) == {s \in Copied(st) : s < Dealt(st)}

Has(q) == {q[i] : i \in 1 .. Len(q)}

(* How far the merger of a stream is, and what it has counted.              *)
Merging(st) ==
  /\ merge[st] \in {"off", "started"} => feed[st].merged = 0
  /\ merge[st] = "result" => feed[st].merged > 0
  /\ merge[st] = "done" /\ ~Ignored(st) => feed[st].merged = Segments
  /\ Ignored(st) => merge[st] \in {"off", "started", "done"} /\ feed[st].merged = 0
  /\ feed[st].phase = "counting" /\ ~Ignored(st) => merge[st] = "off"
  /\ \A s \in FeedSegment : s < feed[st].merged => feed[st].outcome[s] # "none"
  /\ \A s \in unmerged[st] : s < Dealt(st)
  /\ progress.merged[st] = Dealt(st)

(* What it has remembered and merged.                                       *)
Contents(st) ==
  IF opts.merger = "download-only"
  THEN /\ Len(segments[st]) = Dealt(st)
       /\ \A i \in 1 .. Len(segments[st]) : segments[st][i] = i - 1
  ELSE /\ Has(segments[st]) \subseteq DoneSoFar(st)
       /\ mux \in {"waiting", "ffmpeg", "muxed"} => Lists(output[st], DoneSoFar(st))

(* The JSON file lists all segments of a stream or none, and with --merge   *)
(* the download of a stream says what it lists.                             *)
Fed(st) ==
  /\ json.results[st] # <<>> =>
       /\ Len(json.results[st]) = Segments
       /\ \A i \in 1 .. Segments : json.results[st][i].segment = i - 1
  /\ opts.mergeOnly =>
       \A s \in FeedSegment :
         feed[st].outcome[s] # "none" =>
           /\ s < Len(json.results[st])
           /\ feed[st].outcome[s] = json.results[st][s + 1].outcome

(* What the place of Mux says of the rest, of the mergers first of all.     *)
Muxing ==
  /\ main = "create" => mux = "off"
  /\ main \in {"waiting", "muxer"} => mux # "off"
  /\ mux = "off" =>
       \A st \in Stream :
         /\ feed[st] = NewFeed /\ merge[st] = "off"
         /\ segments[st] = <<>> /\ unmerged[st] = {}
  /\ mux \in {"ffmpeg", "muxed", "deleting"} => opts.merger # "download-only"
  /\ mux = "ffmpeg" /\ opts.merger = "concat" => BothMerged
  /\ opts.mergeOnly /\ mux # "off" => opts.merger # "download-only"
  /\ mux \in {"muxed", "deleting", "ok"} /\ opts.merger # "download-only" =>
       /\ final.kind = "video"
       /\ \A st \in Used : merge[st] = "done" /\ Lists(final.content[st], DoneSoFar(st))

(* The merge bar.                                                           *)
Bar ==
  Used = Stream =>
    /\ progress.total \in {-1, Segments}
    /\ progress.ended /\ Segments > 0 => mux \in {"deleting", "ok", "failed"}

Inv ==
  /\ TypeOK
  /\ \A st \in Stream : Merging(st) /\ Contents(st) /\ Fed(st)
  /\ Muxing
  /\ Bar

----------------------------------------------------------------------------
(* Feeds and the bar *)

LEMMA SegmentNumbers ==
  /\ Segments \in Nat
  /\ \A s : s \in FeedSegment <=> s \in Int /\ 0 =< s /\ s < Segments
  BY FeedAssumption DEF FeedSegment

LEMMA FeedSteps ==
  ASSUME NEW f \in Feed
  PROVE  /\ Failed(f) \in Feed /\ Started(f) \in Feed /\ Ended(f) \in Feed
         /\ \A s \in FeedSegment, r \in {"ok", "lost"} : Reported(f, s, r) \in Feed
         /\ MayMerge(f) => Merged(f) \in Feed
<1>1. Failed(f) \in Feed /\ Started(f) \in Feed /\ Ended(f) \in Feed
  BY DEF Feed, Failed, Started, Ended
<1>2. ASSUME NEW s \in FeedSegment, NEW r \in {"ok", "lost"}
      PROVE  Reported(f, s, r) \in Feed
  <2>1. [f.outcome EXCEPT ![s] = r] \in [FeedSegment -> {"none", "ok", "lost"}]
    BY DEF Feed
  <2> QED
    BY <2>1 DEF Feed, Reported
<1>3. ASSUME MayMerge(f) PROVE Merged(f) \in Feed
  <2>1. f.merged + 1 \in 0 .. Segments
    BY <1>3, SegmentNumbers DEF MayMerge
  <2> QED
    BY <2>1 DEF Feed, Merged
<1> QED
  BY <1>1, <1>2, <1>3

LEMMA NewFeedType == NewFeed \in Feed
<1>1. 0 \in 0 .. Segments
  BY SegmentNumbers
<1> QED
  BY <1>1 DEF Feed, NewFeed

Progress == [total : {-1, 0, Segments}, merged : [Stream -> 0 .. Segments], ended : BOOLEAN]

LEMMA UpdatedBar ==
  ASSUME NEW p \in Progress
  PROVE  /\ Updated(p) \in Progress
         /\ Updated(p).merged = p.merged /\ Updated(p).total = p.total
         /\ Updated(p).ended => p.ended \/ p.total = 0
  BY DEF Progress, Updated

LEMMA InitBar ==
  ASSUME NEW p \in Progress, NEW n \in {0, Segments}
  PROVE  /\ InitTotal(p, n) \in Progress
         /\ InitTotal(p, n).merged = p.merged
         /\ InitTotal(p, n).total \in {p.total, n}
         /\ InitTotal(p, n).ended => p.ended \/ InitTotal(p, n).total = 0
<1>1. CASE p.total < 0
  <2> DEFINE q == [p EXCEPT !.total = n]
  <2>1. q \in Progress /\ q.merged = p.merged /\ q.total = n /\ q.ended = p.ended
    BY DEF Progress
  <2>2. InitTotal(p, n) = Updated(q)
    BY <1>1 DEF InitTotal
  <2> HIDE DEF q
  <2> QED
    BY <2>1, <2>2, UpdatedBar, SegmentNumbers
<1>2. CASE ~(p.total < 0)
  <2>1. InitTotal(p, n) = p
    BY <1>2 DEF InitTotal
  <2> QED
    BY <2>1
<1> QED
  BY <1>1, <1>2

LEMMA CountBar ==
  ASSUME NEW p \in Progress, NEW st \in Stream, p.merged[st] + 1 \in 0 .. Segments
  PROVE  /\ CountMerged(p, st) \in Progress
         /\ CountMerged(p, st).merged = [p.merged EXCEPT ![st] = @ + 1]
         /\ CountMerged(p, st).total = p.total
         /\ CountMerged(p, st).ended => p.ended \/ p.total = 0
<1> DEFINE m == [p.merged EXCEPT ![st] = @ + 1]
           q == [p EXCEPT !.merged = m]
<1>1. m \in [Stream -> 0 .. Segments]
  BY DEF Progress
<1> HIDE DEF m
<1>2. q \in Progress /\ q.merged = m /\ q.total = p.total /\ q.ended = p.ended
  BY <1>1 DEF Progress
<1>3. CountMerged(p, st) = Updated(q)
  BY DEF CountMerged, m
<1> HIDE DEF q
<1> QED
  BY <1>2, <1>3, UpdatedBar DEF m

LEMMA EndBar ==
  ASSUME NEW p \in Progress
  PROVE  /\ EndProgress(p) \in Progress
         /\ EndProgress(p).merged = p.merged /\ EndProgress(p).total = p.total
<1> DEFINE q == [p EXCEPT !.ended = TRUE]
<1>1. q \in Progress /\ q.merged = p.merged /\ q.total = p.total
  BY DEF Progress
<1>2. EndProgress(p) = Updated(q)
  BY DEF EndProgress
<1> HIDE DEF q
<1> QED
  BY <1>1, <1>2, UpdatedBar

----------------------------------------------------------------------------
(* What a step leaves alone *)

LEMMA SameIgnored ==
  ASSUME opts' = opts, opts.mergeOnly => json' = json
  PROVE  Used' = Used /\ \A st \in Stream : Ignored(st)' <=> Ignored(st)
<1>1. \A st \in Stream : Ignored(st)' <=> Ignored(st)
  BY DEF Ignored
<1> QED
  BY <1>1 DEF Used

LEMMA DealtType ==
  ASSUME TypeOK, NEW st \in Stream, Merging(st)
  PROVE  Dealt(st) \in 0 .. Segments /\ feed[st].merged \in 0 .. Segments
<1>1. feed[st].merged \in 0 .. Segments
  BY DEF TypeOK, Feed
<1>2. CASE merge[st] = "result"
  BY <1>1, <1>2, SegmentNumbers DEF Merging, Dealt
<1>3. CASE merge[st] # "result"
  BY <1>1, <1>3, SegmentNumbers DEF Dealt
<1> QED
  BY <1>1, <1>2, <1>3

(* Nothing of stream st changes, and merged files only once they are used.  *)
LEMMA StreamKept ==
  ASSUME NEW st \in Stream, Merging(st), Contents(st),
         opts' = opts, opts.mergeOnly => json' = json,
         feed'[st] = feed[st], merge'[st] = merge[st], segments'[st] = segments[st],
         unmerged'[st] = unmerged[st], progress'.merged[st] = progress.merged[st],
         mux' \in {"waiting", "ffmpeg", "muxed"} =>
           mux \in {"waiting", "ffmpeg", "muxed"} /\ output'[st] = output[st]
  PROVE  Merging(st)' /\ Contents(st)' /\ DoneSoFar(st)' = DoneSoFar(st)
<1>1. Ignored(st)' <=> Ignored(st)
  BY SameIgnored
<1>2. Dealt(st)' = Dealt(st)
  BY DEF Dealt
<1>3. DoneSoFar(st)' = DoneSoFar(st)
  BY <1>2 DEF DoneSoFar, Copied
<1>4. Merging(st)'
  BY <1>1, <1>2 DEF Merging
<1>5. Contents(st)'
  BY <1>2, <1>3 DEF Contents
<1> QED
  BY <1>3, <1>4, <1>5

LEMMA FedKept ==
  ASSUME NEW st \in Stream, Fed(st), opts' = opts, json' = json,
         feed'[st].outcome = feed[st].outcome
  PROVE  Fed(st)'
  BY DEF Fed

(* A step of the download or the merger of stream t.                        *)
LEMMA OneStream ==
  ASSUME Inv, TypeOK', Bar', NEW t \in Stream, mux # "off",
         opts' = opts, json' = json, mux' = mux, final' = final, main' = main,
         \A st \in Stream \ {t} :
           /\ feed'[st] = feed[st] /\ merge'[st] = merge[st]
           /\ segments'[st] = segments[st] /\ unmerged'[st] = unmerged[st]
           /\ progress'.merged[st] = progress.merged[st] /\ output'[st] = output[st],
         Merging(t)', Contents(t)', Fed(t)',
         merge[t] = "done" => merge'[t] = "done" /\ DoneSoFar(t)' = DoneSoFar(t)
  PROVE  Inv'
<1>1. Used' = Used
  BY SameIgnored
<1>2. ASSUME NEW st \in Stream, st # t
      PROVE  Merging(st)' /\ Contents(st)' /\ Fed(st)' /\ DoneSoFar(st)' = DoneSoFar(st)
  BY <1>2, StreamKept, FedKept DEF Inv
<1>3. \A st \in Stream :
        merge[st] = "done" => merge'[st] = "done" /\ DoneSoFar(st)' = DoneSoFar(st)
  BY <1>2
<1>4. Muxing'
  <2>1. \A st \in Used : st \in Stream
    BY DEF Used
  <2>2. mux \in {"muxed", "deleting", "ok"} /\ opts.merger # "download-only" =>
          /\ final.kind = "video"
          /\ \A st \in Used :
               merge'[st] = "done" /\ Lists(final.content[st], DoneSoFar(st)')
    BY <1>3, <2>1 DEF Inv, Muxing
  <2>3. BothMerged => BothMerged'
    BY <1>3 DEF BothMerged
  <2> QED
    BY <1>1, <2>2, <2>3 DEF Inv, Muxing, Lists
<1> QED
  BY <1>2, <1>4 DEF Inv

----------------------------------------------------------------------------
(* The steps of a download *)

LEMMA FeedStep ==
  ASSUME Inv, NEW t \in Stream, main \in {"waiting", "muxer"}, NEW f \in Feed,
         feed' = [feed EXCEPT ![t] = f], f.merged = feed[t].merged,
         f.phase = "counting" => feed[t].phase = "counting",
         \A s \in FeedSegment :
           feed[t].outcome[s] # "none" => f.outcome[s] = feed[t].outcome[s],
         \/ merge' = merge
         \/ merge[t] = "off" /\ merge' = [merge EXCEPT ![t] = "started"]
              /\ f.phase # "counting" /\ ~Ignored(t),
         opts.mergeOnly =>
           \A s \in FeedSegment :
             f.outcome[s] # "none" =>
               /\ s < Len(json.results[t])
               /\ f.outcome[s] = json.results[t][s + 1].outcome,
         files' \in [Stream -> SUBSET FeedSegment],
         UNCHANGED <<runVars, main, output, segments, unmerged, muxVars, progress>>
  PROVE  Inv'
<1>1. /\ opts' = opts /\ runs' = runs /\ mux' = mux /\ opened' = opened /\ final' = final
      /\ json' = json
  BY DEF runVars, muxVars
<1>2. mux # "off"
  BY DEF Inv, Muxing
<1>3. feed'[t] = f /\ \A st \in Stream \ {t} : feed'[st] = feed[st]
  BY DEF Inv, TypeOK
<1>4. /\ \A st \in Stream \ {t} : merge'[st] = merge[st]
      /\ merge'[t] = merge[t] \/ (/\ merge[t] = "off" /\ merge'[t] = "started"
                                  /\ f.phase # "counting" /\ ~Ignored(t))
  BY DEF Inv, TypeOK
<1>5. TypeOK'
  <2>1. feed' \in [Stream -> Feed]
    BY DEF Inv, TypeOK
  <2>2. merge' \in [Stream -> {"off", "started", "next", "result", "done"}]
    BY DEF Inv, TypeOK
  <2> QED
    BY <1>1, <2>1, <2>2 DEF Inv, TypeOK
<1>6. Used' = Used /\ Ignored(t)' = Ignored(t)
  BY <1>1, SameIgnored DEF Ignored
<1>7. Bar'
  BY <1>1, <1>6 DEF Inv, Bar
<1>8. Merging(t) /\ Contents(t) /\ Fed(t) /\ Dealt(t) \in 0 .. Segments
  BY DealtType DEF Inv
<1>9. Dealt(t)' = Dealt(t)
  BY <1>3, <1>4 DEF Dealt
<1>10. Merging(t)'
  <2>1. \A s \in FeedSegment : s < f.merged => f.outcome[s] # "none"
    BY <1>8 DEF Merging
  <2>2. f.phase = "counting" /\ ~Ignored(t) => merge'[t] = "off"
    BY <1>4, <1>8 DEF Merging
  <2>3. merge[t] = "off" => f.merged = 0
    BY <1>8 DEF Merging
  <2>4. /\ merge'[t] \in {"off", "started"} => f.merged = 0
        /\ merge'[t] = "result" => f.merged > 0
        /\ merge'[t] = "done" /\ ~Ignored(t) => f.merged = Segments
        /\ Ignored(t) => merge'[t] \in {"off", "started", "done"} /\ f.merged = 0
    BY <1>4, <1>8, <2>3 DEF Merging
  <2>5. /\ \A s \in unmerged[t] : s < Dealt(t)
        /\ progress.merged[t] = Dealt(t)
    BY <1>8 DEF Merging
  <2> QED
    BY <1>3, <1>6, <1>9, <2>1, <2>2, <2>4, <2>5 DEF Merging
<1>11. DoneSoFar(t)' = DoneSoFar(t)
  <2>1. \A s \in FeedSegment : s < Dealt(t) => f.outcome[s] = feed[t].outcome[s]
    <3>1. Dealt(t) =< feed[t].merged
      BY <1>8, DealtType DEF Dealt, Inv
    <3>2. \A s \in FeedSegment : s < Dealt(t) => s < feed[t].merged
      BY <1>8, <3>1, DealtType, SegmentNumbers DEF Inv
    <3> QED
      BY <1>8, <3>2 DEF Merging
  <2> QED
    BY <1>3, <1>9, <2>1 DEF DoneSoFar, Copied
<1>12. Contents(t)'
  BY <1>1, <1>8, <1>9, <1>11 DEF Contents
<1>13. Fed(t)'
  BY <1>1, <1>3, <1>8 DEF Fed
<1> QED
  BY <1>1, <1>2, <1>3, <1>4, <1>5, <1>7, <1>10, <1>11, <1>12, <1>13, OneStream

(* What holds of the download of a stream of this run.                      *)
LEMMA DownloadOf ==
  ASSUME Inv, NEW t \in Stream
  PROVE  /\ feed[t] \in Feed /\ opts \in Option
         /\ Downloading(t) => main \in {"waiting", "muxer"} /\ ~opts.mergeOnly /\ ~Ignored(t)
  BY OptionsAssumption DEF Inv, TypeOK, Downloading, Used

LEMMA CountFailsStep == ASSUME Inv, NEW t \in Stream, CountFails(t) PROVE Inv'
<1> DEFINE f == Failed(feed[t])
<1>1. f \in Feed /\ main \in {"waiting", "muxer"} /\ ~opts.mergeOnly
  BY DownloadOf, FeedSteps DEF CountFails
<1>2. f.merged = feed[t].merged /\ f.phase = "failed" /\ f.outcome = feed[t].outcome
  BY DownloadOf DEF Failed, Feed
<1>3. /\ feed' = [feed EXCEPT ![t] = f] /\ merge' = merge /\ files' = files
      /\ UNCHANGED <<runVars, main, output, segments, unmerged, muxVars, progress>>
  BY DEF CountFails, mergeVars
<1>4. files' \in [Stream -> SUBSET FeedSegment]
  BY <1>3 DEF Inv, TypeOK
<1> HIDE DEF f
<1> QED
  BY <1>1, <1>2, <1>3, <1>4, FeedStep

LEMMA StartDownloadStep == ASSUME Inv, NEW t \in Stream, StartDownload(t) PROVE Inv'
<1> DEFINE f == Started(feed[t])
<1>1. f \in Feed /\ main \in {"waiting", "muxer"} /\ ~opts.mergeOnly /\ ~Ignored(t)
  BY DownloadOf, FeedSteps DEF StartDownload
<1>2. f.merged = feed[t].merged /\ f.phase = "running" /\ f.outcome = feed[t].outcome
  BY DownloadOf DEF Started, Feed
<1>3. /\ feed' = [feed EXCEPT ![t] = f] /\ files' = files
      /\ merge' = [merge EXCEPT ![t] = "started"]
      /\ UNCHANGED <<runVars, main, output, segments, unmerged, muxVars, progress>>
  BY DEF StartDownload
<1>4. files' \in [Stream -> SUBSET FeedSegment]
  BY <1>3 DEF Inv, TypeOK
<1>5. merge[t] = "off"
  BY <1>1 DEF StartDownload, Counting, Inv, Merging
<1> HIDE DEF f
<1> QED
  BY <1>1, <1>2, <1>3, <1>4, <1>5, FeedStep

LEMMA DownloadStepInv ==
  ASSUME Inv, NEW t \in Stream, NEW s \in FeedSegment, NEW r \in {"ok", "lost"},
         Download(t, s, r)
  PROVE  Inv'
<1> DEFINE f == Reported(feed[t], s, r)
<1>1. f \in Feed /\ main \in {"waiting", "muxer"} /\ ~opts.mergeOnly
  BY DownloadOf, FeedSteps DEF Download
<1>2. /\ f.merged = feed[t].merged /\ f.phase = feed[t].phase
      /\ f.outcome = [feed[t].outcome EXCEPT ![s] = r]
  BY DownloadOf DEF Reported, Feed
<1>3. \A x \in FeedSegment :
        feed[t].outcome[x] # "none" => f.outcome[x] = feed[t].outcome[x]
  BY <1>2, DownloadOf DEF Download, MayReport, Feed
<1>4. /\ feed' = [feed EXCEPT ![t] = f] /\ merge' = merge
      /\ files' = IF r = "ok" THEN [files EXCEPT ![t] = @ \cup {s}] ELSE files
      /\ UNCHANGED <<runVars, main, output, segments, unmerged, muxVars, progress>>
  BY DEF Download, mergeVars
<1>5. files' \in [Stream -> SUBSET FeedSegment]
  BY <1>4 DEF Inv, TypeOK
<1> HIDE DEF f
<1>6. /\ f.merged = feed[t].merged
      /\ f.phase = "counting" => feed[t].phase = "counting"
      /\ feed' = [feed EXCEPT ![t] = f] /\ merge' = merge
      /\ UNCHANGED <<runVars, main, output, segments, unmerged, muxVars, progress>>
  BY <1>2, <1>4
<1> QED
  BY <1>1, <1>3, <1>5, <1>6, FeedStep

LEMMA EndDownloadStep == ASSUME Inv, NEW t \in Stream, EndDownload(t) PROVE Inv'
<1> DEFINE f == Ended(feed[t])
<1>1. f \in Feed /\ main \in {"waiting", "muxer"} /\ ~opts.mergeOnly
  BY DownloadOf, FeedSteps DEF EndDownload
<1>2. f.merged = feed[t].merged /\ f.phase = "ended" /\ f.outcome = feed[t].outcome
  BY DownloadOf DEF Ended, Feed
<1>3. /\ feed' = [feed EXCEPT ![t] = f] /\ merge' = merge /\ files' = files
      /\ UNCHANGED <<runVars, main, output, segments, unmerged, muxVars, progress>>
  BY DEF EndDownload, mergeVars
<1>4. files' \in [Stream -> SUBSET FeedSegment]
  BY <1>3 DEF Inv, TypeOK
<1> HIDE DEF f
<1> QED
  BY <1>1, <1>2, <1>3, <1>4, FeedStep

LEMMA FeedResultStep ==
  ASSUME Inv, NEW t \in Stream, NEW s \in FeedSegment, FeedResult(t, s)
  PROVE  Inv'
<1> DEFINE r == json.results[t][s + 1].outcome
           f == Reported(feed[t], s, r)
<1>1. json.results[t] \in Seq(Result) /\ s + 1 \in 1 .. Len(json.results[t])
  BY SegmentNumbers DEF FeedResult, Inv, TypeOK
<1>2. r \in {"ok", "lost"}
  <2>1. json.results[t][s + 1] \in Result
    BY <1>1
  <2> QED
    BY <2>1 DEF Result
<1> HIDE DEF r
<1>3. f \in Feed /\ main = "muxer"
  BY <1>2, DownloadOf, FeedSteps DEF FeedResult
<1>4. /\ f.merged = feed[t].merged /\ f.phase = feed[t].phase
      /\ f.outcome = [feed[t].outcome EXCEPT ![s] = r]
  BY DownloadOf DEF Reported, Feed
<1>5. \A x \in FeedSegment :
        feed[t].outcome[x] # "none" => f.outcome[x] = feed[t].outcome[x]
  BY <1>4, DownloadOf DEF FeedResult, MayReport, Feed
<1>6. /\ feed' = [feed EXCEPT ![t] = f] /\ merge' = merge /\ files' = files
      /\ UNCHANGED <<runVars, main, output, segments, unmerged, muxVars, progress>>
  BY DEF FeedResult, mergeVars, r
<1>7. files' \in [Stream -> SUBSET FeedSegment]
  BY <1>6 DEF Inv, TypeOK
<1>8. \A x \in FeedSegment :
        f.outcome[x] # "none" =>
          x < Len(json.results[t]) /\ f.outcome[x] = json.results[t][x + 1].outcome
  <2> SUFFICES ASSUME NEW x \in FeedSegment, f.outcome[x] # "none"
               PROVE  /\ x < Len(json.results[t])
                      /\ f.outcome[x] = json.results[t][x + 1].outcome
    OBVIOUS
  <2>1. CASE x = s
    BY <1>4, <2>1, DownloadOf DEF FeedResult, r, Feed
  <2>2. CASE x # s
    <3>1. f.outcome[x] = feed[t].outcome[x]
      BY <1>4, <2>2, DownloadOf DEF Feed
    <3> QED
      BY <3>1 DEF FeedResult, Inv, Fed
  <2> QED
    BY <2>1, <2>2
<1> HIDE DEF f
<1>9. /\ f.merged = feed[t].merged
      /\ f.phase = "counting" => feed[t].phase = "counting"
      /\ feed' = [feed EXCEPT ![t] = f] /\ merge' = merge
      /\ UNCHANGED <<runVars, main, output, segments, unmerged, muxVars, progress>>
  BY <1>4, <1>6
<1> QED
  BY <1>3, <1>5, <1>7, <1>8, <1>9, FeedStep

----------------------------------------------------------------------------
(* The steps of a merger *)

LEMMA MergerOf ==
  ASSUME Inv, NEW t \in Stream
  PROVE  /\ merge[t] # "off" => mux # "off"
         /\ Merging(t) /\ Contents(t) /\ Fed(t)
         /\ feed[t] \in Feed /\ progress \in Progress
         /\ Dealt(t) \in 0 .. Segments /\ feed[t].merged \in 0 .. Segments
  BY DealtType DEF Inv, Muxing, TypeOK, Progress

LEMMA BeginMergeStep == ASSUME Inv, NEW t \in Stream, BeginMerge(t) PROVE Inv'
<1> DEFINE n == IF Ignored(t) THEN 0 ELSE Segments
           place == IF Ignored(t) THEN "done" ELSE "next"
<1>1. /\ merge[t] = "started" /\ merge' = [merge EXCEPT ![t] = place]
      /\ progress' = InitTotal(progress, n)
      /\ opts' = opts /\ runs' = runs /\ main' = main /\ feed' = feed /\ files' = files
      /\ output' = output /\ segments' = segments /\ unmerged' = unmerged
      /\ mux' = mux /\ opened' = opened /\ final' = final /\ json' = json
  BY DEF BeginMerge, runVars, muxVars
<1>2. n \in {0, Segments} /\ (~Ignored(t) => n = Segments)
  OBVIOUS
<1>3. /\ progress' \in Progress /\ progress'.merged = progress.merged
      /\ progress'.total \in {progress.total, n}
      /\ progress'.ended => progress.ended \/ progress'.total = 0
  BY <1>1, <1>2, InitBar, MergerOf
<1>4. merge'[t] = place /\ \A st \in Stream \ {t} : merge'[st] = merge[st]
  BY <1>1 DEF Inv, TypeOK
<1>5. Used' = Used /\ Ignored(t)' = Ignored(t)
  BY <1>1, SameIgnored DEF Ignored
<1>6. TypeOK'
  <2>1. merge' \in [Stream -> {"off", "started", "next", "result", "done"}]
    BY <1>1 DEF Inv, TypeOK
  <2> QED
    BY <1>1, <1>3, <2>1 DEF Inv, TypeOK, Progress
<1>7. Bar'
  <2> SUFFICES ASSUME Used = Stream
               PROVE  /\ progress'.total \in {-1, Segments}
                      /\ progress'.ended /\ Segments > 0 => mux \in {"deleting", "ok", "failed"}
    BY <1>1, <1>5 DEF Bar
  <2>1. n = Segments
    BY <1>2 DEF Used
  <2>2. progress.total \in {-1, Segments}
    BY DEF Inv, Bar
  <2>3. progress'.total \in {-1, Segments}
    BY <1>3, <2>1, <2>2
  <2>4. ASSUME progress'.ended, Segments > 0 PROVE mux \in {"deleting", "ok", "failed"}
    BY <1>3, <2>3, <2>4 DEF Inv, Bar
  <2> QED
    BY <2>3, <2>4
<1>8. Dealt(t)' = Dealt(t) /\ Dealt(t) = 0 /\ feed[t].merged = 0
  BY <1>1, <1>4, MergerOf DEF Dealt, Merging
<1>9. Merging(t)'
  <2>1. \A s \in unmerged[t] : s < Dealt(t)
    BY MergerOf DEF Merging
  <2>2. feed[t].phase = "counting" => Ignored(t)
    BY <1>1, MergerOf DEF Merging
  <2>3. \A s \in FeedSegment : ~(s < 0)
    BY SegmentNumbers
  <2>4. Ignored(t) => place = "done"
    OBVIOUS
  <2>5. ~Ignored(t) => place = "next"
    OBVIOUS
  <2>6. progress'.merged[t] = Dealt(t)
    BY <1>3, MergerOf DEF Merging
  <2> HIDE DEF place
  <2> QED
    BY <1>1, <1>4, <1>5, <1>8, <2>1, <2>2, <2>3, <2>4, <2>5, <2>6 DEF Merging
<1>10. DoneSoFar(t)' = DoneSoFar(t)
  BY <1>1, <1>8 DEF DoneSoFar, Copied
<1>11. Contents(t)'
  BY <1>1, <1>8, <1>10, MergerOf DEF Contents
<1>12. Fed(t)'
  BY <1>1, MergerOf, FedKept
<1>13. mux # "off"
  BY <1>1, MergerOf
<1>14. merge[t] = "done" => merge'[t] = "done" /\ DoneSoFar(t)' = DoneSoFar(t)
  BY <1>1
<1> QED
  BY <1>1, <1>3, <1>4, <1>6, <1>7, <1>9, <1>11, <1>12, <1>13, <1>14, OneStream

LEMMA NextToMergeStep == ASSUME Inv, NEW t \in Stream, NextToMerge(t) PROVE Inv'
<1> DEFINE f == Merged(feed[t])
<1>1. /\ merge[t] = "next" /\ merge' = [merge EXCEPT ![t] = "result"]
      /\ MayMerge(feed[t]) /\ feed' = [feed EXCEPT ![t] = f]
      /\ opts' = opts /\ runs' = runs /\ main' = main /\ files' = files
      /\ output' = output /\ segments' = segments /\ unmerged' = unmerged
      /\ mux' = mux /\ opened' = opened /\ final' = final /\ json' = json
      /\ progress' = progress
  BY DEF NextToMerge, runVars, muxVars
<1>2. /\ f \in Feed /\ f.merged = feed[t].merged + 1 /\ f.phase = feed[t].phase
      /\ f.outcome = feed[t].outcome
  <2>1. feed[t] \in Feed
    BY MergerOf
  <2>2. f \in Feed
    BY <1>1, <2>1, FeedSteps
  <2> QED
    BY <2>1, <2>2 DEF Merged, Feed
<1> HIDE DEF f
<1>3. /\ merge'[t] = "result" /\ \A st \in Stream \ {t} : merge'[st] = merge[st]
      /\ feed'[t] = f /\ \A st \in Stream \ {t} : feed'[st] = feed[st]
  BY <1>1 DEF Inv, TypeOK
<1>4. Used' = Used /\ Ignored(t)' = Ignored(t)
  BY <1>1, SameIgnored DEF Ignored
<1>5. TypeOK'
  <2>1. merge' \in [Stream -> {"off", "started", "next", "result", "done"}]
    BY <1>1 DEF Inv, TypeOK
  <2>2. feed' \in [Stream -> Feed]
    BY <1>1, <1>2 DEF Inv, TypeOK
  <2> QED
    BY <1>1, <2>1, <2>2 DEF Inv, TypeOK
<1>6. Bar'
  BY <1>1, <1>4 DEF Inv, Bar
<1>7. Dealt(t)' = Dealt(t) /\ Dealt(t) = feed[t].merged
  BY <1>1, <1>2, <1>3, MergerOf DEF Dealt
<1>8. Merging(t)'
  <2>1. feed[t].outcome[feed[t].merged] # "none"
    BY <1>1 DEF MayMerge
  <2>2. \A s \in FeedSegment : s < feed[t].merged + 1 => s < feed[t].merged \/ s = feed[t].merged
    BY SegmentNumbers, MergerOf
  <2>3. \A s \in FeedSegment : s < f.merged => f.outcome[s] # "none"
    BY <1>2, <2>1, <2>2, MergerOf DEF Merging
  <2>4. ~Ignored(t) /\ feed[t].phase # "counting" /\ f.merged > 0
    BY <1>1, <1>2, MergerOf DEF Merging
  <2>5. /\ \A s \in unmerged[t] : s < Dealt(t)
        /\ progress.merged[t] = Dealt(t)
    BY MergerOf DEF Merging
  <2> QED
    BY <1>1, <1>2, <1>3, <1>4, <1>7, <2>3, <2>4, <2>5 DEF Merging
<1>9. DoneSoFar(t)' = DoneSoFar(t)
  BY <1>1, <1>2, <1>3, <1>7 DEF DoneSoFar, Copied
<1>10. Contents(t)'
  BY <1>1, <1>7, <1>9, MergerOf DEF Contents
<1>11. Fed(t)'
  BY <1>1, <1>2, <1>3, MergerOf, FedKept
<1>12. mux # "off" /\ merge[t] # "done"
  BY <1>1, MergerOf
<1> QED
  BY <1>1, <1>3, <1>5, <1>6, <1>8, <1>10, <1>11, <1>12, OneStream

LEMMA EndMergeStep == ASSUME Inv, NEW t \in Stream, EndMerge(t) PROVE Inv'
<1>1. /\ merge[t] = "next" /\ merge' = [merge EXCEPT ![t] = "done"]
      /\ feed[t].merged = Segments
      /\ opts' = opts /\ runs' = runs /\ main' = main /\ feed' = feed /\ files' = files
      /\ output' = output /\ segments' = segments /\ unmerged' = unmerged
      /\ mux' = mux /\ opened' = opened /\ final' = final /\ json' = json
      /\ progress' = progress
  BY DEF EndMerge, runVars, muxVars
<1>2. merge'[t] = "done" /\ \A st \in Stream \ {t} : merge'[st] = merge[st]
  BY <1>1 DEF Inv, TypeOK
<1>3. Used' = Used /\ Ignored(t)' = Ignored(t)
  BY <1>1, SameIgnored DEF Ignored
<1>4. TypeOK'
  <2>1. merge' \in [Stream -> {"off", "started", "next", "result", "done"}]
    BY <1>1 DEF Inv, TypeOK
  <2> QED
    BY <1>1, <2>1 DEF Inv, TypeOK
<1>5. Bar'
  BY <1>1, <1>3 DEF Inv, Bar
<1>6. Dealt(t)' = Dealt(t)
  BY <1>1, <1>2 DEF Dealt
<1>7. Merging(t)'
  BY <1>1, <1>2, <1>3, <1>6, MergerOf DEF Merging
<1>8. DoneSoFar(t)' = DoneSoFar(t)
  BY <1>1, <1>6 DEF DoneSoFar, Copied
<1>9. Contents(t)'
  BY <1>1, <1>6, <1>8, MergerOf DEF Contents
<1>10. Fed(t)'
  BY <1>1, MergerOf, FedKept
<1>11. mux # "off" /\ merge[t] # "done"
  BY <1>1, MergerOf
<1> QED
  BY <1>1, <1>2, <1>4, <1>5, <1>7, <1>9, <1>10, <1>11, OneStream

LEMMA AppendLists ==
  ASSUME NEW S, S \subseteq FeedSegment, NEW q \in Seq(FeedSegment), Lists(q, S),
         NEW s \in FeedSegment, \A x \in S : x < s
  PROVE  Append(q, s) \in Seq(FeedSegment) /\ Lists(Append(q, s), S \cup {s})
<1> DEFINE p == Append(q, s)
<1>1. /\ p \in Seq(FeedSegment) /\ Len(p) = Len(q) + 1 /\ Len(q) \in Nat
      /\ \A i \in 1 .. Len(q) : p[i] = q[i] /\ q[i] \in FeedSegment
      /\ p[Len(q) + 1] = s
  OBVIOUS
<1> HIDE DEF p
<1>2. \A i \in 1 .. Len(p) : i \in 1 .. Len(q) \/ i = Len(q) + 1
  BY <1>1
<1>3. {p[i] : i \in 1 .. Len(p)} = S \cup {s}
  <2>1. \A i \in 1 .. Len(p) : p[i] \in S \cup {s}
    BY <1>1, <1>2 DEF Lists
  <2>2. ASSUME NEW x \in S PROVE \E i \in 1 .. Len(p) : p[i] = x
    <3>1. PICK i \in 1 .. Len(q) : q[i] = x
      BY DEF Lists
    <3>2. i \in 1 .. Len(p) /\ p[i] = x
      BY <1>1, <3>1
    <3> QED
      BY <3>2
  <2>3. Len(q) + 1 \in 1 .. Len(p) /\ p[Len(q) + 1] = s
    BY <1>1
  <2> QED
    BY <2>1, <2>2, <2>3
<1>4. ASSUME NEW i \in 1 .. Len(p), NEW j \in 1 .. Len(p), i < j PROVE p[i] < p[j]
  <2>1. i \in 1 .. Len(q)
    BY <1>1, <1>4
  <2>2. CASE j \in 1 .. Len(q)
    BY <1>1, <1>4, <2>1, <2>2 DEF Lists
  <2>3. CASE j = Len(q) + 1
    <3>1. q[i] \in S
      BY <2>1 DEF Lists
    <3> QED
      BY <1>1, <2>1, <2>3, <3>1
  <2> QED
    BY <1>2, <2>2, <2>3
<1>5. Lists(p, S \cup {s})
  BY <1>3, <1>4 DEF Lists
<1> QED
  BY <1>1, <1>5 DEF p

(* What all the steps that end with Count have in common: the current       *)
(* segment is the next one to be dealt with, and then it is.                *)
LEMMA CountStep ==
  ASSUME Inv, NEW t \in Stream, Count(t),
         unmerged'[t] \subseteq unmerged[t] \cup {Current(t)}
  PROVE  /\ Current(t) = Dealt(t) /\ Current(t) \in FeedSegment
         /\ feed[t].outcome[Current(t)] \in {"ok", "lost"}
         /\ merge[t] = "result" /\ merge'[t] = "next" /\ mux # "off"
         /\ \A st \in Stream \ {t} :
              merge'[st] = merge[st] /\ progress'.merged[st] = progress.merged[st]
         /\ Dealt(t)' = Dealt(t) + 1
         /\ merge' \in [Stream -> {"off", "started", "next", "result", "done"}]
         /\ progress' \in Progress
         /\ opts' = opts /\ runs' = runs /\ main' = main /\ feed' = feed
         /\ mux' = mux /\ opened' = opened /\ final' = final /\ json' = json
         /\ Merging(t)' /\ Fed(t)' /\ Bar'
<1>1. /\ merge[t] = "result" /\ merge' = [merge EXCEPT ![t] = "next"]
      /\ progress' = CountMerged(progress, t)
      /\ opts' = opts /\ runs' = runs /\ main' = main /\ feed' = feed
      /\ mux' = mux /\ opened' = opened /\ final' = final /\ json' = json
  BY DEF Count, runVars, muxVars
<1>2. /\ merge'[t] = "next" /\ \A st \in Stream \ {t} : merge'[st] = merge[st]
      /\ merge' \in [Stream -> {"off", "started", "next", "result", "done"}]
  BY <1>1 DEF Inv, TypeOK
<1>3. /\ Dealt(t) = feed[t].merged - 1 /\ feed[t].merged > 0
      /\ feed[t].merged \in 0 .. Segments
  BY <1>1, MergerOf DEF Dealt, Merging
<1>4. Current(t) = Dealt(t) /\ Current(t) \in FeedSegment /\ Current(t) < feed[t].merged
  BY <1>3, SegmentNumbers DEF Current
<1>5. feed[t].outcome[Current(t)] \in {"ok", "lost"}
  BY <1>4, MergerOf DEF Merging, Feed
<1>6. Dealt(t)' = Dealt(t) + 1 /\ Dealt(t)' = feed[t].merged
  <2>1. Dealt(t)' = feed[t].merged - 0
    BY <1>1, <1>2 DEF Dealt
  <2> QED
    BY <1>3, <2>1, SegmentNumbers
<1>7. progress.merged[t] + 1 \in 0 .. Segments /\ progress.merged[t] = Dealt(t)
  BY <1>3, SegmentNumbers, MergerOf DEF Merging
<1>8. /\ progress' \in Progress /\ progress'.merged = [progress.merged EXCEPT ![t] = @ + 1]
      /\ progress'.total = progress.total
      /\ progress'.ended => progress.ended \/ progress.total = 0
  BY <1>1, <1>7, CountBar, MergerOf
<1>9. /\ progress'.merged[t] = Dealt(t) + 1
      /\ \A st \in Stream \ {t} : progress'.merged[st] = progress.merged[st]
  <2>1. progress.merged \in [Stream -> 0 .. Segments]
    BY MergerOf DEF Progress
  <2> QED
    BY <1>7, <1>8, <2>1
<1>10. Used' = Used /\ Ignored(t)' = Ignored(t)
  BY <1>1, SameIgnored DEF Ignored
<1>11. Bar'
  <2> SUFFICES ASSUME Used = Stream
               PROVE  /\ progress'.total \in {-1, Segments}
                      /\ progress'.ended /\ Segments > 0 => mux \in {"deleting", "ok", "failed"}
    BY <1>1, <1>10 DEF Bar
  <2>1. progress.total \in {-1, Segments}
    BY DEF Inv, Bar
  <2> QED
    BY <1>8, <2>1 DEF Inv, Bar
<1>12. Merging(t)'
  <2>1. ~Ignored(t) /\ feed[t].phase # "counting"
    BY <1>1, MergerOf DEF Merging
  <2>2. \A s \in unmerged'[t] : s < Dealt(t) + 1
    <3>1. \A s \in unmerged[t] : s \in FeedSegment /\ s < Dealt(t)
      BY MergerOf DEF Merging, Inv, TypeOK
    <3>2. \A s \in unmerged[t] : s < Dealt(t) + 1
      BY <1>3, <3>1, SegmentNumbers
    <3>3. Current(t) < Dealt(t) + 1
      BY <1>3, <1>4
    <3> QED
      BY <3>2, <3>3
  <2>3. \A s \in FeedSegment : s < feed[t].merged => feed[t].outcome[s] # "none"
    BY MergerOf DEF Merging
  <2> QED
    BY <1>1, <1>2, <1>6, <1>9, <1>10, <2>1, <2>2, <2>3 DEF Merging
<1>13. Fed(t)'
  BY <1>1, MergerOf, FedKept
<1>14. mux # "off"
  BY <1>1, MergerOf
<1> QED
  BY <1>1, <1>2, <1>4, <1>5, <1>6, <1>8, <1>9, <1>11, <1>12, <1>13, <1>14

(* Adding the current segment to what is merged, or not.                    *)
LEMMA DoneNext ==
  ASSUME Inv, NEW t \in Stream, Count(t)
  PROVE  /\ DoneSoFar(t) \subseteq FeedSegment /\ \A s \in DoneSoFar(t) : s < Current(t)
         /\ CurrentOk(t) /\ unmerged'[t] = unmerged[t]
              => DoneSoFar(t)' = DoneSoFar(t) \cup {Current(t)}
         /\ ~CurrentOk(t) /\ unmerged'[t] = unmerged[t] => DoneSoFar(t)' = DoneSoFar(t)
         /\ unmerged'[t] = unmerged[t] \cup {Current(t)} => DoneSoFar(t)' = DoneSoFar(t)
<1> SUFFICES ASSUME unmerged'[t] \subseteq unmerged[t] \cup {Current(t)}
             PROVE  /\ CurrentOk(t) /\ unmerged'[t] = unmerged[t]
                         => DoneSoFar(t)' = DoneSoFar(t) \cup {Current(t)}
                    /\ ~CurrentOk(t) /\ unmerged'[t] = unmerged[t]
                         => DoneSoFar(t)' = DoneSoFar(t)
                    /\ unmerged'[t] = unmerged[t] \cup {Current(t)}
                         => DoneSoFar(t)' = DoneSoFar(t)
  <2>1. /\ merge[t] = "result" /\ feed[t].merged > 0 /\ feed[t].merged \in 0 .. Segments
    BY MergerOf DEF Count, Merging
  <2>2. Current(t) = Dealt(t)
    BY <2>1 DEF Current, Dealt
  <2>3. DoneSoFar(t) \subseteq FeedSegment /\ \A s \in DoneSoFar(t) : s < Current(t)
    BY <2>2 DEF DoneSoFar, Copied
  <2> QED
    BY <2>3
<1>1. /\ Current(t) = Dealt(t) /\ Current(t) \in FeedSegment
      /\ Dealt(t)' = Dealt(t) + 1 /\ feed' = feed /\ Dealt(t) \in 0 .. Segments
  BY CountStep, MergerOf
<1>2. Current(t) \notin unmerged[t]
  <2>1. \A s \in unmerged[t] : s < Current(t)
    BY <1>1, MergerOf DEF Merging
  <2> QED
    BY <1>1, <2>1, SegmentNumbers
<1>3. \A s \in FeedSegment : s < Dealt(t) + 1 <=> s < Dealt(t) \/ s = Current(t)
  BY <1>1, SegmentNumbers
<1>4. DoneSoFar(t)' =
        {s \in {x \in FeedSegment : feed[t].outcome[x] = "ok"} \ unmerged'[t] : s < Dealt(t) + 1}
  BY <1>1 DEF DoneSoFar, Copied
<1>5. DoneSoFar(t) =
        {s \in {x \in FeedSegment : feed[t].outcome[x] = "ok"} \ unmerged[t] : s < Dealt(t)}
  BY DEF DoneSoFar, Copied
<1>6. CurrentOk(t) <=> feed[t].outcome[Current(t)] = "ok"
  BY DEF CurrentOk
<1>7. ~(Current(t) < Dealt(t))
  BY <1>1, SegmentNumbers
<1> QED
  BY <1>1, <1>2, <1>3, <1>4, <1>5, <1>6, <1>7

(* The rest of such a step.                                                 *)
LEMMA CountInv ==
  ASSUME Inv, NEW t \in Stream, Count(t),
         unmerged'[t] \subseteq unmerged[t] \cup {Current(t)},
         \A st \in Stream \ {t} :
           /\ segments'[st] = segments[st] /\ unmerged'[st] = unmerged[st]
           /\ output'[st] = output[st],
         files' \in [Stream -> SUBSET FeedSegment],
         output' \in [Stream -> Seq(FeedSegment)],
         segments' \in [Stream -> Seq(FeedSegment)],
         unmerged' \in [Stream -> SUBSET FeedSegment],
         Contents(t)'
  PROVE  Inv'
<1>1. TypeOK'
  BY CountStep DEF Inv, TypeOK, Progress
<1>2. \A st \in Stream \ {t} : feed'[st] = feed[st]
  BY CountStep
<1>3. merge[t] # "done"
  BY CountStep
<1> QED
  BY <1>1, <1>2, <1>3, CountStep, OneStream

LEMMA AppendHas ==
  ASSUME NEW q \in Seq(FeedSegment), NEW s \in FeedSegment
  PROVE  Append(q, s) \in Seq(FeedSegment) /\ Has(Append(q, s)) = Has(q) \cup {s}
<1> DEFINE p == Append(q, s)
<1>1. /\ p \in Seq(FeedSegment) /\ Len(p) = Len(q) + 1 /\ Len(q) \in Nat
      /\ \A i \in 1 .. Len(q) : p[i] = q[i]
      /\ p[Len(q) + 1] = s
  OBVIOUS
<1> HIDE DEF p
<1>2. \A i \in 1 .. Len(p) : i \in 1 .. Len(q) \/ i = Len(q) + 1
  BY <1>1
<1>3. \A i \in 1 .. Len(q) : i \in 1 .. Len(p)
  BY <1>1
<1>4. Len(q) + 1 \in 1 .. Len(p)
  BY <1>1
<1>5. Has(p) = Has(q) \cup {s}
  BY <1>1, <1>2, <1>3, <1>4 DEF Has
<1> QED
  BY <1>1, <1>5 DEF p

LEMMA SkipLostStep == ASSUME Inv, NEW t \in Stream, SkipLost(t) PROVE Inv'
<1>1. /\ Count(t) /\ ~CurrentOk(t) /\ opts.merger # "download-only"
      /\ files' = files /\ output' = output /\ segments' = segments /\ unmerged' = unmerged
  BY DEF SkipLost
<1>2. DoneSoFar(t)' = DoneSoFar(t) /\ opts' = opts /\ mux' = mux
  BY <1>1, DoneNext, CountStep
<1>3. Contents(t)'
  BY <1>1, <1>2, MergerOf DEF Contents
<1>4. /\ files' \in [Stream -> SUBSET FeedSegment]
      /\ output' \in [Stream -> Seq(FeedSegment)]
      /\ segments' \in [Stream -> Seq(FeedSegment)]
      /\ unmerged' \in [Stream -> SUBSET FeedSegment]
  BY <1>1 DEF Inv, TypeOK
<1> QED
  BY <1>1, <1>3, <1>4, CountInv

LEMMA CopySegmentStep == ASSUME Inv, NEW t \in Stream, CopySegment(t) PROVE Inv'
<1> DEFINE c == Current(t)
<1>1. /\ Count(t) /\ CurrentOk(t) /\ opts.merger # "download-only"
      /\ unmerged' = unmerged /\ output' = [output EXCEPT ![t] = Append(@, c)]
      /\ \/ segments' = segments /\ files' = [files EXCEPT ![t] = @ \ {c}]
         \/ segments' = [segments EXCEPT ![t] = Append(@, c)] /\ files' = files
  BY DEF CopySegment
<1>2. c \in FeedSegment /\ opts' = opts /\ mux' = mux
  BY <1>1, CountStep
<1>3. /\ DoneSoFar(t)' = DoneSoFar(t) \cup {c}
      /\ DoneSoFar(t) \subseteq FeedSegment /\ \A s \in DoneSoFar(t) : s < c
  BY <1>1, DoneNext
<1> HIDE DEF c
<1>4. output[t] \in Seq(FeedSegment) /\ segments[t] \in Seq(FeedSegment)
  BY DEF Inv, TypeOK
<1>5. /\ Append(output[t], c) \in Seq(FeedSegment)
      /\ Append(segments[t], c) \in Seq(FeedSegment)
      /\ Has(Append(segments[t], c)) = Has(segments[t]) \cup {c}
  BY <1>2, <1>4, AppendHas
<1>6. /\ output'[t] = Append(output[t], c)
      /\ segments'[t] \in {segments[t], Append(segments[t], c)}
      /\ \A st \in Stream \ {t} : segments'[st] = segments[st] /\ output'[st] = output[st]
  BY <1>1 DEF Inv, TypeOK
<1>7. /\ files' \in [Stream -> SUBSET FeedSegment]
      /\ output' \in [Stream -> Seq(FeedSegment)]
      /\ segments' \in [Stream -> Seq(FeedSegment)]
      /\ unmerged' \in [Stream -> SUBSET FeedSegment]
  <2>1. /\ files \in [Stream -> SUBSET FeedSegment] /\ output \in [Stream -> Seq(FeedSegment)]
        /\ segments \in [Stream -> Seq(FeedSegment)]
        /\ unmerged \in [Stream -> SUBSET FeedSegment]
    BY DEF Inv, TypeOK
  <2>2. files' \in [Stream -> SUBSET FeedSegment] /\ unmerged' \in [Stream -> SUBSET FeedSegment]
    BY <1>1, <2>1
  <2>3. output' \in [Stream -> Seq(FeedSegment)]
    BY <1>1, <1>5, <2>1
  <2>4. segments' \in [Stream -> Seq(FeedSegment)]
    BY <1>1, <1>5, <2>1
  <2> QED
    BY <2>2, <2>3, <2>4
<1>8. Has(segments'[t]) \subseteq DoneSoFar(t)'
  BY <1>1, <1>3, <1>5, <1>6, MergerOf DEF Contents
<1>9. ASSUME mux \in {"waiting", "ffmpeg", "muxed"}
      PROVE  Lists(output'[t], DoneSoFar(t)')
  <2>1. Lists(output[t], DoneSoFar(t))
    BY <1>1, <1>9, MergerOf DEF Contents
  <2>2. Lists(Append(output[t], c), DoneSoFar(t) \cup {c})
    BY <1>2, <1>3, <1>4, <2>1, AppendLists
  <2> QED
    BY <1>3, <1>6, <2>2
<1>10. Contents(t)'
  BY <1>1, <1>2, <1>8, <1>9 DEF Contents, Lists
<1> QED
  BY <1>1, <1>6, <1>7, <1>10, CountInv

LEMMA CopyFailsStep == ASSUME Inv, NEW t \in Stream, CopyFails(t) PROVE Inv'
<1>1. /\ Count(t) /\ opts.merger # "download-only"
      /\ unmerged' = [unmerged EXCEPT ![t] = @ \cup {Current(t)}]
      /\ files' = files /\ output' = output /\ segments' = segments
  BY DEF CopyFails
<1>2. /\ unmerged'[t] = unmerged[t] \cup {Current(t)}
      /\ \A st \in Stream \ {t} : unmerged'[st] = unmerged[st]
  BY <1>1 DEF Inv, TypeOK
<1>3. DoneSoFar(t)' = DoneSoFar(t)
  BY <1>1, <1>2, DoneNext
<1>4. opts' = opts /\ mux' = mux /\ Current(t) \in FeedSegment
  BY <1>1, <1>2, CountStep
<1>5. Contents(t)'
  BY <1>1, <1>3, <1>4, MergerOf DEF Contents
<1>6. /\ files' \in [Stream -> SUBSET FeedSegment]
      /\ output' \in [Stream -> Seq(FeedSegment)]
      /\ segments' \in [Stream -> Seq(FeedSegment)]
      /\ unmerged' \in [Stream -> SUBSET FeedSegment]
  BY <1>1, <1>4 DEF Inv, TypeOK
<1> QED
  BY <1>1, <1>2, <1>5, <1>6, CountInv

LEMMA RememberResultStep == ASSUME Inv, NEW t \in Stream, RememberResult(t) PROVE Inv'
<1> DEFINE c == Current(t)
<1>1. /\ Count(t) /\ opts.merger = "download-only"
      /\ segments' = [segments EXCEPT ![t] = Append(@, c)]
      /\ files' = files /\ output' = output /\ unmerged' = unmerged
  BY DEF RememberResult
<1>2. c \in FeedSegment /\ c = Dealt(t) /\ opts' = opts /\ Dealt(t)' = Dealt(t) + 1
  BY <1>1, CountStep
<1> HIDE DEF c
<1>3. /\ segments[t] \in Seq(FeedSegment) /\ Len(segments[t]) = Dealt(t)
      /\ \A i \in 1 .. Len(segments[t]) : segments[t][i] = i - 1
  BY <1>1, MergerOf DEF Contents, Inv, TypeOK
<1>4. /\ segments'[t] = Append(segments[t], c)
      /\ \A st \in Stream \ {t} : segments'[st] = segments[st]
  BY <1>1 DEF Inv, TypeOK
<1>5. Len(segments'[t]) = Dealt(t) + 1
  BY <1>3, <1>4
<1>6. ASSUME NEW i \in 1 .. Len(segments'[t]) PROVE segments'[t][i] = i - 1
  <2>1. CASE i \in 1 .. Len(segments[t])
    BY <1>3, <1>4, <2>1
  <2>2. CASE i = Len(segments[t]) + 1
    BY <1>2, <1>3, <1>4, <2>2
  <2> QED
    BY <1>3, <1>5, <2>1, <2>2
<1>7. Contents(t)'
  BY <1>1, <1>2, <1>5, <1>6 DEF Contents
<1>8. /\ files' \in [Stream -> SUBSET FeedSegment]
      /\ output' \in [Stream -> Seq(FeedSegment)]
      /\ segments' \in [Stream -> Seq(FeedSegment)]
      /\ unmerged' \in [Stream -> SUBSET FeedSegment]
  BY <1>1, <1>2 DEF Inv, TypeOK
<1> QED
  BY <1>1, <1>4, <1>7, <1>8, CountInv

----------------------------------------------------------------------------
(* The steps of Mux, of main and of the user *)

(* A step that touches no stream, and merged files only once they are used. *)
LEMMA NoStream ==
  ASSUME Inv, TypeOK', Bar', Muxing',
         opts' = opts, json' = json,
         feed' = feed, merge' = merge, segments' = segments, unmerged' = unmerged,
         progress'.merged = progress.merged,
         mux' \in {"waiting", "ffmpeg", "muxed"} =>
           mux \in {"waiting", "ffmpeg", "muxed"} /\ output' = output
  PROVE  Inv'
<1>1. ASSUME NEW st \in Stream PROVE Merging(st)' /\ Contents(st)' /\ Fed(st)'
  BY StreamKept, FedKept DEF Inv
<1> QED
  BY <1>1 DEF Inv

(* What such a step does not change.                                        *)
LEMMA Unchanged ==
  ASSUME opts' = opts, json' = json, feed' = feed, merge' = merge, unmerged' = unmerged
  PROVE  /\ Used' = Used /\ (BothMerged' <=> BothMerged)
         /\ \A st \in Stream : DoneSoFar(st)' = DoneSoFar(st)
<1>1. \A st \in Stream : Dealt(st)' = Dealt(st)
  BY DEF Dealt
<1>2. \A st \in Stream : DoneSoFar(st)' = DoneSoFar(st)
  BY <1>1 DEF DoneSoFar, Copied
<1> QED
  BY <1>2, SameIgnored DEF BothMerged

LEMMA InUse == Used \subseteq Stream
  BY DEF Used

(* main ends, or goes on to wait for Mux; files and merged files may only   *)
(* disappear when Mux is over.                                              *)
LEMMA MainMoves ==
  ASSUME Inv, main' \in {"muxer", "success", "exited"}, main' = "muxer" => mux # "off",
         UNCHANGED <<runVars, feed, merge, segments, unmerged, muxVars, progress>>,
         files' \in [Stream -> SUBSET FeedSegment],
         output' \in [Stream -> Seq(FeedSegment)],
         mux \in {"waiting", "ffmpeg", "muxed"} => output' = output
  PROVE  Inv'
<1>1. /\ opts' = opts /\ runs' = runs /\ feed' = feed /\ merge' = merge
      /\ segments' = segments /\ unmerged' = unmerged /\ mux' = mux /\ opened' = opened
      /\ final' = final /\ json' = json /\ progress' = progress
  BY DEF runVars, muxVars
<1>2. TypeOK'
  BY <1>1 DEF Inv, TypeOK
<1>3. /\ Used' = Used /\ (BothMerged' <=> BothMerged)
      /\ \A st \in Stream : DoneSoFar(st)' = DoneSoFar(st)
  BY <1>1, Unchanged
<1>4. Bar'
  BY <1>1, <1>3 DEF Inv, Bar
<1>5. Muxing'
  BY <1>1, <1>3, InUse DEF Inv, Muxing, Lists
<1> QED
  BY <1>1, <1>2, <1>4, <1>5, NoStream

LEMMA MainStepInv ==
  ASSUME Inv, \/ RefuseLeftovers \/ RefuseMerge \/ WaitDownloads \/ Succeed
              \/ ExitWithError \/ Killed
  PROVE  Inv'
<1>1. /\ main' \in {"muxer", "success", "exited"} /\ (main' = "muxer" => mux # "off")
      /\ UNCHANGED <<runVars, feed, merge, segments, unmerged, muxVars, progress>>
      /\ \/ files' = files /\ output' = output
         \/ files' = [st \in Stream |-> {}] /\ output' = Empty /\ mux = "ok"
  <2>1. CASE Succeed
    BY <2>1 DEF Succeed
  <2>2. CASE WaitDownloads
    BY <2>2 DEF WaitDownloads, mergeVars, Inv, Muxing
  <2>3. CASE RefuseLeftovers \/ RefuseMerge \/ ExitWithError \/ Killed
    BY <2>3 DEF RefuseLeftovers, RefuseMerge, ExitWithError, Killed, mergeVars
  <2> QED
    BY <2>1, <2>2, <2>3
<1>2. <<>> \in Seq(FeedSegment)
  OBVIOUS
<1>3. Empty \in [Stream -> Seq(FeedSegment)]
  BY <1>2 DEF Empty
<1>4. /\ files' \in [Stream -> SUBSET FeedSegment]
      /\ output' \in [Stream -> Seq(FeedSegment)]
  BY <1>1, <1>3 DEF Inv, TypeOK
<1> QED
  BY <1>1, <1>4, MainMoves

LEMMA StartFfmpegStep == ASSUME Inv, StartFfmpeg PROVE Inv'
<1>1. /\ mux = "waiting" /\ mux' = "ffmpeg" /\ opts.merger \in {"concat", "tcp"}
      /\ opts.merger = "concat" => BothMerged
      /\ opts' = opts /\ runs' = runs /\ main' = main /\ feed' = feed /\ files' = files
      /\ merge' = merge /\ output' = output /\ segments' = segments
      /\ unmerged' = unmerged /\ opened' = opened /\ final' = final /\ json' = json
      /\ progress' = progress
  BY DEF StartFfmpeg, runVars, mergeVars
<1>2. TypeOK'
  BY <1>1 DEF Inv, TypeOK
<1>3. Used' = Used /\ (BothMerged' <=> BothMerged)
  BY <1>1, Unchanged
<1>4. Bar'
  BY <1>1, <1>3 DEF Inv, Bar
<1>5. Muxing'
  BY <1>1, <1>3 DEF Inv, Muxing
<1> QED
  BY <1>1, <1>2, <1>4, <1>5, NoStream

LEMMA OpenInputStep == ASSUME Inv, NEW t \in Stream, OpenInput(t) PROVE Inv'
<1>1. /\ mux = "ffmpeg" /\ mux' = mux /\ opened' = opened \cup {t}
      /\ opts' = opts /\ runs' = runs /\ main' = main /\ feed' = feed /\ files' = files
      /\ merge' = merge /\ output' = output /\ segments' = segments
      /\ unmerged' = unmerged /\ final' = final /\ json' = json /\ progress' = progress
  BY DEF OpenInput, runVars, mergeVars
<1>2. TypeOK'
  BY <1>1 DEF Inv, TypeOK
<1>3. Used' = Used /\ (BothMerged' <=> BothMerged)
  BY <1>1, Unchanged
<1>4. Bar'
  BY <1>1, <1>3 DEF Inv, Bar
<1>5. Muxing'
  BY <1>1, <1>3 DEF Inv, Muxing
<1> QED
  BY <1>1, <1>2, <1>4, <1>5, NoStream

LEMMA FfmpegSucceedsStep == ASSUME Inv, FfmpegSucceeds PROVE Inv'
<1>1. /\ mux = "ffmpeg" /\ mux' = "muxed"
      /\ opts.merger = "tcp" => \A st \in Used : merge[st] = "done"
      /\ final' = [kind |-> "video",
                   content |-> [st \in Stream |-> IF st \in Used THEN output[st] ELSE <<>>]]
      /\ opts' = opts /\ runs' = runs /\ main' = main /\ feed' = feed /\ files' = files
      /\ merge' = merge /\ output' = output /\ segments' = segments
      /\ unmerged' = unmerged /\ opened' = opened /\ json' = json /\ progress' = progress
  BY DEF FfmpegSucceeds, InputsEnded, runVars, mergeVars
<1>2. /\ final'.kind = "video"
      /\ \A st \in Used : final'.content[st] = output[st]
      /\ final' \in [kind : {"none", "broken", "video"},
                     content : [Stream -> Seq(FeedSegment)]]
  <2>1. <<>> \in Seq(FeedSegment)
    OBVIOUS
  <2> QED
    BY <1>1, <2>1, InUse DEF Inv, TypeOK
<1>3. TypeOK'
  BY <1>1, <1>2 DEF Inv, TypeOK
<1>4. /\ Used' = Used /\ (BothMerged' <=> BothMerged)
      /\ \A st \in Stream : DoneSoFar(st)' = DoneSoFar(st)
  BY <1>1, Unchanged
<1>5. Bar'
  BY <1>1, <1>4 DEF Inv, Bar
<1>6. opts.merger # "download-only" /\ \A st \in Used : merge[st] = "done"
  <2>1. opts.merger \in {"concat", "tcp", "download-only"}
    BY OptionsAssumption DEF Inv, TypeOK, Option
  <2> QED
    BY <1>1, <2>1, InUse DEF Inv, Muxing, BothMerged
<1>7. \A st \in Used : Lists(final'.content[st], DoneSoFar(st)')
  BY <1>1, <1>2, <1>4, <1>6, InUse DEF Inv, Contents
<1>8. Muxing'
  <2>1. /\ main' = "create" => mux' = "off"
        /\ main' \in {"waiting", "muxer"} => mux' # "off"
    BY <1>1 DEF Inv, Muxing
  <2>2. opts'.merger # "download-only"
    BY <1>1, <1>6
  <2>3. final'.kind = "video"
    BY <1>2
  <2>4. \A st \in Used' : merge'[st] = "done" /\ Lists(final'.content[st], DoneSoFar(st)')
    BY <1>1, <1>4, <1>6, <1>7
  <2>5. mux' = "muxed"
    BY <1>1
  <2> QED
    BY <2>1, <2>2, <2>3, <2>4, <2>5 DEF Muxing, Lists
<1> QED
  BY <1>1, <1>3, <1>5, <1>8, NoStream

LEMMA FfmpegFailsStep == ASSUME Inv, FfmpegFails PROVE Inv'
<1>1. /\ mux = "ffmpeg" /\ mux' = "failed"
      /\ final' = final \/ final' = [NoFinal EXCEPT !.kind = "broken"]
      /\ opts' = opts /\ runs' = runs /\ main' = main /\ feed' = feed /\ files' = files
      /\ merge' = merge /\ output' = output /\ segments' = segments
      /\ unmerged' = unmerged /\ opened' = opened /\ json' = json /\ progress' = progress
  BY DEF FfmpegFails, runVars, mergeVars
<1>2. final' \in [kind : {"none", "broken", "video"}, content : [Stream -> Seq(FeedSegment)]]
  <2>1. <<>> \in Seq(FeedSegment)
    OBVIOUS
  <2>2. Empty \in [Stream -> Seq(FeedSegment)]
    BY <2>1 DEF Empty
  <2>3. [NoFinal EXCEPT !.kind = "broken"] = [kind |-> "broken", content |-> Empty]
    BY DEF NoFinal
  <2>4. CASE final' = final
    BY <2>4 DEF Inv, TypeOK
  <2>5. CASE final' = [NoFinal EXCEPT !.kind = "broken"]
    BY <2>2, <2>3, <2>5
  <2> QED
    BY <1>1, <2>4, <2>5
<1>3. TypeOK'
  BY <1>1, <1>2 DEF Inv, TypeOK
<1>4. Used' = Used
  BY <1>1, Unchanged
<1>5. Bar'
  BY <1>1, <1>4 DEF Inv, Bar
<1>6. Muxing'
  BY <1>1 DEF Inv, Muxing
<1> QED
  BY <1>1, <1>3, <1>5, <1>6, NoStream

LEMMA RemoveMergedStep == ASSUME Inv, RemoveMerged PROVE Inv'
<1>1. /\ mux = "muxed" /\ mux' = "deleting" /\ output' = Empty
      /\ progress' = EndProgress(progress)
      /\ opts' = opts /\ runs' = runs /\ main' = main /\ feed' = feed /\ files' = files
      /\ merge' = merge /\ segments' = segments
      /\ unmerged' = unmerged /\ opened' = opened /\ final' = final /\ json' = json
  BY DEF RemoveMerged, runVars
<1>2. /\ progress' \in Progress /\ progress'.merged = progress.merged
      /\ progress'.total = progress.total
  BY <1>1, EndBar DEF Inv, TypeOK, Progress
<1>3. TypeOK'
  <2>1. <<>> \in Seq(FeedSegment)
    OBVIOUS
  <2> QED
    BY <1>1, <1>2, <2>1 DEF Inv, TypeOK, Progress, Empty
<1>4. /\ Used' = Used /\ (BothMerged' <=> BothMerged)
      /\ \A st \in Stream : DoneSoFar(st)' = DoneSoFar(st)
  BY <1>1, Unchanged
<1>5. Bar'
  BY <1>1, <1>2, <1>4 DEF Inv, Bar
<1>6. Muxing'
  BY <1>1, <1>4, InUse DEF Inv, Muxing, Lists
<1> QED
  BY <1>1, <1>2, <1>3, <1>5, <1>6, NoStream

LEMMA DeleteSegmentsStep == ASSUME Inv, DeleteSegments PROVE Inv'
<1>1. /\ mux = "deleting" /\ mux' = "ok"
      /\ files' = files \/ files' = [st \in Stream |-> files[st] \ InSegments(st)]
      /\ opts' = opts /\ runs' = runs /\ main' = main /\ feed' = feed
      /\ merge' = merge /\ output' = output /\ segments' = segments
      /\ unmerged' = unmerged /\ opened' = opened /\ final' = final /\ json' = json
      /\ progress' = progress
  BY DEF DeleteSegments, runVars, mergeVars
<1>2. TypeOK'
  <2>1. files' \in [Stream -> SUBSET FeedSegment]
    BY <1>1 DEF Inv, TypeOK
  <2> QED
    BY <1>1, <2>1 DEF Inv, TypeOK
<1>3. /\ Used' = Used /\ (BothMerged' <=> BothMerged)
      /\ \A st \in Stream : DoneSoFar(st)' = DoneSoFar(st)
  BY <1>1, Unchanged
<1>4. Bar'
  BY <1>1, <1>3 DEF Inv, Bar
<1>5. Muxing'
  BY <1>1, <1>3, InUse DEF Inv, Muxing, Lists
<1> QED
  BY <1>1, <1>2, <1>4, <1>5, NoStream

LEMMA WriteJsonStep == ASSUME Inv, WriteJson PROVE Inv'
<1>1. /\ mux = "waiting" /\ opts.merger = "download-only" /\ BothMerged
      /\ progress' = EndProgress(progress)
      /\ \/ /\ mux' = "ok" /\ json'.written = TRUE
            /\ json' = [written |-> TRUE, results |-> [st \in Stream |-> Results(st)]]
         \/ mux' = "failed" /\ json' \in {json, NoJson}
      /\ opts' = opts /\ runs' = runs /\ main' = main /\ feed' = feed /\ files' = files
      /\ merge' = merge /\ output' = output /\ segments' = segments
      /\ unmerged' = unmerged /\ opened' = opened /\ final' = final
  BY DEF WriteJson, runVars, mergeVars
<1>2. ~opts.mergeOnly
  BY <1>1 DEF Inv, Muxing
<1>3. /\ progress' \in Progress /\ progress'.merged = progress.merged
      /\ progress'.total = progress.total
  BY <1>1, EndBar DEF Inv, TypeOK, Progress
<1>4. ASSUME NEW st \in Stream
      PROVE  /\ Results(st) \in Seq(Result)
             /\ Results(st) # <<>> =>
                  /\ Len(Results(st)) = Segments
                  /\ \A i \in 1 .. Segments : Results(st)[i].segment = i - 1
  <2> DEFINE n == Dealt(st)
             q == segments[st]
  <2>1. /\ q \in Seq(FeedSegment) /\ Len(q) = n /\ n \in 0 .. Segments
        /\ \A i \in 1 .. n : q[i] = i - 1
    BY <1>1, MergerOf DEF Contents, Inv, TypeOK
  <2>2. merge[st] = "done"
    BY <1>1 DEF BothMerged
  <2>3. n = feed[st].merged /\ n \in {0, Segments}
    BY <2>2, MergerOf DEF Dealt, Merging
  <2>4. \A i \in 1 .. n : q[i] \in FeedSegment /\ q[i] < feed[st].merged
    BY <2>1, <2>3, SegmentNumbers
  <2>5. \A i \in 1 .. n : feed[st].outcome[q[i]] \in {"ok", "lost"}
    BY <2>4, MergerOf DEF Merging, Feed
  <2>6. Results(st) = [i \in 1 .. n |-> [segment |-> q[i], outcome |-> feed[st].outcome[q[i]]]]
    BY <2>1 DEF Results
  <2> HIDE DEF n, q
  <2>7. \A i \in 1 .. n : [segment |-> q[i], outcome |-> feed[st].outcome[q[i]]] \in Result
    BY <2>4, <2>5 DEF Result
  <2>8. Results(st) \in Seq(Result) /\ Len(Results(st)) = n
    BY <2>1, <2>6, <2>7, SegmentNumbers
  <2>9. \A i \in 1 .. n : Results(st)[i].segment = i - 1
    BY <2>1, <2>6
  <2>10. Results(st) # <<>> => n = Segments
    BY <2>3, <2>8
  <2> QED
    BY <2>8, <2>9, <2>10
<1>5. /\ json' \in [written : BOOLEAN, results : [Stream -> Seq(Result)]]
      /\ \A st \in Stream :
           json'.results[st] # <<>> =>
             /\ Len(json'.results[st]) = Segments
             /\ \A i \in 1 .. Segments : json'.results[st][i].segment = i - 1
  <2>1. CASE json' = [written |-> TRUE, results |-> [st \in Stream |-> Results(st)]]
    BY <1>4, <2>1
  <2>2. CASE json' = json
    BY <2>2 DEF Inv, TypeOK, Fed
  <2>3. CASE json' = NoJson
    <3>1. <<>> \in Seq(Result)
      OBVIOUS
    <3> QED
      BY <2>3, <3>1 DEF NoJson, Empty
  <2> QED
    BY <1>1, <2>1, <2>2, <2>3
<1>6. TypeOK'
  BY <1>1, <1>3, <1>5 DEF Inv, TypeOK, Progress
<1>7. Used' = Used
  BY <1>1, <1>2, SameIgnored
<1>8. Bar'
  BY <1>1, <1>3, <1>7 DEF Inv, Bar
<1>9. Muxing'
  BY <1>1, <1>2 DEF Inv, Muxing
<1>10. ASSUME NEW st \in Stream PROVE Merging(st)' /\ Contents(st)' /\ Fed(st)'
  <2>1. Merging(st)' /\ Contents(st)'
    BY <1>1, <1>2, <1>3, StreamKept DEF Inv
  <2>2. Fed(st)'
    BY <1>1, <1>2, <1>5 DEF Fed
  <2> QED
    BY <2>1, <2>2
<1> QED
  BY <1>6, <1>8, <1>9, <1>10 DEF Inv

(* main starts the goroutines.                                              *)
LEMMA Begin ==
  ASSUME Inv, mux = "off", mux' = "waiting", main' \in {"waiting", "muxer"},
         output' = Empty, feed' \in [Stream -> Feed],
         \A st \in Stream : feed'[st].merged = 0 /\ feed'[st].outcome = NewFeed.outcome,
         merge' \in [Stream -> {"off", "started"}],
         \A st \in Stream :
           feed'[st].phase = "counting" /\ ~Ignored(st) => merge'[st] = "off",
         opts.mergeOnly => opts.merger # "download-only",
         UNCHANGED <<runVars, files, segments, unmerged, opened, final, json, progress>>
  PROVE  Inv'
<1>1. /\ opts' = opts /\ runs' = runs /\ files' = files /\ segments' = segments
      /\ unmerged' = unmerged /\ opened' = opened /\ final' = final /\ json' = json
      /\ progress' = progress
  BY DEF runVars
<1>2. \A st \in Stream :
        /\ feed[st] = NewFeed /\ merge[st] = "off"
        /\ segments[st] = <<>> /\ unmerged[st] = {}
  BY DEF Inv, Muxing
<1>3. TypeOK'
  <2>1. <<>> \in Seq(FeedSegment)
    OBVIOUS
  <2> QED
    BY <1>1, <2>1 DEF Inv, TypeOK, Empty
<1>4. Used' = Used /\ \A st \in Stream : Ignored(st)' <=> Ignored(st)
  BY <1>1, SameIgnored
<1>5. Bar'
  BY <1>1, <1>4 DEF Inv, Bar
<1>6. Muxing'
  BY <1>1, <1>3 DEF Inv, Muxing
<1>7. ASSUME NEW st \in Stream PROVE Merging(st)' /\ Contents(st)' /\ Fed(st)'
  <2>1. merge'[st] \in {"off", "started"} /\ feed'[st].merged = 0
    OBVIOUS
  <2>2. Dealt(st)' = 0
    <3>1. merge'[st] # "result"
      BY <2>1
    <3>2. Dealt(st)' = feed'[st].merged - 0
      BY <3>1 DEF Dealt
    <3> QED
      BY <2>1, <3>2
  <2>3. NewFeed.merged = 0 /\ \A s \in FeedSegment : NewFeed.outcome[s] = "none"
    BY DEF NewFeed
  <2>4. progress'.merged[st] = 0
    <3>1. Dealt(st) = 0
      BY <1>2, <2>3 DEF Dealt
    <3> QED
      BY <1>1, <3>1 DEF Inv, Merging
  <2>5. \A s \in FeedSegment : ~(s < 0)
    BY SegmentNumbers
  <2>6. Merging(st)'
    BY <1>1, <1>2, <1>4, <2>1, <2>2, <2>4, <2>5 DEF Merging
  <2>7. DoneSoFar(st)' = {}
    BY <2>2, <2>5 DEF DoneSoFar, Copied
  <2>8. /\ segments'[st] = <<>> /\ output'[st] = <<>>
        /\ Len(<<>>) = 0 /\ \A i \in 1 .. 0 : FALSE
    BY <1>1, <1>2 DEF Empty
  <2>9. Has(segments'[st]) = {} /\ Lists(output'[st], {})
    BY <2>8 DEF Has, Lists
  <2>10. Contents(st)'
    BY <1>1, <2>2, <2>7, <2>8, <2>9 DEF Contents, Lists
  <2>11. Fed(st)'
    BY <1>1, <2>3 DEF Fed, Inv
  <2> QED
    BY <2>6, <2>10, <2>11
<1> QED
  BY <1>3, <1>5, <1>6, <1>7 DEF Inv

LEMMA StartStep == ASSUME Inv, Start PROVE Inv'
<1>1. /\ mux = "off" /\ mux' = "waiting" /\ main' = "waiting" /\ ~opts.mergeOnly
      /\ output' = Empty /\ feed' = feed
      /\ merge' = [st \in Stream |-> IF Ignored(st) THEN "started" ELSE "off"]
      /\ UNCHANGED <<runVars, files, segments, unmerged, opened, final, json, progress>>
  BY DEF Start, Inv, Muxing
<1>2. feed' \in [Stream -> Feed] /\ merge' \in [Stream -> {"off", "started"}]
  BY <1>1 DEF Inv, TypeOK
<1>3. \A st \in Stream : feed'[st] = NewFeed /\ NewFeed.merged = 0
  BY <1>1 DEF Inv, Muxing, NewFeed
<1> QED
  BY <1>1, <1>2, <1>3, Begin

LEMMA StartMergeStep == ASSUME Inv, StartMerge PROVE Inv'
<1>1. /\ mux = "off" /\ mux' = "waiting" /\ main' = "muxer"
      /\ opts.merger # "download-only"
      /\ output' = Empty /\ feed' = [st \in Stream |-> Started(feed[st])]
      /\ merge' = [st \in Stream |-> "started"]
      /\ UNCHANGED <<runVars, files, segments, unmerged, opened, final, json, progress>>
  BY DEF StartMerge, Inv, Muxing
<1>2. \A st \in Stream :
        /\ feed'[st] \in Feed /\ feed'[st].merged = 0 /\ feed'[st].phase = "running"
        /\ feed'[st].outcome = NewFeed.outcome
  <2>1. \A st \in Stream : feed[st] = NewFeed
    BY <1>1 DEF Inv, Muxing
  <2>2. /\ Started(NewFeed) \in Feed /\ Started(NewFeed).merged = 0
        /\ Started(NewFeed).phase = "running" /\ Started(NewFeed).outcome = NewFeed.outcome
    BY NewFeedType, FeedSteps DEF Started, NewFeed
  <2> QED
    BY <1>1, <2>1, <2>2
<1>3. feed' \in [Stream -> Feed] /\ merge' \in [Stream -> {"off", "started"}]
  BY <1>1, <1>2
<1> QED
  BY <1>1, <1>2, <1>3, Begin

----------------------------------------------------------------------------
(* A new process *)

Fresh ==
  /\ main = "create" /\ mux = "off" /\ progress = NewProgress
  /\ \A st \in Stream :
       /\ feed[st] = NewFeed /\ merge[st] = "off"
       /\ segments[st] = <<>> /\ unmerged[st] = {}
       /\ json.results[st] # <<>> =>
            /\ Len(json.results[st]) = Segments
            /\ \A i \in 1 .. Segments : json.results[st][i].segment = i - 1

LEMMA FreshInv == TypeOK /\ Fresh => Inv
<1> SUFFICES ASSUME TypeOK, Fresh PROVE Inv
  OBVIOUS
<1>1. Muxing
  BY DEF Fresh, Muxing
<1>2. Bar
  BY DEF Fresh, Bar, NewProgress
<1>3. ASSUME NEW st \in Stream PROVE Merging(st) /\ Contents(st) /\ Fed(st)
  <2>1. NewFeed.merged = 0 /\ \A s \in FeedSegment : NewFeed.outcome[s] = "none"
    BY DEF NewFeed
  <2>2. Dealt(st) = 0
    BY <2>1 DEF Fresh, Dealt
  <2>3. \A s \in FeedSegment : ~(s < 0)
    BY SegmentNumbers
  <2>4. Merging(st)
    BY <2>1, <2>2, <2>3 DEF Fresh, Merging, NewProgress
  <2>5. Len(<<>>) = 0 /\ Has(<<>>) = {}
    BY DEF Has
  <2>6. Contents(st)
    BY <2>2, <2>5 DEF Fresh, Contents
  <2>7. Fed(st)
    BY <2>1 DEF Fresh, Fed
  <2> QED
    BY <2>4, <2>6, <2>7
<1> QED
  BY <1>1, <1>2, <1>3 DEF Inv

LEMMA NewProcessTypes ==
  /\ NewFeed \in Feed /\ NewProgress \in Progress
  /\ Empty \in [Stream -> Seq(FeedSegment)]
  /\ NoFinal \in [kind : {"none", "broken", "video"}, content : [Stream -> Seq(FeedSegment)]]
  /\ NoJson \in [written : BOOLEAN, results : [Stream -> Seq(Result)]]
<1>1. NewProgress \in Progress
  BY SegmentNumbers DEF NewProgress, Progress
<1>2. <<>> \in Seq(FeedSegment) /\ <<>> \in Seq(Result)
  OBVIOUS
<1>3. Empty \in [Stream -> Seq(FeedSegment)] /\ Empty \in [Stream -> Seq(Result)]
  BY <1>2 DEF Empty
<1> QED
  BY <1>1, <1>3, NewFeedType DEF NoFinal, NoJson

LEMMA InitInv == Init => Inv
<1> SUFFICES ASSUME Init PROVE Inv
  OBVIOUS
<1>1. TypeOK
  BY NewProcessTypes, RunsAssumption DEF Init, TypeOK, Progress
<1>2. Fresh
  BY DEF Init, Fresh, Empty, NoJson
<1> QED
  BY <1>1, <1>2, FreshInv

LEMMA RerunStep == Inv /\ Rerun => Inv'
<1> SUFFICES ASSUME Inv, Rerun PROVE TypeOK' /\ Fresh'
  BY FreshInv, PTL
<1>1. /\ main' = "create" /\ mux' = "off" /\ progress' = NewProgress /\ opened' = {}
      /\ feed' = [st \in Stream |-> NewFeed] /\ merge' = [st \in Stream |-> "off"]
      /\ segments' = Empty /\ unmerged' = [st \in Stream |-> {}]
      /\ opts' \in Options /\ runs' = runs + 1 /\ runs < MaxRuns
      /\ output' = output \/ output' = Empty
      /\ files' = files /\ final' = final /\ json' = json
  BY DEF Rerun, NewProcess
<1>2. TypeOK'
  <2>1. runs' \in 1 .. MaxRuns
    BY <1>1, RunsAssumption DEF Inv, TypeOK
  <2>2. output' \in [Stream -> Seq(FeedSegment)]
    BY <1>1, NewProcessTypes DEF Inv, TypeOK
  <2> QED
    BY <1>1, <2>1, <2>2, NewProcessTypes DEF Inv, TypeOK, Progress
<1>3. Fresh'
  BY <1>1 DEF Fresh, Empty, Inv, Fed
<1> QED
  BY <1>2, <1>3

----------------------------------------------------------------------------
(* The invariant, and what follows from it *)

LEMMA StepInv == Inv /\ [Next]_vars => Inv'
<1> SUFFICES ASSUME Inv, [Next]_vars PROVE Inv'
  OBVIOUS
<1>1. ASSUME NEW st \in Stream, DownloadStep(st) PROVE Inv'
  BY <1>1, StartDownloadStep, CountFailsStep, DownloadStepInv, EndDownloadStep, FeedResultStep
  DEF DownloadStep
<1>2. ASSUME NEW st \in Stream, MergeStep(st) PROVE Inv'
  BY <1>2, BeginMergeStep, NextToMergeStep, SkipLostStep, CopySegmentStep, CopyFailsStep,
     RememberResultStep, EndMergeStep
  DEF MergeStep
<1>3. ASSUME MuxStep PROVE Inv'
  BY <1>3, StartFfmpegStep, OpenInputStep, FfmpegSucceedsStep, FfmpegFailsStep,
     RemoveMergedStep, DeleteSegmentsStep, WriteJsonStep
  DEF MuxStep
<1>4. ASSUME MainStep \/ Killed PROVE Inv'
  BY <1>4, MainStepInv, StartStep, StartMergeStep DEF MainStep
<1>5. CASE Rerun
  BY <1>5, RerunStep
<1>6. CASE UNCHANGED vars
  <2>1. /\ opts' = opts /\ runs' = runs /\ main' = main /\ feed' = feed /\ files' = files
        /\ merge' = merge /\ output' = output /\ segments' = segments
        /\ unmerged' = unmerged /\ mux' = mux /\ opened' = opened /\ final' = final
        /\ json' = json /\ progress' = progress
    BY <1>6 DEF vars, runVars, mergeVars, muxVars
  <2>2. /\ Used' = Used /\ (BothMerged' <=> BothMerged)
        /\ \A st \in Stream : DoneSoFar(st)' = DoneSoFar(st)
    BY <2>1, Unchanged
  <2>3. TypeOK'
    BY <2>1 DEF Inv, TypeOK
  <2>4. Bar' /\ Muxing'
    BY <2>1, <2>2, InUse DEF Inv, Bar, Muxing, Lists
  <2> QED
    BY <2>1, <2>3, <2>4, NoStream
<1> QED
  BY <1>1, <1>2, <1>3, <1>4, <1>5, <1>6 DEF Next, Terminated

(* The inductive invariant: what a stream has merged are the segments that  *)
(* were downloaded and copied, up to where its merger is, and Mux is only   *)
(* as far as the mergers allow it.                                          *)
THEOREM Invariant == Spec => []Inv
  BY InitInv, StepInv, PTL DEF Spec

(* Type correctness.                                                        *)
THEOREM TypeCorrect == Spec => []TypeOK
<1>1. Inv => TypeOK
  BY DEF Inv
<1> QED
  BY <1>1, Invariant, PTL

(* A video holds all that was downloaded and could be copied, in order, for *)
(* any number of segments, mergers and options, whatever earlier runs left. *)
THEOREM VideoComplete == Spec => []FinalComplete
<1>1. Inv => FinalComplete
  <2> SUFFICES ASSUME Inv, mux \in {"muxed", "deleting", "ok"},
                      opts.merger # "download-only"
               PROVE  /\ final.kind = "video"
                      /\ \A st \in Used : Lists(final.content[st], Copied(st))
                      /\ opts.mergeOnly =>
                           \A st \in Used : \A s \in FeedSegment :
                             [segment |-> s, outcome |-> feed[st].outcome[s]] \in
                               {json.results[st][i] : i \in DOMAIN json.results[st]}
    BY DEF FinalComplete
  <2>1. /\ final.kind = "video"
        /\ \A st \in Used : merge[st] = "done" /\ Lists(final.content[st], DoneSoFar(st))
    BY DEF Inv, Muxing
  <2>2. ASSUME NEW st \in Used
        PROVE  Dealt(st) = Segments /\ feed[st].merged = Segments
    <3>1. st \in Stream /\ ~Ignored(st) /\ merge[st] = "done"
      BY <2>1 DEF Used
    <3>2. feed[st].merged = Segments
      BY <3>1, MergerOf DEF Merging
    <3> QED
      BY <3>1, <3>2, SegmentNumbers DEF Dealt
  <2>3. ASSUME NEW st \in Used PROVE DoneSoFar(st) = Copied(st)
    BY <2>2, SegmentNumbers DEF DoneSoFar, Copied
  <2>4. ASSUME opts.mergeOnly, NEW st \in Used, NEW s \in FeedSegment
        PROVE  [segment |-> s, outcome |-> feed[st].outcome[s]] \in
                 {json.results[st][i] : i \in DOMAIN json.results[st]}
    <3> DEFINE q == json.results[st]
    <3>1. st \in Stream /\ q \in Seq(Result)
      BY DEF Used, Inv, TypeOK
    <3>2. feed[st].outcome[s] # "none"
      BY <2>2, <3>1, SegmentNumbers, MergerOf DEF Merging
    <3>3. s < Len(q) /\ feed[st].outcome[s] = q[s + 1].outcome
      BY <2>4, <3>1, <3>2, MergerOf DEF Fed
    <3>4. s + 1 \in 1 .. Len(q) /\ DOMAIN q = 1 .. Len(q)
      BY <3>1, <3>3, SegmentNumbers
    <3>5. q # <<>>
      BY <3>1, <3>3, SegmentNumbers
    <3>6. Len(q) = Segments /\ \A i \in 1 .. Segments : q[i].segment = i - 1
      BY <3>1, <3>5, MergerOf DEF Fed
    <3>7. q[s + 1].segment = s
      BY <3>4, <3>6, SegmentNumbers
    <3>8. q[s + 1] \in Result
      BY <3>1, <3>4
    <3>9. q[s + 1] = [segment |-> s, outcome |-> feed[st].outcome[s]]
      BY <3>3, <3>7, <3>8 DEF Result
    <3> QED
      BY <3>4, <3>9
  <2> QED
    BY <2>1, <2>3, <2>4
<1> QED
  BY <1>1, Invariant, PTL

(* The merge bar counts what is merged and does not end early.              *)
THEOREM BarCounts == Spec => []MergeBar
<1>1. Inv => MergeBar
  <2> SUFFICES ASSUME Inv PROVE MergeBar
    OBVIOUS
  <2>1. \A st \in Stream :
          progress.merged[st] = feed[st].merged - (IF merge[st] = "result" THEN 1 ELSE 0)
    BY DEF Inv, Merging, Dealt
  <2>2. progress.ended /\ Used = Stream /\ Segments > 0 => mux \in {"deleting", "ok", "failed"}
    BY DEF Inv, Bar
  <2> QED
    BY <2>1, <2>2 DEF MergeBar
<1> QED
  BY <1>1, Invariant, PTL

(* Files of segments are deleted only once they are merged and never with   *)
(* --keep-files, by any steps of any run, if no command line has            *)
(* --disable-resume as well: then concat and tcp look at that one only.     *)
THEOREM DeletedOnceMerged ==
  ASSUME NeverBoth
  PROVE  Spec => DeletesOnlyMerged
<1> DEFINE Kept == \A st \in Stream : \A s \in files[st] \ files'[st] : MayDelete(st, s)
<1>1. ASSUME Inv, [Next]_vars PROVE [Kept]_vars
  <2> SUFFICES ASSUME Next, NEW st \in Stream, NEW s \in files[st] \ files'[st]
               PROVE  MayDelete(st, s)
    BY <1>1
  <2>1. ASSUME NEW t \in Stream, DownloadStep(t) PROVE FALSE
    <3>1. files' = files \/ \E x \in FeedSegment : files' = [files EXCEPT ![t] = @ \cup {x}]
      BY <2>1 DEF DownloadStep, StartDownload, CountFails, Download, EndDownload, FeedResult
    <3>2. files \in [Stream -> SUBSET FeedSegment]
      BY <1>1 DEF Inv, TypeOK
    <3>3. CASE files' = files
      BY <3>3
    <3>4. ASSUME NEW x \in FeedSegment, files' = [files EXCEPT ![t] = @ \cup {x}]
          PROVE  FALSE
      <4>1. files[st] \subseteq files'[st]
        BY <3>2, <3>4
      <4> QED
        BY <4>1
    <3> QED
      BY <3>1, <3>3, <3>4
  <2>2. ASSUME NEW t \in Stream, MergeStep(t) PROVE MayDelete(st, s)
    <3>1. CASE files' = files
      BY <3>1
    <3>2. CASE CopySegment(t) /\ opts.disableResume
      <4> DEFINE c == Current(t)
                 q == output[t]
      <4>1. /\ Count(t) /\ files' = [files EXCEPT ![t] = @ \ {c}]
            /\ output' = [output EXCEPT ![t] = Append(@, c)] /\ unmerged' = unmerged
        BY <3>2 DEF CopySegment
      <4>2. c \in FeedSegment
        BY <1>1, <4>1, CountStep
      <4>3. q \in Seq(FeedSegment) /\ output'[t] = Append(q, c)
        BY <1>1, <4>1 DEF Inv, TypeOK
      <4>4. st = t /\ s = c
        BY <1>1, <4>1 DEF Inv, TypeOK
      <4> HIDE DEF c, q
      <4>5. /\ Len(Append(q, c)) = Len(q) + 1 /\ Len(q) \in Nat
            /\ Append(q, c)[Len(q) + 1] = c
        BY <4>2, <4>3
      <4>6. InSequence(c, Append(q, c))
        BY <4>5 DEF InSequence
      <4>7. ~opts.keepFiles
        BY <1>1, <3>2 DEF NeverBoth, Inv, TypeOK
      <4> QED
        BY <3>2, <4>3, <4>4, <4>6, <4>7 DEF MayDelete
    <3> QED
      BY <2>2, <3>1, <3>2
      DEF MergeStep, BeginMerge, NextToMerge, SkipLost, CopySegment, CopyFails,
          RememberResult, EndMerge
  <2>3. ASSUME MuxStep PROVE MayDelete(st, s)
    <3>1. CASE files' = files
      BY <3>1
    <3>2. CASE DeleteSegments /\ ~opts.keepFiles
      <4>1. mux = "deleting" /\ files' = [x \in Stream |-> files[x] \ InSegments(x)]
        BY <3>2 DEF DeleteSegments
      <4>2. s \in Has(segments[st])
        BY <4>1 DEF InSegments, Has
      <4>3. opts.merger # "download-only" /\ final.kind = "video"
        BY <1>1, <4>1 DEF Inv, Muxing
      <4>4. s \in DoneSoFar(st)
        BY <1>1, <4>2, <4>3, MergerOf DEF Contents
      <4>5. ~Ignored(st)
        <5>1. ASSUME Ignored(st) PROVE FALSE
          <6>1. Dealt(st) = 0
            BY <1>1, <5>1, MergerOf DEF Merging, Dealt
          <6> QED
            BY <4>4, <6>1, SegmentNumbers DEF DoneSoFar, Copied
        <5> QED
          BY <5>1
      <4>6. Lists(final.content[st], DoneSoFar(st))
        BY <1>1, <4>1, <4>3, <4>5 DEF Inv, Muxing, Used
      <4>7. InSequence(s, final.content[st])
        BY <4>4, <4>6 DEF Lists, InSequence
      <4> QED
        BY <3>2, <4>1, <4>3, <4>7 DEF MayDelete
    <3> QED
      BY <2>3, <3>1, <3>2
      DEF MuxStep, StartFfmpeg, OpenInput, FfmpegSucceeds, FfmpegFails, RemoveMerged,
          DeleteSegments, WriteJson
  <2>4. ASSUME MainStep PROVE MayDelete(st, s)
    <3>1. CASE files' = files
      BY <3>1
    <3>2. CASE Succeed /\ DeletesTempDir
      BY <3>2 DEF Succeed, DeletesTempDir, MayDelete
    <3> QED
      BY <2>4, <3>1, <3>2
      DEF MainStep, RefuseLeftovers, Start, RefuseMerge, StartMerge, WaitDownloads, Succeed,
          ExitWithError
  <2>5. CASE Killed \/ Rerun \/ Terminated
    BY <2>5 DEF Killed, Rerun, Terminated, vars
  <2> QED
    BY <2>1, <2>2, <2>3, <2>4, <2>5 DEF Next
<1> HIDE DEF Kept
<1>2. Spec => [][Kept]_vars
  BY <1>1, Invariant, PTL DEF Spec
<1> QED
  BY <1>2 DEF DeletesOnlyMerged, Kept

----------------------------------------------------------------------------
(* The streams are feeds *)

(* Each stream, until the program is run again, does what StreamFeed says   *)
(* of a download and its merger, which DownloadTask implements; with        *)
(* --merge, the results of the JSON file do as well.                        *)
Feeding(st) == INSTANCE StreamFeed WITH feed <- feed[st]

FeedsOrReruns ==
  \/ Rerun /\ \A st \in Stream : Feeding(st)!FeedInit'
  \/ \A st \in Stream : [Feeding(st)!FeedNext]_(feed[st])

(* Started, Merged and so on of one stream, seen as a step of its feed.     *)
LEMMA OneFeedSteps ==
  ASSUME Inv, NEW t \in Stream, NEW f, feed' = [feed EXCEPT ![t] = f],
         \/ Counting(feed[t]) /\ f \in {Failed(feed[t]), Started(feed[t])}
         \/ \E s \in FeedSegment, r \in {"ok", "lost"} :
              MayReport(feed[t], s) /\ f = Reported(feed[t], s, r)
         \/ MayEnd(feed[t]) /\ f = Ended(feed[t])
         \/ MayMerge(feed[t]) /\ f = Merged(feed[t])
  PROVE  \A st \in Stream : [Feeding(st)!FeedNext]_(feed[st])
<1> TAKE st \in Stream
<1>1. feed \in [Stream -> Feed]
  BY DEF Inv, TypeOK
<1>2. CASE st # t
  BY <1>1, <1>2
<1>3. CASE st = t
  <2>1. feed'[st] = f
    BY <1>1, <1>3
  <2>2. Feeding(st)!FeedNext
    BY <1>3, <2>1
    DEF Feeding!FeedNext, Feeding!Counting, Feeding!Failed, Feeding!Started,
        Feeding!FeedSegment, Feeding!MayReport, Feeding!Reported, Feeding!MayEnd,
        Feeding!Ended, Feeding!MayMerge, Feeding!Merged,
        Counting, Failed, Started, FeedSegment, MayReport, Reported, MayEnd, Ended,
        MayMerge, Merged
  <2> QED
    BY <2>2
<1> QED
  BY <1>2, <1>3

LEMMA FeedsStay ==
  ASSUME UNCHANGED feed
  PROVE  \A st \in Stream : [Feeding(st)!FeedNext]_(feed[st])
  OBVIOUS

LEMMA StepFeeds == Inv /\ [Next]_vars => [FeedsOrReruns]_vars
<1> SUFFICES ASSUME Inv, Next PROVE FeedsOrReruns
  OBVIOUS
<1>1. ASSUME NEW t \in Stream, DownloadStep(t) PROVE FeedsOrReruns
  <2>1. CASE StartDownload(t)
    BY <2>1, OneFeedSteps DEF StartDownload, FeedsOrReruns
  <2>2. CASE CountFails(t)
    BY <2>2, OneFeedSteps DEF CountFails, FeedsOrReruns
  <2>3. ASSUME NEW s \in FeedSegment, NEW r \in {"ok", "lost"}, Download(t, s, r)
        PROVE  FeedsOrReruns
    BY <2>3, OneFeedSteps DEF Download, FeedsOrReruns
  <2>4. CASE EndDownload(t)
    BY <2>4, OneFeedSteps DEF EndDownload, FeedsOrReruns
  <2>5. ASSUME NEW s \in FeedSegment, FeedResult(t, s) PROVE FeedsOrReruns
    <3> DEFINE r == json.results[t][s + 1].outcome
    <3>1. s + 1 \in 1 .. Len(json.results[t])
      BY <2>5, SegmentNumbers DEF FeedResult, Inv, TypeOK
    <3>2. json.results[t] \in Seq(Result)
      BY DEF Inv, TypeOK
    <3>3. r \in {"ok", "lost"}
      <4> DEFINE q == json.results[t]
      <4>1. q[s + 1] \in Result
        <5>1. s + 1 \in 1 .. Len(q) /\ q \in Seq(Result)
          BY <3>1, <3>2
        <5> HIDE DEF q
        <5> QED
          BY <5>1
      <4> QED
        BY <4>1 DEF Result
    <3>4. MayReport(feed[t], s) /\ feed' = [feed EXCEPT ![t] = Reported(feed[t], s, r)]
      BY <2>5 DEF FeedResult
    <3> QED
      BY <3>3, <3>4, OneFeedSteps DEF FeedsOrReruns
  <2> QED
    BY <1>1, <2>1, <2>2, <2>3, <2>4, <2>5 DEF DownloadStep
<1>2. ASSUME NEW t \in Stream, MergeStep(t) PROVE FeedsOrReruns
  <2>1. CASE NextToMerge(t)
    BY <2>1, OneFeedSteps DEF NextToMerge, FeedsOrReruns
  <2>2. CASE UNCHANGED feed
    BY <2>2, FeedsStay DEF FeedsOrReruns
  <2> QED
    BY <1>2, <2>1, <2>2
    DEF MergeStep, BeginMerge, Count, SkipLost, CopySegment, CopyFails, RememberResult,
        EndMerge
<1>3. CASE MuxStep
  <2>1. UNCHANGED feed
    BY <1>3
    DEF MuxStep, StartFfmpeg, OpenInput, FfmpegSucceeds, FfmpegFails, RemoveMerged,
        DeleteSegments, WriteJson
  <2> QED
    BY <2>1, FeedsStay DEF FeedsOrReruns
<1>4. CASE MainStep
  <2>1. CASE StartMerge
    <3> SUFFICES ASSUME NEW t \in Stream PROVE [Feeding(t)!FeedNext]_(feed[t])
      BY DEF FeedsOrReruns
    <3>1. feed[t] = NewFeed
      BY <2>1 DEF StartMerge, Inv, Muxing
    <3>2. Counting(feed[t])
      BY <3>1 DEF NewFeed, Counting
    <3>3. feed'[t] = Started(feed[t])
      BY <2>1 DEF StartMerge
    <3> QED
      BY <3>2, <3>3
      DEF Feeding!FeedNext, Feeding!Counting, Feeding!Started, Counting, Started
  <2>2. CASE UNCHANGED feed
    BY <2>2, FeedsStay DEF FeedsOrReruns
  <2> QED
    BY <1>4, <2>1, <2>2
    DEF MainStep, RefuseLeftovers, Start, RefuseMerge, WaitDownloads, Succeed,
        ExitWithError
<1>5. CASE Killed \/ Terminated
  <2>1. UNCHANGED feed
    BY <1>5 DEF Killed, Terminated, vars
  <2> QED
    BY <2>1, FeedsStay DEF FeedsOrReruns
<1>6. CASE Rerun
  BY <1>6
  DEF Rerun, NewProcess, FeedsOrReruns, Feeding!FeedInit, Feeding!NewFeed,
      Feeding!FeedSegment, NewFeed, FeedSegment
<1> QED
  BY <1>1, <1>2, <1>3, <1>4, <1>5, <1>6 DEF Next

(* What Muxer makes of its streams is what a download and its merger may    *)
(* do, in every run: both tasks, and the feeders of --merge, with the       *)
(* mergers at their side, begin as StreamFeed and take its steps.           *)
THEOREM StreamsAreFeeds ==
  Spec => (\A st \in Stream : Feeding(st)!FeedInit) /\ [][FeedsOrReruns]_vars
<1>1. Init => \A st \in Stream : Feeding(st)!FeedInit
  BY DEF Init, Feeding!FeedInit, Feeding!NewFeed, Feeding!FeedSegment, NewFeed,
         FeedSegment
<1> QED
  BY <1>1, Invariant, StepFeeds, PTL DEF Spec
=============================================================================
