----------------------------- MODULE StreamFeed -----------------------------
(***************************************************************************)
(* A download task as its merger sees it: after the number of segments is  *)
(* known, every segment is reported once, in any order, as downloaded or   *)
(* lost; the merger gets them in order; and the task returns when all were *)
(* reported, whether or not the merger has got them.                       *)
(*                                                                         *)
(* DownloadTask, with its threads, queues and retries, implements this;    *)
(* Muxer takes its two streams from it.                                    *)
(***************************************************************************)
EXTENDS Feeds

VARIABLE feed

FeedInit == feed = NewFeed

FeedNext ==
  \/ Counting(feed) /\ feed' \in {Failed(feed), Started(feed)}
  \/ \E s \in FeedSegment, r \in {"ok", "lost"} :
       MayReport(feed, s) /\ feed' = Reported(feed, s, r)
  \/ MayEnd(feed) /\ feed' = Ended(feed)
  \/ MayMerge(feed) /\ feed' = Merged(feed)

FeedSpec == FeedInit /\ [][FeedNext]_feed
=============================================================================
