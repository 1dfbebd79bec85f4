------------------------------ MODULE MCScreen ------------------------------
(* A small instance of Screen for TLC: an audio and a video thread that     *)
(* both use one Logger, and a merger.                                       *)
EXTENDS Screen

CONSTANTS audio, video, merger, log

Threads == {audio, video, merger}

SomeOps ==
  [g \in Threads |->
     CASE g = audio -> {"audio", log}
       [] g = video -> {"video", log}
       [] g = merger -> {"merge"}]
=============================================================================
