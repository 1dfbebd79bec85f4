------------------------------ MODULE MCLoops ------------------------------
(* Small instances for TLC of the two loops of the program that work on     *)
(* data alone: FormatTemplate's, and makeBatchedScheduler's on every split  *)
(* of up to 24 segments among up to 8 workers.                              *)
EXTENDS BatchSplit, Template

SmallSegmentCounts == 0 .. 24
SmallThreadCounts == 1 .. 8

K(word) == <<"%(", word, ")s">>

(* In a directory, the default without the date, a key twice, in another    *)
(* case and inside another, an unknown one, an erased one.                  *)
SomeTemplates ==
  {<<"x", "/">> \o K("title"), K("title") \o K("id"), K("title") \o K("title") \o K("id"),
   K("TITLE") \o K("title"), <<"%(">> \o K("title") \o <<")s">>, K("title") \o K("x"),
   K("description") \o <<"/">> \o K("id")}

Texts ==
  UNION {[1 .. n -> {"%(", ")s", "/", "x", "id"}] : n \in 0 .. 2}
    \cup {K("title"), K("TITLE"), K("id"), K("x"), <<"/">> \o K("id"), K("description")}

(* What the owner of a channel may choose, and what not. *)
SomeValues ==
  {[k \in {"title", "id", "description"} |->
      CASE k = "title" -> title [] k = "id" -> id [] k = "description" -> description] :
     title \in Texts, id \in {<<"x">>, K("title")},
     description \in {<<"/", "x">>, K("title") \o K("description")}}

LowerCase == [w \in Word |-> IF w = "TITLE" THEN "title" ELSE w]

(* The program makes the name of its output first and its schedulers later. *)
(* One of the loops runs on all its arguments, the other on one.            *)
OneName == given = <<"x", "/">> \o K("title") /\ \A k \in Key : formatVals[k] \in {<<"x">>, <<"/", "x">>}
OneSplit == segments = 1 /\ threads = 1

LoopsInit == TemplateInit /\ SplitInit /\ (OneName \/ OneSplit)

loopsVars == <<templateVars, splitVars>>

LoopsNext ==
  \/ TemplateNext /\ UNCHANGED splitVars
  \/ result = "ok" /\ SplitNext /\ UNCHANGED templateVars

LoopsSpec ==
  LoopsInit /\ [][LoopsNext]_loopsVars /\ WF_templateVars(TemplateNext /\ UNCHANGED splitVars)
=============================================================================
