------------------------------ MODULE FileProofs ------------------------------
(* The files of the segments are whole, for any number of segments and runs *)
(* and any lengths, wherever a run is stopped; and the name of the output   *)
(* file keeps the separators of --output and a directory without a key, and *)
(* is the template with each key expanded in its place where the values     *)
(* hold none.                                                               *)
EXTENDS SegmentFiles, Template, FiniteSetTheorems, WellFoundedInduction, TLAPS

(* The first n blocks of the segment with number a in the stream.           *)
Part(a, n) == [i \in 1 .. n |-> a]

(* What the place of a segment's attempt says of its files, whatever was    *)
(* in the directory before.                                                 *)
Kept(s) ==
  /\ pc[s] \in {"requested", "copying", "copied", "synced", "closed", "failed", "lost"}
       => ~FileNotEmpty(s)
  /\ pc[s] = "renamed" \/ (pc[s] = "ok" /\ s \in fetched) => FileNotEmpty(s)
  /\ pc[s] = "copying" => incomplete[s] # NoFile /\ Len(incomplete[s]) >= copied[s]
  /\ pc[s] \in {"copied", "synced", "closed"}
       => incomplete[s] # NoFile /\ incomplete[s] # <<>>
  /\ cuts = 0 /\ s \in fetched => FileNotEmpty(s) /\ pc[s] # "renamed"

(* What the files of a segment hold if nothing was there to spoil them.     *)
Whole(s) ==
  /\ done[s] \in {NoFile, Body(Number(s))}
  /\ incomplete[s] = NoFile
       \/ \E n \in 0 .. Length[Number(s)] : incomplete[s] = Part(Number(s), n)
  /\ pc[s] \in {"copied", "synced", "closed"} => incomplete[s] = Body(Number(s))

(* With --fsync in all runs, what was renamed is on the disk.               *)
OnDisk(s) ==
  ~relaxed => /\ fsync
              /\ done[s] # NoFile => s \in synced
              /\ pc[s] \in {"synced", "closed"} => s \in synced

Good(s) == Kept(s) /\ (Trusted => Whole(s) /\ OnDisk(s))

Inv == TypeOK /\ \A s \in Segment : Good(s)

----------------------------------------------------------------------------
(* Contents *)

LEMMA Numbers ==
  ASSUME TypeOK, NEW s \in Segment
  PROVE  Number(s) \in Absolute /\ Number(s) \in Nat /\ Length[Number(s)] \in Nat \ {0}
<1>1. Number(s) \in Absolute /\ Number(s) \in Nat
  BY SegmentsAssumption, StartsAssumption DEF TypeOK, Number, Absolute, Segment
<1> QED
  BY <1>1, LengthAssumption

LEMMA NoContent == NoFile \notin Content /\ <<>> \in Content
<1>1. -1 \notin Absolute
  BY SegmentsAssumption, StartsAssumption DEF Absolute, Segment
<1>2. ASSUME <<-1>> \in Seq(Absolute) PROVE FALSE
  <2>1. Len(<<-1>>) = 1 /\ <<-1>>[1] = -1
    OBVIOUS
  <2>2. <<-1>>[1] \in Absolute
    BY <1>2, <2>1
  <2> QED
    BY <1>1, <2>1, <2>2
<1> QED
  BY <1>2 DEF NoFile, Content

LEMMA PartContent ==
  ASSUME NEW a \in Absolute, NEW n \in Nat
  PROVE  /\ Part(a, n) \in Content /\ Len(Part(a, n)) = n
         /\ n # 0 => Part(a, n) # <<>>
         /\ Part(a, n) # NoFile
<1>1. Part(a, n) \in Seq(Absolute)
  BY DEF Part
<1>2. Len(Part(a, n)) = n
  BY DEF Part
<1>3. n # 0 => Part(a, n) # <<>>
  <2>1. Len(<<>>) = 0
    OBVIOUS
  <2> QED
    BY <1>2, <2>1
<1> QED
  BY <1>1, <1>2, <1>3, NoContent DEF Content

LEMMA BodyPart ==
  ASSUME NEW a \in Absolute
  PROVE  Body(a) = Part(a, Length[a]) /\ Body(a) # <<>> /\ Body(a) # NoFile
<1>1. Body(a) = Part(a, Length[a]) /\ Length[a] \in Nat /\ Length[a] # 0
  BY LengthAssumption DEF Body, Part
<1> QED
  BY <1>1, PartContent

(* What io.Copy has written is a content, with at least n blocks. *)
LEMMA WrittenContent ==
  ASSUME NEW content \in Content, NEW n \in Nat \ {0}, n =< Len(content) + 1, NEW a \in Absolute
  PROVE  /\ Written(content, n, a) \in Content
         /\ Len(Written(content, n, a)) >= n
<1>1. PICK m \in Nat : m = IF n > Len(content) THEN n ELSE Len(content)
  BY DEF Content
<1>2. Written(content, n, a) = [i \in 1 .. m |-> IF i = n THEN a ELSE content[i]]
  BY <1>1 DEF Written
<1>3. \A i \in 1 .. m : (IF i = n THEN a ELSE content[i]) \in Absolute
  BY <1>1 DEF Content
<1>4. [i \in 1 .. m |-> IF i = n THEN a ELSE content[i]] \in Seq(Absolute)
  BY <1>3
<1>5. Len([i \in 1 .. m |-> IF i = n THEN a ELSE content[i]]) = m
  OBVIOUS
<1>6. m >= n
  BY <1>1 DEF Content
<1> QED
  BY <1>2, <1>4, <1>5, <1>6 DEF Content

(* A block written to a part of a segment leaves a part. *)
LEMMA WrittenPart ==
  ASSUME NEW a \in Absolute, NEW k \in Nat, NEW n \in Nat \ {0}, n =< k + 1,
         NEW top \in Nat, k =< top, n =< top
  PROVE  \E m \in 0 .. top : Written(Part(a, k), n, a) = Part(a, m)
<1>1. PICK m \in 0 .. top : m = IF n > k THEN n ELSE k
  OBVIOUS
<1>2. Written(Part(a, k), n, a) = [i \in 1 .. m |-> IF i = n THEN a ELSE Part(a, k)[i]]
  BY <1>1, PartContent DEF Written
<1>3. \A i \in 1 .. m : (IF i = n THEN a ELSE Part(a, k)[i]) = a
  BY <1>1 DEF Part
<1>4. Written(Part(a, k), n, a) = Part(a, m)
  BY <1>2, <1>3 DEF Part
<1> QED
  BY <1>4

(* What is left of a content, or of a part, after a power cut. *)
LEMMA RemainsContent ==
  ASSUME NEW content \in Content \cup {NoFile}
  PROVE  Remains(content) \subseteq Content \cup {NoFile}
<1>1. CASE content = NoFile
  BY <1>1 DEF Remains
<1>2. CASE content \in Content /\ content # NoFile
  <2>1. ASSUME NEW n \in 0 .. Len(content) PROVE SubSeq(content, 1, n) \in Content
    BY <1>2 DEF Content
  <2> QED
    BY <1>2, <2>1 DEF Remains
<1> QED
  BY <1>1, <1>2, NoContent

LEMMA RemainsPart ==
  ASSUME NEW a \in Absolute, NEW k \in Nat, NEW rest \in Remains(Part(a, k))
  PROVE  \E n \in 0 .. k : rest = Part(a, n)
<1>1. PICK n \in 0 .. k : rest = SubSeq(Part(a, k), 1, n)
  BY PartContent DEF Remains
<1>2. SubSeq(Part(a, k), 1, n) = Part(a, n)
  <2>1. Part(a, k) \in Seq(Absolute) /\ Len(Part(a, k)) = k
    BY PartContent DEF Content
  <2>2. SubSeq(Part(a, k), 1, n) = [i \in 1 .. n |-> Part(a, k)[i]]
    BY <2>1
  <2>3. \A i \in 1 .. n : Part(a, k)[i] = a
    BY DEF Part
  <2> QED
    BY <2>2, <2>3 DEF Part
<1> QED
  BY <1>1, <1>2

----------------------------------------------------------------------------
(* The invariant in the initial states, and where nothing changes *)

LEMMA InitInv == Init => Inv
<1> SUFFICES ASSUME Init PROVE Inv
  OBVIOUS
<1>1. TypeOK
  <2>1. runs \in 1 .. MaxRuns /\ cuts \in Nat
    BY MaxRunsAssumption DEF Init
  <2>2. /\ pc \in [Segment -> Attempting \cup {"new", "failed", "ok", "lost"}]
        /\ \A s \in Segment : pc[s] = "copying" => copied[s] =< Length[Number(s)]
    BY DEF Init
  <2>3. relaxed \in BOOLEAN /\ moved \in BOOLEAN
    BY DEF Init
  <2> QED
    BY <2>1, <2>2, <2>3 DEF Init, TypeOK
<1>2. ASSUME NEW s \in Segment PROVE Good(s)
  <2>1. done[s] = NoFile /\ incomplete[s] = NoFile /\ pc[s] = "new" /\ s \notin fetched
    BY DEF Init
  <2>2. relaxed = ~fsync
    BY DEF Init
  <2>3. Kept(s)
    BY <2>1 DEF Kept
  <2>4. Whole(s) /\ OnDisk(s)
    BY <2>1, <2>2 DEF Whole, OnDisk
  <2> QED
    BY <2>3, <2>4 DEF Good
<1> QED
  BY <1>1, <1>2 DEF Inv

LEMMA Untouched ==
  ASSUME NEW v \in Segment, Good(v), UNCHANGED runVars,
         incomplete'[v] = incomplete[v], done'[v] = done[v], pc'[v] = pc[v],
         copied'[v] = copied[v], v \in synced' <=> v \in synced,
         v \in fetched' <=> v \in fetched
  PROVE  Good(v)'
<1>1. UNCHANGED <<startSegment, fsync, runs, cuts, relaxed, moved>>
  BY DEF runVars
<1>2. Kept(v)'
  BY <1>1 DEF Good, Kept, FileNotEmpty
<1>3. Trusted' <=> Trusted
  BY <1>1 DEF Trusted
<1>4. ASSUME Trusted PROVE Whole(v)' /\ OnDisk(v)'
  <2>1. Number(v)' = Number(v)
    BY <1>1 DEF Number
  <2>2. Whole(v) /\ OnDisk(v)
    BY <1>4 DEF Good
  <2>3. Whole(v)'
    BY <2>1, <2>2 DEF Whole, Body, Part
  <2>4. OnDisk(v)'
    BY <1>1, <2>2 DEF OnDisk
  <2> QED
    BY <2>3, <2>4
<1> QED
  BY <1>2, <1>3, <1>4 DEF Good

(* A step of segment s.                                                     *)
LEMMA OneSegment ==
  ASSUME Inv, TypeOK', NEW s \in Segment, Good(s)', UNCHANGED runVars,
         \A v \in Segment : v # s =>
           /\ incomplete'[v] = incomplete[v] /\ done'[v] = done[v] /\ pc'[v] = pc[v]
           /\ copied'[v] = copied[v] /\ (v \in synced' <=> v \in synced)
           /\ (v \in fetched' <=> v \in fetched)
  PROVE  Inv'
<1> SUFFICES ASSUME NEW v \in Segment PROVE Good(v)'
  BY DEF Inv
<1>1. CASE v = s
  BY <1>1
<1>2. CASE v # s
  <2>1. Good(v)
    BY DEF Inv
  <2> QED
    BY <1>2, <2>1, Untouched
<1> QED
  BY <1>1, <1>2

(* A step of segment s that leaves the files alone.                         *)
LEMMA FilesStay ==
  ASSUME Inv, NEW s \in Segment, NEW place, Goes(s, place),
         place \in {"requested", "copied", "closed", "failed", "ok", "lost"},
         UNCHANGED <<runVars, fileVars, copied>>,
         fetched' \in {fetched, fetched \cup {s}}, Good(s)'
  PROVE  Inv'
<1>1. /\ UNCHANGED <<startSegment, fsync, runs, cuts, relaxed, moved>>
      /\ UNCHANGED <<incomplete, done, synced, renamed, copied>>
  BY DEF runVars, fileVars
<1>2. \A v \in Segment : pc'[v] = IF v = s THEN place ELSE pc[v]
  BY DEF Goes, Inv, TypeOK
<1>3. TypeOK'
  <2>1. pc' \in [Segment -> Attempting \cup {"new", "failed", "ok", "lost"}]
    BY DEF Goes, Inv, TypeOK, Attempting
  <2>2. \A v \in Segment : pc'[v] = "copying" => copied'[v] =< Length[Number(v)']
    BY <1>1, <1>2 DEF Inv, TypeOK, Number
  <2>3. fetched' \subseteq Segment
    BY DEF Inv, TypeOK
  <2> QED
    BY <1>1, <2>1, <2>2, <2>3 DEF Inv, TypeOK
<1> QED
  BY <1>1, <1>2, <1>3, OneSegment

----------------------------------------------------------------------------
(* The steps that leave the files alone *)

(* The facts about segment s before its step.                               *)
LEMMA Before ==
  ASSUME Inv, NEW s \in Segment
  PROVE  /\ Kept(s) /\ (Trusted => Whole(s) /\ OnDisk(s))
         /\ Number(s) \in Absolute /\ Length[Number(s)] \in Nat \ {0}
  BY Numbers DEF Inv, Good

(* The files are as good as they were if they are as they were.             *)
LEMMA SameFiles ==
  ASSUME Inv, NEW s \in Segment, pc'[s] \notin {"copied", "synced", "closed"},
         UNCHANGED <<startSegment, fsync, cuts, relaxed, moved, incomplete, done, synced>>
  PROVE  Trusted' => Whole(s)' /\ OnDisk(s)'
<1> SUFFICES ASSUME Trusted PROVE Whole(s)' /\ OnDisk(s)'
  BY DEF Trusted
<1>1. Whole(s) /\ OnDisk(s)
  BY Before
<1>2. Number(s)' = Number(s)
  BY DEF Number
<1>3. Whole(s)'
  BY <1>1, <1>2 DEF Whole
<1>4. OnDisk(s)'
  BY <1>1 DEF OnDisk
<1> QED
  BY <1>3, <1>4

LEMMA CachedStep == ASSUME Inv, NEW s \in Segment, Cached(s) PROVE Inv'
<1>1. /\ pc'[s] = "ok" /\ FileNotEmpty(s) /\ Goes(s, "ok")
      /\ UNCHANGED <<runVars, fileVars, copied>> /\ fetched' = fetched \cup {s}
  BY DEF Cached, Goes, Inv, TypeOK
<1>2. UNCHANGED <<startSegment, fsync, cuts, relaxed, moved, incomplete, done, synced>>
  BY <1>1 DEF runVars, fileVars
<1>3. Kept(s)'
  BY <1>1, <1>2 DEF Kept, FileNotEmpty
<1>4. Trusted' => Whole(s)' /\ OnDisk(s)'
  BY <1>1, <1>2, SameFiles
<1> QED
  BY <1>1, <1>3, <1>4, FilesStay DEF Good

LEMMA RequestStep == ASSUME Inv, NEW s \in Segment, Request(s) PROVE Inv'
<1>1. /\ pc'[s] = "requested" /\ ~FileNotEmpty(s) /\ Goes(s, "requested")
      /\ UNCHANGED <<runVars, fileVars, copied>> /\ fetched' = fetched
  BY DEF Request, Goes, Inv, TypeOK
<1>2. UNCHANGED <<startSegment, fsync, cuts, relaxed, moved, incomplete, done, synced>>
  BY <1>1 DEF runVars, fileVars
<1>3. Kept(s)'
  BY <1>1, <1>2, Before DEF Kept, FileNotEmpty
<1>4. Trusted' => Whole(s)' /\ OnDisk(s)'
  BY <1>1, <1>2, SameFiles
<1> QED
  BY <1>1, <1>3, <1>4, FilesStay DEF Good

LEMMA FailsStep == ASSUME Inv, NEW s \in Segment, RequestFails(s) PROVE Inv'
<1>1. /\ pc[s] = "requested" /\ pc'[s] = "failed" /\ Goes(s, "failed")
      /\ UNCHANGED <<runVars, fileVars, copied>> /\ fetched' = fetched
  BY DEF RequestFails, Goes, Inv, TypeOK
<1>2. UNCHANGED <<startSegment, fsync, cuts, relaxed, moved, incomplete, done, synced>>
  BY <1>1 DEF runVars, fileVars
<1>3. Kept(s)'
  BY <1>1, <1>2, Before DEF Kept, FileNotEmpty
<1>4. Trusted' => Whole(s)' /\ OnDisk(s)'
  BY <1>1, <1>2, SameFiles
<1> QED
  BY <1>1, <1>3, <1>4, FilesStay DEF Good

LEMMA GiveUpStep == ASSUME Inv, NEW s \in Segment, GiveUp(s) PROVE Inv'
<1>1. /\ pc[s] = "failed" /\ pc'[s] = "lost" /\ Goes(s, "lost")
      /\ UNCHANGED <<runVars, fileVars, copied>> /\ fetched' = fetched
  BY DEF GiveUp, Goes, Inv, TypeOK
<1>2. UNCHANGED <<startSegment, fsync, cuts, relaxed, moved, incomplete, done, synced>>
  BY <1>1 DEF runVars, fileVars
<1>3. Kept(s)'
  BY <1>1, <1>2, Before DEF Kept, FileNotEmpty
<1>4. Trusted' => Whole(s)' /\ OnDisk(s)'
  BY <1>1, <1>2, SameFiles
<1> QED
  BY <1>1, <1>3, <1>4, FilesStay DEF Good

(* The whole answer was written over a part that may have been there: the   *)
(* file has at least the blocks of the segment, and no others.              *)
LEMMA CopyEndsStep == ASSUME Inv, NEW s \in Segment, CopyEnds(s) PROVE Inv'
<1>1. /\ pc[s] = "copying" /\ pc'[s] = "copied" /\ Goes(s, "copied")
      /\ copied[s] = Length[Number(s)]
      /\ UNCHANGED <<runVars, fileVars, copied>> /\ fetched' = fetched
  BY DEF CopyEnds, Goes, Inv, TypeOK
<1>2. UNCHANGED <<startSegment, fsync, cuts, relaxed, moved, incomplete, done, synced>>
  BY <1>1 DEF runVars, fileVars
<1>3. PICK k \in Nat \ {0} : k = Length[Number(s)]
  BY Before
<1>4. incomplete[s] # NoFile /\ Len(incomplete[s]) >= k
  BY <1>1, <1>3, Before DEF Kept
<1>5. incomplete[s] # <<>>
  <2>1. Len(<<>>) = 0
    OBVIOUS
  <2>2. ASSUME incomplete[s] = <<>> PROVE Len(incomplete[s]) = 0
    BY <2>1, <2>2
  <2> QED
    BY <1>4, <2>2
<1>6. Kept(s)'
  BY <1>1, <1>2, <1>4, <1>5, Before DEF Kept, FileNotEmpty
<1>7. Trusted' => Whole(s)' /\ OnDisk(s)'
  <2> SUFFICES ASSUME Trusted PROVE Whole(s)' /\ OnDisk(s)'
    BY <1>2 DEF Trusted
  <2>1. Whole(s) /\ OnDisk(s) /\ Number(s) \in Absolute
    BY Before
  <2>2. PICK n \in 0 .. k : incomplete[s] = Part(Number(s), n)
    BY <1>3, <1>4, <2>1 DEF Whole
  <2>3. n = k
    <3>1. Len(Part(Number(s), n)) = n
      BY <2>1, PartContent
    <3>2. Len(Part(Number(s), n)) >= k
      BY <1>4, <2>2
    <3> QED
      BY <3>1, <3>2
  <2>4. incomplete[s] = Body(Number(s))
    BY <1>3, <2>1, <2>2, <2>3, BodyPart
  <2>5. Whole(s)'
    BY <1>1, <1>2, <2>1, <2>4 DEF Whole, Number, Body, Part
  <2>6. OnDisk(s)'
    BY <1>1, <1>2, <2>1 DEF OnDisk
  <2> QED
    BY <2>5, <2>6
<1> QED
  BY <1>1, <1>6, <1>7, FilesStay DEF Good

LEMMA CloseStep == ASSUME Inv, NEW s \in Segment, Close(s) PROVE Inv'
<1>1. /\ pc[s] = IF fsync THEN "synced" ELSE "copied"
      /\ pc'[s] = "closed" /\ Goes(s, "closed")
      /\ UNCHANGED <<runVars, fileVars, copied>> /\ fetched' = fetched
  BY DEF Close, Goes, Inv, TypeOK
<1>2. UNCHANGED <<startSegment, fsync, cuts, relaxed, moved, incomplete, done, synced>>
  BY <1>1 DEF runVars, fileVars
<1>3. Kept(s)'
  BY <1>1, <1>2, Before DEF Kept, FileNotEmpty
<1>4. Trusted' => Whole(s)' /\ OnDisk(s)'
  <2> SUFFICES ASSUME Trusted PROVE Whole(s)' /\ OnDisk(s)'
    BY <1>2 DEF Trusted
  <2>1. Whole(s) /\ OnDisk(s)
    BY Before
  <2>2. Number(s)' = Number(s)
    BY <1>2 DEF Number
  <2>3. Whole(s)'
    BY <1>1, <1>2, <2>1, <2>2 DEF Whole
  <2>4. OnDisk(s)'
    BY <1>1, <1>2, <2>1 DEF OnDisk
  <2> QED
    BY <2>3, <2>4
<1> QED
  BY <1>1, <1>3, <1>4, FilesStay DEF Good

LEMMA ReportStep == ASSUME Inv, NEW s \in Segment, Report(s) PROVE Inv'
<1>1. /\ pc[s] = "renamed" /\ pc'[s] = "ok" /\ Goes(s, "ok")
      /\ UNCHANGED <<runVars, fileVars, copied>> /\ fetched' = fetched \cup {s}
  BY DEF Report, Goes, Inv, TypeOK
<1>2. UNCHANGED <<startSegment, fsync, cuts, relaxed, moved, incomplete, done, synced>>
  BY <1>1 DEF runVars, fileVars
<1>3. Kept(s)'
  BY <1>1, <1>2, Before DEF Kept, FileNotEmpty
<1>4. Trusted' => Whole(s)' /\ OnDisk(s)'
  BY <1>1, <1>2, SameFiles
<1> QED
  BY <1>1, <1>3, <1>4, FilesStay DEF Good

(* A file that is deleted takes its report along.                           *)
LEMMA DeleteStep == ASSUME Inv, NEW s \in Segment, Delete(s) PROVE Inv'
<1>1. /\ pc[s] = "ok" /\ pc' = pc
      /\ done' = [done EXCEPT ![s] = NoFile] /\ renamed' = renamed \ {s}
      /\ fetched' = fetched \ {s}
      /\ UNCHANGED <<incomplete, synced, copied>> /\ UNCHANGED runVars
  BY DEF Delete
<1>2. UNCHANGED <<startSegment, fsync, runs, cuts, relaxed, moved>>
  BY <1>1 DEF runVars
<1>3. done'[s] = NoFile /\ \A v \in Segment : v # s => done'[v] = done[v]
  BY <1>1 DEF Inv, TypeOK
<1>4. TypeOK'
  <2>1. done' \in [Segment -> Content \cup {NoFile}]
    BY <1>1 DEF Inv, TypeOK
  <2> QED
    BY <1>1, <1>2, <2>1 DEF Inv, TypeOK, Number
<1>5. Kept(s)'
  BY <1>1, <1>2, <1>3, Before DEF Kept, FileNotEmpty
<1>6. Trusted' => Whole(s)' /\ OnDisk(s)'
  <2> SUFFICES ASSUME Trusted PROVE Whole(s)' /\ OnDisk(s)'
    BY <1>2 DEF Trusted
  <2>1. Whole(s) /\ OnDisk(s)
    BY Before
  <2>2. Number(s)' = Number(s)
    BY <1>2 DEF Number
  <2>3. Whole(s)'
    BY <1>1, <1>3, <2>1, <2>2 DEF Whole
  <2>4. OnDisk(s)'
    BY <1>1, <1>2, <1>3, <2>1 DEF OnDisk
  <2> QED
    BY <2>3, <2>4
<1>7. Good(s)'
  BY <1>5, <1>6 DEF Good
<1>8. \A v \in Segment : v # s =>
        /\ incomplete'[v] = incomplete[v] /\ done'[v] = done[v] /\ pc'[v] = pc[v]
        /\ copied'[v] = copied[v] /\ (v \in synced' <=> v \in synced)
        /\ (v \in fetched' <=> v \in fetched)
  BY <1>1, <1>3
<1> HIDE DEF Inv, Good, TypeOK
<1> QED
  BY <1>1, <1>4, <1>7, <1>8, OneSegment

----------------------------------------------------------------------------
(* The steps that write the files *)

LEMMA OpenStep == ASSUME Inv, NEW s \in Segment, OpenFile(s) PROVE Inv'
<1>1. /\ pc[s] = "requested" /\ pc'[s] = "copying" /\ copied'[s] = 0
      /\ incomplete'[s] = IF incomplete[s] = NoFile THEN <<>> ELSE incomplete[s]
      /\ UNCHANGED <<startSegment, fsync, runs, cuts, relaxed, moved>>
      /\ UNCHANGED <<done, synced, renamed, fetched>>
  BY DEF OpenFile, Goes, Inv, TypeOK, runVars
<1>2. incomplete'[s] \in Content
  BY <1>1, NoContent DEF Inv, TypeOK
<1>3. TypeOK'
  <2>1. incomplete' \in [Segment -> Content \cup {NoFile}]
    BY NoContent DEF OpenFile, Inv, TypeOK
  <2>2. pc' \in [Segment -> Attempting \cup {"new", "failed", "ok", "lost"}]
    BY DEF OpenFile, Goes, Inv, TypeOK, Attempting
  <2>3. copied' \in [Segment -> Nat]
    BY DEF OpenFile, Inv, TypeOK
  <2>4. ASSUME NEW v \in Segment, pc'[v] = "copying"
        PROVE  copied'[v] =< Length[Number(v)']
    <3>1. Number(v)' = Number(v)
      BY <1>1 DEF Number
    <3>2. CASE v = s
      <4>1. Length[Number(s)] \in Nat
        BY Before
      <4> QED
        BY <1>1, <3>1, <3>2, <4>1
    <3>3. CASE v # s
      BY <2>4, <3>1, <3>3 DEF OpenFile, Goes, Inv, TypeOK
    <3> QED
      BY <3>2, <3>3
  <2> QED
    BY <1>1, <2>1, <2>2, <2>3, <2>4 DEF Inv, TypeOK
<1>4. Kept(s)'
  <2>1. incomplete'[s] # NoFile /\ Len(incomplete'[s]) >= 0
    BY <1>2, NoContent DEF Content
  <2> QED
    BY <1>1, <2>1, Before DEF Kept, FileNotEmpty
<1>5. Trusted' => Whole(s)' /\ OnDisk(s)'
  <2> SUFFICES ASSUME Trusted PROVE Whole(s)' /\ OnDisk(s)'
    BY <1>1 DEF Trusted
  <2>1. Whole(s) /\ OnDisk(s) /\ Number(s) \in Absolute /\ Length[Number(s)] \in Nat
    BY Before
  <2>2. Part(Number(s), 0) = <<>>
    BY DEF Part
  <2>3. \E n \in 0 .. Length[Number(s)] : incomplete'[s] = Part(Number(s), n)
    BY <1>1, <2>1, <2>2 DEF Whole
  <2>4. Whole(s)'
    <3>1. Number(s)' = Number(s)
      BY <1>1 DEF Number
    <3>2. pc'[s] \notin {"copied", "synced", "closed"} /\ done'[s] = done[s]
      BY <1>1
    <3> QED
      BY <2>1, <2>3, <3>1, <3>2 DEF Whole
  <2>5. OnDisk(s)'
    BY <1>1, <2>1 DEF OnDisk
  <2> QED
    BY <2>4, <2>5
<1>6. \A v \in Segment : v # s =>
        /\ incomplete'[v] = incomplete[v] /\ pc'[v] = pc[v] /\ copied'[v] = copied[v]
  BY DEF OpenFile, Goes, Inv, TypeOK
<1>7. Good(s)'
  BY <1>4, <1>5 DEF Good
<1> QED
  BY <1>1, <1>3, <1>6, <1>7, OneSegment DEF runVars

LEMMA CopyStep == ASSUME Inv, NEW s \in Segment, CopyBlock(s) PROVE Inv'
<1>a. PICK k \in Nat : k = copied[s]
  BY DEF Inv, TypeOK
<1>b. PICK a \in Absolute : a = Number(s)
  BY Before
<1>c. PICK top \in Nat \ {0} : top = Length[a]
  BY <1>b, Before
<1>1. /\ pc[s] = "copying" /\ pc' = pc /\ copied'[s] = k + 1
      /\ incomplete'[s] = Written(incomplete[s], k + 1, a)
      /\ synced' = synced \ {s}
      /\ UNCHANGED <<startSegment, fsync, runs, cuts, relaxed, moved>>
      /\ UNCHANGED <<done, renamed, fetched>>
  BY <1>a, <1>b DEF CopyBlock, Inv, TypeOK, runVars
<1>2. k < top
  BY <1>a, <1>b, <1>c DEF CopyBlock
<1>3. PICK old \in Content : old = incomplete[s] /\ Len(old) >= k
  BY <1>1, <1>a, Before DEF Kept, Inv, TypeOK
<1>4. /\ incomplete'[s] \in Content /\ Len(incomplete'[s]) >= k + 1
      /\ incomplete'[s] # NoFile
  <2>1. Len(old) \in Nat /\ k + 1 \in Nat \ {0} /\ k + 1 =< Len(old) + 1
    BY <1>3 DEF Content
  <2>2. Written(old, k + 1, a) \in Content /\ Len(Written(old, k + 1, a)) >= k + 1
    BY <2>1, WrittenContent
  <2>3. incomplete'[s] = Written(old, k + 1, a)
    BY <1>1, <1>3
  <2> QED
    BY <2>2, <2>3, NoContent
<1>5. TypeOK'
  <2>1. incomplete' \in [Segment -> Content \cup {NoFile}]
    BY <1>4 DEF CopyBlock, Inv, TypeOK
  <2>2. copied' \in [Segment -> Nat]
    <3>1. copied[s] + 1 \in Nat
      BY <1>a
    <3> QED
      BY <3>1 DEF CopyBlock, Inv, TypeOK
  <2>3. ASSUME NEW v \in Segment, pc'[v] = "copying"
        PROVE  copied'[v] =< Length[Number(v)']
    <3>1. Number(v)' = Number(v)
      BY <1>1 DEF Number
    <3>2. CASE v = s
      <4>1. k + 1 =< top
        BY <1>2
      <4> QED
        BY <1>1, <1>b, <1>c, <3>1, <3>2, <4>1
    <3>3. CASE v # s
      BY <1>1, <2>3, <3>1, <3>3 DEF CopyBlock, Inv, TypeOK
    <3> QED
      BY <3>2, <3>3
  <2>4. synced' \subseteq Segment
    BY <1>1 DEF Inv, TypeOK
  <2> QED
    BY <1>1, <2>1, <2>2, <2>3, <2>4 DEF Inv, TypeOK
<1>6. Kept(s)'
  BY <1>1, <1>4, Before DEF Kept, FileNotEmpty
<1>7. Trusted' => Whole(s)' /\ OnDisk(s)'
  <2> SUFFICES ASSUME Trusted PROVE Whole(s)' /\ OnDisk(s)'
    BY <1>1 DEF Trusted
  <2>1. Whole(s) /\ OnDisk(s) /\ ~FileNotEmpty(s)
    BY <1>1, Before DEF Kept
  <2>2. PICK m \in 0 .. top : old = Part(a, m)
    BY <1>1, <1>3, <1>b, <1>c, <2>1, Before DEF Whole, Kept
  <2>3. m >= k
    <3>1. Len(Part(a, m)) = m
      BY PartContent
    <3>2. Len(Part(a, m)) >= k
      BY <1>3, <2>2
    <3> QED
      BY <3>1, <3>2
  <2>4. \E n \in 0 .. top : Written(Part(a, m), k + 1, a) = Part(a, n)
    <3>1. m \in Nat /\ k + 1 \in Nat \ {0} /\ k + 1 =< m + 1 /\ m =< top /\ k + 1 =< top
      BY <1>2, <2>3
    <3> QED
      BY <3>1, WrittenPart
  <2>5. \E n \in 0 .. top : incomplete'[s] = Part(a, n)
    BY <1>1, <1>3, <2>2, <2>4
  <2>6. Number(s)' = a
    BY <1>1, <1>b DEF Number
  <2>7. Whole(s)'
    BY <1>1, <1>b, <1>c, <2>1, <2>5, <2>6 DEF Whole, Body, Part
  <2>8. done[s] = NoFile
    BY <1>b, <2>1, BodyPart DEF Whole, FileNotEmpty
  <2>9. OnDisk(s)'
    BY <1>1, <2>1, <2>8 DEF OnDisk
  <2> QED
    BY <2>7, <2>9
<1>8. \A v \in Segment : v # s =>
        /\ incomplete'[v] = incomplete[v] /\ copied'[v] = copied[v]
        /\ (v \in synced' <=> v \in synced)
  BY <1>1 DEF CopyBlock, Inv, TypeOK
<1>9. Good(s)'
  BY <1>6, <1>7 DEF Good
<1> QED
  BY <1>1, <1>5, <1>8, <1>9, OneSegment DEF runVars

LEMMA SyncStep == ASSUME Inv, NEW s \in Segment, Sync(s) PROVE Inv'
<1>1. /\ pc[s] = "copied" /\ pc'[s] = "synced" /\ fsync /\ synced' = synced \cup {s}
      /\ UNCHANGED <<startSegment, fsync, runs, cuts, relaxed, moved>>
      /\ UNCHANGED <<incomplete, done, renamed, copied, fetched>>
  BY DEF Sync, Goes, Inv, TypeOK, runVars
<1>2. \A v \in Segment : pc'[v] = IF v = s THEN "synced" ELSE pc[v]
  BY DEF Sync, Goes, Inv, TypeOK
<1>3. TypeOK'
  <2>1. pc' \in [Segment -> Attempting \cup {"new", "failed", "ok", "lost"}]
    BY DEF Sync, Goes, Inv, TypeOK, Attempting
  <2>2. \A v \in Segment : pc'[v] = "copying" => copied'[v] =< Length[Number(v)']
    BY <1>1, <1>2 DEF Inv, TypeOK, Number
  <2>3. synced' \subseteq Segment
    BY <1>1 DEF Inv, TypeOK
  <2> QED
    BY <1>1, <2>1, <2>2, <2>3 DEF Inv, TypeOK
<1>4. Kept(s)'
  BY <1>1, Before DEF Kept, FileNotEmpty
<1>5. Trusted' => Whole(s)' /\ OnDisk(s)'
  <2> SUFFICES ASSUME Trusted PROVE Whole(s)' /\ OnDisk(s)'
    BY <1>1 DEF Trusted
  <2>1. Whole(s) /\ OnDisk(s)
    BY Before
  <2>2. Number(s)' = Number(s)
    BY <1>1 DEF Number
  <2>3. Whole(s)'
    BY <1>1, <2>1, <2>2 DEF Whole
  <2>4. OnDisk(s)'
    BY <1>1, <2>1 DEF OnDisk
  <2> QED
    BY <2>3, <2>4
<1>6. Good(s)'
  BY <1>4, <1>5 DEF Good
<1> QED
  BY <1>1, <1>2, <1>3, <1>6, OneSegment DEF runVars

LEMMA RenameStep == ASSUME Inv, NEW s \in Segment, Rename(s) PROVE Inv'
<1>1. /\ pc[s] = "closed" /\ pc'[s] = "renamed"
      /\ done'[s] = incomplete[s] /\ incomplete'[s] = NoFile
      /\ renamed' = renamed \cup {s}
      /\ UNCHANGED <<startSegment, fsync, runs, cuts, relaxed, moved>>
      /\ UNCHANGED <<synced, copied, fetched>>
  BY DEF Rename, Goes, Inv, TypeOK, runVars
<1>2. \A v \in Segment : v # s =>
        incomplete'[v] = incomplete[v] /\ done'[v] = done[v] /\ pc'[v] = pc[v]
  BY DEF Rename, Goes, Inv, TypeOK
<1>3. TypeOK'
  <2>1. /\ incomplete' \in [Segment -> Content \cup {NoFile}]
        /\ done' \in [Segment -> Content \cup {NoFile}]
    BY DEF Rename, Inv, TypeOK
  <2>2. pc' \in [Segment -> Attempting \cup {"new", "failed", "ok", "lost"}]
    BY DEF Rename, Goes, Inv, TypeOK, Attempting
  <2>3. \A v \in Segment : pc'[v] = "copying" => copied'[v] =< Length[Number(v)']
    BY <1>1, <1>2 DEF Inv, TypeOK, Number
  <2>4. renamed' \subseteq Segment
    BY <1>1 DEF Inv, TypeOK
  <2> QED
    BY <1>1, <2>1, <2>2, <2>3, <2>4 DEF Inv, TypeOK
<1>4. Kept(s)'
  BY <1>1, Before DEF Kept, FileNotEmpty
<1>5. Trusted' => Whole(s)' /\ OnDisk(s)'
  <2> SUFFICES ASSUME Trusted PROVE Whole(s)' /\ OnDisk(s)'
    BY <1>1 DEF Trusted
  <2>1. Whole(s) /\ OnDisk(s)
    BY Before
  <2>2. Number(s)' = Number(s)
    BY <1>1 DEF Number
  <2>3. Whole(s)'
    BY <1>1, <2>1, <2>2 DEF Whole
  <2>4. OnDisk(s)'
    BY <1>1, <2>1 DEF OnDisk
  <2> QED
    BY <2>3, <2>4
<1>6. Good(s)'
  BY <1>4, <1>5 DEF Good
<1> QED
  BY <1>1, <1>2, <1>3, <1>6, OneSegment DEF runVars

LEMMA WriteFailsStep == ASSUME Inv, NEW s \in Segment, WriteFails(s) PROVE Inv'
<1>1. /\ pc[s] \in {"copying", "copied", "synced", "closed"} /\ pc'[s] = "failed"
      /\ incomplete'[s] = incomplete[s] \/ incomplete'[s] = NoFile
      /\ UNCHANGED <<startSegment, fsync, runs, cuts, relaxed, moved>>
      /\ UNCHANGED <<done, synced, renamed, copied, fetched>>
  BY DEF WriteFails, Goes, Inv, TypeOK, runVars
<1>2. \A v \in Segment : v # s => incomplete'[v] = incomplete[v] /\ pc'[v] = pc[v]
  BY DEF WriteFails, Goes, Inv, TypeOK
<1>3. TypeOK'
  <2>1. incomplete' \in [Segment -> Content \cup {NoFile}]
    BY DEF WriteFails, Inv, TypeOK
  <2>2. pc' \in [Segment -> Attempting \cup {"new", "failed", "ok", "lost"}]
    BY DEF WriteFails, Goes, Inv, TypeOK, Attempting
  <2>3. \A v \in Segment : pc'[v] = "copying" => copied'[v] =< Length[Number(v)']
    BY <1>1, <1>2 DEF Inv, TypeOK, Number
  <2> QED
    BY <1>1, <2>1, <2>2, <2>3 DEF Inv, TypeOK
<1>4. Kept(s)'
  BY <1>1, Before DEF Kept, FileNotEmpty
<1>5. Trusted' => Whole(s)' /\ OnDisk(s)'
  <2> SUFFICES ASSUME Trusted PROVE Whole(s)' /\ OnDisk(s)'
    BY <1>1 DEF Trusted
  <2>1. Whole(s) /\ OnDisk(s)
    BY Before
  <2>2. Number(s)' = Number(s)
    BY <1>1 DEF Number
  <2>3. CASE incomplete'[s] = NoFile
    BY <1>1, <2>1, <2>2, <2>3 DEF Whole, OnDisk
  <2>4. CASE incomplete'[s] = incomplete[s]
    BY <1>1, <2>1, <2>2, <2>4 DEF Whole, OnDisk
  <2> QED
    BY <1>1, <2>3, <2>4
<1>6. Good(s)'
  BY <1>4, <1>5 DEF Good
<1> QED
  BY <1>1, <1>2, <1>3, <1>6, OneSegment DEF runVars

----------------------------------------------------------------------------
(* The end of a run *)

(* The files a power cut may leave of segment s. *)
LEMMA CutFiles ==
  ASSUME NEW s \in Segment, NEW f \in AfterCut(s)
  PROVE  \E i \in Remains(incomplete[s]) \cup {incomplete[s]},
            d \in Remains(done[s]) \cup {done[s]} :
           /\ f = <<i, d>> \/ f = <<d, NoFile>>
           /\ s \in synced => i = incomplete[s] /\ d = done[s]
<1> DEFINE kept == IF s \in synced THEN {<<incomplete[s], done[s]>>}
                   ELSE {<<i, d>> : i \in Remains(incomplete[s]), d \in Remains(done[s])}
<1>1. f \in kept \cup (IF s \in renamed THEN {<<k[2], NoFile>> : k \in kept} ELSE {})
  BY DEF AfterCut
<1>2. PICK k \in kept : f = k \/ f = <<k[2], NoFile>>
  BY <1>1
<1>3. \E i \in Remains(incomplete[s]) \cup {incomplete[s]},
        d \in Remains(done[s]) \cup {done[s]} :
          k = <<i, d>> /\ (s \in synced => i = incomplete[s] /\ d = done[s])
  BY <1>2
<1> HIDE DEF kept
<1> QED
  BY <1>2, <1>3

LEMMA KilledStep == ASSUME Inv, Killed PROVE Inv'
<1>1. /\ runs' = runs + 1 /\ runs < MaxRuns /\ startSegment' \in Starts /\ fsync' \in BOOLEAN
      /\ relaxed' = (relaxed \/ ~fsync')
      /\ moved' = (moved \/ startSegment' # startSegment)
      /\ pc' = [s \in Segment |-> "new"] /\ copied' = [s \in Segment |-> 0]
      /\ UNCHANGED <<incomplete, done, synced, renamed, cuts, fetched>>
  BY DEF Killed, Rerun, fileVars
<1>2. TypeOK'
  <2>1. runs' \in 1 .. MaxRuns
    BY <1>1, MaxRunsAssumption DEF Inv, TypeOK
  <2>2. relaxed' \in BOOLEAN /\ moved' \in BOOLEAN
    BY <1>1
  <2>3. \A s \in Segment : pc'[s] = "copying" => copied'[s] =< Length[Number(s)']
    BY <1>1
  <2>4. /\ pc' \in [Segment -> Attempting \cup {"new", "failed", "ok", "lost"}]
        /\ copied' \in [Segment -> Nat]
    BY <1>1
  <2> QED
    BY <1>1, <2>1, <2>2, <2>3, <2>4 DEF Inv, TypeOK
<1>3. ASSUME NEW s \in Segment PROVE Good(s)'
  <2>1. Kept(s)'
    BY <1>1, Before DEF Kept, FileNotEmpty
  <2>2. ASSUME Trusted' PROVE Whole(s)' /\ OnDisk(s)'
    <3>1. Trusted /\ startSegment' = startSegment
      BY <1>1, <2>2 DEF Trusted
    <3>2. Number(s)' = Number(s) /\ pc'[s] = "new"
      BY <1>1, <3>1 DEF Number
    <3>3. Whole(s) /\ OnDisk(s)
      BY <3>1, Before
    <3>4. Whole(s)'
      BY <1>1, <3>2, <3>3 DEF Whole
    <3>5. OnDisk(s)'
      BY <1>1, <3>2, <3>3 DEF OnDisk
    <3> QED
      BY <3>4, <3>5
  <2> QED
    BY <2>1, <2>2 DEF Good
<1> QED
  BY <1>2, <1>3 DEF Inv

LEMMA PowerCutStep == ASSUME Inv, PowerCut PROVE Inv'
<1>1. /\ runs' = runs + 1 /\ runs < MaxRuns /\ startSegment' \in Starts /\ fsync' \in BOOLEAN
      /\ relaxed' = (relaxed \/ ~fsync')
      /\ moved' = (moved \/ startSegment' # startSegment)
      /\ pc' = [s \in Segment |-> "new"] /\ copied' = [s \in Segment |-> 0]
      /\ cuts' = cuts + 1 /\ synced' = Segment /\ renamed' = {} /\ fetched' = fetched
  BY DEF PowerCut, Rerun
<1>2. PICK files : /\ \A s \in Segment : files[s] \in AfterCut(s)
                   /\ incomplete' = [s \in Segment |-> files[s][1]]
                   /\ done' = [s \in Segment |-> files[s][2]]
  BY DEF PowerCut
<1>3. cuts' \in Nat /\ cuts' > 0
  BY <1>1 DEF Inv, TypeOK
<1>4. ASSUME NEW s \in Segment
      PROVE  \E i \in Remains(incomplete[s]) \cup {incomplete[s]},
                d \in Remains(done[s]) \cup {done[s]} :
               /\ \/ incomplete'[s] = i /\ done'[s] = d
                  \/ incomplete'[s] = d /\ done'[s] = NoFile
               /\ s \in synced => i = incomplete[s] /\ d = done[s]
  <2>1. incomplete'[s] = files[s][1] /\ done'[s] = files[s][2] /\ files[s] \in AfterCut(s)
    BY <1>2
  <2>2. PICK i \in Remains(incomplete[s]) \cup {incomplete[s]},
             d \in Remains(done[s]) \cup {done[s]} :
          /\ files[s] = <<i, d>> \/ files[s] = <<d, NoFile>>
          /\ s \in synced => i = incomplete[s] /\ d = done[s]
    BY <2>1, CutFiles
  <2>3. \/ incomplete'[s] = i /\ done'[s] = d
        \/ incomplete'[s] = d /\ done'[s] = NoFile
    BY <2>1, <2>2
  <2> QED
    BY <2>2, <2>3
<1>5. TypeOK'
  <2>1. ASSUME NEW s \in Segment
        PROVE  incomplete'[s] \in Content \cup {NoFile} /\ done'[s] \in Content \cup {NoFile}
    <3>1. incomplete[s] \in Content \cup {NoFile} /\ done[s] \in Content \cup {NoFile}
      BY DEF Inv, TypeOK
    <3>2. /\ Remains(incomplete[s]) \subseteq Content \cup {NoFile}
          /\ Remains(done[s]) \subseteq Content \cup {NoFile}
      BY <3>1, RemainsContent
    <3> QED
      BY <1>4, <3>1, <3>2
  <2>2. /\ incomplete' \in [Segment -> Content \cup {NoFile}]
        /\ done' \in [Segment -> Content \cup {NoFile}]
    BY <1>2, <2>1
  <2>3. runs' \in 1 .. MaxRuns
    BY <1>1, MaxRunsAssumption DEF Inv, TypeOK
  <2>4. relaxed' \in BOOLEAN /\ moved' \in BOOLEAN
    BY <1>1
  <2>5. /\ \A s \in Segment : pc'[s] = "copying" => copied'[s] =< Length[Number(s)']
        /\ pc' \in [Segment -> Attempting \cup {"new", "failed", "ok", "lost"}]
        /\ copied' \in [Segment -> Nat]
    BY <1>1
  <2> QED
    BY <1>1, <1>3, <2>2, <2>3, <2>4, <2>5 DEF Inv, TypeOK
<1>6. ASSUME NEW s \in Segment PROVE Good(s)'
  <2>1. Kept(s)'
    BY <1>1, <1>3 DEF Kept
  <2>2. ASSUME Trusted' PROVE Whole(s)' /\ OnDisk(s)'
    <3>1. Trusted /\ ~relaxed /\ ~relaxed' /\ fsync' /\ startSegment' = startSegment
      BY <1>1, <1>3, <2>2 DEF Trusted
    <3>2. Number(s)' = Number(s) /\ pc'[s] = "new" /\ s \in synced'
      BY <1>1, <3>1 DEF Number
    <3>3. Whole(s) /\ (done[s] # NoFile => s \in synced)
      BY <3>1, Before DEF OnDisk
    <3>4. PICK a \in Absolute : a = Number(s)
      BY Before
    <3>5. PICK top \in Nat \ {0} : top = Length[a]
      BY <3>4, Before
    <3>6. PICK i \in Remains(incomplete[s]) \cup {incomplete[s]},
               d \in Remains(done[s]) \cup {done[s]} :
            /\ \/ incomplete'[s] = i /\ done'[s] = d
               \/ incomplete'[s] = d /\ done'[s] = NoFile
            /\ s \in synced => i = incomplete[s] /\ d = done[s]
      BY <1>4
    <3>7. d \in {NoFile, Body(a)}
      <4>1. CASE s \in synced
        BY <3>3, <3>4, <3>6, <4>1 DEF Whole
      <4>2. CASE s \notin synced
        BY <3>3, <3>6, <4>2 DEF Remains
      <4> QED
        BY <4>1, <4>2
    <3>8. i = NoFile \/ \E n \in 0 .. top : i = Part(a, n)
      <4>1. CASE incomplete[s] = NoFile
        BY <3>6, <4>1 DEF Remains
      <4>2. CASE incomplete[s] # NoFile
        <5>1. PICK k \in 0 .. top : incomplete[s] = Part(a, k)
          BY <3>3, <3>4, <3>5, <4>2 DEF Whole
        <5>2. CASE i = incomplete[s]
          BY <5>1, <5>2
        <5>3. CASE i \in Remains(Part(a, k))
          <6>1. PICK n \in 0 .. k : i = Part(a, n)
            BY <5>3, RemainsPart
          <6>2. n \in 0 .. top
            OBVIOUS
          <6> QED
            BY <6>1, <6>2
        <5> QED
          BY <3>6, <5>1, <5>2, <5>3
      <4> QED
        BY <4>1, <4>2
    <3>9. d = NoFile \/ \E n \in 0 .. top : d = Part(a, n)
      <4>1. Body(a) = Part(a, top) /\ top \in 0 .. top
        BY <3>5, BodyPart
      <4> QED
        BY <3>7, <4>1
    <3>10. incomplete'[s] = NoFile \/ \E n \in 0 .. top : incomplete'[s] = Part(a, n)
      <4>1. CASE incomplete'[s] = i
        BY <3>8, <4>1
      <4>2. CASE incomplete'[s] = d
        BY <3>9, <4>2
      <4> QED
        BY <3>6, <4>1, <4>2
    <3>11. done'[s] \in {NoFile, Body(a)}
      BY <3>6, <3>7
    <3>12. Whole(s)'
      BY <3>2, <3>4, <3>5, <3>10, <3>11 DEF Whole
    <3>13. OnDisk(s)'
      BY <3>1, <3>2 DEF OnDisk
    <3> QED
      BY <3>12, <3>13
  <2> QED
    BY <2>1, <2>2 DEF Good
<1> QED
  BY <1>5, <1>6 DEF Inv

----------------------------------------------------------------------------
(* The theorems *)

(* Every step preserves the invariant. *)
LEMMA StepInv == Inv /\ [Next]_vars => Inv'
<1> SUFFICES ASSUME Inv, [Next]_vars PROVE Inv'
  OBVIOUS
<1>1. ASSUME NEW s \in Segment,
             \/ Cached(s) \/ Request(s) \/ RequestFails(s) \/ OpenFile(s)
             \/ CopyBlock(s) \/ CopyEnds(s) \/ Sync(s) \/ Close(s) \/ Rename(s)
             \/ WriteFails(s) \/ Report(s) \/ GiveUp(s) \/ Delete(s)
      PROVE  Inv'
  BY <1>1, CachedStep, RequestStep, FailsStep, OpenStep, CopyStep, CopyEndsStep, SyncStep,
     CloseStep, RenameStep, WriteFailsStep, ReportStep, GiveUpStep, DeleteStep
<1>2. CASE UNCHANGED vars
  <2>1. TypeOK'
    BY <1>2 DEF Inv, TypeOK, Number, vars, runVars, fileVars
  <2>2. ASSUME NEW s \in Segment PROVE Good(s)'
    <3>1. /\ UNCHANGED runVars
          /\ UNCHANGED <<incomplete, done, synced, pc, copied, fetched>>
      BY <1>2 DEF vars, fileVars
    <3>2. Good(s)
      BY DEF Inv
    <3> QED
      BY <3>1, <3>2, Untouched
  <2> QED
    BY <2>1, <2>2 DEF Inv
<1> QED
  BY <1>1, <1>2, KilledStep, PowerCutStep DEF Next

(* The inductive invariant of the files: the place of an attempt tells what *)
(* is in them.                                                              *)
THEOREM Invariant == Spec => []Inv
  BY InitInv, StepInv, PTL DEF Spec

(* Type correctness of the segment files. *)
THEOREM TypeCorrect == Spec => []TypeOK
<1>1. Inv => TypeOK
  BY DEF Inv
<1> QED
  BY <1>1, Invariant, PTL

(* A .done file is the whole segment and nothing else.                      *)
THEOREM WholeSegments == Spec => []OwnSegment
<1>1. ASSUME Inv PROVE OwnSegment
  <2> SUFFICES ASSUME Trusted, NEW s \in Segment
               PROVE  /\ done[s] \in {NoFile, Body(Number(s))}
                      /\ pc[s] = "renamed" \/ (pc[s] = "ok" /\ s \in fetched)
                           => done[s] = Body(Number(s))
    BY DEF OwnSegment
  <2> QED
    BY <1>1, Before DEF Kept, Whole, FileNotEmpty
<1> QED
  BY <1>1, Invariant, PTL

(* What a run has reported, and nobody has deleted, is not asked for again. *)
THEOREM FetchedOnce == Spec => []Reuses
<1>1. ASSUME Inv PROVE Reuses
  <2> SUFFICES ASSUME cuts = 0, NEW s \in fetched PROVE pc[s] \in {"new", "ok"}
    BY DEF Reuses
  <2>1. s \in Segment /\ pc[s] \in Attempting \cup {"new", "failed", "ok", "lost"}
    BY <1>1 DEF Inv, TypeOK
  <2>2. Kept(s)
    BY <1>1, <2>1, Before
  <2> QED
    BY <2>1, <2>2 DEF Kept, Attempting
<1> QED
  BY <1>1, Invariant, PTL

(* A .done file is not written to while the machine runs, nor deleted       *)
(* before it is reported.                                                   *)
THEOREM DoneFilesStay == Spec => DoneStays
<1>1. ASSUME Inv, [Next]_vars
      PROVE  [cuts' = cuts =>
                \A s \in Segment : FileNotEmpty(s) =>
                  done'[s] = done[s] \/ (done'[s] = NoFile /\ pc[s] = "ok")]_vars
  <2> SUFFICES ASSUME cuts' = cuts, NEW s \in Segment, FileNotEmpty(s), Next
               PROVE  done'[s] = done[s] \/ (done'[s] = NoFile /\ pc[s] = "ok")
    BY <1>1
  <2>1. CASE PowerCut
    BY <1>1, <2>1 DEF PowerCut, Inv, TypeOK
  <2>2. CASE Killed
    BY <2>2 DEF Killed, fileVars
  <2>3. ASSUME NEW v \in Segment, Rename(v) PROVE done'[s] = done[s]
    <3>1. pc[v] = "closed" /\ ~FileNotEmpty(v)
      BY <1>1, <2>3, Before DEF Rename, Kept
    <3>2. v # s
      BY <3>1
    <3> QED
      BY <1>1, <2>3, <3>2 DEF Rename, Inv, TypeOK
  <2>4. ASSUME NEW v \in Segment,
               \/ Cached(v) \/ Request(v) \/ RequestFails(v) \/ OpenFile(v)
               \/ CopyBlock(v) \/ CopyEnds(v) \/ Sync(v) \/ Close(v)
               \/ WriteFails(v) \/ Report(v) \/ GiveUp(v)
        PROVE  done' = done
    BY <2>4 DEF Cached, Request, RequestFails, OpenFile, CopyBlock, CopyEnds, Sync, Close,
                WriteFails, Report, GiveUp, fileVars
  <2>5. ASSUME NEW v \in Segment, Delete(v)
        PROVE  done'[s] = done[s] \/ (done'[s] = NoFile /\ pc[s] = "ok")
    BY <1>1, <2>5 DEF Delete, Inv, TypeOK
  <2> QED
    BY <2>1, <2>2, <2>3, <2>4, <2>5 DEF Next
<1> QED
  BY <1>1, Invariant, PTL DEF Spec, DoneStays

-----------------------------------------------------------------------------
(* The name of the output file *)

(* Induction, for a property given as the set of the numbers that have it.  *)
LEMMA NatSetInduction ==
  ASSUME NEW S, 0 \in S, \A n \in Nat : n \in S => n + 1 \in S
  PROVE  \A n \in Nat : n \in S
<1> SUFFICES ASSUME Nat \ S # {} PROVE FALSE
  OBVIOUS
<1>1. PICK m \in Nat \ S : \A k \in Nat \ S : ~ (<<k, m>> \in OpToRel(<, Nat))
  BY NatLessThanWellFounded, WFMin
<1>2. \A k \in Nat \ S : ~ (k < m)
  BY <1>1 DEF OpToRel
<1>3. m \in Nat /\ m \notin S /\ m # 0
  OBVIOUS
<1>4. m - 1 \in Nat /\ m - 1 < m
  BY <1>3
<1>5. m - 1 \in S
  BY <1>2, <1>4
<1>6. (m - 1) + 1 \in S
  BY <1>4, <1>5
<1>7. (m - 1) + 1 = m
  BY <1>3
<1> QED
  BY <1>3, <1>6, <1>7

(* A set of numbers with something in it has a smallest one.                *)
LEMMA Smallest ==
  ASSUME NEW S, S # {}, S \subseteq Nat
  PROVE  \E m \in S : \A k \in S : m =< k
<1>1. PICK m \in S : \A k \in S : ~ (<<k, m>> \in OpToRel(<, Nat))
  BY NatLessThanWellFounded, WFMin
<1>2. \A k \in S : ~ (k < m)
  BY <1>1 DEF OpToRel
<1> QED
  BY <1>2

----------------------------------------------------------------------------
(* FlattenSeq *)

(* The recursive function in FlattenSeq exists: it has a value at every     *)
(* index, of the type of the sequences.                                     *)
Unrolls(f, q, n) ==
  \A i \in 1 .. n : f[i] = IF i = 1 THEN q[i] ELSE f[i - 1] \o q[i]

LEMMA Unrolled ==
  ASSUME NEW S, NEW n \in Nat, NEW q \in [1 .. n -> Seq(S)]
  PROVE  \E f \in [1 .. n -> Seq(S)] : Unrolls(f, q, n)
<1> DEFINE Reached(m) == m =< n => \E f \in [1 .. m -> Seq(S)] : Unrolls(f, q, m)
           R == {m \in Nat : Reached(m)}
<1>1. 0 \in R
  <2>1. [i \in 1 .. 0 |-> <<>>] \in [1 .. 0 -> Seq(S)]
    OBVIOUS
  <2>2. Unrolls([i \in 1 .. 0 |-> <<>>], q, 0)
    BY DEF Unrolls
  <2> QED
    BY <2>1, <2>2
<1>2. ASSUME NEW m \in Nat, m \in R PROVE m + 1 \in R
  <2> SUFFICES ASSUME m + 1 =< n
               PROVE  \E f \in [1 .. m + 1 -> Seq(S)] : Unrolls(f, q, m + 1)
    OBVIOUS
  <2>1. PICK f \in [1 .. m -> Seq(S)] : Unrolls(f, q, m)
    BY <1>2
  <2> DEFINE last == IF m = 0 THEN q[1] ELSE f[m] \o q[m + 1]
             g == [i \in 1 .. m + 1 |-> IF i = m + 1 THEN last ELSE f[i]]
  <2>2. last \in Seq(S)
    OBVIOUS
  <2>3. g \in [1 .. m + 1 -> Seq(S)]
    BY <2>2
  <2>4. ASSUME NEW i \in 1 .. m + 1
        PROVE  g[i] = IF i = 1 THEN q[i] ELSE g[i - 1] \o q[i]
    <3>1. CASE i = m + 1
      BY <3>1
    <3>2. CASE i # m + 1
      <4>1. i \in 1 .. m /\ (i # 1 => i - 1 \in 1 .. m)
        BY <3>2
      <4>2. f[i] = IF i = 1 THEN q[i] ELSE f[i - 1] \o q[i]
        BY <2>1, <4>1 DEF Unrolls
      <4>3. g[i] = f[i] /\ (i # 1 => g[i - 1] = f[i - 1])
        BY <3>2, <4>1
      <4> QED
        BY <4>2, <4>3
    <3> QED
      BY <3>1, <3>2
  <2> QED
    BY <2>3, <2>4 DEF Unrolls
<1> HIDE DEF R
<1>3. \A m \in Nat : m \in R
  BY <1>1, <1>2, NatSetInduction
<1> USE DEF R
<1> QED
  BY <1>3

LEMMA Flattened ==
  ASSUME NEW S, NEW n \in Nat \ {0}, NEW q \in [1 .. n -> Seq(S)]
  PROVE  \E f \in [1 .. n -> Seq(S)] : Unrolls(f, q, n) /\ FlattenSeq(q) = f[n]
<1> DEFINE Fixed(f) == f = [i \in 1 .. n |-> IF i = 1 THEN q[i] ELSE f[i - 1] \o q[i]]
           F == CHOOSE f : Fixed(f)
<1>1. Len(q) = n
  OBVIOUS
<1>2. \E f : Fixed(f)
  <2>1. PICK f \in [1 .. n -> Seq(S)] : Unrolls(f, q, n)
    BY Unrolled
  <2>2. f = [i \in 1 .. n |-> f[i]]
    OBVIOUS
  <2>3. Fixed(f)
    BY <2>1, <2>2 DEF Unrolls
  <2> QED
    BY <2>3
<1>3. Fixed(F)
  BY <1>2
<1>4. FlattenSeq(q) = F[n]
  BY <1>1 DEF FlattenSeq
<1> HIDE DEF F
<1>5. F = [i \in 1 .. n |-> IF i = 1 THEN q[i] ELSE F[i - 1] \o q[i]]
  BY <1>3
<1>6. Unrolls(F, q, n)
  BY <1>5 DEF Unrolls
<1> DEFINE R == {m \in Nat : m + 1 =< n => F[m + 1] \in Seq(S)}
<1>7. 0 \in R
  BY <1>6 DEF Unrolls
<1>8. ASSUME NEW m \in Nat, m \in R PROVE m + 1 \in R
  <2> SUFFICES ASSUME (m + 1) + 1 =< n PROVE F[(m + 1) + 1] \in Seq(S)
    OBVIOUS
  <2>1. F[m + 1] \in Seq(S)
    BY <1>8
  <2>2. F[(m + 1) + 1] = F[m + 1] \o q[(m + 1) + 1]
    <3>1. (m + 1) + 1 \in 1 .. n /\ (m + 1) + 1 # 1 /\ ((m + 1) + 1) - 1 = m + 1
      OBVIOUS
    <3> QED
      BY <1>6, <3>1 DEF Unrolls
  <2> QED
    BY <2>1, <2>2
<1> HIDE DEF R
<1>9. \A m \in Nat : m \in R
  BY <1>7, <1>8, NatSetInduction
<1> USE DEF R
<1>10. ASSUME NEW i \in 1 .. n PROVE F[i] \in Seq(S)
  <2>1. i - 1 \in Nat /\ (i - 1) + 1 = i
    OBVIOUS
  <2>2. i - 1 \in R
    BY <1>9, <2>1
  <2>3. (i - 1) + 1 =< n => F[(i - 1) + 1] \in Seq(S)
    BY <2>2
  <2> QED
    BY <2>1, <2>3
<1>11. F \in [1 .. n -> Seq(S)]
  <2>1. F = [i \in 1 .. n |-> F[i]]
    BY <1>5
  <2> QED
    BY <1>10, <2>1
<1> QED
  BY <1>4, <1>6, <1>11

----------------------------------------------------------------------------
(* Where the separators are *)

SlashesIn(text) == {i \in DOMAIN text : text[i] = "/"}

LEMMA SlashesFinite ==
  ASSUME NEW text \in Seq(Token)
  PROVE  IsFiniteSet(SlashesIn(text)) /\ Slashes(text) = Cardinality(SlashesIn(text))
<1>1. Len(text) \in Nat /\ DOMAIN text = 1 .. Len(text)
  OBVIOUS
<1>2. IsFiniteSet(1 .. Len(text))
  BY <1>1, FS_Interval
<1>3. SlashesIn(text) \subseteq 1 .. Len(text)
  BY <1>1 DEF SlashesIn
<1> QED
  BY <1>2, <1>3, FS_Subset DEF Slashes, SlashesIn

(* Text without a separator adds none, and a token adds one if it is one.   *)
LEMMA AddedText ==
  ASSUME NEW a \in Seq(Token), NEW b \in Seq(Token), \A i \in DOMAIN b : b[i] # "/"
  PROVE  SlashesIn(a \o b) = SlashesIn(a)
<1>1. /\ DOMAIN (a \o b) = 1 .. Len(a) + Len(b) /\ DOMAIN a = 1 .. Len(a)
      /\ DOMAIN b = 1 .. Len(b) /\ Len(a) \in Nat /\ Len(b) \in Nat
  OBVIOUS
<1>2. ASSUME NEW i \in 1 .. Len(a) + Len(b)
      PROVE  /\ i =< Len(a) => (a \o b)[i] = a[i]
             /\ i > Len(a) => (a \o b)[i] = b[i - Len(a)] /\ i - Len(a) \in 1 .. Len(b)
  BY <1>1
<1>3. ASSUME NEW i \in SlashesIn(a \o b) PROVE i \in SlashesIn(a)
  <2>1. i \in 1 .. Len(a) + Len(b) /\ (a \o b)[i] = "/"
    BY <1>1 DEF SlashesIn
  <2>2. i =< Len(a)
    BY <1>1, <1>2, <2>1
  <2>3. i \in 1 .. Len(a) /\ a[i] = "/"
    BY <1>1, <1>2, <2>1, <2>2
  <2> QED
    BY <1>1, <2>3 DEF SlashesIn
<1>4. ASSUME NEW i \in SlashesIn(a) PROVE i \in SlashesIn(a \o b)
  <2>1. i \in 1 .. Len(a) /\ a[i] = "/"
    BY <1>1 DEF SlashesIn
  <2>2. i \in 1 .. Len(a) + Len(b) /\ (a \o b)[i] = "/"
    BY <1>1, <1>2, <2>1
  <2> QED
    BY <1>1, <2>2 DEF SlashesIn
<1> QED
  BY <1>3, <1>4

LEMMA AddedToken ==
  ASSUME NEW a \in Seq(Token), NEW t \in Token
  PROVE  SlashesIn(a \o <<t>>) =
           SlashesIn(a) \cup (IF t = "/" THEN {Len(a) + 1} ELSE {})
<1>1. CASE t # "/"
  <2>1. <<t>> \in Seq(Token) /\ \A i \in DOMAIN <<t>> : <<t>>[i] # "/"
    BY <1>1
  <2> QED
    BY <1>1, <2>1, AddedText
<1>2. CASE t = "/"
  <2>1. /\ DOMAIN (a \o <<t>>) = 1 .. Len(a) + 1 /\ DOMAIN a = 1 .. Len(a) /\ Len(a) \in Nat
    OBVIOUS
  <2>2. \A i \in 1 .. Len(a) : (a \o <<t>>)[i] = a[i]
    OBVIOUS
  <2>3. (a \o <<t>>)[Len(a) + 1] = t
    OBVIOUS
  <2>4. ASSUME NEW i
        PROVE  i \in SlashesIn(a \o <<t>>) <=> i \in SlashesIn(a) \/ i = Len(a) + 1
    <3>1. i \in 1 .. Len(a) + 1 <=> i \in 1 .. Len(a) \/ i = Len(a) + 1
      BY <2>1
    <3> QED
      BY <1>2, <2>1, <2>2, <2>3, <3>1 DEF SlashesIn
  <2> QED
    BY <1>2, <2>4
<1> QED
  BY <1>1, <1>2

----------------------------------------------------------------------------
(* A replacement *)

LEMMA FoundMatch ==
  ASSUME TemplateTypeOK, Matches(template) # {}
  PROVE  Match \in Matches(template)
<1> DEFINE S == {m[1] : m \in Matches(template)}
<1>1. S # {} /\ S \subseteq Nat
  BY DEF TemplateTypeOK, Matches
<1>2. PICK x \in S : \A y \in S : x =< y
  BY <1>1, Smallest
<1>3. PICK m \in Matches(template) : m[1] = x
  BY <1>2
<1>4. \A n \in Matches(template) : m[1] =< n[1]
  BY <1>2, <1>3
<1> QED
  BY <1>4 DEF Match

(* What is between the "%(" and the ")s" are words.                         *)
LEMMA FoundWords ==
  ASSUME TemplateTypeOK, Matches(template) # {}
  PROVE  Found \in Seq(Word)
<1>1. PICK a \in 1 .. Len(template), b \in 1 .. Len(template) :
        /\ Match = <<a, b>> /\ a + 1 < b
        /\ \A i \in a + 1 .. b - 1 : template[i] \in Word
  BY FoundMatch DEF Matches
<1>2. Len(template) \in Nat /\ template \in Seq(Token)
  BY DEF TemplateTypeOK
<1>3. Found = SubSeq(template, a + 1, b - 1)
  BY <1>1 DEF Found
<1> DEFINE n == b - a - 1
<1>4. n \in Nat /\ a + 1 \in 1 .. Len(template) /\ b - 1 \in 1 .. Len(template)
  BY <1>1, <1>2
<1>5. Found \in Seq(Token) /\ Len(Found) = n
  BY <1>2, <1>3, <1>4
<1>6. ASSUME NEW i \in 1 .. n PROVE Found[i] \in Word
  <2>1. Found[i] = template[a + i]
    BY <1>2, <1>3, <1>4
  <2>2. a + i \in a + 1 .. b - 1
    BY <1>4
  <2> QED
    BY <1>1, <2>1, <2>2
<1> HIDE DEF n
<1>7. Found = [i \in 1 .. n |-> Found[i]]
  BY <1>5
<1> QED
  BY <1>4, <1>6, <1>7

(* What is replaced holds no separator.                                     *)
LEMMA CoveredTokens ==
  ASSUME TemplateTypeOK, Matches(template) # {}, NEW i \in 1 .. Len(template),
         At(i) \/ Covered(i)
  PROVE  template[i] # "/"
<1> DEFINE L == Len(Found)
<1>1. Found \in Seq(Word) /\ L \in Nat
  BY FoundWords
<1>2. PICK j \in Nat : j >= 1 /\ j =< i /\ i =< j + L + 1 /\ At(j)
  BY <1>1 DEF Covered
<1>3. template \in Seq(Token) /\ Len(template) \in Nat
  BY DEF TemplateTypeOK
<1>4. j + L + 1 =< Len(template)
      /\ SubSeq(template, j, j + L + 1) = <<"%(">> \o Found \o <<")s">>
  BY <1>2 DEF At
<1> DEFINE k == i - j + 1
           key == <<"%(">> \o Found \o <<")s">>
<1>5. k \in 1 .. L + 2
  BY <1>1, <1>2
<1>6. SubSeq(template, j, j + L + 1)[k] = template[i]
  BY <1>1, <1>2, <1>3, <1>4, <1>5
<1>7. key[k] \in Word \cup {"%(", ")s"}
  <2>1. <<"%(">> \in Seq(Word \cup {"%(", ")s"}) /\ <<")s">> \in Seq(Word \cup {"%(", ")s"})
    OBVIOUS
  <2>2. Found \in Seq(Word \cup {"%(", ")s"})
    BY <1>1
  <2>3. key \in Seq(Word \cup {"%(", ")s"}) /\ Len(key) = L + 2
    BY <1>1, <2>1, <2>2
  <2> QED
    BY <1>1, <1>5, <2>3
<1>8. template[i] \in Word \cup {"%(", ")s"}
  BY <1>4, <1>6, <1>7
<1> QED
  BY <1>8, WordAssumption

(* A value is a text, and holds no separator.                               *)
LEMMA ValueText ==
  ASSUME TemplateTypeOK, NEW key \in KeyWord
  PROVE  Value(key) \in Seq(Token) /\ \A i \in DOMAIN Value(key) : Value(key)[i] # "/"
<1>1. CASE Lower[key] \in Erased
  <2>1. Value(key) = <<>>
    BY <1>1 DEF Value
  <2> QED
    BY <2>1
<1>2. CASE Lower[key] \notin Erased
  <2> DEFINE v == formatVals[Lower[key]]
             w == [i \in 1 .. Len(v) |-> IF v[i] = "/" THEN "_" ELSE v[i]]
  <2>1. v \in Seq(Token)
    BY ValuesAssumption DEF TemplateTypeOK, KeyWord
  <2> HIDE DEF v
  <2>2. "_" \in Token /\ "_" # "/"
    BY KeysAssumption DEF Token
  <2>3. w \in Seq(Token) /\ DOMAIN w = 1 .. Len(v) /\ DOMAIN v = 1 .. Len(v)
    <3>1. Len(v) \in Nat /\ DOMAIN v = 1 .. Len(v) /\ \A i \in 1 .. Len(v) : v[i] \in Token
      BY <2>1
    <3>2. w \in [1 .. Len(v) -> Token]
      BY <2>2, <3>1
    <3> HIDE DEF w
    <3>3. w \in Seq(Token)
      BY <3>1, <3>2
    <3> QED
      BY <3>1, <3>2, <3>3
  <2>4. Value(key) = w
    <3>1. Value(key) = sanitizeFilename(v)
      BY <1>2 DEF Value, v
    <3> QED
      BY <2>3, <3>1 DEF sanitizeFilename
  <2>5. \A i \in DOMAIN w : w[i] # "/"
    BY <2>2, <2>3
  <2> HIDE DEF w
  <2> QED
    BY <2>3, <2>4, <2>5
<1> QED
  BY <1>1, <1>2

(* A replacement keeps the number of separators.                            *)
LEMMA ReplacedSlashes ==
  ASSUME TemplateTypeOK, Matches(template) # {}, NEW key \in KeyWord
  PROVE  /\ Replaced(Value(key)) \in Seq(Token)
         /\ Slashes(Replaced(Value(key))) = Slashes(template)
<1> DEFINE n == Len(template)
           v == Value(key)
           q == [i \in 1 .. n |-> IF At(i) THEN v
                                  ELSE IF Covered(i) THEN <<>> ELSE <<template[i]>>]
           pos(m) == {j \in 1 .. m : template[j] = "/"}
<1>1. template \in Seq(Token) /\ n \in Nat
  BY DEF TemplateTypeOK
<1>2. n # 0
  BY <1>1 DEF Matches
<1>3. v \in Seq(Token) /\ \A i \in DOMAIN v : v[i] # "/"
  BY ValueText
<1> HIDE DEF v
<1>4. ASSUME NEW i \in 1 .. n
      PROVE  /\ q[i] \in Seq(Token)
             /\ \/ q[i] = <<template[i]>> /\ template[i] \in Token
                \/ (\A j \in DOMAIN q[i] : q[i][j] # "/") /\ template[i] # "/"
  <2>1. CASE At(i)
    BY <1>3, <2>1, CoveredTokens
  <2>2. CASE ~At(i) /\ Covered(i)
    <3>1. q[i] = <<>> /\ template[i] # "/"
      BY <2>2, CoveredTokens
    <3>2. <<>> \in Seq(Token) /\ \A j \in DOMAIN <<>> : <<>>[j] # "/"
      OBVIOUS
    <3> HIDE DEF q
    <3> QED
      BY <3>1, <3>2
  <2>3. CASE ~At(i) /\ ~Covered(i)
    <3>1. q[i] = <<template[i]>> /\ template[i] \in Token
      BY <1>1, <2>3
    <3> HIDE DEF q
    <3> QED
      BY <3>1
  <2> QED
    BY <2>1, <2>2, <2>3
<1>5. q \in [1 .. n -> Seq(Token)] /\ Replaced(v) = FlattenSeq(q)
  BY <1>4 DEF Replaced
<1> HIDE DEF q
<1>6. PICK f \in [1 .. n -> Seq(Token)] : Unrolls(f, q, n) /\ FlattenSeq(q) = f[n]
  BY <1>1, <1>2, <1>5, Flattened
<1>7. ASSUME NEW i \in 1 .. n
      PROVE  IsFiniteSet(SlashesIn(f[i])) /\ IsFiniteSet(pos(i))
  <2>1. IsFiniteSet(1 .. i)
    BY FS_Interval
  <2> QED
    BY <2>1, FS_Subset, SlashesFinite
<1> DEFINE Same(m) == m + 1 =< n => Cardinality(SlashesIn(f[m + 1])) = Cardinality(pos(m + 1))
           R == {m \in Nat : Same(m)}
(* One more piece: it is the token of the text or has no separator.         *)
<1>8. ASSUME NEW i \in 1 .. n, NEW a \in Seq(Token), NEW p,
             IsFiniteSet(SlashesIn(a)), IsFiniteSet(p),
             Cardinality(SlashesIn(a)) = Cardinality(p),
             p = {j \in 1 .. i - 1 : template[j] = "/"}
      PROVE  Cardinality(SlashesIn(a \o q[i])) = Cardinality(pos(i))
  <2>1. pos(i) = p \cup (IF template[i] = "/" THEN {i} ELSE {})
    BY <1>8
  <2>2. CASE template[i] # "/" /\ \A j \in DOMAIN q[i] : q[i][j] # "/"
    <3>1. SlashesIn(a \o q[i]) = SlashesIn(a)
      BY <1>4, <2>2, AddedText
    <3> QED
      BY <1>8, <2>1, <2>2, <3>1
  <2>3. CASE q[i] = <<template[i]>> /\ template[i] \in Token
    <3>1. SlashesIn(a \o q[i]) =
            SlashesIn(a) \cup (IF template[i] = "/" THEN {Len(a) + 1} ELSE {})
      BY <2>3, AddedToken
    <3>2. i \notin p /\ Len(a) + 1 \notin SlashesIn(a)
      BY <1>8 DEF SlashesIn
    <3>3. CASE template[i] = "/"
      <4>1. Cardinality(SlashesIn(a) \cup {Len(a) + 1}) = Cardinality(SlashesIn(a)) + 1
        BY <1>8, <3>2, FS_AddElement
      <4>2. Cardinality(p \cup {i}) = Cardinality(p) + 1
        BY <1>8, <3>2, FS_AddElement
      <4> QED
        BY <1>8, <2>1, <3>1, <3>3, <4>1, <4>2
    <3>4. CASE template[i] # "/"
      BY <1>8, <2>1, <3>1, <3>4
    <3> QED
      BY <3>3, <3>4
  <2> QED
    BY <1>4, <2>2, <2>3
<1>9. 0 \in R
  <2>1. f[1] = q[1] /\ q[1] \in Seq(Token)
    <3>1. 1 \in 1 .. n
      BY <1>1, <1>2
    <3>2. q[1] \in Seq(Token)
      BY <1>4, <3>1
    <3> QED
      BY <1>6, <3>1, <3>2 DEF Unrolls
  <2>2. <<>> \o q[1] = q[1]
    BY <2>1
  <2>3. SlashesIn(<<>>) = {} /\ {j \in 1 .. 0 : template[j] = "/"} = {}
    BY DEF SlashesIn
  <2>4. Cardinality(SlashesIn(<<>> \o q[1])) = Cardinality(pos(1))
    <3>1. 1 \in 1 .. n /\ <<>> \in Seq(Token)
      BY <1>1, <1>2
    <3>2. {} = {j \in 1 .. 1 - 1 : template[j] = "/"}
      BY <2>3
    <3> QED
      BY <1>8, <2>3, <3>1, <3>2, FS_EmptySet
  <2> QED
    BY <2>1, <2>2, <2>4
<1>10. ASSUME NEW m \in Nat, m \in R PROVE m + 1 \in R
  <2> SUFFICES ASSUME (m + 1) + 1 =< n
               PROVE  Cardinality(SlashesIn(f[(m + 1) + 1])) = Cardinality(pos((m + 1) + 1))
    OBVIOUS
  <2> DEFINE i == (m + 1) + 1
  <2>1. i \in 1 .. n /\ i # 1 /\ i - 1 = m + 1 /\ i - 1 \in 1 .. n
    BY <1>1
  <2>2. Cardinality(SlashesIn(f[i - 1])) = Cardinality(pos(i - 1))
    BY <1>10, <2>1
  <2> HIDE DEF i
  <2>3. f[i] = f[i - 1] \o q[i] /\ f[i - 1] \in Seq(Token)
    BY <1>6, <2>1 DEF Unrolls
  <2>4. Cardinality(SlashesIn(f[i - 1] \o q[i])) = Cardinality(pos(i))
    BY <1>7, <1>8, <2>1, <2>2, <2>3
  <2> QED
    BY <2>3, <2>4 DEF i
<1> HIDE DEF R
<1>11. \A m \in Nat : m \in R
  BY <1>9, <1>10, NatSetInduction
<1> USE DEF R
<1>12. Cardinality(SlashesIn(f[n])) = Cardinality(pos(n))
  <2>1. n - 1 \in Nat /\ (n - 1) + 1 = n
    BY <1>1, <1>2
  <2>2. n - 1 \in R
    BY <1>11, <2>1
  <2>3. Same(n - 1)
    BY <2>2
  <2> QED
    BY <2>1, <2>3
<1>13. pos(n) = SlashesIn(template)
  BY <1>1 DEF SlashesIn
<1>14. f[n] \in Seq(Token)
  BY <1>1, <1>2, <1>6
<1> QED
  BY <1>1, <1>5, <1>6, <1>12, <1>13, <1>14, SlashesFinite DEF v

----------------------------------------------------------------------------
(* FormatTemplate *)

TemplateInv == TemplateTypeOK /\ Slashes(template) = Slashes(given)

LEMMA TemplateStep ==
  TemplateInv /\ [TemplateNext]_templateVars => TemplateInv'
<1> SUFFICES ASSUME TemplateInv, [TemplateNext]_templateVars PROVE TemplateInv'
  OBVIOUS
<1>1. CASE Replace
  <2>1. Found[1] \in KeyWord /\ Matches(template) # {}
    BY <1>1 DEF Replace, Known
  <2>2. template' = Replaced(Value(Found[1])) /\ UNCHANGED <<given, formatVals, result>>
    BY <1>1 DEF Replace
  <2>3. template' \in Seq(Token) /\ Slashes(template') = Slashes(template)
    BY <2>1, <2>2, ReplacedSlashes DEF TemplateInv
  <2> QED
    BY <2>2, <2>3 DEF TemplateInv, TemplateTypeOK, Slashes
<1>2. CASE UnknownKey \/ ReturnText
  <2>1. result' \in {"ok", "error"} /\ UNCHANGED <<template, given, formatVals>>
    BY <1>2 DEF UnknownKey, ReturnText
  <2> QED
    BY <2>1 DEF TemplateInv, TemplateTypeOK, Slashes
<1>3. CASE UNCHANGED templateVars
  BY <1>3 DEF templateVars, TemplateInv, TemplateTypeOK, Slashes
<1> QED
  BY <1>1, <1>2, <1>3 DEF TemplateNext, Over

LEMMA TemplateStart == TemplateInit => TemplateInv
  BY TemplatesAssumption
  DEF TemplateInit, TemplateInv, TemplateTypeOK

(* Type correctness of FormatTemplate. *)
THEOREM TemplateTypeCorrect == TemplateSpec => []TemplateTypeOK
<1>1. TemplateInv => TemplateTypeOK
  BY DEF TemplateInv
<1> QED
  BY <1>1, TemplateStart, TemplateStep, PTL DEF TemplateSpec

----------------------------------------------------------------------------
(* FlattenSeq, one sequence more *)

LEMMA FlatNothing == FlattenSeq(<<>>) = <<>>
<1>1. Len(<<>>) = 0
  OBVIOUS
<1> QED
  BY <1>1 DEF FlattenSeq

LEMMA FlatText ==
  ASSUME NEW S, NEW p \in Seq(Seq(S))
  PROVE  FlattenSeq(p) \in Seq(S)
<1>1. CASE p = <<>>
  <2>1. FlattenSeq(p) = <<>>
    BY <1>1, FlatNothing, Zenon
  <2>2. <<>> \in Seq(S)
    OBVIOUS
  <2> QED
    BY <2>1, <2>2, Zenon
<1>2. CASE p # <<>>
  <2>1. Len(p) \in Nat \ {0} /\ p \in [1 .. Len(p) -> Seq(S)]
    BY <1>2
  <2>2. PICK f \in [1 .. Len(p) -> Seq(S)] : FlattenSeq(p) = f[Len(p)]
    BY <2>1, Flattened
  <2>3. Len(p) \in 1 .. Len(p)
    BY <2>1
  <2> QED
    BY <2>2, <2>3
<1> QED
  BY <1>1, <1>2

LEMMA FlatAppend ==
  ASSUME NEW S, NEW p \in Seq(Seq(S)), NEW x \in Seq(S)
  PROVE  FlattenSeq(Append(p, x)) = FlattenSeq(p) \o x
<1> DEFINE n == Len(p)
           q == Append(p, x)
<1>1. /\ n \in Nat /\ q \in Seq(Seq(S)) /\ Len(q) = n + 1 /\ q[n + 1] = x
      /\ \A i \in 1 .. n : q[i] = p[i]
  OBVIOUS
<1>2. q \in [1 .. n + 1 -> Seq(S)] /\ p \in [1 .. n -> Seq(S)] /\ n + 1 \in Nat \ {0}
  <2> HIDE DEF q
  <2>1. q \in [1 .. n + 1 -> Seq(S)]
    BY <1>1
  <2>2. p \in [1 .. n -> Seq(S)]
    OBVIOUS
  <2> QED
    BY <1>1, <2>1, <2>2
<1> HIDE DEF q
<1>3. PICK g \in [1 .. n + 1 -> Seq(S)] :
        Unrolls(g, q, n + 1) /\ FlattenSeq(q) = g[n + 1]
  BY <1>2, Flattened
<1>4. CASE n = 0
  <2>1. p = <<>>
    BY <1>4
  <2>2. g[n + 1] = x
    BY <1>1, <1>3, <1>4 DEF Unrolls
  <2>3. FlattenSeq(p) \o x = x
    BY <2>1, FlatNothing
  <2> QED
    BY <1>3, <2>2, <2>3 DEF q
<1>5. CASE n # 0
  <2>1. PICK f \in [1 .. n -> Seq(S)] : Unrolls(f, p, n) /\ FlattenSeq(p) = f[n]
    BY <1>1, <1>2, <1>5, Flattened
  <2> DEFINE R == {m \in Nat : m + 1 =< n => g[m + 1] = f[m + 1]}
  <2>2. 0 \in R
    <3>1. 1 \in 1 .. n + 1 /\ 1 \in 1 .. n /\ q[1] = p[1]
      BY <1>1, <1>5
    <3>2. g[1] = f[1]
      BY <1>3, <2>1, <3>1 DEF Unrolls
    <3> QED
      BY <3>2
  <2>3. ASSUME NEW m \in Nat, m \in R PROVE m + 1 \in R
    <3> SUFFICES ASSUME (m + 1) + 1 =< n PROVE g[(m + 1) + 1] = f[(m + 1) + 1]
      OBVIOUS
    <3> DEFINE i == (m + 1) + 1
    <3>1. i \in 1 .. n /\ i \in 1 .. n + 1 /\ i # 1 /\ i - 1 = m + 1
      BY <1>1
    <3>2. g[i - 1] = f[i - 1]
      BY <2>3, <3>1
    <3> HIDE DEF i
    <3>3. g[i] = g[i - 1] \o q[i] /\ f[i] = f[i - 1] \o p[i] /\ q[i] = p[i]
      BY <1>1, <1>3, <2>1, <3>1 DEF Unrolls
    <3> QED
      BY <3>2, <3>3 DEF i
  <2> HIDE DEF R
  <2>4. \A m \in Nat : m \in R
    BY <2>2, <2>3, NatSetInduction
  <2>5. n - 1 \in R
    BY <1>1, <1>5, <2>4
  <2>6. g[n] = f[n]
    BY <1>1, <1>5, <2>5 DEF R
  <2>7. n + 1 \in 1 .. n + 1 /\ n + 1 # 1 /\ (n + 1) - 1 = n
    BY <1>1, <1>5
  <2>8. g[n + 1] = g[n] \o q[n + 1]
    BY <1>3, <2>7 DEF Unrolls
  <2> QED
    BY <1>1, <1>3, <2>1, <2>6, <2>8 DEF q
<1> QED
  BY <1>4, <1>5

(* Induction over sequences, for a property given as a set.                 *)
LEMMA SeqSetInduction ==
  ASSUME NEW S, NEW T, <<>> \in T,
         \A q \in Seq(S), x \in S : q \in T => Append(q, x) \in T
  PROVE  \A q \in Seq(S) : q \in T
<1> DEFINE R == {m \in Nat : \A q \in Seq(S) : Len(q) = m => q \in T}
<1>1. 0 \in R
  <2>1. \A q \in Seq(S) : Len(q) = 0 => q = <<>>
    OBVIOUS
  <2> QED
    BY <2>1
<1>2. ASSUME NEW m \in Nat, m \in R PROVE m + 1 \in R
  <2> SUFFICES ASSUME NEW q \in Seq(S), Len(q) = m + 1 PROVE q \in T
    OBVIOUS
  <2> DEFINE r == SubSeq(q, 1, m)
             x == q[m + 1]
  <2>1. r \in Seq(S) /\ Len(r) = m /\ x \in S
    OBVIOUS
  <2>2. q = Append(r, x)
    OBVIOUS
  <2>3. r \in T
    BY <1>2, <2>1
  <2> HIDE DEF r, x
  <2> QED
    BY <2>1, <2>2, <2>3
<1> HIDE DEF R
<1>3. \A m \in Nat : m \in R
  BY <1>1, <1>2, NatSetInduction
<1> USE DEF R
<1>4. ASSUME NEW q \in Seq(S) PROVE q \in T
  <2>1. Len(q) \in Nat
    OBVIOUS
  <2>2. Len(q) \in R
    BY <1>3, <2>1
  <2> QED
    BY <2>2
<1> QED
  BY <1>4

LEMMA FlatConcat ==
  ASSUME NEW S, NEW p \in Seq(Seq(S)), NEW q \in Seq(Seq(S))
  PROVE  FlattenSeq(p \o q) = FlattenSeq(p) \o FlattenSeq(q)
<1> DEFINE T == {r \in Seq(Seq(S)) : FlattenSeq(p \o r) = FlattenSeq(p) \o FlattenSeq(r)}
<1>1. <<>> \in T
  <2>1. p \o <<>> = p /\ FlattenSeq(p) \o <<>> = FlattenSeq(p)
    BY FlatText
  <2>2. FlattenSeq(p \o <<>>) = FlattenSeq(p) \o FlattenSeq(<<>>)
    BY <2>1, FlatNothing, Zenon
  <2>3. <<>> \in Seq(Seq(S))
    OBVIOUS
  <2> QED
    BY <2>2, <2>3, Zenon
<1>2. ASSUME NEW r \in Seq(Seq(S)), NEW x \in Seq(S), r \in T PROVE Append(r, x) \in T
  <2>1. p \o Append(r, x) = Append(p \o r, x) /\ p \o r \in Seq(Seq(S))
    OBVIOUS
  <2>2. FlattenSeq(p \o Append(r, x)) = (FlattenSeq(p) \o FlattenSeq(r)) \o x
    BY <1>2, <2>1, FlatAppend
  <2>3. FlattenSeq(Append(r, x)) = FlattenSeq(r) \o x
    BY FlatAppend
  <2>4. FlattenSeq(p) \in Seq(S) /\ FlattenSeq(r) \in Seq(S)
    BY FlatText
  <2>5. (FlattenSeq(p) \o FlattenSeq(r)) \o x = FlattenSeq(p) \o (FlattenSeq(r) \o x)
    BY <2>4
  <2>6. FlattenSeq(p \o Append(r, x)) = FlattenSeq(p) \o FlattenSeq(Append(r, x))
    BY <2>2, <2>3, <2>5, Zenon
  <2>7. Append(r, x) \in Seq(Seq(S))
    OBVIOUS
  <2> QED
    BY <2>6, <2>7, Zenon
<1> HIDE DEF T
<1>3. q \in T
  BY <1>1, <1>2, SeqSetInduction
<1> QED
  BY <1>3 DEF T

LEMMA FlatTokens ==
  ASSUME NEW S, NEW a \in Seq(S)
  PROVE  FlattenSeq([i \in 1 .. Len(a) |-> <<a[i]>>]) = a
<1> DEFINE Each(b) == [i \in 1 .. Len(b) |-> <<b[i]>>]
           T == {b \in Seq(S) : FlattenSeq(Each(b)) = b}
<1>1. <<>> \in T
  <2>1. Each(<<>>) = <<>> /\ <<>> \in Seq(S)
    OBVIOUS
  <2> QED
    BY <2>1, FlatNothing, Zenon
<1>2. ASSUME NEW b \in Seq(S), NEW x \in S, b \in T PROVE Append(b, x) \in T
  <2>1. Each(b) \in Seq(Seq(S)) /\ <<x>> \in Seq(S)
    OBVIOUS
  <2>2. Each(Append(b, x)) = Append(Each(b), <<x>>)
    OBVIOUS
  <2>3. FlattenSeq(Each(b)) = b
    BY <1>2
  <2> HIDE DEF Each
  <2>4. FlattenSeq(Append(Each(b), <<x>>)) = b \o <<x>>
    BY <2>1, <2>3, FlatAppend
  <2>5. b \o <<x>> = Append(b, x) /\ Append(b, x) \in Seq(S)
    OBVIOUS
  <2>6. FlattenSeq(Each(Append(b, x))) = Append(b, x)
    BY <2>2, <2>4, <2>5, Zenon
  <2> QED
    BY <2>5, <2>6
<1> HIDE DEF T
<1>3. a \in T
  BY <1>1, <1>2, SeqSetInduction
<1> QED
  BY <1>3 DEF T

----------------------------------------------------------------------------
(* The directory *)

(* Where the last separator of a text is.                                   *)
EndOf(text) == Max({0} \cup SlashesIn(text))

LEMMA LastSeparator ==
  ASSUME NEW text \in Seq(Token)
  PROVE  /\ EndOf(text) \in Nat /\ EndOf(text) =< Len(text)
         /\ \A i \in SlashesIn(text) : i \in 1 .. EndOf(text)
<1> DEFINE S == {0} \cup SlashesIn(text)
           n == Len(text)
           R == {m \in 0 .. n : n - m \in S}
<1>1. n \in Nat /\ S \subseteq 0 .. n /\ 0 \in S
  BY DEF SlashesIn
<1> HIDE DEF S
<1>2. n \in R /\ R \subseteq Nat
  BY <1>1
<1>3. PICK m \in R : \A k \in R : m =< k
  BY <1>2, Smallest, Zenon
<1>4. n - m \in S /\ \A k \in S : n - m >= k
  <2>1. ASSUME NEW k \in S PROVE n - m >= k
    <3>1. k \in 0 .. n /\ n - k \in 0 .. n /\ n - (n - k) = k
      BY <1>1
    <3>2. n - k \in R
      BY <3>1
    <3>3. m =< n - k /\ m \in 0 .. n
      BY <1>3, <3>2
    <3> QED
      BY <1>1, <3>1, <3>3
  <2> QED
    BY <1>3, <2>1
<1>5. Max(S) \in S /\ \A k \in S : Max(S) >= k
  BY <1>4 DEF Max
<1>6. SlashesIn(text) \subseteq S /\ SlashesIn(text) \subseteq 1 .. n
  BY DEF S, SlashesIn
<1>7. EndOf(text) = Max(S)
  BY DEF EndOf, S
<1> DEFINE e == Max(S)
<1>8. e \in 0 .. n /\ \A k \in S : e >= k
  BY <1>1, <1>5
<1> HIDE DEF e
<1>9. \A i \in SlashesIn(text) : i \in 1 .. e
  BY <1>1, <1>6, <1>8
<1> QED
  BY <1>1, <1>7, <1>8, <1>9 DEF e

LEMMA DirectoryText ==
  ASSUME NEW text \in Seq(Token)
  PROVE  Directory(text) = SubSeq(text, 1, EndOf(text))
<1> QED
  BY DEF Directory, EndOf, SlashesIn

(* A text that begins with the directory of another one and has as many     *)
(* separators has the same directory.                                       *)
LEMMA SameDirectory ==
  ASSUME NEW text \in Seq(Token), NEW other \in Seq(Token),
         Slashes(other) = Slashes(text), EndOf(text) =< Len(other),
         \A i \in 1 .. EndOf(text) : other[i] = text[i]
  PROVE  Directory(other) = Directory(text)
<1>1. EndOf(text) \in Nat /\ EndOf(text) =< Len(text) /\ Len(other) \in Nat
  BY LastSeparator
<1>2. SlashesIn(text) \subseteq SlashesIn(other)
  <2> SUFFICES ASSUME NEW i \in SlashesIn(text) PROVE i \in SlashesIn(other)
    OBVIOUS
  <2>1. i \in 1 .. EndOf(text) /\ text[i] = "/"
    BY LastSeparator DEF SlashesIn
  <2>2. i \in 1 .. Len(other) /\ other[i] = "/"
    BY <1>1, <2>1
  <2> QED
    BY <2>2 DEF SlashesIn
<1>3. SlashesIn(other) = SlashesIn(text)
  BY <1>2, SlashesFinite, FS_Subset
<1>4. EndOf(other) = EndOf(text)
  BY <1>3 DEF EndOf
<1>5. SubSeq(other, 1, EndOf(text)) = SubSeq(text, 1, EndOf(text))
  BY <1>1
<1> QED
  BY <1>4, <1>5, DirectoryText

LEMMA TwoParts ==
  ASSUME NEW S, NEW q \in Seq(S), NEW n \in 0 .. Len(q)
  PROVE  /\ SubSeq(q, 1, n) \in Seq(S) /\ Len(SubSeq(q, 1, n)) = n
         /\ SubSeq(q, n + 1, Len(q)) \in Seq(S)
         /\ q = SubSeq(q, 1, n) \o SubSeq(q, n + 1, Len(q))
<1> DEFINE m == Len(q)
           a == SubSeq(q, 1, n)
           b == SubSeq(q, n + 1, m)
<1>1. m \in Nat /\ q \in Seq(S) /\ n \in 0 .. m
  OBVIOUS
<1>2. a \in Seq(S) /\ Len(a) = n /\ \A i \in 1 .. n : a[i] = q[i]
  OBVIOUS
<1>3. b \in Seq(S) /\ Len(b) = m - n /\ \A i \in 1 .. m - n : b[i] = q[n + i]
  OBVIOUS
<1> HIDE DEF a, b
<1>4. a \o b \in Seq(S) /\ Len(a \o b) = m
  BY <1>1, <1>2, <1>3
<1>5. ASSUME NEW i \in 1 .. m PROVE (a \o b)[i] = q[i]
  <2>1. CASE i =< n
    BY <1>1, <1>2, <1>3, <2>1
  <2>2. CASE ~(i =< n)
    <3>1. i - n \in 1 .. m - n /\ n + (i - n) = i
      BY <1>1, <2>2
    <3>2. (a \o b)[i] = b[i - n]
      BY <1>1, <1>2, <1>3, <2>2
    <3> QED
      BY <1>3, <3>1, <3>2
  <2> QED
    BY <2>1, <2>2
<1>6. q = a \o b
  <2> DEFINE c == a \o b
  <2>1. c \in Seq(S) /\ Len(c) = m /\ \A i \in 1 .. m : c[i] = q[i]
    BY <1>4, <1>5
  <2> HIDE DEF c
  <2>2. c = [i \in 1 .. m |-> c[i]] /\ q = [i \in 1 .. m |-> q[i]]
    BY <1>1, <2>1
  <2>3. c = q
    BY <2>1, <2>2
  <2> QED
    BY <2>3 DEF c
<1> QED
  BY <1>1, <1>2, <1>3, <1>6 DEF a, b

(* Where a text begins without a key, a replacement leaves it alone.        *)
LEMMA BeginningKept ==
  ASSUME TemplateTypeOK, Matches(template) # {}, NEW key \in KeyWord,
         NEW n \in 0 .. Len(template), \A i \in 1 .. n : template[i] # "%("
  PROVE  /\ n =< Len(Replaced(Value(key)))
         /\ \A i \in 1 .. n : Replaced(Value(key))[i] = template[i]
<1> DEFINE v == Value(key)
           q == [i \in 1 .. Len(template) |->
                   IF At(i) THEN v ELSE IF Covered(i) THEN <<>> ELSE <<template[i]>>]
           p == SubSeq(q, 1, n)
           r == SubSeq(q, n + 1, Len(template))
           b == SubSeq(template, 1, n)
<1>1. template \in Seq(Token) /\ Len(template) \in Nat
  BY DEF TemplateTypeOK
<1>2. v \in Seq(Token)
  BY ValueText
<1>3. Found \in Seq(Word) /\ Len(Found) \in Nat
  BY FoundWords
<1>4. ASSUME NEW j \in 1 .. n PROVE ~At(j)
  <2> SUFFICES ASSUME At(j) PROVE FALSE
    OBVIOUS
  <2> DEFINE L == Len(Found)
  <2>1. j + L + 1 =< Len(template)
        /\ SubSeq(template, j, j + L + 1) = <<"%(">> \o Found \o <<")s">>
    BY DEF At
  <2>2. SubSeq(template, j, j + L + 1)[1] = template[j]
    BY <1>1, <1>3, <2>1
  <2>3. (<<"%(">> \o Found \o <<")s">>)[1] = "%("
    BY <1>3
  <2> QED
    BY <2>1, <2>2, <2>3
<1>5. ASSUME NEW i \in 1 .. n PROVE q[i] = <<template[i]>> /\ b[i] = template[i]
  <2>1. ~Covered(i)
    BY <1>3, <1>4 DEF Covered
  <2> QED
    BY <1>1, <1>4, <2>1
<1>6. q \in Seq(Seq(Token)) /\ Len(q) = Len(template)
  <2>1. ASSUME NEW i \in 1 .. Len(template) PROVE q[i] \in Seq(Token)
    <3>1. <<>> \in Seq(Token) /\ <<template[i]>> \in Seq(Token)
      BY <1>1
    <3> HIDE DEF v
    <3> QED
      BY <1>2, <3>1
  <2>2. q \in [1 .. Len(template) -> Seq(Token)]
    BY <2>1
  <2> HIDE DEF q
  <2> QED
    BY <1>1, <2>2
<1>7. Replaced(v) = FlattenSeq(q)
  BY DEF Replaced
<1> HIDE DEF q, v
<1>8. p \in Seq(Seq(Token)) /\ r \in Seq(Seq(Token)) /\ q = p \o r /\ Len(p) = n
  <2>1. n \in 0 .. Len(q) /\ r = SubSeq(q, n + 1, Len(q))
    BY <1>6
  <2>2. p = SubSeq(q, 1, n)
    OBVIOUS
  <2> HIDE DEF p, r
  <2> QED
    BY <1>6, <2>1, <2>2, TwoParts, Zenon
<1>9. b \in Seq(Token) /\ Len(b) = n
  BY <1>1
<1>10. p = [i \in 1 .. Len(b) |-> <<b[i]>>]
  <2>1. \A i \in 1 .. n : p[i] = <<b[i]>>
    BY <1>5, <1>6
  <2> HIDE DEF p, b
  <2>2. p = [i \in 1 .. n |-> p[i]]
    BY <1>8
  <2> QED
    BY <1>9, <2>1, <2>2
<1> HIDE DEF p, r, b
<1>11. FlattenSeq(p) = b
  BY <1>9, <1>10, FlatTokens
<1>12. Replaced(v) = b \o FlattenSeq(r) /\ FlattenSeq(r) \in Seq(Token)
  BY <1>7, <1>8, <1>11, FlatConcat, FlatText
<1>13. n =< Len(Replaced(v)) /\ \A i \in 1 .. n : Replaced(v)[i] = b[i]
  BY <1>9, <1>12
<1> QED
  BY <1>5, <1>13 DEF v

(* The text still begins with the directory of --output, if that holds no   *)
(* part of a key.                                                           *)
BeginsAsGiven ==
  Plain(Directory(given)) =>
    EndOf(given) =< Len(template) /\ \A i \in 1 .. EndOf(given) : template[i] = given[i]

LEMMA BeginsStep ==
  TemplateInv /\ BeginsAsGiven /\ [TemplateNext]_templateVars => BeginsAsGiven'
<1> SUFFICES ASSUME TemplateInv, BeginsAsGiven, [TemplateNext]_templateVars
             PROVE  BeginsAsGiven'
  OBVIOUS
<1>1. TemplateTypeOK /\ template \in Seq(Token) /\ given \in Seq(Token)
  BY TemplatesAssumption DEF TemplateInv, TemplateTypeOK
<1>2. CASE Replace
  <2>1. Found[1] \in KeyWord /\ Matches(template) # {}
    BY <1>2 DEF Replace, Known
  <2>2. template' = Replaced(Value(Found[1])) /\ given' = given
    BY <1>2 DEF Replace
  <2> SUFFICES ASSUME Plain(Directory(given))
               PROVE  /\ EndOf(given) =< Len(template')
                      /\ \A i \in 1 .. EndOf(given) : template'[i] = given[i]
    BY <2>2 DEF BeginsAsGiven, Plain, Directory, EndOf, SlashesIn
  <2>3. EndOf(given) \in Nat /\ EndOf(given) =< Len(given)
    BY <1>1, LastSeparator
  <2>4. EndOf(given) \in 0 .. Len(template)
        /\ \A i \in 1 .. EndOf(given) : template[i] = given[i]
    BY <1>1, <2>3 DEF BeginsAsGiven
  <2>5. \A i \in 1 .. EndOf(given) : given[i] # "%("
    <3>1. Directory(given) = SubSeq(given, 1, EndOf(given))
      BY <1>1, DirectoryText
    <3>2. \A i \in 1 .. EndOf(given) :
            i \in DOMAIN Directory(given) /\ Directory(given)[i] = given[i]
      BY <1>1, <2>3, <3>1
    <3> QED
      BY <3>2 DEF Plain
  <2> QED
    BY <1>1, <2>1, <2>2, <2>4, <2>5, BeginningKept
<1>3. CASE UNCHANGED <<template, given>>
  BY <1>3 DEF BeginsAsGiven, Plain, Directory, EndOf, SlashesIn
<1> QED
  BY <1>2, <1>3 DEF TemplateNext, UnknownKey, ReturnText, Over, templateVars

LEMMA BeginsStart == TemplateInit => BeginsAsGiven
  BY TemplatesAssumption, LastSeparator DEF TemplateInit, BeginsAsGiven

(* For any template, keys and values, those that are templates themselves   *)
(* included: the name keeps the separators of --output, and its directory   *)
(* if that has no key in it.                                                *)
THEOREM SavedInItsDirectory == TemplateSpec => []SavedWhereAsked
<1>1. TemplateInv /\ BeginsAsGiven => SavedWhereAsked
  BY TemplatesAssumption, SameDirectory
  DEF TemplateInv, TemplateTypeOK, BeginsAsGiven, SavedWhereAsked
<1> QED
  BY <1>1, TemplateStart, TemplateStep, BeginsStart, BeginsStep, PTL DEF TemplateSpec

----------------------------------------------------------------------------
(* Replacing a key in any text *)

LEMMA ConcatParts ==
  ASSUME NEW S, NEW p \in Seq(S), NEW q \in Seq(S), NEW i \in 1 .. Len(p) + Len(q)
  PROVE  (p \o q)[i] = IF i =< Len(p) THEN p[i] ELSE q[i - Len(p)]
  OBVIOUS

(* Whether "%(", the key and ")s" are at i.                                 *)
KeyAt(text, k, i) ==
  i >= 1 /\ i + 2 =< Len(text) /\ text[i] = "%(" /\ text[i + 1] = k /\ text[i + 2] = ")s"

Piece(text, k, i) ==
  IF KeyAt(text, k, i) THEN Value(k)
  ELSE IF KeyAt(text, k, i - 1) \/ KeyAt(text, k, i - 2) THEN <<>> ELSE <<text[i]>>

PiecesOf(text, k) == [i \in 1 .. Len(text) |-> Piece(text, k, i)]

Filled(text, k) == FlattenSeq(PiecesOf(text, k))

LEMMA PieceTypes ==
  ASSUME TemplateTypeOK, NEW k \in KeyWord, NEW text \in Seq(Token)
  PROVE  PiecesOf(text, k) \in Seq(Seq(Token)) /\ Len(PiecesOf(text, k)) = Len(text)
         /\ Filled(text, k) \in Seq(Token)
<1>1. ASSUME NEW i \in 1 .. Len(text) PROVE Piece(text, k, i) \in Seq(Token)
  <2>1. Value(k) \in Seq(Token) /\ <<>> \in Seq(Token) /\ <<text[i]>> \in Seq(Token)
    BY ValueText
  <2> QED
    BY <2>1 DEF Piece
<1>2. Len(text) \in Nat
  OBVIOUS
<1>3. PiecesOf(text, k) \in Seq(Seq(Token)) /\ Len(PiecesOf(text, k)) = Len(text)
  BY <1>1, <1>2 DEF PiecesOf
<1> QED
  BY <1>3, FlatText DEF Filled

(* What does not hold the key stays.                                        *)
LEMMA FilledNothing ==
  ASSUME NEW k \in KeyWord, NEW text \in Seq(Token), \A i \in 1 .. Len(text) : ~KeyAt(text, k, i)
  PROVE  Filled(text, k) = text
<1>1. \A i \in 1 .. Len(text) : Piece(text, k, i) = <<text[i]>>
  <2> TAKE i \in 1 .. Len(text)
  <2>1. ~KeyAt(text, k, i)
    OBVIOUS
  <2>2. ~KeyAt(text, k, i - 1)
    <3>1. CASE i - 1 >= 1
      <4>1. i - 1 \in 1 .. Len(text)
        BY <3>1
      <4> QED
        BY <4>1
    <3> QED
      BY <3>1 DEF KeyAt
  <2>3. ~KeyAt(text, k, i - 2)
    <3>1. CASE i - 2 >= 1
      <4>1. i - 2 \in 1 .. Len(text)
        BY <3>1
      <4> QED
        BY <4>1
    <3> QED
      BY <3>1 DEF KeyAt
  <2> QED
    BY <2>1, <2>2, <2>3 DEF Piece
<1>2. PiecesOf(text, k) = [i \in 1 .. Len(text) |-> <<text[i]>>]
  BY <1>1 DEF PiecesOf
<1> QED
  BY <1>2, FlatTokens DEF Filled

LEMMA FilledPlain ==
  ASSUME NEW k \in KeyWord, NEW text \in Seq(Token), Plain(text)
  PROVE  Filled(text, k) = text
<1>1. \A i \in 1 .. Len(text) : ~KeyAt(text, k, i)
  BY DEF Plain, KeyAt
<1> QED
  BY <1>1, FilledNothing

(* The text of a key: "%(", the key and ")s".                               *)
KeyText(k) == <<"%(", k, ")s">>

LEMMA KeyTextFacts ==
  ASSUME NEW k \in Word
  PROVE  /\ KeyText(k) \in Seq(Token) /\ Len(KeyText(k)) = 3
         /\ KeyText(k)[1] = "%(" /\ KeyText(k)[2] = k /\ KeyText(k)[3] = ")s"
  BY DEF KeyText, Token

(* Words and delimiters are different tokens.                               *)
LEMMA TokenKinds ==
  /\ "%(" # ")s" /\ "%(" \notin Word /\ ")s" \notin Word /\ "/" \notin Word
  /\ \A k \in KeyWord : k \in Word
  BY WordAssumption DEF KeyWord

LEMMA FilledOther ==
  ASSUME NEW k \in KeyWord, NEW j \in Word, j # k
  PROVE  Filled(KeyText(j), k) = KeyText(j)
<1>1. \A i \in 1 .. Len(KeyText(j)) : ~KeyAt(KeyText(j), k, i)
  BY KeyTextFacts, TokenKinds DEF KeyAt
<1> QED
  BY <1>1, KeyTextFacts, FilledNothing

LEMMA FilledKey ==
  ASSUME TemplateTypeOK, NEW k \in KeyWord
  PROVE  Filled(KeyText(k), k) = Value(k)
<1> DEFINE t == KeyText(k)
           v == Value(k)
<1>1. /\ t \in Seq(Token) /\ Len(t) = 3 /\ t[1] = "%(" /\ t[2] = k /\ t[3] = ")s"
      /\ k \in Word /\ v \in Seq(Token)
  BY KeyTextFacts, TokenKinds, ValueText
<1> HIDE DEF t
<1>2. KeyAt(t, k, 1) /\ ~KeyAt(t, k, 2) /\ ~KeyAt(t, k, 3) /\ ~KeyAt(t, k, 0) /\ ~KeyAt(t, k, -1)
  BY <1>1, TokenKinds DEF KeyAt
<1>3. Piece(t, k, 1) = v /\ Piece(t, k, 2) = <<>> /\ Piece(t, k, 3) = <<>>
  <2>1. 2 - 1 = 1 /\ 3 - 2 = 1
    OBVIOUS
  <2> QED
    BY <1>2, <2>1 DEF Piece
<1> HIDE DEF v
<1>4. PiecesOf(t, k) = Append(Append(Append(<<>>, v), <<>>), <<>>)
  <2>1. PiecesOf(t, k) = [i \in 1 .. 3 |-> Piece(t, k, i)]
    BY <1>1 DEF PiecesOf
  <2>2. [i \in 1 .. 3 |-> Piece(t, k, i)] = <<v, <<>>, <<>>>>
    BY <1>3
  <2> QED
    BY <2>1, <2>2
<1>5. /\ <<>> \in Seq(Token) /\ <<>> \in Seq(Seq(Token)) /\ Append(<<>>, v) \in Seq(Seq(Token))
      /\ Append(Append(<<>>, v), <<>>) \in Seq(Seq(Token))
  BY <1>1
<1>6. FlattenSeq(Append(<<>>, v)) = <<>> \o v
  BY <1>1, <1>5, FlatAppend, FlatNothing, Zenon
<1>7. FlattenSeq(Append(Append(<<>>, v), <<>>)) = (<<>> \o v) \o <<>>
  BY <1>5, <1>6, FlatAppend, Zenon
<1>8. FlattenSeq(PiecesOf(t, k)) = ((<<>> \o v) \o <<>>) \o <<>>
  BY <1>4, <1>5, <1>7, FlatAppend, Zenon
<1>9. ((<<>> \o v) \o <<>>) \o <<>> = v
  BY <1>1
<1> QED
  BY <1>8, <1>9 DEF Filled, t, v

(* No key goes on in a text that has no ")s" before its third token.        *)
Apart3(b) == \A j \in DOMAIN b : b[j] = ")s" => j >= 3

LEMMA FilledConcat ==
  ASSUME TemplateTypeOK, NEW k \in KeyWord, NEW a \in Seq(Token), NEW b \in Seq(Token), Apart3(b)
  PROVE  Filled(a \o b, k) = Filled(a, k) \o Filled(b, k)
<1> DEFINE c == a \o b
           m == Len(a)
           n == Len(b)
<1>1. /\ m \in Nat /\ n \in Nat /\ c \in Seq(Token) /\ Len(c) = m + n
      /\ \A i \in 1 .. m : c[i] = a[i]
      /\ \A i \in 1 .. n : c[m + i] = b[i]
  OBVIOUS
<1> HIDE DEF c
<1>2. ASSUME NEW i \in Int, i =< m
      PROVE  KeyAt(c, k, i) <=> KeyAt(a, k, i)
  <2>1. CASE i >= 1 /\ i + 2 =< m
    <3>1. i \in 1 .. m /\ i + 1 \in 1 .. m /\ i + 2 \in 1 .. m
      BY <1>1, <2>1
    <3>2. c[i] = a[i] /\ c[i + 1] = a[i + 1] /\ c[i + 2] = a[i + 2]
      BY <1>1, <3>1
    <3> QED
      BY <1>1, <2>1, <3>2 DEF KeyAt
  <2>2. CASE i >= 1 /\ i + 2 > m
    <3>1. ASSUME KeyAt(c, k, i) PROVE FALSE
      <4>1. i + 2 - m \in 1 .. n /\ i + 2 - m < 3 /\ m + (i + 2 - m) = i + 2
        BY <1>1, <1>2, <2>2, <3>1 DEF KeyAt
      <4>2. b[i + 2 - m] = ")s"
        BY <1>1, <3>1, <4>1 DEF KeyAt
      <4> QED
        BY <1>1, <4>1, <4>2 DEF Apart3
    <3> QED
      BY <2>2, <3>1 DEF KeyAt
  <2>3. CASE i < 1
    BY <2>3 DEF KeyAt
  <2> QED
    BY <1>1, <2>1, <2>2, <2>3
<1>3. ASSUME NEW i \in Int, i >= 1
      PROVE  KeyAt(c, k, m + i) <=> KeyAt(b, k, i)
  <2>1. CASE i + 2 =< n
    <3>1. c[m + i] = b[i] /\ c[m + (i + 1)] = b[i + 1] /\ c[m + (i + 2)] = b[i + 2]
      BY <1>1, <1>3, <2>1
    <3>2. m + (i + 1) = (m + i) + 1 /\ m + (i + 2) = (m + i) + 2
      BY <1>1
    <3> QED
      BY <1>1, <1>3, <2>1, <3>1, <3>2 DEF KeyAt
  <2>2. CASE i + 2 > n
    BY <1>1, <2>2 DEF KeyAt
  <2> QED
    BY <1>1, <2>1, <2>2
(* A key at the very end of a would go on in b.                             *)
<1>4. ASSUME NEW i \in {m - 1, m} PROVE ~KeyAt(c, k, i)
  BY <1>1, <1>2 DEF KeyAt
<1>5. ASSUME NEW i \in 1 .. m PROVE Piece(c, k, i) = Piece(a, k, i)
  <2>1. /\ KeyAt(c, k, i) <=> KeyAt(a, k, i)
        /\ KeyAt(c, k, i - 1) <=> KeyAt(a, k, i - 1)
        /\ KeyAt(c, k, i - 2) <=> KeyAt(a, k, i - 2)
    BY <1>1, <1>2
  <2>2. c[i] = a[i]
    BY <1>1
  <2> QED
    BY <2>1, <2>2 DEF Piece
<1>6. ASSUME NEW i \in 1 .. n PROVE Piece(c, k, m + i) = Piece(b, k, i)
  <2>1. ASSUME NEW d \in 0 .. 2 PROVE KeyAt(c, k, m + i - d) <=> KeyAt(b, k, i - d)
    <3>1. CASE i - d >= 1
      <4>1. m + (i - d) = m + i - d /\ i - d \in Int
        BY <1>1
      <4> QED
        BY <1>3, <3>1, <4>1
    <3>2. CASE i - d < 1
      <4>1. m + i - d \in {m - 1, m}
        BY <1>1, <3>2
      <4> QED
        BY <1>4, <3>2, <4>1 DEF KeyAt
    <3> QED
      BY <3>1, <3>2
  <2>2. c[m + i] = b[i]
    BY <1>1
  <2>3. m + i - 0 = m + i /\ i - 0 = i
    BY <1>1
  <2> QED
    BY <2>1, <2>2, <2>3 DEF Piece
<1> DEFINE p == PiecesOf(a, k)
           q == PiecesOf(b, k)
<1>7. /\ p \in Seq(Seq(Token)) /\ Len(p) = m /\ q \in Seq(Seq(Token)) /\ Len(q) = n
      /\ PiecesOf(c, k) \in Seq(Seq(Token)) /\ Len(PiecesOf(c, k)) = m + n
  BY <1>1, PieceTypes
<1>8. /\ \A i \in 1 .. m : PiecesOf(c, k)[i] = p[i]
      /\ \A i \in 1 .. n : PiecesOf(c, k)[m + i] = q[i]
  <2>1. ASSUME NEW i \in 1 .. m PROVE PiecesOf(c, k)[i] = p[i]
    BY <1>1, <1>5 DEF PiecesOf
  <2>2. ASSUME NEW i \in 1 .. n PROVE PiecesOf(c, k)[m + i] = q[i]
    BY <1>1, <1>6 DEF PiecesOf
  <2> QED
    BY <2>1, <2>2
<1> DEFINE r == PiecesOf(c, k)
<1> HIDE DEF p, q, r, m, n
<1>9. r = p \o q
  <2>1. r \in Seq(Seq(Token)) /\ Len(r) = m + n
    BY <1>7 DEF r
  <2>2. p \o q \in Seq(Seq(Token)) /\ Len(p \o q) = m + n
    <3>1. p \in Seq(Seq(Token)) /\ q \in Seq(Seq(Token)) /\ Len(p) = m /\ Len(q) = n
      BY <1>7
    <3> QED
      BY <3>1
  <2>3. ASSUME NEW i \in 1 .. m + n PROVE r[i] = (p \o q)[i]
    <3>1. CASE i =< m
      <4>1. i \in 1 .. m
        BY <1>1, <3>1
      <4> QED
        BY <1>7, <1>8, <4>1 DEF r
    <3>2. CASE i > m
      <4>1. i - m \in 1 .. n /\ m + (i - m) = i
        BY <1>1, <3>2
      <4>2. r[i] = q[i - m]
        BY <1>8, <4>1 DEF r
      <4>3. (p \o q)[i] = q[i - m]
        <5>1. p \in Seq(Seq(Token)) /\ q \in Seq(Seq(Token)) /\ Len(p) = m /\ Len(q) = n
          BY <1>7
        <5>2. i \in 1 .. Len(p) + Len(q) /\ ~(i =< Len(p))
          BY <1>1, <3>2, <5>1
        <5>3. (p \o q)[i] = q[i - Len(p)]
          BY <5>1, <5>2, ConcatParts
        <5> QED
          BY <5>1, <5>3
      <4> QED
        BY <4>2, <4>3
    <3>3. i =< m \/ i > m
      BY <1>1
    <3> QED
      BY <3>1, <3>2, <3>3
  <2> DEFINE pq == p \o q
             l == m + n
  <2>4. pq \in Seq(Seq(Token)) /\ Len(pq) = l /\ r \in Seq(Seq(Token)) /\ Len(r) = l
        /\ l \in Nat /\ \A i \in 1 .. l : r[i] = pq[i]
    BY <1>1, <2>1, <2>2, <2>3
  <2> HIDE DEF pq, l
  <2>5. r = pq
    BY <2>4
  <2> QED
    BY <2>5 DEF pq
<1>10. FlattenSeq(r) = FlattenSeq(p) \o FlattenSeq(q)
  BY <1>7, <1>9, FlatConcat
<1> QED
  BY <1>10 DEF Filled, c, p, q, r

----------------------------------------------------------------------------
(* The template, with some of its keys replaced *)

(* No key of the template goes on after token i.                            *)
Cut(i) == \A j \in {i - 1, i} : j >= 1 => given[j] # "%("

LEMMA GivenTokens ==
  ASSUME TemplateTypeOK
  PROVE  /\ given \in Seq(Token) /\ Len(given) \in Nat /\ DOMAIN given = 1 .. Len(given)
         /\ \A i \in 1 .. Len(given) : given[i] \in Token
  BY TemplatesAssumption DEF TemplateTypeOK

LEMMA WellFormedParts ==
  ASSUME TemplateTypeOK, WellFormed(given), NEW i \in 1 .. Len(given)
  PROVE  /\ given[i] = "%(" => /\ i + 2 =< Len(given)
                               /\ given[i + 1] \in Word /\ given[i + 2] = ")s"
         /\ given[i] = ")s" => i > 2 /\ given[i - 2] = "%(" /\ given[i - 1] \in Word
<1>1. \A j \in 1 .. Len(given) :
        /\ given[j] = "%(" => /\ j + 2 =< Len(given)
                              /\ given[j + 1] \in Word /\ given[j + 2] = ")s"
        /\ given[j] = ")s" => j > 2 /\ given[j - 2] = "%("
  BY GivenTokens DEF WellFormed
<1>2. ASSUME given[i] = ")s" PROVE given[i - 1] \in Word
  <2>1. i > 2 /\ given[i - 2] = "%(" /\ i - 2 \in 1 .. Len(given) /\ (i - 2) + 1 = i - 1
    BY <1>1, <1>2, GivenTokens
  <2> QED
    BY <1>1, <2>1
<1> QED
  BY <1>1, <1>2

(* A well-formed template is cut into tokens and keys: what holds of the    *)
(* empty text and goes on over both holds at every cut.                     *)
LEMMA BlockInduction ==
  ASSUME TemplateTypeOK, WellFormed(given), NEW S, 0 \in S,
         \A i \in 1 .. Len(given) :
           i - 1 \in S /\ Cut(i - 1) /\ given[i] \notin {"%(", ")s"} => i \in S,
         \A i \in 3 .. Len(given) :
           /\ i - 3 \in S /\ Cut(i - 3)
           /\ given[i - 2] = "%(" /\ given[i - 1] \in Word /\ given[i] = ")s"
           => i \in S
  PROVE  (\A i \in 0 .. Len(given) : Cut(i) => i \in S) /\ Len(given) \in S
<1> DEFINE n == Len(given)
           R == {m \in Nat : \A i \in 0 .. m : i =< n /\ Cut(i) => i \in S}
<1>1. 0 \in R
  OBVIOUS
<1>2. ASSUME NEW m \in Nat, m \in R PROVE m + 1 \in R
  <2> DEFINE i == m + 1
  <2> SUFFICES ASSUME i =< n, Cut(i) PROVE i \in S
    BY <1>2
  <2>1. i \in 1 .. n /\ given[i] # "%(" /\ (i > 1 => given[i - 1] # "%(")
    BY GivenTokens DEF Cut
  <2>2. \A j \in 0 .. i - 1 : Cut(j) => j \in S
    BY <1>2, <2>1, GivenTokens
  <2> HIDE DEF i
  <2>3. CASE given[i] = ")s"
    <3>1. i > 2 /\ given[i - 2] = "%(" /\ given[i - 1] \in Word
      BY <2>1, <2>3, WellFormedParts
    <3>2. Cut(i - 3)
      <4> SUFFICES ASSUME NEW j \in {i - 4, i - 3}, j >= 1, given[j] = "%(" PROVE FALSE
        <5>1. (i - 3) - 1 = i - 4
          BY <2>1
        <5> QED
          BY <5>1 DEF Cut
      <4>1. j \in 1 .. n
        BY <2>1, GivenTokens
      <4>2. given[j + 1] \in Word /\ given[j + 2] = ")s"
        BY <4>1, WellFormedParts
      <4>3. j + 1 = i - 2 \/ j + 2 = i - 2
        BY <2>1
      <4> QED
        BY <3>1, <4>2, <4>3, TokenKinds
    <3>3. i - 3 \in 0 .. i - 1 /\ i \in 3 .. n
      BY <2>1, <3>1, GivenTokens
    <3> QED
      BY <2>2, <2>3, <3>1, <3>2, <3>3
  <2>4. CASE given[i] # ")s"
    <3>1. Cut(i - 1)
      <4> SUFFICES ASSUME NEW j \in {i - 2, i - 1}, j >= 1, given[j] = "%(" PROVE FALSE
        <5>1. (i - 1) - 1 = i - 2
          BY <2>1
        <5> QED
          BY <5>1 DEF Cut
      <4>1. j = i - 2 /\ j \in 1 .. n
        BY <2>1, GivenTokens
      <4>2. given[j + 2] = ")s" /\ j + 2 = i
        BY <2>1, <4>1, WellFormedParts
      <4> QED
        BY <2>4, <4>2
    <3>2. i - 1 \in 0 .. i - 1
      BY <2>1
    <3> QED
      BY <2>1, <2>2, <2>4, <3>1, <3>2
  <2> QED
    BY <2>3, <2>4
<1> HIDE DEF R
<1>3. \A m \in Nat : m \in R
  BY <1>1, <1>2, NatSetInduction
<1>4. \A i \in 0 .. n : Cut(i) => i \in S
  <2>1. n \in Nat
    BY GivenTokens
  <2>2. n \in R
    BY <1>3, <2>1
  <2> QED
    BY <2>1, <2>2 DEF R
<1>5. Cut(n)
  <2> SUFFICES ASSUME NEW j \in {n - 1, n}, j >= 1, given[j] = "%(" PROVE FALSE
    BY DEF Cut
  <2>1. n \in Nat
    BY GivenTokens
  <2>2. j \in 1 .. n /\ j + 2 > n
    BY <2>1
  <2>3. j + 2 =< n
    BY <2>2, WellFormedParts
  <2> QED
    BY <2>1, <2>2, <2>3
<1> QED
  BY <1>4, <1>5, GivenTokens

(* Whether a key that is in D begins at token i of the template.            *)
KeyIn(D, i) == i >= 1 /\ i < Len(given) /\ given[i] = "%(" /\ given[i + 1] \in D

GivenPiece(D, i) ==
  IF KeyIn(D, i) THEN Value(given[i + 1])
  ELSE IF KeyIn(D, i - 1) \/ KeyIn(D, i - 2) THEN <<>> ELSE <<given[i]>>

(* The first i tokens of the template, with the keys in D replaced.         *)
Upto(D, i) == FlattenSeq([j \in 1 .. i |-> GivenPiece(D, j)])

KeyOr(D, k) == IF k \in D THEN Value(k) ELSE KeyText(k)

LEMMA UptoNext ==
  ASSUME TemplateTypeOK, NEW D \in SUBSET KeyWord
  PROVE  /\ Upto(D, 0) = <<>>
         /\ \A i \in 0 .. Len(given) : Upto(D, i) \in Seq(Token)
         /\ \A i \in 1 .. Len(given) :
              /\ GivenPiece(D, i) \in Seq(Token)
              /\ Upto(D, i) = Upto(D, i - 1) \o GivenPiece(D, i)
<1> DEFINE p(i) == [j \in 1 .. i |-> GivenPiece(D, j)]
<1>1. ASSUME NEW i \in 1 .. Len(given) PROVE GivenPiece(D, i) \in Seq(Token)
  <2>1. <<>> \in Seq(Token) /\ <<given[i]>> \in Seq(Token)
    BY GivenTokens
  <2>2. KeyIn(D, i) => Value(given[i + 1]) \in Seq(Token)
    BY ValueText DEF KeyIn
  <2> QED
    BY <2>1, <2>2 DEF GivenPiece
<1>2. ASSUME NEW i \in 0 .. Len(given)
      PROVE  p(i) \in Seq(Seq(Token))
  <2>1. i \in Nat /\ \A j \in 1 .. i : GivenPiece(D, j) \in Seq(Token)
    BY <1>1, GivenTokens
  <2> QED
    BY <2>1
<1>3. Upto(D, 0) = <<>>
  <2>1. p(0) = <<>>
    OBVIOUS
  <2> QED
    BY <2>1, FlatNothing, Zenon DEF Upto
<1>4. ASSUME NEW i \in 1 .. Len(given)
      PROVE  Upto(D, i) = Upto(D, i - 1) \o GivenPiece(D, i)
  <2>1. i - 1 \in 0 .. Len(given)
    BY GivenTokens
  <2>2. p(i) = Append(p(i - 1), GivenPiece(D, i))
    BY <2>1
  <2>3. FlattenSeq(Append(p(i - 1), GivenPiece(D, i)))
          = FlattenSeq(p(i - 1)) \o GivenPiece(D, i)
    <3>1. p(i - 1) \in Seq(Seq(Token)) /\ GivenPiece(D, i) \in Seq(Token)
      BY <1>1, <1>2, <2>1
    <3> HIDE DEF p
    <3> QED
      BY <3>1, FlatAppend
  <2> QED
    BY <2>2, <2>3, Zenon DEF Upto
<1>5. ASSUME NEW i \in 0 .. Len(given) PROVE Upto(D, i) \in Seq(Token)
  <2>1. p(i) \in Seq(Seq(Token))
    BY <1>2
  <2> HIDE DEF p
  <2>2. FlattenSeq(p(i)) \in Seq(Token)
    BY <2>1, FlatText
  <2> QED
    BY <2>2 DEF Upto, p
<1> QED
  BY <1>1, <1>3, <1>4, <1>5

LEMMA UptoToken ==
  ASSUME TemplateTypeOK, NEW D \in SUBSET KeyWord, NEW i \in 1 .. Len(given),
         Cut(i - 1), given[i] \notin {"%(", ")s"}
  PROVE  Upto(D, i) = Upto(D, i - 1) \o <<given[i]>>
<1>1. ~KeyIn(D, i) /\ ~KeyIn(D, i - 1) /\ ~KeyIn(D, i - 2)
  BY GivenTokens DEF KeyIn, Cut
<1>2. GivenPiece(D, i) = <<given[i]>>
  BY <1>1 DEF GivenPiece
<1> QED
  BY <1>2, UptoNext

LEMMA AppendParts ==
  ASSUME NEW S, NEW p \in Seq(S), NEW x \in S
  PROVE  /\ Append(p, x) \in Seq(S) /\ Len(Append(p, x)) = Len(p) + 1
         /\ Append(p, x)[Len(p) + 1] = x
         /\ \A i \in 1 .. Len(p) : Append(p, x)[i] = p[i]
  OBVIOUS

LEMMA ThreeTokens ==
  ASSUME NEW S, NEW x \in S, NEW y \in S, NEW z \in S
  PROVE  (<<x>> \o <<y>>) \o <<z>> = <<x, y, z>>
<1> DEFINE s == Append(Append(<<x>>, y), z)
<1>1. (<<x>> \o <<y>>) \o <<z>> = s
  <2>1. <<x>> \in Seq(S) /\ Append(<<x>>, y) \in Seq(S)
    OBVIOUS
  <2>2. \A a \in Seq(S), t \in S : a \o <<t>> = Append(a, t)
    OBVIOUS
  <2>3. <<x>> \o <<y>> = Append(<<x>>, y)
    BY <2>1, <2>2
  <2>4. Append(<<x>>, y) \o <<z>> = s
    BY <2>1, <2>2
  <2> QED
    BY <2>3, <2>4, Zenon
<1>2. s \in Seq(S) /\ Len(s) = 3 /\ s[1] = x /\ s[2] = y /\ s[3] = z
  <2> DEFINE a == <<x>>
             b == Append(a, y)
  <2>1. a \in Seq(S) /\ Len(a) = 1 /\ a[1] = x
    OBVIOUS
  <2> HIDE DEF a
  <2>2. b \in Seq(S) /\ Len(b) = 2 /\ b[1] = x /\ b[2] = y
    <3>1. /\ b \in Seq(S) /\ Len(b) = Len(a) + 1 /\ b[Len(a) + 1] = y
          /\ \A i \in 1 .. Len(a) : b[i] = a[i]
      <4>1. a \in Seq(S)
        BY <2>1
      <4> QED
        BY <4>1, AppendParts
    <3> HIDE DEF b
    <3> QED
      BY <2>1, <3>1
  <2> HIDE DEF b
  <2>3. /\ Append(b, z) \in Seq(S) /\ Len(Append(b, z)) = 3
        /\ Append(b, z)[1] = x /\ Append(b, z)[2] = y /\ Append(b, z)[3] = z
    <3> DEFINE c == Append(b, z)
    <3>1. /\ c \in Seq(S) /\ Len(c) = Len(b) + 1 /\ c[Len(b) + 1] = z
          /\ \A i \in 1 .. Len(b) : c[i] = b[i]
      <4>1. b \in Seq(S)
        BY <2>2
      <4> QED
        BY <4>1, AppendParts
    <3> HIDE DEF c
    <3>2. c \in Seq(S) /\ Len(c) = 3 /\ c[1] = x /\ c[2] = y /\ c[3] = z
      BY <2>2, <3>1
    <3> QED
      BY <3>2 DEF c
  <2> QED
    BY <2>3 DEF b, a
<1> HIDE DEF s
<1>3. s = <<s[1], s[2], s[3]>>
  BY <1>2
<1> QED
  BY <1>1, <1>2, <1>3

LEMMA Assoc ==
  ASSUME NEW a \in Seq(Token), NEW b \in Seq(Token), NEW c \in Seq(Token)
  PROVE  (a \o b) \o c = a \o (b \o c) /\ a \o b \in Seq(Token)
  OBVIOUS

LEMMA UptoKey ==
  ASSUME TemplateTypeOK, NEW D \in SUBSET KeyWord, NEW i \in 3 .. Len(given), Cut(i - 3),
         given[i - 2] = "%(", given[i - 1] \in Word, given[i] = ")s"
  PROVE  Upto(D, i) = Upto(D, i - 3) \o KeyOr(D, given[i - 1])
<1> DEFINE k == given[i - 1]
           a == Upto(D, i - 3)
<1>1. /\ i \in 1 .. Len(given) /\ i - 1 \in 1 .. Len(given) /\ i - 2 \in 1 .. Len(given)
      /\ i - 3 \in 0 .. Len(given) /\ (i - 2) + 1 = i - 1
      /\ (i - 1) - 1 = i - 2 /\ (i - 1) - 2 = i - 3 /\ (i - 2) - 1 = i - 3
      /\ (i - 2) - 2 = i - 4 /\ (i - 3) - 1 = i - 4 /\ (i - 1) + 1 = i
  BY GivenTokens
<1>2. ~KeyIn(D, i) /\ ~KeyIn(D, i - 1)
  BY TokenKinds DEF KeyIn
<1>3. ~KeyIn(D, i - 3) /\ ~KeyIn(D, i - 4)
  BY <1>1 DEF KeyIn, Cut
<1>4. KeyIn(D, i - 2) <=> k \in D
  BY <1>1, GivenTokens DEF KeyIn
<1>5. /\ Upto(D, i - 2) = a \o GivenPiece(D, i - 2)
      /\ Upto(D, i - 1) = Upto(D, i - 2) \o GivenPiece(D, i - 1)
      /\ Upto(D, i) = Upto(D, i - 1) \o GivenPiece(D, i)
      /\ a \in Seq(Token)
  BY <1>1, UptoNext
<1>8. k \in Word
  OBVIOUS
<1> HIDE DEF a
<1>6. CASE k \in D
  <2>1. /\ GivenPiece(D, i - 2) = Value(k) /\ GivenPiece(D, i - 1) = <<>>
        /\ GivenPiece(D, i) = <<>>
    BY <1>1, <1>2, <1>3, <1>4, <1>6 DEF GivenPiece
  <2>2. Value(k) \in Seq(Token)
    BY <1>6, ValueText
  <2>3. KeyOr(D, k) = Value(k)
    BY <1>6 DEF KeyOr
  <2> DEFINE v == Value(k)
  <2>4. Upto(D, i) = ((a \o v) \o <<>>) \o <<>>
    BY <1>5, <2>1, Zenon
  <2> HIDE DEF v
  <2>5. ((a \o v) \o <<>>) \o <<>> = a \o v
    BY <1>5, <2>2 DEF v
  <2> QED
    BY <2>3, <2>4, <2>5 DEF a, v
<1>7. CASE k \notin D
  <2>1. /\ GivenPiece(D, i - 2) = <<"%(">> /\ GivenPiece(D, i - 1) = <<k>>
        /\ GivenPiece(D, i) = <<")s">>
    BY <1>1, <1>2, <1>3, <1>4, <1>7 DEF GivenPiece
  <2>2. Upto(D, i) = ((a \o <<"%(">>) \o <<k>>) \o <<")s">>
    BY <1>5, <2>1, Zenon
  <2>3. KeyOr(D, k) = <<"%(", k, ")s">>
    BY <1>7 DEF KeyOr, KeyText
  <2> HIDE DEF k
  <2>4. ((a \o <<"%(">>) \o <<k>>) \o <<")s">> = a \o <<"%(", k, ")s">>
    <3> DEFINE x == <<"%(">>
               y == <<k>>
               z == <<")s">>
    <3>1. "%(" \in Token /\ k \in Token /\ ")s" \in Token
      BY <1>8 DEF Token
    <3>2. x \in Seq(Token) /\ y \in Seq(Token) /\ z \in Seq(Token)
      BY <3>1
    <3>3. (x \o y) \o z = <<"%(", k, ")s">>
      BY <3>1, ThreeTokens
    <3> HIDE DEF x, y, z
    <3>4. (a \o x) \o y = a \o (x \o y) /\ x \o y \in Seq(Token)
      BY <1>5, <3>2, Assoc, ZenonT(30)
    <3> DEFINE w == x \o y
    <3>5. a \in Seq(Token) /\ w \in Seq(Token) /\ z \in Seq(Token)
      BY <1>5, <3>2, <3>4
    <3> HIDE DEF w
    <3>6. (a \o w) \o z = a \o (w \o z)
      BY <3>5, Assoc, ZenonT(30)
    <3> QED
      BY <3>3, <3>4, <3>6, Zenon DEF x, y, z, w
  <2> QED
    BY <2>2, <2>3, <2>4 DEF a, k
<1> QED
  BY <1>6, <1>7

----------------------------------------------------------------------------
(* What the loop does to such a text *)

(* The condition of Expanded. *)
PlainCase == WellFormed(given) /\ \A k \in KeyWord : Plain(Value(k))

LEMMA ShortTexts ==
  /\ \A t \in Token : <<t>> \in Seq(Token) /\ (t \notin {"%(", ")s"} => Plain(<<t>>))
  /\ \A b : Plain(b) => Apart3(b)
  /\ \A k \in Word : Apart3(KeyText(k))
<1>1. ASSUME NEW t \in Token
      PROVE  <<t>> \in Seq(Token) /\ (t \notin {"%(", ")s"} => Plain(<<t>>))
  BY DEF Plain
<1>2. ASSUME NEW b, Plain(b) PROVE Apart3(b)
  BY <1>2 DEF Plain, Apart3
<1>3. ASSUME NEW k \in Word PROVE Apart3(KeyText(k))
  <2>1. \A j \in DOMAIN KeyText(k) : j \in {1, 2, 3}
    BY KeyTextFacts
  <2> QED
    BY <2>1, KeyTextFacts, TokenKinds DEF Apart3
<1> QED
  BY <1>1, <1>2, <1>3

LEMMA KeyOrFacts ==
  ASSUME TemplateTypeOK, PlainCase, NEW D \in SUBSET KeyWord, NEW j \in Word
  PROVE  KeyOr(D, j) \in Seq(Token) /\ Apart3(KeyOr(D, j))
<1>1. CASE j \in D
  BY <1>1, ValueText, ShortTexts DEF KeyOr, PlainCase
<1>2. CASE j \notin D
  BY <1>2, KeyTextFacts, ShortTexts DEF KeyOr
<1> QED
  BY <1>1, <1>2

LEMMA FilledKeyOr ==
  ASSUME TemplateTypeOK, PlainCase, NEW D \in SUBSET KeyWord, NEW k \in KeyWord, NEW j \in Word
  PROVE  Filled(KeyOr(D, j), k) = KeyOr(D \cup {k}, j)
<1>1. CASE j \in D
  <2>1. KeyOr(D, j) = Value(j) /\ KeyOr(D \cup {k}, j) = Value(j)
    BY <1>1 DEF KeyOr
  <2>2. Value(j) \in Seq(Token) /\ Plain(Value(j))
    BY <1>1, ValueText DEF PlainCase
  <2> QED
    BY <2>1, <2>2, FilledPlain
<1>2. CASE j \notin D /\ j = k
  BY <1>2, FilledKey DEF KeyOr
<1>3. CASE j \notin D /\ j # k
  BY <1>3, FilledOther DEF KeyOr
<1> QED
  BY <1>1, <1>2, <1>3

(* Replacing one more key of the template everywhere in the text.           *)
LEMMA FilledUpto ==
  ASSUME TemplateTypeOK, PlainCase, NEW D \in SUBSET KeyWord, NEW k \in KeyWord
  PROVE  Filled(Upto(D, Len(given)), k) = Upto(D \cup {k}, Len(given))
<1> DEFINE E == D \cup {k}
           S == {i \in 0 .. Len(given) : Filled(Upto(D, i), k) = Upto(E, i)}
<1>1. E \in SUBSET KeyWord
  OBVIOUS
<1> HIDE DEF E
<1>2. 0 \in S
  <2>1. <<>> \in Seq(Token) /\ Plain(<<>>) /\ 0 \in 0 .. Len(given)
    BY GivenTokens DEF Plain
  <2>2. Filled(<<>>, k) = <<>>
    BY <2>1, FilledPlain
  <2>3. Upto(D, 0) = <<>> /\ Upto(E, 0) = <<>>
    BY <1>1, UptoNext
  <2> QED
    BY <2>1, <2>2, <2>3, Zenon
<1>3. ASSUME NEW i \in 1 .. Len(given), i - 1 \in S, Cut(i - 1), given[i] \notin {"%(", ")s"}
      PROVE  i \in S
  <2> DEFINE a == Upto(D, i - 1)
             b == <<given[i]>>
  <2>1. a \in Seq(Token) /\ i \in 0 .. Len(given)
    <3>1. i - 1 \in 0 .. Len(given) /\ i \in 0 .. Len(given)
      BY GivenTokens
    <3> QED
      BY <3>1, UptoNext
  <2>2. b \in Seq(Token) /\ Plain(b) /\ Apart3(b)
    BY <1>3, GivenTokens, ShortTexts
  <2>3. Upto(D, i) = a \o b
    BY <1>3, UptoToken
  <2>4. Upto(E, i) = Upto(E, i - 1) \o b
    BY <1>1, <1>3, UptoToken
  <2> HIDE DEF b
  <2>5. Filled(a, k) = Upto(E, i - 1)
    BY <1>3
  <2> HIDE DEF a
  <2>6. Filled(a \o b, k) = Filled(a, k) \o Filled(b, k) /\ Filled(b, k) = b
    BY <2>1, <2>2, FilledConcat, FilledPlain
  <2>7. Filled(Upto(D, i), k) = Upto(E, i)
    BY <2>3, <2>4, <2>5, <2>6, Zenon
  <2> QED
    BY <2>1, <2>7
<1>4. ASSUME NEW i \in 3 .. Len(given), i - 3 \in S, Cut(i - 3),
             given[i - 2] = "%(", given[i - 1] \in Word, given[i] = ")s"
      PROVE  i \in S
  <2> DEFINE a == Upto(D, i - 3)
             b == KeyOr(D, given[i - 1])
             c == KeyOr(E, given[i - 1])
  <2>1. a \in Seq(Token) /\ i \in 0 .. Len(given)
    <3>1. i - 3 \in 0 .. Len(given) /\ i \in 0 .. Len(given)
      BY GivenTokens
    <3> QED
      BY <3>1, UptoNext
  <2>2. b \in Seq(Token) /\ Apart3(b)
    BY <1>4, KeyOrFacts
  <2>3. Upto(D, i) = a \o b
    BY <1>4, UptoKey
  <2>4. Upto(E, i) = Upto(E, i - 3) \o c
    BY <1>1, <1>4, UptoKey
  <2>5. Filled(b, k) = c
    BY <1>4, FilledKeyOr DEF E
  <2>6. Filled(a, k) = Upto(E, i - 3)
    BY <1>4
  <2> HIDE DEF a, b, c
  <2>7. Filled(a \o b, k) = Filled(a, k) \o Filled(b, k)
    BY <2>1, <2>2, FilledConcat
  <2>8. Filled(Upto(D, i), k) = Upto(E, i)
    BY <2>3, <2>4, <2>5, <2>6, <2>7, Zenon
  <2> QED
    BY <2>1, <2>8
<1> HIDE DEF S
<1>5. Len(given) \in S
  BY <1>2, <1>3, <1>4, BlockInduction DEF PlainCase
<1> QED
  BY <1>5 DEF S, E

(* The loop replaces the key it has found as Filled does.                   *)
LEMMA ReplacedIsFilled ==
  ASSUME TemplateTypeOK, NEW k \in KeyWord, Found = <<k>>
  PROVE  Replaced(Value(k)) = Filled(template, k)
<1>1. template \in Seq(Token) /\ Len(template) \in Nat
  BY DEF TemplateTypeOK
<1>2. Len(Found) = 1 /\ <<"%(">> \o Found \o <<")s">> = <<"%(", k, ")s">>
  <2>1. (<<"%(">> \o <<k>>) \o <<")s">> = <<"%(", k, ")s">>
    <3>1. "%(" \in Token /\ ")s" \in Token /\ k \in Token
      BY TokenKinds DEF Token
    <3> QED
      BY <3>1, ThreeTokens
  <2>2. Len(<<k>>) = 1
    OBVIOUS
  <2> QED
    BY <2>1, <2>2, Zenon
<1>3. ASSUME NEW i \in Nat, i >= 1 PROVE At(i) <=> KeyAt(template, k, i)
  <2>1. At(i) <=> i + 2 =< Len(template) /\ SubSeq(template, i, i + 2) = <<"%(", k, ")s">>
    <3>1. i + Len(Found) + 1 = i + 2
      BY <1>2
    <3> QED
      BY <1>2, <3>1, Zenon DEF At
  <2>2. ASSUME i + 2 =< Len(template)
        PROVE  SubSeq(template, i, i + 2) = <<"%(", k, ")s">>
                 <=> template[i] = "%(" /\ template[i + 1] = k /\ template[i + 2] = ")s"
    <3> DEFINE s == SubSeq(template, i, i + 2)
    <3>1. /\ s \in Seq(Token) /\ Len(s) = 3
          /\ s[1] = template[i] /\ s[2] = template[i + 1] /\ s[3] = template[i + 2]
      <4>1. /\ i \in 1 .. Len(template) /\ i + 2 \in 1 .. Len(template)
            /\ (i + 2) - i + 1 = 3
        BY <1>1, <1>3, <2>2
      <4>2. s \in Seq(Token) /\ Len(s) = 3
        BY <1>1, <4>1
      <4>3. \A x \in 1 .. 3 : s[x] = template[i + x - 1]
        BY <1>1, <4>1
      <4>4. i + 1 - 1 = i /\ i + 2 - 1 = i + 1 /\ i + 3 - 1 = i + 2
        OBVIOUS
      <4> QED
        BY <4>2, <4>3, <4>4
    <3> HIDE DEF s
    <3>2. s = <<s[1], s[2], s[3]>>
      BY <3>1
    <3> QED
      BY <3>1, <3>2 DEF s
  <2> QED
    BY <1>3, <2>1, <2>2 DEF KeyAt
<1>4. ASSUME NEW i \in 1 .. Len(template)
      PROVE  Covered(i) <=> \/ KeyAt(template, k, i) \/ KeyAt(template, k, i - 1)
                            \/ KeyAt(template, k, i - 2)
  <2>1. Covered(i) <=> \E j \in i - 2 .. i : j >= 1 /\ At(j)
    BY <1>1, <1>2 DEF Covered
  <2>2. \A j \in i - 2 .. i : j >= 1 => (At(j) <=> KeyAt(template, k, j))
    BY <1>3
  <2>3. \A j \in i - 2 .. i : j < 1 => ~KeyAt(template, k, j)
    BY DEF KeyAt
  <2>4. \A j : j \in i - 2 .. i <=> j \in {i - 2, i - 1, i}
    OBVIOUS
  <2> QED
    BY <2>1, <2>2, <2>3, <2>4
<1>5. ASSUME NEW i \in 1 .. Len(template)
      PROVE  (IF At(i) THEN Value(k) ELSE IF Covered(i) THEN <<>> ELSE <<template[i]>>)
               = Piece(template, k, i)
  BY <1>3, <1>4 DEF Piece
<1> QED
  BY <1>5 DEF Replaced, Filled, PiecesOf

----------------------------------------------------------------------------
(* The keys that are left *)

(* The keys of the template.                                                *)
KeysGiven == {given[j + 1] : j \in {i \in 1 .. Len(given) : given[i] = "%("}}

(* Whatever begins like a key is a key of the template outside D.           *)
OnlyKeys(D, text) ==
  \A p \in 1 .. Len(text) :
    text[p] = "%(" =>
      p + 2 =< Len(text) /\ text[p + 1] \in KeysGiven \ D /\ text[p + 2] = ")s"

HasKey(text) ==
  \E p \in 1 .. Len(text) :
    p + 2 =< Len(text) /\ text[p] = "%(" /\ text[p + 1] \in Word /\ text[p + 2] = ")s"

LEMMA OnlyKeysConcat ==
  ASSUME NEW D, NEW a \in Seq(Token), NEW b \in Seq(Token), OnlyKeys(D, a), OnlyKeys(D, b)
  PROVE  OnlyKeys(D, a \o b)
<1> DEFINE c == a \o b
<1>1. /\ c \in Seq(Token) /\ Len(c) = Len(a) + Len(b) /\ Len(a) \in Nat /\ Len(b) \in Nat
      /\ \A i \in 1 .. Len(a) : c[i] = a[i]
      /\ \A i \in 1 .. Len(b) : c[Len(a) + i] = b[i]
  OBVIOUS
<1> HIDE DEF c
<1>2. ASSUME NEW p \in 1 .. Len(c), c[p] = "%("
      PROVE  p + 2 =< Len(c) /\ c[p + 1] \in KeysGiven \ D /\ c[p + 2] = ")s"
  <2>1. CASE p =< Len(a)
    <3>1. p \in 1 .. Len(a) /\ a[p] = "%("
      BY <1>1, <1>2, <2>1
    <3>2. p + 2 =< Len(a) /\ a[p + 1] \in KeysGiven \ D /\ a[p + 2] = ")s"
      BY <3>1 DEF OnlyKeys
    <3>3. p + 1 \in 1 .. Len(a) /\ p + 2 \in 1 .. Len(a) /\ p + 2 =< Len(c)
      BY <1>1, <3>1, <3>2
    <3> QED
      BY <1>1, <3>2, <3>3
  <2>2. CASE p > Len(a)
    <3> DEFINE q == p - Len(a)
    <3>1. q \in 1 .. Len(b) /\ p = Len(a) + q
      BY <1>1, <2>2
    <3> HIDE DEF q
    <3>2. b[q] = "%("
      BY <1>1, <1>2, <3>1
    <3>3. q + 2 =< Len(b) /\ b[q + 1] \in KeysGiven \ D /\ b[q + 2] = ")s"
      BY <3>1, <3>2 DEF OnlyKeys
    <3>4. /\ q + 1 \in 1 .. Len(b) /\ q + 2 \in 1 .. Len(b) /\ p + 2 =< Len(c)
          /\ p + 1 = Len(a) + (q + 1) /\ p + 2 = Len(a) + (q + 2)
      BY <1>1, <3>1, <3>3
    <3> QED
      BY <1>1, <3>3, <3>4
  <2> QED
    BY <1>1, <2>1, <2>2
<1> QED
  BY <1>2 DEF OnlyKeys, c

LEMMA HasKeyConcat ==
  ASSUME NEW a \in Seq(Token), NEW b \in Seq(Token), HasKey(a) \/ HasKey(b)
  PROVE  HasKey(a \o b)
<1> DEFINE c == a \o b
<1>1. /\ c \in Seq(Token) /\ Len(c) = Len(a) + Len(b) /\ Len(a) \in Nat /\ Len(b) \in Nat
      /\ \A i \in 1 .. Len(a) : c[i] = a[i]
      /\ \A i \in 1 .. Len(b) : c[Len(a) + i] = b[i]
  OBVIOUS
<1> HIDE DEF c
<1>2. CASE HasKey(a)
  <2>1. PICK p \in 1 .. Len(a) :
          p + 2 =< Len(a) /\ a[p] = "%(" /\ a[p + 1] \in Word /\ a[p + 2] = ")s"
    BY <1>2 DEF HasKey
  <2>2. /\ p + 1 \in 1 .. Len(a) /\ p + 2 \in 1 .. Len(a)
        /\ p \in 1 .. Len(c) /\ p + 2 =< Len(c)
    BY <1>1, <2>1
  <2>3. c[p] = "%(" /\ c[p + 1] \in Word /\ c[p + 2] = ")s"
    BY <1>1, <2>1, <2>2
  <2> QED
    BY <2>2, <2>3 DEF HasKey, c
<1>3. CASE HasKey(b)
  <2>1. PICK q \in 1 .. Len(b) :
          q + 2 =< Len(b) /\ b[q] = "%(" /\ b[q + 1] \in Word /\ b[q + 2] = ")s"
    BY <1>3 DEF HasKey
  <2> DEFINE p == Len(a) + q
  <2>2. /\ q + 1 \in 1 .. Len(b) /\ q + 2 \in 1 .. Len(b)
        /\ p \in 1 .. Len(c) /\ p + 2 =< Len(c)
        /\ p + 1 = Len(a) + (q + 1) /\ p + 2 = Len(a) + (q + 2)
    BY <1>1, <2>1
  <2>3. c[Len(a) + q] = "%(" /\ c[Len(a) + (q + 1)] \in Word /\ c[Len(a) + (q + 2)] = ")s"
    BY <1>1, <2>1, <2>2
  <2>4. c[p] = "%(" /\ c[p + 1] \in Word /\ c[p + 2] = ")s"
    BY <2>2, <2>3
  <2> HIDE DEF p
  <2> QED
    BY <2>2, <2>4 DEF HasKey, c
<1> QED
  BY <1>2, <1>3

LEMMA OnlyKeysPlain ==
  ASSUME NEW D, NEW text \in Seq(Token), Plain(text)
  PROVE  OnlyKeys(D, text)
  BY DEF Plain, OnlyKeys

(* In the template with D replaced only the other keys are left, ...        *)
LEMMA OnlyOthersLeft ==
  ASSUME TemplateTypeOK, PlainCase, NEW D \in SUBSET KeyWord
  PROVE  OnlyKeys(D, Upto(D, Len(given)))
<1> DEFINE S == {i \in 0 .. Len(given) : OnlyKeys(D, Upto(D, i))}
<1>1. 0 \in S
  <2>1. <<>> \in Seq(Token) /\ Plain(<<>>) /\ 0 \in 0 .. Len(given)
    BY GivenTokens DEF Plain
  <2>2. OnlyKeys(D, <<>>)
    BY <2>1, OnlyKeysPlain
  <2> QED
    BY <2>1, <2>2, UptoNext
<1>2. ASSUME NEW i \in 1 .. Len(given), i - 1 \in S, Cut(i - 1), given[i] \notin {"%(", ")s"}
      PROVE  i \in S
  <2>1. i - 1 \in 0 .. Len(given) /\ i \in 0 .. Len(given)
    BY GivenTokens
  <2>2. Upto(D, i - 1) \in Seq(Token) /\ OnlyKeys(D, Upto(D, i - 1))
    BY <1>2, <2>1, UptoNext
  <2>3. <<given[i]>> \in Seq(Token) /\ OnlyKeys(D, <<given[i]>>)
    BY <1>2, GivenTokens, ShortTexts, OnlyKeysPlain
  <2>4. OnlyKeys(D, Upto(D, i - 1) \o <<given[i]>>)
    BY <2>2, <2>3, OnlyKeysConcat
  <2> QED
    BY <1>2, <2>1, <2>4, UptoToken
<1>3. ASSUME NEW i \in 3 .. Len(given), i - 3 \in S, Cut(i - 3),
             given[i - 2] = "%(", given[i - 1] \in Word, given[i] = ")s"
      PROVE  i \in S
  <2> DEFINE k == given[i - 1]
  <2>1. /\ i - 3 \in 0 .. Len(given) /\ i \in 0 .. Len(given)
        /\ i - 2 \in 1 .. Len(given) /\ (i - 2) + 1 = i - 1
    BY GivenTokens
  <2>2. Upto(D, i - 3) \in Seq(Token) /\ OnlyKeys(D, Upto(D, i - 3))
    BY <1>3, <2>1, UptoNext
  <2>3. k \in KeysGiven
    BY <1>3, <2>1 DEF KeysGiven
  <2>4. k \in Word /\ KeyOr(D, k) \in Seq(Token)
    BY <1>3, KeyOrFacts
  <2>5. Upto(D, i) = Upto(D, i - 3) \o KeyOr(D, k)
    BY <1>3, UptoKey
  <2> HIDE DEF k
  <2>6. OnlyKeys(D, KeyOr(D, k))
    <3>1. CASE k \in D
      BY <2>4, <3>1, OnlyKeysPlain DEF KeyOr, PlainCase
    <3>2. CASE k \notin D
      <4>1. KeyOr(D, k) = KeyText(k)
        BY <3>2 DEF KeyOr
      <4>2. \A p \in 1 .. 3 : p \in {1, 2, 3}
        OBVIOUS
      <4>3. OnlyKeys(D, KeyText(k))
        BY <2>3, <2>4, <3>2, <4>2, KeyTextFacts, TokenKinds DEF OnlyKeys
      <4> QED
        BY <4>1, <4>3
    <3> QED
      BY <3>1, <3>2
  <2>7. OnlyKeys(D, Upto(D, i - 3) \o KeyOr(D, k))
    BY <2>2, <2>4, <2>6, OnlyKeysConcat
  <2> QED
    BY <2>1, <2>5, <2>7
<1> HIDE DEF S
<1>4. Len(given) \in S
  BY <1>1, <1>2, <1>3, BlockInduction DEF PlainCase
<1> QED
  BY <1>4 DEF S

(* ... and all of them are.                                                 *)
LEMMA OthersAreLeft ==
  ASSUME TemplateTypeOK, PlainCase, NEW D \in SUBSET KeyWord, ~(KeysGiven \subseteq D)
  PROVE  HasKey(Upto(D, Len(given)))
<1>1. PICK j \in 1 .. Len(given) : given[j] = "%(" /\ given[j + 1] \notin D
  BY DEF KeysGiven
<1> DEFINE S == {i \in 0 .. Len(given) : j < i => HasKey(Upto(D, i))}
<1>2. 0 \in S
  BY GivenTokens
<1>3. ASSUME NEW i \in 1 .. Len(given), i - 1 \in S, Cut(i - 1), given[i] \notin {"%(", ")s"}
      PROVE  i \in S
  <2>1. i - 1 \in 0 .. Len(given) /\ i \in 0 .. Len(given)
    BY GivenTokens
  <2> SUFFICES ASSUME j < i PROVE HasKey(Upto(D, i))
    BY <2>1
  <2>2. j < i - 1
    <3>1. j # i - 1
      BY <1>1, <1>3, <2>1 DEF Cut
    <3> QED
      BY <3>1
  <2>3. Upto(D, i - 1) \in Seq(Token) /\ HasKey(Upto(D, i - 1))
    BY <1>3, <2>1, <2>2, UptoNext
  <2>4. <<given[i]>> \in Seq(Token)
    BY GivenTokens
  <2>5. HasKey(Upto(D, i - 1) \o <<given[i]>>)
    BY <2>3, <2>4, HasKeyConcat
  <2> QED
    BY <1>3, <2>5, UptoToken
<1>4. ASSUME NEW i \in 3 .. Len(given), i - 3 \in S, Cut(i - 3),
             given[i - 2] = "%(", given[i - 1] \in Word, given[i] = ")s"
      PROVE  i \in S
  <2> DEFINE k == given[i - 1]
  <2>1. /\ i - 3 \in 0 .. Len(given) /\ i \in 0 .. Len(given) /\ (i - 2) + 1 = i - 1
    BY GivenTokens
  <2> SUFFICES ASSUME j < i PROVE HasKey(Upto(D, i))
    BY <2>1
  <2>2. Upto(D, i - 3) \in Seq(Token) /\ KeyOr(D, k) \in Seq(Token) /\ k \in Word
    BY <1>4, <2>1, UptoNext, KeyOrFacts
  <2>3. Upto(D, i) = Upto(D, i - 3) \o KeyOr(D, k)
    BY <1>4, UptoKey
  <2>4. HasKey(Upto(D, i - 3)) \/ HasKey(KeyOr(D, k))
    <3>1. CASE j < i - 3
      BY <1>4, <3>1
    <3>2. CASE j >= i - 3
      <4>1. j \in {i - 3, i - 2, i - 1}
        BY <3>2
      <4>2. j # i - 3
        BY <1>1, <1>4 DEF Cut
      <4>3. j = i - 2
        BY <1>1, <1>4, <4>1, <4>2, TokenKinds
      <4>4. k \notin D
        BY <1>1, <2>1, <4>3
      <4>5. KeyOr(D, k) = KeyText(k)
        BY <4>4 DEF KeyOr
      <4> HIDE DEF k
      <4>6. HasKey(KeyText(k))
        <5>1. 1 \in 1 .. Len(KeyText(k)) /\ 1 + 2 =< Len(KeyText(k)) /\ 1 + 1 = 2 /\ 1 + 2 = 3
          BY <2>2, KeyTextFacts
        <5> QED
          BY <2>2, <5>1, KeyTextFacts DEF HasKey
      <4> QED
        BY <4>5, <4>6
    <3> QED
      BY <3>1, <3>2
  <2> HIDE DEF k
  <2> QED
    BY <2>2, <2>3, <2>4, HasKeyConcat
<1> HIDE DEF S
<1>5. Len(given) \in S
  BY <1>2, <1>3, <1>4, BlockInduction DEF PlainCase
<1>6. j < Len(given)
  BY <1>1, GivenTokens, WellFormedParts DEF PlainCase
<1> QED
  BY <1>5, <1>6 DEF S

----------------------------------------------------------------------------
(* The expansion in one go, which Expanded compares with *)

ExpandedFrom(f, i) ==
  IF i > Len(given) THEN <<>>
  ELSE IF given[i] = "%(" THEN Value(given[i + 1]) \o f[i + 3]
  ELSE <<given[i]>> \o f[i + 1]

Expands(f) == \A i \in 1 .. Len(given) + 1 : f[i] = ExpandedFrom(f, i)

LEMMA ExpandsTypes ==
  ASSUME TemplateTypeOK, WellFormed(given), KeysGiven \subseteq KeyWord,
         NEW f \in [1 .. Len(given) + 1 -> Seq(Token)], NEW i \in 1 .. Len(given) + 1
  PROVE  ExpandedFrom(f, i) \in Seq(Token)
<1>1. CASE i > Len(given)
  <2>1. <<>> \in Seq(Token)
    OBVIOUS
  <2> QED
    BY <1>1, <2>1 DEF ExpandedFrom
<1>2. CASE i =< Len(given) /\ given[i] = "%("
  <2>1. i \in 1 .. Len(given) /\ i + 3 \in 1 .. Len(given) + 1
    BY <1>2, WellFormedParts, GivenTokens
  <2>2. given[i + 1] \in KeyWord
    BY <1>2, <2>1 DEF KeysGiven
  <2>3. Value(given[i + 1]) \in Seq(Token) /\ f[i + 3] \in Seq(Token)
    BY <2>1, <2>2, ValueText
  <2>4. ExpandedFrom(f, i) = Value(given[i + 1]) \o f[i + 3]
    <3>1. ~(i > Len(given))
      BY <1>2, GivenTokens
    <3> QED
      BY <1>2, <3>1, Zenon DEF ExpandedFrom
  <2> DEFINE v == Value(given[i + 1])
  <2> HIDE DEF v
  <2>5. v \o f[i + 3] \in Seq(Token)
    BY <2>3 DEF v
  <2> QED
    BY <2>4, <2>5 DEF v
<1>3. CASE i =< Len(given) /\ given[i] # "%("
  <2>1. i \in 1 .. Len(given) /\ i + 1 \in 1 .. Len(given) + 1
    BY <1>3, GivenTokens
  <2>2. <<given[i]>> \in Seq(Token) /\ f[i + 1] \in Seq(Token)
    BY <2>1, GivenTokens, ShortTexts
  <2> QED
    BY <1>3, <2>1, <2>2, GivenTokens DEF ExpandedFrom
<1> QED
  BY <1>1, <1>2, <1>3, GivenTokens

(* It goes by what stands after its place only.                             *)
LEMMA ExpandsAhead ==
  ASSUME TemplateTypeOK, NEW f, NEW g, NEW i \in 1 .. Len(given) + 1, WellFormed(given),
         \A j \in i + 1 .. Len(given) + 1 : f[j] = g[j]
  PROVE  ExpandedFrom(f, i) = ExpandedFrom(g, i)
<1>1. CASE i > Len(given)
  BY <1>1 DEF ExpandedFrom
<1>2. CASE i =< Len(given) /\ given[i] = "%("
  <2>1. i \in 1 .. Len(given) /\ i + 3 \in i + 1 .. Len(given) + 1
    BY <1>2, WellFormedParts, GivenTokens
  <2>2. f[i + 3] = g[i + 3]
    BY <2>1
  <2> QED
    BY <1>2, <2>2 DEF ExpandedFrom
<1>3. CASE i =< Len(given) /\ given[i] # "%("
  <2>1. i + 1 \in i + 1 .. Len(given) + 1
    BY <1>3, GivenTokens
  <2>2. f[i + 1] = g[i + 1]
    BY <2>1
  <2> QED
    BY <1>3, <2>2 DEF ExpandedFrom
<1> QED
  BY <1>1, <1>2, <1>3, GivenTokens

LEMMA ExpandsExists ==
  ASSUME TemplateTypeOK, WellFormed(given), KeysGiven \subseteq KeyWord
  PROVE  \E f \in [1 .. Len(given) + 1 -> Seq(Token)] : Expands(f)
<1> DEFINE n == Len(given)
           F == [1 .. n + 1 -> Seq(Token)]
           Ahead(f, m) == \A i \in n + 1 - m .. n + 1 : f[i] = ExpandedFrom(f, i)
           R == {m \in Nat : m =< n => \E f \in F : Ahead(f, m)}
<1>0. n \in Nat
  BY GivenTokens
<1> HIDE DEF n
<1>1. 0 \in R
  <2> DEFINE f == [i \in 1 .. n + 1 |-> <<>>]
  <2>1. <<>> \in Seq(Token)
    OBVIOUS
  <2>2. f \in F
    BY <2>1
  <2>3. ASSUME NEW i \in n + 1 - 0 .. n + 1 PROVE f[i] = ExpandedFrom(f, i)
    <3>1. i > n /\ i \in 1 .. n + 1
      BY <1>0
    <3> QED
      BY <3>1 DEF ExpandedFrom, n
  <2> HIDE DEF f
  <2> QED
    BY <2>2, <2>3
<1>2. ASSUME NEW m \in Nat, m \in R PROVE m + 1 \in R
  <2> SUFFICES ASSUME m + 1 =< n PROVE \E g \in F : Ahead(g, m + 1)
    OBVIOUS
  <2>1. PICK f \in F : Ahead(f, m)
    BY <1>0, <1>2
  <2> DEFINE i == n - m
             x == ExpandedFrom(f, i)
             g == [f EXCEPT ![i] = x]
  <2>2. i \in 1 .. n + 1 /\ n + 1 - (m + 1) = i /\ n + 1 - m = i + 1
    BY <1>0
  <2> HIDE DEF i
  <2>3. x \in Seq(Token)
    BY <2>2, ExpandsTypes DEF n
  <2> HIDE DEF x
  <2>4. g \in F /\ g[i] = x /\ \A j \in i + 1 .. n + 1 : g[j] = f[j]
    BY <1>0, <2>2, <2>3
  <2> HIDE DEF g
  <2>5. ASSUME NEW j \in i .. n + 1 PROVE g[j] = ExpandedFrom(g, j)
    <3>1. /\ j \in 1 .. n + 1
          /\ \A l \in j + 1 .. n + 1 : l \in i + 1 .. n + 1
      BY <1>0, <2>2
    <3>2. \A l \in j + 1 .. n + 1 : f[l] = g[l]
      BY <2>4, <3>1
    <3>3. ExpandedFrom(f, j) = ExpandedFrom(g, j)
      BY <3>1, <3>2, ExpandsAhead DEF n
    <3>4. g[j] = ExpandedFrom(f, j)
      <4>1. CASE j = i
        BY <2>4, <4>1 DEF x
      <4>2. CASE j # i
        <5>1. j \in i + 1 .. n + 1
          BY <1>0, <2>2, <4>2
        <5> QED
          BY <2>1, <2>2, <2>4, <5>1
      <4> QED
        BY <4>1, <4>2
    <3> QED
      BY <3>3, <3>4
  <2> QED
    BY <2>2, <2>4, <2>5
<1>3. \A m \in Nat : m \in R
  <2> HIDE DEF R
  <2> QED
    BY <1>1, <1>2, NatSetInduction
<1>4. PICK f \in F : Ahead(f, n)
  BY <1>0, <1>3
<1>5. n + 1 - n = 1
  BY <1>0
<1> QED
  BY <1>4, <1>5 DEF Expands, n

LEMMA ExpansionFrom ==
  ASSUME TemplateTypeOK, WellFormed(given), KeysGiven \subseteq KeyWord
  PROVE  \E f \in [1 .. Len(given) + 1 -> Seq(Token)] :
           Expands(f) /\ Expansion(given) = f[1]
<1> DEFINE n == Len(given)
           Fixed(f) == f = [i \in 1 .. n + 1 |->
                              IF i > n THEN <<>>
                              ELSE IF given[i] = "%(" THEN Value(given[i + 1]) \o f[i + 3]
                              ELSE <<given[i]>> \o f[i + 1]]
           from == CHOOSE f : Fixed(f)
<1>0. n \in Nat
  BY GivenTokens
<1>1. PICK f \in [1 .. n + 1 -> Seq(Token)] : Expands(f)
  BY ExpandsExists
<1>2. Fixed(f)
  BY <1>1 DEF Expands, ExpandedFrom
<1>3. Fixed(from)
  BY <1>2
<1>4. Expansion(given) = from[1]
  BY DEF Expansion
<1> HIDE DEF from
<1>5. \A i \in 1 .. n + 1 : from[i] = ExpandedFrom(from, i)
  <2>1. \A i \in 1 .. n + 1 :
          [j \in 1 .. n + 1 |-> IF j > n THEN <<>>
                              ELSE IF given[j] = "%(" THEN Value(given[j + 1]) \o from[j + 3]
                              ELSE <<given[j]>> \o from[j + 1]][i] = ExpandedFrom(from, i)
    BY DEF ExpandedFrom
  <2> QED
    BY <1>3, <2>1
<1> HIDE DEF Fixed, n
<1> DEFINE R == {m \in Nat : m =< n => \A i \in n + 1 - m .. n + 1 : from[i] = f[i]}
<1>6. 0 \in R
  <2> SUFFICES ASSUME NEW i \in n + 1 - 0 .. n + 1 PROVE from[i] = f[i]
    OBVIOUS
  <2>1. i \in 1 .. n + 1 /\ i > n
    BY <1>0
  <2>2. ExpandedFrom(from, i) = <<>> /\ ExpandedFrom(f, i) = <<>>
    BY <2>1 DEF ExpandedFrom, n
  <2> QED
    BY <1>1, <1>5, <2>1, <2>2 DEF Expands, n
<1>7. ASSUME NEW m \in Nat, m \in R PROVE m + 1 \in R
  <2> SUFFICES ASSUME m + 1 =< n, NEW i \in n + 1 - (m + 1) .. n + 1 PROVE from[i] = f[i]
    OBVIOUS
  <2>1. \A j \in n + 1 - m .. n + 1 : from[j] = f[j]
    BY <1>0, <1>7
  <2>2. i \in 1 .. n + 1 /\ \A j \in i + 1 .. n + 1 : j \in n + 1 - m .. n + 1
    BY <1>0
  <2>3. ExpandedFrom(from, i) = ExpandedFrom(f, i)
    BY <2>1, <2>2, ExpandsAhead DEF n
  <2> QED
    BY <1>1, <1>5, <2>2, <2>3 DEF Expands, n
<1>8. n \in R
  <2> HIDE DEF R
  <2> QED
    BY <1>0, <1>6, <1>7, NatSetInduction
<1>9. from[1] = f[1]
  <2>1. 1 \in n + 1 - n .. n + 1
    BY <1>0
  <2> QED
    BY <1>0, <1>8, <2>1
<1> QED
  BY <1>1, <1>4, <1>9 DEF n

(* The template with all its keys replaced is its expansion.                *)
LEMMA AllReplaced ==
  ASSUME TemplateTypeOK, PlainCase, NEW D \in SUBSET KeyWord, KeysGiven \subseteq D
  PROVE  Upto(D, Len(given)) = Expansion(given)
<1>1. PICK f \in [1 .. Len(given) + 1 -> Seq(Token)] :
        Expands(f) /\ Expansion(given) = f[1]
  BY ExpansionFrom DEF PlainCase
<1>2. /\ \A i \in 1 .. Len(given) : given[i] \notin {"%("} => f[i] = <<given[i]>> \o f[i + 1]
      /\ \A i \in 1 .. Len(given) : given[i] = "%(" => f[i] = Value(given[i + 1]) \o f[i + 3]
      /\ f[Len(given) + 1] = <<>>
  <2>1. \A i \in 1 .. Len(given) : i \in 1 .. Len(given) + 1 /\ ~(i > Len(given))
    BY GivenTokens
  <2>2. Len(given) + 1 \in 1 .. Len(given) + 1 /\ Len(given) + 1 > Len(given)
    BY GivenTokens
  <2>3. \A i \in 1 .. Len(given) : f[i] = ExpandedFrom(f, i)
    BY <1>1, <2>1, Zenon DEF Expands
  <2>4. f[Len(given) + 1] = ExpandedFrom(f, Len(given) + 1)
    BY <1>1, <2>2, Zenon DEF Expands
  <2>5. \A i \in 1 .. Len(given) : given[i] \notin {"%("} => f[i] = <<given[i]>> \o f[i + 1]
    BY <2>1, <2>3, Zenon DEF ExpandedFrom
  <2>6. \A i \in 1 .. Len(given) : given[i] = "%(" => f[i] = Value(given[i + 1]) \o f[i + 3]
    BY <2>1, <2>3, Zenon DEF ExpandedFrom
  <2>7. f[Len(given) + 1] = <<>>
    BY <2>2, <2>4, Zenon DEF ExpandedFrom
  <2> QED
    BY <2>5, <2>6, <2>7, Zenon
<1> DEFINE S == {i \in 0 .. Len(given) : Upto(D, i) \o f[i + 1] = f[1]}
<1>3. 0 \in S
  <2>1. 0 \in 0 .. Len(given) /\ 1 \in 1 .. Len(given) + 1
    BY GivenTokens
  <2>2. f[1] \in Seq(Token)
    BY <2>1
  <2>3. <<>> \o f[1] = f[1]
    BY <2>2
  <2>4. Upto(D, 0) = <<>>
    BY UptoNext
  <2> QED
    BY <2>1, <2>3, <2>4
<1>4. ASSUME NEW i \in 1 .. Len(given), i - 1 \in S, Cut(i - 1), given[i] \notin {"%(", ")s"}
      PROVE  i \in S
  <2> DEFINE a == Upto(D, i - 1)
             b == <<given[i]>>
             c == f[i + 1]
  <2>1. i - 1 \in 0 .. Len(given) /\ i \in 0 .. Len(given) /\ i + 1 \in 1 .. Len(given) + 1
    BY GivenTokens
  <2>2. a \in Seq(Token) /\ b \in Seq(Token) /\ c \in Seq(Token)
    BY <2>1, UptoNext, GivenTokens, ShortTexts
  <2>3. Upto(D, i) = a \o b
    BY <1>4, UptoToken
  <2>4. f[i] = b \o c
    BY <1>2, <1>4
  <2>5. a \o f[i] = f[1]
    <3>1. (i - 1) + 1 = i
      OBVIOUS
    <3> QED
      BY <1>4, <3>1
  <2> HIDE DEF a, b, c
  <2>6. (a \o b) \o c = a \o (b \o c)
    BY <2>2, Assoc, Zenon
  <2>7. Upto(D, i) \o c = f[1]
    BY <2>3, <2>4, <2>5, <2>6, Zenon
  <2> QED
    BY <2>1, <2>7 DEF c
<1>5. ASSUME NEW i \in 3 .. Len(given), i - 3 \in S, Cut(i - 3),
             given[i - 2] = "%(", given[i - 1] \in Word, given[i] = ")s"
      PROVE  i \in S
  <2> DEFINE k == given[i - 1]
             a == Upto(D, i - 3)
             b == Value(k)
             c == f[i + 1]
  <2>1. /\ i - 3 \in 0 .. Len(given) /\ i \in 0 .. Len(given)
        /\ i + 1 \in 1 .. Len(given) + 1 /\ i - 2 \in 1 .. Len(given)
        /\ (i - 2) + 1 = i - 1 /\ (i - 2) + 3 = i + 1 /\ (i - 3) + 1 = i - 2
    BY GivenTokens
  <2>2. k \in D
    BY <1>5, <2>1 DEF KeysGiven
  <2>3. a \in Seq(Token) /\ b \in Seq(Token) /\ c \in Seq(Token)
    BY <2>1, <2>2, UptoNext, ValueText
  <2>4. Upto(D, i) = a \o b
    BY <1>5, <2>2, UptoKey DEF KeyOr
  <2>5. f[i - 2] = b \o c
    BY <1>2, <1>5, <2>1
  <2>6. a \o f[i - 2] = f[1]
    BY <1>5, <2>1
  <2> HIDE DEF a, b, c
  <2>7. (a \o b) \o c = a \o (b \o c)
    BY <2>3, Assoc, Zenon
  <2>8. Upto(D, i) \o c = f[1]
    BY <2>4, <2>5, <2>6, <2>7, Zenon
  <2> QED
    BY <2>1, <2>8 DEF c
<1>6. Len(given) \in S
  <2> HIDE DEF S
  <2> QED
    BY <1>3, <1>4, <1>5, BlockInduction DEF PlainCase
<1> DEFINE u == Upto(D, Len(given))
<1>7. u \in Seq(Token) /\ u \o f[Len(given) + 1] = f[1]
  BY <1>6, UptoNext
<1> HIDE DEF u
<1>8. u \o <<>> = u
  BY <1>7
<1> QED
  BY <1>1, <1>2, <1>7, <1>8 DEF u

----------------------------------------------------------------------------
(* FormatTemplate keeps to the template with some of its keys replaced *)

LEMMA NoneReplaced ==
  ASSUME TemplateTypeOK
  PROVE  Upto({}, Len(given)) = given
<1>1. \A j \in 1 .. Len(given) : GivenPiece({}, j) = <<given[j]>>
  BY DEF GivenPiece, KeyIn
<1>2. [j \in 1 .. Len(given) |-> GivenPiece({}, j)] = [j \in 1 .. Len(given) |-> <<given[j]>>]
  BY <1>1
<1> QED
  BY <1>2, GivenTokens, FlatTokens DEF Upto

LEMMA FoundKey ==
  ASSUME TemplateTypeOK, NEW D, OnlyKeys(D, template), Matches(template) # {}
  PROVE  \E k \in KeysGiven \ D : Found = <<k>>
<1>1. PICK a \in 1 .. Len(template), b \in 1 .. Len(template) :
        /\ Match = <<a, b>> /\ a + 1 < b
        /\ template[a] = "%(" /\ template[b] = ")s"
        /\ \A i \in a + 1 .. b - 1 : template[i] \in Word
  BY FoundMatch DEF Matches
<1>2. template \in Seq(Token) /\ Len(template) \in Nat
  BY DEF TemplateTypeOK
<1>3. a + 2 =< Len(template) /\ template[a + 1] \in KeysGiven \ D /\ template[a + 2] = ")s"
  BY <1>1 DEF OnlyKeys
<1>4. b = a + 2
  <2>1. ASSUME b # a + 2 PROVE FALSE
    <3>1. a + 2 \in a + 1 .. b - 1
      BY <1>1, <2>1
    <3> QED
      BY <1>1, <1>3, <3>1, TokenKinds
  <2> QED
    BY <2>1
<1> DEFINE k == template[a + 1]
           s == SubSeq(template, a + 1, a + 1)
<1>5. Found = s
  <2>1. Match[1] + 1 = a + 1 /\ Match[2] - 1 = a + 1
    BY <1>1, <1>4
  <2> QED
    BY <2>1 DEF Found
<1>6. s \in Seq(Token) /\ Len(s) = 1 /\ s[1] = k
  <2> DEFINE i == a + 1
  <2>1. i \in 1 .. Len(template) /\ i - i + 1 = 1 /\ i + 1 - 1 = i
    BY <1>2, <1>3
  <2> HIDE DEF i
  <2>2. SubSeq(template, i, i) \in Seq(Token) /\ Len(SubSeq(template, i, i)) = 1
    BY <1>2, <2>1
  <2>3. \A x \in 1 .. 1 : SubSeq(template, i, i)[x] = template[i + x - 1]
    BY <1>2, <2>1
  <2>4. SubSeq(template, i, i)[1] = template[i]
    BY <2>1, <2>3
  <2> QED
    BY <2>2, <2>4 DEF i
<1>7. k \in KeysGiven \ D
  BY <1>3
<1> HIDE DEF s, k
<1>8. s = <<k>>
  BY <1>6
<1> QED
  BY <1>5, <1>7, <1>8

LEMMA KeyMatches ==
  ASSUME TemplateTypeOK, HasKey(template)
  PROVE  Matches(template) # {}
<1>1. template \in Seq(Token) /\ Len(template) \in Nat
  BY DEF TemplateTypeOK
<1>2. PICK p \in 1 .. Len(template) :
        /\ p + 2 =< Len(template)
        /\ template[p] = "%(" /\ template[p + 1] \in Word /\ template[p + 2] = ")s"
  BY DEF HasKey
<1> DEFINE m == <<p, p + 2>>
<1>3. m[1] = p /\ m[2] = p + 2 /\ m \in (1 .. Len(template)) \X (1 .. Len(template))
  BY <1>1, <1>2
<1>4. \A i \in p + 1 .. (p + 2) - 1 : i = p + 1
  OBVIOUS
<1> HIDE DEF m
<1>5. m \in Matches(template)
  BY <1>1, <1>2, <1>3, <1>4 DEF Matches
<1> QED
  BY <1>5

LEMMA SameCase ==
  ASSUME UNCHANGED <<given, formatVals>>
  PROVE  /\ PlainCase' <=> PlainCase
         /\ \A D : Upto(D, Len(given))' = Upto(D, Len(given))
  BY DEF PlainCase, Value, sanitizeFilename, Upto, GivenPiece, KeyIn

LEMMA SameText ==
  ASSUME UNCHANGED template
  PROVE  Matches(template)' = Matches(template) /\ (Known' <=> Known)
<1>1. Matches(template)' = Matches(template)
  BY DEF Matches
<1>2. Match' = Match
  BY <1>1, Zenon DEF Match
<1>3. Found' = Found
  BY <1>2, Zenon DEF Found
<1> QED
  BY <1>1, <1>3, Zenon DEF Known

(* The invariant: the text is the template with the keys in D replaced; the *)
(* function has returned where no key, or only an unknown one, was left.    *)
FillInv ==
  /\ TemplateTypeOK
  /\ PlainCase =>
       /\ \E D \in SUBSET KeyWord : template = Upto(D, Len(given))
       /\ result = "ok" => Matches(template) = {}
       /\ result = "error" => Matches(template) # {} /\ ~Known

LEMMA FillStart == TemplateInit => FillInv
<1> SUFFICES ASSUME TemplateInit PROVE FillInv
  OBVIOUS
<1>1. TemplateTypeOK
  BY TemplatesAssumption DEF TemplateInit, TemplateTypeOK
<1>2. template = Upto({}, Len(given))
  BY <1>1, NoneReplaced DEF TemplateInit
<1> QED
  BY <1>1, <1>2 DEF FillInv, TemplateInit

LEMMA FillStep == FillInv /\ TemplateInv /\ [TemplateNext]_templateVars => FillInv'
<1> SUFFICES ASSUME FillInv, TemplateInv, [TemplateNext]_templateVars PROVE FillInv'
  OBVIOUS
<1>1. TemplateTypeOK /\ TemplateTypeOK'
  BY TemplateStep DEF FillInv, TemplateInv
<1>2. CASE Replace
  <2> SUFFICES ASSUME PlainCase
               PROVE  /\ \E D \in SUBSET KeyWord : template' = Upto(D, Len(given))'
                      /\ result' = "none"
    BY <1>1, <1>2, SameCase DEF FillInv, Replace
  <2>1. PICK D \in SUBSET KeyWord : template = Upto(D, Len(given))
    BY DEF FillInv
  <2>2. OnlyKeys(D, template)
    BY <1>1, <2>1, OnlyOthersLeft
  <2>3. PICK k \in KeysGiven \ D : Found = <<k>>
    BY <1>1, <1>2, <2>2, FoundKey DEF Replace
  <2>4. Found[1] = k /\ k \in KeyWord
    <3>1. Found[1] = k
      BY <2>3
    <3> QED
      BY <1>2, <3>1 DEF Replace, Known
  <2>5. template' = Replaced(Value(k)) /\ UNCHANGED <<given, formatVals>> /\ result' = "none"
    BY <1>2, <2>4 DEF Replace
  <2>6. template' = Filled(Upto(D, Len(given)), k)
    <3>1. Replaced(Value(k)) = Filled(template, k)
      BY <1>1, <2>3, <2>4, ReplacedIsFilled
    <3> QED
      BY <2>1, <2>5, <3>1
  <2>7. template' = Upto(D \cup {k}, Len(given))
    BY <1>1, <2>4, <2>6, FilledUpto
  <2>8. template' = Upto(D \cup {k}, Len(given))'
    BY <2>5, <2>7, SameCase
  <2> QED
    BY <2>4, <2>5, <2>8
<1>3. CASE UnknownKey
  <2>1. /\ UNCHANGED <<template, given, formatVals>> /\ result' = "error"
        /\ Matches(template) # {} /\ ~Known
    BY <1>3 DEF UnknownKey
  <2>2. (Matches(template) # {})' /\ (~Known)'
    BY <2>1, SameText
  <2> QED
    BY <1>1, <2>1, <2>2, SameCase DEF FillInv
<1>4. CASE ReturnText
  <2>1. UNCHANGED <<template, given, formatVals>> /\ result' = "ok" /\ Matches(template) = {}
    BY <1>4 DEF ReturnText
  <2>2. (Matches(template) = {})'
    BY <2>1, SameText
  <2> QED
    BY <1>1, <2>1, <2>2, SameCase DEF FillInv
<1>5. CASE Over \/ UNCHANGED templateVars
  <2>1. UNCHANGED <<template, given, formatVals, result>>
    BY <1>5 DEF Over, templateVars
  <2>2. Matches(template)' = Matches(template) /\ (Known' <=> Known)
    BY <2>1, SameText
  <2> QED
    BY <1>1, <2>1, <2>2, SameCase DEF FillInv
<1> QED
  BY <1>2, <1>3, <1>4, <1>5 DEF TemplateNext

LEMMA FillExpanded == FillInv => Expanded
<1> SUFFICES ASSUME FillInv, PlainCase
             PROVE  LET known == \A i \in DOMAIN given : given[i] = "%(" => given[i + 1] \in KeyWord
                    IN  /\ result = "ok" => known /\ template = Expansion(given)
                        /\ result = "error" => ~known
  BY DEF Expanded, PlainCase
<1> DEFINE known == \A i \in DOMAIN given : given[i] = "%(" => given[i + 1] \in KeyWord
<1>1. TemplateTypeOK
  BY DEF FillInv
<1>2. PICK D \in SUBSET KeyWord : template = Upto(D, Len(given))
  BY DEF FillInv
<1>3. known <=> KeysGiven \subseteq KeyWord
  BY <1>1, GivenTokens DEF KeysGiven
<1> HIDE DEF known
<1>4. ASSUME result = "ok" PROVE known /\ template = Expansion(given)
  <2>1. ~HasKey(template)
    BY <1>1, <1>4, KeyMatches DEF FillInv
  <2>2. KeysGiven \subseteq D
    BY <1>1, <1>2, <2>1, OthersAreLeft
  <2> QED
    BY <1>1, <1>2, <1>3, <2>2, AllReplaced
<1>5. ASSUME result = "error" PROVE ~known
  <2>1. Matches(template) # {} /\ ~Known
    BY <1>5 DEF FillInv
  <2>2. OnlyKeys(D, template)
    BY <1>1, <1>2, OnlyOthersLeft
  <2>3. PICK k \in KeysGiven \ D : Found = <<k>>
    BY <1>1, <2>1, <2>2, FoundKey
  <2>4. Len(Found) = 1 /\ Found[1] = k
    BY <2>3
  <2>5. k \notin KeyWord
    BY <2>1, <2>4 DEF Known
  <2> QED
    BY <1>3, <2>3, <2>5
<1> QED
  BY <1>4, <1>5 DEF known

(* Where the values hold no parts of keys the loop, which takes one key     *)
(* after the other and replaces it everywhere, comes to the template with   *)
(* each key replaced in its place, and fails only for a key of the template *)
(* that is unknown.                                                         *)
THEOREM ExpandedInPlace == TemplateSpec => []Expanded
<1> QED
  BY FillStart, FillStep, FillExpanded, TemplateStart, TemplateStep, PTL DEF TemplateSpec
=============================================================================
