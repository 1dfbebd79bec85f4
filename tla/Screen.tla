------------------------------- MODULE Screen -------------------------------
(***************************************************************************)
(* The terminal (log/log.go): three status lines at the bottom, for the    *)
(* audio download, the video download and the merge, which every write     *)
(* paints anew, and above them the lines that were logged.                 *)
(*                                                                         *)
(* Three kinds of mutex meet here.  A progress holds its own one while it  *)
(* counts and prints (TotalProgress.mu, mergeProgress.mu), a Logger its    *)
(* own one while it formats and prints (Logger.mu), and both take          *)
(* progress.mu for each access to the status and the screen.  A status is  *)
(* stored in one critical section of progress.mu and printed in another.   *)
(*                                                                         *)
(* A status is the number of times its progress was updated: 0 stands for  *)
(* what is shown before that.  A message is one row, named after the       *)
(* goroutine and the number of its call.                                   *)
(***************************************************************************)
EXTENDS Naturals, Sequences

CONSTANTS
  Goroutines,
  Loggers,
  Ops,         \* what each goroutine does: update a category, use a Logger
  MaxOps,      \* bound: how much each of them does
  none         \* the holder of a free mutex

Category == {"audio", "video", "merge"}
progressOrder == <<"audio", "video", "merge">>

(* The mutex that an operation holds from its beginning to its end.        *)
MutexOf(op) == IF op \in {"audio", "video"} THEN "downloads" ELSE op
Mutex == {"downloads", "merge", "progress"} \cup Loggers

ASSUME OpsAssumption == Ops \in [Goroutines -> SUBSET (Category \cup Loggers)]
ASSUME MaxOpsAssumption == MaxOps \in Nat
ASSUME GoroutinesAssumption == Goroutines \cap (Category \cup {none}) = {}
ASSUME LoggersAssumption == Loggers \cap {"downloads", "progress", "audio", "video", "merge"} = {}

VARIABLES
  holder,      \* who holds each mutex
  count,       \* the updates of each category: the state of the progress
  status,      \* progress.status
  wroteStatus, \* progress.wroteStatus
  buf,         \* progress.buf: the rows to go up and the rows to print
  screen,      \* the rows on the terminal
  lbuf,        \* the buffer of each Logger
  pc,          \* "idle", "lock", "print", "store", "compose", "emit" or
               \* "unlock"
  doing,       \* the operation of each goroutine
  queue,       \* the categories it has to store and print
  message,     \* the status it is about to store
  calls,       \* how many operations it has started
  said         \* history: the calls of each goroutine that have logged

display == <<status, wroteStatus, buf, screen>>
vars == <<holder, count, display, lbuf, pc, doing, queue, message, calls, said>>

Row == [of : Goroutines \cup Category, n : Nat]
NoRow == [of |-> "merge", n |-> 0]  \* in a buffer nobody has used

TypeOK ==
  /\ holder \in [Mutex -> Goroutines \cup {none}]
  /\ count \in [Category -> Nat] /\ status \in [Category -> Nat]
  /\ wroteStatus \in BOOLEAN
  /\ buf \in [up : {0, 3}, rows : Seq(Row)]
  /\ screen \in Seq(Row)
  /\ lbuf \in [Loggers -> Row]
  /\ pc \in [Goroutines -> {"idle", "lock", "print", "store", "compose", "emit", "unlock"}]
  /\ doing \in [Goroutines -> Category \cup Loggers \cup {none}]
  /\ queue \in [Goroutines -> Seq(Category)]
  /\ message \in [Goroutines -> Nat]
  /\ calls \in [Goroutines -> 0 .. MaxOps]
  /\ said \in [Goroutines -> SUBSET Nat]

Init ==
  /\ holder = [m \in Mutex |-> none]
  /\ count = [c \in Category |-> 0] /\ status = [c \in Category |-> 0]
  /\ wroteStatus = FALSE
  /\ buf = [up |-> 0, rows |-> <<>>]
  /\ screen = <<>>
  /\ lbuf = [l \in Loggers |-> NoRow]
  /\ pc = [g \in Goroutines |-> "idle"]
  /\ doing = [g \in Goroutines |-> none]
  /\ queue = [g \in Goroutines |-> <<>>]
  /\ message = [g \in Goroutines |-> 0]
  /\ calls = [g \in Goroutines |-> 0]
  /\ said = [g \in Goroutines |-> {}]

Goes(g, place) == pc' = [pc EXCEPT ![g] = place]

(* A goroutine is about to update a progress or to log a line.             *)
Call(g, op) ==
  /\ pc[g] = "idle" /\ calls[g] < MaxOps
  /\ op \in Ops[g]
  /\ calls' = [calls EXCEPT ![g] = @ + 1]
  /\ doing' = [doing EXCEPT ![g] = op]
  /\ Goes(g, "lock")
  /\ UNCHANGED <<holder, count, display, lbuf, queue, message, said>>

----------------------------------------------------------------------------
(* The progresses *)

(* What printProgress and mergeProgress.updated pass to log.Progress, in   *)
(* this order: a change of one download prints both.                       *)
Prints(op) == IF op = "merge" THEN <<"merge">> ELSE <<"audio", "video">>

(* A mutant: the progress is counted and printed without its mutex.        *)
Update_Unlocked(g) ==
  /\ pc[g] = "lock" /\ doing[g] \in Category
  /\ count' = [count EXCEPT ![doing[g]] = @ + 1]
  /\ queue' = [queue EXCEPT ![g] = Prints(doing[g])]
  /\ Goes(g, "print")
  /\ UNCHANGED <<holder, display, lbuf, doing, message, calls, said>>

(* Progress.init, lost, requeued and done, and initTotal, mergedAudio,     *)
(* mergedVideo and done of the merge: under the mutex until they return.   *)
Update(g) ==
  /\ pc[g] = "lock" /\ doing[g] \in Category
  /\ holder[MutexOf(doing[g])] = none
  /\ holder' = [holder EXCEPT ![MutexOf(doing[g])] = g]
  /\ count' = [count EXCEPT ![doing[g]] = @ + 1]
  /\ queue' = [queue EXCEPT ![g] = Prints(doing[g])]
  /\ Goes(g, "print")
  /\ UNCHANGED <<display, lbuf, doing, message, calls, said>>

(* The message is formatted before log.Progress takes progress.mu.         *)
FormatStatus(g) ==
  /\ pc[g] = "print"
  /\ message' = [message EXCEPT ![g] = count[Head(queue[g])]]
  /\ Goes(g, "store")
  /\ UNCHANGED <<holder, count, display, lbuf, doing, queue, calls, said>>

(* The first critical section of log.Progress.                             *)
Store(g) ==
  /\ pc[g] = "store"
  /\ holder["progress"] = none
  /\ status' = [status EXCEPT ![Head(queue[g])] = message[g]]
  /\ Goes(g, "compose")
  /\ UNCHANGED <<holder, count, wroteStatus, buf, screen, lbuf, doing, queue, message, calls, said>>

(* A mutant: a Logger formats into its buffer without its mutex.           *)
Format_Unlocked(g) ==
  /\ pc[g] = "lock" /\ doing[g] \in Loggers
  /\ lbuf' = [lbuf EXCEPT ![doing[g]] = [of |-> g, n |-> calls[g]]]
  /\ Goes(g, "compose")
  /\ UNCHANGED <<holder, count, display, doing, queue, message, calls, said>>

(* Logger.output, up to doWrite. *)
Format(g) ==
  /\ pc[g] = "lock" /\ doing[g] \in Loggers
  /\ holder[doing[g]] = none
  /\ holder' = [holder EXCEPT ![doing[g]] = g]
  /\ lbuf' = [lbuf EXCEPT ![doing[g]] = [of |-> g, n |-> calls[g]]]
  /\ Goes(g, "compose")
  /\ UNCHANGED <<count, display, doing, queue, message, calls, said>>

----------------------------------------------------------------------------
(* doWrite *)

(* The row that doWrite gets as data, if any.                              *)
Data(g) == IF doing[g] \in Loggers THEN <<lbuf[doing[g]]>> ELSE <<>>

StatusRows ==
  [i \in 1 .. 3 |-> [of |-> progressOrder[i], n |-> status[progressOrder[i]]]]

Compose(g) ==
  /\ pc[g] = "compose"
  /\ holder["progress"] = none
  /\ holder' = [holder EXCEPT !["progress"] = g]
  /\ buf' = [up |-> IF wroteStatus THEN 3 ELSE 0, rows |-> Data(g) \o StatusRows]
  /\ wroteStatus' = TRUE
  /\ Goes(g, "emit")
  /\ UNCHANGED <<count, status, screen, lbuf, doing, queue, message, calls, said>>

(* The terminal: from the cursor on, rows are written over.                *)
Painted ==
  LET top == Len(screen) - buf.up
  IN  [i \in 1 .. top + Len(buf.rows) |->
         IF i =< top THEN screen[i] ELSE buf.rows[i - top]]

(* A mutant: the second line of a download's progress is forgotten.        *)
Rest_None(g) == <<>>

(* What the goroutine does next: the other download, or return.            *)
Rest(g) == IF queue[g] = <<>> THEN <<>> ELSE Tail(queue[g])

(* os.Stderr.Write, and the end of doWrite.                                *)
Emit(g) ==
  /\ pc[g] = "emit"
  /\ screen' = Painted
  /\ holder' = [holder EXCEPT !["progress"] = none]
  /\ queue' = [queue EXCEPT ![g] = Rest(g)]
  /\ Goes(g, IF Rest(g) = <<>> THEN "unlock" ELSE "print")
  /\ said' = IF doing[g] \in Loggers
             THEN [said EXCEPT ![g] = @ \cup {calls[g]}]
             ELSE said
  /\ UNCHANGED <<count, status, wroteStatus, buf, lbuf, doing, message, calls>>

(* A mutant: the mutex is not released.                                    *)
Unlock_Forgotten(g) ==
  /\ pc[g] = "unlock"
  /\ doing' = [doing EXCEPT ![g] = none]
  /\ Goes(g, "idle")
  /\ UNCHANGED <<holder, count, display, lbuf, queue, message, calls, said>>

(* The deferred Unlock of the progress or of the Logger.                   *)
Unlock(g) ==
  /\ pc[g] = "unlock"
  /\ holder' = [holder EXCEPT ![MutexOf(doing[g])] = none]
  /\ doing' = [doing EXCEPT ![g] = none]
  /\ Goes(g, "idle")
  /\ UNCHANGED <<count, display, lbuf, queue, message, calls, said>>

Step(g) ==
  \/ Update(g) \/ FormatStatus(g) \/ Store(g) \/ Format(g)
  \/ Compose(g) \/ Emit(g) \/ Unlock(g)

Terminated ==
  /\ \A g \in Goroutines : pc[g] = "idle" /\ calls[g] = MaxOps
  /\ UNCHANGED vars

Next ==
  \/ \E g \in Goroutines : Step(g) \/ (\E op \in Ops[g] : Call(g, op))
  \/ Terminated

Spec == Init /\ [][Next]_vars

(* Nobody sleeps or waits for anything else while it holds one of these    *)
(* mutexes, and Go's mutexes let everybody through in the end.             *)
FairSpec == Spec /\ \A g \in Goroutines : WF_vars(Step(g))

----------------------------------------------------------------------------
(* Properties *)

(* The status lines are the last three rows.                               *)
Above == Len(screen) - 3
Shown(c) ==
  IF screen = <<>> THEN 0
  ELSE screen[CHOOSE i \in Above + 1 .. Len(screen) : screen[i].of = c].n

(* Once an update has returned the screen shows it, or a later one, though *)
(* the two halves of log.Progress mix with those of other goroutines: what *)
(* the last update of a download has left behind is the final line.        *)
ScreenCurrent ==
  \A c \in Category : holder[MutexOf(c)] = none => Shown(c) = count[c]

(* No status line is ever replaced by an older one.                        *)
NeverOlder == [][\A c \in Category : Shown(c)' >= Shown(c)]_vars

(* Every logged line is on the screen once, in the order of its goroutine, *)
(* and above the status lines; no status line is left among them.          *)
LogKept ==
  /\ screen = <<>> => \A g \in Goroutines : said[g] = {}
  /\ screen # <<>> =>
       /\ Above >= 0
       /\ \A i \in 1 .. 3 : screen[Above + i].of = progressOrder[i]
       /\ \A i \in 1 .. Above : screen[i].of \in Goroutines
       /\ \A i, j \in 1 .. Above :
            screen[i].of = screen[j].of /\ i < j => screen[i].n < screen[j].n
       /\ \A g \in Goroutines :
            said[g] = {screen[i].n : i \in {k \in 1 .. Above : screen[k].of = g}}

(* Nobody waits for the screen for ever: whoever logs or counts returns.   *)
CallsReturn == \A g \in Goroutines : pc[g] # "idle" ~> pc[g] = "idle"
=============================================================================
