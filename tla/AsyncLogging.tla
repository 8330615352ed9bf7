----------------------------- MODULE AsyncLogging -----------------------------
(***************************************************************************)
(* async_logging: threads append log lines to the current buffer; when it  *)
(* is full it is set aside and the next one takes its place.  The logging  *)
(* thread collects the buffers from time to time, gives two empty ones in  *)
(* exchange, and writes what it has collected to the log file.             *)
(*                                                                         *)
(* append and the exchange are critical sections of mutex_ and one step    *)
(* each; wait_for leaves the mutex in between.  A log line is its number   *)
(* and its length, in a unit in which a buffer holds BufferSize.           *)
(***************************************************************************)
EXTENDS Naturals, Sequences

CONSTANTS
  BufferSize,    \* k_large_buffer
  Lengths,       \* the lengths of log lines
  DropAbove,     \* more buffers than this (25) at once are too many
  Null,          \* the null std::unique_ptr
  MaxLines       \* bound: log lines ever appended

ASSUME LoggingAssumption ==
  /\ BufferSize \in Nat \ {0}
  /\ Lengths \subseteq Nat
  /\ DropAbove \in Nat /\ DropAbove >= 2
  /\ MaxLines \in Nat

VARIABLES
  running,      \* running_
  control,      \* where the caller of start() and stop() is
  pc,           \* where the logging thread is
  signaled,     \* the wait on cond_ was notified
  current,      \* current_buffer_
  next,         \* next_buffer_
  buffers,      \* buffers_: full buffers
  spare1,       \* newBuffer1
  spare2,       \* newBuffer2
  toWrite,      \* buffersToWrite
  written,      \* the lines in the log file
  appended,     \* history: how many lines were appended
  dropped       \* history: the lines that were thrown away

producerVars == <<current, next, buffers>>
threadVars == <<spare1, spare2, toWrite, written>>
vars == <<running, control, pc, signaled, producerVars, threadVars, appended, dropped>>

Lines == 1..MaxLines
Buffer == [lines : Seq(Lines), used : 0..BufferSize]
Empty == [lines |-> <<>>, used |-> 0]

ASSUME NullAssumption == Null \notin Buffer

(* off: not started; check: at the test of the while; collect: about to    *)
(* take mutex_; waiting: in wait_for; write: with buffers to write;        *)
(* recycle: they are written; done: thread_func has returned.              *)
Places == {"off", "check", "collect", "waiting", "write", "recycle", "done"}

TypeOK ==
  /\ control \in {"new", "started", "stopping", "joining", "joined"}
  /\ pc \in Places
  /\ running \in BOOLEAN /\ signaled \in BOOLEAN
  /\ {current, next, spare1, spare2} \subseteq Buffer \cup {Null}
  /\ buffers \in Seq(Buffer) /\ toWrite \in Seq(Buffer)
  /\ written \subseteq Lines
  /\ appended \in 0..MaxLines /\ dropped \subseteq Lines

Init ==
  /\ control = "new" /\ pc = "off"
  /\ running = FALSE /\ signaled = FALSE
  /\ current = Empty /\ next = Empty /\ spare1 = Empty /\ spare2 = Empty
  /\ buffers = <<>> /\ toWrite = <<>> /\ written = {}
  /\ appended = 0 /\ dropped = {}

-------------------------------------------------------------------------------
(* The threads that log.                                                   *)

\* avail() > len
Fits(buffer, len) == BufferSize - buffer.used > len

\* fixed_buffer::append, which leaves out a line that does not fit.
Filled(buffer, len) ==
  IF Fits(buffer, len)
    THEN [lines |-> Append(buffer.lines, appended + 1), used |-> buffer.used + len]
    ELSE buffer

\* append of a line that fits in the current buffer.
AppendFits(len) ==
  /\ appended < MaxLines
  /\ Fits(current, len)
  /\ appended' = appended + 1
  /\ current' = Filled(current, len)
  /\ UNCHANGED <<running, control, pc, signaled, next, buffers, threadVars, dropped>>

\* Faulty: nobody is told that a buffer is full.
NotifyDropped == FALSE

\* cond_.notify_one(): no effect unless the logging thread waits.
Notify == pc = "waiting"

\* The buffer that becomes the current one: the next buffer or a new one.
Fresh == IF next # Null THEN next ELSE Empty

(* append of a line that does not fit: the next buffer, or a new one,      *)
(* becomes the current one.                                                *)
AppendFull(len) ==
  /\ appended < MaxLines
  /\ ~Fits(current, len)
  /\ appended' = appended + 1
  /\ buffers' = Append(buffers, current)
  /\ current' = Filled(Fresh, len)
  /\ next' = Null
  /\ dropped' = IF Fits(Fresh, len) THEN dropped ELSE dropped \cup {appended + 1}
  /\ signaled' = Notify
  /\ UNCHANGED <<running, control, pc, threadVars>>

-------------------------------------------------------------------------------
(* start() and stop().                                                     *)

\* start: the thread runs, and has counted down the latch.
Start ==
  /\ control = "new"
  /\ control' = "started"
  /\ running' = TRUE
  /\ pc' = "check"
  /\ UNCHANGED <<signaled, producerVars, threadVars, appended, dropped>>

\* stop: running_ = false.
Stop ==
  /\ control = "started"
  /\ control' = "stopping"
  /\ running' = FALSE
  /\ UNCHANGED <<pc, signaled, producerVars, threadVars, appended, dropped>>

\* stop: cond_.notify_one(), without the mutex.
StopNotify ==
  /\ control = "stopping"
  /\ control' = "joining"
  /\ signaled' = Notify
  /\ UNCHANGED <<running, pc, producerVars, threadVars, appended, dropped>>

\* stop: thread_.join() returns.
Join ==
  /\ control = "joining"
  /\ pc = "done"
  /\ control' = "joined"
  /\ UNCHANGED <<running, pc, signaled, producerVars, threadVars, appended, dropped>>

-------------------------------------------------------------------------------
(* The logging thread.                                                     *)

\* while (running_)
Check ==
  /\ pc = "check"
  /\ pc' = IF running THEN "collect" ELSE "done"
  /\ UNCHANGED <<running, control, signaled, producerVars, threadVars, appended, dropped>>

\* Faulty: newBuffer2 is given away whether next_buffer_ is needed or not.
Spare2Given == Null

\* What the exchange leaves as newBuffer2.
Spare2After == IF next = Null THEN Null ELSE spare2

\* The critical section after the wait: the exchange.
Exchange ==
  /\ toWrite' = Append(buffers, current)
  /\ buffers' = <<>>
  /\ current' = spare1
  /\ spare1' = Null
  /\ next' = IF next = Null THEN spare2 ELSE next
  /\ spare2' = Spare2After
  /\ pc' = "write"
  /\ UNCHANGED <<running, control, written, appended, dropped>>

\* A full buffer is there: no wait.
CollectNow ==
  /\ pc = "collect"
  /\ buffers # <<>>
  /\ Exchange
  /\ UNCHANGED signaled

\* No full buffer: wait_for.
CollectWait ==
  /\ pc = "collect"
  /\ buffers = <<>>
  /\ pc' = "waiting"
  /\ signaled' = FALSE
  /\ UNCHANGED <<running, control, producerVars, threadVars, appended, dropped>>

WaitNotified ==
  /\ pc = "waiting"
  /\ signaled
  /\ signaled' = FALSE
  /\ Exchange

\* flush_interval_ seconds went by, or the wait ended for no reason.
WaitTimeout ==
  /\ pc = "waiting"
  /\ ~signaled
  /\ Exchange
  /\ UNCHANGED signaled

\* The lines of a buffer.
LinesIn(buffer) == {buffer.lines[k] : k \in DOMAIN buffer.lines}

\* Too many buffers at once: all but the first two are thrown away.
DropFlood ==
  /\ pc = "write"
  /\ Len(toWrite) > DropAbove
  /\ toWrite' = SubSeq(toWrite, 1, 2)
  /\ dropped' = dropped \cup UNION {LinesIn(toWrite[k]) : k \in 3..Len(toWrite)}
  /\ UNCHANGED <<running, control, pc, signaled, producerVars, spare1, spare2, written, appended>>

\* Faulty: the last buffer is left out.
AllLinesButLast(bs) == UNION {LinesIn(bs[k]) : k \in 1..(Len(bs) - 1)}

\* The lines of some buffers.
AllLines(bs) == UNION {LinesIn(bs[k]) : k \in DOMAIN bs}

\* output.append of every buffer.
WriteBuffers ==
  /\ pc = "write"
  /\ Len(toWrite) <= DropAbove
  /\ written' = written \cup AllLines(toWrite)
  /\ pc' = "recycle"
  /\ UNCHANGED <<running, control, signaled, producerVars, spare1, spare2, toWrite,
                 appended, dropped>>

\* Faulty: a buffer is used again with what it held.
Unreset(buffer) == buffer

\* reset()
Reset(buffer) == Empty

\* At most two buffers are kept to be used again.
Kept == IF Len(toWrite) > 2 THEN SubSeq(toWrite, 1, 2) ELSE toWrite

\* Buffers that were written take the place of those given away; flush().
Recycle ==
  /\ pc = "recycle"
  /\ LET n == Len(Kept)
         forSpare2 == IF spare1 = Null THEN n - 1 ELSE n
     IN /\ spare1' = IF spare1 = Null THEN Reset(Kept[n]) ELSE spare1
        /\ spare2' = IF spare2 = Null THEN Reset(Kept[forSpare2]) ELSE spare2
  /\ toWrite' = <<>>
  /\ pc' = "check"
  /\ UNCHANGED <<running, control, signaled, producerVars, written, appended, dropped>>

LoggingThread ==
  Check \/ CollectNow \/ CollectWait \/ WaitNotified \/ DropFlood \/ WriteBuffers \/ Recycle

Next ==
  \/ \E len \in Lengths : AppendFits(len) \/ AppendFull(len)
  \/ Start
  \/ Stop
  \/ StopNotify
  \/ Join
  \/ LoggingThread
  \/ WaitTimeout

Spec == Init /\ [][Next]_vars

(* The logging thread and a thread inside stop() take their next step when *)
(* they have one.  Nothing is assumed of WaitTimeout: the properties that  *)
(* need flush_interval_ say so.                                            *)
FairSpec == Spec /\ WF_vars(LoggingThread) /\ WF_vars(StopNotify) /\ WF_vars(Join)

-------------------------------------------------------------------------------
(* The asserts of thread_func: at the top of its loop the thread has two   *)
(* empty buffers to give away; there is something to write after each      *)
(* exchange, and enough to replace what was given away.  So append, which  *)
(* does not look, never finds current_buffer_ null.                        *)
SparesThere ==
  /\ current # Null
  /\ pc \in {"check", "collect", "waiting"} =>
       spare1 = Empty /\ spare2 = Empty /\ toWrite = <<>>
  /\ pc \in {"write", "recycle"} =>
       /\ toWrite # <<>>
       /\ spare2 = Null => Len(toWrite) >= 2

(* The buffers of the producers and of the logging thread add up.          *)
BuffersConsistent == TypeOK /\ SparesThere

\* What is on its way to the log file, buffer by buffer.
InTransit ==
  (IF pc = "write" THEN toWrite ELSE <<>>) \o buffers
    \o (IF current = Null THEN <<>> ELSE <<current>>)

(* No line is lost, doubled or overtaken: a line that was appended and not *)
(* thrown away is in the file or in one buffer; a buffer holds its lines   *)
(* in the order of their append, and only such as come after those of the  *)
(* buffers before it, and after those in the file.                         *)
LinesInOrder ==
  /\ written \cup AllLines(InTransit) = (1..appended) \ dropped
  /\ \A l \in written, m \in AllLines(InTransit) : l < m
  /\ \A k \in DOMAIN InTransit :
       LET lines == InTransit[k].lines IN \A i, j \in DOMAIN lines : i < j => lines[i] < lines[j]
  /\ \A j, k \in DOMAIN InTransit :
       j < k => \A l \in LinesIn(InTransit[j]), m \in LinesIn(InTransit[k]) : l < m

(* A full buffer is collected even if no wait times out: the notification  *)
(* of append is not lost, unless the logging stops.                        *)
FullBuffersCollected == buffers # <<>> /\ pc # "off" ~> buffers = <<>> \/ ~running

\* A line appended while the logging runs is written or thrown away, unless stop() is called.
LinesWritten ==
  \A l \in Lines :
    running /\ appended >= l ~>
      l \in written \cup dropped \/ ~running

\* stop() returns, though its notification may come between the test of running_ and the wait.
StopReturns == control = "stopping" ~> control = "joined"

(* Where waits end after flush_interval_, the logging thread needs no      *)
(* other help: lines are written, and stop() returns.                      *)
IntervalServes == WF_vars(WaitTimeout) => LinesWritten /\ StopReturns
===============================================================================
