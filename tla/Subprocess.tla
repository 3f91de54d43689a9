------------------------------ MODULE Subprocess ------------------------------
(***************************************************************************)
(* One claude subprocess and the goroutines around it (internal/claude and *)
(* the loops of internal/server/chat.go): readEvents turns the lines of    *)
(* stdout into events, supervise reacts to the context, the goroutine that *)
(* Server.spawn starts for the metrics waits for the exit, and the handler *)
(* consumes the events and finally calls Close.                            *)
(*                                                                         *)
(* Lines come in order through the pipe, the bufio.Reader and the channel, *)
(* and the reader sends no line after it has sent an error about the       *)
(* stream, so counters stand for all three.  What a line says does not     *)
(* matter here: a line that does not parse is an event too.                *)
(***************************************************************************)
EXTENDS Integers

CONSTANTS
  Lines,       \* the lines claude writes when nothing stops it
  PipeCap,     \* lines that fit into the pipe
  ChanCap,     \* capacity of the events channel (16)
  CanHang      \* TRUE when claude may ignore SIGINT and never exit by itself

ASSUME SubprocessAssumption ==
  /\ Lines \in Nat
  /\ PipeCap \in Nat \ {0}
  /\ ChanCap \in Nat \ {0}
  /\ CanHang \in BOOLEAN

VARIABLES
  child,      \* the process: "running" or "exited"
  status,     \* its exit status: "none", "ok" or "err"
  hung,       \* it ignores SIGINT and never exits by itself
  interrupts, \* how often it was sent SIGINT while it ran
  written,    \* lines written to the pipe
  fetched,    \* lines read from the pipe into the bufio.Reader
  parsed,     \* lines sent on as events
  pipeOpen,   \* the read end of the pipe is open
  metricsUp,  \* the metrics goroutine has called Wait
  done,       \* cmd.Wait has returned and Session.done is closed
  reader,     \* the goroutine readEvents
  errsSent,   \* stream_error events it has sent: a read error, a bad exit
  once,       \* closeOnce: "free", "supervise" (running its function) or "used"
  sup,        \* the goroutine supervise
  gone,       \* the client has disconnected: r.Context() is done
  timedOut,   \* request_timeout has passed: ctx is done
  cons,       \* the handler
  got,        \* lines it has received
  errsGot,    \* stream_error events it has received
  ended       \* it has seen the channel closed

childVars  == <<child, status, hung, interrupts>>
pipeVars   == <<written, fetched, parsed, pipeOpen>>
waitVars   == <<metricsUp, done>>
readerVars == <<reader, errsSent>>
closeVars  == <<once, sup>>
ctxVars    == <<gone, timedOut>>
consVars   == <<cons, got, errsGot, ended>>
vars == <<childVars, pipeVars, waitVars, readerVars, closeVars, ctxVars, consVars>>

Init ==
  /\ child = "running" /\ status = "none" /\ interrupts = 0
  /\ hung \in {FALSE, CanHang}
  /\ written = 0 /\ fetched = 0 /\ parsed = 0 /\ pipeOpen = TRUE
  /\ metricsUp = FALSE /\ done = FALSE
  /\ reader = "read" /\ errsSent = 0
  /\ once = "free" /\ sup = "watch"
  /\ gone = FALSE /\ timedOut = FALSE
  /\ cons = "select" /\ got = 0 /\ errsGot = 0 /\ ended = FALSE

-----------------------------------------------------------------------------
(* The process.                                                            *)

ChildWrites ==
  /\ child = "running"
  /\ written < Lines
  /\ written - fetched < PipeCap
  /\ written' = written + 1
  /\ UNCHANGED <<childVars, fetched, parsed, pipeOpen, waitVars, readerVars, closeVars,
                 ctxVars, consVars>>

ChildEnds(st) ==
  /\ child = "running"
  /\ child' = "exited"
  /\ status' = st
  /\ UNCHANGED <<hung, interrupts, pipeVars, waitVars, readerVars, closeVars, ctxVars, consVars>>

\* It has said all it had to say.
ChildFinishes == ~hung /\ written = Lines /\ ChildEnds("ok")

\* It fails half way.
ChildCrashes == ~hung /\ ChildEnds("err")

\* It obeys SIGINT, with whatever exit status.
ChildObeys == ~hung /\ interrupts > 0 /\ \E st \in {"ok", "err"} : ChildEnds(st)

-----------------------------------------------------------------------------
(* Wait.                                                                   *)

\* The goroutine started by Server.spawn calls Wait.
MetricsWait ==
  /\ ~metricsUp
  /\ metricsUp' = TRUE
  /\ UNCHANGED <<childVars, pipeVars, done, readerVars, closeVars, ctxVars, consVars>>

\* The first caller of Wait is inside cmd.Wait, which reaps the process and
\* closes the read end of the pipe, read to its end or not.
Reap ==
  /\ child = "exited"
  /\ ~done
  /\ metricsUp \/ reader = "wait" \/ cons = "waiting"
  /\ done' = TRUE
  /\ pipeOpen' = FALSE
  /\ UNCHANGED <<childVars, written, fetched, parsed, metricsUp, readerVars, closeVars, ctxVars,
                 consVars>>

-----------------------------------------------------------------------------
(* readEvents.                                                             *)

ReaderOnly == UNCHANGED <<childVars, written, pipeOpen, waitVars, closeVars, ctxVars, consVars>>

Buffered == (parsed - got) + (errsSent - errsGot)

Room == Buffered < ChanCap

\* One Read fills the bufio.Reader with some of what is in the pipe.
Fetch ==
  /\ reader = "read" /\ parsed = fetched
  /\ pipeOpen
  /\ \E n \in fetched + 1 .. written : fetched' = n
  /\ UNCHANGED <<parsed, readerVars>>
  /\ ReaderOnly

SendLine ==
  /\ reader = "read" /\ parsed < fetched
  /\ Room
  /\ parsed' = parsed + 1
  /\ UNCHANGED <<fetched, readerVars>>
  /\ ReaderOnly

ReadEOF ==
  /\ reader = "read" /\ parsed = fetched
  /\ pipeOpen /\ fetched = written /\ child = "exited"
  /\ reader' = "wait"
  /\ UNCHANGED <<fetched, parsed, errsSent>>
  /\ ReaderOnly

\* Mutant: a closed pipe is taken for the end of the output.
ReadFailsSilently ==
  /\ reader = "read" /\ parsed = fetched
  /\ ~pipeOpen
  /\ reader' = "wait"
  /\ UNCHANGED <<fetched, parsed, errsSent>>
  /\ ReaderOnly

\* Read returns os.ErrClosed: another goroutine's Wait has closed the pipe.
ReadFails ==
  /\ reader = "read" /\ parsed = fetched
  /\ ~pipeOpen
  /\ reader' = "sendReadErr"
  /\ UNCHANGED <<fetched, parsed, errsSent>>
  /\ ReaderOnly

SendReadErr ==
  /\ reader = "sendReadErr"
  /\ Room
  /\ errsSent' = errsSent + 1
  /\ reader' = "wait"
  /\ UNCHANGED <<fetched, parsed>>
  /\ ReaderOnly

\* Wait returns to the reader; with no error the deferred close follows.
ReaderWaited ==
  /\ reader = "wait"
  /\ done
  /\ reader' = IF status = "err" THEN "sendExitErr" ELSE "closed"
  /\ UNCHANGED <<fetched, parsed, errsSent>>
  /\ ReaderOnly

SendExitErr ==
  /\ reader = "sendExitErr"
  /\ Room
  /\ errsSent' = errsSent + 1
  /\ reader' = "closed"
  /\ UNCHANGED <<fetched, parsed>>
  /\ ReaderOnly

-----------------------------------------------------------------------------
(* supervise and Close.                                                    *)

\* The handler cancels ctx after it has returned.
CtxDone == gone \/ timedOut \/ cons = "closed"

\* Signal has no effect on a process that is gone.
Interrupt == interrupts' = IF child = "running" THEN interrupts + 1 ELSE interrupts

SupSeesDone ==
  /\ sup = "watch" /\ done
  /\ sup' = "end"
  /\ UNCHANGED <<childVars, pipeVars, waitVars, readerVars, once, ctxVars, consVars>>

\* closeOnce.Do runs its function, or returns because Close came first.
SupCancelled ==
  /\ sup = "watch" /\ CtxDone
  /\ IF once = "free"
       THEN once' = "supervise" /\ sup' = "grace" /\ Interrupt
       ELSE sup' = "end" /\ UNCHANGED <<once, interrupts>>
  /\ UNCHANGED <<child, status, hung, pipeVars, waitVars, readerVars, ctxVars, consVars>>

SupExited ==
  /\ sup = "grace" /\ done
  /\ sup' = "end" /\ once' = "used"
  /\ UNCHANGED <<childVars, pipeVars, waitVars, readerVars, ctxVars, consVars>>

\* Mutant: the timer repeats SIGINT.
SupInterruptsAgain ==
  /\ sup = "grace"
  /\ sup' = "end" /\ once' = "used"
  /\ Interrupt
  /\ UNCHANGED <<child, status, hung, pipeVars, waitVars, readerVars, ctxVars, consVars>>

\* ShutdownGrace is over: SIGKILL.
SupKills ==
  /\ sup = "grace"
  /\ sup' = "end" /\ once' = "used"
  /\ child' = "exited"
  /\ status' = IF child = "running" THEN "err" ELSE status
  /\ UNCHANGED <<hung, interrupts, pipeVars, waitVars, readerVars, ctxVars, consVars>>

\* Mutant: Close does nothing more than Wait.
CloseNoSignal ==
  /\ cons = "leaving"
  /\ once # "supervise"
  /\ once' = "used"
  /\ cons' = "waiting"
  /\ UNCHANGED <<childVars, pipeVars, waitVars, readerVars, sup, ctxVars, got, errsGot, ended>>

\* Mutant: Close signals whether or not supervise has done so.
CloseSignalsAgain ==
  /\ cons = "leaving"
  /\ once' = "used"
  /\ Interrupt
  /\ cons' = "waiting"
  /\ UNCHANGED <<child, status, hung, pipeVars, waitVars, readerVars, sup, ctxVars, got, errsGot,
                 ended>>

\* closeOnce.Do in Close: it waits for a function that is running already.
CloseSignals ==
  /\ cons = "leaving"
  /\ once # "supervise"
  /\ once' = "used"
  /\ IF once = "free" THEN Interrupt ELSE UNCHANGED interrupts
  /\ cons' = "waiting"
  /\ UNCHANGED <<child, status, hung, pipeVars, waitVars, readerVars, sup, ctxVars, got, errsGot,
                 ended>>

\* Mutant: Close returns once the process has been signalled.
CloseNoWait ==
  /\ cons = "waiting"
  /\ cons' = "closed"
  /\ UNCHANGED <<childVars, pipeVars, waitVars, readerVars, closeVars, ctxVars, got, errsGot, ended>>

\* Wait in Close.
CloseReturns ==
  /\ cons = "waiting"
  /\ done
  /\ cons' = "closed"
  /\ UNCHANGED <<childVars, pipeVars, waitVars, readerVars, closeVars, ctxVars, got, errsGot, ended>>

-----------------------------------------------------------------------------
(* streamChat and bufferedChat.                                            *)

\* An event is consumed; streamChat returns when it cannot be written.
Receive ==
  /\ cons = "select"
  /\ Buffered > 0
  /\ IF got < parsed
       THEN got' = got + 1 /\ UNCHANGED errsGot
       ELSE errsGot' = errsGot + 1 /\ UNCHANGED got
  /\ cons' \in {"select", "leaving"}
  /\ UNCHANGED <<childVars, pipeVars, waitVars, readerVars, closeVars, ctxVars, ended>>

SeeClosed ==
  /\ cons = "select"
  /\ Buffered = 0 /\ reader = "closed"
  /\ cons' = "leaving" /\ ended' = TRUE
  /\ UNCHANGED <<childVars, pipeVars, waitVars, readerVars, closeVars, ctxVars, got, errsGot>>

SeeGone ==
  /\ cons = "select"
  /\ gone
  /\ cons' = "leaving"
  /\ UNCHANGED <<childVars, pipeVars, waitVars, readerVars, closeVars, ctxVars, got, errsGot, ended>>

ClientLeaves ==
  /\ ~gone /\ cons # "closed"
  /\ gone' = TRUE
  /\ UNCHANGED <<childVars, pipeVars, waitVars, readerVars, closeVars, timedOut, consVars>>

Timeout ==
  /\ ~timedOut /\ cons # "closed"
  /\ timedOut' = TRUE
  /\ UNCHANGED <<childVars, pipeVars, waitVars, readerVars, closeVars, gone, consVars>>

-----------------------------------------------------------------------------

Reading    == Fetch \/ SendLine \/ ReadEOF \/ ReadFails \/ SendReadErr \/ ReaderWaited \/ SendExitErr
Supervise  == SupSeesDone \/ SupCancelled \/ SupExited \/ SupKills
Consuming  == Receive \/ SeeClosed \/ SeeGone
Closing    == CloseSignals \/ CloseReturns

\* The handler has returned and every goroutine that can end has ended.
Settled ==
  /\ cons = "closed" /\ sup = "end"
  /\ UNCHANGED vars

Next ==
  \/ ChildWrites \/ ChildFinishes \/ ChildCrashes \/ ChildObeys
  \/ MetricsWait \/ Reap
  \/ Reading \/ Supervise \/ Consuming \/ Closing
  \/ ClientLeaves \/ Timeout
  \/ Settled

Spec == Init /\ [][Next]_vars

\* A goroutine that can run does; claude, unless it hangs, writes what it has
\* to write and obeys a signal; the grace timer fires.
Fairness ==
  /\ WF_vars(ChildWrites) /\ WF_vars(ChildFinishes) /\ WF_vars(ChildObeys)
  /\ WF_vars(MetricsWait) /\ WF_vars(Reap)
  /\ WF_vars(Reading) /\ WF_vars(Supervise) /\ WF_vars(SupKills)
  /\ WF_vars(Consuming) /\ WF_vars(Closing)

FairSpec == Spec /\ Fairness

-----------------------------------------------------------------------------
(* What must hold.                                                         *)

Flags ==
  /\ hung \in BOOLEAN /\ pipeOpen \in BOOLEAN /\ metricsUp \in BOOLEAN /\ done \in BOOLEAN
  /\ gone \in BOOLEAN /\ timedOut \in BOOLEAN /\ ended \in BOOLEAN

\* The variables have their types: the reader never gets ahead of the pipe,
\* the channel never exceeds its capacity, and SIGINT is sent once at most
\* although both supervise and Close send it.
TypeOK ==
  /\ Flags
  /\ child \in {"running", "exited"}
  /\ status \in {"none", "ok", "err"}
  /\ interrupts \in 0 .. 1
  /\ written \in 0 .. Lines /\ fetched \in 0 .. written /\ parsed \in 0 .. fetched
  /\ reader \in {"read", "sendReadErr", "wait", "sendExitErr", "closed"}
  /\ errsSent \in 0 .. 2
  /\ once \in {"free", "supervise", "used"}
  /\ sup \in {"watch", "grace", "end"}
  /\ cons \in {"select", "leaving", "waiting", "closed"}
  /\ got \in 0 .. parsed /\ errsGot \in 0 .. errsSent /\ Buffered <= ChanCap

\* A truncated answer is never taken for a complete one: a handler that saw
\* the end of the stream without all of claude's lines has seen an error
\* event before it, or claude was interrupted.
TruncationReported ==
  (ended /\ got < Lines) => (errsGot > 0 \/ interrupts > 0)

HandlerAt == IF cons = "select" THEN "stream"
             ELSE IF cons = "closed" THEN "release" ELSE "closing"

Handle == INSTANCE ProcHandle WITH proc <- child, at <- HandlerAt

\* Whatever the goroutines do, the handler gets what ProcHandle promises and
\* Session is built on: the stream ends, and Close returns, only after the
\* exit of the subprocess.
HandleSpec == Handle!Spec

\* When the context ends first, supervise gets rid of the process, even of one
\* that ignores SIGINT.
SuperviseKills == once = "supervise" ~> child = "exited"

\* The handler always gets out of its loop and out of Close when claude does
\* not hang, although both pipe and channel may be full when it stops reading.
HandlerReturns == cons = "select" ~> (cons = "closed" \/ hung)

-----------------------------------------------------------------------------
(* What the repository says and the code does not do.                      *)

\* spawn.go:154-155: Close requests shutdown with SIGINT, then SIGKILL after
\* the grace, and waits for the exit.
CloseTerminates == cons = "waiting" ~> cons = "closed"
=============================================================================
