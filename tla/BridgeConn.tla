----------------------------- MODULE BridgeConn -----------------------------
(***************************************************************************)
(* One bridge connection on the server: wsConn with its read loop and its  *)
(* closeOnce, the calls that wait for the daemon's answers, and            *)
(* handleBridge, which greets the daemon with a call of its own, registers *)
(* the connection and waits for its end.  The daemon may be slow, answer   *)
(* twice or late, talk nonsense or vanish.                                 *)
(*                                                                         *)
(* Every Call has an id of its own (nextID), so calls are their own ids.   *)
(* Watch events are left out here: dispatchEvent never waits.              *)
(***************************************************************************)
CONSTANTS
  Ops,    \* the file system's calls
  Hello   \* handleBridge's call

ASSUME BridgeAssumption == Hello \notin Ops

Calls == Ops \cup {Hello}

VARIABLES
  sock,       \* the websocket: "open" or "closed"
  cancelled,  \* c.ctx is done: Closed()
  once,       \* closeOnce: "free", the next step of its function, or "used"
  reader,     \* Run: "off", "read", "deliver", "closing" or, with done closed, "end"
  carried,    \* the call whose channel deliverResponse has taken from pending
  at,         \* handleBridge
  cpc,        \* cpc[c]: where Call is
  pending,    \* the ids in c.pending
  ch,         \* ch[c]: "open", "answered" (a frame, then closed) or "closed"
  asked,      \* the requests that reached the daemon
  result      \* result[c]: "none", "resp" or "err"

closeVars == <<sock, cancelled, once>>
runVars   == <<reader, carried>>
callVars  == <<cpc, pending, ch, asked, result>>
vars == <<closeVars, runVars, at, callVars>>

Init ==
  /\ sock = "open" /\ cancelled = FALSE /\ once = "free"
  /\ reader = "off" /\ carried = Hello
  /\ at = "start"
  /\ cpc = [c \in Calls |-> "idle"]
  /\ pending = {}
  /\ ch = [c \in Calls |-> "open"]
  /\ asked = {}
  /\ result = [c \in Calls |-> "none"]

-----------------------------------------------------------------------------
(* Call.                                                                   *)

Step(c, from, to) ==
  /\ cpc[c] = from
  /\ cpc' = [cpc EXCEPT ![c] = to]
  /\ UNCHANGED <<closeVars, runVars, at>>

Returns(c, res) == result' = [result EXCEPT ![c] = res]

\* The connection is known to its handler, and once registered to the mount,
\* which may go on using it after the handler's end.
Usable(c) == IF c = Hello THEN at = "hello" ELSE at \in {"wait", "end"}

CallClosed(c) ==
  /\ Usable(c) /\ cancelled
  /\ Step(c, "idle", "done")
  /\ Returns(c, "err")
  /\ UNCHANGED <<pending, ch, asked>>

CallStart(c) ==
  /\ Usable(c) /\ ~cancelled
  /\ Step(c, "idle", "register")
  /\ UNCHANGED <<pending, ch, asked, result>>

CallRegister(c) ==
  /\ Step(c, "register", "write")
  /\ pending' = pending \cup {c}
  /\ UNCHANGED <<ch, asked, result>>

CallWrite(c) ==
  /\ sock = "open" /\ ~cancelled
  /\ Step(c, "write", "select")
  /\ asked' = asked \cup {c}
  /\ UNCHANGED <<pending, ch, result>>

\* The socket is closed, or the write's context ends: after 10 s, or with the
\* connection.  The library then closes the socket.
CallWriteFails(c) ==
  /\ cpc[c] = "write"
  /\ cpc' = [cpc EXCEPT ![c] = "cleanup"]
  /\ Returns(c, "err")
  /\ sock' = "closed"
  /\ UNCHANGED <<cancelled, once, runVars, at, pending, ch, asked>>

CallGets(c) ==
  /\ ch[c] = "answered"
  /\ Step(c, "select", "cleanup")
  /\ Returns(c, "resp")
  /\ UNCHANGED <<pending, ch, asked>>

\* Mutant: the closed channel's nil frame is returned without an error.
CallReturnsNil(c) ==
  /\ ch[c] = "closed" \/ cancelled
  /\ Step(c, "select", "cleanup")
  /\ UNCHANGED <<pending, ch, asked, result>>

CallSeesClose(c) ==
  /\ ch[c] = "closed" \/ cancelled
  /\ Step(c, "select", "cleanup")
  /\ Returns(c, "err")
  /\ UNCHANGED <<pending, ch, asked>>

CallTimesOut(c) ==
  /\ Step(c, "select", "cleanup")
  /\ Returns(c, "err")
  /\ UNCHANGED <<pending, ch, asked>>

\* The deferred delete.
CallCleanup(c) ==
  /\ Step(c, "cleanup", "done")
  /\ pending' = pending \ {c}
  /\ UNCHANGED <<ch, asked, result>>

-----------------------------------------------------------------------------
(* Close: the function of closeOnce, whoever runs it.                      *)

CloseHandshake ==
  /\ once = "handshake"
  /\ once' = "cancel" /\ sock' = "closed"
  /\ UNCHANGED <<cancelled, runVars, at, callVars>>

\* Mutant: Close leaves the context alone.
CloseNoCancel ==
  /\ once = "cancel"
  /\ once' = "drain"
  /\ UNCHANGED <<sock, cancelled, runVars, at, callVars>>

CloseCancel ==
  /\ once = "cancel"
  /\ once' = "drain" /\ cancelled' = TRUE
  /\ UNCHANGED <<sock, runVars, at, callVars>>

\* Under pendingMu.
CloseDrain ==
  /\ once = "drain"
  /\ once' = "used"
  /\ ch' = [c \in Calls |-> IF c \in pending THEN "closed" ELSE ch[c]]
  /\ pending' = {}
  /\ UNCHANGED <<sock, cancelled, runVars, at, cpc, asked, result>>

-----------------------------------------------------------------------------
(* Run.                                                                    *)

\* Mutant: the entry stays in the map.
ReadResponseKeeps(c) ==
  /\ reader = "read" /\ sock = "open" /\ c \in asked
  /\ c \in pending
  /\ reader' = "deliver" /\ carried' = c
  /\ UNCHANGED <<closeVars, at, callVars>>

\* deliverResponse up to the unlock; a late or second answer finds no channel
\* and is dropped, which changes nothing.
ReadResponse(c) ==
  /\ reader = "read" /\ sock = "open" /\ c \in asked
  /\ c \in pending
  /\ pending' = pending \ {c}
  /\ reader' = "deliver" /\ carried' = c
  /\ UNCHANGED <<closeVars, at, cpc, ch, asked, result>>

\* ch <- f and close(ch).
Deliver ==
  /\ reader = "deliver"
  /\ reader' = "read"
  /\ ch' = [ch EXCEPT ![carried] = "answered"]
  /\ UNCHANGED <<closeVars, carried, at, cpc, pending, asked, result>>

\* Read fails, or brings a malformed frame, a request, an unknown frame or a
\* bye: the loop ends in Close.
ReadEnds ==
  /\ reader = "read"
  /\ reader' = "closing"
  /\ UNCHANGED <<closeVars, carried, at, callVars>>

\* Close of the one who comes first runs the function.
EnterClose ==
  /\ once = "free"
  /\ once' = "handshake"

ReaderCloses ==
  /\ reader = "closing"
  /\ EnterClose
  /\ UNCHANGED <<sock, cancelled, runVars, at, callVars>>

\* Mutant: Run returns without Close.
ReaderEndsOpen ==
  /\ reader = "closing"
  /\ reader' = "end"
  /\ UNCHANGED <<closeVars, carried, at, callVars>>

\* Close has returned, close(c.done).
ReaderEnds ==
  /\ reader = "closing" /\ once = "used"
  /\ reader' = "end"
  /\ UNCHANGED <<closeVars, carried, at, callVars>>

PeerLeaves ==
  /\ sock = "open"
  /\ sock' = "closed"
  /\ UNCHANGED <<cancelled, once, runVars, at, callVars>>

-----------------------------------------------------------------------------
(* handleBridge.                                                           *)

HandlerGoes(from, to) ==
  /\ at = from /\ at' = to
  /\ UNCHANGED <<closeVars, carried, callVars>>

Upgrade ==
  /\ HandlerGoes("start", "hello")
  /\ reader' = "read"

\* The answer may be an error or malformed.
HelloAnswered ==
  /\ cpc[Hello] = "done" /\ result[Hello] = "resp"
  /\ \E to \in {"register", "closing"} : HandlerGoes("hello", to)
  /\ UNCHANGED reader

HelloFails ==
  /\ cpc[Hello] = "done" /\ result[Hello] = "err"
  /\ HandlerGoes("hello", "closing")
  /\ UNCHANGED reader

\* Registry.Register accepts the connection or not: see BridgeMount.
Register ==
  /\ \E to \in {"wait", "closing"} : HandlerGoes("register", to)
  /\ UNCHANGED reader

HandlerCloses ==
  /\ at = "closing"
  /\ EnterClose
  /\ UNCHANGED <<sock, cancelled, runVars, at, callVars>>

HandlerGone ==
  /\ once = "used"
  /\ HandlerGoes("closing", "gone")
  /\ UNCHANGED reader

\* <-conn.Done(); Unregister; cancel, which is no news to the connection.
HandlerLeaves ==
  /\ reader = "end"
  /\ HandlerGoes("wait", "end")
  /\ UNCHANGED reader

-----------------------------------------------------------------------------

CallStep(c) ==
  \/ CallClosed(c) \/ CallStart(c) \/ CallRegister(c) \/ CallWrite(c) \/ CallWriteFails(c)
  \/ CallGets(c) \/ CallSeesClose(c) \/ CallCleanup(c)

Closing == CloseHandshake \/ CloseCancel \/ CloseDrain

ReaderStep == Deliver \/ ReaderCloses \/ ReaderEnds

HandlerStep ==
  \/ Upgrade \/ HelloAnswered \/ HelloFails \/ Register
  \/ HandlerCloses \/ HandlerGone \/ HandlerLeaves

\* The handler has returned; nothing more can happen.
Over ==
  /\ at \in {"gone", "end"} /\ reader = "end"
  /\ UNCHANGED vars

Next ==
  \/ \E c \in Calls : CallStep(c) \/ CallTimesOut(c) \/ ReadResponse(c)
  \/ Closing
  \/ ReaderStep \/ ReadEnds
  \/ HandlerStep
  \/ PeerLeaves
  \/ Over

Spec == Init /\ [][Next]_vars

\* Goroutines run when they can and Read fails on a closed socket; the daemon
\* need not answer, and no timeout is needed: a call without one ends too.
Fairness ==
  /\ \A c \in Calls : WF_vars(cpc[c] # "idle" /\ CallStep(c))
  /\ WF_vars(CallStep(Hello))
  /\ WF_vars(Closing)
  /\ WF_vars(ReaderStep) /\ WF_vars(sock = "closed" /\ ReadEnds)
  /\ WF_vars(HandlerStep)

FairSpec == Spec /\ Fairness

-----------------------------------------------------------------------------
(* What must hold.                                                         *)

\* The variables have their types, and a call that is over has returned a
\* frame or an error: fuseFS.call looks into the frame without asking.
TypeOK ==
  /\ sock \in {"open", "closed"} /\ cancelled \in BOOLEAN
  /\ once \in {"free", "handshake", "cancel", "drain", "used"}
  /\ reader \in {"off", "read", "deliver", "closing", "end"}
  /\ carried \in Calls
  /\ at \in {"start", "hello", "register", "closing", "wait", "gone", "end"}
  /\ cpc \in [Calls -> {"idle", "register", "write", "select", "cleanup", "done"}]
  /\ pending \subseteq Calls
  /\ ch \in [Calls -> {"open", "answered", "closed"}]
  /\ asked \subseteq Calls
  /\ result \in [Calls -> {"none", "resp", "err"}]
  /\ \A c \in Calls : result[c] = "none" <=> cpc[c] \notin {"cleanup", "done"}

\* No send on a closed channel and no second close, either of which would end
\* the server: the channels in the map and the one deliverResponse holds are
\* open, and it is not in the map, where Close would find it.  Nor does the
\* map keep a call that has returned.
PendingSound ==
  /\ \A c \in pending : ch[c] = "open" /\ cpc[c] \in {"write", "select", "cleanup"}
  /\ reader = "deliver" => ch[carried] = "open" /\ carried \notin pending

LifeAt == IF at = "start" THEN "hello" ELSE IF at = "closing" THEN "leaving" ELSE at

Done == reader = "end"

Life == INSTANCE ConnLife WITH at <- LifeAt, closed <- cancelled, done <- Done

\* The registry and the mounts get what ConnLife promises; in particular Done
\* means that the connection is torn down (transport.go:107-109).
LifeSpec == Life!Spec

\* No call outlives its connection, whenever it came: before the close, or so
\* late that it registers after Close has drained the map.
CallsEnd ==
  \A c \in Calls : (sock = "closed" /\ cpc[c] # "idle") ~> cpc[c] = "done"

\* When the socket is closed, whoever closed it, handleBridge returns, and
\* with it the principal is free for the next connection.
HandlerEnds == sock = "closed" ~> at \in {"gone", "end"}
=============================================================================
