------------------------------- MODULE Session -------------------------------
(***************************************************************************)
(* The life of a chat request inside ccproxy, from the moment its handler  *)
(* has been admitted until it returns: the persistent-session manager      *)
(* (internal/session), the workspace resolver (internal/workspace), the    *)
(* handlers runStateless and runPersistent (internal/server/chat.go), the  *)
(* idle evictor, and the shutdown of the server (internal/server).         *)
(*                                                                         *)
(* Two locks matter.  Manager.mu guards the map of sessions; it is held    *)
(* for one atomic lookup-or-create by a request and across a whole         *)
(* eviction loop by the manager's goroutine.  Session.Mu serialises the    *)
(* requests of one session; a request takes it AFTER it has let go of      *)
(* Manager.mu, which is where the interesting interleavings come from.     *)
(*                                                                         *)
(* A Session object, an ephemeral directory (a fresh uuid) and a           *)
(* conversation id minted by claude are each identified by the request     *)
(* that made them, so no bound on their number is needed.  None stands     *)
(* for Go's empty string and nil pointer.                                  *)
(***************************************************************************)
EXTENDS Naturals, FiniteSets

CONSTANTS
  Requests,     \* the chat requests; each is served once
  Clients,      \* client session ids (X-CC-Session)
  Workspaces,   \* names of configured workspaces
  Unknown,      \* a workspace name that is not configured
  None,         \* the empty string / nil
  TTL,          \* session_ttl, in clock ticks
  CanStop       \* TRUE when SIGTERM and listener failures are modelled

ASSUME SessionAssumption ==
  /\ None \notin Requests \cup Clients \cup Workspaces
  /\ Unknown \notin Workspaces \cup {None}
  /\ TTL \in Nat \ {0}
  /\ CanStop \in BOOLEAN

VARIABLES
  pc,        \* pc[r]: where the handler of request r is
  client,    \* client[r]: the session id r carries, None when stateless
  wsName,    \* wsName[r]: the workspace name r asks for
  sess,      \* sess[r]: the Session object AcquireOrCreate found or made for r
  proc,      \* proc[r]: the claude subprocess of r
  resume,    \* resume[r]: the conversation id passed with --resume
  announced, \* announced[r]: r has consumed an event that carries a session id
  sessions,  \* Manager.sessions
  holder,    \* holder[s]: the request that holds s.Mu
  ccID,      \* ccID[s]: s.CCSessionID
  age,       \* age[s]: time since s.LastActivity, saturating above TTL
  ephemeral, \* the resolutions whose Cleanup removes a directory
  dirs,      \* the ephemeral directories that exist on disk
  left,      \* those that were to be removed and could not be; nothing knows them any more
  mgr,       \* the manager's goroutine
  todo,      \* the sessions its loop has still to deal with
  phase      \* Server.Run

reqVars  == <<pc, client, wsName, sess, proc, resume, announced>>
objVars  == <<sessions, holder, ccID, age>>
diskVars == <<ephemeral, dirs, left>>
mgrVars  == <<mgr, todo>>
vars     == <<reqVars, objVars, diskVars, mgrVars, phase>>

-----------------------------------------------------------------------------
(* The states of the parts.                                                *)

\* idle: not arrived yet.  resolve / lookup: about to resolve a workspace
\* (stateless) or to look the session up (persistent).  lock: waiting in
\* s.Mu.Lock().  spawn, stream, closing (in the deferred Close), release (in
\* the last deferred call: release or Cleanup), done.
PCs == {"idle", "resolve", "lookup", "lock", "spawn", "stream", "closing",
        "release", "done"}

\* The states between the acquisition of the workspace and its last defer.
Using == {"spawn", "stream", "closing", "release"}

\* select: in the select of run.  idle / all: inside evictIdle / evictAll,
\* holding Manager.mu.  stopped: stoppedCh is closed.
MgrStates == {"select", "idle", "all", "stopped"}

\* cancelled: ctx is done but Shutdown has not closed the listeners yet.
\* draining: in main.Shutdown.  failed: a listener returned an error, so Run
\* goes straight to the deferred Stop.  drained: Shutdown has returned.
Phases == {"serving", "cancelled", "draining", "failed", "drained", "exited"}

Persistent(r) == client[r] # None

\* The Resolution a request works with is its own or that of its session.
Owner(r) == IF Persistent(r) THEN sess[r] ELSE r

\* cmd.Start fails with ENOENT when cmd.Dir has been removed.
WorkspacePresent(r) == Owner(r) \in ephemeral => Owner(r) \in dirs

MapFree == mgr \notin {"idle", "all"}

Mapped == {s \in Requests : \E c \in Clients : sessions[c] = s}

\* The conversation a subprocess appends to: the one it resumes, else its own.
Conversation(r) == IF resume[r] = None THEN r ELSE resume[r]

Running == {r \in Requests : proc[r] = "running"}

Init ==
  /\ pc        = [r \in Requests |-> "idle"]
  /\ client    = [r \in Requests |-> None]
  /\ wsName    = [r \in Requests |-> None]
  /\ sess      = [r \in Requests |-> None]
  /\ proc      = [r \in Requests |-> "none"]
  /\ resume    = [r \in Requests |-> None]
  /\ announced = [r \in Requests |-> FALSE]
  /\ sessions  = [c \in Clients |-> None]
  /\ holder    = [s \in Requests |-> None]
  /\ ccID      = [s \in Requests |-> None]
  /\ age       = [s \in Requests |-> 0]
  /\ ephemeral = {}
  /\ dirs      = {}
  /\ left      = {}
  /\ mgr       = "select"
  /\ todo      = {}
  /\ phase     = "serving"

-----------------------------------------------------------------------------
(* Ephemeral directories.                                                  *)

\* makeEphemeral: a fresh directory.
MakeDir(d) ==
  /\ ephemeral' = ephemeral \cup {d}
  /\ dirs' = dirs \cup {d}
  /\ UNCHANGED left

\* Resolution.Cleanup: `_ = os.RemoveAll(dir)`.  It can fail, half-way too: on what
\* claude made read-only, or under a claude that still writes.  Nobody is told
\* and nobody tries again.  For any other workspace it does nothing.
RemoveDir(d) ==
  /\ \/ dirs' = dirs \ {d} /\ UNCHANGED left
     \/ d \in dirs /\ left' = left \cup {d} /\ UNCHANGED dirs
  /\ UNCHANGED ephemeral

-----------------------------------------------------------------------------
(* The handler.                                                            *)

\* A handler runs as long as the server's process does.
At(r, label) == pc[r] = label /\ phase # "exited"

Goto(r, to) == pc' = [pc EXCEPT ![r] = to]

\* A step that only moves the handler on.
Move(r, from, to) ==
  /\ At(r, from)
  /\ Goto(r, to)
  /\ UNCHANGED <<client, wsName, sess, proc, resume, announced, objVars, diskVars, mgrVars, phase>>

\* handleChatCompletions has admitted the request and picks the mode.
Arrive(r, c, w) ==
  /\ pc[r] = "idle"
  /\ phase \in {"serving", "cancelled", "failed"}
  /\ client' = [client EXCEPT ![r] = c]
  /\ wsName' = [wsName EXCEPT ![r] = w]
  /\ Goto(r, IF c = None THEN "resolve" ELSE "lookup")
  /\ UNCHANGED <<sess, proc, resume, announced, objVars, diskVars, mgrVars, phase>>

\* Resolve: a configured name, the principal's bridge mount, or a fresh
\* directory.
Resolve(r) ==
  /\ At(r, "resolve")
  /\ wsName[r] # Unknown
  /\ \/ UNCHANGED diskVars                        \* named, or a bridge mount
     \/ /\ wsName[r] = None
        /\ MakeDir(r)
  /\ Goto(r, "spawn")
  /\ UNCHANGED <<client, wsName, sess, proc, resume, announced, objVars, mgrVars, phase>>

\* An unknown name, a required bridge that is absent, a failing mkdir.
ResolveFails(r) == wsName[r] \in {Unknown, None} /\ Move(r, "resolve", "done")

\* Mutant: sessions are found by their workspace instead of their client id.
AcquireByWorkspace(r) ==
  /\ At(r, "lookup")
  /\ MapFree
  /\ \E s \in Mapped : wsName[s] = wsName[r] /\ sess' = [sess EXCEPT ![r] = s]
  /\ Goto(r, "lock")
  /\ UNCHANGED <<client, wsName, proc, resume, announced, objVars, diskVars, mgrVars, phase>>

\* AcquireOrCreate, the session exists: up to m.mu.Unlock().
Acquire(r) ==
  /\ At(r, "lookup")
  /\ MapFree
  /\ sessions[client[r]] # None
  /\ sess' = [sess EXCEPT ![r] = sessions[client[r]]]
  /\ Goto(r, "lock")
  /\ UNCHANGED <<client, wsName, proc, resume, announced, objVars, diskVars, mgrVars, phase>>

\* AcquireOrCreate, no session: ResolveByName and the new entry.
Create(r) ==
  /\ At(r, "lookup")
  /\ MapFree
  /\ sessions[client[r]] = None
  /\ wsName[r] # Unknown
  /\ IF wsName[r] = None THEN MakeDir(r) ELSE UNCHANGED diskVars
  /\ sessions' = [sessions EXCEPT ![client[r]] = r]
  /\ age' = [age EXCEPT ![r] = 0]
  /\ sess' = [sess EXCEPT ![r] = r]
  /\ Goto(r, "lock")
  /\ UNCHANGED <<client, wsName, proc, resume, announced, holder, ccID, mgrVars, phase>>

CreateFails(r) ==
  /\ Move(r, "lookup", "done")
  /\ MapFree
  /\ sessions[client[r]] = None
  /\ wsName[r] \in {Unknown, None}

\* Mutant: the session is used without waiting for its mutex.
LockUnguarded(r) ==
  /\ At(r, "lock")
  /\ holder' = [holder EXCEPT ![sess[r]] = r]
  /\ Goto(r, "spawn")
  /\ UNCHANGED <<client, wsName, sess, proc, resume, announced, sessions, ccID, age,
                 diskVars, mgrVars, phase>>

\* s.Mu.Lock(), outside Manager.mu.
Lock(r) ==
  /\ At(r, "lock")
  /\ holder[sess[r]] = None
  /\ holder' = [holder EXCEPT ![sess[r]] = r]
  /\ Goto(r, "spawn")
  /\ UNCHANGED <<client, wsName, sess, proc, resume, announced, sessions, ccID, age,
                 diskVars, mgrVars, phase>>

\* Mutant: --resume is given the client's id instead of claude's.
SpawnResumesClientID(r) ==
  /\ At(r, "spawn")
  /\ WorkspacePresent(r)
  /\ proc' = [proc EXCEPT ![r] = "running"]
  /\ resume' = [resume EXCEPT ![r] = client[r]]
  /\ Goto(r, "stream")
  /\ UNCHANGED <<client, wsName, sess, announced, objVars, diskVars, mgrVars, phase>>

\* claude.Spawn in the workspace, with --resume when the session has an id.
Spawn(r) ==
  /\ At(r, "spawn")
  /\ WorkspacePresent(r)
  /\ proc' = [proc EXCEPT ![r] = "running"]
  /\ resume' = [resume EXCEPT ![r] = IF Persistent(r) THEN ccID[sess[r]] ELSE None]
  /\ Goto(r, "stream")
  /\ UNCHANGED <<client, wsName, sess, announced, objVars, diskVars, mgrVars, phase>>

\* Mutant: the error path of spawn returns before release is deferred.
SpawnFailsUnreleased(r) == Move(r, "spawn", "done")

\* cmd.Start returned an error: the handler answers 502 and unwinds.
SpawnFails(r) == Move(r, "spawn", "release")

\* captureSessionID and SetCCSessionID: the first id sticks.  Events may be
\* consumed after the subprocess has exited.  Stateless runs pass cs = nil.
InitEvent(r) ==
  /\ At(r, "stream")
  /\ Persistent(r)
  /\ ~announced[r]
  /\ announced' = [announced EXCEPT ![r] = TRUE]
  /\ ccID' = IF ccID[sess[r]] = None THEN [ccID EXCEPT ![sess[r]] = r] ELSE ccID
  /\ UNCHANGED <<pc, client, wsName, sess, proc, resume, sessions, holder, age, diskVars,
                 mgrVars, phase>>

\* The subprocess exits: by itself, signalled or killed.
ProcExit(r) ==
  /\ proc[r] = "running"
  /\ proc' = [proc EXCEPT ![r] = "exited"]
  /\ UNCHANGED <<pc, client, wsName, sess, resume, announced, objVars, diskVars,
                 mgrVars, phase>>

\* streamChat / bufferedChat see the events channel closed.
StreamEnds(r) == proc[r] = "exited" /\ Move(r, "stream", "closing")

\* Mutant: an early return passes over the deferred Close.
DisconnectUnclosed(r) == Move(r, "stream", "release")

\* streamChat / bufferedChat return early: the client is gone, a write fails,
\* or the writer cannot stream.
Disconnect(r) == Move(r, "stream", "closing")

\* Mutant: Close signals and does not wait.
CloseNoWait(r) == Move(r, "closing", "release")

\* The deferred Close signals the subprocess and waits for its exit.
CloseReturns(r) == proc[r] = "exited" /\ Move(r, "closing", "release")

\* release(): LastActivity is later than the `now` of an eviction loop in
\* progress, which will therefore not find this session idle.
Release(r) ==
  /\ At(r, "release")
  /\ Persistent(r)
  /\ holder' = [holder EXCEPT ![sess[r]] = None]
  /\ age' = [age EXCEPT ![sess[r]] = 0]
  /\ todo' = IF mgr = "idle" THEN todo \ {sess[r]} ELSE todo
  /\ Goto(r, "done")
  /\ UNCHANGED <<client, wsName, sess, proc, resume, announced, sessions, ccID, diskVars,
                 mgr, phase>>

\* The deferred wsRes.Cleanup of a stateless request.
Cleanup(r) ==
  /\ At(r, "release")
  /\ ~Persistent(r)
  /\ RemoveDir(r)
  /\ Goto(r, "done")
  /\ UNCHANGED <<client, wsName, sess, proc, resume, announced, objVars, mgrVars, phase>>

-----------------------------------------------------------------------------
(* Time and the manager's goroutine.                                       *)

\* Only sessions in the map are ever compared with the clock.
Tick ==
  /\ phase # "exited"
  /\ age' = [s \in Requests |-> IF s \in Mapped /\ age[s] <= TTL THEN age[s] + 1 ELSE age[s]]
  /\ UNCHANGED <<reqVars, sessions, holder, ccID, diskVars, mgrVars, phase>>

\* run receives a tick and evictIdle takes m.mu.  `now` is fixed for the whole
\* loop, so the sessions it can evict are those idle for more than the ttl
\* here; for the others an iteration changes nothing.
StartEvictIdle ==
  /\ mgr = "select"
  /\ mgr' = "idle"
  /\ todo' = {s \in Mapped : age[s] > TTL}
  /\ UNCHANGED <<reqVars, objVars, diskVars, phase>>

\* Mutant: the entry is deleted and its Cleanup forgotten.
EvictKeepsDir(s) ==
  /\ UNCHANGED diskVars
  /\ sessions' = [c \in Clients |-> IF sessions[c] = s THEN None ELSE sessions[c]]

\* Cleanup and delete(m.sessions, id): the entry goes, whatever became of the
\* directory.
Evict(s) ==
  /\ RemoveDir(s)
  /\ sessions' = [c \in Clients |-> IF sessions[c] = s THEN None ELSE sessions[c]]

\* Mutant: evictIdle without TryLock.
EvictIdleNoTryLock(s) ==
  /\ mgr = "idle"
  /\ s \in todo
  /\ todo' = todo \ {s}
  /\ Evict(s)
  /\ UNCHANGED <<reqVars, holder, ccID, age, mgr, phase>>

\* One iteration of evictIdle: skipped when TryLock fails.
EvictIdleStep(s) ==
  /\ mgr = "idle"
  /\ s \in todo
  /\ todo' = todo \ {s}
  /\ IF holder[s] = None THEN Evict(s) ELSE UNCHANGED <<sessions, diskVars>>
  /\ UNCHANGED <<reqVars, holder, ccID, age, mgr, phase>>

\* Mutant: run evicts once instead of in a loop.
EvictIdleOnce ==
  /\ mgr = "idle"
  /\ todo = {}
  /\ mgr' = "stopped"
  /\ UNCHANGED <<reqVars, objVars, diskVars, todo, phase>>

EndEvictIdle ==
  /\ mgr = "idle"
  /\ todo = {}
  /\ mgr' = "select"
  /\ UNCHANGED <<reqVars, objVars, diskVars, todo, phase>>

\* Mutant: evictAll passes over sessions in use, as evictIdle does.
EvictAllUnheld ==
  /\ mgr = "select"
  /\ phase # "serving"
  /\ mgr' = "all"
  /\ todo' = {s \in Mapped : holder[s] = None}
  /\ UNCHANGED <<reqVars, objVars, diskVars, phase>>

\* run sees ctx.Done() or stopCh and evictAll takes m.mu.
StartEvictAll ==
  /\ mgr = "select"
  /\ phase # "serving"
  /\ mgr' = "all"
  /\ todo' = Mapped
  /\ UNCHANGED <<reqVars, objVars, diskVars, phase>>

\* One iteration of evictAll: session mutexes are not consulted.
EvictAllStep(s) ==
  /\ mgr = "all"
  /\ s \in todo
  /\ todo' = todo \ {s}
  /\ Evict(s)
  /\ UNCHANGED <<reqVars, holder, ccID, age, mgr, phase>>

\* Mutant: run does not return after evictAll.
EvictAllNoReturn ==
  /\ mgr = "all"
  /\ todo = {}
  /\ mgr' = "select"
  /\ UNCHANGED <<reqVars, objVars, diskVars, todo, phase>>

EndEvictAll ==
  /\ mgr = "all"
  /\ todo = {}
  /\ mgr' = "stopped"
  /\ UNCHANGED <<reqVars, objVars, diskVars, todo, phase>>

-----------------------------------------------------------------------------
(* Server.Run.                                                             *)

PhaseStep(from, to) ==
  /\ phase \in from
  /\ phase' = to
  /\ UNCHANGED <<reqVars, objVars, diskVars, mgrVars>>

\* SIGINT or SIGTERM cancels the context shared by Run and the manager.
Cancel == CanStop /\ PhaseStep({"serving"}, "cancelled")

\* main.Shutdown closes the listeners.
BeginDrain == PhaseStep({"cancelled"}, "draining")

\* serveAsync delivers an error: Run returns without Shutdown.
ListenerFails == CanStop /\ PhaseStep({"serving", "cancelled"}, "failed")

InFlight == {r \in Requests : pc[r] \notin {"idle", "done"}}

\* Every handler has returned.
DrainDone == InFlight = {} /\ PhaseStep({"draining"}, "drained")

\* The 30 s of shutdownCtx are over.
DrainTimeout == InFlight # {} /\ PhaseStep({"draining"}, "drained")

\* The deferred sessions.Stop() has waited for stoppedCh; the process ends.
Exit == mgr = "stopped" /\ PhaseStep({"failed", "drained"}, "exited")

-----------------------------------------------------------------------------

\* What a handler does by itself, whatever the outcome.
Handler(r) ==
  \/ Resolve(r) \/ ResolveFails(r)
  \/ Acquire(r) \/ Create(r) \/ CreateFails(r)
  \/ Lock(r)
  \/ Spawn(r) \/ SpawnFails(r)
  \/ InitEvent(r) \/ StreamEnds(r) \/ Disconnect(r)
  \/ CloseReturns(r) \/ Release(r) \/ Cleanup(r)

ManagerStep ==
  \/ StartEvictIdle \/ EndEvictIdle \/ StartEvictAll \/ EndEvictAll
  \/ \E s \in Requests : EvictIdleStep(s) \/ EvictAllStep(s)

ServerStep ==
  \/ Cancel \/ BeginDrain \/ ListenerFails \/ DrainDone \/ DrainTimeout \/ Exit

\* After the exit of the server nothing of it runs; subprocesses may outlive it.
Exited ==
  /\ phase = "exited"
  /\ UNCHANGED vars

Next ==
  \/ \E r \in Requests, c \in Clients \cup {None}, w \in Workspaces \cup {None, Unknown} :
       Arrive(r, c, w)
  \/ \E r \in Requests : Handler(r) \/ ProcExit(r)
  \/ ManagerStep
  \/ ServerStep
  \/ Tick
  \/ Exited

Spec == Init /\ [][Next]_vars
-----------------------------------------------------------------------------
(* Fairness.                                                               *)

\* A handler is one goroutine: of these steps it is never at more than one,
\* the first wait for no mutex, the others for m.mu or s.Mu.
Proceeds(r) ==
  \/ Resolve(r) \/ ResolveFails(r)
  \/ Spawn(r) \/ SpawnFails(r)
  \/ StreamEnds(r) \/ CloseReturns(r)
  \/ Release(r) \/ Cleanup(r)

Locks(r) == Acquire(r) \/ Create(r) \/ CreateFails(r) \/ Lock(r)

\* Goroutines run when they can; sync.Mutex hands itself over to a waiter that
\* starves, hence strong fairness where a step waits for a mutex.  claude is
\* assumed to exit: Subprocess looks into that.
Fairness ==
  /\ \A r \in Requests : WF_vars(Proceeds(r)) /\ SF_vars(Locks(r)) /\ WF_vars(ProcExit(r))
  /\ WF_vars(Tick)
  /\ WF_vars(ManagerStep)
  /\ SF_vars(StartEvictAll)
  /\ WF_vars(BeginDrain \/ DrainDone \/ DrainTimeout \/ Exit)

FairSpec == Spec /\ Fairness

-----------------------------------------------------------------------------
(* What must hold.                                                         *)

\* Every variable has its type; in particular what reaches --resume is an id
\* that claude announced, never the id the client chose.
TypeOK ==
  /\ pc \in [Requests -> PCs]
  /\ client \in [Requests -> Clients \cup {None}]
  /\ wsName \in [Requests -> Workspaces \cup {None, Unknown}]
  /\ sess \in [Requests -> Requests \cup {None}]
  /\ proc \in [Requests -> {"none", "running", "exited"}]
  /\ resume \in [Requests -> Requests \cup {None}]
  /\ announced \in [Requests -> BOOLEAN]
  /\ sessions \in [Clients -> Requests \cup {None}]
  /\ holder \in [Requests -> Requests \cup {None}]
  /\ ccID \in [Requests -> Requests \cup {None}]
  /\ age \in [Requests -> 0 .. TTL + 1]
  /\ ephemeral \subseteq Requests
  /\ dirs \subseteq Requests
  /\ left \subseteq dirs
  /\ mgr \in MgrStates
  /\ todo \subseteq Requests
  /\ phase \in Phases

\* `claude --resume` is not safe to interleave: two subprocesses that live at
\* the same time never append to the same conversation, whatever the
\* evictions, early disconnects and shutdowns in between (session.go:16-18).
ConversationExclusive ==
  \A r1, r2 \in Running :
    Conversation(r1) = Conversation(r2) => r1 = r2

\* A request resumes only a conversation that was begun by a request of the
\* same client session id, and only one whose id that request announced.
ConversationIsolated ==
  \A r \in Requests : resume[r] # None =>
    /\ client[resume[r]] = client[r]
    /\ announced[resume[r]]

\* A session has one conversation: of the subprocesses started on a Session
\* object without --resume, at most one has announced an id.  The others gave
\* up before their init event was consumed.
OneConversationPerSession ==
  \A r1, r2 \in Requests :
    /\ Persistent(r1) /\ sess[r1] = sess[r2]
    /\ announced[r1] /\ resume[r1] = None
    /\ announced[r2] /\ resume[r2] = None
    => r1 = r2

\* While the server runs, an ephemeral directory that exists belongs to a
\* session the evictor can still find, or to a stateless request that still has
\* its deferred Cleanup before it, or its removal was tried and has failed.
DirHasOwner ==
  phase # "exited" =>
    \A d \in dirs \ left :
      \/ Persistent(d) /\ sessions[client[d]] = d
      \/ ~Persistent(d) /\ pc[d] \in Using

\* A session in the map has its directory.
MappedHasDir ==
  \A c \in Clients :
    sessions[c] \in ephemeral => sessions[c] \in dirs \ left

\* The directories on disk and what refers to them agree: none is forgotten
\* before its removal was tried, and a request that finds a session and gets its
\* mutex before the next eviction has a workspace to run in.
DirsOwned == DirHasOwner /\ MappedHasDir

\* What ConversationStore sees of a request: nothing before it has a
\* subprocess; and of its conversation, once its id is announced.
RunOwner == [r \in Requests |-> IF proc[r] = "none" THEN None ELSE client[r]]
RunConversation == [r \in Requests |-> IF proc[r] = "none" THEN None ELSE Conversation(r)]
Resumable == {r \in Requests : announced[r] /\ resume[r] = None}

Store ==
  INSTANCE ConversationStore WITH
    Runs <- Requests, owner <- RunOwner, conv <- RunConversation, live <- Running,
    known <- Resumable

\* Seen from claude's conversations, the whole machinery of sessions, mutexes,
\* evictions and shutdown is what ConversationStore promises: a request begins
\* a conversation or resumes one that is its client's, known and at rest.
StoreSpec == Store!Spec

\* While the server serves, the directory of a live subprocess is not removed
\* under it, by an idle eviction or by anybody else's cleanup.
WorkspaceKept ==
  [][\A r \in Running :
       (phase = "serving" /\ Owner(r) \in dirs) => Owner(r) \in dirs']_vars

\* "Stop ... evicts all live sessions, calling each workspace.Resolution.Cleanup
\* so ephemeral dirs are removed": when evictAll lets go of m.mu, it has tried to
\* remove the directory of every session, whoever was using or waiting for one;
\* what is left is what os.RemoveAll could not remove.  What outlives the server
\* besides: the directories of stateless requests whose handlers are cut off by
\* the exit, and those of requests that come after evictAll.
StopReclaims ==
  [][mgr = "all" /\ mgr' = "stopped" => \A d \in dirs' \ left' : ~Persistent(d)]_vars

\* Every request that has arrived is answered unless the server exits before,
\* if claude exits: no handler starves on m.mu or s.Mu, held by others or by a
\* handler that failed.
RequestsFinish ==
  []<>(phase = "exited" \/ \A r \in Requests : pc[r] \in {"idle", "done"})

\* The removal of every ephemeral directory is tried in the end, unless the
\* server exits before: the evictor gets to a session that is no longer used, a
\* stateless request cleans up.
DirsReclaimed == []<>(phase = "exited" \/ dirs \subseteq left)

\* A cancelled server exits: Shutdown gives up, evictAll gets m.mu, and Stop
\* does not wait for stoppedCh in vain.
ShutdownCompletes == phase \in {"cancelled", "failed"} ~> phase = "exited"
-----------------------------------------------------------------------------
(* What the repository says and the code does not do.                      *)

\* session.go:16-18: Mu serialises the concurrent requests of a session.  One
\* client session id never has two live subprocesses.
OneRunPerClient ==
  \A r1, r2 \in Running :
    (Persistent(r1) /\ client[r1] = client[r2]) => r1 = r2

\* server.go:121-122: on shutdown the requests in flight get up to 30 s to
\* finish.  The workspace of a live subprocess stays until then.
WorkspaceKeptInDrain ==
  [][\A r \in Running :
       (phase \in {"cancelled", "draining"} /\ Owner(r) \in dirs) => Owner(r) \in dirs']_vars
=============================================================================
