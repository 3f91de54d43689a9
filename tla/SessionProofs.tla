---------------------------- MODULE SessionProofs ----------------------------
(***************************************************************************)
(* TLAPS proofs about Session, for any set of requests, clients and        *)
(* workspaces and any TTL.                                                 *)
(***************************************************************************)
EXTENDS Session, TLAPS

-----------------------------------------------------------------------------
(* The inductive invariant.                                                *)

\* What the handler's local variables say, given where it is.
Handlers ==
  \A r \in Requests :
    /\ pc[r] \in {"idle", "resolve", "lookup"} => sess[r] = None
    /\ pc[r] \in {"idle", "resolve"} => client[r] = None
    /\ pc[r] = "lookup" => client[r] # None
    /\ pc[r] = "lock" => sess[r] # None
    /\ pc[r] \in Using => (client[r] = None <=> sess[r] = None)
    /\ client[r] = None => sess[r] = None
    /\ proc[r] = "none" => resume[r] = None /\ ~announced[r]
    /\ proc[r] = "running" => pc[r] \in {"stream", "closing"}
    /\ pc[r] \in {"idle", "resolve", "lookup", "lock", "spawn"} => proc[r] = "none"
    /\ pc[r] \in {"stream", "closing"} => proc[r] # "none"
    /\ resume[r] # None => sess[r] # None
    /\ announced[r] => sess[r] # None

\* s.Mu is held exactly by the request of s that is between its Lock and its
\* release.
MutexHeld ==
  \A r, s \in Requests :
    holder[s] = r <=> sess[r] = s /\ pc[r] \in Using

\* A Session object is used by requests of the client it was created for, and
\* the map leads from each client to an object of its own.
SessionOfClient ==
  /\ \A r \in Requests : sess[r] # None => client[sess[r]] = client[r] /\ sess[sess[r]] = sess[r]
  /\ \A c \in Clients : sessions[c] # None => client[sessions[c]] = c /\ sess[sessions[c]] = sessions[c]

\* A session's conversation was announced by one of its own requests that was
\* started afresh; every later request resumes it.
Conversations ==
  /\ \A s \in Requests : ccID[s] # None =>
       sess[ccID[s]] = s /\ announced[ccID[s]] /\ resume[ccID[s]] = None
  /\ \A r \in Requests : resume[r] # None => ccID[sess[r]] = resume[r]
  /\ \A r \in Requests : announced[r] /\ resume[r] = None => ccID[sess[r]] = r
  /\ \A r \in Requests :
       (sess[r] # None /\ pc[r] \in {"stream", "closing"} /\ resume[r] = None /\ ~announced[r])
         => ccID[sess[r]] = None

\* The loop of the evictor works on the map as it is: nobody else writes it; and
\* the server does not exit before it.
EvictorInv ==
  /\ ~MapFree => todo \subseteq Mapped
  /\ mgr = "all" => Mapped \subseteq todo
  /\ MapFree => todo = {}
  /\ mgr \in {"all", "stopped"} => phase # "serving"
  /\ phase = "exited" => mgr = "stopped"

DirsEphemeral == dirs \subseteq ephemeral

\* An ephemeral resolution of a request that has not arrived does not exist, and
\* a stateless request has nothing more to do when its directory is left.
EphemeralInv ==
  /\ \A r \in ephemeral :
       /\ client[r] # None => sess[r] = r
       /\ pc[r] \notin {"idle", "resolve", "lookup"}
  /\ \A d \in left : client[d] = None => pc[d] = "done"

IInv ==
  /\ TypeOK
  /\ Handlers
  /\ MutexHeld
  /\ SessionOfClient
  /\ Conversations
  /\ EvictorInv
  /\ DirsEphemeral
  /\ EphemeralInv
  /\ DirHasOwner
  /\ MappedHasDir
-----------------------------------------------------------------------------
(* Initial states and steps.                                               *)

USE SessionAssumption

\* The initial states satisfy the inductive invariant.
LEMMA InitInv == Init => IInv
  BY DEF Init, IInv, TypeOK, Handlers, MutexHeld, SessionOfClient, Conversations, EvictorInv,
         DirsEphemeral, EphemeralInv, DirHasOwner, MappedHasDir, PCs, MgrStates, Phases, MapFree, Using

\* A request arrives: it has no session and no workspace yet.
LEMMA ArriveInv ==
  ASSUME NEW r \in Requests, NEW c \in Clients \cup {None},
         NEW w \in Workspaces \cup {None, Unknown}, IInv, Arrive(r, c, w)
  PROVE  IInv'
<1>1. TypeOK'
  BY DEF IInv, TypeOK, PCs, Arrive, Goto, objVars, diskVars, mgrVars
<1>2. Handlers'
  BY DEF IInv, TypeOK, Handlers, Using, Arrive, Goto, objVars, diskVars, mgrVars
<1>3. MutexHeld'
  BY DEF IInv, TypeOK, Handlers, MutexHeld, Using, Arrive, Goto, objVars, diskVars, mgrVars
<1>4. SessionOfClient'
  BY DEF IInv, TypeOK, Handlers, SessionOfClient, Arrive, Goto, objVars, diskVars, mgrVars
<1>5. Conversations'
    BY DEF IInv, TypeOK, Handlers, MutexHeld, Conversations, Using, Arrive, Goto, objVars,
         diskVars, mgrVars
<1>6. EphemeralInv'
  BY DEF IInv, TypeOK, Handlers, EphemeralInv, Arrive, Goto, objVars, diskVars, mgrVars
<1>7. DirHasOwner'
    BY DEF IInv, TypeOK, Handlers, DirHasOwner, EphemeralInv, Using, Persistent, DirsEphemeral,
         Arrive, Goto, objVars, diskVars, mgrVars
<1>8. EvictorInv' /\ DirsEphemeral' /\ MappedHasDir'
    BY DEF IInv, EvictorInv, DirsEphemeral, MappedHasDir, MapFree, Mapped, Arrive, Goto, objVars,
         diskVars, mgrVars
<1> QED BY <1>1, <1>2, <1>3, <1>4, <1>5, <1>6, <1>7, <1>8 DEF IInv

\* A stateless request gets a workspace: a new directory is its own.
LEMMA ResolveInv ==
  ASSUME NEW r \in Requests, IInv, Resolve(r)
  PROVE  IInv'
<1>1. TypeOK'
  BY DEF IInv, TypeOK, PCs, Resolve, MakeDir, At, Goto, objVars, diskVars, mgrVars
<1>2. Handlers'
  BY DEF IInv, TypeOK, Handlers, Using, Resolve, MakeDir, At, Goto, objVars, diskVars, mgrVars
<1>3. MutexHeld'
  BY DEF IInv, TypeOK, Handlers, MutexHeld, Using, Resolve, MakeDir, At, Goto, objVars, diskVars, mgrVars
<1>4. Conversations'
    BY DEF IInv, TypeOK, Handlers, MutexHeld, Conversations, Using, Resolve, MakeDir, At, Goto, objVars,
         diskVars, mgrVars
<1>5. DirsEphemeral'
  BY DEF IInv, DirsEphemeral, Resolve, MakeDir, At, Goto, objVars, diskVars, mgrVars
<1>6. EphemeralInv'
  BY DEF IInv, TypeOK, Handlers, EphemeralInv, Resolve, MakeDir, At, Goto, objVars, diskVars, mgrVars
<1>7. DirHasOwner'
    BY DEF IInv, TypeOK, Handlers, DirHasOwner, EphemeralInv, Using, Persistent, DirsEphemeral,
         Resolve, MakeDir, At, Goto, objVars, diskVars, mgrVars
<1>8. MappedHasDir'
    BY DEF IInv, TypeOK, SessionOfClient, MappedHasDir, Handlers, DirsEphemeral, EphemeralInv,
         Resolve, MakeDir, At, Goto, objVars, diskVars, mgrVars
<1>9. SessionOfClient' /\ EvictorInv'
    BY DEF IInv, SessionOfClient, EvictorInv, MapFree, Mapped, Resolve, MakeDir, At, Goto, objVars,
         diskVars, mgrVars
<1> QED BY <1>1, <1>2, <1>3, <1>4, <1>5, <1>6, <1>7, <1>8, <1>9 DEF IInv

\* AcquireOrCreate finds the session of the client.
LEMMA AcquireInv ==
  ASSUME NEW r \in Requests, IInv, Acquire(r)
  PROVE  IInv'
<1>1. TypeOK'
  BY DEF IInv, TypeOK, PCs, Handlers, Acquire, At, Goto, objVars, diskVars, mgrVars
<1>2. Handlers'
  BY DEF IInv, TypeOK, Handlers, Using, Acquire, At, Goto, objVars, diskVars, mgrVars
<1>3. MutexHeld'
  BY DEF IInv, TypeOK, Handlers, MutexHeld, Using, Acquire, At, Goto, objVars, diskVars, mgrVars
<1>4. SessionOfClient'
  BY DEF IInv, TypeOK, Handlers, SessionOfClient, Acquire, At, Goto, objVars, diskVars, mgrVars
<1>5. Conversations'
    BY DEF IInv, TypeOK, Handlers, MutexHeld, Conversations, Using, Acquire, At, Goto, objVars,
         diskVars, mgrVars
<1>6. EphemeralInv'
  BY DEF IInv, TypeOK, Handlers, EphemeralInv, Acquire, At, Goto, objVars, diskVars, mgrVars
<1>7. DirHasOwner'
    BY DEF IInv, TypeOK, Handlers, DirHasOwner, EphemeralInv, Using, Persistent, DirsEphemeral,
         Acquire, At, Goto, objVars, diskVars, mgrVars
<1>8. EvictorInv' /\ DirsEphemeral' /\ MappedHasDir'
    BY DEF IInv, EvictorInv, DirsEphemeral, MappedHasDir, MapFree, Mapped, Acquire, At, Goto,
         objVars, diskVars, mgrVars
<1> QED BY <1>1, <1>2, <1>3, <1>4, <1>5, <1>6, <1>7, <1>8 DEF IInv

\* AcquireOrCreate makes a session: its directory and its entry come together.
LEMMA CreateInv ==
  ASSUME NEW r \in Requests, IInv, Create(r)
  PROVE  IInv'
<1>1. TypeOK'
  BY DEF IInv, TypeOK, PCs, Handlers, Create, MakeDir, At, Goto, objVars, diskVars, mgrVars
<1>2. Handlers'
  BY DEF IInv, TypeOK, Handlers, Using, Create, MakeDir, At, Goto, objVars, diskVars, mgrVars
<1>3. MutexHeld'
  BY DEF IInv, TypeOK, Handlers, MutexHeld, Using, Create, MakeDir, At, Goto, objVars, diskVars, mgrVars
<1>4. SessionOfClient'
  BY DEF IInv, TypeOK, Handlers, SessionOfClient, Create, MakeDir, At, Goto, objVars, diskVars, mgrVars
<1>5. Conversations'
    BY DEF IInv, TypeOK, Handlers, MutexHeld, Conversations, Using, SessionOfClient, Create, MakeDir, At,
         Goto, objVars, diskVars, mgrVars
<1>6. EvictorInv'
  BY DEF IInv, TypeOK, EvictorInv, MapFree, Mapped, Create, MakeDir, At, Goto, objVars, diskVars, mgrVars
<1>7. DirsEphemeral'
  BY DEF IInv, DirsEphemeral, Create, MakeDir, At, Goto, objVars, diskVars, mgrVars
<1>8. EphemeralInv'
  BY DEF IInv, TypeOK, Handlers, EphemeralInv, Create, MakeDir, At, Goto, objVars, diskVars, mgrVars
<1>9. DirHasOwner'
    BY DEF IInv, TypeOK, Handlers, DirHasOwner, EphemeralInv, Using, Persistent, DirsEphemeral,
         SessionOfClient, Create, MakeDir, At, Goto, objVars, diskVars, mgrVars
<1>10. MappedHasDir'
    BY DEF IInv, TypeOK, SessionOfClient, MappedHasDir, Handlers, DirsEphemeral, EphemeralInv,
         Create, MakeDir, At, Goto, objVars, diskVars, mgrVars
<1> QED BY <1>1, <1>2, <1>3, <1>4, <1>5, <1>6, <1>7, <1>8, <1>9, <1>10 DEF IInv

\* s.Mu.Lock() returns.
LEMMA LockInv ==
  ASSUME NEW r \in Requests, IInv, Lock(r)
  PROVE  IInv'
<1>1. TypeOK'
  BY DEF IInv, TypeOK, PCs, Lock, At, Goto, objVars, diskVars, mgrVars
<1>2. Handlers'
  BY DEF IInv, TypeOK, Handlers, Using, Lock, At, Goto, objVars, diskVars, mgrVars
<1>3. MutexHeld'
  BY DEF IInv, TypeOK, Handlers, MutexHeld, Using, Lock, At, Goto, objVars, diskVars, mgrVars
<1>4. Conversations'
    BY DEF IInv, TypeOK, Handlers, MutexHeld, Conversations, Using, Lock, At, Goto, objVars,
         diskVars, mgrVars
<1>5. EphemeralInv'
  BY DEF IInv, TypeOK, Handlers, EphemeralInv, Lock, At, Goto, objVars, diskVars, mgrVars
<1>6. DirHasOwner'
    BY DEF IInv, TypeOK, Handlers, DirHasOwner, EphemeralInv, Using, Persistent, DirsEphemeral,
         Lock, At, Goto, objVars, diskVars, mgrVars
<1>7. SessionOfClient' /\ EvictorInv' /\ DirsEphemeral' /\ MappedHasDir'
    BY DEF IInv, SessionOfClient, EvictorInv, DirsEphemeral, MappedHasDir, MapFree, Mapped, Lock,
         At, Goto, objVars, diskVars, mgrVars
<1> QED BY <1>1, <1>2, <1>3, <1>4, <1>5, <1>6, <1>7 DEF IInv

\* A subprocess is started with the conversation of the session.
LEMMA SpawnInv ==
  ASSUME NEW r \in Requests, IInv, Spawn(r)
  PROVE  IInv'
<1>1. TypeOK'
  BY DEF IInv, TypeOK, PCs, Handlers, Persistent, Using, Spawn, At, Goto, objVars, diskVars, mgrVars
<1>2. Handlers'
  BY DEF IInv, TypeOK, Handlers, Using, Persistent, Spawn, At, Goto, objVars, diskVars, mgrVars
<1>3. MutexHeld'
  BY DEF IInv, TypeOK, Handlers, MutexHeld, Using, Spawn, At, Goto, objVars, diskVars, mgrVars
<1>4. Conversations'
    BY DEF IInv, TypeOK, Handlers, MutexHeld, Conversations, Using, Persistent, Spawn, At, Goto,
         objVars, diskVars, mgrVars
<1>5. EphemeralInv'
  BY DEF IInv, TypeOK, Handlers, EphemeralInv, Spawn, At, Goto, objVars, diskVars, mgrVars
<1>6. DirHasOwner'
    BY DEF IInv, TypeOK, Handlers, DirHasOwner, EphemeralInv, Using, Persistent, DirsEphemeral,
         Spawn, At, Goto, objVars, diskVars, mgrVars
<1>7. SessionOfClient' /\ EvictorInv' /\ DirsEphemeral' /\ MappedHasDir'
    BY DEF IInv, SessionOfClient, EvictorInv, DirsEphemeral, MappedHasDir, MapFree, Mapped, Spawn,
         At, Goto, objVars, diskVars, mgrVars
<1> QED BY <1>1, <1>2, <1>3, <1>4, <1>5, <1>6, <1>7 DEF IInv

\* The id of a fresh conversation is stored: the mutex excludes a second one.
LEMMA InitEventInv ==
  ASSUME NEW r \in Requests, IInv, InitEvent(r)
  PROVE  IInv'
<1>1. TypeOK'
  BY DEF IInv, TypeOK, PCs, InitEvent, At, objVars, diskVars, mgrVars
<1>2. Handlers'
  BY DEF IInv, TypeOK, Handlers, Using, Persistent, InitEvent, At, objVars, diskVars, mgrVars
<1>3. Conversations'
    BY DEF IInv, TypeOK, Handlers, MutexHeld, Conversations, Using, Persistent, InitEvent, At,
         objVars, diskVars, mgrVars
<1>4. MutexHeld' /\ SessionOfClient' /\ EvictorInv' /\ DirsEphemeral' /\ EphemeralInv' /\
      DirHasOwner' /\ MappedHasDir'
    BY DEF IInv, MutexHeld, SessionOfClient, EvictorInv, DirsEphemeral, EphemeralInv, DirHasOwner,
         MappedHasDir, MapFree, Mapped, Persistent, InitEvent, At, objVars, diskVars, mgrVars
<1> QED BY <1>1, <1>2, <1>3, <1>4 DEF IInv

\* A subprocess exits.
LEMMA ProcExitInv ==
  ASSUME NEW r \in Requests, IInv, ProcExit(r)
  PROVE  IInv'
<1>1. TypeOK'
  BY DEF IInv, TypeOK, PCs, ProcExit, objVars, diskVars, mgrVars
<1>2. Handlers'
  BY DEF IInv, TypeOK, Handlers, Using, ProcExit, objVars, diskVars, mgrVars
<1>3. MutexHeld' /\ SessionOfClient' /\ Conversations' /\ EvictorInv' /\ DirsEphemeral' /\
      EphemeralInv' /\ DirHasOwner' /\ MappedHasDir'
    BY DEF IInv, MutexHeld, SessionOfClient, Conversations, EvictorInv, DirsEphemeral,
         EphemeralInv, DirHasOwner, MappedHasDir, MapFree, Mapped, Persistent, ProcExit, objVars,
         diskVars, mgrVars
<1> QED BY <1>1, <1>2, <1>3 DEF IInv

\* release() unlocks the session.
LEMMA ReleaseInv ==
  ASSUME NEW r \in Requests, IInv, Release(r)
  PROVE  IInv'
<1>1. TypeOK'
    BY DEF IInv, TypeOK, PCs, Handlers, Persistent, Using, Release, At, Goto, objVars, diskVars,
         mgrVars
<1>2. Handlers'
  BY DEF IInv, TypeOK, Handlers, Using, Persistent, Release, At, Goto, objVars, diskVars, mgrVars
<1>3. MutexHeld'
    BY DEF IInv, TypeOK, Handlers, MutexHeld, Using, Persistent, Release, At, Goto, objVars,
         diskVars, mgrVars
<1>4. Conversations'
    BY DEF IInv, TypeOK, Handlers, MutexHeld, Conversations, Using, Release, At, Goto, objVars,
         diskVars, mgrVars
<1>5. EvictorInv'
  BY DEF IInv, TypeOK, EvictorInv, MapFree, Mapped, Release, At, Goto, objVars, diskVars, mgrVars
<1>6. EphemeralInv'
  BY DEF IInv, TypeOK, Handlers, EphemeralInv, Release, At, Goto, objVars, diskVars, mgrVars
<1>7. DirHasOwner'
    BY DEF IInv, TypeOK, Handlers, DirHasOwner, EphemeralInv, Using, Persistent, DirsEphemeral,
         Release, At, Goto, objVars, diskVars, mgrVars
<1>8. SessionOfClient' /\ DirsEphemeral' /\ MappedHasDir'
    BY DEF IInv, SessionOfClient, DirsEphemeral, MappedHasDir, Release, At, Goto, objVars,
         diskVars, mgrVars
<1> QED BY <1>1, <1>2, <1>3, <1>4, <1>5, <1>6, <1>7, <1>8 DEF IInv

\* A stateless request removes its own directory.
LEMMA CleanupInv ==
  ASSUME NEW r \in Requests, IInv, Cleanup(r)
  PROVE  IInv'
<1>1. TypeOK'
  BY DEF IInv, TypeOK, PCs, EphemeralInv, Persistent, Cleanup, RemoveDir, At, Goto, objVars, diskVars,
         mgrVars
<1>2. Handlers'
  BY DEF IInv, TypeOK, Handlers, Using, Cleanup, RemoveDir, At, Goto, objVars, diskVars, mgrVars
<1>3. MutexHeld'
    BY DEF IInv, TypeOK, Handlers, MutexHeld, Using, Persistent, Cleanup, RemoveDir, At, Goto, objVars,
         diskVars, mgrVars
<1>4. Conversations'
    BY DEF IInv, TypeOK, Handlers, MutexHeld, Conversations, Using, Cleanup, RemoveDir, At, Goto, objVars,
         diskVars, mgrVars
<1>5. DirsEphemeral'
  BY DEF IInv, DirsEphemeral, Cleanup, RemoveDir, At, Goto, objVars, diskVars, mgrVars
<1>6. EphemeralInv'
  BY DEF IInv, TypeOK, Handlers, EphemeralInv, Cleanup, RemoveDir, At, Goto, objVars, diskVars, mgrVars
<1>7. DirHasOwner'
    BY DEF IInv, TypeOK, Handlers, DirHasOwner, EphemeralInv, Using, Persistent, DirsEphemeral,
         Cleanup, RemoveDir, At, Goto, objVars, diskVars, mgrVars
<1>8. MappedHasDir'
    BY DEF IInv, TypeOK, SessionOfClient, MappedHasDir, Persistent, Handlers, Cleanup, RemoveDir, At, Goto,
         objVars, diskVars, mgrVars
<1>9. SessionOfClient' /\ EvictorInv'
    BY DEF IInv, SessionOfClient, EvictorInv, MapFree, Mapped, Cleanup, RemoveDir, At, Goto, objVars,
         diskVars, mgrVars
<1> QED BY <1>1, <1>2, <1>3, <1>4, <1>5, <1>6, <1>7, <1>8, <1>9 DEF IInv

\* The steps that only move a handler: they may leave the mutex alone because
\* they stay on the same side of it, and leave no subprocess behind.
LEMMA MoveInv ==
  ASSUME NEW r \in Requests, NEW from, NEW to, IInv, Move(r, from, to),
         \/ from = "resolve" /\ to = "done"
         \/ from = "lookup"  /\ to = "done"
         \/ from = "spawn"   /\ to = "release"
         \/ from = "stream"  /\ to = "closing"
         \/ from = "closing" /\ to = "release" /\ proc[r] = "exited"
  PROVE  IInv'
<1>1. TypeOK'
  BY DEF IInv, TypeOK, PCs, Move, At, Goto, objVars, diskVars, mgrVars
<1>2. Handlers'
  BY DEF IInv, TypeOK, Handlers, Using, Move, At, Goto, objVars, diskVars, mgrVars
<1>3. MutexHeld'
  BY DEF IInv, TypeOK, Handlers, MutexHeld, Using, Move, At, Goto, objVars, diskVars, mgrVars
<1>4. Conversations'
  BY DEF IInv, TypeOK, Conversations, Move, At, Goto, objVars, diskVars, mgrVars
<1>5. EphemeralInv' /\ DirHasOwner'
  BY DEF IInv, TypeOK, EphemeralInv, DirsEphemeral, DirHasOwner, Persistent, Using, Move, At, Goto,
         objVars, diskVars, mgrVars
<1>6. SessionOfClient' /\ EvictorInv' /\ DirsEphemeral' /\ MappedHasDir'
  BY DEF IInv, SessionOfClient, EvictorInv, MapFree, Mapped, DirsEphemeral, MappedHasDir, Move,
         objVars, diskVars, mgrVars
<1> QED BY <1>1, <1>2, <1>3, <1>4, <1>5, <1>6 DEF IInv

\* Every step of a handler.
LEMMA HandlerInv ==
  ASSUME NEW r \in Requests, IInv, Handler(r)
  PROVE  IInv'
<1>1. CASE ResolveFails(r) \/ CreateFails(r) \/ SpawnFails(r) \/ StreamEnds(r) \/ Disconnect(r)
           \/ CloseReturns(r)
  BY <1>1, MoveInv DEF ResolveFails, CreateFails, SpawnFails, StreamEnds, Disconnect, CloseReturns
<1> QED
  BY <1>1, ResolveInv, AcquireInv, CreateInv, LockInv, SpawnInv, InitEventInv, ReleaseInv, CleanupInv
     DEF Handler

\* Evicting a session that is in the map touches neither the requests nor the
\* mutexes: its directory and its entry go together.
LEMMA EvictInv ==
  ASSUME NEW s \in Requests, IInv, Evict(s), s \in todo, todo' = todo \ {s},
         mgr \in {"idle", "all"},
         UNCHANGED <<reqVars, holder, ccID, age, mgr, phase>>
  PROVE  IInv'
<1>1. TypeOK' /\ DirsEphemeral'
  <2>1. s \notin left
    BY DEF IInv, TypeOK, EvictorInv, MapFree, Mapped, DirsEphemeral, MappedHasDir
  <2> QED  BY <2>1 DEF IInv, TypeOK, DirsEphemeral, Evict, RemoveDir, reqVars
<1>2. PICK c \in Clients : sessions[c] = s
  BY DEF IInv, EvictorInv, MapFree, Mapped
<1>3. client[s] = c /\ c # None
  BY <1>2 DEF IInv, SessionOfClient
<1>4. Handlers' /\ MutexHeld' /\ Conversations' /\ EphemeralInv'
  BY <1>3 DEF IInv, Handlers, MutexHeld, Conversations, EphemeralInv, Evict, RemoveDir, reqVars
<1>5. SessionOfClient'
  BY DEF IInv, TypeOK, SessionOfClient, Evict, RemoveDir, reqVars
<1>6. EvictorInv'
  <2>1. ASSUME NEW t \in todo'
        PROVE  \E d \in Clients : sessions'[d] = t
    BY <2>1 DEF IInv, TypeOK, EvictorInv, MapFree, Mapped, Evict
  <2>2. todo' \subseteq Mapped'
    BY <2>1, <1>1 DEF Mapped, TypeOK
  <2>3. s \notin Mapped' /\ Mapped' \subseteq Mapped
    BY DEF IInv, TypeOK, Mapped, Evict
  <2>4. mgr' = "all" => Mapped' \subseteq todo'
    BY <2>3 DEF IInv, EvictorInv
  <2> QED BY <2>2, <2>4 DEF IInv, EvictorInv, MapFree
<1>7. DirHasOwner'
  BY <1>2, <1>3 DEF IInv, TypeOK, DirHasOwner, SessionOfClient, Persistent, Evict, RemoveDir, reqVars
<1>8. MappedHasDir'
  BY DEF IInv, TypeOK, MappedHasDir, EphemeralInv, Evict, RemoveDir, reqVars
<1> QED BY <1>1, <1>4, <1>5, <1>6, <1>7, <1>8 DEF IInv

\* Every step of the manager's goroutine.
LEMMA ManagerInv == IInv /\ ManagerStep => IInv'
<1> SUFFICES ASSUME IInv, ManagerStep PROVE IInv'
  OBVIOUS
<1>1. CASE StartEvictIdle \/ EndEvictIdle \/ StartEvictAll \/ EndEvictAll
  <2> USE <1>1 DEF StartEvictIdle, EndEvictIdle, StartEvictAll, EndEvictAll, reqVars, objVars, diskVars
  <2>1. TypeOK' /\ EvictorInv'
    BY DEF IInv, TypeOK, MgrStates, EvictorInv, MapFree, Mapped
  <2>2. Handlers' /\ MutexHeld' /\ SessionOfClient' /\ Conversations' /\ DirsEphemeral'
        /\ EphemeralInv' /\ DirHasOwner' /\ MappedHasDir'
    BY DEF IInv, Handlers, MutexHeld, SessionOfClient, Conversations, DirsEphemeral, EphemeralInv,
           DirHasOwner, MappedHasDir, Persistent
  <2> QED BY <2>1, <2>2 DEF IInv
<1>2. ASSUME NEW s \in Requests, EvictIdleStep(s)
      PROVE  IInv'
  <2>1. CASE holder[s] = None
    BY <1>2, <2>1, EvictInv DEF EvictIdleStep
  <2>2. CASE holder[s] # None
    <3> USE <1>2, <2>2 DEF EvictIdleStep, reqVars, diskVars
    <3>1. TypeOK' /\ EvictorInv'
      BY DEF IInv, TypeOK, EvictorInv, MapFree, Mapped
    <3>2. Handlers' /\ MutexHeld' /\ SessionOfClient' /\ Conversations' /\ DirsEphemeral'
          /\ EphemeralInv' /\ DirHasOwner' /\ MappedHasDir'
      BY DEF IInv, Handlers, MutexHeld, SessionOfClient, Conversations, DirsEphemeral, EphemeralInv,
             DirHasOwner, MappedHasDir, Persistent
    <3> QED BY <3>1, <3>2 DEF IInv
  <2> QED BY <2>1, <2>2
<1>3. ASSUME NEW s \in Requests, EvictAllStep(s)
      PROVE  IInv'
  BY <1>3, EvictInv DEF EvictAllStep
<1> QED BY <1>1, <1>2, <1>3 DEF ManagerStep

\* Server.Run and the clock change what no other part of the invariant is about.
LEMMA ServerInv == IInv /\ (ServerStep \/ Tick \/ UNCHANGED vars) => IInv'
<1> SUFFICES ASSUME IInv, ServerStep \/ Tick \/ UNCHANGED vars PROVE IInv'
  OBVIOUS
<1> USE DEF ServerStep, Cancel, BeginDrain, ListenerFails, DrainDone, DrainTimeout, Exit, PhaseStep,
            Tick, vars, reqVars, objVars, diskVars, mgrVars
<1>1. TypeOK'
  BY DEF IInv, TypeOK, Phases
<1>2. Handlers' /\ MutexHeld' /\ SessionOfClient' /\ Conversations' /\ DirsEphemeral'
      /\ EphemeralInv' /\ DirHasOwner' /\ MappedHasDir'
  BY DEF IInv, Handlers, MutexHeld, SessionOfClient, Conversations, DirsEphemeral, EphemeralInv,
         DirHasOwner, MappedHasDir, Persistent
<1>3. EvictorInv'
  BY DEF IInv, EvictorInv, MapFree, Mapped
<1> QED BY <1>1, <1>2, <1>3 DEF IInv

\* The invariant is inductive.
LEMMA NextInv == IInv /\ [Next]_vars => IInv'
<1> SUFFICES ASSUME IInv, [Next]_vars PROVE IInv'
  OBVIOUS
<1> QED
  BY ArriveInv, HandlerInv, ProcExitInv, ManagerInv, ServerInv DEF Next, Exited

-----------------------------------------------------------------------------
(* The theorems.                                                           *)

\* The inductive invariant holds in every reachable state.
THEOREM Invariance == Spec => []IInv
  BY InitInv, NextInv, PTL DEF Spec

\* The variables keep their types; what is passed with --resume is an id that
\* claude announced.
THEOREM TypeCorrect == Spec => []TypeOK
<1>1. IInv => TypeOK
  BY DEF IInv
<1> QED BY <1>1, Invariance, PTL

\* `claude --resume` is never interleaved: two live subprocesses with the same
\* conversation would hold the same session's mutex.
THEOREM Exclusive == Spec => []ConversationExclusive
<1>1. IInv => ConversationExclusive
  <2> SUFFICES ASSUME IInv, NEW r1 \in Running, NEW r2 \in Running,
                      Conversation(r1) = Conversation(r2)
               PROVE  r1 = r2
    BY DEF ConversationExclusive
  <2>1. r1 \in Requests /\ r2 \in Requests /\ pc[r1] \in Using /\ pc[r2] \in Using
    BY DEF IInv, Handlers, Running, Using
  <2>2. CASE resume[r1] = None /\ resume[r2] = None
    BY <2>2 DEF Conversation
  <2>3. CASE resume[r1] # None \/ resume[r2] # None
    <3>1. sess[r1] # None /\ sess[r1] = sess[r2]
      BY <2>1, <2>3 DEF IInv, TypeOK, Handlers, Conversations, Conversation
    <3> QED BY <2>1, <3>1 DEF IInv, TypeOK, MutexHeld
  <2> QED BY <2>2, <2>3
<1> QED BY <1>1, Invariance, PTL

\* A request resumes only what a request of the same client began and announced.
THEOREM Isolated == Spec => []ConversationIsolated
<1>1. IInv => ConversationIsolated
  BY DEF IInv, TypeOK, Handlers, SessionOfClient, Conversations, ConversationIsolated
<1> QED BY <1>1, Invariance, PTL

\* Only one subprocess that was started afresh on a Session object announces an id.
THEOREM OneConversation == Spec => []OneConversationPerSession
<1>1. IInv => OneConversationPerSession
  BY DEF IInv, TypeOK, Handlers, Conversations, OneConversationPerSession, Persistent
<1> QED BY <1>1, Invariance, PTL

\* No ephemeral directory is forgotten before its removal was tried, and no session
\* in the map has lost its own.
THEOREM DirsAccounted == Spec => []DirsOwned
<1>1. IInv => DirsOwned
  BY DEF IInv, DirsOwned
<1> QED BY <1>1, Invariance, PTL

\* While the server serves, no step removes the directory of a live subprocess:
\* evictIdle finds the mutex of its session held, and a stateless request
\* removes only its own directory, after its subprocess has exited.
THEOREM Kept == Spec => WorkspaceKept
<1> DEFINE Keeps == \A r \in Running :
                      (phase = "serving" /\ Owner(r) \in dirs) => Owner(r) \in dirs'
<1>1. IInv /\ [Next]_vars => [Keeps]_vars
  <2> SUFFICES ASSUME IInv, Next, NEW r \in Running, phase = "serving", Owner(r) \in dirs,
                      Owner(r) \notin dirs'
               PROVE  FALSE
    OBVIOUS
  <2>1. r \in Requests /\ pc[r] \in {"stream", "closing"} /\ mgr \in MgrStates
    BY DEF IInv, TypeOK, Handlers, Running
  <2>2. Persistent(r) => /\ Owner(r) = sess[r] /\ holder[sess[r]] = r
                         /\ client[sess[r]] # None
    BY <2>1 DEF IInv, TypeOK, Handlers, MutexHeld, SessionOfClient, Persistent, Owner, Using
  <2>3. ~Persistent(r) => Owner(r) = r /\ client[r] = None
    BY DEF Persistent, Owner
  <2>4. ASSUME NEW q \in Requests, Handler(q)
        PROVE  FALSE
    <3>1. CASE Cleanup(q)
      BY <3>1, <2>1, <2>2, <2>3 DEF Cleanup, RemoveDir, At, Persistent
    <3> QED
      BY <2>4, <3>1 DEF Handler, Resolve, ResolveFails, Acquire, Create, CreateFails, Lock, Spawn,
         SpawnFails, InitEvent, StreamEnds, Disconnect, CloseReturns, Release, Move, MakeDir, diskVars
  <2>5. ASSUME NEW s \in Requests, EvictIdleStep(s)
        PROVE  FALSE
    <3>1. Owner(r) = s /\ holder[s] = None /\ s \in Mapped
      BY <2>5 DEF IInv, EvictorInv, MapFree, EvictIdleStep, Evict, RemoveDir, diskVars
    <3>2. client[s] # None
      BY <3>1 DEF IInv, SessionOfClient, Mapped
    <3> QED BY <2>1, <2>2, <2>3, <3>1, <3>2
  <2>6. ASSUME NEW s \in Requests, EvictAllStep(s)
        PROVE  FALSE
    BY <2>6 DEF IInv, EvictorInv, EvictAllStep
  <2> QED
    BY <2>4, <2>5, <2>6 DEF Next, Arrive, ProcExit, ManagerStep, StartEvictIdle, EndEvictIdle,
       StartEvictAll, EndEvictAll, ServerStep, Cancel, BeginDrain, ListenerFails, DrainDone,
       DrainTimeout, Exit, PhaseStep, Tick, Exited, vars, diskVars
<1> QED BY <1>1, Invariance, PTL DEF Spec, WorkspaceKept

\* evictAll has tried to remove every session's directory when it ends: what the
\* file system let go is gone.
THEOREM Reclaims == Spec => StopReclaims
<1> DEFINE Reclaimed == mgr = "all" /\ mgr' = "stopped" => \A d \in dirs' \ left' : ~Persistent(d)
<1>1. IInv /\ [Next]_vars => [Reclaimed]_vars
  <2> SUFFICES ASSUME IInv, Next, mgr = "all", mgr' = "stopped", NEW d \in dirs' \ left', Persistent(d)
               PROVE  FALSE
    OBVIOUS
  <2>1. EndEvictAll
    BY DEF Next, Arrive, Handler, Resolve, ResolveFails, Acquire, Create, CreateFails, Lock, Spawn,
       SpawnFails, InitEvent, StreamEnds, Disconnect, CloseReturns, Release, Cleanup, Move, ProcExit,
       ManagerStep, StartEvictIdle, EndEvictIdle, StartEvictAll, EvictIdleStep, EvictAllStep,
       ServerStep, Cancel, BeginDrain, ListenerFails, DrainDone, DrainTimeout, Exit, PhaseStep, Tick,
       Exited, vars, mgrVars
  <2>2. d \in dirs \ left /\ todo = {} /\ phase # "exited"
    BY <2>1 DEF IInv, EvictorInv, EndEvictAll, diskVars
  <2>3. d \in Mapped
    BY <2>2 DEF IInv, TypeOK, DirHasOwner, Mapped, Persistent
  <2> QED BY <2>2, <2>3 DEF IInv, EvictorInv
<1> QED BY <1>1, Invariance, PTL DEF Spec, StopReclaims

-----------------------------------------------------------------------------
(* Session implements ConversationStore.                                   *)

\* A step that starts no subprocess and learns no id is not seen, even if a
\* request arrives: it has no subprocess yet.
LEMMA UnseenStep ==
  ASSUME UNCHANGED <<proc, resume, announced>>,
         \A r \in Requests : proc[r] # "none" => client'[r] = client[r]
  PROVE  UNCHANGED Store!vars
<1>1. RunOwner' = RunOwner
  BY DEF RunOwner
<1>2. RunConversation' = RunConversation /\ Running' = Running /\ Resumable' = Resumable
  BY DEF RunConversation, Conversation, Running, Resumable
<1> QED  BY <1>1, <1>2 DEF Store!vars

\* The conversation that a session holds can be resumed: it was announced, its
\* client is the session's, and whoever appends to it holds the mutex.
LEMMA HeldConversation ==
  ASSUME IInv, NEW r \in Requests, pc[r] = "spawn", Persistent(r), ccID[sess[r]] # None
  PROVE  /\ ccID[sess[r]] \in Resumable /\ client[r] \in Clients
         /\ RunOwner[ccID[sess[r]]] = client[r]
         /\ \A q \in Running : RunConversation[q] # ccID[sess[r]]
<1> DEFINE c == ccID[sess[r]]
<1>1. /\ sess[r] \in Requests /\ c \in Requests /\ sess[c] = sess[r]
      /\ announced[c] /\ resume[c] = None
  BY DEF IInv, TypeOK, Handlers, Using, Persistent, Conversations
<1>2. proc[c] # "none" /\ client[c] = client[r]
  BY <1>1 DEF IInv, TypeOK, Handlers, SessionOfClient
<1>3. ASSUME NEW q \in Running, RunConversation[q] = c  PROVE FALSE
  <2>1. q \in Requests /\ pc[q] \in Using /\ Conversation(q) = c
    BY <1>3 DEF IInv, Handlers, Running, RunConversation, Using
  <2>2. sess[q] = sess[r]
    <3>1. CASE resume[q] = None
      BY <1>1, <2>1, <3>1 DEF Conversation
    <3>2. CASE resume[q] # None
      BY <1>1, <2>1, <3>2 DEF Conversation, IInv, TypeOK, Handlers, Conversations
    <3> QED  BY <3>1, <3>2
  <2>3. q = r
    BY <1>1, <2>1, <2>2 DEF IInv, MutexHeld, Using
  <2> QED  BY <1>3, <2>3 DEF IInv, Handlers, Running
<1> QED  BY <1>1, <1>2, <1>3 DEF Resumable, RunOwner, IInv, TypeOK, Persistent

\* claude is started: with the session's conversation, or with one of its own.
LEMMA SpawnStarts ==
  ASSUME IInv, NEW r \in Requests, Spawn(r)
  PROVE  Store!Next
<1> DEFINE c == IF resume'[r] = None THEN r ELSE resume'[r]
<1>1. /\ pc[r] = "spawn" /\ proc[r] = "none" /\ ~announced[r] /\ client[r] \in Clients \cup {None}
      /\ resume' = [resume EXCEPT ![r] = IF Persistent(r) THEN ccID[sess[r]] ELSE None]
      /\ proc' = [proc EXCEPT ![r] = "running"]
      /\ UNCHANGED <<client, announced>>
  BY DEF IInv, TypeOK, Handlers, Spawn, At
<1>2. proc \in [Requests -> {"none", "running", "exited"}] /\ resume \in [Requests -> Requests \cup {None}]
  BY DEF IInv, TypeOK
<1>3. RunOwner' = [RunOwner EXCEPT ![r] = client[r]]
  BY <1>1, <1>2 DEF RunOwner
<1>4. RunConversation' = [RunConversation EXCEPT ![r] = c]
  BY <1>1, <1>2 DEF RunConversation, Conversation
<1>5. Running' = Running \cup {r} /\ Resumable' = Resumable /\ RunConversation[r] = None
  BY <1>1, <1>2 DEF Running, Resumable, RunConversation
<1>6. Store!Start(r, client[r], c)
  BY <1>3, <1>4, <1>5 DEF Store!Start
<1>7. CASE resume'[r] = None
  BY <1>1, <1>6, <1>7 DEF Store!Begin, Store!Next
<1>8. CASE resume'[r] # None
  <2>1. Persistent(r) /\ ccID[sess[r]] # None /\ c = ccID[sess[r]]
    BY <1>1, <1>2, <1>8
  <2>2. Store!Resume(r, client[r], c) /\ client[r] \in Clients /\ c \in Requests
    BY <1>1, <1>6, <2>1, HeldConversation DEF Store!Resume, Resumable
  <2> QED  BY <2>2 DEF Store!Next
<1> QED  BY <1>7, <1>8

\* An id is learned: that of a new conversation, or again that of an old one.
LEMMA InitEventAnnounces ==
  ASSUME IInv, NEW r \in Requests, InitEvent(r)
  PROVE  [Store!Next]_(Store!vars)
<1>1. /\ client[r] # None /\ proc[r] # "none"
      /\ announced' = [announced EXCEPT ![r] = TRUE] /\ announced \in [Requests -> BOOLEAN]
      /\ UNCHANGED <<client, proc, resume>>
  BY DEF IInv, TypeOK, Handlers, InitEvent, At, Persistent
<1>2. /\ UNCHANGED <<RunOwner, RunConversation, Running>>
      /\ RunOwner[r] = client[r] /\ RunConversation[r] = Conversation(r)
  BY <1>1 DEF RunOwner, RunConversation, Conversation, Running
<1>3. CASE resume[r] = None
  <2>1. Resumable' = Resumable \cup {r}
    BY <1>1, <1>3 DEF Resumable
  <2>2. Store!Announce(r)
    BY <1>1, <1>2, <1>3, <2>1 DEF Store!Announce, Conversation
  <2> QED  BY <2>2 DEF Store!Next
<1>4. CASE resume[r] # None
  <2>1. Resumable' = Resumable
    BY <1>1, <1>4 DEF Resumable
  <2> QED  BY <1>2, <2>1 DEF Store!vars
<1> QED  BY <1>3, <1>4

\* A subprocess exits.
LEMMA ProcExitEnds ==
  ASSUME IInv, NEW r \in Requests, ProcExit(r)
  PROVE  Store!Next
<1>1. /\ proc[r] = "running" /\ proc' = [proc EXCEPT ![r] = "exited"]
      /\ proc \in [Requests -> {"none", "running", "exited"}]
      /\ UNCHANGED <<client, resume, announced>>
  BY DEF IInv, TypeOK, ProcExit
<1>2. UNCHANGED <<RunOwner, RunConversation, Resumable>>
  BY <1>1 DEF RunOwner, RunConversation, Conversation, Resumable
<1>3. r \in Running /\ Running' = Running \ {r}
  BY <1>1 DEF Running
<1> QED  BY <1>2, <1>3 DEF Store!End, Store!Next

\* Every step of Session is one of ConversationStore or is not seen.
LEMMA StoreStep == IInv /\ [Next]_vars => [Store!Next]_(Store!vars)
<1> SUFFICES ASSUME IInv, [Next]_vars PROVE [Store!Next]_(Store!vars)
  OBVIOUS
<1>1. ASSUME NEW r \in Requests, NEW c \in Clients \cup {None},
             NEW w \in Workspaces \cup {None, Unknown}, Arrive(r, c, w)
      PROVE  UNCHANGED Store!vars
  <2>1. UNCHANGED <<proc, resume, announced>> /\ client' = [client EXCEPT ![r] = c]
    BY <1>1 DEF Arrive
  <2>2. proc[r] = "none" /\ client \in [Requests -> Clients \cup {None}]
    BY <1>1 DEF Arrive, IInv, TypeOK, Handlers
  <2> QED  BY <2>1, <2>2, UnseenStep
<1>2. ASSUME NEW r \in Requests, Handler(r), ~Spawn(r), ~InitEvent(r)
      PROVE  UNCHANGED Store!vars
  <2>1. UNCHANGED <<proc, resume, announced, client>>
    BY <1>2 DEF Handler, Resolve, ResolveFails, Acquire, Create, CreateFails, Lock, SpawnFails,
       StreamEnds, Disconnect, CloseReturns, Release, Cleanup, Move
  <2> QED  BY <2>1, UnseenStep
<1>3. CASE ManagerStep \/ ServerStep \/ Tick \/ UNCHANGED vars
  <2>1. UNCHANGED <<proc, resume, announced, client>>
    BY <1>3 DEF ManagerStep, StartEvictIdle, EndEvictIdle, StartEvictAll, EndEvictAll,
       EvictIdleStep, EvictAllStep, ServerStep, Cancel, BeginDrain, ListenerFails, DrainDone,
       DrainTimeout, Exit, PhaseStep, Tick, vars, reqVars
  <2> QED  BY <2>1, UnseenStep
<1> QED
  BY <1>1, <1>2, <1>3, SpawnStarts, InitEventAnnounces, ProcExitEnds DEF Next, Exited

\* Whatever requests, evictions, disconnects and shutdowns do, claude's
\* conversations are used as ConversationStore says.
THEOREM Refinement == Spec => StoreSpec
<1>1. Init => Store!Init
  BY DEF Init, Store!Init, RunOwner, RunConversation, Running, Resumable
<1>2. IInv /\ [Next]_vars => [Store!Next]_(Store!vars)
  BY StoreStep
<1> QED  BY <1>1, <1>2, Invariance, PTL DEF Spec, StoreSpec, Store!Spec

\* A conversation is its beginner's and can be resumed when others append to it.
StoreInv ==
  /\ \A c \in Resumable : c \in Requests /\ RunConversation[c] = c
  /\ \A r \in Requests :
       RunConversation[r] \notin {None, r} => RunConversation[r] \in Resumable
  /\ \A r \in Running : r \in Requests /\ RunConversation[r] # None
  /\ Store!Exclusive
  /\ Store!Private

\* A run that starts on its own conversation, or on one at rest, keeps it so.
LEMMA StartKeeps ==
  ASSUME StoreInv, NEW r \in Requests, NEW o, NEW c \in Requests, Store!Start(r, o, c),
         c = r \/ (c \in Resumable /\ RunOwner[c] = o /\ \A q \in Running : RunConversation[q] # c)
  PROVE  StoreInv'
<1>1. /\ RunConversation[r] = None /\ r \notin Running /\ r \notin Resumable
      /\ \A q \in Requests : RunConversation[q] # r
  BY DEF StoreInv, Store!Start
<1>2. /\ \A q \in Requests : RunConversation'[q] = IF q = r THEN c ELSE RunConversation[q]
      /\ \A q \in Requests : RunOwner'[q] = IF q = r THEN o ELSE RunOwner[q]
      /\ Running' = Running \cup {r} /\ Resumable' = Resumable
  <2>1. DOMAIN RunConversation = Requests /\ DOMAIN RunOwner = Requests
    BY DEF RunConversation, RunOwner
  <2> QED  BY <2>1 DEF Store!Start
<1>3. /\ \A d \in Resumable' : d \in Requests /\ RunConversation'[d] = d
      /\ \A q \in Requests :
           RunConversation'[q] \notin {None, q} => RunConversation'[q] \in Resumable'
      /\ \A q \in Running' : q \in Requests /\ RunConversation'[q] # None
  BY <1>1, <1>2 DEF StoreInv
<1>4. Store!Exclusive'
  BY <1>1, <1>2 DEF StoreInv, Store!Exclusive
<1>5. Store!Private'
  BY <1>1, <1>2 DEF StoreInv, Store!Private
<1> QED  BY <1>3, <1>4, <1>5 DEF StoreInv

\* ConversationStore promises enough: whatever implements it never interleaves
\* two runs on a conversation, and never lets a client into another's.
THEOREM StoreSuffices == StoreSpec => [](Store!Exclusive /\ Store!Private)
<1>1. Store!Init => StoreInv
  BY DEF Store!Init, StoreInv, Store!Exclusive, Store!Private
<1>2. StoreInv /\ [Store!Next]_(Store!vars) => StoreInv'
  <2> SUFFICES ASSUME StoreInv, [Store!Next]_(Store!vars)  PROVE StoreInv'
    OBVIOUS
  <2>1. ASSUME NEW r \in Requests, NEW o \in Clients \cup {None}, Store!Begin(r, o)
        PROVE  StoreInv'
    BY <2>1, StartKeeps DEF Store!Begin
  <2>2. ASSUME NEW r \in Requests, NEW o \in Clients, NEW c \in Requests, Store!Resume(r, o, c)
        PROVE  StoreInv'
    BY <2>2, StartKeeps DEF Store!Resume
  <2>3. ASSUME NEW r \in Requests, Store!Announce(r)
        PROVE  StoreInv'
    BY <2>3 DEF Store!Announce, StoreInv, Store!Exclusive, Store!Private
  <2>4. ASSUME NEW r \in Requests, Store!End(r)
        PROVE  StoreInv'
    BY <2>4 DEF Store!End, StoreInv, Store!Exclusive, Store!Private
  <2>5. CASE UNCHANGED Store!vars
    BY <2>5 DEF Store!vars, StoreInv, Store!Exclusive, Store!Private
  <2> QED  BY <2>1, <2>2, <2>3, <2>4, <2>5 DEF Store!Next
<1>3. StoreInv => Store!Exclusive /\ Store!Private
  BY DEF StoreInv
<1> QED  BY <1>1, <1>2, <1>3, PTL DEF StoreSpec, Store!Spec
=============================================================================
