------------------------------- MODULE BridgeFS -------------------------------
(***************************************************************************)
(* The file system of a bridge, from the kernel's FUSE calls on the server *)
(* to the disk of the client: fuseFS with its cache of stat results        *)
(* (internal/bridge), the daemon that runs every request in a goroutine of *)
(* its own (internal/bridgeclient), the user who edits the same files and  *)
(* answers the daemon's prompts, and the watch events, which may be late   *)
(* or lost.  A call that has timed out goes on at the daemon.              *)
(*                                                                         *)
(* A path is the sequence of its names, as in keys of the cache: the root  *)
(* is <<>>.  Attributes and contents of a path are its version, the number *)
(* of times they were set.  The connection is that of BridgeConn: a call   *)
(* is answered once, or fails at any time.                                 *)
(***************************************************************************)
EXTENDS Naturals, Sequences

CONSTANTS
  Ops,         \* FUSE calls, each by a kernel thread
  Paths,       \* the paths they are about
  Asks,        \* what they ask: method, path and, for a rename, its target
  Tree,        \* Tree[p]: what the client has at p at first
  CacheTTL,    \* defaultCacheTTL in ticks
  Timeout,     \* defaultMountTimeout in ticks
  Confirm,     \* the daemon was started with --confirm
  AllowWrite,  \* and with --allow-write
  Buffer,      \* the capacity of the channel of watch events
  MaxTime,     \* bound on the time
  MaxEdits,    \* bound on what the user does
  None

Root == <<>>

Kinds == {"none", "file", "dir"}

Queries == {"stat", "read", "readdir"}

Methods == Queries \cup {"write", "truncate", "create", "mkdir", "remove", "rename", "chmod"}

ASSUME FSAssumption ==
  /\ CacheTTL \in Nat /\ Timeout \in Nat /\ Buffer \in Nat /\ MaxTime \in Nat /\ MaxEdits \in Nat
  /\ Paths \subseteq Seq(STRING) /\ Tree \in [Paths -> Kinds]
  /\ Asks \subseteq [m : Methods, p : Paths, q : Paths]
  /\ None \notin Ops /\ None \notin Asks

Parent(p) == SubSeq(p, 1, Len(p) - 1)

VARIABLES
  now,       \* time in ticks
  disk,      \* disk[p]: what is at p
  born,      \* born[p]: when the versions of p came
  req,       \* req[o]: what o asks, as long as somebody wants to know
  at,        \* at[o]: where the FUSE call is
  deadline,  \* deadline[o]: when its RPC times out
  ans,       \* ans[o]: what the RPC, or the cache, has answered
  crossed,   \* history: an acknowledged change of the path crossed o
  job,       \* job[o]: where the daemon's goroutine for o is
  reply,     \* reply[o]: its response frame
  made,      \* history, made[o][p]: the version of p that o made and waits for, or 0
  prompt,    \* whose prompt the user sees
  cache,     \* cache[p]: fuseFS.cache
  acked,     \* history, acked[p]: the latest version whose maker was acknowledged
  edits,     \* what the user has done
  events     \* wsConn.events

fuseVars   == <<req, at, deadline, ans, crossed>>
cacheVars  == <<cache, acked>>
diskVars   == <<disk, born, made, edits>>
daemonVars == <<job, reply, prompt>>
vars == <<now, fuseVars, cacheVars, diskVars, daemonVars, events>>

Version(p) == Len(born[p])

NoneMade == [p \in Paths |-> 0]

NoAnswer == [code |-> "none", v |-> 0]

Init ==
  /\ now = 0
  /\ disk = Tree /\ born = [p \in Paths |-> <<0>>]
  /\ req = [o \in Ops |-> None]
  /\ at = [o \in Ops |-> "idle"]
  /\ deadline = [o \in Ops |-> 0]
  /\ ans = [o \in Ops |-> NoAnswer]
  /\ crossed = [o \in Ops |-> FALSE]
  /\ job = [o \in Ops |-> "none"]
  /\ reply = [o \in Ops |-> NoAnswer]
  /\ made = [o \in Ops |-> NoneMade]
  /\ prompt = None
  /\ cache = [p \in Paths |-> None]
  /\ acked = [p \in Paths |-> 0]
  /\ edits = 0 /\ events = <<>>

-----------------------------------------------------------------------------
(* The cache.                                                              *)

\* Mutant: entries do not expire.
CachedForever(p) == cache[p] # None

Cached(p) == cache[p] # None /\ now <= cache[p].expires

\* filepath.Dir: of a path without a slash it is ".", not the root's key "".
FilepathDir(p) == IF Len(p) = 1 THEN <<".">> ELSE Parent(p)

\* Mutant: the directory's entry stays.
DroppedAlone(p) == {p}

Dropped(p) == {p, FilepathDir(p)}

InvalidateCache(p) == cache' = [k \in Paths |-> IF k \in Dropped(p) THEN None ELSE cache[k]]

\* The two paths whose attributes a change of p's entry touches.
Touched(p) == {p, Parent(p)} \cap Paths

Greater(a, b) == IF a < b THEN b ELSE a

\* A Getattr that has found nothing in the cache.
Filling(o) == at[o] \in {"call", "got"} /\ req[o].m = "stat"

\* History: o's change of p is acknowledged.
Acknowledge(o, p) ==
  /\ acked' = [k \in Paths |-> IF k \in Touched(p) THEN Greater(acked[k], made[o][k])
                                                   ELSE acked[k]]
  /\ crossed' = [x \in Ops |-> crossed[x] \/ (Filling(x) /\ req[x].p \in Touched(p))]

-----------------------------------------------------------------------------
(* The FUSE calls.                                                         *)

\* fuseFS.call up to its wait; serve starts a goroutine for the request.
Called(o, r) ==
  /\ at[o] = "idle" /\ now + Timeout <= MaxTime
  /\ req' = [req EXCEPT ![o] = r]
  /\ at' = [at EXCEPT ![o] = "call"]
  /\ deadline' = [deadline EXCEPT ![o] = now + Timeout]
  /\ job' = [job EXCEPT ![o] = "wait"]
  /\ UNCHANGED <<now, ans, crossed, acked, diskVars, reply, prompt, events>>

\* Getattr answered by cacheGet.
Hit(o, r) ==
  /\ at[o] = "idle"
  /\ r.m = "stat" /\ Cached(r.p)
  /\ at' = [at EXCEPT ![o] = "done"]
  /\ UNCHANGED <<now, req, deadline, ans, crossed, cacheVars, diskVars, daemonVars, events>>

\* cacheGet drops an expired entry.
Miss(o, r) ==
  /\ r.m = "stat" /\ ~Cached(r.p)
  /\ Called(o, r)
  /\ cache' = [cache EXCEPT ![r.p] = None]

\* Every other operation goes to the daemon at once.
Start(o, r) ==
  /\ r.m # "stat"
  /\ Called(o, r)
  /\ UNCHANGED cache

\* The operation has returned, and has no use for what it knew.
Forgets(o) ==
  /\ at' = [at EXCEPT ![o] = "done"]
  /\ deadline' = [deadline EXCEPT ![o] = 0]
  /\ ans' = [ans EXCEPT ![o] = NoAnswer]
  /\ made' = [made EXCEPT ![o] = NoneMade]
  /\ UNCHANGED <<now, disk, born, edits, daemonVars, events>>

\* The context's timeout, or the end of the connection: EIO.  What was asked
\* may still be done.
CallFails(o) ==
  /\ at[o] = "call"
  /\ Forgets(o)
  /\ crossed' = [crossed EXCEPT ![o] = FALSE]
  /\ UNCHANGED <<req, cacheVars>>

\* writeFrame, deliverResponse: a response to a call that is over is dropped.
Response(o) ==
  /\ job[o] = "reply"
  /\ job' = [job EXCEPT ![o] = "over"] /\ reply' = [reply EXCEPT ![o] = NoAnswer]
  /\ IF at[o] = "call"
       THEN /\ at' = [at EXCEPT ![o] = "got"]
            /\ ans' = [ans EXCEPT ![o] = reply[o]]
            /\ UNCHANGED req
       ELSE /\ req' = [req EXCEPT ![o] = None]
            /\ UNCHANGED <<at, ans>>
  /\ UNCHANGED <<now, deadline, crossed, cacheVars, diskVars, prompt, events>>

Returns(o) ==
  /\ Forgets(o)
  /\ req' = [req EXCEPT ![o] = None]

Fills(o) == at[o] = "got" /\ req[o].m = "stat" /\ ans[o].code \in {"ok", "not_found"}

\* Getattr's cachePut, of what is there or of the knowledge that nothing is.
CachePut(o) ==
  /\ Fills(o)
  /\ cache' = [cache EXCEPT ![req[o].p] =
                 [code |-> ans[o].code, v |-> ans[o].v,
                  expires |-> now + CacheTTL, crossed |-> crossed[o]]]
  /\ Returns(o)
  /\ crossed' = [crossed EXCEPT ![o] = FALSE]
  /\ UNCHANGED acked

\* An error, or an answer that is not cached.
ReturnsOnly(o) ==
  /\ at[o] = "got"
  /\ IF req[o].m = "stat" THEN ans[o].code = "error"
                          ELSE req[o].m \in Queries \/ ans[o].code # "ok"
  /\ Returns(o)
  /\ crossed' = [crossed EXCEPT ![o] = FALSE]
  /\ UNCHANGED cacheVars

\* Success of a change: InvalidateCache, for a rename once per name.
Invalidates(o) ==
  /\ at[o] = "got" /\ req[o].m \notin Queries \cup {"rename"} /\ ans[o].code = "ok"
  /\ InvalidateCache(req[o].p) /\ Acknowledge(o, req[o].p)
  /\ Returns(o)

InvalidatesFrom(o) ==
  /\ at[o] = "got" /\ req[o].m = "rename" /\ ans[o].code = "ok"
  /\ InvalidateCache(req[o].p) /\ Acknowledge(o, req[o].p)
  /\ at' = [at EXCEPT ![o] = "to"]
  /\ UNCHANGED <<now, req, deadline, ans, diskVars, daemonVars, events>>

InvalidatesTo(o) ==
  /\ at[o] = "to"
  /\ InvalidateCache(req[o].q) /\ Acknowledge(o, req[o].q)
  /\ Returns(o)

-----------------------------------------------------------------------------
(* The client's disk.                                                      *)

\* The root need not be one of Paths.
IsDir(p) == p = Root \/ (p \in Paths /\ disk[p] = "dir")

Children(p) == {c \in Paths : c # Root /\ Parent(c) = p}

Empty(p) == \A c \in Children(p) : disk[c] = "none"

\* Below p, and p itself.
Under(p) == {c \in Paths : Len(c) >= Len(p) /\ SubSeq(c, 1, Len(p)) = p}

\* ENOTDIR, and not ENOENT.
InFile(p) == \E a \in Paths : p \in Under(a) /\ disk[a] = "file"

Put(p, kind) == [disk EXCEPT ![p] = kind]

\* The tree below p becomes the one below q.
Moved(p, q) ==
  [c \in Paths |->
     IF c \in Under(q)
       THEN LET from == p \o SubSeq(c, Len(q) + 1, Len(c))
            IN IF from \in Paths THEN disk[from] ELSE "none"
       ELSE IF c \in Under(p) THEN "none" ELSE disk[c]]

\* The disk changes at the paths of S.
Change(to, S) ==
  /\ disk' = to
  /\ born' = [p \in Paths |-> IF p \in S THEN Append(born[p], now) ELSE born[p]]

\* Whoever uses the client's machine.
Edit(p) ==
  /\ edits < MaxEdits /\ edits' = edits + 1
  /\ \/ disk[p] # "none" /\ Change(disk, {p})
     \/ /\ p # Root /\ disk[p] # "none" /\ Empty(p)
        /\ Change(Put(p, "none"), Touched(p))
     \/ /\ p # Root /\ disk[p] = "none" /\ IsDir(Parent(p))
        /\ \E kind \in {"file", "dir"} : Change(Put(p, kind), Touched(p))
  /\ UNCHANGED <<now, fuseVars, cacheVars, made, daemonVars, events>>

-----------------------------------------------------------------------------
(* The daemon: dispatch and the handlers.                                  *)

JobGoes(o, from, to) ==
  /\ job[o] = from
  /\ job' = [job EXCEPT ![o] = to]
  /\ UNCHANGED <<now, fuseVars, cacheVars, edits, events>>

Replies(o, code) == reply' = [reply EXCEPT ![o] = [code |-> code, v |-> Version(req[o].p)]]

ByRequest(o, S) ==
  made' = [made EXCEPT ![o] = [p \in Paths |-> IF p \in S /\ at[o] = "call" THEN Version(p) + 1
                                                                           ELSE @[p]]]

\* What the client's operating system says.
Found(m, p) ==
  IF disk[p] = "none" /\ ~InFile(p) THEN "not_found"
  ELSE IF \/ disk[p] = "none"
          \/ m = "read" /\ IsDir(p)
          \/ m = "readdir" /\ ~IsDir(p)
    THEN "error" ELSE "ok"

\* Stat, Read and ReadDir.
Query(o) ==
  /\ JobGoes(o, "wait", "reply")
  /\ req[o].m \in Queries
  /\ Replies(o, Found(req[o].m, req[o].p))
  /\ UNCHANGED <<diskVars, prompt>>

\* The parameters do not decode, writes are not allowed, resolve denies the
\* path or the operating system the operation, if need be half way.
HandlerFails(o) ==
  /\ \E from \in {"wait", "run", "half"} : JobGoes(o, from, "reply")
  /\ Replies(o, "error")
  /\ UNCHANGED <<diskVars, prompt>>

Confirmed == {"write", "truncate", "remove"}

Admitted(o) ==
  /\ AllowWrite
  /\ job[o] = "wait" /\ req[o].m \notin Queries
  /\ JobGoes(o, "wait", IF Confirm /\ req[o].m \in Confirmed THEN "ask" ELSE "run")
  /\ req[o].m \notin Queries
  /\ UNCHANGED <<diskVars, reply, prompt>>

\* TTYConfirm.Ask has its mutex.
Prompt(o) ==
  /\ job[o] = "ask" /\ prompt = None
  /\ prompt' = o
  /\ UNCHANGED <<now, fuseVars, cacheVars, diskVars, job, reply, events>>

Approved(o) ==
  /\ prompt = o /\ prompt' = None
  /\ JobGoes(o, "ask", "run")
  /\ UNCHANGED <<diskVars, reply>>

\* Mutant: a refusal does not let the next one ask.
DeniedKeeps(o) ==
  /\ prompt = o
  /\ JobGoes(o, "ask", "reply")
  /\ Replies(o, "error")
  /\ UNCHANGED <<diskVars, prompt>>

Denied(o) ==
  /\ prompt = o /\ prompt' = None
  /\ JobGoes(o, "ask", "reply")
  /\ Replies(o, "error")
  /\ UNCHANGED diskVars

\* Write opens the file, or creates it; so does a pure truncation.
OpenFile(o) ==
  /\ JobGoes(o, "run", "half")
  /\ req[o].m \in {"write", "truncate"}
  /\ LET p == req[o].p IN
     \/ disk[p] = "file" /\ UNCHANGED diskVars
     \/ /\ disk[p] = "none" /\ IsDir(Parent(p))
        /\ Change(Put(p, "file"), Touched(p)) /\ ByRequest(o, Touched(p))
  /\ UNCHANGED <<reply, prompt>>

\* Write has a file, which may have lost its name since, or got another one; a
\* file that has its name is taken for the same.
WriteData(o) ==
  /\ JobGoes(o, "half", "reply")
  /\ req[o].m \in {"write", "truncate"}
  /\ LET p == req[o].p IN
     \/ \E k \in Paths :
          /\ disk[k] = "file" /\ (k = p \/ (req[o].m = "write" /\ disk[p] # "file"))
          /\ Change(disk, {k}) /\ ByRequest(o, {k})
          /\ Replies(o, "ok")
     \/ /\ disk[p] # "file"
        /\ Replies(o, IF req[o].m = "write" THEN "ok" ELSE "error")
        /\ UNCHANGED diskVars
  /\ UNCHANGED prompt

Handling(o, methods) == JobGoes(o, "run", "reply") /\ req[o].m \in methods

Handled(o, S) ==
  /\ ByRequest(o, S)
  /\ Replies(o, "ok")
  /\ UNCHANGED prompt

\* Create and Mkdir do not take over what is there.
CreateEntry(o) ==
  /\ Handling(o, {"create", "mkdir"})
  /\ LET p == req[o].p IN
     /\ disk[p] = "none" /\ IsDir(Parent(p))
     /\ Change(Put(p, IF req[o].m = "create" THEN "file" ELSE "dir"), Touched(p))
     /\ Handled(o, Touched(p))

\* Remove, of anything but the root; fuseFS never asks for a recursive one.
Remove(o) ==
  /\ Handling(o, {"remove"}) /\ req[o].p # Root
  /\ LET p == req[o].p IN
     /\ disk[p] # "none" /\ Empty(p)
     /\ Change(Put(p, "none"), Touched(p))
     /\ Handled(o, Touched(p))

\* Rename takes the place of a file, and a directory takes its tree along.
Rename(o) ==
  /\ Handling(o, {"rename"})
  /\ LET p == req[o].p
         q == req[o].q
         S == {c \in Under(p) \cup Under(q) : disk[c] # "none" \/ Moved(p, q)[c] # "none"}
                \cup Touched(p) \cup Touched(q)
     IN
     /\ disk[p] # "none" /\ q \notin Under(p) /\ p \notin Under(q) /\ IsDir(Parent(q))
     /\ disk[q] = "none" \/ (disk[q] = disk[p] /\ Empty(q))
     /\ Change(Moved(p, q), S)
     /\ Handled(o, S)

Chmod(o) ==
  /\ Handling(o, {"chmod"}) /\ disk[req[o].p] # "none"
  /\ Change(disk, {req[o].p})
  /\ Handled(o, {req[o].p})

-----------------------------------------------------------------------------
(* Watch events.                                                           *)

\* runWatcher reports a path that was changed, not always and not always once:
\* it does not run without --watch, is told of a new directory late and passes
\* over changes of mode.  dispatchEvent drops the event when the channel is full.
Watched(p) ==
  /\ Version(p) > 1
  /\ Len(events) < Buffer
  /\ events' = Append(events, p)
  /\ UNCHANGED <<now, fuseVars, cacheVars, diskVars, daemonVars>>

\* The goroutine that Mount starts.
EventInvalidates ==
  /\ events # <<>>
  /\ InvalidateCache(Head(events))
  /\ events' = Tail(events)
  /\ UNCHANGED <<now, fuseVars, acked, diskVars, daemonVars>>

-----------------------------------------------------------------------------

\* Timers fire in time, and what an RPC has brought is used at once.
Tick ==
  /\ now < MaxTime
  /\ \A o \in Ops : at[o] \in {"call", "got", "to"} => now < deadline[o]
  /\ now' = now + 1
  /\ UNCHANGED <<fuseVars, cacheVars, diskVars, daemonVars, events>>

FuseStep(o) ==
  \/ Response(o)
  \/ CachePut(o) \/ ReturnsOnly(o)
  \/ Invalidates(o) \/ InvalidatesFrom(o) \/ InvalidatesTo(o)

DaemonStep(o) ==
  \/ Query(o) \/ HandlerFails(o) \/ Admitted(o)
  \/ Prompt(o) \/ Approved(o) \/ Denied(o)
  \/ OpenFile(o) \/ WriteData(o)
  \/ CreateEntry(o) \/ Remove(o) \/ Rename(o) \/ Chmod(o)

\* Bound: nobody sees what comes after the last operation.
Going == \E o \in Ops : at[o] # "done"

\* No operation is running, and there may be no more.
Over ==
  /\ \A o \in Ops : at[o] \in {"idle", "done"}
  /\ UNCHANGED vars

Next ==
  \/ /\ Going
     /\ \/ \E o \in Ops, r \in Asks : Hit(o, r) \/ Miss(o, r) \/ Start(o, r)
        \/ \E o \in Ops : CallFails(o) \/ FuseStep(o) \/ DaemonStep(o)
        \/ \E p \in Paths : Edit(p) \/ Watched(p)
        \/ EventInvalidates
        \/ Tick
  \/ Over

Spec == Init /\ [][Next]_vars

-----------------------------------------------------------------------------
(* What must hold.                                                         *)

Answer == [code : {"none", "ok", "not_found", "error"}, v : Nat]

Entry == [code : {"ok", "not_found"}, v : Nat, expires : Nat, crossed : BOOLEAN]

\* The variables have their types, and the daemon never asks two questions at
\* once, nor holds the prompt for a request that does not wait for it.
TypeOK ==
  /\ now \in Nat
  /\ disk \in [Paths -> Kinds] /\ born \in [Paths -> Seq(Nat)]
  /\ req \in [Ops -> Asks \cup {None}]
  /\ at \in [Ops -> {"idle", "call", "got", "to", "done"}]
  /\ deadline \in [Ops -> Nat]
  /\ ans \in [Ops -> Answer] /\ reply \in [Ops -> Answer]
  /\ crossed \in [Ops -> BOOLEAN]
  /\ job \in [Ops -> {"none", "wait", "ask", "run", "half", "reply", "over"}]
  /\ made \in [Ops -> [Paths -> Nat]]
  /\ prompt \in Ops \cup {None} /\ (prompt # None => job[prompt] = "ask")
  /\ cache \in [Paths -> Entry \cup {None}]
  /\ acked \in [Paths -> Nat]
  /\ edits \in Nat
  /\ events \in Seq(Paths) /\ Len(events) <= Buffer

\* Version v of p was current not long ago.
Recent(p, v) == v = Version(p) \/ now <= born[p][v + 1] + CacheTTL + Timeout

\* What Getattr answers, from the cache or from the daemon, was true of the
\* client's disk within the cache's TTL and one call: through lost, dropped and
\* late watch events, changes that failed half way or were made after their
\* call had timed out, renamed directories, and fills that put back what was
\* just invalidated.
Fresh ==
  /\ \A p \in Paths : Cached(p) => Recent(p, cache[p].v)
  /\ \A o \in Ops : Fills(o) => Recent(req[o].p, ans[o].v)

\* A change made through the mount is seen by every Getattr that starts after
\* the change has returned, of the path and of its directory, unless another
\* Getattr was under way at that moment and its fill came after.  The root is
\* left out: FilepathDir never names it, so that its entry stays.
AckedSeen ==
  \A p \in Paths \ {Root} : cache[p] # None /\ cache[p].v < acked[p] => cache[p].crossed
=============================================================================
