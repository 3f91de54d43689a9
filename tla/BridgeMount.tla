----------------------------- MODULE BridgeMount -----------------------------
(***************************************************************************)
(* The registry of bridge connections and the FUSE mounts made on them     *)
(* (internal/bridge), with handleBridge, which registers a connection, and *)
(* the workspace resolver's bridge lookup, which mounts it for a chat      *)
(* request.  Both maps are keyed by the principal and one principal is     *)
(* followed here; its daemon may reconnect, or run twice.                  *)
(*                                                                         *)
(* Of a connection only its life is left (ConnLife, which BridgeConn       *)
(* implements).  A mount is named after the request that made it.          *)
(*                                                                         *)
(* A mount is two things: the entry in the Manager's map, under m.mu, and  *)
(* what the host has mounted on disk, without it.  All of the principal's  *)
(* mounts share one path, where the newest covers the older ones;          *)
(* host.Unmount and os.Remove go by that path.                             *)
(***************************************************************************)
EXTENDS Sequences

CONSTANTS
  Conns,     \* the principal's bridge connections
  Requests,  \* chat requests that ask for its bridge
  None

ASSUME MountAssumption == None \notin Conns \cup Requests

VARIABLES
  at,        \* at[k]: handleBridge of k
  closed,    \* closed[k]: Closed()
  done,      \* done[k]: the connection's done channel is closed
  registry,  \* Registry.m[principal]
  mounts,    \* Manager.mounts[principal]
  rpc,       \* rpc[r]: "idle", "mount" (a live connection was found) or "done"
  conn,      \* conn[r]: the connection found, and that of the mount r made
  host,      \* host[r]: what host.Mount of r's mount does
  watcher,   \* watcher[r]: the goroutine that waits for the end of its connection
  target,    \* target[r]: the mount that goroutine has taken out of the map
  dir,       \* the directory mountPath(principal) exists
  path       \* the mounts on it, the newest first

connVars  == <<at, closed, done>>
diskVars  == <<dir, path>>
mountVars == <<rpc, conn, host, watcher, target, diskVars>>
vars == <<connVars, registry, mounts, mountVars>>

Init ==
  /\ at = [k \in Conns |-> "hello"]
  /\ closed = [k \in Conns |-> FALSE]
  /\ done = [k \in Conns |-> FALSE]
  /\ registry = None
  /\ mounts = None
  /\ rpc = [r \in Requests |-> "idle"]
  /\ conn = [r \in Requests |-> None]
  /\ host = [r \in Requests |-> "none"]
  /\ watcher = [r \in Requests |-> "none"]
  /\ target = [r \in Requests |-> None]
  /\ dir = FALSE
  /\ path = <<>>

-----------------------------------------------------------------------------
(* A connection and its handler.                                           *)

HandlerGoes(k, from, to) ==
  /\ at[k] \in from
  /\ at' = [at EXCEPT ![k] = to]
  /\ UNCHANGED <<closed, done, mounts, mountVars>>

\* The principal has a live connection.
Live == registry # None /\ ~closed[registry]

Greeted(k) == HandlerGoes(k, {"hello"}, "register") /\ UNCHANGED registry

GivesUp(k) == HandlerGoes(k, {"hello"}, "leaving") /\ UNCHANGED registry

Register(k) ==
  /\ ~Live
  /\ HandlerGoes(k, {"register"}, "wait")
  /\ registry' = k

RegisterRejected(k) ==
  /\ Live
  /\ HandlerGoes(k, {"register"}, "leaving")
  /\ UNCHANGED registry

Closes(k) ==
  /\ ~closed[k]
  /\ closed' = [closed EXCEPT ![k] = TRUE]
  /\ UNCHANGED <<at, done, registry, mounts, mountVars>>

Ends(k) ==
  /\ closed[k] /\ ~done[k]
  /\ done' = [done EXCEPT ![k] = TRUE]
  /\ UNCHANGED <<at, closed, registry, mounts, mountVars>>

Gone(k) ==
  /\ closed[k]
  /\ HandlerGoes(k, {"leaving"}, "gone")
  /\ UNCHANGED registry

\* Mutant: Unregister removes whatever is registered.
LeavesAny(k) ==
  /\ done[k]
  /\ HandlerGoes(k, {"wait"}, "end")
  /\ registry' = None

\* <-conn.Done(); Registry.Unregister.
Leaves(k) ==
  /\ done[k]
  /\ HandlerGoes(k, {"wait"}, "end")
  /\ registry' = IF registry = k THEN None ELSE registry

-----------------------------------------------------------------------------
(* The bridge lookup of a chat request.                                    *)

\* Registry.Lookup finds nothing: the next step of the resolution chain.
LookupFails(r) ==
  /\ rpc[r] = "idle"
  /\ ~Live
  /\ rpc' = [rpc EXCEPT ![r] = "done"]
  /\ UNCHANGED <<connVars, registry, mounts, conn, host, watcher, target, diskVars>>

\* Mutant: what Lookup returns is not compared with nil.
LookupUnchecked(r) ==
  /\ rpc[r] = "idle"
  /\ rpc' = [rpc EXCEPT ![r] = "mount"]
  /\ conn' = [conn EXCEPT ![r] = registry]
  /\ UNCHANGED <<connVars, registry, mounts, host, watcher, target, diskVars>>

Lookup(r) ==
  /\ rpc[r] = "idle"
  /\ Live
  /\ rpc' = [rpc EXCEPT ![r] = "mount"]
  /\ conn' = [conn EXCEPT ![r] = registry]
  /\ UNCHANGED <<connVars, registry, mounts, host, watcher, target, diskVars>>

\* Manager.Mount returns the mount that is there, or cannot make the directory.
MountExisting(r) ==
  /\ rpc[r] = "mount"
  /\ mounts # None
  /\ rpc' = [rpc EXCEPT ![r] = "done"]
  /\ UNCHANGED <<connVars, registry, mounts, conn, host, watcher, target, diskVars>>

MountFails(r) ==
  /\ rpc[r] = "mount"
  /\ mounts = None
  /\ rpc' = [rpc EXCEPT ![r] = "done"]
  /\ UNCHANGED <<connVars, registry, mounts, conn, host, watcher, target, diskVars>>

\* A new Mount is in the map, on a directory that is made unless it is there.
NewMount(r) ==
  /\ rpc[r] = "mount"
  /\ mounts' = r
  /\ rpc' = [rpc EXCEPT ![r] = "done"]
  /\ host' = [host EXCEPT ![r] = "starting"]
  /\ dir' = TRUE
  /\ UNCHANGED <<connVars, registry, conn, target, path>>

\* Mutant: the map is not consulted.
MountAgain(r) == NewMount(r) /\ watcher' = [watcher EXCEPT ![r] = "watch"]

\* Mutant: nobody waits for the connection's end.
MountUnwatched(r) == NewMount(r) /\ mounts = None /\ UNCHANGED watcher

\* The mount's two goroutines start.
Mount(r) ==
  /\ NewMount(r)
  /\ mounts = None
  /\ watcher' = [watcher EXCEPT ![r] = "watch"]

-----------------------------------------------------------------------------
(* The goroutines of a mount.                                              *)

HostGoes(r, from, to) ==
  /\ host[r] = from
  /\ host' = [host EXCEPT ![r] = to]
  /\ UNCHANGED <<connVars, registry, rpc, conn, watcher, target>>

\* host.Mount has mounted and called Init, and blocks until it is unmounted.
HostMounts(r) ==
  /\ HostGoes(r, "starting", "mounted")
  /\ dir
  /\ path' = <<r>> \o path
  /\ UNCHANGED <<mounts, dir>>

\* host.Mount returns false, for one because the directory is gone or covered.
HostFails(r) == HostGoes(r, "starting", "failed") /\ UNCHANGED <<mounts, diskVars>>

\* "clean state so a retry is possible": the entry goes, whoever made it.
HostForgets(r) ==
  /\ HostGoes(r, "failed", "forgotten")
  /\ mounts' = None
  /\ UNCHANGED diskVars

\* Unmount in the watcher, under m.mu: the principal's mount, whoever made it.
TakeMount(r) ==
  /\ watcher[r] = "watch" /\ done[conn[r]]
  /\ target' = [target EXCEPT ![r] = mounts]
  /\ mounts' = None
  /\ watcher' = [watcher EXCEPT ![r] = IF mounts = None THEN "end" ELSE "unmount"]
  /\ UNCHANGED <<connVars, registry, rpc, conn, host, diskVars>>

\* What the watcher does after m.mu is released.
WatcherGoes(r, from, to) ==
  /\ watcher[r] = from
  /\ watcher' = [watcher EXCEPT ![r] = to]
  /\ UNCHANGED <<connVars, registry, mounts, rpc, conn, target>>

\* host.Unmount, before its host has called Init, after it has ended, or with an
\* error: nothing happens, and the result is ignored.
UnmountInVain(r) ==
  /\ WatcherGoes(r, "unmount", "remove")
  /\ UNCHANGED <<host, diskVars>>

\* Else it takes down what is mounted at the path, whoever mounted it.
Unmount(r) ==
  /\ WatcherGoes(r, "unmount", "remove")
  /\ host[target[r]] = "mounted" /\ path # <<>>
  /\ host' = [host EXCEPT ![Head(path)] = "unmounted"]
  /\ path' = Tail(path)
  /\ UNCHANGED dir

\* os.Remove, if nothing is mounted there, "best-effort".
RemovePath(r) ==
  /\ WatcherGoes(r, "remove", "end")
  /\ UNCHANGED dir \/ (path = <<>> /\ dir' = FALSE)
  /\ UNCHANGED <<host, path>>

-----------------------------------------------------------------------------

ConnStep(k) ==
  \/ Greeted(k) \/ GivesUp(k) \/ Register(k) \/ RegisterRejected(k)
  \/ Closes(k) \/ Ends(k) \/ Gone(k) \/ Leaves(k)

RequestStep(r) ==
  \/ LookupFails(r) \/ Lookup(r)
  \/ MountExisting(r) \/ MountFails(r) \/ Mount(r)

HostStep(r) == HostMounts(r) \/ HostFails(r) \/ HostForgets(r)

WatcherStep(r) == TakeMount(r) \/ UnmountInVain(r) \/ Unmount(r) \/ RemovePath(r)

\* Every connection is over and every request is served.
Over ==
  /\ \A k \in Conns : at[k] \in {"gone", "end"}
  /\ \A r \in Requests : rpc[r] = "done"
  /\ UNCHANGED vars

Next ==
  \/ \E k \in Conns : ConnStep(k)
  \/ \E r \in Requests : RequestStep(r) \/ HostStep(r) \/ WatcherStep(r)
  \/ Over

Spec == Init /\ [][Next]_vars

\* The goroutines run, and a closed connection comes to its end (BridgeConn,
\* HandlerEnds).  Connections need not close, requests need not come.
Fairness ==
  /\ \A k \in Conns : WF_vars(Ends(k)) /\ WF_vars(Gone(k) \/ Leaves(k))
  /\ \A r \in Requests : WF_vars(WatcherStep(r)) /\ WF_vars(HostForgets(r))

FairSpec == Spec /\ Fairness

-----------------------------------------------------------------------------
(* What must hold.                                                         *)

\* The variables have their types, and no mount is made for a nil connection.
TypeOK ==
  /\ at \in [Conns -> {"hello", "register", "leaving", "wait", "gone", "end"}]
  /\ closed \in [Conns -> BOOLEAN] /\ done \in [Conns -> BOOLEAN]
  /\ registry \in Conns \cup {None}
  /\ mounts \in Requests \cup {None}
  /\ rpc \in [Requests -> {"idle", "mount", "done"}]
  /\ conn \in [Requests -> Conns \cup {None}]
  /\ host \in [Requests -> {"none", "starting", "mounted", "failed", "forgotten", "unmounted"}]
  /\ watcher \in [Requests -> {"none", "watch", "unmount", "remove", "end"}]
  /\ target \in [Requests -> Requests \cup {None}]
  /\ dir \in BOOLEAN /\ path \in Seq(Requests)
  /\ \A r \in Requests : (rpc[r] = "mount" \/ watcher[r] # "none") => conn[r] # None

\* A daemon whose connection is live is the one that chat requests find, and
\* one that has left is not found, however reconnections and the handlers of
\* old connections interleave: one bridge per principal.
RegistryCurrent ==
  /\ \A k \in Conns : (at[k] = "wait" /\ ~closed[k]) => registry = k
  /\ registry # None => at[registry] = "wait"

HostFailed == \E r \in Requests : host[r] \in {"failed", "forgotten"}

\* A watcher is about to call host.Unmount for a mount that is up.
Unmounting == \E r \in Requests : watcher[r] = "unmount" /\ host[target[r]] = "mounted"

\* The mount of a live connection is left alone, by the watchers of older
\* connections too: its entry stays in the map, and what is mounted stays,
\* unless such a watcher is between taking its own mount out of the map and
\* host.Unmount, which goes by the path they share: a mount made just then can
\* be taken down, and the map has it still.
\* After a failed host.Mount this is no longer so: the retry gives one
\* connection two watchers, and the second takes what it finds.
LiveMountKept ==
  [][(mounts # None /\ ~closed[conn[mounts]] /\ ~HostFailed) =>
       /\ mounts' = mounts
       /\ (host[mounts] = "mounted" /\ ~Unmounting) => host'[mounts] = "mounted"]_vars

\* host.Unmount was called for r's mount.
Tried(r) == \E w \in Requests : target[w] = r /\ watcher[w] \in {"remove", "end"}

\* The mount of a closed connection leaves the map, and the disk with it if the
\* one call of host.Unmount made for it takes it down: after a call that was in
\* vain, or took down a newer mount, it stays up outside the map.  After a failed
\* host.Mount the call itself may be missing: the entry that is deleted then may
\* be another mount's, which no watcher finds.
DeadMountGoes ==
  \A r \in Requests :
    ((mounts = r \/ host[r] = "mounted") /\ closed[conn[r]])
      ~> (mounts # r /\ (host[r] = "mounted" => Tried(r) \/ HostFailed))

=============================================================================
