-------------------------- MODULE BridgeMountProofs --------------------------
(***************************************************************************)
(* TLAPS proofs about BridgeMount, for any number of connections and of    *)
(* chat requests.                                                          *)
(***************************************************************************)
EXTENDS BridgeMount, Naturals, TLAPS

USE MountAssumption

-----------------------------------------------------------------------------
(* The inductive invariant.                                                *)

\* As long as no host.Mount has failed, the one watcher that has not fired
\* is that of the mount in the map.
WatchInv ==
  ~HostFailed => \A r \in Requests : watcher[r] = "watch" => mounts = r

DoneInv == \A k \in Conns : done[k] => closed[k]

\* A request that is not done has made no mount.
FreshInv == \A r \in Requests : rpc[r] # "done" => host[r] = "none"

\* What is at the path is up, once.
PathInv ==
  \A i \in 1 .. Len(path) :
    /\ host[path[i]] = "mounted"
    /\ \A j \in 1 .. Len(path) : i # j => path[i] # path[j]

IInv == TypeOK /\ RegistryCurrent /\ DoneInv /\ WatchInv /\ FreshInv /\ PathInv

\* The initial state satisfies it.
LEMMA InitInv == Init => IInv
<1> SUFFICES ASSUME Init PROVE IInv
  OBVIOUS
<1>1. path = <<>> /\ path \in Seq(Requests) /\ PathInv
  BY DEF Init, PathInv
<1> QED
  BY <1>1 DEF Init, IInv, TypeOK, RegistryCurrent, DoneInv, WatchInv, FreshInv

\* A connection's life, with Register and Unregister.
LEMMA ConnInv ==
  ASSUME IInv, NEW k \in Conns, ConnStep(k)
  PROVE  IInv'
<1> USE DEF IInv, connVars, mountVars, diskVars, HandlerGoes
<1>1. TypeOK'
  <2>1. CASE Greeted(k) \/ GivesUp(k) \/ Gone(k) \/ RegisterRejected(k)
    BY <2>1 DEF Greeted, GivesUp, Gone, RegisterRejected, TypeOK
  <2>2. CASE Register(k) \/ Leaves(k)
    BY <2>2 DEF Register, Leaves, TypeOK
  <2>3. CASE Closes(k) \/ Ends(k)
    BY <2>3 DEF Closes, Ends, TypeOK
  <2> QED BY <2>1, <2>2, <2>3 DEF ConnStep
<1>2. RegistryCurrent'
  <2> USE DEF TypeOK, RegistryCurrent
  <2>1. CASE Greeted(k) \/ GivesUp(k) \/ Gone(k) \/ RegisterRejected(k)
    BY <2>1 DEF Greeted, GivesUp, Gone, RegisterRejected
  <2>2. CASE Register(k)
    BY <2>2 DEF Register, Live
  <2>3. CASE Leaves(k)
    BY <2>3 DEF Leaves, DoneInv
  <2>4. CASE Closes(k) \/ Ends(k)
    BY <2>4 DEF Closes, Ends
  <2> QED BY <2>1, <2>2, <2>3, <2>4 DEF ConnStep
<1>3. DoneInv'
  <2>1. CASE Closes(k) \/ Ends(k)
    BY <2>1 DEF Closes, Ends, TypeOK, DoneInv
  <2> QED
    BY <2>1 DEF ConnStep, Greeted, GivesUp, Gone, RegisterRejected, Register, Leaves, DoneInv
<1>4. WatchInv' /\ FreshInv' /\ PathInv'
  BY DEF ConnStep, Greeted, GivesUp, Gone, RegisterRejected, Register, Leaves, Closes, Ends,
         WatchInv, HostFailed, FreshInv, PathInv
<1> QED BY <1>1, <1>2, <1>3, <1>4

\* The bridge lookup.
LEMMA RequestInv ==
  ASSUME IInv, NEW r \in Requests, RequestStep(r)
  PROVE  IInv'
<1> USE DEF IInv, connVars, diskVars, NewMount
<1>1. CASE LookupFails(r) \/ MountExisting(r) \/ MountFails(r)
  BY <1>1 DEF LookupFails, MountExisting, MountFails, TypeOK, RegistryCurrent, DoneInv, WatchInv,
              HostFailed, FreshInv, PathInv
<1>2. CASE Lookup(r)
  BY <1>2 DEF Lookup, Live, TypeOK, RegistryCurrent, DoneInv, WatchInv, HostFailed, FreshInv, PathInv
<1>3. CASE Mount(r)
  <2>1. TypeOK'
    BY <1>3 DEF Mount, TypeOK
  <2>2. RegistryCurrent' /\ DoneInv'
    BY <1>3 DEF Mount, RegistryCurrent, DoneInv
  <2>3. FreshInv'
    BY <1>3 DEF Mount, TypeOK, FreshInv
  <2>4. HostFailed => HostFailed'
    BY <1>3 DEF Mount, HostFailed, TypeOK, FreshInv
  <2>5. WatchInv'
    BY <1>3, <2>4 DEF Mount, TypeOK, WatchInv
  <2>6. PathInv'
    <3>1. \A i \in 1 .. Len(path) : path[i] \in Requests /\ path[i] # r
      BY <1>3 DEF Mount, NewMount, TypeOK, FreshInv, PathInv
    <3> QED BY <1>3, <3>1 DEF Mount, NewMount, TypeOK, PathInv
  <2> QED BY <2>1, <2>2, <2>3, <2>5, <2>6
<1> QED BY <1>1, <1>2, <1>3 DEF RequestStep

\* What the host mounts, and unmounts at the path, keeps PathInv: it takes down
\* one mount that is up.
LEMMA PathStep ==
  ASSUME IInv, NEW r \in Requests, HostStep(r) \/ WatcherStep(r)
  PROVE  /\ PathInv' /\ path' \in Seq(Requests)
         /\ \/ host' = host
            \/ host[r] = "starting" /\ host' = [host EXCEPT ![r] = "mounted"]
            \/ host[r] = "starting" /\ host' = [host EXCEPT ![r] = "failed"]
            \/ host[r] = "failed" /\ host' = [host EXCEPT ![r] = "forgotten"]
            \/ \E u \in Requests : host[u] = "mounted" /\ host' = [host EXCEPT ![u] = "unmounted"]
<1> USE DEF IInv, TypeOK, PathInv
<1>1. CASE HostMounts(r)
  <2>1. path' = <<r>> \o path /\ host[r] = "starting" /\ host' = [host EXCEPT ![r] = "mounted"]
    BY <1>1 DEF HostMounts, HostGoes
  <2>2. path' \in Seq(Requests) /\ Len(path') = Len(path) + 1
    BY <2>1
  <2>3. \A i \in 1 .. Len(path') : path'[i] = IF i = 1 THEN r ELSE path[i - 1]
    BY <2>1
  <2>4. \A i \in 1 .. Len(path) : path[i] \in Requests /\ path[i] # r
    BY <2>1
  <2>5. \A i \in 1 .. Len(path') : i # 1 => i - 1 \in 1 .. Len(path)
    BY <2>2
  <2>6. PathInv'
    <3> SUFFICES ASSUME NEW i \in 1 .. Len(path')
                 PROVE  /\ host'[path'[i]] = "mounted"
                        /\ \A j \in 1 .. Len(path') : i # j => path'[i] # path'[j]
      OBVIOUS
    <3>1. host'[path'[i]] = "mounted"
      BY <2>1, <2>3, <2>4, <2>5
    <3>2. ASSUME NEW j \in 1 .. Len(path'), i # j PROVE path'[i] # path'[j]
      <4>1. i # 1 /\ j # 1 => i - 1 # j - 1
        BY <2>2, <3>2
      <4>2. CASE i = 1 \/ j = 1
        BY <2>3, <2>4, <2>5, <3>2, <4>2
      <4>3. CASE i # 1 /\ j # 1
        <5>1. i - 1 \in 1 .. Len(path) /\ j - 1 \in 1 .. Len(path)
          BY <2>5, <4>3
        <5>2. path[i - 1] # path[j - 1]
          BY <4>1, <4>3, <5>1
        <5> QED BY <2>3, <4>3, <5>2
      <4> QED BY <4>2, <4>3
    <3> QED BY <3>1, <3>2
  <2> QED BY <2>1, <2>2, <2>6
<1>2. CASE HostFails(r) \/ HostForgets(r)
  <2>1. path' = path /\ \A i \in 1 .. Len(path) : path[i] \in Requests /\ path[i] # r
    BY <1>2 DEF HostFails, HostForgets, HostGoes, diskVars
  <2>2. PathInv'
    BY <1>2, <2>1 DEF HostFails, HostForgets, HostGoes
  <2> QED BY <1>2, <2>1, <2>2 DEF HostFails, HostForgets, HostGoes
<1>3. CASE Unmount(r)
  <2> DEFINE u == Head(path)
  <2>1. path # <<>> /\ path' = Tail(path) /\ host' = [host EXCEPT ![u] = "unmounted"]
    BY <1>3 DEF Unmount
  <2>2. /\ path' \in Seq(Requests) /\ Len(path') = Len(path) - 1 /\ Len(path) \in Nat \ {0}
        /\ u = path[1] /\ u \in Requests
    BY <2>1
  <2>3. \A i \in 1 .. Len(path') : path'[i] = path[i + 1] /\ i + 1 \in 1 .. Len(path) /\ i + 1 # 1
    BY <2>1, <2>2
  <2>4. 1 \in 1 .. Len(path) /\ host[path[1]] = "mounted"
    <3>1. 1 \in 1 .. Len(path)
      BY <2>2
    <3> QED BY <3>1
  <2> HIDE DEF u
  <2>5. PathInv'
    <3> SUFFICES ASSUME NEW i \in 1 .. Len(path')
                 PROVE  /\ host'[path'[i]] = "mounted"
                        /\ \A j \in 1 .. Len(path') : i # j => path'[i] # path'[j]
      OBVIOUS
    <3>1. path[i + 1] # u /\ path[i + 1] \in Requests
      BY <2>2, <2>3, <2>4
    <3>2. host'[path'[i]] = "mounted"
      BY <2>1, <2>3, <3>1
    <3>3. ASSUME NEW j \in 1 .. Len(path'), i # j PROVE path'[i] # path'[j]
      <4>1. i + 1 # j + 1
        BY <2>2, <3>3
      <4> QED BY <2>3, <4>1
    <3> QED BY <3>2, <3>3
  <2> QED BY <2>1, <2>2, <2>4, <2>5
<1>4. CASE TakeMount(r) \/ UnmountInVain(r) \/ RemovePath(r)
  BY <1>4 DEF TakeMount, UnmountInVain, RemovePath, WatcherGoes, diskVars
<1> QED BY <1>1, <1>2, <1>3, <1>4 DEF HostStep, WatcherStep

\* The goroutines of a mount.
LEMMA MountInv ==
  ASSUME IInv, NEW r \in Requests, HostStep(r) \/ WatcherStep(r)
  PROVE  IInv'
<1> USE DEF IInv, connVars, diskVars, HostGoes, WatcherGoes
<1>1. TypeOK'
  <2>1. host' \in [Requests -> {"none", "starting", "mounted", "failed", "forgotten", "unmounted"}]
    BY PathStep DEF TypeOK
  <2>2. UNCHANGED <<connVars, registry, rpc, conn>> /\ mounts' \in {mounts, None} /\ dir' \in BOOLEAN
    BY DEF HostStep, HostMounts, HostFails, HostForgets, WatcherStep, TakeMount, UnmountInVain, Unmount,
           RemovePath, TypeOK
  <2>3. /\ watcher' \in [Requests -> {"none", "watch", "unmount", "remove", "end"}]
        /\ target' \in [Requests -> Requests \cup {None}]
        /\ \A q \in Requests : watcher'[q] # "none" => watcher[q] # "none"
    BY DEF HostStep, HostMounts, HostFails, HostForgets, WatcherStep, TakeMount, UnmountInVain, Unmount,
           RemovePath, TypeOK
  <2> QED BY <2>1, <2>2, <2>3, PathStep DEF TypeOK
<1>2. RegistryCurrent' /\ DoneInv'
  BY DEF HostStep, HostMounts, HostFails, HostForgets, WatcherStep, TakeMount, UnmountInVain, Unmount,
         RemovePath, RegistryCurrent, DoneInv
<1>3. WatchInv'
  <2> USE DEF TypeOK, WatchInv, HostFailed
  <2>1. CASE HostMounts(r)
    BY <2>1 DEF HostMounts
  <2>2. CASE HostFails(r) \/ HostForgets(r)
    BY <2>2 DEF HostFails, HostForgets
  <2>3. CASE TakeMount(r)
    BY <2>3 DEF TakeMount
  <2>4. CASE UnmountInVain(r) \/ Unmount(r) \/ RemovePath(r)
    <3>1. HostFailed => HostFailed'
      BY <2>4, PathStep
    <3>2. mounts' = mounts /\ \A q \in Requests : watcher'[q] = "watch" => watcher[q] = "watch"
      BY <2>4 DEF UnmountInVain, Unmount, RemovePath
    <3> QED BY <3>1, <3>2
  <2> QED BY <2>1, <2>2, <2>3, <2>4 DEF HostStep, WatcherStep
<1>4. FreshInv'
  <2>1. rpc' = rpc
    BY DEF HostStep, HostMounts, HostFails, HostForgets, WatcherStep, TakeMount, UnmountInVain, Unmount,
           RemovePath
  <2> QED BY <2>1, PathStep DEF TypeOK, FreshInv
<1> QED BY <1>1, <1>2, <1>3, <1>4, PathStep

\* Every step preserves it.
LEMMA NextInv == IInv /\ [Next]_vars => IInv'
<1> SUFFICES ASSUME IInv, [Next]_vars PROVE IInv'
  OBVIOUS
<1>1. CASE UNCHANGED vars
  BY <1>1 DEF vars, connVars, mountVars, diskVars, IInv, TypeOK, RegistryCurrent, DoneInv, WatchInv, HostFailed,
              FreshInv, PathInv
<1> QED BY <1>1, ConnInv, RequestInv, MountInv DEF Next, Over

\* The inductive invariant holds in every reachable state.
THEOREM Invariance == Spec => []IInv
  BY InitInv, NextInv, PTL DEF Spec

\* Types; no mount is made for a nil connection.
THEOREM TypeCorrect == Spec => []TypeOK
<1>1. IInv => TypeOK
  BY DEF IInv
<1> QED BY <1>1, Invariance, PTL

\* Chat requests find the live connection and no other, however many times the
\* daemon reconnects.
THEOREM Current == Spec => []RegistryCurrent
<1>1. IInv => RegistryCurrent
  BY DEF IInv
<1> QED BY <1>1, Invariance, PTL

\* Until a host.Mount fails, the watcher of an old connection never takes the
\* mount of a live one out of the map, nor down but between its own two steps.
THEOREM Kept == Spec => LiveMountKept
<1> DEFINE Standing == mounts # None /\ ~closed[conn[mounts]] /\ ~HostFailed
           Keeps == /\ mounts' = mounts
                    /\ (host[mounts] = "mounted" /\ ~Unmounting) => host'[mounts] = "mounted"
<1>1. IInv /\ [Next]_vars => [Standing => Keeps]_vars
  <2> SUFFICES ASSUME IInv, Next, Standing PROVE Keeps
    BY DEF vars
  <2> USE DEF IInv, TypeOK
  <2>1. ASSUME NEW k \in Conns, ConnStep(k) PROVE Keeps
    BY <2>1 DEF ConnStep, Greeted, GivesUp, Gone, RegisterRejected, Register, Leaves, Closes, Ends,
                HandlerGoes, mountVars
  <2>2. ASSUME NEW r \in Requests, RequestStep(r) PROVE Keeps
    BY <2>2 DEF RequestStep, LookupFails, Lookup, MountExisting, MountFails, Mount, NewMount
  <2>3. ASSUME NEW r \in Requests, HostStep(r) PROVE Keeps
    BY <2>3 DEF HostStep, HostMounts, HostFails, HostForgets, HostGoes, HostFailed
  <2>4. ASSUME NEW r \in Requests, TakeMount(r) PROVE Keeps
    BY <2>4 DEF TakeMount, WatchInv, DoneInv
  <2>5. ASSUME NEW r \in Requests, UnmountInVain(r) \/ Unmount(r) \/ RemovePath(r) PROVE Keeps
    BY <2>5 DEF UnmountInVain, Unmount, RemovePath, WatcherGoes, Unmounting, diskVars
  <2> QED BY <2>1, <2>2, <2>3, <2>4, <2>5 DEF Next, WatcherStep, Over, vars, mountVars
<1> QED BY <1>1, Invariance, PTL DEF Spec, LiveMountKept
=============================================================================
