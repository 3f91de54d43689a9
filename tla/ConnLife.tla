------------------------------ MODULE ConnLife ------------------------------
(***************************************************************************)
(* The life of one bridge connection as the registry and the mounts see it *)
(* (the Connection interface, Done, and handleBridge).  Closed() stays     *)
(* true, Done comes after it, and handleBridge leaves only a connection    *)
(* that is closed: one it never registered, or one that is done.           *)
(***************************************************************************)
VARIABLES
  at,      \* handleBridge: "hello", "register", "leaving", "wait", "gone" or "end"
  closed,  \* what Closed() returns
  done     \* Done() is closed

vars == <<at, closed, done>>

Init == at = "hello" /\ closed = FALSE /\ done = FALSE

Greeted == at = "hello" /\ at' = "register" /\ UNCHANGED <<closed, done>>

\* The hello failed, or the principal has a live bridge already.
GivesUp == at \in {"hello", "register"} /\ at' = "leaving" /\ UNCHANGED <<closed, done>>

Registers == at = "register" /\ at' = "wait" /\ UNCHANGED <<closed, done>>

Closes == ~closed /\ closed' = TRUE /\ UNCHANGED <<at, done>>

Ends == closed /\ ~done /\ done' = TRUE /\ UNCHANGED <<at, closed>>

\* The handler's Close has returned.
Gone == at = "leaving" /\ closed /\ at' = "gone" /\ UNCHANGED <<closed, done>>

\* <-conn.Done(), then the deferred Unregister.
Leaves == at = "wait" /\ done /\ at' = "end" /\ UNCHANGED <<closed, done>>

Next == Greeted \/ GivesUp \/ Registers \/ Closes \/ Ends \/ Gone \/ Leaves

Spec == Init /\ [][Next]_vars
=============================================================================
