------------------------------ MODULE ProcHandle ------------------------------
(***************************************************************************)
(* What a chat handler relies on when it runs a claude subprocess, and all *)
(* that Session knows of it: the stream ends only after the subprocess has *)
(* exited, and Close returns only then, whoever else is waiting for the    *)
(* subprocess or signalling it.                                            *)
(***************************************************************************)

VARIABLES
  proc,    \* "running" or "exited"
  at,      \* the handler: "stream", "closing" or "release"
  ended    \* the handler has seen the end of the stream

Init == proc = "running" /\ at = "stream" /\ ended = FALSE

ProcExit == proc = "running" /\ proc' = "exited" /\ UNCHANGED <<at, ended>>

StreamEnds ==
  /\ at = "stream" /\ proc = "exited"
  /\ at' = "closing" /\ ended' = TRUE
  /\ UNCHANGED proc

Disconnect ==
  /\ at = "stream"
  /\ at' = "closing"
  /\ UNCHANGED <<proc, ended>>

CloseReturns ==
  /\ at = "closing" /\ proc = "exited"
  /\ at' = "release"
  /\ UNCHANGED <<proc, ended>>

Next == ProcExit \/ StreamEnds \/ Disconnect \/ CloseReturns

Spec == Init /\ [][Next]_<<proc, at, ended>>
=============================================================================
