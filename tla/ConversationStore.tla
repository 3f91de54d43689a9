-------------------------- MODULE ConversationStore --------------------------
(***************************************************************************)
(* claude's conversations as ccproxy's clients may rely on them, and       *)
(* nothing of how ccproxy sees to it: a conversation belongs to the client *)
(* it was begun owner, only that client's requests resume it, only once      *)
(* claude has told its id, and no two runs append to it at the same time.  *)
(*                                                                         *)
(* A run is a claude subprocess; the conversation that a run begins is     *)
(* named after it.  A run without a client (None) keeps its conversation   *)
(* to itself.                                                              *)
(***************************************************************************)

CONSTANTS
  Runs,     \* the claude subprocesses
  Clients,  \* client session ids
  None

VARIABLES
  owner,  \* owner[r]: the client that run r works for
  conv,   \* conv[r]: the conversation that r appends to, None before r has started
  live,   \* the runs that have not ended
  known   \* the conversations that can be resumed

vars == <<owner, conv, live, known>>

Init ==
  /\ owner = [r \in Runs |-> None]
  /\ conv = [r \in Runs |-> None]
  /\ live = {} /\ known = {}

\* A run starts on conversation c.
Start(r, o, c) ==
  /\ conv[r] = None
  /\ owner' = [owner EXCEPT ![r] = o]
  /\ conv' = [conv EXCEPT ![r] = c]
  /\ live' = live \cup {r}
  /\ UNCHANGED known

\* claude without --resume.
Begin(r, o) == Start(r, o, r)

\* claude --resume c: c is the client's own and nobody is appending to it.
Resume(r, o, c) ==
  /\ c \in known
  /\ owner[c] = o
  /\ \A q \in live : conv[q] # c
  /\ Start(r, o, c)

\* The id of the conversation that r has begun is learned.
Announce(r) ==
  /\ conv[r] = r
  /\ owner[r] # None
  /\ known' = known \cup {r}
  /\ UNCHANGED <<owner, conv, live>>

End(r) ==
  /\ r \in live
  /\ live' = live \ {r}
  /\ UNCHANGED <<owner, conv, known>>

Next ==
  \E r \in Runs :
    \/ \E o \in Clients \cup {None} : Begin(r, o)
    \/ \E o \in Clients, c \in Runs : Resume(r, o, c)
    \/ Announce(r)
    \/ End(r)

Spec == Init /\ [][Next]_vars

-----------------------------------------------------------------------------
(* What the clients get of it.                                             *)

\* Two runs that live at the same time never append to one conversation.
Exclusive == \A q, r \in live : conv[q] = conv[r] => q = r

\* What a run appends to was begun for the client it works for.
Private == \A r \in Runs : conv[r] # None => owner[conv[r]] = owner[r]
=============================================================================
