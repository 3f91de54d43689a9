--------------------------- MODULE BridgeConnProofs ---------------------------
(***************************************************************************)
(* TLAPS proofs about BridgeConn, for any number of concurrent calls.      *)
(***************************************************************************)
EXTENDS BridgeConn, TLAPS

-----------------------------------------------------------------------------
(* The inductive invariant.                                                *)

\* A channel is made with its call and is touched by nobody before the call
\* has put it into the map; the reader holds one that was there.
ChannelInv ==
  /\ \A c \in Calls : cpc[c] \in {"idle", "register"} => ch[c] = "open"
  /\ reader = "deliver" => cpc[carried] \notin {"idle", "register"}

\* The context ends in the function of closeOnce, and whoever waited for that
\* function comes after it.
CloseInv ==
  /\ cancelled <=> once \in {"drain", "used"}
  /\ reader = "end" => once = "used"
  /\ reader = "off" <=> at = "start"

IInv == TypeOK /\ PendingSound /\ ChannelInv /\ CloseInv

\* The initial state satisfies it.
LEMMA InitInv == Init => IInv
  BY DEF Init, IInv, TypeOK, PendingSound, ChannelInv, CloseInv, Calls

\* The steps of a call.
LEMMA CallInv ==
  ASSUME IInv, NEW c \in Calls, CallStep(c) \/ CallTimesOut(c)
  PROVE  IInv'
<1> USE DEF IInv, closeVars, runVars, Step, Returns
<1>1. TypeOK'
  <2>1. CASE CallClosed(c) \/ CallStart(c) \/ CallRegister(c) \/ CallCleanup(c)
    BY <2>1 DEF CallClosed, CallStart, CallRegister, CallCleanup, TypeOK
  <2>2. CASE CallWrite(c) \/ CallWriteFails(c)
    BY <2>2 DEF CallWrite, CallWriteFails, TypeOK
  <2>3. CASE CallGets(c) \/ CallSeesClose(c) \/ CallTimesOut(c)
    BY <2>3 DEF CallGets, CallSeesClose, CallTimesOut, TypeOK
  <2> QED BY <2>1, <2>2, <2>3 DEF CallStep
<1>2. PendingSound' /\ ChannelInv'
  <2> USE DEF TypeOK, PendingSound, ChannelInv
  <2>1. CASE CallClosed(c) \/ CallStart(c)
    BY <2>1 DEF CallClosed, CallStart
  <2>2. CASE CallRegister(c)
    BY <2>2 DEF CallRegister
  <2>3. CASE CallCleanup(c)
    BY <2>3 DEF CallCleanup
  <2>4. CASE CallWrite(c) \/ CallWriteFails(c)
    BY <2>4 DEF CallWrite, CallWriteFails
  <2>5. CASE CallGets(c) \/ CallSeesClose(c) \/ CallTimesOut(c)
    BY <2>5 DEF CallGets, CallSeesClose, CallTimesOut
  <2> QED BY <2>1, <2>2, <2>3, <2>4, <2>5 DEF CallStep
<1>3. CloseInv'
  BY DEF CallStep, CallClosed, CallStart, CallRegister, CallWrite, CallWriteFails, CallGets,
         CallSeesClose, CallTimesOut, CallCleanup, CloseInv
<1> QED BY <1>1, <1>2, <1>3

\* The function of closeOnce.
LEMMA ClosingInv ==
  ASSUME IInv, Closing
  PROVE  IInv'
<1> USE DEF IInv, runVars, callVars
<1>1. CASE CloseHandshake \/ CloseCancel
  <2>1. TypeOK'
    BY <1>1 DEF CloseHandshake, CloseCancel, TypeOK
  <2>2. PendingSound' /\ ChannelInv'
    BY <1>1 DEF CloseHandshake, CloseCancel, PendingSound, ChannelInv
  <2>3. CloseInv'
    <3>1. CASE CloseHandshake
      BY <1>1, <3>1 DEF CloseHandshake, CloseInv
    <3>2. CASE CloseCancel
      BY <1>1, <3>2 DEF CloseCancel, CloseInv
    <3> QED BY <1>1, <3>1, <3>2
  <2> QED BY <2>1, <2>2, <2>3
<1>2. CASE CloseDrain
  <2>1. TypeOK' /\ CloseInv'
    BY <1>2 DEF CloseDrain, TypeOK, CloseInv
  <2>2. PendingSound' /\ ChannelInv'
    BY <1>2 DEF CloseDrain, TypeOK, PendingSound, ChannelInv
  <2> QED BY <2>1, <2>2
<1> QED BY <1>1, <1>2 DEF Closing

\* The read loop, and the daemon's leaving.
LEMMA ReaderInv ==
  ASSUME IInv,
         ReaderStep \/ ReadEnds \/ PeerLeaves \/ (\E c \in Calls : ReadResponse(c))
  PROVE  IInv'
<1> USE DEF IInv, closeVars, runVars, callVars
<1>1. ASSUME NEW c \in Calls, ReadResponse(c) PROVE IInv'
  BY <1>1 DEF ReadResponse, TypeOK, PendingSound, ChannelInv, CloseInv
<1>2. CASE Deliver
  <2>1. TypeOK' /\ CloseInv'
    BY <1>2 DEF Deliver, TypeOK, CloseInv
  <2>2. PendingSound' /\ ChannelInv'
    BY <1>2 DEF Deliver, TypeOK, PendingSound, ChannelInv
  <2> QED BY <2>1, <2>2
<1>3. CASE ReaderCloses \/ ReaderEnds \/ ReadEnds \/ PeerLeaves
  BY <1>3 DEF ReaderCloses, EnterClose, ReaderEnds, ReadEnds, PeerLeaves,
              TypeOK, PendingSound, ChannelInv, CloseInv
<1> QED BY <1>1, <1>2, <1>3 DEF ReaderStep

\* handleBridge.
LEMMA HandlerInv ==
  ASSUME IInv, HandlerStep
  PROVE  IInv'
<1> USE DEF IInv, closeVars, runVars, callVars, HandlerGoes
<1>1. CASE Upgrade \/ HandlerCloses
  BY <1>1 DEF Upgrade, HandlerCloses, EnterClose, TypeOK, PendingSound, ChannelInv, CloseInv
<1>2. CASE HelloAnswered \/ HelloFails \/ Register
  BY <1>2 DEF HelloAnswered, HelloFails, Register, TypeOK, PendingSound, ChannelInv, CloseInv
<1>3. CASE HandlerGone \/ HandlerLeaves
  BY <1>3 DEF HandlerGone, HandlerLeaves, TypeOK, PendingSound, ChannelInv, CloseInv
<1> QED BY <1>1, <1>2, <1>3 DEF HandlerStep

\* Every step preserves it.
LEMMA NextInv == IInv /\ [Next]_vars => IInv'
<1> SUFFICES ASSUME IInv, [Next]_vars PROVE IInv'
  OBVIOUS
<1>1. CASE UNCHANGED vars
  BY <1>1 DEF IInv, vars, closeVars, runVars, callVars, TypeOK, PendingSound, ChannelInv, CloseInv
<1> QED BY <1>1, CallInv, ClosingInv, ReaderInv, HandlerInv DEF Next, Over

\* The inductive invariant holds in every reachable state.
THEOREM Invariance == Spec => []IInv
  BY InitInv, NextInv, PTL DEF Spec

\* Types; a call that is over has returned a frame or an error.
THEOREM TypeCorrect == Spec => []TypeOK
<1>1. IInv => TypeOK
  BY DEF IInv
<1> QED BY <1>1, Invariance, PTL

\* Neither deliverResponse nor Close ever meets a closed channel, however many
\* calls, timeouts and late answers there are.
THEOREM NoPanic == Spec => []PendingSound
<1>1. IInv => PendingSound
  BY DEF IInv
<1> QED BY <1>1, Invariance, PTL

\* wsConn with handleBridge implements ConnLife, on which BridgeMount is built.
THEOREM Refinement == Spec => LifeSpec
<1>1. Init => Life!Init
  BY DEF Init, Life!Init, LifeAt, Done
<1>2. IInv /\ [Next]_vars => [Life!Next]_<<LifeAt, cancelled, Done>>
  <2> SUFFICES ASSUME IInv, [Next]_vars
               PROVE  [Life!Next]_<<LifeAt, cancelled, Done>>
    OBVIOUS
  <2> USE DEF closeVars, runVars, LifeAt, Done
  <2>1. ASSUME NEW c \in Calls, CallStep(c) \/ CallTimesOut(c) \/ ReadResponse(c)
        PROVE  UNCHANGED <<LifeAt, cancelled, Done>>
    BY <2>1 DEF CallStep, CallClosed, CallStart, CallRegister, CallWrite, CallWriteFails, CallGets,
                CallSeesClose, CallTimesOut, CallCleanup, Step, ReadResponse
  <2>2. CASE CloseCancel
    BY <2>2 DEF CloseCancel, IInv, CloseInv, Life!Next, Life!Closes
  <2>3. CASE ReaderEnds
    BY <2>3 DEF ReaderEnds, IInv, CloseInv, Life!Next, Life!Ends
  <2>4. CASE HelloAnswered \/ HelloFails
    BY <2>4 DEF HelloAnswered, HelloFails, HandlerGoes, Life!Next, Life!Greeted, Life!GivesUp
  <2>5. CASE Register
    BY <2>5 DEF Register, HandlerGoes, Life!Next, Life!Registers, Life!GivesUp
  <2>6. CASE HandlerGone
    BY <2>6 DEF HandlerGone, HandlerGoes, IInv, CloseInv, Life!Next, Life!Gone
  <2>7. CASE HandlerLeaves
    BY <2>7 DEF HandlerLeaves, HandlerGoes, Life!Next, Life!Leaves
  <2>8. CASE Upgrade
    BY <2>8 DEF Upgrade, HandlerGoes, IInv, CloseInv
  <2>9. CASE CloseHandshake \/ CloseDrain \/ Deliver \/ ReaderCloses \/ ReadEnds \/ PeerLeaves
             \/ HandlerCloses \/ UNCHANGED vars
    BY <2>9 DEF CloseHandshake, CloseDrain, Deliver, ReaderCloses, ReadEnds, PeerLeaves,
                HandlerCloses, vars
  <2> QED
    BY <2>1, <2>2, <2>3, <2>4, <2>5, <2>6, <2>7, <2>8, <2>9
       DEF Next, Closing, ReaderStep, HandlerStep, Over
<1> QED BY <1>1, <1>2, Invariance, PTL DEF Spec, LifeSpec, Life!Spec, Life!vars
=============================================================================
