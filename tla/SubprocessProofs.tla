--------------------------- MODULE SubprocessProofs ---------------------------
(***************************************************************************)
(* TLAPS proofs about Subprocess, for any number of lines and any capacity *)
(* of the pipe and of the channel, and about its RingBuffer, for every     *)
(* capacity and every content.                                             *)
(***************************************************************************)
EXTENDS Subprocess, RingBuffer, SequenceTheorems, WellFoundedInduction, TLAPS

USE SubprocessAssumption

-----------------------------------------------------------------------------
(* The inductive invariant.                                                *)

\* closeOnce: SIGINT is sent by the one who finds it free.
OnceInv ==
  /\ once = "free" => interrupts = 0
  /\ once = "supervise" <=> sup = "grace"

\* done is closed after the exit; who waited for done comes after it.
WaitInv ==
  /\ done => child = "exited"
  /\ pipeOpen <=> ~done
  /\ cons = "closed" => done
  /\ reader \in {"sendExitErr", "closed"} => done
  /\ child = "running" <=> status = "none"

\* How the reader came to stop reading.
ReaderInv ==
  /\ reader = "read" => errsSent = 0
  /\ reader = "sendReadErr" => errsSent = 0
  /\ reader \in {"wait", "sendExitErr"} => errsSent <= 1
  /\ reader \in {"wait", "sendExitErr", "closed"} =>
       (parsed = written /\ child = "exited") \/ errsSent > 0
  /\ (reader = "closed" /\ status = "err") => errsSent > 0

\* What the handler has seen at the end; claude exits with status 0 only when
\* it has written everything or was interrupted.
EndInv ==
  /\ (status = "ok" /\ interrupts = 0) => written = Lines
  /\ ended => reader = "closed" /\ got = parsed /\ errsGot = errsSent
  /\ ended => cons # "select"

IInv == TypeOK /\ OnceInv /\ WaitInv /\ ReaderInv /\ EndInv

-----------------------------------------------------------------------------

\* The initial states satisfy the invariant.
LEMMA InitInv == Init => IInv
<1> SUFFICES ASSUME Init PROVE IInv
  OBVIOUS
<1>0. Flags
  BY DEF Init, Flags
<1>1. TypeOK
  BY <1>0 DEF Init, TypeOK, Buffered
<1>2. OnceInv
  BY DEF Init, OnceInv
<1>3. WaitInv
  BY DEF Init, WaitInv
<1>4. ReaderInv
  BY DEF Init, ReaderInv
<1>5. EndInv
  BY DEF Init, EndInv
<1> QED BY <1>1, <1>2, <1>3, <1>4, <1>5 DEF IInv

\* The invariant is inductive.  The flags are dealt with apart from the
\* counters where a step sets one.
LEMMA NextInv == IInv /\ [Next]_vars => IInv'
<1> SUFFICES ASSUME IInv, [Next]_vars PROVE IInv'
  OBVIOUS
<1> USE DEF IInv, TypeOK, OnceInv, WaitInv, ReaderInv, EndInv, Buffered, childVars, pipeVars, waitVars,
            readerVars, closeVars, ctxVars, consVars
<1>1. CASE ChildWrites
  BY <1>1 DEF Flags, ChildWrites
<1>2. CASE ChildFinishes \/ ChildCrashes \/ ChildObeys
  BY <1>2 DEF Flags, ChildFinishes, ChildCrashes, ChildObeys, ChildEnds
<1>3. CASE MetricsWait \/ Reap
  <2> USE <1>3 DEF MetricsWait, Reap
  <2>0. Flags'
    BY DEF Flags
  <2>1. TypeOK'
    BY <2>0
  <2>2. OnceInv'
    OBVIOUS
  <2>3. WaitInv'
    OBVIOUS
  <2>4. ReaderInv'
    OBVIOUS
  <2>5. EndInv'
    OBVIOUS
  <2> QED BY <2>1, <2>2, <2>3, <2>4, <2>5
<1>4. CASE Fetch \/ SendLine
  BY <1>4 DEF Flags, Fetch, SendLine, Room, ReaderOnly
<1>5. CASE ReadEOF \/ ReadFails
  BY <1>5 DEF Flags, ReadEOF, ReadFails, ReaderOnly
<1>6. CASE SendReadErr \/ ReaderWaited \/ SendExitErr
  BY <1>6 DEF Flags, SendReadErr, ReaderWaited, SendExitErr, Room, ReaderOnly
<1>7. CASE SupSeesDone \/ SupCancelled
  BY <1>7 DEF Flags, SupSeesDone, SupCancelled, Interrupt
<1>8. CASE SupExited \/ SupKills
  BY <1>8 DEF Flags, SupExited, SupKills
<1>9. CASE Receive
  BY <1>9 DEF Flags, Receive
<1>10. CASE SeeClosed \/ SeeGone
  <2> USE <1>10 DEF SeeClosed, SeeGone
  <2>0. Flags'
    BY DEF Flags
  <2>1. TypeOK'
    BY <2>0
  <2>2. OnceInv'
    OBVIOUS
  <2>3. WaitInv'
    OBVIOUS
  <2>4. ReaderInv'
    OBVIOUS
  <2>5. EndInv'
    OBVIOUS
  <2> QED BY <2>1, <2>2, <2>3, <2>4, <2>5
<1>11. CASE CloseSignals \/ CloseReturns
  <2> USE <1>11 DEF CloseSignals, CloseReturns, Interrupt
  <2>0. Flags'
    BY DEF Flags
  <2>1. TypeOK'
    BY <2>0
  <2>2. OnceInv'
    OBVIOUS
  <2>3. WaitInv'
    OBVIOUS
  <2>4. ReaderInv'
    OBVIOUS
  <2>5. EndInv'
    OBVIOUS
  <2> QED BY <2>1, <2>2, <2>3, <2>4, <2>5
<1>12. CASE ClientLeaves \/ Timeout
  <2> USE <1>12 DEF ClientLeaves, Timeout
  <2>0. Flags'
    BY DEF Flags
  <2>1. TypeOK'
    BY <2>0
  <2>2. OnceInv'
    OBVIOUS
  <2>3. WaitInv'
    OBVIOUS
  <2>4. ReaderInv'
    OBVIOUS
  <2>5. EndInv'
    OBVIOUS
  <2> QED BY <2>1, <2>2, <2>3, <2>4, <2>5
<1>13. CASE UNCHANGED vars
  BY <1>13 DEF Flags, vars
<1> QED
  BY <1>1, <1>2, <1>3, <1>4, <1>5, <1>6, <1>7, <1>8, <1>9, <1>10, <1>11, <1>12, <1>13
     DEF Next, Reading, Supervise, Consuming, Closing, Settled

\* The inductive invariant holds in every reachable state.
THEOREM Invariance == Spec => []IInv
  BY InitInv, NextInv, PTL DEF Spec

\* Types, the capacity of the channel, and a single SIGINT from two senders.
THEOREM TypeCorrect == Spec => []TypeOK
<1>1. IInv => TypeOK
  BY DEF IInv
<1> QED BY <1>1, Invariance, PTL

\* A handler that has seen the end of the stream without all the lines of a
\* claude that nobody interrupted has seen an error event.
THEOREM TruncationIsReported == Spec => []TruncationReported
<1>1. IInv => TruncationReported
  BY DEF IInv, TypeOK, WaitInv, ReaderInv, EndInv, TruncationReported
<1> QED BY <1>1, Invariance, PTL

\* The goroutines around a subprocess implement ProcHandle: the stream ends,
\* and Close returns, only after the exit.
THEOREM Refinement == Spec => HandleSpec
<1>1. Init => Handle!Init
  BY DEF Init, Handle!Init, HandlerAt
<1>2. IInv /\ [Next]_vars => [Handle!Next]_<<child, HandlerAt, ended>>
  <2> SUFFICES ASSUME IInv, [Next]_vars
               PROVE  [Handle!Next]_<<child, HandlerAt, ended>>
    OBVIOUS
  <2>1. CASE ChildFinishes \/ ChildCrashes \/ ChildObeys \/ SupKills
    BY <2>1 DEF ChildFinishes, ChildCrashes, ChildObeys, ChildEnds, SupKills, consVars, HandlerAt,
                IInv, TypeOK, Handle!Next, Handle!ProcExit
  <2>2. CASE SeeClosed
    BY <2>2 DEF SeeClosed, childVars, HandlerAt, IInv, WaitInv, Handle!Next, Handle!StreamEnds
  <2>3. CASE Receive \/ SeeGone
    BY <2>3 DEF Receive, SeeGone, childVars, HandlerAt, Handle!Next, Handle!Disconnect
  <2>4. CASE CloseReturns
    BY <2>4 DEF CloseReturns, childVars, HandlerAt, IInv, WaitInv, Handle!Next, Handle!CloseReturns
  <2>5. CASE CloseSignals
    BY <2>5 DEF CloseSignals, HandlerAt
  <2> QED
    BY <2>1, <2>2, <2>3, <2>4, <2>5 DEF Next, Reading, Supervise, Consuming, Closing, Settled,
       ChildWrites, MetricsWait, Reap, Fetch, SendLine, ReadEOF, ReadFails, SendReadErr,
       ReaderWaited, SendExitErr, ReaderOnly, SupSeesDone, SupCancelled, SupExited,
       ClientLeaves, Timeout, vars, childVars, consVars, HandlerAt
<1> QED BY <1>1, <1>2, Invariance, PTL DEF Spec, HandleSpec, Handle!Spec

-----------------------------------------------------------------------------
(* The ring buffer behind stderr.                                          *)

\* A new buffer is a buffer, and empty.
THEOREM NewIsEmpty ==
  ASSUME NEW cap \in Nat \ {0}, NEW Bytes, NEW zero \in Bytes
  PROVE  /\ newRingBuffer(cap, zero) \in Rings(cap, Bytes)
         /\ String(newRingBuffer(cap, zero), cap) = << >>
  BY DEF newRingBuffer, Rings, String

\* Whatever a buffer holds, String returns a sequence of at most cap bytes: all
\* indices are within the array.
LEMMA StringTyped ==
  ASSUME NEW cap \in Nat \ {0}, NEW Bytes, NEW r \in Rings(cap, Bytes)
  PROVE  /\ String(r, cap) \in Seq(Bytes)
         /\ Len(String(r, cap)) = IF r.full THEN cap ELSE r.w
<1>1. r.buf \in [0 .. cap - 1 -> Bytes] /\ r.w \in 0 .. cap - 1 /\ r.full \in BOOLEAN  BY DEF Rings
<1>2. CASE r.full
  <2>1. \A i \in 1 .. cap : (IF r.w + i <= cap THEN r.w + i - 1 ELSE r.w + i - cap - 1) \in 0 .. cap - 1
    BY <1>1
  <2>2. \A i \in 1 .. cap :
          r.buf[IF r.w + i <= cap THEN r.w + i - 1 ELSE r.w + i - cap - 1] \in Bytes
    BY <1>1, <2>1
  <2> QED  BY <1>2, <2>2 DEF String
<1>3. CASE ~r.full
  <2>1. \A i \in 1 .. r.w : r.buf[i - 1] \in Bytes  BY <1>1
  <2> QED  BY <1>1, <1>3, <2>1, SMTT(40) DEF String
<1> QED  BY <1>2, <1>3

\* One more byte: what String returns afterwards is the end of what it returned
\* before, followed by the byte.  The oldest byte goes when the buffer is full,
\* and none goes when it has just become so.
THEOREM WriteKeepsLatest ==
  ASSUME NEW cap \in Nat \ {0}, NEW Bytes, NEW r \in Rings(cap, Bytes), NEW b \in Bytes
  PROVE  /\ WriteByte(r, cap, b) \in Rings(cap, Bytes)
         /\ String(WriteByte(r, cap, b), cap) = Latest(Append(String(r, cap), b), cap)
<1> DEFINE s == String(r, cap)
           n == WriteByte(r, cap, b)
           a == Append(s, b)
<1>1. r.buf \in [0 .. cap - 1 -> Bytes] /\ r.w \in 0 .. cap - 1 /\ r.full \in BOOLEAN  BY DEF Rings
<1>2. /\ n.buf = [r.buf EXCEPT ![r.w] = b]
      /\ n.full = (r.full \/ r.w + 1 = cap)
      /\ n.w = IF r.w + 1 = cap THEN 0 ELSE r.w + 1
  BY DEF WriteByte
<1>3. n \in Rings(cap, Bytes)  BY <1>1 DEF WriteByte, Rings
<1>4. /\ s \in Seq(Bytes) /\ Len(s) = IF r.full THEN cap ELSE r.w
      /\ a \in Seq(Bytes) /\ Len(a) = Len(s) + 1
      /\ \A i \in 1 .. Len(s) : a[i] = s[i]
      /\ a[Len(s) + 1] = b
  BY StringTyped
<1> HIDE DEF n, a
<1>5. CASE r.full
  <2>1. Len(a) = cap + 1  BY <1>4, <1>5
  <2>2. Latest(a, cap) = [i \in 1 .. cap |-> a[i + 1]]  BY <2>1 DEF Latest
  <2>3. String(n, cap) =
          [i \in 1 .. cap |-> n.buf[IF n.w + i <= cap THEN n.w + i - 1 ELSE n.w + i - cap - 1]]
    BY <1>2, <1>5 DEF String
  <2>4. ASSUME NEW i \in 1 .. cap
        PROVE  a[i + 1] = n.buf[IF n.w + i <= cap THEN n.w + i - 1 ELSE n.w + i - cap - 1]
    <3> DEFINE j == IF n.w + i <= cap THEN n.w + i - 1 ELSE n.w + i - cap - 1
    <3>1. j \in 0 .. cap - 1 /\ (j = r.w <=> i = cap)
      <4>1. CASE r.w + 1 = cap
        <5>1. n.w = 0 /\ j = i - 1  BY <1>2, <4>1
        <5> QED  BY <1>1, <4>1, <5>1
      <4>2. CASE r.w + 1 # cap
        <5>1. n.w = r.w + 1  BY <1>2, <4>2
        <5> QED  BY <1>1, <4>2, <5>1, SMTT(40)
      <4> QED  BY <4>1, <4>2
    <3>2. CASE i = cap  BY <1>1, <1>2, <1>4, <1>5, <3>1, <3>2
    <3>3. CASE i # cap
      <4>1. a[i + 1] = s[i + 1]  BY <1>4, <1>5, <3>3
      <4>2. s[i + 1] = r.buf[IF r.w + (i + 1) <= cap THEN r.w + (i + 1) - 1 ELSE r.w + (i + 1) - cap - 1]
        BY <1>5, <3>3 DEF String
      <4>3. j = IF r.w + (i + 1) <= cap THEN r.w + (i + 1) - 1 ELSE r.w + (i + 1) - cap - 1
        BY <1>1, <1>2, <3>3, SMTT(40)
      <4>4. n.buf[j] = r.buf[j]  BY <1>1, <1>2, <3>1, <3>3
      <4> QED  BY <4>1, <4>2, <4>3, <4>4
    <3> QED  BY <3>2, <3>3
  <2> QED  BY <1>3, <2>2, <2>3, <2>4 DEF n, a
<1>6. CASE ~r.full
  <2>1. Len(a) = r.w + 1 /\ Latest(a, cap) = a  BY <1>1, <1>4, <1>6, SMTT(40) DEF Latest
  <2>2. String(n, cap) = [i \in 1 .. r.w + 1 |-> n.buf[i - 1]]
    <3>1. CASE r.w + 1 = cap
      <4>1. String(n, cap) =
              [i \in 1 .. cap |-> n.buf[IF n.w + i <= cap THEN n.w + i - 1 ELSE n.w + i - cap - 1]]
        BY <1>2, <3>1 DEF String
      <4>2. n.w = 0  BY <1>2, <3>1
      <4> QED  BY <3>1, <4>1, <4>2
    <3>2. CASE r.w + 1 # cap  BY <1>2, <1>6, <3>2 DEF String
    <3> QED  BY <3>1, <3>2
  <2>3. ASSUME NEW i \in 1 .. r.w + 1  PROVE a[i] = n.buf[i - 1]
    <3>1. CASE i = r.w + 1  BY <1>1, <1>2, <1>4, <1>6, <3>1
    <3>2. CASE i # r.w + 1
      <4>1. a[i] = s[i]  BY <1>1, <1>4, <1>6, <3>2
      <4>2. s[i] = r.buf[i - 1]  BY <1>1, <1>6, <3>2 DEF String
      <4>3. n.buf[i - 1] = r.buf[i - 1]  BY <1>1, <1>2, <3>2
      <4> QED  BY <4>1, <4>2, <4>3
    <3> QED  BY <3>1, <3>2
  <2>4. a = [i \in 1 .. r.w + 1 |-> a[i]]  BY <1>4, <2>1
  <2> QED  BY <1>3, <2>1, <2>2, <2>3, <2>4 DEF n, a
<1> QED  BY <1>1, <1>5, <1>6

\* Induction, of a set.  (A theorem about every predicate could not be
\* instantiated by the provers.)
LEMMA Induction ==
  ASSUME NEW S, 0 \in S, \A n \in Nat : n \in S => n + 1 \in S
  PROVE  Nat \subseteq S
<1> SUFFICES ASSUME Nat \ S # {}  PROVE FALSE
  OBVIOUS
<1> DEFINE T == Nat \ S
           R == {ss \in Nat \X Nat : ss[1] < ss[2]}
<1>1. IsWellFoundedOn(R, Nat)  BY NatLessThanWellFounded DEF OpToRel
<1>2. \E x \in T : \A y \in T : ~ (<<y, x>> \in R)
  <2> HIDE DEF R
  <2> QED  BY <1>1, WFMin
<1>3. PICK x \in T : \A y \in T : ~ (<<y, x>> \in R)  BY <1>2
<1>4. x # 0 /\ x - 1 \in Nat  OBVIOUS
<1>5. <<x - 1, x>> \in R  BY <1>4
<1>6. x - 1 \in S  BY <1>3, <1>4, <1>5
<1> QED  BY <1>4, <1>6

\* The same over sequences.
LEMMA SeqInduction ==
  ASSUME NEW S, NEW Q, <<>> \in Q, \A s \in Seq(S), x \in S : s \in Q => Append(s, x) \in Q
  PROVE  Seq(S) \subseteq Q
<1> DEFINE P == {n \in Nat : \A s \in Seq(S) : Len(s) = n => s \in Q}
<1>1. 0 \in P  OBVIOUS
<1>2. ASSUME NEW n \in Nat, n \in P  PROVE n + 1 \in P
  <2> SUFFICES ASSUME NEW s \in Seq(S), Len(s) = n + 1  PROVE s \in Q
    OBVIOUS
  <2>1. s # <<>>  OBVIOUS
  <2>2. PICK r \in Seq(S), x \in S : s = Append(r, x)  BY <2>1, SequenceEmptyOrAppend
  <2>3. Len(r) = n  BY <2>2
  <2> QED  BY <1>2, <2>2, <2>3
<1> HIDE DEF P
<1>3. Nat \subseteq P  BY <1>1, <1>2, Induction
<1> QED  BY <1>3 DEF P

\* The function that the loop of Write computes, up to the mth byte.
Writes(f, m, r, cap, p) ==
  f = [k \in 0 .. m |-> IF k = 0 THEN r ELSE WriteByte(f[k - 1], cap, p[k])]

\* There is one: the loop has a value after every byte.
LEMMA WritesExists ==
  ASSUME NEW r, NEW cap, NEW p, NEW n \in Nat
  PROVE  \E f : Writes(f, n, r, cap, p)
<1> DEFINE P == {m \in Nat : \E f : Writes(f, m, r, cap, p)}
<1>1. 0 \in P
  <2>1. Writes([k \in 0 .. 0 |-> r], 0, r, cap, p)  BY DEF Writes
  <2> QED  BY <2>1
<1>2. ASSUME NEW m \in Nat, m \in P  PROVE m + 1 \in P
  <2>1. PICK f : Writes(f, m, r, cap, p)  BY <1>2
  <2> DEFINE g == [k \in 0 .. m + 1 |-> IF k <= m THEN f[k] ELSE WriteByte(f[k - 1], cap, p[k])]
  <2>2. \A k \in 0 .. m + 1 : g[k] = IF k = 0 THEN r ELSE WriteByte(g[k - 1], cap, p[k])
    <3> TAKE k \in 0 .. m + 1
    <3>1. CASE k <= m
      <4>1. k \in 0 .. m /\ (k # 0 => k - 1 \in 0 .. m /\ k - 1 \in 0 .. m + 1)  BY <3>1
      <4>2. f[k] = IF k = 0 THEN r ELSE WriteByte(f[k - 1], cap, p[k])
        <5> SUFFICES ASSUME k \in 0 .. m  PROVE f[k] = IF k = 0 THEN r ELSE WriteByte(f[k - 1], cap, p[k])
          BY <4>1
        <5> QED  BY <2>1, Zenon DEF Writes
      <4>3. g[k] = f[k] /\ (k # 0 => g[k - 1] = f[k - 1])  BY <3>1, <4>1
      <4> HIDE DEF g
      <4> QED  BY <4>2, <4>3, Zenon
    <3>2. CASE ~ (k <= m)
      <4>1. k # 0 /\ k - 1 \in 0 .. m + 1 /\ k - 1 <= m  BY <3>2
      <4>2. g[k - 1] = f[k - 1] /\ g[k] = WriteByte(f[k - 1], cap, p[k])  BY <3>2, <4>1
      <4> HIDE DEF g
      <4> QED  BY <4>1, <4>2, Zenon
    <3> QED  BY <3>1, <3>2
  <2>3. g = [k \in 0 .. m + 1 |-> g[k]]  OBVIOUS
  <2>4. Writes(g, m + 1, r, cap, p)
    <3> HIDE DEF g
    <3> QED  BY <2>2, <2>3 DEF Writes
  <2> QED  BY <2>4
<1> HIDE DEF P
<1>3. Nat \subseteq P  BY <1>1, <1>2, Induction
<1> QED  BY <1>3 DEF P

\* Write is the last value of that function.
LEMMA WriteDef ==
  ASSUME NEW r, NEW cap, NEW p, Len(p) \in Nat
  PROVE  \E f : Writes(f, Len(p), r, cap, p) /\ Write(r, cap, p) = f[Len(p)]
<1> DEFINE c == CHOOSE f : Writes(f, Len(p), r, cap, p)
<1>1. Writes(c, Len(p), r, cap, p)  BY WritesExists
<1>2. Write(r, cap, p) = c[Len(p)]  BY DEF Write, Writes
<1> QED  BY <1>1, <1>2

\* What Latest is.
LEMMA LatestIs ==
  ASSUME NEW S, NEW s \in Seq(S), NEW n \in Nat
  PROVE  /\ Latest(s, n) \in Seq(S)
         /\ Len(Latest(s, n)) = IF Len(s) <= n THEN Len(s) ELSE n
         /\ Len(s) <= n => Latest(s, n) = s
         /\ Len(s) >= n => /\ Len(Latest(s, n)) = n
                           /\ \A i \in 1 .. n : Latest(s, n)[i] = s[Len(s) - n + i]
<1>1. CASE Len(s) <= n
  BY <1>1 DEF Latest
<1>2. CASE Len(s) > n
  <2> DEFINE l == [i \in 1 .. n |-> s[Len(s) - n + i]]
  <2>1. Latest(s, n) = l  BY <1>2 DEF Latest
  <2>2. \A i \in 1 .. n : s[Len(s) - n + i] \in S
    <3> TAKE i \in 1 .. n
    <3>1. Len(s) - n + i \in 1 .. Len(s)  BY <1>2
    <3> QED  BY <3>1, ElementOfSeq
  <2>3. l \in Seq(S) /\ Len(l) = n  BY <2>2
  <2> QED  BY <1>2, <2>1, <2>3
<1> QED  BY <1>1, <1>2

\* What is dropped before the next byte would have been dropped after it.
LEMMA LatestAppend ==
  ASSUME NEW S, NEW s \in Seq(S), NEW b \in S, NEW n \in Nat \ {0}
  PROVE  Latest(Append(Latest(s, n), b), n) = Latest(Append(s, b), n)
<1> DEFINE l == Latest(s, n)
           a == Append(l, b)
           c == Append(s, b)
           u == Latest(a, n)
           v == Latest(c, n)
<1>0. ASSUME NEW x \in Seq(S), Len(x) >= n
      PROVE  /\ Latest(x, n) \in Seq(S) /\ Len(Latest(x, n)) = n
             /\ \A i \in 1 .. n : Latest(x, n)[i] = x[Len(x) - n + i]
  BY <1>0, LatestIs
<1>1. CASE Len(s) <= n
  <2>1. l = s  BY <1>1, LatestIs
  <2> QED  BY <2>1
<1>2. CASE Len(s) > n
  <2>1. l \in Seq(S) /\ Len(l) = n /\ \A i \in 1 .. n : l[i] = s[Len(s) - n + i]
    BY <1>2, LatestIs
  <2> HIDE DEF l
  <2>2. /\ a \in Seq(S) /\ Len(a) = n + 1 /\ a[n + 1] = b /\ \A i \in 1 .. n : a[i] = l[i]
        /\ c \in Seq(S) /\ Len(c) = Len(s) + 1 /\ c[Len(s) + 1] = b
        /\ \A i \in 1 .. Len(s) : c[i] = s[i]
    BY <2>1
  <2> HIDE DEF a, c
  <2>3. u \in Seq(S) /\ Len(u) = n /\ \A i \in 1 .. n : u[i] = a[(n + 1) - n + i]
    <3>1. Len(a) >= n  BY <2>2
    <3>2. u \in Seq(S) /\ Len(u) = n /\ \A i \in 1 .. n : u[i] = a[Len(a) - n + i]
      BY <1>0, <2>2, <3>1, Zenon
    <3> HIDE DEF u
    <3> QED  BY <2>2, <3>2
  <2>4. v \in Seq(S) /\ Len(v) = n /\ \A i \in 1 .. n : v[i] = c[(Len(s) + 1) - n + i]
    <3>1. Len(c) >= n  BY <1>2, <2>2
    <3>2. v \in Seq(S) /\ Len(v) = n /\ \A i \in 1 .. n : v[i] = c[Len(c) - n + i]
      BY <1>0, <2>2, <3>1, Zenon
    <3> HIDE DEF v
    <3> QED  BY <2>2, <3>2
  <2> HIDE DEF u, v
  <2>5. ASSUME NEW i \in 1 .. n  PROVE u[i] = v[i]
    <3>1. u[i] = a[i + 1] /\ v[i] = c[Len(s) + 1 - n + i]
      <4>1. (n + 1) - n + i = i + 1  OBVIOUS
      <4> QED  BY <2>3, <2>4, <4>1
    <3>2. CASE i = n
      BY <2>2, <3>1, <3>2
    <3>3. CASE i # n
      <4>1. i + 1 \in 1 .. n /\ Len(s) - n + (i + 1) \in 1 .. Len(s)
            /\ Len(s) + 1 - n + i = Len(s) - n + (i + 1)
        BY <1>2, <3>3
      <4>2. a[i + 1] = s[Len(s) - n + (i + 1)]  BY <2>1, <2>2, <4>1
      <4> QED  BY <2>2, <3>1, <4>1, <4>2
    <3> QED  BY <3>2, <3>3
  <2>6. u = v  BY <2>3, <2>4, <2>5, SeqEqual
  <2> QED  BY <2>6 DEF u, v, a, c, l
<1> QED  BY <1>1, <1>2

\* The same for more bytes.
LEMMA LatestConcat ==
  ASSUME NEW S, NEW s \in Seq(S), NEW p \in Seq(S), NEW n \in Nat \ {0}
  PROVE  Latest(Latest(s, n) \o p, n) = Latest(s \o p, n)
<1> DEFINE l == Latest(s, n)
           Q == {q \in Seq(S) : Latest(l \o q, n) = Latest(s \o q, n)}
<1>1. l \in Seq(S)  BY LatestIs
<1>2. <<>> \in Q
  <2>1. l \o <<>> = l /\ s \o <<>> = s  BY <1>1, ConcatEmptySeq
  <2>2. Latest(l, n) = l
    <3>1. Len(l) <= n  BY LatestIs
    <3> HIDE DEF l
    <3> QED  BY <1>1, <3>1, LatestIs
  <2> QED  BY <2>1, <2>2
<1>3. ASSUME NEW q \in Seq(S), NEW b \in S, q \in Q  PROVE Append(q, b) \in Q
  <2> DEFINE x == l \o q  y == s \o q
  <2>1. x \in Seq(S) /\ l \o Append(q, b) = Append(x, b)
    <3> HIDE DEF l
    <3> QED  BY <1>1
  <2>2. y \in Seq(S) /\ s \o Append(q, b) = Append(y, b)  OBVIOUS
  <2>3. Latest(x, n) = Latest(y, n)  BY <1>3
  <2> HIDE DEF x, y
  <2>4. Latest(Append(x, b), n) = Latest(Append(Latest(x, n), b), n)  BY <2>1, LatestAppend
  <2>5. Latest(Append(y, b), n) = Latest(Append(Latest(y, n), b), n)  BY <2>2, LatestAppend
  <2>6. Latest(l \o Append(q, b), n) = Latest(s \o Append(q, b), n)
    BY <2>1, <2>2, <2>3, <2>4, <2>5, Zenon
  <2>7. Append(q, b) \in Seq(S)  OBVIOUS
  <2> QED  BY <2>6, <2>7
<1> HIDE DEF Q
<1>4. Seq(S) \subseteq Q  BY <1>2, <1>3, SeqInduction
<1> QED  BY <1>4 DEF Q

\* A whole Write, of any length: more than the capacity at once, nothing, or up
\* to the end of the array.
THEOREM WholeWriteKeepsLatest ==
  ASSUME NEW cap \in Nat \ {0}, NEW Bytes, NEW r \in Rings(cap, Bytes), NEW p \in Seq(Bytes)
  PROVE  /\ Write(r, cap, p) \in Rings(cap, Bytes)
         /\ String(Write(r, cap, p), cap) = Latest(String(r, cap) \o p, cap)
<1> DEFINE s == String(r, cap)
           u(k) == SubSeq(p, 1, k)
<1>1. s \in Seq(Bytes) /\ Len(s) <= cap
  <2>1. r.w \in 0 .. cap - 1  BY DEF Rings
  <2> QED  BY <2>1, StringTyped
<1> HIDE DEF s
<1>2. PICK f : Writes(f, Len(p), r, cap, p) /\ Write(r, cap, p) = f[Len(p)]
  BY WriteDef
<1> DEFINE P == {k \in Nat : k <= Len(p) =>
                   f[k] \in Rings(cap, Bytes) /\ String(f[k], cap) = Latest(s \o u(k), cap)}
<1>3. 0 \in P
  <2>1. f[0] = r  BY <1>2 DEF Writes
  <2>2. u(0) = <<>>  OBVIOUS
  <2>3. s \o <<>> = s  BY <1>1
  <2>4. Latest(s, cap) = s  BY <1>1, LatestIs
  <2> QED  BY <2>1, <2>2, <2>3, <2>4 DEF s
<1>4. ASSUME NEW k \in Nat, k \in P  PROVE k + 1 \in P
  <2> SUFFICES ASSUME k + 1 <= Len(p)
               PROVE  /\ f[k + 1] \in Rings(cap, Bytes)
                      /\ String(f[k + 1], cap) = Latest(s \o u(k + 1), cap)
    OBVIOUS
  <2> DEFINE b == p[k + 1]  t == u(k)  g == f[k]
  <2>1. b \in Bytes  OBVIOUS
  <2>2. f[k + 1] = WriteByte(g, cap, b)
    <3>1. k + 1 \in 0 .. Len(p) /\ k + 1 # 0 /\ (k + 1) - 1 = k  OBVIOUS
    <3>2. f[k + 1] = WriteByte(f[(k + 1) - 1], cap, p[k + 1])
      <4> SUFFICES ASSUME k + 1 \in 0 .. Len(p), k + 1 # 0
                   PROVE  f[k + 1] = WriteByte(f[(k + 1) - 1], cap, p[k + 1])
        BY <3>1
      <4> QED  BY <1>2, Zenon DEF Writes
    <3> QED  BY <3>1, <3>2
  <2>3. g \in Rings(cap, Bytes) /\ String(g, cap) = Latest(s \o t, cap)  BY <1>4
  <2>4. t \in Seq(Bytes) /\ u(k + 1) = Append(t, b)
    <3>1. t \in Seq(Bytes) /\ Len(t) = k /\ \A i \in 1 .. k : t[i] = p[i]  OBVIOUS
    <3>2. /\ u(k + 1) \in Seq(Bytes) /\ Len(u(k + 1)) = k + 1
          /\ \A i \in 1 .. k + 1 : u(k + 1)[i] = p[i]
      OBVIOUS
    <3> HIDE DEF u, t
    <3>3. /\ Append(t, b) \in Seq(Bytes) /\ Len(Append(t, b)) = k + 1
          /\ \A i \in 1 .. k + 1 : Append(t, b)[i] = p[i]
      BY <2>1, <3>1
    <3>4. u(k + 1) = Append(t, b)
      <4> DEFINE x == u(k + 1)  y == Append(t, b)
      <4>1. x \in Seq(Bytes) /\ y \in Seq(Bytes) /\ Len(x) = Len(y) /\ Len(x) = k + 1
            /\ \A i \in 1 .. k + 1 : x[i] = y[i]
        BY <3>2, <3>3
      <4> HIDE DEF x, y
      <4>2. x = y  BY <4>1, SeqEqual
      <4> QED  BY <4>2 DEF x, y
    <3> QED  BY <3>1, <3>4
  <2> HIDE DEF b, t, g, u, P
  <2>5. /\ WriteByte(g, cap, b) \in Rings(cap, Bytes)
        /\ String(WriteByte(g, cap, b), cap) = Latest(Append(String(g, cap), b), cap)
    BY <2>1, <2>3, WriteKeepsLatest
  <2>6. s \o t \in Seq(Bytes) /\ s \o Append(t, b) = Append(s \o t, b)  BY <1>1, <2>1, <2>4
  <2> DEFINE z == s \o t
  <2>7. Latest(Append(Latest(z, cap), b), cap) = Latest(Append(z, b), cap)
    <3>1. z \in Seq(Bytes)  BY <2>6
    <3> HIDE DEF z
    <3> QED  BY <2>1, <3>1, LatestAppend
  <2> QED  BY <2>2, <2>3, <2>4, <2>5, <2>6, <2>7
<1> HIDE DEF P
<1>5. Nat \subseteq P  BY <1>3, <1>4, Induction
<1>6. Len(p) \in P /\ Len(p) <= Len(p) /\ u(Len(p)) = p  BY <1>5
<1>7. f[Len(p)] \in Rings(cap, Bytes) /\ String(f[Len(p)], cap) = Latest(s \o u(Len(p)), cap)
  BY <1>6 DEF P
<1> HIDE DEF u
<1> QED  BY <1>2, <1>6, <1>7 DEF s

\* The bytes of two writes, one behind the other.
THEOREM AlwaysKeepsLatest ==
  ASSUME NEW cap \in Nat \ {0}, NEW Bytes, NEW zero \in Bytes, NEW n \in Nat
  PROVE  KeepsLatest(cap, Bytes, zero, n)
<1> SUFFICES ASSUME NEW len \in 0 .. n, NEW p \in [1 .. len -> Bytes], NEW k \in 0 .. len
             PROVE  LET first  == Write(newRingBuffer(cap, zero), cap, SubSeq(p, 1, k))
                        second == Write(first, cap, SubSeq(p, k + 1, len))
                    IN /\ String(first, cap) = Latest(SubSeq(p, 1, k), cap)
                       /\ String(second, cap) = Latest(p, cap)
  BY DEF KeepsLatest
<1> DEFINE new == newRingBuffer(cap, zero)
           a == SubSeq(p, 1, k)
           b == SubSeq(p, k + 1, len)
           first == Write(new, cap, a)
           second == Write(first, cap, b)
<1>1. new \in Rings(cap, Bytes) /\ String(new, cap) = <<>>  BY NewIsEmpty
<1>2. p \in Seq(Bytes) /\ Len(p) = len  OBVIOUS
<1>3. a \in Seq(Bytes) /\ b \in Seq(Bytes) /\ Len(a) = k /\ a \o b = p
  <2>1. a \in Seq(Bytes) /\ b \in Seq(Bytes) /\ Len(a) = k  OBVIOUS
  <2>2. a \o b = SubSeq(p, 1, len)  BY <1>2, ConcatAdjacentSubSeq
  <2>3. SubSeq(p, 1, len) = p  BY <1>2, SubSeqFull
  <2> QED  BY <2>1, <2>2, <2>3
<1> HIDE DEF new, a, b
<1>4. first \in Rings(cap, Bytes) /\ String(first, cap) = Latest(<<>> \o a, cap)
  BY <1>1, <1>3, WholeWriteKeepsLatest
<1>5. <<>> \o a = a  BY <1>3
<1> HIDE DEF first
<1>6. String(second, cap) = Latest(Latest(a, cap) \o b, cap)
  BY <1>3, <1>4, <1>5, WholeWriteKeepsLatest
<1>7. Latest(Latest(a, cap) \o b, cap) = Latest(a \o b, cap)
  <2>1. \A x, y \in Seq(Bytes) : Latest(Latest(x, cap) \o y, cap) = Latest(x \o y, cap)
    BY LatestConcat
  <2> QED  BY <1>3, <2>1, Zenon
<1> HIDE DEF second
<1> QED  BY <1>3, <1>4, <1>5, <1>6, <1>7 DEF new, a, b, first, second
=============================================================================
