------------------------------ MODULE RingBuffer ------------------------------
(***************************************************************************)
(* internal/claude/ringbuffer.go, which holds the end of what claude wrote *)
(* to stderr: an algorithm on values, whose mutex makes every Write and    *)
(* every String one step.                                                  *)
(***************************************************************************)
EXTENDS Integers, Sequences

\* What buffers of capacity cap there are.
Rings(cap, Bytes) == [buf : [0 .. cap - 1 -> Bytes], full : BOOLEAN, w : 0 .. cap - 1]

newRingBuffer(cap, zero) == [buf |-> [i \in 0 .. cap - 1 |-> zero], full |-> FALSE, w |-> 0]

\* One round of the loop in Write.
WriteByte(r, cap, b) ==
  LET wraps == r.w + 1 = cap
  IN [buf |-> [r.buf EXCEPT ![r.w] = b],
      full |-> r.full \/ wraps,
      w |-> IF wraps THEN 0 ELSE r.w + 1]

\* written[k]: the buffer after the first k bytes of p.
Write(r, cap, p) ==
  LET written[k \in 0 .. Len(p)] ==
        IF k = 0 THEN r ELSE WriteByte(written[k - 1], cap, p[k])
  IN written[Len(p)]

\* The bytes from w on, which are the oldest, and then those before w.
String(r, cap) ==
  IF r.full
    THEN [i \in 1 .. cap |-> r.buf[IF r.w + i <= cap THEN r.w + i - 1 ELSE r.w + i - cap - 1]]
    ELSE [i \in 1 .. r.w |-> r.buf[i - 1]]

-----------------------------------------------------------------------------
(* What it is for.                                                         *)

\* The last n elements of s, or all of s.
Latest(s, n) == IF Len(s) <= n THEN s ELSE [i \in 1 .. n |-> s[Len(s) - n + i]]

\* "most-recent bytes win on overflow" (spawn.go:140-141): however the bytes are
\* divided into writes, String is the last cap of them.
KeepsLatest(cap, Bytes, zero, n) ==
  \A len \in 0 .. n : \A p \in [1 .. len -> Bytes] : \A k \in 0 .. len :
    LET first  == Write(newRingBuffer(cap, zero), cap, SubSeq(p, 1, k))
        second == Write(first, cap, SubSeq(p, k + 1, len))
    IN String(first, cap) = Latest(SubSeq(p, 1, k), cap) /\ String(second, cap) = Latest(p, cap)
=============================================================================
