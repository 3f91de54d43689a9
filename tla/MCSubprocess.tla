----------------------------- MODULE MCSubprocess -----------------------------
EXTENDS Subprocess, RingBuffer

\* The ring buffer of stderr, whatever is written to it in two pieces, up to
\* twice around and one byte more.
ASSUME RingBufferKeepsLatest ==
  \A cap \in 1 .. 3 : KeepsLatest(cap, {0, 1}, 0, 2 * cap + 1)
=============================================================================
