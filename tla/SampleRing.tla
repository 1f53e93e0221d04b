----------------------------- MODULE SampleRing -----------------------------
(***************************************************************************)
(* The circular sample buffers of libvoice_engine.c: g_capture_ring and    *)
(* the buffer of every PeerStream.  A block of samples is a number.  The   *)
(* writer does not look at the reader: a lap is lost, and leaves the ring  *)
(* looking empty.                                                          *)
(***************************************************************************)
EXTENDS Integers, Sequences

CONSTANT RingSize  \* RING_BUFFER_SIZE, in blocks

ASSUME RingSizeAssumption == RingSize \in Nat \ {0}

Index == 0 .. RingSize - 1

Ring == [buffer : [Index -> Nat], read : Index, write : Index]

\* The indices are zero.  The code leaves old samples in the buffer, which cannot
\* be read before they are overwritten: a 0 stands for them.
EmptyRing == [buffer |-> [i \in Index |-> 0], read |-> 0, write |-> 0]

\* n blocks numbered from id on are written.
Written(ring, id, n) ==
    [buffer |-> [i \in Index |->
                    IF (i - ring.write) % RingSize < n
                    THEN id + ((i - ring.write) % RingSize)
                    ELSE ring.buffer[i]],
     read |-> ring.read,
     write |-> (ring.write + n) % RingSize]

Available(ring) ==
    IF ring.write >= ring.read
    THEN ring.write - ring.read
    ELSE RingSize - ring.read + ring.write

\* The unread block number i, from 0 on.
Unread(ring, i) == ring.buffer[(ring.read + i) % RingSize]

\* n blocks have been read.
Consumed(ring, n) ==
    [buffer |-> ring.buffer, read |-> (ring.read + n) % RingSize, write |-> ring.write]

\* A mistake: the mixer reads on past write_idx.
DrainedBlindly(ring, n) == Consumed(ring, n)

\* The mixer reads sample by sample until read_idx meets write_idx.
Drained(ring, n) == Consumed(ring, IF n < Available(ring) THEN n ELSE Available(ring))
=============================================================================
