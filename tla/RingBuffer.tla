------------------------------ MODULE RingBuffer ------------------------------
(***************************************************************************)
(* The ring buffer between a decoder and a consumer, with a client that     *)
(* keeps its own read position as `write` asks: it moves to the consumed    *)
(* position an overflow reports, and calls `advance_read_pos` with what it  *)
(* read.  A frame is its number in the stream; channels are left out.       *)
(***************************************************************************)
EXTENDS Naturals, Sequences

CONSTANTS
  Capacity,      \* frames of storage
  Sizes,         \* frames of one write or read
  MaxFrames,     \* bound on frames written
  LateAdvance    \* whether a write may come between a read and its advance

ASSUME RingAssumption ==
  Capacity \in Nat \ {0} /\ Sizes \subseteq Nat /\ MaxFrames \in Nat /\ LateAdvance \in BOOLEAN

VARIABLES
  data,                              \* slot -> frame, 0: never written
  framesWritten, framesConsumed, overflowCount,
  readPos, unadvanced,               \* client: position, frames read and not advanced
  output, reported                   \* last read, and whether the last write overflowed

ringVars == <<data, framesWritten, framesConsumed, overflowCount, readPos, unadvanced,
          output, reported>>

Slots == 0 .. Capacity - 1
Larger(a, b) == IF a >= b THEN a ELSE b
Smaller(a, b) == IF a <= b THEN a ELSE b
SaturatingSub(a, b) == IF a >= b THEN a - b ELSE 0

RingInit ==
  /\ data = [s \in Slots |-> 0]
  /\ framesWritten = 0 /\ framesConsumed = 0 /\ overflowCount = 0
  /\ readPos = 0 /\ unadvanced = 0
  /\ output = << >> /\ reported = FALSE

\* Mutant: frames are copied to the slot of the first frame, kept or not.
BugCopied(k) ==
  LET kept == Smaller(k, Capacity)
      first == framesWritten % Capacity
      place(s) == (s + Capacity - first) % Capacity
  IN [s \in Slots |-> IF place(s) < kept
                      THEN framesWritten + (k - kept) + place(s) + 1 ELSE data[s]]

\* The last frames of the block that fit, from the slot of the first of them.
Copied(k) ==
  LET kept == Smaller(k, Capacity)
      first == ((framesWritten % Capacity) + (k - kept)) % Capacity
      place(s) == (s + Capacity - first) % Capacity
  IN [s \in Slots |-> IF place(s) < kept
                      THEN framesWritten + (k - kept) + place(s) + 1 ELSE data[s]]

\* Frames a write of k frames drops.
Overflow(k) ==
  SaturatingSub(k, SaturatingSub(Capacity, SaturatingSub(framesWritten, framesConsumed)))

Write(k) ==
  /\ framesWritten + k <= MaxFrames
  /\ LateAdvance \/ unadvanced = 0
  /\ LET dropped == IF k = 0 THEN 0 ELSE Overflow(k)
         consumed == framesConsumed + dropped
     IN /\ framesConsumed' = consumed
        /\ overflowCount' = IF dropped > 0 THEN overflowCount + 1 ELSE overflowCount
        /\ reported' = (dropped > 0)
        /\ readPos' = IF dropped > 0 THEN Larger(readPos, consumed) ELSE readPos
  /\ data' = IF k = 0 THEN data ELSE Copied(k)
  /\ framesWritten' = framesWritten + k
  /\ UNCHANGED <<unadvanced, output>>

\* `read` at the client's position.
Read(k) ==
  /\ unadvanced = 0
  /\ LET n == Smaller(k, SaturatingSub(framesWritten, readPos))
     IN /\ output' = [i \in 1 .. n |-> data[(readPos + i - 1) % Capacity]]
        /\ readPos' = readPos + n /\ unadvanced' = n
  /\ UNCHANGED <<data, framesWritten, framesConsumed, overflowCount, reported>>

AdvanceReadPos ==
  /\ unadvanced > 0 /\ unadvanced' = 0
  /\ framesConsumed' = framesConsumed + unadvanced
  /\ UNCHANGED <<data, framesWritten, overflowCount, readPos, output, reported>>

RingNext == (\E k \in Sizes : Write(k) \/ Read(k)) \/ AdvanceReadPos
RingSpec == RingInit /\ [][RingNext]_ringVars

-----------------------------------------------------------------------------
(* Properties.                                                             *)

Promised == INSTANCE FrameWindow WITH
            written <- framesWritten, oldest <- readPos, delivered <- output

\* The buffer delivers the stream: every read returns the frames that follow
\* those already delivered or reported lost, in order, whatever wrapped, and a
\* write reports a loss exactly when it drops frames the client has not read
\* (ring_buffer.rs:20).
ImplementsWindow == Promised!Spec
=============================================================================
