----------------------------- MODULE FrameWindow -----------------------------
(* What the ring buffer promises: a stream of frames 1, 2, 3, ... of which   *)
(* the reader gets a contiguous run from the oldest frame not yet delivered, *)
(* and of which at most Capacity frames are kept.                            *)
EXTENDS Naturals

CONSTANTS Capacity, Sizes

VARIABLES
  written,     \* frames appended so far
  oldest,      \* frames delivered or dropped so far
  delivered,   \* the frames of the last read
  reported     \* whether the last write dropped frames and said so

windowVars == <<written, oldest, delivered, reported>>

Larger(a, b) == IF a >= b THEN a ELSE b
Smaller(a, b) == IF a <= b THEN a ELSE b
Lacking(a, b) == IF a >= b THEN a - b ELSE 0

Init == written = 0 /\ oldest = 0 /\ delivered = << >> /\ reported = FALSE

\* Append k frames; what no longer fits is dropped from the old end, and only
\* then is a loss reported.
Write(k) ==
  /\ written' = written + k
  /\ oldest' = Larger(oldest, Lacking(written + k, Capacity))
  /\ reported' = (oldest' > oldest)
  /\ UNCHANGED delivered

Read(k) ==
  LET n == Smaller(k, written - oldest)
  IN /\ delivered' = [i \in 1 .. n |-> oldest + i]
     /\ oldest' = oldest + n
     /\ UNCHANGED <<written, reported>>

Next == \E k \in Sizes : Write(k) \/ Read(k)
Spec == Init /\ [][Next]_windowVars
=============================================================================
