------------------------------- MODULE SincStream -------------------------------
(***************************************************************************)
(* `SincStream`: fixed-ratio sinc interpolation that is driven by its       *)
(* output.  Per output frame a virtual block clock names windows of a       *)
(* fixed, doubly written ring of input; input is prefetched only into the   *)
(* part of the ring that the pending output does not need, and a budget,    *)
(* the rounded duration of the accepted input, bounds what is emitted.      *)
(*                                                                         *)
(* The clock is exact: an index counts in units of one input frame over     *)
(* `to`.  Input frames are numbered from 1, silence is 0.                    *)
(***************************************************************************)
EXTENDS Integers, Sequences, FiniteSets

CONSTANTS
  SincConfigs, \* [from, to, length, phases, points]
  SincBlock,   \* BLOCK
  SincInputs, SincRooms, \* sizes of the input and of the output of a call
  MaxAccepted  \* bound: input frames since a reset

VARIABLES
  sinc,      \* the stream
  sincCall,  \* the call under way
  shown      \* the last frame emitted: its number, rows and windows

sincVars == <<sinc, sincCall, shown>>

\* `next_power_of_two`, of a number from 10 to 1024.
PowerAtLeast(n) == CHOOSE p \in {16, 32, 64, 128, 256, 512, 1024} : p >= n /\ p < 2 * n
Capacity(config) == PowerAtLeast(2 * config.length + 8)

ASSUME SincAssumption ==
  /\ SincBlock \in Nat
  /\ \A c \in SincConfigs :
       /\ {c.from, c.to, c.length, c.phases} \subseteq Nat \ {0} /\ c.points \in {2, 4}
       /\ c.from # c.to /\ SincBlock > 2 * c.length
       \* The longest filter has 256 taps; the number of phases is a power of two from 128.
       /\ c.length <= 256 /\ c.phases >= 2
  /\ SincInputs \cup SincRooms \subseteq Nat

NonNegative(n) == IF n < 0 THEN 0 ELSE n
SmallerOf(a, b) == IF a <= b THEN a ELSE b

\* `Config::output_frames`: the duration of n input frames, rounded half up.
SincOutputFrames(config, n) == (2 * n * config.to + config.from) \div (2 * config.from)

-----------------------------------------------------------------------------
(* The block clock.                                                        *)

\* `count`: output frames in a virtual block from an index on.
CountFrom(config, index) ==
  NonNegative(((SincBlock - (config.length + 1)) * config.to - index) \div config.from)

\* Output frames that the constructor skips to remove the delay.
Skip(config) == (config.length * config.to) \div (2 * config.from)
ClockStart(config) == -((config.length - 1) * config.to)

InitialClock(config) ==
  [index |-> ClockStart(config) + Skip(config) * config.from, base |-> 0,
   remaining |-> CountFrom(config, ClockStart(config)) - Skip(config)]

\* The virtual blocks to the next one that holds an output frame.
BlocksAhead(config, index) ==
  CHOOSE n \in 1..config.from :
    /\ CountFrom(config, index - n * SincBlock * config.to) > 0
    /\ \A m \in 1..n - 1 : CountFrom(config, index - m * SincBlock * config.to) = 0

\* `prepare`
PreparedClock(config, clock) ==
  IF clock.remaining # 0 THEN clock
  ELSE LET blocks == BlocksAhead(config, clock.index)
           index == clock.index - blocks * SincBlock * config.to
       IN [index |-> index, base |-> clock.base + blocks * SincBlock,
           remaining |-> CountFrom(config, index)]

\* `position`, after `prepare`: per interpolation point a row and the start of its window.
PointsOf(config, clock) ==
  LET next == clock.index + config.from
      origin == clock.base + 2 * config.length + (next \div config.to)
      cell == ((next % config.to) * config.phases) \div config.to
      first == IF config.points = 4 THEN cell - 1 ELSE cell
      Shift(row) == IF row < 0 THEN -1 ELSE IF row >= config.phases THEN 1 ELSE 0
  IN [j \in 1..config.points |->
        LET row == first + j - 1
        IN [start |-> origin + Shift(row),
            row |-> (row + config.phases) % config.phases]]

EndOf(config, points) == points[config.points].start + config.length

-----------------------------------------------------------------------------
(* The stream.                                                             *)

NewSinc(config) ==
  [config |-> config, history |-> [i \in 0..2 * Capacity(config) - 1 |-> 0],
   written |-> 2 * config.length, accepted |-> 0, emitted |-> 0,
   clock |-> InitialClock(config), ending |-> FALSE, failed |-> FALSE]

NoSincCall == [op |-> "none", left |-> 0, room |-> 0]
NothingShown == [number |-> -1, points |-> <<>>, windows |-> <<>>]

SincInit ==
  /\ \E config \in SincConfigs : sinc = NewSinc(config)
  /\ sincCall = NoSincCall /\ shown = NothingShown

Size == Capacity(sinc.config)
SincBudget == SincOutputFrames(sinc.config, sinc.accepted)
Clock == PreparedClock(sinc.config, sinc.clock)
Points == PointsOf(sinc.config, Clock)
End == EndOf(sinc.config, Points)

\* The ring with frames written from a position on, each of them twice; of more than fit
\* the last ones stay.
RingWith(from, frames) ==
  [i \in 0..2 * Size - 1 |->
     LET newest == Len(frames) - 1 - ((from + Len(frames) - 1 - i) % Size)
     IN IF newest >= 0 THEN frames[newest + 1] ELSE sinc.history[i]]

\* Mutant: the room is counted from the end of the pending windows.
BugFreeHistory == NonNegative(End + Size - sinc.written)

\* How much may be written before the oldest frame that is still needed is overwritten.
FreeHistory == NonNegative(Points[1].start + Size - sinc.written)

\* `process_inner`: what is prefetched for the pending frame.
Fetch ==
  /\ sincCall.op = "process" /\ sincCall.room > 0
  /\ End > sinc.written \/ sinc.emitted >= SincBudget
  /\ LET available == SmallerOf(FreeHistory, sincCall.left)
     IN IF sincCall.left > 0 /\ available = 0
        THEN /\ sinc' = [sinc EXCEPT !.failed = TRUE] /\ sincCall' = NoSincCall
        ELSE /\ available > 0
             /\ sinc' = [sinc EXCEPT
                  !.history = RingWith(sinc.written, [i \in 1..available |-> sinc.accepted + i]),
                  !.written = @ + available, !.accepted = @ + available, !.clock = Clock]
             /\ sincCall' = [sincCall EXCEPT !.left = @ - available]
  /\ UNCHANGED shown

\* `emit`, from a ring and its end.
Emitted(history, written) ==
  IF End > written \/ Points[1].start < NonNegative(written - Size)
  THEN /\ sinc' = [sinc EXCEPT !.failed = TRUE] /\ sincCall' = NoSincCall /\ UNCHANGED shown
  ELSE /\ sinc' = [sinc EXCEPT
            !.history = history, !.written = written, !.emitted = @ + 1,
            !.clock = [Clock EXCEPT !.index = @ + sinc.config.from, !.remaining = @ - 1]]
       /\ shown' = [number |-> sinc.emitted, points |-> [j \in DOMAIN Points |-> Points[j].row],
                    windows |-> [j \in DOMAIN Points |->
                      [i \in 1..sinc.config.length |-> history[(Points[j].start % Size) + i - 1]]]]
       /\ sincCall' = [sincCall EXCEPT !.room = @ - 1]

EmitFrame ==
  /\ sincCall.op = "process" /\ sincCall.room > 0
  /\ End <= sinc.written /\ sinc.emitted < SincBudget
  /\ Emitted(sinc.history, sinc.written)

\* `pad_to` and the frame it makes possible: a gap longer than the ring clears it.
DrainFrame ==
  /\ sincCall.op = "finish" /\ sincCall.room > 0 /\ sinc.emitted < SincBudget
  /\ LET gap == NonNegative(End - sinc.written)
         padded == IF gap >= Size THEN [i \in 0..2 * Size - 1 |-> 0]
                   ELSE RingWith(sinc.written, [i \in 1..gap |-> 0])
     IN Emitted(padded, sinc.written + gap)

BeginProcess ==
  /\ sincCall.op = "none" /\ ~sinc.ending /\ ~sinc.failed
  /\ \E n \in SincInputs, room \in SincRooms :
       /\ sinc.accepted + n <= MaxAccepted
       /\ sincCall' = [op |-> "process", left |-> n, room |-> room]
  /\ UNCHANGED <<sinc, shown>>

BeginFinish ==
  /\ sincCall.op = "none" /\ ~sinc.failed
  /\ \E room \in SincRooms : sincCall' = [op |-> "finish", left |-> 0, room |-> room]
  /\ sinc' = [sinc EXCEPT !.ending = TRUE] /\ UNCHANGED shown

\* A call returns when its output is full, its input is used up and too little, or all
\* that was due is out.
Returns ==
  /\ sincCall.op # "none"
  /\ \/ sincCall.room = 0
     \/ sincCall.op = "process" /\ sincCall.left = 0 /\ (End > sinc.written \/ sinc.emitted >= SincBudget)
     \/ sincCall.op = "finish" /\ sinc.emitted >= SincBudget
  /\ sincCall' = [sincCall EXCEPT !.op = "none"]
  /\ UNCHANGED <<sinc, shown>>

ResetSinc ==
  /\ sincCall.op = "none"
  /\ sinc' = NewSinc(sinc.config) /\ sincCall' = NoSincCall /\ shown' = NothingShown

SincNext == BeginProcess \/ Fetch \/ EmitFrame \/ BeginFinish \/ DrainFrame \/ Returns \/ ResetSinc

-----------------------------------------------------------------------------
(* Properties.                                                             *)

\* Output frame n lies (Skip + n + 1) output periods after the start of the clock; its
\* points are the rows around that place and the windows of input that belong to them.
Place(n) == sinc.config.to * 2 * sinc.config.length + ClockStart(sinc.config)
            + (Skip(sinc.config) + n + 1) * sinc.config.from
FrameAt(position) ==
  LET n == position - 2 * sinc.config.length + 1 IN IF n \in 1..sinc.accepted THEN n ELSE 0

\* However calls cut the stream, every frame is interpolated from the rows and windows of
\* its place, with silence before the first and after the last input frame; a prefetch never
\* overwrites what the pending frame needs, so that no call fails; what was emitted
\* stays within the rounded duration of the input and reaches it when a drain comes back short.
SincIsExact ==
  /\ ~sinc.failed
  /\ sinc.emitted <= SincBudget
  /\ sinc.ending /\ sincCall.op = "none" /\ sincCall.room > 0 => sinc.emitted = SincBudget
  /\ shown.number >= 0 =>
       LET config == sinc.config
           cell == (Place(shown.number) * config.phases) \div config.to
           first == IF config.points = 4 THEN cell - 1 ELSE cell
       IN \A j \in 1..config.points :
            /\ shown.points[j] = (first + j - 1) % config.phases
            /\ \A i \in 1..config.length :
                 shown.windows[j][i] = FrameAt(((first + j - 1) \div config.phases) + i - 1)
=============================================================================
