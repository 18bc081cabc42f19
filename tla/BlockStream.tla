---------------------------- MODULE BlockStream ----------------------------
(***************************************************************************)
(* The owned resampler backend under `StreamingResampler`: blocks of input  *)
(* are collected for a fixed-block kernel, its output is trimmed by the     *)
(* delay of the filter, buffered for callers of any block size, limited to  *)
(* the duration the input so far authorises, and drained by finish to the   *)
(* exact duration of the programme.                                        *)
(*                                                                         *)
(* Input frames and the frames the kernel gives are their numbers; a round  *)
(* of the loops of `process` and `finish` is a step.                        *)
(***************************************************************************)
EXTENDS Integers, Sequences

CONSTANTS
  Kernels,     \* [from, to: the rates; block, most: frames the kernel is passed
               \* and at most gives; unit: frames it transforms at once, or 0 if it
               \* goes frame by frame; skip: the filter's delay; extension: frames
               \* finish adds]
  CallInputs,  \* frames offered by a call
  CallOutputs, \* frames of room of a call
  StallLimit,  \* rounds of finish without output, 64
  MaxInput     \* bound: input frames of a stream

\* [External] What a kernel has given after `n` blocks, and the most it gives at once.
GivenBy(k, n) ==
  IF k.unit = 0 THEN (n * k.block * k.to) \div k.from
  ELSE ((n * k.block) \div k.unit) * ((k.unit * k.to) \div k.from)
MostOf(k) ==
  IF k.unit = 0 THEN (k.block * k.to + k.from - 1) \div k.from
  ELSE ((k.block + k.unit - 1) \div k.unit) * ((k.unit * k.to) \div k.from)

\* A kernel's delay is over before the blocks of silence that `finish` waits for.
ASSUME BlockAssumption ==
  /\ \A k \in Kernels :
       /\ {k.block, k.from, k.to} \subseteq Nat \ {0}
       /\ {k.most, k.unit, k.skip, k.extension} \subseteq Nat
       /\ (k.unit * k.to) % k.from = 0
       /\ MostOf(k) <= k.most /\ k.skip < GivenBy(k, StallLimit)
  /\ CallInputs \subseteq Nat /\ CallOutputs \subseteq Nat
  /\ StallLimit \in Nat /\ MaxInput \in Nat

VARIABLES
  kernel,  \* the kernel of this stream
  block,   \* the buffers, the counters and the lifecycle, see FreshBlock
  call,    \* the call under way: what is left of its input and its room
  \* history: the blocks the kernel was passed; whether it saw the input in order,
  \* silence only after it, and its output came out in order
  runs, inOrder

blockVars == <<kernel, block, call, runs, inOrder>>

Fewer(a, b) == IF a <= b THEN a ELSE b
Silence == -1

\* `output_frames`: the duration of `n` input frames, to the nearest frame.
OutputFrames(n) == (n * kernel.to * 2 + kernel.from) \div (kernel.from * 2)

Given(n) == GivenBy(kernel, n)

FreshBlock(k) ==
  [input |-> <<>>, pending |-> <<>>, skip |-> k.skip, total |-> 0, emitted |-> 0,
   ending |-> FALSE, finishing |-> FALSE, finished |-> FALSE]
NoCall == [kind |-> "none", input |-> 0, room |-> 0, left |-> 0, stalled |-> 0, result |-> "none"]

BlockInit ==
  /\ kernel \in Kernels /\ block = FreshBlock(kernel) /\ call = NoCall
  /\ runs = 0 /\ inOrder = TRUE

\* `budget` less what was emitted, saturating.
Budget == OutputFrames(block.total) + (IF block.ending THEN kernel.extension ELSE 0)
Left == IF Budget > block.emitted THEN Budget - block.emitted ELSE 0

Return(result) == call' = [NoCall EXCEPT !.result = result]

\* `process`, refused once finish has begun; without input or room it returns.
CallProcess(input, room) ==
  /\ call.kind = "none" /\ block.total + input <= MaxInput
  /\ IF block.finishing THEN Return("refused")
     ELSE IF input = 0 THEN Return("need_input")
     ELSE IF room = 0 THEN Return("need_output")
     ELSE call' = [NoCall EXCEPT !.kind = "process", !.input = input,
                                 !.room = room, !.left = room]
  /\ UNCHANGED <<kernel, block, runs, inOrder>>

\* `finish`; the backend hears of it with the first room only.
CallFinish(room) ==
  /\ call.kind = "none"
  /\ IF block.finished THEN Return("finished") /\ UNCHANGED block
     ELSE /\ block' = [block EXCEPT !.finishing = TRUE, !.ending = @ \/ room > 0]
          /\ IF room = 0 THEN Return("need_output")
             ELSE call' = [NoCall EXCEPT !.kind = "finish", !.room = room, !.left = room]
  /\ UNCHANGED <<kernel, runs, inOrder>>

ResetBlock == FreshBlock(kernel)

StreamReset ==
  /\ call.kind = "none"
  /\ block' = ResetBlock /\ call' = NoCall /\ runs' = 0 /\ inOrder' = TRUE
  /\ UNCHANGED kernel

-----------------------------------------------------------------------------
(* The rounds.                                                             *)

Working == call.kind # "none" /\ call.left > 0
Busy == block.pending # <<>>
Flushable == Fewer(Fewer(Len(block.pending), call.left), Left)

\* The next frame out is the next one of the kernel after the filter's delay.
OutInOrder(frames) ==
  \A i \in DOMAIN frames : frames[i] = kernel.skip + block.emitted + i - 1

\* The kernel is fed the input in order, and silence only after all of it.
FedInOrder(frames, total) ==
  \A i \in DOMAIN frames :
    LET frame == runs * kernel.block + i - 1
    IN frames[i] = IF frame < total THEN frame ELSE Silence

\* `finish` counts the runs of the kernel in a row that had nothing to flush before.
Stalled == call.kind = "finish" /\ call.stalled > StallLimit

Flush ==
  /\ Working /\ Flushable > 0 /\ ~Stalled
  /\ block' = [block EXCEPT !.pending = SubSeq(@, Flushable + 1, Len(@)),
                            !.emitted = @ + Flushable]
  /\ call' = [call EXCEPT !.left = @ - Flushable, !.stalled = -1]
  /\ inOrder' = (inOrder /\ OutInOrder(SubSeq(block.pending, 1, Flushable)))
  /\ UNCHANGED <<kernel, runs>>

\* Mutant: whatever is still pending is overtaken.
BugDirect(b) == call.kind = "process" /\ call.left >= kernel.most

\* The output goes straight to the caller if nothing is to be dropped and both
\* the room and the budget take whatever comes.
Direct(b) ==
  /\ call.kind = "process" /\ b.skip = 0 /\ call.left >= kernel.most
  /\ OutputFrames(b.total) - b.emitted >= kernel.most

\* The kernel turns `frames` into its next output; `b` is the block meanwhile.
Run(frames, b, input) ==
  LET count == Given(runs + 1) - Given(runs)
      out == [i \in 1..count |-> Given(runs) + i - 1]
      drop == Fewer(b.skip, count)
  IN /\ runs' = runs + 1 /\ UNCHANGED kernel
     /\ IF Direct(b)
        THEN /\ block' = [b EXCEPT !.emitted = @ + count]
             /\ call' = [call EXCEPT !.input = input, !.left = @ - count]
             /\ inOrder' = (inOrder /\ FedInOrder(frames, b.total) /\ OutInOrder(out))
        ELSE /\ block' = [b EXCEPT !.skip = @ - drop, !.pending = SubSeq(out, drop + 1, count)]
             /\ call' = [call EXCEPT !.input = input, !.stalled = @ + 1]
             /\ inOrder' = (inOrder /\ FedInOrder(frames, b.total))

Processing == Working /\ call.kind = "process" /\ Flushable = 0
Full == Len(block.input) = kernel.block

Numbers(from, count) == [i \in 1..count |-> from + i - 1]

\* A collected block is due.
RunCollected ==
  /\ Processing /\ Full /\ ~Busy
  /\ Run(block.input, [block EXCEPT !.input = <<>>], call.input)

\* A whole block is offered at once.
RunOffered ==
  /\ Processing /\ ~Busy /\ block.input = <<>> /\ call.input >= kernel.block
  /\ Run(Numbers(block.total, kernel.block), [block EXCEPT !.total = @ + kernel.block],
         call.input - kernel.block)

\* `accept` as much as the collected block still takes.
Accepted == Fewer(kernel.block - Len(block.input), call.input)
Collected == [block EXCEPT !.input = @ \o Numbers(block.total, Accepted),
                           !.total = @ + Accepted]

Collect ==
  /\ Processing /\ call.input > 0 /\ ~(Full /\ ~Busy)
  /\ ~(~Busy /\ block.input = <<>> /\ call.input >= kernel.block)
  /\ IF Accepted = 0 THEN Return("error") /\ UNCHANGED block
     ELSE block' = Collected /\ call' = [call EXCEPT !.input = @ - Accepted]
  /\ UNCHANGED <<kernel, runs, inOrder>>

\* The call ends: the input is used up, or the room is and one block of lookahead
\* is still taken in.
ProcessReturns ==
  /\ call.kind = "process"
  /\ \/ /\ Processing /\ call.input = 0 /\ ~(Full /\ ~Busy)
        /\ Return("need_input") /\ UNCHANGED block
     \/ /\ call.left = 0 /\ block' = Collected
        /\ Return(IF call.input = Accepted THEN "need_input" ELSE "need_output")
  /\ UNCHANGED <<kernel, runs, inOrder>>

\* `finish` feeds silence behind what was collected, as long as frames are due.
RunSilence ==
  /\ Working /\ call.kind = "finish"
  /\ IF Stalled THEN Return("error") /\ UNCHANGED <<kernel, block, runs, inOrder>>
     ELSE /\ Left > 0 /\ Flushable = 0
          /\ Run(block.input \o [i \in 1..kernel.block - Len(block.input) |-> Silence],
                 [block EXCEPT !.input = <<>>], 0)

\* A full room says nothing of what is left; less than that is the end.
FinishReturns ==
  /\ call.kind = "finish" /\ (call.left = 0 \/ Left = 0)
  /\ IF call.left = 0 THEN Return("need_output") /\ UNCHANGED block
     ELSE Return("finished") /\ block' = [block EXCEPT !.finished = TRUE]
  /\ UNCHANGED <<kernel, runs, inOrder>>

BlockNext ==
  \/ \E input \in CallInputs, room \in CallOutputs : CallProcess(input, room)
  \/ \E room \in CallOutputs : CallFinish(room)
  \/ StreamReset \/ Flush \/ RunCollected \/ RunOffered \/ Collect \/ ProcessReturns
  \/ RunSilence \/ FinishReturns

BlockSpec == BlockInit /\ [][BlockNext]_blockVars

-----------------------------------------------------------------------------
(* Properties.                                                             *)

\* Whatever the sizes of the calls, the kernel sees the input once and in order,
\* its output after the filter's delay comes out once and in order, never more
\* than the input so far authorises, and a finished stream has the exact length.
ResamplerIsExact ==
  /\ inOrder /\ call.result # "error" /\ block.emitted <= Budget
  /\ block.finished => block.emitted = OutputFrames(block.total) + kernel.extension

=============================================================================
