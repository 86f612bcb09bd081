------------------------- MODULE RemoteInputBuffer -------------------------
(***************************************************************************)
(* The ABI-10 phone-microphone ring: a single producer (the managed pump), *)
(* a single consumer (the WASAPI render thread) and control-plane resets.  *)
(* Every access to the two shared sequences and to a slot is a step of its *)
(* own, so the operations interleave as the threads do.                    *)
(*                                                                         *)
(* A sample is abstracted to the number of the frame it belongs to.  The   *)
(* four telemetry counters, which no decision reads, are left out, and so  *)
(* is the clamping of a sample.  The names that every module has bear the  *)
(* buffer's, as PhoneMicAudioProofs is about the route to it as well.      *)
(***************************************************************************)
EXTENDS Integers

CONSTANTS
    Capacity,   \* capacity_frames_
    Batches,    \* the frame counts Write and Read are called with
    Resetters,  \* the threads that may call Reset
    Horizon     \* bound on the number of frames ever pushed

\* The constructor raises the capacity to at least 2; a call with a frame
\* count of 0 returns at once.
ASSUME BufferAssumption ==
    /\ Capacity \in Nat /\ Capacity >= 2
    /\ Batches \subseteq Nat \ {0}
    /\ Horizon \in Nat

VARIABLES
    readSeq,    \* read_sequence_
    writeSeq,   \* write_sequence_
    slot,       \* samples_: the number of the frame each slot holds
    wPc,        \* where Write is: "idle" or "copying"
    wAccepted,  \* its accepted
    wDone,      \* its frame: slots already written
    rPc,        \* where Read is: "idle", "loaded", "copying"
    rBase,      \* the read sequence Read loaded
    rCount,     \* its copied
    rDone,      \* its frame: slots already copied out
    rOut,       \* monoSamples: what the frames copied so far hold
    xPc,        \* where each Reset is: "idle" or "loaded"
    xWrite,     \* the write sequence each Reset loaded
    beside,     \* history: what was under way at some time during each Reset
    heard       \* history: the frames the latest finished Read returned

writerVars == <<wPc, wAccepted, wDone>>
readerVars == <<rPc, rBase, rCount, rDone, rOut>>
resetVars  == <<xPc, xWrite, beside>>
resets     == <<xPc, xWrite>>
bufferVars == <<readSeq, writeSeq, slot, writerVars, readerVars, resetVars, heard>>

-----------------------------------------------------------------------------

NoFrame == -1       \* the silence every slot starts with
Garbage == -2       \* what a racing read of a slot may yield

Slots == 0..(Capacity - 1)
SlotOf(sequence) == sequence % Capacity
SmallerOf(a, b) == IF a <= b THEN a ELSE b

Frames(first, n) == [i \in 1..n |-> first + i - 1]
Silence == Frames(0, 0)

\* Mutant: one frame too many.
FreeFramesOffByOne == LET fill == writeSeq - readSeq
                      IN  IF fill > Capacity THEN 0 ELSE Capacity + 1 - fill

\* Mutant: a full ring is taken for an empty one.
FreeFramesModulo == Capacity - ((writeSeq - readSeq) % Capacity)

FreeFrames == LET fill == writeSeq - readSeq
              IN  IF fill >= Capacity THEN 0 ELSE Capacity - fill

FillFrames == SmallerOf(writeSeq - readSeq, Capacity)

Resetting == {x \in Resetters : xPc[x] = "loaded"}

\* The discipline of the callers, on which the promise of the header comment
\* rests: a Reset that has a Write beside it, at any time, has nothing else
\* beside it, neither a Read nor another Reset.
WriteMayStart == \A x \in Resetting : beside[x] \subseteq {"write"}
ReadMayStart  == \A x \in Resetting : "write" \notin beside[x]
ResetMayStart == /\ \A x \in Resetting : "write" \notin beside[x]
                 /\ wPc = "idle" \/ (rPc = "idle" /\ Resetting = {})

\* An operation joins every Reset under way.
Joins(operation) ==
    beside' = [x \in Resetters |-> IF x \in Resetting THEN beside[x] \cup {operation}
                                                      ELSE beside[x]]

BufferInit ==
    /\ readSeq = 0 /\ writeSeq = 0
    /\ slot = [i \in Slots |-> NoFrame]
    /\ wPc = "idle" /\ wAccepted = 0 /\ wDone = 0
    /\ rPc = "idle" /\ rBase = 0 /\ rCount = 0 /\ rDone = 0 /\ rOut = Silence
    /\ xPc = [x \in Resetters |-> "idle"]
    /\ xWrite = [x \in Resetters |-> 0]
    /\ beside = [x \in Resetters |-> {}]
    /\ heard = Silence

-----------------------------------------------------------------------------
(* Write.  Only the producer changes write_sequence_, so its own load of it *)
(* is the value throughout; a Write that accepts nothing changes nothing.   *)

BeginWrite(n) ==
    /\ wPc = "idle" /\ WriteMayStart
    /\ FreeFrames > 0
    /\ writeSeq + SmallerOf(n, FreeFrames) <= Horizon
    /\ wAccepted' = SmallerOf(n, FreeFrames)
    /\ wDone' = 0
    /\ wPc' = "copying" /\ Joins("write")
    /\ UNCHANGED <<readSeq, writeSeq, slot, readerVars, resets, heard>>

WriteFrame ==
    /\ wPc = "copying" /\ wDone < wAccepted
    /\ slot' = [slot EXCEPT ![SlotOf(writeSeq + wDone)] = writeSeq + wDone]
    /\ wDone' = wDone + 1
    /\ UNCHANGED <<readSeq, writeSeq, wPc, wAccepted, readerVars, resetVars, heard>>

\* Mutant: the sequence is published before the samples are stored.
PublishWriteEarly ==
    /\ wPc = "copying"
    /\ writeSeq' = writeSeq + wAccepted
    /\ wPc' = "idle" /\ wAccepted' = 0 /\ wDone' = 0
    /\ UNCHANGED <<readSeq, slot, readerVars, resetVars, heard>>

PublishWrite ==
    /\ wPc = "copying" /\ wDone = wAccepted
    /\ writeSeq' = writeSeq + wAccepted
    /\ wPc' = "idle" /\ wAccepted' = 0 /\ wDone' = 0
    /\ UNCHANGED <<readSeq, slot, readerVars, resetVars, heard>>

-----------------------------------------------------------------------------
(* Read: two loads, a copy, a compare-and-exchange. *)

BeginRead ==
    /\ rPc = "idle" /\ ReadMayStart
    /\ rPc' = "loaded" /\ rBase' = readSeq /\ Joins("read")
    /\ UNCHANGED <<readSeq, writeSeq, slot, writerVars, rCount, rDone, rOut, resets, heard>>

ReadNothing ==
    /\ rPc = "loaded" /\ writeSeq = rBase
    /\ rPc' = "idle" /\ rBase' = 0
    /\ heard' = Silence
    /\ UNCHANGED <<readSeq, writeSeq, slot, writerVars, rCount, rDone, rOut, resetVars>>

LoadWrite(n) ==
    /\ rPc = "loaded" /\ writeSeq # rBase
    /\ rPc' = "copying"
    /\ rCount' = SmallerOf(n, writeSeq - rBase)
    /\ UNCHANGED <<readSeq, writeSeq, slot, writerVars, rBase, rDone, rOut, resetVars, heard>>

\* A sample read while the producer is storing to the same slot is a data
\* race: the build may yield the old value, the new one or neither.
Observed(i) ==
    IF wPc = "copying" /\ wDone < wAccepted /\ SlotOf(writeSeq + wDone) = i
    THEN {slot[i], writeSeq + wDone, Garbage}
    ELSE {slot[i]}

ReadFrame(value) ==
    /\ rPc = "copying" /\ rDone < rCount
    /\ value \in Observed(SlotOf(rBase + rDone))
    /\ rOut' = [i \in 1..(rDone + 1) |-> IF i <= rDone THEN rOut[i] ELSE value]
    /\ rDone' = rDone + 1
    /\ UNCHANGED <<readSeq, writeSeq, slot, writerVars, rPc, rBase, rCount, resetVars, heard>>

EndRead == /\ rPc' = "idle" /\ rBase' = 0
           /\ rCount' = 0 /\ rDone' = 0 /\ rOut' = Silence

\* Mutant: a plain store instead of the compare-and-exchange.
CommitReadUnconditionally ==
    /\ rPc = "copying" /\ rDone = rCount
    /\ readSeq' = rBase + rCount
    /\ heard' = rOut
    /\ EndRead
    /\ UNCHANGED <<writeSeq, slot, writerVars, resetVars>>

CommitRead ==
    /\ rPc = "copying" /\ rDone = rCount
    /\ readSeq = rBase
    /\ readSeq' = rBase + rCount
    /\ heard' = rOut
    /\ EndRead
    /\ UNCHANGED <<writeSeq, slot, writerVars, resetVars>>

\* Mutant: the samples of the discarded generation reach the caller.
AbandonReadExposing ==
    /\ rPc = "copying" /\ rDone = rCount
    /\ readSeq # rBase
    /\ heard' = rOut
    /\ EndRead
    /\ UNCHANGED <<readSeq, writeSeq, slot, writerVars, resetVars>>

AbandonRead ==
    /\ rPc = "copying" /\ rDone = rCount
    /\ readSeq # rBase
    /\ heard' = Silence
    /\ EndRead
    /\ UNCHANGED <<readSeq, writeSeq, slot, writerVars, resetVars>>

-----------------------------------------------------------------------------
(* Reset: a load of the one sequence, a store to the other. *)

UnderWay == {operation \in {"write", "read", "reset"} :
                \/ operation = "write" /\ wPc # "idle"
                \/ operation = "read" /\ rPc # "idle"
                \/ operation = "reset" /\ Resetting # {}}

BeginReset(x) ==
    /\ xPc[x] = "idle" /\ ResetMayStart
    /\ xPc' = [xPc EXCEPT ![x] = "loaded"]
    /\ xWrite' = [xWrite EXCEPT ![x] = writeSeq]
    /\ beside' = [y \in Resetters |->
                     IF y = x THEN UnderWay
                     ELSE IF y \in Resetting THEN beside[y] \cup {"reset"} ELSE beside[y]]
    /\ UNCHANGED <<readSeq, writeSeq, slot, writerVars, readerVars, heard>>

StoreReset(x) ==
    /\ xPc[x] = "loaded"
    /\ readSeq' = xWrite[x]
    /\ xPc' = [xPc EXCEPT ![x] = "idle"]
    /\ xWrite' = [xWrite EXCEPT ![x] = 0]
    /\ beside' = [beside EXCEPT ![x] = {}]
    /\ UNCHANGED <<writeSeq, slot, writerVars, readerVars, heard>>

-----------------------------------------------------------------------------

Write == (\E n \in Batches : BeginWrite(n)) \/ WriteFrame \/ PublishWrite

ReadValues == {NoFrame, Garbage} \cup (0..Horizon)

Read == \/ BeginRead
        \/ ReadNothing
        \/ \E n \in Batches : LoadWrite(n)
        \/ \E value \in ReadValues : ReadFrame(value)
        \/ CommitRead
        \/ AbandonRead

Reset == \E x \in Resetters : BeginReset(x) \/ StoreReset(x)

BufferNext == Write \/ Read \/ Reset

BufferSpec == BufferInit /\ [][BufferNext]_bufferVars
-----------------------------------------------------------------------------
(* Properties. *)

\* Each variable ranges over what its C++ counterpart can hold.
BufferTypeOK ==
    /\ readSeq \in 0..Horizon /\ writeSeq \in 0..Horizon
    /\ slot \in [Slots -> {NoFrame} \cup (0..Horizon)]
    /\ wPc \in {"idle", "copying"} /\ wAccepted \in Nat /\ wDone \in 0..wAccepted
    /\ rPc \in {"idle", "loaded", "copying"}
    /\ rBase \in 0..Horizon /\ rCount \in Nat /\ rDone \in 0..rCount
    /\ rOut \in [1..rDone -> ReadValues]
    /\ xPc \in [Resetters -> {"idle", "loaded"}]
    /\ xWrite \in [Resetters -> 0..Horizon]
    /\ beside \in [Resetters -> SUBSET {"write", "read", "reset"}]

\* The frames in the ring and the ones the current Write has accepted never
\* exceed the capacity, and the consumer never passes the producer, so the
\* unsigned difference write - read cannot wrap, in whatever order Write,
\* Read and Reset interleave.
NeverOverfull ==
    /\ readSeq <= writeSeq
    /\ writeSeq + wAccepted <= readSeq + Capacity

\* As long as the compare-and-exchange of a Read would still succeed, what it
\* has copied out is exactly the frames it is about to take: none overwritten
\* by a Write of the same slots, none stale, none torn.
ReadHoldsItsFrames ==
    (rPc = "copying" /\ readSeq = rBase) => rOut = Frames(rBase, rDone)

\* remote_input_buffer.h: an overlapping Reset can never move the consumer
\* sequence backwards (and so never resurrects audio it discarded).
ReadNeverMovesBackwards == [][readSeq' >= readSeq]_readSeq

\* Pushes, reads and resets are, to their callers, the steps of a bounded
\* FIFO of frames that may drop a prefix and may answer with silence.
Channel == INSTANCE FrameChannel WITH head <- readSeq, tail <- writeSeq
ImplementsChannel == Channel!ChannelSpec

-----------------------------------------------------------------------------
(* The inductive invariant behind these properties. *)

\* A Reset that has loaded the write sequence finds, until it stores it, the
\* read sequence no further than that; nothing but what is beside it is under
\* way.
PendingResetIsAhead ==
    \A x \in Resetters : xPc[x] = "loaded" =>
        /\ readSeq <= xWrite[x] /\ xWrite[x] <= writeSeq
        /\ "write" \in beside[x] => beside[x] = {"write"}
        /\ "write" \notin beside[x] => wPc = "idle" /\ xWrite[x] = writeSeq
        /\ "read" \notin beside[x] => rPc = "idle"
        /\ "reset" \notin beside[x] => \A y \in Resetters \ {x} : xPc[y] = "idle"

\* Every frame still owed, and every one the current Write has stored, is in
\* its slot.
OwedFramesInPlace ==
    \A s \in readSeq..(writeSeq + wDone - 1) : slot[SlotOf(s)] = s

\* A Read under way started no later than the consumer is now and takes
\* frames that were published.
ReadIsBehind ==
    /\ rPc # "idle" => rBase <= readSeq
    /\ rPc = "copying" => rCount > 0 /\ rBase + rCount <= writeSeq
    /\ rPc # "copying" => rDone = 0

IdleWriteIsEmpty == wPc = "idle" => wAccepted = 0 /\ wDone = 0

BufferInv ==
    /\ BufferTypeOK
    /\ NeverOverfull
    /\ writeSeq + wAccepted <= Horizon
    /\ IdleWriteIsEmpty
    /\ PendingResetIsAhead
    /\ OwedFramesInPlace
    /\ ReadIsBehind
    /\ ReadHoldsItsFrames
=============================================================================
