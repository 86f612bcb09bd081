------------------------- MODULE PhoneMicAudioProofs ------------------------
(***************************************************************************)
(* The way of the phone's sound, at its two ends.                          *)
(*                                                                         *)
(* The native ring, RemoteInputBuffer, is correct for every capacity, every*)
(* set of call sizes and every set of resetting threads that keep the      *)
(* discipline of WriteMayStart, ReadMayStart and ResetMayStart.            *)
(*                                                                         *)
(* PhoneMicRoute's inductive invariant, for every size of the buffers, and *)
(* the two properties it is for: a return to the Windows microphone wins   *)
(* over every concurrent switch, and a reset of the native ring by the     *)
(* bridge has both its writer and its reader beside it only if its check   *)
(* missed a worker on its way to the phone.                                *)
(***************************************************************************)
EXTENDS RemoteInputBuffer, PhoneMicRoute, TLAPS

-----------------------------------------------------------------------------
(* The ring. *)

\* Two different sequence numbers less than one lap apart live in different
\* slots.
LEMMA DistinctSlots ==
    ASSUME NEW n \in Nat \ {0}, NEW a \in Nat, NEW b \in Nat,
           a < b, b < a + n
    PROVE  a % n # b % n
<1>1. a = n * (a \div n) + (a % n) /\ b = n * (b \div n) + (b % n)
  OBVIOUS
<1>2. a \div n \in Int /\ b \div n \in Int /\ a % n \in 0..(n-1) /\ b % n \in 0..(n-1)
  OBVIOUS
<1> DEFINE d == (b \div n) - (a \div n)
<1>3. SUFFICES ASSUME a % n = b % n PROVE FALSE
  OBVIOUS
<1>4. d \in Int /\ b - a = n * d
  BY <1>1, <1>2, <1>3
<1>5. ~(d <= 0)
  BY <1>4
<1>6. ~(d >= 1)
  BY <1>4
<1> QED BY <1>4, <1>5, <1>6

\* The index arithmetic stays inside samples_.
LEMMA SlotOfType == \A s \in Nat : SlotOf(s) \in Slots
BY BufferAssumption DEF SlotOf, Slots

-----------------------------------------------------------------------------

LEMMA BufferInitInv == BufferInit => BufferInv
BY BufferAssumption
DEF BufferInit, BufferInv, BufferTypeOK, NeverOverfull, IdleWriteIsEmpty, PendingResetIsAhead,
    OwedFramesInPlace, ReadIsBehind, ReadHoldsItsFrames, Silence, Frames, ReadValues

LEMMA StutterInv == BufferInv /\ UNCHANGED bufferVars => BufferInv'
BY DEF BufferInv, BufferTypeOK, NeverOverfull, IdleWriteIsEmpty, PendingResetIsAhead,
       OwedFramesInPlace, ReadIsBehind, ReadHoldsItsFrames, bufferVars, writerVars,
       readerVars, resetVars, Frames, ReadValues, SlotOf, Slots

-----------------------------------------------------------------------------
(* The producer. *)

LEMMA BeginWriteInv ==
    ASSUME BufferInv, NEW n \in Batches, BeginWrite(n)
    PROVE  BufferInv'
<1> USE BufferAssumption DEF BufferInv, BeginWrite, writerVars, readerVars, resetVars, resets
<1>1. FreeFrames = Capacity - (writeSeq - readSeq)
  BY DEF FreeFrames, BufferTypeOK, NeverOverfull
<1>2. /\ SmallerOf(n, FreeFrames) \in Nat
      /\ writeSeq + SmallerOf(n, FreeFrames) <= readSeq + Capacity
  BY <1>1 DEF SmallerOf, BufferTypeOK, NeverOverfull
<1>3. BufferTypeOK'
  BY <1>2 DEF BufferTypeOK, ReadValues, Slots, Joins, Resetting
<1>4. NeverOverfull' /\ (writeSeq + wAccepted <= Horizon)' /\ IdleWriteIsEmpty'
  BY <1>2 DEF NeverOverfull, IdleWriteIsEmpty
<1>5. PendingResetIsAhead'
  BY DEF PendingResetIsAhead, WriteMayStart, Resetting, Joins, resets, BufferTypeOK
<1>6. OwedFramesInPlace'
  BY DEF OwedFramesInPlace, IdleWriteIsEmpty, SlotOf
<1>7. ReadIsBehind' /\ ReadHoldsItsFrames'
  BY DEF ReadIsBehind, ReadHoldsItsFrames, Frames
<1> QED BY <1>3, <1>4, <1>5, <1>6, <1>7

LEMMA WriteFrameInv ==
    ASSUME BufferInv, WriteFrame
    PROVE  BufferInv'
<1> USE BufferAssumption DEF BufferInv, WriteFrame, writerVars, readerVars, resetVars
<1> DEFINE next == writeSeq + wDone
<1>1. next \in 0..Horizon /\ next < readSeq + Capacity /\ SlotOf(next) \in Slots
  BY SlotOfType DEF BufferTypeOK, NeverOverfull
<1>2. BufferTypeOK'
  BY <1>1 DEF BufferTypeOK, ReadValues, Slots
<1>3. OwedFramesInPlace'
  <2>0. readSeq'..(writeSeq' + wDone' - 1) = readSeq..next
    BY DEF BufferTypeOK
  <2> SUFFICES ASSUME NEW s \in readSeq..next
               PROVE  slot'[SlotOf(s)] = s
    BY <2>0 DEF OwedFramesInPlace
  <2>1. s \in Nat /\ SlotOf(s) \in Slots
    BY SlotOfType DEF BufferTypeOK
  <2>2. CASE s = next
    BY <1>1, <2>2 DEF BufferTypeOK
  <2>3. CASE s # next
    <3>1. s < next /\ next < s + Capacity
      BY <1>1, <2>3 DEF BufferTypeOK
    <3>2. SlotOf(s) # SlotOf(next)
      BY <1>1, <2>1, <3>1, DistinctSlots DEF SlotOf
    <3>3. slot[SlotOf(s)] = s
      BY <3>1 DEF OwedFramesInPlace, BufferTypeOK
    <3> QED BY <2>1, <3>2, <3>3 DEF BufferTypeOK
  <2> QED BY <2>2, <2>3
<1>4. NeverOverfull' /\ (writeSeq + wAccepted <= Horizon)' /\ IdleWriteIsEmpty'
  BY DEF NeverOverfull, IdleWriteIsEmpty
<1>5. PendingResetIsAhead' /\ ReadIsBehind' /\ ReadHoldsItsFrames'
  BY DEF PendingResetIsAhead, ReadIsBehind, ReadHoldsItsFrames, Frames
<1> QED BY <1>2, <1>3, <1>4, <1>5

LEMMA PublishWriteInv ==
    ASSUME BufferInv, PublishWrite
    PROVE  BufferInv'
<1> USE BufferAssumption DEF BufferInv, PublishWrite, readerVars, resetVars
<1>1. BufferTypeOK'
  BY DEF BufferTypeOK, ReadValues, Slots
<1>2. NeverOverfull' /\ (writeSeq + wAccepted <= Horizon)' /\ IdleWriteIsEmpty'
  BY DEF NeverOverfull, IdleWriteIsEmpty, BufferTypeOK
<1>3. PendingResetIsAhead'
  BY DEF PendingResetIsAhead, BufferTypeOK
<1>4. OwedFramesInPlace'
  <2>1. readSeq'..(writeSeq' + wDone' - 1) = readSeq..(writeSeq + wDone - 1)
    BY DEF BufferTypeOK
  <2> QED BY <2>1 DEF OwedFramesInPlace, SlotOf
<1>5. ReadIsBehind' /\ ReadHoldsItsFrames'
  BY DEF ReadIsBehind, ReadHoldsItsFrames, Frames, BufferTypeOK
<1> QED BY <1>1, <1>2, <1>3, <1>4, <1>5

-----------------------------------------------------------------------------
(* The consumer. *)

LEMMA BeginReadInv ==
    ASSUME BufferInv, BeginRead
    PROVE  BufferInv'
<1> USE BufferAssumption DEF BufferInv, BeginRead, writerVars, resetVars, resets
<1>1. BufferTypeOK'
  BY DEF BufferTypeOK, ReadValues, Slots, Joins, Resetting
<1>2. NeverOverfull' /\ (writeSeq + wAccepted <= Horizon)' /\ IdleWriteIsEmpty'
  BY DEF NeverOverfull, IdleWriteIsEmpty
<1>3. PendingResetIsAhead'
  BY DEF PendingResetIsAhead, ReadMayStart, Resetting, Joins, resets, BufferTypeOK
<1>4. OwedFramesInPlace'
  BY DEF OwedFramesInPlace, SlotOf
<1>5. ReadIsBehind' /\ ReadHoldsItsFrames'
  BY DEF ReadIsBehind, ReadHoldsItsFrames, BufferTypeOK
<1> QED BY <1>1, <1>2, <1>3, <1>4, <1>5

LEMMA ReadNothingInv ==
    ASSUME BufferInv, ReadNothing
    PROVE  BufferInv'
<1> USE BufferAssumption DEF BufferInv, ReadNothing, writerVars, resetVars
<1>1. BufferTypeOK'
  BY DEF BufferTypeOK, ReadValues, Slots
<1>2. NeverOverfull' /\ (writeSeq + wAccepted <= Horizon)' /\ IdleWriteIsEmpty'
  BY DEF NeverOverfull, IdleWriteIsEmpty
<1>3. PendingResetIsAhead' /\ ReadIsBehind' /\ ReadHoldsItsFrames'
  BY DEF PendingResetIsAhead, ReadIsBehind, ReadHoldsItsFrames
<1>4. OwedFramesInPlace'
  BY DEF OwedFramesInPlace, SlotOf
<1> QED BY <1>1, <1>2, <1>3, <1>4

LEMMA LoadWriteInv ==
    ASSUME BufferInv, NEW n \in Batches, LoadWrite(n)
    PROVE  BufferInv'
<1> USE BufferAssumption DEF BufferInv, LoadWrite, writerVars, resetVars
<1>1. rBase <= readSeq /\ readSeq <= writeSeq /\ rDone = 0
  BY DEF ReadIsBehind, NeverOverfull
<1>2. rCount' \in Nat /\ rCount' > 0 /\ rBase + rCount' <= writeSeq
  BY <1>1 DEF SmallerOf, BufferTypeOK
<1>3. BufferTypeOK'
  BY <1>1, <1>2 DEF BufferTypeOK, ReadValues, Slots
<1>4. NeverOverfull' /\ (writeSeq + wAccepted <= Horizon)' /\ IdleWriteIsEmpty'
  BY DEF NeverOverfull, IdleWriteIsEmpty
<1>5. PendingResetIsAhead'
  BY DEF PendingResetIsAhead
<1>6. OwedFramesInPlace'
  BY DEF OwedFramesInPlace, SlotOf
<1>7. ReadIsBehind'
  BY <1>1, <1>2 DEF ReadIsBehind
<1>8. ReadHoldsItsFrames'
  <2>1. rOut = Frames(rBase, 0)
    BY <1>1 DEF BufferTypeOK, Frames
  <2> QED BY <1>1, <2>1 DEF ReadHoldsItsFrames, Frames
<1> QED BY <1>3, <1>4, <1>5, <1>6, <1>7, <1>8

\* The frame a Read copies next is in its slot, and the producer is storing
\* to another one, as long as the compare-and-exchange can still succeed.
LEMMA ObservedFrame ==
    ASSUME BufferInv, rPc = "copying", rDone < rCount, readSeq = rBase,
           NEW value \in Observed(SlotOf(rBase + rDone))
    PROVE  value = rBase + rDone
<1> USE BufferAssumption DEF BufferInv
<1> DEFINE a == rBase + rDone
           b == writeSeq + wDone
<1>1. a \in Nat /\ b \in Nat /\ a < b
  BY DEF BufferTypeOK, ReadIsBehind
<1>2. slot[SlotOf(a)] = a
  <2>1. a \in readSeq..(writeSeq + wDone - 1)
    BY <1>1 DEF BufferTypeOK
  <2> QED BY <2>1 DEF OwedFramesInPlace
<1>3. CASE wPc = "copying" /\ wDone < wAccepted
  <2>1. b < a + Capacity
    BY <1>3 DEF BufferTypeOK, NeverOverfull
  <2>2. SlotOf(b) # SlotOf(a)
    BY <1>1, <2>1, DistinctSlots DEF SlotOf
  <2> QED BY <1>2, <2>2 DEF Observed
<1>4. CASE ~(wPc = "copying" /\ wDone < wAccepted)
  BY <1>2, <1>4 DEF Observed
<1> QED BY <1>3, <1>4

LEMMA ReadFrameInv ==
    ASSUME BufferInv, NEW value \in ReadValues, ReadFrame(value)
    PROVE  BufferInv'
<1> USE BufferAssumption DEF BufferInv, ReadFrame, writerVars, resetVars
<1>1. BufferTypeOK'
  <2>1. rDone' \in 0..rCount'
    BY DEF BufferTypeOK
  <2>2. rOut' \in [1..rDone' -> ReadValues]
    BY DEF BufferTypeOK
  <2> QED BY <2>1, <2>2 DEF BufferTypeOK, ReadValues, Slots
<1>2. NeverOverfull' /\ (writeSeq + wAccepted <= Horizon)' /\ IdleWriteIsEmpty'
  BY DEF NeverOverfull, IdleWriteIsEmpty
<1>3. PendingResetIsAhead' /\ ReadIsBehind'
  BY DEF PendingResetIsAhead, ReadIsBehind
<1>4. OwedFramesInPlace'
  BY DEF OwedFramesInPlace, SlotOf
<1>5. ReadHoldsItsFrames'
  <2> SUFFICES ASSUME readSeq = rBase
               PROVE  rOut' = Frames(rBase, rDone + 1)
    BY DEF ReadHoldsItsFrames, Frames
  <2>1. value = rBase + rDone
    BY ObservedFrame
  <2>2. rOut = Frames(rBase, rDone)
    BY DEF ReadHoldsItsFrames
  <2> QED BY <2>1, <2>2 DEF Frames, BufferTypeOK
<1> QED BY <1>1, <1>2, <1>3, <1>4, <1>5

LEMMA CommitReadInv ==
    ASSUME BufferInv, CommitRead
    PROVE  BufferInv'
<1> USE BufferAssumption DEF BufferInv, CommitRead, EndRead, writerVars, resetVars
<1>1. readSeq' = rBase + rCount /\ readSeq <= readSeq' /\ readSeq' <= writeSeq
  BY DEF ReadIsBehind, BufferTypeOK
<1>2. BufferTypeOK'
  <2>1. readSeq' \in 0..Horizon
    BY <1>1 DEF BufferTypeOK
  <2>2. rOut' \in [1..rDone' -> ReadValues]
    BY DEF Silence, Frames
  <2> QED BY <2>1, <2>2 DEF BufferTypeOK, ReadValues, Slots
<1>3. NeverOverfull' /\ (writeSeq + wAccepted <= Horizon)' /\ IdleWriteIsEmpty'
  BY <1>1 DEF NeverOverfull, IdleWriteIsEmpty, BufferTypeOK
<1>4. PendingResetIsAhead'
  <2>1. ASSUME NEW x \in Resetters, xPc[x] = "loaded" PROVE "write" \notin beside[x]
    BY <2>1 DEF PendingResetIsAhead
  <2> QED BY <1>1, <2>1 DEF PendingResetIsAhead
<1>5. OwedFramesInPlace'
  <2>1. readSeq'..(writeSeq' + wDone' - 1) \subseteq readSeq..(writeSeq + wDone - 1)
    BY <1>1 DEF BufferTypeOK
  <2> QED BY <2>1 DEF OwedFramesInPlace, SlotOf
<1>6. ReadIsBehind' /\ ReadHoldsItsFrames'
  BY DEF ReadIsBehind, ReadHoldsItsFrames
<1> QED BY <1>2, <1>3, <1>4, <1>5, <1>6

LEMMA AbandonReadInv ==
    ASSUME BufferInv, AbandonRead
    PROVE  BufferInv'
<1> USE BufferAssumption DEF BufferInv, AbandonRead, EndRead, writerVars, resetVars
<1>1. BufferTypeOK'
  BY DEF BufferTypeOK, ReadValues, Slots, Silence, Frames
<1>2. NeverOverfull' /\ (writeSeq + wAccepted <= Horizon)' /\ IdleWriteIsEmpty'
  BY DEF NeverOverfull, IdleWriteIsEmpty
<1>3. PendingResetIsAhead' /\ ReadIsBehind' /\ ReadHoldsItsFrames'
  BY DEF PendingResetIsAhead, ReadIsBehind, ReadHoldsItsFrames
<1>4. OwedFramesInPlace'
  BY DEF OwedFramesInPlace, SlotOf
<1> QED BY <1>1, <1>2, <1>3, <1>4

-----------------------------------------------------------------------------
(* The resets. *)

LEMMA BeginResetInv ==
    ASSUME BufferInv, NEW x \in Resetters, BeginReset(x)
    PROVE  BufferInv'
<1> USE BufferAssumption DEF BufferInv, BeginReset, writerVars, readerVars
<1>1. BufferTypeOK'
  <2>1. UnderWay \in SUBSET {"write", "read", "reset"}
    BY DEF UnderWay
  <2>2. beside' \in [Resetters -> SUBSET {"write", "read", "reset"}]
    BY <2>1 DEF BufferTypeOK
  <2> QED BY <2>2 DEF BufferTypeOK, ReadValues, Slots
<1>2. NeverOverfull' /\ (writeSeq + wAccepted <= Horizon)' /\ IdleWriteIsEmpty'
  BY DEF NeverOverfull, IdleWriteIsEmpty
<1>3. PendingResetIsAhead'
  BY DEF PendingResetIsAhead, ResetMayStart, Resetting, UnderWay, NeverOverfull,
         BufferTypeOK
<1>4. OwedFramesInPlace'
  BY DEF OwedFramesInPlace, SlotOf
<1>5. ReadIsBehind' /\ ReadHoldsItsFrames'
  BY DEF ReadIsBehind, ReadHoldsItsFrames, Frames
<1> QED BY <1>1, <1>2, <1>3, <1>4, <1>5

LEMMA StoreResetInv ==
    ASSUME BufferInv, NEW x \in Resetters, StoreReset(x)
    PROVE  BufferInv'
<1> USE BufferAssumption DEF BufferInv, StoreReset, writerVars, readerVars
<1>1. readSeq <= readSeq' /\ readSeq' <= writeSeq
  BY DEF PendingResetIsAhead
<1>2. BufferTypeOK'
  BY DEF BufferTypeOK, ReadValues, Slots
<1>3. NeverOverfull' /\ (writeSeq + wAccepted <= Horizon)' /\ IdleWriteIsEmpty'
  BY <1>1 DEF NeverOverfull, IdleWriteIsEmpty, BufferTypeOK
<1>4. PendingResetIsAhead'
  <2>1. ASSUME NEW y \in Resetters, xPc'[y] = "loaded"
        PROVE  y # x /\ xPc[y] = "loaded" /\ xWrite'[y] = xWrite[y]
               /\ beside'[y] = beside[y] /\ "write" \notin beside[y]
    BY <2>1 DEF BufferTypeOK, PendingResetIsAhead
  <2> QED BY <2>1 DEF PendingResetIsAhead, BufferTypeOK
<1>5. OwedFramesInPlace'
  BY <1>1, <1>2 DEF OwedFramesInPlace, SlotOf, BufferTypeOK
<1>6. ReadIsBehind' /\ ReadHoldsItsFrames'
  BY <1>1, <1>2 DEF ReadIsBehind, ReadHoldsItsFrames, Frames, BufferTypeOK
<1> QED BY <1>2, <1>3, <1>4, <1>5, <1>6

-----------------------------------------------------------------------------

LEMMA StepInv ==
    ASSUME BufferInv, [BufferNext]_bufferVars
    PROVE  BufferInv'
<1>1. CASE Write
  BY <1>1, BeginWriteInv, WriteFrameInv, PublishWriteInv DEF Write
<1>2. CASE Read
  BY <1>2, BeginReadInv, ReadNothingInv, LoadWriteInv, ReadFrameInv, CommitReadInv,
     AbandonReadInv DEF Read
<1>3. CASE Reset
  BY <1>3, BeginResetInv, StoreResetInv DEF Reset
<1>4. CASE UNCHANGED bufferVars
  BY <1>4, StutterInv
<1> QED BY <1>1, <1>2, <1>3, <1>4 DEF BufferNext

\* However Write, Read and Reset interleave under the callers' discipline, the
\* ring keeps its inductive invariant.
THEOREM BufferInvariance == BufferSpec => []BufferInv
<1>1. BufferInv /\ [BufferNext]_bufferVars => BufferInv'
  BY StepInv
<1> QED BY BufferInitInv, <1>1, PTL DEF BufferSpec

\* Every variable of the ring stays in its type, and so the sequences never
\* pass the frames pushed.
THEOREM BufferTypeCorrect == BufferSpec => []BufferTypeOK
<1>1. BufferInv => BufferTypeOK
  BY DEF BufferInv
<1> QED BY BufferInvariance, <1>1, PTL

\* A Read whose compare-and-exchange will succeed holds exactly its frames.
THEOREM ReadsAreExact == BufferSpec => []ReadHoldsItsFrames
<1>1. BufferInv => ReadHoldsItsFrames
  BY DEF BufferInv
<1> QED BY BufferInvariance, <1>1, PTL

\* The ring never holds more than its capacity and write - read never wraps.
THEOREM Bounded == BufferSpec => []NeverOverfull
<1>1. BufferInv => NeverOverfull
  BY DEF BufferInv
<1> QED BY BufferInvariance, <1>1, PTL

LEMMA StepMonotone ==
    ASSUME BufferInv, [BufferNext]_bufferVars
    PROVE  [readSeq' >= readSeq]_readSeq
<1> USE DEF BufferInv, BufferTypeOK
<1>1. CASE Write
  BY <1>1 DEF Write, BeginWrite, WriteFrame, PublishWrite
<1>2. CASE Read
  BY <1>2 DEF Read, BeginRead, ReadNothing, LoadWrite, ReadFrame, CommitRead, AbandonRead
<1>3. CASE Reset
  BY <1>3 DEF Reset, BeginReset, StoreReset, PendingResetIsAhead
<1>4. CASE UNCHANGED bufferVars
  BY <1>4 DEF bufferVars
<1> QED BY <1>1, <1>2, <1>3, <1>4 DEF BufferNext

\* The promise of the header comment, under the discipline it relies on: a
\* Reset never moves the consumer sequence backwards.
THEOREM NeverBackwards ==
    BufferSpec => ReadNeverMovesBackwards
<1> QED BY BufferInvariance, StepMonotone, PTL DEF BufferSpec, ReadNeverMovesBackwards

-----------------------------------------------------------------------------
(* The ring implements FrameChannel. *)

LEMMA InitRefines == BufferInit => Channel!ChannelInit
BY DEF BufferInit, Channel!ChannelInit, Silence, Frames, Channel!Silence, Channel!Frames

LEMMA StepRefines ==
    ASSUME BufferInv, BufferInv', [BufferNext]_bufferVars
    PROVE  [Channel!ChannelNext]_(Channel!channelVars)
<1> USE BufferAssumption DEF BufferInv, Channel!channelVars
<1>1. ASSUME NEW n \in Batches, BeginWrite(n) PROVE UNCHANGED Channel!channelVars
  BY <1>1 DEF BeginWrite
<1>2. CASE WriteFrame
  BY <1>2 DEF WriteFrame
<1>3. CASE PublishWrite
  <2>1. CASE wAccepted = 0
    BY <1>3, <2>1 DEF PublishWrite, BufferTypeOK
  <2>2. CASE wAccepted # 0
    <3>1. wAccepted \in 1..(readSeq + Capacity - writeSeq)
      BY <2>2 DEF BufferTypeOK, NeverOverfull
    <3>2. Channel!Push
      BY <1>3, <3>1 DEF PublishWrite, Channel!Push
    <3> QED BY <3>2 DEF Channel!ChannelNext
  <2> QED BY <2>1, <2>2
<1>4. CASE BeginRead
  BY <1>4 DEF BeginRead
<1>5. CASE ReadNothing \/ AbandonRead
  <2>1. Channel!Underrun
    BY <1>5 DEF ReadNothing, AbandonRead, Channel!Underrun, Silence, Frames,
                Channel!Silence, Channel!Frames
  <2> QED BY <2>1 DEF Channel!ChannelNext
<1>6. ASSUME NEW n \in Batches, LoadWrite(n) PROVE UNCHANGED Channel!channelVars
  BY <1>6 DEF LoadWrite
<1>7. ASSUME NEW value \in ReadValues, ReadFrame(value)
      PROVE  UNCHANGED Channel!channelVars
  BY <1>7 DEF ReadFrame
<1>8. CASE CommitRead
  <2>1. rCount \in 1..(writeSeq - readSeq)
    BY <1>8 DEF CommitRead, ReadIsBehind, BufferTypeOK
  <2>2. heard' = Channel!Frames(readSeq, rCount)
    BY <1>8 DEF CommitRead, ReadHoldsItsFrames, Frames, Channel!Frames
  <2>3. Channel!Take
    BY <1>8, <2>1, <2>2 DEF CommitRead, Channel!Take
  <2> QED BY <2>3 DEF Channel!ChannelNext
<1>9. ASSUME NEW x \in Resetters, BeginReset(x) PROVE UNCHANGED Channel!channelVars
  BY <1>9 DEF BeginReset
<1>10. ASSUME NEW x \in Resetters, StoreReset(x) PROVE Channel!Discard
  BY <1>10 DEF StoreReset, PendingResetIsAhead, BufferTypeOK, Channel!Discard
<1>11. CASE UNCHANGED bufferVars
  BY <1>11 DEF bufferVars
<1> QED
  BY <1>1, <1>2, <1>3, <1>4, <1>5, <1>6, <1>7, <1>8, <1>9, <1>10, <1>11
  DEF BufferNext, Write, Read, Reset, Channel!ChannelNext

\* Under the discipline, Write, Read and Reset are to their callers the
\* operations of a bounded FIFO: each frame is heard at most once, in order,
\* unaltered, and never after it was discarded.
THEOREM Refinement == BufferSpec => ImplementsChannel
<1>1. BufferInv /\ BufferInv' /\ [BufferNext]_bufferVars
        => [Channel!ChannelNext]_(Channel!channelVars)
  BY StepRefines
<1> QED
  BY BufferInvariance, InitRefines, <1>1, PTL
  DEF BufferSpec, ImplementsChannel, Channel!ChannelSpec

-----------------------------------------------------------------------------
(* The route. *)

LEMMA Sizes == /\ JitterCapacity \in Nat /\ RingCapacity \in Nat /\ MaxRefill \in Nat
               /\ StartupBlocks \in Nat /\ ReserveBlocks \in Nat
  BY RouteAssumption DEF RouteAssumption

USE DEF Threads, Goto, At, Returning, Begins

\* The initial state satisfies the invariant.
LEMMA InitInv == Init => RouteInv
  <1> SUFFICES ASSUME Init PROVE RouteInv OBVIOUS
  <1>1. PlacesOK BY DEF Init, PlacesOK, Resting, PumpPlaces, SocketPlaces, ClosingPlaces
  <1>2. FlagsOK BY DEF Init, FlagsOK
  <1>3. FillsOK BY Sizes DEF Init, FillsOK
  <1>4. EngineOK BY Sizes DEF Init, EngineOK, Modes
  <1>5. ModeAccounted /\ RefillBounded /\ EnablesUnrequested /\ CopyPublished
        /\ LateSwitchSettles
    BY DEF Init, ModeAccounted, RefillBounded, EnablesUnrequested, CopyPublished,
        LateSwitchSettles, Resting, Enabling, ModesChecked
  <1>6. BesideResetSettles
    BY DEF Init, BesideResetSettles, CheckedResetNotBesideBoth
  <1> QED BY <1>1, <1>2, <1>3, <1>4, <1>5, <1>6 DEF RouteInv, TypeOK

\* SetRouteEnabled(false) and FailSafeRouteToWindows, in any thread.
LEMMA ReturnInv ==
  ASSUME RouteInv, NEW p \in Threads, Return(p) PROVE RouteInv'
  <1> USE DEF RouteInv, TypeOK, pumpLocals, bridgeFlags, engine, modes, Return,
        ReturnClearsRequest, ReturnClearsFlags, ReturnSetsWindows, ReturnResetsBuffer,
        AfterReturn
  <1>1. PlacesOK' BY DEF PlacesOK, PumpPlaces, SocketPlaces, ClosingPlaces
  <1>2. FlagsOK' BY DEF FlagsOK
  <1>3. FillsOK' BY Sizes DEF FillsOK
  <1>4. EngineOK' BY DEF EngineOK, Modes
  <1>5. ModeAccounted' BY DEF PlacesOK, ModeAccounted
  <1>6. RefillBounded' BY DEF PlacesOK, RefillBounded
  <1>7. EnablesUnrequested' /\ CopyPublished'
    BY DEF PlacesOK, EnablesUnrequested, CopyPublished, Enabling
  <1>8. LateSwitchSettles'
    BY DEF PlacesOK, EnablesUnrequested, LateSwitchSettles, Enabling, ModesChecked,
           PastSwitch
  <1>9. BesideResetSettles'
    BY DEF PlacesOK, EngineOK, FlagsOK, Modes, EnablesUnrequested, CopyPublished,
           LateSwitchSettles, BesideResetSettles, CheckedResetNotBesideBoth,
           Enabling, ModesChecked, PastSwitch
  <1> QED BY <1>1, <1>2, <1>3, <1>4, <1>5, <1>6, <1>7, <1>8, <1>9

\* The socket loop begins a return or an enable, or takes a step of an enable.
LEMMA EnableInv ==
  ASSUME RouteInv, BeginReturn \/ BeginEnable \/ Enable PROVE RouteInv'
  <1> USE DEF RouteInv, TypeOK, pumpLocals, bridgeFlags, engine, modes,
        SocketGoes, SocketGoesPast, Unpublished, BeginReturn, BeginEnable, Enable,
        EnableChecksRunning, EnableChecksModes,
        EnableResetsBuffer, EnableBeginsReset, EnableEndsReset,
        EnableClearsFlags, EnableRequests
  <1>1. PlacesOK' BY DEF PlacesOK, PumpPlaces, SocketPlaces, ClosingPlaces
  <1>2. FlagsOK' BY DEF FlagsOK
  <1>3. FillsOK' BY Sizes DEF FillsOK, EngineOK, RefillBounded
  <1>4. EngineOK' BY DEF EngineOK, FillsOK, Modes
  <1>5. ModeAccounted' BY DEF PlacesOK, ModeAccounted
  <1>6. RefillBounded' BY DEF PlacesOK, RefillBounded
  <1>7. EnablesUnrequested' /\ CopyPublished'
    BY DEF PlacesOK, EnablesUnrequested, CopyPublished, Enabling
  <1>8. LateSwitchSettles'
    BY DEF PlacesOK, EnablesUnrequested, LateSwitchSettles, Enabling, ModesChecked,
           PastSwitch
  <1>9. BesideResetSettles'
    BY DEF PlacesOK, EngineOK, FlagsOK, Modes, EnablesUnrequested, CopyPublished,
           LateSwitchSettles, BesideResetSettles, CheckedResetNotBesideBoth,
           Enabling, ModesChecked, PastSwitch
  <1> QED BY <1>1, <1>2, <1>3, <1>4, <1>5, <1>6, <1>7, <1>8, <1>9

\* The closing of the session.
LEMMA CloseInv ==
  ASSUME RouteInv, BeginClose \/ CloseCancelsPump \/ CloseJoinsPump PROVE RouteInv'
  <1> USE DEF RouteInv, TypeOK, pumpLocals, bridgeFlags, engine, modes,
        BeginClose, CloseCancelsPump, CloseJoinsPump
  <1>1. PlacesOK' BY DEF PlacesOK, PumpPlaces, SocketPlaces, ClosingPlaces
  <1>2. FlagsOK' BY DEF FlagsOK
  <1>3. FillsOK' BY Sizes DEF FillsOK, EngineOK, RefillBounded
  <1>4. EngineOK' BY DEF EngineOK, FillsOK, Modes
  <1>5. ModeAccounted' BY DEF PlacesOK, ModeAccounted
  <1>6. RefillBounded' BY DEF PlacesOK, RefillBounded
  <1>7. EnablesUnrequested' /\ CopyPublished'
    BY DEF PlacesOK, EnablesUnrequested, CopyPublished, Enabling
  <1>8. LateSwitchSettles'
    BY DEF PlacesOK, EnablesUnrequested, LateSwitchSettles, Enabling, ModesChecked,
           PastSwitch
  <1>9. BesideResetSettles'
    BY DEF PlacesOK, EngineOK, FlagsOK, Modes, EnablesUnrequested, CopyPublished,
           LateSwitchSettles, BesideResetSettles, CheckedResetNotBesideBoth,
           Enabling, ModesChecked, PastSwitch
  <1> QED BY <1>1, <1>2, <1>3, <1>4, <1>5, <1>6, <1>7, <1>8, <1>9

\* The first half of a tick: whether the route still stands.
LEMMA PumpChecksInv ==
  ASSUME RouteInv, PumpTicks \/ PumpEnds \/ PumpReadsRunning \/ PumpReadsModes
                   \/ PumpDecides \/ PumpConfirmsRoute \/ PumpChecksStart PROVE RouteInv'
  <1> USE DEF RouteInv, TypeOK, pumpLocals, bridgeFlags, engine, modes,
        PumpGoes, Snapshot, NothingSeen, TickEnds, Verdict, PumpTicks, PumpEnds,
        PumpReadsRunning, PumpReadsModes, PumpDecides,
        PumpConfirmsRoute, PumpChecksStart
  <1>1. PlacesOK' BY DEF PlacesOK, PumpPlaces, SocketPlaces, ClosingPlaces
  <1>2. FlagsOK' BY DEF FlagsOK
  <1>3. FillsOK' BY Sizes DEF FillsOK, EngineOK, RefillBounded
  <1>4. EngineOK' BY Sizes DEF EngineOK, FillsOK, Modes
  <1>5. ModeAccounted' BY DEF PlacesOK, ModeAccounted
  <1>6. RefillBounded' BY DEF PlacesOK, RefillBounded
  <1>7. EnablesUnrequested' /\ CopyPublished'
    BY DEF PlacesOK, EnablesUnrequested, CopyPublished, Enabling
  <1>8. LateSwitchSettles'
    BY DEF PlacesOK, EnablesUnrequested, LateSwitchSettles, Enabling, ModesChecked,
           PastSwitch
  <1>9. BesideResetSettles'
    BY DEF PlacesOK, EngineOK, FlagsOK, Modes, EnablesUnrequested, CopyPublished,
           LateSwitchSettles, BesideResetSettles, CheckedResetNotBesideBoth,
           Enabling, ModesChecked, PastSwitch
  <1> QED BY <1>1, <1>2, <1>3, <1>4, <1>5, <1>6, <1>7, <1>8, <1>9

\* The refill of the native ring.
LEMMA PumpRefillsInv ==
  ASSUME RouteInv, PumpChecksRefill \/ PumpTakesBlock \/ PumpPushesBlock \/ PumpRefreshes
  PROVE  RouteInv'
  <1> USE DEF RouteInv, TypeOK, pumpLocals, bridgeFlags, engine, modes,
        PumpGoes, Snapshot, PumpChecksRefill, PumpTakesBlock,
        PumpPushesBlock, PumpRefreshes
  <1>1. PlacesOK' BY DEF PlacesOK, PumpPlaces, SocketPlaces, ClosingPlaces
  <1>2. FlagsOK' BY DEF FlagsOK
  <1>3. FillsOK' BY Sizes DEF FillsOK, EngineOK, RefillBounded
  <1>4. EngineOK' BY DEF EngineOK, FillsOK, Modes
  <1>5. ModeAccounted' BY DEF PlacesOK, ModeAccounted
  <1>6. RefillBounded' BY DEF PlacesOK, RefillBounded
  <1>7. EnablesUnrequested' /\ CopyPublished'
    BY DEF PlacesOK, EnablesUnrequested, CopyPublished, Enabling
  <1>8. LateSwitchSettles'
    BY DEF PlacesOK, EnablesUnrequested, LateSwitchSettles, Enabling, ModesChecked,
           PastSwitch
  <1>9. BesideResetSettles'
    BY DEF PlacesOK, EngineOK, FlagsOK, Modes, EnablesUnrequested, CopyPublished,
           LateSwitchSettles, BesideResetSettles, CheckedResetNotBesideBoth,
           Enabling, ModesChecked, PastSwitch
  <1> QED BY <1>1, <1>2, <1>3, <1>4, <1>5, <1>6, <1>7, <1>8, <1>9

\* The switch to the phone and its undoing.
LEMMA PumpSwitchesInv ==
  ASSUME RouteInv, PumpRechecks \/ PumpSwitches \/ PumpChecksRequest \/ PumpPends
                   \/ PumpUndoes \/ PumpUndoesFlags PROVE RouteInv'
  <1> USE DEF RouteInv, TypeOK, pumpLocals, bridgeFlags, engine, modes,
        PumpGoes, NothingSeen, TickEnds, PumpRechecks, PumpSwitches, PumpChecksRequest,
        PumpPends, PumpUndoes, PumpUndoesFlags
  <1>1. PlacesOK' BY DEF PlacesOK, PumpPlaces, SocketPlaces, ClosingPlaces
  <1>2. FlagsOK' BY DEF FlagsOK
  <1>3. FillsOK' BY Sizes DEF FillsOK, EngineOK, RefillBounded
  <1>4. EngineOK' BY Sizes DEF EngineOK, FillsOK, Modes
  <1>5. ModeAccounted' BY DEF PlacesOK, ModeAccounted
  <1>6. RefillBounded' BY DEF PlacesOK, RefillBounded
  <1>7. EnablesUnrequested' /\ CopyPublished'
    BY DEF PlacesOK, EnablesUnrequested, CopyPublished, Enabling
  <1>8. LateSwitchSettles'
    BY DEF PlacesOK, EnablesUnrequested, LateSwitchSettles, Enabling, ModesChecked,
           PastSwitch
  <1>9. BesideResetSettles'
    BY DEF PlacesOK, EngineOK, FlagsOK, Modes, EnablesUnrequested, CopyPublished,
           LateSwitchSettles, BesideResetSettles, CheckedResetNotBesideBoth,
           Enabling, ModesChecked, PastSwitch
  <1> QED BY <1>1, <1>2, <1>3, <1>4, <1>5, <1>6, <1>7, <1>8, <1>9

\* Decoded audio arrives, or time passes.
LEMMA OutsideInv ==
  ASSUME RouteInv, PushDecoded \/ SecondPasses PROVE RouteInv'
  <1> USE DEF RouteInv, TypeOK, pumpLocals, bridgeFlags, engine, modes,
        PushDecoded, SecondPasses
  <1>1. PlacesOK' BY DEF PlacesOK, PumpPlaces, SocketPlaces, ClosingPlaces
  <1>2. FlagsOK' BY DEF FlagsOK
  <1>3. FillsOK' BY Sizes DEF FillsOK, EngineOK, RefillBounded
  <1>4. EngineOK' BY DEF EngineOK, FillsOK, Modes
  <1>5. ModeAccounted' BY DEF PlacesOK, ModeAccounted
  <1>6. RefillBounded' BY DEF PlacesOK, RefillBounded
  <1>7. EnablesUnrequested' /\ CopyPublished'
    BY DEF PlacesOK, EnablesUnrequested, CopyPublished, Enabling
  <1>8. LateSwitchSettles'
    BY DEF PlacesOK, EnablesUnrequested, LateSwitchSettles, Enabling, ModesChecked,
           PastSwitch
  <1>9. BesideResetSettles'
    BY DEF PlacesOK, EngineOK, FlagsOK, Modes, EnablesUnrequested, CopyPublished,
           LateSwitchSettles, BesideResetSettles, CheckedResetNotBesideBoth,
           Enabling, ModesChecked, PastSwitch
  <1> QED BY <1>1, <1>2, <1>3, <1>4, <1>5, <1>6, <1>7, <1>8, <1>9

\* The engine is started or stopped, and its worker runs.
LEMMA EngineInv ==
  ASSUME RouteInv, Engine PROVE RouteInv'
  <1> USE DEF RouteInv, TypeOK, pumpLocals, bridgeFlags, engine, modes, bridge,
        Engine, WorkerSteps, Starting, Lesser, BeginStart,
        StartFails, StartSucceeds, WorkerLoadsMode, WorkerEntersLoop, BeginsBlock,
        RenderKeepsMode, RenderLoadsMode, RenderAdoptsMode, RenderEnds,
        WorkerLeavesLoop, WorkerRestoresModes,
        WorkerEnds, BeginStop, StopJoins
  <1>1. PlacesOK' BY DEF PlacesOK, PumpPlaces, SocketPlaces, ClosingPlaces
  <1>2. FlagsOK' BY DEF FlagsOK
  <1>3. FillsOK' BY Sizes DEF FillsOK, EngineOK, RefillBounded
  <1>4. EngineOK' BY DEF EngineOK, FillsOK, Modes
  <1>5. ModeAccounted' BY DEF PlacesOK, ModeAccounted
  <1>6. RefillBounded' BY DEF PlacesOK, RefillBounded
  <1>7. EnablesUnrequested' /\ CopyPublished'
    BY DEF PlacesOK, EnablesUnrequested, CopyPublished, Enabling
  <1>8. LateSwitchSettles'
    BY DEF PlacesOK, EnablesUnrequested, LateSwitchSettles, Enabling, ModesChecked,
           PastSwitch
  <1>9. BesideResetSettles'
    BY DEF PlacesOK, EngineOK, FlagsOK, Modes, EnablesUnrequested, CopyPublished,
           LateSwitchSettles, BesideResetSettles, CheckedResetNotBesideBoth,
           Enabling, ModesChecked, PastSwitch
  <1> QED BY <1>1, <1>2, <1>3, <1>4, <1>5, <1>6, <1>7, <1>8, <1>9

\* The route's invariant holds for every size of its buffers.
THEOREM Invariance == Spec => []RouteInv
  <1>1. ASSUME RouteInv, [Next]_vars PROVE RouteInv'
    <2>1. CASE Next
      BY <1>1, <2>1, ReturnInv, EnableInv, CloseInv, PumpChecksInv, PumpRefillsInv,
         PumpSwitchesInv, OutsideInv, EngineInv
      DEF Next, Pump
    <2>2. CASE UNCHANGED vars
      BY <1>1, <2>2
      DEF vars, bridgeFlags, pumpLocals, engine, modes, RouteInv, TypeOK, PlacesOK,
          FlagsOK, FillsOK, EngineOK, ModeAccounted, RefillBounded, EnablesUnrequested,
          CopyPublished, LateSwitchSettles, BesideResetSettles,
          CheckedResetNotBesideBoth
    <2> QED BY <1>1, <2>1, <2>2
  <1> QED BY <1>1, InitInv, PTL DEF Spec

\* Every flag, mode, fill and place of the bridge and the engine is one the
\* code has; no buffer overflows or runs negative, in any interleaving.
THEOREM TypeCorrect == Spec => []TypeOK
  BY Invariance, PTL DEF RouteInv

\* Return wins: with every thread at rest and no request, the selector asks
\* for the Windows microphone.
THEOREM Returned == Spec => []ReturnedMeansWindows
  <1>1. RouteInv => ReturnedMeansWindows
    BY DEF RouteInv, TypeOK, PlacesOK, EngineOK, Modes, ModeAccounted,
           ReturnedMeansWindows, Quiet
  <1> QED BY <1>1, Invariance, PTL

\* The native ring is reset beside both a push and a read only where the check of
\* the modes missed a worker that had loaded Remote and not yet published it.
THEOREM CheckedResets == Spec => []CheckedResetNotBesideBoth
  <1>1. RouteInv => CheckedResetNotBesideBoth
    BY DEF RouteInv, BesideResetSettles
  <1> QED BY <1>1, Invariance, PTL

=============================================================================
