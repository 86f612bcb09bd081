---------------------------- MODULE FrameChannel ----------------------------
(***************************************************************************)
(* What the native rings promise the two threads that share them: the     *)
(* engine's ring of remote frames and the mixer's ring of pad commands.    *)
(* Frames are numbered in the order the producer pushes them.  The channel *)
(* holds the frames head..tail-1: a push appends, a take hands over the    *)
(* oldest frames unchanged and in order, a discard drops a prefix for      *)
(* good, and a take may always be answered with silence.                   *)
(***************************************************************************)
EXTENDS Integers

CONSTANT Capacity

VARIABLES
    head,    \* number of the oldest frame still owed to the consumer
    tail,    \* number the next pushed frame will get
    heard    \* the frames handed over by the consumer's latest call

channelVars == <<head, tail, heard>>

Frames(first, n) == [i \in 1..n |-> first + i - 1]

Silence == Frames(0, 0)

ChannelInit == head = 0 /\ tail = 0 /\ heard = Silence

Push ==
    /\ \E n \in 1..(head + Capacity - tail) : tail' = tail + n
    /\ UNCHANGED <<head, heard>>

Take ==
    /\ \E n \in 1..(tail - head) : /\ heard' = Frames(head, n)
                                   /\ head' = head + n
    /\ UNCHANGED tail

Underrun == heard' = Silence /\ UNCHANGED <<head, tail>>

Discard ==
    /\ head' \in head..tail
    /\ UNCHANGED <<tail, heard>>

ChannelNext == Push \/ Take \/ Underrun \/ Discard

ChannelSpec == ChannelInit /\ [][ChannelNext]_channelVars
=============================================================================
