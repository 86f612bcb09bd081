------------------------ MODULE MCRemoteInputBuffer ------------------------
(***************************************************************************)
(* RemoteInputBuffer for TLC: a ring of 3 slots that wraps twice, calls of *)
(* 1 and 2 frames and of more than the ring holds, two resetting threads.  *)
(***************************************************************************)
EXTENDS RemoteInputBuffer
=============================================================================
