------------------------- MODULE MCServerLifecycle -------------------------
(***************************************************************************)
(* ServerLifecycle for TLC: five calls, enough for off and on again while  *)
(* a restart is under way.                                                 *)
(***************************************************************************)
EXTENDS ServerLifecycle
=============================================================================
