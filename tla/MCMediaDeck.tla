---------------------------- MODULE MCMediaDeck ----------------------------
(***************************************************************************)
(* MediaDeck for TLC: a file of two blocks, read ahead by one; a ring and  *)
(* a tap that fill up.                                                     *)
(***************************************************************************)
EXTENDS MediaDeck
=============================================================================
