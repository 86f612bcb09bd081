---------------------------- MODULE MCSoundboard ----------------------------
(***************************************************************************)
(* Soundboard for TLC: a looping pad, which may also be layered, and one   *)
(* that does not loop; a queue that holds two commands and wraps more than *)
(* once; two voices, which two layered presses use up; two runs of the     *)
(* engine, and two presses that may wait for one load.                     *)
(***************************************************************************)
EXTENDS Soundboard
=============================================================================
