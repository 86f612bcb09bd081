---------------------------- MODULE MCRemoteSync ----------------------------
(***************************************************************************)
(* RemoteSync for TLC: a phone that opens its second socket while the      *)
(* server still has the first.                                             *)
(***************************************************************************)
EXTENDS RemoteSync

CONSTANTS p1

MCPhones == {p1}
=============================================================================
