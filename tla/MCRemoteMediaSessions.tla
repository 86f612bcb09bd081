------------------------ MODULE MCRemoteMediaSessions ------------------------
(***************************************************************************)
(* RemoteMediaSessions for TLC: a phone with two sockets, the second opened *)
(* while the server still has the first, and a phone with one.  The two     *)
(* sockets of the first are alike.                                          *)
(***************************************************************************)
EXTENDS RemoteMediaSessions, TLC

CONSTANTS p1, p2, a, b, c

MCPhones == {p1, p2}
MCSockets == {a, b, c}
MCPhoneOf == [h \in MCSockets |-> IF h = c THEN p2 ELSE p1]
MCSymmetry == Permutations({a, b})
=============================================================================
