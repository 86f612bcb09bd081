--------------------------- MODULE MCRemoteAccess ---------------------------
(***************************************************************************)
(* RemoteAccess for TLC: one phone that may hold two sockets at a time and *)
(* be paired twice; three secrets, fewer than can be in use at once.       *)
(***************************************************************************)
EXTENDS RemoteAccess, TLC

CONSTANTS p1, c1, c2, s1, s2, s3

MCPhones == {p1}
MCConns == {c1, c2}
MCSecrets == {s1, s2, s3}
Symmetry == Permutations(MCSecrets) \cup Permutations(MCConns)
=============================================================================
