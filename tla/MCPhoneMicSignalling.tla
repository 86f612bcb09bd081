------------------------ MODULE MCPhoneMicSignalling ------------------------
(* One press of Enable and a reconnection, or two presses; two peers; one   *)
(* message on its way in either direction.                                  *)
EXTENDS PhoneMicSignalling
=============================================================================
