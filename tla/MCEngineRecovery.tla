-------------------------- MODULE MCEngineRecovery --------------------------
(***************************************************************************)
(* EngineRecovery for TLC: three microphones, which Windows lists in        *)
(* another order than it prefers them.  If the first two do not start, the *)
(* policy tries them in turn for ever and never comes to the third.        *)
(***************************************************************************)
EXTENDS EngineRecovery

CONSTANTS usb, headset, webcam

MCThree == <<usb, headset, webcam>>
MCThreeByPreference == <<headset, usb, webcam>>
=============================================================================
