-------------------------- MODULE MCPhoneMicRoute --------------------------
(***************************************************************************)
(* PhoneMicRoute for TLC.  Audio is counted in blocks; the sizes keep the  *)
(* order of the code's (prebuffer < startup <= jitter buffer) at the       *)
(* smallest scale at which the switch waits for a refill.                  *)
(***************************************************************************)
EXTENDS PhoneMicRoute

\* Bound: the engine fails, stops and restarts at will while the session is
\* open; while the session closes the engine is off or keeps running.
OneAtATime == \/ pc'["closing"] = "open"
              \/ control' = "idle" /\ worker' \in {"none", "loop", "adopting", "reading"}
=============================================================================
