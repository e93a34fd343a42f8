----------------------------- MODULE MCSessionResume -----------------------------
(* The instance that is checked: two sessions, the plan of the second for one  *)
(* night only.                                                                 *)
EXTENDS SessionResume

CONSTANTS a, b
================================================================================
