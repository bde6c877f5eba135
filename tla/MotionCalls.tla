---------------------------- MODULE MotionCalls -----------------------------
(* The calls that the users of a motion client make during a run.          *)
CONSTANT Calls
=============================================================================
