---------------------------- MODULE MCLifecycle ----------------------------
(***************************************************************************)
(* The instance of Lifecycle for TLC: two requests, three jobs, one worker *)
(* and room for one job, so that the buffer fills up while a job runs.     *)
(***************************************************************************)
EXTENDS Lifecycle, TLC

CONSTANTS r1, r2, j1, j2, j3
=============================================================================
