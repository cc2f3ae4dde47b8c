--------------------------- MODULE MCChannelQueue ---------------------------
(***************************************************************************)
(* The instance of ChannelQueue that TLC checks: of the three jobs, j3 has *)
(* a declared type that main registers no handler for (job_queue.go:14).   *)
(***************************************************************************)
EXTENDS ChannelQueue, TLC

CONSTANTS j1, j2, j3, c1, c2, w1, w2

MCJobTypes == {"pipeline:daily", "article:process"}
MCJobType == (j1 :> "pipeline:daily") @@ (j2 :> "pipeline:daily")
             @@ (j3 :> "article:process")
MCHandledTypes == {"pipeline:daily"}
=============================================================================
