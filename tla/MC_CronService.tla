--------------------------- MODULE MC_CronService ---------------------------
(* A period of two time units; j1 is due more than once in a period, j2, which  *)
(* is added, at a time the windows of late ticks share.                        *)
EXTENDS CronService, TLC

CONSTANTS j1, j2

MCDue == j1 :> {2, 4, 5} @@ j2 :> {4}
=============================================================================
