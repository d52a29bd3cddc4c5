--------------------------- MODULE MCCronService ---------------------------
(* Instances of CronService for TLC: a cron job for every minute and an      *)
(* "N seconds" job.                                                          *)
EXTENDS CronService, TLC

CONSTANTS often, secs

MCPeriod == [j \in Jobs |-> IF j = secs THEN 2 ELSE 0]
MCMatching == [j \in Jobs |-> IF j = often THEN Minutes ELSE {}]

Symmetry == Permutations(Ticks)

============================================================================
