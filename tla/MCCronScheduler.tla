--------------------------- MODULE MCCronScheduler ---------------------------
(* CronScheduler for TLC, and what the documents say that the code does    *)
(* not do.                                                                 *)
EXTENDS CronScheduler

MCPeriod == [i \in Cron |-> IF i \in Static THEN 2 ELSE 1]

(* TRIGGER_SPEC, field enabled: a trigger that is disabled does not fire.  *)
DisabledDoesNotFire ==
    [][\A i \in DOMAIN items : ~ items[i].enabled => fires'[i] = fires[i]]_vars

(* scheduler.py, field skip_remaining: the backoff counter is for cron     *)
(* triggers only.                                                          *)
BackoffIsCronOnly == \A i \in DOMAIN items : i \in Once => items[i].skip = 0
==============================================================================
