----------------------------- MODULE Processes -----------------------------
(* The parameter that Fetch and RulesetFile share: the processes that run  *)
(* the sync binary, one daemon, or the one-shots a cron table starts.      *)
CONSTANT Proc
============================================================================
