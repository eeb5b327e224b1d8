-------------------------- MODULE RulesetRegister --------------------------
(***************************************************************************)
(* What the ruleset file promises to the plugin ("write rules.json         *)
(* (atomic)", README.md; write_atomic, src/src/bin/sync.rs): a register    *)
(* that a sync cycle replaces in one step and that a load reads in one     *)
(* step, some time before it hands the ruleset over.                       *)
(***************************************************************************)
CONSTANTS Contents, None

VARIABLES file, opened, config

registerVars == <<file, opened, config>>

RegisterInit == file = None /\ opened = None /\ config = None

Publish ==
  /\ file' \in Contents
  /\ UNCHANGED <<opened, config>>

Open ==
  /\ opened = None /\ file # None
  /\ opened' = file
  /\ UNCHANGED <<file, config>>

Load ==
  /\ opened # None
  /\ config' = opened
  /\ opened' = None
  /\ UNCHANGED file

RegisterNext == Publish \/ Open \/ Load

RegisterSpec == RegisterInit /\ [][RegisterNext]_registerVars

============================================================================
