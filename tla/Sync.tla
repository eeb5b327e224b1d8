-------------------------------- MODULE Sync --------------------------------
(***************************************************************************)
(* The sync binary, src/src/bin/sync.rs: run() repeats sync_once(), which  *)
(* fetches the rules (Fetch), translates them and writes the ruleset file  *)
(* (RulesetFile).  A daemon sleeps between two cycles; a one-shot exits    *)
(* and is started again by cron.  A process may be killed at any moment;   *)
(* on an error it keeps the previous file and goes on.                     *)
(*                                                                         *)
(* A translated rule is the pair <<id, body>> of the editor rule it comes  *)
(* from; what becomes of one rule is the business of Translate.            *)
(***************************************************************************)
EXTENDS Fetch, RulesetFile

CONSTANTS
  Redirect,   \* the bodies translate_rule accepts
  Malformed,  \* the bodies that are not an EditorRule
  OneShot,    \* the processes run with RIO_INTERVAL=0
  MaxLimits   \* bound on the 429 answered in all

ASSUME SyncAssumption ==
  /\ Redirect \subseteq RuleBody /\ Malformed \subseteq RuleBody
  /\ Redirect \cap Malformed = {}
  /\ Ruleset = SUBSET (RuleId \X Redirect)
  /\ OneShot \subseteq Proc
  /\ MaxLimits \in Nat

VARIABLES
  status,   \* what p does: "down", "asleep" between two cycles, or "cycle"
  limits,   \* number of 429 so far
  before    \* history: the content of the file when the cycle of p began

syncVars == <<status, limits, before>>
vars == <<rules, edits, faults, limited, phase, after, attempt, all, seen,
          held, out, tmp, data, ioFaults, stage, want, fd, off, rfd, roff,
          buffer, loaded, status, limits, before>>

SyncTypeOK ==
  /\ status \in [Proc -> {"down", "asleep", "cycle"}]
  /\ limits \in 0..MaxLimits
  /\ before \in [Proc -> Content]

TypeOK == FetchTypeOK /\ FileTypeOK /\ SyncTypeOK

Init ==
  /\ FetchInit /\ FileInit
  /\ status = [p \in Proc |-> "down"]
  /\ limits = 0
  /\ before = [p \in Proc |-> Empty]

----------------------------------------------------------------------------

(* translate_ruleset: the rules it refuses are skipped.                    *)
Translated(S) == {x \in S : x[2] \in Redirect}

(* One entry that is not an EditorRule fails the whole array.              *)
IsMalformed(S) == \E x \in S : x[2] \in Malformed

(* sync_once is called.                                                    *)
BeginCycle(p) ==
  /\ BeginFetch(p)
  /\ status' = [status EXCEPT ![p] = "cycle"]
  /\ before' = [before EXCEPT ![p] = FileContent]
  /\ UNCHANGED <<fileVars, limits>>

(* run(), in a new process.                                                *)
Start(p) ==
  /\ status[p] = "down"
  /\ Overlap \/ \A q \in Proc : status[q] = "down"
  /\ BeginCycle(p)

(* The sleep of a daemon is over.                                          *)
Wake(p) ==
  /\ status[p] = "asleep"
  /\ BeginCycle(p)

(* sync_once has returned: a one-shot exits, a daemon sleeps.              *)
Return(p) ==
  /\ status' = [status EXCEPT ![p] = IF p \in OneShot THEN "down" ELSE "asleep"]
  /\ before' = [before EXCEPT ![p] = Empty]
  /\ UNCHANGED limits

Answered(p) ==
  /\ status[p] = "cycle"
  /\ NextPage(p) \/ EmptyPage(p) \/ BadAnswer(p) \/ Retry(p)
  /\ UNCHANGED <<fileVars, syncVars>>

Answered429(p) ==
  /\ status[p] = "cycle"
  /\ limits < MaxLimits
  /\ RateLimited(p)
  /\ limits' = limits + 1
  /\ UNCHANGED <<fileVars, status, before>>

FetchFailed(p) ==
  /\ status[p] = "cycle" /\ phase[p] = "failed"
  /\ EndFetch(p)
  /\ Return(p)
  /\ UNCHANGED fileVars

TranslateFailed(p) ==
  /\ status[p] = "cycle" /\ phase[p] = "complete" /\ stage[p] = "idle"
  /\ IsMalformed(all[p])
  /\ EndFetch(p)
  /\ Return(p)
  /\ UNCHANGED fileVars

(* Mutant: what a failed walk has received is translated too.              *)
TranslatePartial(p) ==
  /\ status[p] = "cycle" /\ phase[p] \in {"complete", "failed"}
  /\ stage[p] = "idle"
  /\ ~ IsMalformed(all[p])
  /\ BeginWrite(p, Translated(all[p]))
  /\ UNCHANGED <<fetchVars, syncVars>>

Translate(p) ==
  /\ status[p] = "cycle" /\ phase[p] = "complete" /\ stage[p] = "idle"
  /\ ~ IsMalformed(all[p])
  /\ BeginWrite(p, Translated(all[p]))
  /\ UNCHANGED <<fetchVars, syncVars>>

Write(p) ==
  /\ status[p] = "cycle"
  /\ WriteStep(p)
  /\ UNCHANGED <<fetchVars, syncVars>>

Written(p) ==
  /\ status[p] = "cycle"
  /\ EndWrite(p)
  /\ EndFetch(p)
  /\ Return(p)

(* The process is killed, in a cycle or in its sleep.                      *)
Kill(p) ==
  /\ status[p] # "down"
  /\ KillWrite(p)
  /\ DropFetch(p)
  /\ status' = [status EXCEPT ![p] = "down"]
  /\ before' = [before EXCEPT ![p] = Empty]
  /\ UNCHANGED limits

Edit ==
  /\ \E i \in RuleId, b \in RuleBody \cup {NoRule} : EditRule(i, b)
  /\ UNCHANGED <<fileVars, syncVars>>

Reload ==
  /\ LoadStep
  /\ UNCHANGED <<fetchVars, syncVars>>

CycleStep(p) ==
  \/ Answered(p) \/ Answered429(p) \/ FetchFailed(p) \/ TranslateFailed(p)
  \/ Translate(p) \/ Write(p) \/ Written(p)

Next ==
  \/ \E p \in Proc : Start(p) \/ Wake(p) \/ CycleStep(p) \/ Kill(p)
  \/ Edit
  \/ Reload

Spec == Init /\ [][Next]_vars

(* A process executes what it has begun, a daemon's sleep ends, cron (or a *)
(* supervisor) starts a process again while none runs, and the loader      *)
(* keeps reading the file.                                                 *)
Fairness ==
  /\ \A p \in Proc : WF_vars(CycleStep(p)) /\ WF_vars(Wake(p))
  /\ WF_vars(\E p \in Proc : Start(p))
  /\ WF_vars(Reload)

FairSpec == Spec /\ Fairness

----------------------------------------------------------------------------
(* Properties.                                                             *)

(* The step in which p publishes: the rename, a success of write_atomic.   *)
Publishes(p) == stage[p] # "done" /\ stage'[p] = "done"

(* Nothing but a rename changes the file, and a rename publishes a walk of *)
(* its own process: one that is done, so never what a fetch that failed    *)
(* half-way had received, nor the nothing of a process that fetched        *)
(* nothing.  What it publishes is regular: the redirects that the API held *)
(* from the beginning of that cycle to the moment of the rename are in it, *)
(* and every redirect in it was held at some moment of the cycle.          *)
PublishesTheWalk ==
  [][/\ FileContent' # FileContent => \E p \in Proc : Publishes(p)
     /\ \A p \in Proc : Publishes(p) =>
          /\ phase[p] = "complete"
          /\ \E r \in Ruleset :
               /\ FileContent' = Whole(r)
               /\ Translated(held[p]) \subseteq r
               /\ r \subseteq Translated(seen[p])]_vars

(* "On a failed fetch or translate, the previous ruleset file is left      *)
(* untouched": when a cycle ends with an error the file is what it was     *)
(* when the cycle began.                                                   *)
FailureKeepsTheFile ==
  [][\A p \in Proc :
       \/ FetchFailed(p)
       \/ TranslateFailed(p)
       \/ Written(p) /\ stage[p] = "error"
       => FileContent' = before[p]]_vars

(* The file and the plugin's configuration end up equal to the redirects   *)
(* of the project when it is edited no more and holds no malformed rule.   *)
Converges ==
  LET target == Whole(Translated(Held(rules)))
  IN <>[](\/ IsMalformed(Held(rules))
          \/ FileContent = target /\ loaded = target)

============================================================================
