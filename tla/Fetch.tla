------------------------------- MODULE Fetch -------------------------------
(***************************************************************************)
(* fetch_page and fetch_all of src/src/bin/sync.rs: the walk over the      *)
(* pages of GET /rules, resumed after the last id of the previous page,    *)
(* that ends at an empty page, with the waits and retries on 429.          *)
(*                                                                         *)
(* The redirection.io API is not part of the repository.  It is modelled   *)
(* from the way fetch_all uses it: the rules of the project sorted in a    *)
(* fixed order of their ids, a page being any non-empty run of the rules   *)
(* that follow the cursor (the request carries no page size), while        *)
(* somebody may edit, create and delete rules at any time, between two     *)
(* pages included.                                                         *)
(*                                                                         *)
(* A request and its answer are one step: the client is blocked in the     *)
(* call and the API evaluates the request at one instant.                  *)
(***************************************************************************)
EXTENDS Processes, Naturals

CONSTANTS
  RuleId,      \* the ids, numbered in the order of the API's cursor
  RuleBody,    \* what an editor rule can hold, its id apart
  NoRule,      \* the body of an id that does not exist (any more)
  MaxRetries,  \* MAX_RATE_LIMIT_RETRIES
  MaxEdits,    \* bound on the edits of the project
  MaxFaults    \* bound on the answers, other than 429, that fail a walk

ASSUME FetchAssumption ==
  /\ RuleId \subseteq Nat \ {0}
  /\ NoRule \notin RuleBody
  /\ MaxRetries \in Nat /\ MaxEdits \in Nat /\ MaxFaults \in Nat

VARIABLES
  rules,    \* API: the project, a body (or NoRule) for each id
  edits,    \* API: number of edits so far
  faults,   \* API: number of failing answers so far
  limited,  \* API: number of 429 in a row answered to the current page of p
  phase,    \* where the walk of p is
  after,    \* the cursor of p, 0 for None
  attempt,  \* the loop counter of fetch_page
  all,      \* the rules p has received
  seen,     \* history: every rule the API held since the walk of p began
  held      \* history: the rules the API held without a change since then

walkVars == <<phase, after, attempt, all>>
histVars == <<seen, held>>
fetchVars == <<rules, edits, faults, limited, phase, after, attempt, all,
               seen, held>>

Phase == {"idle", "request", "backoff", "complete", "failed"}

(* A rule is a pair <<id, body>>.                                          *)
Rules == RuleId \X RuleBody

Held(r) == {x \in Rules : r[x[1]] = x[2]}

(* The ids that exist and come after the cursor c.                         *)
Later(c) == {i \in RuleId : i > c /\ rules[i] # NoRule}

(* The pages the API can answer to the cursor c: a run of the rules that   *)
(* follow it, empty only when none does.                                   *)
Pages(c) ==
  {P \in SUBSET Later(c) :
      /\ P = {} => Later(c) = {}
      /\ \A i \in P, j \in Later(c) \ P : i < j}

IsLast(i, P) == i \in P /\ \A j \in P : j <= i

----------------------------------------------------------------------------

FetchTypeOK ==
  /\ rules \in [RuleId -> RuleBody \cup {NoRule}]
  /\ edits \in 0..MaxEdits
  /\ faults \in 0..MaxFaults
  /\ limited \in [Proc -> Nat]
  /\ phase \in [Proc -> Phase]
  /\ after \in [Proc -> RuleId \cup {0}]
  /\ attempt \in [Proc -> 0..MaxRetries]
  /\ all \in [Proc -> SUBSET Rules]
  /\ seen \in [Proc -> SUBSET Rules]
  /\ held \in [Proc -> SUBSET Rules]

FetchInit ==
  /\ rules \in [RuleId -> RuleBody \cup {NoRule}]
  /\ edits = 0 /\ faults = 0
  /\ limited = [p \in Proc |-> 0]
  /\ phase = [p \in Proc |-> "idle"]
  /\ after = [p \in Proc |-> 0]
  /\ attempt = [p \in Proc |-> 0]
  /\ all = [p \in Proc |-> {}]
  /\ seen = [p \in Proc |-> {}]
  /\ held = [p \in Proc |-> {}]

----------------------------------------------------------------------------
(* The editors of the project.                                             *)

EditRule(i, b) ==
  /\ edits < MaxEdits
  /\ rules[i] # b
  /\ rules' = [rules EXCEPT ![i] = b]
  /\ edits' = edits + 1
  /\ seen' = [p \in Proc |-> IF phase[p] = "idle" THEN seen[p]
                                                  ELSE seen[p] \cup Held(rules')]
  /\ held' = [p \in Proc |-> IF phase[p] = "idle" THEN held[p]
                                                  ELSE held[p] \cap Held(rules')]
  /\ UNCHANGED <<faults, limited, walkVars>>

----------------------------------------------------------------------------
(* The walk of the process p.                                              *)

(* fetch_all is called: nothing received, no cursor, first call to         *)
(* fetch_page.                                                             *)
BeginFetch(p) ==
  /\ phase[p] = "idle"
  /\ phase' = [phase EXCEPT ![p] = "request"]
  /\ after' = [after EXCEPT ![p] = 0]
  /\ attempt' = [attempt EXCEPT ![p] = 0]
  /\ all' = [all EXCEPT ![p] = {}]
  /\ limited' = [limited EXCEPT ![p] = 0]
  /\ seen' = [seen EXCEPT ![p] = Held(rules)]
  /\ held' = [held EXCEPT ![p] = Held(rules)]
  /\ UNCHANGED <<rules, edits, faults>>

(* Mutant: the page replaces the rules received before it.                 *)
NextPageReplaces(p) ==
  /\ phase[p] = "request"
  /\ \E P \in Pages(after[p]) : \E last \in P :
       /\ IsLast(last, P)
       /\ all' = [all EXCEPT ![p] = {<<i, rules[i]>> : i \in P}]
       /\ after' = [after EXCEPT ![p] = last]
  /\ attempt' = [attempt EXCEPT ![p] = 0]
  /\ limited' = [limited EXCEPT ![p] = 0]
  /\ UNCHANGED <<rules, edits, faults, phase, histVars>>

(* Mutant: the cursor is the id of any rule of the page, not of the last.  *)
NextPageAnyCursor(p) ==
  /\ phase[p] = "request"
  /\ \E P \in Pages(after[p]) : \E some \in P :
       /\ all' = [all EXCEPT ![p] = @ \cup {<<i, rules[i]>> : i \in P}]
       /\ after' = [after EXCEPT ![p] = some]
  /\ attempt' = [attempt EXCEPT ![p] = 0]
  /\ limited' = [limited EXCEPT ![p] = 0]
  /\ UNCHANGED <<rules, edits, faults, phase, histVars>>

(* A page that is not empty: its rules are appended, its last id becomes   *)
(* the cursor and fetch_page is called again, from its first attempt.      *)
NextPage(p) ==
  /\ phase[p] = "request"
  /\ \E P \in Pages(after[p]) : \E last \in P :
       /\ IsLast(last, P)
       /\ all' = [all EXCEPT ![p] = @ \cup {<<i, rules[i]>> : i \in P}]
       /\ after' = [after EXCEPT ![p] = last]
  /\ attempt' = [attempt EXCEPT ![p] = 0]
  /\ limited' = [limited EXCEPT ![p] = 0]
  /\ UNCHANGED <<rules, edits, faults, phase, histVars>>

(* Mutant: an empty page is taken for a hiccup, and asked for again.       *)
EmptyPageAsksAgain(p) ==
  /\ phase[p] = "request"
  /\ {} \in Pages(after[p])
  /\ limited' = [limited EXCEPT ![p] = 0]
  /\ attempt' = [attempt EXCEPT ![p] = 0]
  /\ UNCHANGED <<rules, edits, faults, phase, after, all, histVars>>

(* The empty page: the fetch returns what it received.                     *)
EmptyPage(p) ==
  /\ phase[p] = "request"
  /\ {} \in Pages(after[p])
  /\ phase' = [phase EXCEPT ![p] = "complete"]
  /\ limited' = [limited EXCEPT ![p] = 0]
  /\ UNCHANGED <<rules, edits, faults, after, attempt, all, histVars>>

(* Mutant: one attempt too few.                                            *)
RateLimitedTooSeldom(p) ==
  /\ phase[p] = "request"
  /\ phase' = [phase EXCEPT ![p] =
                 IF attempt[p] + 1 < MaxRetries THEN "backoff" ELSE "failed"]
  /\ limited' = [limited EXCEPT ![p] = @ + 1]
  /\ UNCHANGED <<rules, edits, faults, after, attempt, all, histVars>>

(* 429: wait out Retry-After if an attempt is left, give up otherwise.     *)
RateLimited(p) ==
  /\ phase[p] = "request"
  /\ phase' = [phase EXCEPT ![p] =
                 IF attempt[p] < MaxRetries THEN "backoff" ELSE "failed"]
  /\ limited' = [limited EXCEPT ![p] = @ + 1]
  /\ UNCHANGED <<rules, edits, faults, after, attempt, all, histVars>>

(* The wait is over: the next attempt at the same page.                    *)
Retry(p) ==
  /\ phase[p] = "backoff"
  /\ phase' = [phase EXCEPT ![p] = "request"]
  /\ attempt' = [attempt EXCEPT ![p] = @ + 1]
  /\ UNCHANGED <<rules, edits, faults, limited, after, all, histVars>>

(* An answer that fails the walk at once: no connection, a timeout, a      *)
(* status other than success and 429, a body that is not a JSON array      *)
(* (a body cut short is read as the empty text), a page whose last rule    *)
(* has no id, a page that ends at the cursor ("did not advance").          *)
BadAnswer(p) ==
  /\ phase[p] = "request"
  /\ faults < MaxFaults
  /\ faults' = faults + 1
  /\ phase' = [phase EXCEPT ![p] = "failed"]
  /\ limited' = [limited EXCEPT ![p] = 0]
  /\ UNCHANGED <<rules, edits, after, attempt, all, histVars>>

(* The caller is done with the walk, or the process has ended: nothing of  *)
(* it is left.                                                             *)
DropFetch(p) ==
  /\ phase' = [phase EXCEPT ![p] = "idle"]
  /\ after' = [after EXCEPT ![p] = 0]
  /\ attempt' = [attempt EXCEPT ![p] = 0]
  /\ all' = [all EXCEPT ![p] = {}]
  /\ limited' = [limited EXCEPT ![p] = 0]
  /\ seen' = [seen EXCEPT ![p] = {}]
  /\ held' = [held EXCEPT ![p] = {}]
  /\ UNCHANGED <<rules, edits, faults>>

EndFetch(p) ==
  /\ phase[p] \in {"complete", "failed"}
  /\ DropFetch(p)

FetchStep(p) ==
  \/ NextPage(p) \/ EmptyPage(p) \/ RateLimited(p) \/ Retry(p)
  \/ BadAnswer(p)

FetchNext ==
  \/ \E i \in RuleId, b \in RuleBody \cup {NoRule} : EditRule(i, b)
  \/ \E p \in Proc : BeginFetch(p) \/ FetchStep(p) \/ EndFetch(p)

FetchSpec == FetchInit /\ [][FetchNext]_fetchVars

(* The process executes the instructions of a walk it has begun, the HTTP  *)
(* client gives up after 10 s and the wait of a 429 is finite.             *)
FetchFairness == \A p \in Proc : WF_fetchVars(FetchStep(p))

FetchFairSpec == FetchSpec /\ FetchFairness

----------------------------------------------------------------------------
(* Properties.                                                             *)

(* A fetch that succeeds has every rule that the API held without a change *)
(* from the first page to the last, and no rule that it did not hold at    *)
(* some moment of the walk, however the project is edited between pages.   *)
CompleteWalk ==
  \A p \in Proc : phase[p] = "complete" =>
    /\ held[p] \subseteq all[p]
    /\ all[p] \subseteq seen[p]

(* No rule is received twice, in two versions, during one walk: pages do   *)
(* not overlap although the rules move under the cursor.                   *)
OneVersion ==
  \A p \in Proc : \A x, y \in all[p] : x[1] = y[1] => x = y

(* A walk stopped by rate limiting was answered 429 exactly one time more  *)
(* than the retries it is allowed, and a walk that goes on was answered it *)
(* at most that many times on its current page.                            *)
GivesUpWhenExhausted ==
  \A p \in Proc :
    /\ phase[p] = "failed" => limited[p] \in {0, MaxRetries + 1}
    /\ phase[p] \in {"request", "backoff"} => limited[p] <= MaxRetries

(* A walk ends, with the rules or with an error, whatever the API answers  *)
(* and however the 429 fall on its pages.                                  *)
WalkEnds ==
  \A p \in Proc :
    phase[p] = "request" ~> phase[p] \in {"complete", "failed"}

============================================================================
