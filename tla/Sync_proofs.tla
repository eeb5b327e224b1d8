---------------------------- MODULE Sync_proofs ----------------------------
(***************************************************************************)
(* Proofs about the sync process, first its two parts, each by itself.     *)
(*                                                                         *)
(* Fetch, for every set of rules, every edit of the project, every page    *)
(* size and every number of processes and retries.                         *)
(*                                                                         *)
(* RulesetFile: while at most one process is in write_atomic, the ruleset  *)
(* file is an atomic register of whole rulesets, whatever the number of    *)
(* blocks of a content, of processes that follow one another, of crashes   *)
(* and of failing writes.                                                  *)
(*                                                                         *)
(* Sync, from the invariants of the two: while processes do not overlap,   *)
(* every file the plugin can see is the whole result of one complete walk, *)
(* and a cycle that fails leaves it alone.                                 *)
(***************************************************************************)
EXTENDS Sync, TLAPS

----------------------------------------------------------------------------
(* The walk over the pages of the API.                                     *)

(* What the rules p has received are worth while its walk is on its way.   *)
WalkInv(p) ==
  /\ held[p] \subseteq Held(rules)
  /\ Held(rules) \subseteq seen[p]
  /\ all[p] \subseteq seen[p]
  /\ \A x \in all[p] : x[1] <= after[p]
  /\ \A x \in held[p] : x[1] <= after[p] => x \in all[p]
  /\ \A x, y \in all[p] : x[1] = y[1] => x = y
  /\ phase[p] = "complete" => held[p] \subseteq all[p]

(* The API's count of 429 and the loop counter of fetch_page go together.  *)
RetryInv(p) ==
  /\ phase[p] = "request" => limited[p] = attempt[p]
  /\ phase[p] = "backoff" => limited[p] = attempt[p] + 1 /\ attempt[p] < MaxRetries
  /\ phase[p] = "failed" => limited[p] \in {0, MaxRetries + 1}

FetchInv ==
  /\ FetchTypeOK
  /\ \A p \in Proc : phase[p] # "idle" => WalkInv(p)
  /\ \A p \in Proc : RetryInv(p)
  /\ \A p \in Proc : phase[p] = "idle" => all[p] = {}

----------------------------------------------------------------------------

LEMMA RuleIdNat == \A i \in RuleId : i \in Nat /\ i > 0
BY FetchAssumption

LEMMA CursorNat ==
  ASSUME FetchTypeOK, NEW p \in Proc
  PROVE  after[p] \in Nat
BY RuleIdNat DEF FetchTypeOK

LEMMA RuleParts ==
  ASSUME NEW x \in Rules
  PROVE  /\ x = <<x[1], x[2]>>
         /\ x[1] \in RuleId /\ x[1] \in Nat /\ x[1] > 0
         /\ x[2] \in RuleBody /\ x[2] # NoRule
<1>1. PICK i \in RuleId, b \in RuleBody : x = <<i, b>>
  BY DEF Rules
<1>2. b # NoRule
  BY FetchAssumption
<1> QED BY <1>1, <1>2, RuleIdNat

LEMMA HeldType ==
  ASSUME NEW r \in [RuleId -> RuleBody \cup {NoRule}]
  PROVE  Held(r) \subseteq Rules
BY DEF Held

LEMMA FetchInvInit == FetchInit => FetchInv
BY FetchAssumption DEF FetchInit, FetchInv, FetchTypeOK, WalkInv, RetryInv, Phase

(* An edit in the middle of a walk: what was held is still held but for    *)
(* the rule that changes, what was seen stays seen.                        *)
LEMMA EditRuleInv ==
  ASSUME FetchInv, NEW i \in RuleId, NEW b \in RuleBody \cup {NoRule},
         EditRule(i, b)
  PROVE  FetchInv'
<1> USE DEF FetchInv, FetchTypeOK, walkVars
<1>1. rules' \in [RuleId -> RuleBody \cup {NoRule}]
  BY DEF EditRule
<1>2. Held(rules') \subseteq Rules
  BY <1>1, HeldType
<1>3. edits' \in 0..MaxEdits
  BY FetchAssumption DEF EditRule
<1>4. /\ seen' \in [Proc -> SUBSET Rules]
      /\ held' \in [Proc -> SUBSET Rules]
  BY <1>2 DEF EditRule
<1>5. FetchTypeOK'
  BY <1>1, <1>3, <1>4 DEF EditRule
<1>6. ASSUME NEW p \in Proc, phase'[p] # "idle" PROVE WalkInv(p)'
  <2>1. /\ phase[p] # "idle" /\ phase' = phase /\ after' = after /\ all' = all
        /\ seen'[p] = seen[p] \cup Held(rules')
        /\ held'[p] = held[p] \cap Held(rules')
    BY <1>6 DEF EditRule
  <2>2. WalkInv(p)
    BY <2>1
  <2>3. (Held(rules))' = Held(rules')
    BY DEF Held
  <2> QED
    BY <2>1, <2>2, <2>3 DEF WalkInv
<1>7. ASSUME NEW p \in Proc PROVE RetryInv(p)'
  BY DEF EditRule, RetryInv
<1> QED
  BY <1>5, <1>6, <1>7 DEF EditRule

LEMMA BeginFetchInv ==
  ASSUME FetchInv, NEW p \in Proc, BeginFetch(p)
  PROVE  FetchInv'
<1> USE DEF FetchInv, FetchTypeOK
<1>1. Held(rules) \subseteq Rules
  BY HeldType
<1>2. FetchTypeOK'
  BY <1>1, FetchAssumption DEF BeginFetch, Phase
<1>3. ASSUME NEW q \in Proc, phase'[q] # "idle" PROVE WalkInv(q)'
  <2>1. (Held(rules))' = Held(rules)
    BY DEF Held, BeginFetch
  <2>2. CASE q = p
    <3>1. /\ held'[p] = Held(rules) /\ seen'[p] = Held(rules) /\ all'[p] = {}
          /\ after'[p] = 0 /\ phase'[p] = "request"
      BY DEF BeginFetch
    <3>2. \A x \in Held(rules) : ~ (x[1] <= 0)
      BY <1>1, RuleParts
    <3> QED
      BY <2>1, <2>2, <3>1, <3>2 DEF WalkInv
  <2>3. CASE q # p
    <3>1. /\ phase'[q] = phase[q] /\ after'[q] = after[q] /\ all'[q] = all[q]
          /\ seen'[q] = seen[q] /\ held'[q] = held[q]
      BY <2>3 DEF BeginFetch
    <3> QED
      BY <1>3, <2>1, <3>1 DEF WalkInv
  <2> QED BY <2>2, <2>3
<1>4. ASSUME NEW q \in Proc PROVE RetryInv(q)'
  BY DEF BeginFetch, RetryInv
<1>5. ASSUME NEW q \in Proc, phase'[q] = "idle" PROVE all'[q] = {}
  BY <1>5 DEF BeginFetch
<1> QED
  BY <1>2, <1>3, <1>4, <1>5

(* The heart of the walk: the page is the run of rules that follows the    *)
(* cursor, so nothing held is jumped over, and nothing received before is  *)
(* received again.                                                         *)
LEMMA NextPageInv ==
  ASSUME FetchInv, NEW p \in Proc, NextPage(p)
  PROVE  FetchInv'
<1> USE DEF FetchInv, FetchTypeOK, histVars
<1>0. PICK P \in Pages(after[p]) : \E last \in P :
         /\ IsLast(last, P)
         /\ all' = [all EXCEPT ![p] = @ \cup {<<i, rules[i]>> : i \in P}]
         /\ after' = [after EXCEPT ![p] = last]
  BY DEF NextPage
<1>1. PICK last \in P :
         /\ IsLast(last, P)
         /\ all' = [all EXCEPT ![p] = @ \cup {<<i, rules[i]>> : i \in P}]
         /\ after' = [after EXCEPT ![p] = last]
  BY <1>0
<1> DEFINE new == {<<i, rules[i]>> : i \in P}
<1>2. /\ P \subseteq Later(after[p])
      /\ \A i \in P, j \in Later(after[p]) \ P : i < j
  BY <1>1 DEF Pages
<1>3. /\ P \subseteq RuleId
      /\ \A i \in P : i > after[p] /\ rules[i] \in RuleBody /\ i <= last
  BY <1>1, <1>2 DEF Later, IsLast
<1>4. new \subseteq Rules /\ new \subseteq Held(rules)
  BY <1>3 DEF Rules, Held
<1>5. last \in RuleId /\ last \in Nat /\ after[p] \in Nat /\ after[p] < last
  <2>1. after[p] \in Nat
    BY CursorNat
  <2>2. last \in P /\ last \in RuleId /\ last > after[p]
    BY <1>3
  <2> QED BY <2>1, <2>2, RuleIdNat
<1>6. FetchTypeOK'
  <2>1. all' \in [Proc -> SUBSET Rules]
    BY <1>1, <1>4
  <2>2. after' \in [Proc -> RuleId \cup {0}]
    BY <1>1, <1>5
  <2> QED BY <2>1, <2>2, FetchAssumption DEF NextPage
<1>7. ASSUME NEW q \in Proc, phase'[q] # "idle" PROVE WalkInv(q)'
  <2>1. /\ (Held(rules))' = Held(rules) /\ phase' = phase
        /\ seen' = seen /\ held' = held
    BY DEF Held, NextPage
  <2>2. WalkInv(q)
    BY <1>7, <2>1
  <2>3. CASE q = p
    <3>1. all'[p] = all[p] \cup new /\ after'[p] = last /\ phase[p] = "request"
      BY <1>1 DEF NextPage
    <3>2. \A x \in new : x[1] \in P /\ x = <<x[1], rules[x[1]]>>
      OBVIOUS
    <3>3. \A x \in all[p] : x \in Rules /\ x[1] \in Nat /\ x[1] <= after[p]
      BY <2>2, <2>3, RuleParts DEF WalkInv
    <3>4. all'[p] \subseteq seen[p]
      BY <1>4, <2>2, <2>3, <3>1 DEF WalkInv
    <3>5. \A x \in all'[p] : x[1] <= last
      BY <1>3, <1>5, <3>1, <3>2, <3>3
    <3>6. ASSUME NEW x \in held[p], x[1] <= last PROVE x \in all'[p]
      <4>1. x \in Rules /\ x = <<x[1], x[2]>> /\ x[1] \in RuleId /\ x[1] \in Nat
            /\ rules[x[1]] = x[2] /\ x[2] # NoRule
        <5>1. x \in Held(rules)
          BY <2>2, <2>3 DEF WalkInv
        <5> QED BY <5>1, RuleParts DEF Held
      <4>2. CASE x[1] <= after[p]
        BY <2>2, <2>3, <3>1, <4>2 DEF WalkInv
      <4>3. CASE ~ (x[1] <= after[p])
        <5>1. x[1] \in Later(after[p])
          BY <1>5, <4>1, <4>3 DEF Later
        <5>2. x[1] \in P
          BY <1>1, <1>2, <1>5, <3>6, <4>1, <5>1
        <5> QED BY <3>1, <4>1, <5>2
      <4> QED BY <4>2, <4>3
    <3>7. ASSUME NEW x \in all'[p], NEW y \in all'[p], x[1] = y[1] PROVE x = y
      <4>1. CASE x \in all[p] /\ y \in all[p]
        BY <2>2, <2>3, <3>7, <4>1 DEF WalkInv
      <4>2. CASE x \in new /\ y \in new
        BY <3>2, <3>7, <4>2
      <4>3. CASE x \in all[p] /\ y \in new
        BY <1>3, <1>5, <3>2, <3>3, <3>7, <4>3
      <4>4. CASE x \in new /\ y \in all[p]
        BY <1>3, <1>5, <3>2, <3>3, <3>7, <4>4
      <4> QED BY <3>1, <4>1, <4>2, <4>3, <4>4
    <3> QED
      BY <2>1, <2>2, <2>3, <3>1, <3>4, <3>5, <3>6, <3>7 DEF WalkInv
  <2>4. CASE q # p
    <3>1. all'[q] = all[q] /\ after'[q] = after[q]
      BY <1>1, <2>4
    <3> QED BY <2>1, <2>2, <3>1 DEF WalkInv
  <2> QED BY <2>3, <2>4
<1>8. ASSUME NEW q \in Proc PROVE RetryInv(q)'
  BY DEF NextPage, RetryInv
<1>9. ASSUME NEW q \in Proc, phase'[q] = "idle" PROVE all'[q] = {}
  BY <1>1, <1>9 DEF NextPage
<1> QED
  BY <1>6, <1>7, <1>8, <1>9

(* An empty page ends the walk only when no rule follows the cursor.       *)
LEMMA EmptyPageInv ==
  ASSUME FetchInv, NEW p \in Proc, EmptyPage(p)
  PROVE  FetchInv'
<1> USE DEF FetchInv, FetchTypeOK, histVars
<1>1. FetchTypeOK'
  BY FetchAssumption DEF EmptyPage, Phase
<1>2. ASSUME NEW q \in Proc, phase'[q] # "idle" PROVE WalkInv(q)'
  <2>1. /\ (Held(rules))' = Held(rules) /\ after' = after /\ all' = all
        /\ seen' = seen /\ held' = held
    BY DEF Held, EmptyPage
  <2>2. phase[q] # "idle" /\ WalkInv(q)
    BY <1>2 DEF EmptyPage
  <2>3. CASE q = p
    <3>1. Later(after[p]) = {}
      BY DEF EmptyPage, Pages
    <3>2. ASSUME NEW x \in held[p] PROVE x \in all[p]
      <4>1. x[1] \in RuleId /\ x[1] \in Nat /\ rules[x[1]] # NoRule
        <5>1. x \in Held(rules)
          BY <2>2, <2>3 DEF WalkInv
        <5> QED BY <5>1, RuleParts DEF Held
      <4>2. after[p] \in Nat
        BY CursorNat
      <4>3. x[1] <= after[p]
        BY <3>1, <4>1, <4>2 DEF Later
      <4> QED BY <2>2, <2>3, <4>3 DEF WalkInv
    <3> QED BY <2>1, <2>2, <2>3, <3>2 DEF WalkInv
  <2>4. CASE q # p
    BY <2>1, <2>2, <2>4 DEF WalkInv, EmptyPage
  <2> QED BY <2>3, <2>4
<1>3. ASSUME NEW q \in Proc PROVE RetryInv(q)'
  BY DEF EmptyPage, RetryInv
<1>4. ASSUME NEW q \in Proc, phase'[q] = "idle" PROVE all'[q] = {}
  BY <1>4 DEF EmptyPage
<1> QED
  BY <1>1, <1>2, <1>3, <1>4

(* The answers that bring no rule.                                         *)
LEMMA NoRuleInv ==
  ASSUME FetchInv, NEW p \in Proc, RateLimited(p) \/ Retry(p) \/ BadAnswer(p)
  PROVE  FetchInv'
<1> USE DEF FetchInv, FetchTypeOK, histVars, RateLimited, Retry, BadAnswer
<1>1. FetchTypeOK'
  BY FetchAssumption DEF Phase, RetryInv
<1>2. ASSUME NEW q \in Proc, phase'[q] # "idle" PROVE WalkInv(q)'
  <2>1. /\ (Held(rules))' = Held(rules) /\ after' = after /\ all' = all
        /\ seen' = seen /\ held' = held
    BY DEF Held
  <2>2. phase[q] # "idle" /\ WalkInv(q)
    BY <1>2
  <2>3. phase'[q] = "complete" => phase[q] = "complete"
    OBVIOUS
  <2> QED
    BY <2>1, <2>2, <2>3 DEF WalkInv
<1>3. ASSUME NEW q \in Proc PROVE RetryInv(q)'
  BY FetchAssumption DEF RetryInv
<1>4. ASSUME NEW q \in Proc, phase'[q] = "idle" PROVE all'[q] = {}
  BY <1>4
<1> QED
  BY <1>1, <1>2, <1>3, <1>4

LEMMA DropFetchInv ==
  ASSUME FetchInv, NEW p \in Proc, DropFetch(p)
  PROVE  FetchInv'
<1> USE DEF FetchInv, FetchTypeOK, DropFetch
<1>1. FetchTypeOK'
  BY FetchAssumption DEF Phase
<1>2. ASSUME NEW q \in Proc, phase'[q] # "idle" PROVE WalkInv(q)'
  <2>1. /\ q # p /\ (Held(rules))' = Held(rules) /\ phase'[q] = phase[q]
        /\ after'[q] = after[q] /\ all'[q] = all[q]
        /\ seen'[q] = seen[q] /\ held'[q] = held[q]
    BY <1>2 DEF Held
  <2> QED BY <1>2, <2>1 DEF WalkInv
<1>3. ASSUME NEW q \in Proc PROVE RetryInv(q)'
  BY DEF RetryInv
<1> QED
  BY <1>1, <1>2, <1>3

LEMMA FetchStepInv ==
  ASSUME FetchInv, NEW p \in Proc, FetchStep(p)
  PROVE  FetchInv'
BY NextPageInv, EmptyPageInv, NoRuleInv DEF FetchStep

LEMMA FetchStutterInv ==
  ASSUME FetchInv, UNCHANGED fetchVars
  PROVE  FetchInv'
BY DEF FetchInv, FetchTypeOK, WalkInv, RetryInv, Held, fetchVars

LEMMA FetchInductive == FetchInv /\ [FetchNext]_fetchVars => FetchInv'
<1> SUFFICES ASSUME FetchInv, [FetchNext]_fetchVars PROVE FetchInv'
  OBVIOUS
<1>1. CASE \E i \in RuleId, b \in RuleBody \cup {NoRule} : EditRule(i, b)
  BY <1>1, EditRuleInv
<1>2. CASE \E p \in Proc : BeginFetch(p) \/ FetchStep(p) \/ EndFetch(p)
  BY <1>2, BeginFetchInv, FetchStepInv, DropFetchInv DEF EndFetch
<1>3. CASE UNCHANGED fetchVars
  BY <1>3, FetchStutterInv
<1> QED BY <1>1, <1>2, <1>3 DEF FetchNext

----------------------------------------------------------------------------

LEMMA FetchInvImplies ==
  FetchInv => FetchTypeOK /\ CompleteWalk /\ OneVersion /\ GivesUpWhenExhausted
<1> SUFFICES ASSUME FetchInv
             PROVE  FetchTypeOK /\ CompleteWalk /\ OneVersion /\ GivesUpWhenExhausted
  OBVIOUS
<1> USE DEF FetchInv, FetchTypeOK
<1>1. CompleteWalk
  BY DEF CompleteWalk, WalkInv
<1>2. OneVersion
  BY DEF OneVersion, WalkInv
<1>3. ASSUME NEW p \in Proc
      PROVE  /\ phase[p] = "failed" => limited[p] \in {0, MaxRetries + 1}
             /\ phase[p] \in {"request", "backoff"} => limited[p] <= MaxRetries
  <2>1. RetryInv(p) /\ attempt[p] \in 0..MaxRetries
    OBVIOUS
  <2> QED BY <2>1, FetchAssumption DEF RetryInv
<1> QED BY <1>1, <1>2, <1>3 DEF GivesUpWhenExhausted

(* Every variable of the walk and of the API keeps its type.               *)
THEOREM FetchTypeCorrect == FetchSpec => []FetchTypeOK
BY FetchInvInit, FetchInductive, FetchInvImplies, PTL DEF FetchSpec

(* A fetch that succeeds returns every rule the API held throughout the    *)
(* walk and only rules it held at some moment of it (fetch_all).           *)
THEOREM WalkIsComplete == FetchSpec => []CompleteWalk
BY FetchInvInit, FetchInductive, FetchInvImplies, PTL DEF FetchSpec

(* No rule is received twice in one walk (the searchAfterId cursor).       *)
THEOREM WalkHasOneVersion == FetchSpec => []OneVersion
BY FetchInvInit, FetchInductive, FetchInvImplies, PTL DEF FetchSpec

(* Rate limiting stops a walk after MAX_RATE_LIMIT_RETRIES retries, never  *)
(* before and never later (fetch_page).                                    *)
THEOREM RetriesAreExact == FetchSpec => []GivesUpWhenExhausted
BY FetchInvInit, FetchInductive, FetchInvImplies, PTL DEF FetchSpec

----------------------------------------------------------------------------
(* The ruleset file, its writer and its readers.                           *)

SingleWriter ==
  \A p, q \in Proc : stage[p] # "idle" /\ stage[q] # "idle" => p = q

(* The inode being written is the one named <path>.tmp, nobody reads it,   *)
(* and it holds one ruleset as far as it is written.                       *)
WriterInv(p) ==
  /\ stage[p] \notin {"idle", "done", "error"} => want[p] \in Ruleset
  /\ fd[p] # NoInode => stage[p] = "write"
  /\ stage[p] = "write" =>
       /\ tmp # NoInode /\ fd[p] = tmp
       /\ \A b \in 1..off[p] : data[tmp][b] = want[p]
  /\ stage[p] = "rename" => tmp # NoInode /\ data[tmp] = Whole(want[p])

NamesInv ==
  /\ out # NoInode => data[out] \in WholeContents
  /\ tmp # NoInode => tmp # out /\ tmp # rfd

LoaderInv ==
  /\ rfd = NoInode => roff = 0
  /\ rfd # NoInode => /\ data[rfd] \in WholeContents
                      /\ \A b \in 1..roff : buffer[b] = data[rfd][b]
  /\ loaded \in WholeContents \cup {Empty}

FileInv ==
  /\ FileTypeOK
  /\ NamesInv
  /\ LoaderInv
  /\ \A p \in Proc : WriterInv(p)

----------------------------------------------------------------------------
(* Contents.                                                               *)

LEMMA ContentFacts ==
  /\ Empty \in Content
  /\ \A r \in Ruleset : Whole(r) \in Content
  /\ WholeContents \subseteq Content
  /\ Empty \notin WholeContents
<1>1. 1 \in Block
  BY FileAssumption DEF Block
<1>2. Empty[1] = NoData /\ \A r \in Ruleset : Whole(r)[1] = r
  BY <1>1 DEF Empty, Whole
<1>3. \A r \in Ruleset : Whole(r) # Empty
  BY <1>2, FileAssumption
<1> QED
  BY <1>3 DEF Empty, Whole, WholeContents, Content

LEMMA FileInvInit == FileInit => FileInv /\ SingleWriter
BY FileAssumption, ContentFacts
   DEF FileInit, FileInv, FileTypeOK, NamesInv, LoaderInv, WriterInv, Stage,
       SingleWriter

----------------------------------------------------------------------------
(* The writer.                                                             *)

LEMMA WriterFrame ==
  ASSUME NEW q \in Proc, WriterInv(q),
         stage'[q] = stage[q], fd'[q] = fd[q], want'[q] = want[q],
         off'[q] = off[q], tmp' = tmp, data' = data
  PROVE  WriterInv(q)'
BY DEF WriterInv, Whole

LEMMA BeginWriteInv ==
  ASSUME FileInv, NEW p \in Proc, NEW r \in Ruleset, BeginWrite(p, r)
  PROVE  FileInv'
<1> USE DEF FileInv, FileTypeOK, BeginWrite, diskVars, loaderVars
<1>1. FileTypeOK'
  BY DEF Stage
<1>2. NamesInv' /\ LoaderInv'
  BY DEF NamesInv, LoaderInv
<1>3. ASSUME NEW q \in Proc PROVE WriterInv(q)'
  BY DEF WriterInv
<1> QED BY <1>1, <1>2, <1>3

(* The inode that is emptied is neither the file nor the one being read.   *)
LEMMA OpenTmpInv ==
  ASSUME FileInv, SingleWriter, NEW p \in Proc, OpenTmp(p)
  PROVE  FileInv'
<1> USE DEF FileInv, FileTypeOK, loaderVars
<1>1. PICK i \in Inode :
        /\ IF tmp = NoInode THEN i \in FreeInodes ELSE i = tmp
        /\ tmp' = i
        /\ data' = [data EXCEPT ![i] = Empty]
        /\ fd' = [fd EXCEPT ![p] = i]
  BY DEF OpenTmp
<1>2. i # out /\ i # rfd /\ i # NoInode
  BY <1>1, FileAssumption DEF FreeInodes, NamesInv
<1>3. data' \in [Inode -> Content]
  BY <1>1, ContentFacts
<1>4. FileTypeOK'
  BY <1>1, <1>3, FileAssumption DEF OpenTmp, Stage
<1>5. \A j \in Inode : j # i => data'[j] = data[j]
  BY <1>1
<1>6. NamesInv'
  BY <1>1, <1>2, <1>5 DEF NamesInv, OpenTmp
<1>7. LoaderInv'
  BY <1>1, <1>2, <1>5 DEF LoaderInv, OpenTmp
<1>8. ASSUME NEW q \in Proc PROVE WriterInv(q)'
  <2>1. CASE q = p
    BY <1>1, <1>2, <2>1 DEF OpenTmp, WriterInv
  <2>2. CASE q # p
    <3>1. stage[q] = "idle" /\ stage'[q] = "idle" /\ fd'[q] = fd[q]
      BY <1>1, <2>2 DEF OpenTmp, SingleWriter
    <3> QED BY <3>1 DEF WriterInv
  <2> QED BY <2>1, <2>2
<1> QED BY <1>4, <1>6, <1>7, <1>8

LEMMA WriteBlockInv ==
  ASSUME FileInv, SingleWriter, NEW p \in Proc, WriteBlock(p)
  PROVE  FileInv'
<1> USE DEF FileInv, FileTypeOK, loaderVars
<1>1. /\ stage[p] = "write" /\ fd[p] = tmp /\ tmp \in Inode /\ want[p] \in Ruleset
      /\ tmp # out /\ tmp # rfd
      /\ off[p] \in Nat /\ off[p] + 1 \in Block
      /\ \A b \in 1..off[p] : data[tmp][b] = want[p]
  BY FileAssumption DEF WriteBlock, WriterInv, NamesInv, Block
<1> DEFINE c == [data[tmp] EXCEPT ![off[p] + 1] = want[p]]
<1>2. c \in Content /\ data' = [data EXCEPT ![tmp] = c]
  BY <1>1 DEF WriteBlock, Content
<1>3. /\ data'[tmp] = c
      /\ \A j \in Inode : j # tmp => data'[j] = data[j]
  BY <1>1, <1>2
<1>4. FileTypeOK'
  BY <1>1, <1>2, FileAssumption DEF WriteBlock, Block
<1>5. NamesInv' /\ LoaderInv'
  BY <1>1, <1>3 DEF WriteBlock, NamesInv, LoaderInv
<1>6. \A b \in 1..(off[p] + 1) : c[b] = want[p]
  <2>1. data[tmp] \in Content
    BY <1>1
  <2> QED BY <1>1, <2>1, FileAssumption DEF Content, Block
<1>7. ASSUME NEW q \in Proc PROVE WriterInv(q)'
  <2>1. CASE q = p
    BY <1>1, <1>3, <1>6, <2>1 DEF WriteBlock, WriterInv
  <2>2. CASE q # p
    <3>1. stage[q] = "idle" /\ stage'[q] = "idle" /\ fd'[q] = fd[q]
      BY <1>1, <2>2 DEF WriteBlock, SingleWriter
    <3> QED BY <3>1 DEF WriterInv
  <2> QED BY <2>1, <2>2
<1> QED BY <1>4, <1>5, <1>7

LEMMA CloseTmpInv ==
  ASSUME FileInv, NEW p \in Proc, CloseTmp(p)
  PROVE  FileInv'
<1> USE DEF FileInv, FileTypeOK, CloseTmp, diskVars, loaderVars
<1>1. FileTypeOK'
  BY DEF Stage
<1>2. NamesInv' /\ LoaderInv'
  BY DEF NamesInv, LoaderInv
<1>3. ASSUME NEW q \in Proc PROVE WriterInv(q)'
  <2>1. CASE q = p
    <3>1. /\ tmp \in Inode /\ tmp # NoInode /\ want[p] \in Ruleset
          /\ \A b \in Block : data[tmp][b] = want[p]
      BY DEF WriterInv, Block
    <3>2. data[tmp] \in Content
      BY <3>1
    <3>3. data[tmp] = Whole(want[p])
      BY <3>1, <3>2 DEF Content, Whole
    <3> QED BY <2>1, <3>1, <3>3 DEF WriterInv, Whole
  <2>2. CASE q # p
    BY <2>2 DEF WriterInv
  <2> QED BY <2>1, <2>2
<1> QED BY <1>1, <1>2, <1>3

LEMMA RenameInv ==
  ASSUME FileInv, SingleWriter, NEW p \in Proc, Rename(p)
  PROVE  FileInv' /\ data' = data /\ out' = tmp /\ data[tmp] = Whole(want[p])
         /\ want[p] \in Ruleset /\ tmp # NoInode
<1> USE DEF FileInv, FileTypeOK, Rename, loaderVars
<1>1. want[p] \in Ruleset /\ tmp # NoInode /\ data[tmp] = Whole(want[p])
  BY DEF WriterInv
<1>2. FileTypeOK'
  BY DEF Stage
<1>3. NamesInv' /\ LoaderInv'
  BY <1>1 DEF NamesInv, LoaderInv, WholeContents
<1>4. ASSUME NEW q \in Proc PROVE WriterInv(q)'
  <2>1. CASE q = p
    BY <2>1 DEF WriterInv
  <2>2. CASE q # p
    <3>1. stage[q] = "idle" /\ stage'[q] = "idle" /\ fd'[q] = fd[q]
      BY <2>2 DEF SingleWriter
    <3> QED BY <3>1 DEF WriterInv
  <2> QED BY <2>1, <2>2
<1> QED BY <1>1, <1>2, <1>3, <1>4

LEMMA FailedWriteInv ==
  ASSUME FileInv, NEW p \in Proc, RenameMissing(p) \/ IOError(p)
  PROVE  FileInv'
<1> USE DEF FileInv, FileTypeOK, RenameMissing, IOError, diskVars, loaderVars
<1>1. FileTypeOK'
  BY FileAssumption DEF Stage
<1>2. NamesInv' /\ LoaderInv'
  BY DEF NamesInv, LoaderInv
<1>3. ASSUME NEW q \in Proc PROVE WriterInv(q)'
  <2>1. CASE q = p
    <3>1. fd'[p] = NoInode /\ stage'[p] \in {"idle", "done", "error"}
      BY <2>1 DEF WriterInv
    <3> QED BY <2>1, <3>1 DEF WriterInv
  <2>2. CASE q # p
    <3>1. /\ stage'[q] = stage[q] /\ fd'[q] = fd[q] /\ want'[q] = want[q]
          /\ off'[q] = off[q] /\ tmp' = tmp /\ data' = data
      BY <2>2
    <3> QED BY <3>1, WriterFrame
  <2> QED BY <2>1, <2>2
<1> QED BY <1>1, <1>2, <1>3

LEMMA DropWriteInv ==
  ASSUME FileInv, NEW p \in Proc, EndWrite(p) \/ KillWrite(p)
  PROVE  FileInv'
<1> USE DEF FileInv, FileTypeOK, EndWrite, KillWrite, DropWrite, diskVars,
        loaderVars
<1>1. FileTypeOK'
  BY FileAssumption DEF Stage
<1>2. NamesInv' /\ LoaderInv'
  BY DEF NamesInv, LoaderInv
<1>3. ASSUME NEW q \in Proc PROVE WriterInv(q)'
  <2>1. CASE q = p
    <3>1. fd'[p] = NoInode /\ stage'[p] \in {"idle", "done", "error"}
      BY <2>1 DEF WriterInv
    <3> QED BY <2>1, <3>1 DEF WriterInv
  <2>2. CASE q # p
    <3>1. /\ stage'[q] = stage[q] /\ fd'[q] = fd[q] /\ want'[q] = want[q]
          /\ off'[q] = off[q] /\ tmp' = tmp /\ data' = data
      BY <2>2
    <3> QED BY <3>1, WriterFrame
  <2> QED BY <2>1, <2>2
<1> QED BY <1>1, <1>2, <1>3

LEMMA WriteStepInv ==
  ASSUME FileInv, SingleWriter, NEW p \in Proc, WriteStep(p)
  PROVE  FileInv'
BY OpenTmpInv, WriteBlockInv, CloseTmpInv, RenameInv, FailedWriteInv
   DEF WriteStep

----------------------------------------------------------------------------
(* The loader.                                                             *)

LEMMA BeginLoadInv ==
  ASSUME FileInv, BeginLoad
  PROVE  FileInv'
<1> USE DEF FileInv, FileTypeOK, BeginLoad, diskVars, writerVars
<1>1. FileTypeOK'
  OBVIOUS
<1>2. NamesInv'
  BY DEF NamesInv
<1>3. LoaderInv'
  BY DEF NamesInv, LoaderInv
<1>4. ASSUME NEW q \in Proc PROVE WriterInv(q)'
  BY DEF WriterInv, Whole
<1> QED BY <1>1, <1>2, <1>3, <1>4

LEMMA ReadBlockInv ==
  ASSUME FileInv, ReadBlock
  PROVE  FileInv'
<1> USE DEF FileInv, FileTypeOK, ReadBlock, diskVars, writerVars
<1>1. rfd \in Inode /\ data[rfd] \in Content /\ roff \in Nat /\ roff + 1 \in Block
  BY FileAssumption DEF Block
<1>2. buffer' \in Content
  BY <1>1 DEF Content
<1>3. FileTypeOK'
  BY <1>1, <1>2, FileAssumption DEF Block
<1>4. NamesInv'
  BY DEF NamesInv
<1>5. \A b \in 1..(roff + 1) : buffer'[b] = data[rfd][b]
  <2>1. buffer \in Content /\ \A b \in 1..roff : buffer[b] = data[rfd][b]
    BY DEF LoaderInv
  <2> QED BY <1>1, <2>1 DEF Content, Block
<1>6. LoaderInv'
  BY <1>5 DEF LoaderInv
<1>7. ASSUME NEW q \in Proc PROVE WriterInv(q)'
  BY DEF WriterInv, Whole
<1> QED BY <1>3, <1>4, <1>6, <1>7

LEMMA EndLoadInv ==
  ASSUME FileInv, EndLoad
  PROVE  FileInv' /\ loaded' = data[rfd]
<1> USE DEF FileInv, FileTypeOK, EndLoad, diskVars, writerVars
<1>1. rfd \in Inode /\ data[rfd] \in WholeContents /\ data[rfd] \in Content
  BY DEF LoaderInv
<1>2. \A b \in Block : buffer[b] = data[rfd][b]
  BY DEF LoaderInv, Block
<1>3. buffer = data[rfd]
  BY <1>1, <1>2 DEF Content
<1>4. FileTypeOK'
  BY ContentFacts, FileAssumption
<1>5. NamesInv'
  BY FileAssumption DEF NamesInv
<1>6. LoaderInv'
  BY <1>1, <1>3 DEF LoaderInv
<1>7. ASSUME NEW q \in Proc PROVE WriterInv(q)'
  BY DEF WriterInv, Whole
<1> QED BY <1>3, <1>4, <1>5, <1>6, <1>7

LEMMA LoadStepInv ==
  ASSUME FileInv, LoadStep
  PROVE  FileInv'
BY BeginLoadInv, ReadBlockInv, EndLoadInv DEF LoadStep

LEMMA FileStutterInv ==
  ASSUME FileInv, UNCHANGED fileVars
  PROVE  FileInv'
<1>1. FileTypeOK'
  BY DEF FileInv, FileTypeOK, fileVars
<1>2. NamesInv' /\ LoaderInv'
  BY DEF FileInv, NamesInv, LoaderInv, fileVars
<1>3. ASSUME NEW q \in Proc PROVE WriterInv(q)'
  BY DEF FileInv, WriterInv, fileVars, Whole
<1> QED BY <1>1, <1>2, <1>3 DEF FileInv

----------------------------------------------------------------------------
(* A specification whose processes do not overlap keeps SingleWriter.      *)

LEMMA SingleWriterStep ==
  ASSUME SingleWriter, FileTypeOK, NEW p \in Proc,
         \/ WriteStep(p)
         \/ EndWrite(p)
         \/ stage[p] # "idle" /\ KillWrite(p)
  PROVE  SingleWriter'
<1>1. stage[p] # "idle"
  BY DEF WriteStep, OpenTmp, WriteBlock, CloseTmp, Rename, RenameMissing,
         IOError, EndWrite
<1>2. \A q \in Proc : q # p => stage'[q] = stage[q]
  BY DEF FileTypeOK, WriteStep, OpenTmp, WriteBlock, CloseTmp, Rename,
         RenameMissing, IOError, EndWrite, KillWrite, DropWrite
<1> QED BY <1>1, <1>2 DEF SingleWriter

LEMMA FileInductive ==
  ASSUME ~ Overlap
  PROVE  FileInv /\ SingleWriter /\ [FileNext]_fileVars
           => FileInv' /\ SingleWriter'
<1> SUFFICES ASSUME FileInv, SingleWriter, [FileNext]_fileVars
             PROVE  FileInv' /\ SingleWriter'
  OBVIOUS
<1>1. ASSUME NEW p \in Proc, NEW r \in Ruleset,
             Overlap \/ \A q \in Proc : stage[q] = "idle", BeginWrite(p, r)
      PROVE  FileInv' /\ SingleWriter'
  <2>1. FileInv'
    BY <1>1, BeginWriteInv
  <2>2. SingleWriter'
    BY <1>1 DEF BeginWrite, SingleWriter, FileInv, FileTypeOK
  <2> QED BY <2>1, <2>2
<1>2. ASSUME NEW p \in Proc, WriteStep(p)
      PROVE  FileInv' /\ SingleWriter'
  <2>1. FileInv'
    BY <1>2, WriteStepInv
  <2>2. SingleWriter'
    BY <1>2, SingleWriterStep DEF FileInv
  <2> QED BY <2>1, <2>2
<1>3. ASSUME NEW p \in Proc, EndWrite(p) \/ (stage[p] # "idle" /\ KillWrite(p))
      PROVE  FileInv' /\ SingleWriter'
  <2>1. FileInv'
    BY <1>3, DropWriteInv
  <2>2. SingleWriter'
    <3>1. FileTypeOK
      BY DEF FileInv
    <3>2. CASE EndWrite(p)
      BY <3>1, <3>2, SingleWriterStep
    <3>3. CASE stage[p] # "idle" /\ KillWrite(p)
      BY <3>1, <3>3, SingleWriterStep
    <3> QED BY <1>3, <3>2, <3>3
  <2> QED BY <2>1, <2>2
<1>4. CASE LoadStep
  <2>1. FileInv'
    BY <1>4, LoadStepInv
  <2>2. stage' = stage
    BY <1>4 DEF LoadStep, BeginLoad, ReadBlock, EndLoad, writerVars
  <2> QED BY <2>1, <2>2 DEF SingleWriter
<1>5. CASE UNCHANGED fileVars
  BY <1>5, FileStutterInv DEF fileVars, SingleWriter
<1>6. CASE FileNext
  BY <1>1, <1>2, <1>3, <1>4, <1>6, Zenon DEF FileNext
<1> QED
  BY <1>5, <1>6

LEMMA FileInvImplies ==
  FileInv => FileTypeOK /\ FileIsWhole /\ NeverHalfWritten
<1> SUFFICES ASSUME FileInv PROVE FileIsWhole /\ NeverHalfWritten
  BY DEF FileInv
<1>1. FileIsWhole
  BY DEF FileInv, NamesInv, FileIsWhole
<1>2. ASSUME rfd # NoInode PROVE \E r \in Ruleset : \A b \in 1..roff : buffer[b] = r
  <2>1. PICK r \in Ruleset : data[rfd] = Whole(r)
    BY <1>2 DEF FileInv, LoaderInv, WholeContents
  <2>2. \A b \in 1..roff : b \in Block
    BY FileAssumption DEF FileInv, FileTypeOK, Block
  <2>3. \A b \in 1..roff : buffer[b] = r
    BY <1>2, <2>1, <2>2 DEF FileInv, LoaderInv, Whole
  <2> QED BY <2>3
<1> QED BY <1>1, <1>2 DEF NeverHalfWritten, FileInv, LoaderInv

(* Every variable of the file, its writers and its loader keeps its type.  *)
THEOREM FileTypeCorrect ==
  ASSUME ~ Overlap
  PROVE  FileSpec => []FileTypeOK
BY FileInvInit, FileInductive, FileInvImplies, PTL DEF FileSpec

(* The file is always one whole ruleset (write_atomic).                    *)
THEOREM FileStaysWhole ==
  ASSUME ~ Overlap
  PROVE  FileSpec => []FileIsWhole
BY FileInvInit, FileInductive, FileInvImplies, PTL DEF FileSpec

(* The plugin never reads a half-written file (write_atomic).              *)
THEOREM LoaderReadsWhole ==
  ASSUME ~ Overlap
  PROVE  FileSpec => []NeverHalfWritten
BY FileInvInit, FileInductive, FileInvImplies, PTL DEF FileSpec

----------------------------------------------------------------------------
(* The refinement: each step of the file is a step of the register, or     *)
(* changes nothing the plugin can see.                                     *)

RegisterStutter == UNCHANGED <<FileContent, Opened, loaded>>

LEMMA RegisterInitially == FileInit => Register!RegisterInit
BY DEF FileInit, Register!RegisterInit, FileContent, Opened

LEMMA WriterIsInvisible ==
  ASSUME FileInv, SingleWriter, NEW p \in Proc, WriteStep(p), ~ Rename(p)
  PROVE  RegisterStutter
<1> USE DEF FileInv, FileTypeOK, diskVars, loaderVars
<1>1. CASE OpenTmp(p)
  <2>1. PICK i \in Inode :
          /\ IF tmp = NoInode THEN i \in FreeInodes ELSE i = tmp
          /\ data' = [data EXCEPT ![i] = Empty]
    BY <1>1 DEF OpenTmp
  <2>2. i # out /\ i # rfd
    BY <2>1 DEF FreeInodes, NamesInv
  <2> QED
    BY <1>1, <2>1, <2>2 DEF OpenTmp, RegisterStutter, FileContent, Opened
<1>2. CASE WriteBlock(p)
  <2>1. fd[p] # out /\ fd[p] # rfd
    BY <1>2 DEF WriteBlock, WriterInv, NamesInv
  <2> QED
    BY <1>2, <2>1 DEF WriteBlock, RegisterStutter, FileContent, Opened
<1>3. CASE CloseTmp(p) \/ RenameMissing(p) \/ IOError(p)
  BY <1>3 DEF CloseTmp, RenameMissing, IOError, RegisterStutter, FileContent,
              Opened
<1> QED BY <1>1, <1>2, <1>3 DEF WriteStep

LEMMA RenamePublishes ==
  ASSUME FileInv, SingleWriter, NEW p \in Proc, Rename(p)
  PROVE  /\ FileContent' = Whole(want[p]) /\ want[p] \in Ruleset
         /\ Opened' = Opened /\ loaded' = loaded
BY RenameInv DEF Rename, FileContent, Opened, loaderVars

LEMMA LoadRefines ==
  ASSUME FileInv, LoadStep
  PROVE  Register!Open \/ Register!Load \/ RegisterStutter
<1>1. CASE BeginLoad
  <2>1. data[out] # Empty
    BY <1>1, ContentFacts DEF BeginLoad, FileInv, NamesInv
  <2> QED
    BY <1>1, <2>1
       DEF BeginLoad, Register!Open, FileContent, Opened, diskVars, FileInv,
           FileTypeOK
<1>2. CASE ReadBlock
  BY <1>2 DEF ReadBlock, RegisterStutter, FileContent, Opened, diskVars
<1>3. CASE EndLoad
  <2>1. data[rfd] # Empty /\ loaded' = data[rfd]
    BY <1>3, EndLoadInv, ContentFacts DEF EndLoad, FileInv, LoaderInv
  <2> QED
    BY <1>3, <2>1
       DEF EndLoad, Register!Load, FileContent, Opened, diskVars
<1> QED BY <1>1, <1>2, <1>3 DEF LoadStep

LEMMA RegisterStep ==
  ASSUME ~ Overlap
  PROVE  FileInv /\ SingleWriter /\ [FileNext]_fileVars
           => [Register!RegisterNext]_(Register!registerVars)
<1> SUFFICES ASSUME FileInv, SingleWriter, [FileNext]_fileVars
             PROVE  Register!RegisterNext \/ RegisterStutter
  BY DEF Register!registerVars, RegisterStutter
<1>1. CASE \E p \in Proc, r \in Ruleset : BeginWrite(p, r)
  BY <1>1 DEF BeginWrite, RegisterStutter, FileContent, Opened, diskVars,
              loaderVars
<1>2. CASE \E p \in Proc : WriteStep(p)
  <2>1. PICK p \in Proc : WriteStep(p)
    BY <1>2
  <2>2. CASE Rename(p)
    BY <2>2, RenamePublishes
       DEF Register!RegisterNext, Register!Publish, WholeContents
  <2> QED BY <2>1, <2>2, WriterIsInvisible
<1>3. CASE \E p \in Proc : EndWrite(p) \/ KillWrite(p)
  BY <1>3 DEF EndWrite, KillWrite, DropWrite, RegisterStutter, FileContent,
              Opened, diskVars, loaderVars
<1>4. CASE LoadStep
  BY <1>4, LoadRefines DEF Register!RegisterNext
<1>5. CASE UNCHANGED fileVars
  BY <1>5 DEF fileVars, RegisterStutter, FileContent, Opened
<1> QED BY <1>1, <1>2, <1>3, <1>4, <1>5 DEF FileNext

(* The ruleset file implements the atomic register the README promises.    *)
THEOREM FileImplementsRegister ==
  ASSUME ~ Overlap
  PROVE  FileSpec => ImplementsRegister
BY FileInvInit, FileInductive, RegisterInitially, RegisterStep, PTL
   DEF FileSpec, ImplementsRegister, Register!RegisterSpec

----------------------------------------------------------------------------
(* The process that does both, cycle after cycle.                          *)

OneProcess ==
  \A p, q \in Proc : status[p] # "down" /\ status[q] # "down" => p = q

(* The parts of a process go together: it has a walk exactly while it is   *)
(* in a cycle, it writes only the redirects of a walk that is complete,    *)
(* and until it renames, the file is what it was when the cycle began.     *)
CycleInv(p) ==
  /\ status[p] = "cycle" <=> phase[p] # "idle"
  /\ stage[p] # "idle" => phase[p] = "complete" /\ want[p] = Translated(all[p])
  /\ status[p] = "cycle" /\ stage[p] # "done" => FileContent = before[p]

SyncInv ==
  /\ FetchInv /\ FileInv /\ SyncTypeOK
  /\ OneProcess
  /\ \A p \in Proc : CycleInv(p)

----------------------------------------------------------------------------

LEMMA SyncInvInit == Init => SyncInv
<1> SUFFICES ASSUME Init PROVE SyncInv
  OBVIOUS
<1>1. FetchInv /\ FileInv
  BY FetchInvInit, FileInvInit DEF Init
<1>2. SyncTypeOK /\ OneProcess
  BY SyncAssumption, ContentFacts DEF Init, SyncTypeOK, OneProcess
<1>3. \A p \in Proc : CycleInv(p)
  BY DEF Init, FetchInit, FileInit, CycleInv
<1> QED BY <1>1, <1>2, <1>3 DEF SyncInv

LEMMA AtMostOneWriter == SyncInv => SingleWriter
BY DEF SyncInv, SyncTypeOK, OneProcess, CycleInv, SingleWriter

LEMMA FileContentType == FileInv => FileContent \in Content
BY ContentFacts DEF FileInv, FileTypeOK, FileContent

LEMMA TranslatedType ==
  ASSUME NEW S \in SUBSET Rules
  PROVE  Translated(S) \in Ruleset
<1>1. \A x \in Translated(S) : x \in RuleId \X Redirect
  <2> SUFFICES ASSUME NEW x \in Translated(S) PROVE x \in RuleId \X Redirect
    OBVIOUS
  <2>1. x \in Rules /\ x[2] \in Redirect
    BY DEF Translated
  <2> QED BY <2>1, RuleParts
<1> QED BY <1>1, SyncAssumption

(* A process that does not move keeps its part, if the file stays.         *)
LEMMA CycleFrame ==
  ASSUME NEW q \in Proc, CycleInv(q), FileContent' = FileContent,
         status'[q] = status[q], phase'[q] = phase[q], all'[q] = all[q],
         stage'[q] = stage[q], want'[q] = want[q], before'[q] = before[q]
  PROVE  CycleInv(q)'
BY DEF CycleInv, Translated

LEMMA BeginCycleInv ==
  ASSUME SyncInv, NEW p \in Proc, BeginCycle(p), status[p] # "cycle",
         \A q \in Proc : status[q] # "down" => q = p
  PROVE  SyncInv'
<1> USE DEF BeginCycle
<1>1. FetchInv' /\ FileInv'
  BY BeginFetchInv, FileStutterInv DEF SyncInv
<1>2. SyncTypeOK' /\ OneProcess'
  BY FileContentType DEF SyncInv, SyncTypeOK, OneProcess
<1>3. FileContent' = FileContent
  BY DEF fileVars, FileContent
<1>4. /\ stage' = stage /\ want' = want
      /\ stage[p] = "idle"
  BY DEF fileVars, SyncInv, CycleInv
<1>5. ASSUME NEW q \in Proc PROVE CycleInv(q)'
  <2>1. CASE q = p
    BY <1>3, <1>4, <2>1
       DEF BeginFetch, CycleInv, SyncInv, SyncTypeOK, FetchInv, FetchTypeOK
  <2>2. CASE q # p
    <3>1. /\ status'[q] = status[q] /\ phase'[q] = phase[q]
          /\ all'[q] = all[q] /\ before'[q] = before[q]
      BY <2>2 DEF BeginFetch, SyncInv, SyncTypeOK, FetchInv, FetchTypeOK
    <3> QED BY <1>3, <1>4, <3>1, CycleFrame DEF SyncInv
  <2> QED BY <2>1, <2>2
<1> QED BY <1>1, <1>2, <1>5 DEF SyncInv

LEMMA StartInv ==
  ASSUME ~ Overlap, SyncInv, NEW p \in Proc, Start(p)
  PROVE  SyncInv'
BY BeginCycleInv DEF Start

LEMMA WakeInv ==
  ASSUME SyncInv, NEW p \in Proc, Wake(p)
  PROVE  SyncInv'
<1>1. \A q \in Proc : status[q] # "down" => q = p
  BY DEF Wake, SyncInv, OneProcess
<1> QED BY <1>1, BeginCycleInv DEF Wake

(* An answer of the API moves a walk that is not complete, so nothing is   *)
(* being written.                                                          *)
LEMMA AnsweredInv ==
  ASSUME SyncInv, NEW p \in Proc, Answered(p) \/ Answered429(p)
  PROVE  SyncInv'
<1>1. FetchStep(p) /\ UNCHANGED fileVars /\ status' = status /\ before' = before
  BY DEF Answered, Answered429, FetchStep, syncVars
<1>2. FetchInv' /\ FileInv'
  BY <1>1, FetchStepInv, FileStutterInv DEF SyncInv
<1>3. SyncTypeOK' /\ OneProcess'
  BY <1>1, SyncAssumption
     DEF Answered, Answered429, syncVars, SyncInv, SyncTypeOK, OneProcess
<1>4. FileContent' = FileContent /\ stage' = stage /\ want' = want
  BY <1>1 DEF fileVars, FileContent
<1>5. /\ phase[p] \in {"request", "backoff"} /\ phase'[p] # "idle"
      /\ \A q \in Proc : q # p => phase'[q] = phase[q] /\ all'[q] = all[q]
  BY <1>1 DEF FetchStep, NextPage, EmptyPage, RateLimited, Retry, BadAnswer,
              SyncInv, FetchInv, FetchTypeOK, histVars
<1>6. ASSUME NEW q \in Proc PROVE CycleInv(q)'
  <2>1. CASE q = p
    BY <1>1, <1>4, <1>5, <2>1 DEF SyncInv, CycleInv
  <2>2. CASE q # p
    BY <1>1, <1>4, <1>5, <2>2, CycleFrame DEF SyncInv
  <2> QED BY <2>1, <2>2
<1> QED BY <1>2, <1>3, <1>6 DEF SyncInv

(* A process that drops its walk and its write is out of its cycle.        *)
LEMMA LeaveInv ==
  ASSUME SyncInv, NEW p \in Proc, DropFetch(p), FileInv',
         FileContent' = FileContent, stage'[p] = "idle",
         \A q \in Proc : q # p => stage'[q] = stage[q] /\ want'[q] = want[q],
         NEW s \in {"down", "asleep"},
         status' = [status EXCEPT ![p] = s],
         before' = [before EXCEPT ![p] = Empty],
         UNCHANGED limits,
         s = "asleep" => status[p] # "down"
  PROVE  SyncInv'
<1>1. FetchInv'
  BY DropFetchInv DEF SyncInv
<1>2. SyncTypeOK' /\ OneProcess'
  BY ContentFacts DEF SyncInv, SyncTypeOK, OneProcess
<1>3. ASSUME NEW q \in Proc PROVE CycleInv(q)'
  <2>1. CASE q = p
    BY <2>1 DEF DropFetch, CycleInv, SyncInv, SyncTypeOK, FetchInv, FetchTypeOK
  <2>2. CASE q # p
    <3>1. /\ status'[q] = status[q] /\ phase'[q] = phase[q]
          /\ all'[q] = all[q] /\ before'[q] = before[q]
      BY <2>2 DEF DropFetch, SyncInv, SyncTypeOK, FetchInv, FetchTypeOK
    <3> QED BY <2>2, <3>1, CycleFrame DEF SyncInv
  <2> QED BY <2>1, <2>2
<1> QED BY <1>1, <1>2, <1>3 DEF SyncInv

LEMMA FailedBeforeWriteInv ==
  ASSUME SyncInv, NEW p \in Proc, FetchFailed(p) \/ TranslateFailed(p)
  PROVE  SyncInv' /\ FileContent' = FileContent
<1>1. /\ DropFetch(p) /\ Return(p) /\ UNCHANGED fileVars /\ status[p] = "cycle"
      /\ phase[p] = "failed" \/ stage[p] = "idle"
  BY DEF FetchFailed, TranslateFailed, EndFetch
<1>2. stage[p] = "idle"
  BY <1>1 DEF SyncInv, CycleInv
<1>3. /\ FileInv' /\ FileContent' = FileContent /\ stage' = stage /\ want' = want
  BY <1>1, FileStutterInv DEF SyncInv, fileVars, FileContent
<1>4. CASE p \in OneShot
  BY <1>1, <1>2, <1>3, <1>4, LeaveInv DEF Return
<1>5. CASE p \notin OneShot
  BY <1>1, <1>2, <1>3, <1>5, LeaveInv DEF Return
<1> QED BY <1>3, <1>4, <1>5

LEMMA TranslateInv ==
  ASSUME SyncInv, NEW p \in Proc, Translate(p)
  PROVE  SyncInv'
<1> DEFINE r == Translated(all[p])
<1>1. BeginWrite(p, r) /\ UNCHANGED <<fetchVars, syncVars>>
  BY DEF Translate
<1>2. r \in Ruleset
  BY TranslatedType DEF SyncInv, FetchInv, FetchTypeOK
<1>3. FetchInv' /\ FileInv'
  BY <1>1, <1>2, BeginWriteInv, FetchStutterInv DEF SyncInv
<1>4. SyncTypeOK' /\ OneProcess'
  BY <1>1 DEF syncVars, SyncInv, SyncTypeOK, OneProcess
<1>5. /\ FileContent' = FileContent /\ phase' = phase /\ all' = all
      /\ status' = status /\ before' = before
  BY <1>1 DEF BeginWrite, diskVars, FileContent, fetchVars, syncVars
<1>6. /\ stage'[p] = "open" /\ want'[p] = r /\ phase[p] = "complete"
      /\ stage[p] = "idle"
      /\ \A q \in Proc : q # p => stage'[q] = stage[q] /\ want'[q] = want[q]
  BY <1>1 DEF BeginWrite, Translate, SyncInv, FileInv, FileTypeOK
<1>7. ASSUME NEW q \in Proc PROVE CycleInv(q)'
  <2>1. CASE q = p
    BY <1>5, <1>6, <2>1 DEF SyncInv, CycleInv, Translated
  <2>2. CASE q # p
    BY <1>5, <1>6, <2>2, CycleFrame DEF SyncInv
  <2> QED BY <2>1, <2>2
<1> QED BY <1>3, <1>4, <1>7 DEF SyncInv

(* Until the rename, and at a failing one, the file is as it was.          *)
LEMMA WriteInv ==
  ASSUME SyncInv, NEW p \in Proc, Write(p)
  PROVE  SyncInv'
<1>1. /\ WriteStep(p) /\ UNCHANGED <<fetchVars, syncVars>> /\ status[p] = "cycle"
      /\ SingleWriter /\ FileInv
  BY AtMostOneWriter DEF Write, SyncInv
<1>2. FetchInv' /\ FileInv'
  BY <1>1, WriteStepInv, FetchStutterInv DEF SyncInv
<1>3. SyncTypeOK' /\ OneProcess'
  BY <1>1 DEF syncVars, SyncInv, SyncTypeOK, OneProcess
<1>4. phase' = phase /\ all' = all /\ status' = status /\ before' = before
  BY <1>1 DEF fetchVars, syncVars
<1>5. /\ want' = want /\ stage[p] \notin {"idle", "done"} /\ stage'[p] # "idle"
      /\ \A q \in Proc : q # p => stage'[q] = stage[q]
  BY <1>1 DEF WriteStep, OpenTmp, WriteBlock, CloseTmp, Rename, RenameMissing,
              IOError, FileInv, FileTypeOK
<1>6. FileContent' = FileContent \/ stage'[p] = "done"
  <2>1. CASE Rename(p)
    BY <2>1 DEF Rename, FileInv, FileTypeOK, SyncInv
  <2>2. CASE ~ Rename(p)
    BY <1>1, <2>2, WriterIsInvisible DEF RegisterStutter
  <2> QED BY <2>1, <2>2
<1>7. ASSUME NEW q \in Proc PROVE CycleInv(q)'
  <2>1. CASE q = p
    BY <1>4, <1>5, <1>6, <2>1 DEF SyncInv, CycleInv, Translated
  <2>2. CASE q # p
    <3>1. status[q] # "cycle" /\ stage[q] = "idle"
      BY <1>1, <1>5, <2>2 DEF SyncInv, OneProcess, SingleWriter
    <3> QED BY <1>4, <1>5, <2>2, <3>1 DEF SyncInv, CycleInv
  <2> QED BY <2>1, <2>2
<1> QED BY <1>2, <1>3, <1>7 DEF SyncInv

LEMMA WrittenInv ==
  ASSUME SyncInv, NEW p \in Proc, Written(p)
  PROVE  SyncInv' /\ FileContent' = FileContent
<1>1. DropFetch(p) /\ Return(p) /\ EndWrite(p) /\ status[p] = "cycle"
  BY DEF Written, EndFetch
<1>2. FileInv'
  BY <1>1, DropWriteInv DEF SyncInv
<1>3. /\ FileContent' = FileContent /\ stage'[p] = "idle"
      /\ \A q \in Proc : q # p => stage'[q] = stage[q] /\ want'[q] = want[q]
  BY <1>1 DEF EndWrite, DropWrite, diskVars, FileContent, SyncInv, FileInv,
              FileTypeOK
<1>4. CASE p \in OneShot
  BY <1>1, <1>2, <1>3, <1>4, LeaveInv DEF Return
<1>5. CASE p \notin OneShot
  BY <1>1, <1>2, <1>3, <1>5, LeaveInv DEF Return
<1> QED BY <1>3, <1>4, <1>5

LEMMA KillInv ==
  ASSUME SyncInv, NEW p \in Proc, Kill(p)
  PROVE  SyncInv' /\ FileContent' = FileContent
<1>1. /\ DropFetch(p) /\ KillWrite(p) /\ UNCHANGED limits
      /\ status' = [status EXCEPT ![p] = "down"]
      /\ before' = [before EXCEPT ![p] = Empty]
  BY DEF Kill
<1>2. FileInv'
  BY <1>1, DropWriteInv DEF SyncInv
<1>3. /\ FileContent' = FileContent /\ stage'[p] = "idle"
      /\ \A q \in Proc : q # p => stage'[q] = stage[q] /\ want'[q] = want[q]
  BY <1>1 DEF KillWrite, DropWrite, diskVars, FileContent, SyncInv, FileInv,
              FileTypeOK
<1> QED BY <1>1, <1>2, <1>3, LeaveInv

LEMMA EditInv ==
  ASSUME SyncInv, Edit
  PROVE  SyncInv' /\ FileContent' = FileContent
<1>1. PICK i \in RuleId, b \in RuleBody \cup {NoRule} :
        EditRule(i, b) /\ UNCHANGED <<fileVars, syncVars>>
  BY DEF Edit
<1>2. FetchInv' /\ FileInv'
  BY <1>1, EditRuleInv, FileStutterInv DEF SyncInv
<1>3. SyncTypeOK' /\ OneProcess'
  BY <1>1 DEF syncVars, SyncInv, SyncTypeOK, OneProcess
<1>4. /\ FileContent' = FileContent /\ stage' = stage /\ want' = want
      /\ phase' = phase /\ all' = all /\ status' = status /\ before' = before
  BY <1>1 DEF EditRule, walkVars, fileVars, FileContent, syncVars
<1>5. ASSUME NEW q \in Proc PROVE CycleInv(q)'
  BY <1>4, CycleFrame DEF SyncInv
<1> QED BY <1>2, <1>3, <1>4, <1>5 DEF SyncInv

LEMMA ReloadInv ==
  ASSUME SyncInv, Reload
  PROVE  SyncInv' /\ FileContent' = FileContent
<1>1. LoadStep /\ UNCHANGED <<fetchVars, syncVars>>
  BY DEF Reload
<1>2. FetchInv' /\ FileInv'
  BY <1>1, LoadStepInv, FetchStutterInv DEF SyncInv
<1>3. SyncTypeOK' /\ OneProcess'
  BY <1>1 DEF syncVars, SyncInv, SyncTypeOK, OneProcess
<1>4. /\ FileContent' = FileContent /\ stage' = stage /\ want' = want
      /\ phase' = phase /\ all' = all /\ status' = status /\ before' = before
  BY <1>1 DEF LoadStep, BeginLoad, ReadBlock, EndLoad, diskVars, writerVars,
              FileContent, fetchVars, syncVars
<1>5. ASSUME NEW q \in Proc PROVE CycleInv(q)'
  BY <1>4, CycleFrame DEF SyncInv
<1> QED BY <1>2, <1>3, <1>4, <1>5 DEF SyncInv

LEMMA SyncStutterInv ==
  ASSUME SyncInv, UNCHANGED vars
  PROVE  SyncInv' /\ FileContent' = FileContent
<1>1. UNCHANGED fetchVars /\ UNCHANGED fileVars /\ UNCHANGED syncVars
  BY DEF vars, fetchVars, fileVars, syncVars
<1>2. FetchInv' /\ FileInv'
  BY <1>1, FetchStutterInv, FileStutterInv DEF SyncInv
<1>3. SyncTypeOK' /\ OneProcess'
  BY <1>1 DEF syncVars, SyncInv, SyncTypeOK, OneProcess
<1>4. /\ FileContent' = FileContent /\ stage' = stage /\ want' = want
      /\ phase' = phase /\ all' = all /\ status' = status /\ before' = before
  BY <1>1 DEF fetchVars, fileVars, syncVars, FileContent
<1>5. ASSUME NEW q \in Proc PROVE CycleInv(q)'
  BY <1>4, CycleFrame DEF SyncInv
<1> QED BY <1>2, <1>3, <1>4, <1>5 DEF SyncInv

LEMMA SyncInductive ==
  ASSUME ~ Overlap
  PROVE  SyncInv /\ [Next]_vars => SyncInv'
<1> SUFFICES ASSUME SyncInv, [Next]_vars PROVE SyncInv'
  OBVIOUS
<1>1. ASSUME NEW p \in Proc, Start(p) \/ Wake(p) \/ CycleStep(p) \/ Kill(p)
      PROVE  SyncInv'
  <2>1. CASE Start(p)
    BY <2>1, StartInv
  <2>2. CASE Wake(p)
    BY <2>2, WakeInv
  <2>3. CASE CycleStep(p)
    BY <2>3, AnsweredInv, FailedBeforeWriteInv, TranslateInv, WriteInv,
       WrittenInv DEF CycleStep
  <2>4. CASE Kill(p)
    BY <2>4, KillInv
  <2> QED BY <1>1, <2>1, <2>2, <2>3, <2>4
<1>2. CASE Edit
  BY <1>2, EditInv
<1>3. CASE Reload
  BY <1>3, ReloadInv
<1>4. CASE UNCHANGED vars
  BY <1>4, SyncStutterInv
<1> QED BY <1>1, <1>2, <1>3, <1>4 DEF Next

----------------------------------------------------------------------------

LEMMA SyncInvImplies == SyncInv => TypeOK /\ NeverHalfWritten
BY FileInvImplies DEF SyncInv, TypeOK, FetchInv, FileInv

(* Every variable of the API, the processes, the file and the loader keeps *)
(* its type.                                                               *)
THEOREM TypeCorrect ==
  ASSUME ~ Overlap
  PROVE  Spec => []TypeOK
BY SyncInvInit, SyncInductive, SyncInvImplies, PTL DEF Spec

(* The plugin never reads a half-written file, whatever the API answers,   *)
(* and wherever the process is killed.                                     *)
THEOREM SyncNeverHalfWritten ==
  ASSUME ~ Overlap
  PROVE  Spec => []NeverHalfWritten
BY SyncInvInit, SyncInductive, SyncInvImplies, PTL DEF Spec

(* The only step that changes the file, and the only one at which a        *)
(* process is done, is a rename.                                           *)
LEMMA OnlyRenamePublishes ==
  ASSUME ~ Overlap, SyncInv, [Next]_vars,
         \/ FileContent' # FileContent
         \/ \E q \in Proc : Publishes(q)
  PROVE  \E p \in Proc : Rename(p) /\ \A q \in Proc : Publishes(q) => q = p
<1>0. stage \in [Proc -> Stage]
  BY DEF SyncInv, FileInv, FileTypeOK
<1>1. ASSUME NEW p \in Proc, Start(p) \/ Wake(p) \/ Answered(p) \/ Answered429(p)
      PROVE  FALSE
  BY <1>1 DEF Start, Wake, BeginCycle, Answered, Answered429, fileVars, FileContent,
              Publishes
<1>2. ASSUME NEW p \in Proc, FetchFailed(p) \/ TranslateFailed(p) \/ Translate(p)
                             \/ Written(p) \/ Kill(p)
      PROVE  FALSE
  <2>1. CASE Translate(p)
    BY <2>1, <1>0 DEF Translate, BeginWrite, diskVars, FileContent, Publishes, Stage
  <2>2. CASE FetchFailed(p) \/ TranslateFailed(p)
    BY <2>2, FailedBeforeWriteInv DEF FetchFailed, TranslateFailed, fileVars, Publishes
  <2>3. CASE Written(p) \/ Kill(p)
    <3>1. FileContent' = FileContent
      BY <2>3, WrittenInv, KillInv
    <3>2. stage' = [stage EXCEPT ![p] = "idle"]
      BY <2>3 DEF Written, Kill, EndWrite, KillWrite, DropWrite
    <3> QED BY <3>1, <3>2, <1>0 DEF Publishes
  <2> QED BY <1>2, <2>1, <2>2, <2>3
<1>3. ~ Edit /\ ~ Reload /\ ~ UNCHANGED vars
  BY EditInv, ReloadInv, SyncStutterInv
     DEF Edit, Reload, LoadStep, BeginLoad, ReadBlock, EndLoad, writerVars, fileVars,
         vars, Publishes
<1>4. PICK p \in Proc : Write(p)
  BY <1>1, <1>2, <1>3 DEF Next, CycleStep
<1>5. WriteStep(p) /\ SingleWriter /\ FileInv
  BY <1>4, AtMostOneWriter DEF Write, SyncInv
<1>6. Rename(p)
  <2>1. CASE FileContent' # FileContent
    BY <1>5, <2>1, WriterIsInvisible DEF RegisterStutter
  <2>2. CASE \E q \in Proc : Publishes(q)
    BY <1>0, <1>5, <2>2
       DEF WriteStep, OpenTmp, WriteBlock, CloseTmp, RenameMissing, IOError, Publishes
  <2> QED BY <2>1, <2>2
<1>7. \A q \in Proc : Publishes(q) => q = p
  BY <1>0, <1>6 DEF Rename, Publishes
<1> QED BY <1>6, <1>7

(* It publishes the walk of the process that renames, which is complete.   *)
LEMMA RenamePublishesTheWalk ==
  ASSUME ~ Overlap, SyncInv, NEW p \in Proc, Rename(p)
  PROVE  /\ Publishes(p)
         /\ phase[p] = "complete"
         /\ \E r \in Ruleset :
              /\ FileContent' = Whole(r)
              /\ Translated(held[p]) \subseteq r
              /\ r \subseteq Translated(seen[p])
<1>1. SingleWriter /\ FileInv
  BY AtMostOneWriter DEF SyncInv
<1>2. FileContent' = Whole(want[p]) /\ want[p] \in Ruleset
  BY <1>1, RenamePublishes
<1>3. phase[p] = "complete" /\ want[p] = Translated(all[p])
  BY DEF Rename, SyncInv, CycleInv
<1>4. held[p] \subseteq all[p] /\ all[p] \subseteq seen[p]
  BY <1>3, FetchInvImplies DEF SyncInv, CompleteWalk
<1>5. /\ Translated(held[p]) \subseteq Translated(all[p])
      /\ Translated(all[p]) \subseteq Translated(seen[p])
  BY <1>4 DEF Translated
<1>6. Publishes(p)
  BY <1>1 DEF Rename, Publishes, FileInv, FileTypeOK
<1> QED BY <1>2, <1>3, <1>5, <1>6

(* What a cycle publishes is the redirects of its own walk, which is done: *)
(* none that was there throughout is missing, none that never was there is *)
(* in it, and a process that has fetched nothing publishes nothing.        *)
THEOREM SyncPublishesTheWalk ==
  ASSUME ~ Overlap
  PROVE  Spec => PublishesTheWalk
<1>1. ASSUME SyncInv, [Next]_vars
      PROVE  /\ FileContent' # FileContent => \E p \in Proc : Publishes(p)
             /\ \A p \in Proc : Publishes(p) =>
                  /\ phase[p] = "complete"
                  /\ \E r \in Ruleset :
                       /\ FileContent' = Whole(r)
                       /\ Translated(held[p]) \subseteq r
                       /\ r \subseteq Translated(seen[p])
  <2>1. ASSUME FileContent' # FileContent PROVE \E p \in Proc : Publishes(p)
    BY <1>1, <2>1, OnlyRenamePublishes, RenamePublishesTheWalk
  <2>2. ASSUME NEW p \in Proc, Publishes(p) PROVE Rename(p)
    BY <1>1, <2>2, OnlyRenamePublishes
  <2> QED BY <1>1, <2>1, <2>2, RenamePublishesTheWalk
<1>2. SyncInv /\ [Next]_vars =>
        [/\ FileContent' # FileContent => \E p \in Proc : Publishes(p)
         /\ \A p \in Proc : Publishes(p) =>
              /\ phase[p] = "complete"
              /\ \E r \in Ruleset :
                   /\ FileContent' = Whole(r)
                   /\ Translated(held[p]) \subseteq r
                   /\ r \subseteq Translated(seen[p])]_vars
  BY <1>1
<1> QED BY <1>2, SyncInvInit, SyncInductive, PTL DEF Spec, PublishesTheWalk

(* "On a failed fetch or translate, the previous ruleset file is left      *)
(* untouched" (sync_once), a failing write or rename included.             *)
THEOREM SyncFailureKeepsTheFile ==
  ASSUME ~ Overlap
  PROVE  Spec => FailureKeepsTheFile
<1>1. ASSUME SyncInv, NEW p \in Proc,
             \/ FetchFailed(p)
             \/ TranslateFailed(p)
             \/ Written(p) /\ stage[p] = "error"
      PROVE  FileContent' = before[p]
  <2>1. FileContent' = FileContent
    BY <1>1, FailedBeforeWriteInv, WrittenInv
  <2>2. CycleInv(p)
    BY <1>1 DEF SyncInv
  <2>3. CASE FetchFailed(p)
    BY <2>1, <2>2, <2>3 DEF FetchFailed, CycleInv
  <2>4. CASE TranslateFailed(p)
    BY <2>1, <2>2, <2>4 DEF TranslateFailed, CycleInv
  <2>5. CASE Written(p) /\ stage[p] = "error"
    BY <2>1, <2>2, <2>5 DEF Written, CycleInv
  <2> QED BY <1>1, <2>3, <2>4, <2>5
<1>2. SyncInv =>
        [\A p \in Proc :
           \/ FetchFailed(p)
           \/ TranslateFailed(p)
           \/ Written(p) /\ stage[p] = "error"
           => FileContent' = before[p]]_vars
  BY <1>1
<1> QED BY <1>2, SyncInvInit, SyncInductive, PTL DEF Spec, FailureKeepsTheFile

============================================================================
