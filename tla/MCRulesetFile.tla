--------------------------- MODULE MCRulesetFile ---------------------------
(* Small instances of RulesetFile.  Every content has two blocks: enough   *)
(* for a file that is empty, half-written or mixed.                        *)
EXTENDS RulesetFile, TLC

(* Rulesets, inodes and processes are interchangeable.                     *)
Symmetry == Permutations(Proc) \cup Permutations(Inode) \cup Permutations(Ruleset)
============================================================================
