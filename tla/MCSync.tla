------------------------------- MODULE MCSync -------------------------------
(* Small instances of Sync: a redirect in two versions, a rule that is     *)
(* skipped and one that is malformed.                                      *)
EXTENDS Sync, TLC

MCRuleset == SUBSET (RuleId \X Redirect)

(* TLC compares the blocks of a file, so the block that was not written is *)
(* a set too: of a rule no API holds.                                      *)
MCNoData == {<<0, NoRule>>}

(* Processes of one kind and inodes are interchangeable.                   *)
Symmetry == Permutations(OneShot) \cup Permutations(Inode)

(* What an inode that nothing refers to still holds is never read: it is   *)
(* emptied when it is allocated.                                           *)
View == <<fetchVars, syncVars, out, tmp, ioFaults, writerVars, loaderVars,
          [i \in Inode \ FreeInodes |-> data[i]]>>
============================================================================
