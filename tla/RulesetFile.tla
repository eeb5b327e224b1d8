---------------------------- MODULE RulesetFile ----------------------------
(***************************************************************************)
(* The ruleset file: write_atomic of src/src/bin/sync.rs, the process that *)
(* loads the file for the plugin, and the part of a POSIX file system they *)
(* both use.                                                               *)
(*                                                                         *)
(* write_atomic writes "<path>.tmp" and renames it to <path>.  The name of *)
(* the temporary file is the same for every process.  std::fs::write opens *)
(* it with O_CREAT and O_TRUNC, writes the content from its own offset, in *)
(* one or several writes, and closes it.  Names point to inodes: a rename  *)
(* moves the name, and a process that has an inode open keeps it, whatever *)
(* becomes of its name.  Only what the code can tell apart is modelled of  *)
(* a content: of which ruleset each of its blocks is.                      *)
(*                                                                         *)
(* The loader is not in the repository ("writes the ruleset file the       *)
(* plugin reads", README.md): it opens the file and reads it to the end.   *)
(***************************************************************************)
EXTENDS Processes, Naturals

CONSTANTS
  Ruleset,    \* the contents a cycle can publish
  Inode,      \* the inodes of the file system
  NoInode,    \* a name that does not exist, a descriptor that is not open
  NoData,     \* a block that was not written
  Blocks,     \* number of blocks of a content
  MaxIOFaults,\* bound on the failing writes and renames, and on the kills
  Overlap     \* whether two processes may run at the same time

ASSUME FileAssumption ==
  /\ NoInode \notin Inode
  /\ NoData \notin Ruleset
  /\ Blocks \in Nat \ {0}
  /\ MaxIOFaults \in Nat
  /\ Overlap \in BOOLEAN

VARIABLES
  out,      \* the inode of <path>
  tmp,      \* the inode of <path>.tmp
  data,     \* the blocks of each inode
  ioFaults, \* number of failing writes and renames, and of kills, so far
  stage,    \* where p is in write_atomic
  want,     \* the content p writes
  fd,       \* the inode p has open for writing
  off,      \* the number of blocks p has written
  rfd,      \* the inode the loader has open
  roff,     \* the number of blocks it has read
  buffer,   \* the blocks it has read
  loaded    \* what it read last: the configuration of the plugin

diskVars   == <<out, tmp, data>>
writerVars == <<stage, want, fd, off>>
loaderVars == <<rfd, roff, buffer, loaded>>
fileVars   == <<out, tmp, data, ioFaults, stage, want, fd, off, rfd, roff,
                buffer, loaded>>

Stage == {"idle", "open", "write", "rename", "done", "error"}

Block == 1..Blocks
Content == [Block -> Ruleset \cup {NoData}]

Empty == [b \in Block |-> NoData]

(* The content that holds the ruleset r and nothing else.                  *)
Whole(r) == [b \in Block |-> r]

WholeContents == {Whole(r) : r \in Ruleset}

(* The inodes that nothing refers to, which the file system can allocate.  *)
FreeInodes == Inode \ ({out, tmp, rfd} \cup {fd[p] : p \in Proc})

----------------------------------------------------------------------------

FileTypeOK ==
  /\ out \in Inode \cup {NoInode}
  /\ tmp \in Inode \cup {NoInode}
  /\ data \in [Inode -> Content]
  /\ ioFaults \in 0..MaxIOFaults
  /\ stage \in [Proc -> Stage]
  /\ want \in [Proc -> Ruleset \cup {NoData}]
  /\ fd \in [Proc -> Inode \cup {NoInode}]
  /\ off \in [Proc -> 0..Blocks]
  /\ rfd \in Inode \cup {NoInode}
  /\ roff \in 0..Blocks
  /\ buffer \in Content
  /\ loaded \in Content

FileInit ==
  /\ out = NoInode /\ tmp = NoInode
  /\ data = [i \in Inode |-> Empty]
  /\ ioFaults = 0
  /\ stage = [p \in Proc |-> "idle"]
  /\ want = [p \in Proc |-> NoData]
  /\ fd = [p \in Proc |-> NoInode]
  /\ off = [p \in Proc |-> 0]
  /\ rfd = NoInode /\ roff = 0
  /\ buffer = Empty /\ loaded = Empty

----------------------------------------------------------------------------
(* write_atomic, executed by p.                                            *)

BeginWrite(p, r) ==
  /\ stage[p] = "idle"
  /\ stage' = [stage EXCEPT ![p] = "open"]
  /\ want' = [want EXCEPT ![p] = r]
  /\ UNCHANGED <<diskVars, ioFaults, fd, off, loaderVars>>

(* open("<path>.tmp", O_CREAT | O_TRUNC): the inode of that name, emptied, *)
(* or a new one.                                                           *)
OpenTmp(p) ==
  /\ stage[p] = "open"
  /\ \E i \in Inode :
       /\ IF tmp = NoInode THEN i \in FreeInodes ELSE i = tmp
       /\ tmp' = i
       /\ data' = [data EXCEPT ![i] = Empty]
       /\ fd' = [fd EXCEPT ![p] = i]
  /\ off' = [off EXCEPT ![p] = 0]
  /\ stage' = [stage EXCEPT ![p] = "write"]
  /\ UNCHANGED <<out, ioFaults, want, loaderVars>>

(* write(): the next block, at the offset of the descriptor.               *)
WriteBlock(p) ==
  /\ stage[p] = "write"
  /\ off[p] < Blocks
  /\ data' = [data EXCEPT ![fd[p]] = [@ EXCEPT ![off[p] + 1] = want[p]]]
  /\ off' = [off EXCEPT ![p] = @ + 1]
  /\ UNCHANGED <<out, tmp, ioFaults, stage, want, fd, loaderVars>>

(* close(): everything is written.                                         *)
CloseTmp(p) ==
  /\ stage[p] = "write"
  /\ off[p] = Blocks
  /\ fd' = [fd EXCEPT ![p] = NoInode]
  /\ stage' = [stage EXCEPT ![p] = "rename"]
  /\ UNCHANGED <<diskVars, ioFaults, want, off, loaderVars>>

(* Mutant: a link instead of a rename, the temporary name stays.           *)
RenameLinks(p) ==
  /\ stage[p] = "rename"
  /\ tmp # NoInode
  /\ out' = tmp
  /\ stage' = [stage EXCEPT ![p] = "done"]
  /\ UNCHANGED <<tmp, data, ioFaults, want, fd, off, loaderVars>>

(* rename("<path>.tmp", "<path>"): whatever inode has that name now.       *)
Rename(p) ==
  /\ stage[p] = "rename"
  /\ tmp # NoInode
  /\ out' = tmp
  /\ tmp' = NoInode
  /\ stage' = [stage EXCEPT ![p] = "done"]
  /\ UNCHANGED <<data, ioFaults, want, fd, off, loaderVars>>

(* The name was renamed away by another process: ENOENT.                   *)
RenameMissing(p) ==
  /\ stage[p] = "rename"
  /\ tmp = NoInode
  /\ stage' = [stage EXCEPT ![p] = "error"]
  /\ UNCHANGED <<diskVars, ioFaults, want, fd, off, loaderVars>>

(* Mutant: an error removes the ruleset file too.                          *)
IOErrorRemoves(p) ==
  /\ stage[p] \in {"open", "write", "rename"}
  /\ ioFaults < MaxIOFaults
  /\ ioFaults' = ioFaults + 1
  /\ fd' = [fd EXCEPT ![p] = NoInode]
  /\ stage' = [stage EXCEPT ![p] = "error"]
  /\ out' = NoInode
  /\ UNCHANGED <<tmp, data, want, off, loaderVars>>

(* The open, a write or the rename fails (a full disk, permissions): the   *)
(* descriptor is dropped, the temporary file stays as it is.               *)
IOError(p) ==
  /\ stage[p] \in {"open", "write", "rename"}
  /\ ioFaults < MaxIOFaults
  /\ ioFaults' = ioFaults + 1
  /\ fd' = [fd EXCEPT ![p] = NoInode]
  /\ stage' = [stage EXCEPT ![p] = "error"]
  /\ UNCHANGED <<diskVars, want, off, loaderVars>>

(* Nothing is left of the call: the kernel closes the descriptor.          *)
DropWrite(p) ==
  /\ fd' = [fd EXCEPT ![p] = NoInode]
  /\ stage' = [stage EXCEPT ![p] = "idle"]
  /\ want' = [want EXCEPT ![p] = NoData]
  /\ off' = [off EXCEPT ![p] = 0]
  /\ UNCHANGED <<diskVars, loaderVars>>

EndWrite(p) ==
  /\ stage[p] \in {"done", "error"}
  /\ DropWrite(p)
  /\ UNCHANGED ioFaults

(* The process is killed somewhere in write_atomic: the temporary file     *)
(* stays as it is.                                                         *)
KillWrite(p) ==
  /\ ioFaults < MaxIOFaults
  /\ ioFaults' = ioFaults + 1
  /\ DropWrite(p)

----------------------------------------------------------------------------
(* The loader.                                                             *)

BeginLoad ==
  /\ rfd = NoInode
  /\ out # NoInode
  /\ rfd' = out
  /\ UNCHANGED <<diskVars, ioFaults, writerVars, roff, buffer, loaded>>

ReadBlock ==
  /\ rfd # NoInode
  /\ roff < Blocks
  /\ buffer' = [buffer EXCEPT ![roff + 1] = data[rfd][roff + 1]]
  /\ roff' = roff + 1
  /\ UNCHANGED <<diskVars, ioFaults, writerVars, rfd, loaded>>

EndLoad ==
  /\ rfd # NoInode
  /\ roff = Blocks
  /\ loaded' = buffer
  /\ rfd' = NoInode
  /\ roff' = 0
  /\ buffer' = Empty
  /\ UNCHANGED <<diskVars, ioFaults, writerVars>>

LoadStep == BeginLoad \/ ReadBlock \/ EndLoad

WriteStep(p) ==
  \/ OpenTmp(p) \/ WriteBlock(p) \/ CloseTmp(p) \/ Rename(p)
  \/ RenameMissing(p) \/ IOError(p)

FileNext ==
  \/ \E p \in Proc :
       \/ \E r \in Ruleset : /\ Overlap \/ \A q \in Proc : stage[q] = "idle"
                            /\ BeginWrite(p, r)
       \/ WriteStep(p)
       \/ EndWrite(p)
       \/ stage[p] # "idle" /\ KillWrite(p)
  \/ LoadStep

FileSpec == FileInit /\ [][FileNext]_fileVars

----------------------------------------------------------------------------
(* Properties.                                                             *)

(* What the name of the ruleset file shows, Empty when there is no file.   *)
FileContent == IF out = NoInode THEN Empty ELSE data[out]

(* The file, whenever it exists, is one whole ruleset.                     *)
FileIsWhole == out # NoInode => data[out] \in WholeContents

(* The plugin never reads a half-written file: what the loader has read so *)
(* far is the beginning of one ruleset, and what it loads is a whole one,  *)
(* even when the file is replaced while it is read.                        *)
NeverHalfWritten ==
  /\ rfd # NoInode => \E r \in Ruleset : \A b \in 1..roff : buffer[b] = r
  /\ loaded \in WholeContents \cup {Empty}

----------------------------------------------------------------------------
(* What the plugin's side sees of all this: a register.                    *)

Opened == IF rfd = NoInode THEN Empty ELSE data[rfd]

Register == INSTANCE RulesetRegister
              WITH Contents <- WholeContents, None <- Empty,
                   file <- FileContent, opened <- Opened, config <- loaded

(* While processes do not overlap, writing the blocks of a temporary file, *)
(* crashing over it, renaming it and reading it block by block is, for the *)
(* plugin, an atomic register that holds one whole ruleset or another.     *)
ImplementsRegister == Register!RegisterSpec

============================================================================
