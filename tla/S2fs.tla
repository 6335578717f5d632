------------------------------- MODULE S2fs -------------------------------
(***************************************************************************)
(* The file system of "Assignment 5 Super Simple File System/s2fs.c":      *)
(* mounting builds the root directory, foo and foo/bar, every allocation   *)
(* of which may fail; readers open bar, read its fixed text and close it;  *)
(* unmounting drops what the mount built.  Reference counts are kept the   *)
(* way the dcache keeps them: a dentry holds its parent and, once d_add    *)
(* has joined them, its inode.  s2fs_write_file and s2fs_open return 0 and *)
(* change nothing, and a read whose copy_to_user fails changes nothing.    *)
(***************************************************************************)
EXTENDS Integers, FiniteSets, Sequences, SequencesExt

CONSTANTS
  Reader,    \* open files of bar
  TextLen,   \* the length of "Hello World!\n"
  Counts,    \* the buffer sizes that readers use
  MayFail    \* the allocations that may fail

\* The allocations, in order.
InodeOf  == [root |-> "root inode", foo |-> "foo inode", bar |-> "bar inode"]
DentryOf == [root |-> "root dentry", foo |-> "foo dentry", bar |-> "bar dentry"]

Allocation == {InodeOf[n] : n \in DOMAIN InodeOf} \cup
              {DentryOf[n] : n \in DOMAIN DentryOf}

ASSUME ReaderAssumption == IsFiniteSet(Reader)
ASSUME TextAssumption == TextLen \in Nat \ {0} /\ Counts \subseteq Nat
ASSUME MayFailAssumption == MayFail \subseteq Allocation

Node == {"root", "foo", "bar"}
Parent == [foo |-> "root", bar |-> "foo"]

\* The text, as the positions of its characters.
Text == [i \in 1 .. TextLen |-> i]

VARIABLES
  phase,    \* of the module and its mount
  icount,   \* icount[n]: references to n's inode
  dcount,   \* dcount[n]: references to n's dentry
  present,  \* the nodes in the dcache tree of the mount
  file      \* file[r]: r's open file, with what its reads returned

vars == <<phase, icount, dcount, present, file>>

Closed == [open |-> FALSE, offset |-> 0, got |-> <<>>]
Opened == [open |-> TRUE, offset |-> 0, got |-> <<>>]

File == [open : BOOLEAN, offset : 0 .. 2 * TextLen, got : Seq(1 .. TextLen)]

TypeOK ==
  /\ phase \in {"unloaded", "unmounted", "mounted", "oops"} \cup Allocation
  /\ icount \in [Node -> Int]
  /\ dcount \in [Node -> Int]
  /\ present \in SUBSET Node
  /\ file \in [Reader -> File]

Init ==
  /\ phase = "unloaded"
  /\ icount = [n \in Node |-> 0]
  /\ dcount = [n \in Node |-> 0]
  /\ present = {}
  /\ file = [r \in Reader |-> Closed]

----------------------------------------------------------------------------
(* The module and its mount. *)

s2fs_init ==
  /\ phase = "unloaded" /\ phase' = "unmounted"
  /\ UNCHANGED <<icount, dcount, present, file>>

\* A mount pins the module, so it can only go without one.
s2fs_exit ==
  /\ phase = "unmounted" /\ phase' = "unloaded"
  /\ UNCHANGED <<icount, dcount, present, file>>

s2fs_get_super ==
  /\ phase = "unmounted" /\ phase' = InodeOf["root"]
  /\ UNCHANGED <<icount, dcount, present, file>>

\* The same allocation at two places: fill_super's root and the other inodes.
s2fs_make_inode(n) == icount' = [icount EXCEPT ![n] = 1]

MakeRootInode ==
  /\ phase = InodeOf["root"]
  /\ \/ s2fs_make_inode("root") /\ phase' = DentryOf["root"]
     \/ InodeOf["root"] \in MayFail /\ phase' = "unmounted" /\ UNCHANGED icount
  /\ UNCHANGED <<dcount, present, file>>

\* When d_make_root fails it has dropped the inode; out_iput drops it once more,
\* which iput answers with a BUG.
MakeRoot ==
  /\ phase = DentryOf["root"]
  /\ \/ /\ dcount' = [dcount EXCEPT !["root"] = 1]
        /\ present' = {"root"}
        /\ phase' = DentryOf["foo"]
        /\ UNCHANGED icount
     \/ /\ DentryOf["root"] \in MayFail
        /\ icount' = [icount EXCEPT !["root"] = @ - 2]
        /\ phase' = "oops"
        /\ UNCHANGED <<dcount, present>>
  /\ UNCHANGED file

\* d_alloc, the first half of s2fs_create_dir and of s2fs_create_file.  A
\* failure of either is not reported: s2fs_fill_super returns 0 all the same.
AllocDentry(n) ==
  /\ phase = DentryOf[n]
  /\ \/ /\ dcount' = [dcount EXCEPT ![n] = 1, ![Parent[n]] = @ + 1]
        /\ phase' = InodeOf[n]
     \/ DentryOf[n] \in MayFail /\ phase' = "mounted" /\ UNCHANGED dcount
  /\ UNCHANGED <<icount, present, file>>

\* Mutant: out_dput forgets the dentry.
DputMissing(n) == dcount' = dcount

\* The last reference to a new dentry goes, and with it the one to its parent.
Dput(n) == dcount' = [dcount EXCEPT ![n] = 0, ![Parent[n]] = @ - 1]

\* Mutant: s2fs_fill_super does not test whether there is a directory.
AddInodeGoesOn(n) ==
  /\ phase = InodeOf[n]
  /\ \/ s2fs_make_inode(n) /\ present' = present \cup {n} /\ UNCHANGED dcount
     \/ InodeOf[n] \in MayFail /\ Dput(n) /\ UNCHANGED <<icount, present>>
  /\ phase' = IF n = "foo" THEN DentryOf["bar"] ELSE "mounted"
  /\ UNCHANGED file

\* The inode and d_add, or out_dput.
AddInode(n) ==
  /\ phase = InodeOf[n]
  /\ \/ /\ s2fs_make_inode(n)
        /\ present' = present \cup {n}
        /\ phase' = IF n = "foo" THEN DentryOf["bar"] ELSE "mounted"
        /\ UNCHANGED dcount
     \/ /\ InodeOf[n] \in MayFail
        /\ Dput(n)
        /\ phase' = "mounted"
        /\ UNCHANGED <<icount, present>>
  /\ UNCHANGED file

\* What d_genocide and the shrinking of the dcache take from n's dentry: its
\* own reference and those of its children, if n is in the tree.
Taken(n) ==
  (IF n \in present THEN 1 ELSE 0) +
  Cardinality({c \in present \ {"root"} : Parent[c] = n})

\* kill_litter_super; a file system with open files is busy.
Unmount ==
  /\ phase = "mounted"
  /\ \A r \in Reader : ~file[r].open
  /\ dcount' = [n \in Node |-> dcount[n] - Taken(n)]
  /\ icount' = [n \in Node |-> icount[n] - IF n \in present THEN 1 ELSE 0]
  /\ present' = {}
  /\ phase' = "unmounted"
  /\ UNCHANGED file

----------------------------------------------------------------------------
(* Readers. *)

Open(r) ==
  /\ phase = "mounted" /\ "bar" \in present
  /\ ~file[r].open
  /\ file' = [file EXCEPT ![r] = Opened]
  /\ dcount' = [dcount EXCEPT !["bar"] = @ + 1]
  /\ UNCHANGED <<phase, icount, present>>

\* How many bytes a read of count bytes at offset returns.
Clamped(offset, count) ==
  IF offset > TextLen THEN 0
  ELSE IF count > TextLen - offset THEN TextLen - offset ELSE count

\* Mutants: the offset of a full read does not move; a past-the-end offset is
\* not recognised.
NewOffsetUnmoved(offset) == offset
NewOffsetAlways(offset) == offset + TextLen

NewOffset(offset) == IF offset > TextLen THEN offset ELSE offset + TextLen

s2fs_read_file(r, count) ==
  LET offset == file[r].offset
      n      == Clamped(offset, count)
  IN /\ file[r].open
     /\ file' = [file EXCEPT ![r] =
          [open |-> TRUE, offset |-> NewOffset(offset),
           got |-> file[r].got \o SubSeq(Text, offset + 1, offset + n)]]
     /\ UNCHANGED <<phase, icount, dcount, present>>

Close(r) ==
  /\ file[r].open
  /\ file' = [file EXCEPT ![r] = Closed]
  /\ dcount' = [dcount EXCEPT !["bar"] = @ - 1]
  /\ UNCHANGED <<phase, icount, present>>

Next ==
  \/ s2fs_init \/ s2fs_exit \/ s2fs_get_super
  \/ MakeRootInode \/ MakeRoot \/ Unmount
  \/ \E n \in {"foo", "bar"} : AllocDentry(n) \/ AddInode(n)
  \/ \E r \in Reader :
       \/ Open(r) \/ Close(r)
       \/ \E count \in Counts : s2fs_read_file(r, count)

Spec == Init /\ [][Next]_vars

----------------------------------------------------------------------------
(* Properties. *)

\* Whatever allocation failed while mounting, and whatever was opened and
\* closed since, nothing is left of a mount when it is gone: no dentry and no
\* inode is leaked, and none is put twice.  (A failing d_make_root ends in the
\* BUG of MakeRoot, and nothing is unmounted after it.)
NothingLeft ==
  phase \in {"unloaded", "unmounted"} =>
    \A n \in Node : dcount[n] = 0 /\ icount[n] = 0

\* A mount succeeds although foo or bar could not be made; even so it is a whole
\* tree: what has references is linked under a linked parent and has its inode,
\* and nothing else is counted.
MountedTreeWhole ==
  phase = "mounted" =>
    /\ "root" \in present /\ ("bar" \in present => "foo" \in present)
    /\ \A n \in Node : /\ n \in present <=> dcount[n] > 0
                      /\ icount[n] = IF n \in present THEN 1 ELSE 0

\* With buffers of any sizes, what the reads of an open file returned is the
\* beginning of the text: nothing is skipped in between or returned twice.
ReadsPrefix == \A r \in Reader : IsPrefix(file[r].got, Text)
=============================================================================
