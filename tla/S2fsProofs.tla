----------------------------- MODULE S2fsProofs -----------------------------
(***************************************************************************)
(* Proofs about S2fs, for any readers, buffer sizes, text length and       *)
(* failing allocations.                                                    *)
(***************************************************************************)
EXTENDS S2fs, FiniteSetTheorems, TLAPS

\* The names of the steps of a mount.
LEMMA StepNames ==
  /\ InodeOf["root"] = "root inode" /\ InodeOf["foo"] = "foo inode"
  /\ InodeOf["bar"] = "bar inode"
  /\ DentryOf["root"] = "root dentry" /\ DentryOf["foo"] = "foo dentry"
  /\ DentryOf["bar"] = "bar dentry"
  /\ Parent["foo"] = "root" /\ Parent["bar"] = "foo"
  BY DEF InodeOf, DentryOf, Parent

LEMMA NodeFacts ==
  /\ "root" \in Node /\ "foo" \in Node /\ "bar" \in Node
  /\ \A n \in {"foo", "bar"} : Parent[n] \in Node /\ Parent[n] # n
  BY DEF Node, Parent

LEMMA StepPhases ==
  \A n \in Node : InodeOf[n] \in Allocation /\ DentryOf[n] \in Allocation
  <1>1. DOMAIN InodeOf = Node /\ DOMAIN DentryOf = Node
    BY DEF InodeOf, DentryOf, Node
  <1>2. QED BY <1>1 DEF Allocation

\* What a read returns is a sequence of characters of the text.
LEMMA ReadType ==
  ASSUME NEW offset \in 0 .. 2 * TextLen, NEW count \in Nat
  PROVE  /\ SubSeq(Text, offset + 1, offset + Clamped(offset, count))
              \in Seq(1 .. TextLen)
         /\ NewOffset(offset) \in 0 .. 2 * TextLen
  <1> DEFINE n == Clamped(offset, count)
  <1>1. /\ n \in Nat /\ (n > 0 => offset + n <= TextLen)
        /\ NewOffset(offset) \in 0 .. 2 * TextLen
    BY TextAssumption DEF Clamped, NewOffset
  <1>2. Text \in Seq(1 .. TextLen) /\ Len(Text) = TextLen
    BY TextAssumption DEF Text
  <1>3. SubSeq(Text, offset + 1, offset + n) \in Seq(1 .. TextLen)
    <2>1. CASE n = 0
      BY <1>1, <1>2, <2>1
    <2>2. CASE n > 0
      BY <1>1, <1>2, <2>2
    <2>3. QED BY <1>1, <2>1, <2>2
  <1>4. QED BY <1>1, <1>3

LEMMA ClosedType ==
  /\ Closed \in File /\ Closed.open = FALSE
  /\ Opened \in File /\ Opened.open = TRUE
  BY TextAssumption DEF Closed, Opened, File

LEMMA TypeInit == Init => TypeOK
  BY ClosedType DEF Init, TypeOK, Node

LEMMA TypeNext ==
  ASSUME TypeOK, [Next]_vars
  PROVE  TypeOK'
  <1> USE NodeFacts, StepPhases DEF TypeOK
  <1>1. CASE UNCHANGED vars
    BY <1>1 DEF vars
  <1>2. CASE s2fs_init        BY <1>2 DEF s2fs_init
  <1>3. CASE s2fs_exit        BY <1>3 DEF s2fs_exit
  <1>4. CASE s2fs_get_super   BY <1>4 DEF s2fs_get_super
  <1>5. CASE MakeRootInode    BY <1>5 DEF MakeRootInode, s2fs_make_inode
  <1>6. CASE MakeRoot         BY <1>6 DEF MakeRoot
  <1>7. CASE Unmount
    <2>1. \A n \in Node : Taken(n) \in Int
      <3> TAKE n \in Node
      <3> DEFINE S == {c \in present \ {"root"} : Parent[c] = n}
      <3>1. IsFiniteSet({"root", "foo", "bar"})
        <4>1. IsFiniteSet({} \cup {"root"})
          BY FS_EmptySet, FS_AddElement
        <4>2. IsFiniteSet(({} \cup {"root"}) \cup {"foo"})
          BY <4>1, FS_AddElement
        <4>3. IsFiniteSet((({} \cup {"root"}) \cup {"foo"}) \cup {"bar"})
          BY <4>2, FS_AddElement
        <4>4. {"root", "foo", "bar"} = (({} \cup {"root"}) \cup {"foo"}) \cup {"bar"}
          OBVIOUS
        <4>5. QED BY <4>3, <4>4
      <3>2. S \subseteq {"root", "foo", "bar"}
        BY DEF Node
      <3>3. Cardinality(S) \in Nat
        BY <3>1, <3>2, FS_Subset, FS_CardinalityType
      <3>4. QED BY <3>3 DEF Taken
    <2>2. QED BY <1>7, <2>1 DEF Unmount
  <1>8. ASSUME NEW n \in {"foo", "bar"}, AllocDentry(n)
        PROVE  TypeOK'
    BY <1>8 DEF AllocDentry
  <1>9. ASSUME NEW n \in {"foo", "bar"}, AddInode(n)
        PROVE  TypeOK'
    BY <1>9 DEF AddInode, s2fs_make_inode, Dput
  <1>10. ASSUME NEW r \in Reader, Open(r)
         PROVE  TypeOK'
    BY <1>10, ClosedType DEF Open
  <1>11. ASSUME NEW r \in Reader, Close(r)
         PROVE  TypeOK'
    BY <1>11, ClosedType DEF Close
  <1>12. ASSUME NEW r \in Reader, NEW count \in Counts, s2fs_read_file(r, count)
         PROVE  TypeOK'
    <2> DEFINE offset == file[r].offset
               piece  == SubSeq(Text, offset + 1, offset + Clamped(offset, count))
    <2>1. /\ file[r] \in File /\ count \in Nat
          /\ offset \in 0 .. 2 * TextLen /\ file[r].got \in Seq(1 .. TextLen)
      BY TextAssumption DEF File
    <2>2. piece \in Seq(1 .. TextLen) /\ NewOffset(offset) \in 0 .. 2 * TextLen
      BY <2>1, ReadType
    <2> HIDE DEF piece
    <2>3. [open |-> TRUE, offset |-> NewOffset(offset), got |-> file[r].got \o piece]
            \in File
      BY <2>1, <2>2 DEF File
    <2>4. file' = [file EXCEPT ![r] = [open |-> TRUE,
                     offset |-> NewOffset(offset), got |-> file[r].got \o piece]]
      BY <1>12 DEF s2fs_read_file, piece
    <2>5. QED BY <1>12, <2>4, <2>3 DEF s2fs_read_file
  <1>13. QED
    BY <1>1, <1>2, <1>3, <1>4, <1>5, <1>6, <1>7, <1>8, <1>9, <1>10, <1>11, <1>12
    DEF Next

\* Type correctness: offsets stay within twice the text, and reads return only
\* characters of the text.
THEOREM TypeCorrect == Spec => []TypeOK
  BY TypeInit, TypeNext, PTL DEF Spec

----------------------------------------------------------------------------
(* References. *)

Opens == {r \in Reader : file[r].open}

One(b) == IF b THEN 1 ELSE 0

\* The references that the tree and the open files account for.
TreeRefs ==
  /\ dcount["root"] = One("root" \in present) + One("foo" \in present)
  /\ dcount["foo"] = One("foo" \in present) + One("bar" \in present)
  /\ dcount["bar"] = One("bar" \in present) + Cardinality(Opens)

InodeRefs == \A n \in Node : icount[n] = One(n \in present)

\* Every reference count, by phase.  Files are open only in a mounted s2fs
\* that has bar.
RefInv ==
  /\ TypeOK
  /\ Opens # {} => phase = "mounted" /\ "bar" \in present
  /\ phase \in {"unloaded", "unmounted", "root inode"} =>
       present = {} /\ TreeRefs /\ InodeRefs
  /\ phase = "root dentry" =>
       present = {} /\ TreeRefs
       /\ icount["root"] = 1 /\ icount["foo"] = 0 /\ icount["bar"] = 0
  /\ phase = "foo dentry" => present = {"root"} /\ TreeRefs /\ InodeRefs
  /\ phase = "foo inode" =>
       present = {"root"} /\ InodeRefs
       /\ dcount["root"] = 2 /\ dcount["foo"] = 1 /\ dcount["bar"] = 0
  /\ phase = "bar dentry" => present = {"root", "foo"} /\ TreeRefs /\ InodeRefs
  /\ phase = "bar inode" =>
       present = {"root", "foo"} /\ InodeRefs
       /\ dcount["root"] = 2 /\ dcount["foo"] = 2 /\ dcount["bar"] = 1
  /\ phase = "mounted" =>
       /\ present \in {{"root"}, {"root", "foo"}, Node}
       /\ TreeRefs /\ InodeRefs

\* A reader that opens or closes bar changes the number of open files by one.
LEMMA OpensFacts ==
  ASSUME TypeOK
  PROVE  /\ IsFiniteSet(Opens) /\ Cardinality(Opens) \in Nat
         /\ Opens = {} => Cardinality(Opens) = 0
         /\ \A r \in Reader \ Opens :
              Cardinality(Opens \cup {r}) = Cardinality(Opens) + 1
         /\ \A r \in Opens : Cardinality(Opens \ {r}) = Cardinality(Opens) - 1
  <1>1. Opens \subseteq Reader
    BY DEF Opens
  <1>2. IsFiniteSet(Opens) /\ Cardinality(Opens) \in Nat
    BY <1>1, ReaderAssumption, FS_Subset, FS_CardinalityType
  <1>3. QED BY <1>2, FS_EmptySet, FS_AddElement, FS_RemoveElement

LEMMA RefInit == Init => RefInv
  <1> SUFFICES ASSUME Init PROVE RefInv
    OBVIOUS
  <1>1. TypeOK /\ Opens = {}
    BY TypeInit, ClosedType DEF Init, Opens
  <1>2. Cardinality(Opens) = 0
    BY <1>1, OpensFacts
  <1>3. QED
    BY <1>1, <1>2 DEF Init, RefInv, TreeRefs, InodeRefs, One, Node

LEMMA RefMount ==
  ASSUME RefInv, TypeOK',
         \/ s2fs_init \/ s2fs_exit \/ s2fs_get_super \/ MakeRootInode \/ MakeRoot
         \/ \E n \in {"foo", "bar"} : AllocDentry(n) \/ AddInode(n)
  PROVE  RefInv'
  <1>1. Opens = {} /\ Opens' = {} /\ phase # "mounted"
    BY StepNames
    DEF RefInv, Opens, s2fs_init, s2fs_exit, s2fs_get_super, MakeRootInode,
        MakeRoot, AllocDentry, AddInode
  <1>2. Cardinality(Opens) = 0 /\ Cardinality(Opens') = 0
    BY <1>1, OpensFacts DEF RefInv
  <1>3. DOMAIN dcount = Node /\ DOMAIN icount = Node
    BY DEF RefInv, TypeOK
  <1>4. CASE s2fs_init \/ s2fs_exit \/ s2fs_get_super
    BY <1>4, <1>2, StepNames, <1>1
    DEF s2fs_init, s2fs_exit, s2fs_get_super, RefInv, TreeRefs, InodeRefs
  <1>5. CASE MakeRootInode
    BY <1>3, <1>5, <1>2, StepNames, <1>1
    DEF MakeRootInode, s2fs_make_inode, RefInv, TreeRefs, InodeRefs, One, Node
  <1>6. CASE MakeRoot
    <2>1. /\ present = {} /\ icount["root"] = 1
          /\ icount["foo"] = 0 /\ icount["bar"] = 0
          /\ dcount["root"] = 0 /\ dcount["foo"] = 0 /\ dcount["bar"] = 0
      <3>1. phase = "root dentry"
        BY <1>6, StepNames DEF MakeRoot
      <3>2. /\ present = {} /\ TreeRefs /\ icount["root"] = 1
            /\ icount["foo"] = 0 /\ icount["bar"] = 0
        BY <3>1 DEF RefInv
      <3>3. QED BY <1>2, <3>2 DEF TreeRefs, One
    <2>2. CASE phase' = "oops"
      BY <2>2, <1>1 DEF RefInv
    <2>3. CASE phase' = "foo dentry"
      <3>1. /\ present' = {"root"} /\ icount' = icount
            /\ dcount'["root"] = 1 /\ dcount'["foo"] = 0 /\ dcount'["bar"] = 0
        BY <1>3, <1>6, <2>1, <2>3, StepNames DEF MakeRoot, Node
      <3>2. TreeRefs' /\ InodeRefs'
        BY <2>1, <3>1, <1>2 DEF TreeRefs, InodeRefs, One, Node
      <3>3. QED BY <2>3, <3>1, <3>2, <1>1 DEF RefInv
    <2>4. QED BY <1>6, <2>2, <2>3, StepNames DEF MakeRoot
  <1>7. CASE AllocDentry("foo")
    <2>1. /\ present = {"root"} /\ InodeRefs /\ TreeRefs
          /\ dcount["root"] = 1 /\ dcount["foo"] = 0 /\ dcount["bar"] = 0
      <3>1. phase = "foo dentry"
        BY <1>7, StepNames DEF AllocDentry
      <3>2. present = {"root"} /\ InodeRefs /\ TreeRefs
        BY <3>1 DEF RefInv
      <3>3. QED BY <1>2, <3>2 DEF TreeRefs, One
    <2>2. InodeRefs' /\ present' = {"root"}
      BY <1>7, <2>1, StepNames DEF AllocDentry, InodeRefs
    <2>3. CASE phase' = "mounted"
      <3>1. TreeRefs'
        BY <1>7, <2>1, <2>3, <1>2, StepNames DEF AllocDentry, TreeRefs
      <3>2. QED BY <2>2, <2>3, <3>1, <1>1 DEF RefInv
    <2>4. CASE phase' = "foo inode"
      <3>1. dcount'["root"] = 2 /\ dcount'["foo"] = 1 /\ dcount'["bar"] = 0
        <4>1. dcount' = [dcount EXCEPT !["foo"] = 1, !["root"] = @ + 1]
          BY <1>7, <2>4, StepNames DEF AllocDentry
        <4>2. QED BY <1>3, <2>1, <4>1 DEF Node
      <3>2. QED BY <2>2, <2>4, <3>1, <1>1 DEF RefInv
    <2>5. QED BY <1>7, <2>3, <2>4, StepNames DEF AllocDentry
  <1>8. CASE AllocDentry("bar")
    <2>1. /\ present = {"root", "foo"} /\ InodeRefs /\ TreeRefs
          /\ dcount["root"] = 2 /\ dcount["foo"] = 1 /\ dcount["bar"] = 0
      <3>1. phase = "bar dentry"
        BY <1>8, StepNames DEF AllocDentry
      <3>2. present = {"root", "foo"} /\ InodeRefs /\ TreeRefs
        BY <3>1 DEF RefInv
      <3>3. QED BY <1>2, <3>2 DEF TreeRefs, One
    <2>2. InodeRefs' /\ present' = {"root", "foo"}
      BY <1>8, <2>1, StepNames DEF AllocDentry, InodeRefs
    <2>3. CASE phase' = "mounted"
      <3>1. TreeRefs'
        BY <1>8, <2>1, <2>3, <1>2, StepNames DEF AllocDentry, TreeRefs
      <3>2. QED BY <2>2, <2>3, <3>1, <1>1 DEF RefInv
    <2>4. CASE phase' = "bar inode"
      <3>1. dcount'["root"] = 2 /\ dcount'["foo"] = 2 /\ dcount'["bar"] = 1
        <4>1. dcount' = [dcount EXCEPT !["bar"] = 1, !["foo"] = @ + 1]
          BY <1>8, <2>4, StepNames DEF AllocDentry
        <4>2. QED BY <1>3, <2>1, <4>1 DEF Node
      <3>2. QED BY <2>2, <2>4, <3>1, <1>1 DEF RefInv
    <2>5. QED BY <1>8, <2>3, <2>4, StepNames DEF AllocDentry
  <1>9. CASE AddInode("foo")
    <2>1. /\ present = {"root"} /\ InodeRefs
          /\ dcount["root"] = 2 /\ dcount["foo"] = 1 /\ dcount["bar"] = 0
      BY <1>9, StepNames, <1>1 DEF AddInode, RefInv
    <2>2. CASE phase' = "mounted"
      <3>1. /\ present' = present /\ icount' = icount
            /\ dcount'["root"] = 1 /\ dcount'["foo"] = 0 /\ dcount'["bar"] = 0
        <4>1. /\ present' = present /\ icount' = icount
              /\ dcount' = [dcount EXCEPT !["foo"] = 0, !["root"] = @ - 1]
          BY <1>9, <2>2, StepNames DEF AddInode, Dput
        <4>2. QED BY <1>3, <2>1, <4>1 DEF Node
      <3>2. TreeRefs' /\ InodeRefs'
        BY <2>1, <3>1, <1>2 DEF TreeRefs, InodeRefs, One
      <3>3. QED BY <2>1, <2>2, <3>1, <3>2, <1>1 DEF RefInv
    <2>3. CASE phase' = "bar dentry"
      <3>1. /\ present' = {"root", "foo"} /\ dcount' = dcount
            /\ icount' = [icount EXCEPT !["foo"] = 1]
        BY <1>9, <2>1, <2>3, StepNames DEF AddInode, s2fs_make_inode
      <3>2. TreeRefs'
        BY <2>1, <3>1, <1>2 DEF TreeRefs, One
      <3>3. InodeRefs'
        BY <1>3, <2>1, <3>1 DEF InodeRefs, One, Node
      <3>4. QED BY <2>3, <3>1, <3>2, <3>3, <1>1 DEF RefInv
    <2>4. QED BY <1>9, <2>2, <2>3, StepNames DEF AddInode
  <1>10. CASE AddInode("bar")
    <2>1. /\ present = {"root", "foo"} /\ InodeRefs /\ phase' = "mounted"
          /\ dcount["root"] = 2 /\ dcount["foo"] = 2 /\ dcount["bar"] = 1
      BY <1>10, StepNames, <1>1 DEF AddInode, RefInv
    <2>2. CASE Dput("bar") /\ UNCHANGED <<icount, present>>
      <3>1. dcount'["root"] = 2 /\ dcount'["foo"] = 1 /\ dcount'["bar"] = 0
        <4>1. dcount' = [dcount EXCEPT !["bar"] = 0, !["foo"] = @ - 1]
          BY <2>2, StepNames DEF Dput
        <4>2. QED BY <1>3, <2>1, <4>1 DEF Node
      <3>2. TreeRefs' /\ InodeRefs'
        BY <2>1, <2>2, <3>1, <1>2 DEF TreeRefs, InodeRefs, One
      <3>3. QED BY <2>1, <2>2, <3>2, <1>1 DEF RefInv
    <2>3. CASE s2fs_make_inode("bar") /\ present' = present \cup {"bar"}
               /\ UNCHANGED dcount
      <3>1. present' = Node
        BY <2>1, <2>3 DEF Node
      <3>2. TreeRefs'
        BY <2>1, <2>3, <3>1, <1>2 DEF TreeRefs, One, Node
      <3>3. InodeRefs'
        BY <1>3, <2>1, <2>3, <3>1 DEF s2fs_make_inode, InodeRefs, One, Node
      <3>4. QED BY <2>1, <3>1, <3>2, <3>3, <1>1 DEF RefInv, Node
    <2>4. QED BY <1>10, <2>2, <2>3, StepNames DEF AddInode
  <1>11. QED
    BY <1>4, <1>5, <1>6, <1>7, <1>8, <1>9, <1>10

\* Unmounting takes every reference: those of the tree, and there are no files.
LEMMA RefUnmount ==
  ASSUME RefInv, TypeOK', Unmount
  PROVE  RefInv'
  <1>1. Opens = {} /\ Opens' = {}
    BY DEF Unmount, Opens
  <1>2. Cardinality(Opens) = 0 /\ Cardinality(Opens') = 0
    BY <1>1, OpensFacts DEF RefInv
  <1>3. present \in {{"root"}, {"root", "foo"}, Node} /\ TreeRefs /\ InodeRefs
    BY DEF RefInv, Unmount
  <1> DEFINE Kids(n) == {c \in present \ {"root"} : Parent[c] = n}
  <1>4. /\ Kids("root") = IF "foo" \in present THEN {"foo"} ELSE {}
        /\ Kids("foo") = IF "bar" \in present THEN {"bar"} ELSE {}
        /\ Kids("bar") = {}
    BY <1>3, StepNames DEF Node
  <1>5. /\ Taken("root") = One("root" \in present) + One("foo" \in present)
        /\ Taken("foo") = One("foo" \in present) + One("bar" \in present)
        /\ Taken("bar") = One("bar" \in present)
    <2>1. /\ Cardinality(Kids("root")) = One("foo" \in present)
          /\ Cardinality(Kids("foo")) = One("bar" \in present)
          /\ Cardinality(Kids("bar")) = 0
      <3>1. Cardinality({}) = 0 /\ \A x : Cardinality({x}) = 1
        BY FS_EmptySet, FS_Singleton
      <3>2. QED BY <1>4, <3>1 DEF One
    <2>2. \A n : Taken(n) = One(n \in present) + Cardinality(Kids(n))
      BY DEF Taken, One
    <2> HIDE DEF Kids
    <2>3. QED BY <2>1, <2>2 DEF One
  <1>6. \A n \in Node : dcount'[n] = 0 /\ icount'[n] = 0
    BY <1>2, <1>3, <1>5 DEF Unmount, TreeRefs, InodeRefs, One, Node
  <1>7. QED
    BY <1>1, <1>2, <1>6 DEF RefInv, TreeRefs, InodeRefs, One, Node, Unmount

LEMMA RefReader ==
  ASSUME RefInv, TypeOK', NEW r \in Reader,
         \/ Open(r) \/ Close(r)
         \/ \E count \in Counts : s2fs_read_file(r, count)
  PROVE  RefInv'
  <1>1. /\ phase = "mounted" /\ "bar" \in present
        /\ UNCHANGED <<phase, icount, present>>
    BY DEF RefInv, Open, Close, s2fs_read_file, Opens
  <1>2. TypeOK
    BY DEF RefInv
  <1>3. CASE Open(r)
    <2>1. Opens' = Opens \cup {r} /\ r \notin Opens
      BY <1>2, <1>3, ClosedType DEF Open, Opens, TypeOK
    <2>2. Cardinality(Opens') = Cardinality(Opens) + 1
      BY <1>2, <2>1, OpensFacts
    <2>3. QED
      BY <1>1, <1>2, <1>3, <2>2, OpensFacts
      DEF Open, RefInv, TypeOK, TreeRefs, InodeRefs, One, Node
  <1>4. CASE Close(r)
    <2>1. Opens' = Opens \ {r} /\ r \in Opens
      BY <1>2, <1>4, ClosedType DEF Close, Opens, TypeOK
    <2>2. Cardinality(Opens') = Cardinality(Opens) - 1
      BY <1>2, <2>1, OpensFacts
    <2>3. QED
      BY <1>1, <1>2, <1>4, <2>2, OpensFacts
      DEF Close, RefInv, TypeOK, TreeRefs, InodeRefs, One, Node
  <1>5. ASSUME NEW count \in Counts, s2fs_read_file(r, count)
        PROVE  RefInv'
    <2>1. Opens' = Opens /\ dcount' = dcount
      BY <1>2, <1>5 DEF s2fs_read_file, Opens, TypeOK
    <2>2. QED
      BY <1>1, <2>1 DEF RefInv, TreeRefs, InodeRefs
  <1>6. QED BY <1>3, <1>4, <1>5

LEMMA RefNext ==
  ASSUME RefInv, [Next]_vars
  PROVE  RefInv'
  <1>1. TypeOK'
    BY TypeNext DEF RefInv
  <1>2. CASE UNCHANGED vars
    BY <1>2 DEF vars, RefInv, TypeOK, TreeRefs, InodeRefs, Opens
  <1>3. CASE Next
    BY <1>1, <1>3, RefMount, RefUnmount, RefReader DEF Next
  <1>4. QED BY <1>2, <1>3

\* Whichever allocations of a mount fail and whoever opens and closes bar,
\* nothing is left of s2fs once it is unmounted: the error paths of
\* s2fs_create_dir and s2fs_create_file give back what they took.
THEOREM NothingLeftHolds == Spec => []NothingLeft
  <1>1. RefInv => NothingLeft
    <2> SUFFICES ASSUME RefInv, phase \in {"unloaded", "unmounted"}
                 PROVE  \A n \in Node : dcount[n] = 0 /\ icount[n] = 0
      BY DEF NothingLeft
    <2>1. Opens = {} /\ present = {} /\ TreeRefs /\ InodeRefs
      BY DEF RefInv
    <2>2. Cardinality(Opens) = 0
      BY <2>1, OpensFacts DEF RefInv
    <2>3. QED
      BY <2>1, <2>2 DEF TreeRefs, InodeRefs, One, Node
  <1>2. QED
    BY <1>1, RefInit, RefNext, PTL DEF Spec

\* A mounted tree is whole even if foo or bar could not be made: every linked
\* node has its parent and its inode, and every reference belongs to a linked
\* node.
THEOREM MountedTreeWholeHolds == Spec => []MountedTreeWhole
  <1>1. RefInv => MountedTreeWhole
    <2> SUFFICES ASSUME RefInv, phase = "mounted"
                 PROVE  /\ "root" \in present
                        /\ "bar" \in present => "foo" \in present
                        /\ \A n \in Node :
                             /\ n \in present <=> dcount[n] > 0
                             /\ icount[n] = IF n \in present THEN 1 ELSE 0
      BY DEF MountedTreeWhole
    <2>1. /\ present \in {{"root"}, {"root", "foo"}, Node}
          /\ TreeRefs /\ InodeRefs
      BY DEF RefInv
    <2>2. /\ Cardinality(Opens) \in Nat
          /\ "bar" \notin present => Cardinality(Opens) = 0
      BY OpensFacts DEF RefInv
    <2>3. QED
      BY <2>1, <2>2 DEF TreeRefs, InodeRefs, One, Node
  <1>2. QED
    BY <1>1, RefInit, RefNext, PTL DEF Spec

----------------------------------------------------------------------------
(* What reads return. *)

\* A file has not been read yet, or its offset is past the text.
Read(f) ==
  /\ Len(f.got) <= TextLen
  /\ \A k \in 1 .. Len(f.got) : f.got[k] = k
  /\ f.offset = 0 => f.got = <<>>
  /\ f.offset = 0 \/ f.offset >= TextLen

ReadInv == TypeOK /\ \A r \in Reader : Read(file[r])

LEMMA ReadInit == Init => ReadInv
  BY TypeInit, TextAssumption DEF Init, ReadInv, Read, Closed

LEMMA ReadAtEnd ==
  ASSUME NEW f, f.offset \in Nat, f.offset >= TextLen, Len(f.got) <= TextLen,
         \A k \in 1 .. Len(f.got) : f.got[k] = k
  PROVE  Read(f)
  BY TextAssumption DEF Read

\* The first read returns a beginning of the text and the others nothing.
LEMMA ReadStep ==
  ASSUME ReadInv, NEW r \in Reader, NEW count \in Counts, s2fs_read_file(r, count)
  PROVE  Read(file'[r])
  <1> DEFINE offset == file[r].offset
             got    == file[r].got
             n      == Clamped(offset, count)
             piece  == SubSeq(Text, offset + 1, offset + n)
  <1>1. /\ offset \in 0 .. 2 * TextLen /\ got \in Seq(1 .. TextLen)
        /\ count \in Nat /\ TextLen \in Nat \ {0} /\ Read(file[r])
    BY TextAssumption DEF ReadInv, TypeOK, File
  <1>2. /\ file'[r].offset = NewOffset(offset)
        /\ file'[r].got = got \o piece
    BY DEF s2fs_read_file, ReadInv, TypeOK
  <1>3. NewOffset(offset) \in Nat /\ NewOffset(offset) >= TextLen
    BY <1>1 DEF NewOffset, Read
  <1>4. Text \in Seq(Nat) /\ Len(Text) = TextLen /\ \A k \in 1 .. TextLen : Text[k] = k
    BY <1>1 DEF Text
  <1>5. CASE offset = 0
    <2>1. n \in 0 .. TextLen /\ got = <<>>
      BY <1>1, <1>5 DEF Clamped, Read
    <2>2. Len(piece) = n /\ \A k \in 1 .. n : piece[k] = k
      BY <1>4, <1>5, <2>1
    <2>3. piece \in Seq(Nat) /\ got \o piece = piece
      BY <1>4, <1>5, <2>1
    <2>4. file'[r].got = piece
      BY <1>2, <2>3
    <2> HIDE DEF n, piece, got, offset
    <2>5. Len(piece) <= TextLen /\ \A k \in 1 .. Len(piece) : piece[k] = k
      BY <1>1, <2>1, <2>2
    <2>6. QED BY <1>2, <1>3, <2>4, <2>5, ReadAtEnd
  <1>6. CASE offset >= TextLen
    <2>1. n = 0
      BY <1>1, <1>6 DEF Clamped
    <2>2. piece = <<>>
      BY <1>1, <1>4, <2>1
    <2> HIDE DEF n, piece, got
    <2>3. got \o piece = got
      BY <1>1, <2>2
    <2>4. Len(got) <= TextLen /\ \A k \in 1 .. Len(got) : got[k] = k
      BY <1>1 DEF Read, got
    <2> HIDE DEF offset
    <2>5. QED BY <1>2, <1>3, <2>3, <2>4, ReadAtEnd
  <1>7. QED BY <1>1, <1>5, <1>6 DEF Read

LEMMA ReadNext ==
  ASSUME ReadInv, [Next]_vars
  PROVE  ReadInv'
  <1>1. TypeOK'
    BY TypeNext DEF ReadInv
  <1>2. ASSUME NEW r \in Reader, file'[r] = file[r]
        PROVE  Read(file'[r])
    BY <1>2 DEF ReadInv
  <1>3. Read(Closed) /\ Read(Opened)
    BY TextAssumption DEF Read, Closed, Opened
  <1>4. ASSUME NEW r \in Reader
        PROVE  Read(file'[r])
    <2>1. CASE UNCHANGED file
      BY <1>2, <2>1
    <2>2. ASSUME NEW s \in Reader, Open(s) \/ Close(s)
          PROVE  Read(file'[r])
      BY <1>2, <1>3, <2>2 DEF Open, Close, ReadInv, TypeOK
    <2>3. ASSUME NEW s \in Reader, NEW count \in Counts, s2fs_read_file(s, count)
          PROVE  Read(file'[r])
      <3>1. CASE r = s
        BY <2>3, <3>1, ReadStep
      <3>2. CASE r # s
        BY <1>2, <2>3, <3>2 DEF s2fs_read_file, ReadInv, TypeOK
      <3>3. QED BY <3>1, <3>2
    <2>4. QED
      BY <2>1, <2>2, <2>3
      DEF Next, vars, s2fs_init, s2fs_exit, s2fs_get_super, MakeRootInode, MakeRoot,
          AllocDentry, AddInode, Unmount
  <1>5. QED
    BY <1>1, <1>4 DEF ReadInv, Read

\* Whatever the sizes of the buffers, s2fs_read_file never returns a byte out of
\* order or twice.
THEOREM ReadsPrefixHolds == Spec => []ReadsPrefix
  <1>1. ReadInv => ReadsPrefix
    <2> SUFFICES ASSUME ReadInv, NEW r \in Reader
                 PROVE  IsPrefix(file[r].got, Text)
      BY DEF ReadsPrefix
    <2> DEFINE got == file[r].got
    <2>1. /\ got \in Seq(1 .. TextLen) /\ TextLen \in Nat
          /\ Len(got) \in 0 .. TextLen /\ \A k \in 1 .. Len(got) : got[k] = k
      BY TextAssumption DEF ReadInv, TypeOK, File, Read
    <2>2. Text \in Seq(1 .. TextLen) /\ Len(Text) = TextLen
          /\ \A k \in 1 .. TextLen : Text[k] = k
      BY <2>1 DEF Text
    <2> HIDE DEF got
    <2>3. SubSeq(got, 1, Len(got)) = SubSeq(Text, 1, Len(got))
      BY <2>1, <2>2
    <2>4. QED BY <2>1, <2>2, <2>3 DEF IsPrefix, got
  <1>2. QED
    BY <1>1, ReadInit, ReadNext, PTL DEF Spec
=============================================================================
