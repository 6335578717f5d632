---------------------------- MODULE SharedMemory ----------------------------
(***************************************************************************)
(* What s2dsm promises its two users: one memory of pages.  A write        *)
(* replaces a page's text at once; whatever a process shows is the text    *)
(* the memory holds at that moment.  There are no copies, states or        *)
(* messages here.                                                          *)
(***************************************************************************)
CONSTANTS Process, PageNo, Content, Blank

VARIABLES
  mem,     \* mem[p]: the text of page p
  shown    \* shown[n]: the page and text that n is printing, or Nothing

smvars == <<mem, shown>>

Nothing == <<>>

SMTypeOK ==
  /\ mem \in [PageNo -> Content \cup {Blank}]
  /\ shown \in [Process -> {Nothing} \cup (PageNo \X (Content \cup {Blank}))]

SMInit ==
  /\ mem = [p \in PageNo |-> Blank]
  /\ shown = [n \in Process |-> Nothing]

SMWrite(p, v) ==
  /\ mem' = [mem EXCEPT ![p] = v]
  /\ UNCHANGED shown

Show(n, p) ==
  /\ shown[n] = Nothing
  /\ shown' = [shown EXCEPT ![n] = <<p, mem[p]>>]
  /\ UNCHANGED mem

Printed(n) ==
  /\ shown[n] # Nothing
  /\ shown' = [shown EXCEPT ![n] = Nothing]
  /\ UNCHANGED mem

SMNext ==
  \/ \E p \in PageNo, v \in Content : SMWrite(p, v)
  \/ \E n \in Process : Printed(n) \/ \E p \in PageNo : Show(n, p)

SMSpec == SMInit /\ [][SMNext]_smvars
=============================================================================
