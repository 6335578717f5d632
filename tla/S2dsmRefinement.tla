-------------------------- MODULE S2dsmRefinement --------------------------
(***************************************************************************)
(* The two s2dsm processes implement one shared memory when their users    *)
(* take turns: the page copies and MSI states of S2dsm are mapped to the   *)
(* single memory of SharedMemory.                                          *)
(***************************************************************************)
EXTENDS S2dsm

\* n's write of p has started to reach the page.
Writing(n, p) ==
  /\ op[n] = "write" /\ cur[n] = p
  /\ pc[n] \in {"copyRest", "mark", "send", "ack"}

Holds(n, p) == msi[n][p] # "i"

\* A write counts from its first store; otherwise the memory is what a
\* process that holds the page has.
MemoryOf(p) ==
  IF \E n \in Node : Writing(n, p)
  THEN buf[CHOOSE n \in Node : Writing(n, p)]
  ELSE IF \E n \in Node : Holds(n, p)
       THEN page[CHOOSE n \in Node : Holds(n, p)][p]
       ELSE Empty

ShownBy(n) == IF pc[n] = "print" THEN <<cur[n], page_output[n]>> ELSE <<>>

Memory == INSTANCE SharedMemory WITH
            Process <- Node, PageNo <- Page, Content <- Message, Blank <- Empty,
            mem <- [p \in Page |-> MemoryOf(p)],
            shown <- [n \in Node |-> ShownBy(n)]

\* Every run of the two processes looks like a run of one shared memory: a
\* read or the echo of a write shows the last text written to the page by
\* either user, or nothing if there is none.
ImplementsSharedMemory == Memory!SMSpec
=============================================================================
