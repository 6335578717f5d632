----------------------------- MODULE Userfault -----------------------------
(***************************************************************************)
(* The two single-process programs of "Assignment 3 User faults/Part 1-2"  *)
(* once their memory is registered with userfaultfd: the demonstration     *)
(* uffd/uffd.c, whose main thread goes over the memory in eight passes, and *)
(* s2dsm.c, whose user reads and writes pages.  Every first access to a    *)
(* page blocks the main thread until the fault handler's thread has        *)
(* installed the page.                                                     *)
(*                                                                         *)
(* Memory is a row of cells, PageCells of them to a page: 1024 bytes each  *)
(* for uffd.c, which never looks at less, and one byte each for s2dsm.c.   *)
(* Characters are ASCII codes.                                             *)
(***************************************************************************)
EXTENDS Integers, Sequences, FiniteSets

CONSTANTS
  Programs,   \* which programs, a subset of {"uffd", "s2dsm"}
  MaxPages,   \* the largest number of pages asked for
  PageCells,  \* cells to a page
  Letters,    \* how many letters the demonstration fills pages with (20)
  Char        \* the characters a user of s2dsm types

Zero  == 0    \* '\0'
At    == 64   \* '@'
Caret == 94   \* '^'

ASSUME ProgramAssumption == Programs \subseteq {"uffd", "s2dsm"}
ASSUME SizeAssumption ==
  MaxPages \in Nat \ {0} /\ PageCells \in Nat \ {0, 1} /\ Letters \in 1 .. 26
ASSUME CharAssumption == Char \subseteq 1 .. 127

VARIABLES
  prog, num_pages,
  mem,          \* mem[c]: what cell c holds
  present,      \* the pages that are mapped
  fault,        \* the page whose fault blocks the main thread, or -1
  hpc, msg,     \* the handler: in poll, or with a fault message read
  fault_cnt,    \* the handler's counter (uffd.c)
  pass, l,      \* uffd.c's main thread: which pass, at which cell
  seen,         \* seen[k]: what pass k has printed
  op, request_page, cur, message,   \* s2dsm.c's main thread
  last          \* last[p]: the message last written to p (not in the code)

demoVars == <<pass, l, seen>>
userVars == <<op, request_page, cur, message, last>>
vars == <<prog, num_pages, mem, present, fault, hpc, msg, fault_cnt,
          demoVars, userVars>>

Page == 0 .. num_pages - 1
MemSize == num_pages * PageCells
CellsOf(p) == p * PageCells .. (p + 1) * PageCells - 1
PageOf(c) == c \div PageCells

\* strlen(message) < page_size: message is an array of page_size bytes.
Messages == UNION {[1 .. n -> Char] : n \in 1 .. PageCells - 1}

TypeOK ==
  /\ prog \in Programs /\ num_pages \in 1 .. MaxPages
  /\ mem \in [0 .. MemSize - 1 -> 0 .. 127]
  /\ present \subseteq Page
  /\ fault \in Page \cup {-1} /\ msg \in Page
  /\ hpc \in {"poll", "copy"}
  /\ fault_cnt \in Nat
  /\ pass \in 1 .. 9 /\ l \in 0 .. MemSize
  /\ seen \in [1 .. 8 -> Seq(0 .. 127)]
  /\ op \in {"prompt", "write", "print"}
  /\ request_page \in Page \cup {-1} /\ cur \in Page
  /\ message \in Messages \cup {<<>>}
  /\ last \in [Page -> Messages \cup {<<>>}]

\* UFFDIO_REGISTER and pthread_create have succeeded.
Registered ==
  present = {} /\ fault = -1 /\ hpc = "poll" /\ msg = 0 /\ fault_cnt = 0

\* A mapping of at least one page, registered.
Init ==
  /\ prog \in Programs /\ num_pages \in 1 .. MaxPages
  /\ mem = [c \in 0 .. MemSize - 1 |-> Zero]
  /\ Registered
  /\ pass = 1 /\ l = 0 /\ seen = [k \in 1 .. 8 |-> <<>>]
  /\ op = "prompt" /\ request_page = -1 /\ cur = 0 /\ message = <<>>
  /\ last = [p \in Page |-> <<>>]

----------------------------------------------------------------------------
(* The fault handler's thread. *)

Letter(n) == 65 + (n % Letters)

\* What memset puts into the page, in uffd.c and in s2dsm.c.
FillDemo == Letter(fault_cnt)
FillS2dsm == Zero

\* poll and read of the userfaultfd.
HandlerRead ==
  /\ hpc = "poll" /\ fault # -1
  /\ msg' = fault
  /\ hpc' = "copy"
  /\ UNCHANGED <<prog, num_pages, mem, present, fault, fault_cnt, demoVars,
                 userVars>>

\* UFFDIO_COPY of a page filled with ch: it installs the page and wakes the
\* thread that faulted.
Install(ch) ==
  /\ mem' = [c \in DOMAIN mem |-> IF c \in CellsOf(msg) THEN ch ELSE mem[c]]
  /\ present' = present \cup {msg}
  /\ fault' = -1
  /\ hpc' = "poll" /\ msg' = 0
  /\ UNCHANGED <<prog, num_pages, demoVars, userVars>>

\* Mutants: the counter is not incremented; the thread is not woken.
HandlerCopyDemoNoCount ==
  prog = "uffd" /\ hpc = "copy" /\ Install(FillDemo) /\ UNCHANGED fault_cnt
HandlerCopyDemoNoWake ==
  /\ prog = "uffd" /\ hpc = "copy" /\ present' = present \cup {msg}
  /\ UNCHANGED <<prog, num_pages, mem, fault, hpc, msg, fault_cnt, demoVars,
                 userVars>>
HandlerCopyDemo ==
  prog = "uffd" /\ hpc = "copy" /\ Install(FillDemo)
    /\ fault_cnt' = fault_cnt + 1

HandlerCopyS2dsm ==
  prog = "s2dsm" /\ hpc = "copy" /\ Install(FillS2dsm) /\ UNCHANGED fault_cnt

Handler == HandlerRead \/ HandlerCopyDemo \/ HandlerCopyS2dsm

----------------------------------------------------------------------------
(* The main thread of uffd.c. *)

Fault(p) ==
  /\ fault = -1 /\ p \notin present
  /\ fault' = p
  /\ UNCHANGED <<prog, num_pages, mem, present, hpc, msg, fault_cnt, demoVars,
                 userVars>>

\* Passes 5 and 7 write; the others read.
Writes(k) == k \in {5, 7}
Written(k) == IF k = 5 THEN At ELSE Caret

\* Mutant: the first madvise is missing.
AdvisedOnce(k) == k = 5
\* madvise(MADV_DONTNEED) comes before passes 3 and 5.
Advised(k) == k \in {3, 5}

InPass == prog = "uffd" /\ pass <= 8 /\ l < MemSize

DemoFault == InPass /\ Fault(PageOf(l))

\* char c = addr[l]
ReadCell ==
  /\ InPass /\ ~Writes(pass)
  /\ fault = -1 /\ PageOf(l) \in present
  /\ seen' = [seen EXCEPT ![pass] = Append(@, mem[l])]
  /\ l' = l + 1
  /\ UNCHANGED <<prog, num_pages, mem, present, fault, hpc, msg, fault_cnt,
                 pass, userVars>>

\* memset(addr+l, .., 1024), and the character read back.
WriteCell ==
  /\ InPass /\ Writes(pass)
  /\ fault = -1 /\ PageOf(l) \in present
  /\ mem' = [mem EXCEPT ![l] = Written(pass)]
  /\ seen' = [seen EXCEPT ![pass] = Append(@, Written(pass))]
  /\ l' = l + 1
  /\ UNCHANGED <<prog, num_pages, present, fault, hpc, msg, fault_cnt, pass,
                 userVars>>

\* The loop ends; the next pass, or exit after pass 8.
EndPass ==
  /\ prog = "uffd" /\ pass <= 8 /\ l = MemSize
  /\ pass' = pass + 1
  /\ l' = 0
  /\ present' = IF Advised(pass + 1) THEN {} ELSE present
  /\ UNCHANGED <<prog, num_pages, mem, fault, hpc, msg, fault_cnt, seen,
                 userVars>>

Demo == DemoFault \/ ReadCell \/ WriteCell \/ EndPass

----------------------------------------------------------------------------
(* The main thread of s2dsm.c. *)

FirstPage(r) == IF r = -1 THEN 0 ELSE r
\* Mutant: the loops' bound for all pages is one too high.
LastPageOneTooFar(r) == IF r = -1 THEN num_pages ELSE r
LastPage(r) == IF r = -1 THEN num_pages - 1 ELSE r

\* The user types r or w, a page or -1, and a message (empty for r).
Command(o, r, m) ==
  /\ prog = "s2dsm" /\ op = "prompt"
  /\ o = "print" <=> m = <<>>
  /\ op' = o
  /\ request_page' = r /\ cur' = FirstPage(r) /\ message' = m
  /\ UNCHANGED <<prog, num_pages, mem, present, fault, hpc, msg, fault_cnt,
                 demoVars, last>>

UserFault == op # "prompt" /\ Fault(cur)

\* Mutant: no '\0' after the message.
StoredUnterminated(p, m, c) ==
  LET j == c - p * PageCells IN
    IF j \in 0 .. Len(m) - 1 THEN m[j + 1] ELSE mem[c]
\* What is in cell c after the copy loop for page p and its final '\0'.
Stored(p, m, c) ==
  LET j == c - p * PageCells IN
    IF j \in 0 .. Len(m) - 1 THEN m[j + 1]
    ELSE IF j = Len(m) THEN Zero ELSE mem[c]

\* One page of updatePageContents; after the last one the pages are printed.
UpdatePage ==
  /\ op = "write" /\ fault = -1 /\ cur \in present
  /\ mem' = [c \in DOMAIN mem |-> Stored(cur, message, c)]
  /\ last' = [last EXCEPT ![cur] = message]
  /\ IF cur < LastPage(request_page)
     THEN cur' = cur + 1 /\ UNCHANGED op
     ELSE cur' = FirstPage(request_page) /\ op' = "print"
  /\ UNCHANGED <<prog, num_pages, present, fault, hpc, msg, fault_cnt,
                 demoVars, request_page, message>>

\* One page of printPageContents, then the prompt.
PrintPage ==
  /\ op = "print" /\ fault = -1 /\ cur \in present
  /\ IF cur < LastPage(request_page)
     THEN cur' = cur + 1 /\ UNCHANGED <<op, request_page, message>>
     ELSE cur' = 0 /\ op' = "prompt" /\ request_page' = -1 /\ message' = <<>>
  /\ UNCHANGED <<prog, num_pages, mem, present, fault, hpc, msg, fault_cnt,
                 demoVars, last>>

User == UserFault \/ UpdatePage \/ PrintPage

Next ==
  \/ Handler \/ Demo \/ User
  \/ \E o \in {"print", "write"}, r \in Page \cup {-1},
        m \in Messages \cup {<<>>} : Command(o, r, m)

\* Both threads run; the user of s2dsm need not type.
Spec == Init /\ [][Next]_vars /\ WF_vars(Handler) /\ WF_vars(Demo \/ User)

----------------------------------------------------------------------------
(* Properties. *)

\* What the comments U1 to U8 of uffd.c say pass k prints for cell c: the letter
\* of the page's fault, a later letter after the first madvise, then '@', '^'.
Commented(k, c) ==
  CASE k \in {1, 2} -> Letter(PageOf(c))
    [] k \in {3, 4} -> Letter(num_pages + PageOf(c))
    [] k \in {5, 6} -> At
    [] k \in {7, 8} -> Caret

\* Each pass of uffd.c prints what its comment says: in particular the even
\* passes see no fault, and no handler writes over what main has written.
PassesAsCommented ==
  \A k \in 1 .. 8 : \A i \in 1 .. Len(seen[k]) : seen[k][i] = Commented(k, i - 1)

\* The handler is called once for each page and each time the page has been
\* dropped, never for a page that is there.
FaultsOncePerPage ==
  prog = "uffd" =>
    fault_cnt = Cardinality(present)
                  + num_pages * Cardinality({k \in 1 .. pass : k \in {3, 5}})

\* The string in page p, as sprintf("%s") reads it.
Text(p) ==
  LET n == CHOOSE k \in 0 .. PageCells - 1 :
             /\ mem[p * PageCells + k] = Zero
             /\ \A j \in 0 .. k - 1 : mem[p * PageCells + j] # Zero
  IN  [i \in 1 .. n |-> mem[p * PageCells + i - 1]]

\* Every page of s2dsm holds the message last written to it, whatever longer
\* message was there before and whatever was written to its neighbours; a page
\* nobody wrote reads as the empty string.
ReadsLastWrite ==
  prog = "s2dsm" =>
    \A p \in Page :
      /\ \E c \in CellsOf(p) : mem[c] = Zero
      /\ Text(p) = last[p]
      /\ p \notin present => last[p] = <<>>

\* No thread waits for ever for a page: the demonstration ends, and a command of
\* s2dsm returns to the prompt.
Completes ==
  /\ prog = "uffd" ~> pass = 9
  /\ op # "prompt" ~> op = "prompt"
=============================================================================
