-------------------------- MODULE UserfaultProofs --------------------------
(***************************************************************************)
(* Proofs about Userfault, for any number of pages, any page size and any  *)
(* alphabet: the demonstration's passes print what their comments say, the *)
(* handler is called once per page that was dropped, and a page of s2dsm   *)
(* holds the message last written to it.                                   *)
(***************************************************************************)
EXTENDS Userfault, FiniteSetTheorems, TLAPS

----------------------------------------------------------------------------
(* Pages and their cells. *)

LEMMA Multiples ==
  ASSUME NEW p \in Nat, NEW q \in Nat, NEW b \in Nat, p < q
  PROVE  p * b + b <= q * b /\ p * b \in Nat /\ q * b \in Nat
  <1>1. (p + 1) * b <= q * b
    OBVIOUS
  <1>2. (p + 1) * b = p * b + b /\ p * b \in Nat /\ q * b \in Nat
    OBVIOUS
  <1>3. QED BY <1>1, <1>2

\* A cell is in the page that PageOf says, and in no other.
LEMMA PageOfCell ==
  ASSUME NEW c \in Nat
  PROVE  /\ PageOf(c) \in Nat
         /\ PageOf(c) * PageCells <= c /\ c < PageOf(c) * PageCells + PageCells
  <1>1. PageCells \in Nat \ {0}
    BY SizeAssumption
  <1>2. /\ c \div PageCells \in Nat
        /\ (c \div PageCells) * PageCells <= c
        /\ c < (c \div PageCells) * PageCells + PageCells
    BY <1>1
  <1>3. QED BY <1>2 DEF PageOf

LEMMA PageUnique ==
  ASSUME NEW p \in Nat, NEW q \in Nat, NEW c \in Int,
         p * PageCells <= c, c < p * PageCells + PageCells,
         q * PageCells <= c, c < q * PageCells + PageCells
  PROVE  p = q
  <1>1. PageCells \in Nat
    BY SizeAssumption
  <1>2. p < q => p * PageCells + PageCells <= q * PageCells
    BY <1>1, Multiples
  <1>3. q < p => q * PageCells + PageCells <= p * PageCells
    BY <1>1, Multiples
  <1>4. p * PageCells \in Nat /\ q * PageCells \in Nat
    BY <1>1
  <1>5. QED BY <1>1, <1>2, <1>3, <1>4

\* The cells of a page, as offsets from its first one.
LEMMA CellsOfPage ==
  ASSUME NEW p \in Nat, NEW c
  PROVE  /\ p * PageCells \in Nat
         /\ c \in CellsOf(p) <=>
              c \in Int /\ p * PageCells <= c /\ c < p * PageCells + PageCells
  <1>1. PageCells \in Nat
    BY SizeAssumption
  <1>2. (p + 1) * PageCells = p * PageCells + PageCells /\ p * PageCells \in Nat
    BY <1>1
  <1>3. QED BY <1>1, <1>2 DEF CellsOf

LEMMA CellsInMemory ==
  ASSUME num_pages \in Nat, NEW p \in Page
  PROVE  /\ p \in Nat /\ p < num_pages
         /\ CellsOf(p) \subseteq 0 .. MemSize - 1
         /\ p * PageCells + PageCells <= MemSize
         /\ MemSize \in Nat
  <1>1. p \in Nat /\ p < num_pages /\ PageCells \in Nat
    BY SizeAssumption DEF Page
  <1>2. p * PageCells + PageCells <= MemSize /\ MemSize \in Nat
    BY <1>1, Multiples DEF MemSize
  <1>3. ASSUME NEW c \in CellsOf(p) PROVE c \in 0 .. MemSize - 1
    <2>1. c \in Int /\ p * PageCells <= c /\ c < p * PageCells + PageCells
          /\ p * PageCells \in Nat
      BY <1>1, CellsOfPage
    <2>2. QED BY <1>1, <1>2, <2>1
  <1>4. QED BY <1>1, <1>2, <1>3

LEMMA PageOfInMemory ==
  ASSUME num_pages \in Nat, NEW c \in 0 .. MemSize - 1
  PROVE  /\ c \in Nat /\ PageOf(c) \in Page /\ c \in CellsOf(PageOf(c))
         /\ \A p \in Page : c \in CellsOf(p) <=> p = PageOf(c)
  <1>1. PageCells \in Nat /\ MemSize \in Nat /\ c \in Nat
    BY SizeAssumption DEF MemSize
  <1>2. /\ PageOf(c) \in Nat
        /\ PageOf(c) * PageCells <= c /\ c < PageOf(c) * PageCells + PageCells
    BY <1>1, PageOfCell
  <1>3. PageOf(c) < num_pages
    <2>1. SUFFICES ASSUME num_pages <= PageOf(c) PROVE FALSE
      BY <1>2
    <2>2. num_pages * PageCells <= PageOf(c) * PageCells
      BY <1>1, <1>2, <2>1
    <2>3. PageOf(c) * PageCells \in Nat
      BY <1>1, <1>2
    <2>4. QED BY <1>1, <1>2, <2>2, <2>3 DEF MemSize
  <1>4. PageOf(c) \in Page
    BY <1>2, <1>3 DEF Page
  <1>5. c \in CellsOf(PageOf(c))
    BY <1>1, <1>2, CellsOfPage
  <1>6. ASSUME NEW p \in Page, c \in CellsOf(p) PROVE p = PageOf(c)
    <2>1. p \in Nat
      BY DEF Page
    <2>2. p * PageCells <= c /\ c < p * PageCells + PageCells
      BY <1>6, <2>1, CellsOfPage
    <2>3. \A q \in Nat :
            q * PageCells <= c /\ c < q * PageCells + PageCells => p = q
      BY <1>1, <2>1, <2>2, PageUnique
    <2>4. QED BY <1>2, <2>3
  <1>7. QED BY <1>1, <1>4, <1>5, <1>6

----------------------------------------------------------------------------
(* Type correctness. *)

LEMMA SizeFacts ==
  ASSUME TypeOK
  PROVE  /\ num_pages \in Nat \ {0} /\ MemSize \in Nat /\ PageCells \in Nat \ {0, 1}
         /\ Page \subseteq Nat /\ 0 \in Page
         /\ DOMAIN mem = 0 .. MemSize - 1
  <1>1. num_pages \in Nat \ {0} /\ PageCells \in Nat \ {0, 1}
    BY SizeAssumption DEF TypeOK
  <1>2. MemSize \in Nat
    BY <1>1 DEF MemSize
  <1>3. QED BY <1>1, <1>2 DEF Page, TypeOK

LEMMA LetterType == \A n \in Nat : Letter(n) \in 0 .. 127
  BY SizeAssumption DEF Letter

LEMMA MessageType ==
  ASSUME NEW m \in Messages \cup {<<>>}
  PROVE  /\ Len(m) \in 0 .. PageCells - 1
         /\ \A j \in 1 .. Len(m) : m[j] \in 1 .. 127
         /\ m = [j \in 1 .. Len(m) |-> m[j]]
         /\ m \in Messages <=> m # <<>>
         /\ DOMAIN m = 1 .. Len(m)
  <1>1. CASE m \in Messages
    <2>1. PICK n \in 1 .. PageCells - 1 : m \in [1 .. n -> Char]
      BY <1>1 DEF Messages
    <2>2. n \in Nat
      BY <2>1, SizeAssumption
    <2>3. m \in Seq(Char) /\ Len(m) = n
      BY <2>1, <2>2
    <2>4. \A j \in 1 .. n : m[j] \in 1 .. 127
      BY <2>1, CharAssumption
    <2>5. n \in 0 .. PageCells - 1 /\ m # <<>> /\ 1 .. Len(m) = 1 .. n
      BY <2>1, <2>2, <2>3, SizeAssumption
    <2>6. m = [j \in 1 .. n |-> m[j]] /\ DOMAIN m = 1 .. n
      BY <2>1
    <2>7. QED BY <1>1, <2>3, <2>4, <2>5, <2>6
  <1>2. CASE m = <<>>
    <2>1. <<>> \notin Messages
      <3>1. SUFFICES ASSUME NEW n \in 1 .. PageCells - 1, <<>> \in [1 .. n -> Char]
                     PROVE  FALSE
        BY DEF Messages
      <3>2. 1 \in DOMAIN <<>>
        BY <3>1, SizeAssumption
      <3>3. QED BY <3>2
    <2>2. QED BY <1>2, <2>1, SizeAssumption
  <1>3. QED BY <1>1, <1>2

LEMMA TypeInit == Init => TypeOK
  <1> SUFFICES ASSUME Init PROVE TypeOK
    OBVIOUS
  <1>1. num_pages \in Nat \ {0} /\ 0 \in Page /\ MemSize \in Nat
    BY SizeAssumption DEF Init, Page, MemSize
  <1>2. mem \in [0 .. MemSize - 1 -> 0 .. 127] /\ <<>> \in Seq(0 .. 127)
    BY DEF Init, Zero
  <1>3. seen \in [1 .. 8 -> Seq(0 .. 127)] /\ last \in [Page -> Messages \cup {<<>>}]
    BY <1>2 DEF Init
  <1>4. l \in 0 .. MemSize /\ pass \in 1 .. 9 /\ fault_cnt \in Nat
    BY <1>1 DEF Init, Registered
  <1>5. QED BY <1>1, <1>2, <1>3, <1>4 DEF Init, Registered, TypeOK

LEMMA TypeInstall ==
  ASSUME TypeOK, NEW ch \in 0 .. 127, Install(ch),
         fault_cnt' \in {fault_cnt, fault_cnt + 1}
  PROVE  TypeOK'
  <1>1. mem' \in [0 .. MemSize - 1 -> 0 .. 127]
    BY SizeFacts DEF Install, TypeOK
  <1>2. Page' = Page /\ MemSize' = MemSize /\ 0 \in Page
    BY SizeFacts DEF Install, Page, MemSize
  <1>3. QED BY <1>1, <1>2 DEF Install, demoVars, userVars, TypeOK

LEMMA TypeHandler ==
  ASSUME TypeOK, Handler
  PROVE  TypeOK'
  <1>1. CASE HandlerRead
    <2>1. Page' = Page /\ MemSize' = MemSize
      BY <1>1 DEF HandlerRead, Page, MemSize
    <2>2. QED BY <1>1, <2>1 DEF HandlerRead, demoVars, userVars, TypeOK
  <1>2. CASE HandlerCopyDemo
    <2>1. FillDemo \in 0 .. 127
      BY LetterType DEF FillDemo, TypeOK
    <2>2. QED BY <1>2, <2>1, TypeInstall DEF HandlerCopyDemo
  <1>3. CASE HandlerCopyS2dsm
    <2>1. FillS2dsm \in 0 .. 127
      BY DEF FillS2dsm, Zero
    <2>2. QED BY <1>3, <2>1, TypeInstall DEF HandlerCopyS2dsm
  <1>4. QED BY <1>1, <1>2, <1>3 DEF Handler

LEMMA TypeFault ==
  ASSUME TypeOK, NEW p \in Page, Fault(p)
  PROVE  TypeOK'
  <1>1. Page' = Page /\ MemSize' = MemSize
    BY DEF Fault, Page, MemSize
  <1>2. QED BY <1>1 DEF Fault, demoVars, userVars, TypeOK

LEMMA TypeDemo ==
  ASSUME TypeOK, Demo
  PROVE  TypeOK'
  <1>1. /\ MemSize \in Nat /\ num_pages \in Nat
        /\ InPass => l \in 0 .. MemSize - 1 /\ l + 1 \in 0 .. MemSize /\ pass \in 1 .. 8
    <2>1. MemSize \in Nat /\ num_pages \in Nat /\ l \in 0 .. MemSize /\ pass \in 1 .. 9
      BY SizeFacts DEF TypeOK
    <2>2. QED BY <2>1 DEF InPass
  <1>2. CASE DemoFault
    <2>1. PageOf(l) \in Page
      BY <1>1, <1>2, PageOfInMemory DEF DemoFault
    <2>2. QED BY <1>2, <2>1, TypeFault DEF DemoFault
  <1>3. CASE ReadCell
    <2>1. Page' = Page /\ MemSize' = MemSize
      BY <1>3 DEF ReadCell, Page, MemSize
    <2>2. l \in 0 .. MemSize - 1 /\ l' \in 0 .. MemSize /\ pass \in 1 .. 8
      BY <1>1, <1>3 DEF ReadCell
    <2>3. seen' \in [1 .. 8 -> Seq(0 .. 127)]
      <3>1. mem[l] \in 0 .. 127 /\ seen[pass] \in Seq(0 .. 127)
        BY <2>2 DEF TypeOK
      <3>2. Append(seen[pass], mem[l]) \in Seq(0 .. 127)
        BY <3>1
      <3>3. QED BY <1>3, <3>2 DEF ReadCell, TypeOK
    <2>4. QED BY <1>3, <2>1, <2>2, <2>3 DEF ReadCell, userVars, TypeOK
  <1>4. CASE WriteCell
    <2>1. Page' = Page /\ MemSize' = MemSize
      BY <1>4 DEF WriteCell, Page, MemSize
    <2>2. /\ l \in 0 .. MemSize - 1 /\ l' \in 0 .. MemSize /\ pass \in 1 .. 8
          /\ Written(pass) \in 0 .. 127
      BY <1>1, <1>4 DEF WriteCell, Written, At, Caret
    <2>3. seen' \in [1 .. 8 -> Seq(0 .. 127)]
      <3>1. seen[pass] \in Seq(0 .. 127)
        BY <2>2 DEF TypeOK
      <3>2. Append(seen[pass], Written(pass)) \in Seq(0 .. 127)
        BY <2>2, <3>1
      <3>3. QED BY <1>4, <3>2 DEF WriteCell, TypeOK
    <2>4. mem' \in [0 .. MemSize - 1 -> 0 .. 127]
      BY <1>4, <2>2 DEF WriteCell, TypeOK
    <2>5. QED BY <1>4, <2>1, <2>2, <2>3, <2>4 DEF WriteCell, userVars, TypeOK
  <1>5. CASE EndPass
    <2>1. Page' = Page /\ MemSize' = MemSize
      BY <1>5 DEF EndPass, Page, MemSize
    <2>2. QED BY <1>1, <1>5, <2>1 DEF EndPass, userVars, TypeOK
  <1>6. QED BY <1>2, <1>3, <1>4, <1>5 DEF Demo

\* The loops over the pages of a command stay inside the mapping.
LEMMA CursorMoves ==
  ASSUME TypeOK
  PROVE  /\ FirstPage(request_page) \in Page
         /\ cur < LastPage(request_page) => cur + 1 \in Page
  <1>1. /\ num_pages \in Nat \ {0} /\ request_page \in Page \cup {-1} /\ cur \in Page
    BY SizeFacts DEF TypeOK
  <1>2. QED BY <1>1 DEF FirstPage, LastPage, Page

LEMMA TypeUpdate ==
  ASSUME TypeOK, UpdatePage
  PROVE  TypeOK'
  <1>1. Page' = Page /\ MemSize' = MemSize
    BY DEF UpdatePage, Page, MemSize
  <1>2. mem' \in [0 .. MemSize - 1 -> 0 .. 127]
    <2>1. cur \in Nat /\ PageCells \in Nat /\ cur * PageCells \in Nat
      <3>1. cur \in Page /\ Page \subseteq Nat /\ PageCells \in Nat
        BY SizeFacts DEF TypeOK
      <3>2. QED BY <3>1
    <2>2. ASSUME NEW c \in 0 .. MemSize - 1
          PROVE  Stored(cur, message, c) \in 0 .. 127
      <3> DEFINE j == c - cur * PageCells
      <3>1. message \in Messages \cup {<<>>} /\ mem[c] \in 0 .. 127
        BY <2>2 DEF TypeOK
      <3>2. /\ Len(message) \in 0 .. PageCells - 1
            /\ \A k \in 1 .. Len(message) : message[k] \in 1 .. 127
        BY <3>1, MessageType
      <3>3. j \in Int
        BY <2>1, <2>2, SizeFacts
      <3>4. Stored(cur, message, c) =
              IF j \in 0 .. Len(message) - 1 THEN message[j + 1]
              ELSE IF j = Len(message) THEN 0 ELSE mem[c]
        BY DEF Stored, Zero
      <3> HIDE DEF j
      <3>5. j \in 0 .. Len(message) - 1 => j + 1 \in 1 .. Len(message)
        BY <2>1, <3>2, <3>3
      <3>6. j \in 0 .. Len(message) - 1 => message[j + 1] \in 0 .. 127
        <4>1. \A k \in 1 .. Len(message) : message[k] \in 0 .. 127
          BY <3>2
        <4>2. QED BY <3>5, <4>1
      <3>7. QED BY <3>1, <3>4, <3>6
    <2>3. QED BY <2>2, SizeFacts DEF UpdatePage
  <1>3. last' \in [Page -> Messages \cup {<<>>}]
    BY DEF UpdatePage, TypeOK
  <1>4. cur' \in Page /\ op' \in {"prompt", "write", "print"}
    <2>1. op \in {"prompt", "write", "print"}
      BY DEF TypeOK
    <2>2. QED BY <2>1, CursorMoves DEF UpdatePage
  <1>5. QED BY <1>1, <1>2, <1>3, <1>4 DEF UpdatePage, demoVars, TypeOK

LEMMA TypeUser ==
  ASSUME TypeOK, User
  PROVE  TypeOK'
  <1>1. CASE UserFault
    BY <1>1, TypeFault DEF UserFault, TypeOK
  <1>2. CASE UpdatePage
    BY <1>2, TypeUpdate
  <1>3. CASE PrintPage
    <2>1. Page' = Page /\ MemSize' = MemSize
      BY <1>3 DEF PrintPage, Page, MemSize
    <2>2. cur' \in Page
      BY <1>3, CursorMoves, SizeFacts DEF PrintPage
    <2>3. QED BY <1>3, <2>1, <2>2 DEF PrintPage, demoVars, TypeOK
  <1>4. QED BY <1>1, <1>2, <1>3 DEF User

LEMMA TypeCommand ==
  ASSUME TypeOK, NEW o \in {"print", "write"}, NEW r \in Page \cup {-1},
         NEW m \in Messages \cup {<<>>}, Command(o, r, m)
  PROVE  TypeOK'
  <1>1. Page' = Page /\ MemSize' = MemSize
    BY DEF Command, Page, MemSize
  <1>2. cur' \in Page
    BY SizeFacts DEF Command, FirstPage
  <1>3. QED BY <1>1, <1>2 DEF Command, demoVars, TypeOK

LEMMA TypeNext ==
  ASSUME TypeOK, [Next]_vars
  PROVE  TypeOK'
  <1>1. CASE UNCHANGED vars
    BY <1>1 DEF vars, demoVars, userVars, TypeOK, Page, MemSize
  <1>2. CASE Next
    BY <1>2, TypeHandler, TypeDemo, TypeUser, TypeCommand DEF Next
  <1>3. QED BY <1>1, <1>2

\* Type correctness: faults, cursors and pages stay inside the mapping, and
\* memory holds characters only.
THEOREM TypeCorrect == Spec => []TypeOK
  BY TypeInit, TypeNext, PTL DEF Spec

----------------------------------------------------------------------------
(* The handshake of the two threads. *)

\* While a page is waited for, the main thread stays at the access that faulted
\* on it and the page stays absent; the handler serves that fault only.
Waiting ==
  /\ prog = "uffd" => op = "prompt"
  /\ fault # -1 =>
       /\ fault \notin present
       /\ prog = "uffd" => InPass /\ fault = PageOf(l)
       /\ prog = "s2dsm" => op # "prompt" /\ fault = cur
  /\ hpc = "copy" => fault # -1 /\ msg = fault
  /\ prog = "s2dsm" => seen = [k \in 1 .. 8 |-> <<>>]

----------------------------------------------------------------------------
(* The demonstration. *)

\* How often the pages have been dropped by pass k.
Drops(k) == IF k < 3 THEN 0 ELSE IF k < 5 THEN 1 ELSE 2

\* Passes 1, 3 and 5 have touched the pages up to the one they are in.
Touched ==
  IF pass \in {1, 3, 5}
  THEN \A p \in Page : /\ p * PageCells < l => p \in present
                       /\ p \in present => p * PageCells <= l
  ELSE present = Page

\* What pass k finds, or has left, in memory.
Contents ==
  /\ pass \in {1, 2, 3, 4} =>
       \A p \in present : \A c \in CellsOf(p) :
         mem[c] = Letter(num_pages * Drops(pass) + p)
  /\ pass \in {5, 7} => \A c \in 0 .. l - 1 : mem[c] = Written(pass)
  /\ pass \in {6, 8} => \A c \in 0 .. MemSize - 1 : mem[c] = Written(pass - 1)

\* One character for every cell that a pass has visited.
Progress ==
  /\ pass <= 8 => Len(seen[pass]) = l
  /\ \A k \in 1 .. 8 : k > pass => seen[k] = <<>>

DemoInv ==
  prog = "uffd" =>
    /\ Touched /\ Contents /\ Progress
    /\ fault_cnt = Cardinality(present) + num_pages * Drops(pass)

UffdInv == TypeOK /\ Waiting /\ DemoInv /\ PassesAsCommented

----------------------------------------------------------------------------
(* The pages of s2dsm. *)

\* Page p holds the string m and its '\0'.
Holds(p, m) ==
  /\ \A j \in 1 .. Len(m) : mem[p * PageCells + j - 1] = m[j]
  /\ mem[p * PageCells + Len(m)] = Zero

UserInv ==
  prog = "s2dsm" =>
    \A p \in Page : Holds(p, last[p]) /\ (p \notin present => last[p] = <<>>)

TextInv == TypeOK /\ Waiting /\ UserInv

----------------------------------------------------------------------------
(* Proofs. *)

LEMMA NoPage ==
  ASSUME TypeOK
  PROVE  -1 \notin Page
  BY SizeFacts DEF Page

LEMMA WaitingInit == Init => Waiting
  BY DEF Init, Registered, Waiting

LEMMA WaitingHandler ==
  ASSUME TypeOK, Waiting, Handler
  PROVE  Waiting'
  <1>1. CASE HandlerRead
    <2>1. InPass' <=> InPass
      BY <1>1 DEF HandlerRead, demoVars, InPass, MemSize
    <2>2. QED BY <1>1, <2>1 DEF HandlerRead, demoVars, userVars, Waiting, PageOf
  <1>2. ASSUME NEW ch, Install(ch) PROVE Waiting'
    BY <1>2 DEF Install, demoVars, userVars, Waiting
  <1>3. QED BY <1>1, <1>2 DEF Handler, HandlerCopyDemo, HandlerCopyS2dsm

LEMMA WaitingDemo ==
  ASSUME TypeOK, Waiting, Demo
  PROVE  Waiting'
  <1>1. prog = "uffd" /\ prog' = prog /\ op' = op
    BY DEF Demo, DemoFault, Fault, ReadCell, WriteCell, EndPass, InPass, userVars
  <1>2. CASE DemoFault
    <2>1. InPass' <=> InPass
      BY <1>2 DEF DemoFault, Fault, demoVars, InPass, MemSize
    <2>2. QED BY <1>1, <1>2, <2>1
          DEF DemoFault, Fault, demoVars, userVars, Waiting, PageOf
  <1>3. CASE ReadCell \/ WriteCell
    BY <1>1, <1>3 DEF ReadCell, WriteCell, Waiting
  <1>4. CASE EndPass
    <2>1. ~InPass
      BY <1>4, SizeFacts DEF EndPass, InPass
    <2>2. QED BY <1>1, <1>4, <2>1 DEF EndPass, Waiting
  <1>5. QED BY <1>2, <1>3, <1>4 DEF Demo

LEMMA WaitingUser ==
  ASSUME TypeOK, Waiting,
         \/ User
         \/ \E o \in {"print", "write"}, r \in Page \cup {-1},
               m \in Messages \cup {<<>>} : Command(o, r, m)
  PROVE  Waiting'
  <1>1. prog = "s2dsm" /\ prog' = prog /\ seen' = seen /\ prog # "uffd"
    BY ProgramAssumption
    DEF User, UserFault, Fault, UpdatePage, PrintPage, Command, Waiting, TypeOK,
        demoVars
  <1>2. CASE UserFault
    BY <1>1, <1>2 DEF UserFault, Fault, userVars, Waiting
  <1>3. CASE UpdatePage \/ PrintPage
    BY <1>1, <1>3 DEF UpdatePage, PrintPage, Waiting
  <1>4. ASSUME NEW o \in {"print", "write"}, NEW r \in Page \cup {-1},
               NEW m \in Messages \cup {<<>>}, Command(o, r, m)
        PROVE  Waiting'
    BY <1>1, <1>4 DEF Command, Waiting
  <1>5. QED BY <1>2, <1>3, <1>4 DEF User

LEMMA WaitingNext ==
  ASSUME TypeOK, Waiting, [Next]_vars
  PROVE  Waiting'
  <1>1. CASE UNCHANGED vars
    <2>1. InPass' <=> InPass
      BY <1>1 DEF vars, demoVars, InPass, MemSize
    <2>2. QED BY <1>1, <2>1 DEF vars, demoVars, userVars, Waiting, PageOf
  <1>2. CASE Next
    BY <1>2, WaitingHandler, WaitingDemo, WaitingUser DEF Next
  <1>3. QED BY <1>1, <1>2

----------------------------------------------------------------------------

\* The comments, as a formula in the number of drops.
LEMMA CommentedIs ==
  ASSUME TypeOK, NEW k \in 1 .. 8, NEW c \in Nat
  PROVE  Commented(k, c) =
           IF k \in {1, 2, 3, 4} THEN Letter(num_pages * Drops(k) + PageOf(c))
           ELSE IF k \in {5, 6} THEN At ELSE Caret
  <1>1. num_pages \in Nat /\ PageOf(c) \in Nat
    BY PageOfCell, SizeFacts
  <1>2. /\ num_pages * 0 + PageOf(c) = PageOf(c)
        /\ num_pages * 1 + PageOf(c) = num_pages + PageOf(c)
    BY <1>1
  <1>3. CASE k \in {1, 2}
    <2>1. Commented(k, c) = Letter(PageOf(c))
      BY <1>3 DEF Commented
    <2>2. Drops(k) = 0
      BY <1>3 DEF Drops
    <2>3. QED BY <1>2, <1>3, <2>1, <2>2
  <1>4. CASE k \in {3, 4}
    <2>1. k \notin {1, 2} /\ k \notin {5, 6} /\ k \notin {7, 8} /\ Drops(k) = 1
      BY <1>4 DEF Drops
    <2>2. Commented(k, c) = Letter(num_pages + PageOf(c))
      BY <1>4, <2>1, Zenon DEF Commented
    <2>3. QED BY <1>2, <1>4, <2>1, <2>2
  <1>5. CASE k \in {5, 6}
    <2>1. k \notin {1, 2} /\ k \notin {3, 4} /\ k \notin {7, 8} /\ k \notin {1, 2, 3, 4}
      BY <1>5
    <2>2. Commented(k, c) = At
      BY <1>5, <2>1, Zenon DEF Commented
    <2>3. QED BY <1>5, <2>1, <2>2
  <1>6. CASE k \in {7, 8}
    <2>1. k \notin {1, 2} /\ k \notin {3, 4} /\ k \notin {1, 2, 3, 4} /\ k \notin {5, 6}
      BY <1>6
    <2>2. Commented(k, c) = Caret
      BY <1>6, <2>1, Zenon DEF Commented
    <2>3. QED BY <2>1, <2>2
  <1>7. k \in {1, 2} \/ k \in {3, 4} \/ k \in {5, 6} \/ k \in {7, 8}
    OBVIOUS
  <1>8. QED BY <1>3, <1>4, <1>5, <1>6, <1>7

LEMMA CommentedKept ==
  ASSUME num_pages' = num_pages
  PROVE  \A k, c : Commented(k, c)' = Commented(k, c)
  BY DEF Commented, Letter, PageOf, At, Caret

\* At a fault, exactly the pages before the one that is missing are there, and
\* the main thread is at the first cell of it.
LEMMA AtFault ==
  ASSUME UffdInv, prog = "uffd", InPass, PageOf(l) \notin present
  PROVE  /\ pass \in {1, 3, 5} /\ l = PageOf(l) * PageCells
         /\ PageOf(l) \in Page
         /\ present = 0 .. PageOf(l) - 1 /\ Cardinality(present) = PageOf(l)
  <1>1. /\ TypeOK /\ Touched /\ present \subseteq Page
        /\ num_pages \in Nat /\ MemSize \in Nat /\ PageCells \in Nat \ {0}
        /\ l \in 0 .. MemSize /\ l < MemSize
    BY SizeFacts DEF UffdInv, DemoInv, TypeOK, InPass
  <1>2. l \in 0 .. MemSize - 1 /\ l \in Nat
    BY <1>1
  <1> DEFINE p == PageOf(l)
  <1>3. p \in Page /\ p \in Nat /\ p < num_pages
    BY <1>1, <1>2, PageOfInMemory DEF Page
  <1>4. p * PageCells <= l /\ l < p * PageCells + PageCells
    BY <1>2, PageOfCell
  <1> HIDE DEF p
  <1>5. p \notin present
    BY DEF p
  <1>6. pass \in {1, 3, 5}
    BY <1>1, <1>3, <1>5 DEF Touched
  <1>7. ~(p * PageCells < l)
    BY <1>1, <1>3, <1>5, <1>6 DEF Touched
  <1>8. p * PageCells \in Nat
    BY <1>1, <1>3
  <1>9. l = p * PageCells
    BY <1>2, <1>4, <1>7, <1>8
  <1>10. ASSUME NEW q \in present PROVE q \in 0 .. p - 1
    <2>1. q \in Page /\ q \in Nat /\ q * PageCells <= l
      BY <1>1, <1>6 DEF Touched, Page
    <2>2. ~(p < q)
      <3>1. p < q => p * PageCells + PageCells <= q * PageCells
        BY <1>1, <1>3, <2>1, Multiples
      <3>2. q * PageCells \in Nat
        BY <1>1, <2>1
      <3>3. QED BY <1>1, <1>8, <1>9, <2>1, <3>1, <3>2
    <2>3. q # p
      BY <1>5
    <2>4. QED BY <1>3, <2>1, <2>2, <2>3
  <1>11. ASSUME NEW q \in 0 .. p - 1 PROVE q \in present
    <2>1. q \in Page /\ q \in Nat /\ q < p
      BY <1>1, <1>3 DEF Page
    <2>2. q * PageCells + PageCells <= p * PageCells
      BY <1>1, <1>3, <2>1, Multiples
    <2>3. q * PageCells \in Nat
      BY <1>1, <2>1
    <2>4. q * PageCells < l
      BY <1>1, <1>8, <1>9, <2>2, <2>3
    <2>5. QED BY <1>1, <1>6, <2>1, <2>4 DEF Touched
  <1>12. present = 0 .. p - 1
    BY <1>10, <1>11
  <1>13. Cardinality(present) = p
    BY <1>3, <1>12, FS_Interval
  <1>14. QED BY <1>3, <1>6, <1>9, <1>12, <1>13 DEF p

\* The handler installs the page that the main thread waits for.
LEMMA DemoInstall ==
  ASSUME UffdInv, HandlerCopyDemo
  PROVE  DemoInv' /\ PassesAsCommented'
  <1>1. /\ prog = "uffd" /\ hpc = "copy" /\ fault_cnt' = fault_cnt + 1
        /\ mem' = [c \in DOMAIN mem |-> IF c \in CellsOf(msg) THEN FillDemo ELSE mem[c]]
        /\ present' = present \cup {msg}
        /\ UNCHANGED <<prog, num_pages, pass, l, seen>>
    BY DEF HandlerCopyDemo, Install, demoVars
  <1>2. msg = PageOf(l) /\ InPass /\ PageOf(l) \notin present
    BY <1>1 DEF UffdInv, Waiting
  <1>3. /\ pass \in {1, 3, 5} /\ l = msg * PageCells /\ msg \in Page
        /\ present = 0 .. msg - 1 /\ Cardinality(present) = msg
    BY <1>1, <1>2, AtFault
  <1>4. /\ TypeOK /\ Touched /\ Contents /\ Progress /\ PassesAsCommented
        /\ fault_cnt = Cardinality(present) + num_pages * Drops(pass)
        /\ num_pages \in Nat /\ MemSize \in Nat /\ msg \in Nat
        /\ DOMAIN mem = 0 .. MemSize - 1 /\ l \in Nat
    <2>1. TypeOK /\ DemoInv /\ PassesAsCommented
      BY DEF UffdInv
    <2>2. /\ num_pages \in Nat /\ MemSize \in Nat /\ msg \in Nat
          /\ DOMAIN mem = 0 .. MemSize - 1 /\ l \in 0 .. MemSize
      BY <1>3, <2>1, SizeFacts DEF TypeOK
    <2>3. QED BY <1>1, <2>1, <2>2 DEF DemoInv
  <1>5. Page' = Page /\ MemSize' = MemSize
    BY <1>1 DEF Page, MemSize
  <1>6. Drops(pass) \in Nat /\ num_pages * Drops(pass) \in Nat
    <2>1. Drops(pass) \in Nat
      BY <1>3 DEF Drops
    <2>2. QED BY <1>4, <2>1
  <1>7. Touched'
    BY <1>1, <1>3, <1>4, <1>5 DEF Touched
  <1>8. fault_cnt' = Cardinality(present') + num_pages * Drops(pass)
    <2>1. IsFiniteSet(present) /\ msg \notin present
      <3>1. IsFiniteSet(0 .. msg - 1)
        BY <1>4, FS_Interval
      <3>2. QED BY <1>2, <1>3, <3>1
    <2>2. Cardinality(present') = Cardinality(present) + 1
      BY <1>1, <2>1, FS_AddElement
    <2>3. QED BY <1>1, <1>3, <1>4, <1>6, <2>2
  <1>9. Contents'
    <2>1. FillDemo = Letter(num_pages * Drops(pass) + msg)
      BY <1>3, <1>4, <1>6 DEF FillDemo
    <2>2. ASSUME pass \in {1, 3}, NEW q \in present', NEW c \in CellsOf(q)
          PROVE  mem'[c] = Letter(num_pages * Drops(pass) + q)
      <3>1. q \in Page
        BY <1>1, <1>3, <1>4, <2>2 DEF TypeOK
      <3>2. c \in 0 .. MemSize - 1
        BY <1>4, <2>2, <3>1, CellsInMemory
      <3>3. c \in CellsOf(msg) <=> q = msg
        BY <1>3, <1>4, <2>2, <3>1, <3>2, PageOfInMemory
      <3>4. CASE q = msg
        BY <1>1, <1>4, <2>1, <3>2, <3>3, <3>4
      <3>5. CASE q # msg
        <4>1. q \in present /\ mem'[c] = mem[c]
          BY <1>1, <1>4, <2>2, <3>2, <3>3, <3>5
        <4>2. mem[c] = Letter(num_pages * Drops(pass) + q)
          BY <1>4, <2>2, <4>1 DEF Contents
        <4>3. QED BY <4>1, <4>2
      <3>6. QED BY <3>4, <3>5
    <2>3. ASSUME pass = 5, NEW c \in 0 .. l - 1 PROVE mem'[c] = Written(pass)
      <3>1. c \in Nat /\ c < msg * PageCells /\ mem[c] = Written(pass)
        BY <1>3, <1>4, <2>3 DEF Contents
      <3>2. c \notin CellsOf(msg)
        BY <1>4, <3>1, CellsOfPage
      <3>3. c \in 0 .. MemSize - 1
        BY <1>4, <2>3 DEF TypeOK
      <3>4. QED BY <1>1, <1>4, <3>1, <3>2, <3>3
    <2>4. /\ pass' \in {1, 2, 3, 4} => pass \in {1, 3}
          /\ pass' \in {5, 7} => pass = 5
          /\ pass' \notin {6, 8}
      BY <1>1, <1>3
    <2>5. QED BY <1>1, <2>2, <2>3, <2>4 DEF Contents
  <1>10. Progress'
    BY <1>1, <1>4 DEF Progress
  <1>11. PassesAsCommented'
    BY <1>1, <1>4, CommentedKept DEF PassesAsCommented
  <1>12. QED BY <1>1, <1>7, <1>8, <1>9, <1>10, <1>11 DEF DemoInv

\* The facts of a step of the main thread inside a pass.
LEMMA PassFacts ==
  ASSUME UffdInv, InPass
  PROVE  /\ prog = "uffd" /\ TypeOK /\ Touched /\ Contents /\ Progress
         /\ PassesAsCommented
         /\ fault_cnt = Cardinality(present) + num_pages * Drops(pass)
         /\ num_pages \in Nat /\ MemSize \in Nat /\ l \in Nat
         /\ l \in 0 .. MemSize - 1 /\ pass \in 1 .. 8
         /\ DOMAIN mem = 0 .. MemSize - 1
         /\ seen \in [1 .. 8 -> Seq(0 .. 127)] /\ PageCells \in Nat \ {0}
  <1>1. TypeOK /\ DemoInv /\ PassesAsCommented /\ prog = "uffd" /\ l < MemSize /\ pass <= 8
    BY DEF UffdInv, InPass
  <1>2. /\ num_pages \in Nat /\ MemSize \in Nat /\ l \in 0 .. MemSize /\ pass \in 1 .. 9
        /\ DOMAIN mem = 0 .. MemSize - 1
        /\ seen \in [1 .. 8 -> Seq(0 .. 127)] /\ PageCells \in Nat \ {0}
    BY <1>1, SizeFacts DEF TypeOK
  <1>3. l \in Nat /\ l \in 0 .. MemSize - 1 /\ pass \in 1 .. 8
    BY <1>1, <1>2
  <1>4. QED BY <1>1, <1>2, <1>3 DEF DemoInv

\* The first cells of the pages that a pass has come to.
LEMMA FirstCells ==
  ASSUME num_pages \in Nat, NEW p \in Page, NEW n \in 0 .. MemSize - 1
  PROVE  /\ p * PageCells < n + 1 => p * PageCells < n \/ p = PageOf(n)
         /\ p * PageCells <= n => p * PageCells <= n + 1
  <1>1. p \in Nat /\ PageCells \in Nat \ {0} /\ MemSize \in Nat
    BY SizeAssumption DEF Page, MemSize
  <1>2. n \in Nat /\ p * PageCells \in Nat
    BY <1>1
  <1>3. p * PageCells = n => n \in CellsOf(p)
    BY <1>1, <1>2, CellsOfPage
  <1>4. n \in CellsOf(p) => p = PageOf(n)
    BY PageOfInMemory
  <1> DEFINE x == p * PageCells
  <1>5. x \in Nat /\ (x = n => p = PageOf(n))
    BY <1>2, <1>3, <1>4
  <1> HIDE DEF x
  <1>6. (x < n + 1 => x < n \/ p = PageOf(n)) /\ (x <= n => x <= n + 1)
    BY <1>2, <1>5
  <1>7. QED BY <1>6 DEF x

LEMMA AppendFacts ==
  ASSUME NEW s \in Seq(0 .. 127), NEW ch \in 0 .. 127
  PROVE  /\ Len(s) \in Nat /\ Len(Append(s, ch)) = Len(s) + 1
         /\ Append(s, ch)[Len(s) + 1] = ch
         /\ \A n \in 1 .. Len(s) : Append(s, ch)[n] = s[n]
  <1>1. Len(s) \in Nat /\ Len(Append(s, ch)) = Len(s) + 1
    OBVIOUS
  <1>2. Append(s, ch)[Len(s) + 1] = ch
    OBVIOUS
  <1>3. ASSUME NEW n \in 1 .. Len(s) PROVE Append(s, ch)[n] = s[n]
    OBVIOUS
  <1>4. QED BY <1>1, <1>2, <1>3

\* Visiting a cell of a page that is there, and printing ch for it.
LEMMA DemoVisit ==
  ASSUME UffdInv, InPass, PageOf(l) \in present, NEW ch \in 0 .. 127,
         seen' = [seen EXCEPT ![pass] = Append(@, ch)], l' = l + 1,
         UNCHANGED <<prog, num_pages, present, pass>>, ch = Commented(pass, l)
  PROVE  Touched' /\ Progress' /\ PassesAsCommented'
  <1>1. /\ TypeOK /\ Touched /\ Progress /\ PassesAsCommented
        /\ num_pages \in Nat /\ MemSize \in Nat /\ l \in Nat
        /\ l \in 0 .. MemSize - 1 /\ pass \in 1 .. 8
        /\ seen \in [1 .. 8 -> Seq(0 .. 127)]
    BY PassFacts
  <1>2. Page' = Page
    BY DEF Page
  <1>3. Touched'
    <2>1. CASE pass \notin {1, 3, 5}
      BY <1>1, <1>2, <2>1 DEF Touched
    <2>2. CASE pass \in {1, 3, 5}
      <3>1. ASSUME NEW p \in Page
            PROVE  /\ p * PageCells < l + 1 => p \in present
                   /\ p \in present => p * PageCells <= l + 1
        <4>1. /\ p * PageCells < l => p \in present
              /\ p \in present => p * PageCells <= l
          BY <1>1, <2>2, <3>1 DEF Touched
        <4>2. QED BY <1>1, <4>1, FirstCells
      <3>2. QED BY <1>2, <2>2, <3>1 DEF Touched
    <2>3. QED BY <2>1, <2>2
  <1>4. /\ \A j \in 1 .. 8 : j # pass => seen'[j] = seen[j]
        /\ Len(seen'[pass]) = Len(seen[pass]) + 1
        /\ seen'[pass][Len(seen[pass]) + 1] = ch
        /\ \A n \in 1 .. Len(seen[pass]) : seen'[pass][n] = seen[pass][n]
    <2>1. /\ seen'[pass] = Append(seen[pass], ch) /\ seen[pass] \in Seq(0 .. 127)
          /\ \A j \in 1 .. 8 : j # pass => seen'[j] = seen[j]
      BY <1>1
    <2>2. QED BY <2>1, AppendFacts
  <1>5. pass <= 8 /\ (\A k \in 1 .. 8 : k > pass => k # pass)
    BY <1>1
  <1>6. Len(seen[pass]) = l /\ \A k \in 1 .. 8 : k > pass => seen[k] = <<>>
    BY <1>1, <1>5 DEF Progress
  <1>7. Progress'
    BY <1>4, <1>5, <1>6 DEF Progress
  <1>8. ASSUME NEW k \in 1 .. 8, NEW n \in 1 .. Len(seen'[k])
        PROVE  seen'[k][n] = Commented(k, n - 1)
    <2>1. CASE k # pass
      BY <1>1, <1>4, <1>8, <2>1 DEF PassesAsCommented
    <2>2. CASE k = pass
      <3>1. n \in 1 .. l + 1
        BY <1>4, <1>6, <1>8, <2>2
      <3>2. (n = l + 1 /\ n - 1 = l) \/ n \in 1 .. l
        BY <1>1, <3>1
      <3>3. CASE n = l + 1 /\ n - 1 = l
        BY <1>4, <1>6, <2>2, <3>3
      <3>4. CASE n \in 1 .. l
        <4>1. seen'[k][n] = seen[k][n] /\ n \in 1 .. Len(seen[k])
          BY <1>4, <1>6, <2>2, <3>4
        <4>2. QED BY <1>1, <1>8, <4>1 DEF PassesAsCommented
      <3>5. QED BY <3>2, <3>3, <3>4
    <2>3. QED BY <2>1, <2>2
  <1>9. PassesAsCommented'
    BY <1>8, CommentedKept DEF PassesAsCommented
  <1>10. QED BY <1>3, <1>7, <1>9

LEMMA DemoRead ==
  ASSUME UffdInv, ReadCell
  PROVE  DemoInv' /\ PassesAsCommented'
  <1>1. /\ InPass /\ pass \notin {5, 7} /\ PageOf(l) \in present /\ l' = l + 1
        /\ seen' = [seen EXCEPT ![pass] = Append(@, mem[l])]
        /\ UNCHANGED <<prog, num_pages, mem, present, fault_cnt, pass>>
    BY DEF ReadCell, Writes
  <1>2. /\ prog = "uffd" /\ TypeOK /\ Contents
        /\ fault_cnt = Cardinality(present) + num_pages * Drops(pass)
        /\ num_pages \in Nat /\ MemSize \in Nat /\ l \in Nat
        /\ l \in 0 .. MemSize - 1 /\ pass \in 1 .. 8
    BY <1>1, PassFacts
  <1>3. mem[l] \in 0 .. 127
    BY <1>2 DEF TypeOK
  <1>4. mem[l] = Commented(pass, l)
    <2>1. CASE pass \in {1, 2, 3, 4}
      <3>1. l \in CellsOf(PageOf(l))
        BY <1>2, PageOfInMemory
      <3>2. mem[l] = Letter(num_pages * Drops(pass) + PageOf(l))
        BY <1>1, <1>2, <2>1, <3>1 DEF Contents
      <3>3. QED BY <1>2, <2>1, <3>2, CommentedIs
    <2>2. CASE pass = 6
      <3>1. mem[l] = At
        BY <1>2, <2>2 DEF Contents, Written
      <3>2. QED BY <1>2, <2>2, <3>1, CommentedIs
    <2>3. CASE pass = 8
      <3>1. mem[l] = Caret
        BY <1>2, <2>3 DEF Contents, Written
      <3>2. QED BY <1>2, <2>3, <3>1, CommentedIs
    <2>4. pass \in {1, 2, 3, 4} \/ pass = 6 \/ pass = 8
      BY <1>1, <1>2
    <2>5. QED BY <2>1, <2>2, <2>3, <2>4
  <1>5. Touched' /\ Progress' /\ PassesAsCommented'
    BY <1>1, <1>3, <1>4, DemoVisit
  <1>6. MemSize' = MemSize
    BY <1>1 DEF MemSize
  <1>7. Contents'
    BY <1>1, <1>2, <1>6 DEF Contents
  <1>8. QED BY <1>1, <1>2, <1>5, <1>7 DEF DemoInv

LEMMA DemoWrite ==
  ASSUME UffdInv, WriteCell
  PROVE  DemoInv' /\ PassesAsCommented'
  <1>1. /\ InPass /\ pass \in {5, 7} /\ PageOf(l) \in present /\ l' = l + 1
        /\ seen' = [seen EXCEPT ![pass] = Append(@, Written(pass))]
        /\ mem' = [mem EXCEPT ![l] = Written(pass)]
        /\ UNCHANGED <<prog, num_pages, present, fault_cnt, pass>>
    BY DEF WriteCell, Writes
  <1>2. /\ prog = "uffd" /\ TypeOK /\ Contents
        /\ fault_cnt = Cardinality(present) + num_pages * Drops(pass)
        /\ MemSize \in Nat /\ l \in Nat
        /\ l \in 0 .. MemSize - 1 /\ pass \in 1 .. 8
        /\ DOMAIN mem = 0 .. MemSize - 1
    BY <1>1, PassFacts
  <1>3. Written(pass) \in 0 .. 127
    BY DEF Written, At, Caret
  <1>4. Written(pass) = Commented(pass, l)
    <2>1. CASE pass = 5
      BY <1>2, <2>1, CommentedIs DEF Written
    <2>2. CASE pass = 7
      BY <1>2, <2>2, CommentedIs DEF Written
    <2>3. QED BY <1>1, <2>1, <2>2
  <1>5. Touched' /\ Progress' /\ PassesAsCommented'
    BY <1>1, <1>3, <1>4, DemoVisit
  <1>6. ASSUME NEW c \in 0 .. l' - 1 PROVE mem'[c] = Written(pass)
    <2>1. c \in 0 .. MemSize - 1 /\ (c = l \/ c \in 0 .. l - 1)
      BY <1>1, <1>2, <1>6
    <2>2. CASE c = l
      BY <1>1, <1>2, <2>1, <2>2
    <2>3. CASE c \in 0 .. l - 1 /\ c # l
      <3>1. mem[c] = Written(pass)
        BY <1>1, <1>2, <2>3 DEF Contents
      <3>2. QED BY <1>1, <1>2, <2>1, <2>3, <3>1
    <2>4. QED BY <2>1, <2>2, <2>3
  <1>7. Contents'
    BY <1>1, <1>6 DEF Contents
  <1>8. QED BY <1>1, <1>2, <1>5, <1>7 DEF DemoInv

\* A pass that went over the whole memory has touched every page.
LEMMA DemoEndPass ==
  ASSUME UffdInv, EndPass
  PROVE  DemoInv' /\ PassesAsCommented'
  <1>1. /\ prog = "uffd" /\ pass <= 8 /\ l = MemSize /\ pass' = pass + 1 /\ l' = 0
        /\ present' = IF pass + 1 \in {3, 5} THEN {} ELSE present
        /\ UNCHANGED <<prog, num_pages, mem, fault_cnt, seen>>
    BY DEF EndPass, Advised
  <1>2. /\ TypeOK /\ Touched /\ Contents /\ Progress /\ PassesAsCommented
        /\ fault_cnt = Cardinality(present) + num_pages * Drops(pass)
    BY <1>1 DEF UffdInv, DemoInv
  <1>3. /\ num_pages \in Nat \ {0} /\ MemSize \in Nat /\ PageCells \in Nat \ {0}
        /\ pass \in 1 .. 9 /\ present \subseteq Page
    BY <1>2, SizeFacts DEF TypeOK
  <1>4. pass \in 1 .. 8 /\ Page' = Page /\ MemSize' = MemSize
    BY <1>1, <1>3 DEF Page, MemSize
  <1>5. present = Page
    <2>1. ASSUME pass \in {1, 3, 5}, NEW p \in Page PROVE p \in present
      <3>1. p \in Nat /\ p * PageCells + PageCells <= MemSize
        BY <1>3, <2>1, CellsInMemory
      <3>2. p * PageCells \in Nat
        BY <1>3, <3>1
      <3>3. p * PageCells < l
        BY <1>1, <1>3, <3>1, <3>2
      <3>4. QED BY <1>2, <2>1, <3>3 DEF Touched
    <2>2. QED BY <1>2, <1>3, <2>1 DEF Touched
  <1>6. Cardinality(Page) = num_pages /\ Cardinality({}) = 0
    <2>1. Cardinality(0 .. num_pages - 1) = num_pages
      BY <1>3, FS_Interval
    <2>2. QED BY <2>1, FS_EmptySet DEF Page
  <1>7. Touched'
    <2>1. CASE pass + 1 \in {3, 5}
      <3>1. \A p \in Page : p * PageCells \in Nat
        BY <1>3 DEF Page
      <3>2. QED BY <1>1, <1>4, <2>1, <3>1 DEF Touched
    <2>2. CASE pass + 1 \notin {3, 5}
      <3>1. pass' \notin {1, 3, 5}
        BY <1>1, <1>4, <2>2
      <3>2. QED BY <1>1, <1>4, <1>5, <2>2, <3>1 DEF Touched
    <2>3. QED BY <2>1, <2>2
  <1>8. fault_cnt' = Cardinality(present') + num_pages' * Drops(pass')
    <2>1. CASE pass + 1 = 3
      <3>1. Drops(pass) = 0 /\ Drops(pass') = 1 /\ present' = {}
        BY <1>1, <1>4, <2>1 DEF Drops
      <3>2. QED BY <1>1, <1>2, <1>3, <1>5, <1>6, <3>1
    <2>2. CASE pass + 1 = 5
      <3>1. Drops(pass) = 1 /\ Drops(pass') = 2 /\ present' = {}
        BY <1>1, <1>4, <2>2 DEF Drops
      <3>2. QED BY <1>1, <1>2, <1>3, <1>5, <1>6, <3>1
    <2>3. CASE pass + 1 \notin {3, 5}
      <3>1. Drops(pass') = Drops(pass) /\ present' = present
        BY <1>1, <1>4, <2>3 DEF Drops
      <3>2. QED BY <1>1, <1>2, <3>1
    <2>4. QED BY <2>1, <2>2, <2>3
  <1>9. Contents'
    <2>1. ASSUME pass' \in {1, 2, 3, 4}, NEW p \in present', NEW c \in CellsOf(p)
          PROVE  mem[c] = Letter(num_pages * Drops(pass') + p)
      <3>1. /\ pass \in {1, 2, 3, 4} /\ Drops(pass') = Drops(pass) /\ present' = present
        BY <1>1, <1>4, <2>1 DEF Drops
      <3>2. QED BY <1>2, <2>1, <3>1 DEF Contents
    <2>2. ASSUME pass' \in {6, 8}, NEW c \in 0 .. MemSize - 1
          PROVE  mem[c] = Written(pass' - 1)
      <3>1. pass \in {5, 7} /\ pass' - 1 = pass
        BY <1>1, <1>4, <2>2
      <3>2. QED BY <1>1, <1>2, <2>2, <3>1 DEF Contents
    <2>3. 0 .. l' - 1 = {}
      BY <1>1
    <2>4. QED BY <1>1, <1>4, <2>1, <2>2, <2>3 DEF Contents
  <1>10. Progress'
    <2>1. \A k \in 1 .. 8 : k > pass => seen[k] = <<>>
      BY <1>2 DEF Progress
    <2>2. pass' <= 8 => seen[pass'] = <<>> /\ pass' \in 1 .. 8
      BY <1>1, <1>4, <2>1
    <2>3. \A k \in 1 .. 8 : k > pass' => seen[k] = <<>>
      BY <1>1, <1>4, <2>1
    <2>4. QED BY <1>1, <2>2, <2>3 DEF Progress
  <1>11. PassesAsCommented'
    BY <1>1, <1>2, CommentedKept DEF PassesAsCommented
  <1>12. QED BY <1>1, <1>7, <1>8, <1>9, <1>10, <1>11 DEF DemoInv

LEMMA DemoFrame ==
  ASSUME UffdInv,
         UNCHANGED <<prog, num_pages, mem, present, fault_cnt, pass, l, seen>>
  PROVE  DemoInv' /\ PassesAsCommented'
  <1>1. Page' = Page /\ MemSize' = MemSize
    BY DEF Page, MemSize
  <1>2. PassesAsCommented'
    BY CommentedKept DEF UffdInv, PassesAsCommented
  <1>3. ASSUME prog = "uffd" PROVE Touched' /\ Contents' /\ Progress'
    BY <1>1, <1>3 DEF UffdInv, DemoInv, Touched, Contents, Progress
  <1>4. QED BY <1>2, <1>3 DEF UffdInv, DemoInv

LEMMA NothingSeen ==
  ASSUME Waiting, prog = "s2dsm"
  PROVE  DemoInv /\ PassesAsCommented
  <1>1. DemoInv
    BY DEF DemoInv
  <1>2. \A k \in 1 .. 8 : 1 .. Len(seen[k]) = {}
    BY DEF Waiting
  <1>3. QED BY <1>1, <1>2 DEF PassesAsCommented

LEMMA UffdInit == Init => UffdInv
  <1> SUFFICES ASSUME Init PROVE UffdInv
    OBVIOUS
  <1>1. TypeOK /\ Waiting
    BY TypeInit, WaitingInit
  <1>2. /\ pass = 1 /\ l = 0 /\ present = {} /\ fault_cnt = 0
        /\ seen = [k \in 1 .. 8 |-> <<>>]
    BY DEF Init, Registered
  <1>3. Touched
    <2>1. \A p \in Page : p * PageCells \in Nat
      BY <1>1, SizeFacts DEF Page
    <2>2. QED BY <1>2, <2>1 DEF Touched
  <1>4. Contents
    BY <1>2 DEF Contents
  <1>5. Progress /\ PassesAsCommented
    BY <1>2 DEF Progress, PassesAsCommented
  <1>6. fault_cnt = Cardinality(present) + num_pages * Drops(pass)
    <2>1. Cardinality(present) = 0 /\ Drops(pass) = 0 /\ num_pages \in Nat
      BY <1>1, <1>2, FS_EmptySet, SizeFacts DEF Drops
    <2>2. QED BY <1>2, <2>1
  <1>7. QED BY <1>1, <1>3, <1>4, <1>5, <1>6 DEF UffdInv, DemoInv

LEMMA UffdNext ==
  ASSUME UffdInv, [Next]_vars
  PROVE  UffdInv'
  <1>1. TypeOK /\ Waiting
    BY DEF UffdInv
  <1>2. TypeOK' /\ Waiting'
    BY <1>1, TypeNext, WaitingNext
  <1>3. prog \in {"uffd", "s2dsm"} /\ prog' = prog
    BY <1>1, ProgramAssumption
    DEF TypeOK, Next, Handler, HandlerRead, HandlerCopyDemo, HandlerCopyS2dsm, Install,
        Demo, DemoFault, Fault, ReadCell, WriteCell, EndPass, User, UserFault,
        UpdatePage, PrintPage, Command, vars
  <1>4. CASE prog = "s2dsm"
    <2>1. Waiting /\ prog = "s2dsm" => DemoInv /\ PassesAsCommented
      BY NothingSeen
    <2>2. (Waiting /\ prog = "s2dsm" => DemoInv /\ PassesAsCommented)'
      BY NothingSeen, PTL
    <2>3. QED BY <1>2, <1>3, <1>4, <2>2 DEF UffdInv
  <1>5. CASE prog = "uffd"
    <2>1. op = "prompt"
      BY <1>1, <1>5 DEF Waiting
    <2>2. \/ HandlerCopyDemo \/ ReadCell \/ WriteCell \/ EndPass
          \/ UNCHANGED <<prog, num_pages, mem, present, fault_cnt, pass, l, seen>>
      BY <1>5, <2>1
      DEF Next, vars, demoVars, Handler, HandlerRead, HandlerCopyS2dsm,
          Demo, DemoFault, Fault, User, UserFault, UpdatePage, PrintPage, Command
    <2>3. DemoInv' /\ PassesAsCommented'
      BY <2>2, DemoInstall, DemoRead, DemoWrite, DemoEndPass, DemoFrame
    <2>4. QED BY <1>2, <2>3 DEF UffdInv
  <1>6. QED BY <1>3, <1>4, <1>5

\* UffdInv is an invariant of Userfault.
LEMMA UffdInvariant == Spec => []UffdInv
  BY UffdInit, UffdNext, PTL DEF Spec

\* Every pass of the demonstration prints what its comment says, for any number
\* of pages: the handler's letters are in the order of the faults, and no
\* handler writes over what the main thread has written.
THEOREM PassesAsCommentedHolds == Spec => []PassesAsCommented
  <1>1. UffdInv => PassesAsCommented
    BY DEF UffdInv
  <1>2. QED BY <1>1, UffdInvariant, PTL

\* The handler of the demonstration is called once for every page and every
\* time the page has been dropped.
THEOREM FaultsOncePerPageHolds == Spec => []FaultsOncePerPage
  <1>1. UffdInv => FaultsOncePerPage
    <2> SUFFICES ASSUME UffdInv, prog = "uffd"
                 PROVE  fault_cnt = Cardinality(present)
                          + num_pages * Cardinality({k \in 1 .. pass : k \in {3, 5}})
      BY DEF FaultsOncePerPage
    <2>1. fault_cnt = Cardinality(present) + num_pages * Drops(pass)
      BY DEF UffdInv, DemoInv
    <2> DEFINE D == {k \in 1 .. pass : k \in {3, 5}}
    <2>2. pass \in 1 .. 9
      BY DEF UffdInv, TypeOK
    <2>3. Cardinality(D) = Drops(pass)
      <3>1. CASE pass < 3
        <4>1. D = {}
          BY <2>2, <3>1
        <4>2. QED BY <3>1, <4>1, FS_EmptySet DEF Drops
      <3>2. CASE pass \in {3, 4}
        <4>1. D = {3} /\ Drops(pass) = 1
          BY <2>2, <3>2 DEF Drops
        <4>2. QED BY <4>1, FS_Singleton
      <3>3. CASE pass >= 5
        <4>1. D = {3} \cup {5} /\ Drops(pass) = 2
          BY <2>2, <3>3 DEF Drops
        <4>2. Cardinality({3} \cup {5}) = 2
          <5>1. \A S, x : IsFiniteSet(S) /\ x \notin S =>
                  Cardinality(S \cup {x}) = Cardinality(S) + 1
            BY FS_AddElement
          <5>2. IsFiniteSet({3}) /\ Cardinality({3}) = 1
            BY FS_Singleton, Zenon
          <5>3. 5 \notin {3}
            OBVIOUS
          <5>4. Cardinality({3} \cup {5}) = Cardinality({3}) + 1
            BY <5>1, <5>2, <5>3, Zenon
          <5>5. QED BY <5>2, <5>4
        <4>3. QED BY <4>1, <4>2
      <3>4. QED BY <2>2, <3>1, <3>2, <3>3
    <2>4. QED BY <2>1, <2>3
  <1>2. QED BY <1>1, UffdInvariant, PTL

----------------------------------------------------------------------------
(* The pages of s2dsm. *)

LEMMA Offset ==
  ASSUME num_pages \in Nat, NEW p \in Page, NEW j \in 0 .. PageCells - 1
  PROVE  /\ p * PageCells + j \in CellsOf(p)
         /\ p * PageCells + j \in 0 .. MemSize - 1
         /\ \A q \in Page : p * PageCells + j \in CellsOf(q) <=> q = p
  <1>1. p \in Nat /\ PageCells \in Nat \ {0}
    BY SizeAssumption DEF Page
  <1>2. p * PageCells \in Nat
    BY <1>1
  <1> DEFINE c == p * PageCells + j
  <1>3. c \in Int /\ p * PageCells <= c /\ c < p * PageCells + PageCells
    BY <1>1, <1>2
  <1> HIDE DEF c
  <1>4. c \in CellsOf(p)
    BY <1>1, <1>3, CellsOfPage
  <1>5. c \in 0 .. MemSize - 1
    BY <1>4, CellsInMemory
  <1>6. \A q \in Page : c \in CellsOf(q) <=> q = p
    BY <1>4, <1>5, PageOfInMemory
  <1>7. QED BY <1>4, <1>5, <1>6 DEF c

\* A page is a string of a message's length whose cells do not change, or
\* change to that string.
LEMMA HoldsFrom ==
  ASSUME num_pages \in Nat, NEW p \in Page, NEW m \in Messages \cup {<<>>},
         \A j \in 0 .. PageCells - 1 :
           /\ j < Len(m) => mem'[p * PageCells + j] = m[j + 1]
           /\ j = Len(m) => mem'[p * PageCells + j] = Zero
  PROVE  /\ \A j \in 1 .. Len(m) : mem'[p * PageCells + j - 1] = m[j]
         /\ mem'[p * PageCells + Len(m)] = Zero
  <1>1. p \in Nat /\ PageCells \in Nat \ {0}
    BY SizeAssumption DEF Page
  <1>2. Len(m) \in 0 .. PageCells - 1
    BY MessageType
  <1> DEFINE b == p * PageCells
  <1>3. b \in Nat
    BY <1>1
  <1>4. ASSUME NEW j \in 1 .. Len(m) PROVE mem'[b + j - 1] = m[j]
    <2>1. /\ j - 1 \in 0 .. PageCells - 1 /\ j - 1 < Len(m) /\ j - 1 + 1 = j
      BY <1>1, <1>2, <1>4
    <2>2. b + (j - 1) = b + j - 1
      BY <1>2, <1>3, <1>4
    <2>3. mem'[b + (j - 1)] = m[j - 1 + 1]
      BY <2>1
    <2>4. QED BY <2>1, <2>2, <2>3
  <1>5. mem'[b + Len(m)] = Zero
    BY <1>2
  <1>6. QED BY <1>4, <1>5

LEMMA HoldsCells ==
  ASSUME num_pages \in Nat, NEW p \in Page, NEW m \in Messages \cup {<<>>}, Holds(p, m),
         NEW j \in 0 .. PageCells - 1
  PROVE  /\ j < Len(m) => mem[p * PageCells + j] = m[j + 1]
         /\ j = Len(m) => mem[p * PageCells + j] = Zero
  <1>1. p \in Nat /\ PageCells \in Nat \ {0} /\ Len(m) \in 0 .. PageCells - 1
    BY MessageType, SizeAssumption DEF Page
  <1> DEFINE b == p * PageCells
  <1>2. b \in Nat
    BY <1>1
  <1>3. ASSUME j < Len(m) PROVE mem[b + j] = m[j + 1]
    <2>1. j + 1 \in 1 .. Len(m) /\ b + (j + 1) - 1 = b + j
      BY <1>1, <1>2, <1>3
    <2>2. mem[b + (j + 1) - 1] = m[j + 1]
      BY <2>1 DEF Holds
    <2>3. QED BY <2>1, <2>2
  <1>4. ASSUME j = Len(m) PROVE mem[b + j] = Zero
    BY <1>4 DEF Holds
  <1>5. QED BY <1>3, <1>4

LEMMA UserInit == Init => UserInv
  <1> SUFFICES ASSUME Init, NEW p \in Page
               PROVE  Holds(p, last[p]) /\ (p \notin present => last[p] = <<>>)
    BY DEF UserInv
  <1>1. TypeOK
    BY TypeInit
  <1>2. last[p] = <<>> /\ Len(<<>>) = 0 /\ num_pages \in Nat /\ 0 \in 0 .. PageCells - 1
    BY <1>1, SizeFacts DEF Init
  <1>3. p * PageCells + 0 \in 0 .. MemSize - 1
    BY <1>2, Offset
  <1>4. mem[p * PageCells + 0] = Zero
    BY <1>3 DEF Init
  <1>5. QED BY <1>2, <1>4 DEF Holds

\* The handler installs zeros where nobody has written yet.
LEMMA UserInstall ==
  ASSUME TypeOK, Waiting, UserInv, HandlerCopyS2dsm
  PROVE  UserInv'
  <1>1. /\ prog = "s2dsm" /\ hpc = "copy"
        /\ mem' = [c \in DOMAIN mem |-> IF c \in CellsOf(msg) THEN Zero ELSE mem[c]]
        /\ present' = present \cup {msg} /\ UNCHANGED <<num_pages, last>>
    BY DEF HandlerCopyS2dsm, Install, FillS2dsm, userVars
  <1>2. msg \notin present /\ msg \in Page
    BY <1>1 DEF Waiting, TypeOK
  <1>3. /\ num_pages \in Nat /\ DOMAIN mem = 0 .. MemSize - 1 /\ Page' = Page
        /\ \A p \in Page : last[p] \in Messages \cup {<<>>}
        /\ \A p \in Page : Holds(p, last[p]) /\ (p \notin present => last[p] = <<>>)
    BY <1>1, SizeFacts DEF UserInv, TypeOK, Page
  <1>4. ASSUME NEW p \in Page
        PROVE  /\ \A j \in 1 .. Len(last[p]) : mem'[p * PageCells + j - 1] = last[p][j]
               /\ mem'[p * PageCells + Len(last[p])] = Zero
    <2>1. ASSUME NEW j \in 0 .. PageCells - 1
          PROVE  /\ j < Len(last[p]) => mem'[p * PageCells + j] = last[p][j + 1]
                 /\ j = Len(last[p]) => mem'[p * PageCells + j] = Zero
      <3> DEFINE c == p * PageCells + j
      <3>1. c \in 0 .. MemSize - 1 /\ (c \in CellsOf(msg) <=> p = msg)
        BY <1>2, <1>3, <1>4, <2>1, Offset
      <3>2. mem'[c] = IF p = msg THEN Zero ELSE mem[c]
        BY <1>1, <1>3, <3>1
      <3>3. CASE p = msg
        <4>1. Len(last[p]) = 0 /\ j \in Nat
          BY <1>2, <1>3, <2>1, <3>3, SizeAssumption
        <4>2. QED BY <3>2, <3>3, <4>1
      <3>4. CASE p # msg
        BY <1>3, <1>4, <2>1, <3>2, <3>4, HoldsCells
      <3>5. QED BY <3>3, <3>4
    <2>2. QED BY <1>3, <1>4, <2>1, HoldsFrom
  <1>5. QED BY <1>1, <1>3, <1>4 DEF UserInv, Holds

\* Writing a page writes the message and its '\0', and no cell of another page.
LEMMA UserUpdate ==
  ASSUME TypeOK, Waiting, UserInv, UpdatePage
  PROVE  UserInv'
  <1>1. /\ mem' = [c \in DOMAIN mem |-> Stored(cur, message, c)]
        /\ last' = [last EXCEPT ![cur] = message] /\ cur \in present
        /\ UNCHANGED <<prog, num_pages, present>> /\ op = "write"
    BY DEF UpdatePage
  <1>2. prog = "s2dsm"
    BY <1>1, ProgramAssumption DEF Waiting, TypeOK
  <1>3. /\ num_pages \in Nat /\ DOMAIN mem = 0 .. MemSize - 1 /\ Page' = Page
        /\ cur \in Page /\ message \in Messages \cup {<<>>}
        /\ PageCells \in Nat \ {0} /\ cur \in Nat
        /\ \A p \in Page : last[p] \in Messages \cup {<<>>}
        /\ \A p \in Page : Holds(p, last[p]) /\ (p \notin present => last[p] = <<>>)
        /\ last \in [Page -> Messages \cup {<<>>}]
    <2>1. TypeOK
      OBVIOUS
    <2>2. Page \subseteq Nat /\ num_pages \in Nat /\ DOMAIN mem = 0 .. MemSize - 1
          /\ PageCells \in Nat \ {0}
      BY SizeFacts
    <2>3. QED BY <1>1, <1>2, <2>2 DEF UserInv, TypeOK, Page
  <1>4. Len(message) \in 0 .. PageCells - 1
    BY <1>3, MessageType
  <1>5. ASSUME NEW p \in Page
        PROVE  /\ \A j \in 1 .. Len(last'[p]) : mem'[p * PageCells + j - 1] = last'[p][j]
               /\ mem'[p * PageCells + Len(last'[p])] = Zero
    <2>1. last'[p] = IF p = cur THEN message ELSE last[p]
      BY <1>1, <1>3, <1>5
    <2>2. last'[p] \in Messages \cup {<<>>}
      BY <1>3, <2>1
    <2>3. ASSUME NEW j \in 0 .. PageCells - 1
          PROVE  /\ j < Len(last'[p]) => mem'[p * PageCells + j] = last'[p][j + 1]
                 /\ j = Len(last'[p]) => mem'[p * PageCells + j] = Zero
      <3> DEFINE c == p * PageCells + j
      <3>1. /\ c \in 0 .. MemSize - 1 /\ (c \in CellsOf(cur) <=> cur = p)
            /\ c - p * PageCells = j
        <4>1. c \in 0 .. MemSize - 1 /\ (c \in CellsOf(cur) <=> cur = p)
          BY <1>3, <1>5, <2>3, Offset
        <4>2. p \in Nat /\ j \in Nat
          BY <1>3, <1>5, <2>3 DEF Page
        <4>3. p * PageCells \in Nat
          BY <1>3, <4>2
        <4>4. c - p * PageCells = j
          BY <4>2, <4>3
        <4>5. QED BY <4>1, <4>4
      <3>2. mem'[c] = Stored(cur, message, c)
        BY <1>1, <1>3, <3>1
      <3> HIDE DEF c
      <3>3. CASE p = cur
        <4>1. c - cur * PageCells = j
          BY <3>1, <3>3
        <4>2. mem'[c] = IF j \in 0 .. Len(message) - 1 THEN message[j + 1]
                        ELSE IF j = Len(message) THEN Zero ELSE mem[c]
          BY <3>2, <4>1 DEF Stored
        <4>3. j < Len(message) => j \in 0 .. Len(message) - 1
          BY <1>3, <1>4, <2>3
        <4>4. j = Len(message) => j \notin 0 .. Len(message) - 1
          BY <1>3, <1>4, <2>3
        <4>5. /\ j < Len(message) => mem'[c] = message[j + 1]
              /\ j = Len(message) => mem'[c] = Zero
          BY <4>2, <4>3, <4>4
        <4>6. QED BY <2>1, <3>3, <4>5 DEF c
      <3>4. CASE p # cur
        <4> DEFINE k == c - cur * PageCells
        <4>1. c \in Int /\ cur * PageCells \in Nat
          BY <1>3, <3>1, SizeFacts
        <4>2. ~(cur * PageCells <= c /\ c < cur * PageCells + PageCells)
          BY <1>3, <3>1, <3>4, <4>1, CellsOfPage
        <4>3. k \in Int /\ ~(0 <= k /\ k < PageCells)
          BY <1>3, <4>1, <4>2
        <4>4. Stored(cur, message, c) =
                IF k \in 0 .. Len(message) - 1 THEN message[k + 1]
                ELSE IF k = Len(message) THEN Zero ELSE mem[c]
          BY DEF Stored
        <4> HIDE DEF k
        <4>5. k \notin 0 .. Len(message) - 1 /\ k # Len(message)
          BY <1>3, <1>4, <4>3
        <4>6. mem'[c] = mem[c]
          BY <3>2, <4>4, <4>5
        <4>7. /\ j < Len(last[p]) => mem[p * PageCells + j] = last[p][j + 1]
              /\ j = Len(last[p]) => mem[p * PageCells + j] = Zero
          BY <1>3, <1>5, <2>3, HoldsCells
        <4>8. QED BY <2>1, <3>4, <4>6, <4>7 DEF c
      <3>5. QED BY <3>3, <3>4
    <2>4. QED BY <1>3, <1>5, <2>2, <2>3, HoldsFrom
  <1>6. \A p \in Page : p \notin present => last'[p] = <<>>
    BY <1>1, <1>3
  <1>7. QED BY <1>1, <1>3, <1>5, <1>6 DEF UserInv, Holds

LEMMA UserNext ==
  ASSUME TextInv, [Next]_vars
  PROVE  TextInv'
  <1>1. TypeOK /\ Waiting /\ UserInv
    BY DEF TextInv
  <1>2. TypeOK' /\ Waiting'
    BY <1>1, TypeNext, WaitingNext
  <1>3. CASE UNCHANGED <<prog, num_pages, mem, present, last>>
    <2>1. UserInv'
      BY <1>1, <1>3 DEF UserInv, Holds, Page
    <2>2. QED BY <1>2, <2>1 DEF TextInv
  <1>4. CASE HandlerCopyDemo \/ ReadCell \/ WriteCell \/ EndPass
    <2>1. prog' = "uffd"
      BY <1>4 DEF HandlerCopyDemo, Install, ReadCell, WriteCell, EndPass, InPass
    <2>2. UserInv'
      BY <2>1 DEF UserInv
    <2>3. QED BY <1>2, <2>2 DEF TextInv
  <1>5. CASE HandlerCopyS2dsm
    BY <1>1, <1>2, <1>5, UserInstall DEF TextInv
  <1>6. CASE UpdatePage
    BY <1>1, <1>2, <1>6, UserUpdate DEF TextInv
  <1>7. \/ UNCHANGED <<prog, num_pages, mem, present, last>>
        \/ HandlerCopyDemo \/ ReadCell \/ WriteCell \/ EndPass \/ HandlerCopyS2dsm
        \/ UpdatePage
    BY DEF Next, vars, userVars, Handler, HandlerRead, Demo, DemoFault, Fault, User,
           UserFault, PrintPage, Command
  <1>8. QED BY <1>3, <1>4, <1>5, <1>6, <1>7

\* What sprintf reads from a page that holds m is m.
LEMMA TextIs ==
  ASSUME num_pages \in Nat, NEW p \in Page, NEW m \in Messages \cup {<<>>}, Holds(p, m)
  PROVE  Text(p) = m /\ \E c \in CellsOf(p) : mem[c] = Zero
  <1>1. /\ p \in Nat /\ PageCells \in Nat \ {0} /\ Len(m) \in 0 .. PageCells - 1
        /\ \A j \in 1 .. Len(m) : m[j] \in 1 .. 127
        /\ m = [j \in 1 .. Len(m) |-> m[j]]
    BY MessageType, SizeAssumption DEF Page
  <1>2. \A j \in 0 .. PageCells - 1 :
          /\ j < Len(m) => mem[p * PageCells + j] = m[j + 1]
          /\ j = Len(m) => mem[p * PageCells + j] = Zero
    BY HoldsCells
  <1>3. \A j \in 0 .. PageCells - 1 : j < Len(m) => mem[p * PageCells + j] # Zero
    <2>1. \A j \in 0 .. PageCells - 1 : j < Len(m) => j + 1 \in 1 .. Len(m)
      BY <1>1
    <2>2. \A j \in 1 .. Len(m) : m[j] # Zero
      <3>1. \A x \in 1 .. 127 : x # Zero
        BY DEF Zero
      <3>2. QED BY <1>1, <3>1
    <2>3. QED BY <1>2, <2>1, <2>2
  <1> DEFINE Ends(k) == /\ mem[p * PageCells + k] = Zero
                        /\ \A j \in 0 .. k - 1 : mem[p * PageCells + j] # Zero
             n == CHOOSE k \in 0 .. PageCells - 1 : Ends(k)
  <1>4. Ends(Len(m))
    <2>1. \A j \in 0 .. Len(m) - 1 : j \in 0 .. PageCells - 1 /\ j < Len(m)
      BY <1>1
    <2>2. QED BY <1>1, <1>2, <1>3, <2>1
  <1>5. n \in 0 .. PageCells - 1 /\ Ends(n)
    <2> HIDE DEF Ends
    <2>1. QED BY <1>1, <1>4
  <1>6. Text(p) = [k \in 1 .. n |-> mem[p * PageCells + k - 1]]
    BY DEF Text
  <1> HIDE DEF n
  <1>7. n = Len(m)
    <2>1. ~(n < Len(m))
      BY <1>3, <1>5
    <2>2. ~(Len(m) < n)
      <3>1. Len(m) < n => Len(m) \in 0 .. n - 1
        BY <1>1, <1>5
      <3>2. QED BY <1>4, <1>5, <3>1
    <2>3. QED BY <1>1, <1>5, <2>1, <2>2
  <1>8. \A k \in 1 .. Len(m) : mem[p * PageCells + k - 1] = m[k]
    BY DEF Holds
  <1>9. Text(p) = m
    BY <1>1, <1>6, <1>7, <1>8
  <1>10. p * PageCells + Len(m) \in CellsOf(p) /\ mem[p * PageCells + Len(m)] = Zero
    BY <1>1, Offset DEF Holds
  <1>11. QED BY <1>9, <1>10

\* A page of s2dsm reads as the message last written to it, whatever longer
\* message was there before and whatever its neighbours hold; a page that nobody
\* wrote reads as the empty string.
THEOREM ReadsLastWriteHolds == Spec => []ReadsLastWrite
  <1>1. Init => TextInv
    BY TypeInit, WaitingInit, UserInit DEF TextInv
  <1>2. TextInv => ReadsLastWrite
    <2> SUFFICES ASSUME TextInv, prog = "s2dsm", NEW p \in Page
                 PROVE  /\ \E c \in CellsOf(p) : mem[c] = Zero
                        /\ Text(p) = last[p]
                        /\ p \notin present => last[p] = <<>>
      BY DEF ReadsLastWrite
    <2>1. /\ Holds(p, last[p]) /\ (p \notin present => last[p] = <<>>)
          /\ last[p] \in Messages \cup {<<>>}
      BY DEF TextInv, UserInv, TypeOK
    <2>2. num_pages \in Nat
      BY SizeFacts DEF TextInv
    <2>3. QED BY <2>1, <2>2, TextIs
  <1>3. QED BY <1>1, <1>2, UserNext, PTL DEF Spec
=============================================================================
