------------------------- MODULE S2dsmSerialProofs -------------------------
(***************************************************************************)
(* Proofs about S2dsm with users that take turns: the two copies are       *)
(* coherent between commands, a read shows nothing only if nobody has the  *)
(* page, and the two processes implement one shared memory.                *)
(***************************************************************************)
EXTENDS S2dsmProofs, S2dsmRefinement

\* The users that proj3-s2dsm.pdf describes: they do not act at once, nobody is
\* killed, and nobody types the text that the responder uses for "invalid".
TakeTurns == Serial /\ MayExit = {} /\ NullText \notin Message

----------------------------------------------------------------------------
(* The inductive invariant. *)

\* One command at a time.
Turn(n) == alive[n] /\ (pc[n] # "idle" => pc[Peer(n)] = "idle")

\* Which function the main thread is in at each place.
InOp(n) ==
  /\ pc[n] = "idle" => op[n] = "none"
  /\ pc[n] \in {"touch", "status", "print"} => op[n] \in {"read", "show"}
  /\ pc[n] = "fetch" => op[n] = "read"
  /\ pc[n] \in {"copy", "copyRest", "mark"} => op[n] \in {"read", "write"}
  /\ pc[n] \in {"send", "ack"} => op[n] = "write"
  /\ op[n] = "write" => buf[n] \in Message

\* The loop variable is between the bounds of the loop.
InRange(n) ==
  /\ FirstPage(request_page[n]) <= cur[n]
  /\ cur[n] <= LastPage(request_page[n])

\* A write has modified the pages behind it, and the listing that follows it
\* finds all of them modified.
Modified(n) ==
  \A p \in Page :
    /\ FirstPage(request_page[n]) <= p
    /\ p <= LastPage(request_page[n])
    /\ op[n] = "show" \/ (op[n] = "write" /\ p < cur[n])
    => msi[n][p] = "m"

\* n's main thread is working on page p, from the first touch to the reply.
Busy(n, p) == cur[n] = p /\ pc[n] \notin {"idle", "print"}

\* A valid copy holds a message, an invalid one is unmapped, or about to be.
Copy(n, p) ==
  IF msi[n][p] = "i"
  THEN page[n][p] = Absent \/ (rpc[n] = "drop" /\ rpage[n] = p)
  ELSE page[n][p] \in Message

\* The copy of the page that n's main thread is working on.
BusyCopy(n) ==
  LET t == page[n][cur[n]] IN
    /\ pc[n] \in {"touch", "status", "fetch", "copy"} =>
         IF msi[n][cur[n]] = "i" THEN t \in {Absent, Empty} ELSE t \in Message
    /\ pc[n] = "copyRest" => t = Torn
    /\ pc[n] \in {"mark", "send", "ack"} => t = buf[n]
    /\ pc[n] \in {"send", "ack"} => msi[n][cur[n]] = "m"

\* Two valid copies are both shared and equal, unless a write is going on.
Agree(p) ==
  \A n \in Node :
    (\A m \in Node : ~Writing(m, p)) /\ Holds(n, p) /\ Holds(Peer(n), p) =>
      msi[n][p] = "s" /\ page[n][p] = page[Peer(n)][p]

\* What the peer answers to n's read request for p.
Answer(n, p, t) ==
  IF msi[Peer(n)][p] = "i" THEN t = NullText
  ELSE msi[Peer(n)][p] = "s" /\ t = page[Peer(n)][p]

\* A fetch: the request, the peer's responder and the reply are about n's page.
Fetching(n) ==
  pc[n] = "fetch" =>
    /\ msi[n][cur[n]] = "i"
    /\ req[n] # <<>> => Head(req[n]).page = cur[n]
    /\ rpc[Peer(n)] # "read" => rpage[Peer(n)] = cur[n]
    /\ rpc[Peer(n)] \in {"onRead", "format"} =>
         /\ msi[Peer(n)][cur[n]] # "m"
         /\ reply[Peer(n)] = IF msi[Peer(n)][cur[n]] = "i" THEN NullText ELSE PagePtr
    /\ rpc[Peer(n)] = "send" => Answer(n, cur[n], reply[Peer(n)])
    /\ rsp[n] # <<>> => Answer(n, cur[n], Head(rsp[n]))

\* A fetched page is stored: the peer still has what was received.
Storing(n) ==
  pc[n] \in {"copy", "copyRest", "mark"} /\ op[n] = "read" =>
    /\ msi[n][cur[n]] = "i"
    /\ msi[Peer(n)][cur[n]] = "s"
    /\ buf[n] = page[Peer(n)][cur[n]]

\* An invalidation: once it is done the peer's copy is invalid.
Invalidating(n) ==
  pc[n] = "ack" =>
    /\ req[n] # <<>> => Head(req[n]).page = cur[n]
    /\ rpc[Peer(n)] # "read" => rpage[Peer(n)] = cur[n]
    /\ rpc[Peer(n)] \in {"drop", "send"} \/ rsp[n] # <<>> =>
         msi[Peer(n)][cur[n]] = "i"

\* What is printed is the copy, or nothing if neither process has one.
Printing(n) ==
  /\ pc[n] = "status" => page_output[n] = page[n][cur[n]]
  /\ pc[n] = "print" =>
       IF Holds(n, cur[n]) THEN page_output[n] = page[n][cur[n]]
       ELSE page_output[n] = Empty /\ ~Holds(Peer(n), cur[n])

Serially(n) ==
  /\ Turn(n) /\ InOp(n) /\ InRange(n) /\ Modified(n) /\ BusyCopy(n)
  /\ Fetching(n) /\ Storing(n) /\ Invalidating(n) /\ Printing(n)

Coherently(p) == Agree(p) /\ \A n \in Node : Busy(n, p) \/ Copy(n, p)

SerialInv ==
  ConnInv /\ (\A n \in Node : Serially(n)) /\ (\A p \in Page : Coherently(p))

----------------------------------------------------------------------------
(* Facts that every step needs. *)

LEMMA SerialInit == Init => SerialInv
  <1> SUFFICES ASSUME Init PROVE SerialInv
    OBVIOUS
  <1>1. ASSUME NEW n \in Node PROVE Serially(n)
    <2>1. InRange(n)
      BY ConstantFacts DEF Init, InRange, FirstPage, LastPage
    <2>2. QED
      BY <2>1, PeerFacts
      DEF Init, Serially, Turn, InOp, Modified, BusyCopy, Fetching, Storing,
          Invalidating, Printing
  <1>2. ASSUME NEW p \in Page PROVE Coherently(p)
    BY PeerFacts DEF Init, Coherently, Agree, Copy, Holds
  <1>3. QED BY <1>1, <1>2, ConnInit DEF SerialInv

\* Who is who while n executes a command: its peer k is at the prompt, and n's
\* own responder has nothing to do.
LEMMA ActiveFacts ==
  ASSUME SerialInv, NEW n \in Node, pc[n] # "idle", NEW k \in Node, k = Peer(n)
  PROVE  /\ n # k /\ Peer(k) = n
         /\ \A m \in Node : m = n \/ m = k
         /\ alive[n] /\ alive[k]
         /\ pc[k] = "idle" /\ op[k] = "none"
         /\ rpc[n] = "read" /\ req[k] = <<>> /\ rsp[k] = <<>>
         /\ \A p \in Page : ~Busy(k, p) /\ Copy(k, p)
  <1>1. n # k /\ Peer(k) = n /\ \A m \in Node : m = n \/ m = k
    BY PeerFacts, NodeAssumption DEF Node
  <1>2. alive[n] /\ alive[k] /\ pc[k] = "idle" /\ op[k] = "none"
    BY DEF SerialInv, Serially, Turn, InOp
  <1>3. ~Waiting(k) /\ Wire(k)
    BY <1>2 DEF Waiting, SerialInv, ConnInv, WireInv
  <1>4. rpc[n] = "read" /\ req[k] = <<>> /\ rsp[k] = <<>>
    BY <1>1, <1>2, <1>3 DEF Wire
  <1>5. \A p \in Page : ~Busy(k, p)
    BY <1>2 DEF Busy
  <1>6. \A p \in Page : Copy(k, p)
    BY <1>5 DEF SerialInv, Coherently
  <1>7. QED BY <1>1, <1>2, <1>4, <1>5, <1>6

\* The process at the prompt keeps its part of the invariant.
LEMMA IdleStays ==
  ASSUME SerialInv, NEW n \in Node, pc[n] # "idle", NEW k \in Node, k = Peer(n),
         UNCHANGED <<alive, pc[k], op[k], request_page[k], cur[k]>>
  PROVE  Serially(k)'
  <1>1. alive'[k] /\ pc'[k] = "idle" /\ op'[k] = "none"
    BY ActiveFacts
  <1>2. InRange(k)'
    BY DEF SerialInv, Serially, InRange
  <1>3. QED
    BY <1>1, <1>2
    DEF Serially, Turn, InOp, Modified, BusyCopy, Fetching, Storing,
        Invalidating, Printing

\* A page whose copies and states a step leaves alone stays coherent, if what
\* excuses it from agreeing lasts.
LEMMA PageStays ==
  ASSUME SerialInv, NEW p \in Page,
         \A m \in Node :
           /\ msi'[m][p] = msi[m][p] /\ page'[m][p] = page[m][p]
           /\ Busy(m, p) => Busy(m, p)' \/ Copy(m, p)
           /\ rpc[m] = "drop" /\ rpage[m] = p => rpc'[m] = "drop" /\ rpage'[m] = p
           /\ Writing(m, p) => Writing(m, p)'
  PROVE  Coherently(p)'
  <1>1. Agree(p)'
    BY PeerFacts DEF SerialInv, Coherently, Agree, Holds
  <1>2. ASSUME NEW m \in Node PROVE Busy(m, p)' \/ Copy(m, p)'
    <2>1. Copy(m, p) => Copy(m, p)'
      BY DEF Copy
    <2>2. QED BY <2>1 DEF SerialInv, Coherently
  <1>3. QED BY <1>1, <1>2 DEF Coherently

\* A step while n executes a command: n's part and the pages are what is left
\* to prove.
LEMMA Assemble ==
  ASSUME SerialInv, [Next]_vars,
         NEW n \in Node, pc[n] # "idle", NEW k \in Node, k = Peer(n),
         UNCHANGED <<alive, pc[k], op[k], request_page[k], cur[k]>>,
         Serially(n)', \A p \in Page : Coherently(p)'
  PROVE  SerialInv'
  <1>1. Serially(k)'
    BY IdleStays
  <1>2. ConnInv'
    BY ConnNext DEF SerialInv
  <1>3. QED BY <1>1, <1>2, ActiveFacts DEF SerialInv

\* The special strings are no messages, and differ.
LEMMA TextFacts ==
  /\ Absent \notin Message /\ Empty \notin Message /\ Torn \notin Message
  /\ PagePtr \notin Message /\ NullText # PagePtr /\ NullText # Empty
  /\ Absent # Empty /\ Torn # Empty /\ Absent # Torn
  BY MessageAssumption DEF Absent, Empty, Torn, Success, PagePtr

----------------------------------------------------------------------------
(* The main thread's steps inside one page. *)

\* A main step touches nothing of its peer.
LEMMA MainFrame ==
  ASSUME ConnInv, NEW n \in Node, MainStep(n), ~ReceiveAck(n), ~PrintPage(n),
         NEW k \in Node, k # n
  PROVE  /\ UNCHANGED <<alive, rpc, rpage, reply, op, request_page, cur>>
         /\ UNCHANGED <<pc[k], buf[k], msi[k], page[k], req[k], rsp[k]>>
         /\ \A p \in Page : p # cur[n] => /\ msi'[n][p] = msi[n][p]
                                          /\ page'[n][p] = page[n][p]
  <1> USE DEF ConnInv, TypeInv, TypeOK, Goto, responderVars
  <1>1. CASE \/ TouchPage(n) \/ StatusValid(n) \/ StatusInvalid(n)
             \/ Fetch(n) \/ ReceivePage(n)
    BY <1>1 DEF TouchPage, StatusValid, StatusInvalid, Fetch, ReceivePage,
       SendRequest
  <1>2. CASE ReceiveNull(n) \/ ReceiveEof(n) \/ CopyFirst(n) \/ CopyRest(n)
    BY <1>2 DEF ReceiveNull, ReceiveEof, CopyFirst, CopyRest
  <1>3. CASE MarkShared(n) \/ MarkModified(n) \/ SendInvalidate(n)
    BY <1>3 DEF MarkShared, MarkModified, SendInvalidate, SendRequest
  <1>4. QED BY <1>1, <1>2, <1>3 DEF MainStep

\* Such a step leaves the pages that n is not working on coherent.
LEMMA OtherPages ==
  ASSUME SerialInv, NEW n \in Node, pc[n] # "idle",
         MainStep(n), ~ReceiveAck(n), ~PrintPage(n),
         NEW p \in Page, p # cur[n]
  PROVE  Coherently(p)'
  <1> DEFINE k == Peer(n)
  <1>1. k \in Node /\ k # n
    BY PeerFacts
  <1>2. /\ UNCHANGED <<rpc, rpage, op, cur, pc[k], msi[k], page[k]>>
        /\ msi'[n][p] = msi[n][p] /\ page'[n][p] = page[n][p]
    BY <1>1, MainFrame DEF SerialInv
  <1>3. \A m \in Node : m = n \/ m = k
    BY ActiveFacts, <1>1
  <1> HIDE DEF k
  <1>4. ~Busy(n, p) /\ ~Writing(n, p)
    BY DEF Busy, Writing
  <1>5. /\ Busy(k, p) => Busy(k, p)'
        /\ Writing(k, p) => Writing(k, p)'
    BY <1>2 DEF Busy, Writing
  <1>6. QED BY <1>2, <1>3, <1>4, <1>5, PageStays

\* The two lemmas above for the step's lemma to use: what is left is n's part
\* and the page it works on.
LEMMA WithinPage ==
  ASSUME SerialInv, [Next]_vars, NEW n \in Node, pc[n] # "idle",
         MainStep(n), ~ReceiveAck(n), ~PrintPage(n),
         NEW c \in Page, c = cur[n], Serially(n)', Coherently(c)'
  PROVE  SerialInv'
  <1> DEFINE k == Peer(n)
  <1>1. k \in Node /\ k # n
    BY PeerFacts
  <1>2. UNCHANGED <<alive, pc[k], op[k], request_page[k], cur[k]>>
    BY <1>1, MainFrame DEF SerialInv
  <1>3. \A p \in Page : Coherently(p)'
    BY OtherPages
  <1>4. QED BY <1>1, <1>2, <1>3, Assemble

\* printPageContents looks at its copy.
LEMMA SerialTouch ==
  ASSUME SerialInv, [Next]_vars, NEW n \in Node, TouchPage(n)
  PROVE  SerialInv'
  <1> DEFINE k == Peer(n)
  <1>1. k \in Node /\ k # n
    BY PeerFacts
  <1>2. /\ pc[n] = "touch" /\ MainStep(n) /\ ~ReceiveAck(n) /\ ~PrintPage(n)
        /\ UNCHANGED <<msi, page, buf>>
        /\ pc'[n] = "status" /\ page_output'[n] = page[n][cur[n]]
    BY DEF TouchPage, Main, Goto, MainStep, ReceiveAck, PrintPage, SerialInv,
       ConnInv, TypeInv, TypeOK
  <1>3. UNCHANGED <<alive, rpc, rpage, reply, op, request_page, cur, pc[k]>>
    BY <1>1, <1>2, MainFrame DEF SerialInv
  <1>4. pc[k] = "idle" /\ \A m \in Node : m = n \/ m = k
    BY <1>1, <1>2, ActiveFacts
  <1> HIDE DEF k
  <1>5. Serially(n)'
    BY <1>2, <1>3, <1>4
    DEF SerialInv, Serially, Turn, InOp, InRange, Modified, BusyCopy, Fetching,
        Storing, Invalidating, Printing, k
  <1>6. PICK c \in Page : c = cur[n]
    BY DEF SerialInv, ConnInv, TypeInv, TypeOK
  <1>7. Coherently(c)'
    <2>1. \A m \in Node : /\ Busy(m, c) => Busy(m, c)'
                          /\ Writing(m, c) => Writing(m, c)'
      BY <1>2, <1>3, <1>4 DEF Busy, Writing
    <2>2. QED BY <1>2, <1>3, <2>1, PageStays
  <1>8. QED BY <1>2, <1>5, <1>6, <1>7, WithinPage

\* Case m or s: the copy is printed.
LEMMA SerialStatusValid ==
  ASSUME SerialInv, [Next]_vars, NEW n \in Node, StatusValid(n)
  PROVE  SerialInv'
  <1> DEFINE k == Peer(n)
  <1>1. k \in Node /\ k # n
    BY PeerFacts
  <1>2. /\ pc[n] = "status" /\ MainStep(n) /\ ~ReceiveAck(n) /\ ~PrintPage(n)
        /\ UNCHANGED <<msi, page, buf, page_output>>
        /\ pc'[n] = "print" /\ msi[n][cur[n]] # "i"
    BY DEF StatusValid, Main, Goto, MainStep, ReceiveAck, PrintPage, SerialInv,
       ConnInv, TypeInv, TypeOK
  <1>3. UNCHANGED <<alive, rpc, rpage, reply, op, request_page, cur, pc[k]>>
    BY <1>1, <1>2, MainFrame DEF SerialInv
  <1>4. pc[k] = "idle" /\ \A m \in Node : m = n \/ m = k
    BY <1>1, <1>2, ActiveFacts
  <1> HIDE DEF k
  <1>5. Serially(n)'
    BY <1>2, <1>3, <1>4
    DEF SerialInv, Serially, Turn, InOp, InRange, Modified, BusyCopy, Fetching,
        Storing, Invalidating, Printing, Holds, k
  <1>6. PICK c \in Page : c = cur[n]
    BY DEF SerialInv, ConnInv, TypeInv, TypeOK
  <1>7. Coherently(c)'
    <2>1. Copy(n, c)
      BY <1>2, <1>6 DEF SerialInv, Serially, BusyCopy, Copy
    <2>2. \A m \in Node : /\ Busy(m, c) => Busy(m, c)' \/ Copy(m, c)
                          /\ Writing(m, c) => Writing(m, c)'
      BY <1>2, <1>3, <1>4, <2>1 DEF Busy, Writing
    <2>3. QED BY <1>2, <1>3, <2>2, PageStays
  <1>8. QED BY <1>2, <1>5, <1>6, <1>7, WithinPage

\* Case i without fetch does not happen: the listing after a write finds every
\* page modified.
LEMMA SerialStatusInvalid ==
  ASSUME SerialInv, NEW n \in Node
  PROVE  ~StatusInvalid(n)
  <1> SUFFICES ASSUME StatusInvalid(n) PROVE FALSE
    OBVIOUS
  <1>1. cur[n] \in Page /\ op[n] = "show" /\ msi[n][cur[n]] = "i"
    BY DEF StatusInvalid, SerialInv, ConnInv, TypeInv, TypeOK
  <1>2. InRange(n) /\ Modified(n)
    BY DEF SerialInv, Serially
  <1>3. QED BY <1>1, <1>2 DEF InRange, Modified

\* The peer is asked: its responder is free, and the request is all there is.
LEMMA SerialFetch ==
  ASSUME SerialInv, [Next]_vars, NEW n \in Node, Fetch(n)
  PROVE  SerialInv'
  <1> DEFINE k == Peer(n)
  <1>1. k \in Node /\ k # n
    BY PeerFacts
  <1>2. /\ pc[n] = "status" /\ MainStep(n) /\ ~ReceiveAck(n) /\ ~PrintPage(n)
        /\ UNCHANGED <<msi, page, buf, page_output, rsp>>
        /\ pc'[n] = "fetch" /\ msi[n][cur[n]] = "i" /\ op[n] = "read"
        /\ SendRequest(n, "read")
    BY DEF Fetch, Main, Goto, MainStep, ReceiveAck, PrintPage, SerialInv,
       ConnInv, TypeInv, TypeOK
  <1>3. UNCHANGED <<alive, rpc, rpage, reply, op, request_page, cur, pc[k]>>
    BY <1>1, <1>2, MainFrame DEF SerialInv
  <1>4. pc[k] = "idle" /\ alive[n] /\ alive[k] /\ \A m \in Node : m = n \/ m = k
    BY <1>1, <1>2, ActiveFacts
  <1>5. req[n] = <<>> /\ rsp[n] = <<>> /\ rpc[k] = "read"
    BY <1>2, <1>4 DEF SerialInv, ConnInv, WireInv, Wire, Waiting
  <1>6. Head(req'[n]).page = cur[n]
    <2> DEFINE r == [page |-> cur[n], op |-> "read"]
    <2>1. req'[n] = Append(req[n], r)
      BY <1>2, <1>4 DEF SendRequest, SerialInv, ConnInv, TypeInv, TypeOK
    <2> HIDE DEF r
    <2>2. Append(req[n], r) = <<r>>
      BY <1>5
    <2>3. Head(req'[n]) = r
      BY <2>1, <2>2
    <2>4. QED BY <2>3 DEF r
  <1> HIDE DEF k
  <1>7. Serially(n)'
    BY <1>2, <1>3, <1>4, <1>5, <1>6
    DEF SerialInv, Serially, Turn, InOp, InRange, Modified, BusyCopy, Fetching,
        Storing, Invalidating, Printing, k
  <1>8. PICK c \in Page : c = cur[n]
    BY DEF SerialInv, ConnInv, TypeInv, TypeOK
  <1>9. Coherently(c)'
    <2>1. \A m \in Node : /\ Busy(m, c) => Busy(m, c)'
                          /\ Writing(m, c) => Writing(m, c)'
      BY <1>2, <1>3, <1>4 DEF Busy, Writing
    <2>2. QED BY <1>2, <1>3, <2>1, PageStays
  <1>10. QED BY <1>2, <1>7, <1>8, <1>9, WithinPage

\* The reply is the peer's copy, which is shared by now and will not change.
LEMMA SerialReceivePage ==
  ASSUME SerialInv, [Next]_vars, NEW n \in Node, ReceivePage(n)
  PROVE  SerialInv'
  <1> DEFINE k == Peer(n)
  <1>1. k \in Node /\ k # n
    BY PeerFacts
  <1>2. /\ pc[n] = "fetch" /\ MainStep(n) /\ ~ReceiveAck(n) /\ ~PrintPage(n)
        /\ UNCHANGED <<msi, page, page_output>>
        /\ pc'[n] = "copy" /\ buf'[n] = Head(rsp[n])
        /\ rsp[n] # <<>> /\ Head(rsp[n]) # NullText
    BY DEF ReceivePage, Main, Goto, MainStep, ReceiveAck, PrintPage, SerialInv,
       ConnInv, TypeInv, TypeOK
  <1>3. UNCHANGED <<alive, rpc, rpage, reply, op, request_page, cur, pc[k]>>
    BY <1>1, <1>2, MainFrame DEF SerialInv
  <1>4. pc[k] = "idle" /\ \A m \in Node : m = n \/ m = k
    BY <1>1, <1>2, ActiveFacts
  <1>5. Answer(n, cur[n], Head(rsp[n])) /\ msi[n][cur[n]] = "i" /\ op[n] = "read"
    BY <1>2 DEF SerialInv, Serially, Fetching, InOp
  <1>6. msi[k][cur[n]] = "s" /\ Head(rsp[n]) = page[k][cur[n]]
    BY <1>2, <1>5 DEF Answer
  <1> HIDE DEF k
  <1>7. Serially(n)'
    BY <1>2, <1>3, <1>4, <1>5, <1>6
    DEF SerialInv, Serially, Turn, InOp, InRange, Modified, BusyCopy, Fetching,
        Storing, Invalidating, Printing, k
  <1>8. PICK c \in Page : c = cur[n]
    BY DEF SerialInv, ConnInv, TypeInv, TypeOK
  <1>9. Coherently(c)'
    <2>1. \A m \in Node : /\ Busy(m, c) => Busy(m, c)'
                          /\ Writing(m, c) => Writing(m, c)'
      BY <1>2, <1>3, <1>4 DEF Busy, Writing
    <2>2. QED BY <1>2, <1>3, <2>1, PageStays
  <1>10. QED BY <1>2, <1>7, <1>8, <1>9, WithinPage

\* The reply is "NULL": the peer has no copy either, since nobody types "NULL".
LEMMA SerialReceiveNull ==
  ASSUME TakeTurns, SerialInv, [Next]_vars, NEW n \in Node, ReceiveNull(n)
  PROVE  SerialInv'
  <1> DEFINE k == Peer(n)
  <1>1. k \in Node /\ k # n
    BY PeerFacts
  <1>2. PICK c \in Page : c = cur[n]
    BY DEF SerialInv, ConnInv, TypeInv, TypeOK
  <1>3. /\ pc[n] = "fetch" /\ MainStep(n) /\ ~ReceiveAck(n) /\ ~PrintPage(n)
        /\ UNCHANGED <<msi, buf>>
        /\ pc'[n] = "print" /\ page_output'[n] = Empty /\ page'[n][c] = Absent
        /\ rsp[n] # <<>> /\ Head(rsp[n]) = NullText
    BY <1>2 DEF ReceiveNull, Main, Goto, MainStep, ReceiveAck, PrintPage, SerialInv,
       ConnInv, TypeInv, TypeOK
  <1>4. UNCHANGED <<alive, rpc, rpage, reply, op, request_page, cur, pc[k]>>
    BY <1>1, <1>3, MainFrame DEF SerialInv
  <1>5. /\ pc[k] = "idle" /\ \A m \in Node : m = n \/ m = k
        /\ Copy(k, c) /\ Peer(k) = n
    BY <1>1, <1>3, ActiveFacts
  <1>6. Answer(n, c, NullText) /\ msi[n][c] = "i" /\ op[n] = "read"
    BY <1>2, <1>3 DEF SerialInv, Serially, Fetching, InOp
  <1>7. msi[k][c] = "i"
    BY <1>5, <1>6 DEF Answer, Copy, TakeTurns
  <1> HIDE DEF k
  <1>8. Serially(n)'
    BY <1>2, <1>3, <1>4, <1>5, <1>6, <1>7
    DEF SerialInv, Serially, Turn, InOp, InRange, Modified, BusyCopy, Fetching,
        Storing, Invalidating, Printing, Holds, k
  <1>9. Coherently(c)'
    <2>1. UNCHANGED page[k]
      BY <1>1, <1>3, MainFrame DEF SerialInv, k
    <2>2. Copy(n, c)' /\ Copy(k, c)'
      BY <1>3, <1>4, <1>5, <1>6, <2>1 DEF Copy
    <2>3. Agree(c)'
      BY <1>3, <1>5, <1>6, <1>7 DEF Agree, Holds
    <2>4. QED BY <1>5, <2>2, <2>3 DEF Coherently
  <1>10. QED BY <1>2, <1>3, <1>8, <1>9, WithinPage

\* While updatePageContents copies, a text to be stored is a message, and the
\* page is either being written or invalid: it need not agree with the peer's.
LEMMA CopyFacts ==
  ASSUME SerialInv, NEW n \in Node, pc[n] \in {"copy", "copyRest", "mark"},
         NEW k \in Node, k = Peer(n), NEW c \in Page, c = cur[n]
  PROVE  /\ buf[n] \in Message
         /\ op[n] = "write" \/ (op[n] = "read" /\ msi[n][c] = "i")
  <1>1. Copy(k, c)
    BY ActiveFacts
  <1>2. op[n] \in {"read", "write"} /\ (op[n] = "write" => buf[n] \in Message)
    BY DEF SerialInv, Serially, InOp
  <1>3. op[n] = "read" => /\ msi[n][c] = "i" /\ msi[k][c] = "s"
                          /\ buf[n] = page[k][c]
    BY DEF SerialInv, Serially, Storing
  <1>4. QED BY <1>1, <1>2, <1>3 DEF Copy

\* The copy loop.
LEMMA SerialCopy ==
  ASSUME SerialInv, [Next]_vars, NEW n \in Node, CopyFirst(n) \/ CopyRest(n)
  PROVE  SerialInv'
  <1> DEFINE k == Peer(n)
  <1>1. k \in Node /\ k # n
    BY PeerFacts
  <1>2. PICK c \in Page : c = cur[n]
    BY DEF SerialInv, ConnInv, TypeInv, TypeOK
  <1>3. /\ pc[n] \in {"copy", "copyRest"}
        /\ MainStep(n) /\ ~ReceiveAck(n) /\ ~PrintPage(n)
        /\ UNCHANGED <<msi, buf, page_output>>
    BY DEF CopyFirst, CopyRest, Main, MainStep, ReceiveAck, PrintPage
  <1>4. buf[n] \in Message /\ (op[n] = "write" \/ (op[n] = "read" /\ msi[n][c] = "i"))
    BY <1>1, <1>2, <1>3, CopyFacts
  <1>5. \/ pc'[n] = "copyRest" /\ page'[n][c] = Torn
        \/ pc'[n] = "mark" /\ page'[n][c] = buf[n]
    <2>1. CASE CopyFirst(n)
      BY <1>2, <1>4, <2>1, TextFacts
      DEF CopyFirst, CopyStart, Goto, SerialInv, ConnInv, TypeInv, TypeOK
    <2>2. CASE CopyRest(n)
      <3>1. page[n][c] = Torn
        BY <1>2, <2>2 DEF CopyRest, Main, SerialInv, Serially, BusyCopy
      <3>2. QED
        BY <1>2, <2>2, <3>1
        DEF CopyRest, CopyEnd, Goto, SerialInv, ConnInv, TypeInv, TypeOK
    <2>3. QED BY <2>1, <2>2
  <1>6. UNCHANGED <<alive, rpc, rpage, reply, op, request_page, cur, pc[k], page[k]>>
    BY <1>1, <1>3, MainFrame DEF SerialInv
  <1>7. /\ pc[k] = "idle" /\ \A m \in Node : m = n \/ m = k
        /\ Copy(k, c) /\ Peer(k) = n
    BY <1>1, <1>3, ActiveFacts
  <1> HIDE DEF k
  <1>8. Serially(n)'
    BY <1>2, <1>3, <1>4, <1>5, <1>6, <1>7
    DEF SerialInv, Serially, Turn, InOp, InRange, Modified, BusyCopy, Fetching,
        Storing, Invalidating, Printing, k
  <1>9. Coherently(c)'
    <2>1. Busy(n, c)' /\ Copy(k, c)'
      BY <1>2, <1>3, <1>5, <1>6, <1>7 DEF Busy, Copy
    <2>2. Agree(c)'
      <3>1. op[n] = "write" => Writing(n, c)'
        BY <1>2, <1>5, <1>6 DEF Writing
      <3>2. QED BY <1>3, <1>4, <1>7, <3>1 DEF Agree, Holds
    <2>3. QED BY <1>7, <2>1, <2>2 DEF Coherently
  <1>10. QED BY <1>2, <1>3, <1>8, <1>9, WithinPage

\* The fetched page becomes a second shared copy, with the same text.
LEMMA SerialMarkShared ==
  ASSUME SerialInv, [Next]_vars, NEW n \in Node, MarkShared(n)
  PROVE  SerialInv'
  <1> DEFINE k == Peer(n)
  <1>1. k \in Node /\ k # n
    BY PeerFacts
  <1>2. PICK c \in Page : c = cur[n]
    BY DEF SerialInv, ConnInv, TypeInv, TypeOK
  <1>3. /\ pc[n] = "mark" /\ op[n] = "read"
        /\ MainStep(n) /\ ~ReceiveAck(n) /\ ~PrintPage(n)
        /\ UNCHANGED <<page, buf>>
        /\ pc'[n] = "print" /\ page_output'[n] = buf[n] /\ msi'[n][c] = "s"
    BY <1>2 DEF MarkShared, Main, Goto, MainStep, ReceiveAck, PrintPage,
       SerialInv, ConnInv, TypeInv, TypeOK
  <1>4. buf[n] \in Message
    BY <1>1, <1>2, <1>3, CopyFacts
  <1>5. msi[k][c] = "s" /\ buf[n] = page[k][c] /\ page[n][c] = buf[n]
    BY <1>2, <1>3 DEF SerialInv, Serially, Storing, BusyCopy
  <1>6. UNCHANGED <<alive, rpc, rpage, reply, op, request_page, cur, pc[k], msi[k]>>
    BY <1>1, <1>3, MainFrame DEF SerialInv
  <1>7. /\ pc[k] = "idle" /\ \A m \in Node : m = n \/ m = k
        /\ Copy(k, c) /\ Peer(k) = n
    BY <1>1, <1>3, ActiveFacts
  <1> HIDE DEF k
  <1>8. Serially(n)'
    BY <1>2, <1>3, <1>4, <1>5, <1>6, <1>7
    DEF SerialInv, Serially, Turn, InOp, InRange, Modified, BusyCopy, Fetching,
        Storing, Invalidating, Printing, Holds, k
  <1>9. Coherently(c)'
    <2>1. Copy(n, c)' /\ Copy(k, c)'
      BY <1>3, <1>4, <1>5, <1>6, <1>7 DEF Copy
    <2>2. Agree(c)'
      BY <1>3, <1>5, <1>6, <1>7 DEF Agree, k
    <2>3. QED BY <1>7, <2>1, <2>2 DEF Coherently
  <1>10. QED BY <1>2, <1>3, <1>8, <1>9, WithinPage

\* transitionStateOnWrite, until the invalidation is sent.
LEMMA SerialMarkModified ==
  ASSUME SerialInv, [Next]_vars, NEW n \in Node, MarkModified(n)
  PROVE  SerialInv'
  <1> DEFINE k == Peer(n)
  <1>1. k \in Node /\ k # n
    BY PeerFacts
  <1>2. PICK c \in Page : c = cur[n]
    BY DEF SerialInv, ConnInv, TypeInv, TypeOK
  <1>3. /\ pc[n] = "mark" /\ op[n] = "write"
        /\ MainStep(n) /\ ~ReceiveAck(n) /\ ~PrintPage(n)
        /\ UNCHANGED <<page, buf, page_output>>
        /\ pc'[n] = "send" /\ msi'[n][c] = "m"
    BY <1>2 DEF MarkModified, StateOnWrite, Main, Goto, MainStep, ReceiveAck,
       PrintPage, SerialInv, ConnInv, TypeInv, TypeOK
  <1>4. /\ UNCHANGED <<alive, rpc, rpage, reply, op, request_page, cur, pc[k], msi[k]>>
        /\ \A p \in Page : p # c => msi'[n][p] = msi[n][p]
    BY <1>1, <1>2, <1>3, MainFrame DEF SerialInv
  <1>5. /\ pc[k] = "idle" /\ \A m \in Node : m = n \/ m = k
        /\ Copy(k, c) /\ Peer(k) = n
    BY <1>1, <1>3, ActiveFacts
  <1> HIDE DEF k
  <1>6. Modified(n)'
    BY <1>2, <1>3, <1>4 DEF SerialInv, Serially, Modified
  <1>7. Serially(n)'
    BY <1>2, <1>3, <1>4, <1>5, <1>6
    DEF SerialInv, Serially, Turn, InOp, InRange, BusyCopy, Fetching,
        Storing, Invalidating, Printing, k
  <1>8. Coherently(c)'
    <2>1. Busy(n, c)' /\ Writing(n, c)' /\ Copy(k, c)'
      BY <1>2, <1>3, <1>4, <1>5 DEF Busy, Copy, Writing
    <2>2. QED BY <1>5, <2>1 DEF Coherently, Agree
  <1>9. QED BY <1>2, <1>3, <1>7, <1>8, WithinPage

LEMMA SerialSendInvalidate ==
  ASSUME SerialInv, [Next]_vars, NEW n \in Node, SendInvalidate(n)
  PROVE  SerialInv'
  <1> DEFINE k == Peer(n)
  <1>1. k \in Node /\ k # n
    BY PeerFacts
  <1>2. /\ pc[n] = "send" /\ MainStep(n) /\ ~ReceiveAck(n) /\ ~PrintPage(n)
        /\ UNCHANGED <<msi, page, buf, page_output, rsp>>
        /\ pc'[n] = "ack"
        /\ SendRequest(n, "inval")
    BY DEF SendInvalidate, Main, Goto, MainStep, ReceiveAck, PrintPage,
       SerialInv, ConnInv, TypeInv, TypeOK
  <1>3. UNCHANGED <<alive, rpc, rpage, reply, op, request_page, cur, pc[k]>>
    BY <1>1, <1>2, MainFrame DEF SerialInv
  <1>4. pc[k] = "idle" /\ alive[n] /\ alive[k] /\ \A m \in Node : m = n \/ m = k
    BY <1>1, <1>2, ActiveFacts
  <1>5. req[n] = <<>> /\ rsp[n] = <<>> /\ rpc[k] = "read"
    BY <1>2, <1>4 DEF SerialInv, ConnInv, WireInv, Wire, Waiting
  <1>6. Head(req'[n]).page = cur[n]
    <2> DEFINE r == [page |-> cur[n], op |-> "inval"]
    <2>1. req'[n] = Append(req[n], r)
      BY <1>2, <1>4 DEF SendRequest, SerialInv, ConnInv, TypeInv, TypeOK
    <2> HIDE DEF r
    <2>2. Append(req[n], r) = <<r>>
      BY <1>5
    <2>3. Head(req'[n]) = r
      BY <2>1, <2>2
    <2>4. QED BY <2>3 DEF r
  <1> HIDE DEF k
  <1>7. Serially(n)'
    BY <1>2, <1>3, <1>4, <1>5, <1>6
    DEF SerialInv, Serially, Turn, InOp, InRange, Modified, BusyCopy, Fetching,
        Storing, Invalidating, Printing, k
  <1>8. PICK c \in Page : c = cur[n]
    BY DEF SerialInv, ConnInv, TypeInv, TypeOK
  <1>9. Coherently(c)'
    <2>1. \A m \in Node : /\ Busy(m, c) => Busy(m, c)'
                          /\ Writing(m, c) => Writing(m, c)'
      BY <1>2, <1>3, <1>4 DEF Busy, Writing
    <2>2. QED BY <1>2, <1>3, <2>1, PageStays
  <1>10. QED BY <1>2, <1>7, <1>8, <1>9, WithinPage

----------------------------------------------------------------------------
(* Commands, and the end of a loop's iteration. *)

\* The loop's bounds are page numbers.
LEMMA LoopBounds ==
  ASSUME NEW r \in Page \cup {-1}
  PROVE  /\ FirstPage(r) \in Page /\ LastPage(r) \in Page
         /\ FirstPage(r) <= LastPage(r)
         /\ \A p \in Page : p \in Int
  BY ConstantFacts DEF FirstPage, LastPage, Page

\* A user starts a command when both processes are at the prompt.
LEMMA SerialCommand ==
  ASSUME TakeTurns, SerialInv, [Next]_vars, NEW n \in Node, Command(n)
  PROVE  SerialInv'
  <1> DEFINE k == Peer(n)
  <1>1. k \in Node /\ k # n /\ Peer(k) = n /\ \A m \in Node : m = n \/ m = k
    BY PeerFacts, NodeAssumption DEF Node
  <1>2. PICK r \in Page \cup {-1} :
          ReadCommand(n, r) \/ \E v \in Message : WriteCommand(n, r, v)
    BY DEF Command
  <1>3. alive[n] /\ alive[k] /\ pc[n] = "idle" /\ pc[k] = "idle" /\ op[k] = "none"
    BY <1>1, <1>2 DEF ReadCommand, WriteCommand, MayStart, Main, TakeTurns,
       SerialInv, Serially, Turn, InOp
  <1>4. /\ UNCHANGED <<msi, page, rpc, rpage, reply, alive>>
        /\ UNCHANGED <<pc[k], op[k], request_page[k], cur[k]>>
        /\ request_page'[n] = r /\ cur'[n] = FirstPage(r)
        /\ \/ pc'[n] = "touch" /\ op'[n] = "read"
           \/ pc'[n] = "copy" /\ op'[n] = "write" /\ buf'[n] \in Message
    BY <1>1, <1>2 DEF ReadCommand, WriteCommand, Goto, responderVars, SerialInv,
       ConnInv, TypeInv, TypeOK
  <1>5. rpc[n] = "read" /\ rpc[k] = "read"
    BY <1>1, <1>3 DEF SerialInv, ConnInv, WireInv, Wire, Waiting
  <1>6. \A m \in Node, p \in Page : ~Busy(m, p) /\ Copy(m, p) /\ ~Writing(m, p)
    <2>1. \A m \in Node, p \in Page : ~Busy(m, p) /\ ~Writing(m, p)
      BY <1>1, <1>3 DEF Busy, Writing
    <2>2. QED BY <2>1 DEF SerialInv, Coherently
  <1>7. FirstPage(r) \in Page /\ FirstPage(r) <= LastPage(r) /\ FirstPage(r) \in Int
    BY LoopBounds
  <1> HIDE DEF k
  <1>8. Serially(k)'
    <2>1. InRange(k)'
      BY <1>1, <1>4 DEF SerialInv, Serially, InRange
    <2>2. QED
      BY <1>1, <1>3, <1>4, <2>1
      DEF Serially, Turn, InOp, Modified, BusyCopy, Fetching, Storing,
          Invalidating, Printing
  <1>9. Serially(n)'
    <2>1. Turn(n)' /\ InOp(n)'
      BY <1>1, <1>3, <1>4 DEF Turn, InOp, k
    <2>2. InRange(n)'
      BY <1>4, <1>7 DEF InRange
    <2>3. Modified(n)'
      <3>1. \A p \in Page : p \in Int
        BY LoopBounds
      <3>2. QED BY <1>4, <1>7, <3>1 DEF Modified
    <2>4. BusyCopy(n)'
      <3>1. Copy(n, FirstPage(r))
        BY <1>6, <1>7
      <3>2. QED BY <1>4, <1>5, <3>1 DEF BusyCopy, Copy
    <2>5. QED
      BY <1>4, <2>1, <2>2, <2>3, <2>4
      DEF Serially, Fetching, Storing, Invalidating, Printing
  <1>10. \A p \in Page : Coherently(p)'
    BY <1>4, <1>6, PageStays
  <1>11. ConnInv'
    BY ConnNext DEF SerialInv
  <1>12. QED BY <1>1, <1>8, <1>9, <1>10, <1>11 DEF SerialInv

\* The next iteration, the listing after a write, or the prompt: the page just
\* done is in order, whoever has a copy of it.
LEMMA SerialNextPage ==
  ASSUME SerialInv, [Next]_vars, NEW n \in Node, NextPage(n),
         pc[n] \in {"ack", "print"},
         UNCHANGED <<msi, page, rpc, rpage, reply, alive>>,
         NEW k \in Node, k = Peer(n), NEW c \in Page, c = cur[n],
         Copy(n, c), op[n] = "write" => msi[n][c] = "m" /\ msi[k][c] = "i"
  PROVE  SerialInv'
  <1>1. /\ n # k /\ Peer(k) = n /\ \A m \in Node : m = n \/ m = k
        /\ alive[n] /\ alive[k] /\ pc[k] = "idle" /\ rpc[n] = "read"
        /\ op[k] = "none"
    BY ActiveFacts
  <1>2. UNCHANGED <<pc[k], op[k], request_page[k], cur[k]>>
    BY <1>1 DEF NextPage, Goto, SerialInv, ConnInv, TypeInv, TypeOK
  <1>3. \A p \in Page : Copy(n, p)
    BY DEF SerialInv, Coherently, Busy
  <1>4. \A p \in Page : Coherently(p)'
    <2> SUFFICES ASSUME NEW p \in Page PROVE Coherently(p)'
      OBVIOUS
    <2>1. CASE Writing(n, p)
      <3>1. p = c /\ op[n] = "write"
        BY <2>1 DEF Writing
      <3>2. Agree(p)'
        BY <1>1, <3>1 DEF Agree, Holds
      <3>3. Copy(n, p)' /\ Copy(k, p)'
        BY <1>3, ActiveFacts DEF Copy
      <3>4. QED BY <1>1, <3>2, <3>3 DEF Coherently
    <2>2. CASE ~Writing(n, p)
      <3>1. ~Writing(k, p) /\ ~Busy(k, p)
        BY <1>1 DEF Writing, Busy
      <3>2. QED BY <1>1, <1>3, <2>2, <3>1, PageStays
    <2>3. QED BY <2>1, <2>2
  <1>5. Serially(n)'
    <2> DEFINE r == request_page[n]
    <2>1. /\ r \in Page \cup {-1} /\ FirstPage(r) \in Page /\ LastPage(r) \in Page
          /\ FirstPage(r) \in Int /\ LastPage(r) \in Int /\ c \in Int
          /\ FirstPage(r) <= c /\ c <= LastPage(r) /\ FirstPage(r) <= LastPage(r)
          /\ \A p \in Page : p \in Int
      <3>1. r \in Page \cup {-1}
        BY DEF SerialInv, ConnInv, TypeInv, TypeOK
      <3>2. InRange(n)
        BY DEF SerialInv, Serially
      <3>3. QED BY <3>1, <3>2, LoopBounds DEF InRange
    <2>2. /\ op[n] = "write" => pc[n] = "ack" /\ buf[n] \in Message
          /\ op[n] \in {"read", "write", "show"}
          /\ Modified(n)
      BY DEF SerialInv, Serially, InOp
    <2> HIDE DEF r
    <2>3. CASE c < LastPage(r)
      <3>1. c + 1 \in Page
        BY <2>1, <2>3, PageRange
      <3>2. /\ cur'[n] = c + 1 /\ op'[n] = op[n] /\ request_page'[n] = r
            /\ buf'[n] = buf[n]
            /\ pc'[n] = IF op[n] = "write" THEN "copy" ELSE "touch"
        BY <2>1, <2>3 DEF NextPage, Goto, r, SerialInv, ConnInv, TypeInv, TypeOK
      <3>3. Turn(n)' /\ InOp(n)'
        BY <1>1, <1>2, <2>2, <3>2 DEF Turn, InOp
      <3>4. InRange(n)'
        BY <2>1, <2>3, <3>2 DEF InRange
      <3>5. Modified(n)'
        BY <2>1, <2>2, <3>2 DEF Modified, r
      <3>6. BusyCopy(n)'
        <4>1. Copy(n, c + 1)
          BY <1>3, <3>1
        <4>2. QED BY <1>1, <3>2, <4>1 DEF BusyCopy, Copy
      <3>7. QED
        BY <3>2, <3>3, <3>4, <3>5, <3>6
        DEF Serially, Fetching, Storing, Invalidating, Printing
    <2>4. CASE c = LastPage(r) /\ op[n] = "write"
      <3>1. /\ cur'[n] = FirstPage(r) /\ op'[n] = "show" /\ request_page'[n] = r
            /\ pc'[n] = "touch"
        BY <2>1, <2>4 DEF NextPage, Goto, r, SerialInv, ConnInv, TypeInv, TypeOK
      <3>2. Turn(n)' /\ InOp(n)'
        BY <1>1, <1>2, <3>1 DEF Turn, InOp
      <3>3. InRange(n)'
        BY <2>1, <3>1 DEF InRange
      <3>4. Modified(n)'
        <4> SUFFICES ASSUME NEW p \in Page, FirstPage(r) <= p, p <= LastPage(r)
                     PROVE  msi[n][p] = "m"
          BY <3>1 DEF Modified
        <4>1. CASE p = c
          BY <2>4, <4>1
        <4>2. CASE p # c
          <5>1. p < c
            BY <2>1, <2>4, <4>2
          <5>2. QED BY <2>2, <2>4, <5>1 DEF Modified, r
        <4>3. QED BY <4>1, <4>2
      <3>5. BusyCopy(n)'
        <4>1. Copy(n, FirstPage(r))
          BY <1>3, <2>1
        <4>2. QED BY <1>1, <3>1, <4>1 DEF BusyCopy, Copy
      <3>6. QED
        BY <3>1, <3>2, <3>3, <3>4, <3>5
        DEF Serially, Fetching, Storing, Invalidating, Printing
    <2>5. CASE c = LastPage(r) /\ op[n] # "write"
      <3>1. /\ cur'[n] = 0 /\ op'[n] = "none" /\ request_page'[n] = -1
            /\ pc'[n] = "idle"
        BY <2>1, <2>5 DEF NextPage, Goto, r, SerialInv, ConnInv, TypeInv, TypeOK
      <3>2. InRange(n)'
        BY <3>1, ConstantFacts DEF InRange, FirstPage, LastPage
      <3>3. QED
        BY <1>1, <3>1, <3>2
        DEF Serially, Turn, InOp, Modified, BusyCopy, Fetching, Storing,
            Invalidating, Printing
    <2>6. QED BY <2>1, <2>3, <2>4, <2>5
  <1>6. QED BY <1>2, <1>4, <1>5, Assemble

\* The acknowledgement arrives after the peer's copy became invalid.
LEMMA SerialReceiveAck ==
  ASSUME SerialInv, [Next]_vars, NEW n \in Node, ReceiveAck(n)
  PROVE  SerialInv'
  <1>1. PICK k \in Node : k = Peer(n)
    BY PeerFacts
  <1>2. PICK c \in Page : c = cur[n]
    BY DEF SerialInv, ConnInv, TypeInv, TypeOK
  <1>3. pc[n] = "ack"
    BY DEF ReceiveAck, Main
  <1>4. alive[k]
    BY <1>1, <1>3, ActiveFacts
  <1>5. /\ NextPage(n) /\ rsp[n] # <<>>
        /\ UNCHANGED <<msi, page, rpc, rpage, reply, alive>>
    BY <1>1, <1>4 DEF ReceiveAck, AtEof, responderVars
  <1>6. /\ msi[k][c] = "i" /\ msi[n][c] = "m" /\ page[n][c] = buf[n]
        /\ buf[n] \in Message
    BY <1>1, <1>2, <1>3, <1>5
    DEF SerialInv, Serially, Invalidating, BusyCopy, InOp
  <1>7. Copy(n, c)
    BY <1>6 DEF Copy
  <1>8. QED BY <1>1, <1>2, <1>3, <1>5, <1>6, <1>7, SerialNextPage

LEMMA SerialPrintPage ==
  ASSUME SerialInv, [Next]_vars, NEW n \in Node, PrintPage(n)
  PROVE  SerialInv'
  <1>1. PICK k \in Node : k = Peer(n)
    BY PeerFacts
  <1>2. PICK c \in Page : c = cur[n]
    BY DEF SerialInv, ConnInv, TypeInv, TypeOK
  <1>3. /\ pc[n] = "print" /\ NextPage(n)
        /\ UNCHANGED <<msi, page, rpc, rpage, reply, alive>>
    BY DEF PrintPage, Main, responderVars
  <1>4. Copy(n, c)
    BY <1>3 DEF SerialInv, Coherently, Busy
  <1>5. op[n] # "write"
    BY <1>3 DEF SerialInv, Serially, InOp
  <1>6. QED BY <1>1, <1>2, <1>3, <1>4, <1>5, SerialNextPage

----------------------------------------------------------------------------
(* The peer k's responder, which serves n's request. *)

\* A responder with something to do serves a main thread that waits for it, and
\* about the page that main thread works on.
LEMMA ServeFacts ==
  ASSUME SerialInv, NEW n \in Node, NEW k \in Node, k = Peer(n),
         rpc[k] # "read" \/ req[n] # <<>>
  PROVE  /\ pc[n] \in {"fetch", "ack"}
         /\ req[n] # <<>> => Head(req[n]).page = cur[n]
         /\ rpc[k] # "read" => rpage[k] = cur[n] /\ req[n] = <<>> /\ rsp[n] = <<>>
         /\ rpc[k] \in {"inval", "drop"} => pc[n] = "ack"
         /\ rpc[k] \in {"getResponse", "onRead", "format"} => pc[n] = "fetch"
         /\ pc[n] = "fetch" => msi[n][cur[n]] = "i"
  <1>1. alive[n] /\ alive[k]
    BY DEF SerialInv, Serially, Turn
  <1>2. Wire(n) /\ Match(n)
    BY <1>1 DEF SerialInv, ConnInv, WireInv, MatchInv
  <1>3. pc[n] \in {"fetch", "ack"}
    BY <1>1, <1>2 DEF Wire, Waiting
  <1>4. Fetching(n) /\ Invalidating(n)
    BY DEF SerialInv, Serially
  <1>5. QED BY <1>1, <1>2, <1>3, <1>4 DEF Wire, Match, Fetching, Invalidating

\* A responder step leaves every main thread, n's copies and the other pages
\* alone.
LEMMA ServeFrame ==
  ASSUME SerialInv, [Next]_vars, NEW n \in Node, NEW k \in Node, k = Peer(n),
         ResponderStep(k), rpc[k] # "read" \/ req[n] # <<>>,
         NEW c \in Page, c = cur[n],
         UNCHANGED <<pc, op, request_page, cur, buf, page_output, alive>>,
         UNCHANGED <<msi[n], page[n], rpc[n], rpage[n]>>,
         \A p \in Page : p # c => msi'[k][p] = msi[k][p] /\ page'[k][p] = page[k][p],
         Fetching(n)', Invalidating(n)', Copy(k, c)',
         Writing(n, c) \/ ~Holds(n, c)
  PROVE  SerialInv'
  <1>1. pc[n] \in {"fetch", "ack"}
    BY ServeFacts
  <1>2. pc[k] = "idle" /\ n # k /\ Peer(k) = n /\ \A m \in Node : m = n \/ m = k
    BY <1>1, ActiveFacts
  <1>3. Serially(n)'
    BY <1>1, <1>2
    DEF SerialInv, Serially, Turn, InOp, InRange, Modified, BusyCopy, Storing,
        Printing
  <1>4. Coherently(c)'
    <2>1. Busy(n, c)'
      BY <1>1 DEF Busy
    <2>2. Agree(c)'
      BY <1>2 DEF Agree, Holds, Writing
    <2>3. QED BY <1>2, <2>1, <2>2 DEF Coherently
  <1>5. ASSUME NEW p \in Page, p # c PROVE Coherently(p)'
    <2>1. \A m \in Node : /\ Busy(m, p) => Busy(m, p)'
                          /\ Writing(m, p) => Writing(m, p)'
      BY DEF Busy, Writing
    <2>2. rpc[k] # "drop" \/ rpage[k] # p
      BY <1>5, ServeFacts
    <2>3. QED BY <1>2, <1>5, <2>1, <2>2, PageStays
  <1>6. QED BY <1>1, <1>3, <1>4, <1>5, Assemble

\* What is known about the page n waits for: n writes it or has no copy.
LEMMA WaitFacts ==
  ASSUME SerialInv, NEW n \in Node, pc[n] \in {"fetch", "ack"},
         NEW c \in Page, c = cur[n]
  PROVE  /\ Writing(n, c) \/ ~Holds(n, c)
         /\ pc[n] = "ack" => Writing(n, c)
         /\ pc[n] = "fetch" => ~Holds(n, c)
  BY DEF SerialInv, Serially, InOp, Fetching, Writing, Holds

LEMMA SerialReadRequest ==
  ASSUME SerialInv, [Next]_vars, NEW n \in Node, NEW k \in Node, k = Peer(n),
         ReadRequest(k)
  PROVE  SerialInv'
  <1>1. PICK c \in Page : c = cur[n]
    BY DEF SerialInv, ConnInv, TypeInv, TypeOK
  <1>2. n # k /\ Peer(k) = n
    BY PeerFacts
  <1>3. /\ rpc[k] = "read" /\ req[n] # <<>>
        /\ UNCHANGED <<pc, op, request_page, cur, buf, page_output, alive>>
        /\ UNCHANGED <<msi, page, rsp, reply, rpc[n], rpage[n]>>
        /\ rpage'[k] = Head(req[n]).page
        /\ rpc'[k] \in {"inval", "getResponse"}
        /\ req'[n] = Tail(req[n])
    BY <1>2 DEF ReadRequest, Resp, RGoto, mainVars, SerialInv, ConnInv, TypeInv,
       TypeOK
  <1>4. /\ pc[n] \in {"fetch", "ack"} /\ Head(req[n]).page = c
        /\ Wire(n)
    BY <1>1, <1>3, ServeFacts DEF SerialInv, ConnInv, WireInv
  <1>5. req'[n] = <<>> /\ rsp[n] = <<>>
    <2>1. PICK r \in Request : req[n] = <<r>>
      BY <1>3, <1>4 DEF Wire
    <2>2. Tail(<<r>>) = <<>>
      OBVIOUS
    <2>3. QED BY <1>3, <1>4, <2>1, <2>2 DEF Wire
  <1>6. Copy(k, c)'
    <2>1. Copy(k, c)
      BY <1>4, ActiveFacts
    <2>2. QED BY <1>3, <2>1 DEF Copy
  <1>7. Fetching(n)' /\ Invalidating(n)'
    BY <1>1, <1>3, <1>4, <1>5 DEF Fetching, Invalidating, SerialInv, Serially
  <1>8. QED
    BY <1>1, <1>3, <1>4, <1>6, <1>7, WaitFacts, ServeFrame DEF ResponderStep

\* The responder invalidates its copy and drops the page.
LEMMA SerialInvalidate ==
  ASSUME SerialInv, [Next]_vars, NEW n \in Node, NEW k \in Node, k = Peer(n),
         Invalidate(k) \/ MadviseDontNeed(k)
  PROVE  SerialInv'
  <1>1. PICK c \in Page : c = cur[n]
    BY DEF SerialInv, ConnInv, TypeInv, TypeOK
  <1>2. n # k /\ Peer(k) = n
    BY PeerFacts
  <1>3. /\ rpc[k] \in {"inval", "drop"}
        /\ UNCHANGED <<pc, op, request_page, cur, buf, page_output, alive>>
        /\ UNCHANGED <<req, rsp, rpage>>
    BY DEF Invalidate, MadviseDontNeed, Resp, mainVars
  <1>4. /\ pc[n] = "ack" /\ rpage[k] = c /\ req[n] = <<>> /\ rsp[n] = <<>>
    BY <1>1, <1>3, ServeFacts
  <1>5. /\ UNCHANGED <<msi[n], page[n], rpc[n]>>
        /\ \A p \in Page : p # c => msi'[k][p] = msi[k][p] /\ page'[k][p] = page[k][p]
        /\ \/ msi'[k][c] = "i" /\ rpc'[k] = "drop"
           \/ rpc[k] = "drop" /\ UNCHANGED msi /\ page'[k][c] = Absent /\ rpc'[k] = "send"
    BY <1>2, <1>4 DEF Invalidate, MadviseDontNeed, StateOnInvalidate, DropPage,
       Resp, RGoto, SerialInv, ConnInv, TypeInv, TypeOK
  <1>6. msi'[k][c] = "i"
    BY <1>1, <1>4, <1>5 DEF SerialInv, Serially, Invalidating
  <1>7. Copy(k, c)'
    BY <1>3, <1>4, <1>5, <1>6 DEF Copy
  <1>8. Fetching(n)' /\ Invalidating(n)'
    BY <1>1, <1>3, <1>4, <1>6 DEF Fetching, Invalidating
  <1>9. QED
    BY <1>1, <1>3, <1>4, <1>5, <1>7, <1>8, WaitFacts, ServeFrame DEF ResponderStep

\* getResponse and transitionStateOnRead: an owner becomes a sharer before its
\* page is read.
LEMMA SerialGetResponse ==
  ASSUME SerialInv, [Next]_vars, NEW n \in Node, NEW k \in Node, k = Peer(n),
         GetResponse(k) \/ TransitionStateOnRead(k)
  PROVE  SerialInv'
  <1>1. PICK c \in Page : c = cur[n]
    BY DEF SerialInv, ConnInv, TypeInv, TypeOK
  <1>2. n # k /\ Peer(k) = n
    BY PeerFacts
  <1>3. /\ rpc[k] \in {"getResponse", "onRead"}
        /\ UNCHANGED <<pc, op, request_page, cur, buf, page_output, alive>>
        /\ UNCHANGED <<page, req, rsp, rpage>>
    BY DEF GetResponse, TransitionStateOnRead, Resp, mainVars
  <1>4. /\ pc[n] = "fetch" /\ rpage[k] = c /\ req[n] = <<>> /\ rsp[n] = <<>>
        /\ msi[n][c] = "i"
    BY <1>1, <1>3, ServeFacts
  <1>5. /\ UNCHANGED <<msi[n], rpc[n]>>
        /\ \A p \in Page : p # c => msi'[k][p] = msi[k][p]
        /\ msi'[k][c] = IF msi[k][c] = "m" THEN "s" ELSE msi[k][c]
        /\ \/ /\ rpc'[k] = "onRead"
              /\ reply'[k] = IF msi[k][c] = "i" THEN NullText ELSE PagePtr
           \/ rpc[k] = "onRead" /\ rpc'[k] = "format" /\ UNCHANGED reply
    BY <1>2, <1>4 DEF GetResponse, TransitionStateOnRead, StateAfterResponse,
       Response, StateOnRead, Resp, RGoto, SerialInv, ConnInv, TypeInv, TypeOK
  <1>6. Copy(k, c)'
    <2>1. Copy(k, c)
      BY <1>4, ActiveFacts
    <2>2. QED BY <1>3, <1>5, <2>1 DEF Copy
  <1>7. Fetching(n)' /\ Invalidating(n)'
    BY <1>1, <1>3, <1>4, <1>5 DEF Fetching, Invalidating, SerialInv, Serially
  <1>8. QED
    BY <1>1, <1>3, <1>4, <1>5, <1>6, <1>7, WaitFacts, ServeFrame DEF ResponderStep

\* snprintf reads the page that getResponse chose.
LEMMA SerialFormatReply ==
  ASSUME SerialInv, [Next]_vars, NEW n \in Node, NEW k \in Node, k = Peer(n),
         FormatReply(k)
  PROVE  SerialInv'
  <1>1. PICK c \in Page : c = cur[n]
    BY DEF SerialInv, ConnInv, TypeInv, TypeOK
  <1>2. n # k /\ Peer(k) = n
    BY PeerFacts
  <1>3. /\ rpc[k] = "format"
        /\ UNCHANGED <<pc, op, request_page, cur, buf, page_output, alive>>
        /\ UNCHANGED <<msi, page, req, rsp, rpage, rpc[n]>>
        /\ rpc'[k] = "send"
        /\ IF reply[k] = PagePtr THEN reply'[k] = page[k][rpage[k]]
           ELSE reply'[k] = reply[k]
    BY <1>2 DEF FormatReply, Resp, RGoto, mainVars, SerialInv, ConnInv, TypeInv,
       TypeOK
  <1>4. /\ pc[n] = "fetch" /\ rpage[k] = c /\ req[n] = <<>> /\ rsp[n] = <<>>
        /\ msi[n][c] = "i"
    BY <1>1, <1>3, ServeFacts
  <1>5. /\ msi[k][c] # "m"
        /\ reply[k] = IF msi[k][c] = "i" THEN NullText ELSE PagePtr
        /\ msi[k][c] \in {"m", "s", "i"}
    BY <1>1, <1>3, <1>4 DEF SerialInv, Serially, Fetching, ConnInv, TypeInv, TypeOK
  <1>6. Answer(n, c, reply[k])'
    BY <1>3, <1>4, <1>5, TextFacts DEF Answer
  <1>7. Copy(k, c)'
    <2>1. Copy(k, c)
      BY <1>4, ActiveFacts
    <2>2. QED BY <1>3, <2>1 DEF Copy
  <1>8. Fetching(n)' /\ Invalidating(n)'
    BY <1>1, <1>3, <1>4, <1>6 DEF Fetching, Invalidating
  <1>9. QED
    BY <1>1, <1>3, <1>4, <1>7, <1>8, WaitFacts, ServeFrame DEF ResponderStep

\* The answer is never empty, so it reaches the wire as one message.
LEMMA SerialSendReply ==
  ASSUME SerialInv, [Next]_vars, NEW n \in Node, NEW k \in Node, k = Peer(n),
         SendReply(k)
  PROVE  SerialInv'
  <1>1. PICK c \in Page : c = cur[n]
    BY DEF SerialInv, ConnInv, TypeInv, TypeOK
  <1>2. n # k /\ Peer(k) = n /\ alive[n]
    BY PeerFacts DEF SerialInv, Serially, Turn
  <1>3. /\ rpc[k] = "send"
        /\ UNCHANGED <<pc, op, request_page, cur, buf, page_output, alive>>
        /\ UNCHANGED <<msi, page, req, rpage[n], rpc[n]>>
        /\ rpc'[k] = "read"
        /\ rsp'[n] = rsp[n] \o Bytes(reply[k])
    BY <1>2 DEF SendReply, Resp, RGoto, mainVars, SerialInv, ConnInv, TypeInv,
       TypeOK
  <1>4. /\ pc[n] \in {"fetch", "ack"} /\ rpage[k] = c
        /\ req[n] = <<>> /\ rsp[n] = <<>>
        /\ pc[n] = "fetch" => msi[n][c] = "i"
    BY <1>1, <1>3, ServeFacts
  <1>5. Copy(k, c)
    BY <1>4, ActiveFacts
  <1>6. Copy(k, c)'
    BY <1>3, <1>5 DEF Copy
  <1>7. pc[n] = "ack" => msi[k][c] = "i"
    BY <1>1, <1>3 DEF SerialInv, Serially, Invalidating
  <1>8. pc[n] = "fetch" => Answer(n, c, reply[k]) /\ Head(rsp'[n]) = reply[k]
    <2> SUFFICES ASSUME pc[n] = "fetch"
                 PROVE  Answer(n, c, reply[k]) /\ Head(rsp'[n]) = reply[k]
      OBVIOUS
    <2>1. Answer(n, c, reply[k])
      BY <1>1, <1>3 DEF SerialInv, Serially, Fetching
    <2>2. reply[k] # Empty
      BY <1>5, <2>1, TextFacts DEF Answer, Copy
    <2>3. rsp'[n] = <<>> \o <<reply[k]>>
      BY <1>3, <1>4, <2>2 DEF Bytes
    <2>4. QED BY <2>1, <2>3
  <1>9. Fetching(n)' /\ Invalidating(n)'
    <2>1. pc[n] = "fetch" => Answer(n, c, Head(rsp[n]))'
      BY <1>3, <1>8 DEF Answer
    <2>2. QED BY <1>1, <1>3, <1>4, <1>7, <2>1 DEF Fetching, Invalidating
  <1>10. QED
    BY <1>1, <1>3, <1>4, <1>6, <1>9, WaitFacts, ServeFrame DEF ResponderStep

----------------------------------------------------------------------------
(* The fault handler, and the whole next-state relation. *)

\* Only the main thread faults, on an invalid page it works on: the responder
\* reads a page only when it holds a message.
LEMMA SerialFault ==
  ASSUME SerialInv, [Next]_vars, NEW n \in Node, NEW p \in Page, HandleFault(n, p)
  PROVE  SerialInv'
  <1>1. PICK k \in Node : k = Peer(n)
    BY PeerFacts
  <1>2. n # k /\ Peer(k) = n
    BY <1>1, PeerFacts
  <1>3. /\ UNCHANGED <<msi, pc, op, request_page, cur, buf, page_output, rpc,
                       rpage, reply, req, rsp, alive>>
        /\ page' = [page EXCEPT ![n][p] = Empty]
        /\ page[n][p] = Absent
    BY DEF HandleFault, Faulting, mainVars, responderVars
  <1>4. ~(rpc[n] = "format" /\ reply[n] = PagePtr /\ rpage[n] = p)
    <2> SUFFICES ASSUME rpc[n] = "format", reply[n] = PagePtr, rpage[n] = p
                 PROVE  FALSE
      OBVIOUS
    <2>1. pc[k] = "fetch" /\ cur[k] = p
      BY <1>2, ServeFacts
    <2>2. msi[n][p] # "i"
      BY <1>2, <2>1, TextFacts DEF SerialInv, Serially, Fetching
    <2>3. Copy(n, p)
      BY <1>2, <2>1, ActiveFacts
    <2>4. QED BY <1>3, <2>2, <2>3, TextFacts DEF Copy
  <1>5. pc[n] \in {"touch", "copy", "copyRest"} /\ cur[n] = p
    BY <1>4 DEF HandleFault, Faulting
  <1>6. pc[n] \in {"touch", "copy"} /\ msi[n][p] = "i"
    BY <1>3, <1>5, TextFacts DEF SerialInv, Serially, BusyCopy
  <1>7. /\ page'[n][p] = Empty /\ page'[k] = page[k]
        /\ \A q \in Page : q # p => page'[n][q] = page[n][q]
    BY <1>2, <1>3 DEF SerialInv, ConnInv, TypeInv, TypeOK
  <1>8. /\ pc[k] = "idle" /\ Copy(k, p) /\ \A m \in Node : m = n \/ m = k
    BY <1>1, <1>6, ActiveFacts
  <1>9. Serially(n)'
    BY <1>1, <1>3, <1>5, <1>6, <1>7, <1>8
    DEF SerialInv, Serially, Turn, InOp, InRange, Modified, BusyCopy, Fetching,
        Storing, Invalidating, Printing
  <1>10. Coherently(p)'
    <2>1. Busy(n, p)' /\ Copy(k, p)'
      BY <1>3, <1>5, <1>6, <1>7, <1>8 DEF Busy, Copy
    <2>2. Agree(p)'
      BY <1>2, <1>3, <1>6, <1>8 DEF Agree, Holds
    <2>3. QED BY <1>8, <2>1, <2>2 DEF Coherently
  <1>11. ASSUME NEW q \in Page, q # p PROVE Coherently(q)'
    <2>1. \A m \in Node : /\ Busy(m, q) => Busy(m, q)'
                          /\ Writing(m, q) => Writing(m, q)'
      BY <1>3 DEF Busy, Writing
    <2>2. QED BY <1>3, <1>7, <1>8, <1>11, <2>1, PageStays
  <1>12. QED BY <1>1, <1>3, <1>6, <1>9, <1>10, <1>11, Assemble

\* Nobody exits, so nobody sees end of file or a lost peer.
LEMMA NobodyExits ==
  ASSUME TakeTurns, SerialInv, NEW n \in Node
  PROVE  ~Exit(n) /\ ~PeerLost(n) /\ ~ReceiveEof(n)
  <1>1. alive[Peer(n)]
    BY PeerFacts DEF SerialInv, Serially, Turn
  <1>2. QED BY <1>1 DEF TakeTurns, Exit, PeerLost, ReceiveEof, AtEof

LEMMA SerialStutter ==
  ASSUME SerialInv, UNCHANGED vars
  PROVE  SerialInv'
  <1> USE DEF vars, mainVars, responderVars
  <1>1. ConnInv'
    BY ConnNext DEF SerialInv
  <1>2. ASSUME NEW n \in Node PROVE Serially(n)'
    BY DEF SerialInv, Serially, Turn, InOp, InRange, Modified, BusyCopy,
       Fetching, Answer, Storing, Invalidating, Printing, Holds
  <1>3. ASSUME NEW p \in Page PROVE Coherently(p)'
    BY DEF SerialInv, Coherently, Agree, Busy, Copy, Writing, Holds
  <1>4. QED BY <1>1, <1>2, <1>3 DEF SerialInv

LEMMA SerialNext ==
  ASSUME TakeTurns, SerialInv, [Next]_vars
  PROVE  SerialInv'
  <1>1. ASSUME NEW n \in Node, MainStep(n) PROVE SerialInv'
    BY <1>1, SerialTouch, SerialStatusValid, SerialStatusInvalid, SerialFetch,
       SerialReceivePage, SerialReceiveNull, SerialCopy, SerialMarkShared,
       SerialMarkModified, SerialSendInvalidate, SerialReceiveAck,
       SerialPrintPage, NobodyExits
    DEF MainStep
  <1>2. ASSUME NEW k \in Node, ResponderStep(k) PROVE SerialInv'
    <2>1. PICK n \in Node : k = Peer(n)
      BY PeerFacts
    <2>2. QED
      BY <1>2, <2>1, SerialReadRequest, SerialInvalidate, SerialGetResponse,
         SerialFormatReply, SerialSendReply
      DEF ResponderStep
  <1>3. ASSUME NEW n \in Node, FaultStep(n) PROVE SerialInv'
    BY <1>3, SerialFault DEF FaultStep
  <1>4. QED
    BY <1>1, <1>2, <1>3, SerialCommand, SerialStutter, NobodyExits DEF Next

LEMMA SerialInvariant ==
  ASSUME TakeTurns
  PROVE  Spec => []SerialInv
  <1>1. SerialInv /\ [Next]_vars => SerialInv'
    BY SerialNext
  <1>2. QED BY <1>1, SerialInit, PTL DEF Spec

\* Between commands, MSI's rules hold for every page: one owner or sharers with
\* the same text, and unmapped where invalid.
THEOREM CoherentHolds ==
  ASSUME TakeTurns
  PROVE  Spec => []Coherent
  <1>1. SerialInv => Coherent
    <2> SUFFICES ASSUME SerialInv, \A n \in Node : Quiet(n),
                        NEW n \in Node, NEW p \in Page
                 PROVE  /\ msi[n][p] = "m" => msi[Peer(n)][p] = "i"
                        /\ msi[n][p] # "i" => page[n][p] \in Message
                        /\ msi[n][p] = "s" /\ msi[Peer(n)][p] = "s" =>
                             page[n][p] = page[Peer(n)][p]
                        /\ msi[n][p] = "i" => page[n][p] = Absent
      BY DEF Coherent
    <2>1. Peer(n) \in Node /\ Peer(Peer(n)) = n
      BY PeerFacts
    <2>2. \A m \in Node : ~Busy(m, p) /\ ~Writing(m, p)
      BY DEF Quiet, Busy, Writing
    <2>3. Copy(n, p) /\ Agree(p)
      BY <2>2 DEF SerialInv, Coherently
    <2>4. rpc[n] = "read"
      BY <2>1 DEF SerialInv, ConnInv, WireInv, Wire, Waiting, Quiet
    <2>5. QED BY <2>2, <2>3, <2>4 DEF Copy, Agree, Holds
  <1>2. QED BY <1>1, SerialInvariant, PTL

\* "NULL" is believed only when it is true: a read that shows nothing found no
\* copy anywhere.
THEOREM NullShownHolds ==
  ASSUME TakeTurns
  PROVE  Spec => []NullShownOnlyIfBothInvalid
  <1>1. SerialInv => NullShownOnlyIfBothInvalid
    BY DEF SerialInv, Serially, Printing, Holds, NullShownOnlyIfBothInvalid
  <1>2. QED BY <1>1, SerialInvariant, PTL

----------------------------------------------------------------------------
(* The refinement of SharedMemory. *)

\* What the mapping's CHOOSE finds: there is one writer, and all who hold the
\* page have the same text.
MemoryIs(p) ==
  /\ \A n \in Node : Writing(n, p) => MemoryOf(p) = buf[n]
  /\ (\A m \in Node : ~Writing(m, p)) =>
       /\ \A n \in Node : Holds(n, p) => MemoryOf(p) = page[n][p]
       /\ (\A n \in Node : ~Holds(n, p)) => MemoryOf(p) = Empty

LEMMA MemoryFacts == SerialInv => \A p \in Page : MemoryIs(p)
  <1> SUFFICES ASSUME SerialInv, NEW p \in Page PROVE MemoryIs(p)
    OBVIOUS
  <1>1. ASSUME NEW n \in Node, Writing(n, p) PROVE MemoryOf(p) = buf[n]
    <2> DEFINE w == CHOOSE m \in Node : Writing(m, p)
    <2>1. w \in Node /\ Writing(w, p)
      BY <1>1
    <2> HIDE DEF w
    <2>2. w = n
      <3>1. pc[w] # "idle" /\ pc[n] # "idle"
        BY <1>1, <2>1 DEF Writing
      <3>2. Peer(n) # w
        BY <2>1, <3>1 DEF SerialInv, Serially, Turn
      <3>3. QED BY <2>1, <3>2 DEF Node, Peer
    <2>3. MemoryOf(p) = buf[w]
      BY <1>1 DEF MemoryOf, w
    <2>4. QED BY <2>2, <2>3
  <1>2. ASSUME \A m \in Node : ~Writing(m, p), NEW n \in Node, Holds(n, p)
        PROVE  MemoryOf(p) = page[n][p]
    <2> DEFINE h == CHOOSE m \in Node : Holds(m, p)
    <2>1. h \in Node /\ Holds(h, p)
      BY <1>2
    <2>2. MemoryOf(p) = page[h][p]
      BY <1>2 DEF MemoryOf
    <2> HIDE DEF h
    <2>3. CASE h = n
      BY <2>2, <2>3
    <2>4. CASE h = Peer(n)
      BY <1>2, <2>1, <2>2, <2>4 DEF SerialInv, Coherently, Agree
    <2>5. QED BY <2>1, <2>3, <2>4 DEF Node, Peer
  <1>3. (\A m \in Node : ~Writing(m, p)) /\ (\A n \in Node : ~Holds(n, p))
          => MemoryOf(p) = Empty
    BY DEF MemoryOf
  <1>4. QED BY <1>1, <1>2, <1>3 DEF MemoryIs

LEMMA MemoryFactsNext == SerialInv' => \A p \in Page : MemoryIs(p)'
  <1>1. (SerialInv => \A p \in Page : MemoryIs(p))'
    BY MemoryFacts, PTL
  <1>2. QED BY <1>1

LEMMA RefinementInit == Init => Memory!SMInit
  <1> SUFFICES ASSUME Init PROVE Memory!SMInit
    OBVIOUS
  <1>1. ASSUME NEW p \in Page PROVE MemoryOf(p) = Empty
    BY DEF Init, MemoryOf, Writing, Holds
  <1>2. ASSUME NEW n \in Node PROVE ShownBy(n) = <<>>
    BY DEF Init, ShownBy
  <1>3. QED BY <1>1, <1>2 DEF Memory!SMInit, Memory!Nothing

\* The abstract steps, from what happens to each page and each process.
LEMMA AbstractSteps ==
  ASSUME NEW n \in Node, NEW c \in Page,
         \A m \in Node \ {n} : ShownBy(m)' = ShownBy(m),
         \A p \in Page \ {c} : MemoryOf(p)' = MemoryOf(p)
  PROVE  /\ MemoryOf(c)' = MemoryOf(c) /\ ShownBy(n)' = ShownBy(n) =>
              UNCHANGED Memory!smvars
         /\ \A v \in Message : MemoryOf(c)' = v /\ ShownBy(n)' = ShownBy(n) =>
              Memory!SMWrite(c, v)
         /\ /\ MemoryOf(c)' = MemoryOf(c) /\ ShownBy(n) = <<>>
            /\ ShownBy(n)' = <<c, MemoryOf(c)>>
            => Memory!Show(n, c)
         /\ MemoryOf(c)' = MemoryOf(c) /\ ShownBy(n) # <<>> /\ ShownBy(n)' = <<>> =>
              Memory!Printed(n)
  BY DEF Memory!smvars, Memory!SMWrite, Memory!Show, Memory!Printed, Memory!Nothing

\* The memory stays when the writers stay and, without a writer, those who hold
\* the page and their texts stay.
LEMMA MemoryStays ==
  ASSUME SerialInv, SerialInv', NEW p \in Page,
         \A m \in Node : /\ Writing(m, p)' <=> Writing(m, p)
                         /\ Writing(m, p) => buf'[m] = buf[m],
         (\A m \in Node : ~Writing(m, p)) =>
           \A m \in Node : /\ Holds(m, p)' <=> Holds(m, p)
                           /\ Holds(m, p) => page'[m][p] = page[m][p]
  PROVE  MemoryOf(p)' = MemoryOf(p)
  <1>1. MemoryIs(p) /\ MemoryIs(p)'
    BY MemoryFacts, MemoryFactsNext
  <1>2. CASE \E m \in Node : Writing(m, p)
    BY <1>1, <1>2 DEF MemoryIs
  <1>3. CASE (\A m \in Node : ~Writing(m, p)) /\ \E m \in Node : Holds(m, p)
    BY <1>1, <1>3 DEF MemoryIs
  <1>4. CASE (\A m \in Node : ~Writing(m, p)) /\ \A m \in Node : ~Holds(m, p)
    BY <1>1, <1>4 DEF MemoryIs
  <1>5. QED BY <1>2, <1>3, <1>4

\* Steps of the users, the responders and the fault handler are invisible.
LEMMA InvisibleSteps ==
  ASSUME TakeTurns, SerialInv, SerialInv', NEW n \in Node,
         Command(n) \/ ResponderStep(n) \/ FaultStep(n)
  PROVE  UNCHANGED Memory!smvars
  <1>1. \A m \in Node : ShownBy(m)' = ShownBy(m)
    <2>1. CASE Command(n)
      <3>1. pc[n] # "print" /\ pc'[n] # "print" /\ \A m \in Node \ {n} : pc'[m] = pc[m]
        BY <2>1 DEF Command, ReadCommand, WriteCommand, MayStart, Main, Goto,
           SerialInv, ConnInv, TypeInv, TypeOK
      <3>2. \A m \in Node \ {n} : cur'[m] = cur[m] /\ page_output'[m] = page_output[m]
        BY <2>1 DEF Command, ReadCommand, WriteCommand, SerialInv, ConnInv,
           TypeInv, TypeOK
      <3>3. QED BY <3>1, <3>2 DEF ShownBy
    <2>2. CASE ResponderStep(n)
      BY <2>2 DEF ResponderStep, ReadRequest, Invalidate, MadviseDontNeed,
         GetResponse, TransitionStateOnRead, FormatReply, SendReply, mainVars,
         ShownBy
    <2>3. CASE FaultStep(n)
      BY <2>3 DEF FaultStep, HandleFault, mainVars, ShownBy
    <2>4. QED BY <2>1, <2>2, <2>3
  <1>2. ASSUME NEW p \in Page PROVE MemoryOf(p)' = MemoryOf(p)
    <2>1. CASE Command(n)
      <3>1. pc[n] = "idle" /\ pc'[n] \in {"touch", "copy"} /\ UNCHANGED <<msi, page>>
        BY <2>1 DEF Command, ReadCommand, WriteCommand, MayStart, Main, Goto,
           SerialInv, ConnInv, TypeInv, TypeOK
      <3>2. \A m \in Node \ {n} : /\ pc'[m] = pc[m] /\ op'[m] = op[m]
                                  /\ cur'[m] = cur[m] /\ buf'[m] = buf[m]
        BY <2>1 DEF Command, ReadCommand, WriteCommand, Goto, SerialInv, ConnInv,
           TypeInv, TypeOK
      <3>3. QED BY <3>1, <3>2, MemoryStays DEF Writing, Holds
    <2>2. CASE ResponderStep(n)
      <3>1. PICK u \in Node : n = Peer(u)
        BY PeerFacts
      <3>2. UNCHANGED <<pc, op, cur, buf>>
        BY <2>2 DEF ResponderStep, ReadRequest, Invalidate, MadviseDontNeed,
           GetResponse, TransitionStateOnRead, FormatReply, SendReply, mainVars
      <3>3. CASE Invalidate(n) \/ MadviseDontNeed(n)
        <4>1. rpc[n] \in {"inval", "drop"}
          BY <3>3 DEF Invalidate, MadviseDontNeed, Resp
        <4>2. pc[u] = "ack" /\ rpage[n] = cur[u]
          BY <3>1, <4>1, ServeFacts
        <4>3. op[u] = "write"
          BY <4>2 DEF SerialInv, Serially, InOp
        <4>4. rpage[n] = p => Writing(u, p)
          BY <4>2, <4>3 DEF Writing
        <4>5. rpage[n] # p => \A m \in Node : /\ msi'[m][p] = msi[m][p]
                                              /\ page'[m][p] = page[m][p]
          <5>1. CASE Invalidate(n)
            BY <5>1 DEF Invalidate, SerialInv, ConnInv, TypeInv, TypeOK
          <5>2. CASE MadviseDontNeed(n)
            BY <5>2 DEF MadviseDontNeed, SerialInv, ConnInv, TypeInv, TypeOK
          <5>3. QED BY <3>3, <5>1, <5>2
        <4>6. QED BY <3>2, <4>4, <4>5, MemoryStays DEF Writing, Holds
      <3>4. CASE ~Invalidate(n) /\ ~MadviseDontNeed(n)
        <4>1. page' = page
          BY <2>2, <3>4 DEF ResponderStep, ReadRequest, GetResponse,
             TransitionStateOnRead, FormatReply, SendReply
        <4>2. \A m \in Node : Holds(m, p)' <=> Holds(m, p)
          <5>1. CASE GetResponse(n)
            BY <5>1 DEF GetResponse, StateAfterResponse, Holds, SerialInv, ConnInv,
               TypeInv, TypeOK
          <5>2. CASE TransitionStateOnRead(n)
            BY <5>2 DEF TransitionStateOnRead, StateOnRead, Holds, SerialInv,
               ConnInv, TypeInv, TypeOK
          <5>3. CASE ~GetResponse(n) /\ ~TransitionStateOnRead(n)
            BY <2>2, <3>4, <5>3 DEF ResponderStep, ReadRequest, FormatReply,
               SendReply, Holds
          <5>4. QED BY <5>1, <5>2, <5>3
        <4>3. QED BY <3>2, <4>1, <4>2, MemoryStays DEF Writing
      <3>5. QED BY <3>3, <3>4
    <2>3. CASE FaultStep(n)
      <3>1. PICK q \in Page : HandleFault(n, q)
        BY <2>3 DEF FaultStep
      <3>2. UNCHANGED <<pc, op, cur, buf, msi>>
        BY <3>1 DEF HandleFault, mainVars
      <3>3. /\ page[n][q] = Absent
            /\ \A m \in Node : m # n \/ p # q => page'[m][p] = page[m][p]
        BY <3>1 DEF HandleFault, Faulting, SerialInv, ConnInv, TypeInv, TypeOK
      <3>4. Holds(n, q) => Busy(n, q)
        BY <3>3, TextFacts DEF Holds, SerialInv, Coherently, Copy
      <3>5. Holds(n, q) => Writing(n, q)
        <4>1. SUFFICES ASSUME Holds(n, q), Busy(n, q) PROVE Writing(n, q)
          BY <3>4
        <4>2. cur[n] = q /\ pc[n] \notin {"touch", "status", "fetch", "copy"}
          BY <3>3, <4>1, TextFacts DEF Busy, Holds, SerialInv, Serially, BusyCopy
        <4>3. pc[n] \in {"copyRest", "mark", "send", "ack"}
          BY <4>1, <4>2 DEF Busy, SerialInv, ConnInv, TypeInv, TypeOK
        <4>4. op[n] = "write"
          BY <4>1, <4>2, <4>3 DEF Holds, SerialInv, Serially, InOp, Storing
        <4>5. QED BY <4>2, <4>3, <4>4 DEF Writing
      <3>6. QED BY <3>2, <3>3, <3>5, MemoryStays DEF Writing, Holds
    <2>4. QED BY <2>1, <2>2, <2>3
  <1>3. 0 \in Page
    BY ConstantFacts
  <1>4. QED BY <1>1, <1>2, <1>3, AbstractSteps

\* A copy loop's first store is the write; its other stores, and those of a
\* page that was fetched, are invisible.
LEMMA CopySteps ==
  ASSUME SerialInv, SerialInv', NEW n \in Node, CopyFirst(n) \/ CopyRest(n)
  PROVE  [Memory!SMNext]_Memory!smvars
  <1>1. PICK k \in Node : k = Peer(n)
    BY PeerFacts
  <1>2. PICK c \in Page : c = cur[n]
    BY DEF SerialInv, ConnInv, TypeInv, TypeOK
  <1>3. /\ pc[n] \in {"copy", "copyRest"} /\ pc'[n] \in {"copyRest", "mark"}
        /\ pc[n] = "copyRest" \/ CopyFirst(n)
        /\ UNCHANGED <<op, cur, buf, msi, page_output>>
        /\ \A m \in Node \ {n} : pc'[m] = pc[m]
        /\ \A m \in Node, p \in Page : m # n \/ p # c => page'[m][p] = page[m][p]
    BY <1>2 DEF CopyFirst, CopyRest, Main, Goto, SerialInv, ConnInv, TypeInv, TypeOK
  <1>4. buf[n] \in Message /\ (op[n] = "write" \/ (op[n] = "read" /\ msi[n][c] = "i"))
    BY <1>1, <1>2, <1>3, CopyFacts
  <1>5. \A m \in Node : ShownBy(m)' = ShownBy(m)
    BY <1>3 DEF ShownBy
  <1>6. \A p \in Page \ {c} : MemoryOf(p)' = MemoryOf(p)
    BY <1>2, <1>3, MemoryStays DEF Writing, Holds
  <1>7. CASE op[n] = "write"
    <2>1. Writing(n, c)'
      BY <1>2, <1>3, <1>7 DEF Writing
    <2>2. MemoryOf(c)' = buf[n]
      BY <1>3, <2>1, MemoryFactsNext DEF MemoryIs
    <2>3. Memory!SMWrite(c, buf[n])
      BY <1>4, <1>5, <1>6, <2>2, AbstractSteps
    <2>4. QED BY <1>4, <2>3 DEF Memory!SMNext
  <1>8. CASE op[n] = "read" /\ msi[n][c] = "i"
    <2>1. MemoryOf(c)' = MemoryOf(c)
      BY <1>3, <1>8, MemoryStays DEF Writing, Holds
    <2>2. QED BY <1>5, <1>6, <2>1, AbstractSteps
  <1>9. QED BY <1>4, <1>7, <1>8

\* What printPageContents has decided to show is what the memory holds.
LEMMA ShowSteps ==
  ASSUME SerialInv, SerialInv', NEW n \in Node,
         StatusValid(n) \/ ReceiveNull(n) \/ MarkShared(n)
  PROVE  Memory!SMNext
  <1>1. PICK k \in Node : k = Peer(n)
    BY PeerFacts
  <1>2. PICK c \in Page : c = cur[n]
    BY DEF SerialInv, ConnInv, TypeInv, TypeOK
  <1>3. /\ pc[n] \in {"status", "fetch", "mark"} /\ pc'[n] = "print"
        /\ UNCHANGED <<op, cur, buf>>
        /\ \A m \in Node \ {n} : pc'[m] = pc[m] /\ page_output'[m] = page_output[m]
        /\ \A p \in Page : p # c => msi'[n][p] = msi[n][p] /\ page'[n][p] = page[n][p]
        /\ \A m \in Node \ {n} : msi'[m] = msi[m] /\ page'[m] = page[m]
        /\ op[n] # "write"
    <2>1. op[n] # "write"
      BY DEF StatusValid, ReceiveNull, MarkShared, Main, SerialInv, Serially, InOp
    <2>2. QED
      BY <1>2, <2>1 DEF StatusValid, ReceiveNull, MarkShared, Main, Goto, SerialInv,
         ConnInv, TypeInv, TypeOK
  <1>4. /\ k # n /\ \A m \in Node : m = n \/ m = k
        /\ pc[k] = "idle"
    BY <1>1, <1>3, ActiveFacts
  <1>5. \A m \in Node, p \in Page : ~Writing(m, p) /\ ~Writing(m, p)'
    BY <1>3, <1>4 DEF Writing
  <1>6. \A p \in Page \ {c} : MemoryOf(p)' = MemoryOf(p)
    BY <1>3, <1>4, <1>5, MemoryStays DEF Holds
  <1>7. MemoryOf(c)' = MemoryOf(c)
    <2>1. CASE StatusValid(n)
      <3>1. UNCHANGED <<msi, page>>
        BY <2>1 DEF StatusValid
      <3>2. QED BY <1>5, <3>1, MemoryStays DEF Holds
    <2>2. CASE ReceiveNull(n)
      <3>1. msi' = msi /\ msi[n][c] = "i"
        BY <1>2, <2>2 DEF ReceiveNull, Main, SerialInv, Serially, Fetching
      <3>2. QED BY <1>3, <1>5, <3>1, MemoryStays DEF Holds
    <2>3. CASE MarkShared(n)
      <3>1. Holds(k, c) /\ Holds(k, c)' /\ page'[k][c] = page[k][c]
        BY <1>1, <1>2, <1>3, <1>4, <2>3
        DEF MarkShared, Main, SerialInv, Serially, Storing, Holds
      <3>2. MemoryIs(c) /\ MemoryIs(c)'
        BY MemoryFacts, MemoryFactsNext
      <3>3. QED BY <1>5, <3>1, <3>2 DEF MemoryIs
    <2>4. QED BY <2>1, <2>2, <2>3
  <1>8. page_output'[n] = MemoryOf(c)'
    <2>1. MemoryIs(c)'
      BY MemoryFactsNext
    <2>2. Printing(n)'
      BY DEF SerialInv, Serially
    <2>3. IF Holds(n, c)' THEN page_output'[n] = page'[n][c]
          ELSE page_output'[n] = Empty /\ ~Holds(k, c)'
      BY <1>1, <1>2, <1>3, <2>2 DEF Printing, Holds
    <2>4. QED BY <1>4, <1>5, <2>1, <2>3 DEF MemoryIs
  <1>9. ShownBy(n) = <<>> /\ ShownBy(n)' = <<c, MemoryOf(c)>>
    BY <1>2, <1>3, <1>7, <1>8 DEF ShownBy
  <1>10. \A m \in Node \ {n} : ShownBy(m)' = ShownBy(m)
    BY <1>3 DEF ShownBy
  <1>11. Memory!Show(n, c)
    BY <1>6, <1>7, <1>9, <1>10, AbstractSteps
  <1>12. QED BY <1>11 DEF Memory!SMNext

\* Main steps that change no copy and show nothing, and the state change of a
\* write, which its text has already reached.
LEMMA QuietSteps ==
  ASSUME SerialInv, SerialInv', NEW n \in Node,
         \/ TouchPage(n) \/ Fetch(n) \/ ReceivePage(n) \/ MarkModified(n)
         \/ SendInvalidate(n)
  PROVE  UNCHANGED Memory!smvars
  <1>1. /\ UNCHANGED <<op, cur, page>>
        /\ pc[n] # "print" /\ pc'[n] # "print" /\ pc[n] # "idle"
        /\ pc[n] \in {"copyRest", "mark", "send", "ack"} <=>
             pc'[n] \in {"copyRest", "mark", "send", "ack"}
        /\ \A m \in Node \ {n} : /\ pc'[m] = pc[m] /\ buf'[m] = buf[m]
                                 /\ page_output'[m] = page_output[m]
    BY DEF TouchPage, Fetch, ReceivePage, MarkModified, SendInvalidate, Main,
       Goto, SerialInv, ConnInv, TypeInv, TypeOK
  <1>2. \A m \in Node : ShownBy(m)' = ShownBy(m)
    BY <1>1 DEF ShownBy
  <1>3. ASSUME NEW p \in Page PROVE MemoryOf(p)' = MemoryOf(p)
    <2>1. \A m \in Node : Writing(m, p)' <=> Writing(m, p)
      BY <1>1 DEF Writing
    <2>2. Writing(n, p) => buf'[n] = buf[n]
      BY DEF TouchPage, Fetch, ReceivePage, MarkModified, SendInvalidate, Main,
         Writing
    <2>3. CASE MarkModified(n)
      <3>1. cur[n] = p => Writing(n, p)
        BY <2>3 DEF MarkModified, Main, Writing
      <3>2. cur[n] # p => \A m \in Node : msi'[m][p] = msi[m][p]
        BY <2>3 DEF MarkModified, SerialInv, ConnInv, TypeInv, TypeOK
      <3>3. QED BY <1>1, <2>1, <2>2, <3>1, <3>2, MemoryStays DEF Holds
    <2>4. CASE ~MarkModified(n)
      <3>1. msi' = msi
        BY <2>4 DEF TouchPage, Fetch, ReceivePage, SendInvalidate
      <3>2. QED BY <1>1, <2>1, <2>2, <3>1, MemoryStays DEF Holds
    <2>5. QED BY <2>3, <2>4
  <1>4. 0 \in Page
    BY ConstantFacts
  <1>5. QED BY <1>2, <1>3, <1>4, AbstractSteps

\* The end of an iteration: a write's text is now the text of its only copy; a
\* listing has printed its page.
LEMMA EndSteps ==
  ASSUME SerialInv, SerialInv', NEW n \in Node, ReceiveAck(n) \/ PrintPage(n)
  PROVE  [Memory!SMNext]_Memory!smvars
  <1>1. PICK k \in Node : k = Peer(n)
    BY PeerFacts
  <1>2. PICK c \in Page : c = cur[n]
    BY DEF SerialInv, ConnInv, TypeInv, TypeOK
  <1>3. /\ NextPage(n) /\ UNCHANGED <<msi, page>>
        /\ pc[n] \in {"ack", "print"}
        /\ pc[n] = "ack" <=> ReceiveAck(n)
    BY DEF ReceiveAck, PrintPage, Main
  <1>4. /\ pc'[n] \in {"copy", "touch", "idle"}
        /\ \A m \in Node \ {n} :
             /\ pc'[m] = pc[m] /\ op'[m] = op[m] /\ cur'[m] = cur[m]
             /\ buf'[m] = buf[m] /\ page_output'[m] = page_output[m]
    BY <1>3 DEF NextPage, Goto, SerialInv, ConnInv, TypeInv, TypeOK
  <1>5. /\ k # n /\ \A m \in Node : m = n \/ m = k
        /\ pc[k] = "idle"
    BY <1>1, <1>3, ActiveFacts
  <1>6. \A m \in Node, p \in Page : ~Writing(m, p)'
    BY <1>4, <1>5 DEF Writing
  <1>7. \A p \in Page \ {c} : MemoryOf(p)' = MemoryOf(p)
    <2>1. \A m \in Node, p \in Page \ {c} : ~Writing(m, p)
      BY <1>2, <1>5 DEF Writing
    <2>2. QED BY <1>3, <1>6, <2>1, MemoryStays DEF Holds
  <1>8. MemoryOf(c)' = MemoryOf(c)
    <2>1. MemoryIs(c) /\ MemoryIs(c)'
      BY MemoryFacts, MemoryFactsNext
    <2>2. CASE ReceiveAck(n)
      <3>1. /\ op[n] = "write" /\ msi[n][c] = "m" /\ page[n][c] = buf[n]
        BY <1>2, <1>3, <2>2 DEF SerialInv, Serially, InOp, BusyCopy
      <3>2. Writing(n, c) /\ Holds(n, c)'
        BY <1>2, <1>3, <2>2, <3>1 DEF Writing, Holds
      <3>3. QED BY <1>3, <1>6, <2>1, <3>1, <3>2 DEF MemoryIs
    <2>3. CASE PrintPage(n)
      <3>1. \A m \in Node : ~Writing(m, c)
        BY <1>5, <2>3 DEF PrintPage, Main, Writing
      <3>2. QED BY <1>3, <1>6, <3>1, MemoryStays DEF Holds
    <2>4. QED BY <2>2, <2>3
  <1>9. /\ \A m \in Node \ {n} : ShownBy(m)' = ShownBy(m)
        /\ ShownBy(n)' = <<>>
    BY <1>4 DEF ShownBy
  <1>10. CASE ReceiveAck(n)
    <2>1. ShownBy(n) = <<>>
      BY <1>3, <1>10 DEF ShownBy
    <2>2. QED BY <1>7, <1>8, <1>9, <2>1, AbstractSteps
  <1>11. CASE PrintPage(n)
    <2>1. ShownBy(n) # <<>>
      BY <1>11 DEF PrintPage, Main, ShownBy
    <2>2. Memory!Printed(n)
      BY <1>7, <1>8, <1>9, <2>1, AbstractSteps
    <2>3. QED BY <2>2 DEF Memory!SMNext
  <1>12. QED BY <1>10, <1>11

LEMMA RefinementNext ==
  ASSUME TakeTurns, SerialInv, SerialInv', [Next]_vars
  PROVE  [Memory!SMNext]_Memory!smvars
  <1>1. CASE UNCHANGED vars
    <2>1. \A n \in Node : ShownBy(n)' = ShownBy(n)
      BY <1>1 DEF vars, mainVars, ShownBy
    <2>2. \A p \in Page : MemoryOf(p)' = MemoryOf(p)
      BY <1>1, MemoryStays DEF vars, mainVars, Writing, Holds
    <2>3. QED BY <2>1, <2>2, ConstantFacts, AbstractSteps DEF Node
  <1>2. ASSUME NEW n \in Node, MainStep(n)
        PROVE  [Memory!SMNext]_Memory!smvars
    BY <1>2, QuietSteps, CopySteps, ShowSteps, EndSteps, SerialStatusInvalid,
       NobodyExits
    DEF MainStep
  <1>3. QED BY <1>1, <1>2, InvisibleSteps, NobodyExits DEF Next

\* s2dsm keeps its promise to users who take turns: the two processes, their
\* MSI states, copies, messages and threads together are one shared memory.
THEOREM SharedMemoryImplemented ==
  ASSUME TakeTurns
  PROVE  Spec => ImplementsSharedMemory
  <1>1. SerialInv /\ SerialInv' /\ [Next]_vars => [Memory!SMNext]_Memory!smvars
    BY RefinementNext
  <1>2. QED
    BY <1>1, RefinementInit, SerialInvariant, PTL
    DEF Spec, ImplementsSharedMemory, Memory!SMSpec
=============================================================================
