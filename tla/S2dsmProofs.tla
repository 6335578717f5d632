---------------------------- MODULE S2dsmProofs ----------------------------
(***************************************************************************)
(* Proofs about S2dsm, for any number of pages, any messages, users that   *)
(* take turns or not, and processes that may exit at any moment.           *)
(***************************************************************************)
EXTENDS S2dsm, TLAPS

----------------------------------------------------------------------------
(* Facts about the constants and about sequences. *)

\* Each process has exactly one peer, whose peer it is.
LEMMA PeerFacts ==
  ASSUME NEW n \in Node
  PROVE  Peer(n) \in Node /\ Peer(n) # n /\ Peer(Peer(n)) = n
  BY NodeAssumption DEF Node, Peer

\* Page numbers are integers from 0, and the special strings are told apart
\* from what users type.
LEMMA ConstantFacts ==
  /\ NumPages \in Nat
  /\ NumPages > 0
  /\ 0 \in Page
  /\ \A p \in Page : p \in Int /\ p >= 0 /\ p <= NumPages - 1
  /\ Empty \in Text /\ Torn \in Text /\ Success \in Text /\ NullText \in Text
  /\ Message \subseteq Text
  /\ PagePtr \notin Text /\ Absent \notin Text
  /\ Success \notin Message /\ Success # NullText /\ Success # Empty
  /\ Success # Torn /\ Success # Absent /\ Success # PagePtr
  BY NumPagesAssumption, MessageAssumption
  DEF Page, Text, Absent, Empty, Torn, Success, PagePtr

\* What communicateWithPeer sends is a request for one of the pages.
LEMMA RequestFacts ==
  /\ \A p \in Page : /\ [page |-> p, op |-> "read"] \in Request
                     /\ [page |-> p, op |-> "inval"] \in Request
  /\ \A r \in Request : r.page \in Page /\ r.op \in {"read", "inval"}
  BY DEF Request

\* Sending to and reading from a stream keeps the type of its elements.
LEMMA SeqFacts ==
  ASSUME NEW S, NEW q \in Seq(S)
  PROVE  /\ \A r \in S : Append(q, r) \in Seq(S)
         /\ q # <<>> => Head(q) \in S /\ Tail(q) \in Seq(S)
  OBVIOUS

LEMMA StreamFacts ==
  ASSUME NEW S, NEW f \in [Node -> Seq(S)], NEW n \in Node
  PROVE  /\ [f EXCEPT ![n] = <<>>] \in [Node -> Seq(S)]
         /\ f[n] # <<>> => [f EXCEPT ![n] = Tail(@)] \in [Node -> Seq(S)]
  BY SeqFacts

\* A reply adds at most one text to the stream.
LEMMA BytesFacts ==
  ASSUME NEW t \in Text, NEW q \in Seq(Text)
  PROVE  q \o Bytes(t) \in Seq(Text)
  <1>1. Bytes(t) \in Seq(Text) BY DEF Bytes
  <1>2. QED BY <1>1

\* The loops over pages stay inside the pages.
LEMMA PageRange ==
  ASSUME NEW r \in Page \cup {-1}
  PROVE  /\ FirstPage(r) \in Page
         /\ \A p \in Page : p < LastPage(r) => p + 1 \in Page
  BY ConstantFacts DEF FirstPage, LastPage, Page

----------------------------------------------------------------------------
(* Type correctness. *)

\* snprintf has replaced the page's address by its text when the responder
\* sends: needed for rsp to carry texts only.
ReplyFormatted == \A n \in Node : rpc[n] = "send" => reply[n] # PagePtr

TypeInv == TypeOK /\ ReplyFormatted

LEMMA TypeInit == Init => TypeInv
  BY ConstantFacts DEF Init, TypeInv, TypeOK, ReplyFormatted

\* The user's commands.
LEMMA TypeCommand ==
  ASSUME TypeInv, NEW n \in Node, Command(n)
  PROVE  TypeInv'
  <1>1. ASSUME NEW r \in Page \cup {-1}, ReadCommand(n, r)
        PROVE  TypeInv'
    BY <1>1, PageRange
    DEF TypeInv, TypeOK, ReplyFormatted, ReadCommand, Goto, responderVars
  <1>2. ASSUME NEW r \in Page \cup {-1}, NEW v \in Message, WriteCommand(n, r, v)
        PROVE  TypeInv'
    BY <1>2, PageRange, ConstantFacts
    DEF TypeInv, TypeOK, ReplyFormatted, WriteCommand, Goto, responderVars
  <1>3. QED
    BY <1>1, <1>2 DEF Command

\* The end of a loop iteration changes nothing but main's own variables.
LEMMA TypeNextPage ==
  ASSUME TypeInv, NEW n \in Node, NextPage(n)
  PROVE  /\ pc' \in [Node -> {"idle", "touch", "status", "fetch", "copy",
                              "copyRest", "mark", "send", "ack", "print"}]
         /\ op' \in [Node -> {"none", "read", "write", "show"}]
         /\ request_page' \in [Node -> Page \cup {-1}]
         /\ cur' \in [Node -> Page]
         /\ buf' \in [Node -> Text]
         /\ page_output' \in [Node -> Text]
  <1> USE DEF TypeInv, TypeOK, Goto
  <1>1. CASE cur[n] < LastPage(request_page[n])
    <2>1. cur[n] + 1 \in Page
      BY <1>1, PageRange
    <2>2. /\ cur' = [cur EXCEPT ![n] = @ + 1]
          /\ pc' = [pc EXCEPT ![n] = IF op[n] = "write" THEN "copy" ELSE "touch"]
          /\ UNCHANGED <<op, request_page, buf, page_output>>
      <3>1. cur[n] \in Int /\ LastPage(request_page[n]) \in Int
        BY ConstantFacts DEF LastPage
      <3>2. cur[n] # LastPage(request_page[n])
        BY <1>1, <3>1
      <3>3. QED BY <1>1, <3>2 DEF NextPage
    <2>3. QED BY <2>1, <2>2
  <1>2. CASE cur[n] = LastPage(request_page[n]) /\ op[n] = "write"
    <2>1. FirstPage(request_page[n]) \in Page
      BY PageRange
    <2>2. /\ cur' = [cur EXCEPT ![n] = FirstPage(request_page[n])]
          /\ op' = [op EXCEPT ![n] = "show"]
          /\ pc' = [pc EXCEPT ![n] = "touch"]
          /\ UNCHANGED <<request_page, buf, page_output>>
      BY <1>2, ConstantFacts DEF NextPage
    <2>3. QED BY <2>1, <2>2
  <1>3. CASE cur[n] = LastPage(request_page[n]) /\ op[n] # "write"
    <2>1. /\ op' = [op EXCEPT ![n] = "none"]
          /\ cur' = [cur EXCEPT ![n] = 0]
          /\ request_page' = [request_page EXCEPT ![n] = -1]
          /\ buf' = [buf EXCEPT ![n] = Empty]
          /\ page_output' = [page_output EXCEPT ![n] = Empty]
          /\ pc' = [pc EXCEPT ![n] = "idle"]
      BY <1>3, ConstantFacts DEF NextPage
    <2>2. QED BY <2>1, ConstantFacts
  <1>4. QED BY <1>1, <1>2, <1>3 DEF NextPage

\* The main thread's steps.
LEMMA TypeMainStep ==
  ASSUME TypeInv, NEW n \in Node, MainStep(n)
  PROVE  TypeInv'
  <1> USE DEF TypeInv, TypeOK, ReplyFormatted, Main, Goto, responderVars
  <1>1. CASE TouchPage(n)      BY <1>1 DEF TouchPage
  <1>2. CASE StatusValid(n)    BY <1>2 DEF StatusValid
  <1>3. CASE StatusInvalid(n)  BY <1>3, ConstantFacts DEF StatusInvalid
  <1>4. CASE Fetch(n)
    <2>1. req' \in [Node -> Seq(Request)]
      BY <1>4, RequestFacts, SeqFacts DEF Fetch, SendRequest
    <2>2. QED BY <1>4, <2>1 DEF Fetch
  <1>5. CASE ReceivePage(n)
    <2>1. /\ rsp' \in [Node -> Seq(Text)]
          /\ buf' \in [Node -> Text]
      BY <1>5, SeqFacts DEF ReceivePage
    <2>2. QED BY <1>5, <2>1 DEF ReceivePage
  <1>6. CASE ReceiveNull(n)
    <2>1. rsp' \in [Node -> Seq(Text)]
      BY <1>6, SeqFacts DEF ReceiveNull
    <2>2. QED BY <1>6, <2>1, ConstantFacts DEF ReceiveNull
  <1>7. CASE ReceiveEof(n)     BY <1>7, ConstantFacts DEF ReceiveEof
  <1>8. CASE CopyFirst(n)      BY <1>8, ConstantFacts DEF CopyFirst, CopyStart
  <1>9. CASE CopyRest(n)       BY <1>9 DEF CopyRest, CopyEnd
  <1>10. CASE MarkShared(n)    BY <1>10 DEF MarkShared
  <1>11. CASE MarkModified(n)  BY <1>11 DEF MarkModified, StateOnWrite
  <1>12. CASE SendInvalidate(n)
    <2>1. req' \in [Node -> Seq(Request)]
      BY <1>12, RequestFacts, SeqFacts DEF SendInvalidate, SendRequest
    <2>2. QED BY <1>12, <2>1 DEF SendInvalidate
  <1>13. CASE ReceiveAck(n)
    <2>1. rsp' \in [Node -> Seq(Text)]
      <3>1. \/ rsp[n] # <<>> /\ rsp' = [rsp EXCEPT ![n] = Tail(@)]
            \/ rsp' = rsp
        BY <1>13 DEF ReceiveAck
      <3>2. rsp[n] # <<>> => Tail(rsp[n]) \in Seq(Text)
        BY SeqFacts
      <3>3. QED BY <3>1, <3>2
    <2>2. NextPage(n)
      BY <1>13 DEF ReceiveAck
    <2>3. QED BY <1>13, <2>1, <2>2, TypeNextPage DEF ReceiveAck
  <1>14. CASE PrintPage(n)
    <2>1. NextPage(n)
      BY <1>14 DEF PrintPage
    <2>2. QED BY <1>14, <2>1, TypeNextPage DEF PrintPage
  <1>15. QED
    BY <1>1, <1>2, <1>3, <1>4, <1>5, <1>6, <1>7, <1>8, <1>9, <1>10, <1>11,
       <1>12, <1>13, <1>14 DEF MainStep

\* The responder's steps.
LEMMA TypeResponderStep ==
  ASSUME TypeInv, NEW n \in Node, ResponderStep(n)
  PROVE  TypeInv'
  <1> USE DEF TypeInv, TypeOK, ReplyFormatted, Resp, RGoto, mainVars
  <1>1. CASE ReadRequest(n)
    <2>1. /\ req' \in [Node -> Seq(Request)]
          /\ rpage' \in [Node -> Page]
      BY <1>1, RequestFacts, SeqFacts, PeerFacts DEF ReadRequest
    <2>2. QED BY <1>1, <2>1 DEF ReadRequest
  <1>2. CASE Invalidate(n)       BY <1>2 DEF Invalidate, StateOnInvalidate
  <1>3. CASE MadviseDontNeed(n)
    BY <1>3, ConstantFacts DEF MadviseDontNeed, DropPage
  <1>4. CASE GetResponse(n)
    BY <1>4, ConstantFacts DEF GetResponse, Response, StateAfterResponse
  <1>5. CASE TransitionStateOnRead(n)
    BY <1>5 DEF TransitionStateOnRead, StateOnRead
  <1>6. CASE FormatReply(n)
    <2>1. CASE reply[n] = PagePtr
      <3>1. page[n][rpage[n]] \in Text
        BY <1>6, <2>1 DEF FormatReply
      <3>2. /\ reply' = [reply EXCEPT ![n] = page[n][rpage[n]]]
            /\ rpc' = [rpc EXCEPT ![n] = "send"]
            /\ UNCHANGED <<msi, page, mainVars, rpage, req, rsp, alive>>
        BY <1>6, <2>1 DEF FormatReply
      <3>3. QED BY <3>1, <3>2, ConstantFacts
    <2>2. CASE reply[n] # PagePtr
      BY <1>6, <2>2 DEF FormatReply
    <2>3. QED BY <2>1, <2>2
  <1>7. CASE SendReply(n)
    <2>1. reply[n] \in Text /\ Peer(n) \in Node
      BY <1>7, PeerFacts DEF SendReply
    <2>2. rsp' \in [Node -> Seq(Text)]
      BY <1>7, <2>1, BytesFacts DEF SendReply
    <2>3. QED BY <1>7, <2>2, ConstantFacts DEF SendReply
  <1>8. QED
    BY <1>1, <1>2, <1>3, <1>4, <1>5, <1>6, <1>7 DEF ResponderStep

\* The fault handler and processes that end.
LEMMA TypeOtherStep ==
  ASSUME TypeInv, NEW n \in Node, FaultStep(n) \/ Exit(n) \/ PeerLost(n)
  PROVE  TypeInv'
  <1> USE DEF TypeInv, TypeOK, ReplyFormatted, mainVars, responderVars
  <1>1. CASE FaultStep(n)
    BY <1>1, ConstantFacts DEF FaultStep, HandleFault
  <1>2. CASE Exit(n) \/ PeerLost(n)
    <2>1. Die(n)
      BY <1>2 DEF Exit, PeerLost
    <2>2. /\ req' \in [Node -> Seq(Request)]
          /\ rsp' \in [Node -> Seq(Text)]
          /\ alive' \in [Node -> BOOLEAN]
      BY <2>1, StreamFacts, PeerFacts DEF Die
    <2>3. QED BY <2>1, <2>2 DEF Die
  <1>3. QED BY <1>1, <1>2

LEMMA TypeNext ==
  ASSUME TypeInv, [Next]_vars
  PROVE  TypeInv'
  <1>1. CASE UNCHANGED vars
    BY <1>1 DEF TypeInv, TypeOK, ReplyFormatted, vars, mainVars, responderVars
  <1>2. CASE Next
    BY <1>2, TypeCommand, TypeMainStep, TypeResponderStep, TypeOtherStep
    DEF Next
  <1>3. QED BY <1>1, <1>2

\* The type invariant: in particular, no loop leaves the pages, and what
\* reaches a main thread is always a text.
THEOREM TypeCorrect == Spec => []TypeOK
  <1>1. TypeInv => TypeOK
    BY DEF TypeInv
  <1>2. QED
    BY <1>1, TypeInit, TypeNext, PTL DEF Spec

----------------------------------------------------------------------------
(* One message at a time on each connection. *)

Waiting(n) == pc[n] \in {"fetch", "ack"}

\* n's connection: while n waits there is one thing in flight, a request, a
\* request being served, or a reply; otherwise there is nothing.  A process
\* that has ended leaves no bytes for it behind.
Wire(n) ==
  /\ req[n] = <<>> \/ \E r \in Request : req[n] = <<r>>
  /\ rsp[n] = <<>> \/ \E t \in Text : rsp[n] = <<t>>
  /\ req[n] # <<>> => rsp[n] = <<>> /\ rpc[Peer(n)] = "read"
  /\ rsp[n] # <<>> => rpc[Peer(n)] = "read"
  /\ alive[n] /\ ~Waiting(n) => rsp[n] = <<>>
  /\ alive[n] /\ alive[Peer(n)] /\ ~Waiting(n) =>
       req[n] = <<>> /\ rpc[Peer(n)] = "read"
  /\ ~alive[n] => rsp[n] = <<>>
  /\ ~alive[Peer(n)] => req[n] = <<>>

WireInv == \A n \in Node : Wire(n)

\* What is in flight belongs to what n waits for.
Match(n) ==
  /\ rsp[n] # <<>> => (pc[n] = "ack" <=> Head(rsp[n]) = Success)
  /\ alive[Peer(n)] =>
       /\ req[n] # <<>> => (pc[n] = "ack" <=> Head(req[n]).op = "inval")
       /\ rpc[Peer(n)] \in {"inval", "drop"} => pc[n] = "ack"
       /\ rpc[Peer(n)] \in {"getResponse", "onRead", "format"} => pc[n] = "fetch"
       /\ rpc[Peer(n)] \in {"onRead", "format"} => reply[Peer(n)] # Success
       /\ rpc[Peer(n)] = "send" => (pc[n] = "ack" <=> reply[Peer(n)] = Success)

\* An acknowledgement never ends up in a page.
Clean(n) == buf[n] # Success /\ \A p \in Page : page[n][p] # Success

MatchInv == \A n \in Node : Clean(n) /\ (alive[n] => Match(n))

ConnInv == TypeInv /\ WireInv /\ MatchInv

LEMMA ConnInit == Init => ConnInv
  <1> SUFFICES ASSUME Init PROVE ConnInv
    OBVIOUS
  <1>1. WireInv
    BY PeerFacts DEF Init, WireInv, Wire, Waiting
  <1>2. MatchInv
    BY PeerFacts, ConstantFacts DEF Init, MatchInv, Match, Clean
  <1>3. QED BY <1>1, <1>2, TypeInit DEF ConnInv

\* A connection is not disturbed by a step that sends and reads nothing, and
\* starts and ends no request.
LEMMA WireFrame ==
  ASSUME WireInv, UNCHANGED <<req, rsp, alive>>,
         \A n \in Node : /\ Waiting(n)' <=> Waiting(n)
                         /\ rpc'[n] = "read" <=> rpc[n] = "read"
  PROVE  WireInv'
  BY PeerFacts DEF WireInv, Wire

\* Nothing is in flight for a process that does not wait.
LEMMA MatchIdle ==
  ASSUME NEW n \in Node, WireInv', alive'[n], ~Waiting(n)'
  PROVE  Match(n)'
  <1>1. rsp'[n] = <<>>
    BY DEF WireInv, Wire
  <1>2. alive'[Peer(n)] => req'[n] = <<>> /\ rpc'[Peer(n)] = "read"
    BY DEF WireInv, Wire
  <1>3. QED BY <1>1, <1>2 DEF Match

\* What n's main thread does is invisible on the peer's connection.
LEMMA MatchOther ==
  ASSUME NEW n \in Node, UNCHANGED <<rpc, reply, alive>>,
         \A k \in Node \ {n} : /\ pc'[k] = pc[k] /\ req'[k] = req[k]
                               /\ rsp'[k] = rsp[k],
         MatchInv
  PROVE  \A k \in Node \ {n} : alive'[k] => Match(k)'
  BY DEF MatchInv, Match

\* Main steps that neither send nor read.
LEMMA ConnLocal ==
  ASSUME ConnInv, NEW n \in Node,
         \/ Command(n) \/ TouchPage(n) \/ StatusValid(n) \/ StatusInvalid(n)
         \/ CopyFirst(n) \/ CopyRest(n) \/ MarkShared(n) \/ MarkModified(n)
         \/ PrintPage(n)
  PROVE  WireInv' /\ MatchInv'
  <1> USE DEF ConnInv
  <1>1. /\ UNCHANGED <<req, rsp, alive, rpc, reply>>
        /\ alive[n]
        /\ pc[n] \notin {"fetch", "ack"} /\ pc'[n] \notin {"fetch", "ack"}
        /\ \A k \in Node \ {n} : pc'[k] = pc[k]
    <2>1. CASE Command(n)
      BY <2>1 DEF TypeInv, TypeOK, Command, ReadCommand, WriteCommand, MayStart,
         Main, Goto, responderVars
    <2>2. CASE PrintPage(n)
      BY <2>2 DEF TypeInv, TypeOK, PrintPage, NextPage, Main, Goto, responderVars
    <2>3. CASE \/ TouchPage(n) \/ StatusValid(n) \/ StatusInvalid(n)
               \/ CopyFirst(n) \/ CopyRest(n) \/ MarkShared(n) \/ MarkModified(n)
      BY <2>3 DEF TypeInv, TypeOK, TouchPage, StatusValid, StatusInvalid,
         CopyFirst, CopyRest, MarkShared, MarkModified, Main, Goto, responderVars
    <2>4. QED BY <2>1, <2>2, <2>3
  <1>2. WireInv'
    BY <1>1, WireFrame DEF Waiting
  <1>3. \A k \in Node : alive'[k] => Match(k)'
    BY <1>1, <1>2, MatchIdle, MatchOther DEF Waiting
  <1>4. \A k \in Node : Clean(k)'
    <2>1. CASE Command(n)
      BY <2>1, ConstantFacts DEF TypeInv, TypeOK, MatchInv, Clean, Command,
         ReadCommand, WriteCommand
    <2>2. CASE PrintPage(n)
      <3>1. page' = page /\ (buf' = buf \/ buf' = [buf EXCEPT ![n] = Empty])
        BY <2>2 DEF PrintPage, NextPage
      <3>2. QED BY <3>1, ConstantFacts DEF TypeInv, TypeOK, MatchInv, Clean
    <2>3. CASE CopyFirst(n) \/ CopyRest(n)
      <3>1. buf[n] # Success /\ page[n][cur[n]] # Success
        BY DEF MatchInv, Clean, TypeInv, TypeOK
      <3>2. CopyStart(buf[n]) # Success /\ CopyEnd(page[n][cur[n]], buf[n]) # Success
        BY <3>1, ConstantFacts DEF CopyStart, CopyEnd
      <3>3. PICK t : t # Success /\ page' = [page EXCEPT ![n][cur[n]] = t]
        BY <2>3, <3>2 DEF CopyFirst, CopyRest
      <3>4. buf' = buf
        BY <2>3 DEF CopyFirst, CopyRest
      <3>5. QED BY <3>3, <3>4 DEF TypeInv, TypeOK, MatchInv, Clean
    <2>4. CASE \/ TouchPage(n) \/ StatusValid(n) \/ StatusInvalid(n)
               \/ MarkShared(n) \/ MarkModified(n)
      BY <2>4 DEF MatchInv, Clean, TouchPage, StatusValid, StatusInvalid,
         MarkShared, MarkModified
    <2>5. QED BY <2>1, <2>2, <2>3, <2>4
  <1>5. QED BY <1>2, <1>3, <1>4 DEF MatchInv

\* Fetch and SendInvalidate put one request on an idle connection.
LEMMA ConnSend ==
  ASSUME ConnInv, NEW n \in Node, Fetch(n) \/ SendInvalidate(n)
  PROVE  WireInv' /\ MatchInv'
  <1> USE DEF ConnInv
  <1>1. /\ UNCHANGED <<rsp, alive, rpc, reply, page, buf>>
        /\ alive[n] /\ ~Waiting(n)
        /\ \A k \in Node \ {n} : pc'[k] = pc[k]
    BY DEF TypeInv, TypeOK, Fetch, SendInvalidate, Main, Goto, responderVars,
       Waiting
  <1>2. /\ Peer(n) \in Node /\ Peer(n) # n /\ Peer(Peer(n)) = n
        /\ cur[n] \in Page
    BY PeerFacts DEF TypeInv, TypeOK
  <1>3. rsp[n] = <<>>
    BY <1>1 DEF WireInv, Wire
  <1>4. alive[Peer(n)] => req[n] = <<>> /\ rpc[Peer(n)] = "read"
    BY <1>1 DEF WireInv, Wire
  <1>5. PICK o \in {"read", "inval"} :
          /\ SendRequest(n, o)
          /\ pc'[n] = IF o = "inval" THEN "ack" ELSE "fetch"
    BY DEF TypeInv, TypeOK, Fetch, SendInvalidate, Goto
  <1> DEFINE r == [page |-> cur[n], op |-> o]
  <1>6. r \in Request /\ r.op = o
    BY <1>2, <1>5, RequestFacts
  <1>7. CASE alive[Peer(n)]
    <2>1. req' = [req EXCEPT ![n] = <<r>>]
      <3>1. req' = [req EXCEPT ![n] = Append(@, r)]
        BY <1>5, <1>7 DEF SendRequest
      <3>2. req[n] = <<>>
        BY <1>4, <1>7
      <3> HIDE DEF r
      <3>3. Append(req[n], r) = <<r>>
        BY <3>2
      <3>4. QED BY <3>1, <3>3
    <2>2. req'[n] = <<r>> /\ \A k \in Node \ {n} : req'[k] = req[k]
      BY <2>1 DEF TypeInv, TypeOK
    <2> HIDE DEF r
    <2>3. Wire(n)'
      BY <1>1, <1>3, <1>4, <1>5, <1>6, <1>7, <2>2 DEF Wire, Waiting
    <2>4. \A k \in Node \ {n} : Wire(k)'
      BY <1>1, <2>2 DEF WireInv, Wire, Waiting
    <2>5. Match(n)'
      <3>1. Head(req'[n]) = r
        BY <2>2
      <3>2. QED BY <1>1, <1>3, <1>4, <1>5, <1>6, <1>7, <3>1 DEF Match
    <2>6. \A k \in Node \ {n} : alive'[k] => Match(k)'
      BY <1>1, <2>2, MatchOther
    <2>7. QED BY <1>1, <2>3, <2>4, <2>5, <2>6 DEF WireInv, MatchInv, Clean
  <1>8. CASE ~alive[Peer(n)]
    <2>1. req' = req
      BY <1>5, <1>8 DEF SendRequest
    <2>2. Wire(n)'
      BY <1>1, <1>3, <1>8, <2>1 DEF WireInv, Wire
    <2>3. \A k \in Node \ {n} : Wire(k)'
      BY <1>1, <2>1 DEF WireInv, Wire, Waiting
    <2>4. Match(n)'
      BY <1>1, <1>3, <1>8 DEF Match
    <2>5. \A k \in Node \ {n} : alive'[k] => Match(k)'
      BY <1>1, <2>1, MatchOther
    <2>6. QED BY <1>1, <2>2, <2>3, <2>4, <2>5 DEF WireInv, MatchInv, Clean
  <1>9. QED BY <1>7, <1>8

\* The reads of communicateWithPeer empty the connection.
LEMMA ConnReceive ==
  ASSUME ConnInv, NEW n \in Node,
         ReceivePage(n) \/ ReceiveNull(n) \/ ReceiveEof(n) \/ ReceiveAck(n)
  PROVE  WireInv' /\ MatchInv'
  <1> USE DEF ConnInv
  <1>1. /\ UNCHANGED <<req, alive, rpc, reply>>
        /\ alive[n] /\ Waiting(n)
    BY DEF ReceivePage, ReceiveNull, ReceiveEof, ReceiveAck, Main,
       responderVars, Waiting
  <1>2. pc'[n] \notin {"fetch", "ack"} /\ \A k \in Node \ {n} : pc'[k] = pc[k]
    <2>1. CASE ReceiveAck(n)
      BY <2>1 DEF TypeInv, TypeOK, ReceiveAck, NextPage, Goto
    <2>2. CASE ReceivePage(n) \/ ReceiveNull(n) \/ ReceiveEof(n)
      BY <2>2 DEF TypeInv, TypeOK, ReceivePage, ReceiveNull, ReceiveEof, Goto
    <2>3. QED BY <2>1, <2>2
  <1>3. \/ rsp[n] # <<>> /\ rsp' = [rsp EXCEPT ![n] = Tail(@)]
        \/ AtEof(n) /\ rsp' = rsp
    BY DEF ReceivePage, ReceiveNull, ReceiveEof, ReceiveAck
  <1>4. /\ rsp'[n] = <<>>
        /\ \A k \in Node \ {n} : rsp'[k] = rsp[k]
        /\ alive[Peer(n)] => req[n] = <<>> /\ rpc[Peer(n)] = "read"
    <2>1. CASE rsp[n] # <<>> /\ rsp' = [rsp EXCEPT ![n] = Tail(@)]
      <3>1. PICK t \in Text : rsp[n] = <<t>>
        BY <2>1 DEF WireInv, Wire
      <3>2. Tail(rsp[n]) = <<>>
        BY <3>1
      <3>3. rsp'[n] = <<>> /\ \A k \in Node \ {n} : rsp'[k] = rsp[k]
        BY <2>1, <3>2 DEF TypeInv, TypeOK
      <3>4. req[n] = <<>> /\ rpc[Peer(n)] = "read"
        BY <2>1 DEF WireInv, Wire
      <3>5. QED BY <3>3, <3>4
    <2>2. CASE AtEof(n) /\ rsp' = rsp
      BY <2>2 DEF AtEof
    <2>3. QED BY <1>3, <2>1, <2>2
  <1>5. Wire(n)'
    BY <1>1, <1>2, <1>4 DEF WireInv, Wire, Waiting
  <1>6. \A k \in Node \ {n} : Wire(k)'
    BY <1>1, <1>2, <1>4 DEF WireInv, Wire, Waiting
  <1>7. WireInv'
    BY <1>5, <1>6 DEF WireInv
  <1>8. \A k \in Node : alive'[k] => Match(k)'
    BY <1>1, <1>2, <1>4, <1>7, MatchIdle, MatchOther DEF Waiting
  <1>9. \A k \in Node : Clean(k)'
    <2>1. CASE ReceivePage(n)
      <3>1. Head(rsp[n]) # Success
        BY <1>1, <2>1 DEF ReceivePage, Main, MatchInv, Match
      <3>2. QED
        BY <2>1, <3>1 DEF ReceivePage, TypeInv, TypeOK, MatchInv, Clean
    <2>2. CASE ReceiveNull(n)
      BY <2>2, ConstantFacts DEF ReceiveNull, TypeInv, TypeOK, MatchInv, Clean
    <2>3. CASE ReceiveEof(n)
      BY <2>3, ConstantFacts DEF ReceiveEof, TypeInv, TypeOK, MatchInv, Clean
    <2>4. CASE ReceiveAck(n)
      <3>1. page' = page /\ (buf' = buf \/ buf' = [buf EXCEPT ![n] = Empty])
        BY <2>4 DEF ReceiveAck, NextPage
      <3>2. QED BY <3>1, ConstantFacts DEF TypeInv, TypeOK, MatchInv, Clean
    <2>5. QED BY <2>1, <2>2, <2>3, <2>4
  <1>10. QED BY <1>7, <1>8, <1>9 DEF MatchInv

\* What n's responder does is invisible on n's own connection.
LEMMA MatchOwn ==
  ASSUME NEW n \in Node, MatchInv, UNCHANGED <<pc, alive>>,
         \A k \in Node \ {n} : rpc'[k] = rpc[k] /\ reply'[k] = reply[k],
         req'[n] = req[n], rsp'[n] = rsp[n]
  PROVE  alive'[n] => Match(n)'
  BY PeerFacts DEF MatchInv, Match

\* The responder's steps between its read and its send.
LEMMA ConnServe ==
  ASSUME ConnInv, NEW n \in Node,
         \/ Invalidate(n) \/ MadviseDontNeed(n) \/ GetResponse(n)
         \/ TransitionStateOnRead(n) \/ FormatReply(n)
  PROVE  WireInv' /\ MatchInv'
  <1> USE DEF ConnInv
  <1> DEFINE k == Peer(n)
  <1>1. /\ k \in Node /\ k # n /\ Peer(k) = n /\ Peer(n) = k
        /\ \A x \in Node : x = n \/ x = k
    BY PeerFacts DEF Node
  <1>2. /\ UNCHANGED <<req, rsp, alive, pc, buf>>
        /\ alive[n]
        /\ rpc[n] # "read" /\ rpc'[n] # "read"
        /\ \A x \in Node \ {n} : rpc'[x] = rpc[x] /\ reply'[x] = reply[x]
    BY DEF TypeInv, TypeOK, Invalidate, MadviseDontNeed, GetResponse,
       TransitionStateOnRead, FormatReply, Resp, RGoto, mainVars
  <1>3. WireInv'
    BY <1>2, WireFrame DEF Waiting
  <1>4. alive'[n] => Match(n)'
    BY <1>2, MatchOwn
  <1>5. ASSUME alive'[k] PROVE Match(k)'
    <2> HIDE DEF k
    <2>1. alive[k] /\ Match(k) /\ req[k] = <<>> /\ rsp[k] = <<>>
      BY <1>1, <1>2, <1>5 DEF MatchInv, WireInv, Wire
    <2>2. CASE Invalidate(n)
      BY <1>1, <1>2, <2>1, <2>2 DEF Match, Invalidate, Resp, RGoto, TypeInv, TypeOK
    <2>3. CASE MadviseDontNeed(n)
      BY <1>1, <1>2, <2>1, <2>3 DEF Match, MadviseDontNeed, Resp, RGoto, TypeInv, TypeOK
    <2>4. CASE GetResponse(n)
      BY <1>1, <1>2, <2>1, <2>4, ConstantFacts
      DEF Match, GetResponse, Response, Resp, RGoto, TypeInv, TypeOK
    <2>5. CASE TransitionStateOnRead(n)
      BY <1>1, <1>2, <2>1, <2>5
      DEF Match, TransitionStateOnRead, Resp, RGoto, TypeInv, TypeOK
    <2>6. CASE FormatReply(n)
      <3>1. pc[k] = "fetch" /\ rpc'[n] = "send"
        BY <1>1, <1>2, <2>1, <2>6 DEF Match, FormatReply, Resp, RGoto, TypeInv, TypeOK
      <3>2. reply'[n] # Success
        <4>1. reply[n] # Success
          BY <1>1, <1>2, <2>1, <2>6 DEF Match, FormatReply, Resp
        <4>2. page[n][rpage[n]] # Success
          BY DEF MatchInv, Clean, TypeInv, TypeOK
        <4>3. QED BY <2>6, <4>1, <4>2 DEF FormatReply, TypeInv, TypeOK
      <3>3. QED BY <1>1, <1>2, <2>1, <3>1, <3>2 DEF Match
    <2>7. QED BY <2>2, <2>3, <2>4, <2>5, <2>6
  <1>6. \A x \in Node : Clean(x)'
    <2>1. CASE MadviseDontNeed(n)
      BY <1>2, <2>1, ConstantFacts
      DEF MatchInv, Clean, MadviseDontNeed, DropPage, TypeInv, TypeOK
    <2>2. CASE \/ Invalidate(n) \/ GetResponse(n) \/ TransitionStateOnRead(n)
               \/ FormatReply(n)
      BY <1>2, <2>2 DEF MatchInv, Clean, Invalidate, GetResponse,
         TransitionStateOnRead, FormatReply
    <2>3. QED BY <2>1, <2>2
  <1>7. QED BY <1>1, <1>3, <1>4, <1>5, <1>6 DEF MatchInv

\* The responder takes the one request there is.
LEMMA ConnReadRequest ==
  ASSUME ConnInv, NEW n \in Node, ReadRequest(n)
  PROVE  WireInv' /\ MatchInv'
  <1> USE DEF ConnInv
  <1> DEFINE k == Peer(n)
  <1>1. /\ k \in Node /\ k # n /\ Peer(k) = n /\ Peer(n) = k
        /\ \A x \in Node : x = n \/ x = k
    BY PeerFacts DEF Node
  <1>2. /\ UNCHANGED <<rsp, alive, pc, buf, page, reply>>
        /\ alive[n] /\ rpc[n] = "read"
        /\ req[k] # <<>>
        /\ req' = [req EXCEPT ![k] = Tail(@)]
        /\ rpc' = [rpc EXCEPT ![n] = IF Head(req[k]).op = "inval"
                                     THEN "inval" ELSE "getResponse"]
    BY DEF ReadRequest, Resp, RGoto, mainVars
  <1> HIDE DEF k
  <1>3. PICK r \in Request : req[k] = <<r>>
    BY <1>1, <1>2 DEF WireInv, Wire
  <1>4. Head(req[k]) = r /\ Tail(req[k]) = <<>>
    BY <1>3
  <1>5. /\ req'[k] = <<>> /\ req'[n] = req[n]
        /\ rpc'[n] = (IF r.op = "inval" THEN "inval" ELSE "getResponse")
        /\ rpc'[k] = rpc[k]
    BY <1>1, <1>2, <1>4 DEF TypeInv, TypeOK
  <1>6. Wire(n)'
    BY <1>1, <1>2, <1>5 DEF WireInv, Wire, Waiting
  <1>7. Wire(k)'
    <2>1. rsp[k] = <<>>
      BY <1>1, <1>2 DEF WireInv, Wire
    <2>2. alive[k] => Waiting(k)
      BY <1>1, <1>2 DEF WireInv, Wire
    <2>3. QED BY <1>1, <1>2, <1>5, <2>1, <2>2 DEF Wire, Waiting
  <1>8. alive'[n] => Match(n)'
    BY <1>1, <1>2, <1>5, MatchOwn
  <1>9. ASSUME alive'[k] PROVE Match(k)'
    <2>1. rsp[k] = <<>>
      BY <1>1, <1>2 DEF WireInv, Wire
    <2>2. Waiting(k) /\ (pc[k] = "ack" <=> r.op = "inval")
      BY <1>1, <1>2, <1>4, <1>9 DEF WireInv, Wire, MatchInv, Match
    <2>3. r.op \in {"read", "inval"}
      BY RequestFacts
    <2>4. QED BY <1>1, <1>2, <1>5, <2>1, <2>2, <2>3 DEF Match, Waiting
  <1>10. QED
    BY <1>1, <1>2, <1>6, <1>7, <1>8, <1>9 DEF WireInv, MatchInv, Clean

\* The responder's reply is the only thing in flight, if it has any bytes.
LEMMA ConnSendReply ==
  ASSUME ConnInv, NEW n \in Node, SendReply(n)
  PROVE  WireInv' /\ MatchInv'
  <1> USE DEF ConnInv
  <1> DEFINE k == Peer(n)
  <1>1. /\ k \in Node /\ k # n /\ Peer(k) = n /\ Peer(n) = k
        /\ \A x \in Node : x = n \/ x = k
    BY PeerFacts DEF Node
  <1>2. /\ UNCHANGED <<req, alive, pc, buf, page>>
        /\ alive[n] /\ rpc[n] = "send"
        /\ rsp' = IF alive[k] THEN [rsp EXCEPT ![k] = @ \o Bytes(reply[n])] ELSE rsp
        /\ rpc' = [rpc EXCEPT ![n] = "read"]
        /\ reply' = [reply EXCEPT ![n] = Empty]
    BY DEF SendReply, Resp, RGoto, mainVars
  <1> HIDE DEF k
  <1>3. req[k] = <<>> /\ rsp[k] = <<>>
    BY <1>1, <1>2 DEF WireInv, Wire
  <1>4. reply[n] \in Text
    BY <1>2 DEF TypeInv, TypeOK, ReplyFormatted
  <1>5. /\ rsp'[n] = rsp[n] /\ rpc'[n] = "read" /\ rpc'[k] = rpc[k]
        /\ reply'[k] = reply[k]
    BY <1>1, <1>2 DEF TypeInv, TypeOK
  <1>6. alive[k] => rsp'[k] = Bytes(reply[n])
    <2>1. Bytes(reply[n]) = <<>> \/ Bytes(reply[n]) = <<reply[n]>>
      BY DEF Bytes
    <2>2. <<>> \o Bytes(reply[n]) = Bytes(reply[n])
      BY <2>1, <1>4
    <2>3. QED BY <1>1, <1>2, <1>3, <2>2 DEF TypeInv, TypeOK
  <1>7. ~alive[k] => rsp'[k] = <<>>
    BY <1>2, <1>3
  <1>8. Wire(n)'
    <2>1. Wire(n) /\ UNCHANGED <<req, alive, pc>>
      BY <1>2 DEF WireInv
    <2>2. QED BY <1>1, <1>5, <2>1 DEF Wire, Waiting
  <1>9. alive[k] => Waiting(k) /\ (pc[k] = "ack" <=> reply[n] = Success)
    BY <1>1, <1>2 DEF WireInv, Wire, MatchInv, Match
  <1>10. Wire(k)'
    <2>1. CASE alive[k]
      <3>1. rsp'[k] = <<>> \/ \E t \in Text : rsp'[k] = <<t>>
        BY <1>4, <1>6, <2>1 DEF Bytes
      <3>2. QED BY <1>1, <1>2, <1>3, <1>5, <1>9, <2>1, <3>1 DEF Wire, Waiting
    <2>2. CASE ~alive[k]
      BY <1>1, <1>2, <1>3, <1>5, <1>7, <2>2 DEF Wire, Waiting
    <2>3. QED BY <2>1, <2>2
  <1>11. alive'[n] => Match(n)'
    BY <1>1, <1>2, <1>5, MatchOwn
  <1>12. ASSUME alive'[k] PROVE Match(k)'
    <2>1. rsp'[k] # <<>> => Head(rsp'[k]) = reply[n]
      <3>1. rsp'[k] = Bytes(reply[n])
        BY <1>2, <1>6, <1>12
      <3>2. Bytes(reply[n]) = <<>> \/ Bytes(reply[n]) = <<reply[n]>>
        BY DEF Bytes
      <3>3. QED BY <3>1, <3>2
    <2>2. QED BY <1>1, <1>2, <1>3, <1>5, <1>9, <1>12, <2>1 DEF Match
  <1>13. QED
    BY <1>1, <1>2, <1>8, <1>10, <1>11, <1>12 DEF WireInv, MatchInv, Clean

\* A fault changes a page only; the end of a process empties what was on its
\* way to it.
LEMMA ConnOther ==
  ASSUME ConnInv, NEW n \in Node, FaultStep(n) \/ Exit(n) \/ PeerLost(n)
  PROVE  WireInv' /\ MatchInv'
  <1> USE DEF ConnInv
  <1>1. CASE FaultStep(n)
    <2>1. PICK p \in Page : HandleFault(n, p)
      BY <1>1 DEF FaultStep
    <2>2. /\ UNCHANGED <<req, rsp, alive, pc, rpc, reply, buf>>
          /\ page' = [page EXCEPT ![n][p] = Empty]
      BY <2>1 DEF HandleFault, mainVars, responderVars
    <2>3. WireInv'
      BY <2>2, WireFrame DEF Waiting
    <2>4. \A k \in Node : alive'[k] => Match(k)'
      BY <2>2 DEF MatchInv, Match
    <2>5. \A k \in Node : Clean(k)'
      BY <2>2, ConstantFacts DEF MatchInv, Clean, TypeInv, TypeOK
    <2>6. QED BY <2>3, <2>4, <2>5 DEF MatchInv
  <1>2. CASE Exit(n) \/ PeerLost(n)
    <2> DEFINE k == Peer(n)
    <2>1. /\ k \in Node /\ k # n /\ Peer(k) = n /\ Peer(n) = k
          /\ \A x \in Node : x = n \/ x = k
      BY PeerFacts DEF Node
    <2>2. /\ alive' = [alive EXCEPT ![n] = FALSE]
          /\ req' = [req EXCEPT ![k] = <<>>]
          /\ rsp' = [rsp EXCEPT ![n] = <<>>]
          /\ UNCHANGED <<pc, rpc, reply, buf, page>>
      BY <1>2 DEF Exit, PeerLost, Die, mainVars, responderVars
    <2> HIDE DEF k
    <2>3. /\ ~alive'[n] /\ alive'[k] = alive[k]
          /\ req'[k] = <<>> /\ req'[n] = req[n]
          /\ rsp'[n] = <<>> /\ rsp'[k] = rsp[k]
      BY <2>1, <2>2 DEF TypeInv, TypeOK
    <2>4. Wire(n)'
      BY <2>1, <2>2, <2>3 DEF WireInv, Wire, Waiting
    <2>5. Wire(k)'
      BY <2>1, <2>2, <2>3 DEF WireInv, Wire, Waiting
    <2>6. alive'[k] => Match(k)'
      BY <2>1, <2>2, <2>3 DEF MatchInv, Match
    <2>7. QED
      BY <2>1, <2>2, <2>3, <2>4, <2>5, <2>6 DEF WireInv, MatchInv, Clean
  <1>3. QED BY <1>1, <1>2

LEMMA ConnNext ==
  ASSUME ConnInv, [Next]_vars
  PROVE  ConnInv'
  <1>1. TypeInv'
    BY TypeNext DEF ConnInv
  <1>2. WireInv' /\ MatchInv'
    <2>1. CASE UNCHANGED vars
      <3>1. WireInv'
        BY <2>1, WireFrame DEF ConnInv, Waiting, vars, mainVars, responderVars
      <3>2. MatchInv'
        BY <2>1 DEF ConnInv, MatchInv, Match, Clean, vars, mainVars,
           responderVars
      <3>3. QED BY <3>1, <3>2
    <2>2. ASSUME NEW n \in Node, MainStep(n) PROVE WireInv' /\ MatchInv'
      BY <2>2, ConnLocal, ConnSend, ConnReceive DEF MainStep
    <2>3. ASSUME NEW n \in Node, ResponderStep(n) PROVE WireInv' /\ MatchInv'
      BY <2>3, ConnServe, ConnReadRequest, ConnSendReply DEF ResponderStep
    <2>4. QED BY <2>1, <2>2, <2>3, ConnLocal, ConnOther DEF Next
  <1>3. QED BY <1>1, <1>2 DEF ConnInv

LEMMA ConnInvariant == Spec => []ConnInv
  BY ConnInit, ConnNext, PTL DEF Spec

\* Two messages never meet on a connection, so communicateWithPeer and the
\* responder may treat one read as one message.
THEOREM LockstepHolds == Spec => []Lockstep
  <1>1. ConnInv => Lockstep
    <2> SUFFICES ASSUME ConnInv, NEW n \in Node PROVE InFlight(n) <= 1
      BY DEF Lockstep
    <2>1. Wire(n)
      BY DEF ConnInv, WireInv
    <2>2. CASE req[n] # <<>>
      <3>1. PICK r \in Request : req[n] = <<r>>
        BY <2>1, <2>2 DEF Wire
      <3>2. rsp[n] = <<>> /\ rpc[Peer(n)] = "read"
        BY <2>1, <2>2 DEF Wire
      <3>3. QED BY <3>1, <3>2 DEF InFlight
    <2>3. CASE req[n] = <<>> /\ rsp[n] # <<>>
      <3>1. PICK t \in Text : rsp[n] = <<t>>
        BY <2>1, <2>3 DEF Wire
      <3>2. rpc[Peer(n)] = "read"
        BY <2>1, <2>3 DEF Wire
      <3>3. QED BY <2>3, <3>1, <3>2 DEF InFlight
    <2>4. CASE req[n] = <<>> /\ rsp[n] = <<>>
      BY <2>4 DEF InFlight
    <2>5. QED BY <2>2, <2>3, <2>4
  <1>2. QED BY <1>1, ConnInvariant, PTL

\* Every reply reaches the request it answers: an acknowledgement is never
\* taken for a page, nor a page for an acknowledgement.
THEOREM ReplyMatchesRequestHolds == Spec => []ReplyMatchesRequest
  <1>1. ConnInv => ReplyMatchesRequest
    BY DEF ConnInv, WireInv, Wire, MatchInv, Match, Waiting, ReplyMatchesRequest
  <1>2. QED BY <1>1, ConnInvariant, PTL


----------------------------------------------------------------------------
(* Two owners only while an invalidation is under way. *)

BothModified(p) == \A n \in Node : alive[n] /\ msi[n][p] = "m"

Owner(p) == BothModified(p) => \E n \in Node : InvalidationUnderWay(n, p)

LEMMA OwnerIsSingleOwner == SingleOwner <=> \A p \in Page : Owner(p)
  BY DEF SingleOwner, Owner, BothModified, Node

\* An invalidation under way stays under way when its three places are left
\* alone: main's pc, the request on the wire, and the responder's pc.
LEMMA OwnerFrame ==
  ASSUME NEW p \in Page, Owner(p),
         BothModified(p)' => BothModified(p),
         \A n \in Node :
           /\ pc[n] = "send" => pc'[n] = "send" /\ cur'[n] = cur[n]
           /\ req[n] # <<>> => req'[n] = req[n]
           /\ rpc[n] = "inval" => rpc'[n] = "inval" /\ rpage'[n] = rpage[n]
  PROVE  Owner(p)'
  BY PeerFacts DEF Owner, InvalidationUnderWay

\* Main steps other than transitionStateOnWrite's.
LEMMA OwnerMain ==
  ASSUME ConnInv, NEW p \in Page, Owner(p), NEW n \in Node,
         \/ Command(n) \/ TouchPage(n) \/ StatusValid(n) \/ StatusInvalid(n)
         \/ Fetch(n) \/ ReceivePage(n) \/ ReceiveNull(n) \/ ReceiveEof(n)
         \/ CopyFirst(n) \/ CopyRest(n) \/ MarkShared(n) \/ ReceiveAck(n)
         \/ PrintPage(n)
  PROVE  Owner(p)'
  <1> USE DEF ConnInv, TypeInv, TypeOK
  <1>1. /\ UNCHANGED <<alive, rpc, rpage>>
        /\ pc[n] # "send"
        /\ \A k \in Node \ {n} : pc'[k] = pc[k] /\ cur'[k] = cur[k]
    <2>1. CASE Command(n)
      BY <2>1 DEF Command, ReadCommand, WriteCommand, MayStart, Main, Goto,
         responderVars
    <2>2. CASE ReceiveAck(n) \/ PrintPage(n)
      <3>1. NextPage(n) /\ pc[n] # "send" /\ UNCHANGED <<alive, rpc, rpage>>
        BY <2>2 DEF ReceiveAck, PrintPage, Main, responderVars
      <3>2. QED BY <3>1 DEF NextPage, Goto
    <2>3. CASE \/ TouchPage(n) \/ StatusValid(n) \/ StatusInvalid(n) \/ Fetch(n)
               \/ ReceivePage(n) \/ ReceiveNull(n) \/ ReceiveEof(n)
               \/ CopyFirst(n) \/ CopyRest(n) \/ MarkShared(n)
      BY <2>3 DEF TouchPage, StatusValid, StatusInvalid, Fetch, ReceivePage,
         ReceiveNull, ReceiveEof, CopyFirst, CopyRest, MarkShared, Main, Goto,
         responderVars
    <2>4. QED BY <2>1, <2>2, <2>3
  <1>2. BothModified(p)' => BothModified(p)
    <2>1. CASE MarkShared(n)
      BY <1>1, <2>1 DEF BothModified, MarkShared
    <2>2. CASE ~MarkShared(n)
      <3>1. msi' = msi
        BY <2>2 DEF Command, ReadCommand, WriteCommand, ReceiveAck, PrintPage,
           TouchPage, StatusValid, StatusInvalid, Fetch, ReceivePage,
           ReceiveNull, ReceiveEof, CopyFirst, CopyRest
      <3>2. QED BY <1>1, <3>1 DEF BothModified
    <2>3. QED BY <2>1, <2>2
  <1>3. \A k \in Node : req[k] # <<>> => req'[k] = req[k]
    <2>1. CASE Fetch(n)
      <3>1. alive[n] /\ ~Waiting(n)
        BY <2>1 DEF Fetch, Main, Waiting
      <3>2. alive[Peer(n)] => req[n] = <<>>
        BY <3>1 DEF WireInv, Wire
      <3>3. SendRequest(n, "read")
        BY <2>1 DEF Fetch
      <3>4. QED BY <3>2, <3>3 DEF SendRequest
    <2>2. CASE ~Fetch(n)
      BY <2>2 DEF Command, ReadCommand, WriteCommand, ReceiveAck, PrintPage,
         TouchPage, StatusValid, StatusInvalid, ReceivePage, ReceiveNull,
         ReceiveEof, CopyFirst, CopyRest, MarkShared
    <2>3. QED BY <2>1, <2>2
  <1>4. QED BY <1>1, <1>2, <1>3, OwnerFrame

\* transitionStateOnWrite: the second M copy is born together with the duty to
\* invalidate the first, and the duty passes to the request.
LEMMA OwnerWrite ==
  ASSUME ConnInv, NEW p \in Page, Owner(p), NEW n \in Node,
         MarkModified(n) \/ SendInvalidate(n)
  PROVE  Owner(p)'
  <1> USE DEF ConnInv, TypeInv, TypeOK
  <1>1. CASE MarkModified(n)
    <2>1. /\ UNCHANGED <<alive, rpc, rpage, req, cur>>
          /\ pc[n] = "mark" /\ pc'[n] = "send"
          /\ \A k \in Node \ {n} : pc'[k] = pc[k]
          /\ msi' = [msi EXCEPT ![n][cur[n]] = StateOnWrite(@)]
      BY <1>1 DEF MarkModified, Main, Goto, responderVars
    <2>2. CASE cur[n] = p
      BY <2>1, <2>2 DEF Owner, InvalidationUnderWay
    <2>3. CASE cur[n] # p
      <3>1. \A k \in Node : msi'[k][p] = msi[k][p]
        BY <2>1, <2>3
      <3>2. BothModified(p)' => BothModified(p)
        BY <2>1, <3>1 DEF BothModified
      <3>3. QED BY <2>1, <3>2, OwnerFrame
    <2>4. QED BY <2>2, <2>3
  <1>2. CASE SendInvalidate(n)
    <2>1. /\ UNCHANGED <<msi, alive, rpc, rpage, cur>>
          /\ alive[n] /\ pc[n] = "send" /\ ~Waiting(n)
          /\ \A k \in Node \ {n} : pc'[k] = pc[k]
          /\ SendRequest(n, "inval")
      BY <1>2 DEF SendInvalidate, Main, Goto, responderVars, Waiting
    <2> SUFFICES ASSUME BothModified(p)'
                 PROVE  \E k \in Node : InvalidationUnderWay(k, p)'
      BY DEF Owner
    <2>2. BothModified(p) /\ alive[Peer(n)]
      BY <2>1, PeerFacts DEF BothModified
    <2>3. req[n] = <<>>
      BY <2>1, <2>2 DEF WireInv, Wire
    <2>4. PICK u \in Node : InvalidationUnderWay(u, p)
      BY <2>2 DEF Owner
    <2>5. CASE pc[u] = "send" /\ cur[u] = p /\ u = n
      <3> DEFINE r == [page |-> p, op |-> "inval"]
      <3>1. req' = [req EXCEPT ![n] = Append(@, r)]
        BY <2>1, <2>2, <2>5 DEF SendRequest
      <3> HIDE DEF r
      <3>2. Append(req[n], r) = <<r>>
        BY <2>3
      <3>3. req'[n] = <<r>>
        BY <3>1, <3>2
      <3>4. req'[n] # <<>> /\ Head(req'[n]) = r
        BY <3>3
      <3>5. QED BY <3>4 DEF InvalidationUnderWay, r
    <2>6. CASE pc[u] = "send" /\ cur[u] = p /\ u # n
      BY <2>1, <2>6 DEF InvalidationUnderWay
    <2>7. CASE req[u] # <<>> /\ Head(req[u]) = [page |-> p, op |-> "inval"]
      <3>1. req'[u] = req[u]
        BY <2>1, <2>2, <2>3, <2>7 DEF SendRequest
      <3>2. QED BY <2>7, <3>1 DEF InvalidationUnderWay
    <2>8. CASE rpc[Peer(u)] = "inval" /\ rpage[Peer(u)] = p
      BY <2>1, <2>8 DEF InvalidationUnderWay
    <2>9. QED BY <2>4, <2>5, <2>6, <2>7, <2>8 DEF InvalidationUnderWay
  <1>3. QED BY <1>1, <1>2

\* The responder: the request becomes the invalidation, which ends with one
\* owner less.
LEMMA OwnerResponder ==
  ASSUME ConnInv, NEW p \in Page, Owner(p), NEW n \in Node, ResponderStep(n)
  PROVE  Owner(p)'
  <1> USE DEF ConnInv, TypeInv, TypeOK
  <1>1. UNCHANGED <<alive, pc, cur>>
    BY DEF ResponderStep, ReadRequest, Invalidate, MadviseDontNeed, GetResponse,
       TransitionStateOnRead, FormatReply, SendReply, mainVars
  <1>2. CASE ReadRequest(n)
    <2> SUFFICES ASSUME BothModified(p)'
                 PROVE  \E k \in Node : InvalidationUnderWay(k, p)'
      BY DEF Owner
    <2>1. BothModified(p)
      BY <1>1, <1>2 DEF ReadRequest, BothModified
    <2>2. PICK u \in Node : InvalidationUnderWay(u, p)
      BY <2>1 DEF Owner
    <2>3. /\ rpc[n] = "read" /\ req' = [req EXCEPT ![Peer(n)] = Tail(@)]
          /\ rpage' = [rpage EXCEPT ![n] = Head(req[Peer(n)]).page]
          /\ rpc' = [rpc EXCEPT ![n] = IF Head(req[Peer(n)]).op = "inval"
                                       THEN "inval" ELSE "getResponse"]
      BY <1>2 DEF ReadRequest, Resp, RGoto
    <2>4. CASE pc[u] = "send" /\ cur[u] = p
      BY <1>1, <2>4 DEF InvalidationUnderWay
    <2>5. CASE req[u] # <<>> /\ Head(req[u]) = [page |-> p, op |-> "inval"]
      <3>1. CASE u = Peer(n)
        <4>1. rpc'[n] = "inval" /\ rpage'[n] = p
          BY <2>3, <2>5, <3>1
        <4>2. QED BY <3>1, <4>1, PeerFacts DEF InvalidationUnderWay
      <3>2. CASE u # Peer(n)
        <4>1. req'[u] = req[u]
          BY <2>3, <3>2
        <4>2. QED BY <2>5, <4>1 DEF InvalidationUnderWay
      <3>3. QED BY <3>1, <3>2
    <2>6. CASE rpc[Peer(u)] = "inval" /\ rpage[Peer(u)] = p
      <3>1. Peer(u) # n
        BY <2>3, <2>6
      <3>2. rpc'[Peer(u)] = "inval" /\ rpage'[Peer(u)] = p
        BY <2>3, <2>6, <3>1, PeerFacts
      <3>3. QED BY <3>2 DEF InvalidationUnderWay
    <2>7. QED BY <2>2, <2>4, <2>5, <2>6 DEF InvalidationUnderWay
  <1>3. CASE Invalidate(n)
    <2>1. /\ UNCHANGED <<req, rpage>>
          /\ \A k \in Node \ {n} : rpc'[k] = rpc[k]
          /\ msi' = [msi EXCEPT ![n][rpage[n]] = StateOnInvalidate(@)]
      BY <1>3 DEF Invalidate, RGoto
    <2>2. CASE rpage[n] = p
      <3>1. msi'[n][p] = "i"
        BY <2>1, <2>2 DEF StateOnInvalidate
      <3>2. QED BY <3>1 DEF Owner, BothModified
    <2>3. CASE rpage[n] # p
      <3>1. \A k \in Node : msi'[k][p] = msi[k][p]
        BY <2>1, <2>3
      <3>2. BothModified(p)' => BothModified(p)
        BY <1>1, <3>1 DEF BothModified
      <3>3. ASSUME NEW k \in Node, InvalidationUnderWay(k, p)
            PROVE  InvalidationUnderWay(k, p)'
        <4>1. rpc[Peer(k)] = "inval" /\ rpage[Peer(k)] = p =>
                rpc'[Peer(k)] = "inval"
          BY <2>1, <2>3, PeerFacts
        <4>2. QED BY <1>1, <2>1, <3>3, <4>1 DEF InvalidationUnderWay
      <3>4. QED BY <3>2, <3>3 DEF Owner
    <2>4. QED BY <2>2, <2>3
  <1>4. CASE \/ MadviseDontNeed(n) \/ GetResponse(n) \/ TransitionStateOnRead(n)
             \/ FormatReply(n) \/ SendReply(n)
    <2>1. /\ UNCHANGED req
          /\ rpc[n] # "inval"
          /\ \A k \in Node \ {n} : rpc'[k] = rpc[k] /\ rpage'[k] = rpage[k]
      BY <1>4 DEF MadviseDontNeed, GetResponse, TransitionStateOnRead,
         FormatReply, SendReply, Resp, RGoto
    <2>2. BothModified(p)' => BothModified(p)
      <3>1. CASE GetResponse(n)
        BY <1>1, <3>1 DEF GetResponse, StateAfterResponse, BothModified
      <3>2. CASE TransitionStateOnRead(n)
        BY <1>1, <3>2 DEF TransitionStateOnRead, StateOnRead, BothModified
      <3>3. CASE MadviseDontNeed(n) \/ FormatReply(n) \/ SendReply(n)
        BY <1>1, <3>3 DEF MadviseDontNeed, FormatReply, SendReply, BothModified
      <3>4. QED BY <1>4, <3>1, <3>2, <3>3
    <2>3. QED BY <1>1, <2>1, <2>2, OwnerFrame
  <1>5. QED BY <1>2, <1>3, <1>4 DEF ResponderStep

LEMMA OwnerNext ==
  ASSUME ConnInv, [Next]_vars, NEW p \in Page, Owner(p)
  PROVE  Owner(p)'
  <1>1. CASE UNCHANGED vars
    <2>1. BothModified(p)' => BothModified(p)
      BY <1>1 DEF BothModified, vars
    <2>2. QED
      BY <1>1, <2>1, OwnerFrame DEF vars, mainVars, responderVars
  <1>2. ASSUME NEW n \in Node, FaultStep(n) PROVE Owner(p)'
    <2>1. UNCHANGED <<msi, alive, pc, cur, req, rpc, rpage>>
      BY <1>2 DEF FaultStep, HandleFault, mainVars, responderVars
    <2>2. BothModified(p)' => BothModified(p)
      BY <2>1 DEF BothModified
    <2>3. QED BY <2>1, <2>2, OwnerFrame
  <1>3. ASSUME NEW n \in Node, Exit(n) \/ PeerLost(n) PROVE Owner(p)'
    <2>1. alive' = [alive EXCEPT ![n] = FALSE]
      BY <1>3 DEF Exit, PeerLost, Die
    <2>2. ~alive'[n]
      BY <2>1 DEF ConnInv, TypeInv, TypeOK
    <2>3. QED BY <2>2 DEF Owner, BothModified
  <1>4. ASSUME NEW n \in Node, MainStep(n) PROVE Owner(p)'
    BY <1>4, OwnerMain, OwnerWrite DEF MainStep
  <1>5. QED
    BY <1>1, <1>2, <1>3, <1>4, OwnerMain, OwnerResponder DEF Next

\* MSI's single-writer rule with both users active: two M copies of a page
\* exist only until an invalidation already on its way arrives.
THEOREM SingleOwnerHolds == Spec => []SingleOwner
  <1> DEFINE Owned == \A p \in Page : Owner(p)
  <1>1. Init => Owned
    BY DEF Init, Owner, BothModified, Node
  <1>2. ConnInv /\ Owned /\ [Next]_vars => Owned'
    BY OwnerNext
  <1>3. Owned => SingleOwner
    BY OwnerIsSingleOwner
  <1>4. QED BY <1>1, <1>2, <1>3, ConnInvariant, PTL DEF Spec
=============================================================================
