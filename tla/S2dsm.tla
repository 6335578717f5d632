------------------------------- MODULE S2dsm -------------------------------
(***************************************************************************)
(* The paired s2dsm processes of "Assignment 3 User faults/Part 3/s2dsm.c" *)
(* from the moment both run their command loop.  Each process has a main   *)
(* thread (the user's r and w commands), a responder thread (the peer's    *)
(* requests) and a userfaultfd thread; they share msi_array and the mapped *)
(* pages without any lock.  A process talks to its peer's responder over   *)
(* remote_socket and reads the reply from the same socket.                 *)
(*                                                                         *)
(* Every access to msi_array, every page access that can fault, every send *)
(* and every read is a step of its own.  A page is abstracted to the       *)
(* string that it holds.                                                   *)
(***************************************************************************)
EXTENDS Integers, Sequences

CONSTANTS
  A, B,       \* the two processes
  NumPages,   \* num_pages
  Message,    \* the texts a user may type
  NullText,   \* the four-character text "NULL"
  Serial,     \* TRUE: the users of A and B never overlap two commands
  MayExit     \* the processes their user may kill

Node == {A, B}
Peer(n) == IF n = A THEN B ELSE A
Page == 0 .. NumPages - 1

\* What a page or a socket buffer can hold besides a message.
Absent  == "absent"    \* the page is not mapped: the next access faults
Empty   == "empty"     \* the string "", a page filled with zeros
Torn    == "torn"      \* a partly copied message
Success == "Success"   \* the responder's acknowledgement
PagePtr == "pageptr"   \* getResponse's result: the address of the page

Text == Message \cup {NullText, Empty, Torn, Success}

ASSUME NodeAssumption == A # B
\* msi_array has 100 slots and fillWithInvalid also writes slot num_pages.
ASSUME NumPagesAssumption == NumPages \in 1 .. 99
ASSUME MessageAssumption ==
  (Message \cup {NullText}) \cap {Absent, Empty, Torn, Success, PagePtr} = {}
ASSUME EnvironmentAssumption == Serial \in BOOLEAN /\ MayExit \subseteq Node

VARIABLES
  msi,          \* msi[n][p]: msi_array of process n
  page,         \* page[n][p]: the string in n's copy of page p
  pc,           \* where n's main thread is
  op,           \* the function the main thread is in
  request_page, \* the page the user asked for, -1 for all
  cur,          \* the loop variable over pages
  buf,          \* the text being copied into a page
  page_output,  \* the text about to be printed
  rpc,          \* where n's responder thread is
  rpage,        \* the page of the request it is serving
  reply,        \* the reply it is building
  req,          \* req[n]: bytes on the way from n to its peer's responder
  rsp,          \* rsp[n]: bytes on the way back to n
  alive         \* the process runs

mainVars == <<pc, op, request_page, cur, buf, page_output>>
responderVars == <<rpc, rpage, reply>>
vars == <<msi, page, mainVars, responderVars, req, rsp, alive>>

Request == [page : Page, op : {"read", "inval"}]

TypeOK ==
  /\ msi \in [Node -> [Page -> {"m", "s", "i"}]]
  /\ page \in [Node -> [Page -> Text \cup {Absent}]]
  /\ pc \in [Node -> {"idle", "touch", "status", "fetch", "copy", "copyRest",
                      "mark", "send", "ack", "print"}]
  /\ op \in [Node -> {"none", "read", "write", "show"}]
  /\ request_page \in [Node -> Page \cup {-1}]
  /\ cur \in [Node -> Page]
  /\ buf \in [Node -> Text]
  /\ page_output \in [Node -> Text]
  /\ rpc \in [Node -> {"read", "inval", "drop", "getResponse", "onRead",
                       "format", "send"}]
  /\ rpage \in [Node -> Page]
  /\ reply \in [Node -> Text \cup {PagePtr}]
  /\ req \in [Node -> Seq(Request)]
  /\ rsp \in [Node -> Seq(Text)]
  /\ alive \in [Node -> BOOLEAN]

\* fillWithInvalid, and threads that have just been created.
Init ==
  /\ msi = [n \in Node |-> [p \in Page |-> "i"]]
  /\ page = [n \in Node |-> [p \in Page |-> Absent]]
  /\ pc = [n \in Node |-> "idle"]
  /\ op = [n \in Node |-> "none"]
  /\ request_page = [n \in Node |-> -1]
  /\ cur = [n \in Node |-> 0]
  /\ buf = [n \in Node |-> Empty]
  /\ page_output = [n \in Node |-> Empty]
  /\ rpc = [n \in Node |-> "read"]
  /\ rpage = [n \in Node |-> 0]
  /\ reply = [n \in Node |-> Empty]
  /\ req = [n \in Node |-> <<>>]
  /\ rsp = [n \in Node |-> <<>>]
  /\ alive = [n \in Node |-> TRUE]

----------------------------------------------------------------------------
(* The decisions the handlers take, one operator each. *)

FirstPage(r) == IF r = -1 THEN 0 ELSE r
\* Mutant: the loop bound of a command for all pages is one too high.
LastPageOneTooFar(r) == IF r = -1 THEN NumPages ELSE r
LastPage(r) == IF r = -1 THEN NumPages - 1 ELSE r

\* transitionStateOnWrite stores m whatever the state was.
StateOnWrite(st) == "m"

\* getResponse downgrades m, and falls through to the page's address.
StateAfterResponse(st) == IF st = "m" THEN "s" ELSE st
\* Mutants: getResponse with a break after case m; with "" for "NULL".
ResponseNoFallThrough(st) == IF st = "s" THEN PagePtr ELSE NullText
ResponseEmptyString(st) == IF st = "i" THEN Empty ELSE PagePtr
Response(st) == IF st = "i" THEN NullText ELSE PagePtr

\* transitionStateOnRead, called after getResponse on the array as it is then.
StateOnRead(st) == IF st = "m" THEN "s" ELSE st

\* Mutants: the responder only drops the page; an owner ignores the request;
\* the madvise is missing.
StateOnInvalidateKept(st) == st
StateOnInvalidateOwnerWins(st) == IF st = "m" THEN st ELSE "i"
DropPageMissing(text) == text

\* The responder's answer to an invalidation, and its madvise.
StateOnInvalidate(st) == "i"
DropPage(text) == Absent

\* send(.., strlen(message)) puts nothing on the wire for an empty string.
Bytes(text) == IF text = Empty THEN <<>> ELSE <<text>>

\* The first bytes of the copy loop, then the rest and the final '\0'.  If the
\* page was dropped in between, the rest lands behind a leading '\0'.
CopyStart(text) == IF text = Empty THEN Empty ELSE Torn
CopyEnd(old, text) == IF old = Torn THEN text ELSE old

----------------------------------------------------------------------------
(* Sockets and process exit. *)

\* exit(), a fatal signal or the user's ^C: the bytes on their way to n are
\* lost, the ones n has sent stay readable.
Die(n) ==
  /\ alive' = [alive EXCEPT ![n] = FALSE]
  /\ req' = [req EXCEPT ![Peer(n)] = <<>>]
  /\ rsp' = [rsp EXCEPT ![n] = <<>>]
  /\ UNCHANGED <<msi, page, mainVars, responderVars>>

\* Mutant: the request is sent a second time.
SendRequestTwice(n, o) ==
  req' = IF alive[Peer(n)]
         THEN LET r == [page |-> cur[n], op |-> o]
              IN  [req EXCEPT ![n] = @ \o <<r, r>>]
         ELSE req

\* communicateWithPeer's send.  A send to a peer that is gone has no effect or
\* raises SIGPIPE (PeerLost).
SendRequest(n, o) ==
  req' = IF alive[Peer(n)]
         THEN [req EXCEPT ![n] = Append(@, [page |-> cur[n], op |-> o])]
         ELSE req

\* Mutant: end of file is not seen.
AtEofNever(n) == FALSE

\* communicateWithPeer's read returns 0: the peer is gone and all it sent has
\* been read.
AtEof(n) == ~alive[Peer(n)] /\ rsp[n] = <<>>

----------------------------------------------------------------------------
(* The main thread.  printPageContents is op "read" (fetch = true) or      *)
(* "show" (fetch = false, after a write); updatePageContents is "write", or *)
(* part of "read" when it stores a fetched page.                           *)

Main(n, from) == alive[n] /\ pc[n] = from

Goto(n, to) == pc' = [pc EXCEPT ![n] = to]

\* The user types a command at the prompt.
MayStart(n) ==
  /\ Main(n, "idle")
  /\ Serial /\ alive[Peer(n)] => pc[Peer(n)] = "idle"

ReadCommand(n, r) ==
  /\ MayStart(n)
  /\ op' = [op EXCEPT ![n] = "read"]
  /\ request_page' = [request_page EXCEPT ![n] = r]
  /\ cur' = [cur EXCEPT ![n] = FirstPage(r)]
  /\ Goto(n, "touch")
  /\ UNCHANGED <<msi, page, buf, page_output, responderVars, req, rsp, alive>>

WriteCommand(n, r, v) ==
  /\ MayStart(n)
  /\ op' = [op EXCEPT ![n] = "write"]
  /\ request_page' = [request_page EXCEPT ![n] = r]
  /\ cur' = [cur EXCEPT ![n] = FirstPage(r)]
  /\ buf' = [buf EXCEPT ![n] = v]
  /\ Goto(n, "copy")
  /\ UNCHANGED <<msi, page, page_output, responderVars, req, rsp, alive>>

\* The sprintf at the head of printPageContents's loop, before the state is
\* looked at.
TouchPage(n) ==
  /\ Main(n, "touch")
  /\ page[n][cur[n]] # Absent
  /\ page_output' = [page_output EXCEPT ![n] = page[n][cur[n]]]
  /\ Goto(n, "status")
  /\ UNCHANGED <<msi, page, op, request_page, cur, buf, responderVars,
                 req, rsp, alive>>

\* The switch on msi_array[j]: cases m and s.
StatusValid(n) ==
  /\ Main(n, "status")
  /\ msi[n][cur[n]] # "i"
  /\ Goto(n, "print")
  /\ UNCHANGED <<msi, page, op, request_page, cur, buf, page_output,
                 responderVars, req, rsp, alive>>

\* Case i without fetch: the empty string is shown.
StatusInvalid(n) ==
  /\ Main(n, "status")
  /\ msi[n][cur[n]] = "i" /\ op[n] = "show"
  /\ page_output' = [page_output EXCEPT ![n] = Empty]
  /\ Goto(n, "print")
  /\ UNCHANGED <<msi, page, op, request_page, cur, buf, responderVars,
                 req, rsp, alive>>

\* Case i with fetch: communicateWithPeer(j, readOp).  Looking at the state and
\* sending are one step: only this thread ever leaves state i.
Fetch(n) ==
  /\ Main(n, "status")
  /\ msi[n][cur[n]] = "i" /\ op[n] = "read"
  /\ SendRequest(n, "read")
  /\ Goto(n, "fetch")
  /\ UNCHANGED <<msi, page, op, request_page, cur, buf, page_output,
                 responderVars, rsp, alive>>

\* The reply is a page to store.
ReceivePage(n) ==
  /\ Main(n, "fetch")
  /\ rsp[n] # <<>>
  /\ Head(rsp[n]) # NullText
  /\ rsp' = [rsp EXCEPT ![n] = Tail(@)]
  /\ buf' = [buf EXCEPT ![n] = Head(rsp[n])]
  /\ Goto(n, "copy")
  /\ UNCHANGED <<msi, page, op, request_page, cur, page_output,
                 responderVars, req, alive>>

\* The reply is "NULL": the page goes back to being unmapped.
ReceiveNull(n) ==
  /\ Main(n, "fetch")
  /\ rsp[n] # <<>>
  /\ Head(rsp[n]) = NullText
  /\ rsp' = [rsp EXCEPT ![n] = Tail(@)]
  /\ page' = [page EXCEPT ![n][cur[n]] = Absent]
  /\ page_output' = [page_output EXCEPT ![n] = Empty]
  /\ Goto(n, "print")
  /\ UNCHANGED <<msi, op, request_page, cur, buf, responderVars, req, alive>>

\* End of file reads as the empty string, which is stored like a page.
ReceiveEof(n) ==
  /\ Main(n, "fetch")
  /\ AtEof(n)
  /\ buf' = [buf EXCEPT ![n] = Empty]
  /\ Goto(n, "copy")
  /\ UNCHANGED <<msi, page, op, request_page, cur, page_output,
                 responderVars, req, rsp, alive>>

\* updatePageContents's copy loop; every store may fault.
CopyFirst(n) ==
  /\ Main(n, "copy")
  /\ page[n][cur[n]] # Absent
  /\ page' = [page EXCEPT ![n][cur[n]] = CopyStart(buf[n])]
  /\ Goto(n, "copyRest")
  /\ UNCHANGED <<msi, op, request_page, cur, buf, page_output, responderVars,
                 req, rsp, alive>>

CopyRest(n) ==
  /\ Main(n, "copyRest")
  /\ page[n][cur[n]] # Absent
  /\ page' = [page EXCEPT ![n][cur[n]] = CopyEnd(@, buf[n])]
  /\ Goto(n, "mark")
  /\ UNCHANGED <<msi, op, request_page, cur, buf, page_output, responderVars,
                 req, rsp, alive>>

\* After a fetch: msi_array[j] = s, and the received text is what is shown.
MarkShared(n) ==
  /\ Main(n, "mark") /\ op[n] = "read"
  /\ msi' = [msi EXCEPT ![n][cur[n]] = "s"]
  /\ page_output' = [page_output EXCEPT ![n] = buf[n]]
  /\ Goto(n, "print")
  /\ UNCHANGED <<page, op, request_page, cur, buf, responderVars, req, rsp,
                 alive>>

\* transitionStateOnWrite: the state, then the invalidation, then its answer.
MarkModified(n) ==
  /\ Main(n, "mark") /\ op[n] = "write"
  /\ msi' = [msi EXCEPT ![n][cur[n]] = StateOnWrite(@)]
  /\ Goto(n, "send")
  /\ UNCHANGED <<page, op, request_page, cur, buf, page_output, responderVars,
                 req, rsp, alive>>

SendInvalidate(n) ==
  /\ Main(n, "send")
  /\ SendRequest(n, "inval")
  /\ Goto(n, "ack")
  /\ UNCHANGED <<msi, page, op, request_page, cur, buf, page_output,
                 responderVars, rsp, alive>>

\* The end of a loop's iteration: the next page, or printPageContents after a
\* write's last page, or back to the prompt, where the locals are forgotten.
NextPage(n) ==
  \/ /\ cur[n] < LastPage(request_page[n])
     /\ cur' = [cur EXCEPT ![n] = @ + 1]
     /\ Goto(n, IF op[n] = "write" THEN "copy" ELSE "touch")
     /\ UNCHANGED <<op, request_page, buf, page_output>>
  \/ /\ cur[n] = LastPage(request_page[n])
     /\ op[n] = "write"
     /\ op' = [op EXCEPT ![n] = "show"]
     /\ cur' = [cur EXCEPT ![n] = FirstPage(request_page[n])]
     /\ Goto(n, "touch")
     /\ UNCHANGED <<request_page, buf, page_output>>
  \/ /\ cur[n] = LastPage(request_page[n])
     /\ op[n] # "write"
     /\ op' = [op EXCEPT ![n] = "none"]
     /\ cur' = [cur EXCEPT ![n] = 0]
     /\ request_page' = [request_page EXCEPT ![n] = -1]
     /\ buf' = [buf EXCEPT ![n] = Empty]
     /\ page_output' = [page_output EXCEPT ![n] = Empty]
     /\ Goto(n, "idle")

\* Mutant: the acknowledgement is not waited for.
ReceiveAckSkipped(n) ==
  /\ Main(n, "ack")
  /\ NextPage(n)
  /\ UNCHANGED <<msi, page, responderVars, req, rsp, alive>>

\* The answer to an invalidation is read and thrown away.
ReceiveAck(n) ==
  /\ Main(n, "ack")
  /\ \/ rsp[n] # <<>> /\ rsp' = [rsp EXCEPT ![n] = Tail(@)]
     \/ AtEof(n) /\ UNCHANGED rsp
  /\ NextPage(n)
  /\ UNCHANGED <<msi, page, responderVars, req, alive>>

PrintPage(n) ==
  /\ Main(n, "print")
  /\ NextPage(n)
  /\ UNCHANGED <<msi, page, responderVars, req, rsp, alive>>

----------------------------------------------------------------------------
(* The responder thread. *)

Resp(n, from) == alive[n] /\ rpc[n] = from

RGoto(n, to) == rpc' = [rpc EXCEPT ![n] = to]

\* read(new_socket) and the parsing of "page-operation".  At end of file the
\* loop spins without effect.
ReadRequest(n) ==
  /\ Resp(n, "read")
  /\ req[Peer(n)] # <<>>
  /\ LET r == Head(req[Peer(n)]) IN
       /\ rpage' = [rpage EXCEPT ![n] = r.page]
       /\ RGoto(n, IF r.op = "inval" THEN "inval" ELSE "getResponse")
  /\ req' = [req EXCEPT ![Peer(n)] = Tail(@)]
  /\ UNCHANGED <<msi, page, mainVars, reply, rsp, alive>>

Invalidate(n) ==
  /\ Resp(n, "inval")
  /\ msi' = [msi EXCEPT ![n][rpage[n]] = StateOnInvalidate(@)]
  /\ RGoto(n, "drop")
  /\ UNCHANGED <<page, mainVars, rpage, reply, req, rsp, alive>>

\* Mutant: no answer is written for an invalidation.
MadviseNoAnswer(n) ==
  /\ Resp(n, "drop")
  /\ page' = [page EXCEPT ![n][rpage[n]] = DropPage(@)]
  /\ RGoto(n, "send")
  /\ UNCHANGED <<msi, mainVars, rpage, reply, req, rsp, alive>>

\* madvise(MADV_DONTNEED) and the answer.
MadviseDontNeed(n) ==
  /\ Resp(n, "drop")
  /\ page' = [page EXCEPT ![n][rpage[n]] = DropPage(@)]
  /\ reply' = [reply EXCEPT ![n] = Success]
  /\ RGoto(n, "send")
  /\ UNCHANGED <<msi, mainVars, rpage, req, rsp, alive>>

GetResponse(n) ==
  /\ Resp(n, "getResponse")
  /\ reply' = [reply EXCEPT ![n] = Response(msi[n][rpage[n]])]
  /\ msi' = [msi EXCEPT ![n][rpage[n]] = StateAfterResponse(@)]
  /\ RGoto(n, "onRead")
  /\ UNCHANGED <<page, mainVars, rpage, req, rsp, alive>>

TransitionStateOnRead(n) ==
  /\ Resp(n, "onRead")
  /\ msi' = [msi EXCEPT ![n][rpage[n]] = StateOnRead(@)]
  /\ RGoto(n, "format")
  /\ UNCHANGED <<page, mainVars, rpage, reply, req, rsp, alive>>

\* snprintf reads through the pointer getResponse returned, and may fault.
FormatReply(n) ==
  /\ Resp(n, "format")
  /\ IF reply[n] = PagePtr
     THEN /\ page[n][rpage[n]] # Absent
          /\ reply' = [reply EXCEPT ![n] = page[n][rpage[n]]]
     ELSE UNCHANGED reply
  /\ RGoto(n, "send")
  /\ UNCHANGED <<msi, page, mainVars, rpage, req, rsp, alive>>

\* The request's locals are forgotten with it.
SendReply(n) ==
  /\ Resp(n, "send")
  /\ rsp' = IF alive[Peer(n)]
            THEN [rsp EXCEPT ![Peer(n)] = @ \o Bytes(reply[n])]
            ELSE rsp
  /\ rpage' = [rpage EXCEPT ![n] = 0]
  /\ reply' = [reply EXCEPT ![n] = Empty]
  /\ RGoto(n, "read")
  /\ UNCHANGED <<msi, page, mainVars, req, alive>>

----------------------------------------------------------------------------
(* The userfaultfd thread, and processes that end. *)

\* The threads of n that are blocked on a fault of page p.
Faulting(n, p) ==
  /\ page[n][p] = Absent
  /\ \/ pc[n] \in {"touch", "copy", "copyRest"} /\ cur[n] = p
     \/ rpc[n] = "format" /\ reply[n] = PagePtr /\ rpage[n] = p

\* UFFDIO_COPY installs a page of zeros and wakes every thread that waits.
HandleFault(n, p) ==
  /\ alive[n]
  /\ Faulting(n, p)
  /\ page' = [page EXCEPT ![n][p] = Empty]
  /\ UNCHANGED <<msi, mainVars, responderVars, req, rsp, alive>>

\* The user kills the process.
Exit(n) == n \in MayExit /\ alive[n] /\ Die(n)

\* A send to a peer that is gone raises SIGPIPE, a read from it fails and
\* calls exit; SendRequest, ReceiveEof and SendReply are the other outcomes.
PeerLost(n) ==
  /\ alive[n] /\ ~alive[Peer(n)]
  /\ \/ pc[n] \in {"status", "fetch", "send", "ack"}
     \/ rpc[n] \in {"read", "send"}
  /\ Die(n)

----------------------------------------------------------------------------
(* The whole system. *)

Command(n) ==
  \E r \in Page \cup {-1} :
    ReadCommand(n, r) \/ \E v \in Message : WriteCommand(n, r, v)

MainStep(n) ==
  \/ TouchPage(n) \/ StatusValid(n) \/ StatusInvalid(n) \/ Fetch(n)
  \/ ReceivePage(n) \/ ReceiveNull(n) \/ ReceiveEof(n)
  \/ CopyFirst(n) \/ CopyRest(n) \/ MarkShared(n) \/ MarkModified(n)
  \/ SendInvalidate(n) \/ ReceiveAck(n) \/ PrintPage(n)

ResponderStep(n) ==
  \/ ReadRequest(n) \/ Invalidate(n) \/ MadviseDontNeed(n)
  \/ GetResponse(n) \/ TransitionStateOnRead(n) \/ FormatReply(n)
  \/ SendReply(n)

FaultStep(n) == \E p \in Page : HandleFault(n, p)

Next ==
  \E n \in Node :
    \/ Command(n) \/ MainStep(n) \/ ResponderStep(n) \/ FaultStep(n)
    \/ Exit(n) \/ PeerLost(n)

Spec == Init /\ [][Next]_vars

\* Threads are scheduled fairly; users and exits are not obliged to happen.
Fairness ==
  \A n \in Node : WF_vars(MainStep(n)) /\ WF_vars(ResponderStep(n))
                  /\ WF_vars(FaultStep(n))

FairSpec == Spec /\ Fairness

----------------------------------------------------------------------------
(* Properties. *)

\* Requests, replies and requests being served on n's connection.
InFlight(n) ==
  Len(req[n]) + Len(rsp[n]) + (IF rpc[Peer(n)] # "read" THEN 1 ELSE 0)

\* communicateWithPeer's raw reads never see two messages run together: a
\* connection carries one request or one reply at a time, whatever the other
\* direction and the other threads do.
Lockstep == \A n \in Node : InFlight(n) <= 1

\* The reply a main thread reads belongs to the request it sent: an
\* acknowledgement answers an invalidation and only that.
ReplyMatchesRequest ==
  \A n \in Node :
    alive[n] /\ rsp[n] # <<>> =>
      /\ pc[n] \in {"fetch", "ack"}
      /\ pc[n] = "ack" <=> Head(rsp[n]) = Success

\* n's invalidation of p has not yet reached the other msi_array.
InvalidationUnderWay(n, p) ==
  \/ pc[n] = "send" /\ cur[n] = p
  \/ req[n] # <<>> /\ Head(req[n]) = [page |-> p, op |-> "inval"]
  \/ rpc[Peer(n)] = "inval" /\ rpage[Peer(n)] = p

\* Two M copies of one page exist only while an invalidation that removes one
\* of them is on its way (transitionStateOnWrite against the responder), even
\* when both users write at once.
SingleOwner ==
  \A p \in Page :
    alive[A] /\ alive[B] /\ msi[A][p] = "m" /\ msi[B][p] = "m" =>
      \E n \in Node : InvalidationUnderWay(n, p)

Quiet(n) == alive[n] /\ pc[n] = "idle"

\* Between commands the two copies agree: an M page is invalid at the peer,
\* two S copies hold the same text, a valid page holds a message a user wrote,
\* and an invalid page is unmapped (what the madvise calls are for).
Coherent ==
  (\A n \in Node : Quiet(n)) =>
    \A n \in Node, p \in Page :
      /\ msi[n][p] = "m" => msi[Peer(n)][p] = "i"
      /\ msi[n][p] # "i" => page[n][p] \in Message
      /\ msi[n][p] = "s" /\ msi[Peer(n)][p] = "s" => page[n][p] = page[Peer(n)][p]
      /\ msi[n][p] = "i" => page[n][p] = Absent

\* A read that shows nothing and stays in state I means that no process has
\* the page (printPageContents's test of the reply against "NULL").
NullShownOnlyIfBothInvalid ==
  \A n \in Node :
    pc[n] = "print" /\ op[n] = "read" /\ msi[n][cur[n]] = "i"
      => msi[Peer(n)][cur[n]] = "i"

\* Every command returns to the prompt, unless its process ends.
OpCompletes ==
  \A n \in Node : pc[n] # "idle" ~> pc[n] = "idle" \/ ~alive[n]

\* n asked for a page whose string was empty: zero bytes were sent for it, and
\* nothing is on its way any more.
Unanswered(n) == pc[n] = "fetch" /\ alive[Peer(n)] /\ InFlight(n) = 0

\* Also when both users act at once and processes are killed, a main thread that
\* waits for its peer goes on, unless its process ends or the page it asked for
\* was empty: no writer misses its acknowledgement, no reader its page, and
\* nobody waits for a peer that is gone.
WaitsEnd ==
  \A n \in Node :
    pc[n] \in {"fetch", "ack"} ~>
      pc[n] \notin {"fetch", "ack"} \/ ~alive[n] \/ Unanswered(n)
=============================================================================
