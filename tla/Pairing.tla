------------------------------ MODULE Pairing ------------------------------
(***************************************************************************)
(* How two s2dsm processes find each other: main of "Assignment 3 User     *)
(* faults/Part 3/s2dsm.c" from its first socket call to the prompt (the    *)
(* same code is in Part 1-2/s2dsm.c).  Each process listens, tries to      *)
(* connect to the other one and waits for the other's connection.  The one *)
(* whose first connect failed is the first process: it asks for the number *)
(* of pages, maps them and sends "len-addr"; the other one reads that      *)
(* message from the connection that will also carry the first's requests.  *)
(* The first command of each process is modelled until its request has     *)
(* reached the peer's responder; S2dsm goes on from there.                 *)
(***************************************************************************)
EXTENDS Integers, Sequences

CONSTANTS
  A, B,        \* the two processes
  PageSize,    \* page_size
  Answers      \* what the user may answer to "How many pages"

Node == {A, B}
Peer(n) == IF n = A THEN B ELSE A

ASSUME NodeAssumption == A # B
ASSUME PageSizeAssumption == PageSize \in Nat \ {0}
\* len = num_pages * page_size stays below 2^64.
ASSUME AnswersAssumption == Answers \subseteq Nat

VARIABLES
  pc,                       \* where main is
  listening,                \* the local port accepts connections
  pending,                  \* a connection of the peer waits to be accepted
  first_connection_failed,
  connected,                \* remote_socket is connected to the peer
  wire,                     \* wire[n]: n's messages that the peer has not read
  num_pages,
  hint                      \* the address given to, or got from, mmap

vars == <<pc, listening, pending, first_connection_failed, connected, wire,
          num_pages, hint>>

\* Addresses: mmap's choice in the first process, and what is left of it when
\* the digits of another message follow.
MapAddr == "addr"
Garbled == "addr and digits"
NoAddr  == "none"

PairMessage == [kind : {"pair"}, len : Nat]
RequestMessage == [kind : {"request"}]

TypeOK ==
  /\ pc \in [Node -> {"listen", "connect", "accept", "reconnect", "ask", "recv",
                      "prompt", "waiting", "heard", "gone"}]
  /\ listening \in [Node -> BOOLEAN]
  /\ pending \in [Node -> BOOLEAN]
  /\ first_connection_failed \in [Node -> BOOLEAN]
  /\ connected \in [Node -> BOOLEAN]
  /\ wire \in [Node -> Seq(PairMessage \cup RequestMessage)]
  /\ num_pages \in [Node -> Nat]
  /\ hint \in [Node -> {MapAddr, Garbled, NoAddr}]

Init ==
  /\ pc = [n \in Node |-> "listen"]
  /\ listening = [n \in Node |-> FALSE]
  /\ pending = [n \in Node |-> FALSE]
  /\ first_connection_failed = [n \in Node |-> FALSE]
  /\ connected = [n \in Node |-> FALSE]
  /\ wire = [n \in Node |-> <<>>]
  /\ num_pages = [n \in Node |-> 0]
  /\ hint = [n \in Node |-> NoAddr]

Goto(n, to) == pc' = [pc EXCEPT ![n] = to]

----------------------------------------------------------------------------
\* Mutant: connect is tried without listening first.
ListenMissing(n) ==
  /\ pc[n] = "listen"
  /\ Goto(n, "connect")
  /\ UNCHANGED <<listening, pending, first_connection_failed, connected, wire,
                 num_pages, hint>>

\* socket, bind and listen: from here on the kernel completes connections.
Listen(n) ==
  /\ pc[n] = "listen"
  /\ listening' = [listening EXCEPT ![n] = TRUE]
  /\ Goto(n, "connect")
  /\ UNCHANGED <<pending, first_connection_failed, connected, wire, num_pages,
                 hint>>

\* connect: succeeds exactly when the peer listens, without its help.
ConnectTo(n) ==
  /\ connected' = [connected EXCEPT ![n] = listening[Peer(n)]]
  /\ pending' = [pending EXCEPT ![Peer(n)] = listening[Peer(n)]]

FirstConnect(n) ==
  /\ pc[n] = "connect"
  /\ ConnectTo(n)
  /\ first_connection_failed' =
       [first_connection_failed EXCEPT ![n] = ~listening[Peer(n)]]
  /\ Goto(n, "accept")
  /\ UNCHANGED <<listening, wire, num_pages, hint>>

\* Mutant: the outcome of the first connect is forgotten.
AcceptAsSecond(n) ==
  /\ pc[n] = "accept"
  /\ pending[n]
  /\ pending' = [pending EXCEPT ![n] = FALSE]
  /\ Goto(n, "recv")
  /\ UNCHANGED <<listening, first_connection_failed, connected, wire,
                 num_pages, hint>>

\* accept blocks until the peer has connected.
Accept(n) ==
  /\ pc[n] = "accept"
  /\ pending[n]
  /\ pending' = [pending EXCEPT ![n] = FALSE]
  /\ Goto(n, IF first_connection_failed[n] THEN "reconnect" ELSE "recv")
  /\ UNCHANGED <<listening, first_connection_failed, connected, wire,
                 num_pages, hint>>

SecondConnect(n) ==
  /\ pc[n] = "reconnect"
  /\ ConnectTo(n)
  /\ Goto(n, "ask")
  /\ UNCHANGED <<listening, first_connection_failed, wire, num_pages, hint>>

\* exit, or a crash: the port is closed and unread bytes are gone.
End(n) ==
  /\ listening' = [listening EXCEPT ![n] = FALSE]
  /\ Goto(n, "gone")
  /\ UNCHANGED <<pending, first_connection_failed, connected, wire>>

\* The first process: the answer, mmap, and the message to the second one.
AskPages(n, k) ==
  /\ pc[n] = "ask" /\ k > 0
  /\ num_pages' = [num_pages EXCEPT ![n] = k]
  /\ hint' = [hint EXCEPT ![n] = MapAddr]
  /\ wire' = [wire EXCEPT ![n] = Append(@, [kind |-> "pair", len |-> k * PageSize])]
  /\ Goto(n, "prompt")
  /\ UNCHANGED <<listening, pending, first_connection_failed, connected>>

\* mmap of length 0 fails.
AskZeroPages(n, k) ==
  /\ pc[n] = "ask" /\ k = 0
  /\ num_pages' = [num_pages EXCEPT ![n] = k]
  /\ End(n)
  /\ UNCHANGED hint

\* Mutants: the token itself instead of the address it spells; bytes instead
\* of pages.
ParsedAddrToken(bytes) == "digits"
PagesOfBytes(len) == len

\* The address the second process parses out of the bytes that one read
\* returned: everything after the first '-' up to the next one.
ParsedAddr(bytes) == IF Len(bytes) = 1 THEN MapAddr ELSE Garbled

PagesOf(len) == len \div PageSize

\* The second process: one read takes all the bytes that are there.
ReceivePair(n) ==
  /\ pc[n] = "recv"
  /\ wire[Peer(n)] # <<>>
  /\ num_pages' = [num_pages EXCEPT ![n] = PagesOf(Head(wire[Peer(n)]).len)]
  /\ hint' = [hint EXCEPT ![n] = ParsedAddr(wire[Peer(n)])]
  /\ wire' = [wire EXCEPT ![Peer(n)] = <<>>]
  /\ Goto(n, "prompt")
  /\ UNCHANGED <<listening, pending, first_connection_failed, connected>>

\* End of file leaves an empty buffer, whose first token is a null pointer.
ReceiveEof(n) ==
  /\ pc[n] = "recv"
  /\ pc[Peer(n)] = "gone" /\ wire[Peer(n)] = <<>>
  /\ End(n)
  /\ UNCHANGED <<num_pages, hint>>

\* A command at the prompt that needs the peer: its request is sent, whether or
\* not the peer has come to its own prompt.
SendRequest(n) ==
  /\ pc[n] = "prompt"
  /\ wire' = [wire EXCEPT ![n] = Append(@, [kind |-> "request"])]
  /\ Goto(n, "waiting")
  /\ UNCHANGED <<listening, pending, first_connection_failed, connected,
                 num_pages, hint>>

\* Mutant: the main thread does the responder's work between its commands.
ResponderReadsInMain(n) ==
  /\ pc[n] = "prompt"
  /\ wire[Peer(n)] # <<>>
  /\ wire' = [wire EXCEPT ![Peer(n)] = <<>>]
  /\ Goto(Peer(n), "heard")
  /\ UNCHANGED <<listening, pending, first_connection_failed, connected,
                 num_pages, hint>>

\* n's responder, a thread that main starts before its prompt, reads the request.
ResponderReads(n) ==
  /\ pc[n] \in {"prompt", "waiting", "heard"}
  /\ wire[Peer(n)] # <<>>
  /\ wire' = [wire EXCEPT ![Peer(n)] = <<>>]
  /\ Goto(Peer(n), "heard")
  /\ UNCHANGED <<listening, pending, first_connection_failed, connected,
                 num_pages, hint>>

Step(n) ==
  \/ Listen(n) \/ FirstConnect(n) \/ Accept(n) \/ SecondConnect(n)
  \/ \E k \in Answers : AskPages(n, k) \/ AskZeroPages(n, k)
  \/ ReceivePair(n) \/ ReceiveEof(n) \/ ResponderReads(n)

Next == \E n \in Node : Step(n) \/ SendRequest(n)

Spec == Init /\ [][Next]_vars

\* Both processes are started and run, and the user answers the question;
\* nobody has to type a command.
FairSpec == Spec /\ \A n \in Node : WF_vars(Step(n))

----------------------------------------------------------------------------
(* Properties. *)

AtPrompt(n) == pc[n] \in {"prompt", "waiting", "heard"}

\* Never both processes take themselves for the first one, in whatever order
\* their listen and connect calls interleave: each listens before it connects.
AtMostOneFirst ==
  ~(first_connection_failed[A] /\ first_connection_failed[B])

\* n is the first process, and the request that it waits for is gone.
Swallowed(n) == first_connection_failed[n] /\ pc[n] = "waiting" /\ wire[n] = <<>>

\* Once both prompts are there, both processes have the same number of pages
\* and the second one gave mmap the address that the first one had, except when
\* the user of the first was so quick that its first request was read as a part
\* of the pairing message: then that command is lost.
Agreement ==
  AtPrompt(A) /\ AtPrompt(B) =>
    /\ num_pages[A] = num_pages[B]
    /\ hint[A] = hint[B] \/ \E n \in Node : Swallowed(n)

Ended ==
  \/ \A n \in Node : AtPrompt(n)
  \/ \A n \in Node : pc[n] = "gone"

\* Once a process has found no peer and so become the first one, pairing ends
\* with two prompts, or, after an answer of 0, with no process: no order of the
\* calls leaves one of them waiting for a connection or for the message.
FirstPairs == \A n \in Node : first_connection_failed[n] ~> Ended

\* Two processes that are started always pair up.
PairedOrGone == <>Ended

\* A request reaches the peer's responder, also when both processes wait for each
\* other; it is lost only together with the address, in the pairing message.
RequestArrives ==
  \A n \in Node : pc[n] = "waiting" ~> pc[n] = "heard" \/ hint[Peer(n)] = Garbled
=============================================================================
