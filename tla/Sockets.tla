------------------------------ MODULE Sockets ------------------------------
(***************************************************************************)
(* server.c and client.c of "Assignment 1 System Calls/code-socket": the   *)
(* server accepts one connection, waits for a key, reads a message, answers *)
(* it and exits; any number of clients connect, wait for a key, send and    *)
(* read.  TCP is external: a listen queue, one message at most in each      *)
(* direction of a connection, and what becomes of both when a process ends. *)
(***************************************************************************)
EXTENDS Integers, Sequences, FiniteSets

CONSTANTS
  Client,    \* the client processes
  Backlog,   \* listen's second argument (3)
  MayDie,    \* the processes their user may kill, "server" among them
  None       \* no connection has been accepted

ASSUME ClientAssumption ==
  IsFiniteSet(Client) /\ "server" \notin Client /\ None \notin Client
ASSUME BacklogAssumption == Backlog \in Nat /\ MayDie \subseteq Client \cup {"server"}

VARIABLES
  spc,       \* where the server is
  queue,     \* the connections that wait to be accepted
  conn,      \* the connection accepted, new_socket
  received,  \* whether the server printed a client's message or an empty one
  cpc,       \* cpc[c]: where client c is, or how it ended
  sent,      \* sent[c]: the client's message is on its connection, or was read
  answer,    \* answer[c]: the server's message is on its way to c
  link       \* link[c]: "up", or how the server's side of it was closed

vars == <<spc, queue, conn, received, cpc, sent, answer, link>>

Ends == {"served", "empty", "failed", "killed"}

TypeOK ==
  /\ spc \in {"down", "accept", "key", "read", "send", "done", "killed"}
  /\ queue \in Seq(Client) /\ Len(queue) <= Backlog + 1
  /\ conn \in Client \cup {None}
  /\ received \in {"nothing", "hello", "empty"}
  /\ cpc \in [Client -> {"start", "key", "read"} \cup Ends]
  /\ sent \in [Client -> BOOLEAN] /\ answer \in [Client -> BOOLEAN]
  /\ link \in [Client -> {"up", "fin", "reset", "reported"}]

Init ==
  /\ spc = "down" /\ queue = <<>> /\ conn = None /\ received = "nothing"
  /\ cpc = [c \in Client |-> "start"]
  /\ sent = [c \in Client |-> FALSE] /\ answer = [c \in Client |-> FALSE]
  /\ link = [c \in Client |-> "up"]

\* Mutant: listen without a limit.
RoomAlways == TRUE
\* The kernel queues one connection more than listen's backlog.
Room == Len(queue) <= Backlog

Listening == spc \in {"accept", "key", "read", "send"}
Waiting == {queue[i] : i \in 1 .. Len(queue)}

----------------------------------------------------------------------------
(* The server. *)

\* socket, setsockopt, bind, listen
Listen ==
  /\ spc = "down"
  /\ spc' = "accept"
  /\ UNCHANGED <<queue, conn, received, cpc, sent, answer, link>>

Accept ==
  /\ spc = "accept" /\ queue # <<>>
  /\ conn' = Head(queue) /\ queue' = Tail(queue)
  /\ spc' = "key"
  /\ UNCHANGED <<received, cpc, sent, answer, link>>

ServerKey ==
  /\ spc = "key"
  /\ spc' = "read"
  /\ UNCHANGED <<queue, conn, received, cpc, sent, answer, link>>

\* Mutant: the read does not block.
ServerReadAtOnce ==
  /\ spc = "read"
  /\ received' = IF sent[conn] THEN "hello" ELSE "empty"
  /\ spc' = "send"
  /\ UNCHANGED <<queue, conn, cpc, sent, answer, link>>

\* read blocks until the client's message or its end, which reads as "".
ServerRead ==
  /\ spc = "read" /\ (sent[conn] \/ cpc[conn] = "killed")
  /\ received' = IF sent[conn] THEN "hello" ELSE "empty"
  /\ spc' = "send"
  /\ UNCHANGED <<queue, conn, cpc, sent, answer, link>>

\* The end of the server's process closes what it has open.  A connection with
\* unread bytes and one that was never accepted are reset.
Close(how, got) ==
  /\ spc' = how
  /\ queue' = <<>>
  /\ link' = [c \in Client |->
                IF c \in Waiting \/ (c = conn /\ sent[c] /\ ~got) THEN "reset"
                ELSE IF c = conn THEN "fin" ELSE link[c]]

\* Mutants: the server ends without its answer; connections are not closed.
ServerSendNothing ==
  /\ spc = "send"
  /\ Close("done", TRUE)
  /\ UNCHANGED <<conn, received, cpc, sent, answer>>
ServerSendStays ==
  /\ spc = "send"
  /\ answer' = [answer EXCEPT ![conn] = cpc[conn] # "killed"]
  /\ spc' = "key"
  /\ UNCHANGED <<queue, conn, received, cpc, sent, link>>

\* send, and return 0.
ServerSend ==
  /\ spc = "send"
  /\ answer' = [answer EXCEPT ![conn] = cpc[conn] # "killed"]
  /\ Close("done", TRUE)
  /\ UNCHANGED <<conn, received, cpc, sent>>

Server == Listen \/ Accept \/ ServerKey \/ ServerRead \/ ServerSend

----------------------------------------------------------------------------
(* A client. *)

\* connect to a port that nobody listens on.
ConnectRefused(c) ==
  /\ cpc[c] = "start" /\ ~Listening
  /\ cpc' = [cpc EXCEPT ![c] = "failed"]
  /\ UNCHANGED <<spc, queue, conn, received, sent, answer, link>>

\* connect succeeds as soon as the queue has room, accepted or not.
Connect(c) ==
  /\ cpc[c] = "start" /\ Listening /\ Room
  /\ queue' = Append(queue, c)
  /\ cpc' = [cpc EXCEPT ![c] = "key"]
  /\ UNCHANGED <<spc, conn, received, sent, answer, link>>

\* ... and times out if it never has.
ConnectTimeout(c) ==
  /\ cpc[c] = "start" /\ Listening /\ ~Room
  /\ cpc' = [cpc EXCEPT ![c] = "failed"]
  /\ UNCHANGED <<spc, queue, conn, received, sent, answer, link>>

\* getchar and send, whose result is ignored: on a connection that was reset it
\* reports the error and clears it; on a closed one it provokes the reset.
ClientSend(c) ==
  /\ cpc[c] = "key"
  /\ cpc' = [cpc EXCEPT ![c] = "read"]
  /\ sent' = [sent EXCEPT ![c] = link[c] = "up"]
  /\ link' = [link EXCEPT ![c] = CASE @ = "up" -> "up" [] @ = "fin" -> "reset"
                                   [] @ = "reset" -> "reported"]
  /\ UNCHANGED <<spc, queue, conn, received, answer>>

\* read: the answer, or the end of the connection, which is printed as an empty
\* message, or the error of a reset.
ClientRead(c) ==
  /\ cpc[c] = "read" /\ (answer[c] \/ link[c] # "up")
  /\ cpc' = [cpc EXCEPT ![c] = IF answer[c] THEN "served"
                               ELSE IF link[c] = "reset" THEN "failed"
                               ELSE "empty"]
  /\ UNCHANGED <<spc, queue, conn, received, sent, answer, link>>

ClientStep(c) ==
  \/ ConnectRefused(c) \/ Connect(c) \/ ConnectTimeout(c)
  \/ ClientSend(c) \/ ClientRead(c)

----------------------------------------------------------------------------
(* Users who press ^C. *)

KillServer ==
  /\ "server" \in MayDie /\ Listening
  /\ Close("killed", received # "nothing")
  /\ UNCHANGED <<conn, received, cpc, sent, answer>>

KillClient(c) ==
  /\ c \in MayDie /\ cpc[c] \notin Ends
  /\ cpc' = [cpc EXCEPT ![c] = "killed"]
  /\ UNCHANGED <<spc, queue, conn, received, sent, answer, link>>

Next ==
  \/ Server \/ KillServer
  \/ \E c \in Client : ClientStep(c) \/ KillClient(c)

\* Processes run, keys are pressed in the end; nobody is obliged to kill.
Spec ==
  Init /\ [][Next]_vars /\ WF_vars(Server) /\ \A c \in Client : WF_vars(ClientStep(c))

----------------------------------------------------------------------------
(* Properties. *)

\* One client at most gets the server's message: the one that was accepted, and
\* only in exchange for its own, which the server has read by then.
ServedInExchange ==
  \A c \in Client :
    answer[c] => c = conn /\ received # "nothing"
                 /\ (cpc[c] # "killed" => sent[c] /\ received = "hello")

\* A server that ends by itself has answered: its client has the message or will
\* find it, although the connection is already closed behind it.
AcceptedIsServed ==
  spc = "done" =>
    cpc[conn] \in {"served", "killed"} \/ (cpc[conn] = "read" /\ answer[conn])

\* Nobody waits for ever once somebody has connected: the server ends, and then
\* every client, the ones it never accepted too.
EveryoneEnds ==
  (\E c \in Client : cpc[c] = "key") ~>
    /\ spc \in {"done", "killed"}
    /\ \A c \in Client : cpc[c] \in Ends
=============================================================================
