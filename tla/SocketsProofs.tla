--------------------------- MODULE SocketsProofs ---------------------------
(***************************************************************************)
(* Proofs about Sockets, for any clients, any backlog, and whoever is      *)
(* killed at whatever moment.                                              *)
(***************************************************************************)
EXTENDS Sockets, TLAPS

----------------------------------------------------------------------------
(* Type correctness. *)

\* A client whose send has reported a reset has sent: its link has no further
\* send to come.
ReportedOnce == \A c \in Client : link[c] = "reported" => cpc[c] \notin {"start", "key"}

\* A connection has been accepted once the server waits for its key.
Connected == spc \in {"key", "read", "send", "done"} => conn \in Client

TypeInv == TypeOK /\ ReportedOnce /\ Connected

LEMMA TypeInit == Init => TypeInv
  BY BacklogAssumption DEF Init, TypeInv, TypeOK, ReportedOnce, Connected

\* The listen queue loses its head or its tail end grows by one.
LEMMA QueueFacts ==
  ASSUME NEW q \in Seq(Client)
  PROVE  /\ q # <<>> => /\ Head(q) \in Client /\ Tail(q) \in Seq(Client)
                        /\ Len(Tail(q)) <= Len(q)
         /\ \A c \in Client : /\ Append(q, c) \in Seq(Client)
                              /\ Len(Append(q, c)) = Len(q) + 1
         /\ <<>> \in Seq(Client) /\ Len(<<>>) = 0
  OBVIOUS

LEMMA TypeServer ==
  ASSUME TypeInv, Server \/ KillServer
  PROVE  TypeInv'
  <1> USE DEF TypeInv, TypeOK, ReportedOnce, Connected
  <1>1. CASE Listen       BY <1>1 DEF Listen
  <1>2. CASE Accept
    <2>1. /\ conn' \in Client /\ queue' \in Seq(Client) /\ Len(queue') <= Len(queue)
      BY <1>2, QueueFacts DEF Accept
    <2>2. Len(queue') <= Backlog + 1
      BY <2>1, BacklogAssumption
    <2>3. QED BY <1>2, <2>1, <2>2 DEF Accept
  <1>3. CASE ServerKey    BY <1>3 DEF ServerKey
  <1>4. CASE ServerRead   BY <1>4 DEF ServerRead
  <1>5. ASSUME NEW how \in {"done", "killed"}, NEW got, Close(how, got),
               UNCHANGED <<conn, received, cpc, sent>>,
               answer' \in [Client -> BOOLEAN],
               how = "done" => conn \in Client
        PROVE  TypeInv'
    <2>1. queue' = <<>> /\ Len(queue') <= Backlog + 1 /\ queue' \in Seq(Client)
      BY <1>5, BacklogAssumption DEF Close
    <2>2. /\ link' \in [Client -> {"up", "fin", "reset", "reported"}]
          /\ \A c \in Client : link'[c] = "reported" => link[c] = "reported"
      BY <1>5 DEF Close
    <2>3. QED BY <1>5, <2>1, <2>2 DEF Close
  <1>6. CASE ServerSend
    BY <1>5, <1>6 DEF ServerSend
  <1>7. CASE KillServer
    BY <1>5, <1>7 DEF KillServer
  <1>8. QED BY <1>1, <1>2, <1>3, <1>4, <1>6, <1>7 DEF Server

LEMMA TypeClient ==
  ASSUME TypeInv, NEW c \in Client, ClientStep(c) \/ KillClient(c)
  PROVE  TypeInv'
  <1> USE DEF TypeInv, TypeOK, ReportedOnce, Connected, Ends
  <1>1. CASE ConnectRefused(c)  BY <1>1 DEF ConnectRefused
  <1>2. CASE Connect(c)
    <2>1. queue' \in Seq(Client) /\ Len(queue') <= Backlog + 1
      BY <1>2, QueueFacts, BacklogAssumption DEF Connect, Room
    <2>2. QED BY <1>2, <2>1 DEF Connect
  <1>3. CASE ConnectTimeout(c)  BY <1>3 DEF ConnectTimeout
  <1>4. CASE ClientSend(c)
    <2>1. link[c] \in {"up", "fin", "reset"}
      BY <1>4 DEF ClientSend
    <2>2. QED BY <1>4, <2>1 DEF ClientSend
  <1>5. CASE ClientRead(c)      BY <1>5 DEF ClientRead
  <1>6. CASE KillClient(c)      BY <1>6 DEF KillClient
  <1>7. QED BY <1>1, <1>2, <1>3, <1>4, <1>5, <1>6 DEF ClientStep

LEMMA TypeNext ==
  ASSUME TypeInv, [Next]_vars
  PROVE  TypeInv'
  <1>1. CASE UNCHANGED vars
    BY <1>1 DEF TypeInv, TypeOK, ReportedOnce, Connected, vars
  <1>2. QED BY <1>1, TypeServer, TypeClient DEF Next

LEMMA TypeInvariant == Spec => []TypeInv
  BY TypeInit, TypeNext, PTL DEF Spec

\* Type correctness: in particular the listen queue keeps its limit, and each
\* state in which the server uses new_socket has one.
THEOREM TypeCorrect == Spec => []TypeOK
  <1>1. TypeInv => TypeOK
    BY DEF TypeInv
  <1>2. QED BY <1>1, TypeInvariant, PTL

----------------------------------------------------------------------------
(* The exchange between the server and the client it accepted. *)

\* A client that has sent is past its key press.
SentInTurn == \A c \in Client : sent[c] => cpc[c] \notin {"start", "key"}

\* While the server lives no connection is closed and nothing is answered, so
\* no client has read anything, and one that failed never sent.
NothingReadYet ==
  spc \notin {"done", "killed"} =>
    \A c \in Client : /\ link[c] = "up" /\ ~answer[c]
                      /\ cpc[c] \notin {"served", "empty"}
                      /\ cpc[c] = "failed" => ~sent[c]

\* Once the server has read, it has its client's message, unless the client was
\* killed before it sent one.
ReadFromClient ==
  spc \in {"send", "done"} =>
    /\ received = IF sent[conn] THEN "hello" ELSE "empty"
    /\ sent[conn] \/ cpc[conn] = "killed"

\* An answer is the accepted client's, and the server has ended.
AnswerToClient == \A c \in Client : answer[c] => spc = "done" /\ c = conn

ExchangeInv ==
  /\ TypeInv
  /\ SentInTurn /\ NothingReadYet /\ ReadFromClient /\ AnswerToClient
  /\ AcceptedIsServed

LEMMA ExchangeInit == Init => ExchangeInv
  BY TypeInit
  DEF Init, ExchangeInv, SentInTurn, NothingReadYet, ReadFromClient,
      AnswerToClient, AcceptedIsServed

LEMMA ExchangeServer ==
  ASSUME ExchangeInv, Server \/ KillServer
  PROVE  ExchangeInv'
  <1> USE DEF ExchangeInv, TypeInv, TypeOK, SentInTurn, NothingReadYet,
              ReadFromClient, AnswerToClient, AcceptedIsServed
  <1>1. TypeInv'
    BY TypeServer
  <1>2. CASE Listen      BY <1>1, <1>2 DEF Listen
  <1>3. CASE Accept      BY <1>1, <1>3 DEF Accept
  <1>4. CASE ServerKey   BY <1>1, <1>4 DEF ServerKey
  <1>5. CASE ServerRead  BY <1>1, <1>5 DEF ServerRead, Connected
  <1>6. CASE ServerSend
    <2>1. /\ spc = "send" /\ spc' = "done" /\ conn \in Client
          /\ UNCHANGED <<conn, received, cpc, sent>>
          /\ answer' = [answer EXCEPT ![conn] = cpc[conn] # "killed"]
      BY <1>6 DEF ServerSend, Close, Connected
    <2>2. cpc[conn] \in {"read", "killed"}
      BY <2>1 DEF Ends
    <2>3. AcceptedIsServed' /\ AnswerToClient'
      BY <2>1, <2>2
    <2>4. QED BY <1>1, <2>1, <2>3
  <1>7. CASE KillServer
    <2>1. /\ spc \in {"accept", "key", "read", "send"} /\ spc' = "killed"
          /\ UNCHANGED <<conn, received, cpc, sent, answer>>
      BY <1>7 DEF KillServer, Close, Listening
    <2>2. QED BY <1>1, <2>1
  <1>8. QED BY <1>2, <1>3, <1>4, <1>5, <1>6, <1>7 DEF Server

LEMMA ExchangeClient ==
  ASSUME ExchangeInv, NEW c \in Client, ClientStep(c) \/ KillClient(c)
  PROVE  ExchangeInv'
  <1> USE DEF ExchangeInv, TypeInv, TypeOK, Connected, SentInTurn, NothingReadYet,
              ReadFromClient, AnswerToClient, AcceptedIsServed
  <1>1. TypeInv'
    BY TypeClient
  <1>2. CASE ConnectRefused(c) \/ Connect(c) \/ ConnectTimeout(c)
    <2>1. /\ cpc[c] = "start" /\ cpc' = [cpc EXCEPT ![c] = cpc'[c]]
          /\ cpc'[c] \in {"failed", "key"}
          /\ UNCHANGED <<spc, conn, received, sent, answer, link>>
      BY <1>2 DEF ConnectRefused, Connect, ConnectTimeout
    <2>2. QED BY <1>1, <2>1
  <1>3. CASE ClientSend(c)
    <2>1. /\ cpc[c] = "key" /\ cpc' = [cpc EXCEPT ![c] = "read"]
          /\ \A d \in Client \ {c} : sent'[d] = sent[d] /\ link'[d] = link[d]
          /\ link[c] = "up" => link'[c] = "up"
          /\ UNCHANGED <<spc, conn, received, answer>>
      BY <1>3 DEF ClientSend
    <2>2. QED BY <1>1, <2>1
  <1>4. CASE ClientRead(c)
    <2>1. /\ cpc[c] = "read" /\ spc \in {"done", "killed"}
          /\ cpc' = [cpc EXCEPT ![c] = cpc'[c]]
          /\ cpc'[c] \in {"served", "failed", "empty"}
          /\ answer[c] => cpc'[c] = "served"
          /\ UNCHANGED <<spc, conn, received, sent, answer, link>>
      BY <1>4 DEF ClientRead
    <2>2. QED BY <1>1, <2>1
  <1>5. CASE KillClient(c)
    <2>1. /\ cpc[c] \notin Ends /\ cpc' = [cpc EXCEPT ![c] = "killed"]
          /\ UNCHANGED <<spc, conn, received, sent, answer, link>>
      BY <1>5 DEF KillClient
    <2>2. QED BY <1>1, <2>1 DEF Ends
  <1>6. QED BY <1>2, <1>3, <1>4, <1>5 DEF ClientStep

LEMMA ExchangeNext ==
  ASSUME ExchangeInv, [Next]_vars
  PROVE  ExchangeInv'
  <1>1. CASE UNCHANGED vars
    BY <1>1, TypeNext
    DEF ExchangeInv, SentInTurn, NothingReadYet, ReadFromClient, AnswerToClient,
        AcceptedIsServed, vars
  <1>2. QED BY <1>1, ExchangeServer, ExchangeClient DEF Next

LEMMA ExchangeInvariant == Spec => []ExchangeInv
  BY ExchangeInit, ExchangeNext, PTL DEF Spec

\* The server's one answer goes to the client it accepted, in exchange for that
\* client's message, however many others are queued.
THEOREM ServedInExchangeHolds == Spec => []ServedInExchange
  <1>1. ExchangeInv => ServedInExchange
    BY DEF ExchangeInv, TypeInv, TypeOK, ReadFromClient, AnswerToClient,
       ServedInExchange
  <1>2. QED BY <1>1, ExchangeInvariant, PTL

\* A server that returns from main has served the client it accepted: the answer
\* outlives the connection's end.
THEOREM AcceptedIsServedHolds == Spec => []AcceptedIsServed
  <1>1. ExchangeInv => AcceptedIsServed
    BY DEF ExchangeInv
  <1>2. QED BY <1>1, ExchangeInvariant, PTL
=============================================================================
