--------------------------- MODULE PairingProofs ---------------------------
(***************************************************************************)
(* Proofs about Pairing, for any page size, any answers, and any order of  *)
(* the two processes' calls.                                               *)
(***************************************************************************)
EXTENDS Pairing, TLAPS

\* Each process has exactly one peer, whose peer it is.
LEMMA PeerFacts ==
  ASSUME NEW n \in Node
  PROVE  /\ Peer(n) \in Node /\ Peer(n) # n /\ Peer(Peer(n)) = n
         /\ \A k \in Node : k = n \/ k = Peer(n)
  BY NodeAssumption DEF Node, Peer

Early == {"listen", "connect"}

\* The control state, and how far the peer must be: a connection that waits
\* or was accepted was made by a peer that is past its first connect, so a
\* port that no longer listens was never missed by it.  Nothing is on a
\* connection before its process is at the prompt.
PairInv ==
  /\ pc \in [Node -> {"listen", "connect", "accept", "reconnect", "ask", "recv",
                      "prompt", "waiting", "heard", "gone"}]
  /\ listening \in [Node -> BOOLEAN]
  /\ pending \in [Node -> BOOLEAN]
  /\ first_connection_failed \in [Node -> BOOLEAN]
  /\ DOMAIN wire = Node /\ wire = [n \in Node |-> wire[n]]
  /\ \A n \in Node :
       /\ ~AtPrompt(n) => wire[n] = <<>>
       /\ listening[n] <=> pc[n] \notin {"listen", "gone"}
       /\ first_connection_failed[n] => pc[n] \notin Early
       /\ pending[n] => pc[Peer(n)] \notin Early
       /\ pc[n] \notin Early \cup {"accept"} => pc[Peer(n)] \notin Early
       /\ ~(first_connection_failed[n] /\ first_connection_failed[Peer(n)])

LEMMA PairInit == Init => PairInv
  BY PeerFacts DEF Init, PairInv, Early, AtPrompt

LEMMA PairNext ==
  ASSUME PairInv, [Next]_vars
  PROVE  PairInv'
  <1>1. CASE UNCHANGED vars
    BY <1>1 DEF PairInv, vars, AtPrompt
  <1>2. ASSUME NEW n \in Node, Step(n) \/ SendRequest(n)
        PROVE  PairInv'
    <2> USE PeerFacts DEF PairInv, Early, Goto, AtPrompt
    <2>1. CASE Listen(n)         BY <2>1 DEF Listen
    <2>2. CASE FirstConnect(n)   BY <2>2 DEF FirstConnect, ConnectTo
    <2>3. CASE Accept(n)         BY <2>3 DEF Accept
    <2>4. CASE SecondConnect(n)  BY <2>4 DEF SecondConnect, ConnectTo
    <2>5. ASSUME NEW k \in Answers, AskPages(n, k)
          PROVE  PairInv'
      <3>1. /\ pc' = [pc EXCEPT ![n] = "prompt"] /\ pc[n] = "ask"
            /\ UNCHANGED <<listening, pending, first_connection_failed>>
        BY <2>5 DEF AskPages
      <3>2. /\ DOMAIN wire' = Node /\ wire' = [m \in Node |-> wire'[m]]
            /\ \A m \in Node \ {n} : wire'[m] = wire[m]
        <4>1. PICK q : wire' = [wire EXCEPT ![n] = q]
          BY <2>5 DEF AskPages
        <4>2. QED BY <4>1
      <3>3. QED BY <3>1, <3>2
    <2>6. ASSUME NEW k \in Answers, AskZeroPages(n, k)
          PROVE  PairInv'
      BY <2>6 DEF AskZeroPages, End
    <2>7. CASE ReceivePair(n)    BY <2>7 DEF ReceivePair
    <2>8. CASE ReceiveEof(n)     BY <2>8 DEF ReceiveEof, End
    <2>9. CASE ResponderReads(n)
      <3>1. /\ pc' = [pc EXCEPT ![Peer(n)] = "heard"]
            /\ UNCHANGED <<listening, pending, first_connection_failed>>
            /\ AtPrompt(n) /\ wire[Peer(n)] # <<>>
        BY <2>9 DEF ResponderReads
      <3>2. /\ DOMAIN wire' = Node /\ wire' = [m \in Node |-> wire'[m]]
            /\ \A m \in Node \ {Peer(n)} : wire'[m] = wire[m]
        BY <2>9 DEF ResponderReads
      <3>3. AtPrompt(Peer(n)) /\ Peer(n) \in Node
        BY <3>1
      <3>4. \A m \in Node : m = n \/ m = Peer(n)
        OBVIOUS
      <3>5. /\ pc'[n] = pc[n] /\ pc'[Peer(n)] = "heard"
            /\ AtPrompt(n)' /\ AtPrompt(Peer(n))'
        BY <3>1, <3>3, <3>4
      <3>6. /\ pc' \in [Node -> {"listen", "connect", "accept", "reconnect", "ask",
                                 "recv", "prompt", "waiting", "heard", "gone"}]
            /\ \A m \in Node : AtPrompt(m)' /\ listening'[m]
        BY <3>1, <3>3, <3>4, <3>5
      <3>7. /\ listening' \in [Node -> BOOLEAN] /\ pending' \in [Node -> BOOLEAN]
            /\ first_connection_failed' \in [Node -> BOOLEAN]
            /\ \A m \in Node : ~(/\ first_connection_failed'[m]
                                /\ first_connection_failed'[Peer(m)])
        BY <3>1
      <3>8. \A m \in Node : /\ pc'[m] \in {"prompt", "waiting", "heard"}
                           /\ pc'[Peer(m)] \in {"prompt", "waiting", "heard"}
        BY <3>6
      <3> QED BY ONLY <3>2, <3>6, <3>7, <3>8 DEF PairInv, Early, AtPrompt
    <2>10. CASE SendRequest(n)
      <3>1. /\ pc' = [pc EXCEPT ![n] = "waiting"] /\ pc[n] = "prompt"
            /\ UNCHANGED <<listening, pending, first_connection_failed>>
        BY <2>10 DEF SendRequest
      <3>2. /\ DOMAIN wire' = Node /\ wire' = [m \in Node |-> wire'[m]]
            /\ \A m \in Node \ {n} : wire'[m] = wire[m]
        <4>1. PICK q : wire' = [wire EXCEPT ![n] = q]
          BY <2>10 DEF SendRequest
        <4>2. QED BY <4>1
      <3>3. QED BY <3>1, <3>2
    <2>11. QED
      BY <1>2, <2>1, <2>2, <2>3, <2>4, <2>5, <2>6, <2>7, <2>8, <2>9, <2>10
      DEF Step
  <1>3. QED BY <1>1, <1>2 DEF Next

\* Whatever the order of the calls, at most one process asks the user for the
\* number of pages and sends a pairing message.
THEOREM AtMostOneFirstHolds == Spec => []AtMostOneFirst
  <1>1. PairInv => AtMostOneFirst
    BY NodeAssumption DEF PairInv, AtMostOneFirst, Node, Peer
  <1>2. QED
    BY <1>1, PairInit, PairNext, PTL DEF Spec

----------------------------------------------------------------------------
(* The pairing message. *)

PairOf(n) == [kind |-> "pair", len |-> num_pages[n] * PageSize]

\* Who is first is decided by the first connect: only the first one asks, and
\* only the second one reads.
Roles(n) ==
  /\ pc[n] \in {"reconnect", "ask"} => first_connection_failed[n]
  /\ pc[n] = "recv" => ~first_connection_failed[n]

\* While a process is at the prompt alone, it is the first one and its pairing
\* message is still unread, in front of what else it sent; if there is more, it
\* is waiting for the answer.
Announced(n) ==
  AtPrompt(n) /\ ~AtPrompt(Peer(n)) =>
    /\ first_connection_failed[n]
    /\ wire[n] # <<>> /\ Head(wire[n]) = PairOf(n)
    /\ Len(wire[n]) = 1 \/ pc[n] = "waiting"
    /\ hint[n] = MapAddr

\* Both at the prompt.
Agreed ==
  (\A n \in Node : AtPrompt(n)) =>
    /\ num_pages[A] = num_pages[B]
    /\ hint[A] = hint[B] \/ \E n \in Node : Swallowed(n)

AgreeInv ==
  PairInv /\ TypeOK /\ Agreed /\ \A n \in Node : Roles(n) /\ Announced(n)

\* The second process computes the number of pages the first one was told.
LEMMA PagesOfLen ==
  ASSUME NEW k \in Nat
  PROVE  PagesOf(k * PageSize) = k /\ k * PageSize \in Nat
  <1> DEFINE q == (k * PageSize) \div PageSize
  <1>1. PageSize \in Int /\ PageSize > 0 /\ k * PageSize \in Nat
    BY PageSizeAssumption
  <1>2. q = k
    BY <1>1
  <1>3. QED BY <1>1, <1>2 DEF PagesOf

LEMMA AgreeInit == Init => AgreeInv
  <1> SUFFICES ASSUME Init PROVE AgreeInv
    OBVIOUS
  <1>1. TypeOK
    BY DEF Init, TypeOK
  <1>2. Agreed /\ \A n \in Node : Roles(n) /\ Announced(n)
    BY PeerFacts, NodeAssumption DEF Init, Agreed, Roles, Announced, AtPrompt, Node
  <1>3. QED BY <1>1, <1>2, PairInit DEF AgreeInv

\* Appending to the connection.
LEMMA WireFacts ==
  ASSUME NEW S, NEW q \in Seq(S), NEW m \in S
  PROVE  /\ Append(q, m) \in Seq(S) /\ Append(q, m) # <<>>
         /\ q = <<>> => Head(Append(q, m)) = m /\ Len(Append(q, m)) = 1
         /\ q # <<>> => Head(Append(q, m)) = Head(q)
         /\ <<>> \in Seq(S)
  OBVIOUS

\* Before the question: nothing is sent or agreed.
LEMMA AgreeEarly ==
  ASSUME AgreeInv, PairInv', NEW n \in Node,
         \/ Listen(n) \/ FirstConnect(n) \/ Accept(n) \/ SecondConnect(n)
         \/ ReceiveEof(n) \/ (\E k \in Answers : AskZeroPages(n, k))
  PROVE  AgreeInv'
  <1>1. /\ ~AtPrompt(n) /\ ~AtPrompt(n)'
        /\ \A m \in Node \ {n} : /\ pc'[m] = pc[m] /\ num_pages'[m] = num_pages[m]
                                 /\ first_connection_failed'[m] =
                                      first_connection_failed[m]
        /\ UNCHANGED <<wire, hint>>
    BY DEF Listen, FirstConnect, Accept, SecondConnect, ReceiveEof, AskZeroPages,
       End, Goto, AtPrompt, AgreeInv, TypeOK
  <1>2. TypeOK'
    <2>1. CASE \E k \in Answers : AskZeroPages(n, k)
      BY <2>1, AnswersAssumption DEF AgreeInv, TypeOK, AskZeroPages, End, Goto
    <2>2. CASE ReceiveEof(n)
      BY <2>2 DEF AgreeInv, TypeOK, ReceiveEof, End, Goto
    <2>3. CASE Listen(n) \/ FirstConnect(n) \/ Accept(n) \/ SecondConnect(n)
      <3>1. listening[Peer(n)] \in BOOLEAN
        BY PeerFacts DEF AgreeInv, TypeOK
      <3>2. connected' \in [Node -> BOOLEAN]
        BY <2>3, <3>1 DEF AgreeInv, TypeOK, Listen, FirstConnect, Accept,
           SecondConnect, ConnectTo
      <3>3. UNCHANGED <<wire, num_pages, hint>>
        BY <2>3 DEF Listen, FirstConnect, Accept, SecondConnect
      <3>4. QED BY <3>2, <3>3 DEF AgreeInv, TypeOK, PairInv
    <2>4. QED BY <2>1, <2>2, <2>3
  <1>3. Roles(n)'
    BY DEF Listen, FirstConnect, Accept, SecondConnect, ReceiveEof, AskZeroPages,
       End, Goto, AgreeInv, TypeOK, Roles
  <1>4. \A m \in Node : Roles(m)'
    BY <1>1, <1>3 DEF AgreeInv, Roles
  <1>5. \A m \in Node : Announced(m)'
    <2>1. \A m \in Node : AtPrompt(m)' <=> AtPrompt(m)
      BY <1>1 DEF AtPrompt
    <2>2. Announced(n)'
      BY <1>1 DEF AgreeInv, Announced
    <2>3. Announced(Peer(n))'
      BY <1>1, <2>1, PeerFacts DEF AgreeInv, Announced, PairOf
    <2>4. QED BY <2>2, <2>3, PeerFacts
  <1>6. Agreed'
    BY <1>1 DEF Agreed
  <1>7. QED BY <1>2, <1>4, <1>5, <1>6 DEF AgreeInv

\* The first process asks, maps and sends: the other one is not at its prompt.
LEMMA AgreeAsk ==
  ASSUME AgreeInv, PairInv', NEW n \in Node, NEW a \in Answers, AskPages(n, a)
  PROVE  AgreeInv'
  <1> DEFINE k == Peer(n)  msg == [kind |-> "pair", len |-> a * PageSize]
  <1>1. /\ k \in Node /\ k # n /\ Peer(k) = n /\ \A m \in Node : m = n \/ m = k
    BY PeerFacts
  <1>2. /\ pc[n] = "ask" /\ pc'[n] = "prompt" /\ pc'[k] = pc[k]
        /\ num_pages'[n] = a /\ num_pages'[k] = num_pages[k]
        /\ hint'[n] = MapAddr /\ hint'[k] = hint[k]
        /\ wire'[n] = Append(wire[n], msg) /\ wire'[k] = wire[k]
        /\ UNCHANGED first_connection_failed
    BY <1>1 DEF AskPages, Goto, AgreeInv, TypeOK
  <1>3. first_connection_failed[n] /\ ~first_connection_failed[k] /\ ~AtPrompt(n)
    BY <1>1, <1>2 DEF AgreeInv, Roles, PairInv, AtPrompt
  <1>4. ~AtPrompt(k) /\ wire[n] = <<>> /\ wire[k] = <<>>
    BY <1>1, <1>3 DEF AgreeInv, Announced, PairInv
  <1>5. a \in Nat /\ msg \in PairMessage \cup RequestMessage
    BY AnswersAssumption, PagesOfLen DEF PairMessage
  <1>6. /\ wire'[n] # <<>> /\ Head(wire'[n]) = msg /\ Len(wire'[n]) = 1
        /\ wire'[n] \in Seq(PairMessage \cup RequestMessage)
    BY <1>2, <1>4, <1>5, WireFacts
  <1>7. TypeOK'
    BY <1>1, <1>2, <1>5, <1>6 DEF AgreeInv, TypeOK, AskPages, Goto
  <1>8. AtPrompt(n)' /\ ~AtPrompt(k)'
    BY <1>2, <1>4 DEF AtPrompt
  <1>9. Agreed'
    BY <1>1, <1>8 DEF Agreed
  <1>10. Announced(n)' /\ Announced(k)'
    BY <1>1, <1>2, <1>3, <1>4, <1>6, <1>8 DEF Announced, PairOf
  <1>11. Roles(n)' /\ Roles(k)'
    BY <1>1, <1>2 DEF AgreeInv, Roles
  <1>12. QED BY <1>1, <1>7, <1>9, <1>10, <1>11 DEF AgreeInv

\* The second process reads the message: both are at the prompt and agree.
LEMMA AgreeReceive ==
  ASSUME AgreeInv, PairInv', NEW n \in Node, ReceivePair(n)
  PROVE  AgreeInv'
  <1> DEFINE k == Peer(n)
  <1>1. /\ k \in Node /\ k # n /\ Peer(k) = n /\ \A m \in Node : m = n \/ m = k
    BY PeerFacts
  <1>2. /\ pc[n] = "recv" /\ pc'[n] = "prompt" /\ pc'[k] = pc[k]
        /\ wire[k] # <<>>
        /\ num_pages' = [num_pages EXCEPT ![n] = PagesOf(Head(wire[k]).len)]
        /\ hint' = [hint EXCEPT ![n] = ParsedAddr(wire[k])]
        /\ wire'[k] = <<>> /\ wire'[n] = wire[n]
        /\ UNCHANGED first_connection_failed
    BY <1>1 DEF ReceivePair, Goto, AgreeInv, TypeOK
  <1> HIDE DEF k
  <1>3. ~AtPrompt(n) /\ AtPrompt(k)
    BY <1>1, <1>2 DEF AtPrompt, AgreeInv, PairInv
  <1>4. /\ Head(wire[k]) = PairOf(k) /\ hint[k] = MapAddr
        /\ Len(wire[k]) = 1 \/ pc[k] = "waiting"
        /\ first_connection_failed[k]
    BY <1>1, <1>3 DEF AgreeInv, Announced
  <1>5. num_pages[k] \in Nat /\ Head(wire[k]).len = num_pages[k] * PageSize
    BY <1>1, <1>4 DEF AgreeInv, TypeOK, PairOf
  <1>6. PagesOf(Head(wire[k]).len) = num_pages[k]
    BY <1>5, PagesOfLen
  <1>7. num_pages'[n] = num_pages[k] /\ num_pages'[k] = num_pages[k]
    BY <1>1, <1>2, <1>6 DEF AgreeInv, TypeOK
  <1>8. hint'[n] = hint'[k] \/ Swallowed(k)'
    BY <1>1, <1>2, <1>4 DEF ParsedAddr, Swallowed, AgreeInv, TypeOK
  <1>9. Agreed'
    BY <1>1, <1>7, <1>8 DEF Agreed, Node
  <1>10. AtPrompt(n)' /\ AtPrompt(k)'
    BY <1>2, <1>3 DEF AtPrompt
  <1>11. TypeOK'
    <2>1. num_pages' \in [Node -> Nat] /\ hint' \in [Node -> {MapAddr, Garbled, NoAddr}]
      BY <1>2, <1>5, <1>6 DEF AgreeInv, TypeOK, ParsedAddr
    <2>2. wire' \in [Node -> Seq(PairMessage \cup RequestMessage)]
      BY <1>1 DEF ReceivePair, AgreeInv, TypeOK, k
    <2>3. QED BY <2>1, <2>2 DEF AgreeInv, TypeOK, ReceivePair, Goto
  <1>12. \A m \in Node : Announced(m)' /\ Roles(m)'
    <2>1. \A m \in Node : AtPrompt(m)' /\ pc'[m] \notin {"reconnect", "ask", "recv"}
      BY <1>1, <1>10 DEF AtPrompt
    <2>2. QED BY <2>1, PeerFacts DEF Announced, Roles
  <1>13. QED BY <1>9, <1>11, <1>12 DEF AgreeInv

\* Commands: behind an unread pairing message, or when both are at the prompt.
LEMMA AgreeSend ==
  ASSUME AgreeInv, PairInv', NEW n \in Node, SendRequest(n)
  PROVE  AgreeInv'
  <1> DEFINE k == Peer(n)  r == [kind |-> "request"]
  <1>1. /\ k \in Node /\ k # n /\ Peer(k) = n /\ \A m \in Node : m = n \/ m = k
    BY PeerFacts
  <1>2. /\ UNCHANGED <<num_pages, hint, first_connection_failed>>
        /\ pc[n] = "prompt" /\ pc'[n] = "waiting" /\ pc'[k] = pc[k]
        /\ wire'[n] = Append(wire[n], r) /\ wire'[k] = wire[k]
        /\ wire[n] \in Seq(PairMessage \cup RequestMessage)
    BY <1>1 DEF SendRequest, Goto, AgreeInv, TypeOK
  <1>3. r \in PairMessage \cup RequestMessage
    BY DEF RequestMessage
  <1> HIDE DEF r, k
  <1>4. /\ wire'[n] \in Seq(PairMessage \cup RequestMessage) /\ wire'[n] # <<>>
        /\ wire[n] # <<>> => Head(wire'[n]) = Head(wire[n])
    BY <1>2, <1>3, WireFacts
  <1>5. TypeOK'
    BY <1>1, <1>2, <1>4 DEF AgreeInv, TypeOK, SendRequest, Goto, r
  <1>6. /\ AtPrompt(n) /\ AtPrompt(n)' /\ (AtPrompt(k)' <=> AtPrompt(k))
    BY <1>2 DEF AtPrompt
  <1>7. \A m \in Node : Roles(m)'
    BY <1>1, <1>2 DEF AgreeInv, Roles
  <1>8. Announced(n)' /\ Announced(k)'
    <2>1. Announced(k)'
      BY <1>1, <1>6 DEF Announced
    <2>2. Announced(n)
      BY DEF AgreeInv
    <2>3. PairOf(n)' = PairOf(n)
      BY <1>2 DEF PairOf
    <2>4. ASSUME ~AtPrompt(k)
          PROVE  /\ first_connection_failed'[n] /\ hint'[n] = MapAddr
                 /\ Head(wire'[n]) = PairOf(n)
      BY <1>2, <1>4, <1>6, <2>2, <2>4 DEF Announced, k
    <2>5. Announced(n)'
      BY <1>2, <1>4, <1>6, <2>3, <2>4 DEF Announced, k
    <2>6. QED BY <2>1, <2>5
  <1>9. Agreed'
    <2> SUFFICES ASSUME \A m \in Node : AtPrompt(m)'
                 PROVE  /\ num_pages[A] = num_pages[B]
                        /\ hint[A] = hint[B] \/ \E m \in Node : Swallowed(m)'
      BY <1>2 DEF Agreed
    <2>1. /\ num_pages[A] = num_pages[B]
          /\ hint[A] = hint[B] \/ \E m \in Node : Swallowed(m)
      BY <1>1, <1>6 DEF AgreeInv, Agreed
    <2>2. ASSUME NEW m \in Node, Swallowed(m) PROVE Swallowed(m)'
      BY <1>1, <1>2, <2>2 DEF Swallowed
    <2>3. QED BY <2>1, <2>2
  <1>10. QED BY <1>1, <1>5, <1>7, <1>8, <1>9 DEF AgreeInv

LEMMA AgreeHear ==
  ASSUME AgreeInv, PairInv', NEW n \in Node, ResponderReads(n)
  PROVE  AgreeInv'
  <1> DEFINE k == Peer(n)
  <1>1. /\ k \in Node /\ k # n /\ Peer(k) = n /\ \A m \in Node : m = n \/ m = k
    BY PeerFacts
  <1>2. /\ UNCHANGED <<num_pages, hint, first_connection_failed>>
        /\ pc'[n] = pc[n] /\ pc'[k] = "heard"
        /\ wire'[n] = wire[n] /\ wire'[k] = <<>> /\ wire[k] # <<>>
    BY <1>1 DEF ResponderReads, Goto, AgreeInv, TypeOK
  <1>3. AtPrompt(n) /\ AtPrompt(n)' /\ AtPrompt(k) /\ AtPrompt(k)'
    BY <1>1, <1>2 DEF ResponderReads, AtPrompt, AgreeInv, PairInv
  <1>4. TypeOK'
    BY <1>1 DEF AgreeInv, TypeOK, ResponderReads, Goto
  <1> HIDE DEF k
  <1>5. \A m \in Node : Roles(m)' /\ Announced(m)'
    <2>1. \A m \in Node : AtPrompt(m)' /\ AtPrompt(Peer(m))'
      BY <1>1, <1>3 DEF k
    <2>2. \A m \in Node : Announced(m)'
      BY <2>1 DEF Announced
    <2>3. \A m \in Node : Roles(m)'
      BY <2>1 DEF Roles, AtPrompt
    <2>4. QED BY <2>2, <2>3
  <1>6. Agreed'
    <2>1. /\ num_pages[A] = num_pages[B]
          /\ hint[A] = hint[B] \/ \E m \in Node : Swallowed(m)
      BY <1>1, <1>3 DEF AgreeInv, Agreed
    <2>2. ASSUME NEW m \in Node, Swallowed(m) PROVE Swallowed(m)'
      BY <1>1, <1>2, <2>2 DEF Swallowed
    <2>3. QED BY <1>2, <2>1, <2>2 DEF Agreed
  <1>7. QED BY <1>4, <1>5, <1>6 DEF AgreeInv

LEMMA AgreeNext ==
  ASSUME AgreeInv, [Next]_vars
  PROVE  AgreeInv'
  <1>1. PairInv'
    BY PairNext DEF AgreeInv
  <1>2. CASE UNCHANGED vars
    BY <1>1, <1>2
    DEF AgreeInv, TypeOK, Agreed, Swallowed, Roles, Announced, PairOf, AtPrompt,
        vars
  <1>3. QED
    BY <1>1, <1>2, AgreeEarly, AgreeAsk, AgreeReceive, AgreeSend, AgreeHear
    DEF Next, Step

LEMMA AgreeInvariant == Spec => []AgreeInv
  BY AgreeInit, AgreeNext, PTL DEF Spec

\* Type correctness: what the second process parses as a length is one, since
\* the pairing message is in front of any request.
THEOREM TypeCorrect == Spec => []TypeOK
  <1>1. AgreeInv => TypeOK
    BY DEF AgreeInv
  <1>2. QED BY <1>1, AgreeInvariant, PTL

\* However soon the users type: two processes at their prompts have the same
\* pages, at the same address unless a command was swallowed, in whatever order
\* the processes were started.
THEOREM AgreementHolds == Spec => []Agreement
  <1>1. AgreeInv => Agreement
    BY DEF AgreeInv, Agreed, Agreement, Node
  <1>2. QED BY <1>1, AgreeInvariant, PTL
=============================================================================
