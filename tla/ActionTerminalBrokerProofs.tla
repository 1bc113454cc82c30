--------------------- MODULE ActionTerminalBrokerProofs ---------------------
(***************************************************************************)
(* Proofs about ActionTerminalBroker, for any number of flows, services    *)
(* and actions.                                                            *)
(*                                                                         *)
(* BrokerInv is inductive.  A cached outcome is about the owned action     *)
(* when there is one (TerminalOfAction), a poll whose snapshot is current  *)
(* still polls for the owned action (PollsCurrent), and a current snapshot *)
(* of a flow's own action means that flow connected it.                    *)
(***************************************************************************)
EXTENDS ActionTerminalBroker, TLAPS

TerminalOfAction == action # NONE /\ terminal # NONE => terminal = action

PollsCurrent ==
    \A c \in Clients : request[c].at = "poll" /\ c \in captured =>
        action # NONE /\ action = request[c].target

RequestsNameActions ==
    /\ gateway.state # "none" => gateway.id \in Actions
    /\ \A c \in Clients :
        request[c].state \in {"pending", "terminal", "accepted"} =>
            request[c].id \in Actions
    /\ \A c \in Clients :
        request[c].at = "connect" => request[c].state \in {"waiting", "accepted"}
    /\ \A c \in Clients :
        request[c].at \in {"poll", "sleep"} => request[c].target \in Actions

BrokerInv ==
    /\ TypeOK
    /\ TerminalOfAction
    /\ PollsCurrent
    /\ RequestsNameActions
    /\ OutcomesMatch
    /\ OwnersConnectedIt

-----------------------------------------------------------------------------
\* What asking for, and answering, a request leaves in the record of requests.
LEMMA RequestUpdate ==
    ASSUME TypeOK, NEW c \in Clients, NEW r \in Request, Asks(c, r)
    PROVE  /\ request' \in [Clients -> Request]
           /\ request'[c] = r
           /\ \A d \in Clients : d # c => request'[d] = request[d]
  BY DEF TypeOK, Asks

LEMMA RequestShapes ==
    /\ Idle \in Request
    /\ \A what \in {"status", "poll", "connect", "close"},
          a \in Actions \cup {NONE} : Sent(what, a) \in Request
    /\ \A a \in Actions \cup {NONE} : Sleeping(a) \in Request
  BY DEF Idle, Sent, Sleeping, Request, Observations

\* A cleared broker satisfies everything that is said about the broker.
LEMMA ClearInv ==
    ASSUME BrokerInv, Clear, request' \in [Clients -> Request],
           RequestsNameActions', OutcomesMatch',
           delivered' \subseteq (Actions \X Actions),
           UNCHANGED <<gateway, issued>>
    PROVE  BrokerInv'
  BY NoneAssumption
     DEF BrokerInv, TypeOK, TerminalOfAction, PollsCurrent, OwnersConnectedIt,
         Clear

LEMMA InitBrokerInv == Init => BrokerInv
  BY NoneAssumption
     DEF Init, BrokerInv, TypeOK, TerminalOfAction, PollsCurrent,
         RequestsNameActions, OutcomesMatch, OwnersConnectedIt, Idle, Request,
         Observations

\* A client that starts or ends a request leaves no dangling answer.
LEMMA AskKeepsAnswers ==
    ASSUME BrokerInv, NEW c \in Clients, NEW r \in Request, Asks(c, r),
           r.state \in {"none", "waiting"},
           r.at = "connect" => r.state = "waiting",
           r.at \in {"poll", "sleep"} => r.target \in Actions,
           UNCHANGED gateway
    PROVE  RequestsNameActions'
  BY RequestUpdate DEF BrokerInv, RequestsNameActions

LEMMA IdleShape ==
    Idle.at = "idle" /\ Idle.state = "none"
  BY DEF Idle

LEMMA SentShape ==
    \A what, a : Sent(what, a).at = what /\ Sent(what, a).target = a
                    /\ Sent(what, a).state = "waiting"
  BY DEF Sent

\* reserve_connect and the request that follows it.
LEMMA ConnectSentInv ==
    ASSUME BrokerInv, NEW c \in Clients, ConnectSent(c) PROVE BrokerInv'
  <1>. DEFINE r == Sent("connect", NONE)
  <1>1. r \in Request /\ r.at = "connect" /\ r.state = "waiting"
    BY RequestShapes, SentShape
  <1>2. Asks(c, r) /\ UNCHANGED gateway
    BY DEF ConnectSent, external
  <1>. HIDE DEF r
  <1>3. RequestsNameActions'
    BY <1>1, <1>2, AskKeepsAnswers
  <1>4. /\ request' \in [Clients -> Request]
        /\ request'[c] = r
    BY <1>1, <1>2, RequestUpdate DEF BrokerInv
  <1>5. QED
    BY <1>1, <1>3, <1>4, NoneAssumption
       DEF ConnectSent, Free, BrokerInv, TypeOK, TerminalOfAction, PollsCurrent,
           OutcomesMatch, OwnersConnectedIt, external, NoDelivery

\* finalize_connect, with or without the reservation.
LEMMA ConnectReturnsInv ==
    ASSUME BrokerInv, NEW c \in Clients, ConnectReturns(c) PROVE BrokerInv'
  <1>1. Asks(c, Idle) /\ UNCHANGED gateway /\ Idle \in Request
    BY RequestShapes DEF ConnectReturns, external
  <1>2. RequestsNameActions'
    BY <1>1, IdleShape, AskKeepsAnswers
  <1>3. /\ request' \in [Clients -> Request]
        /\ request'[c] = Idle
        /\ \A d \in Clients : d # c => request'[d] = request[d]
    BY <1>1, RequestUpdate DEF BrokerInv
  <1>4. request[c].at = "connect" /\ request[c].id \in Actions
    BY DEF ConnectReturns, Answered, BrokerInv, RequestsNameActions
  <1>5. CASE reservation = c
    BY <1>1, <1>2, <1>3, <1>4, <1>5, NoneAssumption
       DEF ConnectReturns, TerminalOf, BrokerInv, TypeOK, TerminalOfAction,
           PollsCurrent, OutcomesMatch, OwnersConnectedIt, external,
           NoDelivery, Clients
  <1>6. CASE reservation # c
    <2>1. UNCHANGED <<reservation, action, terminal, captured, owners, starter,
                      issued, gateway>> /\ delivered' = {}
      BY <1>6 DEF ConnectReturns, broker, external, NoDelivery
    <2>2. PollsCurrent'
      BY <1>3, <2>1, IdleShape DEF BrokerInv, PollsCurrent
    <2>3. TypeOK'
      BY <1>3, <1>6, <2>1 DEF BrokerInv, TypeOK
    <2>4. QED
      BY <1>2, <2>1, <2>2, <2>3
         DEF BrokerInv, TerminalOfAction, OutcomesMatch, OwnersConnectedIt
  <1>7. QED
    BY <1>5, <1>6

\* release_connect, or the end of any other request.
LEMMA RequestFailsInv ==
    ASSUME BrokerInv, NEW c \in Clients, RequestFails(c) PROVE BrokerInv'
  <1>1. Asks(c, Idle) /\ UNCHANGED gateway /\ Idle \in Request
    BY RequestShapes DEF RequestFails, external
  <1>2. RequestsNameActions'
    BY <1>1, IdleShape, AskKeepsAnswers
  <1>3. /\ request' \in [Clients -> Request]
        /\ request'[c] = Idle
        /\ \A d \in Clients : d # c => request'[d] = request[d]
    BY <1>1, RequestUpdate DEF BrokerInv
  <1>4. CASE Releases(c)
    BY <1>1, <1>2, <1>3, <1>4, IdleShape, NoneAssumption
       DEF RequestFails, Releases, BrokerInv, TypeOK, TerminalOfAction,
           PollsCurrent, OutcomesMatch, OwnersConnectedIt, external, NoDelivery
  <1>5. CASE reservation # c /\ Spent(c) /\ UNCHANGED terminal
    <2>1. PollsCurrent'
      BY <1>3, <1>5, IdleShape DEF Spent, BrokerInv, PollsCurrent
    <2>2. TypeOK'
      BY <1>3, <1>5 DEF RequestFails, Spent, BrokerInv, TypeOK, external,
                        NoDelivery
    <2>3. QED
      BY <1>2, <1>5, <2>1, <2>2
         DEF RequestFails, Spent, BrokerInv, TerminalOfAction, OutcomesMatch,
             OwnersConnectedIt, NoDelivery
  <1>6. QED
    BY <1>4, <1>5 DEF RequestFails

\* A request that captures a snapshot, other than a poll.
LEMMA SnapshotSentInv ==
    ASSUME BrokerInv, NEW c \in Clients, StatusSent(c) \/ CloseSent(c)
    PROVE  BrokerInv'
  <1>1. PICK r \in {Sent("status", NONE), Sent("close", NONE)} : Asks(c, r)
    BY DEF StatusSent, CloseSent
  <1>2. r \in Request /\ r.at \in {"status", "close"} /\ r.state = "waiting"
    BY RequestShapes, SentShape
  <1>3. /\ request[c] = Idle
        /\ captured' = captured \cup {c}
        /\ UNCHANGED <<reservation, action, terminal, owners, starter, gateway,
                       issued>>
        /\ delivered' = {}
    BY DEF StatusSent, CloseSent, external, NoDelivery
  <1>4. RequestsNameActions'
    BY <1>1, <1>2, <1>3, AskKeepsAnswers
  <1>5. /\ request' \in [Clients -> Request]
        /\ request'[c] = r
        /\ \A d \in Clients : d # c => request'[d] = request[d]
    BY <1>1, <1>2, RequestUpdate DEF BrokerInv
  <1>6. TypeOK'
    BY <1>3, <1>5, IdleShape DEF BrokerInv, TypeOK
  <1>7. PollsCurrent'
    BY <1>2, <1>3, <1>5 DEF BrokerInv, PollsCurrent
  <1>8. QED
    BY <1>3, <1>4, <1>6, <1>7
       DEF BrokerInv, TerminalOfAction, OutcomesMatch, OwnersConnectedIt

-----------------------------------------------------------------------------
\* What an answer can make the cached outcome.
LEMMA CachedOutcome ==
    ASSUME BrokerInv, NEW c \in Clients
    PROVE  Cached(c) \in Actions \cup {NONE}
  BY DEF Cached, BrokerInv, TypeOK, RequestsNameActions

\* observe, for a client whose request is over.
LEMMA ObserveInv ==
    ASSUME BrokerInv, NEW c \in Clients, request[c].at # "connect",
           Observe(c), Asks(c, Idle), UNCHANGED external, NoDelivery
    PROVE  BrokerInv'
  <1>1. UNCHANGED <<gateway, issued>> /\ delivered' = {} /\ Idle \in Request
    BY RequestShapes DEF external, NoDelivery
  <1>2. RequestsNameActions'
    BY <1>1, IdleShape, AskKeepsAnswers
  <1>3. /\ request' \in [Clients -> Request]
        /\ request'[c] = Idle
        /\ \A d \in Clients : d # c => request'[d] = request[d]
    BY <1>1, RequestUpdate DEF BrokerInv
  <1>4. OutcomesMatch' /\ delivered' \subseteq (Actions \X Actions)
    BY <1>1 DEF OutcomesMatch
  <1>5. CASE Clear
    BY <1>1, <1>2, <1>3, <1>4, <1>5, ClearInv
  <1>6. ASSUME Spent(c), terminal' \in {terminal, Cached(c)},
               action = NONE \/ terminal' = terminal \/ request[c].id = action
        PROVE  BrokerInv'
    <2>1. PollsCurrent'
      BY <1>3, <1>6, IdleShape DEF Spent, BrokerInv, PollsCurrent
    <2>2. terminal' \in Actions \cup {NONE}
      BY <1>6, CachedOutcome DEF BrokerInv, TypeOK
    <2>3. TypeOK'
      <3>1. reservation # NONE => reservation # c
        BY DEF BrokerInv, TypeOK
      <3>2. QED
        BY <1>1, <1>3, <1>6, <2>2, <3>1 DEF Spent, BrokerInv, TypeOK
    <2>4. TerminalOfAction'
      BY <1>6 DEF Spent, Cached, BrokerInv, TerminalOfAction
    <2>5. OwnersConnectedIt'
      BY <1>6 DEF Spent, BrokerInv, OwnersConnectedIt
    <2>6. QED
      BY <1>2, <1>4, <2>1, <2>3, <2>4, <2>5 DEF BrokerInv
  <1>7. QED
    BY <1>5, <1>6
       DEF Observe, ObserveReserved, ObserveOwned, ObserveNothing, BrokerInv,
           TypeOK
LEMMA StatusReturnsInv ==
    ASSUME BrokerInv, NEW c \in Clients, StatusReturns(c) PROVE BrokerInv'
  <1>1. request[c].at # "connect" /\ Observe(c) /\ Asks(c, Idle)
    BY DEF StatusReturns, Answered
  <1>2. UNCHANGED external /\ NoDelivery
    BY DEF StatusReturns
  <1>3. QED
    BY <1>1, <1>2, ObserveInv

\* A step that clears the broker and ends a request, or leaves all of them.
LEMMA ClearedAndIdleInv ==
    ASSUME BrokerInv, NEW c \in Clients, Clear,
           Asks(c, Idle) \/ UNCHANGED request, UNCHANGED external,
           OutcomesMatch', delivered' \subseteq (Actions \X Actions)
    PROVE  BrokerInv'
  <1>1. UNCHANGED <<gateway, issued>> /\ Idle \in Request
    BY RequestShapes DEF external
  <1>2. RequestsNameActions'
    BY <1>1, IdleShape, AskKeepsAnswers DEF BrokerInv, RequestsNameActions
  <1>3. request' \in [Clients -> Request]
    BY <1>1, RequestUpdate DEF BrokerInv, TypeOK
  <1>4. QED
    BY <1>1, <1>2, <1>3, ClearInv

LEMMA CloseReturnsInv ==
    ASSUME BrokerInv, NEW c \in Clients, CloseReturns(c) PROVE BrokerInv'
  <1>1. Asks(c, Idle) /\ UNCHANGED external /\ delivered' = {}
    BY DEF CloseReturns, NoDelivery
  <1>2. OutcomesMatch' /\ delivered' \subseteq (Actions \X Actions)
    BY <1>1 DEF OutcomesMatch
  <1>3. CASE Clear
    BY <1>1, <1>2, <1>3, ClearedAndIdleInv
  <1>4. ASSUME captured' = captured \ {c}, owners' = owners \ {c},
               UNCHANGED <<reservation, action, terminal, starter>>
        PROVE  BrokerInv'
    <2>1. UNCHANGED <<gateway, issued>> /\ Idle \in Request
      BY <1>1, RequestShapes DEF external
    <2>2. RequestsNameActions'
      BY <1>1, <2>1, IdleShape, AskKeepsAnswers
    <2>3. /\ request' \in [Clients -> Request]
          /\ request'[c] = Idle
          /\ \A d \in Clients : d # c => request'[d] = request[d]
      BY <1>1, <2>1, RequestUpdate DEF BrokerInv
    <2>4. reservation # NONE => reservation # c
      BY DEF BrokerInv, TypeOK, CloseReturns, Answered
    <2>5. TypeOK'
      BY <1>1, <1>4, <2>1, <2>3, <2>4 DEF BrokerInv, TypeOK
    <2>6. PollsCurrent'
      BY <1>4, <2>3, IdleShape DEF BrokerInv, PollsCurrent
    <2>7. TerminalOfAction' /\ OwnersConnectedIt'
      BY <1>4 DEF BrokerInv, TerminalOfAction, OwnersConnectedIt
    <2>8. QED
      BY <1>2, <2>2, <2>5, <2>6, <2>7 DEF BrokerInv
  <1>5. QED
    BY <1>3, <1>4 DEF CloseReturns

\* abort of the flow that connected the action.
LEMMA AbortInv ==
    ASSUME BrokerInv, NEW f \in Flows, Abort(f) PROVE BrokerInv'
  <1>1. Clear /\ UNCHANGED request /\ UNCHANGED external /\ delivered' = {}
    BY DEF Abort, NoDelivery
  <1>2. f \in Clients
    BY DEF Clients
  <1>3. QED
    BY <1>1, <1>2, ClearedAndIdleInv DEF OutcomesMatch

-----------------------------------------------------------------------------
\* A poll that ends with an outcome: the cached one is about the owned action.
LEMMA DeliverInv ==
    ASSUME BrokerInv, NEW c \in Clients, NEW a \in Actions,
           Deliver(a, a), Asks(c, Idle) \/ UNCHANGED request,
           UNCHANGED external
    PROVE  BrokerInv'
  <1>1. Clear /\ delivered' = {<<a, a>>}
    BY DEF Deliver
  <1>2. OutcomesMatch' /\ delivered' \subseteq (Actions \X Actions)
    BY <1>1 DEF OutcomesMatch
  <1>3. QED
    BY <1>1, <1>2, ClearedAndIdleInv

\* Sending a poll, first or again, for the owned action.
LEMMA PollSentInv ==
    ASSUME BrokerInv, NEW c \in Clients, reservation # c, action # NONE,
           Asks(c, Sent("poll", action)), captured' = captured \cup {c},
           UNCHANGED <<reservation, action, terminal, owners, starter>>,
           UNCHANGED external, NoDelivery
    PROVE  BrokerInv'
  <1>. DEFINE r == Sent("poll", action)
  <1>1. action \in Actions
    BY DEF BrokerInv, TypeOK
  <1>2. r \in Request /\ r.at = "poll" /\ r.state = "waiting"
                      /\ r.target = action
    BY <1>1, RequestShapes, SentShape
  <1>3. Asks(c, r) /\ UNCHANGED <<gateway, issued>> /\ delivered' = {}
    BY DEF external, NoDelivery
  <1>. HIDE DEF r
  <1>4. RequestsNameActions'
    BY <1>1, <1>2, <1>3, AskKeepsAnswers
  <1>5. /\ request' \in [Clients -> Request]
        /\ request'[c] = r
        /\ \A d \in Clients : d # c => request'[d] = request[d]
    BY <1>2, <1>3, RequestUpdate DEF BrokerInv
  <1>6. TypeOK'
    BY <1>3, <1>5 DEF BrokerInv, TypeOK
  <1>7. PollsCurrent'
    BY <1>2, <1>5 DEF BrokerInv, PollsCurrent
  <1>8. QED
    BY <1>3, <1>4, <1>6, <1>7
       DEF BrokerInv, TerminalOfAction, OutcomesMatch, OwnersConnectedIt

LEMMA PollStartsInv ==
    ASSUME BrokerInv, NEW f \in Flows, PollStarts(f) PROVE BrokerInv'
  <1>1. f \in Clients
    BY DEF Clients
  <1>2. CASE terminal # NONE
    <2>1. action \in Actions /\ terminal = action
      BY <1>2 DEF PollStarts, BrokerInv, TypeOK, TerminalOfAction
    <2>2. Deliver(action, action) /\ UNCHANGED request /\ UNCHANGED external
      BY <1>2, <2>1 DEF PollStarts
    <2>3. QED
      BY <1>1, <2>1, <2>2, DeliverInv
  <1>3. CASE terminal = NONE
    <2>1. reservation # f
      BY <1>1, NoneAssumption DEF PollStarts, BrokerInv, TypeOK
    <2>2. QED
      BY <1>1, <1>3, <2>1, PollSentInv DEF PollStarts
  <1>4. QED
    BY <1>2, <1>3

LEMMA PollWakesInv ==
    ASSUME BrokerInv, NEW f \in Flows, PollWakes(f) PROVE BrokerInv'
  <1>1. f \in Clients /\ request[f].at = "sleep"
    BY DEF Clients, PollWakes
  <1>2. reservation # NONE => reservation # f
    BY <1>1 DEF BrokerInv, TypeOK
  <1>3. UNCHANGED <<reservation, action, terminal, owners, starter>>
        /\ UNCHANGED external /\ NoDelivery
    BY DEF PollWakes
  <1>4. CASE action # NONE /\ action = request[f].target
    <2>1. reservation # f
      BY <1>1, <1>2, NoneAssumption
    <2>2. captured' = captured \cup {f} /\ Asks(f, Sent("poll", action))
      BY <1>4 DEF PollWakes
    <2>3. QED
      BY <1>1, <1>3, <1>4, <2>1, <2>2, PollSentInv
  <1>5. CASE action # request[f].target
    <2>1. Asks(f, Idle) /\ UNCHANGED <<captured, gateway, issued>>
          /\ delivered' = {} /\ Idle \in Request
      BY <1>3, <1>5, RequestShapes DEF PollWakes, external, NoDelivery
    <2>2. RequestsNameActions'
      BY <1>1, <2>1, IdleShape, AskKeepsAnswers
    <2>3. /\ request' \in [Clients -> Request]
          /\ request'[f] = Idle
          /\ \A d \in Clients : d # f => request'[d] = request[d]
      BY <1>1, <2>1, RequestUpdate DEF BrokerInv
    <2>4. TypeOK'
      BY <1>2, <1>3, <2>1, <2>3 DEF BrokerInv, TypeOK
    <2>5. PollsCurrent'
      BY <1>3, <2>1, <2>3, IdleShape DEF BrokerInv, PollsCurrent
    <2>6. QED
      BY <1>3, <2>1, <2>2, <2>4, <2>5
         DEF BrokerInv, TerminalOfAction, OutcomesMatch, OwnersConnectedIt
  <1>6. request[f].target \in Actions
    BY <1>1 DEF BrokerInv, RequestsNameActions
  <1>7. QED
    BY <1>4, <1>5, <1>6, NoneAssumption

\* The alternatives of a poll's return.
LEMMA PollReturnsInv ==
    ASSUME BrokerInv, NEW f \in Flows, PollReturns(f) PROVE BrokerInv'
  <1>1. f \in Clients /\ request[f].at = "poll" /\ UNCHANGED external
    BY DEF Clients, PollReturns, Answered
  <1>2. CASE Observe(f) /\ Asks(f, Idle) /\ NoDelivery
    BY <1>1, <1>2, ObserveInv
  <1>3. ASSUME f \in captured, ~ShowsAnother(f)
        PROVE  /\ action \in Actions
               /\ reservation = NONE
               /\ request[f].target = action
               /\ Cached(f) # NONE => Cached(f) = action
    <2>1. action \in Actions /\ reservation = NONE /\ request[f].target = action
      BY <1>1, <1>3 DEF BrokerInv, TypeOK, PollsCurrent
    <2>2. action # NONE
      BY <2>1, NoneAssumption
    <2>3. request[f].state = "terminal" => request[f].id = action
      BY <1>3, <2>1, <2>2 DEF ShowsAnother
    <2>4. QED
      BY <2>1, <2>2, <2>3 DEF Cached, BrokerInv, TerminalOfAction
  <1>4. CASE /\ f \in captured /\ ~ShowsAnother(f)
             /\ Cached(f) # NONE
             /\ Deliver(request[f].target, Cached(f))
             /\ Asks(f, Idle)
    <2>1. action \in Actions /\ Deliver(action, action)
      BY <1>3, <1>4
    <2>2. QED
      BY <1>1, <1>4, <2>1, DeliverInv
  <1>5. CASE /\ Spent(f) /\ UNCHANGED terminal /\ NoDelivery
             /\ \/ Asks(f, Idle)
                \/ Asks(f, Sleeping(request[f].target))
    <2>1. request[f].target \in Actions
      BY <1>1 DEF BrokerInv, RequestsNameActions
    <2>2. PICK r \in {Idle, Sleeping(request[f].target)} : Asks(f, r)
      BY <1>5
    <2>3. /\ r \in Request /\ r.state = "none"
          /\ r.at \in {"idle", "sleep"}
          /\ r.at = "sleep" => r.target \in Actions
      BY <2>1, RequestShapes DEF Idle, Sleeping
    <2>4. UNCHANGED <<gateway, issued>> /\ delivered' = {}
      BY <1>1, <1>5 DEF external, NoDelivery
    <2>5. RequestsNameActions'
      BY <1>1, <2>2, <2>3, <2>4, AskKeepsAnswers
    <2>6. /\ request' \in [Clients -> Request]
          /\ request'[f] = r
          /\ \A d \in Clients : d # f => request'[d] = request[d]
      BY <1>1, <2>2, <2>3, RequestUpdate DEF BrokerInv
    <2>7. reservation # NONE => reservation # f
      BY <1>1 DEF BrokerInv, TypeOK
    <2>8. TypeOK'
      BY <1>5, <2>4, <2>6, <2>7 DEF Spent, BrokerInv, TypeOK
    <2>9. PollsCurrent'
      BY <1>5, <2>3, <2>6 DEF Spent, BrokerInv, PollsCurrent
    <2>10. QED
      BY <1>5, <2>4, <2>5, <2>8, <2>9
         DEF Spent, BrokerInv, TerminalOfAction, OutcomesMatch,
             OwnersConnectedIt
  <1>6. QED
    BY <1>2, <1>4, <1>5 DEF PollReturns

-----------------------------------------------------------------------------
\* The gateway changes no part of the broker, and no request's purpose.
LEMMA GatewayAnswersInv ==
    ASSUME BrokerInv, NEW c \in Clients,
           GatewayConnects(c) \/ GatewayReports(c) \/ GatewayCloses(c)
    PROVE  BrokerInv'
  <1>1. PICK state \in Observations \cup {"accepted", "closed", "replayed"},
             id \in Actions \cup {NONE} :
          /\ Answers(c, state, id)
          /\ state \in {"pending", "terminal", "accepted"} => id \in Actions
          /\ request[c].at = "connect" => state = "accepted"
    <2>1. CASE GatewayConnects(c)
      <3>1. PICK a \in Actions : Answers(c, "accepted", a)
        BY <2>1 DEF GatewayConnects, BrokerInv, TypeOK
      <3>2. QED
        BY <3>1
    <2>2. CASE GatewayReports(c)
      <3>1. Answers(c, gateway.state, gateway.id) /\ request[c].at # "connect"
        BY <2>2 DEF GatewayReports, Waiting
      <3>2. gateway.state \in Observations /\ gateway.id \in Actions \cup {NONE}
        BY DEF BrokerInv, TypeOK
      <3>3. gateway.state # "none" => gateway.id \in Actions
        BY DEF BrokerInv, RequestsNameActions
      <3>4. QED
        BY <3>1, <3>2, <3>3 DEF Observations
    <2>3. CASE GatewayCloses(c)
      <3>1. /\ request[c].at # "connect"
            /\ Answers(c, "closed", NONE) \/ Answers(c, "replayed", NONE)
        BY <2>3 DEF GatewayCloses, Waiting
      <3>2. QED
        BY <3>1
    <2>4. QED
      BY <2>1, <2>2, <2>3
  <1>2. /\ gateway' \in [state : Observations, id : Actions \cup {NONE}]
        /\ gateway'.state # "none" => gateway'.id \in Actions
        /\ issued' \subseteq Actions
    BY DEF GatewayConnects, GatewayReports, GatewayCloses, BrokerInv, TypeOK,
           RequestsNameActions, Observations, external
  <1>3. UNCHANGED <<reservation, action, terminal, captured, owners, starter>>
        /\ delivered' = {}
    BY DEF GatewayConnects, GatewayReports, GatewayCloses, broker, NoDelivery
  <1>4. /\ request' \in [Clients -> Request]
        /\ request'[c].state = state /\ request'[c].id = id
        /\ \A d \in Clients : /\ request'[d].at = request[d].at
                              /\ request'[d].target = request[d].target
        /\ \A d \in Clients : d # c => request'[d] = request[d]
    <2>1. request[c] \in Request /\ request \in [Clients -> Request]
      BY DEF BrokerInv, TypeOK
    <2>. DEFINE r == [request[c] EXCEPT !.state = state, !.id = id]
    <2>2. /\ r \in Request /\ r.state = state /\ r.id = id
          /\ r.at = request[c].at /\ r.target = request[c].target
      BY <2>1 DEF Request, Observations
    <2>3. request' = [request EXCEPT ![c] = r]
      BY <1>1, <2>1 DEF Answers, Request
    <2>. HIDE DEF r
    <2>4. QED
      BY <2>1, <2>2, <2>3
  <1>5. TypeOK'
    BY <1>2, <1>3, <1>4 DEF BrokerInv, TypeOK
  <1>6. PollsCurrent'
    BY <1>3, <1>4 DEF BrokerInv, PollsCurrent
  <1>7. RequestsNameActions'
    BY <1>1, <1>2, <1>4 DEF BrokerInv, RequestsNameActions
  <1>8. QED
    BY <1>3, <1>5, <1>6, <1>7
       DEF BrokerInv, TerminalOfAction, OutcomesMatch, OwnersConnectedIt

LEMMA GatewayMovesInv ==
    ASSUME BrokerInv, GatewayEnds \/ GatewayForgets PROVE BrokerInv'
  <1>1. /\ gateway' \in [state : Observations, id : Actions \cup {NONE}]
        /\ gateway'.state # "none" => gateway'.id \in Actions
    BY DEF GatewayEnds, GatewayForgets, BrokerInv, TypeOK, RequestsNameActions,
           Observations
  <1>2. UNCHANGED <<reservation, action, terminal, captured, owners, starter,
                    request, issued>> /\ delivered' = {}
    BY DEF GatewayEnds, GatewayForgets, broker, NoDelivery
  <1>3. QED
    BY <1>1, <1>2
       DEF BrokerInv, TypeOK, TerminalOfAction, PollsCurrent,
           RequestsNameActions, OutcomesMatch, OwnersConnectedIt

LEMMA BrokerStutter ==
    ASSUME BrokerInv, UNCHANGED vars PROVE BrokerInv'
  <1>1. UNCHANGED <<reservation, action, terminal, captured, owners, starter,
                    request, gateway, issued, delivered>>
    BY DEF vars, broker, external
  <1>2. QED
    BY <1>1
       DEF BrokerInv, TypeOK, TerminalOfAction, PollsCurrent,
           RequestsNameActions, OutcomesMatch, OwnersConnectedIt

LEMMA NextBrokerInv ==
    ASSUME BrokerInv, Next PROVE BrokerInv'
  <1>1. ASSUME NEW c \in Clients, StatusSent(c) \/ CloseSent(c)
        PROVE  BrokerInv'
    BY <1>1, SnapshotSentInv
  <1>2. ASSUME NEW c \in Clients, ConnectSent(c) PROVE BrokerInv'
    BY <1>2, ConnectSentInv
  <1>3. ASSUME NEW c \in Clients, Returns(c) PROVE BrokerInv'
    BY <1>3, ConnectReturnsInv, StatusReturnsInv, CloseReturnsInv,
       RequestFailsInv DEF Returns
  <1>4. ASSUME NEW c \in Clients,
               GatewayConnects(c) \/ GatewayReports(c) \/ GatewayCloses(c)
        PROVE  BrokerInv'
    BY <1>4, GatewayAnswersInv
  <1>5. ASSUME NEW f \in Flows,
               PollStarts(f) \/ PollReturns(f) \/ PollWakes(f)
        PROVE  BrokerInv'
    BY <1>5, PollStartsInv, PollReturnsInv, PollWakesInv
  <1>6. ASSUME NEW f \in Flows, Abort(f) PROVE BrokerInv'
    BY <1>6, AbortInv
  <1>7. CASE GatewayEnds \/ GatewayForgets
    BY <1>7, GatewayMovesInv
  <1>8. CASE Expire \/ Reset
    <2>1. Clear /\ UNCHANGED request /\ UNCHANGED external /\ delivered' = {}
      BY <1>8 DEF Expire, Reset, NoDelivery
    <2>2. RequestsNameActions' /\ request' \in [Clients -> Request]
          /\ UNCHANGED <<gateway, issued>>
      BY <2>1 DEF BrokerInv, TypeOK, RequestsNameActions, external
    <2>3. OutcomesMatch' /\ delivered' \subseteq (Actions \X Actions)
      BY <2>1 DEF OutcomesMatch
    <2>4. QED
      BY <2>1, <2>2, <2>3, ClearInv
  <1>9. QED
    BY <1>1, <1>2, <1>3, <1>4, <1>5, <1>6, <1>7, <1>8 DEF Next

\* Everything BrokerInv says holds of every state the broker reaches.
THEOREM BrokerInvariance == Spec => []BrokerInv
  <1>1. Init => BrokerInv
    BY InitBrokerInv
  <1>2. BrokerInv /\ [Next]_vars => BrokerInv'
    BY NextBrokerInv, BrokerStutter
  <1>3. QED
    BY <1>1, <1>2, PTL DEF Spec

\* The broker's variables keep their types; a reservation belongs to a connect
\* that is under way and excludes an owned action.
THEOREM BrokerTypeCorrect == Spec => []TypeOK
  <1>1. BrokerInv => TypeOK
    BY DEF BrokerInv
  <1>2. QED
    BY <1>1, BrokerInvariance, PTL

\* A poll is only ever handed the outcome of the action it polls for
\* (consume_terminal, async_poll_active_action).
THEOREM DeliveredOutcomesMatch == Spec => []OutcomesMatch
  <1>1. BrokerInv => OutcomesMatch
    BY DEF BrokerInv
  <1>2. QED
    BY <1>1, BrokerInvariance, PTL

\* The snapshot a flow keeps of its action is current only while the broker
\* owns the action this flow connected, so its abort gives up no other.
THEOREM FlowsGiveUpTheirOwn == Spec => []OwnersConnectedIt
  <1>1. BrokerInv => OwnersConnectedIt
    BY DEF BrokerInv
  <1>2. QED
    BY <1>1, BrokerInvariance, PTL

-----------------------------------------------------------------------------
\* observe caches a report that the owned action has ended.
LEMMA OwnedOutcomeObserved ==
    ASSUME BrokerInv, NEW c \in Clients, action # NONE, Observe(c),
           request[c].state = "terminal", request[c].id = action
    PROVE  terminal' = action
  <1>1. reservation = NONE
    BY DEF BrokerInv, TypeOK
  <1>2. QED
    BY <1>1 DEF Observe, ObserveReserved, ObserveOwned, ObserveNothing,
                ShowsAnother, Cached

\* A report that the owned action has ended reaches the cache or a poll,
\* whatever has happened since the request for it was sent.
THEOREM OwnedOutcomesKept == Spec => OutcomesKept
  <1>. DEFINE Reports(c) == /\ action # NONE
                            /\ request[c].state = "terminal"
                            /\ request[c].id = action
              Kept == terminal' = action \/ <<action, action>> \in delivered'
  <1>1. ASSUME BrokerInv, NEW c \in Clients, Reports(c), StatusReturns(c)
        PROVE  Kept
    BY <1>1, OwnedOutcomeObserved DEF StatusReturns
  <1>2. ASSUME BrokerInv, NEW c \in Clients, Reports(c), c \in Flows,
               PollReturns(c)
        PROVE  Kept
    <2>1. CASE Observe(c)
      BY <1>2, <2>1, OwnedOutcomeObserved
    <2>2. Cached(c) = action
      BY <1>2 DEF Cached
    <2>3. CASE c \in captured /\ Deliver(request[c].target, Cached(c))
      <3>1. request[c].target = action
        BY <1>2, <2>3 DEF PollReturns, Answered, BrokerInv, PollsCurrent
      <3>2. delivered' = {<<action, action>>}
        BY <2>2, <2>3, <3>1 DEF Deliver
      <3>3. QED
        BY <3>2
    <2>4. QED
      BY <1>2, <2>1, <2>2, <2>3 DEF PollReturns
  <1>3. BrokerInv /\ [Next]_vars => [\A c \in Clients :
            /\ action # NONE
            /\ request[c].state = "terminal" /\ request[c].id = action
            /\ StatusReturns(c) \/ (c \in Flows /\ PollReturns(c))
            => terminal' = action \/ <<action, action>> \in delivered']_vars
    BY <1>1, <1>2
  <1>4. QED
    BY <1>3, BrokerInvariance, PTL DEF Spec, OutcomesKept

\* Only time, unload, the flow that connected it, a cached outcome and a
\* current answer take the ownership of an action away.
THEOREM OwnershipEndsRightly == Spec => StaleAnswersHarmless
  <1>. DEFINE Ends == action # NONE /\ action' # action
              Rightly ==
                \/ Expire
                \/ Reset
                \/ \E f \in Flows : f = starter /\ Abort(f)
                \/ \E f \in Flows : PollStarts(f)
                \/ \E c \in captured :
                    Returns(c) \/ (c \in Flows /\ PollReturns(c))
  <1>1. ASSUME BrokerInv, Ends, NEW c \in Clients, Observe(c)
        PROVE  c \in captured
    BY <1>1 DEF Observe, ObserveReserved, ObserveOwned, ObserveNothing, Spent,
                ShowsAnother
  <1>2. ASSUME BrokerInv, Ends, NEW c \in Clients, Returns(c) PROVE Rightly
    <2>1. ~RequestFails(c)
      BY <1>2 DEF RequestFails, Releases, Spent
    <2>2. ~ConnectReturns(c)
      BY <1>2, NoneAssumption
         DEF ConnectReturns, BrokerInv, TypeOK, broker
    <2>3. StatusReturns(c) => c \in captured
      BY <1>1, <1>2 DEF StatusReturns
    <2>4. CloseReturns(c) => c \in captured
      BY <1>2 DEF CloseReturns, ClosesCurrent
    <2>5. QED
      BY <1>2, <2>1, <2>2, <2>3, <2>4 DEF Returns
  <1>3. ASSUME BrokerInv, Ends, NEW f \in Flows, PollReturns(f) PROVE Rightly
    <2>1. f \in captured
      BY <1>1, <1>3 DEF PollReturns, Clients
    <2>2. QED
      BY <1>3, <2>1
  <1>4. ASSUME BrokerInv, Ends, NEW f \in Flows, Abort(f) PROVE Rightly
    BY <1>4 DEF Abort, BrokerInv, OwnersConnectedIt
  <1>5. ASSUME Ends, Next PROVE
            \/ \E c \in Clients : Returns(c)
            \/ \E f \in Flows : PollStarts(f) \/ PollReturns(f) \/ Abort(f)
            \/ Expire
            \/ Reset
    BY <1>5
       DEF Next, ConnectSent, StatusSent, CloseSent, GatewayConnects,
           GatewayReports, GatewayCloses, PollWakes, GatewayEnds,
           GatewayForgets, broker
  <1>6. BrokerInv /\ Next => (Ends => Rightly)
    BY <1>2, <1>3, <1>4, <1>5
  <1>7. BrokerInv /\ [Next]_vars => [Ends => Rightly]_vars
    BY <1>6
  <1>8. QED
    BY <1>7, BrokerInvariance, PTL DEF Spec, StaleAnswersHarmless
=============================================================================
