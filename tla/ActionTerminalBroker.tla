------------------------ MODULE ActionTerminalBroker ------------------------
(***************************************************************************)
(* Ownership of the eeBUS connect action and delivery of its outcome:      *)
(* EEBusActionTerminalBroker and its users, the pairing controllers of the *)
(* options flow (eebus_pairing.py), the service handlers                   *)
(* (eebus_admin_services.py) and the status coordinator                    *)
(* (eebus_admin_coordinator.py).                                           *)
(*                                                                         *)
(* Everything runs on one event loop, but every client of the broker reads *)
(* or changes it on both sides of a request to the gateway, and requests   *)
(* of different clients are answered and return in any order.  A client    *)
(* has at most one request under way.                                      *)
(*                                                                         *)
(* A broker snapshot is used for one thing, to ask whether the broker's    *)
(* generation is still the one captured.  Generations only grow, so it is  *)
(* modelled by the sets of snapshots that are still current (captured,     *)
(* owners), which every change of generation empties.                      *)
(*                                                                         *)
(* The broker forgets an expired action at its next use; nobody can see    *)
(* the difference to forgetting it when it expires.                        *)
(***************************************************************************)
CONSTANTS
    Flows,      \* options flows, each with its pairing controller
    Services,   \* other clients: service calls and the status coordinator
    Actions,    \* action ids the gateway may issue
    NONE

Clients == Flows \cup Services

ASSUME NoneAssumption == NONE \notin Actions \cup Clients

VARIABLES
    reservation,  \* _reservation: the client whose connect holds it
    action,       \* _action_id
    terminal,     \* the action whose outcome _terminal is
    captured,     \* clients whose request's snapshot is current
    owners,       \* flows whose _owned_action is current
    request,      \* each client's request and its answer
    gateway,      \* external: the gateway's active action
    issued,       \* external: ids issued so far
    starter,      \* history: the client that connected the owned action
    delivered     \* history: the action polled for and the outcome handed to the
                  \* poll, when the last step did

broker == <<reservation, action, terminal, captured, owners, starter>>
external == <<gateway, issued>>
vars == <<broker, external, request, delivered>>

-----------------------------------------------------------------------------
Idle == [at |-> "idle", target |-> NONE, state |-> "none", id |-> NONE]
Sent(what, a) == [at |-> what, target |-> a, state |-> "waiting", id |-> NONE]
Sleeping(a) == [at |-> "sleep", target |-> a, state |-> "none", id |-> NONE]

Asks(c, what) == request' = [request EXCEPT ![c] = what]

Answered(c, what) == request[c].at = what /\ request[c].state # "waiting"

Observations == {"none", "pending", "terminal"}

Request == [at : {"idle", "status", "poll", "sleep", "connect", "close"},
            target : Actions \cup {NONE},
            state : Observations \cup
                    {"waiting", "accepted", "closed", "replayed"},
            id : Actions \cup {NONE}]

Init ==
    /\ reservation = NONE
    /\ action = NONE
    /\ terminal = NONE
    /\ captured = {}
    /\ owners = {}
    /\ starter = NONE
    /\ request = [c \in Clients |-> Idle]
    /\ gateway = [state |-> "none", id |-> NONE]
    /\ issued = {}
    /\ delivered = {}

-----------------------------------------------------------------------------
(***************************************************************************)
(* The broker.                                                             *)
(***************************************************************************)
NoDelivery == delivered' = {}

Clear ==
    /\ reservation' = NONE
    /\ action' = NONE
    /\ terminal' = NONE
    /\ captured' = {}
    /\ owners' = {}
    /\ starter' = NONE

\* Nothing is changed but the snapshot of a request that has returned.
Spent(c) ==
    /\ captured' = captured \ {c}
    /\ UNCHANGED <<reservation, action, owners, starter>>

\* Mutant: an outcome is taken from current answers only.
CachedIfCurrent(c) ==
    IF request[c].state = "terminal" /\ c \in captured
    THEN request[c].id ELSE terminal

\* What is cached once the answer of c's request is taken for the action's.
Cached(c) == IF request[c].state = "terminal" THEN request[c].id ELSE terminal

\* While a connect is under way any outcome is kept: it may be the connect's.
ObserveReserved(c) ==
    /\ reservation # NONE
    /\ terminal' = Cached(c)
    /\ Spent(c)

\* An answer about the owned action counts, however old its snapshot.
ObserveOwned(c) ==
    /\ reservation = NONE
    /\ action # NONE
    /\ request[c].id = action
    /\ terminal' = Cached(c)
    /\ Spent(c)

\* Mutant: the snapshot is not looked at.
ShowsAnotherUnchecked(c) ==
    /\ reservation = NONE
    /\ action # NONE
    /\ request[c].state # "none"
    /\ request[c].id # action

\* A current answer naming another action ends the ownership.
ShowsAnother(c) ==
    /\ reservation = NONE
    /\ action # NONE
    /\ c \in captured
    /\ request[c].state # "none"
    /\ request[c].id # action

ObserveNothing(c) ==
    /\ reservation = NONE
    /\ action = NONE \/ request[c].id # action
    /\ ~ShowsAnother(c)
    /\ UNCHANGED terminal
    /\ Spent(c)

Observe(c) ==
    \/ ObserveReserved(c)
    \/ ObserveOwned(c)
    \/ ShowsAnother(c) /\ Clear
    \/ ObserveNothing(c)

\* _prune, and the entry's unload or new binding, which ask nobody.
Expire ==
    /\ action # NONE
    /\ Clear
    /\ UNCHANGED <<external, request>>
    /\ NoDelivery

Reset ==
    /\ Clear
    /\ UNCHANGED <<external, request>>
    /\ NoDelivery

-----------------------------------------------------------------------------
(***************************************************************************)
(* Connecting.  The request a client sends, its return, and its failure:   *)
(* an error, a time out or the cancellation of the client, before or after *)
(* the gateway has acted on it.                                            *)
(***************************************************************************)

Free == reservation = NONE /\ action = NONE

\* reserve_connect raises candidate_busy unless the broker is free.
ConnectSent(c) ==
    /\ request[c] = Idle
    /\ Free
    /\ reservation' = c
    /\ terminal' = NONE
    /\ captured' = {}
    /\ owners' = {}
    /\ Asks(c, Sent("connect", NONE))
    /\ UNCHANGED <<action, starter, external>>
    /\ NoDelivery

\* Mutant: the cached outcome is kept whatever it is about.
TerminalKept(a) == terminal

\* The outcome seen during the connect, if it is the connected action's.
TerminalOf(a) == IF terminal = a THEN a ELSE NONE

\* Only a controller keeps a snapshot of what it connected.
ConnectReturns(c) ==
    /\ Answered(c, "connect")
    /\ IF reservation = c
       THEN /\ reservation' = NONE
            /\ action' = request[c].id
            /\ terminal' = TerminalOf(request[c].id)
            /\ captured' = {}
            /\ owners' = {c} \cap Flows
            /\ starter' = c
       ELSE UNCHANGED broker
    /\ Asks(c, Idle)
    /\ UNCHANGED external
    /\ NoDelivery

\* Mutant: a failed connect keeps its reservation.
KeepsReservation(c) == reservation = c /\ UNCHANGED broker

Releases(c) ==
    /\ reservation = c
    /\ reservation' = NONE
    /\ terminal' = NONE
    /\ captured' = {}
    /\ owners' = {}
    /\ UNCHANGED <<action, starter>>

\* A request of any kind that fails; a connect releases its reservation.
RequestFails(c) ==
    /\ request[c] # Idle
    /\ \/ Releases(c)
       \/ reservation # c /\ Spent(c) /\ UNCHANGED terminal
    /\ Asks(c, Idle)
    /\ UNCHANGED external
    /\ NoDelivery

-----------------------------------------------------------------------------
(***************************************************************************)
(* Reading the status: the coordinator, a snapshot service, a menu.        *)
(***************************************************************************)
StatusSent(c) ==
    /\ request[c] = Idle
    /\ captured' = captured \cup {c}
    /\ Asks(c, Sent("status", NONE))
    /\ UNCHANGED <<reservation, action, terminal, owners, starter, external>>
    /\ NoDelivery

StatusReturns(c) ==
    /\ Answered(c, "status")
    /\ Observe(c)
    /\ Asks(c, Idle)
    /\ UNCHANGED external
    /\ NoDelivery

-----------------------------------------------------------------------------
(***************************************************************************)
(* async_poll_active_action: a controller asks for the outcome of the      *)
(* action owned when it starts, and takes it from the broker once.         *)
(***************************************************************************)
Deliver(asked, outcome) ==
    /\ delivered' = {<<asked, outcome>>}
    /\ Clear

\* A cached outcome is taken at once; without an action there is no poll.
PollStarts(f) ==
    /\ request[f] = Idle
    /\ action # NONE
    /\ IF terminal # NONE
       THEN Deliver(action, terminal) /\ UNCHANGED request
       ELSE /\ captured' = captured \cup {f}
            /\ Asks(f, Sent("poll", action))
            /\ UNCHANGED <<reservation, action, terminal, owners, starter>>
            /\ NoDelivery
    /\ UNCHANGED external

\* Between two attempts the action may have changed hands.
PollWakes(f) ==
    /\ request[f].at = "sleep"
    /\ IF action = request[f].target
       THEN captured' = captured \cup {f} /\ Asks(f, Sent("poll", action))
       ELSE UNCHANGED captured /\ Asks(f, Idle)
    /\ UNCHANGED <<reservation, action, terminal, owners, starter, external>>
    /\ NoDelivery

\* The poll stops when its snapshot has become stale, or its answer shows
\* another action; otherwise it takes the outcome if there is one, from its
\* own answer or anybody's, and may try again while the action is pending.
PollReturns(f) ==
    /\ Answered(f, "poll")
    /\ \/ /\ f \notin captured \/ ShowsAnother(f)
          /\ Observe(f)
          /\ Asks(f, Idle)
          /\ NoDelivery
       \/ /\ f \in captured /\ ~ShowsAnother(f)
          /\ Cached(f) # NONE
          /\ Deliver(request[f].target, Cached(f))
          /\ Asks(f, Idle)
       \/ /\ f \in captured /\ ~ShowsAnother(f)
          /\ Cached(f) = NONE
          /\ Spent(f)
          /\ \/ Asks(f, Idle)
             \/ /\ request[f].state = "pending"
                /\ Asks(f, Sleeping(request[f].target))
          /\ UNCHANGED terminal
          /\ NoDelivery
    /\ UNCHANGED external

-----------------------------------------------------------------------------
(***************************************************************************)
(* Closing the pairing window gives the action up; so does the end of the  *)
(* flow that connected it.                                                 *)
(***************************************************************************)
CloseSent(c) ==
    /\ request[c] = Idle
    /\ captured' = captured \cup {c}
    /\ Asks(c, Sent("close", NONE))
    /\ UNCHANGED <<reservation, action, terminal, owners, starter, external>>
    /\ NoDelivery

ClosesCurrent(c) == request[c].state = "closed" /\ c \in captured

\* The controller's flow forgets the controller in either case.
CloseReturns(c) ==
    /\ Answered(c, "close")
    /\ IF ClosesCurrent(c)
       THEN Clear
       ELSE /\ captured' = captured \ {c}
            /\ owners' = owners \ {c}
            /\ UNCHANGED <<reservation, action, terminal, starter>>
    /\ Asks(c, Idle)
    /\ UNCHANGED external
    /\ NoDelivery

\* abort changes nothing unless the flow's own snapshot is current.
Abort(f) ==
    /\ request[f] = Idle
    /\ f \in owners
    /\ Clear
    /\ UNCHANGED <<external, request>>
    /\ NoDelivery

-----------------------------------------------------------------------------
(***************************************************************************)
(* The gateway: one active action at a time, whose outcome it may stop     *)
(* reporting at any time.  A call with a known idempotency key is replayed *)
(* and changes nothing; controllers never reuse a key.                     *)
(***************************************************************************)
Answers(c, state, id) ==
    request' = [request EXCEPT ![c].state = state, ![c].id = id]

Waiting(c, what) == request[c].at = what /\ request[c].state = "waiting"

GatewayConnects(c) ==
    /\ Waiting(c, "connect")
    /\ \/ \E a \in Actions \ issued :
            /\ gateway.state # "pending"
            /\ gateway' = [state |-> "pending", id |-> a]
            /\ issued' = issued \cup {a}
            /\ Answers(c, "accepted", a)
       \/ \E a \in issued :
            /\ c \in Services
            /\ Answers(c, "accepted", a)
            /\ UNCHANGED external
    /\ UNCHANGED broker
    /\ NoDelivery

GatewayReports(c) ==
    /\ Waiting(c, "status") \/ Waiting(c, "poll")
    /\ Answers(c, gateway.state, gateway.id)
    /\ UNCHANGED <<broker, external>>
    /\ NoDelivery

GatewayCloses(c) ==
    /\ Waiting(c, "close")
    /\ \/ /\ Answers(c, "closed", NONE)
          /\ gateway' \in {gateway, [state |-> "none", id |-> NONE]}
       \/ /\ c \in Services
          /\ Answers(c, "replayed", NONE)
          /\ UNCHANGED gateway
    /\ UNCHANGED <<issued, broker>>
    /\ NoDelivery

GatewayEnds ==
    /\ gateway.state = "pending"
    /\ gateway' = [gateway EXCEPT !.state = "terminal"]
    /\ UNCHANGED <<issued, broker, request>>
    /\ NoDelivery

GatewayForgets ==
    /\ gateway.state = "terminal"
    /\ gateway' = [state |-> "none", id |-> NONE]
    /\ UNCHANGED <<issued, broker, request>>
    /\ NoDelivery

-----------------------------------------------------------------------------
Returns(c) ==
    \/ ConnectReturns(c)
    \/ StatusReturns(c)
    \/ CloseReturns(c)
    \/ RequestFails(c)

Next ==
    \/ \E c \in Clients :
        \/ ConnectSent(c) \/ StatusSent(c) \/ CloseSent(c)
        \/ Returns(c)
        \/ GatewayConnects(c) \/ GatewayReports(c) \/ GatewayCloses(c)
    \/ \E f \in Flows : PollStarts(f) \/ PollReturns(f) \/ PollWakes(f) \/ Abort(f)
    \/ GatewayEnds
    \/ GatewayForgets
    \/ Expire
    \/ Reset

Spec == Init /\ [][Next]_vars

\* Time passes, and every request has a time out (create_admin_session).
FairSpec ==
    /\ Spec
    /\ WF_vars(Expire)
    /\ \A c \in Clients : WF_vars(Returns(c))

-----------------------------------------------------------------------------
(***************************************************************************)
(* Properties                                                              *)
(***************************************************************************)

\* Types; a reservation belongs to a connect under way, and excludes an
\* owned action.
TypeOK ==
    /\ reservation \in Clients \cup {NONE}
    /\ action \in Actions \cup {NONE}
    /\ terminal \in Actions \cup {NONE}
    /\ captured \subseteq Clients
    /\ owners \subseteq Flows
    /\ starter \in Clients \cup {NONE}
    /\ request \in [Clients -> Request]
    /\ gateway \in [state : Observations, id : Actions \cup {NONE}]
    /\ issued \subseteq Actions
    /\ delivered \subseteq (Actions \X Actions)
    /\ reservation # NONE =>
            action = NONE /\ request[reservation].at = "connect"

\* An outcome is only ever handed to a poll of the action it is about,
\* though outcomes are cached before it is known which action they will be
\* needed for.
OutcomesMatch == \A d \in delivered : d[1] = d[2]

\* A flow can give up by abort only the action it connected itself, never
\* one that was connected since.
OwnersConnectedIt == \A f \in owners : action # NONE /\ starter = f

\* A late answer takes no ownership away: besides time, unload and the flow
\* that connected it, only a client whose snapshot is of this very ownership
\* ends it.
StaleAnswersHarmless ==
    [][action # NONE /\ action' # action =>
        \/ Expire
        \/ Reset
        \/ \E f \in Flows : f = starter /\ Abort(f)
        \/ \E f \in Flows : PollStarts(f)
        \/ \E c \in captured : Returns(c) \/ (c \in Flows /\ PollReturns(c))]_vars

\* A report that the owned action ended is never lost, however late it is:
\* it is cached or delivered.
OutcomesKept ==
    [][\A c \in Clients :
        /\ action # NONE
        /\ request[c].state = "terminal" /\ request[c].id = action
        /\ StatusReturns(c) \/ (c \in Flows /\ PollReturns(c))
        => terminal' = action \/ <<action, action>> \in delivered']_vars

\* The broker never stays busy: a new connect can be tried again.
BusyEnds ==
    reservation # NONE \/ action # NONE ~> reservation = NONE /\ action = NONE
=============================================================================
