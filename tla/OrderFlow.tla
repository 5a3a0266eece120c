----------------------------- MODULE OrderFlow -----------------------------
(***************************************************************************)
(* backend/services/order, from the client's POST /orders to the end of    *)
(* the order: createOrder with its idempotency key, the simulated payment, *)
(* the dispatch to the mint-burn service over the event bus, and the two   *)
(* consumers that finish the order on the outcome of its saga.  The        *)
(* mint-burn service is its abstract specification MintOutcomes behind its *)
(* own consumer.                                                           *)
(*                                                                         *)
(* An order has the name of the request that created it, and so has its    *)
(* allocation: confirmOrder runs once per order.  A key stands for a user  *)
(* and the X-Idempotency-Key he sent.  Abstracted: amounts, addresses,     *)
(* validation of the body, failure reasons, the read-only listings, and    *)
(* order.created and order.confirmed, which nothing here waits for.        *)
(***************************************************************************)
EXTENDS Faults

CONSTANTS
    Requests,    \* POST /orders calls; the clients decide which of them are retries
    Keys,
    MaxDeliver

ASSUME OrderAssumption ==
    /\ MaxDeliver \in Nat
    /\ "none" \notin Requests \cup Keys

VARIABLES
    orders,      \* orders.orders: request that created it -> [key, type, status]
    request,     \* request -> where its handler stands and what it answered
    dispatched,  \* messages [subject, id] the order service has published
    found,       \* consumer -> it has read a row that is not terminal
    outcome, announced,           \* the mint-burn service: MintOutcomes
    attempts, handling, acked     \* the bus: EventBus

orderVars == <<orders, request, dispatched>>
mintVars == <<outcome, announced>>
consumerVars == <<found, attempts, handling, acked>>
vars == <<orderVars, mintVars, consumerVars, faults>>

OrderStatuses == {"created", "confirmed", "completed", "failed"}
IsTerminal(status) == status \in {"completed", "failed"}

DispatchSubject == [buy |-> "order.ready_to_mint", sell |-> "burn.requested"]

\* The order service's consumers of burn outcomes are left out: nothing in the
\* repository consumes burn.requested or publishes a burn outcome.
FilterSubject ==
    [mintburn_order_ready_to_mint |-> {"order.ready_to_mint"},
     order_mint_executed          |-> {"mint.executed"},
     order_mint_failed            |-> {"mint.failed"}]

OrderConsumers == {"order_mint_executed", "order_mint_failed"}

Ids == Requests
Allocations == Requests
published == dispatched \cup announced

INSTANCE MintOutcomes

INSTANCE EventBus

NoOrder == [key |-> "none", type |-> "none", status |-> "none"]
NoRequest == [stage |-> "idle", key |-> "none", type |-> "none", reply |-> "none"]

Rows == {o \in Requests : orders[o] # NoOrder}

Goto(r, stage) == request' = [request EXCEPT ![r].stage = stage]

Answer(r, order) == request' = [request EXCEPT ![r].stage = "done", ![r].reply = order]

Dispatch(r) ==
    dispatched' = dispatched \cup {[subject |-> DispatchSubject[orders[r].type], id |-> r]}

-----------------------------------------------------------------------------
(* POST /orders.  A request that only repeats a key is answered with the    *)
(* order that key has, whatever state that order is in.                     *)

createOrder(r) ==
    /\ request[r] = NoRequest
    /\ \E k \in Keys, t \in DOMAIN DispatchSubject :
          request' = [request EXCEPT ![r] = [@ EXCEPT !.stage = "lookup", !.key = k, !.type = t]]
    /\ UNCHANGED <<orders, dispatched, mintVars, consumerVars, faults>>

ByIdempotencyKey(r) ==
    LET existing == {o \in Rows : orders[o].key = request[r].key}
    IN  /\ request[r].stage = "lookup"
        /\ \/ existing = {} /\ Goto(r, "create")
           \/ \E o \in existing : Answer(r, o)
        /\ UNCHANGED <<orders, dispatched, mintVars, consumerVars, faults>>

\* Slip, for the mutation runs: the index on user and key is not unique.
CreateAnyway(r) ==
    /\ request[r].stage = "create"
    /\ orders' = [orders EXCEPT ![r] =
                    [key |-> request[r].key, type |-> request[r].type, status |-> "created"]]
    /\ Goto(r, "confirm")
    /\ UNCHANGED <<dispatched, mintVars, consumerVars, faults>>

\* The unique index on user and key decides a race of two requests.  A created
\* order is announced, an error of that is ignored, and the payment follows.
Create(r) ==
    LET existing == {o \in Rows : orders[o].key = request[r].key}
    IN  /\ request[r].stage = "create"
        /\ \/ /\ existing = {}
              /\ orders' = [orders EXCEPT ![r] =
                   [key |-> request[r].key, type |-> request[r].type, status |-> "created"]]
              /\ Goto(r, "confirm")
           \/ /\ \E o \in existing : Answer(r, o)
              /\ UNCHANGED orders
        /\ UNCHANGED <<dispatched, mintVars, consumerVars, faults>>

\* Writes the row by its id, whatever it has become.
Update(o, status) == orders' = [orders EXCEPT ![o].status = status]

\* Slip, for the mutation runs: dispatched before the row is written.
confirmOrderDispatchesFirst(r) ==
    /\ request[r].stage = "confirm"
    /\ \/ /\ [subject |-> DispatchSubject[orders[r].type], id |-> r] \notin dispatched
          /\ Dispatch(r)
          /\ UNCHANGED <<orders, request>>
       \/ /\ [subject |-> DispatchSubject[orders[r].type], id |-> r] \in dispatched
          /\ Update(r, "confirmed")
          /\ Goto(r, "dispatch")
          /\ UNCHANGED dispatched
    /\ UNCHANGED <<mintVars, consumerVars, faults>>

confirmOrder(r) ==
    /\ request[r].stage = "confirm"
    /\ Update(r, "confirmed")
    /\ Goto(r, "dispatch")
    /\ UNCHANGED <<dispatched, mintVars, consumerVars, faults>>

dispatchOrder(r) ==
    /\ request[r].stage = "dispatch"
    /\ Dispatch(r)
    /\ Answer(r, r)
    /\ UNCHANGED <<orders, mintVars, consumerVars, faults>>

\* The update or the publication fails, for instance because the client has hung
\* up and its context is cancelled: logged, and the request answered as usual.
confirmOrderFails(r) ==
    /\ request[r].stage \in {"confirm", "dispatch"}
    /\ Fault
    /\ Answer(r, r)
    /\ UNCHANGED <<orders, dispatched, mintVars, consumerVars>>

\* The process dies, or the lookup or the insert fails: no order in the answer.
RequestLost(r) ==
    /\ request[r].stage \in {"lookup", "create", "confirm", "dispatch"}
    /\ Fault
    /\ Goto(r, "done")
    /\ UNCHANGED <<orders, dispatched, mintVars, consumerVars>>

-----------------------------------------------------------------------------
(* Consumers *)

Receive(d) ==
    /\ \E id \in Ids : Deliver(d, id)
    /\ UNCHANGED <<found, orderVars, mintVars, faults>>

\* A handler fails on the database, or its process dies before it wrote.
HandlerFails(d) ==
    /\ Fault
    /\ Nak(d)
    /\ found' = [found EXCEPT ![d] = FALSE]
    /\ UNCHANGED <<orderVars, mintVars>>

\* The process dies, or the acknowledgement is lost, after the handler wrote.
Acknowledged(d) == (Ack(d) /\ UNCHANGED faults) \/ (Nak(d) /\ Fault)

\* CreateMintSaga fails on the unique index when the message comes again.
handleOrderReadyToMint(d) ==
    LET o == handling[d]
    IN  /\ d = "mintburn_order_ready_to_mint" /\ o # "none"
        /\ \/ Open(o) /\ Acknowledged(d)
           \/ outcome[o] # "none" /\ Nak(d) /\ UNCHANGED <<mintVars, faults>>
        /\ UNCHANGED <<found, orderVars>>

\* Slip, for the mutation runs: a failed read is acknowledged.
fetchOrderSwallowsErrors(d) ==
    /\ d \in OrderConsumers /\ handling[d] # "none" /\ ~found[d]
    /\ \/ /\ ~IsTerminal(orders[handling[d]].status)
          /\ found' = [found EXCEPT ![d] = TRUE]
          /\ UNCHANGED <<attempts, handling, acked, faults>>
       \/ Acknowledged(d) /\ UNCHANGED found
    /\ UNCHANGED <<orderVars, mintVars>>

\* completeOrder and failOrder, first half: a terminal order is left alone.
fetchOrder(d) ==
    /\ d \in OrderConsumers /\ handling[d] # "none" /\ ~found[d]
    /\ \/ /\ ~IsTerminal(orders[handling[d]].status)
          /\ found' = [found EXCEPT ![d] = TRUE]
          /\ UNCHANGED <<attempts, handling, acked, faults>>
       \/ /\ IsTerminal(orders[handling[d]].status)
          /\ Acknowledged(d)
          /\ UNCHANGED found
    /\ UNCHANGED <<orderVars, mintVars>>

\* Slip, for the mutation runs: the status is taken from what came last.
finishOrderSwapped(d) ==
    /\ handling[d] # "none" /\ found[d]
    /\ Update(handling[d], "completed")
    /\ found' = [found EXCEPT ![d] = FALSE]
    /\ Acknowledged(d)
    /\ UNCHANGED <<request, dispatched, mintVars>>

\* Second half.
finishOrder(d) ==
    /\ handling[d] # "none" /\ found[d]
    /\ Update(handling[d], IF d = "order_mint_executed" THEN "completed" ELSE "failed")
    /\ found' = [found EXCEPT ![d] = FALSE]
    /\ Acknowledged(d)
    /\ UNCHANGED <<request, dispatched, mintVars>>

Consume(d) == Receive(d) \/ handleOrderReadyToMint(d) \/ fetchOrder(d) \/ finishOrder(d)

-----------------------------------------------------------------------------
MintBurn(r) == (Finish(r) \/ Announce(r)) /\ UNCHANGED <<orderVars, consumerVars, faults>>

Init ==
    /\ OutcomesInit
    /\ BusInit
    /\ orders = [r \in Requests |-> NoOrder]
    /\ request = [r \in Requests |-> NoRequest]
    /\ dispatched = {}
    /\ found = [d \in Durables |-> FALSE]
    /\ faults = 0

Serve(r) == ByIdempotencyKey(r) \/ Create(r) \/ confirmOrder(r) \/ dispatchOrder(r)

Next ==
    \/ \E r \in Requests : createOrder(r) \/ Serve(r) \/ confirmOrderFails(r) \/ RequestLost(r)
    \/ \E d \in Durables : Consume(d) \/ HandlerFails(d)
    \/ \E r \in Requests : MintBurn(r)

\* Handlers run, the bus delivers, sagas end and their outcomes are announced
\* (EverySagaIsAnnounced of MintSaga).
Fairness ==
    /\ \A r \in Requests : WF_vars(Serve(r)) /\ WF_vars(MintBurn(r))
    /\ \A d \in Durables : WF_vars(Consume(d))

Spec == Init /\ [][Next]_vars

FairSpec == Spec /\ Fairness

-----------------------------------------------------------------------------
(* Properties *)

OrderTypeOK ==
    /\ orders \in [Requests ->
          [key : Keys, type : {"buy", "sell"}, status : OrderStatuses] \cup {NoOrder}]
    /\ request \in [Requests ->
          [stage : {"lookup", "create", "confirm", "dispatch", "done"}, key : Keys,
           type : {"buy", "sell"}, reply : Requests \cup {"none"}] \cup {NoRequest}]
    /\ outcome \in [Requests -> {"none", "open", "completed", "failed"}]
    /\ \A m \in published :
          m.id \in Requests /\ m.subject \in {"order.ready_to_mint", "burn.requested",
                                              "mint.executed", "mint.failed"}
    /\ found \in [Durables -> BOOLEAN]
    /\ BusTypeOK

\* However requests with the same key race, repeat and fail, the key has one
\* order, one saga, and one answer.
OneOrderPerKey ==
    \A r, s \in Requests :
        request[r].key = request[s].key /\ request[r].key # "none" =>
            /\ r \in Rows /\ s \in Rows => r = s
            /\ outcome[r] # "none" /\ outcome[s] # "none" => r = s
            /\ request[r].reply # "none" /\ request[s].reply # "none" =>
                  request[r].reply = request[s].reply

\* An order says completed only of a completed saga and failed only of a failed one,
\* and a saga is opened only for a buy order that was confirmed, that is, paid.
OrderTellsTheOutcome ==
    \A o \in Requests :
        /\ IsTerminal(orders[o].status) => outcome[o] = orders[o].status
        /\ outcome[o] # "none" => orders[o].type = "buy" /\ orders[o].status # "created"

\* No late confirmation, redelivery or second consumer reopens or changes a
\* finished order, although every writer writes by id without looking.
FinishedOrderStays ==
    [][\A o \in Requests : IsTerminal(orders[o].status) => orders'[o] = orders[o]]_vars

\* A buy order the bus has accepted ends, unless a message about it was given up
\* after its last delivery.
DispatchedBuyEnds ==
    \A o \in Requests :
        [subject |-> "order.ready_to_mint", id |-> o] \in dispatched ~>
            IsTerminal(orders[o].status) \/ \E d \in Durables : Exhausted(d, o)

-----------------------------------------------------------------------------
(* What a comment of the service says and the code does not do *)

\* handlers.go:250: an order whose confirmation failed "will be confirmed on next
\* retry".  So once a later request has been answered with that order and nobody
\* works on it any more, it is confirmed.
RetryConfirms ==
    \A r, o \in Requests :
        request[r].stage = "done" /\ request[r].reply = o /\ r # o /\ request[o].stage = "done" =>
            orders[o].status # "created"
=============================================================================
