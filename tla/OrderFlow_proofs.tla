-------------------------- MODULE OrderFlow_proofs --------------------------
(***************************************************************************)
(* Proofs about OrderFlow, for every set of requests and keys, every       *)
(* number of deliveries and every number of failures.                      *)
(***************************************************************************)
EXTENDS OrderFlow, TLAPS

\* A handler knows the row it has written, and answers with a row of its key.
HandlersKnowTheirRow ==
    \A r \in Requests :
        /\ r \in Rows => /\ request[r].stage \in {"confirm", "dispatch", "done"}
                         /\ orders[r].key = request[r].key
        /\ request[r].stage \in {"confirm", "dispatch"} => r \in Rows
        /\ request[r].stage = "confirm" => orders[r].status = "created"
        /\ request[r].stage = "dispatch" => orders[r].status # "created"
        /\ request[r].reply # "none" =>
              request[r].reply \in Rows /\ orders[request[r].reply].key = request[r].key

\* The unique index on user and key.
KeysAreUnique == \A r, s \in Rows : orders[r].key = orders[s].key => r = s

\* What is in the stream was true when it was published, and stays true.
MessagesTell ==
    /\ \A m \in dispatched : /\ m.id \in Rows /\ orders[m.id].status # "created"
                             /\ m.subject = DispatchSubject[orders[m.id].type]
    /\ \A m \in announced : /\ outcome[m.id] \in Outcomes
                            /\ m.subject = OutcomeSubject[outcome[m.id]]

\* A handler runs on a message of its subjects; one that has read a row is a
\* consumer of outcomes.
HandlersHaveMessages ==
    \A d \in Durables :
        /\ handling[d] # "none" =>
              \E s \in FilterSubject[d] : [subject |-> s, id |-> handling[d]] \in published
        /\ found[d] => d \in OrderConsumers

\* The inductive invariant: an order row, the request that wrote it, the messages
\* about it and its saga never disagree.
OrderInv ==
    /\ OrderTypeOK
    /\ HandlersKnowTheirRow
    /\ KeysAreUnique
    /\ MessagesTell
    /\ HandlersHaveMessages
    /\ OrderTellsTheOutcome

-----------------------------------------------------------------------------
(* Records *)

Types == {"buy", "sell"}
OrderRecords == [key : Keys, type : Types, status : OrderStatuses]
RequestRecords ==
    [stage : {"lookup", "create", "confirm", "dispatch", "done"}, key : Keys, type : Types,
     reply : Requests \cup {"none"}]

\* The fields of a row and of a request under way.
LEMMA Fields ==
    ASSUME OrderTypeOK, NEW r \in Requests
    PROVE  /\ r \in Rows => /\ orders[r] \in OrderRecords
                            /\ orders[r].key \in Keys /\ orders[r].type \in Types
                            /\ orders[r].status \in OrderStatuses
           /\ r \notin Rows => orders[r].type = "none" /\ orders[r].status = "none"
           /\ request[r] # NoRequest =>
                 /\ request[r] \in RequestRecords
                 /\ request[r].key \in Keys /\ request[r].type \in Types
                 /\ request[r].stage # "idle"
                 /\ request[r].reply \in Requests \cup {"none"}
           /\ request[r] = NoRequest =>
                 request[r].stage = "idle" /\ request[r].key = "none" /\ request[r].reply = "none"
  <1>1. orders[r] \in OrderRecords \cup {NoOrder}
    BY DEF OrderTypeOK, OrderRecords, Types
  <1>2. request[r] \in RequestRecords \cup {NoRequest}
    BY DEF OrderTypeOK, RequestRecords, Types
  <1>3. orders[r] \in OrderRecords => /\ orders[r].key \in Keys /\ orders[r].type \in Types
                                      /\ orders[r].status \in OrderStatuses
    BY DEF OrderRecords
  <1>4. request[r] \in RequestRecords =>
            /\ request[r].key \in Keys /\ request[r].type \in Types /\ request[r].stage # "idle"
            /\ request[r].reply \in Requests \cup {"none"}
    BY DEF RequestRecords
  <1>5. r \in Rows <=> orders[r] # NoOrder
    BY DEF Rows
  <1>6. NoOrder.type = "none" /\ NoOrder.status = "none"
    BY DEF NoOrder
  <1>7. /\ NoRequest.stage = "idle" /\ NoRequest.key = "none"
        /\ NoRequest.reply = "none"
    BY DEF NoRequest
  <1> QED BY <1>1, <1>2, <1>3, <1>4, <1>5, <1>6, <1>7

\* Update changes the status of one row.
LEMMA UpdateFields ==
    ASSUME OrderTypeOK, NEW o \in Rows, NEW status \in OrderStatuses, Update(o, status)
    PROVE  /\ orders' \in [Requests -> OrderRecords \cup {NoOrder}]
           /\ orders'[o].status = status
           /\ orders'[o].key = orders[o].key /\ orders'[o].type = orders[o].type
           /\ \A r \in Requests \ {o} : orders'[r] = orders[r]
           /\ Rows' = Rows
  <1>1. o \in Requests /\ orders[o] \in OrderRecords
    BY Fields DEF Rows
  <1>2. orders \in [Requests -> OrderRecords \cup {NoOrder}]
    BY DEF OrderTypeOK, OrderRecords, Types
  <1>3. /\ orders' = [r \in Requests |-> orders'[r]]
        /\ \A r \in Requests \ {o} : orders'[r] = orders[r]
        /\ orders'[o] = [orders[o] EXCEPT !.status = status]
    BY <1>1, <1>2 DEF Update
  <1>4. orders'[o] = [key |-> orders[o].key, type |-> orders[o].type, status |-> status]
    BY <1>1, <1>3 DEF OrderRecords
  <1>5. orders'[o] \in OrderRecords
    BY <1>1, <1>4 DEF OrderRecords
  <1>6. orders'[o] # NoOrder
    BY <1>5 DEF OrderRecords, NoOrder, Types
  <1>7. Rows' = Rows
    BY <1>1, <1>3, <1>6 DEF Rows
  <1>8. orders' \in [Requests -> OrderRecords \cup {NoOrder}]
    <2> HIDE DEF OrderRecords, NoOrder
    <2> QED BY <1>2, <1>3, <1>5
  <1> QED BY <1>3, <1>4, <1>7, <1>8

\* Goto and Answer change one request.
LEMMA RequestFields ==
    ASSUME OrderTypeOK, NEW r \in Requests, request[r] # NoRequest,
           NEW stage \in {"lookup", "create", "confirm", "dispatch", "done"},
           NEW reply \in Requests \cup {"none"},
           \/ Goto(r, stage) /\ reply = request[r].reply
           \/ Answer(r, reply) /\ stage = "done"
    PROVE  /\ request' \in [Requests -> RequestRecords \cup {NoRequest}]
           /\ request'[r].stage = stage /\ request'[r].reply = reply
           /\ request'[r].key = request[r].key /\ request'[r].type = request[r].type
           /\ \A s \in Requests \ {r} : request'[s] = request[s]
  <1>1. request[r] \in RequestRecords
    BY Fields
  <1>2. request \in [Requests -> RequestRecords \cup {NoRequest}]
    BY DEF OrderTypeOK, RequestRecords, Types
  <1>3. /\ request' = [s \in Requests |-> request'[s]]
        /\ \A s \in Requests \ {r} : request'[s] = request[s]
    BY <1>2 DEF Goto, Answer
  <1>4. request'[r] = [stage |-> stage, key |-> request[r].key, type |-> request[r].type,
                       reply |-> reply]
    <2>1. CASE Goto(r, stage) /\ reply = request[r].reply
      <3>1. request'[r] = [request[r] EXCEPT !.stage = stage]
        BY <1>2, <2>1 DEF Goto
      <3> QED BY <1>1, <2>1, <3>1 DEF RequestRecords
    <2>2. CASE Answer(r, reply) /\ stage = "done"
      <3>1. request'[r] = [request[r] EXCEPT !.stage = "done", !.reply = reply]
        BY <1>2, <2>2 DEF Answer
      <3> QED BY <1>1, <2>2, <3>1 DEF RequestRecords
    <2> QED BY <2>1, <2>2
  <1>5. request'[r] \in RequestRecords
    BY <1>1, <1>4 DEF RequestRecords
  <1>6. request' \in [Requests -> RequestRecords \cup {NoRequest}]
    <2> HIDE DEF RequestRecords, NoRequest
    <2> QED BY <1>2, <1>3, <1>5
  <1> QED BY <1>3, <1>4, <1>6

-----------------------------------------------------------------------------
(* The bus *)

\* The bus hands out what has been published, to one handler at a time.
LEMMA BusSteps ==
    ASSUME OrderTypeOK, NEW d \in Durables, Ack(d) \/ Nak(d) \/ \E id \in Ids : Deliver(d, id)
    PROVE  /\ BusTypeOK'
           /\ \A e \in Durables \ {d} : handling'[e] = handling[e]
           /\ \/ handling'[d] = "none"
              \/ \E s \in FilterSubject[d] : [subject |-> s, id |-> handling'[d]] \in published
  <1>1. /\ attempts \in [Durables -> [Ids -> 0..MaxDeliver]]
        /\ handling \in [Durables -> Ids \cup {"none"}]
        /\ acked \in [Durables -> SUBSET Ids]
    BY DEF OrderTypeOK, BusTypeOK
  <1>2. CASE Nak(d)
    BY <1>1, <1>2 DEF Nak, BusTypeOK
  <1>3. CASE Ack(d)
    BY <1>1, <1>3 DEF Ack, BusTypeOK
  <1>4. CASE \E id \in Ids : Deliver(d, id)
    <2>1. PICK id \in Ids : Deliver(d, id)
      BY <1>4
    <2>2. attempts[d] \in [Ids -> 0..MaxDeliver] /\ attempts[d][id] \in 0..MaxDeliver
      BY <1>1
    <2>3. attempts[d][id] + 1 \in 0..MaxDeliver
      BY <2>1, <2>2, OrderAssumption DEF Deliver
    <2>4. [attempts[d] EXCEPT ![id] = attempts[d][id] + 1] \in [Ids -> 0..MaxDeliver]
      BY <2>2, <2>3
    <2>5. attempts' = [attempts EXCEPT ![d] = [attempts[d] EXCEPT ![id] = attempts[d][id] + 1]]
      BY <2>1 DEF Deliver
    <2>6. attempts' \in [Durables -> [Ids -> 0..MaxDeliver]]
      BY <1>1, <2>4, <2>5
    <2>7. handling' = [handling EXCEPT ![d] = id] /\ acked' = acked
      BY <2>1 DEF Deliver
    <2> QED BY <1>1, <2>1, <2>6, <2>7 DEF Deliver, BusTypeOK
  <1> QED BY <1>2, <1>3, <1>4

\* The types, from those of the parts a step has changed.
LEMMA TypesFromParts ==
    ASSUME OrderTypeOK,
           orders' \in [Requests -> OrderRecords \cup {NoOrder}],
           request' \in [Requests -> RequestRecords \cup {NoRequest}],
           outcome' \in [Requests -> {"none", "open", "completed", "failed"}],
           \A m \in published' :
              m.id \in Requests /\ m.subject \in {"order.ready_to_mint", "burn.requested",
                                                  "mint.executed", "mint.failed"},
           found' \in [Durables -> BOOLEAN],
           BusTypeOK'
    PROVE  OrderTypeOK'
  BY DEF OrderTypeOK, OrderRecords, RequestRecords, Types

\* What a record of the present state is known to be.
LEMMA Parts ==
    ASSUME OrderInv
    PROVE  /\ OrderTypeOK /\ HandlersKnowTheirRow /\ KeysAreUnique /\ MessagesTell
           /\ HandlersHaveMessages /\ OrderTellsTheOutcome /\ BusTypeOK
           /\ orders \in [Requests -> OrderRecords \cup {NoOrder}]
           /\ request \in [Requests -> RequestRecords \cup {NoRequest}]
           /\ outcome \in [Requests -> {"none", "open", "completed", "failed"}]
           /\ found \in [Durables -> BOOLEAN]
           /\ handling \in [Durables -> Requests \cup {"none"}]
           /\ \A m \in published :
                 m.id \in Requests /\ m.subject \in {"order.ready_to_mint", "burn.requested",
                                                     "mint.executed", "mint.failed"}
  BY DEF OrderInv, OrderTypeOK, OrderRecords, RequestRecords, Types, BusTypeOK, Ids

-----------------------------------------------------------------------------
(* Steps of a request *)

\* A step that changes nothing but one request, which has no row or is answered.
LEMMA RequestOnly ==
    ASSUME OrderInv, NEW r \in Requests, UNCHANGED <<orders, dispatched, mintVars, consumerVars>>,
           request' \in [Requests -> RequestRecords \cup {NoRequest}],
           \A s \in Requests \ {r} : request'[s] = request[s],
           request'[r].stage \in {"lookup", "create", "done"},
           r \in Rows => request'[r].stage = "done" /\ request'[r].key = request[r].key,
           request'[r].reply # "none" =>
              request'[r].reply \in Rows /\ orders[request'[r].reply].key = request'[r].key
    PROVE  OrderInv'
  <1>1. UNCHANGED <<orders, dispatched, outcome, announced, found, attempts, handling, acked>>
    BY DEF mintVars, consumerVars
  <1>2. Rows' = Rows /\ published' = published /\ BusTypeOK'
    BY <1>1, Parts DEF Rows, published, BusTypeOK
  <1>3. OrderTypeOK'
    BY <1>1, <1>2, Parts, TypesFromParts
  <1>4. HandlersKnowTheirRow'
    BY <1>1, <1>2, Parts DEF HandlersKnowTheirRow
  <1>5. KeysAreUnique' /\ MessagesTell'
    BY <1>1, <1>2, Parts DEF KeysAreUnique, MessagesTell
  <1>6. HandlersHaveMessages' /\ OrderTellsTheOutcome'
    BY <1>1, <1>2, Parts DEF HandlersHaveMessages, OrderTellsTheOutcome
  <1> QED BY <1>3, <1>4, <1>5, <1>6 DEF OrderInv

LEMMA CreateOrderKept ==
    ASSUME OrderInv, NEW r \in Requests, createOrder(r)
    PROVE  OrderInv'
  <1>1. PICK k \in Keys, t \in Types :
            request' = [request EXCEPT ![r] =
                          [request[r] EXCEPT !.stage = "lookup", !.key = k, !.type = t]]
    BY DEF createOrder, DispatchSubject, Types
  <1>2. request[r] = NoRequest
    BY DEF createOrder
  <1>3. request'[r] = [stage |-> "lookup", key |-> k, type |-> t, reply |-> "none"]
    <2>1. r \in DOMAIN request
      BY Parts
    <2>2. request'[r] = [request[r] EXCEPT !.stage = "lookup", !.key = k, !.type = t]
      BY <1>1, <2>1
    <2>3. /\ request[r] \in [stage : {"idle"}, key : {"none"}, type : {"none"}, reply : {"none"}]
          /\ request[r].reply = "none"
      BY <1>2 DEF NoRequest
    <2> QED BY <2>2, <2>3
  <1>4. request'[r] \in RequestRecords
    BY <1>3 DEF RequestRecords
  <1>5. /\ request' \in [Requests -> RequestRecords \cup {NoRequest}]
        /\ \A s \in Requests \ {r} : request'[s] = request[s]
    <2>1. request \in [Requests -> RequestRecords \cup {NoRequest}]
      BY Parts
    <2> HIDE DEF RequestRecords, NoRequest
    <2> QED BY <1>1, <1>4, <2>1
  <1>6. r \notin Rows
    BY <1>2, Parts, Fields DEF HandlersKnowTheirRow
  <1>7. UNCHANGED <<orders, dispatched, mintVars, consumerVars>>
    BY DEF createOrder
  <1> QED BY <1>3, <1>5, <1>6, <1>7, RequestOnly

LEMMA AnswersKept ==
    ASSUME OrderInv, NEW r \in Requests,
           ByIdempotencyKey(r) \/ confirmOrderFails(r) \/ RequestLost(r)
    PROVE  OrderInv'
  <1>0. OrderTypeOK /\ HandlersKnowTheirRow
    BY Parts
  <1>1. request[r].stage \in {"lookup", "create", "confirm", "dispatch"}
    BY DEF ByIdempotencyKey, confirmOrderFails, RequestLost
  <1>2. request[r] # NoRequest /\ request[r].reply \in Requests \cup {"none"}
    BY <1>0, <1>1, Fields
  <1>3. UNCHANGED <<orders, dispatched, mintVars, consumerVars>>
    BY DEF ByIdempotencyKey, confirmOrderFails, RequestLost
  <1>4. ASSUME NEW o \in Rows, orders[o].key = request[r].key, Answer(r, o)
        PROVE  OrderInv'
    <2>1. o \in Requests
      BY DEF Rows
    <2>2. /\ request' \in [Requests -> RequestRecords \cup {NoRequest}]
          /\ request'[r].stage = "done" /\ request'[r].reply = o
          /\ request'[r].key = request[r].key
          /\ \A s \in Requests \ {r} : request'[s] = request[s]
      BY <1>0, <1>2, <1>4, <2>1, RequestFields
    <2> QED BY <1>3, <1>4, <2>2, RequestOnly
  <1>5. CASE ByIdempotencyKey(r)
    <2>1. request[r].stage = "lookup"
      BY <1>5 DEF ByIdempotencyKey
    <2>2. CASE Goto(r, "create")
      <3>1. /\ request' \in [Requests -> RequestRecords \cup {NoRequest}]
            /\ request'[r].stage = "create" /\ request'[r].reply = request[r].reply
            /\ request'[r].key = request[r].key
            /\ \A s \in Requests \ {r} : request'[s] = request[s]
        BY <1>0, <1>2, <2>2, RequestFields
      <3>2. r \notin Rows
        BY <1>0, <2>1 DEF HandlersKnowTheirRow
      <3> QED BY <1>0, <1>3, <3>1, <3>2, RequestOnly DEF HandlersKnowTheirRow
    <2>3. CASE \E o \in Rows : orders[o].key = request[r].key /\ Answer(r, o)
      BY <1>4, <2>3
    <2> QED BY <1>5, <2>2, <2>3 DEF ByIdempotencyKey
  <1>6. CASE confirmOrderFails(r)
    <2>1. r \in Rows /\ orders[r].key = request[r].key
      BY <1>0, <1>6 DEF confirmOrderFails, HandlersKnowTheirRow
    <2> QED BY <1>4, <1>6, <2>1 DEF confirmOrderFails
  <1>7. CASE RequestLost(r)
    <2>1. Goto(r, "done")
      BY <1>7 DEF RequestLost
    <2>2. /\ request' \in [Requests -> RequestRecords \cup {NoRequest}]
          /\ request'[r].stage = "done" /\ request'[r].reply = request[r].reply
          /\ request'[r].key = request[r].key
          /\ \A s \in Requests \ {r} : request'[s] = request[s]
      BY <1>0, <1>2, <2>1, RequestFields
    <2> QED BY <1>0, <1>3, <2>2, RequestOnly DEF HandlersKnowTheirRow
  <1> QED BY <1>5, <1>6, <1>7

LEMMA InsertKept ==
    ASSUME OrderInv, NEW r \in Requests, Create(r)
    PROVE  OrderInv'
  <1>0. OrderTypeOK /\ HandlersKnowTheirRow
    BY Parts
  <1>1. /\ request[r].stage = "create"
        /\ UNCHANGED <<dispatched, outcome, announced, found, attempts, handling, acked>>
    BY DEF Create, mintVars, consumerVars
  <1>2. /\ request[r] # NoRequest /\ request[r].reply \in Requests \cup {"none"}
        /\ request[r].key \in Keys /\ request[r].type \in Types
    BY <1>0, <1>1, Fields
  <1>3. CASE UNCHANGED orders /\ \E o \in Rows : orders[o].key = request[r].key /\ Answer(r, o)
    <2>1. PICK o \in Rows : orders[o].key = request[r].key /\ Answer(r, o)
      BY <1>3
    <2>2. o \in Requests
      BY DEF Rows
    <2>3. /\ request' \in [Requests -> RequestRecords \cup {NoRequest}]
          /\ request'[r].stage = "done" /\ request'[r].reply = o
          /\ request'[r].key = request[r].key
          /\ \A s \in Requests \ {r} : request'[s] = request[s]
      BY <1>0, <1>2, <2>1, <2>2, RequestFields
    <2> QED BY <1>1, <1>3, <2>1, <2>3, RequestOnly DEF mintVars, consumerVars
  <1>4. CASE /\ \A o \in Rows : orders[o].key # request[r].key
             /\ orders' = [orders EXCEPT ![r] =
                   [key |-> request[r].key, type |-> request[r].type, status |-> "created"]]
             /\ Goto(r, "confirm")
    <2>1. r \notin Rows
      BY <1>0, <1>1 DEF HandlersKnowTheirRow
    <2>2. /\ request' \in [Requests -> RequestRecords \cup {NoRequest}]
          /\ request'[r].stage = "confirm" /\ request'[r].reply = request[r].reply
          /\ request'[r].key = request[r].key
          /\ \A s \in Requests \ {r} : request'[s] = request[s]
      BY <1>0, <1>2, <1>4, RequestFields
    <2>3. orders'[r] = [key |-> request[r].key, type |-> request[r].type, status |-> "created"]
      BY <1>4, Parts
    <2>4. /\ orders'[r].key = request[r].key /\ orders'[r].status = "created"
          /\ orders'[r] \in OrderRecords /\ orders'[r] # NoOrder
      BY <1>2, <2>3 DEF OrderRecords, OrderStatuses, NoOrder, Types
    <2>5. /\ orders' \in [Requests -> OrderRecords \cup {NoOrder}]
          /\ \A o \in Requests \ {r} : orders'[o] = orders[o]
      <3>1. orders \in [Requests -> OrderRecords \cup {NoOrder}]
        BY Parts
      <3> HIDE DEF OrderRecords, NoOrder
      <3> QED BY <1>4, <2>3, <2>4, <3>1
    <2>6. Rows' = Rows \cup {r} /\ Rows \subseteq Requests
      BY <2>4, <2>5 DEF Rows
    <2>7. outcome[r] = "none"
      BY <2>1, Parts, Fields DEF OrderTellsTheOutcome
    <2>8. OrderTypeOK'
      BY <1>1, <2>2, <2>5, Parts, TypesFromParts DEF published, BusTypeOK
    <2>9. HandlersKnowTheirRow'
      BY <1>0, <2>1, <2>2, <2>4, <2>5, <2>6 DEF HandlersKnowTheirRow
    <2>10. KeysAreUnique'
      BY <1>4, <2>1, <2>4, <2>5, <2>6, Parts DEF KeysAreUnique
    <2>11. MessagesTell'
      BY <1>1, <2>1, <2>5, <2>6, Parts DEF MessagesTell
    <2>12. HandlersHaveMessages'
      BY <1>1, Parts DEF HandlersHaveMessages, published
    <2>13. OrderTellsTheOutcome'
      BY <1>1, <2>4, <2>5, <2>7, Parts DEF OrderTellsTheOutcome, IsTerminal
    <2> QED BY <2>8, <2>9, <2>10, <2>11, <2>12, <2>13 DEF OrderInv
  <1>5. \/ UNCHANGED orders /\ \E o \in Rows : orders[o].key = request[r].key /\ Answer(r, o)
        \/ /\ \A o \in Rows : orders[o].key # request[r].key
           /\ orders' = [orders EXCEPT ![r] =
                 [key |-> request[r].key, type |-> request[r].type, status |-> "created"]]
           /\ Goto(r, "confirm")
    BY DEF Create
  <1> QED BY <1>3, <1>4, <1>5

LEMMA ConfirmKept ==
    ASSUME OrderInv, NEW r \in Requests, confirmOrder(r)
    PROVE  OrderInv'
  <1>1. /\ request[r].stage = "confirm" /\ Update(r, "confirmed") /\ Goto(r, "dispatch")
        /\ UNCHANGED <<dispatched, outcome, announced, found, attempts, handling, acked>>
    BY DEF confirmOrder, mintVars, consumerVars
  <1>2. OrderTypeOK /\ r \in Rows /\ orders[r].status = "created"
    BY <1>1, Parts DEF HandlersKnowTheirRow
  <1>3. request[r] # NoRequest /\ request[r].reply \in Requests \cup {"none"}
    BY <1>1, <1>2, Fields
  <1>4. /\ orders' \in [Requests -> OrderRecords \cup {NoOrder}]
        /\ orders'[r].status = "confirmed"
        /\ orders'[r].key = orders[r].key /\ orders'[r].type = orders[r].type
        /\ \A o \in Requests \ {r} : orders'[o] = orders[o]
        /\ Rows' = Rows
    BY <1>1, <1>2, UpdateFields DEF OrderStatuses
  <1>5. /\ request' \in [Requests -> RequestRecords \cup {NoRequest}]
        /\ request'[r].stage = "dispatch" /\ request'[r].reply = request[r].reply
        /\ request'[r].key = request[r].key
        /\ \A s \in Requests \ {r} : request'[s] = request[s]
    BY <1>1, <1>2, <1>3, RequestFields
  <1>6. OrderTypeOK'
    BY <1>1, <1>4, <1>5, Parts, TypesFromParts DEF published, BusTypeOK
  <1>7. Rows \subseteq Requests /\ \A o \in Rows : orders'[o].key = orders[o].key /\ orders'[o].type = orders[o].type
    BY <1>4 DEF Rows
  <1>8. HandlersKnowTheirRow'
    BY <1>2, <1>4, <1>5, <1>7, Parts DEF HandlersKnowTheirRow
  <1>9. KeysAreUnique'
    BY <1>4, <1>7, Parts DEF KeysAreUnique
  <1>10. MessagesTell'
    BY <1>1, <1>4, <1>7, Parts DEF MessagesTell
  <1>11. HandlersHaveMessages'
    BY <1>1, Parts DEF HandlersHaveMessages, published
  <1>12. OrderTellsTheOutcome'
    BY <1>1, <1>2, <1>4, Parts DEF OrderTellsTheOutcome, IsTerminal
  <1> QED BY <1>6, <1>8, <1>9, <1>10, <1>11, <1>12 DEF OrderInv

LEMMA DispatchKept ==
    ASSUME OrderInv, NEW r \in Requests, dispatchOrder(r)
    PROVE  OrderInv'
  <1> DEFINE m == [subject |-> DispatchSubject[orders[r].type], id |-> r]
  <1>1. /\ request[r].stage = "dispatch" /\ dispatched' = dispatched \cup {m} /\ Answer(r, r)
        /\ UNCHANGED <<orders, outcome, announced, found, attempts, handling, acked>>
    BY DEF dispatchOrder, Dispatch, mintVars, consumerVars
  <1>2. OrderTypeOK /\ r \in Rows /\ orders[r].status # "created" /\ orders[r].key = request[r].key
    BY <1>1, Parts DEF HandlersKnowTheirRow
  <1>3. request[r] # NoRequest /\ orders[r].type \in Types
    BY <1>1, <1>2, Fields
  <1>4. /\ request' \in [Requests -> RequestRecords \cup {NoRequest}]
        /\ request'[r].stage = "done" /\ request'[r].reply = r
        /\ request'[r].key = request[r].key
        /\ \A s \in Requests \ {r} : request'[s] = request[s]
    BY <1>1, <1>2, <1>3, RequestFields
  <1>5. /\ m.id = r /\ m.subject = DispatchSubject[orders[r].type]
        /\ m.subject \in {"order.ready_to_mint", "burn.requested"}
    BY <1>3 DEF DispatchSubject, Types
  <1> HIDE DEF m
  <1>6. Rows' = Rows /\ published' = published \cup {m}
    BY <1>1 DEF Rows, published
  <1>7. OrderTypeOK'
    BY <1>1, <1>4, <1>5, <1>6, Parts, TypesFromParts DEF BusTypeOK
  <1>8. HandlersKnowTheirRow'
    BY <1>1, <1>2, <1>4, <1>6, Parts DEF HandlersKnowTheirRow
  <1>9. KeysAreUnique' /\ MessagesTell'
    BY <1>1, <1>2, <1>5, <1>6, Parts DEF KeysAreUnique, MessagesTell
  <1>10. HandlersHaveMessages' /\ OrderTellsTheOutcome'
    BY <1>1, <1>6, Parts DEF HandlersHaveMessages, OrderTellsTheOutcome
  <1> QED BY <1>7, <1>8, <1>9, <1>10 DEF OrderInv

-----------------------------------------------------------------------------
(* Steps of a consumer *)

\* Whatever a handler does to the bus, the others keep their messages.
LEMMA BusKept ==
    ASSUME OrderInv, NEW d \in Durables,
           \/ Ack(d) \/ Nak(d) \/ \E id \in Ids : Deliver(d, id)
           \/ UNCHANGED <<attempts, handling, acked>>,
           published \subseteq published',
           found' \in [Durables -> BOOLEAN],
           \A e \in Durables \ {d} : found'[e] = found[e],
           found'[d] => d \in OrderConsumers
    PROVE  HandlersHaveMessages' /\ BusTypeOK'
  <1>1. HandlersHaveMessages /\ BusTypeOK /\ OrderTypeOK
    BY Parts
  <1>2. CASE UNCHANGED <<attempts, handling, acked>>
    BY <1>1, <1>2 DEF HandlersHaveMessages, BusTypeOK
  <1>3. CASE Ack(d) \/ Nak(d) \/ \E id \in Ids : Deliver(d, id)
    <2>1. /\ BusTypeOK'
          /\ \A e \in Durables \ {d} : handling'[e] = handling[e]
          /\ \/ handling'[d] = "none"
             \/ \E s \in FilterSubject[d] : [subject |-> s, id |-> handling'[d]] \in published
      BY <1>1, <1>3, BusSteps
    <2> QED BY <1>1, <2>1 DEF HandlersHaveMessages
  <1> QED BY <1>2, <1>3

\* A consumer's step that writes neither an order nor the mint-burn service.
LEMMA BusOnly ==
    ASSUME OrderInv, NEW d \in Durables,
           \/ Ack(d) \/ Nak(d) \/ \E id \in Ids : Deliver(d, id)
           \/ UNCHANGED <<attempts, handling, acked>>,
           UNCHANGED <<orderVars, mintVars>>,
           found' \in [Durables -> BOOLEAN],
           \A e \in Durables \ {d} : found'[e] = found[e],
           found'[d] => d \in OrderConsumers
    PROVE  OrderInv'
  <1>1. UNCHANGED <<orders, request, dispatched, outcome, announced>>
    BY DEF orderVars, mintVars
  <1>2. published' = published /\ Rows' = Rows
    BY <1>1 DEF published, Rows
  <1>3. HandlersHaveMessages' /\ BusTypeOK'
    BY <1>2, BusKept
  <1>4. OrderTypeOK'
    BY <1>1, <1>2, <1>3, Parts, TypesFromParts
  <1>5. HandlersKnowTheirRow' /\ KeysAreUnique'
    BY <1>1, <1>2, Parts DEF HandlersKnowTheirRow, KeysAreUnique
  <1>6. MessagesTell' /\ OrderTellsTheOutcome'
    BY <1>1, <1>2, Parts DEF MessagesTell, OrderTellsTheOutcome
  <1> QED BY <1>3, <1>4, <1>5, <1>6 DEF OrderInv

\* What a handler was handed is about a known order, and true.
LEMMA HandlerMessage ==
    ASSUME OrderInv, NEW d \in Durables, handling[d] # "none"
    PROVE  /\ handling[d] \in Requests
           /\ d = "mintburn_order_ready_to_mint" =>
                 /\ handling[d] \in Rows /\ orders[handling[d]].type = "buy"
                 /\ orders[handling[d]].status # "created"
           /\ d = "order_mint_executed" => outcome[handling[d]] = "completed"
           /\ d = "order_mint_failed" => outcome[handling[d]] = "failed"
  <1>1. PICK s \in FilterSubject[d] : [subject |-> s, id |-> handling[d]] \in published
    BY Parts DEF HandlersHaveMessages
  <1> DEFINE m == [subject |-> s, id |-> handling[d]]
  <1>2. m \in dispatched \cup announced /\ m.subject = s /\ m.id = handling[d]
    BY <1>1 DEF published
  <1> HIDE DEF m
  <1>3. m.id \in Requests
    BY <1>2, Parts DEF published
  <1>4. m \in dispatched => /\ m.id \in Rows /\ orders[m.id].status # "created"
                            /\ m.subject = DispatchSubject[orders[m.id].type]
                            /\ orders[m.id].type \in Types
    BY <1>3, Parts, Fields DEF MessagesTell
  <1>5. m \in dispatched => /\ m.subject \in {"order.ready_to_mint", "burn.requested"}
                            /\ m.subject = "order.ready_to_mint" => orders[m.id].type = "buy"
    BY <1>4 DEF DispatchSubject, Types
  <1>6. m \in announced => outcome[m.id] \in Outcomes /\ m.subject = OutcomeSubject[outcome[m.id]]
    BY Parts DEF MessagesTell
  <1>7. m \in announced => /\ m.subject \in {"mint.executed", "mint.failed"}
                           /\ m.subject = "mint.executed" => outcome[m.id] = "completed"
                           /\ m.subject = "mint.failed" => outcome[m.id] = "failed"
    BY <1>6 DEF Outcomes, OutcomeSubject
  <1>8. /\ d = "mintburn_order_ready_to_mint" => s = "order.ready_to_mint"
        /\ d = "order_mint_executed" => s = "mint.executed"
        /\ d = "order_mint_failed" => s = "mint.failed"
    BY DEF FilterSubject
  <1> QED BY <1>2, <1>3, <1>4, <1>5, <1>7, <1>8

LEMMA OpenKept ==
    ASSUME OrderInv, NEW d \in Durables, handleOrderReadyToMint(d)
    PROVE  OrderInv'
  <1> DEFINE o == handling[d]
  <1>1. /\ d = "mintburn_order_ready_to_mint" /\ o # "none"
        /\ UNCHANGED <<found, orderVars>>
        /\ Ack(d) \/ Nak(d)
        /\ UNCHANGED mintVars \/ Open(o)
    BY DEF handleOrderReadyToMint, Acknowledged
  <1>2. found' \in [Durables -> BOOLEAN] /\ (found'[d] => d \in OrderConsumers)
        /\ \A e \in Durables \ {d} : found'[e] = found[e]
    BY <1>1, Parts DEF HandlersHaveMessages
  <1>3. CASE UNCHANGED mintVars
    BY <1>1, <1>2, <1>3, BusOnly
  <1>4. CASE Open(o)
    <2>1. /\ o \in Requests /\ o \in Rows /\ orders[o].type = "buy" /\ orders[o].status # "created"
      BY <1>1, HandlerMessage
    <2> HIDE DEF o
    <2>2. /\ outcome[o] = "none" /\ outcome' = [outcome EXCEPT ![o] = "open"] /\ announced' = announced
          /\ UNCHANGED <<orders, request, dispatched>>
      BY <1>1, <1>4 DEF Open, orderVars
    <2>3. Rows' = Rows /\ published' = published
      BY <2>2 DEF Rows, published
    <2>4. HandlersHaveMessages' /\ BusTypeOK'
      BY <1>1, <1>2, <2>3, BusKept
    <2>5. outcome \in [Requests -> {"none", "open", "completed", "failed"}]
      BY Parts
    <2>6. outcome' \in [Requests -> {"none", "open", "completed", "failed"}]
      BY <2>1, <2>2, <2>5
    <2>7. OrderTypeOK'
      BY <1>2, <2>2, <2>3, <2>4, <2>6, Parts, TypesFromParts
    <2>8. HandlersKnowTheirRow' /\ KeysAreUnique'
      BY <2>2, <2>3, Parts DEF HandlersKnowTheirRow, KeysAreUnique
    <2>9. ASSUME NEW m \in announced PROVE m.id # o /\ m.id \in Requests
      <3>1. outcome[m.id] \in Outcomes /\ m.id \in Requests
        BY Parts DEF MessagesTell, published
      <3> QED BY <2>2, <3>1 DEF Outcomes
    <2>10. MessagesTell'
      BY <2>2, <2>3, <2>5, <2>9, Parts DEF MessagesTell
    <2>11. OrderTellsTheOutcome'
      BY <2>1, <2>2, <2>5, Parts DEF OrderTellsTheOutcome, IsTerminal
    <2> QED BY <2>4, <2>7, <2>8, <2>10, <2>11 DEF OrderInv
  <1> QED BY <1>1, <1>3, <1>4

LEMMA FinishKept ==
    ASSUME OrderInv, NEW d \in Durables, finishOrder(d)
    PROVE  /\ OrderInv'
           /\ \A o \in Requests : IsTerminal(orders[o].status) => orders'[o] = orders[o]
  <1> DEFINE o == handling[d]
             status == IF d = "order_mint_executed" THEN "completed" ELSE "failed"
  <1>1. /\ o # "none" /\ found[d] /\ Update(o, status)
        /\ found' = [found EXCEPT ![d] = FALSE]
        /\ UNCHANGED <<request, dispatched, outcome, announced>>
        /\ Ack(d) \/ Nak(d)
    BY DEF finishOrder, Acknowledged, mintVars
  <1>2. d \in {"order_mint_executed", "order_mint_failed"}
    BY <1>1, Parts DEF HandlersHaveMessages, OrderConsumers
  <1>3. o \in Requests /\ outcome[o] = status
    BY <1>1, <1>2, HandlerMessage
  <1>4. status \in {"completed", "failed"} /\ status \in OrderStatuses
    BY DEF OrderStatuses
  <1> HIDE DEF o, status
  <1>5. o \in Rows /\ orders[o].status # "created" /\ orders[o].type = "buy"
    BY <1>3, <1>4, Parts, Fields DEF OrderTellsTheOutcome
  <1>6. /\ orders' \in [Requests -> OrderRecords \cup {NoOrder}]
        /\ orders'[o].status = status
        /\ orders'[o].key = orders[o].key /\ orders'[o].type = orders[o].type
        /\ \A r \in Requests \ {o} : orders'[r] = orders[r]
        /\ Rows' = Rows
    BY <1>1, <1>4, <1>5, Parts, UpdateFields
  <1>7. Rows \subseteq Requests /\ \A r \in Rows : orders'[r].key = orders[r].key /\ orders'[r].type = orders[r].type
    BY <1>6 DEF Rows
  <1>8. published' = published
    BY <1>1 DEF published
  <1>9. /\ found' \in [Durables -> BOOLEAN]
        /\ \A e \in Durables \ {d} : found'[e] = found[e]
        /\ ~found'[d]
    BY <1>1, Parts
  <1>10. HandlersHaveMessages' /\ BusTypeOK'
    BY <1>1, <1>8, <1>9, BusKept
  <1>11. OrderTypeOK'
    BY <1>1, <1>6, <1>8, <1>9, <1>10, Parts, TypesFromParts
  <1>12. HandlersKnowTheirRow'
    BY <1>1, <1>4, <1>5, <1>6, <1>7, Parts DEF HandlersKnowTheirRow
  <1>13. KeysAreUnique'
    BY <1>6, <1>7, Parts DEF KeysAreUnique
  <1>14. MessagesTell'
    BY <1>1, <1>4, <1>6, <1>7, Parts DEF MessagesTell
  <1>15. OrderTellsTheOutcome'
    BY <1>1, <1>3, <1>4, <1>5, <1>6, Parts DEF OrderTellsTheOutcome, IsTerminal
  <1>16. IsTerminal(orders[o].status) => orders'[o] = orders[o]
    <2>1. SUFFICES ASSUME IsTerminal(orders[o].status) PROVE orders'[o] = orders[o]
      OBVIOUS
    <2>2. orders[o].status = status
      BY <1>3, <2>1, Parts DEF OrderTellsTheOutcome
    <2>3. orders[o] \in OrderRecords
      BY <1>5, <1>3, Parts, Fields
    <2>4. orders'[o] = [orders[o] EXCEPT !.status = status]
      BY <1>1, <1>3, Parts DEF Update
    <2>5. orders'[o] = [key |-> orders[o].key, type |-> orders[o].type, status |-> status]
      BY <2>3, <2>4 DEF OrderRecords
    <2> QED BY <2>2, <2>3, <2>5 DEF OrderRecords
  <1> QED BY <1>6, <1>10, <1>11, <1>12, <1>13, <1>14, <1>15, <1>16 DEF OrderInv

\* A failed handler, a delivery, and the reading of a row.
LEMMA OtherConsumersKept ==
    ASSUME OrderInv, NEW d \in Durables, Receive(d) \/ HandlerFails(d) \/ fetchOrder(d)
    PROVE  OrderInv'
  <1>1. CASE Receive(d)
    <2>1. /\ \E id \in Ids : Deliver(d, id)
          /\ UNCHANGED <<found, orderVars, mintVars>>
      BY <1>1 DEF Receive
    <2> QED BY <2>1, Parts, BusOnly DEF HandlersHaveMessages
  <1>2. CASE HandlerFails(d)
    <2>1. Nak(d) /\ found' = [found EXCEPT ![d] = FALSE] /\ UNCHANGED <<orderVars, mintVars>>
      BY <1>2 DEF HandlerFails
    <2>2. /\ found' \in [Durables -> BOOLEAN] /\ ~found'[d]
          /\ \A e \in Durables \ {d} : found'[e] = found[e]
      BY <2>1, Parts
    <2> QED BY <2>1, <2>2, BusOnly
  <1>3. CASE fetchOrder(d)
    <2>1. /\ d \in OrderConsumers /\ UNCHANGED <<orderVars, mintVars>>
          /\ \/ found' = [found EXCEPT ![d] = TRUE] /\ UNCHANGED <<attempts, handling, acked>>
             \/ UNCHANGED found /\ (Ack(d) \/ Nak(d))
      BY <1>3 DEF fetchOrder, Acknowledged
    <2>2. found' \in [Durables -> BOOLEAN] /\ \A e \in Durables \ {d} : found'[e] = found[e]
      BY <2>1, Parts
    <2> QED BY <2>1, <2>2, BusOnly
  <1> QED BY <1>1, <1>2, <1>3

-----------------------------------------------------------------------------
(* Steps of the mint-burn service *)

\* A saga that ends has announced nothing yet, and no order tells its end; an
\* announcement says what the saga came to.
LEMMA MintBurnKept ==
    ASSUME OrderInv, NEW r \in Requests, MintBurn(r)
    PROVE  OrderInv'
  <1>1. /\ UNCHANGED <<orders, request, dispatched, found, attempts, handling, acked>>
        /\ Finish(r) \/ Announce(r)
    BY DEF MintBurn, orderVars, consumerVars
  <1>2. Rows' = Rows /\ BusTypeOK' /\ dispatched \subseteq published
    BY <1>1, Parts DEF Rows, BusTypeOK, published
  <1>3. HandlersKnowTheirRow' /\ KeysAreUnique'
    BY <1>1, <1>2, Parts DEF HandlersKnowTheirRow, KeysAreUnique
  <1>4. CASE Finish(r)
    <2>1. /\ outcome[r] = "open" /\ announced' = announced
          /\ \E o \in {"completed", "failed"} : outcome' = [outcome EXCEPT ![r] = o]
      BY <1>4 DEF Finish, Outcomes
    <2>2. published' = published
      BY <1>1, <2>1 DEF published
    <2>3. /\ outcome' \in [Requests -> {"none", "open", "completed", "failed"}]
          /\ outcome'[r] # "none"
          /\ \A o \in Requests \ {r} : outcome'[o] = outcome[o]
      BY <2>1, Parts
    <2>4. OrderTypeOK'
      BY <1>1, <1>2, <2>2, <2>3, Parts, TypesFromParts
    <2>5. \A m \in announced : m.id \in Requests \ {r}
      BY <2>1, Parts DEF MessagesTell, published, Outcomes
    <2>6. MessagesTell'
      BY <1>1, <1>2, <2>1, <2>3, <2>5, Parts DEF MessagesTell
    <2>7. HandlersHaveMessages'
      BY <1>1, <2>2, Parts DEF HandlersHaveMessages
    <2>8. OrderTellsTheOutcome'
      BY <1>1, <2>1, <2>3, Parts, ZenonT(30) DEF OrderTellsTheOutcome, IsTerminal
    <2> QED BY <1>3, <2>4, <2>6, <2>7, <2>8 DEF OrderInv
  <1>5. CASE Announce(r)
    <2> DEFINE m == [subject |-> OutcomeSubject[outcome[r]], id |-> r]
    <2>1. /\ outcome[r] \in Outcomes /\ outcome' = outcome /\ announced' = announced \cup {m}
          /\ m.id = r /\ m.subject = OutcomeSubject[outcome[r]]
      BY <1>5 DEF Announce
    <2> HIDE DEF m
    <2>2. published' = published \cup {m}
      BY <1>1, <2>1 DEF published
    <2>3. m.id \in Requests /\ m.subject \in {"mint.executed", "mint.failed"}
      BY <2>1 DEF Outcomes, OutcomeSubject
    <2>4. OrderTypeOK'
      BY <1>1, <1>2, <2>1, <2>2, <2>3, Parts, TypesFromParts
    <2>5. MessagesTell'
      BY <1>1, <1>2, <2>1, Parts DEF MessagesTell
    <2>6. HandlersHaveMessages' /\ OrderTellsTheOutcome'
      BY <1>1, <2>1, <2>2, Parts DEF HandlersHaveMessages, OrderTellsTheOutcome
    <2> QED BY <1>3, <2>4, <2>5, <2>6 DEF OrderInv
  <1> QED BY <1>1, <1>4, <1>5

-----------------------------------------------------------------------------
(* The specification *)

LEMMA InitEstablishes == Init => OrderInv
  <1> SUFFICES ASSUME Init PROVE OrderInv
    OBVIOUS
  <1>1. /\ orders = [r \in Requests |-> NoOrder] /\ request = [r \in Requests |-> NoRequest]
        /\ dispatched = {} /\ announced = {} /\ outcome = [r \in Requests |-> "none"]
        /\ found = [d \in Durables |-> FALSE]
        /\ handling = [d \in Durables |-> "none"]
    BY DEF Init, OutcomesInit, BusInit, Allocations
  <1>2. Rows = {} /\ published = {}
    BY <1>1 DEF Rows, published
  <1>3. BusTypeOK
    <2>1. 0 \in 0..MaxDeliver
      BY OrderAssumption
    <2> QED BY <2>1 DEF Init, BusInit, BusTypeOK
  <1>4. OrderTypeOK
    <2> HIDE DEF NoOrder, NoRequest
    <2> QED BY <1>1, <1>2, <1>3 DEF OrderTypeOK
  <1>5. HandlersKnowTheirRow
    BY <1>1, <1>2 DEF HandlersKnowTheirRow, NoRequest
  <1>6. KeysAreUnique /\ MessagesTell
    BY <1>1, <1>2 DEF KeysAreUnique, MessagesTell
  <1>7. HandlersHaveMessages
    BY <1>1 DEF HandlersHaveMessages
  <1>8. OrderTellsTheOutcome
    BY <1>1 DEF OrderTellsTheOutcome, IsTerminal, NoOrder
  <1> QED BY <1>4, <1>5, <1>6, <1>7, <1>8 DEF OrderInv

\* Every step keeps the invariant, and every terminal order.
LEMMA StepKeeps ==
    ASSUME OrderInv, [Next]_vars
    PROVE  /\ OrderInv'
           /\ \A o \in Requests : IsTerminal(orders[o].status) => orders'[o] = orders[o]
  <1>1. ASSUME NEW r \in Requests,
               createOrder(r) \/ ByIdempotencyKey(r) \/ dispatchOrder(r)
                  \/ confirmOrderFails(r) \/ RequestLost(r) \/ MintBurn(r)
        PROVE  OrderInv' /\ UNCHANGED orders
    <2>1. UNCHANGED orders
      BY <1>1 DEF createOrder, ByIdempotencyKey, dispatchOrder, confirmOrderFails, RequestLost,
                  MintBurn, orderVars
    <2> QED BY <1>1, <2>1, CreateOrderKept, AnswersKept, DispatchKept, MintBurnKept
  <1>2. ASSUME NEW r \in Requests, Create(r)
        PROVE  /\ OrderInv'
               /\ \A o \in Requests : IsTerminal(orders[o].status) => orders'[o] = orders[o]
    <2>1. r \notin Rows
      BY <1>2, Parts DEF Create, HandlersKnowTheirRow
    <2>2. ~IsTerminal(orders[r].status)
      BY <2>1, Parts, Fields DEF IsTerminal
    <2>3. \A o \in Requests \ {r} : orders'[o] = orders[o]
      BY <1>2, Parts DEF Create
    <2> QED BY <1>2, <2>2, <2>3, InsertKept
  <1>3. ASSUME NEW r \in Requests, confirmOrder(r)
        PROVE  /\ OrderInv'
               /\ \A o \in Requests : IsTerminal(orders[o].status) => orders'[o] = orders[o]
    <2>1. orders[r].status = "created"
      BY <1>3, Parts DEF confirmOrder, HandlersKnowTheirRow
    <2>2. \A o \in Requests \ {r} : orders'[o] = orders[o]
      BY <1>3, Parts DEF confirmOrder, Update
    <2> QED BY <1>3, <2>1, <2>2, ConfirmKept DEF IsTerminal
  <1>4. ASSUME NEW d \in Durables,
               Receive(d) \/ HandlerFails(d) \/ fetchOrder(d) \/ handleOrderReadyToMint(d)
        PROVE  OrderInv' /\ UNCHANGED orders
    <2>1. UNCHANGED orders
      BY <1>4 DEF Receive, HandlerFails, fetchOrder, handleOrderReadyToMint, orderVars
    <2> QED BY <1>4, <2>1, OtherConsumersKept, OpenKept
  <1>5. CASE UNCHANGED vars
    <2>1. UNCHANGED <<orders, request, dispatched, outcome, announced, found, attempts, handling,
                      acked>>
      BY <1>5 DEF vars, orderVars, mintVars, consumerVars
    <2>2. Rows' = Rows /\ published' = published
      BY <2>1 DEF Rows, published
    <2>3. OrderTypeOK' /\ HandlersKnowTheirRow' /\ KeysAreUnique'
      BY <2>1, <2>2, Parts DEF OrderTypeOK, BusTypeOK, HandlersKnowTheirRow, KeysAreUnique
    <2>4. MessagesTell' /\ HandlersHaveMessages' /\ OrderTellsTheOutcome'
      BY <2>1, <2>2, Parts DEF MessagesTell, HandlersHaveMessages, OrderTellsTheOutcome
    <2> QED BY <2>1, <2>3, <2>4 DEF OrderInv
  <1>6. CASE Next
    BY <1>1, <1>2, <1>3, <1>4, <1>6, FinishKept DEF Next, Serve, Consume
  <1> QED BY <1>5, <1>6

\* A row, its request, its messages and its saga agree in every reachable state.
THEOREM OrderInvariant == Spec => []OrderInv
  <1>1. OrderInv /\ [Next]_vars => OrderInv'
    BY StepKeeps
  <1> QED BY <1>1, InitEstablishes, PTL DEF Spec

\* Every variable keeps its type.
THEOREM OrderTypesHold == Spec => []OrderTypeOK
  <1>1. OrderInv => OrderTypeOK
    BY DEF OrderInv
  <1> QED BY <1>1, OrderInvariant, PTL

\* Retries and races of POST /orders with one key come to one order, one saga and
\* one answer: a request that has a row has its key in it, an answer names a row of
\* the key, and the index lets one row have it.
THEOREM OneOrderHolds == Spec => []OneOrderPerKey
  <1>1. OrderInv => OneOrderPerKey
    <2> SUFFICES ASSUME OrderInv, NEW r \in Requests, NEW s \in Requests,
                        request[r].key = request[s].key
                 PROVE  /\ r \in Rows /\ s \in Rows => r = s
                        /\ outcome[r] # "none" /\ outcome[s] # "none" => r = s
                        /\ request[r].reply # "none" /\ request[s].reply # "none" =>
                              request[r].reply = request[s].reply
      BY DEF OneOrderPerKey
    <2>1. HandlersKnowTheirRow /\ KeysAreUnique
      BY Parts
    <2>2. r \in Rows /\ s \in Rows => r = s
      BY <2>1 DEF HandlersKnowTheirRow, KeysAreUnique
    <2>3. ASSUME NEW o \in Requests, outcome[o] # "none" PROVE o \in Rows
      BY <2>3, Parts, Fields DEF OrderTellsTheOutcome
    <2>4. request[r].reply # "none" /\ request[s].reply # "none" =>
             request[r].reply = request[s].reply
      BY <2>1 DEF HandlersKnowTheirRow, KeysAreUnique
    <2> QED BY <2>2, <2>3, <2>4
  <1> QED BY <1>1, OrderInvariant, PTL

\* An order tells what its saga came to, and a saga is opened only for a buy order
\* that was confirmed.
THEOREM OutcomeToldHolds == Spec => []OrderTellsTheOutcome
  <1>1. OrderInv => OrderTellsTheOutcome
    BY DEF OrderInv
  <1> QED BY <1>1, OrderInvariant, PTL

\* Nothing reopens or changes a finished order: the writers that do not look at the
\* row are a confirmation, whose row is still "created", and a late consumer, whose
\* message tells the outcome the row already has.
THEOREM FinishedOrdersStay == Spec => FinishedOrderStays
  <1>1. OrderInv /\ [Next]_vars =>
            [\A o \in Requests : IsTerminal(orders[o].status) => orders'[o] = orders[o]]_vars
    BY StepKeeps
  <1> QED BY <1>1, OrderInvariant, PTL DEF Spec, FinishedOrderStays
=============================================================================
