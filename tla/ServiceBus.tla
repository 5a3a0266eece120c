----------------------------- MODULE ServiceBus -----------------------------
(***************************************************************************)
(* The services that only listen to the event bus, and the stream they     *)
(* share.  They share nothing else, so that a behaviour follows one of     *)
(* them, and the publishers are the environment.                           *)
(***************************************************************************)
EXTENDS Faults

CONSTANTS
    Ids,         \* sagas and orders that events are about
    MaxDeliver,
    Services     \* the services a run follows, each in behaviours of its own

ASSUME ServiceAssumption == MaxDeliver \in Nat /\ "none" \notin Ids

VARIABLES
    service,     \* the service this behaviour is about
    published,   \* messages [subject, id] in the stream
    attempts, handling, acked     \* the bus: EventBus

busVars == <<attempts, handling, acked>>
streamVars == <<published, busVars>>

Subjects == {"mint.executed", "burn.executed", "order.created"}

FilterSubject ==
    [treasury_mint_executed   |-> {"mint.executed"},
     treasury_burn_executed   |-> {"burn.executed"},
     wallet_mint_executed     |-> {"mint.executed"},
     wallet_burn_executed     |-> {"burn.executed"},
     reporting_mint_executed  |-> {"mint.executed"},
     reporting_burn_executed  |-> {"burn.executed"},
     audit_gold_all           |-> Subjects,
     fee_order_created        |-> {"order.created"},
     compliance_order_created |-> {"order.created"},
     notif_order_created      |-> {"order.created"},
     notif_mint_executed      |-> {"mint.executed"}]

INSTANCE EventBus

DurablesOf ==
    [treasury   |-> {"treasury_mint_executed", "treasury_burn_executed"},
     wallet     |-> {"wallet_mint_executed", "wallet_burn_executed"},
     reporting  |-> {"reporting_mint_executed", "reporting_burn_executed"},
     audit      |-> {"audit_gold_all"},
     fee        |-> {"fee_order_created"},
     compliance |-> {"compliance_order_created"},
     notification |-> {"notif_order_created", "notif_mint_executed"}]

\* The bus services of this behaviour: one, or none if it is about another service.
Listening == {d \in Durables : service \in DOMAIN DurablesOf /\ d \in DurablesOf[service]}

StreamTypeOK ==
    /\ service \in Services
    /\ \A m \in published : m.id \in Ids
    /\ BusTypeOK
    /\ faults \in Nat

StreamInit == BusInit /\ service \in Services /\ published = {} /\ faults = 0

\* External: mint-burn, order, and whoever publishes burn.executed, which nothing in
\* the repository does.
Published(subject, id) ==
    /\ \E d \in Listening : subject \in FilterSubject[d]
    /\ \A m \in published : m.id # id
    /\ published' = published \cup {[subject |-> subject, id |-> id]}
    /\ UNCHANGED <<busVars, faults>>

\* The environment publishes, and the bus delivers to the services of this behaviour.
Stream ==
    \/ \E s \in Subjects, id \in Ids : Published(s, id)
    \/ \E d \in Listening, id \in Ids : Deliver(d, id) /\ UNCHANGED <<published, faults>>

HandlerFails(d) == Fault /\ Nak(d)

\* The process dies, or the acknowledgement is lost, after the handler wrote.
Acknowledged(d) == (Ack(d) /\ UNCHANGED faults) \/ (Nak(d) /\ Fault)
=============================================================================
