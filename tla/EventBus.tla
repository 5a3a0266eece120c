------------------------------ MODULE EventBus ------------------------------
(***************************************************************************)
(* backend/pkg/events: durable JetStream consumers with explicit           *)
(* acknowledgement.  Of the subjects it takes, a durable hears of each     *)
(* aggregate at most once, so that the id of the aggregate names the       *)
(* message.  The handler runs between Deliver and Ack or Nak; delivery is  *)
(* at least once and at most MaxDeliver times, in any order.  Publishing   *)
(* is left to the publishers: published is what the stream has stored,     *)
(* where a known Msg-Id is dropped.                                        *)
(***************************************************************************)
EXTENDS Naturals

CONSTANTS
    Ids,            \* what messages are about: orders, sagas
    FilterSubject,  \* durable -> the subjects it consumes
    MaxDeliver      \* maxDeliver, 5 in the code

VARIABLES
    published,      \* messages [subject, id] in the stream
    attempts,       \* durable -> id -> how often delivered
    handling,       \* durable -> the message its handler runs on, or "none"
    acked           \* durable -> messages acknowledged

Durables == DOMAIN FilterSubject

BusTypeOK ==
    /\ attempts \in [Durables -> [Ids -> 0..MaxDeliver]]
    /\ handling \in [Durables -> Ids \cup {"none"}]
    /\ acked \in [Durables -> SUBSET Ids]

BusInit ==
    /\ attempts = [d \in Durables |-> [id \in Ids |-> 0]]
    /\ handling = [d \in Durables |-> "none"]
    /\ acked = [d \in Durables |-> {}]

\* Slip, for the mutation runs: the consumer has no MaxDeliver.
DeliverForEver(d, id) ==
    /\ \E s \in FilterSubject[d] : [subject |-> s, id |-> id] \in published
    /\ handling[d] = "none"
    /\ id \notin acked[d]
    /\ handling' = [handling EXCEPT ![d] = id]
    /\ attempts' = [attempts EXCEPT ![d][id] = @ + 1]
    /\ UNCHANGED acked

Deliver(d, id) ==
    /\ \E s \in FilterSubject[d] : [subject |-> s, id |-> id] \in published
    /\ handling[d] = "none"
    /\ id \notin acked[d]
    /\ attempts[d][id] < MaxDeliver
    /\ handling' = [handling EXCEPT ![d] = id]
    /\ attempts' = [attempts EXCEPT ![d][id] = @ + 1]
    /\ UNCHANGED acked

\* The handler returned nil.
Ack(d) ==
    /\ handling[d] # "none"
    /\ acked' = [acked EXCEPT ![d] = @ \cup {handling[d]}]
    /\ handling' = [handling EXCEPT ![d] = "none"]
    /\ UNCHANGED attempts

\* The handler failed (Nak, or Term on the last attempt, which only logs more: no
\* service marks an error permanent), or the process or the acknowledgement was lost.
Nak(d) ==
    /\ handling[d] # "none"
    /\ handling' = [handling EXCEPT ![d] = "none"]
    /\ UNCHANGED <<attempts, acked>>

\* Delivered as often as it will be, and never acknowledged.
Exhausted(d, id) ==
    attempts[d][id] = MaxDeliver /\ handling[d] # id /\ id \notin acked[d]
=============================================================================
