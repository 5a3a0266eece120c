------------------------------ MODULE PriceHub ------------------------------
(***************************************************************************)
(* backend/services/price-oracle: the fetch loop offers each new price to  *)
(* the WebSocket hub, the hub's goroutine copies it into the channel of    *)
(* every subscriber, and each subscriber's handler writes what it finds    *)
(* there to its connection.  All three drop rather than wait.  The service *)
(* shuts down by cancelling the context the fetch loop and the hub watch.  *)
(*                                                                         *)
(* A price is the number of the fetch that found it.  Abstracted: pairs,   *)
(* the median of the providers, persistence and the bus; a fetch that no   *)
(* provider answers changes nothing.  Sending on or closing a channel that *)
(* is closed is a panic in Go.                                             *)
(***************************************************************************)
EXTENDS Naturals, Sequences, SequencesExt

CONSTANTS
    Subscribers,     \* connections to GET /price/ws
    BroadcastSize,   \* 64 in the code
    ChannelSize,     \* 16 in the code
    MaxPrices        \* bound on the fetches, for model checking only

ASSUME HubAssumption ==
    /\ BroadcastSize \in Nat \ {0} /\ ChannelSize \in Nat \ {0}
    /\ MaxPrices \in Nat

VARIABLES
    current,     \* Oracle.current: the latest price
    broadcast,   \* the hub's channel
    cancelled,   \* the context is done
    hub,         \* Run: "select", "send" while it holds mu for reading, "done"
    message,     \* the price Run is sending
    unsent,      \* clients it still has to send it to
    closed,      \* Hub.closed
    clients,     \* Hub.clients, each channel named by its subscriber
    channel,     \* subscriber -> [items, open]
    stage,       \* subscriber -> "new", "streaming", "leaving", "left"
    streamed,    \* subscriber -> the prices written to its connection
    panicked

hubVars == <<current, broadcast, cancelled, hub, message, unsent, closed, clients,
             channel, stage, streamed, panicked>>

Open(s) == channel' = [channel EXCEPT ![s].open = TRUE]

\* close() of the channels of S.
Close(S) ==
    /\ channel' = [s \in Subscribers |->
                     IF s \in S THEN [channel[s] EXCEPT !.open = FALSE] ELSE channel[s]]
    /\ panicked' = (panicked \/ \E s \in S : ~channel[s].open)

-----------------------------------------------------------------------------
(* Oracle *)

\* fetchAll: the price is cached, then broadcast unless the hub's channel is full.
fetchAll ==
    /\ ~cancelled /\ current < MaxPrices
    /\ current' = current + 1
    /\ broadcast' = IF Len(broadcast) < BroadcastSize
                    THEN Append(broadcast, current + 1) ELSE broadcast
    /\ UNCHANGED <<cancelled, hub, message, unsent, closed, clients, channel, stage,
                   streamed, panicked>>

Cancel ==
    /\ ~cancelled
    /\ cancelled' = TRUE
    /\ UNCHANGED <<current, broadcast, hub, message, unsent, closed, clients, channel,
                   stage, streamed, panicked>>

-----------------------------------------------------------------------------
(* Hub.Run *)

runReceives ==
    /\ hub = "select" /\ broadcast # <<>>
    /\ message' = Head(broadcast)
    /\ broadcast' = Tail(broadcast)
    /\ unsent' = clients
    /\ hub' = "send"
    /\ UNCHANGED <<current, cancelled, closed, clients, channel, stage, streamed, panicked>>

\* A full channel loses the price.
runSends(s) ==
    /\ hub = "send" /\ s \in unsent
    /\ unsent' = unsent \ {s}
    /\ channel' = IF Len(channel[s].items) < ChannelSize
                  THEN [channel EXCEPT ![s].items = Append(@, message)] ELSE channel
    /\ panicked' = (panicked \/ ~channel[s].open)
    /\ UNCHANGED <<current, broadcast, cancelled, hub, message, closed, clients, stage,
                   streamed>>

runSent ==
    /\ hub = "send" /\ unsent = {}
    /\ hub' = "select"
    /\ UNCHANGED <<current, broadcast, cancelled, message, unsent, closed, clients, channel,
                   stage, streamed, panicked>>

\* Either case of the select may be taken when both are ready.
runShutsDown ==
    /\ hub = "select" /\ cancelled
    /\ closed' = TRUE
    /\ clients' = {}
    /\ Close(clients)
    /\ hub' = "done"
    /\ UNCHANGED <<current, broadcast, cancelled, message, unsent, stage, streamed>>

-----------------------------------------------------------------------------
(* The handler of GET /price/ws.  Subscribe and removeClient take mu for         *)
(* writing, so neither runs while the hub is sending.                            *)

\* Slip, for the mutation runs: registers with a hub that has shut down.
SubscribeAnyway(s) ==
    /\ stage[s] = "new" /\ hub # "send"
    /\ stage' = [stage EXCEPT ![s] = "streaming"]
    /\ clients' = clients \cup {s}
    /\ Open(s)
    /\ UNCHANGED <<current, broadcast, cancelled, hub, message, unsent, closed, streamed,
                   panicked>>

Subscribe(s) ==
    /\ stage[s] = "new" /\ hub # "send"
    /\ stage' = [stage EXCEPT ![s] = "streaming"]
    /\ \/ ~closed /\ clients' = clients \cup {s} /\ Open(s)
       \/ closed /\ UNCHANGED <<clients, channel>>
    /\ UNCHANGED <<current, broadcast, cancelled, hub, message, unsent, closed, streamed,
                   panicked>>

\* The write to the connection succeeds, or the handler leaves.
streams(s) ==
    /\ stage[s] = "streaming" /\ channel[s].items # <<>>
    /\ channel' = [channel EXCEPT ![s].items = Tail(@)]
    /\ \/ streamed' = [streamed EXCEPT ![s] = Append(@, Head(channel[s].items))]
          /\ UNCHANGED stage
       \/ stage' = [stage EXCEPT ![s] = "leaving"] /\ UNCHANGED streamed
    /\ UNCHANGED <<current, broadcast, cancelled, hub, message, unsent, closed, clients,
                   panicked>>

\* A closed channel ends the stream once it is empty.
streamEnds(s) ==
    /\ stage[s] = "streaming" /\ channel[s].items = <<>> /\ ~channel[s].open
    /\ stage' = [stage EXCEPT ![s] = "leaving"]
    /\ UNCHANGED <<current, broadcast, cancelled, hub, message, unsent, closed, clients,
                   channel, streamed, panicked>>

\* Slip, for the mutation runs: closes without asking who has closed already.
removeClientAlways(s) ==
    /\ stage[s] = "leaving" /\ hub # "send"
    /\ stage' = [stage EXCEPT ![s] = "left"]
    /\ clients' = clients \ {s}
    /\ Close({s})
    /\ UNCHANGED <<current, broadcast, cancelled, hub, message, unsent, closed, streamed>>

\* unsubscribe, deferred by the handler; a no-op for who subscribed after shutdown.
removeClient(s) ==
    /\ stage[s] = "leaving" /\ hub # "send"
    /\ stage' = [stage EXCEPT ![s] = "left"]
    /\ clients' = clients \ {s}
    /\ Close(clients \cap {s})
    /\ UNCHANGED <<current, broadcast, cancelled, hub, message, unsent, closed, streamed>>

-----------------------------------------------------------------------------
HubInit ==
    /\ current = 0 /\ message = 0
    /\ broadcast = <<>>
    /\ cancelled = FALSE /\ closed = FALSE /\ panicked = FALSE
    /\ hub = "select"
    /\ unsent = {} /\ clients = {}
    /\ channel = [s \in Subscribers |-> [items |-> <<>>, open |-> FALSE]]
    /\ stage = [s \in Subscribers |-> "new"]
    /\ streamed = [s \in Subscribers |-> <<>>]

Run == runReceives \/ (\E s \in Subscribers : runSends(s)) \/ runSent \/ runShutsDown

ws(s) == streams(s) \/ streamEnds(s) \/ removeClient(s)

HubNext == fetchAll \/ Cancel \/ Run \/ \E s \in Subscribers : Subscribe(s) \/ ws(s)

HubSpec == HubInit /\ [][HubNext]_hubVars

-----------------------------------------------------------------------------
(* Properties *)

HubTypeOK ==
    /\ current \in 0..MaxPrices /\ message \in 0..MaxPrices
    /\ broadcast \in Seq(Nat) /\ Len(broadcast) <= BroadcastSize
    /\ cancelled \in BOOLEAN /\ closed \in BOOLEAN /\ panicked \in BOOLEAN
    /\ hub \in {"select", "send", "done"}
    /\ unsent \subseteq clients /\ clients \subseteq Subscribers
    /\ channel \in [Subscribers -> [items : Seq(Nat), open : BOOLEAN]]
    /\ \A s \in Subscribers : Len(channel[s].items) <= ChannelSize
    /\ stage \in [Subscribers -> {"new", "streaming", "leaving", "left"}]
    /\ streamed \in [Subscribers -> Seq(Nat)]

\* However subscribers come and go while prices are sent and the service shuts down,
\* no channel is closed twice or sent to when closed, the open channels are those
\* the hub knows, and a subscriber sees prices in the order they were fetched, none
\* of them twice.
HubNeverPanics ==
    /\ ~panicked
    /\ clients = {s \in Subscribers : channel[s].open}
    /\ closed => clients = {}
    /\ \A s \in Subscribers :
          LET prices == streamed[s] \o channel[s].items
          IN  \A i, j \in DOMAIN prices : i < j => prices[i] < prices[j]

\* After a shutdown every connection ends: nobody waits for a hub that has gone.
SubscribersLeave ==
    cancelled ~> \A s \in Subscribers : stage[s] # "streaming"
=============================================================================
