------------------------- MODULE OwnServices_proofs -------------------------
(***************************************************************************)
(* Proofs about the services that do not listen to the event bus: the hub  *)
(* and the feed of the prices, the rate limiter, the proof of reserve, and *)
(* those that know people, AdminGateway, Kyc, Auth and Wallets, for every  *)
(* set of callers, accounts, requests and payments, every clock and every  *)
(* number of failures.                                                     *)
(***************************************************************************)
EXTENDS PriceHub, PriceFeed, RateLimiter, ProofOfReserve, AdminGateway, Kyc, Auth, Wallets,
        FiniteSetTheorems, SequenceTheorems, TLAPS

(* Sequences of numbers *)

Increasing(q) == \A i, j \in DOMAIN q : i < j => q[i] < q[j]

AllBelow(q, n) == \A i \in DOMAIN q : q[i] < n
AllUpTo(q, n) == \A i \in DOMAIN q : q[i] <= n
AllAbove(q, n) == \A i \in DOMAIN q : q[i] > n

\* Every number of the first comes before every one of the second.
Before(p, q) == \A i \in DOMAIN p, j \in DOMAIN q : p[i] < q[j]

LEMMA EmptyFacts ==
    ASSUME NEW q, NEW n
    PROVE  /\ <<>> \in Seq(Nat) /\ Increasing(<<>>) /\ AllBelow(<<>>, n) /\ AllUpTo(<<>>, n)
           /\ AllAbove(<<>>, n) /\ Before(<<>>, q) /\ Before(q, <<>>)
  BY DEF Increasing, AllBelow, AllUpTo, AllAbove, Before

LEMMA AppendFacts ==
    ASSUME NEW q \in Seq(Nat), NEW n \in Nat
    PROVE  /\ Append(q, n) \in Seq(Nat) /\ Len(Append(q, n)) = Len(q) + 1
           /\ \A i \in DOMAIN q : i \in DOMAIN Append(q, n) /\ Append(q, n)[i] = q[i]
           /\ \A i \in DOMAIN Append(q, n) :
                 \/ i \in DOMAIN q /\ Append(q, n)[i] = q[i] /\ i < Len(q) + 1
                 \/ i = Len(q) + 1 /\ Append(q, n)[i] = n
           /\ \A i \in DOMAIN q : i \in Nat /\ q[i] \in Nat
  <1>1. /\ Append(q, n) \in Seq(Nat) /\ Len(Append(q, n)) = Len(q) + 1
        /\ \A i \in 1..Len(q) : Append(q, n)[i] = q[i]
        /\ Append(q, n)[Len(q) + 1] = n
    OBVIOUS
  <1>2. DOMAIN q = 1..Len(q) /\ Len(q) \in Nat /\ \A i \in 1..Len(q) : q[i] \in Nat
    OBVIOUS
  <1>3. DOMAIN Append(q, n) = 1..Len(q) + 1
    BY <1>1
  <1> QED BY <1>1, <1>2, <1>3

LEMMA TailFacts ==
    ASSUME NEW q \in Seq(Nat), q # <<>>
    PROVE  /\ Tail(q) \in Seq(Nat) /\ Len(Tail(q)) = Len(q) - 1 /\ Len(q) \in Nat \ {0}
           /\ Head(q) \in Nat /\ Head(q) = q[1] /\ 1 \in DOMAIN q
           /\ \A i \in DOMAIN Tail(q) : i \in Nat /\ i + 1 \in DOMAIN q /\ i + 1 > 1 /\ Tail(q)[i] = q[i + 1]
  <1>1. Len(q) \in Nat \ {0} /\ DOMAIN q = 1..Len(q) /\ Head(q) = q[1]
    BY EmptySeq
  <1>2. /\ Head(q) \in Nat /\ Tail(q) \in Seq(Nat) /\ Len(Tail(q)) = Len(q) - 1
        /\ \A i \in 1..Len(Tail(q)) : Tail(q)[i] = q[i + 1]
    BY HeadTailProperties
  <1>3. DOMAIN Tail(q) = 1..Len(q) - 1
    BY <1>2
  <1> QED BY <1>1, <1>2, <1>3

LEMMA AppendKeeps ==
    ASSUME NEW q \in Seq(Nat), NEW n \in Nat
    PROVE  /\ Increasing(q) /\ AllBelow(q, n) => Increasing(Append(q, n))
           /\ AllUpTo(q, n) => AllUpTo(Append(q, n), n)
           /\ \A m \in Nat : /\ AllUpTo(q, m) /\ n <= m => AllUpTo(Append(q, n), m)
                             /\ AllBelow(q, m) /\ n < m => AllBelow(Append(q, n), m)
                             /\ AllAbove(q, m) /\ n > m => AllAbove(Append(q, n), m)
           /\ \A p \in Seq(Nat) : /\ Before(p, q) /\ AllBelow(p, n) => Before(p, Append(q, n))
                                  /\ Before(q, p) /\ AllAbove(p, n) => Before(Append(q, n), p)
  <1>1. /\ \A i \in DOMAIN Append(q, n) :
                 \/ i \in DOMAIN q /\ Append(q, n)[i] = q[i] /\ i < Len(q) + 1
                 \/ i = Len(q) + 1 /\ Append(q, n)[i] = n
        /\ \A i \in DOMAIN q : i \in Nat /\ q[i] \in Nat
        /\ Len(q) \in Nat
    BY AppendFacts
  <1>2. Increasing(q) /\ AllBelow(q, n) => Increasing(Append(q, n))
    BY <1>1 DEF Increasing, AllBelow
  <1>3. AllUpTo(q, n) => AllUpTo(Append(q, n), n)
    BY <1>1 DEF AllUpTo
  <1>4. \A m \in Nat : /\ AllUpTo(q, m) /\ n <= m => AllUpTo(Append(q, n), m)
                       /\ AllBelow(q, m) /\ n < m => AllBelow(Append(q, n), m)
                       /\ AllAbove(q, m) /\ n > m => AllAbove(Append(q, n), m)
    BY <1>1 DEF AllUpTo, AllBelow, AllAbove
  <1>5. \A p \in Seq(Nat) : /\ Before(p, q) /\ AllBelow(p, n) => Before(p, Append(q, n))
                            /\ Before(q, p) /\ AllAbove(p, n) => Before(Append(q, n), p)
    BY <1>1 DEF Before, AllBelow, AllAbove
  <1> QED BY <1>2, <1>3, <1>4, <1>5

LEMMA TailKeeps ==
    ASSUME NEW q \in Seq(Nat), q # <<>>
    PROVE  /\ Increasing(q) => Increasing(Tail(q)) /\ AllAbove(Tail(q), Head(q))
           /\ \A m \in Nat : /\ AllUpTo(q, m) => AllUpTo(Tail(q), m) /\ Head(q) <= m
                             /\ AllBelow(q, m) => AllBelow(Tail(q), m) /\ Head(q) < m
                             /\ AllAbove(q, m) => AllAbove(Tail(q), m) /\ Head(q) > m
           /\ \A p \in Seq(Nat) : /\ Before(p, q) => Before(p, Tail(q)) /\ AllBelow(p, Head(q))
                                  /\ Before(q, p) => Before(Tail(q), p)
  <1>1. /\ \A i \in DOMAIN Tail(q) : i \in Nat /\ i + 1 \in DOMAIN q /\ i + 1 > 1 /\ Tail(q)[i] = q[i + 1]
        /\ Head(q) = q[1] /\ 1 \in DOMAIN q
    BY TailFacts
  <1>2. Increasing(q) => Increasing(Tail(q)) /\ AllAbove(Tail(q), Head(q))
    <2>1. Increasing(q) => AllAbove(Tail(q), Head(q))
      <3> SUFFICES ASSUME Increasing(q), NEW i \in DOMAIN Tail(q) PROVE Tail(q)[i] > Head(q)
        BY DEF AllAbove
      <3>1. q[1] < q[i + 1] /\ q[1] \in Nat /\ q[i + 1] \in Nat
        BY <1>1 DEF Increasing
      <3> QED BY <1>1, <3>1
    <2>2. Increasing(q) => Increasing(Tail(q))
      BY <1>1 DEF Increasing
    <2> QED BY <2>1, <2>2
  <1>3. \A m \in Nat : /\ AllUpTo(q, m) => AllUpTo(Tail(q), m) /\ Head(q) <= m
                       /\ AllBelow(q, m) => AllBelow(Tail(q), m) /\ Head(q) < m
                       /\ AllAbove(q, m) => AllAbove(Tail(q), m) /\ Head(q) > m
    BY <1>1 DEF AllUpTo, AllBelow, AllAbove
  <1>4. \A p \in Seq(Nat) : /\ Before(p, q) => Before(p, Tail(q)) /\ AllBelow(p, Head(q))
                            /\ Before(q, p) => Before(Tail(q), p)
    BY <1>1 DEF Before, AllBelow
  <1> QED BY <1>2, <1>3, <1>4

LEMMA BoundsLoosen ==
    ASSUME NEW q \in Seq(Nat), NEW m \in Nat, NEW n \in Nat
    PROVE  /\ AllUpTo(q, m) /\ m < n => AllBelow(q, n)
           /\ AllUpTo(q, m) /\ m <= n => AllUpTo(q, n)
           /\ AllBelow(q, m) => AllUpTo(q, m)
  <1>1. \A k \in DOMAIN q : q[k] \in Nat
    OBVIOUS
  <1> QED BY <1>1 DEF AllUpTo, AllBelow

LEMMA ConcatIncreasing ==
    ASSUME NEW p \in Seq(Nat), NEW q \in Seq(Nat), Increasing(p), Increasing(q), Before(p, q)
    PROVE  Increasing(p \o q)
  <1>1. /\ Len(p) \in Nat /\ Len(q) \in Nat /\ DOMAIN p = 1..Len(p) /\ DOMAIN q = 1..Len(q)
        /\ DOMAIN (p \o q) = 1..Len(p) + Len(q)
        /\ \A k \in 1..Len(p) + Len(q) : (p \o q)[k] = IF k <= Len(p) THEN p[k] ELSE q[k - Len(p)]
    BY ConcatProperties, LenProperties
  <1> SUFFICES ASSUME NEW k \in DOMAIN (p \o q), NEW l \in DOMAIN (p \o q), k < l
               PROVE  (p \o q)[k] < (p \o q)[l]
    BY DEF Increasing
  <1>2. CASE l <= Len(p)
    BY <1>1, <1>2 DEF Increasing
  <1>3. CASE k <= Len(p) /\ l > Len(p)
    <2>1. k \in DOMAIN p /\ l - Len(p) \in DOMAIN q
      BY <1>1, <1>3
    <2> QED BY <1>1, <1>3, <2>1 DEF Before
  <1>4. CASE k > Len(p)
    <2>1. k - Len(p) \in DOMAIN q /\ l - Len(p) \in DOMAIN q /\ k - Len(p) < l - Len(p)
      BY <1>1, <1>4
    <2>2. q[k - Len(p)] < q[l - Len(p)]
      BY <2>1 DEF Increasing
    <2> QED BY <1>1, <1>4, <2>2
  <1> QED BY <1>1, <1>2, <1>3, <1>4

-----------------------------------------------------------------------------
(* The hub of the prices *)

Items(s) == channel[s].items

\* The prices on their way, from the fetch to the hub.
Queued ==
    /\ Increasing(broadcast) /\ AllAbove(broadcast, message) /\ AllUpTo(broadcast, current)
    /\ message <= current

\* What a subscriber has been sent is older than what it still will be.
Delivered(s) ==
    /\ Increasing(streamed[s]) /\ Increasing(Items(s)) /\ Before(streamed[s], Items(s))
    /\ AllUpTo(streamed[s], message) /\ AllUpTo(Items(s), message)
    /\ s \in unsent => AllBelow(streamed[s], message) /\ AllBelow(Items(s), message)

\* Who is registered has an open channel, and nobody is after the shutdown.
Registered ==
    /\ ~panicked
    /\ clients = {s \in Subscribers : channel[s].open}
    /\ closed => clients = {}
    /\ closed <=> hub = "done"
    /\ hub # "send" => unsent = {}

\* The inductive invariant of the hub.
HubInv == HubTypeOK /\ Queued /\ Registered /\ \A s \in Subscribers : Delivered(s)

Conduits == [items : Seq(Nat), open : BOOLEAN]

HubTyped ==
    /\ current \in 0..MaxPrices /\ message \in 0..MaxPrices
    /\ broadcast \in Seq(Nat) /\ Len(broadcast) <= BroadcastSize
    /\ cancelled \in BOOLEAN /\ closed \in BOOLEAN /\ panicked \in BOOLEAN
    /\ hub \in {"select", "send", "done"}
    /\ unsent \subseteq clients /\ clients \subseteq Subscribers
    /\ channel \in [Subscribers -> Conduits]
    /\ \A s \in Subscribers : Len(channel[s].items) <= ChannelSize
    /\ stage \in [Subscribers -> {"new", "streaming", "leaving", "left"}]
    /\ streamed \in [Subscribers -> Seq(Nat)]

LEMMA HubTypes == (HubTypeOK <=> HubTyped) /\ (HubTypeOK' <=> HubTyped')
  BY DEF HubTyped, HubTypeOK, Conduits

LEMMA HubFields ==
    ASSUME HubTyped, NEW s \in Subscribers
    PROVE  /\ channel[s] \in Conduits /\ Items(s) \in Seq(Nat) /\ channel[s].open \in BOOLEAN
           /\ streamed[s] \in Seq(Nat) /\ message \in Nat /\ current \in Nat /\ Len(Items(s)) \in Nat
  BY HubAssumption DEF HubTyped, Conduits, Items

LEMMA HubInit_Inv == HubInit => HubInv
  <1> SUFFICES ASSUME HubInit PROVE HubInv
    OBVIOUS
  <1>1. HubTypeOK
    <2>1. <<>> \in Seq(Nat) /\ Len(<<>>) = 0
      BY EmptySeq
    <2>2. [items |-> <<>>, open |-> FALSE] \in Conduits
      BY <2>1 DEF Conduits
    <2>3. /\ channel \in [Subscribers -> Conduits] /\ streamed \in [Subscribers -> Seq(Nat)]
          /\ stage \in [Subscribers -> {"new", "streaming", "leaving", "left"}]
      <3> HIDE DEF Conduits
      <3> QED BY <2>1, <2>2 DEF HubInit
    <2>4. /\ current \in 0..MaxPrices /\ message \in 0..MaxPrices
          /\ Len(broadcast) <= BroadcastSize /\ broadcast \in Seq(Nat)
      BY <2>1, HubAssumption DEF HubInit
    <2>5. \A s \in Subscribers : Len(channel[s].items) <= ChannelSize
      BY <2>1, HubAssumption DEF HubInit
    <2> QED BY <2>3, <2>4, <2>5, HubTypes DEF HubInit, HubTyped
  <1>2. Queued
    <2>1. broadcast = <<>> /\ message = 0 /\ current = 0
      BY DEF HubInit
    <2> QED BY <2>1 DEF Queued, Increasing, AllAbove, AllUpTo
  <1>3. Registered
    BY DEF HubInit, Registered
  <1>4. ASSUME NEW s \in Subscribers PROVE Delivered(s)
    <2>1. streamed[s] = <<>> /\ Items(s) = <<>> /\ s \notin unsent
      BY DEF HubInit, Items
    <2> QED BY <2>1, EmptyFacts DEF Delivered
  <1> QED BY <1>1, <1>2, <1>3, <1>4 DEF HubInv

\* Channels change in what they hold, or in whether they are open.
LEMMA Channels_Type ==
    ASSUME HubTyped, NEW s \in Subscribers, NEW q \in Seq(Nat), Len(q) <= ChannelSize,
           channel' = [channel EXCEPT ![s].items = q]
    PROVE  /\ channel' \in [Subscribers -> Conduits]
           /\ Items(s)' = q /\ \A x \in Subscribers \ {s} : Items(x)' = Items(x)
           /\ \A x \in Subscribers : channel'[x].open = channel[x].open
           /\ \A x \in Subscribers : Len(channel'[x].items) <= ChannelSize
  <1>1. channel[s] \in Conduits /\ channel \in [Subscribers -> Conduits]
    BY DEF HubTyped
  <1> DEFINE c == [channel[s] EXCEPT !.items = q]
  <1>2. c \in Conduits /\ c.items = q /\ c.open = channel[s].open
    BY <1>1 DEF Conduits
  <1>3. channel' = [channel EXCEPT ![s] = c]
    OBVIOUS
  <1> HIDE DEF c
  <1>4. channel'[s] = c /\ \A x \in Subscribers \ {s} : channel'[x] = channel[x]
    BY <1>1, <1>3
  <1>5. channel' \in [Subscribers -> Conduits]
    BY <1>1, <1>2, <1>3
  <1> QED BY <1>2, <1>4, <1>5 DEF Items, HubTyped

LEMMA Opens_Type ==
    ASSUME HubTyped, NEW s \in Subscribers, NEW b \in BOOLEAN,
           channel' = [channel EXCEPT ![s].open = b]
    PROVE  /\ channel' \in [Subscribers -> Conduits]
           /\ \A x \in Subscribers : Items(x)' = Items(x)
           /\ channel'[s].open = b /\ \A x \in Subscribers \ {s} : channel'[x].open = channel[x].open
           /\ \A x \in Subscribers : Len(channel'[x].items) <= ChannelSize
  <1>1. channel[s] \in Conduits /\ channel \in [Subscribers -> Conduits]
    BY DEF HubTyped
  <1> DEFINE c == [channel[s] EXCEPT !.open = b]
  <1>2. c \in Conduits /\ c.items = channel[s].items /\ c.open = b
    BY <1>1 DEF Conduits
  <1>3. channel' = [channel EXCEPT ![s] = c]
    OBVIOUS
  <1> HIDE DEF c
  <1>4. channel'[s] = c /\ \A x \in Subscribers \ {s} : channel'[x] = channel[x]
    BY <1>1, <1>3
  <1>5. channel' \in [Subscribers -> Conduits]
    BY <1>1, <1>2, <1>3
  <1> QED BY <1>2, <1>4, <1>5 DEF Items, HubTyped

LEMMA Closes_Type ==
    ASSUME HubTyped, NEW S \in SUBSET Subscribers, Close(S)
    PROVE  /\ channel' \in [Subscribers -> Conduits]
           /\ \A x \in Subscribers : Items(x)' = Items(x)
           /\ \A x \in S : ~channel'[x].open
           /\ \A x \in Subscribers \ S : channel'[x].open = channel[x].open
           /\ \A x \in Subscribers : Len(channel'[x].items) <= ChannelSize
           /\ (\A x \in S : channel[x].open) => panicked' = panicked
  <1>1. channel \in [Subscribers -> Conduits] /\ panicked \in BOOLEAN
    BY DEF HubTyped
  <1>2. ASSUME NEW x \in Subscribers
        PROVE  /\ channel'[x] \in Conduits /\ channel'[x].items = channel[x].items
               /\ channel'[x].open = IF x \in S THEN FALSE ELSE channel[x].open
    <2>1. channel[x] \in Conduits
      BY <1>1
    <2>2. channel'[x] = IF x \in S THEN [channel[x] EXCEPT !.open = FALSE] ELSE channel[x]
      BY DEF Close
    <2> QED BY <2>1, <2>2 DEF Conduits
  <1>3. channel' \in [Subscribers -> Conduits]
    <2> HIDE DEF Conduits
    <2> QED BY <1>2 DEF Close
  <1>4. (\A x \in S : channel[x].open) => panicked' = panicked
    BY <1>1 DEF Close
  <1> QED BY <1>2, <1>3, <1>4 DEF Items, HubTyped

\* The channels of the subscribers hold what they did, and nothing else is sent.
LEMMA DeliveredKept ==
    ASSUME HubInv, NEW s \in Subscribers, Items(s)' = Items(s), streamed'[s] = streamed[s],
           UNCHANGED message, s \in unsent' => s \in unsent
    PROVE  Delivered(s)'
  BY DEF HubInv, Delivered

LEMMA HubNext_Inv ==
    ASSUME HubInv, [HubNext]_hubVars
    PROVE  HubInv'
  <1>1. HubTyped /\ Queued /\ Registered /\ \A s \in Subscribers : Delivered(s)
    BY HubTypes DEF HubInv
  <1>2. /\ broadcast \in Seq(Nat) /\ Len(broadcast) \in Nat /\ current \in Nat /\ message \in Nat
        /\ current <= MaxPrices
    BY <1>1, HubAssumption DEF HubTyped
  <1>3. ASSUME UNCHANGED <<channel, streamed, message, unsent>>
        PROVE  \A s \in Subscribers : Delivered(s)'
    BY <1>3, DeliveredKept DEF Items
  <1>4. CASE fetchAll
    <2>1. /\ current < MaxPrices /\ current' = current + 1
          /\ \/ Len(broadcast) < BroadcastSize /\ broadcast' = Append(broadcast, current + 1)
             \/ broadcast' = broadcast
          /\ UNCHANGED <<cancelled, hub, message, unsent, closed, clients, channel, stage,
                         streamed, panicked>>
      BY <1>4 DEF fetchAll
    <2>2. current + 1 \in Nat /\ current < current + 1 /\ current <= current + 1
      BY <1>2
    <2>3. AllBelow(broadcast, current + 1) /\ AllUpTo(broadcast, current + 1)
      BY <1>1, <1>2, <2>2, BoundsLoosen DEF Queued
    <2>4. Queued'
      <3>1. message <= current + 1 /\ current + 1 > message
        BY <1>1, <1>2 DEF Queued
      <3>2. CASE broadcast' = broadcast
        BY <1>1, <2>1, <2>3, <3>1, <3>2 DEF Queued
      <3>3. CASE broadcast' = Append(broadcast, current + 1)
        BY <1>1, <1>2, <2>1, <2>2, <2>3, <3>1, <3>3, AppendKeeps DEF Queued
      <3> QED BY <2>1, <3>2, <3>3
    <2>5. HubTyped'
      <3>1. broadcast' \in Seq(Nat) /\ Len(broadcast') <= BroadcastSize
        <4>1. CASE broadcast' = broadcast
          BY <1>1, <4>1 DEF HubTyped
        <4>2. CASE Len(broadcast) < BroadcastSize /\ broadcast' = Append(broadcast, current + 1)
          BY <1>2, <2>2, <4>2, AppendFacts, HubAssumption
        <4> QED BY <2>1, <4>1, <4>2
      <3>2. current' \in 0..MaxPrices
        BY <1>2, <2>1, HubAssumption
      <3> QED BY <1>1, <2>1, <3>1, <3>2 DEF HubTyped
    <2>6. Registered'
      BY <1>1, <2>1 DEF Registered
    <2> QED BY <1>3, <2>1, <2>4, <2>5, <2>6, HubTypes DEF HubInv
  <1>5. CASE Cancel
    <2>1. HubTyped' /\ Queued' /\ Registered'
      BY <1>1, <1>5 DEF Cancel, HubTyped, Queued, Registered
    <2> QED BY <1>3, <1>5, <2>1, HubTypes DEF HubInv, Cancel
  <1>6. CASE runReceives
    <2>1. /\ hub = "select" /\ broadcast # <<>> /\ message' = Head(broadcast)
          /\ broadcast' = Tail(broadcast) /\ unsent' = clients /\ hub' = "send"
          /\ UNCHANGED <<current, cancelled, closed, clients, channel, stage, streamed, panicked>>
      BY <1>6 DEF runReceives
    <2>2. Head(broadcast) \in Nat /\ Head(broadcast) > message /\ Head(broadcast) <= current
      BY <1>1, <1>2, <2>1, TailKeeps, TailFacts DEF Queued
    <2>3. Queued'
      BY <1>1, <1>2, <2>1, <2>2, TailKeeps DEF Queued
    <2>4. HubTyped'
      <3>1. Tail(broadcast) \in Seq(Nat) /\ Len(Tail(broadcast)) <= BroadcastSize
        <4>1. Tail(broadcast) \in Seq(Nat) /\ Len(Tail(broadcast)) = Len(broadcast) - 1
          BY <1>2, <2>1, TailFacts
        <4> QED BY <1>1, <1>2, <4>1, HubAssumption DEF HubTyped
      <3>2. message' \in 0..MaxPrices
        BY <1>2, <2>1, <2>2, HubAssumption
      <3> QED BY <1>1, <2>1, <3>1, <3>2 DEF HubTyped
    <2>5. Registered'
      BY <1>1, <2>1 DEF Registered
    <2>6. ASSUME NEW s \in Subscribers PROVE Delivered(s)'
      <3>1. Items(s)' = Items(s) /\ streamed'[s] = streamed[s]
        BY <2>1 DEF Items
      <3>2. /\ Items(s) \in Seq(Nat) /\ streamed[s] \in Seq(Nat)
            /\ AllUpTo(streamed[s], message) /\ AllUpTo(Items(s), message)
        BY <1>1, HubFields DEF Delivered
      <3>3. message' \in Nat /\ message < message' /\ message <= message'
        BY <1>2, <2>1, <2>2
      <3>4. /\ AllUpTo(streamed[s], message') /\ AllUpTo(Items(s), message')
            /\ AllBelow(streamed[s], message') /\ AllBelow(Items(s), message')
        BY <1>2, <3>2, <3>3, BoundsLoosen
      <3> QED BY <1>1, <3>1, <3>4 DEF Delivered
    <2> QED BY <2>3, <2>4, <2>5, <2>6, HubTypes DEF HubInv
  <1>7. ASSUME NEW s \in Subscribers, runSends(s) PROVE HubInv'
    <2>1. /\ hub = "send" /\ s \in unsent /\ unsent' = unsent \ {s}
          /\ UNCHANGED <<current, broadcast, cancelled, hub, message, closed, clients, stage, streamed>>
          /\ panicked' = (panicked \/ ~channel[s].open)
          /\ \/ /\ Len(Items(s)) < ChannelSize
                /\ channel' = [channel EXCEPT ![s].items = Append(Items(s), message)]
             \/ channel' = channel
      BY <1>7 DEF runSends, Items
    <2>2. panicked' = panicked
      BY <1>1, <2>1 DEF Registered, HubTyped
    <2>3. Queued'
      BY <1>1, <2>1 DEF Queued
    <2>4. CASE channel' = channel
      <3>1. HubTyped' /\ Registered'
        BY <1>1, <2>1, <2>2, <2>4 DEF HubTyped, Registered
      <3>2. \A x \in Subscribers : Delivered(x)'
        BY <2>1, <2>4, DeliveredKept DEF Items
      <3> QED BY <2>3, <3>1, <3>2, HubTypes DEF HubInv
    <2>5. CASE /\ Len(Items(s)) < ChannelSize
               /\ channel' = [channel EXCEPT ![s].items = Append(Items(s), message)]
      <3> DEFINE q == Append(Items(s), message)
      <3>1. Items(s) \in Seq(Nat) /\ streamed[s] \in Seq(Nat) /\ message \in Nat /\ Len(Items(s)) \in Nat
        BY <1>1, HubFields
      <3>2. q \in Seq(Nat) /\ Len(q) <= ChannelSize
        BY <2>5, <3>1, AppendFacts, HubAssumption
      <3>3. /\ AllBelow(streamed[s], message) /\ AllBelow(Items(s), message)
            /\ AllUpTo(streamed[s], message) /\ AllUpTo(Items(s), message)
            /\ Increasing(streamed[s]) /\ Increasing(Items(s)) /\ Before(streamed[s], Items(s))
        BY <1>1, <2>1 DEF Delivered
      <3>4. Increasing(q) /\ AllUpTo(q, message) /\ Before(streamed[s], q)
        BY <3>1, <3>3, AppendKeeps
      <3> HIDE DEF q
      <3>5. channel' = [channel EXCEPT ![s].items = q]
        BY <2>5 DEF q
      <3>6. /\ channel' \in [Subscribers -> Conduits]
            /\ Items(s)' = q /\ \A x \in Subscribers \ {s} : Items(x)' = Items(x)
            /\ \A x \in Subscribers : channel'[x].open = channel[x].open
            /\ \A x \in Subscribers : Len(channel'[x].items) <= ChannelSize
        BY <1>1, <3>2, <3>5, Channels_Type
      <3>7. HubTyped' /\ Registered'
        BY <1>1, <2>1, <2>2, <3>6 DEF HubTyped, Registered
      <3>8. Delivered(s)'
        BY <2>1, <3>3, <3>4, <3>6 DEF Delivered
      <3>9. \A x \in Subscribers \ {s} : Delivered(x)'
        BY <2>1, <3>6, DeliveredKept
      <3> QED BY <2>3, <3>7, <3>8, <3>9, HubTypes DEF HubInv
    <2> QED BY <2>1, <2>4, <2>5
  <1>8. CASE runSent
    <2>1. HubTyped' /\ Queued' /\ Registered'
      BY <1>1, <1>8 DEF runSent, HubTyped, Queued, Registered
    <2> QED BY <1>3, <1>8, <2>1, HubTypes DEF HubInv, runSent
  <1>9. CASE runShutsDown
    <2>1. /\ hub = "select" /\ closed' = TRUE /\ clients' = {} /\ hub' = "done" /\ Close(clients)
          /\ UNCHANGED <<current, broadcast, cancelled, message, unsent, stage, streamed>>
      BY <1>9 DEF runShutsDown
    <2>2. /\ clients \in SUBSET Subscribers /\ \A x \in clients : channel[x].open
          /\ \A x \in Subscribers \ clients : channel[x].open = FALSE
      BY <1>1, HubFields DEF HubTyped, Registered
    <2>3. /\ channel' \in [Subscribers -> Conduits]
          /\ \A x \in Subscribers : Items(x)' = Items(x)
          /\ \A x \in clients : ~channel'[x].open
          /\ \A x \in Subscribers \ clients : channel'[x].open = channel[x].open
          /\ \A x \in Subscribers : Len(channel'[x].items) <= ChannelSize
          /\ panicked' = panicked
      BY <1>1, <2>1, <2>2, Closes_Type
    <2>4. unsent = {}
      BY <1>1, <2>1 DEF Registered
    <2>5. HubTyped' /\ Queued' /\ Registered'
      BY <1>1, <2>1, <2>2, <2>3, <2>4 DEF HubTyped, Queued, Registered
    <2>6. \A s \in Subscribers : Delivered(s)'
      BY <2>1, <2>3, DeliveredKept
    <2> QED BY <2>5, <2>6, HubTypes DEF HubInv
  <1>10. ASSUME NEW s \in Subscribers, Subscribe(s) PROVE HubInv'
    <2>1. /\ hub # "send" /\ stage' = [stage EXCEPT ![s] = "streaming"]
          /\ \/ ~closed /\ clients' = clients \cup {s} /\ channel' = [channel EXCEPT ![s].open = TRUE]
             \/ UNCHANGED <<clients, channel>>
          /\ UNCHANGED <<current, broadcast, cancelled, hub, message, unsent, closed, streamed, panicked>>
      BY <1>10 DEF Subscribe, Open
    <2>2. /\ channel' \in [Subscribers -> Conduits]
          /\ \A x \in Subscribers : Items(x)' = Items(x)
          /\ \A x \in Subscribers : Len(channel'[x].items) <= ChannelSize
          /\ clients' = {x \in Subscribers : channel'[x].open} /\ clients \subseteq clients'
          /\ closed => clients' = {}
      <3>1. CASE UNCHANGED <<clients, channel>>
        BY <1>1, <3>1 DEF HubTyped, Registered, Items
      <3>2. CASE ~closed /\ clients' = clients \cup {s} /\ channel' = [channel EXCEPT ![s].open = TRUE]
        <4>1. /\ channel' \in [Subscribers -> Conduits]
              /\ \A x \in Subscribers : Items(x)' = Items(x)
              /\ channel'[s].open = TRUE /\ \A x \in Subscribers \ {s} : channel'[x].open = channel[x].open
              /\ \A x \in Subscribers : Len(channel'[x].items) <= ChannelSize
          BY <1>1, <3>2, Opens_Type
        <4>2. clients = {x \in Subscribers : channel[x].open}
          BY <1>1 DEF Registered
        <4>3. clients' = {x \in Subscribers : channel'[x].open}
          BY <3>2, <4>1, <4>2
        <4> QED BY <3>2, <4>1, <4>3
      <3> QED BY <2>1, <3>1, <3>2
    <2>3. HubTyped' /\ Queued' /\ Registered'
      BY <1>1, <2>1, <2>2 DEF HubTyped, Queued, Registered
    <2>4. \A x \in Subscribers : Delivered(x)'
      BY <2>1, <2>2, DeliveredKept
    <2> QED BY <2>3, <2>4, HubTypes DEF HubInv
  <1>11. ASSUME NEW s \in Subscribers, streams(s) PROVE HubInv'
    <2> DEFINE q == Tail(Items(s))
    <2>1. /\ Items(s) # <<>> /\ channel' = [channel EXCEPT ![s].items = q]
          /\ \/ streamed' = [streamed EXCEPT ![s] = Append(@, Head(Items(s)))] /\ UNCHANGED stage
             \/ stage' = [stage EXCEPT ![s] = "leaving"] /\ UNCHANGED streamed
          /\ UNCHANGED <<current, broadcast, cancelled, hub, message, unsent, closed, clients, panicked>>
      BY <1>11 DEF streams, Items
    <2>2. Items(s) \in Seq(Nat) /\ streamed[s] \in Seq(Nat) /\ message \in Nat
      BY <1>1, HubFields
    <2>3. q \in Seq(Nat) /\ Len(q) <= ChannelSize /\ Head(Items(s)) \in Nat
      <3>1. Len(Items(s)) <= ChannelSize /\ Len(Items(s)) \in Nat
        BY <1>1, HubFields DEF HubTyped, Items
      <3> QED BY <2>1, <2>2, <3>1, TailFacts, HubAssumption
    <2>4. /\ Increasing(streamed[s]) /\ Increasing(Items(s)) /\ Before(streamed[s], Items(s))
          /\ AllUpTo(streamed[s], message) /\ AllUpTo(Items(s), message)
          /\ s \in unsent => AllBelow(streamed[s], message) /\ AllBelow(Items(s), message)
      BY <1>1 DEF Delivered
    <2>5. /\ Increasing(q) /\ AllAbove(q, Head(Items(s))) /\ AllUpTo(q, message)
          /\ Head(Items(s)) <= message
          /\ AllBelow(Items(s), message) => AllBelow(q, message) /\ Head(Items(s)) < message
          /\ Before(streamed[s], q) /\ AllBelow(streamed[s], Head(Items(s)))
      BY <2>1, <2>2, <2>4, TailKeeps
    <2>6. /\ channel' \in [Subscribers -> Conduits]
          /\ Items(s)' = q /\ \A x \in Subscribers \ {s} : Items(x)' = Items(x)
          /\ \A x \in Subscribers : channel'[x].open = channel[x].open
          /\ \A x \in Subscribers : Len(channel'[x].items) <= ChannelSize
      <3> HIDE DEF q
      <3> QED BY <1>1, <2>1, <2>3, Channels_Type
    <2>7. PICK p \in Seq(Nat) : p = Append(streamed[s], Head(Items(s)))
      BY <2>2, <2>3, AppendFacts
    <2>8. /\ Increasing(p) /\ AllUpTo(p, message) /\ Before(p, q)
          /\ s \in unsent => AllBelow(p, message)
      BY <2>2, <2>3, <2>4, <2>5, <2>7, AppendKeeps
    <2> HIDE DEF q
    <2>9. /\ streamed' \in [Subscribers -> Seq(Nat)] /\ streamed'[s] \in {p, streamed[s]}
          /\ \A x \in Subscribers \ {s} : streamed'[x] = streamed[x]
          /\ stage' \in [Subscribers -> {"new", "streaming", "leaving", "left"}]
      <3>1. streamed \in [Subscribers -> Seq(Nat)]
        BY <1>1 DEF HubTyped
      <3>2. CASE streamed' = [streamed EXCEPT ![s] = p] /\ UNCHANGED stage
        BY <1>1, <3>1, <3>2 DEF HubTyped
      <3>3. CASE stage' = [stage EXCEPT ![s] = "leaving"] /\ UNCHANGED streamed
        BY <1>1, <3>1, <3>3 DEF HubTyped
      <3> QED BY <2>1, <2>7, <3>2, <3>3
    <2>10. HubTyped' /\ Queued' /\ Registered'
      BY <1>1, <2>1, <2>6, <2>9 DEF HubTyped, Queued, Registered
    <2>11. Delivered(s)'
      <3>1. CASE streamed'[s] = p
        BY <2>1, <2>4, <2>5, <2>6, <2>8, <3>1 DEF Delivered
      <3>2. CASE streamed'[s] = streamed[s]
        BY <2>1, <2>4, <2>5, <2>6, <3>2 DEF Delivered
      <3> QED BY <2>9, <3>1, <3>2
    <2>12. \A x \in Subscribers \ {s} : Delivered(x)'
      BY <2>1, <2>6, <2>9, DeliveredKept
    <2> QED BY <2>10, <2>11, <2>12, HubTypes DEF HubInv
  <1>12. ASSUME NEW s \in Subscribers, streamEnds(s) PROVE HubInv'
    <2>1. HubTyped' /\ Queued' /\ Registered'
      BY <1>1, <1>12 DEF streamEnds, HubTyped, Queued, Registered
    <2> QED BY <1>3, <1>12, <2>1, HubTypes DEF HubInv, streamEnds
  <1>13. ASSUME NEW s \in Subscribers, removeClient(s) PROVE HubInv'
    <2>1. /\ hub # "send" /\ stage' = [stage EXCEPT ![s] = "left"] /\ clients' = clients \ {s}
          /\ Close(clients \cap {s})
          /\ UNCHANGED <<current, broadcast, cancelled, hub, message, unsent, closed, streamed>>
      BY <1>13 DEF removeClient
    <2>2. /\ clients \cap {s} \in SUBSET Subscribers /\ \A x \in clients \cap {s} : channel[x].open
          /\ clients = {x \in Subscribers : channel[x].open} /\ unsent = {}
      BY <1>1, <2>1 DEF HubTyped, Registered
    <2>3. /\ channel' \in [Subscribers -> Conduits]
          /\ \A x \in Subscribers : Items(x)' = Items(x)
          /\ \A x \in clients \cap {s} : ~channel'[x].open
          /\ \A x \in Subscribers \ (clients \cap {s}) : channel'[x].open = channel[x].open
          /\ \A x \in Subscribers : Len(channel'[x].items) <= ChannelSize
          /\ panicked' = panicked
      BY <1>1, <2>1, <2>2, Closes_Type
    <2>4. clients' = {x \in Subscribers : channel'[x].open}
      BY <2>1, <2>2, <2>3
    <2>5. HubTyped' /\ Queued' /\ Registered'
      BY <1>1, <2>1, <2>2, <2>3, <2>4 DEF HubTyped, Queued, Registered
    <2>6. \A x \in Subscribers : Delivered(x)'
      BY <2>1, <2>3, DeliveredKept
    <2> QED BY <2>5, <2>6, HubTypes DEF HubInv
  <1>14. CASE UNCHANGED hubVars
    <2>1. HubTyped' /\ Queued' /\ Registered'
      BY <1>1, <1>14 DEF hubVars, HubTyped, Queued, Registered
    <2> QED BY <1>3, <1>14, <2>1, HubTypes DEF HubInv, hubVars
  <1> QED BY <1>4, <1>5, <1>6, <1>7, <1>8, <1>9, <1>10, <1>11, <1>12, <1>13, <1>14 DEF HubNext, Run, ws

\* The invariant of the hub, types included, in every reachable state.
THEOREM HubInvariant == HubSpec => []HubInv
  <1>1. HubInv /\ [HubNext]_hubVars => HubInv'
    BY HubNext_Inv
  <1> QED BY <1>1, HubInit_Inv, PTL DEF HubSpec

LEMMA HubInv_Implies ==
    ASSUME HubInv
    PROVE  HubNeverPanics
  <1>1. HubTyped /\ Registered /\ \A s \in Subscribers : Delivered(s)
    BY HubTypes DEF HubInv
  <1>2. ASSUME NEW s \in Subscribers
        PROVE  \A i, j \in DOMAIN (streamed[s] \o channel[s].items) : i < j =>
                  (streamed[s] \o channel[s].items)[i] < (streamed[s] \o channel[s].items)[j]
    <2>1. streamed[s] \in Seq(Nat) /\ Items(s) \in Seq(Nat)
      BY <1>1, HubFields
    <2>2. Increasing(streamed[s] \o Items(s))
      BY <1>1, <2>1, ConcatIncreasing DEF Delivered
    <2> QED BY <2>2 DEF Increasing, Items
  <1> QED BY <1>1, <1>2 DEF HubNeverPanics, Registered

\* However many subscribers come and go, and however large the channels are: none is
\* closed twice or sent to when closed, and each subscriber sees rising prices.
THEOREM HubHolds == HubSpec => []HubNeverPanics
  <1>1. HubInv => HubNeverPanics
    BY HubInv_Implies
  <1> QED BY <1>1, HubInvariant, PTL

-----------------------------------------------------------------------------
(* The proof of reserve *)

OnChain(date) == \E i \in DOMAIN chain : chain[i] = date

\* Attestations lie on the chain in the order of their dates, which is what makes the
\* index of a row more than one of several.
Dated == Increasing(chain)

\* The adapter that is built lets nothing through: no transaction, row, announcement or pass.
AsBuilt ==
    adapter = "asBuilt" =>
        /\ log = {} /\ announced = {} /\ pool = <<>>
        /\ \A p \in Posts : post[p].stage \in {"idle", "failed"}
        /\ \A s \in Syncers : scan[s].stage # "scan"

\* The inductive invariant of the proof of reserve; a pass reads within the chain.
PorInv ==
    /\ PorTypeOK /\ Dated
    /\ \A s \in Syncers : scan[s].stage = "scan" => scan[s].at \in 1..scan[s].count
    /\ LogMirrorsChain /\ AsBuilt

PostRows == [stage : PostStages, date : Dates \cup {0}, nonce : Nat]
LogRows == [date : Dates, idx : Nat]
Passes == [stage : {"idle", "asleep", "scan"}, at : Nat, count : Nat]

PorTyped ==
    /\ chain \in Seq(Dates) /\ nonce \in Nat /\ pool \in Seq(Posts)
    /\ post \in [Posts -> PostRows]
    /\ log \subseteq LogRows
    /\ announced \subseteq Dates
    /\ scan \in [Syncers -> Passes]

Scanning ==
    \A s \in Syncers :
        /\ scan[s].count <= Len(chain)
        /\ scan[s].stage = "scan" => scan[s].at \in 1..scan[s].count

\* The log, the announcements and the requests follow the chain.
RowsOnChain == \A r \in log : \E i \in DOMAIN chain : chain[i] = r.date /\ r.idx \in {0, i}
RowsUnique == \A q, r \in log : q.date = r.date => q = r
AnnouncedOnChain == \A d \in announced : OnChain(d)
PostsOnChain == \A p \in Posts : post[p].stage \in {"mined", "published"} => OnChain(post[p].date)

Mirror == RowsOnChain /\ RowsUnique /\ AnnouncedOnChain /\ PostsOnChain

Adapter == adapter \in {"asBuilt", "asMeant"}

LEMMA PorParts ==
    /\ PorInv <=> PorTyped /\ Dated /\ Scanning /\ Mirror /\ Adapter /\ AsBuilt
    /\ PorInv' <=> PorTyped' /\ Dated' /\ Scanning' /\ Mirror' /\ Adapter' /\ AsBuilt'
  BY SMTT(30) DEF PorInv, PorTypeOK, PorTyped, PostRows, LogRows, Passes, Scanning, LogMirrorsChain, Mirror,
         RowsOnChain, RowsUnique, AnnouncedOnChain, PostsOnChain, OnChain, Range, Adapter, AsBuilt

\* The chain only grows, at its end.
Grown == \A i \in DOMAIN chain : i \in DOMAIN chain' /\ chain'[i] = chain[i]

LEMMA ChainSame == ASSUME UNCHANGED chain PROVE Grown /\ (Dated => Dated')
  BY DEF Grown, Dated

LEMMA ChainGrows ==
    ASSUME PorTyped, Dated, NEW d \in Dates, d > Latest, chain' = Append(chain, d)
    PROVE  Grown /\ Dated' /\ chain' \in Seq(Dates) /\ Len(chain') = Len(chain) + 1 /\ OnChain(d)'
  <1>1. chain \in Seq(Dates) /\ d \in Nat /\ Len(chain) \in Nat /\ DOMAIN chain = 1..Len(chain)
    BY PorAssumption DEF PorTyped
  <1>2. chain \in Seq(Nat) /\ \A i \in DOMAIN chain : chain[i] \in Nat
    <2>1. Dates \subseteq Nat
      BY PorAssumption
    <2>2. chain \in Seq(Nat)
      BY <1>1, <2>1, SeqMonotonic
    <2> QED BY <2>2
  <1>3. AllBelow(chain, d)
    <2> SUFFICES ASSUME NEW i \in DOMAIN chain PROVE chain[i] < d
      BY DEF AllBelow
    <2>1. chain # <<>> /\ Latest = chain[Len(chain)] /\ Len(chain) \in DOMAIN chain
      <3>1. Len(chain) >= 1
        BY <1>1
      <3> QED BY <1>1, <3>1 DEF Latest, Last
    <2>2. i = Len(chain) \/ i < Len(chain)
      BY <1>1
    <2>3. chain[i] <= chain[Len(chain)]
      BY <1>2, <2>1, <2>2 DEF Dated, Increasing
    <2> QED BY <1>1, <1>2, <2>1, <2>3
  <1>4. Dated'
    BY <1>1, <1>2, <1>3, AppendKeeps DEF Dated
  <1>5. /\ chain' \in Seq(Dates) /\ Len(chain') = Len(chain) + 1 /\ DOMAIN chain' = 1..Len(chain) + 1
        /\ \A i \in 1..Len(chain) : chain'[i] = chain[i]
        /\ chain'[Len(chain) + 1] = d
    BY <1>1
  <1> QED BY <1>1, <1>4, <1>5 DEF Grown, OnChain

\* What follows the chain follows it when it has grown.
LEMMA StaysOnChain ==
    ASSUME Grown
    PROVE  /\ \A d : OnChain(d) => OnChain(d)'
           /\ UNCHANGED log => (RowsOnChain => RowsOnChain') /\ (RowsUnique => RowsUnique')
           /\ AnnouncedOnChain /\ announced' = announced => AnnouncedOnChain'
  <1>1. \A d : OnChain(d) => OnChain(d)'
    BY DEF Grown, OnChain
  <1>2. UNCHANGED log => (RowsOnChain => RowsOnChain') /\ (RowsUnique => RowsUnique')
    BY DEF Grown, RowsOnChain, RowsUnique
  <1>3. AnnouncedOnChain /\ announced' = announced => AnnouncedOnChain'
    BY <1>1 DEF AnnouncedOnChain
  <1> QED BY <1>1, <1>2, <1>3

\* One row for an attestation that has none, with the index it has on the chain or none.
LEMMA RowAdded ==
    ASSUME PorTyped, RowsOnChain, RowsUnique, UNCHANGED chain,
           NEW i \in DOMAIN chain, NEW n \in {0, i}, CreateAttestation(chain[i], n)
    PROVE  log' \subseteq LogRows /\ RowsOnChain' /\ RowsUnique'
  <1>1. chain[i] \in Dates /\ n \in Nat
    BY DEF PorTyped
  <1>2. CASE chain[i] \in Logged
    <2>1. log' = log
      BY <1>2 DEF CreateAttestation
    <2> QED BY <2>1 DEF PorTyped, RowsOnChain, RowsUnique
  <1>3. CASE chain[i] \notin Logged
    <2> DEFINE row == [date |-> chain[i], idx |-> n]
    <2>1. log' = log \cup {row} /\ row \in LogRows /\ \A r \in log : r.date # chain[i]
      BY <1>1, <1>3 DEF CreateAttestation, LogRows, Logged
    <2>2. row.date = chain[i] /\ row.idx = n
      OBVIOUS
    <2> HIDE DEF row
    <2>3. log' \subseteq LogRows
      BY <2>1 DEF PorTyped
    <2>4. RowsOnChain'
      BY <2>1, <2>2 DEF RowsOnChain
    <2>5. RowsUnique'
      BY <2>1, <2>2 DEF RowsUnique
    <2> QED BY <2>3, <2>4, <2>5
  <1> QED BY <1>2, <1>3

\* A request moves on, to the stage and with the fields it then has.
LEMMA PostMoves ==
    ASSUME PorTyped, NEW p \in Posts, NEW row \in PostRows, post' = [post EXCEPT ![p] = row],
           Grown, PostsOnChain,
           row.stage \in {"mined", "published"} => \A c : c = row.date => OnChain(c)'
    PROVE  post' \in [Posts -> PostRows] /\ PostsOnChain'
  <1> HIDE DEF PostRows
  <1>1. post \in [Posts -> PostRows]
    BY DEF PorTyped
  <1>2. post' \in [Posts -> PostRows] /\ post'[p] = row /\ \A q \in Posts \ {p} : post'[q] = post[q]
    BY <1>1
  <1>3. \A d : OnChain(d) => OnChain(d)'
    BY StaysOnChain
  <1> QED BY <1>2, <1>3 DEF PostsOnChain

\* The stage of a request, and with it perhaps its nonce.
LEMMA PostStage ==
    ASSUME PorTyped, NEW p \in Posts, NEW t \in PostStages, NEW n \in Nat,
           \/ post' = [post EXCEPT ![p].stage = t]
           \/ post' = [post EXCEPT ![p].stage = t, ![p].nonce = n],
           NEW d, d = post[p].date, Grown, PostsOnChain, t \in {"mined", "published"} => OnChain(d)'
    PROVE  post' \in [Posts -> PostRows] /\ PostsOnChain'
  <1>1. post \in [Posts -> PostRows] /\ post[p] \in PostRows
    BY DEF PorTyped
  <1>2. PICK m \in Nat : post' = [post EXCEPT ![p] = [stage |-> t, date |-> post[p].date, nonce |-> m]]
    <2>1. CASE post' = [post EXCEPT ![p].stage = t]
      <3>1. [post[p] EXCEPT !.stage = t] = [stage |-> t, date |-> post[p].date, nonce |-> post[p].nonce]
        BY <1>1 DEF PostRows
      <3>2. post[p].nonce \in Nat
        BY <1>1 DEF PostRows
      <3> QED BY <2>1, <3>1, <3>2
    <2>2. CASE post' = [post EXCEPT ![p].stage = t, ![p].nonce = n]
      <3>1. ASSUME NEW r \in PostRows
            PROVE  [[r EXCEPT !.stage = t] EXCEPT !.nonce = n]
                      = [stage |-> t, date |-> r.date, nonce |-> n]
        <4>1. [r EXCEPT !.stage = t] = [stage |-> t, date |-> r.date, nonce |-> r.nonce]
          BY DEF PostRows
        <4>2. [[stage |-> t, date |-> r.date, nonce |-> r.nonce] EXCEPT !.nonce = n]
                 = [stage |-> t, date |-> r.date, nonce |-> n]
          OBVIOUS
        <4> QED BY <4>1, <4>2
      <3>2. post' = [post EXCEPT ![p] = [[post[p] EXCEPT !.stage = t] EXCEPT !.nonce = n]]
        BY <1>1, <2>2
      <3> QED BY <1>1, <3>1, <3>2
    <2> QED BY <2>1, <2>2
  <1> DEFINE row == [stage |-> t, date |-> post[p].date, nonce |-> m]
  <1>3. row \in PostRows /\ row.stage = t /\ row.date = post[p].date
    BY <1>1 DEF PostRows
  <1> HIDE DEF row
  <1>4. post' = [post EXCEPT ![p] = row]
    BY <1>2 DEF row
  <1>5. row.stage \in {"mined", "published"} => \A c : c = row.date => OnChain(c)'
    BY <1>3
  <1> QED BY <1>3, <1>4, <1>5, PostMoves

LEMMA PassMoves ==
    ASSUME PorTyped, Scanning, Grown, NEW s \in Syncers, NEW pass \in Passes,
           scan' = [scan EXCEPT ![s] = pass], Len(chain') \in Nat, Len(chain) <= Len(chain'),
           pass.count <= Len(chain), pass.stage = "scan" => pass.at \in 1..pass.count
    PROVE  scan' \in [Syncers -> Passes] /\ Scanning'
  <1> HIDE DEF Passes
  <1>1. scan \in [Syncers -> Passes] /\ Len(chain) \in Nat
    BY DEF PorTyped
  <1>2. scan' \in [Syncers -> Passes] /\ scan'[s] = pass /\ \A x \in Syncers \ {s} : scan'[x] = scan[x]
    BY <1>1
  <1>3. \A x \in Syncers : scan[x].count \in Nat /\ pass.count \in Nat
    BY <1>1 DEF Passes
  <1> QED BY <1>1, <1>2, <1>3 DEF Scanning

LEMMA PorInit_Inv == PorInit => PorInv
  <1> SUFFICES ASSUME PorInit PROVE PorTyped /\ Dated /\ Scanning /\ Mirror /\ Adapter /\ AsBuilt
    BY PorParts
  <1>1. chain = <<>> /\ <<>> \in Seq(Dates) /\ <<>> \in Seq(Posts) /\ Len(<<>>) = 0
    BY DEF PorInit
  <1>2. NoPost \in PostRows /\ NoPost.stage = "idle"
    BY DEF NoPost, PostRows, PostStages
  <1>3. Idle \in Passes /\ Idle.stage = "idle" /\ Idle.count = 0
    BY DEF Idle, Passes
  <1>4. PorTyped
    <2> HIDE DEF PostRows, Passes
    <2> QED BY <1>1, <1>2, <1>3 DEF PorInit, PorTyped
  <1>5. Dated /\ Scanning
    BY <1>1, <1>3, EmptyFacts DEF PorInit, Dated, Scanning
  <1>6. Mirror
    BY <1>2 DEF PorInit, Mirror, RowsOnChain, RowsUnique, AnnouncedOnChain, PostsOnChain
  <1>7. Adapter /\ AsBuilt
    BY <1>1, <1>2, <1>3 DEF PorInit, Adapter, AsBuilt
  <1> QED BY <1>4, <1>5, <1>6, <1>7

\* Whatever the adapter, a step keeps what is written down on the chain.
LEMMA PorStep_Mirror ==
    ASSUME PorTyped, Dated, Scanning, Mirror, [PorStep]_<<porVars, faults>>
    PROVE  PorTyped' /\ Dated' /\ Scanning' /\ Mirror'
  <1>1. PorTyped /\ Dated /\ Scanning /\ RowsOnChain /\ RowsUnique /\ AnnouncedOnChain /\ PostsOnChain
    BY DEF Mirror
  <1>2. /\ post \in [Posts -> PostRows] /\ scan \in [Syncers -> Passes]
        /\ chain \in Seq(Dates) /\ Len(chain) \in Nat /\ DOMAIN chain = 1..Len(chain)
    BY <1>1 DEF PorTyped
  <1>3. ASSUME UNCHANGED <<chain, scan>> PROVE Grown /\ Dated' /\ Scanning'
    BY <1>1, <1>3, ChainSame DEF Scanning
  <1>4. ASSUME UNCHANGED post, Grown PROVE PostsOnChain'
    BY <1>1, <1>4, StaysOnChain DEF PostsOnChain
  <1>5. ASSUME NEW p \in Posts, attest(p) PROVE PorTyped' /\ Dated' /\ Scanning' /\ Mirror'
    <2>1. UNCHANGED <<chain, nonce, pool, log, announced, scan>>
      BY <1>5 DEF attest
    <2>2. Grown /\ Dated' /\ Scanning'
      BY <1>3, <2>1
    <2>3. ASSUME Moves(p, "failed") PROVE post' \in [Posts -> PostRows] /\ PostsOnChain'
      <3>1. post' = [post EXCEPT ![p].stage = "failed"]
        BY <2>3 DEF Moves
      <3>2. "failed" \in PostStages /\ "failed" \notin {"mined", "published"} /\ 0 \in Nat
        BY DEF PostStages
      <3> QED BY <1>1, <2>2, <3>1, <3>2, PostStage
    <2>4. ASSUME NEW date \in Dates, Sign(p, date)
          PROVE  post' \in [Posts -> PostRows] /\ PostsOnChain'
      <3> DEFINE row == [stage |-> "signed", date |-> date, nonce |-> nonce]
      <3>1. row \in PostRows /\ row.stage = "signed"
        BY <1>1 DEF PostRows, PostStages, PorTyped
      <3>2. post' = [post EXCEPT ![p] = row]
        BY <2>4 DEF Sign
      <3> HIDE DEF row
      <3> QED BY <1>1, <2>2, <3>1, <3>2, PostMoves
    <2>5. Moves(p, "failed") \/ \E date \in Dates : Sign(p, date)
      BY <1>5 DEF attest
    <2>6. post' \in [Posts -> PostRows] /\ PostsOnChain'
      BY <2>3, <2>4, <2>5
    <2>7. PorTyped'
      BY <1>1, <2>1, <2>6 DEF PorTyped
    <2> QED BY <1>1, <2>1, <2>2, <2>6, <2>7, StaysOnChain DEF Mirror
  <1>6. ASSUME NEW p \in Posts, SendTx(p) PROVE PorTyped' /\ Dated' /\ Scanning' /\ Mirror'
    <2>1. /\ UNCHANGED <<chain, log, announced, scan>>
          /\ \E t \in {"sent", "failed"} : post' = [post EXCEPT ![p].stage = t, ![p].nonce = 0]
          /\ \/ pool' = Append(pool, p) /\ nonce' = nonce + 1
             \/ UNCHANGED <<pool, nonce>>
      BY <1>6 DEF SendTx
    <2>2. Grown /\ Dated' /\ Scanning'
      BY <1>3, <2>1
    <2>3. post' \in [Posts -> PostRows] /\ PostsOnChain'
      <3>1. PICK t \in {"sent", "failed"} : post' = [post EXCEPT ![p].stage = t, ![p].nonce = 0]
        BY <2>1
      <3>2. t \in PostStages /\ 0 \in Nat /\ t \notin {"mined", "published"}
        BY DEF PostStages
      <3> QED BY <1>1, <2>2, <3>1, <3>2, PostStage
    <2>4. pool' \in Seq(Posts) /\ nonce' \in Nat
      <3>1. pool \in Seq(Posts) /\ nonce \in Nat
        BY <1>1 DEF PorTyped
      <3>2. Append(pool, p) \in Seq(Posts) /\ nonce + 1 \in Nat
        BY <3>1
      <3> QED BY <2>1, <3>1, <3>2
    <2>5. PorTyped'
      BY <1>1, <2>1, <2>3, <2>4 DEF PorTyped
    <2> QED BY <1>1, <2>1, <2>2, <2>3, <2>5, StaysOnChain DEF Mirror
  <1>7. CASE Mine
    <2> DEFINE p == Head(pool)
    <2>1. pool \in Seq(Posts) /\ pool # <<>> /\ p \in Posts /\ pool' = Tail(pool) /\ pool' \in Seq(Posts)
      BY <1>1, <1>7 DEF Mine, PorTyped
    <2>2. /\ UNCHANGED <<nonce, log, announced, scan>>
          /\ \/ post[p].date > Latest /\ chain' = Append(chain, post[p].date) /\ (Moves(p, "mined") \/ UNCHANGED post)
             \/ UNCHANGED chain /\ (Moves(p, "reverted") \/ UNCHANGED post)
      BY <1>7 DEF Mine
    <2> HIDE DEF p
    <2>3. Grown /\ Dated' /\ chain' \in Seq(Dates) /\ Len(chain') \in Nat /\ Len(chain) <= Len(chain')
          /\ \/ Moves(p, "reverted") \/ UNCHANGED post
             \/ Moves(p, "mined") /\ \A d : d = post[p].date => OnChain(d)'
      <3>1. CASE UNCHANGED chain /\ (Moves(p, "reverted") \/ UNCHANGED post)
        BY <1>1, <1>2, <3>1, ChainSame
      <3>2. CASE post[p].date > Latest /\ chain' = Append(chain, post[p].date) /\ (Moves(p, "mined") \/ UNCHANGED post)
        <4>1. Latest \in Nat
          <5>1. CASE chain = <<>>
            BY <5>1 DEF Latest
          <5>2. CASE chain # <<>>
            <6>1. Len(chain) \in 1..Len(chain)
              BY <1>2, <5>2
            <6>2. Latest = chain[Len(chain)] /\ chain[Len(chain)] \in Dates
              BY <1>2, <5>2, <6>1 DEF Latest, Last
            <6> QED BY <6>2, PorAssumption
          <5> QED BY <5>1, <5>2
        <4>2. post[p] \in PostRows
          BY <1>2, <2>1
        <4>3. post[p].date \in Dates
          BY <3>2, <4>1, <4>2 DEF PostRows
        <4>4. PICK d \in Dates : d = post[p].date
          BY <4>3
        <4>5. d > Latest /\ chain' = Append(chain, d)
          BY <3>2, <4>4
        <4>6. Grown /\ Dated' /\ chain' \in Seq(Dates) /\ Len(chain') = Len(chain) + 1 /\ OnChain(d)'
          BY <1>1, <4>5, ChainGrows
        <4> QED BY <1>2, <3>2, <4>4, <4>6
      <3> QED BY <2>2, <3>1, <3>2
    <2>4. post' \in [Posts -> PostRows] /\ PostsOnChain'
      <3>1. CASE UNCHANGED post
        BY <1>2, <1>4, <2>3, <3>1
      <3>2. CASE Moves(p, "reverted")
        <4>1. "reverted" \in PostStages /\ "reverted" \notin {"mined", "published"} /\ 0 \in Nat
          BY DEF PostStages
        <4>2. post' = [post EXCEPT ![p].stage = "reverted"]
          BY <3>2 DEF Moves
        <4> QED BY <1>1, <2>1, <2>3, <4>1, <4>2, PostStage
      <3>3. CASE Moves(p, "mined") /\ \A d : d = post[p].date => OnChain(d)'
        <4>1. "mined" \in PostStages /\ 0 \in Nat
          BY DEF PostStages
        <4>2. post' = [post EXCEPT ![p].stage = "mined"]
          BY <3>3 DEF Moves
        <4>3. PICK d : d = post[p].date /\ OnChain(d)'
          BY <3>3
        <4> QED BY <1>1, <2>1, <2>3, <4>1, <4>2, <4>3, PostStage
      <3> QED BY <2>3, <3>1, <3>2, <3>3
    <2>5. Scanning'
      <3>1. \A s \in Syncers : scan[s].count \in Nat
        BY <1>2 DEF Passes
      <3> QED BY <1>1, <1>2, <2>2, <2>3, <3>1 DEF Scanning
    <2>6. PorTyped'
      BY <1>1, <2>1, <2>2, <2>3, <2>4 DEF PorTyped
    <2> QED BY <1>1, <2>2, <2>3, <2>4, <2>5, <2>6, StaysOnChain DEF Mirror
  <1>8. ASSUME NEW p \in Posts, recordReceipt(p) PROVE PorTyped' /\ Dated' /\ Scanning' /\ Mirror'
    <2>1. /\ post[p].stage = "mined" /\ post' = [post EXCEPT ![p].stage = "published"]
          /\ CreateAttestation(post[p].date, 0) \/ log' = log
          /\ announced' = announced \cup {post[p].date} \/ announced' = announced
          /\ UNCHANGED <<chain, nonce, pool, scan>>
      BY <1>8 DEF recordReceipt, Recorded, Moves
    <2>2. PICK i \in DOMAIN chain : chain[i] = post[p].date
      BY <1>1, <2>1 DEF PostsOnChain, OnChain
    <2>3. Grown /\ Dated' /\ Scanning'
      BY <1>3, <2>1
    <2>4. log' \subseteq LogRows /\ RowsOnChain' /\ RowsUnique'
      <3>1. CASE CreateAttestation(chain[i], 0)
        BY <1>1, <2>1, <3>1, RowAdded
      <3>2. CASE log' = log
        BY <1>1, <2>3, <3>2, StaysOnChain DEF PorTyped
      <3> QED BY <2>1, <2>2, <3>1, <3>2
    <2>5. announced' \subseteq Dates /\ AnnouncedOnChain'
      <3>1. chain[i] \in Dates
        BY <1>2
      <3>2. announced' \subseteq announced \cup {chain[i]}
        BY <2>1, <2>2
      <3>3. \A d \in announced' : OnChain(d)
        BY <1>1, <3>2 DEF AnnouncedOnChain, OnChain
      <3>4. \A d \in announced' : OnChain(d)'
        BY <2>3, <3>3, StaysOnChain
      <3> QED BY <1>1, <3>1, <3>2, <3>4 DEF AnnouncedOnChain, PorTyped
    <2>6. post' \in [Posts -> PostRows] /\ PostsOnChain'
      <3>1. "published" \in PostStages /\ 0 \in Nat
        BY DEF PostStages
      <3>2. PICK d : d = post[p].date /\ OnChain(d)'
        BY <2>1, <2>2 DEF OnChain
      <3> QED BY <1>1, <2>1, <2>3, <3>1, <3>2, PostStage
    <2>7. PorTyped'
      BY <1>1, <2>1, <2>4, <2>5, <2>6 DEF PorTyped
    <2> QED BY <2>3, <2>4, <2>5, <2>6, <2>7 DEF Mirror
  <1>9. ASSUME NEW p \in Posts, ReceiptLost(p) PROVE PorTyped' /\ Dated' /\ Scanning' /\ Mirror'
    <2>1. /\ post' = [post EXCEPT ![p].stage = "failed"]
          /\ UNCHANGED <<chain, nonce, pool, log, announced, scan>>
      BY <1>9 DEF ReceiptLost, Moves
    <2>2. Grown /\ Dated' /\ Scanning'
      BY <1>3, <2>1
    <2>3. "failed" \in PostStages /\ "failed" \notin {"mined", "published"} /\ 0 \in Nat
      BY DEF PostStages
    <2>4. post' \in [Posts -> PostRows] /\ PostsOnChain'
      BY <1>1, <2>1, <2>2, <2>3, PostStage
    <2>5. PorTyped'
      BY <1>1, <2>1, <2>4 DEF PorTyped
    <2> QED BY <1>1, <2>1, <2>2, <2>4, <2>5, StaysOnChain DEF Mirror
  <1>10. ASSUME NEW s \in Syncers, NEW pass \in Passes, scan' = [scan EXCEPT ![s] = pass],
                pass.count <= Len(chain), pass.stage = "scan" => pass.at \in 1..pass.count,
                UNCHANGED <<chain, nonce, pool, post, log, announced>>
         PROVE  PorTyped' /\ Dated' /\ Scanning' /\ Mirror'
    <2>1. Grown /\ Dated' /\ Len(chain') = Len(chain)
      BY <1>1, <1>10, ChainSame
    <2>2. scan' \in [Syncers -> Passes] /\ Scanning'
      <3>1. Len(chain') \in Nat /\ Len(chain) <= Len(chain')
        BY <1>2, <2>1
      <3> QED BY <1>1, <1>10, <2>1, <3>1, PassMoves
    <2>3. PorTyped'
      BY <1>1, <1>10, <2>2 DEF PorTyped
    <2> QED BY <1>1, <1>4, <1>10, <2>1, <2>2, <2>3, StaysOnChain DEF Mirror
  <1>11. CASE Schedule
    <2> DEFINE pass == [scan["schedule"] EXCEPT !.stage = "asleep"]
    <2>1. scan' = [scan EXCEPT !["schedule"] = pass] /\ "schedule" \in Syncers
          /\ UNCHANGED <<chain, nonce, pool, post, log, announced>>
      BY <1>11 DEF Schedule, Syncers
    <2>2. pass \in Passes /\ pass.stage = "asleep" /\ pass.count = scan["schedule"].count
      BY <1>2, <2>1 DEF Passes
    <2>3. pass.count <= Len(chain)
      BY <1>1, <2>1, <2>2 DEF Scanning
    <2> HIDE DEF pass
    <2> QED BY <1>10, <2>1, <2>2, <2>3
  <1>12. ASSUME NEW s \in Syncers, runChainSync(s) PROVE PorTyped' /\ Dated' /\ Scanning' /\ Mirror'
    <2> DEFINE first == [stage |-> "scan", at |-> 1, count |-> Len(chain)]
    <2>1. UNCHANGED <<chain, nonce, pool, post, log, announced>>
      BY <1>12 DEF runChainSync
    <2>2. \/ scan' = [scan EXCEPT ![s] = Idle]
          \/ Len(chain) # 0 /\ scan' = [scan EXCEPT ![s] = first]
      BY <1>12 DEF runChainSync, AttestationCount, OracleAnswer
    <2>3. Idle \in Passes /\ Idle.count <= Len(chain) /\ Idle.stage # "scan"
      BY <1>2 DEF Idle, Passes
    <2>4. Len(chain) # 0 => first \in Passes /\ first.count <= Len(chain) /\ first.at \in 1..first.count
      BY <1>2 DEF Passes
    <2> HIDE DEF first
    <2>5. CASE scan' = [scan EXCEPT ![s] = Idle]
      BY <1>10, <2>1, <2>3, <2>5
    <2>6. CASE Len(chain) # 0 /\ scan' = [scan EXCEPT ![s] = first]
      BY <1>10, <2>1, <2>4, <2>6
    <2> QED BY <2>2, <2>5, <2>6
  <1>13. ASSUME NEW s \in Syncers, syncOnce(s) PROVE PorTyped' /\ Dated' /\ Scanning' /\ Mirror'
    <2> DEFINE i == scan[s].at
               pass == IF i = scan[s].count THEN Idle ELSE [scan[s] EXCEPT !.at = i + 1]
    <2>1. /\ scan[s].stage = "scan" /\ scan' = [scan EXCEPT ![s] = pass]
          /\ CreateAttestation(chain[i], i) \/ log' = log
          /\ announced' = announced \cup {chain[i]} \/ announced' = announced
          /\ UNCHANGED <<chain, nonce, pool, post>>
      <3>1. scan' = [scan EXCEPT ![s] = pass]
        <4>1. Advance(s)
          BY <1>13 DEF syncOnce
        <4>2. CASE i = scan[s].count
          BY <1>2, <4>1, <4>2 DEF Advance
        <4>3. CASE i # scan[s].count
          BY <1>2, <4>1, <4>3 DEF Advance
        <4> QED BY <4>2, <4>3
      <3> QED BY <1>13, <3>1 DEF syncOnce, AttestationAt, OracleAnswer
    <2>2. i \in Nat /\ i \in 1..scan[s].count /\ scan[s].count \in Nat /\ scan[s].count <= Len(chain)
      <3>1. scan[s] \in Passes
        BY <1>2
      <3> QED BY <1>1, <2>1, <3>1 DEF Passes, Scanning
    <2>3. i \in DOMAIN chain
      BY <1>2, <2>2
    <2>4. pass \in Passes /\ pass.count <= Len(chain) /\ (pass.stage = "scan" => pass.at \in 1..pass.count)
      <3>1. scan[s] \in Passes
        BY <1>2
      <3>2. CASE i = scan[s].count
        BY <1>2, <3>2 DEF Idle, Passes
      <3>3. CASE i # scan[s].count
        <4>1. pass = [scan[s] EXCEPT !.at = i + 1]
          BY <3>3
        <4>2. pass \in Passes /\ pass.count = scan[s].count /\ pass.at = i + 1
          BY <2>2, <3>1, <4>1 DEF Passes
        <4> QED BY <2>2, <3>3, <4>2
      <3> QED BY <3>2, <3>3
    <2> HIDE DEF pass
    <2>5. Grown /\ Dated' /\ scan' \in [Syncers -> Passes] /\ Scanning'
      <3>1. Grown /\ Dated' /\ Len(chain') = Len(chain)
        BY <1>1, <2>1, ChainSame
      <3>2. Len(chain') \in Nat /\ Len(chain) <= Len(chain')
        BY <1>2, <3>1
      <3> QED BY <1>1, <2>1, <2>4, <3>1, <3>2, PassMoves
    <2>6. PICK n \in DOMAIN chain : n = i
      BY <2>3
    <2>7. log' \subseteq LogRows /\ RowsOnChain' /\ RowsUnique'
      <3>1. CASE CreateAttestation(chain[n], n)
        BY <1>1, <2>1, <3>1, RowAdded
      <3>2. CASE log' = log
        BY <1>1, <2>5, <3>2, StaysOnChain DEF PorTyped
      <3> QED BY <2>1, <2>6, <3>1, <3>2
    <2>8. announced' \subseteq Dates /\ AnnouncedOnChain'
      <3>1. chain[n] \in Dates
        BY <1>2
      <3>2. announced' \subseteq announced \cup {chain[n]}
        BY <2>1, <2>6
      <3>3. \A d \in announced' : OnChain(d)
        BY <1>1, <3>2 DEF AnnouncedOnChain, OnChain
      <3>4. \A d \in announced' : OnChain(d)'
        BY <2>5, <3>3, StaysOnChain
      <3> QED BY <1>1, <3>1, <3>2, <3>4 DEF AnnouncedOnChain, PorTyped
    <2>9. PostsOnChain' /\ PorTyped'
      BY <1>1, <1>4, <2>1, <2>5, <2>7, <2>8 DEF PorTyped
    <2> QED BY <2>5, <2>7, <2>8, <2>9 DEF Mirror
  <1>14. CASE OthersPublish
    <2>1. PICK d \in Dates : d > Latest /\ chain' = Append(chain, d)
      BY <1>14 DEF OthersPublish
    <2>2. UNCHANGED <<nonce, pool, post, log, announced, scan>>
      BY <1>14 DEF OthersPublish
    <2>3. Grown /\ Dated' /\ chain' \in Seq(Dates) /\ Len(chain') = Len(chain) + 1
      BY <1>1, <2>1, ChainGrows
    <2>4. Scanning'
      <3>1. \A s \in Syncers : scan[s].count \in Nat
        BY <1>2 DEF Passes
      <3> QED BY <1>1, <1>2, <2>2, <2>3, <3>1 DEF Scanning
    <2>5. PorTyped'
      BY <1>1, <2>2, <2>3 DEF PorTyped
    <2> QED BY <1>1, <1>4, <2>2, <2>3, <2>4, <2>5, StaysOnChain DEF Mirror
  <1>15. CASE PordDies
    <2>1. /\ scan' = [s \in Syncers |-> Idle] /\ UNCHANGED <<chain, nonce, pool, log, announced>>
          /\ post' = [p \in Posts |->
                        IF post[p].stage \in {"idle", "published", "reverted", "failed"} THEN post[p]
                        ELSE [post[p] EXCEPT !.stage = "failed", !.nonce = 0]]
      BY <1>15 DEF PordDies
    <2>2. Grown /\ Dated'
      BY <1>1, <2>1, ChainSame
    <2>3. ASSUME NEW p \in Posts
          PROVE  post'[p] \in PostRows /\ (post'[p] = post[p] \/ post'[p].stage = "failed")
      <3>1. post[p] \in PostRows
        BY <1>2
      <3>2. CASE post[p].stage \in {"idle", "published", "reverted", "failed"}
        BY <2>1, <3>1, <3>2
      <3>3. CASE post[p].stage \notin {"idle", "published", "reverted", "failed"}
        <4>1. post'[p] = [[post[p] EXCEPT !.stage = "failed"] EXCEPT !.nonce = 0]
          BY <2>1, <3>3
        <4>2. [post[p] EXCEPT !.stage = "failed"] = [stage |-> "failed", date |-> post[p].date, nonce |-> post[p].nonce]
          BY <3>1 DEF PostRows
        <4>3. post'[p] = [stage |-> "failed", date |-> post[p].date, nonce |-> 0]
          BY <4>1, <4>2
        <4> QED BY <3>1, <4>3 DEF PostRows, PostStages
      <3> QED BY <3>2, <3>3
    <2>4. post' \in [Posts -> PostRows]
      <3> HIDE DEF PostRows
      <3>1. DOMAIN post' = Posts
        BY <2>1
      <3> QED BY <2>1, <2>3, <3>1
    <2>5. PostsOnChain'
      BY <1>1, <2>2, <2>3, StaysOnChain DEF PostsOnChain
    <2>6. Idle \in Passes /\ Idle.stage = "idle" /\ Idle.count = 0
      BY DEF Idle, Passes
    <2>7. scan' \in [Syncers -> Passes] /\ Scanning'
      <3> HIDE DEF Passes
      <3>1. scan' \in [Syncers -> Passes] /\ \A s \in Syncers : scan'[s] = Idle
        BY <2>1, <2>6
      <3>2. Len(chain') \in Nat
        BY <1>2, <2>1
      <3> QED BY <2>6, <3>1, <3>2 DEF Scanning
    <2>8. PorTyped'
      BY <1>1, <2>1, <2>4, <2>7 DEF PorTyped
    <2> QED BY <1>1, <2>1, <2>2, <2>5, <2>7, <2>8, StaysOnChain DEF Mirror
  <1>16. CASE UNCHANGED <<porVars, faults>>
    <2>1. UNCHANGED <<chain, nonce, pool, post, log, announced, scan>>
      BY <1>16 DEF porVars
    <2>2. Grown /\ Dated' /\ Scanning' /\ PorTyped'
      BY <1>1, <1>3, <2>1 DEF PorTyped
    <2> QED BY <1>1, <1>4, <2>1, <2>2, StaysOnChain DEF Mirror
  <1> QED BY <1>5, <1>6, <1>7, <1>8, <1>9, <1>11, <1>12, <1>13, <1>14, <1>15, <1>16 DEF PorStep, Syncing

\* The adapter that is built fails what a request or a pass begins with, and nothing
\* else begins one.
LEMMA PorStep_AsBuilt ==
    ASSUME PorTyped, AsBuilt, [PorStep]_<<porVars, faults>>, adapter = "asBuilt", adapter' = adapter
    PROVE  AsBuilt'
  <1>1. /\ log = {} /\ announced = {} /\ pool = <<>>
        /\ \A p \in Posts : post[p].stage \in {"idle", "failed"}
        /\ \A s \in Syncers : scan[s].stage # "scan"
    BY DEF AsBuilt
  <1>2. post \in [Posts -> PostRows] /\ scan \in [Syncers -> Passes]
    BY DEF PorTyped
  <1> SUFFICES /\ UNCHANGED <<log, announced, pool>>
               /\ \A p \in Posts : post'[p].stage \in {"idle", "failed"}
               /\ \A s \in Syncers : scan'[s].stage # "scan"
    BY <1>1 DEF AsBuilt
  <1>3. ASSUME NEW p \in Posts, attest(p)
        PROVE  /\ UNCHANGED <<log, announced, pool, scan>>
               /\ \A q \in Posts : post'[q].stage \in {"idle", "failed"}
    <2>1. UNCHANGED <<log, announced, pool, scan>> /\ post' = [post EXCEPT ![p].stage = "failed"]
      BY <1>3 DEF attest, Moves
    <2>2. post'[p] = [post[p] EXCEPT !.stage = "failed"] /\ \A q \in Posts \ {p} : post'[q] = post[q]
      BY <1>2, <2>1
    <2>3. post[p] \in PostRows
      BY <1>2
    <2>4. post'[p].stage = "failed"
      BY <2>2, <2>3 DEF PostRows
    <2> QED BY <1>1, <2>1, <2>2, <2>4
  <1>4. ASSUME NEW p \in Posts, SendTx(p) \/ recordReceipt(p) \/ ReceiptLost(p) PROVE FALSE
    BY <1>1, <1>4 DEF SendTx, recordReceipt, ReceiptLost
  <1>5. ASSUME NEW s \in Syncers, runChainSync(s)
        PROVE  /\ UNCHANGED <<log, announced, pool, post>>
               /\ \A x \in Syncers : scan'[x].stage # "scan"
    <2>1. UNCHANGED <<log, announced, pool, post>> /\ scan' = [scan EXCEPT ![s] = Idle]
      BY <1>5 DEF runChainSync, AttestationCount, OracleAnswer
    <2>2. scan'[s] = Idle /\ \A x \in Syncers \ {s} : scan'[x] = scan[x]
      BY <1>2, <2>1
    <2>3. Idle.stage = "idle"
      BY DEF Idle
    <2> QED BY <1>1, <2>1, <2>2, <2>3
  <1>6. ASSUME NEW s \in Syncers, syncOnce(s) PROVE FALSE
    BY <1>1, <1>6 DEF syncOnce
  <1>7. CASE Schedule
    <2>1. /\ UNCHANGED <<log, announced, pool, post>> /\ "schedule" \in Syncers
          /\ scan' = [scan EXCEPT !["schedule"].stage = "asleep"]
      BY <1>7 DEF Schedule, Syncers
    <2>2. /\ scan'["schedule"] = [scan["schedule"] EXCEPT !.stage = "asleep"]
          /\ \A x \in Syncers \ {"schedule"} : scan'[x] = scan[x]
      BY <1>2, <2>1
    <2>3. scan["schedule"] \in Passes
      BY <1>2, <2>1
    <2>4. scan'["schedule"].stage = "asleep"
      BY <2>2, <2>3 DEF Passes
    <2> QED BY <1>1, <2>1, <2>2, <2>4
  <1>8. CASE Mine
    BY <1>1, <1>8 DEF Mine
  <1>9. CASE OthersPublish
    BY <1>1, <1>9 DEF OthersPublish
  <1>10. CASE PordDies
    <2>1. /\ scan' = [s \in Syncers |-> Idle] /\ UNCHANGED <<pool, log, announced>>
          /\ post' = [p \in Posts |-> IF post[p].stage \in {"idle", "published", "reverted", "failed"} THEN post[p]
                                       ELSE [post[p] EXCEPT !.stage = "failed", !.nonce = 0]]
      BY <1>10 DEF PordDies
    <2>2. \A p \in Posts : post'[p] = post[p]
      BY <1>1, <2>1
    <2>3. Idle.stage = "idle"
      BY DEF Idle
    <2> QED BY <1>1, <2>1, <2>2, <2>3
  <1>11. CASE UNCHANGED <<porVars, faults>>
    BY <1>1, <1>11 DEF porVars
  <1> QED BY <1>1, <1>3, <1>4, <1>5, <1>6, <1>7, <1>8, <1>9, <1>10, <1>11 DEF PorStep, Syncing

LEMMA PorNext_Inv ==
    ASSUME PorInv, [PorNext]_<<porVars, faults>>
    PROVE  PorInv'
  <1>1. PorTyped /\ Dated /\ Scanning /\ Mirror /\ Adapter /\ AsBuilt
    BY PorParts
  <1>2. [PorStep]_<<porVars, faults>> /\ adapter' = adapter
    BY DEF PorNext, porVars
  <1>3. PorTyped' /\ Dated' /\ Scanning' /\ Mirror'
    BY <1>1, <1>2, PorStep_Mirror
  <1>4. Adapter' /\ AsBuilt'
    <2>1. CASE adapter = "asBuilt"
      BY <1>1, <1>2, <2>1, PorStep_AsBuilt DEF Adapter
    <2>2. CASE adapter # "asBuilt"
      BY <1>1, <1>2, <2>2 DEF Adapter, AsBuilt
    <2> QED BY <2>1, <2>2
  <1> QED BY <1>3, <1>4, PorParts

\* The invariant of the proof of reserve, types included, in every reachable state.
THEOREM PorInvariant == PorSpec => []PorInv
  <1>1. PorInv /\ [PorNext]_<<porVars, faults>> => PorInv'
    BY PorNext_Inv
  <1> QED BY <1>1, PorInit_Inv, PTL DEF PorSpec

\* However many requests, passes and other publishers race and fail, the log of the
\* attestations is a faithful part of the chain, and empty with the adapter that is built.
THEOREM LogMirrors == PorSpec => []LogMirrorsChain
  <1>1. PorInv => LogMirrorsChain
    BY DEF PorInv
  <1> QED BY <1>1, PorInvariant, PTL

-----------------------------------------------------------------------------
(* The rate limiter *)

Known == visitor # NoVisitor

\* The first request of the window the client is in, or the next one if it is in none.
First == IF Known THEN Len(admitted) + 1 - (Rate - visitor.tokens) ELSE Len(admitted) + 1

Since == IF Known THEN visitor.lastReset ELSE now

\* Requests that are Rate before the first of a window came a window before it: a full
\* window lay between, however the cleanup forgets the client.
Spaced ==
    /\ \A i, j \in DOMAIN admitted : i <= j => admitted[i] <= admitted[j]
    /\ \A i \in DOMAIN admitted : admitted[i] <= now
    /\ First >= 1
    /\ Known => First \in DOMAIN admitted /\ admitted[First] = visitor.lastReset /\ visitor.lastReset <= now
    /\ \A i \in DOMAIN admitted : i <= First - Rate => admitted[i] + Window <= Since

\* The inductive invariant of the limiter.
LimiterInv == LimiterTypeOK /\ Spaced /\ AtMostTwiceTheRate

LEMMA LimiterFacts ==
    ASSUME LimiterInv
    PROVE  /\ admitted \in Seq(Nat) /\ Len(admitted) \in Nat /\ DOMAIN admitted = 1..Len(admitted)
           /\ \A i \in DOMAIN admitted : i \in Nat /\ admitted[i] \in Nat
           /\ now \in Nat /\ Rate \in Nat \ {0} /\ Window \in Nat \ {0} /\ MaxTime \in Nat
           /\ Known => visitor.tokens \in 0..Rate - 1 /\ visitor.lastReset \in Nat
  <1>1. admitted \in Seq(0..MaxTime) /\ MaxTime \in Nat /\ (0..MaxTime) \subseteq Nat
    BY LimiterAssumption DEF LimiterInv, LimiterTypeOK
  <1>2. admitted \in Seq(Nat)
    BY <1>1, SeqMonotonic
  <1>3. Known => visitor.tokens \in 0..Rate - 1 /\ visitor.lastReset \in Nat
    BY <1>1, LimiterAssumption DEF LimiterInv, LimiterTypeOK, Known
  <1> QED BY <1>2, <1>3, LimiterAssumption DEF LimiterInv, LimiterTypeOK

LEMMA LimiterInit_Inv == LimiterInit => LimiterInv
  <1> SUFFICES ASSUME LimiterInit PROVE LimiterInv
    OBVIOUS
  <1>1. admitted = <<>> /\ Len(admitted) = 0 /\ DOMAIN admitted = {} /\ ~Known /\ now = 0
    BY DEF LimiterInit, Known
  <1>2. LimiterTypeOK
    BY <1>1, LimiterAssumption DEF LimiterInit, LimiterTypeOK
  <1>3. Spaced /\ AtMostTwiceTheRate
    BY <1>1 DEF Spaced, AtMostTwiceTheRate, First
  <1> QED BY <1>2, <1>3 DEF LimiterInv

\* A request is admitted: whether it opens a window or not, what is twice the rate
\* before it lies a window back.
LEMMA Admit_Inv ==
    ASSUME LimiterInv, allow PROVE LimiterInv'
  <1> DEFINE n == Len(admitted)
  <1>1. /\ admitted \in Seq(Nat) /\ n \in Nat /\ DOMAIN admitted = 1..n
        /\ \A i \in 1..n : admitted[i] \in Nat
        /\ now \in 0..MaxTime /\ now \in Nat /\ Rate \in Nat \ {0} /\ Window \in Nat \ {0} /\ MaxTime \in Nat
        /\ Known => visitor.tokens \in 0..Rate - 1 /\ visitor.lastReset \in Nat
    BY LimiterFacts DEF LimiterInv, LimiterTypeOK
  <1>2. /\ admitted' = Append(admitted, now) /\ now' = now /\ ticked' = ticked
        /\ \/ /\ ~Known \/ now - visitor.lastReset >= Window
              /\ visitor' = [tokens |-> Rate - 1, lastReset |-> now]
           \/ /\ Known /\ now - visitor.lastReset < Window /\ visitor.tokens > 0
              /\ visitor' = [visitor EXCEPT !.tokens = @ - 1]
    BY DEF allow, Admit, Known
  <1>3. /\ DOMAIN admitted' = 1..n + 1 /\ Len(admitted') = n + 1 /\ admitted'[n + 1] = now
        /\ \A i \in 1..n : admitted'[i] = admitted[i]
    BY <1>1, <1>2
  <1>4. /\ \A i, j \in 1..n : i <= j => admitted[i] <= admitted[j]
        /\ \A i \in 1..n : admitted[i] <= now
        /\ First >= 1
        /\ Known => First \in 1..n /\ admitted[First] = visitor.lastReset /\ visitor.lastReset <= now
        /\ \A i \in 1..n : i <= First - Rate => admitted[i] + Window <= Since
    BY <1>1 DEF LimiterInv, Spaced
  \* The window the request is in: its first request, and what lies Rate before that.
  <1>5. /\ Known' /\ visitor' \in [tokens : 0..Rate - 1, lastReset : 0..MaxTime]
        /\ First' \in 1..n + 1 /\ First' >= n + 2 - Rate
        /\ admitted'[First'] = visitor'.lastReset /\ visitor'.lastReset <= now
        /\ \A i \in 1..n : i <= First' - Rate => admitted[i] + Window <= visitor'.lastReset
    <2>1. CASE /\ ~Known \/ now - visitor.lastReset >= Window
               /\ visitor' = [tokens |-> Rate - 1, lastReset |-> now]
      <3>1. visitor'.tokens = Rate - 1 /\ visitor'.lastReset = now /\ visitor' \in [tokens : 0..Rate - 1, lastReset : 0..MaxTime]
        BY <1>1, <2>1
      <3>2. Known'
        <4>1. NoVisitor.lastReset = MaxTime + 1 /\ NoVisitor' = NoVisitor
          BY DEF NoVisitor
        <4> QED BY <1>1, <3>1, <4>1 DEF Known
      <3>3. First' = n + 1
        BY <1>1, <1>3, <3>1, <3>2 DEF First
      <3>4. ASSUME NEW i \in 1..n, i <= n + 1 - Rate PROVE admitted[i] + Window <= now
        <4>1. CASE ~Known
          BY <1>1, <1>4, <3>4, <4>1 DEF First, Since
        <4>2. CASE Known /\ now - visitor.lastReset >= Window
          <5>1. First = n + 1 - (Rate - visitor.tokens) /\ First \in 1..n
            BY <1>4, <4>2 DEF First
          <5>2. i <= First
            BY <1>1, <3>4, <4>2, <5>1, SMTT(30)
          <5>3. admitted[i] <= visitor.lastReset
            BY <1>4, <4>2, <5>1, <5>2
          <5> QED BY <1>1, <4>2, <5>3
        <4> QED BY <2>1, <4>1, <4>2
      <3> QED BY <1>1, <1>3, <3>1, <3>2, <3>3, <3>4
    <2>2. CASE /\ Known /\ now - visitor.lastReset < Window /\ visitor.tokens > 0
               /\ visitor' = [visitor EXCEPT !.tokens = @ - 1]
      <3>1. visitor \in [tokens : 0..Rate - 1, lastReset : 0..MaxTime]
        BY <2>2 DEF LimiterInv, LimiterTypeOK, Known
      <3>2. /\ visitor' \in [tokens : 0..Rate - 1, lastReset : 0..MaxTime]
            /\ visitor'.tokens = visitor.tokens - 1 /\ visitor'.lastReset = visitor.lastReset
        <4>1. visitor' = [tokens |-> visitor.tokens - 1, lastReset |-> visitor.lastReset]
          BY <2>2, <3>1
        <4>2. visitor.tokens - 1 \in 0..Rate - 1 /\ visitor.lastReset \in 0..MaxTime
          BY <1>1, <2>2, <3>1
        <4> QED BY <4>1, <4>2
      <3>3. Known'
        <4>1. NoVisitor.lastReset = MaxTime + 1 /\ NoVisitor' = NoVisitor
          BY DEF NoVisitor
        <4> QED BY <1>1, <3>1, <3>2, <4>1 DEF Known
      <3>4. First' = First /\ First = n + 1 - (Rate - visitor.tokens)
        <4>1. First = n + 1 - (Rate - visitor.tokens)
          BY <2>2 DEF First
        <4>2. First' = n + 2 - (Rate - (visitor.tokens - 1))
          <5>1. Len(admitted') = n + 1 /\ visitor'.tokens = visitor.tokens - 1 /\ Rate' = Rate
            BY <1>3, <3>2
          <5>2. First' = Len(admitted') + 1 - (Rate - visitor'.tokens)
            BY <3>3 DEF First
          <5>3. First' = (n + 1) + 1 - (Rate - (visitor.tokens - 1))
            BY <5>1, <5>2
          <5>4. visitor.tokens \in Int /\ Rate \in Int /\ n \in Int
            BY <1>1, <2>2
          <5> QED BY <5>3, <5>4, SMTT(30)
        <4> QED BY <1>1, <2>2, <4>1, <4>2
      <3>5. First \in 1..n /\ admitted[First] = visitor.lastReset /\ Since = visitor.lastReset
        BY <1>4, <2>2 DEF Since
      <3>6. First \in 1..n + 1 /\ First >= n + 2 - Rate
        <4>1. visitor.tokens \in Int /\ visitor.tokens > 0 /\ Rate \in Int /\ n \in Int
          BY <1>1, <2>2
        <4> QED BY <3>4, <3>5, <4>1
      <3>7. admitted'[First] = visitor.lastReset /\ visitor.lastReset <= now
        BY <1>3, <1>4, <2>2, <3>5
      <3> QED BY <1>4, <3>2, <3>3, <3>4, <3>5, <3>6, <3>7
    <2> QED BY <1>2, <2>1, <2>2
  <1>6. PICK f \in 1..n + 1, r \in Nat : f = First' /\ r = visitor'.lastReset
    BY <1>1, <1>5
  <1>7. /\ f >= n + 2 - Rate /\ admitted'[f] = r /\ r <= now
         /\ \A i \in 1..n : i <= f - Rate => admitted[i] + Window <= r
    BY <1>5, <1>6
  <1>8. LimiterTypeOK'
    <2>1. admitted' \in Seq(0..MaxTime)
      BY <1>1, <1>2 DEF LimiterInv, LimiterTypeOK
    <2> QED BY <1>1, <1>2, <1>5, <2>1 DEF LimiterInv, LimiterTypeOK
  <1>9. Spaced'
    <2>1. \A i, j \in 1..n + 1 : i <= j => admitted'[i] <= admitted'[j]
      BY <1>1, <1>3, <1>4
    <2>2. \A i \in 1..n + 1 : admitted'[i] <= now
      BY <1>1, <1>3, <1>4
    <2>3. Since' = visitor'.lastReset
      BY <1>5 DEF Since
    <2>4. \A i \in 1..n + 1 : i <= f - Rate => admitted'[i] + Window <= r
      <3>1. \A i \in 1..n + 1 : i <= f - Rate => i \in 1..n
        BY <1>1
      <3> QED BY <1>3, <1>7, <3>1
    <2>5. f >= 1 /\ f \in DOMAIN admitted'
      BY <1>1, <1>3
    <2> QED BY <1>2, <1>3, <1>5, <1>6, <1>7, <2>1, <2>2, <2>3, <2>4, <2>5 DEF Spaced
  <1>10. AtMostTwiceTheRate'
    <2>1. ASSUME NEW i \in 1..n + 1, NEW j \in 1..n + 1, j - i >= 2 * Rate - 1
          PROVE  admitted'[i] + Window <= admitted'[j]
      <3>1. i \in 1..n /\ i < j
        BY <1>1, <2>1
      <3>2. CASE j \in 1..n
        BY <1>1, <1>3, <2>1, <3>1, <3>2 DEF LimiterInv, AtMostTwiceTheRate
      <3>3. CASE j = n + 1
        <4>1. i <= f - Rate
          BY <1>1, <1>7, <2>1, <3>3
        <4>2. admitted[i] + Window <= r /\ admitted[i] \in Nat
          BY <1>1, <1>7, <3>1, <4>1
        <4> QED BY <1>1, <1>3, <1>7, <3>1, <3>3, <4>2
      <3> QED BY <3>2, <3>3, <1>1
    <2> QED BY <1>3, <2>1 DEF AtMostTwiceTheRate
  <1> QED BY <1>8, <1>9, <1>10 DEF LimiterInv

LEMMA LimiterNext_Inv ==
    ASSUME LimiterInv, [LimiterNext]_limiterVars
    PROVE  LimiterInv'
  <1>1. /\ Len(admitted) \in Nat /\ DOMAIN admitted = 1..Len(admitted)
        /\ \A i \in DOMAIN admitted : i \in Nat /\ admitted[i] \in Nat
        /\ now \in Nat /\ Rate \in Nat \ {0} /\ Window \in Nat \ {0} /\ MaxTime \in Nat
        /\ Known => visitor.tokens \in 0..Rate - 1 /\ visitor.lastReset \in Nat
    BY LimiterFacts
  <1>2. /\ \A i, j \in DOMAIN admitted : i <= j => admitted[i] <= admitted[j]
        /\ \A i \in DOMAIN admitted : admitted[i] <= now
        /\ First >= 1
        /\ Known => First \in DOMAIN admitted /\ admitted[First] = visitor.lastReset /\ visitor.lastReset <= now
        /\ \A i \in DOMAIN admitted : i <= First - Rate => admitted[i] + Window <= Since
    BY DEF LimiterInv, Spaced
  <1>3. CASE allow
    BY <1>3, Admit_Inv
  <1>4. CASE cleanup
    <2>1. /\ now' = now /\ admitted' = admitted /\ ticked' = now
          /\ \/ Known /\ now - visitor.lastReset > 2 * Window /\ visitor' = NoVisitor
             \/ visitor' = visitor
      BY <1>4 DEF cleanup, Known
    <2>2. LimiterTypeOK' /\ AtMostTwiceTheRate'
      BY <1>1, <2>1 DEF LimiterInv, LimiterTypeOK, AtMostTwiceTheRate, NoVisitor
    <2>3. Spaced'
      <3>1. CASE visitor' = visitor
        BY <2>1, <3>1 DEF LimiterInv, Spaced, First, Since, Known, NoVisitor
      <3>2. CASE Known /\ now - visitor.lastReset > 2 * Window /\ visitor' = NoVisitor
        <4>1. ~Known' /\ First' = Len(admitted) + 1 /\ Since' = now
          BY <2>1, <3>2 DEF Known, First, Since, NoVisitor
        <4>2. ASSUME NEW i \in DOMAIN admitted, i <= Len(admitted) + 1 - Rate
              PROVE  admitted[i] + Window <= now
          <5>1. First = Len(admitted) + 1 - (Rate - visitor.tokens) /\ First \in DOMAIN admitted
            BY <1>2, <3>2 DEF First
          <5>2. i <= First
            BY <1>1, <3>2, <4>2, <5>1
          <5>3. admitted[i] <= visitor.lastReset
            BY <1>2, <3>2, <5>1, <5>2
          <5> QED BY <1>1, <3>2, <5>3
        <4> QED BY <1>1, <1>2, <2>1, <4>1, <4>2 DEF Spaced
      <3> QED BY <2>1, <3>1, <3>2
    <2> QED BY <2>2, <2>3 DEF LimiterInv
  <1>5. CASE Tick
    <2>1. now < MaxTime /\ now' = now + 1 /\ UNCHANGED <<visitor, ticked, admitted>>
      BY <1>5 DEF Tick
    <2>2. LimiterTypeOK' /\ AtMostTwiceTheRate'
      BY <1>1, <2>1 DEF LimiterInv, LimiterTypeOK, AtMostTwiceTheRate, NoVisitor
    <2>3. (Known' <=> Known) /\ First' = First
          /\ (Since' = Since \/ (Since' = Since + 1 /\ Since = now))
      <3>1. Known' <=> Known
        BY <2>1 DEF Known, NoVisitor
      <3> QED BY <2>1, <3>1 DEF First, Since
    <2>4. Since \in Nat
      BY <1>1 DEF Since
    <2>5. Spaced'
      <3>1. \A i \in DOMAIN admitted : i <= First - Rate => admitted[i] + Window <= Since'
        BY <1>1, <1>2, <2>3, <2>4
      <3>2. \A i \in DOMAIN admitted : admitted[i] <= now + 1
        BY <1>1, <1>2
      <3>3. Known => visitor.lastReset <= now + 1
        BY <1>1, <1>2
      <3> QED BY <1>1, <1>2, <2>1, <2>3, <3>1, <3>2, <3>3 DEF Spaced
    <2> QED BY <2>2, <2>5 DEF LimiterInv
  <1>6. CASE UNCHANGED limiterVars
    BY <1>6 DEF limiterVars, LimiterInv, LimiterTypeOK, Spaced, AtMostTwiceTheRate, First, Since, Known, NoVisitor
  <1> QED BY <1>3, <1>4, <1>5, <1>6 DEF LimiterNext

\* The invariant of the rate limiter, types included, in every reachable state.
THEOREM LimiterInvariant == LimiterSpec => []LimiterInv
  <1>1. LimiterInv /\ [LimiterNext]_limiterVars => LimiterInv'
    BY LimiterNext_Inv
  <1> QED BY <1>1, LimiterInit_Inv, PTL DEF LimiterSpec

\* For every rate, window and period of the cleanup: a stretch as long as a window has
\* fewer than twice the requests of the rate, whatever the cleanup forgets.
THEOREM TwiceTheRate == LimiterSpec => []AtMostTwiceTheRate
  <1>1. LimiterInv => AtMostTwiceTheRate
    BY DEF LimiterInv
  <1> QED BY <1>1, LimiterInvariant, PTL

-----------------------------------------------------------------------------
(* The price feed *)

\* The writes of a fetch, and those that the one under way has still to make.
AllWrites == {"save", "h1", "h4", "d1", "publish"}
Owes(w) == \E k \in DOMAIN pending : pending[k] = w

\* The fetches that a write is through with.
Through(w) == {n \in DOMAIN fetched : Owes(w) => n # Len(fetched)}

\* The fetches of the hours of a candle.
FetchesOf(i, b) == {n \in DOMAIN fetched : bucketBounds(fetched[n].at, i) = b}

\* A candle lies between its low and its high and is made of prices of some fetches.
IsMadeOf(c, S, f) ==
    c # NoCandle => /\ c.low <= c.open /\ c.low <= c.close /\ c.open <= c.high /\ c.close <= c.high
                    /\ \A v \in {c.open, c.high, c.low, c.close} : \E n \in S : f[n].price = v

\* A candle opens with the first of some fetches, closes with the last and spans them all.
SumsUp(c, S, f) ==
    /\ S = {} => c = NoCandle
    /\ S # {} => /\ c # NoCandle
                 /\ \E e, l \in S : /\ \A k \in S : e <= k /\ k <= l
                                    /\ c.open = f[e].price /\ c.close = f[l].price
                 /\ \A n \in S : c.low <= f[n].price /\ f[n].price <= c.high

\* What is missing in the history or on the bus is what failures cost.
MissingByFaults ==
    /\ Cardinality(Through("save") \ recorded) <= faults
    /\ Cardinality(Through("publish") \ announcedAs) <= faults

CandlesAreMade == \A i \in Intervals, b \in Buckets : IsMadeOf(candles[i][b], FetchesOf(i, b), fetched)

NothingIsMissing ==
    faults = 0 => /\ recorded = Through("save")
                  /\ \A i \in Intervals, b \in Buckets :
                        SumsUp(candles[i][b], FetchesOf(i, b) \cap Through(i), fetched)

\* The inductive invariant of the feed.
FeedInv == FeedTypeOK /\ MissingByFaults /\ CandlesAreMade /\ NothingIsMissing

CandleRecord == [open : Quotes, high : Quotes, low : Quotes, close : Quotes]

\* Taking the first write off the list.
LEMMA WritesGoOn ==
    ASSUME pending \in StillToWrite
    PROVE  /\ pending = <<>> => \A w \in AllWrites : ~ Owes(w)
           /\ pending' = Writes => pending' \in StillToWrite /\ \A w \in AllWrites : Owes(w)'
           /\ pending' = <<>> => pending' \in StillToWrite /\ \A w \in AllWrites : ~ Owes(w)'
           /\ pending # <<>> /\ pending' = Tail(pending) =>
                /\ pending' \in StillToWrite /\ Head(pending) \in AllWrites
                /\ \A w \in AllWrites : Owes(w)' <=> Owes(w) /\ w # Head(pending)
                /\ Owes(Head(pending))
  <1>1. \A w : Owes(w) <=> \E k \in DOMAIN pending : pending[k] = w
    BY DEF Owes
  <1>2. \A w : Owes(w)' <=> \E k \in DOMAIN pending' : pending'[k] = w
    BY DEF Owes
  <1>3. pending' = Writes => pending' \in StillToWrite /\ \A w \in AllWrites : Owes(w)'
    <2> SUFFICES ASSUME pending' = Writes PROVE pending' \in StillToWrite /\ \A w \in AllWrites : Owes(w)'
      OBVIOUS
    <2>1. DOMAIN pending' = 1..5
      BY DEF Writes
    <2>2. /\ pending'[1] = "save" /\ pending'[2] = "h1" /\ pending'[3] = "h4" /\ pending'[4] = "d1"
          /\ pending'[5] = "publish"
      BY DEF Writes
    <2>3. pending' \in StillToWrite
      BY DEF Writes, StillToWrite
    <2> QED BY <1>2, <2>1, <2>2, <2>3 DEF AllWrites
  <1>4. ASSUME pending # <<>>, pending' = Tail(pending)
        PROVE  /\ pending' \in StillToWrite /\ Head(pending) \in AllWrites
               /\ \A w \in AllWrites : Owes(w)' <=> Owes(w) /\ w # Head(pending)
               /\ Owes(Head(pending))
    <2>1. CASE pending = Writes
      BY <1>1, <1>2, <1>4, <2>1 DEF StillToWrite, AllWrites, Writes
    <2>2. CASE pending = <<"h1", "h4", "d1", "publish">>
      BY <1>1, <1>2, <1>4, <2>2 DEF StillToWrite, AllWrites
    <2>3. CASE pending = <<"h4", "d1", "publish">>
      BY <1>1, <1>2, <1>4, <2>3 DEF StillToWrite, AllWrites
    <2>4. CASE pending = <<"d1", "publish">>
      BY <1>1, <1>2, <1>4, <2>4 DEF StillToWrite, AllWrites
    <2>5. CASE pending = <<"publish">>
      BY <1>1, <1>2, <1>4, <2>5 DEF StillToWrite, AllWrites
    <2> QED BY <1>4, <2>1, <2>2, <2>3, <2>4, <2>5 DEF StillToWrite
  <1> QED BY <1>1, <1>2, <1>3, <1>4 DEF StillToWrite

LEMMA LengthsOfIntervals ==
    /\ Intervals = {"h1", "h4", "d1"}
    /\ Length["h1"] = 1 /\ Length["h4"] = 4 /\ Length["d1"] = 24
  BY DEF Intervals, Length

\* The bounds of a bucket: every hour is in one, and only in one.
LEMMA BucketsHoldTheirHours ==
    ASSUME NEW i \in Intervals, NEW at \in Nat
    PROVE  /\ bucketBounds(at, i) \in Nat /\ Length[i] \in Nat
           /\ bucketBounds(at, "h1") = at
           /\ \A h \in Nat : bucketBounds(at, i) <= h /\ h < bucketBounds(at, i) + Length[i]
                => bucketBounds(h, i) = bucketBounds(at, i)
           /\ at \in Hours => bucketBounds(at, i) \in Buckets
  <1>1. \A h \in Nat : /\ bucketBounds(h, "h1") = (h \div 1) * 1
                       /\ bucketBounds(h, "h4") = (h \div 4) * 4
                       /\ bucketBounds(h, "d1") = (h \div 24) * 24
    BY LengthsOfIntervals DEF bucketBounds
  <1>2. bucketBounds(at, "h1") = at
    BY <1>1
  <1>3. at \in Hours => bucketBounds(at, i) \in Buckets
    BY DEF Buckets
  <1>4. CASE i = "h1"
    BY <1>1, <1>2, <1>3, <1>4, LengthsOfIntervals
  <1>5. CASE i = "h4"
    <2>1. \A h \in Nat : (at \div 4) * 4 <= h /\ h < (at \div 4) * 4 + 4 => h \div 4 = at \div 4
      OBVIOUS
    <2>2. (at \div 4) * 4 \in Nat
      OBVIOUS
    <2>3. \A h \in Nat : bucketBounds(h, i) = (h \div 4) * 4
      BY <1>1, <1>5
    <2>4. Length[i] = 4
      BY <1>5, LengthsOfIntervals
    <2> QED BY <1>2, <1>3, <2>1, <2>2, <2>3, <2>4
  <1>6. CASE i = "d1"
    BY <1>1, <1>2, <1>3, <1>6, LengthsOfIntervals
  <1> QED BY <1>4, <1>5, <1>6, LengthsOfIntervals

LEMMA QuotesAndHours ==
    /\ \A p \in Quotes : p \in Nat /\ p > 0
    /\ \A h \in Hours : h \in Nat
  BY FeedAssumption

LEMMA FeedTypes ==
    ASSUME FeedTypeOK
    PROVE  /\ fetched \in Seq([at : Hours, price : Quotes]) /\ Len(fetched) \in Nat
           /\ DOMAIN fetched = 1..Len(fetched) /\ IsFiniteSet(DOMAIN fetched)
           /\ \A n \in DOMAIN fetched : /\ n \in Nat /\ n <= Len(fetched)
                                        /\ fetched[n].at \in Hours /\ fetched[n].at \in Nat
                                        /\ fetched[n].price \in Quotes /\ fetched[n].price \in Nat
                                        /\ fetched[n].price > 0
           /\ \A w : Through(w) \subseteq DOMAIN fetched /\ IsFiniteSet(Through(w))
  <1>1. /\ fetched \in Seq([at : Hours, price : Quotes]) /\ Len(fetched) \in Nat
        /\ DOMAIN fetched = 1..Len(fetched)
    BY DEF FeedTypeOK
  <1>2. IsFiniteSet(DOMAIN fetched)
    BY <1>1, FS_Interval
  <1>3. \A n \in DOMAIN fetched : fetched[n] \in [at : Hours, price : Quotes]
    BY <1>1, ElementOfSeq
  <1>4. \A n \in DOMAIN fetched : /\ fetched[n].at \in Hours /\ fetched[n].price \in Quotes
                                     /\ n \in Nat /\ n <= Len(fetched)
    BY <1>1, <1>3
  <1>5. \A w : Through(w) \subseteq DOMAIN fetched
    BY DEF Through
  <1>6. \A w : IsFiniteSet(Through(w))
    BY <1>2, <1>5, FS_Subset
  <1> QED BY <1>1, <1>2, <1>4, <1>5, <1>6, QuotesAndHours

LEMMA OneMoreIsMissing ==
    ASSUME NEW S, NEW T, NEW x, IsFiniteSet(S), T \subseteq S \cup {x}
    PROVE  Cardinality(T) <= Cardinality(S) + 1 /\ Cardinality(S) \in Nat /\ Cardinality(T) \in Nat
  <1>1. IsFiniteSet(S \cup {x}) /\ Cardinality(S \cup {x}) <= Cardinality(S) + 1
    <2>1. /\ IsFiniteSet(S \cup {x}) /\ Cardinality(S) \in Nat
          /\ Cardinality(S \cup {x}) = Cardinality(S) \/ Cardinality(S \cup {x}) = Cardinality(S) + 1
      BY FS_AddElement, FS_CardinalityType
    <2> QED BY <2>1
  <1>2. IsFiniteSet(T) /\ Cardinality(T) <= Cardinality(S \cup {x})
    BY <1>1, FS_Subset
  <1> QED BY <1>1, <1>2, FS_CardinalityType

\* The candle takes the price of one fetch more.
LEMMA CandleTakesPrice ==
    ASSUME NEW c \in CandleRecord \cup {NoCandle}, NEW S, NEW f, NEW n \in S, f[n].price \in Quotes
    PROVE  /\ Upserted(c, f[n].price) \in CandleRecord
           /\ IsMadeOf(c, S, f) => IsMadeOf(Upserted(c, f[n].price), S, f)
  <1> DEFINE p == f[n].price
             u == Upserted(c, p)
  <1>1. p \in Quotes /\ p \in Nat /\ p > 0 /\ Quotes \subseteq Nat
    BY QuotesAndHours
  <1>2. CASE c = NoCandle
    <2>1. u = [open |-> p, high |-> p, low |-> p, close |-> p]
      BY <1>2 DEF Upserted
    <2>2. u \in CandleRecord /\ u.open = p /\ u.high = p /\ u.low = p /\ u.close = p
      BY <1>1, <2>1 DEF CandleRecord
    <2>3. \E k \in S : f[k].price = p
      OBVIOUS
    <2> HIDE DEF u, p
    <2>4. u.low <= u.open /\ u.low <= u.close /\ u.open <= u.high /\ u.close <= u.high
      BY <1>1, <2>2
    <2>5. \A v \in {u.open, u.high, u.low, u.close} : v = p
      BY <2>2
    <2>6. IsMadeOf(u, S, f)
      BY <2>3, <2>4, <2>5 DEF IsMadeOf
    <2> QED BY <2>2, <2>6 DEF u, p
  <1>3. CASE c # NoCandle
    <2>1. u = [open |-> c.open, high |-> Greatest(c.high, p), low |-> Least(c.low, p), close |-> p]
      BY <1>3 DEF Upserted
    <2>2. /\ c.open \in Quotes /\ c.high \in Quotes /\ c.low \in Quotes /\ c.close \in Quotes
          /\ Greatest(c.high, p) \in {c.high, p} /\ Least(c.low, p) \in {c.low, p}
          /\ Greatest(c.high, p) >= c.high /\ Greatest(c.high, p) >= p
          /\ Least(c.low, p) <= c.low /\ Least(c.low, p) <= p
      <3>1. c \in CandleRecord
        BY <1>3
      <3>2. c.open \in Quotes /\ c.high \in Quotes /\ c.low \in Quotes /\ c.close \in Quotes
        BY <3>1 DEF CandleRecord
      <3>3. c.high \in Nat /\ c.low \in Nat
        BY <1>1, <3>2
      <3> HIDE DEF p
      <3> QED BY <1>1, <3>2, <3>3 DEF Greatest, Least
    <2>3. /\ u \in CandleRecord /\ u.open = c.open /\ u.high = Greatest(c.high, p)
          /\ u.low = Least(c.low, p) /\ u.close = p
      BY <1>1, <2>1, <2>2 DEF CandleRecord
    <2> DEFINE g == Greatest(c.high, p)
               l == Least(c.low, p)
    <2>4. g \in Nat /\ l \in Nat /\ c.open \in Nat /\ c.close \in Nat /\ c.high \in Nat /\ c.low \in Nat
      BY <1>1, <2>2
    <2> HIDE DEF u, g, l
    <2>5. ASSUME IsMadeOf(c, S, f) PROVE IsMadeOf(u, S, f)
      <3>1. /\ c.low <= c.open /\ c.low <= c.close /\ c.open <= c.high /\ c.close <= c.high
            /\ \A v \in {c.open, c.high, c.low, c.close} : \E k \in S : f[k].price = v
        BY <1>3, <2>5 DEF IsMadeOf
      <3>2. u.low <= u.open /\ u.low <= u.close /\ u.open <= u.high /\ u.close <= u.high
        BY <1>1, <2>2, <2>3, <2>4, <3>1 DEF g, l
      <3>3. \A v \in {u.open, u.high, u.low, u.close} : v \in {c.open, c.high, c.low, p}
        BY <2>2, <2>3
      <3>4. \E k \in S : f[k].price = p
        OBVIOUS
      <3> HIDE DEF p
      <3> QED BY <3>1, <3>2, <3>3, <3>4 DEF IsMadeOf
    <2> QED BY <2>3, <2>5 DEF u
  <1> QED BY <1>2, <1>3

LEMMA CandleSumsUpMore ==
    ASSUME NEW c \in CandleRecord \cup {NoCandle}, NEW n \in Nat, NEW S \in SUBSET Nat, NEW f,
           \A k \in S : k < n, \A k \in S \cup {n} : f[k].price \in Quotes, SumsUp(c, S, f)
    PROVE  SumsUp(Upserted(c, f[n].price), S \cup {n}, f)
  <1> DEFINE p == f[n].price
             u == Upserted(c, p)
  <1>1. p \in Quotes /\ p \in Nat /\ p > 0 /\ Quotes \subseteq Nat /\ \A k \in S : f[k].price \in Nat
    BY QuotesAndHours
  <1>2. u # NoCandle
    <2>1. u \in CandleRecord
      BY CandleTakesPrice
    <2>2. u.open > 0
      BY <2>1, QuotesAndHours DEF CandleRecord
    <2>3. NoCandle.open = 0
      BY DEF NoCandle
    <2> QED BY <2>2, <2>3
  <1>3. CASE S = {}
    <2>1. c = NoCandle
      BY <1>3 DEF SumsUp
    <2>2. u = [open |-> p, high |-> p, low |-> p, close |-> p]
      BY <2>1 DEF Upserted
    <2>3. u.open = p /\ u.high = p /\ u.low = p /\ u.close = p
      BY <2>2
    <2> HIDE DEF u
    <2>4. S \cup {n} = {n} /\ f[n].price = p
      BY <1>3
    <2> HIDE DEF p
    <2>5. /\ \A k \in S \cup {n} : n <= k /\ k <= n
          /\ \A k \in S \cup {n} : u.low <= f[k].price /\ f[k].price <= u.high
      BY <1>1, <2>3, <2>4
    <2> DEFINE T == S \cup {n}
    <2>6. n \in T /\ T # {}
      OBVIOUS
    <2> HIDE DEF T
    <2>7. SumsUp(u, T, f)
      BY <1>2, <2>3, <2>4, <2>5, <2>6 DEF SumsUp, T
    <2> QED BY <2>7 DEF T, u, p
  <1>4. CASE S # {}
    <2>1. PICK e \in S, l \in S : /\ c # NoCandle /\ \A k \in S : e <= k /\ k <= l
                                  /\ c.open = f[e].price /\ c.close = f[l].price
                                  /\ \A k \in S : c.low <= f[k].price /\ f[k].price <= c.high
      BY <1>4 DEF SumsUp
    <2>2. u = [open |-> c.open, high |-> Greatest(c.high, p), low |-> Least(c.low, p), close |-> p]
      BY <2>1 DEF Upserted
    <2>3. c.high \in Nat /\ c.low \in Nat
      <3>1. c \in CandleRecord
        BY <2>1
      <3> QED BY <1>1, <3>1 DEF CandleRecord
    <2>4. /\ u.open = f[e].price /\ u.close = f[n].price
          /\ u.low \in Nat /\ u.high \in Nat /\ u.low <= c.low /\ u.low <= p /\ c.high <= u.high /\ p <= u.high
      BY <1>1, <2>1, <2>2, <2>3 DEF Greatest, Least
    <2> HIDE DEF u
    <2>5. \A k \in S \cup {n} : e <= k /\ k <= n
      <3>1. e \in Nat /\ e < n /\ \A k \in S : k \in Nat /\ k < n /\ e <= k
        BY <2>1
      <3> QED BY <3>1
    <2>6. f[n].price = p
      OBVIOUS
    <2> HIDE DEF p
    <2>7. ASSUME NEW k \in S PROVE u.low <= f[k].price /\ f[k].price <= u.high
      <3>1. c.low <= f[k].price /\ f[k].price <= c.high /\ f[k].price \in Nat
        BY <1>1, <2>1
      <3> QED BY <2>3, <2>4, <3>1
    <2>8. \A k \in S \cup {n} : u.low <= f[k].price /\ f[k].price <= u.high
      BY <2>4, <2>6, <2>7
    <2>9. e \in S \cup {n} /\ n \in S \cup {n} /\ S \cup {n} # {}
      OBVIOUS
    <2> DEFINE T == S \cup {n}
    <2> HIDE DEF T
    <2>10. SumsUp(u, T, f)
      BY <1>2, <2>4, <2>5, <2>8, <2>9 DEF SumsUp, T
    <2> QED BY <2>10 DEF T, u, p
  <1> QED BY <1>3, <1>4

LEMMA FeedInit_Inv == FeedInit /\ faults \in Nat => FeedInv
  <1> SUFFICES ASSUME FeedInit, faults \in Nat PROVE FeedInv
    OBVIOUS
  <1>1. FeedTypeOK
    BY DEF FeedInit, FeedTypeOK, StillToWrite
  <1>2. DOMAIN fetched = {} /\ recorded = {} /\ announcedAs = {}
    BY DEF FeedInit
  <1>3. \A w : Through(w) = {}
    BY <1>2 DEF Through
  <1>4. \A i \in Intervals, b \in Buckets : candles[i][b] = NoCandle
    BY DEF FeedInit
  <1>5. MissingByFaults
    <2>1. Through("save") \ recorded = {} /\ Through("publish") \ announcedAs = {}
      BY <1>3
    <2>2. Cardinality({}) = 0
      BY FS_EmptySet
    <2> QED BY <2>1, <2>2 DEF MissingByFaults
  <1>6. CandlesAreMade
    BY <1>4 DEF CandlesAreMade, IsMadeOf
  <1>7. NothingIsMissing
    BY <1>2, <1>3, <1>4 DEF NothingIsMissing, SumsUp
  <1> QED BY <1>1, <1>5, <1>6, <1>7 DEF FeedInv

\* What a write is through with, after it and after a fetch or a restart.
LEMMA ThroughOneMore ==
    ASSUME NEW h, h = Head(pending), FeedTypeOK, pending # <<>>, pending' = Tail(pending), fetched' = fetched
    PROVE  /\ h \in AllWrites /\ pending' \in StillToWrite
           /\ Len(fetched) \in DOMAIN fetched /\ cached = fetched[Len(fetched)]
           /\ Through(h)' = Through(h) \cup {Len(fetched)}
           /\ \A n \in Through(h) : n < Len(fetched)
           /\ \A w \in AllWrites : w # h => Through(w)' = Through(w)
  <1>1. /\ pending' \in StillToWrite /\ h \in AllWrites /\ Owes(h)
        /\ \A w \in AllWrites : Owes(w)' <=> Owes(w) /\ w # h
    BY WritesGoOn DEF FeedTypeOK
  <1>2. fetched # <<>> /\ cached = fetched[Len(fetched)]
    BY DEF FeedTypeOK
  <1>3. /\ Len(fetched) \in Nat /\ DOMAIN fetched = 1..Len(fetched)
        /\ \A n \in DOMAIN fetched : n \in Nat /\ n <= Len(fetched)
    BY FeedTypes
  <1>4. Len(fetched) \in DOMAIN fetched
    <2>1. Len(fetched) # 0
      BY <1>2, FeedTypes, EmptySeq
    <2> QED BY <1>3, <2>1
  <1>5. \A w : Through(w) = {n \in DOMAIN fetched : Owes(w) => n # Len(fetched)}
    BY DEF Through
  <1>6. \A w : Through(w)' = {n \in DOMAIN fetched : Owes(w)' => n # Len(fetched)}
    BY DEF Through
  <1>7. \A n \in Through(h) : n < Len(fetched)
    BY <1>1, <1>3, <1>5
  <1> QED BY <1>1, <1>2, <1>4, <1>5, <1>6, <1>7

LEMMA ThroughAfterFetch ==
    ASSUME FeedTypeOK, pending = <<>>, pending' = Writes,
           NEW r \in [at : Hours, price : Quotes], fetched' = Append(fetched, r)
    PROVE  /\ pending' \in StillToWrite /\ fetched' \in Seq([at : Hours, price : Quotes])
           /\ Len(fetched') = Len(fetched) + 1 /\ fetched'[Len(fetched')] = r /\ fetched' # <<>>
           /\ DOMAIN fetched' = DOMAIN fetched \cup {Len(fetched')}
           /\ Len(fetched') \notin DOMAIN fetched
           /\ \A n \in DOMAIN fetched : fetched'[n] = fetched[n]
           /\ \A w \in AllWrites : Through(w) = DOMAIN fetched /\ Through(w)' = DOMAIN fetched
  <1>1. /\ fetched \in Seq([at : Hours, price : Quotes]) /\ Len(fetched) \in Nat
        /\ DOMAIN fetched = 1..Len(fetched)
    BY FeedTypes
  <1>2. /\ fetched' \in Seq([at : Hours, price : Quotes]) /\ Len(fetched') = Len(fetched) + 1
        /\ fetched'[Len(fetched')] = r /\ DOMAIN fetched' = 1..Len(fetched')
        /\ \A n \in 1..Len(fetched) : fetched'[n] = fetched[n]
    BY <1>1
  <1>3. /\ DOMAIN fetched' = DOMAIN fetched \cup {Len(fetched')} /\ Len(fetched') \notin DOMAIN fetched
        /\ fetched' # <<>>
    BY <1>1, <1>2
  <1>4. pending' \in StillToWrite /\ \A w \in AllWrites : ~ Owes(w) /\ Owes(w)'
    BY WritesGoOn DEF FeedTypeOK
  <1>5. \A w \in AllWrites : Through(w) = DOMAIN fetched
    BY <1>4 DEF Through
  <1>6. \A w \in AllWrites : Through(w)' = DOMAIN fetched
    BY <1>3, <1>4 DEF Through
  <1> QED BY <1>1, <1>2, <1>3, <1>4, <1>5, <1>6

LEMMA MissingLess ==
    ASSUME NEW S, NEW T, IsFiniteSet(S), T \subseteq S
    PROVE  Cardinality(T) <= Cardinality(S) /\ Cardinality(S) \in Nat /\ Cardinality(T) \in Nat
  BY FS_Subset, FS_CardinalityType

\* A write fails, or the process dies: one more fetch may be missing.
LEMMA FailedWrite_Inv ==
    ASSUME FeedInv, Fault, UNCHANGED <<fetched, recorded, candles, announcedAs>>,
           \/ pending # <<>> /\ pending' = Tail(pending) /\ cached' = cached
           \/ pending' = <<>> /\ cached' = NoQuote
    PROVE  FeedInv'
  <1>1. FeedTypeOK /\ faults \in Nat /\ faults' = faults + 1
    BY DEF FeedInv, FeedTypeOK, Fault
  <1>2. pending' \in StillToWrite /\ \A w \in AllWrites : Through(w)' \subseteq Through(w) \cup {Len(fetched)}
    <2>1. CASE pending # <<>> /\ pending' = Tail(pending)
      BY <1>1, <2>1, ThroughOneMore
    <2>2. CASE pending' = <<>>
      BY <1>1, <2>2 DEF StillToWrite, Through
    <2> QED BY <2>1, <2>2
  <1>3. FeedTypeOK'
    BY <1>1, <1>2 DEF FeedTypeOK, NoQuote
  <1>4. MissingByFaults'
    <2>1. IsFiniteSet(Through("save") \ recorded) /\ IsFiniteSet(Through("publish") \ announcedAs)
      BY <1>1, FeedTypes, FS_Difference
    <2>2. /\ Through("save")' \ recorded' \subseteq (Through("save") \ recorded) \cup {Len(fetched)}
          /\ Through("publish")' \ announcedAs' \subseteq (Through("publish") \ announcedAs) \cup {Len(fetched)}
      BY <1>2 DEF AllWrites
    <2>3. /\ Cardinality(Through("save")' \ recorded') <= Cardinality(Through("save") \ recorded) + 1
          /\ Cardinality(Through("save")' \ recorded') \in Nat /\ Cardinality(Through("save") \ recorded) \in Nat
      BY <2>1, <2>2, OneMoreIsMissing
    <2>4. /\ Cardinality(Through("publish")' \ announcedAs') <= Cardinality(Through("publish") \ announcedAs) + 1
          /\ Cardinality(Through("publish")' \ announcedAs') \in Nat
          /\ Cardinality(Through("publish") \ announcedAs) \in Nat
      BY <2>1, <2>2, OneMoreIsMissing
    <2>5. /\ Cardinality(Through("save")' \ recorded') <= faults'
          /\ Cardinality(Through("publish")' \ announcedAs') <= faults'
      BY <1>1, <2>3, <2>4 DEF FeedInv, MissingByFaults
    <2> QED BY <2>5 DEF MissingByFaults
  <1>5. CandlesAreMade'
    BY DEF FeedInv, CandlesAreMade, FetchesOf
  <1>6. NothingIsMissing'
    BY <1>1 DEF NothingIsMissing
  <1> QED BY <1>3, <1>4, <1>5, <1>6 DEF FeedInv

\* A write is made.
LEMMA Write_Inv ==
    ASSUME FeedInv, pending # <<>>, pending' = Tail(pending), UNCHANGED <<cached, fetched, faults>>,
           \/ Head(pending) = "save" /\ Save
           \/ \E i \in Intervals : Head(pending) = i /\ UpsertCandle(i)
           \/ Head(pending) = "publish" /\ PublishPrice
    PROVE  FeedInv'
  <1> DEFINE n == Len(fetched)
  <1>1. FeedTypeOK /\ faults \in Nat
    BY DEF FeedInv, FeedTypeOK
  <1>2. PICK h :
        /\ h = Head(pending)
        /\ h \in AllWrites /\ pending' \in StillToWrite /\ n \in DOMAIN fetched /\ cached = fetched[n]
        /\ Through(h)' = Through(h) \cup {n} /\ \A k \in Through(h) : k < n
        /\ \A w \in AllWrites : w # h => Through(w)' = Through(w)
    BY <1>1, ThroughOneMore
  <1>3. /\ \A k \in DOMAIN fetched : /\ k \in Nat /\ fetched[k].at \in Hours /\ fetched[k].at \in Nat
                                     /\ fetched[k].price \in Quotes
        /\ \A w : Through(w) \subseteq DOMAIN fetched /\ IsFiniteSet(Through(w))
    BY <1>1, FeedTypes
  <1>4. \A i, b : FetchesOf(i, b)' = FetchesOf(i, b)
    BY DEF FetchesOf
  <1>5. candles \in [Intervals -> [Buckets -> CandleRecord \cup {NoCandle}]]
    BY <1>1 DEF FeedTypeOK, CandleRecord
  <1>6. recorded \subseteq DOMAIN fetched /\ announcedAs \subseteq DOMAIN fetched
    BY <1>1 DEF FeedTypeOK
  <1> HIDE DEF n
  \* The history and the bus.
  <1>7. ASSUME /\ recorded' = recorded \/ (h = "save" /\ recorded' = recorded \cup {n})
               /\ announcedAs' = announcedAs \/ (h = "publish" /\ announcedAs' = announcedAs \cup {n})
               /\ h = "save" => n \in recorded'
               /\ h = "publish" => n \in announcedAs'
        PROVE  /\ MissingByFaults'
               /\ recorded' \subseteq DOMAIN fetched' /\ announcedAs' \subseteq DOMAIN fetched'
               /\ recorded = Through("save") => recorded' = Through("save")'
    <2>1. "save" \in AllWrites /\ "publish" \in AllWrites
      BY DEF AllWrites
    <2>2. /\ Through("save")' \ recorded' \subseteq Through("save") \ recorded
          /\ Through("publish")' \ announcedAs' \subseteq Through("publish") \ announcedAs
      BY <1>2, <1>7, <2>1
    <2>3. IsFiniteSet(Through("save") \ recorded) /\ IsFiniteSet(Through("publish") \ announcedAs)
      BY <1>3, FS_Difference
    <2>4. /\ Cardinality(Through("save")' \ recorded') <= Cardinality(Through("save") \ recorded)
          /\ Cardinality(Through("save")' \ recorded') \in Nat /\ Cardinality(Through("save") \ recorded) \in Nat
      BY <2>2, <2>3, MissingLess
    <2>5. /\ Cardinality(Through("publish")' \ announcedAs') <= Cardinality(Through("publish") \ announcedAs)
          /\ Cardinality(Through("publish")' \ announcedAs') \in Nat
          /\ Cardinality(Through("publish") \ announcedAs) \in Nat
      BY <2>2, <2>3, MissingLess
    <2>6. /\ Cardinality(Through("save")' \ recorded') <= faults'
          /\ Cardinality(Through("publish")' \ announcedAs') <= faults'
      BY <1>1, <2>4, <2>5 DEF FeedInv, MissingByFaults
    <2>7. recorded' \subseteq DOMAIN fetched' /\ announcedAs' \subseteq DOMAIN fetched'
      BY <1>2, <1>6, <1>7
    <2>8. recorded = Through("save") => recorded' = Through("save")'
      BY <1>2, <1>7, <2>1
    <2> QED BY <2>6, <2>7, <2>8 DEF MissingByFaults
  <1>8. CASE h \in {"save", "publish"}
    <2>1. UNCHANGED candles /\ h \notin Intervals /\ Intervals \subseteq AllWrites
      BY <1>2, <1>8, LengthsOfIntervals DEF Save, PublishPrice, UpsertCandle, AllWrites
    <2>2. /\ recorded' = recorded \/ (h = "save" /\ recorded' = recorded \cup {n})
          /\ announcedAs' = announcedAs \/ (h = "publish" /\ announcedAs' = announcedAs \cup {n})
          /\ h = "save" => n \in recorded'
          /\ h = "publish" => n \in announcedAs'
      <3>1. (h = "save" /\ Save) \/ (h = "publish" /\ PublishPrice)
        BY <1>2, <2>1
      <3>2. CASE h = "save" /\ Save
        BY <3>2 DEF Save, n
      <3>3. CASE h = "publish" /\ PublishPrice
        BY <3>3 DEF PublishPrice, n
      <3> QED BY <3>1, <3>2, <3>3
    <2>3. /\ MissingByFaults' /\ recorded' \subseteq DOMAIN fetched' /\ announcedAs' \subseteq DOMAIN fetched'
          /\ recorded = Through("save") => recorded' = Through("save")'
      BY <1>7, <2>2
    <2>4. FeedTypeOK'
      BY <1>1, <1>2, <2>1, <2>3 DEF FeedTypeOK
    <2>5. CandlesAreMade'
      BY <1>4, <2>1 DEF FeedInv, CandlesAreMade
    <2>6. NothingIsMissing'
      BY <1>2, <1>4, <2>1, <2>3 DEF FeedInv, NothingIsMissing
    <2> QED BY <2>3, <2>4, <2>5, <2>6 DEF FeedInv
  <1>9. CASE h \notin {"save", "publish"}
    <2>1. PICK i \in Intervals : h = i /\ UpsertCandle(i)
      BY <1>2, <1>9
    <2> DEFINE start == bucketBounds(fetched[n].at, i)
               p == fetched[n].price
               new == Upserted(candles[i][start], p)
    <2>2. start \in Buckets /\ n \in FetchesOf(i, start)
      BY <1>2, <1>3, BucketsHoldTheirHours DEF FetchesOf
    <2>3. /\ candles' = [candles EXCEPT ![i][start] = new] /\ UNCHANGED <<recorded, announcedAs>>
      BY <1>2, <2>1 DEF UpsertCandle
    <2>4. candles[i][start] \in CandleRecord \cup {NoCandle}
      BY <1>5, <2>2
    <2>5. /\ new \in CandleRecord
          /\ IsMadeOf(candles[i][start], FetchesOf(i, start), fetched) => IsMadeOf(new, FetchesOf(i, start), fetched)
      BY <1>2, <1>3, <2>2, <2>4, CandleTakesPrice
    <2> DEFINE at == fetched[n].at
    <2>6. \A b \in Buckets : b # start => n \notin FetchesOf(i, b)
      BY DEF FetchesOf
    <2> HIDE DEF start, new, p
    <2>7. /\ candles' \in [Intervals -> [Buckets -> CandleRecord \cup {NoCandle}]]
          /\ candles'[i][start] = new
          /\ \A j \in Intervals, b \in Buckets : j # i \/ b # start => candles'[j][b] = candles[j][b]
      <3> HIDE DEF CandleRecord
      <3> QED BY <1>5, <2>2, <2>3, <2>5
    <2>8. /\ MissingByFaults' /\ recorded' \subseteq DOMAIN fetched' /\ announcedAs' \subseteq DOMAIN fetched'
          /\ recorded = Through("save") => recorded' = Through("save")'
      <3>1. /\ recorded' = recorded \/ (h = "save" /\ recorded' = recorded \cup {n})
            /\ announcedAs' = announcedAs \/ (h = "publish" /\ announcedAs' = announcedAs \cup {n})
            /\ h = "save" => n \in recorded'
            /\ h = "publish" => n \in announcedAs'
        BY <1>9, <2>3
      <3> QED BY <1>7, <3>1
    <2>9. FeedTypeOK'
      BY <1>1, <1>2, <2>7, <2>8 DEF FeedTypeOK, CandleRecord
    <2>10. CandlesAreMade'
      <3> SUFFICES ASSUME NEW j \in Intervals, NEW b \in Buckets
                   PROVE  IsMadeOf(candles'[j][b], FetchesOf(j, b), fetched)
        BY <1>4 DEF CandlesAreMade
      <3>1. IsMadeOf(candles[j][b], FetchesOf(j, b), fetched)
        BY DEF FeedInv, CandlesAreMade
      <3>2. CASE j = i /\ b = start
        BY <2>5, <2>7, <3>1, <3>2
      <3>3. CASE j # i \/ b # start
        BY <2>7, <3>1, <3>3
      <3> QED BY <3>2, <3>3
    <2>11. NothingIsMissing'
      <3> SUFFICES ASSUME faults = 0
                   PROVE  /\ recorded' = Through("save")'
                          /\ \A j \in Intervals, b \in Buckets :
                                SumsUp(candles'[j][b], FetchesOf(j, b) \cap Through(j)', fetched)
        BY <1>4 DEF NothingIsMissing
      <3>1. /\ recorded = Through("save")
            /\ \A j \in Intervals, b \in Buckets :
                  SumsUp(candles[j][b], FetchesOf(j, b) \cap Through(j), fetched)
        BY DEF FeedInv, NothingIsMissing
      <3> SUFFICES ASSUME NEW j \in Intervals, NEW b \in Buckets
                   PROVE  SumsUp(candles'[j][b], FetchesOf(j, b) \cap Through(j)', fetched)
        BY <2>8, <3>1
      <3>2. j \in AllWrites
        BY LengthsOfIntervals DEF AllWrites
      <3>3. CASE j = i /\ b = start
        <4> DEFINE S == FetchesOf(i, start) \cap Through(i)
        <4>1. FetchesOf(i, start) \cap Through(i)' = S \cup {n}
          BY <1>2, <2>1, <2>2
        <4>2. /\ S \subseteq Nat /\ n \in Nat /\ (\A k \in S : k < n)
              /\ \A k \in S \cup {n} : fetched[k].price \in Quotes
          BY <1>2, <1>3, <2>1
        <4>3. SumsUp(candles[i][start], S, fetched)
          BY <2>2, <3>1
        <4> HIDE DEF S
        <4>4. SumsUp(Upserted(candles[i][start], fetched[n].price), S \cup {n}, fetched)
          BY <2>4, <4>2, <4>3, CandleSumsUpMore
        <4> QED BY <2>7, <3>3, <4>1, <4>4 DEF new, p
      <3>4. CASE j = i /\ b # start
        <4>1. FetchesOf(j, b) \cap Through(j)' = FetchesOf(j, b) \cap Through(j)
          BY <1>2, <2>1, <2>6, <3>4
        <4> QED BY <2>7, <3>1, <3>4, <4>1
      <3>5. CASE j # i
        <4>1. Through(j)' = Through(j)
          BY <1>2, <2>1, <3>2, <3>5
        <4> QED BY <2>7, <3>1, <3>5, <4>1
      <3> QED BY <3>3, <3>4, <3>5
    <2> QED BY <2>8, <2>9, <2>10, <2>11 DEF FeedInv
  <1> QED BY <1>8, <1>9

\* A fetch that yields a price.
LEMMA Fetch_Inv ==
    ASSUME FeedInv, fetchMedian
    PROVE  FeedInv'
  <1>1. PICK r \in [at : Hours, price : Quotes] :
           /\ fetched' = Append(fetched, r) /\ cached' = r
           /\ pending = <<>> /\ pending' = Writes
           /\ UNCHANGED <<recorded, candles, announcedAs, faults>>
    BY DEF fetchMedian
  <1>2. FeedTypeOK
    BY DEF FeedInv
  <1>3. /\ pending' \in StillToWrite /\ fetched' \in Seq([at : Hours, price : Quotes])
        /\ fetched'[Len(fetched')] = r /\ fetched' # <<>>
        /\ DOMAIN fetched' = DOMAIN fetched \cup {Len(fetched')}
        /\ Len(fetched') \notin DOMAIN fetched
        /\ \A n \in DOMAIN fetched : fetched'[n] = fetched[n]
        /\ \A w \in AllWrites : Through(w) = DOMAIN fetched /\ Through(w)' = DOMAIN fetched
    BY <1>1, <1>2, ThroughAfterFetch
  <1>4. FeedTypeOK'
    BY <1>1, <1>2, <1>3 DEF FeedTypeOK
  <1>5. \A i, b : /\ FetchesOf(i, b) \subseteq FetchesOf(i, b)' /\ FetchesOf(i, b) \subseteq DOMAIN fetched
                  /\ FetchesOf(i, b)' \cap DOMAIN fetched = FetchesOf(i, b) \cap DOMAIN fetched
    BY <1>3 DEF FetchesOf
  <1>6. MissingByFaults'
    <2>1. "save" \in AllWrites /\ "publish" \in AllWrites
      BY DEF AllWrites
    <2> QED BY <1>1, <1>3, <2>1 DEF FeedInv, MissingByFaults
  <1>7. CandlesAreMade'
    <2>1. ASSUME NEW i \in Intervals, NEW b \in Buckets
          PROVE  IsMadeOf(candles[i][b], FetchesOf(i, b)', fetched')
      <3>1. IsMadeOf(candles[i][b], FetchesOf(i, b), fetched)
        BY DEF FeedInv, CandlesAreMade
      <3>2. \A n \in FetchesOf(i, b) : n \in FetchesOf(i, b)' /\ fetched'[n] = fetched[n]
        BY <1>3, <1>5
      <3> QED BY <3>1, <3>2 DEF IsMadeOf
    <2> QED BY <1>1, <2>1 DEF CandlesAreMade
  <1>8. NothingIsMissing'
    <2> SUFFICES ASSUME faults = 0
                 PROVE  /\ recorded' = Through("save")'
                        /\ \A i \in Intervals, b \in Buckets :
                              SumsUp(candles'[i][b], FetchesOf(i, b)' \cap Through(i)', fetched')
      BY <1>1 DEF NothingIsMissing
    <2>1. /\ recorded = Through("save")
          /\ \A i \in Intervals, b \in Buckets :
                SumsUp(candles[i][b], FetchesOf(i, b) \cap Through(i), fetched)
      BY DEF FeedInv, NothingIsMissing
    <2>2. "save" \in AllWrites /\ Intervals \subseteq AllWrites
      BY LengthsOfIntervals DEF AllWrites
    <2>3. ASSUME NEW i \in Intervals, NEW b \in Buckets
          PROVE  SumsUp(candles[i][b], FetchesOf(i, b)' \cap Through(i)', fetched')
      <3> DEFINE S == FetchesOf(i, b) \cap DOMAIN fetched
      <3>1. FetchesOf(i, b)' \cap Through(i)' = S /\ FetchesOf(i, b) \cap Through(i) = S
        BY <1>3, <1>5, <2>2
      <3>2. SumsUp(candles[i][b], S, fetched) /\ \A n \in S : fetched'[n] = fetched[n]
        BY <1>3, <2>1, <3>1
      <3> HIDE DEF S
      <3>3. SumsUp(candles[i][b], S, fetched')
        BY <3>2 DEF SumsUp
      <3> QED BY <3>1, <3>3
    <2> QED BY <1>1, <1>3, <2>1, <2>2, <2>3
  <1> QED BY <1>4, <1>6, <1>7, <1>8 DEF FeedInv

LEMMA FeedNext_Inv ==
    ASSUME FeedInv, [FeedNext]_<<faults, feedVars>>
    PROVE  FeedInv'
  <1>1. CASE fetchMedian
    BY <1>1, Fetch_Inv
  <1>2. CASE fetchAllWrites
    <2>1. pending # <<>> /\ pending' = Tail(pending) /\ UNCHANGED <<cached, fetched>>
      BY <1>2 DEF fetchAllWrites
    <2>2. CASE Fault /\ UNCHANGED <<recorded, candles, announcedAs>>
      BY <2>1, <2>2, FailedWrite_Inv
    <2>3. CASE ~ (Fault /\ UNCHANGED <<recorded, candles, announcedAs>>)
      <3>1. /\ UNCHANGED faults
            /\ \/ Head(pending) = "save" /\ Save
               \/ \E i \in Intervals : Head(pending) = i /\ UpsertCandle(i)
               \/ Head(pending) = "publish" /\ PublishPrice
        BY <1>2, <2>3 DEF fetchAllWrites
      <3> QED BY <2>1, <3>1, Write_Inv
    <2> QED BY <2>2, <2>3
  <1>3. CASE FeedRestarts
    BY <1>3, FailedWrite_Inv DEF FeedRestarts
  <1>4. CASE UNCHANGED <<faults, feedVars>>
    BY <1>4 DEF feedVars, FeedInv, FeedTypeOK, MissingByFaults, CandlesAreMade, NothingIsMissing,
       Through, Owes, FetchesOf
  <1> QED BY <1>1, <1>2, <1>3, <1>4 DEF FeedNext

\* The inductive invariant of the feed, from its specification alone: what a write is
\* through with is in its table, but for what failures cost.
THEOREM FeedInvariant == FeedSpec => []FeedInv
  <1>1. FeedInit /\ faults = 0 => FeedInv
    BY FeedInit_Inv
  <1>2. FeedInv /\ [FeedNext]_<<faults, feedVars>> => FeedInv'
    BY FeedNext_Inv
  <1> QED BY <1>1, <1>2, PTL DEF FeedSpec

LEMMA FeedInv_Implies ==
    ASSUME FeedInv
    PROVE  CandlesFollowHistory
  <1> SUFFICES ASSUME FeedInv, pending = <<>> PROVE CandlesFollowHistory
    BY DEF CandlesFollowHistory
  <1> DEFINE FirstOf(S) == CHOOSE n \in S : \A k \in S : n <= k
             LastOf(S) == CHOOSE n \in S : \A k \in S : k <= n
  <1>1. FeedTypeOK /\ faults \in Nat
    BY DEF FeedInv, FeedTypeOK
  <1>2. \A w \in AllWrites : Through(w) = DOMAIN fetched
    BY <1>1, WritesGoOn DEF FeedTypeOK, Through
  <1>3. "save" \in AllWrites /\ "publish" \in AllWrites /\ Intervals \subseteq AllWrites
    BY LengthsOfIntervals DEF AllWrites
  <1>4. \A n \in DOMAIN fetched : n \in Nat /\ fetched[n].at \in Nat /\ fetched[n].price \in Nat
    BY <1>1, FeedTypes
  <1>5. History(0) = recorded
    BY <1>1, <1>4 DEF History, FeedTypeOK
  <1>6. /\ Cardinality(DOMAIN fetched \ History(0)) <= faults
        /\ Cardinality(DOMAIN fetched \ announcedAs) <= faults
    BY <1>2, <1>3, <1>5 DEF FeedInv, MissingByFaults
  <1>7. \A i \in Intervals, b \in Buckets : IsMadeOf(candles[i][b], FetchesOf(i, b), fetched)
    BY DEF FeedInv, CandlesAreMade
  <1>8. ASSUME NEW i \in Intervals, NEW b \in GetCandles(i, 0, 1000)
        PROVE  LET c == candles[i][b]
               IN  /\ c.low <= c.open /\ c.low <= c.close /\ c.open <= c.high /\ c.close <= c.high
                   /\ \A v \in {c.open, c.high, c.low, c.close} : \E n \in FetchesOf(i, b) : fetched[n].price = v
    <2>1. b \in Buckets /\ candles[i][b] # NoCandle
      BY <1>8 DEF GetCandles
    <2> QED BY <1>7, <2>1 DEF IsMadeOf
  <1>9. ASSUME faults = 0, NEW i \in Intervals, NEW b \in Buckets
        PROVE  LET S == FetchesOf(i, b) \cap History(0)
                   c == candles[i][b]
               IN  IF S = {} THEN c = NoCandle
                   ELSE /\ c.open = fetched[FirstOf(S)].price
                        /\ c.close = fetched[LastOf(S)].price
                        /\ \A n \in S : c.low <= fetched[n].price /\ fetched[n].price <= c.high
                        /\ \A b1 \in GetCandles("h1", b, b + Length[i]) :
                              c.low <= candles["h1"][b1].low /\ candles["h1"][b1].high <= c.high
    <2> DEFINE S == FetchesOf(i, b)
               c == candles[i][b]
    <2>1. recorded = DOMAIN fetched
      BY <1>2, <1>3, <1>9 DEF FeedInv, NothingIsMissing
    <2>2. FetchesOf(i, b) \cap History(0) = S
      BY <1>5, <2>1 DEF FetchesOf
    <2>3. FetchesOf(i, b) \cap Through(i) = S
      BY <1>2, <1>3 DEF FetchesOf
    <2>4. SumsUp(c, S, fetched)
      BY <1>9, <2>3 DEF FeedInv, NothingIsMissing
    <2>5. S \subseteq DOMAIN fetched /\ S \subseteq Nat
      BY <1>4 DEF FetchesOf
    <2>6. CASE S = {}
      BY <2>2, <2>4, <2>6 DEF SumsUp
    <2>7. CASE S # {}
      <3>1. PICK e \in S, l \in S : /\ \A k \in S : e <= k /\ k <= l
                                    /\ c.open = fetched[e].price /\ c.close = fetched[l].price
        BY <2>4, <2>7 DEF SumsUp
      <3>2. \A n \in S : c.low <= fetched[n].price /\ fetched[n].price <= c.high
        BY <2>4, <2>7 DEF SumsUp
      <3>3. FirstOf(S) = e
        <4>1. FirstOf(S) \in S /\ \A k \in S : FirstOf(S) <= k
          BY <3>1
        <4> QED BY <2>5, <3>1, <4>1
      <3>4. LastOf(S) = l
        <4>1. LastOf(S) \in S /\ \A k \in S : k <= LastOf(S)
          BY <3>1
        <4> QED BY <2>5, <3>1, <4>1
      <3>5. ASSUME NEW b1 \in GetCandles("h1", b, b + Length[i])
            PROVE  c.low <= candles["h1"][b1].low /\ candles["h1"][b1].high <= c.high
        <4>1. b1 \in Buckets /\ candles["h1"][b1] # NoCandle /\ b <= b1 /\ b1 < b + Length[i]
          BY DEF GetCandles
        <4>2. PICK n1 \in FetchesOf("h1", b1), n2 \in FetchesOf("h1", b1) :
                 candles["h1"][b1].low = fetched[n1].price /\ candles["h1"][b1].high = fetched[n2].price
          BY <1>7, <4>1, LengthsOfIntervals DEF IsMadeOf
        <4>3. b = bucketBounds(fetched[e].at, i) /\ fetched[e].at \in Nat
          BY <1>4, <2>5, <3>1 DEF FetchesOf
        <4>4. ASSUME NEW n \in FetchesOf("h1", b1) PROVE n \in S
          <5>1. n \in DOMAIN fetched /\ fetched[n].at \in Nat /\ bucketBounds(fetched[n].at, "h1") = b1
            BY <1>4 DEF FetchesOf
          <5>2. fetched[n].at = b1
            BY <5>1, BucketsHoldTheirHours
          <5>3. bucketBounds(b1, i) = b
            BY <4>1, <4>3, <5>1, <5>2, BucketsHoldTheirHours
          <5> QED BY <5>1, <5>2, <5>3 DEF FetchesOf
        <4> QED BY <3>2, <4>2, <4>4
      <3> HIDE DEF S, c, FirstOf, LastOf
      <3> QED BY <2>2, <2>7, <3>1, <3>2, <3>3, <3>4, <3>5 DEF c
    <2> QED BY <2>6, <2>7
  <1> QED BY <1>6, <1>8, <1>9, Zenon DEF CandlesFollowHistory, FetchesOf

\* As long as nothing fails the candles are what the history gives, and however much
\* fails they are made of prices of their own hours; see PriceFeed.
THEOREM CandlesFollow == FeedSpec => []CandlesFollowHistory
  <1>1. FeedInv => CandlesFollowHistory
    BY FeedInv_Implies
  <1> QED BY <1>1, FeedInvariant, PTL

-----------------------------------------------------------------------------
(* The admin gateway *)

\* A request carries the role its user had when it was authenticated.
ClaimsAreChecked ==
    \A g \in GatewayRequests :
        gateway[g] # Idling => /\ gateway[g].role = checkedAs[g]
                               /\ gateway[g].path = KeysPath \/ gateway[g].path[1] = 2

\* What lies below /admin/admin has no rule, so that only the super_admin passes.
OnlySuperAdminPasses ==
    /\ \A g \in GatewayRequests :
          gateway[g].stage \in {"forwarded", "answered"} => gateway[g].role = "super_admin"
    /\ \A g \in apiKeys : gateway[g].stage = "answered"

\* The inductive invariant of the gateway.
AdminInv == AdminTypeOK /\ ClaimsAreChecked /\ OnlySuperAdminPasses

Claims ==
    [stage : {"claims", "forwarded", "forbidden", "answered"}, user : Operators,
     path : Paths \cup {KeysPath}, safe : BOOLEAN, role : Roles]

LEMMA IdlingIsNoClaim == Idling \notin Claims /\ Idling.stage = "idle"
  BY DEF Idling, Claims

\* The gateway moves one request to another stage.
LEMMA MovesPreserve ==
    ASSUME AdminInv, NEW g \in GatewayRequests, gateway[g].stage # "idle",
           NEW to \in {"forwarded", "forbidden", "answered"},
           gateway' = [gateway EXCEPT ![g].stage = to],
           to \in {"forwarded", "answered"} => gateway[g].role = "super_admin",
           apiKeys' \subseteq apiKeys \cup {g}, apiKeys' # apiKeys => to = "answered",
           gateway[g].stage = "answered" => to = "answered",
           UNCHANGED <<admins, adminTokens, checkedAs, changes>>, faults' \in Nat
    PROVE  AdminInv'
  <1>1. gateway \in [GatewayRequests -> Claims \cup {Idling}]
    BY DEF AdminInv, AdminTypeOK, Claims
  <1>2. gateway[g] \in Claims /\ gateway[g] # Idling
    BY <1>1, IdlingIsNoClaim
  <1>3. gateway'[g] = [gateway[g] EXCEPT !.stage = to]
    BY <1>1
  <1>4. /\ gateway'[g] \in Claims /\ gateway'[g].stage = to
        /\ gateway'[g].role = gateway[g].role /\ gateway'[g].path = gateway[g].path
    BY <1>2, <1>3 DEF Claims
  <1>5. \A h \in GatewayRequests \ {g} : gateway'[h] = gateway[h]
    BY <1>1
  <1>6. gateway' \in [GatewayRequests -> Claims \cup {Idling}]
    <2> HIDE DEF Claims
    <2> QED BY <1>1, <1>4, <1>5
  <1>7. AdminTypeOK'
    BY <1>6 DEF AdminInv, AdminTypeOK, Claims
  <1>8. ClaimsAreChecked'
    BY <1>2, <1>4, <1>5 DEF AdminInv, ClaimsAreChecked
  <1>9. OnlySuperAdminPasses'
    BY <1>4, <1>5 DEF AdminInv, AdminTypeOK, OnlySuperAdminPasses
  <1> QED BY <1>7, <1>8, <1>9 DEF AdminInv

LEMMA AdminInit_Inv == AdminInit /\ faults \in Nat => AdminInv
  <1> SUFFICES ASSUME AdminInit, faults \in Nat PROVE AdminInv
    OBVIOUS
  <1>1. AdminTypeOK
    BY AdminAssumption DEF AdminInit, AdminTypeOK
  <1>2. \A g \in GatewayRequests : gateway[g] = Idling
    BY DEF AdminInit
  <1> QED BY <1>1, <1>2, IdlingIsNoClaim DEF AdminInit, AdminInv, ClaimsAreChecked, OnlySuperAdminPasses

LEMMA AdminNext_Inv ==
    ASSUME AdminInv, [AdminNext]_<<adminVars, faults>>
    PROVE  AdminInv'
  <1> USE AdminAssumption, FaultsAssumption
  <1>1. ASSUME bootstrap PROVE AdminInv'
    BY <1>1 DEF bootstrap, AdminInv, AdminTypeOK, ClaimsAreChecked, OnlySuperAdminPasses
  <1>2. ASSUME loginAdmin PROVE AdminInv'
    <2>1. PICK u \in Operators :
             /\ admins[u].active
             /\ adminTokens' = adminTokens \cup {[user |-> u, role |-> admins[u].role]}
      BY <1>2 DEF loginAdmin
    <2>2. admins[u].role \in Roles
      BY <2>1 DEF AdminInv, AdminTypeOK, NoAdmin
    <2> QED BY <1>2, <2>1, <2>2 DEF loginAdmin, AdminInv, AdminTypeOK, ClaimsAreChecked, OnlySuperAdminPasses
  <1>3. ASSUME TokenExpires PROVE AdminInv'
    BY <1>3 DEF TokenExpires, AdminInv, AdminTypeOK, ClaimsAreChecked, OnlySuperAdminPasses
  <1>4. ASSUME AdminChanges PROVE AdminInv'
    BY <1>4 DEF AdminChanges, AdminInv, AdminTypeOK, ClaimsAreChecked, OnlySuperAdminPasses
  <1>5. ASSUME NEW g \in GatewayRequests, requireAdminJWT(g) PROVE AdminInv'
    <2>1. PICK t \in adminTokens, path \in Paths \cup {KeysPath}, safe \in BOOLEAN :
             /\ path = KeysPath \/ path[1] = 2
             /\ admins[t.user].active
             /\ gateway' = [gateway EXCEPT ![g] =
                   [stage |-> "claims", user |-> t.user, path |-> path, safe |-> safe,
                    role |-> admins[t.user].role]]
             /\ checkedAs' = [checkedAs EXCEPT ![g] = admins[t.user].role]
      BY <1>5 DEF requireAdminJWT, RoleOf
    <2>2. t.user \in Operators /\ admins[t.user].role \in Roles
      BY <2>1 DEF AdminInv, AdminTypeOK, NoAdmin
    <2>3. gateway \in [GatewayRequests -> Claims \cup {Idling}]
      BY DEF AdminInv, AdminTypeOK, Claims
    <2>4. /\ gateway'[g] \in Claims /\ gateway'[g].stage = "claims"
          /\ gateway'[g].role = admins[t.user].role /\ gateway'[g].path = path
      BY <2>1, <2>2, <2>3 DEF Claims
    <2>5. \A h \in GatewayRequests \ {g} : gateway'[h] = gateway[h] /\ checkedAs'[h] = checkedAs[h]
      BY <2>1, <2>3 DEF AdminInv, AdminTypeOK
    <2>6. gateway' \in [GatewayRequests -> Claims \cup {Idling}]
      <3> HIDE DEF Claims
      <3> QED BY <2>1, <2>3, <2>4, <2>5
    <2>7. AdminTypeOK'
      BY <1>5, <2>1, <2>2, <2>6 DEF requireAdminJWT, AdminInv, AdminTypeOK, Claims
    <2>8. checkedAs'[g] = admins[t.user].role
      BY <2>1 DEF AdminInv, AdminTypeOK
    <2>9. ClaimsAreChecked'
      BY <2>1, <2>4, <2>5, <2>8 DEF AdminInv, ClaimsAreChecked
    <2>10. g \notin apiKeys /\ apiKeys' = apiKeys
      BY <1>5 DEF requireAdminJWT, AdminInv, OnlySuperAdminPasses
    <2>11. OnlySuperAdminPasses'
      BY <2>4, <2>5, <2>10 DEF AdminInv, AdminTypeOK, OnlySuperAdminPasses
    <2> QED BY <2>7, <2>9, <2>11 DEF AdminInv
  <1>6. ASSUME NEW g \in GatewayRequests, rbacMiddleware(g) PROVE AdminInv'
    <2>1. gateway[g].path \in Paths /\ gateway[g].path[1] = 2
      <3>1. gateway[g] # Idling /\ gateway[g].path \in Paths
        BY <1>6, IdlingIsNoClaim DEF rbacMiddleware
      <3>2. KeysPath \notin Paths
        BY DEF KeysPath, Paths, permissionMap
      <3> QED BY <3>1, <3>2 DEF AdminInv, ClaimsAreChecked
    <2>2. ~Permits(matchRouteRule(gateway[g].path), gateway[g].role, gateway[g].safe)
      BY <2>1 DEF Permits, matchRouteRule
    <2>3. PICK to \in {"forwarded", "forbidden"} :
             /\ gateway' = [gateway EXCEPT ![g].stage = to]
             /\ to = "forwarded" => gateway[g].role = "super_admin"
      BY <1>6, <2>2 DEF rbacMiddleware
    <2> QED BY <1>6, <2>3, MovesPreserve DEF rbacMiddleware, AdminInv, AdminTypeOK
  <1>7. ASSUME NEW g \in GatewayRequests, createAPIKey(g) PROVE AdminInv'
    <2>1. faults' \in Nat
      BY <1>7 DEF createAPIKey, Fault, AdminInv, AdminTypeOK
    <2>2. CASE gateway[g].role # "super_admin"
      BY <1>7, <2>1, <2>2, MovesPreserve DEF createAPIKey
    <2>3. CASE gateway[g].role = "super_admin"
      BY <1>7, <2>1, <2>3, MovesPreserve DEF createAPIKey
    <2> QED BY <2>2, <2>3
  <1>8. ASSUME NEW g \in GatewayRequests, proxied(g) PROVE AdminInv'
    <2>1. gateway[g].role = "super_admin"
      BY <1>8 DEF proxied, AdminInv, OnlySuperAdminPasses
    <2> QED BY <1>8, <2>1, MovesPreserve DEF proxied, AdminInv, AdminTypeOK
  <1>9. CASE UNCHANGED <<adminVars, faults>>
    BY <1>9 DEF adminVars, AdminInv, AdminTypeOK, ClaimsAreChecked, OnlySuperAdminPasses
  <1> QED BY <1>1, <1>2, <1>3, <1>4, <1>5, <1>6, <1>7, <1>8, <1>9 DEF AdminNext

\* The gateway's invariant, types included, in every reachable state.
THEOREM AdminInvariant == AdminSpec => []AdminInv
  <1>1. AdminInv /\ [AdminNext]_<<adminVars, faults>> => AdminInv'
    BY AdminNext_Inv
  <1>2. AdminInit /\ faults = 0 => AdminInv
    BY AdminInit_Inv
  <1> QED BY <1>1, <1>2, PTL DEF AdminSpec

LEMMA AdminInv_Implies ==
    ASSUME AdminInv
    PROVE  GatewayFollowsTheDatabase
  <1>1. ASSUME NEW g \in GatewayRequests, gateway[g].stage \in {"forwarded", "answered"},
               gateway[g].path # KeysPath
        PROVE  Permits(permissionMap[gateway[g].path[2]], checkedAs[g], gateway[g].safe)
    <2>1. gateway[g].role = "super_admin" /\ gateway[g] # Idling
      BY <1>1, IdlingIsNoClaim DEF AdminInv, OnlySuperAdminPasses
    <2>2. checkedAs[g] = "super_admin" /\ gateway[g].path \in Paths
      BY <1>1, <2>1 DEF AdminInv, AdminTypeOK, ClaimsAreChecked
    <2>3. \A group \in DOMAIN permissionMap : "super_admin" \in permissionMap[group].write
      BY DEF permissionMap
    <2> QED BY <2>2, <2>3 DEF Paths, Permits
  <1>2. ASSUME NEW g \in apiKeys PROVE checkedAs[g] = "super_admin"
    BY <1>2, IdlingIsNoClaim
       DEF AdminInv, AdminTypeOK, ClaimsAreChecked, OnlySuperAdminPasses
  <1> QED BY <1>1, <1>2 DEF GatewayFollowsTheDatabase

\* However roles are given and taken meanwhile, what is let through is permitted to
\* the role the account had when the request was authenticated.
THEOREM GatewayFollows == AdminSpec => []GatewayFollowsTheDatabase
  <1>1. AdminInv => GatewayFollowsTheDatabase
    BY AdminInv_Implies
  <1> QED BY <1>1, AdminInvariant, PTL

-----------------------------------------------------------------------------
(* Applications and their reviews *)

\* A set that grows by one element at most.
LEMMA OneMoreAtMost ==
    ASSUME NEW S, IsFiniteSet(S), NEW T, NEW x, T \subseteq S \cup {x}
    PROVE  /\ IsFiniteSet(T) /\ Cardinality(S) \in Nat /\ Cardinality(T) \in Nat
           /\ Cardinality(T) <= Cardinality(S) + 1
           /\ T \subseteq S => Cardinality(T) <= Cardinality(S)
  <1>1. Cardinality(S) \in Nat
    BY FS_CardinalityType
  <1>2. /\ IsFiniteSet(S \cup {x}) /\ Cardinality(S \cup {x}) \in Nat
        /\ Cardinality(S \cup {x}) <= Cardinality(S) + 1
    BY <1>1, FS_AddElement
  <1>3. IsFiniteSet(T) /\ Cardinality(T) <= Cardinality(S \cup {x})
    BY <1>2, FS_Subset
  <1>4. Cardinality(T) \in Nat
    BY <1>3, FS_CardinalityType
  <1>5. T \subseteq S => Cardinality(T) <= Cardinality(S)
    BY FS_Subset
  <1> QED BY <1>1, <1>2, <1>3, <1>4, <1>5

\* At most one element, said without counting.
LEMMA OneAtMost ==
    ASSUME NEW S, \A a, b \in S : a = b
    PROVE  IsFiniteSet(S) /\ Cardinality(S) <= 1
  <1>1. CASE S = {}
    BY <1>1, FS_EmptySet
  <1>2. CASE S # {}
    <2>1. PICK a \in S : TRUE
      BY <1>2
    <2>2. S = {a}
      BY <2>1
    <2>3. IsFiniteSet({a}) /\ Cardinality({a}) = 1
      BY FS_Singleton
    <2> QED BY <2>2, <2>3
  <1> QED BY <1>1, <1>2

\* An application is that of a submission that was saved, and a review is of an
\* application.
RequestsComeFirst ==
    /\ \A s \in Submissions :
          /\ submission[s] # NoSubmission => s \in documents
          /\ applications[s] # NoApplication => submission[s].stage \in {"created", "done"}
    /\ \A v \in Reviews :
          verdict[v] # NoVerdict => applications[verdict[v].id] # NoApplication

\* What a user has applied for, once.
OneActive == \A u \in Applicants : \A s, t \in ActiveOf(u) : s = t

\* The announcements that are lost for good.
Unannounced == passedStatus \ (kycEvents \cup UnderWay)

OnlyFaultsSilence ==
    /\ kycEvents \cup UnderWay \subseteq passedStatus
    /\ IsFiniteSet(passedStatus)
    /\ Cardinality(Unannounced) <= faults

\* The inductive invariant of the applications.
KycInv == KycTypeOK /\ RequestsComeFirst /\ OneActive /\ OnlyFaultsSilence

KycStatuses == {"pending", "approved", "rejected"}
KycEventsType == [id : Submissions, status : KycStatuses]
Apps == [user : Applicants, status : KycStatuses]
Saved == [stage : {"saved", "created", "done"}, user : Applicants]
Verdicts ==
    [stage : {"update", "publish", "done"}, id : Submissions, status : {"approved", "rejected"}]

KycTyped ==
    /\ documents \subseteq Submissions
    /\ applications \in [Submissions -> Apps \cup {NoApplication}]
    /\ submission \in [Submissions -> Saved \cup {NoSubmission}]
    /\ verdict \in [Reviews -> Verdicts \cup {NoVerdict}]
    /\ passedStatus \subseteq KycEventsType
    /\ kycEvents \subseteq KycEventsType
    /\ faults \in Nat

LEMMA KycTypes == (KycTypeOK <=> KycTyped) /\ (KycTypeOK' <=> KycTyped')
  BY DEF KycTyped, KycTypeOK, Apps, Saved, Verdicts, KycEventsType, KycStatuses

\* The records of the applications, and what they are not.
LEMMA KycFields ==
    /\ NoApplication \notin Apps /\ NoSubmission \notin Saved /\ NoVerdict \notin Verdicts
    /\ NoSubmission.stage = "idle" /\ NoVerdict.stage = "idle"
    /\ NoApplication.status \notin Active
    /\ \A a \in Apps : a.user \in Applicants /\ a.status \in KycStatuses
    /\ \A r \in Saved : r.stage \in {"saved", "created", "done"} /\ r.user \in Applicants
    /\ \A w \in Verdicts : /\ w.stage \in {"update", "publish", "done"} /\ w.id \in Submissions
                           /\ w.status \in {"approved", "rejected"}
  BY DEF Apps, Saved, Verdicts, KycStatuses, NoApplication, NoSubmission, NoVerdict, Active

LEMMA UnderWayIs ==
    ASSUME NEW e
    PROVE  e \in UnderWay <=>
             \/ \E s \in Submissions :
                   submission[s].stage = "created" /\ e = [id |-> s, status |-> "pending"]
             \/ \E v \in Reviews :
                   verdict[v].stage = "publish" /\ e = [id |-> verdict[v].id, status |-> verdict[v].status]
  BY DEF UnderWay

\* The count of what is lost, over a step that loses nothing or one announcement.
LEMMA SilencePreserved ==
    ASSUME OnlyFaultsSilence, faults \in Nat, NEW x, NEW e,
           passedStatus' \subseteq passedStatus \cup {e},
           (kycEvents \cup UnderWay)' \subseteq passedStatus',
           \/ Unannounced' \subseteq Unannounced /\ faults' \in {faults, faults + 1}
           \/ Unannounced' \subseteq Unannounced \cup {x} /\ faults' = faults + 1
    PROVE  OnlyFaultsSilence'
  <1>1. IsFiniteSet(passedStatus')
    BY OneMoreAtMost DEF OnlyFaultsSilence
  <1>2. IsFiniteSet(Unannounced)
    BY FS_Subset DEF OnlyFaultsSilence, Unannounced
  <1>3. Unannounced' \subseteq Unannounced \cup {x}
    OBVIOUS
  <1>4. /\ Cardinality(Unannounced) \in Nat /\ Cardinality(Unannounced') \in Nat
        /\ Cardinality(Unannounced') <= Cardinality(Unannounced) + 1
        /\ Unannounced' \subseteq Unannounced => Cardinality(Unannounced') <= Cardinality(Unannounced)
    BY <1>2, <1>3, OneMoreAtMost
  <1> QED BY <1>1, <1>4 DEF OnlyFaultsSilence

LEMMA KycInit_Inv == KycInit /\ faults \in Nat => KycInv
  <1> SUFFICES ASSUME KycInit, faults \in Nat PROVE KycInv
    OBVIOUS
  <1>1. KycTypeOK
    BY KycTypes DEF KycInit, KycTyped
  <1>2. /\ \A s \in Submissions : submission[s] = NoSubmission /\ applications[s] = NoApplication
        /\ \A v \in Reviews : verdict[v] = NoVerdict
    BY DEF KycInit
  <1>3. UnderWay = {}
    BY <1>2, UnderWayIs, KycFields
  <1>4. OneActive
    BY <1>2, KycFields DEF OneActive, ActiveOf
  <1>5. OnlyFaultsSilence
    BY <1>3, FS_EmptySet DEF KycInit, OnlyFaultsSilence, Unannounced
  <1> QED BY <1>1, <1>2, <1>4, <1>5 DEF KycInv, RequestsComeFirst

\* Moving a request on: the field it changes.
LEMMA SubmissionMoves ==
    ASSUME KycTypeOK, NEW s \in Submissions, submission[s] # NoSubmission,
           NEW to \in {"created", "done"}, submission' = [submission EXCEPT ![s].stage = to]
    PROVE  /\ submission' \in [Submissions -> Saved \cup {NoSubmission}]
           /\ submission'[s].stage = to /\ submission'[s] # NoSubmission
           /\ \A t \in Submissions \ {s} : submission'[t] = submission[t]
  <1>1. submission \in [Submissions -> Saved \cup {NoSubmission}]
    BY KycTypes DEF KycTyped
  <1>2. submission[s] \in Saved /\ submission'[s] = [submission[s] EXCEPT !.stage = to]
    BY <1>1
  <1>3. submission'[s] \in Saved /\ submission'[s].stage = to
    BY <1>2 DEF Saved
  <1>4. \A t \in Submissions \ {s} : submission'[t] = submission[t]
    BY <1>1
  <1> HIDE DEF Saved, NoSubmission
  <1> QED BY <1>1, <1>3, <1>4, KycFields

LEMMA VerdictMoves ==
    ASSUME KycTypeOK, NEW v \in Reviews, verdict[v] # NoVerdict,
           NEW to \in {"publish", "done"}, verdict' = [verdict EXCEPT ![v].stage = to]
    PROVE  /\ verdict' \in [Reviews -> Verdicts \cup {NoVerdict}]
           /\ verdict'[v].stage = to /\ verdict'[v] # NoVerdict
           /\ verdict'[v].id = verdict[v].id /\ verdict'[v].status = verdict[v].status
           /\ \A w \in Reviews \ {v} : verdict'[w] = verdict[w]
  <1>1. verdict \in [Reviews -> Verdicts \cup {NoVerdict}]
    BY KycTypes DEF KycTyped
  <1>2. verdict[v] \in Verdicts /\ verdict'[v] = [verdict[v] EXCEPT !.stage = to]
    BY <1>1
  <1>3. /\ verdict'[v] \in Verdicts /\ verdict'[v].stage = to
        /\ verdict'[v].id = verdict[v].id /\ verdict'[v].status = verdict[v].status
    BY <1>2 DEF Verdicts
  <1>4. \A w \in Reviews \ {v} : verdict'[w] = verdict[w]
    BY <1>1
  <1> HIDE DEF Verdicts, NoVerdict
  <1> QED BY <1>1, <1>3, <1>4, KycFields

\* A submission ends, announced or not; silent only at the cost of a fault.
LEMMA SubmissionEnds ==
    ASSUME KycInv, NEW s \in Submissions, submission[s].stage \in {"saved", "created"},
           submission' = [submission EXCEPT ![s].stage = "done"],
           UNCHANGED <<documents, applications, verdict, passedStatus>>,
           \/ /\ submission[s].stage = "created"
              /\ kycEvents' = kycEvents \cup {[id |-> s, status |-> "pending"]}
              /\ UNCHANGED faults
           \/ submission[s].stage = "saved" /\ UNCHANGED <<kycEvents, faults>>
           \/ UNCHANGED kycEvents /\ faults' = faults + 1
    PROVE  KycInv'
  <1> DEFINE e == [id |-> s, status |-> "pending"]
  <1>1. KycTypeOK /\ RequestsComeFirst /\ OneActive /\ OnlyFaultsSilence
    BY DEF KycInv
  <1>2. /\ submission' \in [Submissions -> Saved \cup {NoSubmission}]
        /\ submission'[s].stage = "done" /\ submission'[s] # NoSubmission
        /\ \A t \in Submissions \ {s} : submission'[t] = submission[t]
    BY <1>1, SubmissionMoves, KycFields
  <1>3. e \in KycEventsType
    BY DEF KycEventsType, KycStatuses
  <1>4. KycTypeOK'
    BY <1>1, <1>2, <1>3, KycTypes DEF KycTyped
  <1>5. RequestsComeFirst'
    BY <1>1, <1>2, KycFields DEF RequestsComeFirst
  <1>6. OneActive'
    BY <1>1 DEF OneActive, ActiveOf
  <1>7. submission[s].stage = "created" => e \in UnderWay
    BY UnderWayIs
  <1>8. UnderWay' \subseteq UnderWay
    BY <1>2, UnderWayIs DEF UnderWay
  <1>9. UnderWay \subseteq UnderWay' \cup {e}
    BY <1>2, UnderWayIs DEF UnderWay
  <1>10. submission[s].stage = "saved" => UnderWay' = UnderWay
    BY <1>2, UnderWayIs DEF UnderWay
  <1> HIDE DEF e
  <1>11. (kycEvents \cup UnderWay)' \subseteq passedStatus'
    BY <1>1, <1>7, <1>8 DEF OnlyFaultsSilence, e
  <1>12. \/ Unannounced' \subseteq Unannounced /\ faults' \in {faults, faults + 1}
         \/ Unannounced' \subseteq Unannounced \cup {e} /\ faults' = faults + 1
    BY <1>9, <1>10 DEF Unannounced, e
  <1>13. OnlyFaultsSilence'
    BY <1>1, <1>11, <1>12, SilencePreserved, KycTypes DEF KycTyped
  <1> QED BY <1>4, <1>5, <1>6, <1>13 DEF KycInv

\* The same of a review.
LEMMA ReviewEnds ==
    ASSUME KycInv, NEW v \in Reviews, verdict[v].stage \in {"update", "publish"},
           verdict' = [verdict EXCEPT ![v].stage = "done"],
           UNCHANGED <<documents, applications, submission, passedStatus>>,
           \/ /\ verdict[v].stage = "publish"
              /\ kycEvents' = kycEvents \cup {[id |-> verdict[v].id, status |-> verdict[v].status]}
              /\ UNCHANGED faults
           \/ UNCHANGED kycEvents /\ faults' = faults + 1
    PROVE  KycInv'
  <1> DEFINE e == [id |-> verdict[v].id, status |-> verdict[v].status]
  <1>1. KycTypeOK /\ RequestsComeFirst /\ OneActive /\ OnlyFaultsSilence
    BY DEF KycInv
  <1>2. /\ verdict' \in [Reviews -> Verdicts \cup {NoVerdict}]
        /\ verdict'[v].stage = "done" /\ verdict'[v].id = verdict[v].id
        /\ \A w \in Reviews \ {v} : verdict'[w] = verdict[w]
        /\ verdict[v] \in Verdicts
    <2>1. verdict[v] # NoVerdict
      BY KycFields
    <2> QED BY <1>1, <2>1, VerdictMoves, KycTypes, ZenonT(30) DEF KycTyped
  <1>3. e \in KycEventsType
    BY <1>2, KycFields DEF KycEventsType, KycStatuses
  <1>4. KycTypeOK'
    BY <1>1, <1>2, <1>3, KycTypes DEF KycTyped
  <1>5. RequestsComeFirst'
    BY <1>1, <1>2, KycFields DEF RequestsComeFirst
  <1>6. OneActive'
    BY <1>1 DEF OneActive, ActiveOf
  <1>7. verdict[v].stage = "publish" => e \in UnderWay
    BY UnderWayIs
  <1>8. UnderWay' \subseteq UnderWay
    BY <1>2, UnderWayIs DEF UnderWay
  <1>9. UnderWay \subseteq UnderWay' \cup {e}
    BY <1>2, UnderWayIs DEF UnderWay
  <1> HIDE DEF e
  <1>11. (kycEvents \cup UnderWay)' \subseteq passedStatus'
    BY <1>1, <1>7, <1>8 DEF OnlyFaultsSilence, e
  <1>12. \/ Unannounced' \subseteq Unannounced /\ faults' \in {faults, faults + 1}
         \/ Unannounced' \subseteq Unannounced \cup {e} /\ faults' = faults + 1
    BY <1>9 DEF Unannounced, e
  <1>13. OnlyFaultsSilence'
    BY <1>1, <1>11, <1>12, SilencePreserved, KycTypes DEF KycTyped
  <1> QED BY <1>4, <1>5, <1>6, <1>13 DEF KycInv

\* Becomes writes one application.
LEMMA BecomesFields ==
    ASSUME KycTypeOK, NEW id \in Submissions, NEW app \in Apps, Becomes(id, app)
    PROVE  /\ applications' \in [Submissions -> Apps \cup {NoApplication}]
           /\ applications'[id] = app /\ app # NoApplication
           /\ \A t \in Submissions \ {id} : applications'[t] = applications[t]
           /\ [id |-> id, status |-> app.status] \in KycEventsType
           /\ passedStatus' = passedStatus \cup {[id |-> id, status |-> app.status]}
  <1>1. applications \in [Submissions -> Apps \cup {NoApplication}]
    BY KycTypes DEF KycTyped
  <1>2. app # NoApplication /\ app.status \in KycStatuses
    BY KycFields
  <1> HIDE DEF Apps, NoApplication
  <1> QED BY <1>1, <1>2 DEF Becomes, KycEventsType

LEMMA CreateApplication_Inv ==
    ASSUME KycInv, NEW s \in Submissions, CreateApplication(s)
    PROVE  KycInv'
  <1> DEFINE u == submission[s].user
  <1> DEFINE app == [user |-> u, status |-> "pending"]
  <1> DEFINE e == [id |-> s, status |-> "pending"]
  <1>1. KycTypeOK /\ RequestsComeFirst /\ OneActive /\ OnlyFaultsSilence
    BY DEF KycInv
  <1>2. /\ submission[s].stage = "saved" /\ submission[s] # NoSubmission
        /\ applications[s] = NoApplication
    BY <1>1, KycFields DEF CreateApplication, RequestsComeFirst
  <1>3. CASE ActiveOf(u) = {}
    <2>1. submission[s] \in Saved
      BY <1>1, <1>2, KycTypes DEF KycTyped
    <2>2. app \in Apps /\ u \in Applicants
      BY <2>1, KycFields DEF Apps, KycStatuses
    <2>3. /\ Becomes(s, app) /\ submission' = [submission EXCEPT ![s].stage = "created"]
          /\ UNCHANGED <<documents, verdict, kycEvents, faults>>
      BY <1>3 DEF CreateApplication
    <2>4. /\ applications' \in [Submissions -> Apps \cup {NoApplication}]
          /\ applications'[s] = app /\ app # NoApplication
          /\ \A t \in Submissions \ {s} : applications'[t] = applications[t]
          /\ e \in KycEventsType /\ passedStatus' = passedStatus \cup {e}
      <3> HIDE DEF u
      <3> QED BY <1>1, <2>2, <2>3, BecomesFields
    <2>5. /\ submission' \in [Submissions -> Saved \cup {NoSubmission}]
          /\ submission'[s].stage = "created" /\ submission'[s] # NoSubmission
          /\ \A t \in Submissions \ {s} : submission'[t] = submission[t]
      BY <1>1, <1>2, <2>3, SubmissionMoves
    <2>6. KycTypeOK'
      BY <1>1, <2>3, <2>4, <2>5, KycTypes DEF KycTyped
    <2>7. RequestsComeFirst'
      <3>1. \A v \in Reviews : verdict[v] # NoVerdict => verdict[v].id \in Submissions
        BY <1>1, KycTypes, KycFields DEF KycTyped
      <3>2. \A t \in Submissions : applications[t] # NoApplication => applications'[t] # NoApplication
        BY <2>4
      <3>3. \A v \in Reviews : verdict'[v] # NoVerdict => applications'[verdict'[v].id] # NoApplication
        BY <1>1, <2>3, <3>1, <3>2 DEF RequestsComeFirst
      <3> QED BY <1>1, <1>2, <2>3, <2>4, <2>5, <3>3 DEF RequestsComeFirst
    <2>8. OneActive'
      <3>1. ASSUME NEW w \in Applicants, NEW a \in ActiveOf(w)', NEW b \in ActiveOf(w)'
            PROVE  a = b
        <4>1. CASE w = u
          <5>1. \A t \in Submissions \ {s} : t \in ActiveOf(w)' => t \in ActiveOf(w)
            BY <2>4 DEF ActiveOf
          <5> QED BY <1>3, <3>1, <4>1, <5>1 DEF ActiveOf
        <4>2. CASE w # u
          <5>1. s \notin ActiveOf(w)'
            BY <2>4, <4>2 DEF ActiveOf
          <5>2. a \in ActiveOf(w) /\ b \in ActiveOf(w)
            BY <2>4, <3>1, <5>1 DEF ActiveOf
          <5> QED BY <1>1, <5>2 DEF OneActive
        <4> QED BY <4>1, <4>2
      <3> QED BY <3>1 DEF OneActive
    <2>9. UnderWay' = UnderWay \cup {e}
      BY <1>2, <2>3, <2>5, UnderWayIs DEF UnderWay
    <2> HIDE DEF e
    <2>10. (kycEvents \cup UnderWay)' \subseteq passedStatus'
      BY <1>1, <2>3, <2>4, <2>9 DEF OnlyFaultsSilence
    <2>11. Unannounced' \subseteq Unannounced
      BY <2>3, <2>4, <2>9 DEF Unannounced
    <2>12. OnlyFaultsSilence'
      BY <1>1, <2>3, <2>4, <2>10, <2>11, SilencePreserved, KycTypes DEF KycTyped
    <2> QED BY <2>6, <2>7, <2>8, <2>12 DEF KycInv
  <1>4. CASE ActiveOf(u) # {}
    BY <1>2, <1>4, SubmissionEnds DEF CreateApplication
  <1> QED BY <1>3, <1>4

LEMMA SetStatus_Inv ==
    ASSUME KycInv, NEW v \in Reviews, SetStatus(v)
    PROVE  KycInv'
  <1> DEFINE id == verdict[v].id
  <1> DEFINE app == [applications[id] EXCEPT !.status = verdict[v].status]
  <1> DEFINE e == [id |-> id, status |-> verdict[v].status]
  <1>1. KycTypeOK /\ RequestsComeFirst /\ OneActive /\ OnlyFaultsSilence
    BY DEF KycInv
  <1>2. /\ verdict[v].stage = "update" /\ verdict[v] # NoVerdict
        /\ Becomes(id, app) /\ verdict' = [verdict EXCEPT ![v].stage = "publish"]
        /\ UNCHANGED <<documents, submission, kycEvents, faults>>
    BY KycFields DEF SetStatus
  <1>3. verdict[v] \in Verdicts
    BY <1>1, <1>2, KycTypes DEF KycTyped
  <1>4. id \in Submissions /\ verdict[v].status \in {"approved", "rejected"}
    BY <1>3, KycFields
  <1>5. applications[id] # NoApplication /\ applications[id] \in Apps
    BY <1>1, <1>2, <1>4, KycTypes DEF KycTyped, RequestsComeFirst
  <1>6. app \in Apps /\ app.user = applications[id].user /\ app.status = verdict[v].status
    BY <1>4, <1>5 DEF Apps, KycStatuses
  <1>7. /\ applications' \in [Submissions -> Apps \cup {NoApplication}]
        /\ applications'[id] = app /\ app # NoApplication
        /\ \A t \in Submissions \ {id} : applications'[t] = applications[t]
        /\ e \in KycEventsType /\ passedStatus' = passedStatus \cup {e}
    <2> HIDE DEF id, app
    <2> QED BY <1>1, <1>2, <1>4, <1>6, BecomesFields
  <1>8. /\ verdict' \in [Reviews -> Verdicts \cup {NoVerdict}]
        /\ verdict'[v].stage = "publish" /\ verdict'[v].id = id
        /\ verdict'[v].status = verdict[v].status
        /\ \A w \in Reviews \ {v} : verdict'[w] = verdict[w]
    BY <1>1, <1>2, VerdictMoves
  <1>9. KycTypeOK'
    BY <1>1, <1>2, <1>7, <1>8, KycTypes DEF KycTyped
  <1>10. \A t \in Submissions : applications'[t] # NoApplication <=> applications[t] # NoApplication
    BY <1>5, <1>7
  <1>11. RequestsComeFirst'
    <2>1. \A t \in Submissions : verdict[v].id = t => applications[t] # NoApplication
      BY <1>5
    <2>2. \A w \in Reviews : verdict'[w] # NoVerdict => applications'[verdict'[w].id] # NoApplication
      <3>1. ASSUME NEW w \in Reviews \ {v}, verdict[w] # NoVerdict
            PROVE  verdict[w].id \in Submissions
        BY <1>1, <3>1, KycTypes, KycFields DEF KycTyped
      <3> QED BY <1>1, <1>4, <1>5, <1>8, <1>10, <3>1 DEF RequestsComeFirst
    <2> QED BY <1>1, <1>2, <1>10, <2>2 DEF RequestsComeFirst
  <1>12. OneActive'
    <2>1. \A u \in Applicants : id \notin ActiveOf(u)'
      BY <1>4, <1>6, <1>7 DEF ActiveOf, Active
    <2>2. \A u \in Applicants : ActiveOf(u)' \subseteq ActiveOf(u)
      BY <1>7, <2>1 DEF ActiveOf
    <2> QED BY <1>1, <2>2 DEF OneActive
  <1>13. UnderWay' = UnderWay \cup {e}
    BY <1>2, <1>8, UnderWayIs DEF UnderWay
  <1> HIDE DEF e
  <1>14. (kycEvents \cup UnderWay)' \subseteq passedStatus'
    BY <1>1, <1>2, <1>7, <1>13 DEF OnlyFaultsSilence
  <1>15. Unannounced' \subseteq Unannounced
    BY <1>2, <1>7, <1>13 DEF Unannounced
  <1>16. OnlyFaultsSilence'
    BY <1>1, <1>2, <1>7, <1>14, <1>15, SilencePreserved, KycTypes DEF KycTyped
  <1> QED BY <1>9, <1>11, <1>12, <1>16 DEF KycInv

LEMMA KycNext_Inv ==
    ASSUME KycInv, [KycNext]_<<kycVars, faults>>
    PROVE  KycInv'
  <1>1. KycTypeOK /\ RequestsComeFirst /\ OneActive /\ OnlyFaultsSilence
    BY DEF KycInv
  <1>2. ASSUME NEW s \in Submissions, submit(s) PROVE KycInv'
    <2>1. PICK u \in Applicants :
             submission' = [submission EXCEPT ![s] = [stage |-> "saved", user |-> u]]
      BY <1>2 DEF submit
    <2>2. /\ submission[s].stage = "idle" /\ documents' = documents \cup {s}
          /\ UNCHANGED <<applications, verdict, passedStatus, kycEvents, faults>>
      BY <1>2 DEF submit
    <2>3. [stage |-> "saved", user |-> u] \in Saved
      BY DEF Saved
    <2>4. submission \in [Submissions -> Saved \cup {NoSubmission}]
      BY <1>1, KycTypes DEF KycTyped
    <2>5. /\ submission' \in [Submissions -> Saved \cup {NoSubmission}]
          /\ submission'[s].stage = "saved"
          /\ \A t \in Submissions \ {s} : submission'[t] = submission[t]
      <3> HIDE DEF Saved, NoSubmission
      <3> QED BY <2>1, <2>3, <2>4
    <2>6. KycTypeOK'
      BY <1>1, <2>2, <2>5, KycTypes DEF KycTyped
    <2>7. RequestsComeFirst'
      BY <1>1, <2>2, <2>5 DEF RequestsComeFirst
    <2>8. OneActive'
      BY <1>1, <2>2 DEF OneActive, ActiveOf
    <2>9. UnderWay' = UnderWay
      BY <2>2, <2>5, UnderWayIs DEF UnderWay
    <2>10. OnlyFaultsSilence'
      BY <1>1, <2>2, <2>9 DEF OnlyFaultsSilence, Unannounced
    <2> QED BY <2>6, <2>7, <2>8, <2>10 DEF KycInv
  <1>3. ASSUME NEW s \in Submissions, submitted(s) PROVE KycInv'
    BY <1>3, SubmissionEnds DEF submitted, publishEvent, Fault
  <1>4. ASSUME NEW v \in Reviews, review(v) PROVE KycInv'
    <2>1. PICK id \in Submissions, status \in {"approved", "rejected"} :
             /\ applications[id] # NoApplication
             /\ verdict' = [verdict EXCEPT ![v] = [stage |-> "update", id |-> id, status |-> status]]
      BY <1>4 DEF review
    <2>2. /\ verdict[v].stage = "idle"
          /\ UNCHANGED <<documents, applications, submission, passedStatus, kycEvents, faults>>
      BY <1>4 DEF review
    <2>3. [stage |-> "update", id |-> id, status |-> status] \in Verdicts
      BY DEF Verdicts
    <2>4. verdict \in [Reviews -> Verdicts \cup {NoVerdict}]
      BY <1>1, KycTypes DEF KycTyped
    <2>5. /\ verdict' \in [Reviews -> Verdicts \cup {NoVerdict}]
          /\ verdict'[v].stage = "update" /\ verdict'[v].id = id
          /\ \A w \in Reviews \ {v} : verdict'[w] = verdict[w]
      <3> HIDE DEF Verdicts, NoVerdict
      <3> QED BY <2>1, <2>3, <2>4
    <2>6. KycTypeOK'
      BY <1>1, <2>2, <2>5, KycTypes DEF KycTyped
    <2>7. RequestsComeFirst'
      BY <1>1, <2>1, <2>2, <2>5 DEF RequestsComeFirst
    <2>8. OneActive'
      BY <1>1, <2>2 DEF OneActive, ActiveOf
    <2>9. UnderWay' = UnderWay
      BY <2>2, <2>5, UnderWayIs DEF UnderWay
    <2>10. OnlyFaultsSilence'
      BY <1>1, <2>2, <2>9 DEF OnlyFaultsSilence, Unannounced
    <2> QED BY <2>6, <2>7, <2>8, <2>10 DEF KycInv
  <1>5. ASSUME NEW v \in Reviews, reviewed(v) PROVE KycInv'
    BY <1>5, ReviewEnds DEF reviewed, publishEvent, Fault
  <1>6. ASSUME KycDies PROVE KycInv'
    <2>1. UNCHANGED kycEvents /\ faults' = faults + 1
      BY <1>6 DEF KycDies, Fault
    <2>2. CASE \E s \in Submissions :
                 /\ submission[s].stage \in {"saved", "created"}
                 /\ submission' = [submission EXCEPT ![s].stage = "done"]
                 /\ UNCHANGED verdict
      BY <1>6, <2>1, <2>2, SubmissionEnds DEF KycDies
    <2>3. CASE \E v \in Reviews :
                 /\ verdict[v].stage \in {"update", "publish"}
                 /\ verdict' = [verdict EXCEPT ![v].stage = "done"]
                 /\ UNCHANGED submission
      BY <1>6, <2>1, <2>3, ReviewEnds DEF KycDies
    <2> QED BY <1>6, <2>2, <2>3 DEF KycDies
  <1>7. CASE UNCHANGED <<kycVars, faults>>
    <2>1. KycTypeOK' /\ RequestsComeFirst' /\ OneActive'
      BY <1>1, <1>7 DEF kycVars, KycTypeOK, RequestsComeFirst, OneActive, ActiveOf
    <2>2. OnlyFaultsSilence'
      BY <1>1, <1>7 DEF kycVars, OnlyFaultsSilence, Unannounced, UnderWay
    <2> QED BY <2>1, <2>2 DEF KycInv
  <1> QED BY <1>2, <1>3, <1>4, <1>5, <1>6, <1>7, CreateApplication_Inv, SetStatus_Inv DEF KycNext

\* The invariant of the applications, types included, in every reachable state.
THEOREM KycInvariant == KycSpec => []KycInv
  <1>1. KycInv /\ [KycNext]_<<kycVars, faults>> => KycInv'
    BY KycNext_Inv
  <1>2. KycInit /\ faults = 0 => KycInv
    BY KycInit_Inv
  <1> QED BY <1>1, <1>2, PTL DEF KycSpec

LEMMA KycInv_Implies ==
    ASSUME KycInv
    PROVE  ApplicationsAreAnnounced
  <1>1. \A u \in Applicants : Cardinality(ActiveOf(u)) <= 1
    BY OneAtMost DEF KycInv, OneActive
  <1>2. \A s \in Submissions : applications[s] # NoApplication => s \in documents
    BY KycFields DEF KycInv, RequestsComeFirst
  <1>3. /\ kycEvents \subseteq passedStatus
        /\ Cardinality(passedStatus \ (kycEvents \cup UnderWay)) <= faults
    BY DEF KycInv, OnlyFaultsSilence, Unannounced
  <1> QED BY <1>1, <1>2, <1>3 DEF ApplicationsAreAnnounced

\* One active application a user, documents kept, and nothing announced that was not
\* so; what was so is announced, but for one message a failure.
THEOREM ApplicationsAnnounced == KycSpec => []ApplicationsAreAnnounced
  <1>1. KycInv => ApplicationsAreAnnounced
    BY KycInv_Implies
  <1> QED BY <1>1, KycInvariant, PTL

-----------------------------------------------------------------------------
(* Accounts and tokens *)

\* An account is made by a registration past its insert, is announced only then, and
\* tokens are signed for nobody else.
AccountsComeFirst ==
    /\ \A r \in Registrations :
          /\ registration[r].stage \in {"publish", "issue"} => accounts[r] # NoAddress
          /\ accounts[r] # NoAddress => registration[r].stage \in {"publish", "issue", "done"}
    /\ \A r \in userEvents : accounts[r] # NoAddress
    /\ \A p \in pairs : accounts[p.user] # NoAddress

\* What the unique index says of the rows, whichever of the two it is.
IndexHolds == \A a, b \in Holders : SameToIndex(accounts[a], accounts[b]) => a = b

\* No token of a key that authd signs with no longer was signed after it changed keys.
TokensDated ==
    \A p \in pairs : p.iat <= authClock /\ (p.key # manager.private => p.iat <= signingSince)

\* Accounts nobody will hear of.
Silent ==
    {a \in Registrations : /\ accounts[a] # NoAddress /\ a \notin userEvents
                           /\ registration[a].stage # "publish"}

OnlyFaultsSilenceAccounts == IsFiniteSet(Silent) /\ Cardinality(Silent) <= faults

\* The inductive invariant of accounts and tokens.
AuthInv ==
    AuthTypeOK /\ AccountsComeFirst /\ IndexHolds /\ TokensDated /\ OnlyFaultsSilenceAccounts

Registering == [stage : {"create", "publish", "issue", "done"}, address : Addresses]
KeyPairs == [private : 1..MaxKeys, public : 1..MaxKeys]
TokenPairs == [user : Registrations, iat : 0..MaxClock, key : 1..MaxKeys]

AuthTyped ==
    /\ accounts \in [Registrations -> Addresses \cup {NoAddress}]
    /\ registration \in [Registrations -> Registering \cup {NoRegistration}]
    /\ userEvents \subseteq Registrations
    /\ pairs \subseteq TokenPairs
    /\ keyFiles \in KeyPairs /\ manager \in KeyPairs
    /\ verifier \in 1..MaxKeys /\ authClock \in 0..MaxClock /\ faults \in Nat
    /\ signingSince \in 0..authClock /\ emailIndex \in {"spelling", "lower"}

LEMMA AuthTypes == (AuthTypeOK <=> AuthTyped) /\ (AuthTypeOK' <=> AuthTyped')
  BY DEF AuthTyped, AuthTypeOK, Registering, KeyPairs, TokenPairs

LEMMA AuthFields ==
    /\ NoAddress \notin Addresses /\ NoAddress.person \notin People
    /\ NoRegistration \notin Registering /\ NoRegistration.stage = "idle"
    /\ \A a \in Addresses : a.person \in People
    /\ \A r \in Registering : /\ r.stage \in {"create", "publish", "issue", "done"}
                              /\ r.address \in Addresses
    /\ \A k \in KeyPairs : k.private \in 1..MaxKeys /\ k.public \in 1..MaxKeys
    /\ \A p \in TokenPairs : p.user \in Registrations /\ p.iat \in 0..MaxClock
  BY AuthAssumption DEF Addresses, NoAddress, NoRegistration, Registering, KeyPairs, TokenPairs

\* What a registration does that leaves the accounts as they are, at the cost of a
\* fault if it silences its own.
LEMMA RegistrationMoves ==
    ASSUME AuthInv, NEW r \in Registrations, registration[r].stage # "idle",
           NEW to \in {"issue", "done"}, registration' = [registration EXCEPT ![r].stage = to],
           to = "issue" => registration[r].stage = "publish",
           UNCHANGED <<accounts, keyVars, authClock, emailIndex>>,
           pairs' = pairs \/ (registration[r].stage = "issue" /\ issuePair(r)),
           \/ userEvents' = userEvents
           \/ registration[r].stage = "publish" /\ userEvents' = userEvents \cup {r},
           faults' \in {faults, faults + 1},
           registration[r].stage = "publish" => faults' = faults + 1 \/ r \in userEvents'
    PROVE  AuthInv'
  <1>1. AuthTyped /\ AccountsComeFirst /\ IndexHolds /\ TokensDated /\ OnlyFaultsSilenceAccounts
    BY AuthTypes DEF AuthInv
  <1>2. registration[r] \in Registering
    BY <1>1, AuthFields DEF AuthTyped
  <1>3. registration'[r] = [registration[r] EXCEPT !.stage = to]
    BY <1>1 DEF AuthTyped
  <1>4. registration'[r] \in Registering /\ registration'[r].stage = to
    BY <1>2, <1>3 DEF Registering
  <1>5. \A s \in Registrations \ {r} : registration'[s] = registration[s]
    BY <1>1 DEF AuthTyped
  <1>6. registration' \in [Registrations -> Registering \cup {NoRegistration}]
    <2> HIDE DEF Registering, NoRegistration
    <2> QED BY <1>1, <1>4, <1>5 DEF AuthTyped
  <1>7. registration[r].stage \in {"publish", "issue"} => accounts[r] # NoAddress
    BY <1>1 DEF AccountsComeFirst
  <1>8. \A p \in pairs' : p \in TokenPairs /\ accounts'[p.user] # NoAddress
    <2>1. [user |-> r, iat |-> authClock, key |-> manager.private] \in TokenPairs
      BY <1>1, AuthFields DEF AuthTyped, TokenPairs
    <2> QED BY <1>1, <1>7, <2>1 DEF AuthTyped, AccountsComeFirst, issuePair
  <1>9. AuthTypeOK'
    BY <1>1, <1>6, <1>8, AuthTypes DEF AuthTyped, keyVars
  <1>10. \A s \in Registrations : s \in userEvents' => accounts'[s] # NoAddress
    BY <1>1, <1>7 DEF AccountsComeFirst
  <1>11. AccountsComeFirst'
    BY <1>1, <1>4, <1>5, <1>8, <1>9, <1>10, AuthTypes, AuthFields DEF AuthTyped, AccountsComeFirst
  <1>12. IndexHolds' /\ TokensDated'
    <2>1. IndexHolds'
      BY <1>1 DEF IndexHolds, Holders, SameToIndex
    <2>2. authClock <= authClock
      BY <1>1 DEF AuthTyped
    <2>3. TokensDated'
      BY <1>1, <2>2 DEF TokensDated, issuePair, keyVars
    <2> QED BY <2>1, <2>3
  <1>13. Silent' \subseteq Silent \cup {r}
    BY <1>5 DEF Silent
  <1>14. faults' = faults => Silent' \subseteq Silent
    BY <1>1, <1>4, <1>5 DEF Silent, AuthTyped
  <1>15. /\ IsFiniteSet(Silent') /\ Cardinality(Silent) \in Nat /\ Cardinality(Silent') \in Nat
         /\ Cardinality(Silent') <= Cardinality(Silent) + 1
         /\ Silent' \subseteq Silent => Cardinality(Silent') <= Cardinality(Silent)
    BY <1>1, <1>13, OneMoreAtMost DEF OnlyFaultsSilenceAccounts
  <1>16. OnlyFaultsSilenceAccounts'
    BY <1>1, <1>14, <1>15 DEF OnlyFaultsSilenceAccounts, AuthTyped
  <1> QED BY <1>9, <1>11, <1>12, <1>16 DEF AuthInv

\* Everything but the registrations: only pairs for accounts that exist are added.
LEMMA TokensMove ==
    ASSUME AuthInv, UNCHANGED <<accounts, registration, userEvents, emailIndex, faults>>, AuthTypeOK',
           TokensDated', \A p \in pairs' \ pairs : accounts[p.user] # NoAddress
    PROVE  AuthInv'
  <1>1. Silent' = Silent
    BY DEF Silent
  <1>2. AccountsComeFirst' /\ OnlyFaultsSilenceAccounts'
    BY <1>1 DEF AuthInv, AccountsComeFirst, OnlyFaultsSilenceAccounts
  <1>3. IndexHolds'
    BY DEF AuthInv, IndexHolds, Holders, SameToIndex
  <1> QED BY <1>2, <1>3 DEF AuthInv

LEMMA AuthInit_Inv == AuthInit /\ faults \in Nat => AuthInv
  <1> SUFFICES ASSUME AuthInit, faults \in Nat PROVE AuthInv
    OBVIOUS
  <1>1. AuthTypeOK
    BY AuthTypes, AuthAssumption DEF AuthInit, AuthTyped, KeyPairs
  <1>2. \A r \in Registrations : registration[r] = NoRegistration /\ accounts[r] = NoAddress
    BY DEF AuthInit
  <1>3. AccountsComeFirst
    BY <1>2, AuthFields DEF AuthInit, AccountsComeFirst
  <1>4. IndexHolds /\ TokensDated
    BY <1>2, AuthFields DEF AuthInit, IndexHolds, Holders, TokensDated
  <1>5. OnlyFaultsSilenceAccounts
    <2>1. Silent = {}
      BY <1>2 DEF Silent
    <2> QED BY <2>1, FS_EmptySet DEF OnlyFaultsSilenceAccounts
  <1> QED BY <1>1, <1>3, <1>4, <1>5 DEF AuthInv

LEMMA InsertUser_Inv ==
    ASSUME AuthInv, NEW r \in Registrations, InsertUser(r), UNCHANGED emailIndex
    PROVE  AuthInv'
  <1> DEFINE address == registration[r].address
  <1>1. AuthTyped /\ AccountsComeFirst /\ IndexHolds /\ TokensDated /\ OnlyFaultsSilenceAccounts
    BY AuthTypes DEF AuthInv
  <1>2. /\ registration[r].stage = "create"
        /\ UNCHANGED <<userEvents, pairs, keyVars, authClock, faults>>
    BY DEF InsertUser
  <1>3. registration[r] \in Registering /\ address \in Addresses
    BY <1>1, <1>2, AuthFields DEF AuthTyped
  <1>4. CASE \A a \in Holders : ~SameToIndex(accounts[a], address)
    <2>1. /\ accounts' = [accounts EXCEPT ![r] = address]
          /\ registration' = [registration EXCEPT ![r].stage = "publish"]
      BY <1>4 DEF InsertUser
    <2>2. registration'[r] = [registration[r] EXCEPT !.stage = "publish"]
      BY <1>1, <2>1 DEF AuthTyped
    <2>3. registration'[r] \in Registering /\ registration'[r].stage = "publish"
      BY <1>3, <2>2 DEF Registering
    <2>4. /\ \A s \in Registrations \ {r} :
                registration'[s] = registration[s] /\ accounts'[s] = accounts[s]
          /\ accounts'[r] = address /\ address # NoAddress
      BY <1>1, <1>3, <2>1, AuthFields DEF AuthTyped
    <2>5. registration' \in [Registrations -> Registering \cup {NoRegistration}]
      <3> HIDE DEF Registering, NoRegistration
      <3> QED BY <1>1, <2>1, <2>3, <2>4 DEF AuthTyped
    <2>6. accounts' \in [Registrations -> Addresses \cup {NoAddress}]
      <3> HIDE DEF Addresses, NoAddress
      <3> QED BY <1>1, <1>3, <2>1, <2>4 DEF AuthTyped
    <2>7. AuthTypeOK'
      BY <1>1, <1>2, <2>5, <2>6, AuthTypes DEF AuthTyped, keyVars
    <2>8. \A p \in pairs : p.user \in Registrations
      BY <1>1, AuthFields DEF AuthTyped
    <2>9. AccountsComeFirst'
      BY <1>1, <1>2, <2>3, <2>4, <2>8 DEF AuthTyped, AccountsComeFirst
    <2>10. IndexHolds' /\ TokensDated'
      <3>1. r \notin Holders /\ Holders' \subseteq Holders \cup {r}
        BY <1>1, <1>2, <2>4 DEF AccountsComeFirst, Holders
      <3>2. \A x, y : SameToIndex(x, y) => SameToIndex(y, x)
        BY DEF SameToIndex
      <3>3. ASSUME NEW a \in Holders', NEW b \in Holders', SameToIndex(accounts[a], accounts[b])' PROVE a = b
        <4>1. SameToIndex(accounts'[a], accounts'[b])
          BY <3>3 DEF SameToIndex
        <4>2. CASE a = r /\ b # r
          <5>1. b \in Holders /\ accounts'[a] = address /\ accounts'[b] = accounts[b]
            BY <2>4, <3>1, <4>2 DEF Holders
          <5> QED BY <1>4, <3>2, <4>1, <5>1
        <4>3. CASE a # r /\ b = r
          <5>1. a \in Holders /\ accounts'[b] = address /\ accounts'[a] = accounts[a]
            BY <2>4, <3>1, <4>3 DEF Holders
          <5> QED BY <1>4, <4>1, <5>1
        <4>4. CASE a # r /\ b # r
          <5>1. a \in Holders /\ b \in Holders /\ accounts'[a] = accounts[a] /\ accounts'[b] = accounts[b]
            BY <2>4, <3>1, <4>4 DEF Holders
          <5> QED BY <1>1, <4>1, <5>1 DEF IndexHolds
        <4> QED BY <4>2, <4>3, <4>4
      <3>4. TokensDated'
        BY <1>1, <1>2 DEF TokensDated, keyVars
      <3> QED BY <3>3, <3>4 DEF IndexHolds
    <2>11. Silent' \subseteq Silent
      BY <1>2, <2>3, <2>4 DEF Silent
    <2>12. OnlyFaultsSilenceAccounts'
      BY <1>1, <1>2, <2>11, OneMoreAtMost DEF OnlyFaultsSilenceAccounts, AuthTyped
    <2> QED BY <2>7, <2>9, <2>10, <2>12 DEF AuthInv
  <1>5. CASE ~\A a \in Holders : ~SameToIndex(accounts[a], address)
    <2>1. registration' = [registration EXCEPT ![r].stage = "done"] /\ UNCHANGED accounts
      BY <1>5 DEF InsertUser
    <2>2. faults \in Nat /\ UNCHANGED <<accounts, keyVars, authClock>>
      BY <1>1, <1>2, <2>1 DEF AuthTyped
    <2> QED BY <1>2, <2>1, <2>2, RegistrationMoves
  <1> QED BY <1>4, <1>5

LEMMA AuthNext_Inv ==
    ASSUME AuthInv, [AuthNext]_<<authVars, faults>>
    PROVE  AuthInv'
  <1> emailIndex' = emailIndex
    BY DEF AuthNext, authVars
  <1>1. AuthTyped /\ AccountsComeFirst /\ IndexHolds /\ TokensDated /\ OnlyFaultsSilenceAccounts
    BY AuthTypes DEF AuthInv
  <1>2. ASSUME NEW r \in Registrations, register(r) PROVE AuthInv'
    <2>1. PICK address \in Addresses :
             registration' = [registration EXCEPT ![r] = [stage |-> "create", address |-> address]]
      BY <1>2 DEF register
    <2>2. /\ registration[r].stage = "idle" /\ accounts[r] = NoAddress
          /\ UNCHANGED <<accounts, userEvents, pairs, keyVars, authClock, faults>>
      BY <1>1, <1>2 DEF register, AccountsComeFirst
    <2>3. [stage |-> "create", address |-> address] \in Registering
      BY DEF Registering
    <2>4. /\ registration' \in [Registrations -> Registering \cup {NoRegistration}]
          /\ registration'[r].stage = "create"
          /\ \A s \in Registrations \ {r} : registration'[s] = registration[s]
      <3> HIDE DEF Registering, NoRegistration
      <3> QED BY <1>1, <2>1, <2>3 DEF AuthTyped
    <2>5. AuthTypeOK'
      BY <1>1, <2>2, <2>4, AuthTypes DEF AuthTyped, keyVars
    <2>6. AccountsComeFirst' /\ IndexHolds' /\ TokensDated'
      BY <1>1, <2>2, <2>4 DEF AccountsComeFirst, IndexHolds, Holders, SameToIndex, TokensDated, keyVars
    <2>7. Silent' = Silent
      BY <2>2, <2>4 DEF Silent
    <2>8. OnlyFaultsSilenceAccounts'
      BY <1>1, <2>2, <2>7 DEF OnlyFaultsSilenceAccounts
    <2> QED BY <2>5, <2>6, <2>8 DEF AuthInv
  <1>3. ASSUME NEW r \in Registrations, publishUserRegistered(r) PROVE AuthInv'
    <2>1. /\ registration[r].stage = "publish"
          /\ registration' = [registration EXCEPT ![r].stage = "issue"]
          /\ UNCHANGED <<accounts, pairs, keyVars, authClock>>
          /\ \/ userEvents' = userEvents \cup {r} /\ faults' = faults
             \/ userEvents' = userEvents /\ faults' = faults + 1
      BY <1>3 DEF publishUserRegistered, Fault
    <2> QED BY <2>1, RegistrationMoves
  <1>4. ASSUME NEW r \in Registrations, registered(r) PROVE AuthInv'
    <2>1. /\ registration[r].stage = "issue" /\ issuePair(r)
          /\ registration' = [registration EXCEPT ![r].stage = "done"]
          /\ UNCHANGED <<accounts, userEvents, keyVars, authClock>> /\ faults' = faults
      BY <1>4 DEF registered
    <2> QED BY <2>1, RegistrationMoves
  <1>5. ASSUME NEW r \in Registrations, RegistrationFails(r) PROVE AuthInv'
    <2>1. /\ registration[r].stage # "idle" /\ faults' = faults + 1
          /\ registration' = [registration EXCEPT ![r].stage = "done"]
          /\ UNCHANGED <<accounts, userEvents, pairs, keyVars, authClock>>
      BY <1>5 DEF RegistrationFails, Fault
    <2> QED BY <2>1, RegistrationMoves
  <1>6. ASSUME NEW a \in Registrations, accounts[a] # NoAddress, issuePair(a),
               UNCHANGED <<accounts, registration, userEvents, keyVars, authClock, faults>>
        PROVE  AuthInv'
    <2>1. [user |-> a, iat |-> authClock, key |-> manager.private] \in TokenPairs
      BY <1>1, AuthFields DEF AuthTyped, TokenPairs
    <2>2. AuthTypeOK'
      BY <1>1, <1>6, <2>1, AuthTypes DEF AuthTyped, issuePair, keyVars
    <2>3. TokensDated'
      <3>1. authClock <= authClock
        BY <1>1 DEF AuthTyped
      <3> QED BY <1>1, <1>6, <3>1 DEF TokensDated, issuePair, keyVars
    <2> QED BY <1>6, <2>2, <2>3, TokensMove DEF issuePair
  <1>7. ASSUME login PROVE AuthInv'
    BY <1>6, <1>7, AuthFields DEF login
  <1>8. ASSUME refresh PROVE AuthInv'
    BY <1>1, <1>6, <1>8, AuthFields DEF refresh, AuthTyped
  <1>9. ASSUME Rotate PROVE AuthInv'
    <2>1. keyFiles' \in KeyPairs
      BY <1>1, <1>9, AuthAssumption DEF Rotate, AuthTyped, KeyPairs
    <2>2. AuthTypeOK'
      BY <1>1, <1>9, <2>1, AuthTypes DEF Rotate, AuthTyped
    <2>3. TokensDated'
      BY <1>1, <1>9 DEF TokensDated, Rotate
    <2> QED BY <1>9, <2>2, <2>3, TokensMove DEF Rotate
  <1>10. ASSUME NewManager PROVE AuthInv'
    <2>1. AuthTypeOK'
      BY <1>1, <1>10, AuthTypes DEF NewManager, AuthTyped
    <2>2. TokensDated'
      BY <1>1, <1>10 DEF TokensDated, NewManager
    <2> QED BY <1>10, <2>1, <2>2, TokensMove DEF NewManager
  <1>11. ASSUME NewVerifier PROVE AuthInv'
    <2>1. AuthTypeOK'
      BY <1>1, <1>11, AuthTypes, AuthFields DEF NewVerifier, AuthTyped
    <2>2. TokensDated'
      BY <1>1, <1>11 DEF TokensDated, NewVerifier
    <2> QED BY <1>11, <2>1, <2>2, TokensMove DEF NewVerifier
  <1>12. ASSUME AuthTick PROVE AuthInv'
    <2>1. AuthTypeOK'
      BY <1>1, <1>12, AuthTypes, AuthAssumption DEF AuthTick, AuthTyped, keyVars
    <2>2. \A p \in pairs : p.iat \in Nat /\ authClock \in Nat
      BY <1>1, AuthAssumption, AuthFields DEF AuthTyped
    <2>3. TokensDated'
      BY <1>1, <1>12, <2>2 DEF TokensDated, AuthTick, keyVars
    <2> QED BY <1>12, <2>1, <2>3, TokensMove DEF AuthTick
  <1>13. CASE UNCHANGED <<authVars, faults>>
    <2>1. AuthTypeOK'
      BY <1>1, <1>13, AuthTypes DEF authVars, keyVars, AuthTyped
    <2>2. TokensDated'
      BY <1>1, <1>13 DEF TokensDated, authVars, keyVars
    <2> QED BY <1>13, <2>1, <2>2, TokensMove DEF authVars
  <1> QED BY <1>2, <1>3, <1>4, <1>5, <1>7, <1>8, <1>9, <1>10, <1>11, <1>12, <1>13,
             InsertUser_Inv DEF AuthNext, AuthStep

\* The invariant of accounts and tokens, types included, in every reachable state.
THEOREM AuthInvariant == AuthSpec => []AuthInv
  <1>1. AuthInv /\ [AuthNext]_<<authVars, faults>> => AuthInv'
    BY AuthNext_Inv
  <1>2. AuthInit /\ faults = 0 => AuthInv
    BY AuthInit_Inv
  <1> QED BY <1>1, <1>2, PTL DEF AuthSpec

LEMMA AuthInv_Implies ==
    ASSUME AuthInv
    PROVE  AccountsFollowTheIndex /\ SupersededKeysFade
  <1>1. AuthTyped /\ AccountsComeFirst /\ IndexHolds /\ TokensDated /\ OnlyFaultsSilenceAccounts
    BY AuthTypes DEF AuthInv
  <1>2. \A p \in pairs : p.user \in Holders
    BY <1>1, AuthFields DEF AuthTyped, AccountsComeFirst, Holders
  <1>3. AccountsFollowTheIndex
    <2>1. \A a, b \in Holders : accounts[a] = accounts[b] => a = b
      BY <1>1 DEF IndexHolds, SameToIndex
    <2>2. emailIndex = "lower" =>
             \A a, b \in Holders : accounts[a].person = accounts[b].person => a = b
      BY <1>1 DEF IndexHolds, SameToIndex
    <2>3. userEvents \subseteq Holders
      BY <1>1 DEF AuthTyped, AccountsComeFirst, Holders
    <2>4. {a \in Holders \ userEvents : registration[a].stage # "publish"} = Silent
      BY DEF Holders, Silent
    <2>5. Cardinality({a \in Holders \ userEvents : registration[a].stage # "publish"}) <= faults
      BY <1>1, <2>4 DEF OnlyFaultsSilenceAccounts
    <2> QED BY <1>2, <2>1, <2>2, <2>3, <2>5 DEF AccountsFollowTheIndex
  <1>4. ASSUME NEW p \in pairs, NEW type \in {"access", "refresh"}
        PROVE  /\ p.key # manager.private =>
                     /\ VerifyAccess(p, type) \/ me(p, type) => authClock < signingSince + AccessTTL
                     /\ verify(p, type, "refresh", manager.public) => authClock < signingSince + RefreshTTL
               /\ verifier = manager.public => VerifyAccess(p, type) = me(p, type)
    <2>1. /\ p.iat \in Nat /\ signingSince \in Nat /\ authClock \in Nat
          /\ AccessTTL \in Nat /\ RefreshTTL \in Nat
      BY <1>1, AuthAssumption, AuthFields DEF AuthTyped
    <2>2. p.key # manager.private => p.iat <= signingSince
      BY <1>1 DEF TokensDated
    <2>3. TTL["access"] = AccessTTL /\ TTL["refresh"] = RefreshTTL
      BY DEF TTL
    <2>4. VerifyAccess(p, type) \/ me(p, type) => authClock < p.iat + AccessTTL
      BY <2>3 DEF VerifyAccess, me, verify
    <2>5. verify(p, type, "refresh", manager.public) => authClock < p.iat + RefreshTTL
      BY <2>3 DEF verify
    <2>6. ASSUME verifier = manager.public PROVE VerifyAccess(p, type) = me(p, type)
      <3>1. accounts[p.user] # NoAddress
        BY <1>2 DEF Holders
      <3>2. VerifyAccess(p, type) <=> me(p, type)
        BY <2>6, <3>1 DEF VerifyAccess, me, verify
      <3> QED BY <3>2 DEF VerifyAccess, me, verify
    <2>7. p.key # manager.private =>
             /\ authClock < p.iat + AccessTTL => authClock < signingSince + AccessTTL
             /\ authClock < p.iat + RefreshTTL => authClock < signingSince + RefreshTTL
      BY <2>1, <2>2
    <2> QED BY <2>4, <2>5, <2>6, <2>7
  <1> QED BY <1>3, <1>4 DEF SupersededKeysFade

\* Under either schema of the accounts: its index decides who has an account however
\* registrations race, tokens are signed for accounts only, and accounts nobody hears of
\* are counted by failures.
THEOREM AccountsFollow == AuthSpec => []AccountsFollowTheIndex
  <1>1. AuthInv => AccountsFollowTheIndex
    BY AuthInv_Implies
  <1> QED BY <1>1, AuthInvariant, PTL

\* For any number of key pairs and whatever the lives of the tokens are: a superseded key
\* opens nothing once they are over, and a service with the key authd verifies with
\* accepts exactly the tokens authd accepts.
THEOREM KeysFade == AuthSpec => []SupersededKeysFade
  <1>1. AuthInv => SupersededKeysFade
    BY AuthInv_Implies
  <1> QED BY <1>1, AuthInvariant, PTL

-----------------------------------------------------------------------------
(* Addresses and payments *)

\* Once a request knows its user, it keeps to it, and finds no address where another
\* request has not put one.
CallsKeepToTheirUser ==
    \A c \in AddressCalls :
       LET u == addressCall[c].owner
       IN  /\ addressCall[c] # NoAddressCall => u \in Owners
           /\ addressCall[c].stage = "refetch" => wallets[u] # "none"
           /\ addressCall[c].stage = "answered" /\ addressCall[c].answer = "none" => faults > 0
           /\ addressCall[c].answer # "none" => u \in Owners /\ wallets[u] = addressCall[c].answer

\* An address is the request that made it, for its user.
AddressesAreMade ==
    \A u \in Owners : wallets[u] # "none" => addressCall[wallets[u]].owner = u

\* A payment goes to an address somebody has, or nobody; what is found stays true.
PaymentsKeepToTheirAddress ==
    \A m \in Payments :
       LET p == payment[m]
       IN  /\ p.stage # "idle" => p.to = "elsewhere" \/ \E u \in Owners : wallets[u] = p.to /\ p.to # "none"
           /\ p.stage = "record" => p.owner \in Owners /\ wallets[p.owner] = p.to /\ p.to # "none"
           /\ p.stage = "recorded" => \E t \in transactions : t.payment = m
           /\ p.stage = "skipped" => p.to = "elsewhere" \/ faults > 0

TransactionsAreTrue ==
    \A t \in transactions : /\ payment[t.payment].stage # "idle"
                            /\ payment[t.payment].to = wallets[t.owner] /\ wallets[t.owner] # "none"

\* The inductive invariant of the wallet service.
WalletInv ==
    /\ WalletTypeOK
    /\ CallsKeepToTheirUser
    /\ AddressesAreMade
    /\ PaymentsKeepToTheirAddress
    /\ TransactionsAreTrue

AddressCallRecord ==
    [stage : {"idle", "create", "refetch", "answered", "failed"},
     owner : Owners \cup {"none"}, answer : AddressCalls \cup {"none"}]

PaymentRecord ==
    [stage : {"idle", "lookup", "record", "recorded", "skipped"},
     to : AddressCalls \cup {"none", "elsewhere"}, spelling : {"checksum", "lower"},
     owner : Owners \cup {"none"}]

WalletTyped ==
    /\ wallets \in [Owners -> AddressCalls \cup {"none"}]
    /\ addressCall \in [AddressCalls -> AddressCallRecord]
    /\ payment \in [Payments -> PaymentRecord]
    /\ transactions \subseteq [payment : Payments, owner : Owners]
    /\ faults \in Nat

LEMMA WalletTypes == (WalletTypeOK <=> WalletTyped) /\ (WalletTypeOK' <=> WalletTyped')
  BY DEF WalletTypeOK, WalletTyped, AddressCallRecord, PaymentRecord

LEMMA WalletFaults == WalletInv => (Fault => faults' \in Nat /\ faults' > faults /\ faults' > 0)
  BY DEF Fault, WalletInv, WalletTypeOK

LEMMA WalletInit_Inv == WalletInit /\ faults \in Nat => WalletInv
  <1> SUFFICES ASSUME WalletInit, faults \in Nat PROVE WalletInv
    OBVIOUS
  <1>1. NoAddressCall \in AddressCallRecord /\ NoPayment \in PaymentRecord
    BY DEF NoAddressCall, NoPayment, AddressCallRecord, PaymentRecord
  <1>2. WalletTypeOK
    BY <1>1, WalletTypes DEF WalletInit, WalletTyped
  <1> QED BY <1>2 DEF WalletInit, WalletInv, CallsKeepToTheirUser, AddressesAreMade,
       PaymentsKeepToTheirAddress, TransactionsAreTrue, NoAddressCall, NoPayment

\* A request for an address moves, and with it at most its user's wallet, which had none.
LEMMA CallMoves ==
    ASSUME WalletInv, NEW c \in AddressCalls, NEW r \in AddressCallRecord,
           addressCall' = [addressCall EXCEPT ![c] = r],
           r.owner \in Owners,
           addressCall[c] = NoAddressCall \/ r.owner = addressCall[c].owner,
           \/ wallets' = wallets
           \/ /\ wallets[r.owner] = "none" /\ wallets' = [wallets EXCEPT ![r.owner] = c]
              /\ addressCall[c] # NoAddressCall,
           r.stage = "refetch" => wallets'[r.owner] # "none",
           r.stage = "answered" /\ r.answer = "none" => faults' > 0,
           r.answer # "none" => wallets'[r.owner] = r.answer,
           UNCHANGED <<payment, transactions>>, faults' \in Nat, faults' >= faults
    PROVE  WalletInv'
  <1> USE WalletAssumption
  <1>1. /\ wallets \in [Owners -> AddressCalls \cup {"none"}]
        /\ addressCall \in [AddressCalls -> AddressCallRecord]
        /\ faults \in Nat
    BY WalletTypes DEF WalletInv, WalletTyped
  <1>2. wallets' \in [Owners -> AddressCalls \cup {"none"}]
    BY <1>1
  <1>3. \A u \in Owners : wallets[u] # "none" => wallets'[u] = wallets[u]
    BY <1>1
  <1>4. /\ addressCall'[c] = r /\ \A d \in AddressCalls \ {c} : addressCall'[d] = addressCall[d]
        /\ addressCall' \in [AddressCalls -> AddressCallRecord]
    <2> HIDE DEF AddressCallRecord
    <2> QED BY <1>1
  <1>5. WalletTypeOK'
    BY <1>2, <1>4, WalletTypes DEF WalletInv, WalletTyped
  <1>6. CallsKeepToTheirUser'
    <2> SUFFICES ASSUME NEW d \in AddressCalls
                 PROVE  /\ addressCall'[d] # NoAddressCall => addressCall'[d].owner \in Owners
                        /\ addressCall'[d].stage = "refetch" => wallets'[addressCall'[d].owner] # "none"
                        /\ addressCall'[d].stage = "answered" /\ addressCall'[d].answer = "none" => faults' > 0
                        /\ addressCall'[d].answer # "none" =>
                             /\ addressCall'[d].owner \in Owners
                             /\ wallets'[addressCall'[d].owner] = addressCall'[d].answer
      BY DEF CallsKeepToTheirUser
    <2>1. CASE d = c
      BY <1>4, <2>1
    <2>2. CASE d # c
      <3>1. addressCall'[d] = addressCall[d]
        BY <1>4, <2>2
      <3>2. addressCall[d].stage = "refetch" => addressCall[d] # NoAddressCall
        BY DEF NoAddressCall
      <3> QED BY <1>1, <1>3, <3>1, <3>2 DEF WalletInv, CallsKeepToTheirUser
    <2> QED BY <2>1, <2>2
  <1>7. AddressesAreMade'
    <2> SUFFICES ASSUME NEW u \in Owners, wallets'[u] # "none"
                 PROVE  addressCall'[wallets'[u]].owner = u
      BY DEF AddressesAreMade
    <2>1. CASE wallets'[u] = wallets[u]
      <3>1. wallets[u] \in AddressCalls /\ addressCall[wallets[u]].owner = u
        BY <1>1, <2>1 DEF WalletInv, AddressesAreMade
      <3>2. addressCall[wallets[u]] # NoAddressCall
        BY <3>1 DEF NoAddressCall
      <3> QED BY <1>4, <2>1, <3>1, <3>2
    <2>2. CASE wallets'[u] # wallets[u]
      <3>1. u = r.owner /\ wallets'[u] = c
        BY <1>1, <2>2
      <3> QED BY <1>4, <3>1
    <2> QED BY <2>1, <2>2
  <1>8. PaymentsKeepToTheirAddress'
    BY <1>1, <1>3 DEF WalletInv, PaymentsKeepToTheirAddress
  <1>9. TransactionsAreTrue'
    <2>1. \A t \in transactions : t.owner \in Owners
      BY DEF WalletInv, WalletTypeOK
    <2> QED BY <1>1, <1>3, <2>1 DEF WalletInv, TransactionsAreTrue
  <1> QED BY <1>5, <1>6, <1>7, <1>8, <1>9 DEF WalletInv

\* A message about a payment moves, and with it the log by what it says.
LEMMA PaymentMoves ==
    ASSUME WalletInv, NEW m \in Payments, NEW r \in PaymentRecord,
           payment' = [payment EXCEPT ![m] = r], r.stage # "idle",
           payment[m].stage = "idle" \/ r.to = payment[m].to,
           r.to = "elsewhere" \/ \E u \in Owners : wallets[u] = r.to /\ r.to # "none",
           r.stage = "record" => r.owner \in Owners /\ wallets[r.owner] = r.to /\ r.to # "none",
           r.stage = "skipped" => r.to = "elsewhere" \/ faults' > 0,
           \/ transactions' = transactions
           \/ \E u \in Owners : /\ wallets[u] = r.to /\ r.to # "none"
                                /\ transactions' = transactions \cup {[payment |-> m, owner |-> u]},
           r.stage = "recorded" => \E t \in transactions' : t.payment = m,
           UNCHANGED <<wallets, addressCall>>, faults' \in Nat, faults' >= faults
    PROVE  WalletInv'
  <1> USE WalletAssumption
  <1>1. payment \in [Payments -> PaymentRecord] /\ faults \in Nat
        /\ transactions \subseteq [payment : Payments, owner : Owners]
    BY WalletTypes DEF WalletInv, WalletTyped
  <1>2. /\ payment'[m] = r /\ \A n \in Payments \ {m} : payment'[n] = payment[n]
        /\ payment' \in [Payments -> PaymentRecord]
    <2> HIDE DEF PaymentRecord
    <2> QED BY <1>1
  <1>3. transactions \subseteq transactions' /\ transactions' \subseteq [payment : Payments, owner : Owners]
    BY <1>1
  <1>4. WalletTypeOK'
    BY <1>2, <1>3, WalletTypes DEF WalletInv, WalletTyped
  <1>5. CallsKeepToTheirUser'
    BY <1>1 DEF WalletInv, CallsKeepToTheirUser
  <1>6. AddressesAreMade'
    BY DEF WalletInv, AddressesAreMade
  <1>7. PaymentsKeepToTheirAddress'
    BY <1>1, <1>2, <1>3 DEF WalletInv, PaymentsKeepToTheirAddress
  <1>8. TransactionsAreTrue'
    <2> SUFFICES ASSUME NEW t \in transactions'
                 PROVE  /\ payment'[t.payment].stage # "idle"
                        /\ payment'[t.payment].to = wallets[t.owner] /\ wallets[t.owner] # "none"
      BY DEF TransactionsAreTrue
    <2>1. CASE t \in transactions
      <3>1. /\ t.payment \in Payments /\ payment[t.payment].stage # "idle"
            /\ payment[t.payment].to = wallets[t.owner] /\ wallets[t.owner] # "none"
        BY <1>1, <2>1 DEF WalletInv, TransactionsAreTrue
      <3> QED BY <1>2, <3>1
    <2>2. CASE t \notin transactions
      <3>1. PICK u \in Owners : wallets[u] = r.to /\ r.to # "none" /\ t = [payment |-> m, owner |-> u]
        BY <2>2
      <3> QED BY <1>2, <3>1
    <2> QED BY <2>1, <2>2
  <1> QED BY <1>4, <1>5, <1>6, <1>7, <1>8 DEF WalletInv

\* A request under way, with another stage and answer, and with another stage only.
CallIs(c, to, answer) ==
    [stage |-> to, owner |-> addressCall[c].owner, answer |-> answer]
CallTakes(c, to, answer) ==
    [addressCall EXCEPT ![c].stage = to, ![c].answer = answer]
CallMovesTo(c, to) == [addressCall EXCEPT ![c].stage = to]

LEMMA CallsUnderWay ==
    ASSUME WalletInv, NEW c \in AddressCalls, addressCall[c].stage \in {"create", "refetch"},
           NEW to \in {"refetch", "answered", "failed"}, NEW answer \in AddressCalls \cup {"none"}
    PROVE  /\ addressCall[c] # NoAddressCall /\ addressCall[c].owner \in Owners
           /\ addressCall[c].answer \in AddressCalls \cup {"none"}
           /\ CallIs(c, to, answer) \in AddressCallRecord
           /\ CallTakes(c, to, answer) = [addressCall EXCEPT ![c] = CallIs(c, to, answer)]
           /\ CallMovesTo(c, to) = [addressCall EXCEPT ![c] = CallIs(c, to, addressCall[c].answer)]
  <1>1. addressCall \in [AddressCalls -> AddressCallRecord] /\ addressCall[c] \in AddressCallRecord
    BY WalletTypes DEF WalletInv, WalletTyped
  <1>2. addressCall[c] # NoAddressCall /\ addressCall[c].owner \in Owners
    <2>1. addressCall[c] # NoAddressCall
      BY DEF NoAddressCall
    <2> QED BY <2>1 DEF WalletInv, CallsKeepToTheirUser
  <1>3. PICK s, o, a : addressCall[c] = [stage |-> s, owner |-> o, answer |-> a]
    BY <1>1 DEF AddressCallRecord
  <1>4. CallIs(c, to, answer) \in AddressCallRecord /\ addressCall[c].answer \in AddressCalls \cup {"none"}
    BY <1>1 DEF AddressCallRecord, CallIs
  <1>5. [addressCall EXCEPT ![c].stage = to] = [addressCall EXCEPT ![c] = [addressCall[c] EXCEPT !.stage = to]]
    BY Zenon
  <1>6. /\ [addressCall[c] EXCEPT !.stage = to] = CallIs(c, to, addressCall[c].answer)
        /\ [CallIs(c, to, addressCall[c].answer) EXCEPT !.answer = answer] = CallIs(c, to, answer)
    BY <1>3 DEF CallIs
  <1> DEFINE once == [addressCall EXCEPT ![c] = CallIs(c, to, addressCall[c].answer)]
  <1>7. [once EXCEPT ![c].answer = answer] = [once EXCEPT ![c] = [once[c] EXCEPT !.answer = answer]]
    BY Zenon
  <1>8. /\ once[c] = CallIs(c, to, addressCall[c].answer)
        /\ [once EXCEPT ![c] = CallIs(c, to, answer)] = [addressCall EXCEPT ![c] = CallIs(c, to, answer)]
    BY <1>1
  <1>9. [addressCall EXCEPT ![c].stage = to, ![c].answer = answer]
          = [[addressCall EXCEPT ![c].stage = to] EXCEPT ![c].answer = answer]
    BY Zenon
  <1> QED BY <1>2, <1>4, <1>5, <1>6, <1>7, <1>8, <1>9 DEF CallTakes, CallMovesTo

\* A message that has been sent, with another stage and owner, and with another stage only.
PaymentBecomes(m, to, owner) ==
    [stage |-> to, to |-> payment[m].to, spelling |-> payment[m].spelling, owner |-> owner]
PaymentTakes(m, to, owner) == [payment EXCEPT ![m].stage = to, ![m].owner = owner]
PaymentMovesTo(m, to) == [payment EXCEPT ![m].stage = to]

LEMMA PaymentsUnderWay ==
    ASSUME WalletInv, NEW m \in Payments,
           NEW to \in {"lookup", "record", "recorded", "skipped"}, NEW owner \in Owners \cup {"none"}
    PROVE  /\ payment[m].owner \in Owners \cup {"none"}
           /\ PaymentBecomes(m, to, owner) \in PaymentRecord
           /\ PaymentTakes(m, to, owner) = [payment EXCEPT ![m] = PaymentBecomes(m, to, owner)]
           /\ PaymentMovesTo(m, to) = [payment EXCEPT ![m] = PaymentBecomes(m, to, payment[m].owner)]
  <1>1. payment \in [Payments -> PaymentRecord] /\ payment[m] \in PaymentRecord
    BY WalletTypes DEF WalletInv, WalletTyped
  <1>2. PICK s, t, l, o : payment[m] = [stage |-> s, to |-> t, spelling |-> l, owner |-> o]
    BY <1>1 DEF PaymentRecord
  <1>3. PaymentBecomes(m, to, owner) \in PaymentRecord /\ payment[m].owner \in Owners \cup {"none"}
    BY <1>1 DEF PaymentRecord, PaymentBecomes
  <1>4. [payment EXCEPT ![m].stage = to] = [payment EXCEPT ![m] = [payment[m] EXCEPT !.stage = to]]
    BY Zenon
  <1>5. /\ [payment[m] EXCEPT !.stage = to] = PaymentBecomes(m, to, payment[m].owner)
        /\ [PaymentBecomes(m, to, payment[m].owner) EXCEPT !.owner = owner] = PaymentBecomes(m, to, owner)
    BY <1>2 DEF PaymentBecomes
  <1> DEFINE once == [payment EXCEPT ![m] = PaymentBecomes(m, to, payment[m].owner)]
  <1>6. [once EXCEPT ![m].owner = owner] = [once EXCEPT ![m] = [once[m] EXCEPT !.owner = owner]]
    BY Zenon
  <1>7. /\ once[m] = PaymentBecomes(m, to, payment[m].owner)
        /\ [once EXCEPT ![m] = PaymentBecomes(m, to, owner)]
             = [payment EXCEPT ![m] = PaymentBecomes(m, to, owner)]
    BY <1>1
  <1>8. [payment EXCEPT ![m].stage = to, ![m].owner = owner]
          = [[payment EXCEPT ![m].stage = to] EXCEPT ![m].owner = owner]
    BY Zenon
  <1> QED BY <1>3, <1>4, <1>5, <1>6, <1>7, <1>8 DEF PaymentTakes, PaymentMovesTo

\* The same with what the steps of the code know of it.
LEMMA CallGoesOn ==
    ASSUME WalletInv, NEW c \in AddressCalls, addressCall[c].stage \in {"create", "refetch"},
           NEW to \in {"refetch", "answered", "failed"}, NEW answer \in AddressCalls \cup {"none"},
           \/ addressCall' = CallTakes(c, to, answer)
           \/ addressCall' = CallMovesTo(c, to) /\ answer = addressCall[c].answer,
           \/ wallets' = wallets
           \/ wallets[addressCall[c].owner] = "none" /\ wallets' = [wallets EXCEPT ![addressCall[c].owner] = c],
           to = "refetch" => wallets'[addressCall[c].owner] # "none",
           to = "answered" /\ answer = "none" => faults' > 0,
           answer # "none" => wallets'[addressCall[c].owner] = answer,
           UNCHANGED <<payment, transactions>>, faults' \in Nat, faults' >= faults
    PROVE  WalletInv'
  <1>1. PICK r \in AddressCallRecord :
           /\ r.stage = to /\ r.owner = addressCall[c].owner /\ r.answer = answer
           /\ addressCall' = [addressCall EXCEPT ![c] = r]
    <2> DEFINE r == CallIs(c, to, answer)
    <2>1. r \in AddressCallRecord /\ addressCall' = [addressCall EXCEPT ![c] = r]
      BY CallsUnderWay
    <2>2. r.stage = to /\ r.owner = addressCall[c].owner /\ r.answer = answer
      BY DEF CallIs
    <2> HIDE DEF r
    <2> QED BY <2>1, <2>2
  <1>2. addressCall[c] # NoAddressCall /\ addressCall[c].owner \in Owners
    BY CallsUnderWay
  <1>3. /\ r.owner \in Owners /\ (addressCall[c] = NoAddressCall \/ r.owner = addressCall[c].owner)
        /\ \/ wallets' = wallets
           \/ /\ wallets[r.owner] = "none" /\ wallets' = [wallets EXCEPT ![r.owner] = c]
              /\ addressCall[c] # NoAddressCall
    BY <1>1, <1>2, Zenon
  <1>4. /\ r.stage = "refetch" => wallets'[r.owner] # "none"
        /\ r.stage = "answered" /\ r.answer = "none" => faults' > 0
        /\ r.answer # "none" => wallets'[r.owner] = r.answer
    BY <1>1
  <1> QED BY <1>1, <1>3, <1>4, CallMoves

LEMMA PaymentGoesOn ==
    ASSUME WalletInv, NEW m \in Payments, payment[m].stage # "idle",
           NEW to \in {"lookup", "record", "recorded", "skipped"}, NEW owner \in Owners \cup {"none"},
           \/ payment' = PaymentTakes(m, to, owner)
           \/ payment' = PaymentMovesTo(m, to) /\ owner = payment[m].owner,
           to = "record" => owner \in Owners /\ wallets[owner] = payment[m].to /\ payment[m].to # "none",
           to = "skipped" => payment[m].to = "elsewhere" \/ faults' > 0,
           \/ transactions' = transactions
           \/ \E u \in Owners : /\ wallets[u] = payment[m].to /\ payment[m].to # "none"
                                /\ transactions' = transactions \cup {[payment |-> m, owner |-> u]},
           to = "recorded" => \E t \in transactions' : t.payment = m,
           UNCHANGED <<wallets, addressCall>>, faults' \in Nat, faults' >= faults
    PROVE  WalletInv'
  <1>1. PICK r \in PaymentRecord :
           /\ r.stage = to /\ r.owner = owner /\ r.to = payment[m].to
           /\ payment' = [payment EXCEPT ![m] = r]
    <2> DEFINE r == PaymentBecomes(m, to, owner)
    <2>1. r \in PaymentRecord /\ payment' = [payment EXCEPT ![m] = r]
      BY PaymentsUnderWay
    <2>2. r.stage = to /\ r.owner = owner /\ r.to = payment[m].to
      BY DEF PaymentBecomes
    <2> HIDE DEF r
    <2> QED BY <2>1, <2>2
  <1>2. payment[m].to = "elsewhere" \/ \E u \in Owners : wallets[u] = payment[m].to /\ payment[m].to # "none"
    BY DEF WalletInv, PaymentsKeepToTheirAddress
  <1>3. to # "idle"
    OBVIOUS
  <1> QED BY <1>1, <1>2, <1>3, PaymentMoves, ZenonT(30)

LEMMA WalletNext_Inv ==
    ASSUME WalletInv, [WalletNext]_<<faults, walletVars>>
    PROVE  WalletInv'
  <1> USE WalletAssumption
  <1>1. /\ wallets \in [Owners -> AddressCalls \cup {"none"}]
        /\ addressCall \in [AddressCalls -> AddressCallRecord]
        /\ payment \in [Payments -> PaymentRecord]
        /\ faults \in Nat /\ (Fault => faults' \in Nat /\ faults' >= faults /\ faults' > 0)
    BY WalletTypes, WalletFaults DEF WalletInv, WalletTyped
  <1>4. CASE UNCHANGED <<faults, walletVars>>
    BY <1>4 DEF walletVars, WalletInv, WalletTypeOK, CallsKeepToTheirUser, AddressesAreMade,
       PaymentsKeepToTheirAddress, TransactionsAreTrue
  <1>5. ASSUME NEW c \in AddressCalls, createAddress(c) PROVE WalletInv'
    <2>1. PICK u \in Owners : addressCall' = [addressCall EXCEPT ![c] =
             IF wallets[u] # "none" THEN [stage |-> "answered", owner |-> u, answer |-> wallets[u]]
                                    ELSE [stage |-> "create", owner |-> u, answer |-> "none"]]
      BY <1>5 DEF createAddress
    <2>2. wallets[u] \in AddressCalls \cup {"none"}
      BY <1>1
    <2>3. PICK r \in AddressCallRecord :
             /\ addressCall' = [addressCall EXCEPT ![c] = r] /\ r.owner = u
             /\ r.stage # "refetch" /\ (r.stage = "answered" => r.answer # "none")
             /\ r.answer # "none" => r.answer = wallets[u]
      <3>1. CASE wallets[u] # "none"
        <4> DEFINE r == [stage |-> "answered", owner |-> u, answer |-> wallets[u]]
        <4>1. r \in AddressCallRecord
          BY <2>2 DEF AddressCallRecord
        <4>2. addressCall' = [addressCall EXCEPT ![c] = r]
          BY <2>1, <3>1
        <4> QED BY <3>1, <4>1, <4>2
      <3>2. CASE wallets[u] = "none"
        <4> DEFINE r == [stage |-> "create", owner |-> u, answer |-> "none"]
        <4>1. r \in AddressCallRecord
          BY DEF AddressCallRecord
        <4>2. addressCall' = [addressCall EXCEPT ![c] = r]
          BY <2>1, <3>2
        <4> QED BY <3>2, <4>1, <4>2
      <3> QED BY <3>1, <3>2
    <2>4. /\ addressCall[c] = NoAddressCall /\ wallets' = wallets /\ faults' = faults
          /\ UNCHANGED <<payment, transactions>>
      BY <1>5 DEF createAddress
    <2>5. faults' \in Nat /\ faults' >= faults
      BY <1>1, <2>4
    <2> HIDE DEF AddressCallRecord
    <2> QED BY <2>3, <2>4, <2>5, CallMoves
  <1>6. ASSUME NEW c \in AddressCalls, InsertWallet(c) PROVE WalletInv'
    <2> DEFINE u == addressCall[c].owner
    <2>1. /\ addressCall[c].stage \in {"create", "refetch"} /\ UNCHANGED <<payment, transactions>>
          /\ addressCall[c].answer \in AddressCalls \cup {"none"} /\ c \in AddressCalls \cup {"none"}
      BY <1>1, <1>6 DEF InsertWallet, AddressCallRecord
    <2>2. u \in Owners /\ (addressCall[c].answer # "none" => wallets[u] = addressCall[c].answer)
      BY <2>1, CallsUnderWay DEF WalletInv, CallsKeepToTheirUser
    <2>3. /\ Answer(c, c) => addressCall' = CallTakes(c, "answered", c)
          /\ CallFails(c) => addressCall' = CallMovesTo(c, "failed") /\ Fault
      BY DEF Answer, CallFails, CallTakes, CallMovesTo
    <2>4. \/ wallets[u] = "none" /\ wallets' = [wallets EXCEPT ![u] = c] /\ Answer(c, c) /\ faults' = faults
          \/ wallets[u] = "none" /\ wallets' = [wallets EXCEPT ![u] = c] /\ CallFails(c)
          \/ wallets[u] # "none" /\ addressCall' = CallMovesTo(c, "refetch") /\ wallets' = wallets /\ faults' = faults
          \/ CallFails(c) /\ wallets' = wallets
      BY <1>6 DEF InsertWallet, CallMovesTo
    <2>5. faults' \in Nat /\ faults' >= faults
      BY <1>1, <2>3, <2>4
    <2>6. wallets' = [wallets EXCEPT ![u] = c] => wallets'[u] = c
      BY <1>1, <2>2
    <2> HIDE DEF u
    <2>7. CASE wallets[u] = "none" /\ wallets' = [wallets EXCEPT ![u] = c] /\ Answer(c, c)
      <3>1. addressCall' = CallTakes(c, "answered", c)
        BY <2>3, <2>7
      <3> QED BY <2>1, <2>2, <2>5, <2>6, <2>7, <3>1, CallGoesOn DEF u
    <2>8. CASE wallets[u] = "none" /\ wallets' = [wallets EXCEPT ![u] = c] /\ CallFails(c)
      <3>1. addressCall' = CallMovesTo(c, "failed") /\ addressCall[c].answer = "none"
        BY <2>2, <2>3, <2>8
      <3> QED BY <2>1, <2>2, <2>5, <2>6, <2>8, <3>1, CallGoesOn DEF u
    <2>9. CASE wallets[u] # "none" /\ addressCall' = CallMovesTo(c, "refetch") /\ wallets' = wallets
      BY <2>1, <2>2, <2>5, <2>9, CallGoesOn DEF u
    <2>10. CASE CallFails(c) /\ wallets' = wallets
      <3>1. addressCall' = CallMovesTo(c, "failed")
        BY <2>3, <2>10
      <3> QED BY <2>1, <2>2, <2>5, <2>10, <3>1, CallGoesOn DEF u
    <2> QED BY <2>4, <2>7, <2>8, <2>9, <2>10
  <1>7. ASSUME NEW c \in AddressCalls, refetch(c) PROVE WalletInv'
    <2> DEFINE u == addressCall[c].owner
    <2>1. /\ addressCall[c].stage \in {"create", "refetch"} /\ UNCHANGED <<payment, transactions>>
          /\ addressCall[c].stage = "refetch" /\ wallets' = wallets
      BY <1>7 DEF refetch
    <2>2. u \in Owners /\ wallets[u] # "none" /\ wallets[u] \in AddressCalls \cup {"none"}
      BY <1>1, <2>1, CallsUnderWay DEF WalletInv, CallsKeepToTheirUser
    <2>3. \/ addressCall' = CallTakes(c, "answered", wallets[u]) /\ faults' = faults
          \/ addressCall' = CallTakes(c, "answered", "none") /\ Fault
      BY <1>7 DEF refetch, Answer, CallTakes
    <2>4. faults' \in Nat /\ faults' >= faults /\ (Fault => faults' > 0)
      BY <1>1, <2>3
    <2> HIDE DEF u
    <2>5. CASE addressCall' = CallTakes(c, "answered", wallets[u])
      BY <2>1, <2>2, <2>4, <2>5, CallGoesOn DEF u
    <2>6. CASE addressCall' = CallTakes(c, "answered", "none") /\ Fault
      BY <2>1, <2>2, <2>4, <2>6, CallGoesOn DEF u
    <2> QED BY <2>3, <2>5, <2>6
  <1>8. ASSUME NEW m \in Payments, Pay(m) PROVE WalletInv'
    <2>1. PICK to \in GivenOut \cup {"elsewhere"}, spelling \in {"checksum", "lower"} :
             payment' = [payment EXCEPT ![m] =
                           [stage |-> "lookup", to |-> to, spelling |-> spelling, owner |-> "none"]]
      BY <1>8 DEF Pay
    <2>2. to = "elsewhere" \/ \E u \in Owners : wallets[u] = to /\ to # "none"
      BY DEF GivenOut, WalletInv, CallsKeepToTheirUser
    <2>3. to \in AddressCalls \cup {"none", "elsewhere"}
      BY <1>1, <2>2
    <2>4. PICK r \in PaymentRecord : /\ r.stage = "lookup" /\ r.to = to
                                     /\ payment' = [payment EXCEPT ![m] = r]
      <3> DEFINE r == [stage |-> "lookup", to |-> to, spelling |-> spelling, owner |-> "none"]
      <3>1. r \in PaymentRecord /\ r.stage = "lookup" /\ r.to = to
        BY <2>3 DEF PaymentRecord
      <3>2. payment' = [payment EXCEPT ![m] = r]
        BY <2>1
      <3> HIDE DEF r
      <3> QED BY <3>1, <3>2
    <2>5. /\ payment[m].stage = "idle" /\ UNCHANGED <<wallets, addressCall, transactions>>
          /\ faults' \in Nat /\ faults' >= faults
      BY <1>1, <1>8 DEF Pay, NoPayment
    <2> HIDE DEF PaymentRecord
    <2> QED BY <2>2, <2>4, <2>5, PaymentMoves
  <1>9. ASSUME NEW m \in Payments, lookupWallet(m) PROVE WalletInv'
    <2> DEFINE p == payment[m]
               found == ByAddress(p.to, p.spelling)
    <2>1. /\ p.stage # "idle" /\ UNCHANGED <<wallets, addressCall, transactions>>
          /\ p.owner \in Owners \cup {"none"}
      BY <1>1, <1>9 DEF lookupWallet, PaymentRecord
    <2>2. \/ \E u \in found : payment' = PaymentTakes(m, "record", u) /\ faults' = faults
          \/ found = {} /\ payment' = PaymentMovesTo(m, "skipped") /\ faults' = faults
          \/ payment' = PaymentMovesTo(m, "skipped") /\ Fault
      BY <1>9 DEF lookupWallet, PaymentIs, PaymentTakes, PaymentMovesTo
    <2>3. faults' \in Nat /\ faults' >= faults /\ (Fault => faults' > 0)
      BY <1>1, <2>2
    <2>4. /\ \A u \in found : u \in Owners /\ wallets[u] = p.to /\ p.to # "none"
          /\ found = {} => p.to = "elsewhere"
      BY <2>1 DEF ByAddress, WalletInv, PaymentsKeepToTheirAddress
    <2>5. CASE \E u \in found : payment' = PaymentTakes(m, "record", u)
      BY <2>1, <2>3, <2>4, <2>5, PaymentGoesOn
    <2>6. CASE payment' = PaymentMovesTo(m, "skipped") /\ (found = {} \/ Fault)
      BY <2>1, <2>3, <2>4, <2>6, PaymentGoesOn
    <2> QED BY <2>2, <2>5, <2>6
  <1>10. ASSUME NEW m \in Payments, InsertTransaction(m) PROVE WalletInv'
    <2> DEFINE p == payment[m]
    <2>1. /\ p.stage = "record" /\ UNCHANGED <<wallets, addressCall>>
          /\ p.owner \in Owners /\ wallets[p.owner] = p.to /\ p.to # "none"
      BY <1>10 DEF InsertTransaction, WalletInv, PaymentsKeepToTheirAddress
    <2>2. /\ \/ transactions' = (IF \E t \in transactions : t.payment = m THEN transactions
                                ELSE transactions \cup {[payment |-> m, owner |-> p.owner]})
             \/ transactions' = transactions /\ payment' = PaymentMovesTo(m, "lookup")
          /\ \/ payment' = PaymentMovesTo(m, "recorded") /\ faults' = faults
             \/ payment' = PaymentMovesTo(m, "lookup") /\ Fault
      BY <1>10 DEF InsertTransaction, PaymentIs, PaymentMovesTo
    <2>3. faults' \in Nat /\ faults' >= faults
      BY <1>1, <2>2
    <2>4. \/ transactions' = transactions
          \/ \E u \in Owners : /\ wallets[u] = p.to /\ p.to # "none"
                               /\ transactions' = transactions \cup {[payment |-> m, owner |-> u]}
      BY <2>1, <2>2
    <2>5. CASE payment' = PaymentMovesTo(m, "lookup")
      BY <2>1, <2>3, <2>4, <2>5, PaymentGoesOn
    <2>6. CASE payment' = PaymentMovesTo(m, "recorded") /\ \E t \in transactions' : t.payment = m
      BY <2>1, <2>3, <2>4, <2>6, PaymentGoesOn
    <2>7. transactions' = (IF \E t \in transactions : t.payment = m THEN transactions
                           ELSE transactions \cup {[payment |-> m, owner |-> p.owner]})
             => \E t \in transactions' : t.payment = m
      <3>1. [payment |-> m, owner |-> p.owner].payment = m
        OBVIOUS
      <3>2. CASE \E t \in transactions : t.payment = m
        BY <3>2
      <3>3. CASE ~ \E t \in transactions : t.payment = m
        BY <3>1, <3>3
      <3> QED BY <3>2, <3>3
    <2> QED BY <2>2, <2>5, <2>6, <2>7
  <1> QED BY <1>4, <1>5, <1>6, <1>7, <1>8, <1>9, <1>10 DEF WalletNext

\* The invariant, from the specification alone: a request keeps to its user, an address
\* to the request that made it, and a message to the address it was sent to.
THEOREM WalletInvariant == WalletSpec => []WalletInv
  <1>1. WalletInit /\ faults = 0 => WalletInv
    BY WalletInit_Inv
  <1>2. WalletInv /\ [WalletNext]_<<faults, walletVars>> => WalletInv'
    BY WalletNext_Inv
  <1> QED BY <1>1, <1>2, PTL DEF WalletSpec

LEMMA WalletInv_Implies ==
    ASSUME WalletInv
    PROVE  PaymentsReachTheirOwner
  <1>1. \A t \in transactions : t.payment \in Payments /\ t.owner \in Owners
    BY WalletTypes DEF WalletInv, WalletTyped
  <1>2. ASSUME NEW c \in AddressCalls, addressCall[c].stage = "answered"
        PROVE  \/ addressCall[c].answer = wallets[addressCall[c].owner] /\ addressCall[c].answer # "none"
               \/ addressCall[c].answer = "none" /\ faults > 0
    BY <1>2 DEF WalletInv, CallsKeepToTheirUser
  <1>3. \A u, v \in Owners : wallets[u] = wallets[v] /\ wallets[u] # "none" => u = v
    BY DEF WalletInv, AddressesAreMade
  <1>4. \A m \in Payments, u \in Owners : m \in listTransactions(u) => payment[m].to = wallets[u]
    BY <1>1 DEF listTransactions, ListByUserID, WalletInv, TransactionsAreTrue
  <1>5. ASSUME NEW m \in Payments
        PROVE  /\ payment[m].stage = "recorded" => \E u \in Owners : m \in listTransactions(u)
               /\ payment[m].stage = "skipped" => payment[m].to = "elsewhere" \/ faults > 0
    BY <1>1 DEF listTransactions, ListByUserID, WalletInv, PaymentsKeepToTheirAddress
  <1> QED BY <1>2, <1>3, <1>4, <1>5 DEF PaymentsReachTheirOwner

\* However requests for an address race, a user is given the one address it keeps, and
\* a payment to it is in its owner's list and in no other's; see Wallets.
THEOREM PaymentsReach == WalletSpec => []PaymentsReachTheirOwner
  <1>1. WalletInv => PaymentsReachTheirOwner
    BY WalletInv_Implies
  <1> QED BY <1>1, WalletInvariant, PTL
=============================================================================
