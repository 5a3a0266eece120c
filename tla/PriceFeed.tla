----------------------------- MODULE PriceFeed -----------------------------
(***************************************************************************)
(* backend/services/price-oracle, the fetch loop: every interval it asks   *)
(* all providers, keeps the median in memory, appends it to                *)
(* oracle.price_history, folds it into the candles of an hour, of four     *)
(* hours and of a day, and publishes it.  An error of any write is only    *)
(* logged, and the process may die between two.                            *)
(*                                                                         *)
(* One currency pair; prices are small numbers, zero is no answer; time is *)
(* in hours.  The broadcast to subscribers is module PriceHub.  Abstracted:*)
(* the providers' protocols and the form of the answers.                   *)
(***************************************************************************)
EXTENDS Faults, Sequences, FiniteSets

CONSTANTS
    Providers,
    Quotes,       \* prices a provider may answer
    Hours,        \* hours of the clock a fetch may fall in
    MaxFetches    \* bound on the fetches that yield a price, for model checking only

ASSUME FeedAssumption == Quotes \subseteq Nat \ {0} /\ Hours \subseteq Nat /\ MaxFetches \in Nat

VARIABLES
    cached,     \* Oracle.current: the latest price, or NoQuote after a start
    pending,    \* writes the fetch under way has still to make, in order
    fetched,    \* history: the medians of all fetches, as [at, price]
    recorded,   \* oracle.price_history: indices into fetched
    candles,    \* oracle.candles: interval -> start -> [open, high, low, close]
    announcedAs \* price.updated messages: indices into fetched

feedVars == <<cached, pending, fetched, recorded, candles, announcedAs>>

NoQuote == [at |-> 0, price |-> 0]

\* Length of an interval in hours.
Length == [h1 |-> 1, h4 |-> 4, d1 |-> 24]
Intervals == DOMAIN Length

bucketBounds(at, interval) == (at \div Length[interval]) * Length[interval]

Buckets == UNION {{bucketBounds(at, i) : at \in Hours} : i \in Intervals}
NoCandle == [open |-> 0, high |-> 0, low |-> 0, close |-> 0]

Writes == <<"save", "h1", "h4", "d1", "publish">>
StillToWrite ==
    {Writes, <<"h1", "h4", "d1", "publish">>, <<"h4", "d1", "publish">>, <<"d1", "publish">>, <<"publish">>, <<>>}

-----------------------------------------------------------------------------
(* One fetch *)

\* values[len(values)/2] of the sorted positive answers: of two, the higher.
median(answers, v) ==
    LET positive == {p \in Providers : answers[p] > 0}
        half == Cardinality(positive) \div 2
    IN  /\ Cardinality({p \in positive : answers[p] < v}) <= half
        /\ half < Cardinality({p \in positive : answers[p] <= v})

\* Providers answer concurrently, each a price or nothing; without any answer the
\* fetch is skipped and the cache stays.
fetchMedian ==
    /\ pending = <<>> /\ Len(fetched) < MaxFetches
    /\ \E answers \in [Providers -> Quotes \cup {0}], v \in Quotes, at \in Hours :
          /\ median(answers, v)
          /\ Len(fetched) > 0 => at >= fetched[Len(fetched)].at
          /\ fetched' = Append(fetched, [at |-> at, price |-> v])
          /\ cached' = [at |-> at, price |-> v]
    /\ pending' = Writes
    /\ UNCHANGED <<recorded, candles, announcedAs, faults>>

Save == recorded' = recorded \cup {Len(fetched)} /\ UNCHANGED <<candles, announcedAs>>

Greatest(a, b) == IF a >= b THEN a ELSE b
Least(a, b) == IF a <= b THEN a ELSE b

\* Slip, for the mutation runs: the conflict clause leaves the close as it was.
UpsertedKeepsClose(c, p) ==
    IF c = NoCandle THEN [open |-> p, high |-> p, low |-> p, close |-> p]
    ELSE [open |-> c.open, high |-> Greatest(c.high, p), low |-> Least(c.low, p), close |-> c.close]

\* INSERT ... ON CONFLICT (pair, interval, bucket_start) DO UPDATE.
Upserted(c, p) ==
    IF c = NoCandle THEN [open |-> p, high |-> p, low |-> p, close |-> p]
    ELSE [open |-> c.open, high |-> Greatest(c.high, p), low |-> Least(c.low, p), close |-> p]

UpsertCandle(interval) ==
    /\ candles' = [candles EXCEPT ![interval][bucketBounds(cached.at, interval)] = Upserted(@, cached.price)]
    /\ UNCHANGED <<recorded, announcedAs>>

PublishPrice == announcedAs' = announcedAs \cup {Len(fetched)} /\ UNCHANGED <<recorded, candles>>

\* The next write of the fetch, or its error, which is only logged.
fetchAllWrites ==
    /\ pending # <<>>
    /\ \/ /\ \/ Head(pending) = "save" /\ Save
             \/ \E i \in Intervals : Head(pending) = i /\ UpsertCandle(i)
             \/ Head(pending) = "publish" /\ PublishPrice
          /\ UNCHANGED faults
       \/ Fault /\ UNCHANGED <<recorded, candles, announcedAs>>
    /\ pending' = Tail(pending)
    /\ UNCHANGED <<cached, fetched>>

\* The process dies and starts again: nothing in memory, no fetch under way.
FeedRestarts ==
    /\ Fault
    /\ cached' = NoQuote /\ pending' = <<>>
    /\ UNCHANGED <<fetched, recorded, candles, announcedAs>>

FeedInit ==
    /\ cached = NoQuote /\ pending = <<>> /\ fetched = <<>>
    /\ recorded = {} /\ announcedAs = {}
    /\ candles = [i \in Intervals |-> [b \in Buckets |-> NoCandle]]

FeedNext == fetchMedian \/ fetchAllWrites \/ FeedRestarts

FeedSpec == FeedInit /\ faults = 0 /\ [][FeedNext]_<<faults, feedVars>>

-----------------------------------------------------------------------------
(* What GET /price/history and GET /price/candles answer *)

History(since) == {i \in recorded : fetched[i].at >= since}

GetCandles(interval, from, to) ==
    {b \in Buckets : candles[interval][b] # NoCandle /\ from <= b /\ b < to}

-----------------------------------------------------------------------------
(* Properties *)

\* The state is well typed: a fetch writes what the cache holds, in the order of Writes.
FeedTypeOK ==
    /\ cached \in [at : Hours, price : Quotes] \cup {NoQuote}
    /\ pending \in StillToWrite
    /\ fetched \in Seq([at : Hours, price : Quotes])
    /\ recorded \subseteq DOMAIN fetched
    /\ candles \in [Intervals -> [Buckets ->
          [open : Quotes, high : Quotes, low : Quotes, close : Quotes] \cup {NoCandle}]]
    /\ announcedAs \subseteq DOMAIN fetched
    /\ faults \in Nat
    /\ pending # <<>> => fetched # <<>> /\ cached = fetched[Len(fetched)]

\* Between fetches, and through failures and restarts: a price missing from the history
\* or from the bus is one a failure cost; a candle lies between its low and its high and
\* is made of prices of its own hours; and as long as nothing fails it is exactly what
\* the price history gives for those hours, and covers the hourly candles within.
CandlesFollowHistory ==
    LET In(i, b) == {n \in DOMAIN fetched : bucketBounds(fetched[n].at, i) = b}
        Latest(S) == CHOOSE n \in S : \A k \in S : k <= n
        Earliest(S) == CHOOSE n \in S : \A k \in S : n <= k
    IN  pending = <<>> =>
        /\ Cardinality(DOMAIN fetched \ History(0)) <= faults
        /\ Cardinality(DOMAIN fetched \ announcedAs) <= faults
        /\ \A i \in Intervals : \A b \in GetCandles(i, 0, 1000) :
              LET c == candles[i][b]
              IN  /\ c.low <= c.open /\ c.low <= c.close /\ c.open <= c.high /\ c.close <= c.high
                  /\ \A v \in {c.open, c.high, c.low, c.close} :
                        \E n \in In(i, b) : fetched[n].price = v
        /\ faults = 0 =>
              \A i \in Intervals, b \in Buckets :
                  LET S == In(i, b) \cap History(0)
                      c == candles[i][b]
                  IN  IF S = {} THEN c = NoCandle
                      ELSE /\ c.open = fetched[Earliest(S)].price
                           /\ c.close = fetched[Latest(S)].price
                           /\ \A n \in S : c.low <= fetched[n].price /\ fetched[n].price <= c.high
                           /\ \A b1 \in GetCandles("h1", b, b + Length[i]) :
                                 c.low <= candles["h1"][b1].low /\ candles["h1"][b1].high <= c.high
=============================================================================
