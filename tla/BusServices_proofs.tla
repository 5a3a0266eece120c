------------------------- MODULE BusServices_proofs -------------------------
(***************************************************************************)
(* Proofs about the services on the event bus and what they write down:    *)
(* Screening, Notification, Bookkeeping, Fees and AuditTrail, for every    *)
(* set of messages, requests, users, orders and events, every number of    *)
(* deliveries and every number of failures.                                *)
(***************************************************************************)
EXTENDS Screening, Notification, Bookkeeping, Fees, AuditTrail, FiniteSetTheorems, TLAPS

(* The stream *)

LEMMA StreamInit_Type == StreamInit => StreamTypeOK
  BY ServiceAssumption DEF StreamInit, BusInit, StreamTypeOK, BusTypeOK

\* Consumers that no message was ever delivered to.
Untouched(durables) ==
    \A d \in durables : handling[d] = "none" /\ acked[d] = {} /\ \A id \in Ids : attempts[d][id] = 0

LEMMA StreamInit_Untouched == StreamInit => Untouched(Durables)
  BY DEF StreamInit, BusInit, Untouched

\* What the bus and the publishers do.
LEMMA Stream_Type ==
    ASSUME StreamTypeOK, Stream, UNCHANGED service
    PROVE  StreamTypeOK'
  <1>1. CASE \E s \in Subjects, id \in Ids : Published(s, id)
    BY <1>1 DEF Published, busVars, StreamTypeOK, BusTypeOK
  <1>2. ASSUME NEW d \in Listening, NEW id \in Ids, Deliver(d, id), UNCHANGED <<published, faults>>
        PROVE  StreamTypeOK'
    <2>1. d \in Durables
      BY DEF Listening
    <2>2. attempts[d][id] \in 0..MaxDeliver /\ attempts[d][id] < MaxDeliver
      BY <1>2, <2>1 DEF Deliver, StreamTypeOK, BusTypeOK
    <2>3. attempts[d][id] + 1 \in 0..MaxDeliver
      BY <2>2, ServiceAssumption
    <2>4. /\ attempts' = [attempts EXCEPT ![d][id] = @ + 1]
          /\ handling' = [handling EXCEPT ![d] = id] /\ UNCHANGED acked
      BY <1>2 DEF Deliver
    <2>5. attempts' \in [Durables -> [Ids -> 0..MaxDeliver]]
      BY <2>1, <2>3, <2>4 DEF StreamTypeOK, BusTypeOK
    <2>6. handling' \in [Durables -> Ids \cup {"none"}]
      BY <2>1, <2>4 DEF StreamTypeOK, BusTypeOK
    <2> QED BY <1>2, <2>4, <2>5, <2>6 DEF StreamTypeOK, BusTypeOK
  <1> QED BY <1>1, <1>2 DEF Stream

\* A handler is done with its message.
LEMMA Settle_Type ==
    ASSUME StreamTypeOK, NEW d \in Durables, Ack(d) \/ Nak(d),
           UNCHANGED <<service, published>>, faults' \in Nat
    PROVE  /\ StreamTypeOK' /\ handling[d] \in Ids
           /\ handling' = [handling EXCEPT ![d] = "none"]
           /\ \A x \in Durables \ {d} : handling'[x] = handling[x]
           /\ handling'[d] = "none" /\ attempts' = attempts
  <1>1. /\ handling[d] \in Ids /\ handling' = [handling EXCEPT ![d] = "none"]
        /\ attempts' = attempts
        /\ acked' = acked \/ acked' = [acked EXCEPT ![d] = @ \cup {handling[d]}]
    BY DEF Ack, Nak, StreamTypeOK, BusTypeOK
  <1>2. acked' \in [Durables -> SUBSET Ids] /\ handling' \in [Durables -> Ids \cup {"none"}]
    BY <1>1 DEF StreamTypeOK, BusTypeOK
  <1>3. StreamTypeOK'
    BY <1>1, <1>2 DEF StreamTypeOK, BusTypeOK
  <1> QED BY <1>1, <1>3 DEF StreamTypeOK, BusTypeOK

LEMMA FaultCounts == ASSUME faults \in Nat, Fault PROVE faults' = faults + 1 /\ faults' \in Nat
  BY DEF Fault

-----------------------------------------------------------------------------
(* Sanctions screening *)

\* A screening past its first write has saved its result, and one for an order is of
\* the user who placed it.
RunsRestOnResults ==
    /\ buyer \in [Ids -> Users]
    /\ \A w \in Screeners : run[w].stage \in {"upsert", "publish"} => Result(w) \in results
    /\ run[Consumer] # NoRun => /\ run[Consumer].order \in Ids
                                /\ run[Consumer].user = buyer[run[Consumer].order]

\* The inductive invariant of the screenings.
ScreenInv ==
    StreamTypeOK /\ ScreenTypeOK /\ RunsRestOnResults /\ VerdictsRestOnResults

Runs == [stage : {"save", "upsert", "publish", "done"}, user : Users,
         order : Ids \cup {"none"}, allowed : BOOLEAN]
Results == [user : Users, order : Ids \cup {"none"}, allowed : BOOLEAN]

LEMMA RunFields ==
    /\ NoRun \notin Runs /\ NoRun.stage = "idle"
    /\ \A r \in Runs : /\ r.stage \in {"save", "upsert", "publish", "done"} /\ r.user \in Users
                       /\ r.order \in Ids \cup {"none"} /\ r.allowed \in BOOLEAN
  BY DEF Runs, NoRun

LEMMA RunMoves ==
    ASSUME ScreenTypeOK, NEW w \in Screeners, run[w] # NoRun,
           NEW to \in {"upsert", "publish", "done"}, Proceed(w, to)
    PROVE  /\ run' \in [Screeners -> Runs \cup {NoRun}]
           /\ run'[w].stage = to /\ run'[w] # NoRun
           /\ run'[w].user = run[w].user /\ run'[w].order = run[w].order
           /\ run'[w].allowed = run[w].allowed
           /\ \A x \in Screeners \ {w} : run'[x] = run[x]
  <1>1. run \in [Screeners -> Runs \cup {NoRun}]
    BY DEF ScreenTypeOK, Runs
  <1>2. run[w] \in Runs /\ run'[w] = [run[w] EXCEPT !.stage = to]
    BY <1>1 DEF Proceed
  <1>3. /\ run'[w] \in Runs /\ run'[w].stage = to
        /\ run'[w].user = run[w].user /\ run'[w].order = run[w].order
        /\ run'[w].allowed = run[w].allowed
    BY <1>2 DEF Runs
  <1>4. \A x \in Screeners \ {w} : run'[x] = run[x]
    BY <1>1 DEF Proceed
  <1> HIDE DEF Runs, NoRun
  <1> QED BY <1>1, <1>3, <1>4, RunFields DEF Proceed

LEMMA RunStarts ==
    ASSUME ScreenTypeOK, NEW w \in Screeners, NEW r \in Runs \cup {NoRun},
           run' = [run EXCEPT ![w] = r]
    PROVE  /\ run' \in [Screeners -> Runs \cup {NoRun}] /\ run'[w] = r
           /\ \A x \in Screeners \ {w} : run'[x] = run[x]
  <1>1. run \in [Screeners -> Runs \cup {NoRun}]
    BY DEF ScreenTypeOK, Runs
  <1> HIDE DEF Runs, NoRun
  <1> QED BY <1>1

LEMMA ResultIs ==
    ASSUME ScreenTypeOK, NEW w \in Screeners, run[w] # NoRun
    PROVE  /\ run[w] \in Runs /\ Result(w) \in Results
           /\ Result(w).user = run[w].user /\ Result(w).order = run[w].order
           /\ Result(w).allowed = run[w].allowed
  <1>1. run[w] \in Runs
    BY DEF ScreenTypeOK, Runs
  <1> QED BY <1>1, RunFields DEF Result, Results

LEMMA ScreenInit_Type == ScreenInit => ScreenTypeOK /\ VerdictsRestOnResults
  BY DEF ScreenInit, ScreenTypeOK, VerdictsRestOnResults

LEMMA ScreenInit_Inv == StreamInit /\ service = "compliance" /\ ScreenInit => ScreenInv
  <1> SUFFICES ASSUME StreamInit, service = "compliance", ScreenInit PROVE ScreenInv
    OBVIOUS
  <1>1. \A w \in Screeners : run[w] = NoRun
    BY DEF ScreenInit
  <1>2. Consumer \in Screeners
    BY DEF Screeners
  <1>3. ScreenTypeOK
    BY DEF ScreenInit, ScreenTypeOK
  <1>4. RunsRestOnResults
    BY <1>1, <1>2, RunFields DEF ScreenInit, RunsRestOnResults
  <1>5. VerdictsRestOnResults
    BY DEF ScreenInit, VerdictsRestOnResults
  <1> QED BY <1>3, <1>4, <1>5, StreamInit_Type DEF ScreenInv

\* The verdicts rest on results, and results and status only grow with them.
LEMMA VerdictsKept ==
    ASSUME ScreenInv, results \subseteq results', UNCHANGED <<status, verdicts, buyer>>
    PROVE  VerdictsRestOnResults'
  BY DEF ScreenInv, VerdictsRestOnResults

\* A run ends or starts anew, and nothing else is written.
LEMMA RunResets ==
    ASSUME ScreenInv, NEW w \in Screeners, NEW r \in Runs \cup {NoRun},
           run' = [run EXCEPT ![w] = r], r.stage \in {"idle", "save", "done"},
           w = Consumer => \/ r = NoRun
                           \/ r.order \in Ids /\ r.user = buyer[r.order],
           UNCHANGED <<buyer, results, status>>, StreamTypeOK',
           \/ verdicts' = verdicts
           \/ VerdictsRestOnResults' /\ \A v \in verdicts' : v.id \in Ids
    PROVE  ScreenInv'
  <1>1. ScreenTypeOK /\ RunsRestOnResults /\ VerdictsRestOnResults
    BY DEF ScreenInv
  <1>2. /\ run' \in [Screeners -> Runs \cup {NoRun}] /\ run'[w] = r
        /\ \A x \in Screeners \ {w} : run'[x] = run[x]
    BY <1>1, RunStarts
  <1>3. ScreenTypeOK'
    BY <1>1, <1>2 DEF ScreenTypeOK, Runs
  <1>4. RunsRestOnResults'
    <2>1. Consumer \in Screeners
      BY DEF Screeners
    <2>2. \A x \in Screeners :
             run'[x].stage \in {"upsert", "publish"} => Result(x)' \in results'
      BY <1>1, <1>2 DEF RunsRestOnResults, Result
    <2> QED BY <1>1, <1>2, <2>1, <2>2 DEF RunsRestOnResults
  <1>5. VerdictsRestOnResults'
    BY VerdictsKept
  <1> QED BY <1>3, <1>4, <1>5 DEF ScreenInv

LEMMA GiveUp_Inv ==
    ASSUME ScreenInv, NEW w \in Screeners, run[w] # NoRun, faults' \in Nat,
           \/ GiveUp(w)
           \/ w = Consumer /\ run' = [run EXCEPT ![w] = NoRun] /\ Nak(w),
           UNCHANGED <<service, published, buyer, results, status, verdicts>>
    PROVE  ScreenInv'
  <1>1. ScreenTypeOK /\ StreamTypeOK /\ RunsRestOnResults
    BY DEF ScreenInv
  <1>2. CASE w = Consumer
    <2>1. run' = [run EXCEPT ![w] = NoRun] /\ (Ack(w) \/ Nak(w))
      BY <1>2 DEF GiveUp
    <2>2. w \in Durables
      BY <1>2 DEF Consumer, Durables, FilterSubject
    <2>3. StreamTypeOK'
      BY <1>1, <2>1, <2>2, Settle_Type
    <2> QED BY <1>2, <2>1, <2>3, RunResets, RunFields
  <1>3. CASE w # Consumer
    <2>1. Proceed(w, "done") /\ UNCHANGED busVars
      BY <1>3 DEF GiveUp
    <2>2. StreamTypeOK'
      BY <1>1, <2>1 DEF StreamTypeOK, BusTypeOK, busVars
    <2>3. run[w] \in Runs
      BY <1>1, ResultIs
    <2>4. [run[w] EXCEPT !.stage = "done"] \in Runs
      BY <2>3 DEF Runs
    <2>5. [run[w] EXCEPT !.stage = "done"].stage = "done"
      BY <2>3 DEF Runs
    <2>6. run' = [run EXCEPT ![w] = [run[w] EXCEPT !.stage = "done"]]
      BY <2>1 DEF Proceed
    <2> QED BY <1>3, <2>2, <2>4, <2>5, <2>6, RunResets
  <1> QED BY <1>2, <1>3

LEMMA ScreenNext_Inv ==
    ASSUME ScreenInv, [ScreenBusNext]_screenBusVars
    PROVE  ScreenInv'
  <1>1. StreamTypeOK /\ ScreenTypeOK /\ RunsRestOnResults /\ VerdictsRestOnResults
    BY DEF ScreenInv
  <1>2. Consumer \in Screeners /\ Consumer \notin Calls /\ Consumer \in Durables
    BY ScreeningAssumption DEF Screeners, Consumer, Durables, FilterSubject
  <1>3. ASSUME UNCHANGED <<service, published, busVars>>, faults' \in Nat
        PROVE  StreamTypeOK'
    BY <1>1, <1>3 DEF StreamTypeOK, BusTypeOK, busVars
  <1>4. ASSUME NEW c \in Calls, screen(c), UNCHANGED service PROVE ScreenInv'
    <2>1. PICK u \in Users, name \in Names \ {""} :
             run' = [run EXCEPT ![c] =
                [stage |-> "save", user |-> u, order |-> "none", allowed |-> Screen(name)]]
      BY <1>4 DEF screen
    <2>2. [stage |-> "save", user |-> u, order |-> "none", allowed |-> Screen(name)] \in Runs
      BY DEF Runs, Screen
    <2>3. UNCHANGED <<streamVars, faults, buyer, results, status, verdicts>>
      BY <1>4 DEF screen
    <2>4. StreamTypeOK' /\ c \in Screeners /\ c # Consumer
      BY <1>1, <1>2, <1>3, <1>4, <2>3 DEF streamVars, Screeners, StreamTypeOK
    <2> QED BY <2>1, <2>2, <2>3, <2>4, RunResets
  <1>5. ASSUME handleOrderCreated, UNCHANGED service PROVE ScreenInv'
    <2> DEFINE o == handling[Consumer]
    <2> DEFINE r == [stage |-> "save", user |-> buyer[o], order |-> o, allowed |-> Screen("")]
    <2>1. o \in Ids /\ run' = [run EXCEPT ![Consumer] = r]
      BY <1>1, <1>2, <1>5 DEF handleOrderCreated, StreamTypeOK, BusTypeOK
    <2>2. r \in Runs /\ r.stage = "save" /\ r.order = o /\ r.user = buyer[o]
      BY <1>1, <2>1 DEF Runs, Screen, RunsRestOnResults
    <2>3. UNCHANGED <<streamVars, faults, buyer, results, status, verdicts>>
      BY <1>5 DEF handleOrderCreated
    <2>4. StreamTypeOK'
      BY <1>1, <1>3, <1>5, <2>3 DEF streamVars, StreamTypeOK
    <2> HIDE DEF r
    <2> QED BY <1>2, <2>1, <2>2, <2>3, <2>4, RunResets
  <1>6. ASSUME NEW w \in Screeners, SaveResult(w), UNCHANGED service PROVE ScreenInv'
    <2>1. /\ run[w] # NoRun /\ Proceed(w, "upsert") /\ results' = results \cup {Result(w)}
          /\ UNCHANGED <<streamVars, faults, buyer, status, verdicts>>
      BY <1>6, RunFields DEF SaveResult
    <2>2. /\ run' \in [Screeners -> Runs \cup {NoRun}]
          /\ run'[w].stage = "upsert" /\ run'[w] # NoRun
          /\ run'[w].user = run[w].user /\ run'[w].order = run[w].order
          /\ run'[w].allowed = run[w].allowed
          /\ \A x \in Screeners \ {w} : run'[x] = run[x]
      BY <1>1, <2>1, RunMoves
    <2>3. Result(w) \in Results
      BY <1>1, <2>1, ResultIs
    <2>4. StreamTypeOK'
      BY <1>1, <1>3, <1>6, <2>1 DEF streamVars, StreamTypeOK
    <2>5. ScreenTypeOK'
      BY <1>1, <2>1, <2>2, <2>3 DEF ScreenTypeOK, Runs, Results
    <2>6. \A x \in Screeners : run'[x].stage \in {"upsert", "publish"} => Result(x)' \in results'
      BY <1>1, <2>1, <2>2 DEF RunsRestOnResults, Result
    <2>7. RunsRestOnResults'
      BY <1>1, <1>2, <2>1, <2>2, <2>6 DEF RunsRestOnResults
    <2> QED BY <2>1, <2>4, <2>5, <2>7, VerdictsKept DEF ScreenInv
  <1>7. ASSUME NEW w \in Screeners, SaveResultFails(w), UNCHANGED service PROVE ScreenInv'
    <2>1. run[w] # NoRun
      BY <1>7, RunFields DEF SaveResultFails
    <2>2. faults' \in Nat
      BY <1>1, <1>7, FaultCounts DEF SaveResultFails, StreamTypeOK
    <2> QED BY <1>7, <2>1, <2>2, GiveUp_Inv DEF SaveResultFails
  <1>8. ASSUME NEW w \in Screeners, UpsertState(w), UNCHANGED service PROVE ScreenInv'
    <2> DEFINE to == IF w = Consumer THEN "publish" ELSE "done"
    <2>1. /\ run[w] # NoRun /\ Proceed(w, to) /\ run[w].stage = "upsert"
          /\ UNCHANGED <<streamVars, buyer, results, verdicts>>
          /\ status' = status \/ status' = [status EXCEPT ![run[w].user] =
                                               IF run[w].allowed THEN "clear" ELSE "blocked"]
      BY <1>8, RunFields DEF UpsertState
    <2>2. /\ run' \in [Screeners -> Runs \cup {NoRun}]
          /\ run'[w].stage = to /\ run'[w] # NoRun
          /\ run'[w].user = run[w].user /\ run'[w].order = run[w].order
          /\ run'[w].allowed = run[w].allowed
          /\ \A x \in Screeners \ {w} : run'[x] = run[x]
      BY <1>1, <2>1, RunMoves
    <2>3. /\ run[w] \in Runs /\ Result(w) \in results /\ Result(w).user = run[w].user
          /\ Result(w).allowed = run[w].allowed
      BY <1>1, <2>1, ResultIs DEF RunsRestOnResults
    <2>4. StreamTypeOK'
      <3>1. faults' \in Nat
        BY <1>1, <1>8, FaultCounts DEF UpsertState, StreamTypeOK
      <3> QED BY <1>3, <1>8, <2>1, <3>1 DEF streamVars
    <2>5. ScreenTypeOK'
      BY <1>1, <2>1, <2>2, <2>3, RunFields DEF ScreenTypeOK, Runs
    <2>6. \A x \in Screeners : run'[x].stage \in {"upsert", "publish"} => Result(x)' \in results'
      BY <1>1, <2>1, <2>2, <2>3 DEF RunsRestOnResults, Result
    <2>7. RunsRestOnResults'
      BY <1>1, <1>2, <2>1, <2>2, <2>6 DEF RunsRestOnResults
    <2>8. VerdictsRestOnResults'
      <3>1. ASSUME NEW u \in Users, status'[u] # "none"
            PROVE  \E r \in results : r.user = u /\ r.allowed = (status'[u] = "clear")
        <4>1. CASE status'[u] = status[u]
          BY <1>1, <3>1, <4>1 DEF VerdictsRestOnResults
        <4>2. CASE status'[u] # status[u]
          <5>1. /\ u = run[w].user
                /\ status'[u] = IF run[w].allowed THEN "clear" ELSE "blocked"
            BY <1>1, <2>1, <4>2 DEF ScreenTypeOK
          <5>2. run[w].allowed = (status'[u] = "clear")
            BY <2>3, <5>1, RunFields
          <5> QED BY <2>3, <5>1, <5>2
        <4> QED BY <4>1, <4>2
      <3> QED BY <1>1, <2>1, <3>1 DEF VerdictsRestOnResults
    <2> QED BY <2>4, <2>5, <2>7, <2>8 DEF ScreenInv
  <1>9. ASSUME NEW w \in Screeners, ScreenerDies(w), UNCHANGED service PROVE ScreenInv'
    <2>1. run[w] # NoRun /\ UNCHANGED <<published, buyer, results, status, verdicts>>
      BY <1>9, RunFields DEF ScreenerDies
    <2>2. faults' \in Nat
      BY <1>1, <1>9, FaultCounts DEF ScreenerDies, HandlerFails, StreamTypeOK
    <2>3. \/ GiveUp(w)
          \/ w = Consumer /\ run' = [run EXCEPT ![w] = NoRun] /\ Nak(w)
      BY <1>9 DEF ScreenerDies, HandlerFails, GiveUp
    <2> QED BY <1>9, <2>1, <2>2, <2>3, GiveUp_Inv
  <1>10. ASSUME publishVerdict, UNCHANGED service PROVE ScreenInv'
    <2> DEFINE v == [subject |-> VerdictSubject(run[Consumer].allowed), id |-> run[Consumer].order]
    <2>1. /\ run[Consumer].stage = "publish" /\ run[Consumer] # NoRun
          /\ run' = [run EXCEPT ![Consumer] = NoRun]
          /\ UNCHANGED <<published, buyer, results, status>>
          /\ verdicts' = verdicts \/ verdicts' = verdicts \cup {v}
          /\ Ack(Consumer) \/ Nak(Consumer)
      BY <1>10, RunFields DEF publishVerdict, Acknowledged
    <2>2. faults' \in Nat
      BY <1>1, <1>10, FaultCounts DEF publishVerdict, Acknowledged, StreamTypeOK
    <2>3. StreamTypeOK'
      BY <1>1, <1>2, <1>10, <2>1, <2>2, Settle_Type
    <2>4. /\ run[Consumer].order \in Ids /\ run[Consumer].user = buyer[run[Consumer].order]
          /\ Result(Consumer) \in results
          /\ Result(Consumer).user = run[Consumer].user /\ Result(Consumer).order = run[Consumer].order
          /\ Result(Consumer).allowed = run[Consumer].allowed
      BY <1>1, <1>2, <2>1, ResultIs DEF RunsRestOnResults
    <2>5. v.id = run[Consumer].order /\ v.subject = VerdictSubject(run[Consumer].allowed)
      OBVIOUS
    <2>6. VerdictsRestOnResults' /\ \A x \in verdicts' : x.id \in Ids
      <3> HIDE DEF v
      <3> QED BY <1>1, <2>1, <2>4, <2>5 DEF VerdictsRestOnResults, ScreenTypeOK
    <2> QED BY <1>2, <2>1, <2>3, <2>6, RunResets, RunFields
  <1>11. ASSUME Stream, UNCHANGED <<service, screenVars>> PROVE ScreenInv'
    <2>1. StreamTypeOK'
      BY <1>1, <1>11, Stream_Type
    <2> QED BY <1>1, <1>11, <2>1
            DEF ScreenInv, screenVars, ScreenTypeOK, RunsRestOnResults, VerdictsRestOnResults, Result
  <1>12. CASE UNCHANGED screenBusVars
    <2>1. StreamTypeOK'
      BY <1>1, <1>3, <1>12 DEF screenBusVars, streamVars, StreamTypeOK
    <2> QED BY <1>1, <1>12, <2>1
            DEF ScreenInv, screenBusVars, screenVars, ScreenTypeOK, RunsRestOnResults,
                VerdictsRestOnResults, Result
  <1> QED
    <2>1. CASE ScreenNext /\ UNCHANGED service
      BY <1>2, <1>4, <1>5, <1>6, <1>7, <1>8, <1>9, <1>10, <2>1 DEF ScreenNext
    <2> QED BY <1>11, <1>12, <2>1 DEF ScreenBusNext

\* The invariant of the screenings, types included, in every reachable state.
THEOREM ScreenInvariant == ScreenSpec => []ScreenInv
  <1>1. ScreenInv /\ [ScreenBusNext]_screenBusVars => ScreenInv'
    BY ScreenNext_Inv
  <1> QED BY <1>1, ScreenInit_Inv, PTL DEF ScreenSpec

\* However screenings race, fail and are repeated: a status and a published verdict
\* rest on a result that was saved, of that user and of that order.
THEOREM VerdictsRest == ScreenSpec => []VerdictsRestOnResults
  BY ScreenInvariant, PTL DEF ScreenInv

-----------------------------------------------------------------------------
(* Notifications *)

Notifiers == DurablesOf["notification"]
OrderNotifier == "notif_order_created"

\* Copies of the preferences, as rows, in a request or in a handler, hold nothing that
\* nobody asked for.
CopiesAreAsked ==
    /\ AreAsked(prefs)
    /\ \A r \in Settings : setting[r].stage = "read" => AreAsked(setting[r].read)
    /\ \A d \in Notifiers : \A ch \in notice[d].left : ch \in DefaultPrefs \/ Asked(ch, TRUE)
    /\ \A id \in Ids, ch \in Channels : deliveries[id][ch] > 0 => ch \in DefaultPrefs \/ Asked(ch, TRUE)

\* A handler works on a message of its own, and only on one that names its user.
HandlersAreBusy == \A d \in Notifiers :
    notice[d] # NoNotice => d = OrderNotifier /\ handling[d] # "none"

\* A message comes again only for a failure.
Repeated == \A id \in Ids :
    attempts[OrderNotifier][id] <=
       faults + (IF handling[OrderNotifier] = id \/ id \in acked[OrderNotifier] THEN 1 ELSE 0)

\* A channel is written at most once in each attempt.
Pending(id, ch) ==
    /\ handling[OrderNotifier] = id
    /\ notice[OrderNotifier] = NoNotice \/ ch \in notice[OrderNotifier].left

RowsFollowAttempts == \A id \in Ids, ch \in Channels :
    deliveries[id][ch] + (IF Pending(id, ch) THEN 1 ELSE 0) <= attempts[OrderNotifier][id]

\* What was wanted all along is written before the event is acknowledged.
WantedIsWritten ==
    faults = 0 => \A id \in Ids, ch \in Channels :
        /\ WantedAllAlong(ch)
        /\ id \in acked[OrderNotifier] \/ (handling[OrderNotifier] = id /\ ~Pending(id, ch))
        => deliveries[id][ch] > 0

\* The inductive invariant of the notifications.
NoticeInv ==
    /\ StreamTypeOK /\ NoticeTypeOK /\ CopiesAreAsked /\ HandlersAreBusy /\ Repeated
    /\ RowsFollowAttempts /\ WantedIsWritten

Working == [stage : {"send"}, left : SUBSET Channels, tries : 0..WebhookMaxRetries - 1]
Asking == [stage : {"read", "done"}, read : SUBSET Channels, channel : Channels, on : BOOLEAN]

NoticeTyped ==
    /\ prefs \subseteq Channels
    /\ setting \in [Settings -> Asking \cup {NoSetting}]
    /\ notice \in [Notifiers -> Working \cup {NoNotice}]
    /\ deliveries \in [Ids -> [Channels -> Nat]]

LEMMA NoticeTypes == (NoticeTypeOK <=> NoticeTyped) /\ (NoticeTypeOK' <=> NoticeTyped')
  BY DEF NoticeTyped, NoticeTypeOK, Working, Asking, Notifiers

LEMMA NoticeFields ==
    /\ NoNotice \notin Working /\ NoNotice.left = {} /\ NoNotice.stage = "idle"
    /\ NoSetting \notin Asking /\ NoSetting.stage = "idle" /\ NoSetting.channel \notin Channels
    /\ \A n \in Working : n.left \subseteq Channels /\ n.stage = "send"
    /\ \A a \in Asking : /\ a.stage \in {"read", "done"} /\ a.read \subseteq Channels
                         /\ a.channel \in Channels /\ a.on \in BOOLEAN
    /\ DefaultPrefs \subseteq Channels /\ ToSet(TemplateChannels) \subseteq Channels
    /\ OrderNotifier \in Notifiers /\ Notifiers \subseteq Durables /\ NamesUser = {OrderNotifier}
  <1>1. ToSet(TemplateChannels) \subseteq Channels
    BY NotificationAssumption DEF ToSet
  <1>2. OrderNotifier \in Notifiers /\ Notifiers \subseteq Durables /\ NamesUser = {OrderNotifier}
    BY DEF OrderNotifier, Notifiers, DurablesOf, Durables, FilterSubject, NamesUser
  <1> QED BY <1>1, <1>2 DEF NoNotice, NoSetting, Working, Asking, Channels, DefaultPrefs

\* What was asked for stays asked for, and failures stay.
AskedGrows ==
    /\ \A ch \in Channels : (Asked(ch, TRUE) => Asked(ch, TRUE)')
                           /\ (Asked(ch, FALSE) => Asked(ch, FALSE)')
    /\ faults' \in Nat /\ faults <= faults'

LEMMA HandlersAskNothing ==
    ASSUME UNCHANGED setting, faults \in Nat, faults' \in Nat, faults <= faults'
    PROVE  AskedGrows
  BY DEF AskedGrows, Asked

LEMMA AskedStays ==
    ASSUME AskedGrows, faults \in Nat
    PROVE  \A P \in SUBSET Channels : AreAsked(P) =>
              /\ \A ch \in P \ DefaultPrefs : Asked(ch, TRUE)'
              /\ \A ch \in DefaultPrefs \ P : Asked(ch, FALSE)' \/ faults' > 0
  <1>1. faults' \in Nat /\ faults <= faults'
    BY DEF AskedGrows
  <1>2. ASSUME NEW P \in SUBSET Channels, AreAsked(P), NEW ch \in P \ DefaultPrefs
        PROVE  Asked(ch, TRUE)'
    BY <1>2 DEF AreAsked, AskedGrows
  <1>3. ASSUME NEW P \in SUBSET Channels, AreAsked(P), NEW ch \in DefaultPrefs \ P
        PROVE  Asked(ch, FALSE)' \/ faults' > 0
    <2>1. ch \in Channels /\ (Asked(ch, FALSE) \/ faults > 0)
      BY <1>3, NoticeFields DEF AreAsked
    <2>2. CASE Asked(ch, FALSE)
      BY <2>1, <2>2 DEF AskedGrows
    <2>3. ASSUME faults > 0 PROVE faults' > 0
      BY <1>1, <2>3
    <2> QED BY <2>1, <2>2, <2>3
  <1> QED BY <1>2, <1>3

\* A handler's step leaves the copies of the preferences alone.
LEMMA CopiesKept ==
    ASSUME NoticeInv, AskedGrows, UNCHANGED <<prefs, setting>>,
           notice' \in [Notifiers -> Working \cup {NoNotice}],
           \A d \in Notifiers : notice'[d].left \subseteq notice[d].left \/ notice'[d].left \subseteq prefs,
           \A id \in Ids, ch \in Channels :
               deliveries'[id][ch] > 0 => deliveries[id][ch] > 0 \/ \E d \in Notifiers : ch \in notice[d].left
    PROVE  CopiesAreAsked'
  <1>1. NoticeTyped /\ CopiesAreAsked /\ StreamTypeOK
    BY NoticeTypes DEF NoticeInv
  <1>2. DefaultPrefs \subseteq Channels
    BY NoticeFields
  <1>3. \A P \in SUBSET Channels : AreAsked(P) =>
           /\ \A ch \in P \ DefaultPrefs : Asked(ch, TRUE)'
           /\ \A ch \in DefaultPrefs \ P : Asked(ch, FALSE)' \/ faults' > 0
    BY <1>1, AskedStays DEF StreamTypeOK
  <1>4. AreAsked(prefs)'
    BY <1>1, <1>3 DEF NoticeTyped, CopiesAreAsked, AreAsked
  <1>5. ASSUME NEW r \in Settings, setting'[r].stage = "read" PROVE AreAsked(setting[r].read)'
    <2>1. setting[r].read \subseteq Channels /\ setting'[r].read = setting[r].read
      BY <1>1, <1>5, NoticeFields DEF NoticeTyped
    <2>2. AreAsked(setting[r].read)
      BY <1>1, <1>5 DEF CopiesAreAsked
    <2> QED BY <1>3, <2>1, <2>2 DEF AreAsked
  <1>6. \A d \in Notifiers : notice[d].left \subseteq Channels
    BY <1>1, NoticeFields DEF NoticeTyped
  <1>7. ASSUME NEW d \in Notifiers, NEW ch \in notice[d].left
        PROVE  ch \in Channels /\ (ch \in DefaultPrefs \/ Asked(ch, TRUE)')
    BY <1>1, <1>6, <1>7 DEF CopiesAreAsked, AskedGrows
  <1>8. ASSUME NEW ch \in prefs PROVE ch \in DefaultPrefs \/ Asked(ch, TRUE)'
    BY <1>1, <1>3, <1>8 DEF NoticeTyped, CopiesAreAsked
  <1>9. ASSUME NEW d \in Notifiers, NEW ch \in notice'[d].left
        PROVE  ch \in DefaultPrefs \/ Asked(ch, TRUE)'
    BY <1>7, <1>8, <1>9
  <1>10. ASSUME NEW id \in Ids, NEW ch \in Channels, deliveries'[id][ch] > 0
         PROVE  ch \in DefaultPrefs \/ Asked(ch, TRUE)'
    BY <1>1, <1>7, <1>10 DEF CopiesAreAsked, AskedGrows
  <1> QED BY <1>4, <1>5, <1>9, <1>10 DEF CopiesAreAsked

LEMMA NoticeInit_Inv == StreamTypeOK /\ Untouched(Notifiers) /\ NoticeInit => NoticeInv
  <1> SUFFICES ASSUME StreamTypeOK, Untouched(Notifiers), NoticeInit PROVE NoticeInv
    OBVIOUS
  <1>1. NoticeTypeOK
    BY NoticeTypes, NoticeFields DEF NoticeInit, NoticeTyped, Notifiers
  <1>2. /\ \A d \in Notifiers : notice[d] = NoNotice
        /\ \A r \in Settings : setting[r] = NoSetting
        /\ \A id \in Ids, ch \in Channels : deliveries[id][ch] = 0
    BY DEF NoticeInit, Notifiers
  <1>3. CopiesAreAsked
    <2>1. prefs = DefaultPrefs
      BY DEF NoticeInit
    <2>2. AreAsked(prefs)
      BY <2>1 DEF AreAsked
    <2>3. /\ \A r \in Settings : setting[r].stage # "read"
          /\ \A d \in Notifiers : notice[d].left = {}
          /\ \A id \in Ids, ch \in Channels : ~(deliveries[id][ch] > 0)
      BY <1>2, NoticeFields
    <2> QED BY <2>2, <2>3 DEF CopiesAreAsked
  <1>4. /\ \A d \in Notifiers : handling[d] = "none" /\ acked[d] = {}
        /\ \A d \in Notifiers, id \in Ids : attempts[d][id] = 0
        /\ faults \in Nat
    BY DEF Untouched, StreamTypeOK
  <1>5. "none" \notin Ids /\ OrderNotifier \in Notifiers
    BY ServiceAssumption, NoticeFields
  <1>6. HandlersAreBusy /\ Repeated /\ RowsFollowAttempts /\ WantedIsWritten
    BY <1>2, <1>4, <1>5 DEF HandlersAreBusy, Repeated, RowsFollowAttempts, WantedIsWritten, Pending
  <1> QED BY <1>1, <1>3, <1>6 DEF NoticeInv

LEMMA WantedShrinks ==
    ASSUME AskedGrows, NEW ch \in Channels, WantedAllAlong(ch)'
    PROVE  WantedAllAlong(ch)
  BY DEF AskedGrows, WantedAllAlong

\* A handler is done with its message, on every channel or for a failure.
LEMMA NoticeSettles ==
    ASSUME NoticeInv, NEW d \in Notifiers, notice' = [notice EXCEPT ![d] = NoNotice],
           \/ Ack(d) /\ UNCHANGED faults /\ (d = OrderNotifier => notice[d] # NoNotice /\ notice[d].left = {})
           \/ Nak(d) /\ Fault,
           UNCHANGED <<service, published, prefs, setting, deliveries>>
    PROVE  NoticeInv'
  <1> DEFINE O == OrderNotifier
  <1>1. NoticeTyped /\ CopiesAreAsked /\ StreamTypeOK /\ HandlersAreBusy /\ Repeated
        /\ RowsFollowAttempts /\ WantedIsWritten
    BY NoticeTypes DEF NoticeInv
  <1>2. O \in Notifiers /\ O \in Durables /\ d \in Durables /\ "none" \notin Ids
    BY NoticeFields, ServiceAssumption
  <1>3. faults \in Nat /\ faults' \in Nat /\ faults <= faults'
    BY <1>1 DEF Fault, StreamTypeOK
  <1>4. /\ StreamTypeOK' /\ handling[d] \in Ids /\ handling'[d] = "none" /\ attempts' = attempts
        /\ \A x \in Durables \ {d} : handling'[x] = handling[x]
    BY <1>1, <1>2, <1>3, Settle_Type
  <1>5. AskedGrows
    BY <1>3, HandlersAskNothing
  <1>6. /\ notice' \in [Notifiers -> Working \cup {NoNotice}] /\ notice'[d] = NoNotice
        /\ \A x \in Notifiers \ {d} : notice'[x] = notice[x]
    <2> HIDE DEF NoNotice
    <2> QED BY <1>1 DEF NoticeTyped, Notifiers
  <1>7. NoticeTypeOK'
    BY <1>1, <1>6, NoticeTypes DEF NoticeTyped
  <1>8. CopiesAreAsked'
    BY <1>5, <1>6, NoticeFields, CopiesKept
  <1>9. HandlersAreBusy'
    BY <1>1, <1>2, <1>4, <1>6, NoticeFields DEF HandlersAreBusy
  <1>10. attempts[O] \in [Ids -> 0..MaxDeliver] /\ acked \in [Durables -> SUBSET Ids]
    BY <1>1, <1>2 DEF StreamTypeOK, BusTypeOK
  <1>11. deliveries \in [Ids -> [Channels -> Nat]]
    BY <1>1 DEF NoticeTyped
  <1>12. CASE d # O
    <2>1. handling'[O] = handling[O] /\ notice'[O] = notice[O] /\ acked'[O] = acked[O]
      BY <1>2, <1>4, <1>6, <1>10, <1>12 DEF Ack, Nak
    <2>2. Repeated'
      BY <1>1, <1>3, <1>4, <1>10, <2>1 DEF Repeated
    <2>3. RowsFollowAttempts'
      BY <1>1, <1>4, <2>1 DEF RowsFollowAttempts, Pending
    <2>4. WantedIsWritten'
      BY <1>1, <1>3, <1>5, <2>1, WantedShrinks DEF WantedIsWritten, Pending
    <2> QED BY <1>4, <1>7, <1>8, <1>9, <2>2, <2>3, <2>4 DEF NoticeInv
  <1>13. CASE d = O
    <2>1. \A id \in Ids, ch \in Channels : ~Pending(id, ch)'
      BY <1>2, <1>4, <1>13 DEF Pending
    <2>2. RowsFollowAttempts'
      BY <1>1, <1>4, <1>10, <1>11, <2>1 DEF RowsFollowAttempts
    <2>3. CASE Ack(d) /\ UNCHANGED faults /\ notice[d] # NoNotice /\ notice[d].left = {}
      <3>1. acked'[O] = acked[O] \cup {handling[O]}
        BY <1>2, <1>10, <1>13, <2>3 DEF Ack
      <3>2. Repeated'
        BY <1>1, <1>3, <1>4, <1>10, <1>13, <2>3, <3>1 DEF Repeated
      <3>3. WantedIsWritten'
        <4>1. \A id \in Ids, ch \in Channels : handling[O] = id => ~Pending(id, ch)
          BY <1>13, <2>3 DEF Pending
        <4> QED BY <1>1, <1>2, <1>4, <1>5, <1>13, <2>3, <3>1, <4>1, WantedShrinks DEF WantedIsWritten
      <3> QED BY <1>4, <1>7, <1>8, <1>9, <2>2, <3>2, <3>3 DEF NoticeInv
    <2>4. CASE Nak(d) /\ Fault
      <3>1. acked' = acked /\ faults' = faults + 1
        BY <2>4 DEF Nak, Fault
      <3>2. Repeated'
        BY <1>1, <1>3, <1>4, <1>10, <1>13, <3>1 DEF Repeated
      <3>3. WantedIsWritten'
        BY <1>3, <3>1 DEF WantedIsWritten
      <3> QED BY <1>4, <1>7, <1>8, <1>9, <2>2, <3>2, <3>3 DEF NoticeInv
    <2> QED BY <1>13, <2>3, <2>4
  <1> QED BY <1>12, <1>13

\* A handler goes on with its message.
LEMMA NoticeWorks ==
    ASSUME NoticeInv, handling[OrderNotifier] # "none",
           NEW n \in Working, notice' = [notice EXCEPT ![OrderNotifier] = n],
           n.left \subseteq notice[OrderNotifier].left \/ n.left \subseteq prefs,
           UNCHANGED <<service, streamVars, prefs, setting>>,
           faults' \in Nat, faults <= faults', deliveries' \in [Ids -> [Channels -> Nat]],
           \A id \in Ids, ch \in Channels :
              /\ deliveries'[id][ch] > 0 =>
                    deliveries[id][ch] > 0 \/ ch \in notice[OrderNotifier].left
              /\ deliveries[id][ch] <= deliveries'[id][ch]
              /\ deliveries'[id][ch] + (IF Pending(id, ch)' THEN 1 ELSE 0)
                    <= deliveries[id][ch] + (IF Pending(id, ch) THEN 1 ELSE 0)
              /\ faults' = 0 /\ WantedAllAlong(ch) /\ Pending(id, ch) =>
                    deliveries'[id][ch] > 0 \/ Pending(id, ch)'
    PROVE  NoticeInv'
  <1> DEFINE O == OrderNotifier
  <1>1. NoticeTyped /\ CopiesAreAsked /\ StreamTypeOK /\ HandlersAreBusy /\ Repeated
        /\ RowsFollowAttempts /\ WantedIsWritten
    BY NoticeTypes DEF NoticeInv
  <1>2. O \in Notifiers /\ O \in Durables
    BY NoticeFields
  <1>3. faults \in Nat
    BY <1>1 DEF StreamTypeOK
  <1>4. StreamTypeOK' /\ UNCHANGED <<attempts, handling, acked>>
    BY <1>1 DEF StreamTypeOK, BusTypeOK, streamVars, busVars
  <1>5. AskedGrows
    BY <1>3, HandlersAskNothing
  <1>6. /\ notice' \in [Notifiers -> Working \cup {NoNotice}] /\ notice'[O] = n
        /\ \A x \in Notifiers \ {O} : notice'[x] = notice[x]
    <2> HIDE DEF NoNotice
    <2> QED BY <1>1, <1>2 DEF NoticeTyped
  <1>7. NoticeTypeOK'
    BY <1>1, <1>6, NoticeTypes DEF NoticeTyped
  <1>8. CopiesAreAsked'
    BY <1>2, <1>5, <1>6, CopiesKept
  <1>9. HandlersAreBusy'
    BY <1>1, <1>2, <1>4, <1>6 DEF HandlersAreBusy
  <1>10. attempts[O] \in [Ids -> 0..MaxDeliver]
    BY <1>1, <1>2 DEF StreamTypeOK, BusTypeOK
  <1>11. deliveries \in [Ids -> [Channels -> Nat]]
    BY <1>1 DEF NoticeTyped
  <1>12. Repeated'
    BY <1>1, <1>3, <1>4, <1>10 DEF Repeated
  <1>13. RowsFollowAttempts'
    <2> SUFFICES ASSUME NEW id \in Ids, NEW ch \in Channels
                 PROVE  deliveries'[id][ch] + (IF Pending(id, ch)' THEN 1 ELSE 0) <= attempts'[O][id]
      BY DEF RowsFollowAttempts
    <2>1. deliveries[id][ch] + (IF Pending(id, ch) THEN 1 ELSE 0) <= attempts[O][id]
      BY <1>1 DEF RowsFollowAttempts
    <2>2. deliveries'[id][ch] + (IF Pending(id, ch)' THEN 1 ELSE 0)
                    <= deliveries[id][ch] + (IF Pending(id, ch) THEN 1 ELSE 0)
      OBVIOUS
    <2>3. attempts[O][id] \in Nat /\ deliveries[id][ch] \in Nat /\ deliveries'[id][ch] \in Nat
      BY <1>10, <1>11
    <2>4. \A a, b, c \in Nat : a <= b /\ b <= c => a <= c
      OBVIOUS
    <2> DEFINE x == deliveries'[id][ch] + (IF Pending(id, ch)' THEN 1 ELSE 0)
               y == deliveries[id][ch] + (IF Pending(id, ch) THEN 1 ELSE 0)
    <2>5. x \in Nat /\ y \in Nat
      BY <2>3
    <2>6. x <= y /\ y <= attempts[O][id]
      BY <2>1, <2>2
    <2> HIDE DEF x, y
    <2>7. x <= attempts[O][id]
      BY <2>3, <2>4, <2>5, <2>6
    <2> QED BY <1>4, <2>7 DEF x
  <1>14. WantedIsWritten'
    <2> SUFFICES ASSUME faults' = 0, NEW id \in Ids, NEW ch \in Channels, WantedAllAlong(ch)',
                        id \in acked'[O] \/ (handling'[O] = id /\ ~Pending(id, ch)')
                 PROVE  deliveries'[id][ch] > 0
      BY DEF WantedIsWritten
    <2>1. WantedAllAlong(ch) /\ faults = 0
      BY <1>3, <1>5, WantedShrinks
    <2>2. deliveries[id][ch] \in Nat /\ deliveries'[id][ch] \in Nat
      BY <1>11
    <2>3. CASE deliveries[id][ch] > 0
      <3>1. deliveries[id][ch] <= deliveries'[id][ch]
        OBVIOUS
      <3> QED BY <2>2, <2>3, <3>1
    <2>4. CASE ~(deliveries[id][ch] > 0)
      <3>1. Pending(id, ch) /\ ~Pending(id, ch)'
        BY <1>1, <1>4, <2>1, <2>4 DEF WantedIsWritten
      <3> QED BY <2>1, <3>1
    <2> QED BY <2>3, <2>4
  <1> QED BY <1>4, <1>7, <1>8, <1>9, <1>12, <1>13, <1>14 DEF NoticeInv

\* A request reads or writes the preferences.
LEMMA NoticeAsks ==
    ASSUME NoticeInv, AskedGrows, UNCHANGED <<service, streamVars, notice, deliveries>>,
           prefs' \subseteq Channels, setting' \in [Settings -> Asking \cup {NoSetting}],
           AreAsked(prefs)',
           (\A r \in Settings : setting[r].stage = "read" => AreAsked(setting[r].read))'
    PROVE  NoticeInv'
  <1>1. NoticeTyped /\ CopiesAreAsked /\ StreamTypeOK /\ HandlersAreBusy /\ Repeated
        /\ RowsFollowAttempts /\ WantedIsWritten
    BY NoticeTypes DEF NoticeInv
  <1>2. faults \in Nat /\ faults' \in Nat /\ faults <= faults'
    BY <1>1 DEF StreamTypeOK, AskedGrows
  <1>3. StreamTypeOK' /\ UNCHANGED <<attempts, handling, acked>>
    BY <1>1, <1>2 DEF StreamTypeOK, BusTypeOK, streamVars, busVars
  <1>4. NoticeTypeOK'
    BY <1>1, NoticeTypes DEF NoticeTyped
  <1>5. ASSUME NEW d \in Notifiers, NEW ch \in notice[d].left
        PROVE  ch \in DefaultPrefs \/ Asked(ch, TRUE)'
    <2>1. notice[d].left \subseteq Channels
      BY <1>1, NoticeFields DEF NoticeTyped
    <2> QED BY <1>1, <1>5, <2>1 DEF CopiesAreAsked, AskedGrows
  <1>6. ASSUME NEW id \in Ids, NEW ch \in Channels, deliveries[id][ch] > 0
        PROVE  ch \in DefaultPrefs \/ Asked(ch, TRUE)'
    BY <1>1, <1>6 DEF CopiesAreAsked, AskedGrows
  <1>7. CopiesAreAsked'
    BY <1>5, <1>6 DEF CopiesAreAsked
  <1>8. HandlersAreBusy' /\ RowsFollowAttempts'
    BY <1>1, <1>3 DEF HandlersAreBusy, RowsFollowAttempts, Pending
  <1>9. Repeated'
    <2>1. attempts[OrderNotifier] \in [Ids -> 0..MaxDeliver]
      BY <1>1, NoticeFields DEF StreamTypeOK, BusTypeOK
    <2> QED BY <1>1, <1>2, <1>3, <2>1 DEF Repeated
  <1>10. WantedIsWritten'
    BY <1>1, <1>2, <1>3, WantedShrinks DEF WantedIsWritten, Pending
  <1> QED BY <1>3, <1>4, <1>7, <1>8, <1>9, <1>10 DEF NoticeInv

LEMMA SetPreferences_Inv ==
    ASSUME NoticeInv, NEW r \in Settings, setPreferences(r), UNCHANGED service
    PROVE  NoticeInv'
  <1>1. NoticeTyped /\ CopiesAreAsked /\ faults \in Nat
    BY NoticeTypes DEF NoticeInv, StreamTypeOK
  <1>2. PICK ch \in Channels, on \in BOOLEAN, read \in {prefs, {}} :
           /\ setting' = [setting EXCEPT ![r] =
                           [stage |-> "read", read |-> read, channel |-> ch, on |-> on]]
           /\ IF read = prefs THEN UNCHANGED faults ELSE Fault
    BY DEF setPreferences
  <1> DEFINE a == [stage |-> "read", read |-> read, channel |-> ch, on |-> on]
  <1>3. a \in Asking /\ a.stage = "read" /\ a.read = read /\ a.channel = ch /\ a.on = on
    BY <1>1 DEF Asking, NoticeTyped
  <1>4. setting[r] = NoSetting
    BY <1>1, NoticeFields DEF setPreferences, NoticeTyped
  <1>5. /\ setting' \in [Settings -> Asking \cup {NoSetting}] /\ setting'[r] = a
        /\ \A x \in Settings \ {r} : setting'[x] = setting[x]
    <2> HIDE DEF NoSetting, a
    <2> QED BY <1>1, <1>2, <1>3 DEF NoticeTyped, a
  <1>6. UNCHANGED <<service, streamVars, prefs, notice, deliveries>>
    BY DEF setPreferences
  <1>7. faults' \in Nat /\ faults <= faults' /\ (read # prefs => faults' > 0)
    BY <1>1, <1>2 DEF Fault
  <1>8. AskedGrows
    <2>1. ASSUME NEW c \in Channels, NEW x \in Settings, setting[x].channel = c
          PROVE  setting'[x] = setting[x]
      BY <1>4, <1>5, <2>1, NoticeFields
    <2> QED BY <1>7, <2>1 DEF AskedGrows, Asked
  <1>9. \A P \in SUBSET Channels : AreAsked(P) =>
              /\ \A c \in P \ DefaultPrefs : Asked(c, TRUE)'
              /\ \A c \in DefaultPrefs \ P : Asked(c, FALSE)' \/ faults' > 0
    BY <1>1, <1>8, AskedStays
  <1>10. AreAsked(prefs)'
    BY <1>1, <1>6, <1>9 DEF AreAsked, CopiesAreAsked, NoticeTyped
  <1>11. ASSUME NEW x \in Settings, setting'[x].stage = "read" PROVE AreAsked(setting[x].read)'
    <2>1. CASE x = r
      <3>1. setting'[x].read = read
        BY <1>3, <1>5, <2>1
      <3>2. CASE read = prefs
        BY <1>1, <1>9, <3>1, <3>2 DEF AreAsked, CopiesAreAsked, NoticeTyped
      <3>3. CASE read # prefs
        BY <1>2, <1>7, <3>1, <3>3 DEF AreAsked
      <3> QED BY <3>2, <3>3
    <2>2. CASE x # r
      <3>1. setting'[x] = setting[x] /\ AreAsked(setting[x].read) /\ setting[x].read \subseteq Channels
        BY <1>1, <1>5, <1>11, <2>2, NoticeFields DEF CopiesAreAsked, NoticeTyped
      <3> QED BY <1>9, <3>1 DEF AreAsked
    <2> QED BY <2>1, <2>2
  <1>12. prefs' \subseteq Channels
    BY <1>1, <1>6 DEF NoticeTyped
  <1> QED BY <1>5, <1>6, <1>8, <1>10, <1>11, <1>12, NoticeAsks

LEMMA Upsert_Inv ==
    ASSUME NoticeInv, NEW r \in Settings, Upsert(r), UNCHANGED service
    PROVE  NoticeInv'
  <1>1. NoticeTyped /\ CopiesAreAsked /\ faults \in Nat
    BY NoticeTypes DEF NoticeInv, StreamTypeOK
  <1>2. /\ setting[r].stage = "read" /\ UNCHANGED <<streamVars, faults, notice, deliveries>>
        /\ setting' = [setting EXCEPT ![r].stage = "done"]
    BY DEF Upsert
  <1>3. setting[r] \in Asking
    BY <1>1, <1>2, NoticeFields DEF NoticeTyped
  <1> DEFINE a == [setting[r] EXCEPT !.stage = "done"]
  <1>4. /\ a \in Asking /\ a.stage = "done" /\ a.read = setting[r].read
        /\ a.channel = setting[r].channel /\ a.on = setting[r].on
    BY <1>3 DEF Asking
  <1>5. /\ setting' \in [Settings -> Asking \cup {NoSetting}] /\ setting'[r] = a
        /\ \A x \in Settings \ {r} : setting'[x] = setting[x]
    <2>1. setting' = [setting EXCEPT ![r] = a]
      BY <1>2
    <2> HIDE DEF NoSetting, a
    <2> QED BY <1>1, <1>4, <2>1 DEF NoticeTyped
  <1>6. \A x \in Settings : setting'[x].channel = setting[x].channel /\ setting'[x].on = setting[x].on
    BY <1>4, <1>5
  <1>7. AskedGrows
    BY <1>1, <1>2, <1>6 DEF AskedGrows, Asked
  <1>8. \A P \in SUBSET Channels : AreAsked(P) =>
              /\ \A c \in P \ DefaultPrefs : Asked(c, TRUE)'
              /\ \A c \in DefaultPrefs \ P : Asked(c, FALSE)' \/ faults' > 0
    BY <1>1, <1>7, AskedStays
  <1>9. /\ setting[r].read \subseteq Channels /\ setting[r].channel \in Channels
        /\ setting[r].on \in BOOLEAN /\ AreAsked(setting[r].read)
    BY <1>1, <1>2, <1>3, NoticeFields DEF CopiesAreAsked
  <1>10. prefs' = IF setting[r].on THEN setting[r].read \cup {setting[r].channel}
                                   ELSE setting[r].read \ {setting[r].channel}
    BY DEF Upsert
  <1>11. AreAsked(prefs)'
    <2>1. /\ \A c \in setting[r].read \ DefaultPrefs : Asked(c, TRUE)'
          /\ \A c \in DefaultPrefs \ setting[r].read : Asked(c, FALSE)' \/ faults' > 0
      BY <1>8, <1>9
    <2>2. CASE setting[r].on = TRUE
      <3>1. Asked(setting[r].channel, TRUE)
        BY <2>2 DEF Asked
      <3>2. \A c \in Channels : c = setting[r].channel => Asked(c, TRUE)'
        BY <1>6, <2>2 DEF Asked
      <3>3. prefs' = setting[r].read \cup {setting[r].channel}
        BY <1>10, <2>2
      <3>4. \A c \in prefs' \ DefaultPrefs : Asked(c, TRUE)'
        BY <1>9, <2>1, <3>2, <3>3
      <3>5. \A c \in DefaultPrefs \ prefs' : Asked(c, FALSE)' \/ faults' > 0
        BY <2>1, <3>3
      <3> QED BY <3>4, <3>5 DEF AreAsked
    <2>3. CASE setting[r].on = FALSE
      <3>1. \A c \in Channels : c = setting[r].channel => Asked(c, FALSE)'
        BY <1>6, <2>3 DEF Asked
      <3>2. prefs' = setting[r].read \ {setting[r].channel}
        BY <1>10, <2>3
      <3>3. \A c \in prefs' \ DefaultPrefs : Asked(c, TRUE)'
        BY <2>1, <3>2
      <3>4. \A c \in DefaultPrefs \ prefs' : Asked(c, FALSE)' \/ faults' > 0
        BY <2>1, <3>1, <3>2, NoticeFields
      <3> QED BY <3>3, <3>4 DEF AreAsked
    <2> QED BY <1>9, <2>2, <2>3
  <1>12. ASSUME NEW x \in Settings, setting'[x].stage = "read" PROVE AreAsked(setting[x].read)'
    <2>1. x # r
      BY <1>4, <1>5, <1>12
    <2>2. setting'[x] = setting[x] /\ AreAsked(setting[x].read) /\ setting[x].read \subseteq Channels
      BY <1>1, <1>5, <1>12, <2>1, NoticeFields DEF CopiesAreAsked, NoticeTyped
    <2> QED BY <1>8, <2>2 DEF AreAsked
  <1>13. prefs' \subseteq Channels
    BY <1>9, <1>10
  <1> QED BY <1>2, <1>5, <1>7, <1>11, <1>12, <1>13, NoticeAsks

LEMMA HandleEvent_Inv ==
    ASSUME NoticeInv, NEW d \in Notifiers, handleEvent(d), UNCHANGED service
    PROVE  NoticeInv'
  <1>1. NoticeTyped /\ StreamTypeOK /\ CopiesAreAsked /\ faults \in Nat
    BY NoticeTypes DEF NoticeInv, StreamTypeOK
  <1>2. /\ handling[d] # "none" /\ notice[d] = NoNotice
        /\ UNCHANGED <<published, prefs, setting, deliveries>>
    BY DEF handleEvent
  <1>3. CASE d \notin NamesUser /\ Acknowledged(d) /\ UNCHANGED notice
    <2>1. d # OrderNotifier
      BY <1>3, NoticeFields
    <2>2. notice' = [notice EXCEPT ![d] = NoNotice]
      <3> HIDE DEF NoNotice
      <3> QED BY <1>1, <1>2, <1>3 DEF NoticeTyped
    <2> QED BY <1>2, <1>3, <2>1, <2>2, NoticeSettles DEF Acknowledged
  <1>4. CASE d \in NamesUser /\ ~(d \notin NamesUser)
    <2>1. d = OrderNotifier
      BY <1>4, NoticeFields
    <2>2. PICK enabled \in {prefs, {}} :
             /\ notice' = [notice EXCEPT ![d] =
                       [stage |-> "send", tries |-> 0, left |-> ToSet(TemplateChannels) \cap enabled]]
             /\ IF enabled = prefs THEN UNCHANGED faults ELSE Fault
      BY <1>4 DEF handleEvent
    <2> DEFINE n == [stage |-> "send", tries |-> 0, left |-> ToSet(TemplateChannels) \cap enabled]
    <2>3. n \in Working /\ n # NoNotice /\ n.left = ToSet(TemplateChannels) \cap enabled
      BY NoticeFields, NotificationAssumption DEF Working, NoNotice
    <2>4. UNCHANGED busVars
      BY <1>4 DEF handleEvent
    <2>5. n.left \subseteq prefs
      BY <2>2, <2>3
    <2>6. faults' \in Nat /\ faults <= faults' /\ (faults' = 0 => enabled = prefs)
      BY <1>1, <2>2 DEF Fault
    <2>7. notice'[d] = n /\ n # NoNotice
      <3> HIDE DEF NoNotice, n
      <3> QED BY <1>1, <2>2, <2>3 DEF NoticeTyped, n
    <2>8. deliveries' \in [Ids -> [Channels -> Nat]] /\ deliveries' = deliveries
      BY <1>1, <1>2 DEF NoticeTyped
    <2>9. \A id \in Ids, ch \in Channels : Pending(id, ch)' => Pending(id, ch)
      BY <1>2, <2>1, <2>4 DEF Pending, busVars
    <2>10. ASSUME NEW id \in Ids, NEW ch \in Channels, faults' = 0, WantedAllAlong(ch), Pending(id, ch)
           PROVE  Pending(id, ch)'
      <3>1. ch \in prefs
        <4>1. ~(faults > 0)
          BY <1>1, <2>6, <2>10
        <4>2. ch \in DefaultPrefs /\ ~Asked(ch, FALSE)
          BY <2>10 DEF WantedAllAlong
        <4>3. ch \in DefaultPrefs \ prefs => Asked(ch, FALSE) \/ faults > 0
          BY <1>1 DEF CopiesAreAsked, AreAsked
        <4> QED BY <4>1, <4>2, <4>3
      <3>2. ch \in n.left
        BY <2>3, <2>6, <2>10, <3>1 DEF WantedAllAlong
      <3> QED BY <2>1, <2>4, <2>7, <2>10, <3>2 DEF Pending, busVars
    <2>11. ASSUME NEW id \in Ids, NEW ch \in Channels
           PROVE  deliveries'[id][ch] + (IF Pending(id, ch)' THEN 1 ELSE 0)
                    <= deliveries[id][ch] + (IF Pending(id, ch) THEN 1 ELSE 0)
      <3>1. deliveries[id][ch] \in Nat /\ deliveries'[id][ch] = deliveries[id][ch]
        BY <2>8
      <3> QED BY <2>9, <3>1
    <2>12. \A id \in Ids, ch \in Channels : deliveries[id][ch] <= deliveries'[id][ch]
      BY <2>8
    <2> HIDE DEF n
    <2> QED BY <1>2, <2>1, <2>2, <2>3, <2>4, <2>5, <2>6, <2>8, <2>10, <2>11, <2>12, NoticeWorks
            DEF streamVars, n
  <1> QED BY <1>3, <1>4 DEF handleEvent

\* A row is written or not, and the channel is done with.
LEMMA CreateDelivery_Inv ==
    ASSUME NoticeInv, NEW d \in Notifiers, NEW ch \in Channels, ch \in notice[d].left,
           createDelivery(d, ch), UNCHANGED <<service, published, busVars, prefs, setting>>
    PROVE  NoticeInv'
  <1>1. NoticeTyped /\ StreamTypeOK /\ HandlersAreBusy /\ faults \in Nat
    BY NoticeTypes DEF NoticeInv, StreamTypeOK
  <1>2. d = OrderNotifier /\ handling[d] # "none" /\ notice[d] # NoNotice
    BY <1>1, NoticeFields DEF HandlersAreBusy
  <1>3. notice[d] \in Working
    BY <1>1, <1>2 DEF NoticeTyped
  <1>4. handling[d] \in Ids
    BY <1>1, <1>2, NoticeFields DEF StreamTypeOK, BusTypeOK
  <1> DEFINE n == [notice[d] EXCEPT !.left = @ \ {ch}, !.tries = 0]
             i == handling[d]
  <1>5. /\ n \in Working /\ n.left = notice[d].left \ {ch}
        /\ notice' = [notice EXCEPT ![d] = n]
    <2>1. 0 \in 0..WebhookMaxRetries - 1
      BY NotificationAssumption
    <2>2. n \in Working
      BY <1>3, <2>1 DEF Working
    <2>3. n.left = notice[d].left \ {ch}
      BY <1>3 DEF Working
    <2> QED BY <2>2, <2>3 DEF createDelivery
  <1>6. n # NoNotice
    BY <1>5, NoticeFields
  <1>7. notice'[d] = n
    <2> HIDE DEF n
    <2> QED BY <1>1, <1>5 DEF NoticeTyped
  <1>8. \/ deliveries' = [deliveries EXCEPT ![i][ch] = @ + 1] /\ UNCHANGED faults
        \/ Fault /\ UNCHANGED deliveries
    BY DEF createDelivery
  <1>9. deliveries \in [Ids -> [Channels -> Nat]]
    BY <1>1 DEF NoticeTyped
  <1>10. deliveries' \in [Ids -> [Channels -> Nat]] /\ faults' \in Nat /\ faults <= faults'
    BY <1>1, <1>4, <1>8, <1>9 DEF Fault
  <1>11. /\ \A x \in Ids, c \in Channels : deliveries'[x][c] =
                deliveries[x][c] + (IF x = i /\ c = ch /\ faults' = faults THEN 1 ELSE 0)
         /\ faults' = 0 => faults' = faults
    BY <1>1, <1>4, <1>8, <1>9 DEF Fault
  <1>12. \A x \in Ids, c \in Channels : x = i /\ c = ch => Pending(x, c) /\ ~Pending(x, c)'
    BY <1>2, <1>5, <1>6, <1>7 DEF Pending, busVars
  <1>13. \A x \in Ids, c \in Channels : x # i \/ c # ch => (Pending(x, c) <=> Pending(x, c)')
    BY <1>2, <1>5, <1>6, <1>7 DEF Pending, busVars
  <1> HIDE DEF n, i
  <1>14. ASSUME NEW x \in Ids, NEW c \in Channels
         PROVE  deliveries'[x][c] + (IF Pending(x, c)' THEN 1 ELSE 0)
                    <= deliveries[x][c] + (IF Pending(x, c) THEN 1 ELSE 0)
    <2>1. deliveries[x][c] \in Nat
      BY <1>9
    <2>2. CASE x = i /\ c = ch
      <3>1. (IF Pending(x, c)' THEN 1 ELSE 0) = 0 /\ (IF Pending(x, c) THEN 1 ELSE 0) = 1
        BY <1>12, <2>2
      <3>2. deliveries'[x][c] <= deliveries[x][c] + 1 /\ deliveries'[x][c] \in Nat
        BY <1>10, <1>11, <2>1
      <3> QED BY <2>1, <3>1, <3>2
    <2>3. CASE x # i \/ c # ch
      BY <1>11, <1>13, <2>1, <2>3
    <2> QED BY <2>2, <2>3
  <1>15. ASSUME NEW x \in Ids, NEW c \in Channels, faults' = 0, Pending(x, c)
         PROVE  deliveries'[x][c] > 0 \/ Pending(x, c)'
    <2>1. CASE x = i /\ c = ch
      <3>1. deliveries[x][c] \in Nat /\ faults' = faults
        BY <1>9, <1>11, <1>15
      <3> QED BY <1>11, <2>1, <3>1
    <2>2. CASE x # i \/ c # ch
      BY <1>13, <1>15, <2>2
    <2> QED BY <2>1, <2>2
  <1>16. ASSUME NEW x \in Ids, NEW c \in Channels
         PROVE  /\ deliveries[x][c] <= deliveries'[x][c]
                /\ deliveries'[x][c] > 0 => deliveries[x][c] > 0 \/ c \in notice[d].left
    <2>1. deliveries[x][c] \in Nat
      BY <1>9
    <2> QED BY <1>11, <2>1
  <1> QED BY <1>2, <1>5, <1>10, <1>14, <1>15, <1>16, NoticeWorks DEF streamVars

LEMMA NoticeStream_Inv ==
    ASSUME NoticeInv, Stream, UNCHANGED <<service, noticeVars>>
    PROVE  NoticeInv'
  <1> DEFINE O == OrderNotifier
  <1>1. NoticeTyped /\ StreamTypeOK /\ CopiesAreAsked /\ HandlersAreBusy /\ Repeated
        /\ RowsFollowAttempts /\ WantedIsWritten /\ faults \in Nat
    BY NoticeTypes DEF NoticeInv, StreamTypeOK
  <1>2. StreamTypeOK' /\ UNCHANGED <<service, faults, prefs, setting, notice, deliveries>>
    BY <1>1, Stream_Type DEF Stream, Published, noticeVars
  <1>3. AskedGrows
    BY <1>1, <1>2, HandlersAskNothing
  <1>4. NoticeTypeOK' /\ CopiesAreAsked'
    BY <1>1, <1>2, NoticeTypes DEF NoticeTyped, CopiesAreAsked, AreAsked, Asked
  <1>5. O \in Notifiers /\ O \in Durables /\ "none" \notin Ids
    BY NoticeFields, ServiceAssumption
  <1>6. /\ attempts \in [Durables -> [Ids -> 0..MaxDeliver]] /\ acked[O] \subseteq Ids
        /\ deliveries \in [Ids -> [Channels -> Nat]]
    BY <1>1, <1>5 DEF StreamTypeOK, BusTypeOK, NoticeTyped
  <1>7. CASE \E x \in Subjects, id \in Ids : Published(x, id)
    <2>1. UNCHANGED <<attempts, handling, acked>>
      BY <1>7 DEF Published, busVars
    <2> QED BY <1>1, <1>2, <1>4, <2>1
            DEF NoticeInv, HandlersAreBusy, Repeated, RowsFollowAttempts, WantedIsWritten, Pending,
                WantedAllAlong, Asked
  <1>8. ASSUME NEW d \in Listening, NEW i \in Ids, Deliver(d, i) PROVE NoticeInv'
    <2>1. d \in Durables
      BY DEF Listening
    <2>2. /\ handling[d] = "none" /\ i \notin acked[d] /\ acked' = acked
          /\ handling'[d] = i /\ \A x \in Durables \ {d} : handling'[x] = handling[x]
          /\ attempts'[d][i] = attempts[d][i] + 1
          /\ \A x \in Durables, id \in Ids : x # d \/ id # i => attempts'[x][id] = attempts[x][id]
      BY <1>1, <1>6, <1>8, <2>1 DEF Deliver, StreamTypeOK, BusTypeOK
    <2>3. HandlersAreBusy'
      <3>1. Notifiers \subseteq Durables
        BY NoticeFields
      <3> QED BY <1>1, <1>2, <1>5, <2>2, <3>1 DEF HandlersAreBusy
    <2>4. CASE d # O
      <3>1. handling'[O] = handling[O] /\ \A id \in Ids : attempts'[O][id] = attempts[O][id]
        BY <1>5, <2>2, <2>4
      <3>2. Repeated' /\ RowsFollowAttempts'
        BY <1>1, <1>2, <2>2, <3>1 DEF Repeated, RowsFollowAttempts, Pending
      <3>3. WantedIsWritten'
        BY <1>1, <1>2, <1>3, <2>2, <3>1, WantedShrinks DEF WantedIsWritten, Pending
      <3> QED BY <1>2, <1>4, <2>3, <3>2, <3>3 DEF NoticeInv
    <2>5. CASE d = O
      <3>1. notice[O] = NoNotice
        BY <1>1, <1>5, <2>2, <2>5 DEF HandlersAreBusy
      <3>2. \A id \in Ids, ch \in Channels : ~Pending(id, ch) /\ (Pending(id, ch)' <=> id = i)
        BY <1>2, <1>5, <2>2, <2>5, <3>1 DEF Pending
      <3>3. \A id \in Ids : attempts[O][id] \in Nat
        BY <1>5, <1>6
      <3>4. Repeated'
        BY <1>1, <1>2, <1>5, <2>2, <2>5, <3>3 DEF Repeated
      <3>5. RowsFollowAttempts'
        <4> SUFFICES ASSUME NEW id \in Ids, NEW ch \in Channels
                     PROVE  deliveries'[id][ch] + (IF Pending(id, ch)' THEN 1 ELSE 0) <= attempts'[O][id]
          BY DEF RowsFollowAttempts
        <4>1. deliveries[id][ch] <= attempts[O][id] /\ deliveries[id][ch] \in Nat
          BY <1>1, <1>6, <3>2 DEF RowsFollowAttempts
        <4>2. deliveries'[id][ch] = deliveries[id][ch] /\ attempts[O][id] \in Nat
          BY <1>2, <3>3
        <4>3. CASE id = i
          <5>1. attempts'[O][id] = attempts[O][id] + 1 /\ (IF Pending(id, ch)' THEN 1 ELSE 0) <= 1
            BY <2>2, <2>5, <4>3
          <5> QED BY <4>1, <4>2, <5>1, <3>2, <4>3
        <4>4. CASE id # i
          <5>1. attempts'[O][id] = attempts[O][id] /\ ~Pending(id, ch)'
            BY <1>5, <2>2, <3>2, <4>4
          <5> QED BY <4>1, <4>2, <5>1
        <4> QED BY <4>3, <4>4
      <3>6. WantedIsWritten'
        <4>1. ASSUME NEW id \in Ids, NEW ch \in Channels,
                     id \in acked'[O] \/ (handling'[O] = id /\ ~Pending(id, ch)')
              PROVE  id \in acked[O]
          BY <2>2, <2>5, <3>2, <4>1
        <4> QED BY <1>1, <1>2, <1>3, <4>1, WantedShrinks DEF WantedIsWritten
      <3> QED BY <1>2, <1>4, <2>3, <3>4, <3>5, <3>6 DEF NoticeInv
    <2> QED BY <2>4, <2>5
  <1> QED BY <1>7, <1>8 DEF Stream

LEMMA NoticeNext_Inv ==
    ASSUME NoticeInv, [NoticeBusNext]_noticeBusVars
    PROVE  NoticeInv'
  <1>1. NoticeTyped /\ StreamTypeOK /\ HandlersAreBusy /\ faults \in Nat
    BY NoticeTypes DEF NoticeInv, StreamTypeOK
  <1>2. ASSUME NEW d \in Listening \cap Notifiers, handleEvent(d), UNCHANGED service
        PROVE  NoticeInv'
    BY <1>2, HandleEvent_Inv
  <1>3. ASSUME NEW d \in Listening \cap Notifiers, sendOnce(d), UNCHANGED service
        PROVE  NoticeInv'
    <2>1. PICK ch \in Channels \ {"webhook"} : IsNext(ch, notice[d].left) /\ createDelivery(d, ch)
      BY <1>3 DEF sendOnce
    <2>2. ch \in notice[d].left
      BY <2>1 DEF IsNext
    <2> QED BY <1>3, <2>1, <2>2, CreateDelivery_Inv DEF sendOnce
  <1>4. ASSUME NEW d \in Listening \cap Notifiers, Send(d), UNCHANGED service
        PROVE  NoticeInv'
    <2>1. "webhook" \in notice[d].left /\ "webhook" \in Channels
      BY <1>4 DEF Send, IsNext, Channels
    <2>2. CASE createDelivery(d, "webhook")
      BY <1>4, <2>1, <2>2, CreateDelivery_Inv DEF Send
    <2>3. CASE /\ notice[d].tries + 1 < WebhookMaxRetries
               /\ notice' = [notice EXCEPT ![d].tries = @ + 1]
               /\ UNCHANGED <<deliveries, faults>>
      <3>1. d = OrderNotifier /\ handling[d] # "none" /\ notice[d] # NoNotice
        BY <1>1, <2>1, NoticeFields DEF HandlersAreBusy
      <3>2. notice[d] \in Working
        BY <1>1, <3>1 DEF NoticeTyped
      <3> DEFINE n == [notice[d] EXCEPT !.tries = @ + 1]
      <3>3. notice[d].tries + 1 \in 0..WebhookMaxRetries - 1
        BY <2>3, <3>2, NotificationAssumption DEF Working
      <3>4. n \in Working /\ n.left = notice[d].left
        BY <3>2, <3>3 DEF Working
      <3>5. notice' = [notice EXCEPT ![d] = n]
        BY <2>3
      <3>6. n # NoNotice
        BY <3>4, NoticeFields
      <3> HIDE DEF n
      <3>7. notice'[d] = n
        BY <1>1, <3>5 DEF NoticeTyped
      <3>8. UNCHANGED <<service, streamVars, busVars, prefs, setting, deliveries, faults>>
        BY <1>4, <2>3 DEF Send, streamVars
      <3>9. \A x \in Ids, c \in Channels : Pending(x, c)' <=> Pending(x, c)
        BY <3>1, <3>4, <3>6, <3>7, <3>8 DEF Pending, busVars
      <3>10. deliveries \in [Ids -> [Channels -> Nat]]
        BY <1>1 DEF NoticeTyped
      <3>11. ASSUME NEW x \in Ids, NEW c \in Channels
             PROVE  /\ deliveries'[x][c] > 0 => deliveries[x][c] > 0
                    /\ deliveries[x][c] <= deliveries'[x][c]
                    /\ deliveries'[x][c] + (IF Pending(x, c)' THEN 1 ELSE 0)
                          <= deliveries[x][c] + (IF Pending(x, c) THEN 1 ELSE 0)
        <4>1. deliveries[x][c] \in Nat /\ deliveries'[x][c] = deliveries[x][c]
          BY <3>8, <3>10
        <4> QED BY <3>9, <4>1
      <3>12. faults' \in Nat /\ faults <= faults' /\ deliveries' \in [Ids -> [Channels -> Nat]]
        BY <1>1, <3>8, <3>10
      <3> QED BY <3>1, <3>4, <3>5, <3>8, <3>9, <3>11, <3>12, NoticeWorks
    <2> QED BY <1>4, <2>2, <2>3 DEF Send
  <1>5. ASSUME NEW d \in Listening \cap Notifiers, handled(d), UNCHANGED service
        PROVE  NoticeInv'
    <2>1. notice[d] # NoNotice /\ notice[d].left = {}
      BY <1>5, NoticeFields DEF handled
    <2> QED BY <1>5, <2>1, NoticeSettles DEF handled, Acknowledged, Handled
  <1>6. ASSUME NEW d \in Listening \cap Notifiers, NotifierDies(d), UNCHANGED service
        PROVE  NoticeInv'
    BY <1>6, NoticeSettles DEF NotifierDies, HandlerFails, Handled
  <1>7. CASE NoticeNext /\ UNCHANGED service
    BY <1>2, <1>3, <1>4, <1>5, <1>6, <1>7, SetPreferences_Inv, Upsert_Inv DEF NoticeNext, Notifiers
  <1>8. CASE Stream /\ UNCHANGED <<service, noticeVars>>
    BY <1>8, NoticeStream_Inv
  <1>9. CASE UNCHANGED noticeBusVars
    BY <1>9 DEF noticeBusVars, streamVars, busVars, noticeVars, NoticeInv, StreamTypeOK, BusTypeOK,
                NoticeTypeOK, CopiesAreAsked, AreAsked, Asked, HandlersAreBusy, Repeated,
                RowsFollowAttempts, WantedIsWritten, WantedAllAlong, Pending
  <1> QED BY <1>7, <1>8, <1>9 DEF NoticeBusNext

\* The invariant of the notifications, types included, in every reachable state.
THEOREM NoticeInvariant == NoticeSpec => []NoticeInv
  <1>1. NoticeInv /\ [NoticeBusNext]_noticeBusVars => NoticeInv'
    BY NoticeNext_Inv
  <1>2. StreamInit /\ service = "notification" /\ NoticeInit => NoticeInv
    BY NoticeInit_Inv, NoticeFields, StreamInit_Type, StreamInit_Untouched DEF Untouched
  <1> QED BY <1>1, <1>2, PTL DEF NoticeSpec

LEMMA NoticeInv_Implies ==
    ASSUME NoticeInv
    PROVE  NoticesFollowPreferences
  <1>1. NoticeTyped /\ StreamTypeOK /\ CopiesAreAsked /\ Repeated /\ RowsFollowAttempts
        /\ WantedIsWritten /\ NamesUser = {OrderNotifier}
    BY NoticeTypes, NoticeFields DEF NoticeInv
  <1>2. ASSUME NEW id \in Ids, NEW ch \in Channels
        PROVE  /\ deliveries[id][ch] <= attempts[OrderNotifier][id]
               /\ deliveries[id][ch] <= 1 + faults
    <2>1. /\ deliveries[id][ch] \in Nat /\ attempts[OrderNotifier][id] \in Nat /\ faults \in Nat
      BY <1>1, NoticeFields DEF NoticeTyped, StreamTypeOK, BusTypeOK
    <2>2. deliveries[id][ch] <= attempts[OrderNotifier][id]
      BY <1>1, <2>1 DEF RowsFollowAttempts
    <2>3. attempts[OrderNotifier][id] <= 1 + faults
      BY <1>1, <2>1 DEF Repeated
    <2> QED BY <2>1, <2>2, <2>3
  <1>3. ASSUME NEW id \in Ids, NEW ch \in Channels, deliveries[id][ch] > 0
        PROVE  attempts[OrderNotifier][id] > 0
    <2>1. deliveries[id][ch] \in Nat /\ attempts[OrderNotifier][id] \in Nat
      BY <1>1, NoticeFields DEF NoticeTyped, StreamTypeOK, BusTypeOK
    <2> QED BY <1>2, <1>3, <2>1
  <1>4. faults = 0 => \A d \in NamesUser, id \in Ids, ch \in Channels :
           id \in acked[d] /\ WantedAllAlong(ch) => deliveries[id][ch] > 0
    BY <1>1 DEF WantedIsWritten
  <1>5. AreAsked(prefs) /\ \A id \in Ids, ch \in Channels :
           deliveries[id][ch] > 0 => ch \in DefaultPrefs \/ Asked(ch, TRUE)
    BY <1>1 DEF CopiesAreAsked
  <1>6. \A id \in Ids, ch \in Channels :
           deliveries[id][ch] > 0 => \E d \in NamesUser : attempts[d][id] > 0
    BY <1>1, <1>3
  <1>7. \A id \in Ids, ch \in Channels : deliveries[id][ch] <= 1 + faults
    BY <1>2
  <1> QED BY <1>4, <1>5, <1>6, <1>7 DEF NoticesFollowPreferences

\* However events, failures, retries and changes of preferences interleave: preferences
\* are what was asked for, an acknowledged event has its rows, one per attempt at most,
\* and on no channel nobody switched on.
THEOREM NoticesFollow == NoticeSpec => []NoticesFollowPreferences
  <1>1. NoticeInv => NoticesFollowPreferences
    BY NoticeInv_Implies
  <1> QED BY <1>1, NoticeInvariant, PTL

-----------------------------------------------------------------------------
(* Bookkeeping *)

Minting == "treasury_mint_executed"
Burning == "treasury_burn_executed"

\* A message that was booked and will come again.
Again(d, id) == rows[d][id] > 0 /\ id \notin acked[d] /\ ~(settling[d] /\ handling[d] = id)

\* How often it was booked, or will have been when it has come again.
Counted(d, id) == rows[d][id] + (IF Again(d, id) THEN 1 ELSE 0)

Rebookable ==
    {x \in (BookDurables \X Ids) \X Nat : 2 <= x[2] /\ x[2] <= Counted(x[1][1], x[1][2])}

FewRebooked == IsFiniteSet(Rebookable) /\ Cardinality(Rebookable) <= faults

\* Between its two writes a handler of treasury's is at a message it has booked.
SettlesWhatItBooked == \A d \in BookDurables :
    settling[d] => d \in {Minting, Burning} /\ handling[d] # "none" /\ rows[d][handling[d]] > 0

\* The bus does not deliver what was acknowledged.
HandledIsUnacked == \A d \in BookDurables : handling[d] \notin acked[d]

AckedIsBooked ==
    /\ \A d \in BookDurables \ SkipsUnknown : \A id \in acked[d] : rows[d][id] > 0
    /\ \A d \in Deduplicates, id \in Ids : rows[d][id] <= 1

\* The figure of a reconciliation is that of the settlements when it was read.
FigureWasRight ==
    recon.stage = "counted" =>
       /\ recon.since <= Settlements
       /\ recon.actual - Opening - SettledNet <= Settlements - recon.since
       /\ -(recon.actual - Opening - SettledNet) <= Settlements - recon.since

RowsInv == StreamTypeOK /\ FewRebooked /\ SettlesWhatItBooked /\ HandledIsUnacked /\ AckedIsBooked

\* The inductive invariant of the books.
BookInv ==
    /\ RowsInv /\ BookTypeOK
    /\ ReserveMatchesSettlements /\ FigureWasRight /\ ReconciliationIsExplained

Recons == [stage : {"idle", "counted", "logged", "failed"}, actual : Int, expected : Int, since : Nat]

RowsTyped == rows \in [BookDurables -> [Ids -> Nat]] /\ settling \in [BookDurables -> BOOLEAN]

LEMMA BookNames ==
    /\ BookDurables \subseteq Durables /\ Minting \in BookDurables /\ Burning \in BookDurables
    /\ Minting # Burning /\ Deduplicates \subseteq BookDurables
    /\ Minting \notin Deduplicates \cup SkipsUnknown /\ Burning \notin Deduplicates \cup SkipsUnknown
    /\ "none" \notin Ids
  BY ServiceAssumption
     DEF BookDurables, Durables, FilterSubject, DurablesOf, Minting, Burning, Deduplicates, SkipsUnknown

LEMMA AtMostOneMore ==
    ASSUME NEW S, IsFiniteSet(S), NEW T, NEW x, T \subseteq S \cup {x}
    PROVE  /\ IsFiniteSet(T) /\ Cardinality(S) \in Nat /\ Cardinality(T) \in Nat
           /\ Cardinality(T) <= Cardinality(S) + 1
           /\ T \subseteq S => Cardinality(T) <= Cardinality(S)
  <1>1. Cardinality(S) \in Nat
    BY FS_CardinalityType
  <1>2. /\ IsFiniteSet(S \cup {x}) /\ Cardinality(S \cup {x}) \in Nat
        /\ Cardinality(S \cup {x}) <= Cardinality(S) + 1
    BY <1>1, FS_AddElement
  <1>3. IsFiniteSet(T) /\ Cardinality(T) <= Cardinality(S \cup {x})
    BY <1>2, FS_Subset
  <1>4. Cardinality(T) \in Nat
    BY <1>3, FS_CardinalityType
  <1>5. T \subseteq S => Cardinality(T) <= Cardinality(S)
    BY FS_Subset
  <1> QED BY <1>1, <1>2, <1>3, <1>4, <1>5

\* A step books no message beyond what was counted, or counts one more for a failure.
LEMMA RebookableMoves ==
    ASSUME FewRebooked, faults \in Nat, faults' \in Nat, RowsTyped, RowsTyped',
           NEW d \in BookDurables, NEW i \in Ids,
           \A x \in BookDurables, y \in Ids :
              x # d \/ y # i => Counted(x, y)' <= Counted(x, y) \/ Counted(x, y)' <= 1,
           \/ faults <= faults' /\ (Counted(d, i)' <= Counted(d, i) \/ Counted(d, i)' <= 1)
           \/ faults' = faults + 1 /\ (Counted(d, i)' <= Counted(d, i) + 1 \/ Counted(d, i)' <= 2)
    PROVE  FewRebooked'
  <1>1. /\ \A x \in BookDurables, y \in Ids : Counted(x, y) \in Nat
        /\ \A x \in BookDurables, y \in Ids : Counted(x, y)' \in Nat
    BY DEF RowsTyped, Counted
  <1> DEFINE n == IF Counted(d, i) > 1 THEN Counted(d, i) + 1 ELSE 2
             one == <<<<d, i>>, n>>
  <1>2. CASE faults <= faults' /\ (Counted(d, i)' <= Counted(d, i) \/ Counted(d, i)' <= 1)
    <2>1. Rebookable' \subseteq Rebookable
      <3> SUFFICES ASSUME NEW x \in Rebookable' PROVE x \in Rebookable
        OBVIOUS
      <3>1. PICK c \in BookDurables, y \in Ids, k \in Nat : x = <<<<c, y>>, k>>
        BY DEF Rebookable
      <3>2. 2 <= k /\ k <= Counted(c, y)'
        BY <3>1 DEF Rebookable
      <3>3. k <= Counted(c, y)
        BY <1>1, <1>2, <3>2
      <3> QED BY <3>1, <3>2, <3>3 DEF Rebookable
    <2> QED BY <1>2, <2>1, AtMostOneMore DEF FewRebooked
  <1>3. CASE faults' = faults + 1 /\ (Counted(d, i)' <= Counted(d, i) + 1 \/ Counted(d, i)' <= 2)
    <2>1. Rebookable' \subseteq Rebookable \cup {one}
      <3> SUFFICES ASSUME NEW x \in Rebookable', x \notin Rebookable PROVE x = one
        OBVIOUS
      <3>1. PICK c \in BookDurables, y \in Ids, k \in Nat : x = <<<<c, y>>, k>>
        BY DEF Rebookable
      <3>2. 2 <= k /\ k <= Counted(c, y)' /\ ~(k <= Counted(c, y))
        BY <3>1 DEF Rebookable
      <3>3. c = d /\ y = i
        BY <1>1, <3>2
      <3>4. k = n
        BY <1>1, <1>3, <3>2, <3>3
      <3> QED BY <3>1, <3>3, <3>4
    <2> HIDE DEF one
    <2>2. /\ IsFiniteSet(Rebookable') /\ Cardinality(Rebookable') <= Cardinality(Rebookable) + 1
          /\ Cardinality(Rebookable) \in Nat /\ Cardinality(Rebookable') \in Nat
      BY <2>1, AtMostOneMore DEF FewRebooked
    <2> QED BY <1>3, <2>2 DEF FewRebooked
  <1> QED BY <1>2, <1>3

\* What a handler's step does to the rows: n is what its message's row becomes, and b
\* whether it still has a settlement to write.
LEMMA RowsStep ==
    ASSUME RowsInv, RowsTyped, NEW d \in BookDurables, handling[d] # "none",
           NEW n \in Nat, NEW b \in BOOLEAN,
           rows' = [rows EXCEPT ![d][handling[d]] = n], settling' = [settling EXCEPT ![d] = b],
           rows[d][handling[d]] <= n, n <= Counted(d, handling[d]) \/ n <= 1,
           d \in Deduplicates => n <= 1,
           UNCHANGED <<service, published>>,
           \/ UNCHANGED <<busVars, faults>> /\ b /\ n > 0 /\ d \in {Minting, Burning}
           \/ Ack(d) /\ ~b /\ (UNCHANGED faults \/ Fault) /\ (n > 0 \/ d \in SkipsUnknown)
           \/ Nak(d) /\ ~b /\ Fault
           \/ Nak(d) /\ ~b /\ UNCHANGED faults /\ ~settling[d] /\ n = rows[d][handling[d]]
    PROVE  RowsInv' /\ RowsTyped'
  <1> DEFINE i == handling[d]
  <1>1. StreamTypeOK /\ FewRebooked /\ SettlesWhatItBooked /\ HandledIsUnacked /\ AckedIsBooked
    BY DEF RowsInv
  <1>2. d \in Durables /\ i \in Ids /\ "none" \notin Ids /\ BookDurables \subseteq Durables
    BY <1>1, BookNames DEF StreamTypeOK, BusTypeOK
  <1>3. faults \in Nat /\ faults' \in Nat /\ faults <= faults'
    BY <1>1 DEF StreamTypeOK, Fault
  <1>4. StreamTypeOK'
    <2>1. CASE UNCHANGED busVars
      BY <1>1, <1>3, <2>1 DEF StreamTypeOK, BusTypeOK, busVars
    <2>2. CASE Ack(d) \/ Nak(d)
      BY <1>1, <1>2, <1>3, <2>2, Settle_Type
    <2> QED BY <2>1, <2>2
  <1>5. RowsTyped'
    BY <1>2 DEF RowsTyped
  <1>6. /\ rows'[d][i] = n /\ settling'[d] = b
        /\ \A x \in BookDurables, y \in Ids : x # d \/ y # i => rows'[x][y] = rows[x][y]
        /\ \A x \in BookDurables \ {d} : settling'[x] = settling[x]
    BY <1>2 DEF RowsTyped
  <1>7. /\ \A x \in BookDurables \ {d} : handling'[x] = handling[x] /\ acked'[x] = acked[x]
        /\ acked[d] \subseteq acked'[d] /\ acked'[d] \subseteq acked[d] \cup {i}
        /\ ~b => handling'[d] = "none"
        /\ b => handling' = handling /\ acked' = acked
    BY <1>1, <1>2 DEF StreamTypeOK, BusTypeOK, Ack, Nak, busVars
  <1>8. i \notin acked[d] /\ (Ack(d) => i \in acked'[d]) /\ (Nak(d) => acked'[d] = acked[d])
    BY <1>1, <1>2 DEF StreamTypeOK, BusTypeOK, Ack, Nak, HandledIsUnacked
  <1>9. SettlesWhatItBooked'
    <2>1. ASSUME NEW x \in BookDurables \ {d}, settling'[x]
          PROVE  x \in {Minting, Burning} /\ handling'[x] # "none" /\ rows'[x][handling'[x]] > 0
      <3>1. x \in {Minting, Burning} /\ handling[x] # "none" /\ rows[x][handling[x]] > 0
        BY <1>1, <1>6, <2>1 DEF SettlesWhatItBooked
      <3>2. handling[x] \in Ids /\ handling'[x] = handling[x]
        BY <1>1, <1>2, <1>7, <3>1 DEF StreamTypeOK, BusTypeOK
      <3> QED BY <1>6, <3>1, <3>2
    <2>2. ASSUME settling'[d]
          PROVE  d \in {Minting, Burning} /\ handling'[d] # "none" /\ rows'[d][handling'[d]] > 0
      BY <1>6, <1>7, <2>2
    <2> QED BY <2>1, <2>2 DEF SettlesWhatItBooked
  <1>10. HandledIsUnacked'
    <2>1. \A x \in BookDurables \ {d} : handling'[x] \notin acked'[x]
      BY <1>1, <1>7 DEF HandledIsUnacked
    <2>2. handling'[d] \notin acked'[d]
      <3>1. acked'[d] \subseteq Ids
        BY <1>2, <1>4 DEF StreamTypeOK, BusTypeOK
      <3> QED BY <1>1, <1>2, <1>7, <3>1 DEF HandledIsUnacked
    <2> QED BY <2>1, <2>2 DEF HandledIsUnacked
  <1>11. AckedIsBooked'
    <2>1. \A x \in BookDurables, y \in Ids : rows[x][y] <= rows'[x][y] /\ rows[x][y] \in Nat /\ rows'[x][y] \in Nat
      BY <1>2, <1>5, <1>6 DEF RowsTyped
    <2>2. ASSUME NEW x \in BookDurables \ SkipsUnknown, NEW y \in acked'[x] PROVE rows'[x][y] > 0
      <3>1. y \in Ids
        BY <1>2, <1>4 DEF StreamTypeOK, BusTypeOK
      <3>2. CASE y \in acked[x]
        BY <1>1, <2>1, <3>1, <3>2 DEF AckedIsBooked
      <3>3. CASE y \notin acked[x]
        <4>1. x = d /\ y = i
          BY <1>7, <2>2, <3>3
        <4>2. ~Nak(d) /\ ~UNCHANGED busVars
          BY <1>8, <2>2, <3>3, <4>1 DEF busVars
        <4> QED BY <1>6, <2>2, <4>1, <4>2
      <3> QED BY <3>2, <3>3
    <2>3. ASSUME NEW x \in Deduplicates, NEW y \in Ids PROVE rows'[x][y] <= 1
      <3>1. x \in BookDurables /\ rows[x][y] <= 1
        BY <1>1, BookNames DEF AckedIsBooked
      <3> QED BY <1>6, <3>1
    <2> QED BY <2>2, <2>3 DEF AckedIsBooked
  <1>12. FewRebooked'
    <2>1. rows[d][i] \in Nat /\ \A x \in BookDurables, y \in Ids : rows[x][y] \in Nat
      BY <1>2 DEF RowsTyped
    <2>2. \A x \in BookDurables, y \in Ids : x # d => Counted(x, y)' = Counted(x, y)
      BY <1>6, <1>7 DEF Counted, Again
    <2>3. \A y \in Ids : y # i => Counted(d, y)' <= Counted(d, y)
      <3> SUFFICES ASSUME NEW y \in Ids, y # i PROVE Counted(d, y)' <= Counted(d, y)
        OBVIOUS
      <3>1. Again(d, y)' => Again(d, y)
        BY <1>6, <1>7 DEF Again
      <3> QED BY <1>6, <2>1, <3>1 DEF Counted
    <2>4. Counted(d, i) \in Nat
      BY <1>2, <2>1 DEF Counted
    <2>5. \A y \in Ids : y = i => Counted(d, y) = Counted(d, i) /\ Counted(d, y) \in Nat
      BY <2>4
    <2>6. ASSUME NEW y \in Ids, y = i
          PROVE  \/ faults <= faults' /\ (Counted(d, y)' <= Counted(d, y) \/ Counted(d, y)' <= 1)
                 \/ faults' = faults + 1 /\ (Counted(d, y)' <= Counted(d, y) + 1 \/ Counted(d, y)' <= 2)
      <3>1. rows'[d][y] = n /\ rows[d][y] \in Nat /\ Counted(d, y) \in Nat /\ (n <= Counted(d, y) \/ n <= 1)
        BY <1>6, <2>1, <2>5, <2>6
      <3>2. Counted(d, y)' = n \/ Counted(d, y)' = n + 1
        BY <3>1 DEF Counted
      <3>3. CASE UNCHANGED <<busVars, faults>> /\ b
        <4>1. ~Again(d, y)'
          BY <1>6, <1>7, <2>6, <3>3 DEF Again
        <4>2. Counted(d, y)' = n
          BY <3>1, <4>1 DEF Counted
        <4> QED BY <1>3, <3>1, <4>2
      <3>4. CASE Ack(d)
        <4>1. ~Again(d, y)'
          BY <1>8, <2>6, <3>4 DEF Again
        <4>2. Counted(d, y)' = n
          BY <3>1, <4>1 DEF Counted
        <4> QED BY <1>3, <3>1, <4>2
      <3>5. CASE Nak(d) /\ Fault
        BY <3>1, <3>2, <3>5 DEF Fault
      <3>6. CASE Nak(d) /\ ~b /\ ~settling[d] /\ n = rows[d][i]
        <4>1. Again(d, y)' => Again(d, y)
          BY <1>6, <1>7, <1>8, <2>6, <3>6 DEF Again
        <4>2. Counted(d, y)' <= Counted(d, y)
          BY <2>6, <3>1, <3>6, <4>1 DEF Counted
        <4> QED BY <1>3, <4>2
      <3> QED BY <3>3, <3>4, <3>5, <3>6
    <2>7. PICK y \in Ids : y = i
      BY <1>2
    <2>8. \A x \in BookDurables, z \in Ids :
             x # d \/ z # y => Counted(x, z)' <= Counted(x, z) \/ Counted(x, z)' <= 1
      <3>1. \A x \in BookDurables, z \in Ids : Counted(x, z) \in Nat
        BY <2>1 DEF Counted
      <3> QED BY <2>2, <2>3, <2>7, <3>1
    <2>9. \/ faults <= faults' /\ (Counted(d, y)' <= Counted(d, y) \/ Counted(d, y)' <= 1)
          \/ faults' = faults + 1 /\ (Counted(d, y)' <= Counted(d, y) + 1 \/ Counted(d, y)' <= 2)
      BY <2>6, <2>7
    <2> QED BY <1>1, <1>3, <1>5, <2>8, <2>9, RebookableMoves
  <1> QED BY <1>4, <1>5, <1>9, <1>10, <1>11, <1>12 DEF RowsInv

LEMMA BookTypes ==
    /\ BookTypeOK <=> /\ RowsTyped /\ balance \in Nat /\ settled \in [{"credit", "debit"} -> Nat]
                      /\ manual \in 0..MaxManual /\ recon \in Recons
    /\ BookTypeOK' <=> /\ RowsTyped' /\ balance' \in Nat /\ settled' \in [{"credit", "debit"} -> Nat]
                       /\ manual' \in 0..MaxManual /\ recon' \in Recons
  BY DEF BookTypeOK, RowsTyped, Recons

LEMMA Amounts ==
    ASSUME BookTypeOK
    PROVE  /\ settled["credit"] \in Nat /\ settled["debit"] \in Nat
           /\ Settlements \in Nat /\ SettledNet \in Int
           /\ Settlements = settled["credit"] + settled["debit"]
           /\ SettledNet = settled["credit"] - settled["debit"]
           /\ balance \in Nat /\ Opening \in Nat /\ Drift \in Int
           /\ InFlight(Minting) \in 0..1 /\ InFlight(Burning) \in 0..1
           /\ Drift = balance - Opening - SettledNet - InFlight(Minting) + InFlight(Burning)
           /\ recon.actual \in Int /\ recon.expected \in Int /\ recon.since \in Nat
  BY BookAssumption
     DEF BookTypeOK, Settlements, SettledNet, Drift, InFlight, Minting, Burning

\* A settlement more, or none, leaves what was found about a reconciliation standing.
LEMMA FigureStays ==
    ASSUME BookTypeOK, BookTypeOK', FigureWasRight, ReconciliationIsExplained,
           recon' = recon, faults \in Nat, faults' \in Nat, faults <= faults',
           \/ settled' = settled
           \/ \E kind \in {"credit", "debit"} : InsertSettlement(kind)
    PROVE  FigureWasRight' /\ ReconciliationIsExplained'
  <1>1. /\ Settlements \in Nat /\ SettledNet \in Int /\ Opening \in Nat
        /\ recon.actual \in Int /\ recon.expected \in Int /\ recon.since \in Nat
    BY Amounts
  <1>2. \/ Settlements' = Settlements /\ SettledNet' = SettledNet
        \/ Settlements' = Settlements + 1 /\ SettledNet' = SettledNet + 1
        \/ Settlements' = Settlements + 1 /\ SettledNet' = SettledNet - 1
    <2>1. CASE settled' = settled
      BY <2>1 DEF Settlements, SettledNet
    <2>2. CASE InsertSettlement("credit")
      <3>1. settled'["credit"] = settled["credit"] + 1 /\ settled'["debit"] = settled["debit"]
        BY <2>2 DEF InsertSettlement, BookTypeOK
      <3>2. settled["credit"] \in Nat /\ settled["debit"] \in Nat
        BY Amounts
      <3> QED BY <3>1, <3>2 DEF Settlements, SettledNet
    <2>3. CASE InsertSettlement("debit")
      <3>1. settled'["debit"] = settled["debit"] + 1 /\ settled'["credit"] = settled["credit"]
        BY <2>3 DEF InsertSettlement, BookTypeOK
      <3>2. settled["credit"] \in Nat /\ settled["debit"] \in Nat
        BY Amounts
      <3> QED BY <3>1, <3>2 DEF Settlements, SettledNet
    <2> QED BY <2>1, <2>2, <2>3
  <1>3. FigureWasRight'
    <2> SUFFICES ASSUME recon.stage = "counted"
                 PROVE  /\ recon.since <= Settlements'
                        /\ recon.actual - Opening - SettledNet' <= Settlements' - recon.since
                        /\ -(recon.actual - Opening - SettledNet') <= Settlements' - recon.since
      BY DEF FigureWasRight
    <2> QED BY <1>1, <1>2 DEF FigureWasRight
  <1>4. ReconciliationIsExplained'
    BY <1>1 DEF ReconciliationIsExplained
  <1> QED BY <1>3, <1>4

LEMMA BookInit_Inv == StreamTypeOK /\ Untouched(BookDurables) /\ BookInit => BookInv
  <1> SUFFICES ASSUME StreamTypeOK, Untouched(BookDurables), BookInit PROVE BookInv
    OBVIOUS
  <1>1. faults \in Nat
    BY DEF StreamTypeOK
  <1>2. BookTypeOK
    BY BookAssumption DEF BookInit, BookTypeOK, NoRecon
  <1>3. /\ \A d \in BookDurables : ~settling[d] /\ acked[d] = {}
        /\ \A d \in BookDurables, id \in Ids : rows[d][id] = 0
    BY DEF Untouched, BookInit
  <1>4. SettlesWhatItBooked /\ HandledIsUnacked /\ AckedIsBooked
    BY <1>3, BookNames DEF SettlesWhatItBooked, HandledIsUnacked, AckedIsBooked
  <1>5. FewRebooked
    <2>1. Rebookable = {}
      <3> SUFFICES ASSUME NEW x \in Rebookable PROVE FALSE
        OBVIOUS
      <3>1. PICK c \in BookDurables, y \in Ids, k \in Nat : x = <<<<c, y>>, k>>
        BY DEF Rebookable
      <3>2. 2 <= k /\ k <= Counted(c, y)
        BY <3>1 DEF Rebookable
      <3> QED BY <1>3, <3>2 DEF Counted, Again
    <2> QED BY <1>1, <2>1, FS_EmptySet DEF FewRebooked
  <1>6. ReserveMatchesSettlements
    <2>1. Drift = 0
      BY <1>3, BookNames, BookAssumption
         DEF BookInit, Drift, SettledNet, InFlight, Minting, Burning
    <2> QED BY <1>1, <2>1, BookAssumption DEF BookInit, ReserveMatchesSettlements
  <1>7. recon.stage = "idle"
    BY DEF BookInit, NoRecon
  <1> QED BY <1>1, <1>2, <1>4, <1>5, <1>6, <1>7
          DEF BookInv, RowsInv, FigureWasRight, ReconciliationIsExplained

\* A handler of a service other than treasury, and a failure of treasury's before its
\* settlement: the reserve is as it was.
LEMMA BookHandles ==
    ASSUME BookInv, RowsInv', RowsTyped', UNCHANGED <<balance, settled, manual, recon>>,
           faults' \in Nat, faults <= faults',
           \/ UNCHANGED <<settling>>
           \/ /\ faults' = faults + 1
              /\ \E d \in BookDurables : settling' = [settling EXCEPT ![d] = FALSE]
    PROVE  BookInv'
  <1>1. BookTypeOK /\ BookTypeOK' /\ faults \in Nat
    BY BookTypes DEF BookInv, RowsInv, StreamTypeOK
  <1>2. FigureWasRight' /\ ReconciliationIsExplained'
    BY <1>1, FigureStays DEF BookInv
  <1>3. ReserveMatchesSettlements'
    <2>1. /\ SettledNet' = SettledNet /\ Opening \in Nat /\ SettledNet \in Int
          /\ Drift' = balance - Opening - SettledNet - InFlight(Minting)' + InFlight(Burning)'
          /\ InFlight(Minting)' \in 0..1 /\ InFlight(Burning)' \in 0..1
      BY <1>1, BookTypes, BookNames, Amounts
         DEF Drift, SettledNet, InFlight, Minting, Burning, RowsTyped
    <2>2. /\ Drift = balance - Opening - SettledNet - InFlight(Minting) + InFlight(Burning)
          /\ balance \in Nat /\ InFlight(Minting) \in 0..1 /\ InFlight(Burning) \in 0..1
      BY <1>1, Amounts
    <2>3. CASE UNCHANGED settling
      <3>1. InFlight(Minting)' = InFlight(Minting) /\ InFlight(Burning)' = InFlight(Burning)
        BY <2>3 DEF InFlight
      <3> QED BY <1>1, <2>1, <2>2, <3>1 DEF BookInv, ReserveMatchesSettlements
    <2>4. ASSUME NEW d \in BookDurables, settling' = [settling EXCEPT ![d] = FALSE],
                 faults' = faults + 1
          PROVE  ReserveMatchesSettlements'
      <3>1. \/ InFlight(Minting)' = InFlight(Minting)
            \/ InFlight(Burning)' = InFlight(Burning)
        BY <1>1, <2>4, BookNames, BookTypes DEF InFlight, RowsTyped
      <3>2. InFlight(Minting)' <= InFlight(Minting) /\ InFlight(Burning)' <= InFlight(Burning)
        BY <1>1, <2>4, BookNames, BookTypes DEF InFlight, RowsTyped
      <3> QED BY <1>1, <2>1, <2>2, <2>4, <3>1, <3>2 DEF BookInv, ReserveMatchesSettlements
    <2> QED BY <2>3, <2>4
  <1> QED BY <1>1, <1>2, <1>3 DEF BookInv

\* What the balance and the settlements become: by how much each moves, and what is
\* then under way.
LEMMA ReserveMoves ==
    ASSUME BookTypeOK, BookTypeOK', ReserveMatchesSettlements, faults \in Nat, faults' \in Nat,
           NEW more \in Int, balance' = balance + more,
           NEW net \in Int, SettledNet' = SettledNet + net,
           NEW late \in Int,
           InFlight(Minting)' - InFlight(Burning)' = InFlight(Minting) - InFlight(Burning) + late,
           \/ more = net + late /\ faults <= faults'
           \/ faults' = faults + 1 /\ more = net + late + 1
           \/ faults' = faults + 1 /\ more = net + late - 1
    PROVE  ReserveMatchesSettlements'
  <1>1. /\ Drift = balance - Opening - SettledNet - InFlight(Minting) + InFlight(Burning)
        /\ balance \in Nat /\ InFlight(Minting) \in 0..1 /\ InFlight(Burning) \in 0..1
        /\ SettledNet \in Int /\ Opening \in Nat
    BY Amounts
  <1>2. /\ Drift' = balance' - Opening - SettledNet' - InFlight(Minting)' + InFlight(Burning)'
        /\ InFlight(Minting)' \in 0..1 /\ InFlight(Burning)' \in 0..1 /\ balance' \in Nat
    BY BookTypes DEF Drift, InFlight, Minting, Burning
  <1>3. Drift' = Drift + more - net - late
    BY <1>1, <1>2
  <1> QED BY <1>1, <1>2, <1>3 DEF ReserveMatchesSettlements

LEMMA BookNext_Inv ==
    ASSUME BookInv, [BookBusNext]_bookBusVars
    PROVE  BookInv'
  <1>1. /\ RowsInv /\ RowsTyped /\ BookTypeOK /\ StreamTypeOK /\ faults \in Nat
        /\ ReserveMatchesSettlements /\ FigureWasRight /\ ReconciliationIsExplained
    BY BookTypes DEF BookInv, RowsInv, StreamTypeOK
  <1>2. ASSUME NEW d \in BookDurables, handling[d] # "none"
        PROVE  rows[d][handling[d]] \in Nat /\ settling[d] \in BOOLEAN /\ handling[d] \in Ids
    BY <1>1, <1>2, BookNames DEF RowsTyped, StreamTypeOK, BusTypeOK
  <1>3. ASSUME Fault PROVE faults' \in Nat /\ faults' = faults + 1 /\ faults <= faults'
    BY <1>1, <1>3 DEF Fault
  <1>4. ASSUME NEW d \in BookDurables
        PROVE  rows = [rows EXCEPT ![d][handling[d]] = rows[d][handling[d]]]
    <2>1. rows[d] = [rows[d] EXCEPT ![handling[d]] = rows[d][handling[d]]]
      BY <1>1 DEF RowsTyped
    <2> QED BY <1>1, <2>1 DEF RowsTyped
  <1>5. \A d \in BookDurables, id \in Ids : rows[d][id] \in Nat /\ rows[d][id] <= Counted(d, id)
    BY <1>1 DEF RowsTyped, Counted
  <1>6. \A d \in BookDurables, id \in Ids :
           id \notin acked[d] /\ ~settling[d] => rows[d][id] + 1 <= Counted(d, id) \/ rows[d][id] = 0
    BY <1>1 DEF RowsTyped, Counted, Again
  <1>7. \A d \in BookDurables : handling[d] \notin acked[d]
    BY <1>1 DEF RowsInv, HandledIsUnacked
  <1>8. ASSUME NEW d \in BookDurables, Fails(d), UNCHANGED service PROVE BookInv'
    <2>1. /\ Fault /\ Nak(d) /\ handling[d] # "none"
          /\ settling' = [settling EXCEPT ![d] = FALSE]
          /\ UNCHANGED <<published, rows, balance, settled, manual, recon>>
      BY <1>8 DEF Fails, HandlerFails, Nak
    <2>2. rows' = [rows EXCEPT ![d][handling[d]] = rows[d][handling[d]]]
      BY <1>4, <2>1
    <2>3. d \in Deduplicates => rows[d][handling[d]] <= 1
      BY <1>1, <1>2, <2>1 DEF RowsInv, AckedIsBooked
    <2>4. PICK n \in Nat : n = rows[d][handling[d]]
      BY <1>2, <2>1
    <2>5. n <= Counted(d, handling[d]) /\ n <= n
      BY <1>2, <1>5, <2>1, <2>4
    <2>6. RowsInv' /\ RowsTyped'
      BY <1>1, <1>8, <2>1, <2>2, <2>3, <2>4, <2>5, RowsStep
    <2> QED BY <1>3, <2>1, <2>6, BookHandles
  <1>9. ASSUME NEW d \in BookDurables, record(d), UNCHANGED service PROVE BookInv'
    <2>1. /\ handling[d] # "none" /\ d \notin {Minting, Burning}
          /\ UNCHANGED <<published, settling, balance, settled, manual, recon>>
          /\ (Ack(d) /\ UNCHANGED faults) \/ (Nak(d) /\ Fault)
      BY <1>9 DEF record, recordTransaction, recordEntry, incrementCounter, recordFee, DurablesOf,
                  Minting, Burning, Acknowledged
    <2>2. ~settling[d] /\ settling' = [settling EXCEPT ![d] = FALSE]
      BY <1>1, <2>1 DEF RowsInv, SettlesWhatItBooked, RowsTyped
    <2>3. PICK n \in Nat : /\ rows' = [rows EXCEPT ![d][handling[d]] = n] /\ n > 0
                           /\ n = 1 \/ n = rows[d][handling[d]] + 1
                           /\ d \in Deduplicates => n = 1
      <3>1. CASE recordTransaction(d) \/ recordEntry(d)
        BY <3>1 DEF recordTransaction, recordEntry, Wrote
      <3>2. CASE incrementCounter(d) \/ recordFee(d)
        <4>1. d \notin Deduplicates
          BY <3>2 DEF incrementCounter, recordFee, Deduplicates, DurablesOf
        <4>2. rows' = [rows EXCEPT ![d][handling[d]] = rows[d][handling[d]] + 1]
          BY <3>2 DEF incrementCounter, recordFee, Wrote
        <4>3. rows[d][handling[d]] + 1 \in Nat /\ rows[d][handling[d]] + 1 > 0
          BY <1>2, <2>1
        <4> QED BY <4>1, <4>2, <4>3
      <3> QED BY <1>9, <3>1, <3>2 DEF record
    <2>4. /\ n <= Counted(d, handling[d]) \/ n <= 1
          /\ rows[d][handling[d]] <= n
      <3>1. rows[d][handling[d]] + 1 <= Counted(d, handling[d]) \/ rows[d][handling[d]] = 0
        BY <1>2, <1>6, <1>7, <2>1, <2>2
      <3>2. CASE d \in Deduplicates
        <4>1. rows[d][handling[d]] <= 1
          BY <1>1, <1>2, <2>1, <3>2 DEF RowsInv, AckedIsBooked
        <4> QED BY <2>3, <3>2, <4>1
      <3>3. CASE d \notin Deduplicates /\ n = rows[d][handling[d]] + 1
        BY <1>2, <2>1, <3>1, <3>3
      <3>4. CASE d \notin Deduplicates /\ n = 1
        <4>1. n = rows[d][handling[d]] + 1
          <5>1. ~recordTransaction(d) /\ ~recordEntry(d)
            BY <3>4 DEF recordTransaction, recordEntry, Deduplicates
          <5>2. rows' = [rows EXCEPT ![d][handling[d]] = rows[d][handling[d]] + 1]
            BY <1>9, <5>1 DEF record, incrementCounter, recordFee, Wrote
          <5>3. rows'[d][handling[d]] = n /\ rows'[d][handling[d]] = rows[d][handling[d]] + 1
            BY <1>1, <1>2, <2>1, <2>3, <5>2 DEF RowsTyped
          <5> QED BY <5>3
        <4> QED BY <3>3, <3>4, <4>1
      <3> QED BY <2>3, <3>2, <3>3, <3>4
    <2>5. (d \in Deduplicates => n <= 1) /\ UNCHANGED <<service, published>>
      BY <1>9, <2>1, <2>3
    <2>6. RowsInv' /\ RowsTyped'
      <3>1. CASE Ack(d) /\ UNCHANGED faults
        BY <1>1, <2>1, <2>2, <2>3, <2>4, <2>5, <3>1, RowsStep
      <3>2. CASE Nak(d) /\ Fault
        BY <1>1, <2>1, <2>2, <2>3, <2>4, <2>5, <3>2, RowsStep
      <3> QED BY <2>1, <3>1, <3>2
    <2> QED BY <1>1, <1>3, <2>1, <2>6, BookHandles
  <1>10. ASSUME NEW d \in BookDurables, skip(d), UNCHANGED service PROVE BookInv'
    <2>1. /\ handling[d] # "none" /\ d \in SkipsUnknown
          /\ UNCHANGED <<published, rows, settling, balance, settled, manual, recon>>
          /\ (Ack(d) /\ UNCHANGED faults) \/ (Nak(d) /\ Fault)
      BY <1>10 DEF skip, bookVars, Acknowledged
    <2>2. ~settling[d]
      BY <1>1, <2>1, BookNames DEF RowsInv, SettlesWhatItBooked
    <2>3. settling' = [settling EXCEPT ![d] = FALSE]
      BY <1>1, <2>1, <2>2 DEF RowsTyped
    <2>4. rows' = [rows EXCEPT ![d][handling[d]] = rows[d][handling[d]]]
      BY <1>4, <2>1
    <2>5. d \in Deduplicates => rows[d][handling[d]] <= 1
      BY <1>1, <1>2, <2>1 DEF RowsInv, AckedIsBooked
    <2>6. PICK n \in Nat : n = rows[d][handling[d]]
      BY <1>2, <2>1
    <2>7. n <= Counted(d, handling[d]) /\ n <= n
      BY <1>2, <1>5, <2>1, <2>6
    <2>8. RowsInv' /\ RowsTyped'
      BY <1>1, <1>10, <2>1, <2>3, <2>4, <2>5, <2>6, <2>7, RowsStep
    <2> QED BY <1>1, <1>3, <2>1, <2>8, BookHandles
  <1>11. ASSUME NEW d \in BookDurables, UNCHANGED <<settled, manual, recon, faults>>,
                RowsInv', RowsTyped', balance' \in Nat,
                NEW more \in Int, balance' = balance + more,
                InFlight(Minting)' - InFlight(Burning)' = InFlight(Minting) - InFlight(Burning) + more
         PROVE  BookInv'
    <2>1. BookTypeOK'
      BY <1>1, <1>11, BookTypes
    <2>2. FigureWasRight' /\ ReconciliationIsExplained'
      BY <1>1, <1>11, <2>1, FigureStays
    <2>3. SettledNet' = SettledNet + 0
      BY <1>1, <1>11, Amounts DEF SettledNet
    <2>4. ReserveMatchesSettlements'
      BY <1>1, <1>11, <2>1, <2>3, ReserveMoves
    <2> QED BY <1>11, <2>1, <2>2, <2>4 DEF BookInv
  <1>12. ASSUME NEW d \in BookDurables, handleMintExecuted(d), UNCHANGED service PROVE BookInv'
    <2>1. /\ d = Minting /\ handling[d] # "none" /\ ~settling[d] /\ balance' = balance + 1
          /\ rows' = [rows EXCEPT ![d][handling[d]] = rows[d][handling[d]] + 1]
          /\ settling' = [settling EXCEPT ![d] = TRUE]
          /\ UNCHANGED <<published, settled, manual, recon, busVars, faults>>
      BY <1>12 DEF handleMintExecuted, Credit, Wrote, Minting
    <2>2. PICK n \in Nat : n = rows[d][handling[d]] + 1 /\ n > 0
      BY <1>2, <2>1
    <2>3. rows[d][handling[d]] <= n /\ (n <= Counted(d, handling[d]) \/ n <= 1)
      BY <1>2, <1>6, <1>7, <2>1, <2>2
    <2>4. RowsInv' /\ RowsTyped'
      BY <1>1, <1>12, <2>1, <2>2, <2>3, BookNames, RowsStep
    <2>5. /\ InFlight(Minting)' = 1 /\ InFlight(Minting) = 0 /\ InFlight(Burning)' = InFlight(Burning)
          /\ InFlight(Burning) \in Int
      BY <1>1, <2>1, BookNames DEF InFlight, RowsTyped
    <2>6. balance' \in Nat
      BY <1>1, <2>1, Amounts
    <2> QED BY <1>11, <2>1, <2>4, <2>5, <2>6
  <1>13. ASSUME NEW d \in BookDurables, handleBurnExecuted(d), UNCHANGED service PROVE BookInv'
    <2>1. /\ d = Burning /\ handling[d] # "none" /\ ~settling[d]
          /\ UNCHANGED <<published, settled, manual, recon, faults>>
      BY <1>13 DEF handleBurnExecuted, Burning
    <2>2. CASE /\ balance >= 1 /\ balance' = balance - 1
               /\ rows' = [rows EXCEPT ![d][handling[d]] = rows[d][handling[d]] + 1]
               /\ settling' = [settling EXCEPT ![d] = TRUE]
               /\ UNCHANGED busVars
      <3>1. PICK n \in Nat : n = rows[d][handling[d]] + 1 /\ n > 0
        BY <1>2, <2>1
      <3>2. rows[d][handling[d]] <= n /\ (n <= Counted(d, handling[d]) \/ n <= 1)
        BY <1>2, <1>6, <1>7, <2>1, <3>1
      <3>3. RowsInv' /\ RowsTyped'
        BY <1>1, <1>13, <2>1, <2>2, <3>1, <3>2, BookNames, RowsStep
      <3>4. /\ InFlight(Burning)' = 1 /\ InFlight(Burning) = 0 /\ InFlight(Minting)' = InFlight(Minting)
            /\ InFlight(Minting) \in Int
        BY <1>1, <2>1, <2>2, BookNames DEF InFlight, RowsTyped
      <3>5. balance' \in Nat /\ balance' = balance + (-1)
        BY <1>1, <2>2, Amounts
      <3> QED BY <1>11, <2>1, <3>3, <3>4, <3>5
    <2>3. CASE balance < 1 /\ Nak(d) /\ UNCHANGED <<balance, rows, settling>>
      <3>1. rows' = [rows EXCEPT ![d][handling[d]] = rows[d][handling[d]]]
        BY <1>4, <2>1, <2>3
      <3>2. settling' = [settling EXCEPT ![d] = FALSE]
        BY <1>1, <2>1, <2>3 DEF RowsTyped
      <3>3. PICK n \in Nat : n = rows[d][handling[d]] /\ n <= n /\ n <= Counted(d, handling[d])
        BY <1>2, <1>5, <2>1
      <3>4. RowsInv' /\ RowsTyped'
        BY <1>1, <1>13, <2>1, <2>3, <3>1, <3>2, <3>3, BookNames, RowsStep
      <3> QED BY <1>1, <2>1, <2>3, <3>4, BookHandles
    <2> QED BY <1>13, <2>2, <2>3 DEF handleBurnExecuted, Debit, Wrote
  <1>14. ASSUME NEW d \in BookDurables, Create(d), UNCHANGED service PROVE BookInv'
    <2> DEFINE kind == IF d = Minting THEN "credit" ELSE "debit"
               step == IF d = Minting THEN 1 ELSE -1
    <2>1. /\ handling[d] # "none" /\ settling[d] /\ settling' = [settling EXCEPT ![d] = FALSE]
          /\ UNCHANGED <<published, rows, balance, manual, recon>>
          /\ \/ InsertSettlement(kind) /\ ((Ack(d) /\ UNCHANGED faults) \/ (Nak(d) /\ Fault))
             \/ UNCHANGED settled /\ Ack(d) /\ Fault
      BY <1>14 DEF Create, Acknowledged, Minting
    <2>2. d \in {Minting, Burning} /\ rows[d][handling[d]] > 0
      BY <1>1, <2>1 DEF RowsInv, SettlesWhatItBooked
    <2>3. PICK n \in Nat : n = rows[d][handling[d]] /\ n <= n /\ n <= Counted(d, handling[d])
      BY <1>2, <1>5, <2>1
    <2>4. rows' = [rows EXCEPT ![d][handling[d]] = n]
      BY <1>4, <2>1, <2>3
    <2>5. (d \in Deduplicates => n <= 1) /\ n > 0 /\ UNCHANGED <<service, published>>
      BY <1>14, <2>1, <2>2, <2>3, BookNames
    <2>6. RowsInv' /\ RowsTyped'
      <3>1. CASE Ack(d) /\ (UNCHANGED faults \/ Fault)
        BY <1>1, <2>1, <2>3, <2>4, <2>5, <3>1, RowsStep
      <3>2. CASE Nak(d) /\ Fault
        BY <1>1, <2>1, <2>3, <2>4, <2>5, <3>2, RowsStep
      <3> QED BY <2>1, <3>1, <3>2
    <2>7. /\ settled' \in [{"credit", "debit"} -> Nat]
          /\ InsertSettlement(kind) => SettledNet' = SettledNet + step
          /\ UNCHANGED settled => SettledNet' = SettledNet + 0
      <3>1. SettledNet \in Int /\ settled["credit"] \in Nat /\ settled["debit"] \in Nat
        BY <1>1, Amounts
      <3>2. settled \in [{"credit", "debit"} -> Nat]
        BY <1>1, BookTypes
      <3>3. CASE UNCHANGED settled
        BY <3>1, <3>2, <3>3 DEF SettledNet, InsertSettlement
      <3>4. CASE InsertSettlement(kind)
        BY <3>1, <3>2, <3>4 DEF SettledNet, InsertSettlement
      <3> QED BY <2>1, <3>3, <3>4
    <2>8. BookTypeOK'
      BY <1>1, <2>1, <2>6, <2>7, BookTypes
    <2>9. faults' \in Nat /\ faults <= faults' /\ (UNCHANGED faults \/ faults' = faults + 1)
      BY <1>1, <2>1, FaultCounts
    <2>10. kind \in {"credit", "debit"} /\ step \in Int
      OBVIOUS
    <2>11. FigureWasRight' /\ ReconciliationIsExplained'
      <3> HIDE DEF kind
      <3>1. settled' = settled \/ \E k \in {"credit", "debit"} : InsertSettlement(k)
        BY <2>1, <2>10
      <3> QED BY <1>1, <2>1, <2>8, <2>9, <3>1, FigureStays
    <2>12. /\ InFlight(Minting)' - InFlight(Burning)' = InFlight(Minting) - InFlight(Burning) + (-step)
           /\ InFlight(Minting) \in Int /\ InFlight(Burning) \in Int
      BY <1>1, <2>1, <2>2, BookNames DEF InFlight, RowsTyped
    <2>13. ReserveMatchesSettlements'
      <3>1. balance' = balance + 0
        BY <1>1, <2>1, Amounts
      <3>2. -step \in Int /\ 0 = step + (-step)
        OBVIOUS
      <3>3. CASE InsertSettlement(kind)
        <4> HIDE DEF kind, step
        <4> QED BY <1>1, <2>7, <2>8, <2>9, <2>10, <2>12, <3>1, <3>2, <3>3, ReserveMoves
      <3>4. CASE UNCHANGED settled /\ Fault
        <4>1. faults' = faults + 1
          BY <1>1, <3>4, FaultCounts
        <4>2. 0 = step - step /\ (step = 1 \/ step = -1)
          OBVIOUS
        <4>3. 0 = 0 + (-step) + 1 \/ 0 = 0 + (-step) - 1
          <5> HIDE DEF step
          <5> QED BY <4>2
        <4> HIDE DEF kind, step
        <4> QED BY <1>1, <2>7, <2>8, <2>9, <2>12, <3>1, <3>2, <3>4, <4>1, <4>3, ReserveMoves
      <3> QED BY <2>1, <3>3, <3>4
    <2> QED BY <2>6, <2>8, <2>11, <2>13 DEF BookInv
  <1>15. ASSUME createSettlement, UNCHANGED service PROVE BookInv'
    <2>1. /\ manual < MaxManual /\ manual' = manual + 1
          /\ UNCHANGED <<published, rows, settling, recon, attempts, handling, acked, faults>>
      BY <1>15 DEF createSettlement, busVars
    <2>2. RowsInv' /\ RowsTyped'
      BY <1>1, <1>15, <2>1 DEF RowsInv, RowsTyped, StreamTypeOK, BusTypeOK, FewRebooked, Rebookable,
         Counted, Again, SettlesWhatItBooked, HandledIsUnacked, AckedIsBooked
    <2>3. PICK kind \in {"credit", "debit"} :
             InsertSettlement(kind) /\ IF kind = "credit" THEN Credit(1) ELSE Debit(1)
      BY <1>15 DEF createSettlement, ApplyManualSettlement
    <2>4. balance \in Nat /\ settled \in [{"credit", "debit"} -> Nat] /\ manual \in 0..MaxManual
      BY <1>1, BookTypes
    <2>5. /\ settled' \in [{"credit", "debit"} -> Nat]
          /\ \/ balance' = balance + 1 /\ SettledNet' = SettledNet + 1
             \/ balance >= 1 /\ balance' = balance + (-1) /\ SettledNet' = SettledNet + (-1)
      BY <2>3, <2>4 DEF InsertSettlement, Credit, Debit, SettledNet
    <2>6. BookTypeOK'
      <3>1. manual' \in 0..MaxManual /\ balance' \in Nat
        BY <2>1, <2>4, <2>5, BookAssumption
      <3> QED BY <1>1, <2>1, <2>2, <2>5, <3>1, BookTypes
    <2>7. FigureWasRight' /\ ReconciliationIsExplained'
      BY <1>1, <2>1, <2>3, <2>6, FigureStays
    <2>8. ReserveMatchesSettlements'
      <3>1. InFlight(Minting)' - InFlight(Burning)' = InFlight(Minting) - InFlight(Burning) + 0
        BY <1>1, <2>1, Amounts DEF InFlight
      <3>2. CASE balance' = balance + 1 /\ SettledNet' = SettledNet + 1
        BY <1>1, <2>1, <2>6, <3>1, <3>2, ReserveMoves
      <3>3. CASE balance' = balance + (-1) /\ SettledNet' = SettledNet + (-1)
        BY <1>1, <2>1, <2>6, <3>1, <3>3, ReserveMoves
      <3> QED BY <2>5, <3>2, <3>3
    <2> QED BY <2>2, <2>6, <2>7, <2>8 DEF BookInv
  <1>16. ASSUME UNCHANGED <<service, streamVars, rows, settling, balance, settled, manual>>,
                recon' \in Recons, faults' \in Nat, faults <= faults',
                FigureWasRight', ReconciliationIsExplained'
         PROVE  BookInv'
    <2>1. RowsInv' /\ RowsTyped'
      <3>1. FewRebooked'
        <4>1. Rebookable' = Rebookable
          BY <1>16 DEF Rebookable, Counted, Again, streamVars, busVars
        <4>2. Cardinality(Rebookable) \in Nat
          BY <1>1, FS_CardinalityType DEF RowsInv, FewRebooked
        <4> QED BY <1>1, <1>16, <4>1, <4>2 DEF RowsInv, FewRebooked
      <3> QED BY <1>1, <1>16, <3>1 DEF RowsInv, RowsTyped, StreamTypeOK, BusTypeOK, streamVars, busVars,
              SettlesWhatItBooked, HandledIsUnacked, AckedIsBooked
    <2>2. BookTypeOK'
      BY <1>1, <1>16, <2>1, BookTypes
    <2>3. ReserveMatchesSettlements'
      <3>1. Drift' = Drift /\ Drift \in Int
        BY <1>1, <1>16, Amounts DEF Drift, InFlight, SettledNet
      <3>2. balance >= 0 /\ -faults <= Drift /\ Drift <= faults /\ balance' = balance
        BY <1>1, <1>16 DEF ReserveMatchesSettlements
      <3>3. -faults' <= Drift' /\ Drift' <= faults'
        <4>1. faults \in Nat /\ faults' \in Nat /\ faults <= faults'
          BY <1>1, <1>16
        <4>2. \A z \in Int, f, g \in Nat :
                 -f <= z /\ z <= f /\ f <= g => -g <= z /\ z <= g
          OBVIOUS
        <4>3. -faults' <= Drift /\ Drift <= faults'
          BY <3>1, <3>2, <4>1, <4>2
        <4> QED BY <3>1, <4>3
      <3> QED BY <3>2, <3>3 DEF ReserveMatchesSettlements
    <2> QED BY <1>16, <2>1, <2>2, <2>3 DEF BookInv
  <1>17. ASSUME listSettlements, UNCHANGED service PROVE BookInv'
    <2>1. /\ UNCHANGED <<streamVars, faults, rows, settling, balance, settled, manual>>
          /\ recon' = [stage |-> "counted", actual |-> Opening + SettledNet, expected |-> 0,
                       since |-> Settlements]
      BY <1>17 DEF listSettlements, NoRecon
    <2>2. /\ Settlements \in Nat /\ SettledNet \in Int /\ Opening \in Nat
          /\ Settlements' = Settlements /\ SettledNet' = SettledNet
      BY <1>1, <2>1, Amounts DEF Settlements, SettledNet
    <2>3. recon' \in Recons
      BY <2>1, <2>2 DEF Recons
    <2>4. FigureWasRight' /\ ReconciliationIsExplained'
      BY <2>1, <2>2 DEF FigureWasRight, ReconciliationIsExplained
    <2> QED BY <1>1, <1>16, <1>17, <2>1, <2>3, <2>4
  <1>18. ASSUME reconcile, UNCHANGED service PROVE BookInv'
    <2>1. /\ UNCHANGED <<streamVars, rows, settling, balance, settled, manual>>
          /\ recon.stage = "counted" /\ recon \in Recons
      BY <1>1, <1>18, BookTypes DEF reconcile
    <2>2. /\ Settlements \in Nat /\ SettledNet \in Int /\ Opening \in Nat /\ balance \in Nat
          /\ recon.actual \in Int /\ recon.since \in Nat
          /\ Drift = balance - Opening - SettledNet - InFlight(Minting) + InFlight(Burning)
          /\ InFlight(Minting) \in 0..1 /\ InFlight(Burning) \in 0..1
      BY <1>1, Amounts
    <2>3. CASE CreateReconciliation(balance) /\ UNCHANGED faults
      <3>1. /\ recon' = [recon EXCEPT !.stage = "logged", !.expected = balance,
                                      !.since = Settlements - recon.since]
            /\ recon'.stage = "logged" /\ recon'.actual = recon.actual
            /\ recon'.expected = balance /\ recon'.since = Settlements - recon.since
        BY <2>1, <2>3 DEF CreateReconciliation, Recons
      <3>2. Settlements - recon.since \in Nat
        BY <1>1, <2>1, <2>2 DEF FigureWasRight
      <3>3. recon' \in Recons
        <4>1. [recon EXCEPT !.stage = "logged"] \in Recons
          BY <2>1 DEF Recons
        <4>2. [[recon EXCEPT !.stage = "logged"] EXCEPT !.expected = balance] \in Recons
          <5>1. balance \in Int
            BY <2>2
          <5> QED BY <4>1, <5>1 DEF Recons
        <4>3. [[[recon EXCEPT !.stage = "logged"] EXCEPT !.expected = balance]
                 EXCEPT !.since = Settlements - recon.since] \in Recons
          BY <3>2, <4>2 DEF Recons
        <4> QED BY <3>1, <4>3
      <3>4. FigureWasRight'
        BY <3>1 DEF FigureWasRight
      <3>5. ReconciliationIsExplained'
        <4>1. /\ recon.actual - Opening - SettledNet <= Settlements - recon.since
              /\ -(recon.actual - Opening - SettledNet) <= Settlements - recon.since
              /\ -faults <= Drift /\ Drift <= faults
          BY <1>1, <2>1 DEF FigureWasRight, ReserveMatchesSettlements
        <4>2. LET off == recon.actual - balance
              IN  /\ off <= Settlements - recon.since + faults + 1
                  /\ -(Settlements - recon.since + faults + 1) <= off
          BY <1>1, <2>2, <4>1
        <4> QED BY <2>3, <3>1, <4>2 DEF ReconciliationIsExplained
      <3> QED BY <1>1, <1>16, <1>18, <2>1, <2>3, <3>3, <3>4, <3>5
    <2>4. CASE recon' = [recon EXCEPT !.stage = "failed"] /\ Fault
      <3>1. recon' \in Recons /\ recon'.stage = "failed"
        BY <2>1, <2>4 DEF Recons
      <3>2. FigureWasRight' /\ ReconciliationIsExplained'
        BY <3>1 DEF FigureWasRight, ReconciliationIsExplained
      <3> QED BY <1>3, <1>16, <1>18, <2>1, <2>4, <3>1, <3>2
    <2> QED BY <1>18, <2>3, <2>4 DEF reconcile
  <1>19. ASSUME Stream, UNCHANGED <<service, bookVars>> PROVE BookInv'
    <2>1. StreamTypeOK' /\ UNCHANGED <<faults, rows, settling, balance, settled, manual, recon>>
      BY <1>1, <1>19, Stream_Type DEF Stream, Published, bookVars
    <2>2. acked' = acked /\ \A d \in BookDurables :
             handling[d] # "none" => handling'[d] = handling[d]
      BY <1>1, <1>19, BookNames DEF Stream, Published, Deliver, busVars, StreamTypeOK, BusTypeOK, Listening
    <2>3. HandledIsUnacked'
      <3>1. ASSUME NEW d \in BookDurables PROVE handling'[d] \notin acked'[d]
        <4>1. CASE handling[d] # "none"
          BY <1>7, <2>2, <4>1
        <4>2. CASE handling[d] = "none" /\ handling'[d] = "none"
          BY <1>7, <2>2, <4>2
        <4>3. CASE handling'[d] # "none" /\ handling[d] = "none"
          <5>1. \E x \in Durables, id \in Ids : Deliver(x, id) /\ handling'[d] # handling[d]
            BY <1>19, <4>3 DEF Stream, Published, busVars, Listening
          <5>2. PICK x \in Durables, id \in Ids : Deliver(x, id) /\ handling'[d] # handling[d]
            BY <5>1
          <5>3. x = d /\ handling'[d] = id /\ id \notin acked[d]
            BY <1>1, <5>2, BookNames DEF Deliver, StreamTypeOK, BusTypeOK
          <5> QED BY <2>2, <5>3
        <4> QED BY <4>1, <4>2, <4>3
      <3> QED BY <3>1 DEF HandledIsUnacked
    <2>4. SettlesWhatItBooked'
      BY <1>1, <2>1, <2>2 DEF RowsInv, SettlesWhatItBooked
    <2>5. AckedIsBooked'
      BY <1>1, <2>1, <2>2 DEF RowsInv, AckedIsBooked
    <2>6. FewRebooked'
      <3>1. ASSUME NEW d \in BookDurables, NEW id \in Ids
            PROVE  Counted(d, id)' <= Counted(d, id)
        <4>1. Again(d, id)' => Again(d, id)
          <5>1. settling[d] => handling'[d] = handling[d]
            BY <1>1, <2>2 DEF RowsInv, SettlesWhatItBooked
          <5> QED BY <2>1, <2>2, <5>1 DEF Again
        <4>2. rows'[d][id] = rows[d][id] /\ rows[d][id] \in Nat
          BY <1>5, <2>1
        <4> QED BY <4>1, <4>2 DEF Counted
      <3>2. Rebookable' \subseteq Rebookable
        <4> SUFFICES ASSUME NEW x \in Rebookable' PROVE x \in Rebookable
          OBVIOUS
        <4>1. PICK c \in BookDurables, y \in Ids, k \in Nat : x = <<<<c, y>>, k>>
          BY DEF Rebookable
        <4>2. 2 <= k /\ k <= Counted(c, y)' /\ Counted(c, y)' <= Counted(c, y)
          BY <3>1, <4>1 DEF Rebookable
        <4>3. Counted(c, y) \in Nat /\ Counted(c, y)' \in Nat
          BY <1>5, <2>1 DEF Counted
        <4> QED BY <4>1, <4>2, <4>3 DEF Rebookable
      <3> QED BY <1>1, <2>1, <3>2, AtMostOneMore DEF RowsInv, FewRebooked
    <2>7. RowsInv' /\ RowsTyped'
      BY <1>1, <2>1, <2>3, <2>4, <2>5, <2>6 DEF RowsInv, RowsTyped
    <2> QED BY <1>1, <2>1, <2>7, BookHandles
  <1>20. CASE UNCHANGED bookBusVars
    <2>1. UNCHANGED <<service, streamVars, faults, rows, settling, balance, settled, manual, recon>>
      BY <1>20 DEF bookBusVars, bookVars
    <2>2. recon' \in Recons /\ FigureWasRight' /\ ReconciliationIsExplained'
      BY <1>1, <2>1, BookTypes DEF FigureWasRight, ReconciliationIsExplained, Settlements, SettledNet
    <2> QED BY <1>1, <1>16, <2>1, <2>2
  <1>21. CASE BookNext /\ UNCHANGED service
    BY <1>8, <1>9, <1>10, <1>12, <1>13, <1>14, <1>15, <1>17, <1>18, <1>21 DEF BookNext
  <1> QED BY <1>19, <1>20, <1>21 DEF BookBusNext

\* The invariant of the books, types included, in every reachable state.
THEOREM BookInvariant == BookSpec => []BookInv
  <1>1. BookInv /\ [BookBusNext]_bookBusVars => BookInv'
    BY BookNext_Inv
  <1>2. StreamInit /\ BookInit => BookInv
    BY BookInit_Inv, BookNames, StreamInit_Type, StreamInit_Untouched DEF Untouched
  <1> QED BY <1>1, <1>2, PTL DEF BookSpec

LEMMA BookInv_Implies ==
    ASSUME BookInv
    PROVE  BooksFollowMessages
  <1>1. /\ FewRebooked /\ AckedIsBooked /\ RowsTyped /\ faults \in Nat
    BY BookTypes DEF BookInv, RowsInv, StreamTypeOK
  <1>2. Rebooked \subseteq Rebookable
    <2> SUFFICES ASSUME NEW m \in BookDurables \X Ids, NEW x \in {m} \X (2..rows[m[1]][m[2]])
                 PROVE  x \in Rebookable
      BY DEF Rebooked
    <2>1. rows[m[1]][m[2]] \in Nat /\ x[1] = m /\ x[2] \in 2..rows[m[1]][m[2]] /\ x = <<m, x[2]>>
      BY <1>1 DEF RowsTyped
    <2>2. 2 <= x[2] /\ x[2] <= Counted(m[1], m[2]) /\ x[2] \in Nat
      BY <2>1 DEF Counted
    <2>3. x \in (BookDurables \X Ids) \X Nat
      BY <2>1, <2>2
    <2> QED BY <2>1, <2>2, <2>3 DEF Rebookable
  <1>3. Cardinality(Rebooked) <= faults
    <2>1. Cardinality(Rebookable) \in Nat /\ Cardinality(Rebooked) \in Nat
          /\ Cardinality(Rebooked) <= Cardinality(Rebookable)
      BY <1>1, <1>2, AtMostOneMore DEF FewRebooked
    <2> QED BY <1>1, <2>1 DEF FewRebooked
  <1> QED BY <1>1, <1>3 DEF BooksFollowMessages, AckedIsBooked

\* What was acknowledged is booked; and however many messages, deliveries and failures
\* there are, all bookings beyond the first of a message are no more than the failures.
THEOREM BooksFollow == BookSpec => []BooksFollowMessages
  <1>1. BookInv => BooksFollowMessages
    BY BookInv_Implies
  <1> QED BY <1>1, BookInvariant, PTL

\* However manual settlements and the two consumers interleave, each failure lets the
\* reserve and its settlements drift apart by at most one booking.
THEOREM ReserveMatches == BookSpec => []ReserveMatchesSettlements
  BY BookInvariant, PTL DEF BookInv

\* A reconciliation finds nothing that a failure, a settlement made since or a handler
\* between its writes does not explain.
THEOREM ReconciliationExplained == BookSpec => []ReconciliationIsExplained
  BY BookInvariant, PTL DEF BookInv

-----------------------------------------------------------------------------
(* Fees *)

AskedAmounts == {gramsToWei(grams) : grams \in Grams}

\* What a patch cannot change of a tier.
SameBounds(row, other) == row.arena = other.arena /\ row.from = other.from /\ row.to = other.to

BoundsStay ==
    /\ \A id \in DOMAIN Schedules : SameBounds(schedules[id], Schedules[id])
    /\ \A p \in Patches : patch[p] # NoPatch => SameBounds(patch[p].read, Schedules[patch[p].id])

\* The quote of an order is what it would be now, unless the order is stale.
IsQuoteNow(r) ==
    /\ \A id \in FindTier(r.arena, r.amount) : r.quote = Charge(schedules[id], r.amount)
    /\ FindTier(r.arena, r.amount) = {} => r.quote = NoFee

QuotesStand ==
    \A o \in Orders :
       /\ order[o].stage # "idle" => order[o].amount \in AskedAmounts
       /\ o \notin stale =>
            /\ order[o].stage \in {"placed", "book"} => IsQuoteNow(order[o])
            /\ order[o].stage \in {"book", "booked"} => order[o].fee = order[o].quote
            /\ order[o].stage = "free" => order[o].quote = NoFee \/ faults > 0

\* Of the patches of a tier the last one stands.
LastPatchStands ==
    \A id \in DOMAIN schedules :
       LET done == {p \in Patches : patch[p].stage = "done" /\ patch[p].id = id}
       IN  done # {} => \E p \in done :
              \A field \in DOMAIN patch[p].asked : schedules[id][field] = patch[p].asked[field]

\* The inductive invariant of the fees.
FeesInv == FeesTypeOK /\ BoundsStay /\ QuotesStand /\ LastPatchStands

PatchRecord == [stage : {"write", "done", "failed"}, id : DOMAIN Schedules, asked : Changes, read : Rows]
OrderRecord ==
    [stage : {"idle", "placed", "book", "booked", "free"}, arena : Arenas, amount : Nat, quote : Int, fee : Int]

FeesTyped ==
    /\ schedules \in [DOMAIN Schedules -> Rows]
    /\ patch \in [Patches -> {NoPatch} \cup PatchRecord]
    /\ order \in [Orders -> OrderRecord]
    /\ stale \subseteq Orders
    /\ faults \in Nat

LEMMA FeesTypes == (FeesTypeOK <=> FeesTyped) /\ (FeesTypeOK' <=> FeesTyped')
  BY DEF FeesTypeOK, FeesTyped, PatchRecord, OrderRecord

LEMMA FieldsOfRows ==
    ASSUME NEW row \in Rows
    PROVE  /\ row = [arena |-> row.arena, from |-> row.from, to |-> row.to, fee_bps |-> row.fee_bps,
                     min_fee |-> row.min_fee, active |-> row.active]
           /\ DOMAIN row = {"arena", "from", "to", "fee_bps", "min_fee", "active"}
           /\ row["arena"] = row.arena /\ row["from"] = row.from /\ row["to"] = row.to
           /\ row["fee_bps"] = row.fee_bps /\ row["min_fee"] = row.min_fee /\ row["active"] = row.active
           /\ row.arena \in Arenas /\ row.from \in Nat /\ row.to \in Nat
           /\ row.fee_bps \in Int /\ row.min_fee \in Int /\ row.active \in BOOLEAN
  BY DEF Rows

LEMMA FeesOfRows ==
    ASSUME NEW row \in Rows, NEW amount \in Nat
    PROVE  Charge(row, amount) \in Int /\ Booked(row, amount) = Charge(row, amount)
  <1>1. row.fee_bps \in Int /\ row.min_fee \in Int
    BY FieldsOfRows
  <1>2. amount * row.fee_bps \in Int
    BY <1>1
  <1>3. Charge(row, amount) \in Int
    BY <1>1, <1>2 DEF Charge
  <1> QED BY <1>3 DEF Charge, Booked

\* What is asked, over a row of the table.
LEMMA PatchedRow ==
    ASSUME NEW asked \in Changes, NEW row \in Rows
    PROVE  /\ Patched(asked, row) \in Rows /\ SameBounds(Patched(asked, row), row)
           /\ \A field \in DOMAIN asked : Patched(asked, row)[field] = asked[field]
  <1> DEFINE D == {"arena", "from", "to", "fee_bps", "min_fee", "active"}
             new == Patched(asked, row)
  <1>1. \A field \in DOMAIN asked : \/ field \in {"fee_bps", "min_fee"} /\ asked[field] \in Int
                                    \/ field = "active" /\ asked[field] \in BOOLEAN
    BY FeesAssumption
  <1>2. new = [x \in D |-> IF x \in DOMAIN asked THEN asked[x] ELSE row[x]]
    BY FieldsOfRows DEF Patched
  <1>3. \A field \in DOMAIN asked : new[field] = asked[field]
    BY <1>1, <1>2
  <1>4. new = [arena |-> new["arena"], from |-> new["from"], to |-> new["to"], fee_bps |-> new["fee_bps"],
               min_fee |-> new["min_fee"], active |-> new["active"]]
    BY <1>2
  <1>5. new["arena"] = row["arena"] /\ new["from"] = row["from"] /\ new["to"] = row["to"]
    BY <1>1, <1>2
  <1>6. new["fee_bps"] \in Int /\ new["min_fee"] \in Int
    BY <1>1, <1>2, FieldsOfRows
  <1>7. new["active"] \in BOOLEAN
    BY <1>1, <1>2, FieldsOfRows
  <1> HIDE DEF new
  <1>8. new \in Rows
    BY <1>4, <1>5, <1>6, <1>7, FieldsOfRows DEF Rows
  <1>9. SameBounds(new, row)
    BY <1>4, <1>5, FieldsOfRows DEF SameBounds
  <1> QED BY <1>3, <1>8, <1>9 DEF new

\* Only one tier fits.
LEMMA OneTier ==
    ASSUME FeesTypeOK, BoundsStay, NEW arena \in Arenas, NEW amount \in AskedAmounts,
           NEW id1 \in FindTier(arena, amount), NEW id2 \in FindTier(arena, amount)
    PROVE  id1 = id2 /\ id1 \in DOMAIN Schedules
  <1>1. DOMAIN schedules = DOMAIN Schedules
    BY DEF FeesTypeOK
  <1>2. \A id \in FindTier(arena, amount) :
           /\ id \in DOMAIN Schedules /\ schedules[id].arena \in {arena, "global"}
           /\ Covers(schedules[id], amount)
    BY <1>1 DEF FindTier
  <1>3. schedules[id1].arena = schedules[id2].arena
    <2> DEFINE fits == {id \in DOMAIN schedules :
                          /\ schedules[id].arena \in {arena, "global"} /\ schedules[id].active
                          /\ Covers(schedules[id], amount)}
               own == {id \in fits : schedules[id].arena = arena}
    <2>1. FindTier(arena, amount) = IF own # {} THEN own ELSE fits
      BY DEF FindTier
    <2> HIDE DEF fits
    <2>2. CASE own # {}
      BY <2>1, <2>2
    <2>3. CASE own = {}
      BY <1>2, <2>1, <2>3
    <2> QED BY <2>2, <2>3
  <1>4. \A id \in DOMAIN Schedules : /\ Schedules[id].arena = schedules[id].arena
                                     /\ Covers(Schedules[id], amount) <=> Covers(schedules[id], amount)
    BY DEF BoundsStay, SameBounds, Covers
  <1>5. PICK grams \in Grams : amount = gramsToWei(grams)
    BY DEF AskedAmounts
  <1>6. /\ Schedules[id1].arena = Schedules[id2].arena
        /\ Covers(Schedules[id1], gramsToWei(grams)) /\ Covers(Schedules[id2], gramsToWei(grams))
    BY <1>2, <1>3, <1>4, <1>5
  <1> QED BY <1>2, <1>6, TiersDoNotOverlap

LEMMA AmountsAreNumbers == AskedAmounts \subseteq Nat
  <1>1. \A grams \in Nat : grams \div 10 \in Nat
    OBVIOUS
  <1> QED BY <1>1, FeesAssumption DEF AskedAmounts, gramsToWei

LEMMA FeesInit_Inv == FeesInit /\ faults \in Nat => FeesInv
  <1> SUFFICES ASSUME FeesInit, faults \in Nat PROVE FeesInv
    OBVIOUS
  <1>1. Schedules \in [DOMAIN Schedules -> Rows]
    BY FeesAssumption
  <1>2. NoOrder \in OrderRecord
    BY DEF NoOrder, OrderRecord, Arenas, NoFee
  <1>3. FeesTypeOK
    BY <1>1, <1>2, FeesTypes DEF FeesInit, FeesTyped
  <1>4. BoundsStay
    BY DEF FeesInit, BoundsStay, SameBounds
  <1>5. QuotesStand
    BY DEF FeesInit, QuotesStand, NoOrder
  <1>6. LastPatchStands
    BY DEF FeesInit, LastPatchStands, NoPatch
  <1> QED BY <1>3, <1>4, <1>5, <1>6 DEF FeesInv

\* An order moves, as its quote allows.
LEMMA OrderMoves ==
    ASSUME FeesInv, NEW o \in Orders, NEW r \in OrderRecord,
           order' = [order EXCEPT ![o] = r],
           r.stage # "idle" => r.amount \in AskedAmounts,
           o \notin stale =>
             /\ r.stage \in {"placed", "book"} => IsQuoteNow(r)
             /\ r.stage \in {"book", "booked"} => r.fee = r.quote
             /\ r.stage = "free" => r.quote = NoFee \/ faults' > 0,
           UNCHANGED <<schedules, patch, stale>>, faults' \in Nat, faults' >= faults
    PROVE  FeesInv'
  <1>1. order \in [Orders -> OrderRecord] /\ faults \in Nat
    BY FeesTypes DEF FeesInv, FeesTyped
  <1>2. /\ order' \in [Orders -> OrderRecord] /\ order'[o] = r
        /\ \A x \in Orders : x # o => order'[x] = order[x]
    <2> HIDE DEF OrderRecord
    <2> QED BY <1>1
  <1>3. FeesTypeOK'
    BY <1>2, FeesTypes DEF FeesInv, FeesTyped
  <1>4. BoundsStay' /\ LastPatchStands'
    BY DEF FeesInv, BoundsStay, LastPatchStands
  <1>5. \A x : IsQuoteNow(x) => IsQuoteNow(x)'
    BY DEF IsQuoteNow, FindTier
  <1>6. QuotesStand'
    <2> SUFFICES ASSUME NEW x \in Orders
                 PROVE  /\ order'[x].stage # "idle" => order'[x].amount \in AskedAmounts
                        /\ x \notin stale =>
                             /\ order'[x].stage \in {"placed", "book"} => IsQuoteNow(order[x])'
                             /\ order'[x].stage \in {"book", "booked"} => order'[x].fee = order'[x].quote
                             /\ order'[x].stage = "free" => order'[x].quote = NoFee \/ faults' > 0
      BY DEF QuotesStand
    <2>1. PICK y : y = order'[x]
      OBVIOUS
    <2>2. IsQuoteNow(y) => IsQuoteNow(order[x])'
      BY <2>1 DEF IsQuoteNow, FindTier
    <2>3. CASE x = o
      BY <1>2, <2>1, <2>2, <2>3
    <2>4. CASE x # o
      <3>1. y = order[x]
        BY <1>2, <2>1, <2>4
      <3> QED BY <1>1, <2>1, <2>2, <3>1 DEF FeesInv, QuotesStand
    <2> QED BY <2>3, <2>4
  <1> QED BY <1>3, <1>4, <1>6 DEF FeesInv

\* What an order becomes with another stage and fee, and with another stage only.
OrderIs(o, stage, fee) ==
    [stage |-> stage, arena |-> order[o].arena, amount |-> order[o].amount, quote |-> order[o].quote, fee |-> fee]
OrderTakes(o, stage, fee) == [order EXCEPT ![o].stage = stage, ![o].fee = fee]
OrderMovesTo(o, stage) == [order EXCEPT ![o].stage = stage]

LEMMA OrdersUnderWay ==
    ASSUME FeesTypeOK, NEW o \in Orders, NEW stage \in {"placed", "book", "booked", "free"}, NEW fee \in Int
    PROVE  /\ order[o].arena \in Arenas /\ order[o].amount \in Nat
           /\ order[o].quote \in Int /\ order[o].fee \in Int
           /\ OrderIs(o, stage, fee) \in OrderRecord
           /\ OrderTakes(o, stage, fee) = [order EXCEPT ![o] = OrderIs(o, stage, fee)]
           /\ OrderMovesTo(o, stage) = [order EXCEPT ![o] = OrderIs(o, stage, order[o].fee)]
  <1>1. order \in [Orders -> OrderRecord] /\ order[o] \in OrderRecord
    BY FeesTypes DEF FeesTyped
  <1>2. PICK s, a, m, q, f : order[o] = [stage |-> s, arena |-> a, amount |-> m, quote |-> q, fee |-> f]
    BY <1>1 DEF OrderRecord
  <1>3. /\ order[o].arena \in Arenas /\ order[o].amount \in Nat /\ order[o].quote \in Int /\ order[o].fee \in Int
        /\ OrderIs(o, stage, fee) \in OrderRecord
    BY <1>1 DEF OrderRecord, OrderIs
  <1>4. [order EXCEPT ![o].stage = stage] = [order EXCEPT ![o] = [order[o] EXCEPT !.stage = stage]]
    BY Zenon
  <1>5. /\ [order[o] EXCEPT !.stage = stage] = OrderIs(o, stage, order[o].fee)
        /\ [OrderIs(o, stage, order[o].fee) EXCEPT !.fee = fee] = OrderIs(o, stage, fee)
    BY <1>2 DEF OrderIs
  <1> DEFINE once == [order EXCEPT ![o] = OrderIs(o, stage, order[o].fee)]
  <1>6. [once EXCEPT ![o].fee = fee] = [once EXCEPT ![o] = [once[o] EXCEPT !.fee = fee]]
    BY Zenon
  <1>7. /\ once[o] = OrderIs(o, stage, order[o].fee)
        /\ [once EXCEPT ![o] = OrderIs(o, stage, fee)] = [order EXCEPT ![o] = OrderIs(o, stage, fee)]
    BY <1>1
  <1>8. [order EXCEPT ![o].stage = stage, ![o].fee = fee]
          = [[order EXCEPT ![o].stage = stage] EXCEPT ![o].fee = fee]
    BY Zenon
  <1> QED BY <1>3, <1>4, <1>5, <1>6, <1>7, <1>8 DEF OrderTakes, OrderMovesTo

\* The same with what the steps of the code know of it.
LEMMA OrderGoesOn ==
    ASSUME FeesInv, NEW o \in Orders, order[o].stage \in {"placed", "book"},
           NEW stage \in {"placed", "book", "booked", "free"}, NEW fee \in Int,
           \/ order' = OrderTakes(o, stage, fee)
           \/ order' = OrderMovesTo(o, stage) /\ fee = order[o].fee,
           o \notin stale =>
             /\ stage \in {"book", "booked"} => fee = order[o].quote
             /\ stage = "free" => order[o].quote = NoFee \/ faults' > 0,
           UNCHANGED <<schedules, patch, stale>>, faults' \in Nat, faults' >= faults
    PROVE  FeesInv'
  <1>1. PICK r \in OrderRecord :
           /\ r.stage = stage /\ r.fee = fee
           /\ r.arena = order[o].arena /\ r.amount = order[o].amount /\ r.quote = order[o].quote
           /\ order' = [order EXCEPT ![o] = r]
    <2> DEFINE r == OrderIs(o, stage, fee)
    <2>1. r \in OrderRecord /\ order' = [order EXCEPT ![o] = r]
      BY OrdersUnderWay DEF FeesInv
    <2>2. /\ r.stage = stage /\ r.fee = fee
          /\ r.arena = order[o].arena /\ r.amount = order[o].amount /\ r.quote = order[o].quote
      BY DEF OrderIs
    <2> HIDE DEF r
    <2> QED BY <2>1, <2>2
  <1>2. /\ order[o].amount \in AskedAmounts
        /\ o \notin stale => IsQuoteNow(order[o])
    BY DEF FeesInv, QuotesStand
  <1>3. o \notin stale => IsQuoteNow(r)
    BY <1>1, <1>2 DEF IsQuoteNow
  <1>4. r.amount \in AskedAmounts
    BY <1>1, <1>2
  <1> QED BY <1>1, <1>3, <1>4, OrderMoves

LEMMA calculate_Inv ==
    ASSUME FeesInv, NEW o \in Orders, calculate(o)
    PROVE  FeesInv'
  <1>1. PICK arena \in Arenas, grams \in Grams :
           LET amount == gramsToWei(grams)
               quoted(fee) == order' = [order EXCEPT ![o] =
                  [stage |-> "placed", arena |-> arena, amount |-> amount, quote |-> fee, fee |-> NoFee]]
           IN  \/ \E id \in FindTier(arena, amount) : quoted(Charge(schedules[id], amount))
               \/ FindTier(arena, amount) = {} /\ quoted(NoFee)
    BY DEF calculate
  <1> DEFINE amount == gramsToWei(grams)
             tiers == FindTier(arena, amount)
             Quoted(fee) == [stage |-> "placed", arena |-> arena, amount |-> amount, quote |-> fee, fee |-> NoFee]
  <1>2. amount \in AskedAmounts /\ amount \in Nat
    BY AmountsAreNumbers DEF AskedAmounts
  <1>3. FeesTypeOK /\ BoundsStay /\ schedules \in [DOMAIN Schedules -> Rows] /\ faults \in Nat
    BY DEF FeesInv, FeesTypeOK
  <1>4. UNCHANGED <<faults, schedules, patch, stale>>
    BY DEF calculate
  <1> HIDE DEF amount
  <1>5. ASSUME NEW fee \in Int, order' = [order EXCEPT ![o] = Quoted(fee)],
               \A id \in tiers : fee = Charge(schedules[id], amount), tiers = {} => fee = NoFee
        PROVE  FeesInv'
    <2> DEFINE r == Quoted(fee)
    <2>1. r \in OrderRecord /\ r.stage = "placed" /\ r.arena = arena /\ r.amount = amount /\ r.quote = fee
      BY <1>2 DEF OrderRecord, NoFee
    <2>2. order' = [order EXCEPT ![o] = r]
      BY <1>5
    <2> HIDE DEF r
    <2>3. IsQuoteNow(r)
      BY <1>5, <2>1 DEF IsQuoteNow
    <2>4. /\ r.stage # "idle" => r.amount \in AskedAmounts
          /\ o \notin stale =>
               /\ r.stage \in {"placed", "book"} => IsQuoteNow(r)
               /\ r.stage \in {"book", "booked"} => r.fee = r.quote
               /\ r.stage = "free" => r.quote = NoFee \/ faults' > 0
      BY <1>2, <2>1, <2>3
    <2>5. UNCHANGED <<schedules, patch, stale>> /\ faults' \in Nat /\ faults' >= faults
      BY <1>3, <1>4
    <2> QED BY <2>1, <2>2, <2>4, <2>5, OrderMoves
  <1>6. CASE \E id \in tiers : order' = [order EXCEPT ![o] = Quoted(Charge(schedules[id], amount))]
    <2>1. PICK id \in tiers : order' = [order EXCEPT ![o] = Quoted(Charge(schedules[id], amount))]
      BY <1>6
    <2>2. \A id2 \in tiers : id2 = id
      BY <1>2, <1>3, OneTier
    <2>3. schedules[id] \in Rows
      BY <1>2, <1>3, OneTier
    <2>4. Charge(schedules[id], amount) \in Int
      BY <1>2, <2>3, FeesOfRows
    <2> QED BY <1>5, <2>1, <2>2, <2>4
  <1>7. CASE tiers = {} /\ order' = [order EXCEPT ![o] = Quoted(NoFee)]
    <2>1. NoFee \in Int
      BY DEF NoFee
    <2> HIDE DEF tiers, Quoted
    <2>2. \A id \in tiers : NoFee = Charge(schedules[id], amount)
      BY <1>7
    <2> QED BY <1>5, <1>7, <2>1, <2>2
  <1> QED BY <1>1, <1>6, <1>7 DEF amount

LEMMA bookFee_Inv ==
    ASSUME FeesInv, NEW o \in Orders, bookFee(o)
    PROVE  FeesInv'
  <1> DEFINE tiers == FindTier(order[o].arena, order[o].amount)
  <1>1. FeesTypeOK /\ BoundsStay /\ schedules \in [DOMAIN Schedules -> Rows] /\ faults \in Nat
    BY DEF FeesInv, FeesTypeOK
  <1>2. order[o].stage \in {"placed", "book"} /\ UNCHANGED <<schedules, patch, stale>>
    BY DEF bookFee
  <1>3. /\ order[o].amount \in AskedAmounts /\ order[o].amount \in Nat /\ order[o].arena \in Arenas
        /\ order[o].fee \in Int /\ (o \notin stale => IsQuoteNow(order[o]))
    <2>1. order[o].amount \in AskedAmounts /\ (o \notin stale => IsQuoteNow(order[o]))
      BY <1>2 DEF FeesInv, QuotesStand
    <2>2. 0 \in Int /\ "free" \in {"placed", "book", "booked", "free"}
      OBVIOUS
    <2> QED BY <1>1, <2>1, <2>2, OrdersUnderWay
  <1>4. \/ \E id \in tiers : order' = OrderTakes(o, "book", Booked(schedules[id], order[o].amount)) /\ faults' = faults
        \/ tiers = {} /\ order' = OrderMovesTo(o, "free") /\ faults' = faults
        \/ order' = OrderMovesTo(o, "free") /\ Fault
    BY DEF bookFee, OrderTakes, OrderMovesTo
  <1>5. faults' \in Nat /\ faults' >= faults /\ (Fault => faults' > 0)
    BY <1>1, <1>4 DEF Fault
  <1>6. CASE \E id \in tiers : order' = OrderTakes(o, "book", Booked(schedules[id], order[o].amount))
    <2>1. PICK id \in tiers : order' = OrderTakes(o, "book", Booked(schedules[id], order[o].amount))
      BY <1>6
    <2>2. schedules[id] \in Rows
      BY <1>1, <1>3, OneTier
    <2>3. /\ Booked(schedules[id], order[o].amount) = Charge(schedules[id], order[o].amount)
          /\ Booked(schedules[id], order[o].amount) \in Int
      BY <1>3, <2>2, FeesOfRows
    <2>4. o \notin stale => Booked(schedules[id], order[o].amount) = order[o].quote
      BY <1>3, <2>3 DEF IsQuoteNow
    <2> QED BY <1>2, <1>5, <2>1, <2>3, <2>4, OrderGoesOn
  <1>7. CASE order' = OrderMovesTo(o, "free") /\ (tiers = {} \/ Fault)
    <2>1. o \notin stale => order[o].quote = NoFee \/ faults' > 0
      BY <1>3, <1>5, <1>7 DEF IsQuoteNow
    <2> QED BY <1>2, <1>3, <1>5, <1>7, <2>1, OrderGoesOn
  <1> QED BY <1>4, <1>6, <1>7

LEMMA CreateEntry_Inv ==
    ASSUME FeesInv, NEW o \in Orders, CreateEntry(o)
    PROVE  FeesInv'
  <1>1. FeesTypeOK /\ faults \in Nat
    BY DEF FeesInv, FeesTypeOK
  <1>2. order[o].stage = "book" /\ UNCHANGED <<schedules, patch, stale>>
    BY DEF CreateEntry
  <1>3. order[o].fee \in Int /\ (o \notin stale => order[o].fee = order[o].quote)
    <2>1. o \notin stale => order[o].fee = order[o].quote
      BY <1>2 DEF FeesInv, QuotesStand
    <2>2. 0 \in Int /\ "free" \in {"placed", "book", "booked", "free"}
      OBVIOUS
    <2> QED BY <1>1, <2>1, <2>2, OrdersUnderWay
  <1>4. \/ order' = OrderMovesTo(o, "booked") /\ faults' = faults
        \/ order' = OrderTakes(o, "placed", NoFee) /\ Fault
    BY DEF CreateEntry, OrderTakes, OrderMovesTo
  <1>5. faults' \in Nat /\ faults' >= faults
    BY <1>1, <1>4 DEF Fault
  <1>6. NoFee \in Int
    BY DEF NoFee
  <1>7. CASE order' = OrderMovesTo(o, "booked")
    BY <1>2, <1>3, <1>5, <1>7, OrderGoesOn
  <1>8. CASE order' = OrderTakes(o, "placed", NoFee)
    BY <1>2, <1>5, <1>6, <1>8, OrderGoesOn
  <1> QED BY <1>4, <1>7, <1>8

\* A patch moves and writes nothing.
LEMMA PatchMoves ==
    ASSUME FeesInv, NEW p \in Patches, NEW r \in PatchRecord,
           patch' = [patch EXCEPT ![p] = r], r.stage # "done", patch[p].stage # "done",
           SameBounds(r.read, Schedules[r.id]),
           UNCHANGED <<schedules, order, stale>>, faults' \in Nat, faults' >= faults
    PROVE  FeesInv'
  <1>1. patch \in [Patches -> {NoPatch} \cup PatchRecord] /\ faults \in Nat
    BY FeesTypes DEF FeesInv, FeesTyped
  <1>2. /\ patch' \in [Patches -> {NoPatch} \cup PatchRecord] /\ patch'[p] = r
        /\ \A q \in Patches : q # p => patch'[q] = patch[q]
    <2> HIDE DEF PatchRecord
    <2> QED BY <1>1
  <1>3. FeesTypeOK'
    BY <1>2, FeesTypes DEF FeesInv, FeesTyped
  <1>4. BoundsStay'
    <2>1. ASSUME NEW q \in Patches, patch'[q] # NoPatch
          PROVE  SameBounds(patch'[q].read, Schedules[patch'[q].id])
      BY <1>2, <2>1 DEF FeesInv, BoundsStay
    <2> QED BY <2>1 DEF FeesInv, BoundsStay
  <1>5. QuotesStand'
    BY <1>1 DEF FeesInv, QuotesStand, IsQuoteNow, FindTier
  <1>6. LastPatchStands'
    <2> SUFFICES ASSUME NEW id \in DOMAIN schedules, NEW q \in Patches, patch'[q].stage = "done", patch'[q].id = id
                 PROVE  \E s \in Patches : /\ patch'[s].stage = "done" /\ patch'[s].id = id
                                           /\ \A field \in DOMAIN patch'[s].asked :
                                                 schedules[id][field] = patch'[s].asked[field]
      BY DEF LastPatchStands
    <2>1. patch[q].stage = "done" /\ patch[q].id = id
      BY <1>2
    <2>2. PICK s \in Patches : /\ patch[s].stage = "done" /\ patch[s].id = id
                               /\ \A field \in DOMAIN patch[s].asked :
                                     schedules[id][field] = patch[s].asked[field]
      BY <2>1 DEF FeesInv, LastPatchStands
    <2>3. patch'[s] = patch[s]
      BY <1>2, <2>2
    <2> QED BY <2>2, <2>3
  <1> QED BY <1>3, <1>4, <1>5, <1>6 DEF FeesInv

LEMMA updateSchedule_Inv ==
    ASSUME FeesInv, NEW p \in Patches, updateSchedule(p)
    PROVE  FeesInv'
  <1>1. PICK id \in DOMAIN schedules, asked \in Changes :
           patch' = [patch EXCEPT ![p] =
                       [stage |-> "write", id |-> id, asked |-> asked, read |-> schedules[id]]]
    BY DEF updateSchedule
  <1> DEFINE r == [stage |-> "write", id |-> id, asked |-> asked, read |-> schedules[id]]
  <1>2. id \in DOMAIN Schedules /\ schedules[id] \in Rows /\ faults \in Nat
    BY DEF FeesInv, FeesTypeOK
  <1>3. r \in PatchRecord /\ r.stage = "write" /\ r.read = schedules[id] /\ r.id = id
    BY <1>2 DEF PatchRecord
  <1>4. patch' = [patch EXCEPT ![p] = r]
    BY <1>1
  <1> HIDE DEF r
  <1>5. SameBounds(r.read, Schedules[r.id])
    BY <1>2, <1>3 DEF FeesInv, BoundsStay
  <1>6. patch[p].stage = "idle" /\ UNCHANGED <<faults, schedules, order, stale>>
    BY DEF updateSchedule, NoPatch
  <1>7. faults' \in Nat /\ faults' >= faults /\ patch[p].stage # "done" /\ r.stage # "done"
    BY <1>2, <1>3, <1>6
  <1> QED BY <1>3, <1>4, <1>5, <1>6, <1>7, PatchMoves

LEMMA UpdateRow_Inv ==
    ASSUME FeesInv, NEW p \in Patches, UpdateRow(p)
    PROVE  FeesInv'
  <1>1. /\ patch \in [Patches -> {NoPatch} \cup PatchRecord] /\ faults \in Nat
        /\ schedules \in [DOMAIN Schedules -> Rows] /\ order \in [Orders -> OrderRecord] /\ stale \subseteq Orders
    BY FeesTypes DEF FeesInv, FeesTyped
  <1>2. patch[p].stage = "write" /\ order' = order
    BY DEF UpdateRow
  <1>3. patch[p] # NoPatch /\ patch[p] \in PatchRecord
    BY <1>1, <1>2 DEF NoPatch
  <1>4. PICK id \in DOMAIN Schedules, asked \in Changes, read \in Rows :
           patch[p] = [stage |-> "write", id |-> id, asked |-> asked, read |-> read]
    BY <1>2, <1>3 DEF PatchRecord
  <1>5. patch[p].id = id /\ patch[p].asked = asked /\ patch[p].read = read /\ SameBounds(read, Schedules[id])
    BY <1>3, <1>4 DEF FeesInv, BoundsStay
  <1>6. \A stage : [patch EXCEPT ![p].stage = stage]
                     = [patch EXCEPT ![p] = [stage |-> stage, id |-> id, asked |-> asked, read |-> read]]
    <2> TAKE stage
    <2>1. [patch EXCEPT ![p].stage = stage] = [patch EXCEPT ![p] = [patch[p] EXCEPT !.stage = stage]]
      BY Zenon
    <2>2. [patch[p] EXCEPT !.stage = stage] = [stage |-> stage, id |-> id, asked |-> asked, read |-> read]
      BY <1>4
    <2> QED BY <2>1, <2>2
  <1>7. CASE patch' = [patch EXCEPT ![p].stage = "failed"] /\ Fault /\ UNCHANGED <<schedules, stale>>
    <2> DEFINE r == [stage |-> "failed", id |-> id, asked |-> asked, read |-> read]
    <2>1. r \in PatchRecord /\ r.stage = "failed" /\ r.read = read /\ r.id = id
      BY DEF PatchRecord
    <2>2. patch' = [patch EXCEPT ![p] = r]
      BY <1>6, <1>7
    <2> HIDE DEF r
    <2>3. faults' \in Nat /\ faults' >= faults
      BY <1>1, <1>7 DEF Fault
    <2> QED BY <1>2, <1>5, <1>7, <2>1, <2>2, <2>3, PatchMoves
  <1>8. CASE /\ schedules' = [schedules EXCEPT ![patch[p].id] = Patched(patch[p].asked, patch[p].read)]
             /\ stale' = stale \cup {o \in Orders : order[o].stage \in {"placed", "book"}}
             /\ patch' = [patch EXCEPT ![p].stage = "done"]
             /\ UNCHANGED faults
    <2> DEFINE r == [stage |-> "done", id |-> id, asked |-> asked, read |-> read]
               new == Patched(asked, read)
    <2>1. r \in PatchRecord /\ r.stage = "done" /\ r.read = read /\ r.id = id /\ r.asked = asked
      BY DEF PatchRecord
    <2>2. patch' = [patch EXCEPT ![p] = r]
      BY <1>6, <1>8
    <2>3. /\ new \in Rows /\ SameBounds(new, read)
          /\ \A field \in DOMAIN asked : new[field] = asked[field]
      BY PatchedRow
    <2>4. schedules' = [schedules EXCEPT ![id] = new]
      BY <1>5, <1>8
    <2> HIDE DEF r, new
    <2>5. /\ patch' \in [Patches -> {NoPatch} \cup PatchRecord] /\ patch'[p] = r
          /\ \A q \in Patches : q # p => patch'[q] = patch[q]
      <3> HIDE DEF PatchRecord
      <3> QED BY <1>1, <2>1, <2>2
    <2>6. /\ schedules' \in [DOMAIN Schedules -> Rows] /\ schedules'[id] = new
          /\ \A other \in DOMAIN Schedules : other # id => schedules'[other] = schedules[other]
      <3> HIDE DEF Rows
      <3> QED BY <1>1, <2>3, <2>4
    <2>7. stale' \subseteq Orders
      BY <1>1, <1>8
    <2>8. FeesTypeOK'
      BY <1>1, <1>2, <1>8, <2>5, <2>6, <2>7, FeesTypes DEF FeesTyped
    <2>9. BoundsStay'
      <3>1. SameBounds(new, Schedules[id])
        BY <1>5, <2>3 DEF SameBounds
      <3>2. \A other \in DOMAIN Schedules : SameBounds(schedules'[other], Schedules[other])
        BY <2>6, <3>1 DEF FeesInv, BoundsStay
      <3>3. ASSUME NEW q \in Patches, patch'[q] # NoPatch
            PROVE  SameBounds(patch'[q].read, Schedules[patch'[q].id])
        BY <1>5, <2>1, <2>5, <3>3 DEF FeesInv, BoundsStay
      <3> QED BY <3>2, <3>3 DEF BoundsStay
    <2>10. QuotesStand'
      <3> SUFFICES ASSUME NEW o \in Orders
                   PROVE  /\ order[o].stage # "idle" => order[o].amount \in AskedAmounts
                          /\ o \notin stale' =>
                               /\ order[o].stage \notin {"placed", "book"}
                               /\ order[o].stage \in {"book", "booked"} => order[o].fee = order[o].quote
                               /\ order[o].stage = "free" => order[o].quote = NoFee \/ faults > 0
        BY <1>2, <1>8 DEF QuotesStand
      <3> QED BY <1>8 DEF FeesInv, QuotesStand
    <2>11. LastPatchStands'
      <3> SUFFICES ASSUME NEW other \in DOMAIN schedules', NEW q \in Patches,
                          patch'[q].stage = "done", patch'[q].id = other
                   PROVE  \E s \in Patches : /\ patch'[s].stage = "done" /\ patch'[s].id = other
                                             /\ \A field \in DOMAIN patch'[s].asked :
                                                   schedules'[other][field] = patch'[s].asked[field]
        BY DEF LastPatchStands
      <3>1. CASE other = id
        BY <2>1, <2>3, <2>5, <2>6, <3>1
      <3>2. CASE other # id
        <4>1. patch[q].stage = "done" /\ patch[q].id = other /\ other \in DOMAIN schedules
          BY <1>1, <2>1, <2>5, <2>6, <3>2
        <4>2. PICK s \in Patches : /\ patch[s].stage = "done" /\ patch[s].id = other
                                   /\ \A field \in DOMAIN patch[s].asked :
                                         schedules[other][field] = patch[s].asked[field]
          BY <4>1 DEF FeesInv, LastPatchStands
        <4>3. patch'[s] = patch[s] /\ schedules'[other] = schedules[other]
          BY <1>2, <2>5, <2>6, <3>2, <4>2
        <4> QED BY <4>2, <4>3
      <3> QED BY <3>1, <3>2
    <2> QED BY <2>8, <2>9, <2>10, <2>11 DEF FeesInv
  <1> QED BY <1>7, <1>8 DEF UpdateRow

LEMMA FeesNext_Inv ==
    ASSUME FeesInv, [FeesNext]_<<faults, feeVars>>
    PROVE  FeesInv'
  <1>1. CASE UNCHANGED <<faults, feeVars>>
    BY <1>1 DEF feeVars, FeesInv, FeesTypeOK, BoundsStay, QuotesStand, IsQuoteNow, FindTier, LastPatchStands
  <1> QED BY <1>1, calculate_Inv, bookFee_Inv, CreateEntry_Inv, updateSchedule_Inv, UpdateRow_Inv DEF FeesNext

\* The inductive invariant of the fees, from the specification alone: the quote of an
\* order under way is what the tiers say now, and the last patch of a tier stands.
THEOREM FeesInvariant == FeesSpec => []FeesInv
  <1>1. FeesInit /\ faults = 0 => FeesInv
    BY FeesInit_Inv
  <1>2. FeesInv /\ [FeesNext]_<<faults, feeVars>> => FeesInv'
    BY FeesNext_Inv
  <1> QED BY <1>1, <1>2, PTL DEF FeesSpec

LEMMA FeesInv_Implies ==
    ASSUME FeesInv
    PROVE  FeesFollowTheSchedule
  BY DEF FeesInv, QuotesStand, LastPatchStands, FeesFollowTheSchedule

\* An order is booked at the fee it was quoted while no schedule changes under it, and
\* of patches that race the last one stands; see Fees.
THEOREM FeesFollow == FeesSpec => []FeesFollowTheSchedule
  <1>1. FeesInv => FeesFollowTheSchedule
    BY FeesInv_Implies
  <1> QED BY <1>1, FeesInvariant, PTL

-----------------------------------------------------------------------------
(* The audit trail, page by page *)

\* The entries a reading selects, and those of them that come before one.
Selected == Matching(entries, reading.entity)
Newer(r) == {q \in Selected : q.occurred_at > r.occurred_at}

\* No other entry has its time.
IsAlone(r) == \A q \in entries \ {r} : q.occurred_at # r.occurred_at

\* An entry that was there and has not been seen comes on a page that is still to be
\* read; at the end there is none.
UnseenComeLater ==
    \A r \in reading.there \ reading.seen :
       IsAlone(r) => /\ reading.stage = "page" => Cardinality(Newer(r)) >= reading.offset
                     /\ reading.stage # "done"

\* The inductive invariant of the trail.
TrailInv == TrailTypeOK /\ UnseenComeLater

LEMMA TrailTypes ==
    ASSUME TrailTypeOK
    PROVE  /\ IsFiniteSet(entries) /\ Selected \subseteq entries /\ IsFiniteSet(Selected)
           /\ \A r \in entries : r.occurred_at \in Nat
           /\ reading.offset \in Nat /\ reading.there \subseteq Selected /\ reading.seen \subseteq Selected
           /\ \A r : IsFiniteSet(Newer(r)) /\ Cardinality(Newer(r)) \in Nat
  <1>1. IsFiniteSet(entries) /\ Selected \subseteq entries
    BY DEF TrailTypeOK, Selected, Matching
  <1>2. IsFiniteSet(Selected)
    BY <1>1, FS_Subset
  <1>3. \A r \in entries : r.occurred_at \in Nat
    <2>1. \A e \in DOMAIN Events : Entry(e).occurred_at \in Nat
      BY TrailAssumption DEF Entry
    <2> QED BY <2>1 DEF TrailTypeOK
  <1>4. reading.offset \in Nat /\ reading.there \subseteq Selected /\ reading.seen \subseteq Selected
    BY DEF TrailTypeOK, Selected
  <1>5. \A r : Newer(r) \subseteq Selected
    BY DEF Newer
  <1>6. \A r : IsFiniteSet(Newer(r)) /\ Cardinality(Newer(r)) \in Nat
    BY <1>2, <1>5, FS_Subset, FS_CardinalityType
  <1> QED BY <1>1, <1>2, <1>3, <1>4, <1>6

\* In listed sorted by time an entry that is alone with its time comes after as many
\* as are newer.
LEMMA PlaceInList ==
    ASSUME TrailTypeOK, NEW listed \in List(reading.entity), NEW r \in Selected, IsAlone(r)
    PROVE  \E p \in 1..Cardinality(Selected) : listed[p] = r /\ Cardinality(Newer(r)) = p - 1
  <1> DEFINE n == Cardinality(Selected)
  <1>1. /\ n \in Nat /\ listed \in [1..n -> Selected]
        /\ \A i, j \in 1..n : i # j => listed[i] # listed[j]
        /\ \A i, j \in 1..n : i < j => listed[i].occurred_at >= listed[j].occurred_at
    <2>1. n \in Nat
      BY TrailTypes, FS_CardinalityType
    <2>2. listed \in SetToSeqs(Selected) /\ \A i, j \in DOMAIN listed : i < j => listed[i].occurred_at >= listed[j].occurred_at
      BY DEF List, Selected
    <2>3. listed \in [1..n -> Selected] /\ \A i, j \in 1..n : i # j => listed[i] # listed[j]
      BY <2>2 DEF SetToSeqs
    <2> QED BY <2>1, <2>2, <2>3
  <1> HIDE DEF n
  <1>2. listed \in Surjection(1..n, Selected)
    <2>1. listed \in Injection(1..n, Selected)
      BY <1>1 DEF Injection, IsInjective
    <2>2. Cardinality(1..n) = n
      BY <1>1, FS_Interval
    <2> QED BY <2>1, <2>2, TrailTypes, FS_Injection DEF n
  <1>3. PICK p \in 1..n : listed[p] = r
    BY <1>2 DEF Surjection
  <1>4. \A i \in 1..n : listed[i] \in Selected /\ listed[i].occurred_at \in Nat /\ r.occurred_at \in Nat
    BY <1>1, TrailTypes
  <1>5. \A i \in 1..n : listed[i].occurred_at > r.occurred_at <=> i < p
    <2> SUFFICES ASSUME NEW i \in 1..n PROVE listed[i].occurred_at > r.occurred_at <=> i < p
      OBVIOUS
    <2>1. CASE i < p
      <3>1. listed[i].occurred_at >= r.occurred_at
        BY <1>1, <1>3, <2>1
      <3>2. listed[i] # r /\ listed[i] \in entries
        BY <1>1, <1>3, <1>4, <2>1, TrailTypes
      <3>3. listed[i].occurred_at # r.occurred_at
        BY <3>2 DEF IsAlone
      <3> QED BY <1>4, <2>1, <3>1, <3>3
    <2>2. CASE i = p
      BY <1>3, <1>4, <2>2
    <2>3. CASE i > p
      <3>1. r.occurred_at >= listed[i].occurred_at
        BY <1>1, <1>3, <2>3
      <3> QED BY <1>1, <1>4, <2>3, <3>1
    <2> QED BY <1>1, <2>1, <2>2, <2>3
  <1>6. Newer(r) = {listed[i] : i \in 1..(p - 1)}
    <2>1. \A q \in Selected : \E i \in 1..n : q = listed[i]
      BY <1>2 DEF Surjection
    <2>2. 1..(p - 1) \subseteq 1..n /\ \A i \in 1..n : i < p <=> i \in 1..(p - 1)
      BY <1>1
    <2> QED BY <1>4, <1>5, <2>1, <2>2 DEF Newer
  <1>7. Cardinality(Newer(r)) = p - 1
    <2> DEFINE f == [i \in 1..(p - 1) |-> listed[i]]
    <2>1. 1..(p - 1) \subseteq 1..n
      BY <1>1
    <2>2. f \in Bijection(1..(p - 1), Newer(r))
      <3>1. f \in [1..(p - 1) -> Newer(r)]
        BY <1>6
      <3>2. \A i, j \in 1..(p - 1) : f[i] = f[j] => i = j
        BY <1>1, <2>1
      <3>3. \A q \in Newer(r) : \E i \in 1..(p - 1) : f[i] = q
        BY <1>6
      <3> HIDE DEF f
      <3> QED BY <3>1, <3>2, <3>3 DEF Bijection, Injection, Surjection, IsInjective
    <2>3. ExistsBijection(1..(p - 1), Newer(r)) /\ p - 1 \in Nat
      BY <2>2 DEF ExistsBijection
    <2> QED BY <2>3, FS_CountingElements
  <1> QED BY <1>3, <1>7 DEF n

LEMMA TrailInit_Inv == TrailInit => TrailInv
  BY FS_EmptySet DEF TrailInit, TrailInv, TrailTypeOK, UnseenComeLater, NoReading, Matching

LEMMA Insert_Inv ==
    ASSUME TrailInv, NEW e \in DOMAIN Events, Insert(e)
    PROVE  TrailInv'
  <1>1. TrailTypeOK /\ entries' = entries \cup {Entry(e)} /\ reading' = reading
    BY DEF TrailInv, Insert
  <1>2. IsFiniteSet(entries') /\ entries \subseteq entries'
    BY <1>1, FS_AddElement, TrailTypes
  <1>3. Matching(entries, reading.entity) \subseteq Matching(entries', reading.entity)
    BY <1>2 DEF Matching
  <1>4. TrailTypeOK'
    BY <1>1, <1>2, <1>3 DEF TrailTypeOK
  <1>5. ASSUME NEW r \in reading.there \ reading.seen, IsAlone(r)'
        PROVE  /\ reading.stage = "page" => Cardinality(Newer(r)') >= reading.offset
               /\ reading.stage # "done"
    <2>1. IsAlone(r)
      BY <1>2, <1>5 DEF IsAlone
    <2>2. Newer(r) \subseteq Newer(r)'
      BY <1>1, <1>3 DEF Newer, Selected
    <2>3. IsFiniteSet(Newer(r)') /\ Cardinality(Newer(r)') \in Nat
      <3>1. IsFiniteSet(Matching(entries', reading.entity))
        <4>1. Matching(entries', reading.entity) \subseteq entries'
          BY DEF Matching
        <4> QED BY <1>2, <4>1, FS_Subset
      <3>2. Newer(r)' \subseteq Matching(entries', reading.entity)
        BY <1>1 DEF Newer, Selected
      <3> QED BY <3>1, <3>2, FS_Subset, FS_CardinalityType
    <2>4. Cardinality(Newer(r)) <= Cardinality(Newer(r)')
      BY <2>2, <2>3, FS_Subset
    <2>5. Cardinality(Newer(r)) \in Nat /\ reading.offset \in Nat
      BY <1>1, TrailTypes
    <2>6. /\ reading.stage = "page" => Cardinality(Newer(r)) >= reading.offset
          /\ reading.stage # "done"
      BY <2>1 DEF TrailInv, UnseenComeLater
    <2> QED BY <2>3, <2>4, <2>5, <2>6
  <1>6. UnseenComeLater'
    BY <1>1, <1>5 DEF UnseenComeLater
  <1> QED BY <1>4, <1>6 DEF TrailInv

\* How many are newer is a number, before a step and after it.
LEMMA NewerCounts == TrailTypeOK' => \A r : Cardinality(Newer(r)') \in Nat
  <1> SUFFICES ASSUME TrailTypeOK' PROVE \A r : Cardinality(Newer(r)') \in Nat
    OBVIOUS
  <1>1. IsFiniteSet(entries') /\ \A r : Newer(r)' \subseteq entries'
    BY DEF TrailTypeOK, Newer, Selected, Matching
  <1> QED BY <1>1, FS_Subset, FS_CardinalityType

LEMMA listLogs_Inv ==
    ASSUME TrailInv, listLogs
    PROVE  TrailInv'
  <1>1. TrailTypeOK /\ entries' = entries /\ reading = NoReading
    BY DEF TrailInv, listLogs
  <1>2. PICK entity \in {"any"} \cup {Events[e].order_id : e \in DOMAIN Events} :
           reading' = [stage |-> "page", entity |-> entity, offset |-> 0,
                       there |-> Matching(entries, entity), seen |-> {}]
    <2>1. PICK entity \in {"any"} \cup {Events[e].order_id : e \in DOMAIN Events} :
             reading' = [reading EXCEPT !.stage = "page", !.entity = entity,
                                        !.there = Matching(entries, entity)]
      BY DEF listLogs
    <2>2. reading = [stage |-> "idle", entity |-> "any", offset |-> 0, there |-> {}, seen |-> {}]
      BY <1>1 DEF NoReading
    <2>3. reading' = [stage |-> "page", entity |-> entity, offset |-> 0,
                      there |-> Matching(entries, entity), seen |-> {}]
      BY <2>1, <2>2
    <2> QED BY <2>3
  <1>3. /\ reading'.stage = "page" /\ reading'.entity = entity /\ reading'.offset = 0
        /\ reading'.there = Matching(entries, entity) /\ reading'.seen = {}
    BY <1>2
  <1>4. TrailTypeOK'
    BY <1>1, <1>2, <1>3 DEF TrailTypeOK
  <1> QED BY <1>3, <1>4, NewerCounts DEF TrailInv, UnseenComeLater

LEMMA nextPage_Inv ==
    ASSUME TrailInv, nextPage
    PROVE  TrailInv'
  <1>1. TrailTypeOK /\ entries' = entries /\ reading.stage = "page"
    BY DEF TrailInv, nextPage
  <1>2. PICK entity, offset, there, seen :
           /\ reading = [stage |-> "page", entity |-> entity, offset |-> offset, there |-> there, seen |-> seen]
           /\ entity \in {"any"} \cup {Events[e].order_id : e \in DOMAIN Events} /\ offset \in Nat
           /\ there \subseteq Selected /\ seen \subseteq Selected
    BY <1>1 DEF TrailTypeOK, Selected
  <1>3. reading.entity = entity /\ reading.offset = offset /\ reading.there = there /\ reading.seen = seen
    BY <1>2
  <1>4. ASSUME NEW stage \in {"page", "done", "failed"}, NEW o \in Nat, NEW s, s \subseteq Selected, seen \subseteq s,
               reading' = [stage |-> stage, entity |-> entity, offset |-> o, there |-> there, seen |-> s],
               \A r \in there \ s : IsAlone(r) => /\ stage = "page" => Cardinality(Newer(r)) >= o
                                                  /\ stage # "done"
        PROVE  TrailInv'
    <2>1. /\ reading'.stage = stage /\ reading'.entity = entity /\ reading'.offset = o
          /\ reading'.there = there /\ reading'.seen = s
      BY <1>4
    <2>2. Selected' = Selected
      BY <1>1, <1>3, <2>1 DEF Selected
    <2>3. TrailTypeOK'
      BY <1>1, <1>2, <1>3, <1>4, <2>1 DEF TrailTypeOK, Selected
    <2>4. \A r : Newer(r)' = Newer(r) /\ (IsAlone(r)' <=> IsAlone(r))
      BY <1>1, <2>2 DEF Newer, IsAlone
    <2>5. UnseenComeLater'
      BY <1>4, <2>1, <2>4 DEF UnseenComeLater
    <2> QED BY <2>3, <2>5 DEF TrailInv
  <1>5. CASE reading' = [reading EXCEPT !.stage = "failed"] /\ Fault
    <2>1. reading' = [stage |-> "failed", entity |-> entity, offset |-> offset, there |-> there, seen |-> seen]
      BY <1>2, <1>5
    <2> QED BY <1>2, <1>4, <2>1
  <1>6. CASE ~ (reading' = [reading EXCEPT !.stage = "failed"] /\ Fault)
    <2>1. PICK listed \in List(entity) :
             LET page == {listed[i] : i \in DOMAIN listed \cap (offset + 1)..(offset + PageSize)}
             IN  reading' = [reading EXCEPT
                    !.seen = @ \cup page, !.offset = @ + PageSize,
                    !.stage = IF Cardinality(page) < PageSize THEN "done" ELSE "page"]
      BY <1>1, <1>3, <1>6 DEF nextPage
    <2> DEFINE n == Cardinality(Selected)
               page == {listed[i] : i \in DOMAIN listed \cap (offset + 1)..(offset + PageSize)}
               stage == IF Cardinality(page) < PageSize THEN "done" ELSE "page"
    <2>2. /\ n \in Nat /\ listed \in [1..n -> Selected]
          /\ \A i, j \in 1..n : i # j => listed[i] # listed[j]
      <3>1. n \in Nat
        BY <1>1, TrailTypes, FS_CardinalityType
      <3>2. listed \in SetToSeqs(Selected)
        BY <1>3 DEF List, Selected
      <3> QED BY <3>1, <3>2 DEF SetToSeqs
    <2>3. page = {listed[i] : i \in 1..n \cap (offset + 1)..(offset + PageSize)} /\ page \subseteq Selected
      BY <2>2
    <2>4. PageSize \in Nat /\ PageSize > 0
      BY TrailAssumption
    <2>5. reading' = [stage |-> stage, entity |-> entity, offset |-> offset + PageSize, there |-> there,
                      seen |-> seen \cup page]
      <3> HIDE DEF page, stage
      <3>1. reading' = [reading EXCEPT !.seen = @ \cup page, !.offset = @ + PageSize, !.stage = stage]
        BY <2>1 DEF page, stage
      <3> QED BY <1>2, <3>1
    <2>6. stage \in {"page", "done"} /\ (stage = "done" <=> Cardinality(page) < PageSize)
      OBVIOUS
    <2> HIDE DEF page, stage, n
    <2>7. ASSUME NEW r \in there \ (seen \cup page), IsAlone(r)
          PROVE  /\ stage = "page" => Cardinality(Newer(r)) >= offset + PageSize
                 /\ stage # "done"
      <3>1. r \in Selected /\ Cardinality(Newer(r)) >= offset
        BY <1>1, <1>2, <1>3, <2>7 DEF TrailInv, UnseenComeLater
      <3>2. PICK p \in 1..n : listed[p] = r /\ Cardinality(Newer(r)) = p - 1
        BY <1>1, <1>3, <2>7, <3>1, PlaceInList DEF n
      <3>3. p \in Int /\ p >= offset + 1
        BY <1>2, <2>2, <3>1, <3>2
      <3>4. p > offset + PageSize
        <4>1. p \notin (offset + 1)..(offset + PageSize)
          BY <2>3, <2>7, <3>2
        <4> QED BY <1>2, <2>4, <3>3, <4>1
      <3>5. (offset + 1)..(offset + PageSize) \subseteq 1..n
        BY <1>2, <2>2, <2>4, <3>4
      <3>6. Cardinality(page) = PageSize
        <4> DEFINE f == [k \in 1..PageSize |-> listed[offset + k]]
        <4>1. \A k \in 1..PageSize : offset + k \in 1..n /\ offset + k \in (offset + 1)..(offset + PageSize)
          BY <1>2, <2>4, <3>5
        <4>2. \A i \in 1..n \cap (offset + 1)..(offset + PageSize) : i - offset \in 1..PageSize /\ i = offset + (i - offset)
          BY <1>2, <2>2, <2>4
        <4>3. f \in [1..PageSize -> page]
          BY <2>3, <4>1
        <4>4. \A k, l \in 1..PageSize : f[k] = f[l] => k = l
          BY <1>2, <2>2, <2>4, <4>1
        <4>5. \A q \in page : \E k \in 1..PageSize : f[k] = q
          BY <2>3, <4>2
        <4> HIDE DEF f
        <4>6. f \in Bijection(1..PageSize, page)
          BY <4>3, <4>4, <4>5 DEF Bijection, Injection, Surjection, IsInjective
        <4>7. ExistsBijection(1..PageSize, page)
          BY <4>6 DEF ExistsBijection
        <4> QED BY <2>4, <4>7, FS_CountingElements
      <3> QED BY <1>2, <2>4, <2>6, <3>2, <3>4, <3>6
    <2>8. offset + PageSize \in Nat /\ seen \cup page \subseteq Selected /\ seen \subseteq seen \cup page
      BY <1>2, <2>3, <2>4
    <2> QED BY <1>4, <2>5, <2>6, <2>7, <2>8
  <1> QED BY <1>5, <1>6

LEMMA TrailNext_Inv ==
    ASSUME TrailInv, [TrailNext]_<<faults, trailVars>>
    PROVE  TrailInv'
  <1>1. CASE UNCHANGED <<faults, trailVars>>
    BY <1>1 DEF trailVars, TrailInv, TrailTypeOK, UnseenComeLater, IsAlone, Newer, Selected
  <1> QED BY <1>1, Insert_Inv, listLogs_Inv, nextPage_Inv DEF TrailNext

\* The inductive invariant of the trail, from its specification alone: an entry that is
\* still to be seen never slips to a page that was read.
THEOREM TrailInvariant == TrailSpec => []TrailInv
  <1>1. TrailInit => TrailInv
    BY TrailInit_Inv
  <1>2. TrailInv /\ [TrailNext]_<<faults, trailVars>> => TrailInv'
    BY TrailNext_Inv
  <1> QED BY <1>1, <1>2, PTL DEF TrailSpec

LEMMA TrailInv_Implies ==
    ASSUME TrailInv
    PROVE  PagesMissNothing
  BY TrailTypes DEF TrailInv, UnseenComeLater, IsAlone, PagesMissNothing

\* Who reads to the last page misses no entry that was there from the beginning, but for
\* entries of the same time; see AuditTrail.
THEOREM PagesMiss == TrailSpec => []PagesMissNothing
  <1>1. TrailInv => PagesMissNothing
    BY TrailInv_Implies
  <1> QED BY <1>1, TrailInvariant, PTL
=============================================================================
