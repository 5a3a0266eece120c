------------------------- MODULE MCServices_proofs -------------------------
(***************************************************************************)
(* Proofs about the services together, each in behaviours of its own: what *)
(* BusServices_proofs and OwnServices_proofs show of every service alone   *)
(* holds of the specification that is model-checked, for every value of    *)
(* its constants.                                                          *)
(***************************************************************************)
EXTENDS MCServices, BusServices_proofs, OwnServices_proofs

BookServices == {"treasury", "wallet", "reporting", "audit", "fee"}

\* The inductive invariant: the service a behaviour is about keeps its own invariant, and
\* the others stay where they began, as do the consumers of those that do not listen.
BusServicesInv ==
    /\ IF service \in BookServices THEN BookInv ELSE BookInit
    /\ IF service = "compliance" THEN ScreenInv ELSE ScreenInit
    /\ IF service = "notification" THEN NoticeInv ELSE NoticeInit

OwnServicesInv ==
    /\ IF service = "httputil" THEN LimiterInv ELSE LimiterInit
    /\ IF service = "price-hub" THEN HubInv ELSE HubInit
    /\ IF service = "price-oracle" THEN FeedInv ELSE FeedInit
    /\ IF service = "por" THEN PorInv ELSE PorInit
    /\ IF service = "kyc" THEN KycInv ELSE KycInit
    /\ IF service = "auth" THEN AuthInv ELSE AuthInit
    /\ IF service = "admin" THEN AdminInv ELSE AdminInit
    /\ IF service = "addresses" THEN WalletInv ELSE WalletInit
    /\ IF service = "fees" THEN FeesInv ELSE FeesInit
    /\ IF service = "audit-trail" THEN TrailInv ELSE TrailInit

ServicesInv ==
    StreamTypeOK /\ Untouched(Durables \ Listening) /\ BusServicesInv /\ OwnServicesInv

-----------------------------------------------------------------------------
(* Where the services begin, and stay *)

\* A service that takes no step is where it was.
LEMMA Resting ==
    /\ BookInit /\ UNCHANGED bookVars => BookInit'
    /\ ScreenInit /\ UNCHANGED <<service, screenVars>> => ScreenInit'
    /\ NoticeInit /\ UNCHANGED noticeVars => NoticeInit'
    /\ LimiterInit /\ UNCHANGED limiterVars => LimiterInit'
    /\ HubInit /\ UNCHANGED hubVars => HubInit'
    /\ FeedInit /\ UNCHANGED feedVars => FeedInit'
    /\ PorInit /\ UNCHANGED porVars => PorInit'
    /\ KycInit /\ UNCHANGED kycVars => KycInit'
    /\ AuthInit /\ UNCHANGED authVars => AuthInit'
    /\ AdminInit /\ UNCHANGED adminVars => AdminInit'
    /\ WalletInit /\ UNCHANGED walletVars => WalletInit'
    /\ FeesInit /\ UNCHANGED feeVars => FeesInit'
    /\ TrailInit /\ UNCHANGED trailVars => TrailInit'
  <1>1. BookInit /\ UNCHANGED bookVars => BookInit'
    BY DEF BookInit, bookVars
  <1>2. ScreenInit /\ UNCHANGED <<service, screenVars>> => ScreenInit'
    BY DEF ScreenInit, screenVars
  <1>3. NoticeInit /\ UNCHANGED noticeVars => NoticeInit'
    BY DEF NoticeInit, noticeVars
  <1>4. LimiterInit /\ UNCHANGED limiterVars => LimiterInit'
    BY DEF LimiterInit, limiterVars
  <1>5. HubInit /\ UNCHANGED hubVars => HubInit'
    BY DEF HubInit, hubVars
  <1>6. FeedInit /\ UNCHANGED feedVars => FeedInit'
    BY DEF FeedInit, feedVars
  <1>7. PorInit /\ UNCHANGED porVars => PorInit'
    BY DEF PorInit, porVars
  <1>8. KycInit /\ UNCHANGED kycVars => KycInit'
    BY DEF KycInit, kycVars
  <1>9. AuthInit /\ UNCHANGED authVars => AuthInit'
    BY DEF AuthInit, authVars, keyVars
  <1>10. AdminInit /\ UNCHANGED adminVars => AdminInit'
    BY DEF AdminInit, adminVars
  <1>11. WalletInit /\ UNCHANGED walletVars => WalletInit'
    BY DEF WalletInit, walletVars
  <1>12. FeesInit /\ UNCHANGED feeVars => FeesInit'
    BY DEF FeesInit, feeVars
  <1>13. TrailInit /\ UNCHANGED trailVars => TrailInit'
    BY DEF TrailInit, trailVars
  <1> QED BY <1>1, <1>2, <1>3, <1>4, <1>5, <1>6, <1>7, <1>8, <1>9, <1>10, <1>11, <1>12, <1>13

\* Which services listen to the bus, and with which consumers.
LEMMA WhoListens ==
    /\ DOMAIN DurablesOf = BookServices \cup {"compliance", "notification"}
    /\ \A d \in Listening :
          /\ d \in BookDurables => service \in BookServices
          /\ d = Consumer => service = "compliance"
          /\ d \in Notifiers => service = "notification"
    /\ Listening # {} => service \in BookServices \cup {"compliance", "notification"}
    /\ service \in BookServices => Listening \subseteq BookDurables
    /\ service = "compliance" => Listening = {Consumer}
    /\ service = "notification" => Listening = Notifiers
    /\ Consumer \in Durables \ BookDurables /\ Notifiers \subseteq Durables \ BookDurables
    /\ Consumer \notin Notifiers /\ BookDurables \subseteq Durables
  BY DEF Listening, DurablesOf, BookServices, BookDurables, Consumer, Notifiers, Durables, FilterSubject

LEMMA ServicesInit_Inv == Init => ServicesInv
  <1> SUFFICES ASSUME Init PROVE ServicesInv
    OBVIOUS
  <1>1. StreamInit /\ StreamTypeOK /\ Untouched(Durables) /\ faults \in Nat
    BY StreamInit_Type, StreamInit_Untouched DEF Init, StreamTypeOK
  <1>2. Untouched(Durables \ Listening) /\ Untouched(BookDurables) /\ Untouched(Notifiers)
    BY <1>1, WhoListens DEF Untouched
  <1>3. BusServicesInv
    BY <1>1, <1>2, BookInit_Inv, ScreenInit_Inv, NoticeInit_Inv DEF Init, BusServicesInv
  <1>4. OwnServicesInv
    BY <1>1, LimiterInit_Inv, HubInit_Inv, FeedInit_Inv, PorInit_Inv, KycInit_Inv, AuthInit_Inv,
       AdminInit_Inv, WalletInit_Inv, FeesInit_Inv, TrailInit_Inv DEF Init, OwnServicesInv
  <1> QED BY <1>1, <1>2, <1>3, <1>4 DEF ServicesInv

-----------------------------------------------------------------------------
(* The services without the bus *)

\* In every step each of these services moves as its specification has it, or rests.
OwnServicesMove ==
    /\ IF service = "httputil" THEN [LimiterNext]_limiterVars ELSE UNCHANGED limiterVars
    /\ IF service = "price-hub" THEN [HubNext]_hubVars ELSE UNCHANGED hubVars
    /\ IF service = "price-oracle" THEN [FeedNext]_<<faults, feedVars>> ELSE UNCHANGED feedVars
    /\ IF service = "por" THEN [PorNext]_<<porVars, faults>> ELSE UNCHANGED porVars
    /\ IF service = "kyc" THEN [KycNext]_<<kycVars, faults>> ELSE UNCHANGED kycVars
    /\ IF service = "auth" THEN [AuthNext]_<<authVars, faults>> ELSE UNCHANGED authVars
    /\ IF service = "admin" THEN [AdminNext]_<<adminVars, faults>> ELSE UNCHANGED adminVars
    /\ IF service = "addresses" THEN [WalletNext]_<<faults, walletVars>> ELSE UNCHANGED walletVars
    /\ IF service = "fees" THEN [FeesNext]_<<faults, feeVars>> ELSE UNCHANGED feeVars
    /\ IF service = "audit-trail" THEN [TrailNext]_<<faults, trailVars>> ELSE UNCHANGED trailVars

LEMMA OwnServicesMoved ==
    ASSUME OwnServicesInv, OwnServicesMove, UNCHANGED service
    PROVE  OwnServicesInv'
  <1>1. IF service = "httputil" THEN LimiterInv' ELSE LimiterInit'
    BY Resting, LimiterNext_Inv DEF OwnServicesInv, OwnServicesMove
  <1>2. IF service = "price-hub" THEN HubInv' ELSE HubInit'
    BY Resting, HubNext_Inv DEF OwnServicesInv, OwnServicesMove
  <1>3. IF service = "price-oracle" THEN FeedInv' ELSE FeedInit'
    BY Resting, FeedNext_Inv DEF OwnServicesInv, OwnServicesMove
  <1>4. IF service = "por" THEN PorInv' ELSE PorInit'
    BY Resting, PorNext_Inv DEF OwnServicesInv, OwnServicesMove
  <1>5. IF service = "kyc" THEN KycInv' ELSE KycInit'
    BY Resting, KycNext_Inv DEF OwnServicesInv, OwnServicesMove
  <1>6. IF service = "auth" THEN AuthInv' ELSE AuthInit'
    BY Resting, AuthNext_Inv DEF OwnServicesInv, OwnServicesMove
  <1>7. IF service = "admin" THEN AdminInv' ELSE AdminInit'
    BY Resting, AdminNext_Inv DEF OwnServicesInv, OwnServicesMove
  <1>8. IF service = "addresses" THEN WalletInv' ELSE WalletInit'
    BY Resting, WalletNext_Inv DEF OwnServicesInv, OwnServicesMove
  <1>9. IF service = "fees" THEN FeesInv' ELSE FeesInit'
    BY Resting, FeesNext_Inv DEF OwnServicesInv, OwnServicesMove
  <1>10. IF service = "audit-trail" THEN TrailInv' ELSE TrailInit'
    BY Resting, TrailNext_Inv DEF OwnServicesInv, OwnServicesMove
  <1> QED BY <1>1, <1>2, <1>3, <1>4, <1>5, <1>6, <1>7, <1>8, <1>9, <1>10 DEF OwnServicesInv

\* The steps without an invariant that counts failures.
LEMMA FaultsStayNatural ==
    ASSUME faults \in Nat, PorNext \/ ReportNext \/ TrailNext
    PROVE  faults' \in Nat
  <1>1. CASE PorNext
    <2>1. ASSUME NEW p \in Posts, attest(p) \/ SendTx(p) \/ recordReceipt(p) \/ ReceiptLost(p)
          PROVE  faults' \in Nat
      BY <2>1, FaultCounts DEF attest, SendTx, recordReceipt, Recorded, ReceiptLost
    <2>2. ASSUME NEW s \in Syncers, Syncing(s)
          PROVE  faults' \in Nat
      BY <2>2, FaultCounts DEF Syncing, runChainSync, syncOnce
    <2>3. CASE Schedule \/ Mine \/ OthersPublish \/ PordDies
      BY <2>3, FaultCounts DEF Schedule, Mine, OthersPublish, PordDies
    <2> QED BY <1>1, <2>1, <2>2, <2>3 DEF PorNext, PorStep
  <1>2. CASE ReportNext
    BY <1>2, FaultCounts DEF ReportNext, generate, Running, runJob, generates, finishes, UpdateStatus, Expire,
       download, ReportingDies
  <1>3. CASE TrailNext
    BY <1>3, FaultCounts DEF TrailNext, Insert, listLogs, nextPage
  <1> QED BY <1>1, <1>2, <1>3

LEMMA OwnStep_Moves ==
    ASSUME OwnStep
    PROVE  /\ OwnServicesMove /\ UNCHANGED <<streamVars, busServices>>
           /\ service \notin BookServices \cup {"compliance", "notification"}
  <1>1. CASE Step("httputil") /\ LimiterNext /\ UNCHANGED <<hubVars, feedVars, porVars, kycVars, authVars, adminVars, walletVars, feeVars, trailVars, reportVars>>
    BY <1>1 DEF Step, OwnServicesMove, BookServices
  <1>2. CASE Step("price-hub") /\ HubNext /\ UNCHANGED <<limiterVars, feedVars, porVars, kycVars, authVars, adminVars, walletVars, feeVars, trailVars, reportVars>>
    BY <1>2 DEF Step, OwnServicesMove, BookServices
  <1>3. CASE Step("price-oracle") /\ FeedNext /\ UNCHANGED <<limiterVars, hubVars, porVars, kycVars, authVars, adminVars, walletVars, feeVars, trailVars, reportVars>>
    BY <1>3 DEF Step, OwnServicesMove, BookServices
  <1>4. CASE Step("por") /\ PorNext /\ UNCHANGED <<limiterVars, hubVars, feedVars, kycVars, authVars, adminVars, walletVars, feeVars, trailVars, reportVars>>
    BY <1>4 DEF Step, OwnServicesMove, BookServices
  <1>5. CASE Step("kyc") /\ KycNext /\ UNCHANGED <<limiterVars, hubVars, feedVars, porVars, authVars, adminVars, walletVars, feeVars, trailVars, reportVars>>
    BY <1>5 DEF Step, OwnServicesMove, BookServices
  <1>6. CASE Step("auth") /\ AuthNext /\ UNCHANGED <<limiterVars, hubVars, feedVars, porVars, kycVars, adminVars, walletVars, feeVars, trailVars, reportVars>>
    BY <1>6 DEF Step, OwnServicesMove, BookServices
  <1>7. CASE Step("admin") /\ AdminNext /\ UNCHANGED <<limiterVars, hubVars, feedVars, porVars, kycVars, authVars, walletVars, feeVars, trailVars, reportVars>>
    BY <1>7 DEF Step, OwnServicesMove, BookServices
  <1>8. CASE Step("addresses") /\ WalletNext /\ UNCHANGED <<limiterVars, hubVars, feedVars, porVars, kycVars, authVars, adminVars, feeVars, trailVars, reportVars>>
    BY <1>8 DEF Step, OwnServicesMove, BookServices
  <1>9. CASE Step("fees") /\ FeesNext /\ UNCHANGED <<limiterVars, hubVars, feedVars, porVars, kycVars, authVars, adminVars, walletVars, trailVars, reportVars>>
    BY <1>9 DEF Step, OwnServicesMove, BookServices
  <1>10. CASE Step("audit-trail") /\ TrailNext /\ UNCHANGED <<limiterVars, hubVars, feedVars, porVars, kycVars, authVars, adminVars, walletVars, feeVars, reportVars>>
    BY <1>10 DEF Step, OwnServicesMove, BookServices
  <1>11. CASE Step("reports") /\ ReportNext /\ UNCHANGED <<limiterVars, hubVars, feedVars, porVars, kycVars, authVars, adminVars, walletVars, feeVars, trailVars>>
    BY <1>11 DEF Step, OwnServicesMove, BookServices
  <1> QED BY <1>1, <1>2, <1>3, <1>4, <1>5, <1>6, <1>7, <1>8, <1>9, <1>10, <1>11 DEF OwnStep

-----------------------------------------------------------------------------
(* The services on the bus *)

\* A handler settles its message or leaves it alone.
Settling == UNCHANGED busVars \/ \E d \in Durables : Ack(d) \/ Nak(d)

\* Only what was delivered is settled.
LEMMA SettlingIsListening ==
    ASSUME StreamTypeOK, Untouched(Durables \ Listening), UNCHANGED service, Settling
    PROVE  Untouched(Durables \ Listening)'
  <1>1. Listening' = Listening
    BY DEF Listening
  <1>2. CASE UNCHANGED busVars
    BY <1>1, <1>2 DEF Untouched, busVars
  <1>3. ASSUME NEW d \in Durables, Ack(d) \/ Nak(d), NEW x \in Durables \ Listening
        PROVE  handling'[x] = handling[x] /\ acked'[x] = acked[x] /\ attempts' = attempts
    <2>1. handling[d] # "none" /\ d # x
      BY <1>3 DEF Ack, Nak, Untouched
    <2>2. /\ handling' = [handling EXCEPT ![d] = "none"] /\ attempts' = attempts
          /\ acked' = acked \/ acked' = [acked EXCEPT ![d] = @ \cup {handling[d]}]
      BY <1>3 DEF Ack, Nak
    <2> QED BY <2>1, <2>2 DEF StreamTypeOK, BusTypeOK
  <1> QED BY <1>1, <1>2, <1>3 DEF Settling, Untouched

\* The bus delivers to who listens.
LEMMA StreamIsListening ==
    ASSUME StreamTypeOK, Untouched(Durables \ Listening), UNCHANGED service, Stream
    PROVE  Untouched(Durables \ Listening)' /\ Listening # {}
  <1>1. Listening' = Listening /\ Listening \subseteq Durables
    BY DEF Listening
  <1>2. CASE \E s \in Subjects, id \in Ids : Published(s, id)
    BY <1>1, <1>2 DEF Published, Untouched, busVars
  <1>3. ASSUME NEW d \in Listening, NEW id \in Ids, Deliver(d, id), NEW x \in Durables \ Listening
        PROVE  handling'[x] = handling[x] /\ acked'[x] = acked[x] /\ attempts'[x] = attempts[x]
    BY <1>1, <1>3 DEF Deliver, StreamTypeOK, BusTypeOK
  <1> QED BY <1>1, <1>2, <1>3 DEF Stream, Untouched

LEMMA BookNext_Settles ==
    ASSUME BookInit \/ service \in BookServices, BookNext
    PROVE  service \in BookServices /\ Settling
  <1>1. ASSUME NEW d \in Listening \cap BookDurables,
               \/ Fails(d) \/ record(d) \/ skip(d)
               \/ handleMintExecuted(d) \/ handleBurnExecuted(d) \/ Create(d)
        PROVE  service \in BookServices /\ Settling
    <2>1. d \in Durables /\ service \in BookServices
      BY WhoListens
    <2>2. UNCHANGED busVars \/ Ack(d) \/ Nak(d)
      BY <1>1 DEF Fails, record, skip, handleMintExecuted, handleBurnExecuted, Create, HandlerFails, Acknowledged
    <2> QED BY <2>1, <2>2 DEF Settling
  <1>2. CASE createSettlement \/ listSettlements
    BY <1>2 DEF createSettlement, listSettlements, BookServices, Settling, streamVars
  <1>3. CASE reconcile
    <2>1. BookInit => recon.stage # "counted"
      BY DEF BookInit, NoRecon
    <2> QED BY <1>3, <2>1 DEF reconcile, Settling, streamVars
  <1> QED BY <1>1, <1>2, <1>3 DEF BookNext

LEMMA ScreenNext_Settles ==
    ASSUME ScreenInit \/ service = "compliance", ScreenNext, Untouched(Durables \ Listening)
    PROVE  service = "compliance" /\ Settling
  <1>1. ScreenInit => \A w \in Screeners : run[w].stage = "idle"
    BY DEF ScreenInit, NoRun
  <1>2. Consumer \in Screeners /\ Consumer \in Durables
    BY WhoListens DEF Screeners
  <1>3. CASE \E c \in Calls : screen(c)
    BY <1>3 DEF screen, Settling, streamVars
  <1>4. CASE handleOrderCreated
    <2>1. Consumer \in Listening
      BY <1>2, <1>4 DEF handleOrderCreated, Untouched
    <2> QED BY <1>4, <2>1, WhoListens DEF handleOrderCreated, Settling, streamVars
  <1>5. ASSUME NEW w \in Screeners, SaveResult(w) \/ SaveResultFails(w) \/ UpsertState(w) \/ ScreenerDies(w)
        PROVE  service = "compliance" /\ Settling
    <2>1. run[w].stage # "idle"
      BY <1>5 DEF SaveResult, SaveResultFails, UpsertState, ScreenerDies
    <2>2. UNCHANGED busVars \/ Ack(Consumer) \/ Nak(Consumer)
      BY <1>5 DEF SaveResult, SaveResultFails, UpsertState, ScreenerDies, GiveUp, HandlerFails, streamVars
    <2> QED BY <1>1, <1>2, <2>1, <2>2 DEF Settling
  <1>6. CASE publishVerdict
    <2>1. run[Consumer].stage # "idle" /\ (Ack(Consumer) \/ Nak(Consumer))
      BY <1>6 DEF publishVerdict, Acknowledged
    <2> QED BY <1>1, <1>2, <2>1 DEF Settling
  <1> QED BY <1>3, <1>4, <1>5, <1>6 DEF ScreenNext

LEMMA NoticeNext_Settles ==
    ASSUME NoticeInit \/ service = "notification", NoticeNext
    PROVE  service = "notification" /\ Settling
  <1>1. ASSUME NEW d \in Listening \cap Notifiers,
               handleEvent(d) \/ sendOnce(d) \/ Send(d) \/ handled(d) \/ NotifierDies(d)
        PROVE  service = "notification" /\ Settling
    <2>1. d \in Durables /\ service = "notification"
      BY WhoListens
    <2>2. UNCHANGED busVars \/ Ack(d) \/ Nak(d)
      BY <1>1 DEF handleEvent, sendOnce, Send, handled, NotifierDies, HandlerFails, Acknowledged
    <2> QED BY <2>1, <2>2 DEF Settling
  <1>2. ASSUME NEW r \in Settings, setPreferences(r)
        PROVE  service = "notification" /\ Settling
    BY <1>2 DEF setPreferences, Settling, streamVars
  <1>3. ASSUME NEW r \in Settings, Upsert(r)
        PROVE  service = "notification" /\ Settling
    <2>1. NoticeInit => setting[r].stage = "idle"
      BY NoticeFields DEF NoticeInit
    <2> QED BY <1>3, <2>1 DEF Upsert, Settling, streamVars
  <1> QED BY <1>1, <1>2, <1>3 DEF NoticeNext, Notifiers

\* In every step each of these services moves as its specification has it, or rests.
BusServicesMove ==
    /\ IF service \in BookServices THEN [BookBusNext]_bookBusVars ELSE UNCHANGED bookVars
    /\ IF service = "compliance" THEN [ScreenBusNext]_screenBusVars ELSE UNCHANGED screenVars
    /\ IF service = "notification" THEN [NoticeBusNext]_noticeBusVars ELSE UNCHANGED noticeVars

LEMMA BusServicesMoved ==
    ASSUME BusServicesInv, BusServicesMove, UNCHANGED service
    PROVE  BusServicesInv'
  <1>1. IF service \in BookServices THEN BookInv' ELSE BookInit'
    BY Resting, BookNext_Inv DEF BusServicesInv, BusServicesMove
  <1>2. IF service = "compliance" THEN ScreenInv' ELSE ScreenInit'
    BY Resting, ScreenNext_Inv DEF BusServicesInv, BusServicesMove
  <1>3. IF service = "notification" THEN NoticeInv' ELSE NoticeInit'
    BY Resting, NoticeNext_Inv DEF BusServicesInv, BusServicesMove
  <1> QED BY <1>1, <1>2, <1>3 DEF BusServicesInv, BookServices

\* A step on the bus is one of the service the behaviour follows.
LEMMA BusStep_Moves ==
    ASSUME ServicesInv, BusStep, UNCHANGED service
    PROVE  /\ BusServicesMove /\ UNCHANGED ownServices
           /\ service \in BookServices \cup {"compliance", "notification"}
           /\ Untouched(Durables \ Listening)'
  <1>1. /\ StreamTypeOK /\ Untouched(Durables \ Listening)
        /\ BookInit \/ service \in BookServices
        /\ ScreenInit \/ service = "compliance"
        /\ NoticeInit \/ service = "notification"
    BY DEF ServicesInv, BusServicesInv
  <1>2. "compliance" \notin BookServices /\ "notification" \notin BookServices /\ UNCHANGED ownServices
    BY DEF BookServices, BusStep
  <1>3. CASE Stream /\ UNCHANGED busServices
    <2>1. Untouched(Durables \ Listening)' /\ service \in BookServices \cup {"compliance", "notification"}
      BY <1>1, <1>3, StreamIsListening, WhoListens
    <2>2. UNCHANGED bookVars /\ UNCHANGED screenVars /\ UNCHANGED noticeVars
      BY <1>3 DEF busServices
    <2>3. BusServicesMove
      BY <1>3, <2>2 DEF BusServicesMove, BookBusNext, ScreenBusNext, NoticeBusNext
    <2> QED BY <1>2, <2>1, <2>3
  <1>4. CASE BookNext /\ UNCHANGED <<screenVars, noticeVars>>
    <2>1. service \in BookServices /\ Settling
      BY <1>1, <1>4, BookNext_Settles
    <2>2. BusServicesMove
      BY <1>2, <1>4, <2>1 DEF BusServicesMove, BookBusNext
    <2> QED BY <1>1, <1>2, <2>1, <2>2, SettlingIsListening
  <1>5. CASE ScreenNext /\ UNCHANGED <<bookVars, noticeVars>>
    <2>1. service = "compliance" /\ Settling
      BY <1>1, <1>5, ScreenNext_Settles
    <2>2. BusServicesMove
      BY <1>2, <1>5, <2>1 DEF BusServicesMove, ScreenBusNext
    <2> QED BY <1>1, <1>2, <2>1, <2>2, SettlingIsListening
  <1>6. CASE NoticeNext /\ UNCHANGED <<bookVars, screenVars>>
    <2>1. service = "notification" /\ Settling
      BY <1>1, <1>6, NoticeNext_Settles
    <2>2. BusServicesMove
      BY <1>2, <1>6, <2>1 DEF BusServicesMove, NoticeBusNext
    <2> QED BY <1>1, <1>2, <2>1, <2>2, SettlingIsListening
  <1> QED BY <1>3, <1>4, <1>5, <1>6 DEF BusStep

-----------------------------------------------------------------------------
(* The services together *)

LEMMA ServicesNext_Inv ==
    ASSUME ServicesInv, [Next]_vars
    PROVE  ServicesInv'
  <1>1. UNCHANGED service
    BY DEF Next, vars
  <1>2. CASE BusStep
    <2>1. OwnServicesMove
      BY <1>2, BusStep_Moves, <1>1 DEF ownServices, OwnServicesMove, BookServices
    <2>2. OwnServicesInv' /\ BusServicesInv' /\ Untouched(Durables \ Listening)'
      BY <1>1, <1>2, <2>1, BusStep_Moves, BusServicesMoved, OwnServicesMoved DEF ServicesInv
    <2>3. StreamTypeOK'
      BY <1>1, <1>2, <2>2, BusStep_Moves DEF BusServicesInv, BookInv, RowsInv, ScreenInv, NoticeInv
    <2> QED BY <2>2, <2>3 DEF ServicesInv
  <1>3. CASE OwnStep
    <2>1. OwnServicesMove /\ UNCHANGED streamVars /\ UNCHANGED busServices
      BY <1>3, OwnStep_Moves
    <2>2. BusServicesMove
      BY <1>3, <2>1, OwnStep_Moves DEF BusServicesMove, busServices
    <2>3. OwnServicesInv' /\ BusServicesInv'
      BY <1>1, <2>1, <2>2, BusServicesMoved, OwnServicesMoved DEF ServicesInv
    <2>4. faults' \in Nat
      <3>1. faults \in Nat
        BY DEF ServicesInv, StreamTypeOK
      <3>2. \/ UNCHANGED faults
            \/ PorNext \/ ReportNext \/ TrailNext
            \/ service \in {"price-oracle", "kyc", "auth", "admin", "addresses", "fees"}
        BY <1>3 DEF OwnStep, Step
      <3>3. service \in {"price-oracle", "kyc", "auth", "admin", "addresses", "fees"} => faults' \in Nat
        BY <1>1, <2>3 DEF OwnServicesInv, FeedInv, FeedTypeOK, KycInv, KycTypeOK, AuthInv, AuthTypeOK,
           AdminInv, AdminTypeOK, WalletInv, WalletTypeOK, FeesInv, FeesTypeOK
      <3> QED BY <3>1, <3>2, <3>3, FaultsStayNatural
    <2>5. StreamTypeOK' /\ Untouched(Durables \ Listening)'
      BY <1>1, <2>1, <2>4 DEF ServicesInv, StreamTypeOK, BusTypeOK, Untouched, Listening, streamVars, busVars
    <2> QED BY <2>3, <2>5 DEF ServicesInv
  <1>4. CASE UNCHANGED vars
    <2>1. UNCHANGED streamVars /\ UNCHANGED busServices /\ UNCHANGED ownServices /\ UNCHANGED faults
      BY <1>4 DEF vars
    <2>2. OwnServicesMove
      BY <2>1 DEF OwnServicesMove, ownServices
    <2>3. BusServicesMove
      BY <1>1, <2>1 DEF BusServicesMove, busServices, bookBusVars, screenBusVars, noticeBusVars
    <2>4. OwnServicesInv' /\ BusServicesInv'
      BY <1>1, <2>2, <2>3, BusServicesMoved, OwnServicesMoved DEF ServicesInv
    <2>5. StreamTypeOK' /\ Untouched(Durables \ Listening)'
      BY <1>1, <2>1 DEF ServicesInv, StreamTypeOK, BusTypeOK, Untouched, Listening, streamVars, busVars
    <2> QED BY <2>4, <2>5 DEF ServicesInv
  <1> QED BY <1>2, <1>3, <1>4 DEF Next

\* The inductive invariant of the services, from the specification the run checks.
THEOREM ServicesInvariant == Spec => []ServicesInv
  <1>1. Init => ServicesInv
    BY ServicesInit_Inv
  <1>2. ServicesInv /\ [Next]_vars => ServicesInv'
    BY ServicesNext_Inv
  <1> QED BY <1>1, <1>2, PTL DEF Spec

\* A service that rests where it began keeps its invariant, too.
LEMMA AllInvariantsHold ==
    ASSUME ServicesInv
    PROVE  /\ StreamTypeOK /\ BookInv /\ ScreenTypeOK /\ VerdictsRestOnResults /\ NoticeInv
           /\ LimiterInv /\ HubInv /\ FeedInv /\ PorInv /\ KycInv /\ AuthInv /\ AdminInv /\ WalletInv
           /\ FeesInv /\ TrailInv
  <1>1. StreamTypeOK /\ faults \in Nat /\ Untouched(Durables \ Listening)
    BY DEF ServicesInv, StreamTypeOK
  <1>2. BookInv
    <2>1. service \notin BookServices => Untouched(BookDurables)
      BY <1>1, WhoListens DEF Untouched
    <2> QED BY <1>1, <2>1, BookInit_Inv DEF ServicesInv, BusServicesInv
  <1>3. ScreenTypeOK /\ VerdictsRestOnResults
    BY ScreenInit_Type DEF ServicesInv, BusServicesInv, ScreenInv
  <1>4. NoticeInv
    <2>1. service # "notification" => Untouched(Notifiers)
      BY <1>1, WhoListens DEF Untouched
    <2> QED BY <1>1, <2>1, NoticeInit_Inv DEF ServicesInv, BusServicesInv
  <1>5. /\ LimiterInv /\ HubInv /\ FeedInv /\ PorInv /\ KycInv /\ AuthInv /\ AdminInv /\ WalletInv
        /\ FeesInv /\ TrailInv
    BY <1>1, LimiterInit_Inv, HubInit_Inv, FeedInit_Inv, PorInit_Inv, KycInit_Inv, AuthInit_Inv,
       AdminInit_Inv, WalletInit_Inv, FeesInit_Inv, TrailInit_Inv DEF ServicesInv, OwnServicesInv
  <1> QED BY <1>1, <1>2, <1>3, <1>4, <1>5

\* The state of all services is well typed; see MCServices.
THEOREM ServicesTyped == Spec => []ServicesTypeOK
  <1>1. ServicesInv => ServicesTypeOK
    BY AllInvariantsHold DEF ServicesTypeOK, BookInv, NoticeInv, LimiterInv, HubInv, FeedInv, PorInv, KycInv,
       AuthInv, AdminInv, WalletInv, FeesInv, TrailInv
  <1> QED BY <1>1, ServicesInvariant, PTL

\* Rows, reserve, transactions and fees agree with the messages and requests they stand
\* for, and nothing is missed page by page; see MCServices.
THEOREM BooksAlwaysAgree == Spec => []BooksAgree
  <1>1. ASSUME ServicesInv PROVE BooksAgree
    <2>1. BookInv /\ WalletInv /\ FeesInv /\ TrailInv
      BY <1>1, AllInvariantsHold
    <2>2. ReserveMatchesSettlements /\ ReconciliationIsExplained
      BY <2>1 DEF BookInv
    <2> QED BY <2>1, <2>2, BookInv_Implies, WalletInv_Implies, FeesInv_Implies, TrailInv_Implies
            DEF BooksAgree, BooksAndReserveAgree
  <1> QED BY <1>1, ServicesInvariant, PTL

\* What the run checks of the other services: verdicts, notices, the rate limit, the hub
\* and the candles, the attestations, applications, accounts, keys and the gateway.
EachKeepsItsPromise ==
    /\ VerdictsRestOnResults /\ NoticesFollowPreferences /\ AtMostTwiceTheRate
    /\ HubNeverPanics /\ CandlesFollowHistory /\ LogMirrorsChain
    /\ ApplicationsAreAnnounced /\ AccountsFollowTheIndex /\ SupersededKeysFade /\ GatewayFollowsTheDatabase

\* All of it holds in every behaviour of the specification the run checks.
THEOREM ServicesKeepTheirPromises == Spec => []EachKeepsItsPromise
  <1>1. ASSUME ServicesInv PROVE EachKeepsItsPromise
    <2>1. VerdictsRestOnResults /\ AtMostTwiceTheRate /\ LogMirrorsChain
      BY <1>1, AllInvariantsHold DEF LimiterInv, PorInv
    <2> QED BY <1>1, <2>1, AllInvariantsHold, NoticeInv_Implies, HubInv_Implies, FeedInv_Implies,
               KycInv_Implies, AuthInv_Implies, AdminInv_Implies DEF EachKeepsItsPromise
  <1> QED BY <1>1, ServicesInvariant, PTL
=============================================================================
