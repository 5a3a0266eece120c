----------------------------- MODULE MCServices -----------------------------
(***************************************************************************)
(* Model-checking instance of the smaller services.  Each behaviour is     *)
(* about one of them: the bus services, each alone with the stream, and    *)
(* the services that share nothing with it.                                *)
(***************************************************************************)
EXTENDS Bookkeeping, Screening, Notification, RateLimiter, PriceHub, PriceFeed,
        ProofOfReserve, Kyc, ReportJobs, Auth, AdminGateway, Wallets, Fees, AuditTrail

busServices == <<bookVars, screenVars, noticeVars>>
ownServices == <<limiterVars, hubVars, feedVars, porVars, kycVars, reportVars, authVars, adminVars,
                 walletVars, feeVars, trailVars>>
vars == <<service, streamVars, faults, busServices, ownServices>>

\* What the seeded templates do not use is used by the one here.
AllChannels == <<"inapp", "email", "webhook">>

\* The global tier of the migration, and a cheaper one somebody added for large orders.
GlobalTier == [arena |-> "global", from |-> 0, to |-> NULL, fee_bps |-> 50, min_fee |-> 0, active |-> TRUE]

FeeTiers == [t1 |-> GlobalTier,
             t2 |-> [GlobalTier EXCEPT !.arena = "TR", !.from = 300, !.fee_bps = 20, !.min_fee = 2]]

\* Two orders, one with a saga; two events of the same time.
TrailEvents ==
    [e1 |-> [type |-> "order.created", aggregate |-> "o1", order_id |-> "o1", occurred_at |-> 1],
     e2 |-> [type |-> "order.created", aggregate |-> "o2", order_id |-> "o2", occurred_at |-> 2],
     e3 |-> [type |-> "mint.executed", aggregate |-> "s1", order_id |-> "o1", occurred_at |-> 2],
     e4 |-> [type |-> "order.cancelled", aggregate |-> "", order_id |-> "o1", occurred_at |-> 3]]

FeeChanges == {[fee_bps |-> 100], [min_fee |-> 3], [active |-> FALSE]}

Init ==
    /\ StreamInit /\ BookInit /\ ScreenInit /\ NoticeInit
    /\ LimiterInit /\ HubInit /\ FeedInit /\ PorInit /\ KycInit /\ ReportInit
    /\ AuthInit /\ AdminInit /\ WalletInit /\ FeesInit /\ TrailInit
    /\ adapter = "asBuilt" \/ service = "por"         \* a choice matters to its service only
    /\ emailIndex = "spelling" \/ service = "auth"

-----------------------------------------------------------------------------
BusStep ==
    /\ \/ Stream /\ UNCHANGED busServices
       \/ BookNext /\ UNCHANGED <<screenVars, noticeVars>>
       \/ ScreenNext /\ UNCHANGED <<bookVars, noticeVars>>
       \/ NoticeNext /\ UNCHANGED <<bookVars, screenVars>>
    /\ UNCHANGED ownServices

\* Bounds on the larger services, for model checking only: one message and one fault;
\* around a reconciliation, one message of a kind and one fault; keys are rotated for
\* the tokens of one registration, and under the deployed schema of the accounts.
Small == {"notification", "por", "auth", "admin", "price-oracle", "addresses", "fees"}

OneRegistration == Cardinality({r \in Registrations : registration[r] # NoRegistration}) <= 1

Within ==
    /\ keyFiles' = [private |-> 1, public |-> 1] \/ (emailIndex = "spelling" /\ OneRegistration')
    /\ service \in Small \/ recon' # NoRecon =>
       faults' <= 1 /\ \A m \in published' : m.id = CHOOSE id \in Ids : TRUE

Step(name) == service = name /\ UNCHANGED <<streamVars, busServices>>

OwnStep ==
    \/ /\ Step("httputil") /\ LimiterNext
       /\ UNCHANGED <<faults, hubVars, feedVars, porVars, kycVars, reportVars, authVars, adminVars, walletVars, feeVars, trailVars>>
    \/ /\ Step("price-hub") /\ HubNext
       /\ UNCHANGED <<faults, limiterVars, feedVars, porVars, kycVars, reportVars, authVars, adminVars, walletVars, feeVars, trailVars>>
    \/ /\ Step("price-oracle") /\ FeedNext
       /\ UNCHANGED <<limiterVars, hubVars, porVars, kycVars, reportVars, authVars, adminVars, walletVars, feeVars, trailVars>>
    \/ /\ Step("por") /\ PorNext
       /\ UNCHANGED <<limiterVars, hubVars, feedVars, kycVars, reportVars, authVars, adminVars, walletVars, feeVars, trailVars>>
    \/ /\ Step("kyc") /\ KycNext
       /\ UNCHANGED <<limiterVars, hubVars, feedVars, porVars, reportVars, authVars, adminVars, walletVars, feeVars, trailVars>>
    \/ /\ Step("reports") /\ ReportNext
       /\ UNCHANGED <<limiterVars, hubVars, feedVars, porVars, kycVars, authVars, adminVars, walletVars, feeVars, trailVars>>
    \/ /\ Step("auth") /\ AuthNext
       /\ UNCHANGED <<limiterVars, hubVars, feedVars, porVars, kycVars, reportVars, adminVars, walletVars, feeVars, trailVars>>
    \/ /\ Step("admin") /\ AdminNext
       /\ UNCHANGED <<limiterVars, hubVars, feedVars, porVars, kycVars, reportVars, authVars, walletVars, feeVars, trailVars>>
    \/ /\ Step("addresses") /\ WalletNext
       /\ UNCHANGED <<limiterVars, hubVars, feedVars, porVars, kycVars, reportVars, authVars, adminVars, feeVars, trailVars>>
    \/ /\ Step("fees") /\ FeesNext
       /\ UNCHANGED <<limiterVars, hubVars, feedVars, porVars, kycVars, reportVars, authVars, adminVars, walletVars, trailVars>>
    \/ /\ Step("audit-trail") /\ TrailNext
       /\ UNCHANGED <<limiterVars, hubVars, feedVars, porVars, kycVars, reportVars, authVars, adminVars, walletVars, feeVars>>

Next == (BusStep \/ OwnStep) /\ Within /\ UNCHANGED service

Spec == Init /\ [][Next]_vars

-----------------------------------------------------------------------------
\* The goroutines of the services run: the price hub's and its connections', and the
\* jobs of the reports.
Fairness ==
    /\ WF_hubVars(service = "price-hub" /\ Run)
    /\ \A s \in Subscribers : WF_hubVars(service = "price-hub" /\ ws(s))
    /\ \A j \in Jobs : WF_reportVars(service = "reports" /\ Running(j))

FairSpec == Spec /\ Fairness

ServicesTypeOK ==
    /\ StreamTypeOK /\ BookTypeOK /\ ScreenTypeOK /\ NoticeTypeOK
    /\ LimiterTypeOK /\ HubTypeOK /\ FeedTypeOK /\ PorTypeOK /\ KycTypeOK
    /\ AuthTypeOK /\ AdminTypeOK /\ WalletTypeOK /\ FeesTypeOK /\ TrailTypeOK

\* What the consumers write down: rows, reserve, transactions and fees, and
\* what somebody who reads them page by page gets to see.
BooksAgree == BooksAndReserveAgree /\ PaymentsReachTheirOwner /\ FeesFollowTheSchedule /\ PagesMissNothing
=============================================================================
