----------------------------- MODULE Screening -----------------------------
(***************************************************************************)
(* backend/services/compliance: sanctions screening.  A screening is asked *)
(* for by POST /compliance/screen, with a name, or by the consumer of      *)
(* order.created, without one; it saves a result, then overwrites the      *)
(* user's status.  The monitoring worker visits users EnrollUser has put   *)
(* on its schedule, and nothing calls EnrollUser: it is left out, with the *)
(* jurisdiction rules, which only the admin routes read and write.         *)
(*                                                                         *)
(* Abstracted: names (how one relates to the list is all that counts),     *)
(* countries (which the screener ignores), timestamps, and what a result   *)
(* matched.                                                                *)
(***************************************************************************)
EXTENDS ServiceBus

CONSTANTS
    Users,
    Calls        \* POST /compliance/screen requests

ASSUME ScreeningAssumption == "compliance_order_created" \notin Calls

VARIABLES
    buyer,       \* order -> the user who placed it
    run,         \* who screens -> where runScreen stands, for whom, and the verdict
    results,     \* compliance.screening_results, as [user, order, allowed]
    status,      \* compliance.user_status: user -> "none", "clear" or "blocked"
    verdicts     \* messages [subject, id] the service has published

screenVars == <<buyer, run, results, status, verdicts>>

Consumer == "compliance_order_created"

Screeners == Calls \cup {Consumer}

NoRun == [stage |-> "idle", user |-> "none", order |-> "none", allowed |-> FALSE]

VerdictSubject(allowed) == IF allowed THEN "compliance.approved" ELSE "compliance.rejected"

Result(w) == [user |-> run[w].user, order |-> run[w].order, allowed |-> run[w].allowed]

\* How a name relates to the sanctions list: it is a listed name or an alias of one, a
\* part of either, longer than one it contains, or none of these.
Names == {"", "listed", "alias", "part", "longer", "other"}

\* A listed name within a longer one is not found, and the empty name never.
Screen(name) == name \notin {"listed", "alias", "part"}

Proceed(w, stage) == run' = [run EXCEPT ![w].stage = stage]

\* runScreen gives up on w: a request answers with an error, the consumer logs it.
GiveUp(w) ==
    IF w = Consumer THEN run' = [run EXCEPT ![w] = NoRun] /\ Ack(w)
                    ELSE Proceed(w, "done") /\ UNCHANGED busVars

-----------------------------------------------------------------------------
\* POST /compliance/screen: the verdict is the local list's, for the name given.
screen(c) ==
    /\ service = "compliance" /\ run[c] = NoRun
    /\ \E u \in Users, name \in Names \ {""} :
          run' = [run EXCEPT ![c] =
                    [stage |-> "save", user |-> u, order |-> "none", allowed |-> Screen(name)]]
    /\ UNCHANGED <<streamVars, faults, buyer, results, status, verdicts>>

\* order.created carries no name.
handleOrderCreated ==
    /\ handling[Consumer] # "none" /\ run[Consumer] = NoRun
    /\ run' = [run EXCEPT ![Consumer] =
                 [stage |-> "save", user |-> buyer[handling[Consumer]],
                  order |-> handling[Consumer], allowed |-> Screen("")]]
    /\ UNCHANGED <<streamVars, faults, buyer, results, status, verdicts>>

\* Slip, for the mutation runs: the status goes first.
SaveResultLate(w) ==
    \/ /\ run[w].stage = "save"
       /\ status' = [status EXCEPT ![run[w].user] =
                       IF run[w].allowed THEN "clear" ELSE "blocked"]
       /\ Proceed(w, "upsert")
       /\ UNCHANGED <<streamVars, faults, buyer, results, verdicts>>
    \/ /\ run[w].stage = "upsert"
       /\ results' = results \cup {Result(w)}
       /\ Proceed(w, "publish")
       /\ UNCHANGED <<streamVars, faults, buyer, status, verdicts>>

SaveResult(w) ==
    /\ run[w].stage = "save"
    /\ results' = results \cup {Result(w)}
    /\ Proceed(w, "upsert")
    /\ UNCHANGED <<streamVars, faults, buyer, status, verdicts>>

\* An error of SaveResult ends runScreen; the consumer acknowledges the order all the
\* same, and it is never screened.
SaveResultFails(w) ==
    /\ run[w].stage = "save"
    /\ Fault
    /\ GiveUp(w)
    /\ UNCHANGED <<published, buyer, results, status, verdicts>>

\* The status is overwritten, whatever it is and whoever set it; an error is ignored.
UpsertState(w) ==
    /\ run[w].stage = "upsert"
    /\ \/ /\ status' = [status EXCEPT ![run[w].user] =
                          IF run[w].allowed THEN "clear" ELSE "blocked"]
          /\ UNCHANGED faults
       \/ Fault /\ UNCHANGED status
    /\ Proceed(w, IF w = Consumer THEN "publish" ELSE "done")
    /\ UNCHANGED <<streamVars, buyer, results, verdicts>>

\* The verdict on the order is published and the order acknowledged; an error of
\* the publication is only logged.
publishVerdict ==
    /\ run[Consumer].stage = "publish"
    /\ \/ /\ verdicts' = verdicts \cup {[subject |-> VerdictSubject(run[Consumer].allowed),
                                         id      |-> run[Consumer].order]}
          /\ Acknowledged(Consumer)
       \/ Fault /\ Ack(Consumer) /\ UNCHANGED verdicts
    /\ run' = [run EXCEPT ![Consumer] = NoRun]
    /\ UNCHANGED <<published, buyer, results, status>>

\* The process dies: a request is lost, an order will be delivered again.
ScreenerDies(w) ==
    /\ run[w].stage \notin {"idle", "done"}
    /\ IF w = Consumer THEN run' = [run EXCEPT ![w] = NoRun] /\ HandlerFails(w)
                       ELSE Proceed(w, "done") /\ Fault /\ UNCHANGED busVars
    /\ UNCHANGED <<published, buyer, results, status, verdicts>>

-----------------------------------------------------------------------------
ScreenInit ==
    /\ buyer \in IF service = "compliance" THEN [Ids -> Users]
                ELSE {[id \in Ids |-> CHOOSE u \in Users : TRUE]}
    /\ run = [w \in Screeners |-> NoRun]
    /\ results = {}
    /\ status = [u \in Users |-> "none"]
    /\ verdicts = {}

ScreenNext ==
    \/ \E c \in Calls : screen(c)
    \/ handleOrderCreated
    \/ \E w \in Screeners :
          SaveResult(w) \/ SaveResultFails(w) \/ UpsertState(w) \/ ScreenerDies(w)
    \/ publishVerdict

\* The service alone with the stream.
screenBusVars == <<service, streamVars, faults, screenVars>>

ScreenBusNext == (ScreenNext \/ (Stream /\ UNCHANGED screenVars)) /\ UNCHANGED service

ScreenSpec ==
    StreamInit /\ service = "compliance" /\ ScreenInit /\ [][ScreenBusNext]_screenBusVars

-----------------------------------------------------------------------------
(* Properties *)

ScreenTypeOK ==
    /\ run \in [Screeners ->
          [stage : {"save", "upsert", "publish", "done"}, user : Users,
           order : Ids \cup {"none"}, allowed : BOOLEAN] \cup {NoRun}]
    /\ results \subseteq [user : Users, order : Ids \cup {"none"}, allowed : BOOLEAN]
    /\ status \in [Users -> {"none", "clear", "blocked"}]
    /\ \A v \in verdicts : v.id \in Ids

\* However screenings of a user race, fail and are repeated, a status the service
\* reports and a verdict it publishes rest on a result it has saved.
VerdictsRestOnResults ==
    /\ \A u \in Users : status[u] # "none" =>
          \E r \in results : r.user = u /\ r.allowed = (status[u] = "clear")
    /\ \A v \in verdicts :
          \E r \in results : /\ r.order = v.id /\ r.user = buyer[v.id]
                             /\ v.subject = VerdictSubject(r.allowed)

-----------------------------------------------------------------------------
(* What a comment of the service says and the code does not do *)

\* consumer.go:67-69: an order screens as approved "unless a specific user_id-based
\* screening was already submitted".  So an order never unblocks a user: who goes
\* from blocked to clear was screened again by name.
BlockSurvivesOrders ==
    [][\A u \in Users : status[u] = "blocked" /\ status'[u] = "clear" =>
          \E c \in Calls : run[c].user = u /\ run'[c] # run[c]]_screenVars
=============================================================================
