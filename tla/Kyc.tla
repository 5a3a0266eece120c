-------------------------------- MODULE Kyc --------------------------------
(***************************************************************************)
(* backend/services/kyc: a user submits an application with a document,    *)
(* reviewers approve or reject it, and each of these is announced on the   *)
(* bus.  Nothing sets the status under_review.                             *)
(*                                                                         *)
(* Abstracted: the form and its validation, authentication, the answer of  *)
(* GET /kyc/status, and the bus itself, where nothing is lost once it is   *)
(* published.                                                              *)
(***************************************************************************)
EXTENDS Faults, FiniteSets

CONSTANTS
    Submissions,  \* POST /kyc/submit requests, each with the id of its application
    Reviews,      \* PATCH /kyc/:id/review requests
    Applicants

VARIABLES
    documents,    \* submissions whose document is stored
    applications, \* kyc.applications: id -> [user, status]
    submission,   \* submission -> [stage, user]
    verdict,      \* review -> [stage, id, status]
    passedStatus, \* history: every [id, status] an application has had
    kycEvents     \* messages kyc.submitted, kyc.approved, kyc.rejected, as [id, status]

kycVars == <<documents, applications, submission, verdict, passedStatus, kycEvents>>

NoApplication == [user |-> "none", status |-> "none"]
NoSubmission == [stage |-> "idle", user |-> "none"]
NoVerdict == [stage |-> "idle", id |-> "none", status |-> "none"]

Active == {"pending", "under_review"}

ActiveOf(u) ==
    {s \in Submissions : applications[s].user = u /\ applications[s].status \in Active}

Becomes(id, app) ==
    /\ applications' = [applications EXCEPT ![id] = app]
    /\ passedStatus' = passedStatus \cup {[id |-> id, status |-> app.status]}

-----------------------------------------------------------------------------
\* POST /kyc/submit: the document is stored first.
submit(s) ==
    /\ submission[s].stage = "idle"
    /\ documents' = documents \cup {s}
    /\ \E u \in Applicants : submission' = [submission EXCEPT ![s] = [stage |-> "saved", user |-> u]]
    /\ UNCHANGED <<applications, verdict, passedStatus, kycEvents, faults>>

\* Slip, for the mutation runs: no unique index over the active applications of a user.
CreateAnother(s) ==
    /\ submission[s].stage = "saved"
    /\ Becomes(s, [user |-> submission[s].user, status |-> "pending"])
    /\ submission' = [submission EXCEPT ![s].stage = "created"]
    /\ UNCHANGED <<documents, verdict, kycEvents, faults>>

\* The unique index uq_kyc_applications_user_active decides, and a refused
\* application leaves its document behind.
CreateApplication(s) ==
    /\ submission[s].stage = "saved"
    /\ IF ActiveOf(submission[s].user) = {}
       THEN /\ Becomes(s, [user |-> submission[s].user, status |-> "pending"])
            /\ submission' = [submission EXCEPT ![s].stage = "created"]
       ELSE /\ submission' = [submission EXCEPT ![s].stage = "done"]
            /\ UNCHANGED <<applications, passedStatus>>
    /\ UNCHANGED <<documents, verdict, kycEvents, faults>>

\* An error of the publication is only logged.
publishEvent(id, status) ==
    \/ kycEvents' = kycEvents \cup {[id |-> id, status |-> status]} /\ UNCHANGED faults
    \/ UNCHANGED kycEvents /\ Fault

submitted(s) ==
    /\ submission[s].stage = "created"
    /\ publishEvent(s, "pending")
    /\ submission' = [submission EXCEPT ![s].stage = "done"]
    /\ UNCHANGED <<documents, applications, verdict, passedStatus>>

-----------------------------------------------------------------------------
\* PATCH /kyc/:id/review: the application has to exist, its status is not looked at.
review(v) ==
    /\ verdict[v].stage = "idle"
    /\ \E id \in Submissions, status \in {"approved", "rejected"} :
          /\ applications[id] # NoApplication
          /\ verdict' = [verdict EXCEPT ![v] = [stage |-> "update", id |-> id, status |-> status]]
    /\ UNCHANGED <<documents, applications, submission, passedStatus, kycEvents, faults>>

\* UPDATE ... WHERE id, whatever the status has become meanwhile.
SetStatus(v) ==
    /\ verdict[v].stage = "update"
    /\ Becomes(verdict[v].id, [applications[verdict[v].id] EXCEPT !.status = verdict[v].status])
    /\ verdict' = [verdict EXCEPT ![v].stage = "publish"]
    /\ UNCHANGED <<documents, submission, kycEvents, faults>>

reviewed(v) ==
    /\ verdict[v].stage = "publish"
    /\ publishEvent(verdict[v].id, verdict[v].status)
    /\ verdict' = [verdict EXCEPT ![v].stage = "done"]
    /\ UNCHANGED <<documents, applications, submission, passedStatus>>

\* A statement fails, or the process dies, in the middle of a request.
KycDies ==
    /\ Fault
    /\ \/ \E s \in Submissions :
             /\ submission[s].stage \in {"saved", "created"}
             /\ submission' = [submission EXCEPT ![s].stage = "done"]
             /\ UNCHANGED verdict
       \/ \E v \in Reviews :
             /\ verdict[v].stage \in {"update", "publish"}
             /\ verdict' = [verdict EXCEPT ![v].stage = "done"]
             /\ UNCHANGED submission
    /\ UNCHANGED <<documents, applications, passedStatus, kycEvents>>

KycInit ==
    /\ documents = {} /\ passedStatus = {} /\ kycEvents = {}
    /\ applications = [s \in Submissions |-> NoApplication]
    /\ submission = [s \in Submissions |-> NoSubmission]
    /\ verdict = [v \in Reviews |-> NoVerdict]

KycNext ==
    \/ \E s \in Submissions : submit(s) \/ CreateApplication(s) \/ submitted(s)
    \/ \E v \in Reviews : review(v) \/ SetStatus(v) \/ reviewed(v)
    \/ KycDies

KycSpec == KycInit /\ faults = 0 /\ [][KycNext]_<<kycVars, faults>>

-----------------------------------------------------------------------------
(* Properties *)

KycTypeOK ==
    LET statuses == {"pending", "approved", "rejected"}
    IN  /\ documents \subseteq Submissions
        /\ applications \in
              [Submissions -> [user : Applicants, status : statuses] \cup {NoApplication}]
        /\ submission \in
              [Submissions -> [stage : {"saved", "created", "done"}, user : Applicants]
                              \cup {NoSubmission}]
        /\ verdict \in
              [Reviews -> [stage : {"update", "publish", "done"}, id : Submissions,
                           status : {"approved", "rejected"}] \cup {NoVerdict}]
        /\ passedStatus \subseteq [id : Submissions, status : statuses]
        /\ kycEvents \subseteq [id : Submissions, status : statuses]
        /\ faults \in Nat

\* What a request that set a status is about to announce.
UnderWay ==
    {[id |-> s, status |-> "pending"] : s \in {s \in Submissions : submission[s].stage = "created"}}
    \cup {[id |-> verdict[v].id, status |-> verdict[v].status] :
              v \in {v \in Reviews : verdict[v].stage = "publish"}}

\* However submissions and reviews race and fail: a user has one active application at
\* most; an application has its document; a status that is announced is one the
\* application had; and a status it had is announced, unless the request that set it
\* is still at it or a failure cost it its announcement.
ApplicationsAreAnnounced ==
    /\ \A u \in Applicants : Cardinality(ActiveOf(u)) <= 1
    /\ \A s \in Submissions : applications[s] # NoApplication => s \in documents
    /\ kycEvents \subseteq passedStatus
    /\ Cardinality(passedStatus \ (kycEvents \cup UnderWay)) <= faults
=============================================================================
