----------------------------- MODULE ReportJobs -----------------------------
(***************************************************************************)
(* backend/services/reporting: reports made in the background.  A request  *)
(* writes a job row and starts a goroutine for it, which marks the row,    *)
(* generates the report, throws it away and marks the row again; a         *)
(* download of a completed job generates the report anew.  Every error of  *)
(* a mark is ignored, and nothing takes up the jobs of a process that      *)
(* died.                                                                   *)
(*                                                                         *)
(* Abstracted: the figures (a query either answers or fails, at any time), *)
(* parameters and dates.                                                   *)
(***************************************************************************)
EXTENDS Faults

CONSTANT Jobs        \* POST /reports/generate requests, each with its job

VARIABLES
    jobs,            \* reporting.report_jobs: job -> [type, status]
    goroutine,       \* job -> where its runJob stands
    expired,         \* jobs whose ten-minute context has ended
    downloaded       \* jobs of which a report was handed out

reportVars == <<jobs, goroutine, expired, downloaded>>

ReportTypes == {"transactions", "reserves", "compliance"}

NoJob == [type |-> "none", status |-> "none"]

Enters(j, stage) == goroutine' = [goroutine EXCEPT ![j] = stage]

\* No migration creates compliance.compliance_checks, which ComplianceSummary reads.
Answers(j) == jobs[j].type # "compliance"

\* UPDATE of the row, and nothing at all on an error, which an expired context is.
UpdateStatus(j, status) ==
    IF j \in expired THEN UNCHANGED <<jobs, faults>>
    ELSE \/ jobs' = [jobs EXCEPT ![j].status = status] /\ UNCHANGED faults
         \/ UNCHANGED jobs /\ Fault

-----------------------------------------------------------------------------
generate(j) ==
    /\ jobs[j] = NoJob
    /\ \E t \in ReportTypes : jobs' = [jobs EXCEPT ![j] = [type |-> t, status |-> "pending"]]
    /\ Enters(j, "start")
    /\ UNCHANGED <<expired, downloaded, faults>>

runJob(j) ==
    /\ goroutine[j] = "start"
    /\ UpdateStatus(j, "running")
    /\ Enters(j, "generate")
    /\ UNCHANGED <<expired, downloaded>>

generates(j) ==
    /\ goroutine[j] = "generate"
    /\ \/ Answers(j) /\ j \notin expired /\ Enters(j, "generated") /\ UNCHANGED faults
       \/ (~Answers(j) \/ j \in expired) /\ Enters(j, "erred") /\ UNCHANGED faults
       \/ Enters(j, "erred") /\ Fault
    /\ UNCHANGED <<jobs, expired, downloaded>>

\* Slip, for the mutation runs: a failed generation returns before the row is marked.
finishesOnSuccess(j) ==
    /\ goroutine[j] \in {"generated", "erred"}
    /\ IF goroutine[j] = "generated" THEN UpdateStatus(j, "completed") ELSE UNCHANGED <<jobs, faults>>
    /\ Enters(j, IF goroutine[j] = "erred" THEN "erred and done" ELSE "generated and done")
    /\ UNCHANGED <<expired, downloaded>>

finishes(j) ==
    /\ goroutine[j] \in {"generated", "erred"}
    /\ UpdateStatus(j, IF goroutine[j] = "generated" THEN "completed" ELSE "failed")
    /\ Enters(j, IF goroutine[j] = "erred" THEN "erred and done" ELSE "generated and done")
    /\ UNCHANGED <<expired, downloaded>>

\* Ten minutes pass: what the job does with its context from now on fails.
Expire(j) ==
    /\ goroutine[j] \in {"start", "generate", "generated", "erred"}
    /\ expired' = expired \cup {j}
    /\ UNCHANGED <<jobs, goroutine, downloaded, faults>>

download(j) ==
    /\ jobs[j].status = "completed" /\ Answers(j)
    /\ downloaded' = downloaded \cup {j}
    /\ UNCHANGED <<jobs, goroutine, expired, faults>>

\* The process dies, and with it every goroutine.
ReportingDies ==
    /\ Fault
    /\ goroutine' = [j \in Jobs |-> "none"]
    /\ UNCHANGED <<jobs, expired, downloaded>>

ReportInit ==
    /\ jobs = [j \in Jobs |-> NoJob]
    /\ goroutine = [j \in Jobs |-> "none"]
    /\ expired = {} /\ downloaded = {}

Running(j) == runJob(j) \/ generates(j) \/ finishes(j)

ReportNext ==
    \/ \E j \in Jobs : generate(j) \/ Running(j) \/ Expire(j) \/ download(j)
    \/ ReportingDies

-----------------------------------------------------------------------------
(* Properties *)

\* A job ends, completed or failed, unless a failure or the ten minutes come in the
\* way; then it may stay pending or running for ever.
JobsEnd ==
    []<>(\A j \in Jobs :
            jobs[j].status \in {"pending", "running"} => j \in expired \/ faults > 0)
=============================================================================
