------------------------------ MODULE MintSaga ------------------------------
(***************************************************************************)
(* backend/services/mint-burn: the saga that turns a paid order into a     *)
(* mint.  Workers poll mint.saga_instances and advance one saga by one     *)
(* step; a step is split where the code does I/O, so that two workers, a   *)
(* crash or a lost answer fall between the pieces.  A saga is named by its *)
(* allocation id, which is unique in the table and on chain.               *)
(*                                                                         *)
(* Abstracted: amounts, addresses and bar serials; times, to whether a     *)
(* saga is older than ApprovalTimeout and to the order of last_step_at     *)
(* (the five seconds a row must rest are a delay any step may exceed).     *)
(* The committed pgBarRepo is a placeholder that always fails; bars are    *)
(* modelled from what the BarRepo interface lets its callers rely on.      *)
(***************************************************************************)
EXTENDS MintProposals, Sequences, FiniteSets

CONSTANTS
    Workers,            \* Orchestrator.Run loops, one per process
    ApprovalThreshold,  \* Config.ApprovalThreshold
    MaxApprovals,       \* how many accounts hold MINT_APPROVER_ROLE
    BarStock,           \* how many allocations the vault can back at once
    FaultKinds,         \* the faults of a run, among those of Faults
    MaxFaults,          \* bound on their number, for model checking only
    MaxOutcomes         \* bound on the rows of the outbox, for model checking only

ASSUME SagaAssumption ==
    /\ IsFiniteSet(Allocations)
    /\ ApprovalThreshold \in Nat \ {0}
    /\ MaxApprovals \in Nat /\ BarStock \in Nat
    /\ MaxFaults \in Nat /\ MaxOutcomes \in Nat
    /\ FaultKinds \subseteq {"crash", "receipt", "release"}
    /\ "nobody" \notin Workers

VARIABLES
    sagas,      \* mint.saga_instances: allocation id -> state; "none" is no row
    earlier,    \* allocation id -> the sagas whose last_step_at is before its own
    overdue,    \* sagas started longer ago than ApprovalTimeout
    bars,       \* allocations for which bars are reserved
    worker,     \* worker -> where its step stands, on a copy of the row it polled
    mempool,    \* transactions of the service's one account, in nonce order
    outbox,     \* mint.outbox, in order of creation
    delivered,  \* outbox rows the event bus has accepted (JetStream drops a known Msg-Id)
    marked,     \* outbox rows with published_at set
    faults      \* how many faults have happened

repoVars == <<sagas, earlier, overdue>>
outboxVars == <<outbox, delivered, marked>>
vars == <<repoVars, bars, worker, mempool, outboxVars, faults, onchain>>

FailedStates ==
    {"failed", "failed_no_stock", "failed_approval_timeout", "failed_reserve_invariant"}
TerminalStates == FailedStates \cup {"completed"}
OpenStates == {"created", "reserving_bars", "proposing", "awaiting_approvals", "executing"}
SagaStates == OpenStates \cup TerminalStates

IsTerminal(state) == state \in TerminalStates

MintStateTransition ==
    {<<"created", "reserving_bars">>, <<"created", "failed">>,
     <<"reserving_bars", "proposing">>, <<"reserving_bars", "failed_no_stock">>,
     <<"reserving_bars", "failed">>,
     <<"proposing", "awaiting_approvals">>, <<"proposing", "failed">>,
     <<"awaiting_approvals", "executing">>,
     <<"awaiting_approvals", "failed_approval_timeout">>, <<"awaiting_approvals", "failed">>,
     <<"executing", "completed">>, <<"executing", "failed_reserve_invariant">>,
     <<"executing", "failed">>}

\* Where a step stands: polled; waiting for a receipt; about to call UpdateState;
\* about to call ReleaseAllocation; about to call UpdateStateAndEnqueue.
Stages == {"step", "sent", "advance", "release", "fail", "complete"}

Idle == [stage |-> "idle", id |-> "none", from |-> "none", to |-> "none", receipt |-> "none"]

Steps ==
    [stage : Stages, id : Allocations, from : OpenStates, to : SagaStates \cup {"none"},
     receipt : {"none", "ok", "reverted"}]

Transaction ==
    [op : {"proposeMint", "executeMint"}, id : Allocations, by : Workers \cup {"nobody"}]

-----------------------------------------------------------------------------
(* The saga repository *)

Rows == {a \in Allocations : sagas[a] # "none"}

\* The open row whose last_step_at is oldest.  The row lock FOR UPDATE SKIP
\* LOCKED takes is gone when the statement's own transaction ends, before the step.
NextPending(a) ==
    /\ sagas[a] \in OpenStates
    /\ \A b \in earlier[a] : sagas[b] \notin OpenStates

Stepped(a) ==
    [b \in Allocations |-> IF b = a THEN Rows \ {a} ELSE earlier[b] \ {a}]

\* Writes the row by its key, whatever its state has become.
UpdateState(a, state) ==
    /\ sagas' = [sagas EXCEPT ![a] = state]
    /\ earlier' = Stepped(a)
    /\ UNCHANGED overdue

\* One database transaction.
UpdateStateAndEnqueue(a, state, event) ==
    /\ Len(outbox) < MaxOutcomes
    /\ UpdateState(a, state)
    /\ outbox' = Append(outbox, [id |-> a, event |-> event])
    /\ UNCHANGED <<delivered, marked>>

-----------------------------------------------------------------------------
(* Workers *)

Handles(w, state) == worker[w].stage = "step" /\ worker[w].from = state

Goto(w, stage, to) == worker' = [worker EXCEPT ![w].stage = stage, ![w].to = to]

\* Slip, for the mutation runs: the answer is not waited for.
BroadcastDoesNotWait(w, op) ==
    /\ mempool' = Append(mempool, [op |-> op, id |-> worker[w].id, by |-> "nobody"])
    /\ IF op = "proposeMint" THEN Goto(w, "advance", "awaiting_approvals")
                             ELSE Goto(w, "complete", "completed")

compensate(w, failureState) == Goto(w, "release", failureState)

Broadcast(w, op) ==
    /\ mempool' = Append(mempool, [op |-> op, id |-> worker[w].id, by |-> w])
    /\ Goto(w, "sent", "none")

\* Signing asks the node for nonce and gas, so it and sending can fail.
SendTransaction(w, op) ==
    /\ \/ Broadcast(w, op)
       \/ compensate(w, "failed") /\ UNCHANGED mempool
    /\ UNCHANGED <<repoVars, bars, outboxVars, faults, onchain>>

ProposeMint(w) == SendTransaction(w, "proposeMint")

ExecuteMint(w) == SendTransaction(w, "executeMint")

\* Read from the latest block, whichever transaction is in flight.  The client as it is
\* built looks the answer up under a key that is not there (eth_controller.go:262), so
\* each count fails, which onAwaitingApprovals allows of any; this is the answer it means.
fetchProposal(a) == onchain[a]

ApprovalCount(a) == fetchProposal(a).approvals

\* Slip, for the mutation runs: INSERT ... ON CONFLICT DO UPDATE.
CreateMintSagaUpserts(a) ==
    /\ sagas' = [sagas EXCEPT ![a] = "created"]
    /\ earlier' = [earlier EXCEPT ![a] = Rows \ {a}]
    /\ UNCHANGED <<overdue, bars, worker, mempool, outboxVars, faults, onchain>>

\* handleOrderReadyToMint: a redelivered message fails on the unique index.
CreateMintSaga(a) ==
    /\ sagas[a] = "none"
    /\ sagas' = [sagas EXCEPT ![a] = "created"]
    /\ earlier' = [earlier EXCEPT ![a] = Rows]
    /\ UNCHANGED <<overdue, bars, worker, mempool, outboxVars, faults, onchain>>

tickOnce(w) ==
    /\ worker[w] = Idle
    /\ \E a \in Allocations :
          /\ NextPending(a)
          /\ worker' = [worker EXCEPT ![w] =
               [stage |-> "step", id |-> a, from |-> sagas[a], to |-> "none", receipt |-> "none"]]
    /\ UNCHANGED <<repoVars, bars, mempool, outboxVars, faults, onchain>>

onCreated(w) ==
    /\ Handles(w, "created")
    /\ Goto(w, "advance", "reserving_bars")
    /\ UNCHANGED <<repoVars, bars, mempool, outboxVars, faults, onchain>>

\* Slip, for the mutation runs: more bars than there are.
onReservingBarsOversells(w) ==
    /\ Handles(w, "reserving_bars")
    /\ bars' = bars \cup {worker[w].id}
    /\ Goto(w, "advance", "proposing")
    /\ UNCHANGED <<repoVars, mempool, outboxVars, faults, onchain>>

onReservingBars(w) ==
    LET reserved == bars \cup {worker[w].id}
    IN  /\ Handles(w, "reserving_bars")
        /\ \/ /\ Cardinality(reserved) <= BarStock
              /\ bars' = reserved
              /\ Goto(w, "advance", "proposing")
           \/ compensate(w, "failed_no_stock") /\ UNCHANGED bars
        /\ UNCHANGED <<repoVars, mempool, outboxVars, faults, onchain>>

onProposing(w) == Handles(w, "proposing") /\ ProposeMint(w)

\* Slip, for the mutation runs: no timeout.
onAwaitingApprovalsForever(w) ==
    LET a == worker[w].id
    IN  /\ Handles(w, "awaiting_approvals")
        /\ Goto(w, "advance", IF ApprovalCount(a) < ApprovalThreshold
                              THEN "awaiting_approvals" ELSE "executing")
        /\ UNCHANGED <<repoVars, bars, mempool, outboxVars, faults, onchain>>

\* The timeout compensates without a transaction.  A failed read leaves the row
\* as it is; too few approvals only move its last_step_at.
onAwaitingApprovals(w) ==
    LET a == worker[w].id
    IN  /\ Handles(w, "awaiting_approvals")
        /\ \/ a \in overdue /\ compensate(w, "failed_approval_timeout")
           \/ a \notin overdue /\ worker' = [worker EXCEPT ![w] = Idle]
           \/ /\ a \notin overdue
              /\ ApprovalCount(a) < ApprovalThreshold
              /\ Goto(w, "advance", "awaiting_approvals")
           \/ /\ a \notin overdue
              /\ ApprovalCount(a) >= ApprovalThreshold
              /\ Goto(w, "advance", "executing")
        /\ UNCHANGED <<repoVars, bars, mempool, outboxVars, faults, onchain>>

onExecuting(w) == Handles(w, "executing") /\ ExecuteMint(w)

\* Slips, for the mutation runs: a missing receipt is taken for a failure; the
\* receipt's status is not looked at.
WaitReceiptGivesUp(w) ==
    /\ worker[w].stage = "sent"
    /\ \/ /\ worker[w].receipt = "ok" /\ worker[w].from = "proposing"
          /\ Goto(w, "advance", "awaiting_approvals")
       \/ /\ worker[w].receipt = "ok" /\ worker[w].from = "executing"
          /\ Goto(w, "complete", "completed")
       \/ worker[w].receipt # "ok" /\ compensate(w, "failed")
    /\ UNCHANGED <<repoVars, bars, mempool, outboxVars, faults, onchain>>

WaitReceiptIgnoresStatus(w) ==
    /\ worker[w].stage = "sent" /\ worker[w].receipt # "none"
    /\ \/ worker[w].from = "proposing" /\ Goto(w, "advance", "awaiting_approvals")
       \/ worker[w].from = "executing" /\ Goto(w, "complete", "completed")
    /\ UNCHANGED <<repoVars, bars, mempool, outboxVars, faults, onchain>>

\* signBroadcastWait with a receipt: status 0 is ErrTxReverted.
WaitReceipt(w) ==
    /\ worker[w].stage = "sent"
    /\ \/ /\ worker[w].receipt = "ok" /\ worker[w].from = "proposing"
          /\ Goto(w, "advance", "awaiting_approvals")
       \/ /\ worker[w].receipt = "ok" /\ worker[w].from = "executing"
          /\ Goto(w, "complete", "completed")
       \/ worker[w].receipt = "reverted" /\ compensate(w, "failed")
    /\ UNCHANGED <<repoVars, bars, mempool, outboxVars, faults, onchain>>

\* advance, and touch when the state stays.
advance(w) ==
    /\ worker[w].stage = "advance"
    /\ worker[w].to # worker[w].from => <<worker[w].from, worker[w].to>> \in MintStateTransition
    /\ UpdateState(worker[w].id, worker[w].to)
    /\ worker' = [worker EXCEPT ![w] = Idle]
    /\ UNCHANGED <<bars, mempool, outboxVars, faults, onchain>>

\* compensate, first half.
ReleaseAllocation(w) ==
    /\ worker[w].stage = "release"
    /\ bars' = bars \ {worker[w].id}
    /\ Goto(w, "fail", worker[w].to)
    /\ UNCHANGED <<repoVars, mempool, outboxVars, faults, onchain>>

\* compensate, second half: no check of the transition.
failSaga(w) ==
    /\ worker[w].stage = "fail"
    /\ UpdateStateAndEnqueue(worker[w].id, worker[w].to, "mint.failed")
    /\ worker' = [worker EXCEPT ![w] = Idle]
    /\ UNCHANGED <<bars, mempool, faults, onchain>>

completeSaga(w) ==
    /\ worker[w].stage = "complete"
    /\ UpdateStateAndEnqueue(worker[w].id, "completed", "mint.executed")
    /\ worker' = [worker EXCEPT ![w] = Idle]
    /\ UNCHANGED <<bars, mempool, faults, onchain>>

WorkerStep(w) ==
    \/ tickOnce(w)
    \/ onCreated(w)
    \/ onReservingBars(w)
    \/ onProposing(w)
    \/ onAwaitingApprovals(w)
    \/ onExecuting(w)
    \/ WaitReceipt(w)
    \/ advance(w)
    \/ ReleaseAllocation(w)
    \/ failSaga(w)
    \/ completeSaga(w)

-----------------------------------------------------------------------------
(* Faults *)

Fault(kind) ==
    kind \in FaultKinds /\ faults < MaxFaults /\ faults' = faults + 1

\* Nobody waits any more for the transaction a worker had in flight.
Abandoned(w) ==
    [i \in DOMAIN mempool |-> IF mempool[i].by = w THEN [mempool[i] EXCEPT !.by = "nobody"]
                                                   ELSE mempool[i]]

\* The process dies and restarts, or its database write fails and the step is
\* given up: the copy is lost, what was sent stays sent.
Crash(w) ==
    /\ worker[w] # Idle
    /\ Fault("crash")
    /\ worker' = [worker EXCEPT ![w] = Idle]
    /\ mempool' = Abandoned(w)
    /\ UNCHANGED <<repoVars, bars, outboxVars, onchain>>

\* SendTx or the receipt query fails after the node has taken the transaction.
ReceiptLost(w) ==
    /\ worker[w].stage = "sent"
    /\ Fault("receipt")
    /\ compensate(w, "failed")
    /\ mempool' = Abandoned(w)
    /\ UNCHANGED <<repoVars, bars, outboxVars, onchain>>

\* ReleaseAllocation fails: logged, and the compensation goes on.
ReleaseFails(w) ==
    /\ worker[w].stage = "release"
    /\ Fault("release")
    /\ Goto(w, "fail", worker[w].to)
    /\ UNCHANGED <<repoVars, bars, mempool, outboxVars, onchain>>

-----------------------------------------------------------------------------
(* The chain: transactions are mined in nonce order *)

Answered(tx, receipt) ==
    IF tx.by \in Workers THEN [worker EXCEPT ![tx.by].receipt = receipt] ELSE worker

MineTransaction ==
    /\ mempool # <<>>
    /\ LET tx == Head(mempool)
       IN  \/ /\ IF tx.op = "proposeMint" THEN Propose(tx.id) ELSE Execute(tx.id)
              /\ worker' = Answered(tx, "ok")
           \/ /\ UNCHANGED onchain
              /\ worker' = Answered(tx, "reverted")
    /\ mempool' = Tail(mempool)
    /\ UNCHANGED <<repoVars, bars, outboxVars, faults>>

\* Approvers vote; an officer may cancel.
OfficersAct ==
    /\ \E a \in Allocations :
          \/ onchain[a].approvals < MaxApprovals /\ Approve(a)
          \/ Cancel(a)
    /\ UNCHANGED <<repoVars, bars, worker, mempool, outboxVars, faults>>

-----------------------------------------------------------------------------
(* The outbox relay and the clock *)

Unmarked(i) == i \in DOMAIN outbox \ marked /\ \A j \in 1..(i - 1) : j \in marked

\* drain stops at the first row it cannot publish or mark.
PublishRow ==
    /\ \E i \in DOMAIN outbox : Unmarked(i) /\ i \notin delivered /\ delivered' = delivered \cup {i}
    /\ UNCHANGED <<repoVars, bars, worker, mempool, outbox, marked, faults, onchain>>

MarkPublished ==
    /\ \E i \in delivered : Unmarked(i) /\ marked' = marked \cup {i}
    /\ UNCHANGED <<repoVars, bars, worker, mempool, outbox, delivered, faults, onchain>>

\* ApprovalTimeout has passed since the saga started.
TimePasses(a) ==
    /\ sagas[a] \in OpenStates /\ a \notin overdue
    /\ overdue' = overdue \cup {a}
    /\ UNCHANGED <<sagas, earlier, bars, worker, mempool, outboxVars, faults, onchain>>

-----------------------------------------------------------------------------
Init ==
    /\ ProposalsInit
    /\ sagas = [a \in Allocations |-> "none"]
    /\ earlier = [a \in Allocations |-> {}]
    /\ overdue = {} /\ bars = {}
    /\ worker = [w \in Workers |-> Idle]
    /\ mempool = <<>>
    /\ outbox = <<>> /\ delivered = {} /\ marked = {}
    /\ faults = 0

Next ==
    \/ \E a \in Allocations : CreateMintSaga(a) \/ TimePasses(a)
    \/ \E w \in Workers : WorkerStep(w)
    \/ \E w \in Workers : Crash(w) \/ ReceiptLost(w) \/ ReleaseFails(w)
    \/ MineTransaction
    \/ OfficersAct
    \/ PublishRow
    \/ MarkPublished

\* Every worker keeps ticking, the relay keeps draining, the clock runs, and a
\* transaction in the pool is mined in the end.  Officers owe nothing.
Fairness ==
    /\ \A w \in Workers : WF_vars(WorkerStep(w))
    /\ \A a \in Allocations : WF_vars(TimePasses(a))
    /\ WF_vars(MineTransaction)
    /\ WF_vars(PublishRow) /\ WF_vars(MarkPublished)

Spec == Init /\ [][Next]_vars

FairSpec == Spec /\ Fairness

-----------------------------------------------------------------------------
(* Invariants *)

\* The state is well typed, and the vault never backs more than it holds.
SagaTypeOK ==
    /\ onchain \in [Allocations -> [status : Statuses, approvals : Nat]]
    /\ sagas \in [Allocations -> SagaStates \cup {"none"}]
    /\ earlier \in [Allocations -> SUBSET Allocations]
    /\ overdue \subseteq Allocations
    /\ bars \subseteq Allocations /\ Cardinality(bars) <= BarStock
    /\ worker \in [Workers -> Steps \cup {Idle}]
    /\ mempool \in Seq(Transaction)
    /\ outbox \in Seq([id : Allocations, event : {"mint.executed", "mint.failed"}])
    /\ marked \subseteq delivered /\ delivered \subseteq DOMAIN outbox
    /\ faults \in 0..MaxFaults

Minted(a) == onchain[a].status = "EXECUTED"

\* A failed saga's order is refunded, so its tokens must not exist and its bars are
\* free again, and every executed mint keeps the bars reserved for it: whatever order
\* receipts, timeouts and officers come in, no saga fails once minted.  One crash is
\* enough to break it (a repeated executeMint reverts and fails the saga that has
\* minted), so it is claimed for as long as nothing went wrong.
BarsAndRefundsFollowTheMint ==
    faults = 0 =>
        \A a \in Allocations :
            /\ Minted(a) => a \in bars
            /\ sagas[a] \in FailedStates => ~Minted(a) /\ a \notin bars

\* Nothing ever announces a mint that did not happen, with any number of
\* workers, crashes and lost receipts.
AnnouncedMintIsReal ==
    \A i \in DOMAIN outbox : outbox[i].event = "mint.executed" => Minted(outbox[i].id)

-----------------------------------------------------------------------------
(* Action properties *)

\* A finished saga is never written again.
TerminalIsFinal ==
    [][\A a \in Allocations : IsTerminal(sagas[a]) => sagas'[a] = sagas[a]]_vars

\* Votes are never wiped under a saga that waits for them or executes on them: a
\* repeated or late proposeMint lands before its saga leaves "proposing".
ApprovalsKept ==
    [][\A a \in Allocations : onchain'[a].approvals < onchain[a].approvals =>
          sagas[a] \notin {"awaiting_approvals", "executing"}]_vars

-----------------------------------------------------------------------------
(* Refinement *)

OutcomeOf(state) ==
    CASE state = "none" -> "none"
      [] state \in OpenStates -> "open"
      [] state = "completed" -> "completed"
      [] state \in FailedStates -> "failed"

Promise == INSTANCE MintOutcomes WITH
    outcome   <- [a \in Allocations |-> OutcomeOf(sagas[a])],
    announced <- {[subject |-> outbox[i].event, id |-> outbox[i].id] : i \in delivered}

\* With one worker the service keeps what the order service builds on: an order
\* has one saga, a saga one outcome, and the bus hears that one, through every
\* crash, retry and repeated step.
ImplementsOutcomes == Promise!OutcomesSpec

-----------------------------------------------------------------------------
(* Liveness *)

\* No saga waits for ever, not behind one whose reads keep failing either, and the
\* outcome of each reaches the event bus in the end.
EverySagaIsAnnounced ==
    \A a \in Allocations : sagas[a] # "none" ~> \E i \in delivered : outbox[i].id = a

-----------------------------------------------------------------------------
(* What the service's documentation says and the code does not do *)

\* mint-burn.md, section 9: when an execution cannot be submitted it is retried,
\* and only one that reverts is refunded.
RefundedNeverMints == \A a \in Allocations : sagas[a] \in FailedStates => ~Minted(a)
=============================================================================
