-------------------------- MODULE MintSaga_proofs --------------------------
(***************************************************************************)
(* Proofs about MintSaga, for every set of allocations and workers, every  *)
(* threshold, stock and bound, and every kind and number of faults.        *)
(***************************************************************************)
EXTENDS MintSaga, TLAPS, FiniteSetTheorems, SequenceTheorems

-----------------------------------------------------------------------------
(* Types *)

\* The fields of a step under way.
LEMMA StepFields ==
    ASSUME worker \in [Workers -> Steps \cup {Idle}], NEW w \in Workers,
           worker[w].stage # "idle"
    PROVE  /\ worker[w] \in Steps /\ worker[w] # Idle
           /\ worker[w].stage \in Stages /\ worker[w].id \in Allocations
           /\ worker[w].from \in OpenStates /\ worker[w].to \in SagaStates \cup {"none"}
           /\ worker[w].receipt \in {"none", "ok", "reverted"}
  <1>1. worker[w] # Idle
    BY DEF Idle
  <1>2. worker[w] \in Steps
    BY <1>1
  <1> QED BY <1>1, <1>2 DEF Steps

\* A step under way is no idle record.
LEMMA StepsAreBusy ==
    ASSUME worker \in [Workers -> Steps \cup {Idle}], NEW w \in Workers, worker[w] # Idle
    PROVE  worker[w].stage # "idle"
  BY DEF Steps, Stages

\* What Goto changes, and what it leaves alone.
LEMMA GotoFields ==
    ASSUME worker \in [Workers -> Steps \cup {Idle}], NEW w \in Workers,
           worker[w].stage # "idle",
           NEW stage \in Stages, NEW to \in SagaStates \cup {"none"}, Goto(w, stage, to)
    PROVE  /\ worker' \in [Workers -> Steps \cup {Idle}]
           /\ worker'[w].stage = stage /\ worker'[w].to = to
           /\ worker'[w].id = worker[w].id /\ worker'[w].from = worker[w].from
           /\ worker'[w].receipt = worker[w].receipt
           /\ \A v \in Workers \ {w} : worker'[v] = worker[v]
  <1>1. worker[w] \in Steps
    BY StepFields
  <1>2. worker'[w] = [worker[w] EXCEPT !.stage = stage, !.to = to]
    BY DEF Goto
  <1>3. worker'[w] = [stage |-> stage, id |-> worker[w].id, from |-> worker[w].from,
                      to |-> to, receipt |-> worker[w].receipt]
    BY <1>1, <1>2 DEF Steps
  <1>4. worker'[w] \in Steps
    BY <1>1, <1>3 DEF Steps
  <1>5. \A v \in Workers \ {w} : worker'[v] = worker[v]
    BY DEF Goto
  <1>6. DOMAIN worker' = Workers
    BY DEF Goto
  <1>7. worker' = [v \in Workers |-> worker'[v]]
    BY <1>6 DEF Goto
  <1> HIDE DEF Steps, Idle
  <1>8. worker' \in [Workers -> Steps \cup {Idle}]
    BY <1>4, <1>5, <1>7
  <1> QED BY <1>3, <1>5, <1>8

\* A worker that finishes or dies becomes idle, the others go on.
LEMMA IdleFields ==
    ASSUME worker \in [Workers -> Steps \cup {Idle}], NEW w \in Workers,
           worker' = [worker EXCEPT ![w] = Idle]
    PROVE  /\ worker' \in [Workers -> Steps \cup {Idle}]
           /\ worker'[w] = Idle
           /\ \A v \in Workers \ {w} : worker'[v] = worker[v]
  <1> HIDE DEF Steps, Idle
  <1> QED OBVIOUS

\* Two ways the pool changes keep it a sequence of transactions.
LEMMA PoolAppend ==
    ASSUME mempool \in Seq(Transaction), NEW tx \in Transaction,
           mempool' = Append(mempool, tx)
    PROVE  /\ mempool' \in Seq(Transaction)
           /\ Len(mempool) \in Nat /\ Len(mempool') = Len(mempool) + 1
           /\ DOMAIN mempool = 1..Len(mempool) /\ DOMAIN mempool' = 1..(Len(mempool) + 1)
           /\ mempool'[Len(mempool) + 1] = tx
           /\ \A i \in DOMAIN mempool : mempool'[i] = mempool[i]
  <1> HIDE DEF Transaction
  <1> QED BY LenProperties

LEMMA PoolTail ==
    ASSUME mempool \in Seq(Transaction), mempool # <<>>, mempool' = Tail(mempool)
    PROVE  /\ mempool' \in Seq(Transaction)
           /\ Len(mempool) \in Nat \ {0} /\ Len(mempool') = Len(mempool) - 1
           /\ DOMAIN mempool = 1..Len(mempool) /\ DOMAIN mempool' = 1..(Len(mempool) - 1)
           /\ Head(mempool) = mempool[1] /\ mempool[1] \in Transaction
           /\ \A i \in DOMAIN mempool' : mempool'[i] = mempool[i + 1]
  <1> HIDE DEF Transaction
  <1> QED BY LenProperties, EmptySeq, HeadTailProperties

\* Abandoned only forgets who sent a transaction.
LEMMA PoolAbandoned ==
    ASSUME mempool \in Seq(Transaction), NEW w \in Workers, mempool' = Abandoned(w)
    PROVE  /\ mempool' \in Seq(Transaction)
           /\ Len(mempool) \in Nat /\ Len(mempool') = Len(mempool)
           /\ DOMAIN mempool' = DOMAIN mempool /\ DOMAIN mempool = 1..Len(mempool)
           /\ \A i \in DOMAIN mempool :
                 /\ mempool'[i].op = mempool[i].op /\ mempool'[i].id = mempool[i].id
                 /\ mempool[i].by = w => mempool'[i].by = "nobody"
                 /\ mempool[i].by # w => mempool'[i].by = mempool[i].by
  <1>1. DOMAIN mempool = 1..Len(mempool) /\ Len(mempool) \in Nat
    BY LenProperties
  <1>2. \A i \in DOMAIN mempool : mempool[i] \in Transaction
    <2> HIDE DEF Transaction
    <2> QED BY <1>1
  <1>3. DOMAIN mempool' = DOMAIN mempool
    BY DEF Abandoned
  <1>4. ASSUME NEW i \in DOMAIN mempool
        PROVE  /\ mempool'[i] \in Transaction
               /\ mempool'[i].op = mempool[i].op /\ mempool'[i].id = mempool[i].id
               /\ mempool[i].by = w => mempool'[i].by = "nobody"
               /\ mempool[i].by # w => mempool'[i].by = mempool[i].by
    <2>1. mempool[i] \in Transaction
      BY <1>2
    <2>2. CASE mempool[i].by = w
      <3>1. mempool'[i] = [mempool[i] EXCEPT !.by = "nobody"]
        BY <2>2 DEF Abandoned
      <3> QED BY <2>1, <2>2, <3>1 DEF Transaction
    <2>3. CASE mempool[i].by # w
      BY <2>1, <2>3 DEF Abandoned
    <2> QED BY <2>2, <2>3
  <1>5. mempool' = [i \in 1..Len(mempool) |-> mempool'[i]]
    BY <1>1 DEF Abandoned
  <1>6. mempool' \in Seq(Transaction) /\ Len(mempool') = Len(mempool)
    <2> HIDE DEF Transaction
    <2>1. mempool' \in [1..Len(mempool) -> Transaction]
      BY <1>1, <1>4, <1>5
    <2> QED BY <1>1, <2>1
  <1> QED BY <1>1, <1>3, <1>4, <1>6

\* UpdateState keeps the saga table well typed.
LEMMA RowTypes ==
    ASSUME SagaTypeOK, NEW a \in Allocations, NEW state \in SagaStates \cup {"none"},
           UpdateState(a, state)
    PROVE  /\ sagas' \in [Allocations -> SagaStates \cup {"none"}]
           /\ earlier' \in [Allocations -> SUBSET Allocations]
           /\ overdue' \subseteq Allocations
           /\ sagas'[a] = state
           /\ \A b \in Allocations \ {a} : sagas'[b] = sagas[b]
  <1>1. /\ sagas \in [Allocations -> SagaStates \cup {"none"}]
        /\ earlier \in [Allocations -> SUBSET Allocations]
        /\ overdue \subseteq Allocations
    BY DEF SagaTypeOK
  <1>2. /\ sagas' = [sagas EXCEPT ![a] = state]
        /\ earlier' = [b \in Allocations |-> IF b = a THEN Rows \ {a} ELSE earlier[b] \ {a}]
        /\ overdue' = overdue
    BY DEF UpdateState, Stepped
  <1>3. earlier' \in [Allocations -> SUBSET Allocations]
    BY <1>1, <1>2 DEF Rows
  <1> QED BY <1>1, <1>2, <1>3

OutboxRow == [id : Allocations, event : {"mint.executed", "mint.failed"}]

\* UpdateStateAndEnqueue adds one row to the outbox.
LEMMA OutboxTypes ==
    ASSUME SagaTypeOK, NEW a \in Allocations, NEW state \in SagaStates \cup {"none"},
           NEW event \in {"mint.executed", "mint.failed"},
           UpdateStateAndEnqueue(a, state, event)
    PROVE  /\ outbox' \in Seq(OutboxRow)
           /\ marked' = marked /\ delivered' = delivered
           /\ marked \subseteq delivered /\ delivered \subseteq DOMAIN outbox
           /\ DOMAIN outbox \subseteq DOMAIN outbox'
           /\ DOMAIN outbox' = DOMAIN outbox \cup {Len(outbox) + 1}
           /\ Len(outbox) + 1 \notin DOMAIN outbox
           /\ outbox'[Len(outbox) + 1].id = a /\ outbox'[Len(outbox) + 1].event = event
           /\ \A i \in DOMAIN outbox : outbox'[i] = outbox[i] /\ outbox[i] \in OutboxRow
  <1> DEFINE row == [id |-> a, event |-> event]
  <1>1. /\ outbox \in Seq(OutboxRow)
        /\ marked \subseteq delivered /\ delivered \subseteq DOMAIN outbox
    BY DEF SagaTypeOK, OutboxRow
  <1>2. row \in OutboxRow /\ row.id = a /\ row.event = event
    BY DEF OutboxRow
  <1>3. outbox' = Append(outbox, row) /\ marked' = marked /\ delivered' = delivered
    BY DEF UpdateStateAndEnqueue
  <1> HIDE DEF row
  <1>4. /\ outbox' \in Seq(OutboxRow)
        /\ Len(outbox) \in Nat
        /\ DOMAIN outbox = 1..Len(outbox) /\ DOMAIN outbox' = 1..(Len(outbox) + 1)
        /\ outbox'[Len(outbox) + 1] = row
        /\ \A i \in DOMAIN outbox : outbox'[i] = outbox[i] /\ outbox[i] \in OutboxRow
    BY <1>1, <1>2, <1>3, LenProperties
  <1>5. /\ DOMAIN outbox' = DOMAIN outbox \cup {Len(outbox) + 1}
        /\ Len(outbox) + 1 \notin DOMAIN outbox
    BY <1>4
  <1> QED BY <1>1, <1>2, <1>3, <1>4, <1>5

\* What a transaction of the mint controller does to one proposal.
LEMMA ChainTypes ==
    ASSUME onchain \in [Allocations -> [status : Statuses, approvals : Nat]],
           NEW a \in Allocations, Propose(a) \/ Approve(a) \/ Execute(a) \/ Cancel(a)
    PROVE  /\ onchain' \in [Allocations -> [status : Statuses, approvals : Nat]]
           /\ \A b \in Allocations \ {a} : onchain'[b] = onchain[b]
           /\ Minted(a) => Minted(a)'
           /\ ~Execute(a) => (Minted(a)' => Minted(a))
           /\ ~Propose(a) => onchain'[a].approvals >= onchain[a].approvals
           /\ Execute(a) => Minted(a)'
           /\ Minted(a)' <=> onchain'[a].status = "EXECUTED"
  <1> DEFINE Proposals == [status : Statuses, approvals : Nat]
  <1>1. onchain[a] \in Proposals
    OBVIOUS
  <1>2. onchain[a].status \in Statuses /\ onchain[a].approvals \in Nat
    BY <1>1
  <1>3. /\ onchain'[a] \in Proposals
        /\ onchain[a].status # "EXECUTED"
        /\ ~Execute(a) => onchain'[a].status # "EXECUTED"
        /\ ~Propose(a) => onchain'[a].approvals >= onchain[a].approvals
        /\ Execute(a) => onchain'[a].status = "EXECUTED"
    <2>1. CASE Propose(a)
      <3>1. onchain'[a] = [status |-> "PROPOSED", approvals |-> 0]
        BY <2>1 DEF Propose
      <3>2. ~Execute(a)
        <4>1. Execute(a) => onchain'[a] = [onchain[a] EXCEPT !.status = "EXECUTED"]
          BY DEF Execute
        <4> QED BY <1>1, <3>1, <4>1
      <3> QED BY <2>1, <3>1, <3>2 DEF Propose, Statuses
    <2>2. CASE Approve(a)
      <3>1. onchain'[a] = [onchain[a] EXCEPT !.approvals = onchain[a].approvals + 1]
        BY <2>2 DEF Approve
      <3>2. onchain'[a] = [status |-> "PROPOSED", approvals |-> onchain[a].approvals + 1]
        BY <1>1, <2>2, <3>1 DEF Approve
      <3>3. ~Execute(a)
        <4>1. Execute(a) => onchain'[a] = [onchain[a] EXCEPT !.status = "EXECUTED"]
          BY DEF Execute
        <4> QED BY <1>1, <3>2, <4>1
      <3> QED BY <1>2, <2>2, <3>2, <3>3 DEF Approve, Statuses
    <2>3. CASE Execute(a)
      <3>1. onchain'[a] = [onchain[a] EXCEPT !.status = "EXECUTED"]
        BY <2>3 DEF Execute
      <3>2. onchain'[a] = [status |-> "EXECUTED", approvals |-> onchain[a].approvals]
        BY <1>1, <3>1
      <3> QED BY <1>2, <2>3, <3>2 DEF Execute, Statuses
    <2>4. CASE Cancel(a)
      <3>1. onchain'[a] = [onchain[a] EXCEPT !.status = "CANCELLED"]
        BY <2>4 DEF Cancel
      <3>2. onchain'[a] = [status |-> "CANCELLED", approvals |-> onchain[a].approvals]
        BY <1>1, <3>1
      <3>3. ~Execute(a)
        <4>1. Execute(a) => onchain'[a] = [onchain[a] EXCEPT !.status = "EXECUTED"]
          BY DEF Execute
        <4> QED BY <1>1, <3>2, <4>1
      <3> QED BY <1>2, <2>4, <3>2, <3>3 DEF Cancel, Statuses
    <2> QED BY <2>1, <2>2, <2>3, <2>4
  <1>4. \A b \in Allocations \ {a} : onchain'[b] = onchain[b]
    BY DEF Propose, Approve, Execute, Cancel
  <1>5. onchain' = [b \in Allocations |-> onchain'[b]]
    BY DEF Propose, Approve, Execute, Cancel
  <1> HIDE DEF Proposals
  <1>6. onchain' \in [Allocations -> Proposals]
    BY <1>3, <1>4, <1>5 DEF Proposals
  <1> QED BY <1>3, <1>4, <1>6 DEF Minted, Proposals

\* A receipt reaches the worker that waits for it, and no other field changes.
LEMMA AnsweredFields ==
    ASSUME worker \in [Workers -> Steps \cup {Idle}], NEW tx \in Transaction,
           NEW receipt \in {"ok", "reverted"}, worker' = Answered(tx, receipt),
           tx.by \in Workers => worker[tx.by].stage # "idle"
    PROVE  /\ worker' \in [Workers -> Steps \cup {Idle}]
           /\ \A v \in Workers :
                 /\ worker'[v].stage = worker[v].stage /\ worker'[v].id = worker[v].id
                 /\ worker'[v].from = worker[v].from /\ worker'[v].to = worker[v].to
                 /\ v = tx.by => worker'[v].receipt = receipt
                 /\ v # tx.by => worker'[v] = worker[v]
  <1>1. CASE tx.by \in Workers
    <2> DEFINE w == tx.by
    <2>1. worker[w] \in Steps
      BY <1>1, StepFields
    <2>2. worker' = [worker EXCEPT ![w].receipt = receipt]
      BY <1>1 DEF Answered
    <2>3. worker'[w] = [worker[w] EXCEPT !.receipt = receipt]
      BY <1>1, <2>2
    <2>4. worker'[w] = [stage |-> worker[w].stage, id |-> worker[w].id,
                        from |-> worker[w].from, to |-> worker[w].to, receipt |-> receipt]
      BY <2>1, <2>3 DEF Steps
    <2>5. worker'[w] \in Steps
      BY <2>1, <2>4 DEF Steps
    <2>6. worker' = [v \in Workers |-> worker'[v]] /\ \A v \in Workers \ {w} : worker'[v] = worker[v]
      BY <2>2
    <2> HIDE DEF w
    <2>7. worker' \in [Workers -> Steps \cup {Idle}]
      <3> HIDE DEF Steps, Idle
      <3> QED BY <2>5, <2>6
    <2>8. \A v \in Workers :
             /\ worker'[v].stage = worker[v].stage /\ worker'[v].id = worker[v].id
             /\ worker'[v].from = worker[v].from /\ worker'[v].to = worker[v].to
             /\ v = w => worker'[v].receipt = receipt
             /\ v # w => worker'[v] = worker[v]
      BY <2>4, <2>6
    <2> QED BY <2>7, <2>8 DEF w
  <1>2. CASE tx.by \notin Workers
    BY <1>2 DEF Answered
  <1> QED BY <1>1, <1>2

\* Every step of a worker leaves well-typed copies behind.
LEMMA WorkerTypes ==
    ASSUME SagaTypeOK, NEW w \in Workers,
           WorkerStep(w) \/ Crash(w) \/ ReceiptLost(w) \/ ReleaseFails(w)
    PROVE  /\ worker' \in [Workers -> Steps \cup {Idle}]
           /\ \A v \in Workers \ {w} : worker'[v] = worker[v]
           /\ worker[w] # Idle => worker'[w] = Idle \/ /\ worker'[w].id = worker[w].id
                                                       /\ worker'[w].from = worker[w].from
                                                       /\ worker'[w].receipt = worker[w].receipt
  <1>0. worker \in [Workers -> Steps \cup {Idle}]
    BY DEF SagaTypeOK
  <1>1. CASE worker' = [worker EXCEPT ![w] = Idle]
    BY <1>0, <1>1, IdleFields
  <1>2. CASE /\ worker[w].stage # "idle"
             /\ \E stage \in Stages, to \in SagaStates \cup {"none"} : Goto(w, stage, to)
    BY <1>0, <1>2, GotoFields
  <1>3. CASE tickOnce(w)
    <2>1. PICK a \in Allocations :
             /\ sagas[a] \in OpenStates
             /\ worker' = [worker EXCEPT ![w] = [stage |-> "step", id |-> a, from |-> sagas[a],
                                                 to |-> "none", receipt |-> "none"]]
      BY <1>3 DEF tickOnce, NextPending
    <2>2. [stage |-> "step", id |-> a, from |-> sagas[a], to |-> "none", receipt |-> "none"] \in Steps
      BY <2>1 DEF Steps, Stages
    <2>3. worker[w] = Idle
      BY <1>3 DEF tickOnce
    <2> HIDE DEF Steps, Idle
    <2> QED BY <1>0, <2>1, <2>2, <2>3
  <1>4. CASE onCreated(w)
    BY <1>2, <1>4 DEF onCreated, Handles, Stages, SagaStates, OpenStates
  <1>5. CASE onReservingBars(w)
    BY <1>2, <1>5 DEF onReservingBars, Handles, compensate, Stages, SagaStates, OpenStates,
                      TerminalStates, FailedStates
  <1>6. CASE onProposing(w) \/ onExecuting(w)
    BY <1>2, <1>6 DEF onProposing, onExecuting, ProposeMint, ExecuteMint, SendTransaction, Broadcast,
                      Handles, compensate, Stages, SagaStates, TerminalStates, FailedStates
  <1>7. CASE onAwaitingApprovals(w)
    BY <1>1, <1>2, <1>7 DEF onAwaitingApprovals, Handles, compensate, Stages, SagaStates, OpenStates,
                            TerminalStates, FailedStates
  <1>8. CASE WaitReceipt(w)
    BY <1>2, <1>8 DEF WaitReceipt, compensate, Stages, SagaStates, OpenStates,
                      TerminalStates, FailedStates
  <1>9. CASE advance(w) \/ failSaga(w) \/ completeSaga(w) \/ Crash(w)
    BY <1>1, <1>9 DEF advance, failSaga, completeSaga, Crash
  <1>10. CASE ReleaseAllocation(w) \/ ReleaseFails(w)
    <2>1. worker[w].stage = "release" /\ Goto(w, "fail", worker[w].to)
      BY <1>10 DEF ReleaseAllocation, ReleaseFails
    <2>2. worker[w].to \in SagaStates \cup {"none"}
      BY <1>0, <2>1, StepFields
    <2> QED BY <1>2, <2>1, <2>2 DEF Stages
  <1>11. CASE ReceiptLost(w)
    BY <1>2, <1>11 DEF ReceiptLost, compensate, Stages, SagaStates, TerminalStates, FailedStates
  <1> QED BY <1>3, <1>4, <1>5, <1>6, <1>7, <1>8, <1>9, <1>10, <1>11 DEF WorkerStep

-----------------------------------------------------------------------------
(* Any number of workers and faults *)

\* A transaction that names a worker is the one that worker waits for, and is
\* the last it has sent.
PoolMatchesWorkers ==
    \A i \in DOMAIN mempool : mempool[i].by \in Workers =>
        /\ worker[mempool[i].by].stage = "sent"
        /\ worker[mempool[i].by].receipt = "none"
        /\ worker[mempool[i].by].id = mempool[i].id
        /\ worker[mempool[i].by].from \in {"proposing", "executing"}
        /\ (mempool[i].op = "executeMint") <=> (worker[mempool[i].by].from = "executing")
        /\ \A j \in DOMAIN mempool : mempool[j].by = mempool[i].by => j = i

\* A receipt of success is that of the worker's own transaction.
ReceiptsAreTrue ==
    \A w \in Workers :
        /\ worker[w].stage = "step" => worker[w].receipt = "none"
        /\ worker[w].stage = "complete" => Minted(worker[w].id)
        /\ worker[w].stage = "sent" /\ worker[w].from = "executing" /\ worker[w].receipt = "ok" =>
              Minted(worker[w].id)

\* The inductive invariant: what a worker believes of its transaction has to be
\* true for what it announces to be.
SagaInv == SagaTypeOK /\ PoolMatchesWorkers /\ ReceiptsAreTrue /\ AnnouncedMintIsReal

LEMMA SagaInit ==
    ASSUME Init
    PROVE  SagaInv
  <1>1. onchain \in [Allocations -> [status : Statuses, approvals : Nat]]
    BY DEF Init, ProposalsInit, Statuses
  <1>2. Cardinality(bars) <= BarStock
    BY FS_EmptySet, SagaAssumption DEF Init
  <1>3. worker \in [Workers -> Steps \cup {Idle}]
    BY DEF Init
  <1>4. mempool \in Seq(Transaction) /\ DOMAIN mempool = {}
    BY EmptySeq DEF Init
  <1>5. /\ outbox \in Seq([id : Allocations, event : {"mint.executed", "mint.failed"}])
        /\ DOMAIN outbox = {}
    BY EmptySeq DEF Init
  <1>6. SagaTypeOK
    BY <1>1, <1>2, <1>3, <1>4, <1>5, SagaAssumption DEF Init, SagaTypeOK
  <1>7. ReceiptsAreTrue
    BY DEF Init, Idle, ReceiptsAreTrue
  <1> QED BY <1>4, <1>5, <1>6, <1>7 DEF SagaInv, PoolMatchesWorkers, AnnouncedMintIsReal

\* The transaction mined next, and the proposal it is about.
LEMMA MinedTransaction ==
    ASSUME SagaInv, MineTransaction
    PROVE  /\ Head(mempool) \in Transaction
           /\ Head(mempool) = mempool[1] /\ 1 \in DOMAIN mempool
           /\ mempool' \in Seq(Transaction)
           /\ \A i \in DOMAIN mempool' : i + 1 \in DOMAIN mempool /\ i + 1 # 1 /\ mempool'[i] = mempool[i + 1]
           /\ worker' \in [Workers -> Steps \cup {Idle}]
           /\ \E receipt \in {"ok", "reverted"} :
                 /\ receipt = "reverted" => UNCHANGED onchain
                 /\ receipt = "ok" => IF Head(mempool).op = "proposeMint" THEN Propose(Head(mempool).id)
                                                                          ELSE Execute(Head(mempool).id)
                 /\ \A v \in Workers :
                       /\ worker'[v].stage = worker[v].stage /\ worker'[v].id = worker[v].id
                       /\ worker'[v].from = worker[v].from /\ worker'[v].to = worker[v].to
                       /\ v = Head(mempool).by => worker'[v].receipt = receipt
                       /\ v # Head(mempool).by => worker'[v] = worker[v]
           /\ UNCHANGED <<repoVars, bars, outboxVars, faults>>
  <1> DEFINE tx == Head(mempool)
  <1>1. /\ worker \in [Workers -> Steps \cup {Idle}]
        /\ mempool \in Seq(Transaction)
    BY DEF SagaInv, SagaTypeOK
  <1>2. mempool # <<>> /\ mempool' = Tail(mempool) /\ UNCHANGED <<repoVars, bars, outboxVars, faults>>
    BY DEF MineTransaction
  <1>3. /\ mempool' \in Seq(Transaction)
        /\ Len(mempool) \in Nat \ {0}
        /\ DOMAIN mempool = 1..Len(mempool) /\ DOMAIN mempool' = 1..(Len(mempool) - 1)
        /\ tx = mempool[1] /\ tx \in Transaction
        /\ \A i \in DOMAIN mempool' : mempool'[i] = mempool[i + 1]
    BY <1>1, <1>2, PoolTail
  <1>4. 1 \in DOMAIN mempool /\ \A i \in DOMAIN mempool' : i + 1 \in DOMAIN mempool /\ i + 1 # 1
    BY <1>3
  <1>5. tx.by \in Workers => worker[tx.by].stage # "idle"
    BY <1>3, <1>4 DEF SagaInv, PoolMatchesWorkers
  <1>6. PICK receipt \in {"ok", "reverted"} :
            /\ worker' = Answered(tx, receipt)
            /\ receipt = "reverted" => UNCHANGED onchain
            /\ receipt = "ok" => IF tx.op = "proposeMint" THEN Propose(tx.id) ELSE Execute(tx.id)
    BY DEF MineTransaction
  <1> HIDE DEF tx
  <1>7. /\ worker' \in [Workers -> Steps \cup {Idle}]
        /\ \A v \in Workers :
              /\ worker'[v].stage = worker[v].stage /\ worker'[v].id = worker[v].id
              /\ worker'[v].from = worker[v].from /\ worker'[v].to = worker[v].to
              /\ v = tx.by => worker'[v].receipt = receipt
              /\ v # tx.by => worker'[v] = worker[v]
    BY <1>1, <1>3, <1>5, <1>6, AnsweredFields
  <1> QED BY <1>2, <1>3, <1>4, <1>6, <1>7 DEF tx

\* Proposals keep their types, and no step undoes a mint.
LEMMA MintsAreFinal ==
    ASSUME SagaInv, [Next]_vars
    PROVE  /\ onchain' \in [Allocations -> [status : Statuses, approvals : Nat]]
           /\ \A a \in Allocations : Minted(a) => Minted(a)'
  <1>1. onchain \in [Allocations -> [status : Statuses, approvals : Nat]]
    BY DEF SagaInv, SagaTypeOK
  <1>2. CASE \E a \in Allocations : Propose(a) \/ Approve(a) \/ Execute(a) \/ Cancel(a)
    BY <1>1, <1>2, ChainTypes DEF Minted
  <1>3. CASE UNCHANGED onchain
    BY <1>1, <1>3 DEF Minted
  <1>4. CASE MineTransaction
    <2>1. Head(mempool) \in Transaction
      BY <1>4, MinedTransaction
    <2>2. Head(mempool).id \in Allocations
      BY <2>1 DEF Transaction
    <2> QED BY <1>2, <1>3, <1>4, <2>2, MinedTransaction
  <1>5. CASE OfficersAct
    BY <1>2, <1>5 DEF OfficersAct
  <1>6. CASE UNCHANGED vars
    BY <1>3, <1>6 DEF vars
  <1>7. ASSUME NEW w \in Workers,
               WorkerStep(w) \/ Crash(w) \/ ReceiptLost(w) \/ ReleaseFails(w)
        PROVE  UNCHANGED onchain
    BY <1>7 DEF WorkerStep, tickOnce, onCreated, onReservingBars, onProposing, ProposeMint,
                onAwaitingApprovals, onExecuting, ExecuteMint, SendTransaction, WaitReceipt,
                advance, ReleaseAllocation, failSaga, completeSaga, Crash, ReceiptLost, ReleaseFails
  <1> QED BY <1>3, <1>4, <1>5, <1>6, <1>7
          DEF Next, CreateMintSaga, TimePasses, PublishRow, MarkPublished

LEMMA TypesKept ==
    ASSUME SagaInv, [Next]_vars
    PROVE  SagaTypeOK'
  <1>0. /\ worker \in [Workers -> Steps \cup {Idle}]
        /\ onchain' \in [Allocations -> [status : Statuses, approvals : Nat]]
        /\ SagaTypeOK
        /\ IsFiniteSet(Allocations) /\ MaxFaults \in Nat /\ BarStock \in Nat
    BY MintsAreFinal, SagaAssumption DEF SagaInv, SagaTypeOK
  <1>1. ASSUME NEW a \in Allocations, CreateMintSaga(a) \/ TimePasses(a)
        PROVE  SagaTypeOK'
    <2>1. CASE CreateMintSaga(a)
      <3>1. earlier' \in [Allocations -> SUBSET Allocations]
        BY <1>0, <2>1 DEF SagaTypeOK, CreateMintSaga, Rows
      <3>2. sagas' \in [Allocations -> SagaStates \cup {"none"}]
        BY <1>0, <2>1 DEF SagaTypeOK, CreateMintSaga, SagaStates, OpenStates
      <3> QED BY <1>0, <2>1, <3>1, <3>2 DEF SagaTypeOK, CreateMintSaga, outboxVars
    <2>2. CASE TimePasses(a)
      BY <1>0, <2>2 DEF SagaTypeOK, TimePasses, outboxVars
    <2> QED BY <1>1, <2>1, <2>2
  <1>2. ASSUME NEW w \in Workers,
               WorkerStep(w) \/ Crash(w) \/ ReceiptLost(w) \/ ReleaseFails(w)
        PROVE  SagaTypeOK'
    <2>0. worker' \in [Workers -> Steps \cup {Idle}]
      BY <1>0, <1>2, WorkerTypes
    <2>1. CASE tickOnce(w) \/ onCreated(w) \/ onAwaitingApprovals(w) \/ WaitReceipt(w)
      BY <1>0, <2>0, <2>1 DEF SagaTypeOK, tickOnce, onCreated, onAwaitingApprovals, WaitReceipt,
                              repoVars, outboxVars
    <2>2. CASE onReservingBars(w)
      <3>1. worker[w].id \in Allocations
        BY <1>0, <2>2, StepFields DEF onReservingBars, Handles
      <3>2. bars' \subseteq Allocations /\ Cardinality(bars') <= BarStock
        BY <1>0, <2>2, <3>1 DEF SagaTypeOK, onReservingBars
      <3> QED BY <1>0, <2>0, <2>2, <3>2 DEF SagaTypeOK, onReservingBars, repoVars, outboxVars
    <2>3. CASE onProposing(w) \/ onExecuting(w)
      <3>1. worker[w].id \in Allocations
        BY <1>0, <2>3, StepFields DEF onProposing, onExecuting, Handles
      <3>2. \/ UNCHANGED mempool
            \/ \E op \in {"proposeMint", "executeMint"} :
                  mempool' = Append(mempool, [op |-> op, id |-> worker[w].id, by |-> w])
        BY <2>3 DEF onProposing, onExecuting, ProposeMint, ExecuteMint, SendTransaction, Broadcast
      <3>3. ASSUME NEW op \in {"proposeMint", "executeMint"}
            PROVE  [op |-> op, id |-> worker[w].id, by |-> w] \in Transaction
        BY <3>1 DEF Transaction
      <3>4. mempool' \in Seq(Transaction)
        BY <1>0, <3>2, <3>3, PoolAppend DEF SagaTypeOK
      <3> QED BY <1>0, <2>0, <2>3, <3>4
              DEF SagaTypeOK, onProposing, onExecuting, ProposeMint, ExecuteMint, SendTransaction,
                  repoVars, outboxVars
    <2>4. CASE advance(w)
      <3>1. worker[w].id \in Allocations /\ worker[w].to \in SagaStates
        <4>1. /\ worker[w].id \in Allocations /\ worker[w].from \in OpenStates
          BY <1>0, <2>4, StepFields DEF advance
        <4>2. worker[w].to = worker[w].from \/ <<worker[w].from, worker[w].to>> \in MintStateTransition
          BY <2>4 DEF advance
        <4>3. <<worker[w].from, worker[w].to>> \in MintStateTransition => worker[w].to \in SagaStates
          BY DEF MintStateTransition, SagaStates, OpenStates, TerminalStates, FailedStates
        <4> QED BY <4>1, <4>2, <4>3 DEF SagaStates
      <3>2. UpdateState(worker[w].id, worker[w].to)
        BY <2>4 DEF advance
      <3>3. /\ sagas' \in [Allocations -> SagaStates \cup {"none"}]
            /\ earlier' \in [Allocations -> SUBSET Allocations]
            /\ overdue' \subseteq Allocations
        BY <1>0, <3>1, <3>2, RowTypes
      <3> QED BY <1>0, <2>0, <2>4, <3>3 DEF SagaTypeOK, advance, outboxVars
    <2>5. CASE ReleaseAllocation(w)
      <3>1. bars' \subseteq bars
        BY <2>5 DEF ReleaseAllocation
      <3>2. IsFiniteSet(bars)
        BY <1>0, FS_Subset DEF SagaTypeOK
      <3>3. Cardinality(bars') <= Cardinality(bars) /\ Cardinality(bars) \in Nat /\ Cardinality(bars') \in Nat
        BY <3>1, <3>2, FS_Subset, FS_CardinalityType
      <3>4. Cardinality(bars') <= BarStock
        BY <1>0, <3>3 DEF SagaTypeOK
      <3> QED BY <1>0, <2>0, <2>5, <3>1, <3>4 DEF SagaTypeOK, ReleaseAllocation, repoVars, outboxVars
    <2>6. CASE failSaga(w) \/ completeSaga(w)
      <3>1. worker[w].id \in Allocations
        BY <1>0, <2>6, StepFields DEF failSaga, completeSaga
      <3>2. PICK state \in SagaStates \cup {"none"}, event \in {"mint.executed", "mint.failed"} :
                UpdateStateAndEnqueue(worker[w].id, state, event)
        BY <1>0, <2>6, StepFields
           DEF failSaga, completeSaga, SagaStates, TerminalStates
      <3>3. UpdateState(worker[w].id, state)
        BY <3>2 DEF UpdateStateAndEnqueue
      <3>4. /\ sagas' \in [Allocations -> SagaStates \cup {"none"}]
            /\ earlier' \in [Allocations -> SUBSET Allocations]
            /\ overdue' \subseteq Allocations
        BY <1>0, <3>1, <3>3, RowTypes
      <3>5. /\ outbox' \in Seq(OutboxRow)
            /\ marked' \subseteq delivered' /\ delivered' \subseteq DOMAIN outbox'
        BY <1>0, <3>1, <3>2, OutboxTypes
      <3> QED BY <1>0, <2>0, <2>6, <3>4, <3>5 DEF SagaTypeOK, OutboxRow, failSaga, completeSaga
    <2>7. CASE Crash(w) \/ ReceiptLost(w)
      <3>1. mempool' = Abandoned(w) /\ faults' = faults + 1 /\ faults < MaxFaults
        BY <2>7 DEF Crash, ReceiptLost, Fault
      <3>2. mempool' \in Seq(Transaction)
        BY <1>0, <3>1, PoolAbandoned DEF SagaTypeOK
      <3>3. faults' \in 0..MaxFaults
        BY <1>0, <3>1 DEF SagaTypeOK
      <3> QED BY <1>0, <2>0, <2>7, <3>2, <3>3 DEF SagaTypeOK, Crash, ReceiptLost, repoVars, outboxVars
    <2>8. CASE ReleaseFails(w)
      <3>1. faults' \in 0..MaxFaults
        BY <1>0, <2>8 DEF SagaTypeOK, ReleaseFails, Fault
      <3> QED BY <1>0, <2>0, <2>8, <3>1 DEF SagaTypeOK, ReleaseFails, repoVars, outboxVars
    <2> QED BY <1>2, <2>1, <2>2, <2>3, <2>4, <2>5, <2>6, <2>7, <2>8 DEF WorkerStep
  <1>3. CASE MineTransaction
    <2>1. /\ mempool' \in Seq(Transaction)
          /\ worker' \in [Workers -> Steps \cup {Idle}]
          /\ UNCHANGED <<repoVars, bars, outboxVars, faults>>
      BY <1>3, MinedTransaction
    <2> QED BY <1>0, <2>1 DEF SagaTypeOK, repoVars, outboxVars
  <1>4. CASE OfficersAct
    BY <1>0, <1>4 DEF SagaTypeOK, OfficersAct, repoVars, outboxVars
  <1>5. CASE PublishRow
    BY <1>0, <1>5 DEF SagaTypeOK, PublishRow, repoVars
  <1>6. CASE MarkPublished
    BY <1>0, <1>6 DEF SagaTypeOK, MarkPublished, repoVars
  <1>7. CASE UNCHANGED vars
    BY <1>0, <1>7 DEF SagaTypeOK, vars, repoVars, outboxVars
  <1> QED BY <1>1, <1>2, <1>3, <1>4, <1>5, <1>6, <1>7 DEF Next

LEMMA PoolKept ==
    ASSUME SagaInv, [Next]_vars
    PROVE  PoolMatchesWorkers'
  <1>0. /\ worker \in [Workers -> Steps \cup {Idle}]
        /\ mempool \in Seq(Transaction)
        /\ SagaTypeOK /\ PoolMatchesWorkers /\ ReceiptsAreTrue
    BY DEF SagaInv, SagaTypeOK
  <1>1. CASE UNCHANGED <<mempool, worker>>
    BY <1>0, <1>1 DEF PoolMatchesWorkers
  <1>2. ASSUME NEW w \in Workers, worker[w].stage # "sent", UNCHANGED mempool,
               \A v \in Workers \ {w} : worker'[v] = worker[v]
        PROVE  PoolMatchesWorkers'
    BY <1>0, <1>2 DEF PoolMatchesWorkers
  <1>3. ASSUME NEW w \in Workers, mempool' = Abandoned(w),
               \A v \in Workers \ {w} : worker'[v] = worker[v]
        PROVE  PoolMatchesWorkers'
    <2>1. /\ DOMAIN mempool' = DOMAIN mempool
          /\ \A i \in DOMAIN mempool :
                 /\ mempool'[i].op = mempool[i].op /\ mempool'[i].id = mempool[i].id
                 /\ mempool[i].by = w => mempool'[i].by = "nobody"
                 /\ mempool[i].by # w => mempool'[i].by = mempool[i].by
      BY <1>0, <1>3, PoolAbandoned
    <2>2. "nobody" \notin Workers
      BY SagaAssumption
    <2>3. ASSUME NEW i \in DOMAIN mempool', mempool'[i].by \in Workers
          PROVE  i \in DOMAIN mempool /\ mempool[i].by = mempool'[i].by /\ mempool[i].by # w
      BY <2>1, <2>2, <2>3
    <2> QED BY <1>0, <1>3, <2>1, <2>3 DEF PoolMatchesWorkers
  <1>4. ASSUME NEW w \in Workers,
               WorkerStep(w) \/ Crash(w) \/ ReceiptLost(w) \/ ReleaseFails(w)
        PROVE  PoolMatchesWorkers'
    <2>0. /\ \A v \in Workers \ {w} : worker'[v] = worker[v]
          /\ worker[w] # Idle => worker'[w] = Idle \/ /\ worker'[w].id = worker[w].id
                                                      /\ worker'[w].from = worker[w].from
                                                      /\ worker'[w].receipt = worker[w].receipt
      BY <1>0, <1>4, WorkerTypes
    <2>1. CASE WaitReceipt(w)
      <3>1. worker[w].receipt # "none" /\ UNCHANGED mempool
        BY <2>1 DEF WaitReceipt
      <3> QED BY <1>0, <2>0, <3>1 DEF PoolMatchesWorkers
    <2>2. CASE onProposing(w) \/ onExecuting(w)
      <3>1. CASE UNCHANGED mempool
        BY <1>2, <2>0, <2>2, <3>1 DEF onProposing, onExecuting, Handles
      <3>2. CASE \E op \in {"proposeMint", "executeMint"} : Broadcast(w, op)
        <4>1. PICK op \in {"proposeMint", "executeMint"} :
                 /\ mempool' = Append(mempool, [op |-> op, id |-> worker[w].id, by |-> w])
                 /\ Goto(w, "sent", "none")
                 /\ (op = "executeMint") <=> (worker[w].from = "executing")
                 /\ worker[w].from \in {"proposing", "executing"}
                 /\ worker[w].stage = "step"
          <5>1. CASE onProposing(w)
            <6>1. UNCHANGED mempool \/ Broadcast(w, "proposeMint")
              BY <5>1 DEF onProposing, ProposeMint, SendTransaction
            <6>2. Broadcast(w, "proposeMint")
              <7>1. SUFFICES ASSUME UNCHANGED mempool PROVE FALSE
                BY <6>1
              <7>2. \E t : mempool = Append(mempool, t)
                BY <3>2, <7>1 DEF Broadcast
              <7> QED BY <1>0, <7>2
            <6> QED BY <5>1, <6>2 DEF Broadcast, onProposing, Handles
          <5>2. CASE onExecuting(w)
            <6>1. UNCHANGED mempool \/ Broadcast(w, "executeMint")
              BY <5>2 DEF onExecuting, ExecuteMint, SendTransaction
            <6>2. Broadcast(w, "executeMint")
              <7>1. SUFFICES ASSUME UNCHANGED mempool PROVE FALSE
                BY <6>1
              <7>2. \E t : mempool = Append(mempool, t)
                BY <3>2, <7>1 DEF Broadcast
              <7> QED BY <1>0, <7>2
            <6> QED BY <5>2, <6>2 DEF Broadcast, onExecuting, Handles
          <5> QED BY <2>2, <5>1, <5>2
        <4> DEFINE tx == [op |-> op, id |-> worker[w].id, by |-> w]
        <4>2. worker[w].id \in Allocations
          BY <1>0, <4>1, StepFields
        <4>3. tx \in Transaction /\ tx.op = op /\ tx.id = worker[w].id /\ tx.by = w
          BY <4>2 DEF Transaction
        <4>4. mempool' = Append(mempool, tx)
          BY <4>1
        <4> HIDE DEF tx
        <4>5. /\ Len(mempool) \in Nat
              /\ DOMAIN mempool = 1..Len(mempool) /\ DOMAIN mempool' = 1..(Len(mempool) + 1)
              /\ mempool'[Len(mempool) + 1] = tx
              /\ \A i \in DOMAIN mempool : mempool'[i] = mempool[i]
          BY <1>0, <4>3, <4>4, PoolAppend
        <4>6. /\ worker'[w].stage = "sent" /\ worker'[w].receipt = "none"
              /\ worker'[w].id = worker[w].id /\ worker'[w].from = worker[w].from
          <5>1. worker[w].receipt = "none"
            BY <1>0, <4>1 DEF ReceiptsAreTrue
          <5> QED BY <1>0, <4>1, <5>1, GotoFields DEF Stages
        <4>7. \A i \in DOMAIN mempool : mempool[i].by # w
          BY <1>0, <4>1 DEF PoolMatchesWorkers
        <4>8. ASSUME NEW i \in DOMAIN mempool', mempool'[i].by \in Workers
              PROVE  /\ worker'[mempool'[i].by].stage = "sent"
                     /\ worker'[mempool'[i].by].receipt = "none"
                     /\ worker'[mempool'[i].by].id = mempool'[i].id
                     /\ worker'[mempool'[i].by].from \in {"proposing", "executing"}
                     /\ (mempool'[i].op = "executeMint") <=> (worker'[mempool'[i].by].from = "executing")
                     /\ \A j \in DOMAIN mempool' : mempool'[j].by = mempool'[i].by => j = i
          <5>1. CASE i = Len(mempool) + 1
            BY <4>1, <4>3, <4>5, <4>6, <4>7, <5>1
          <5>2. CASE i \in DOMAIN mempool
            <6>1. mempool'[i] = mempool[i] /\ mempool[i].by # w
              BY <4>5, <4>7, <5>2
            <6>2. \A j \in DOMAIN mempool' : mempool'[j].by = mempool'[i].by => j = i
              BY <1>0, <4>3, <4>5, <4>8, <5>2, <6>1 DEF PoolMatchesWorkers
            <6> QED BY <1>0, <2>0, <4>8, <5>2, <6>1, <6>2 DEF PoolMatchesWorkers
          <5> QED BY <4>5, <5>1, <5>2
        <4> QED BY <4>8 DEF PoolMatchesWorkers
      <3> QED BY <2>2, <3>1, <3>2
              DEF onProposing, onExecuting, ProposeMint, ExecuteMint, SendTransaction
    <2>3. CASE Crash(w) \/ ReceiptLost(w)
      BY <1>3, <2>0, <2>3 DEF Crash, ReceiptLost
    <2>4. CASE tickOnce(w)
      BY <1>2, <2>0, <2>4 DEF tickOnce, Idle
    <2>5. CASE onCreated(w) \/ onReservingBars(w) \/ onAwaitingApprovals(w)
      BY <1>2, <2>0, <2>5 DEF onCreated, onReservingBars, onAwaitingApprovals, Handles
    <2>6. CASE advance(w) \/ ReleaseAllocation(w) \/ failSaga(w) \/ completeSaga(w) \/ ReleaseFails(w)
      BY <1>2, <2>0, <2>6 DEF advance, ReleaseAllocation, failSaga, completeSaga, ReleaseFails
    <2> QED BY <1>4, <2>1, <2>2, <2>3, <2>4, <2>5, <2>6 DEF WorkerStep
  <1>5. CASE MineTransaction
    <2>1. PICK receipt \in {"ok", "reverted"} :
             \A v \in Workers :
                /\ worker'[v].stage = worker[v].stage /\ worker'[v].id = worker[v].id
                /\ worker'[v].from = worker[v].from /\ worker'[v].to = worker[v].to
                /\ v = Head(mempool).by => worker'[v].receipt = receipt
                /\ v # Head(mempool).by => worker'[v] = worker[v]
      BY <1>5, MinedTransaction
    <2>2. /\ Head(mempool) = mempool[1] /\ 1 \in DOMAIN mempool
          /\ \A i \in DOMAIN mempool' : i + 1 \in DOMAIN mempool /\ i + 1 # 1 /\ mempool'[i] = mempool[i + 1]
          /\ mempool' \in Seq(Transaction)
      BY <1>5, MinedTransaction
    <2>3. DOMAIN mempool' \subseteq Nat
      <3> HIDE DEF Transaction
      <3> QED BY <2>2, LenProperties
    <2>4. ASSUME NEW i \in DOMAIN mempool', mempool'[i].by \in Workers
          PROVE  /\ mempool[i + 1].by # mempool[1].by
                 /\ \A j \in DOMAIN mempool' : mempool'[j].by = mempool'[i].by => j = i
      <3>1. i + 1 \in DOMAIN mempool /\ i + 1 # 1 /\ mempool'[i] = mempool[i + 1]
        BY <2>2
      <3>2. \A j \in DOMAIN mempool : mempool[j].by = mempool[i + 1].by => j = i + 1
        BY <1>0, <2>4, <3>1 DEF PoolMatchesWorkers
      <3>3. ASSUME NEW j \in DOMAIN mempool', mempool'[j].by = mempool'[i].by PROVE j = i
        BY <2>2, <2>3, <3>1, <3>2, <3>3
      <3> QED BY <2>2, <3>1, <3>2, <3>3
    <2> QED BY <1>0, <2>1, <2>2, <2>4 DEF PoolMatchesWorkers
  <1>6. CASE OfficersAct \/ PublishRow \/ MarkPublished
    BY <1>1, <1>6 DEF OfficersAct, PublishRow, MarkPublished
  <1>7. ASSUME NEW a \in Allocations, CreateMintSaga(a) \/ TimePasses(a)
        PROVE  PoolMatchesWorkers'
    BY <1>1, <1>7 DEF CreateMintSaga, TimePasses
  <1>8. CASE UNCHANGED vars
    BY <1>1, <1>8 DEF vars
  <1> QED BY <1>4, <1>5, <1>6, <1>7, <1>8 DEF Next

LEMMA ReceiptsKept ==
    ASSUME SagaInv, [Next]_vars
    PROVE  ReceiptsAreTrue'
  <1>0. /\ worker \in [Workers -> Steps \cup {Idle}]
        /\ SagaTypeOK /\ PoolMatchesWorkers /\ ReceiptsAreTrue
        /\ \A a \in Allocations : Minted(a) => Minted(a)'
    BY MintsAreFinal DEF SagaInv, SagaTypeOK
  <1>a. \A a \in Allocations : Minted(a) => onchain'[a].status = "EXECUTED"
    BY <1>0 DEF Minted
  <1>1. ASSUME NEW v \in Workers, worker'[v] = worker[v]
        PROVE  /\ worker'[v].stage = "step" => worker'[v].receipt = "none"
               /\ worker'[v].stage = "complete" => onchain'[worker'[v].id].status = "EXECUTED"
               /\ worker'[v].stage = "sent" /\ worker'[v].from = "executing" /\ worker'[v].receipt = "ok" =>
                     onchain'[worker'[v].id].status = "EXECUTED"
    <2>1. worker[v].stage # "idle" => worker[v].id \in Allocations
      BY <1>0, StepFields
    <2> QED BY <1>0, <1>a, <1>1, <2>1 DEF ReceiptsAreTrue, Minted
  <1>2. CASE UNCHANGED worker
    BY <1>1, <1>2 DEF ReceiptsAreTrue, Minted
  <1>3. ASSUME NEW w \in Workers,
               WorkerStep(w) \/ Crash(w) \/ ReceiptLost(w) \/ ReleaseFails(w)
        PROVE  ReceiptsAreTrue'
    <2>0. /\ \A v \in Workers \ {w} : worker'[v] = worker[v]
          /\ worker[w] # Idle => worker'[w] = Idle \/ /\ worker'[w].id = worker[w].id
                                                      /\ worker'[w].from = worker[w].from
                                                      /\ worker'[w].receipt = worker[w].receipt
      BY <1>0, <1>3, WorkerTypes
    <2>1. CASE worker'[w] = Idle \/ worker'[w].stage \in {"advance", "release", "fail"}
      BY <1>1, <2>0, <2>1 DEF ReceiptsAreTrue, Minted, Idle
    <2>2. CASE tickOnce(w)
      <3>1. worker'[w].stage = "step" /\ worker'[w].receipt = "none"
        BY <1>0, <2>2 DEF tickOnce
      <3> QED BY <1>1, <2>0, <3>1 DEF ReceiptsAreTrue, Minted
    <2>3. CASE worker[w].stage = "step" /\ worker'[w].stage = "sent" /\ worker'[w].receipt = worker[w].receipt
      <3>1. worker'[w].receipt = "none"
        BY <1>0, <2>3 DEF ReceiptsAreTrue, Minted
      <3> QED BY <1>1, <2>0, <2>3, <3>1 DEF ReceiptsAreTrue, Minted
    <2>4. CASE WaitReceipt(w)
      <3>1. worker[w].stage = "sent"
        BY <2>4 DEF WaitReceipt
      <3>2. worker[w].id \in Allocations
        BY <1>0, <3>1, StepFields
      <3>3. \/ worker'[w].stage \in {"advance", "release"}
            \/ /\ worker[w].receipt = "ok" /\ worker[w].from = "executing"
               /\ worker'[w].stage = "complete" /\ worker'[w].id = worker[w].id
        BY <1>0, <2>4, <3>1, GotoFields
           DEF WaitReceipt, compensate, Stages, SagaStates, OpenStates, TerminalStates, FailedStates
      <3>4. CASE /\ worker[w].receipt = "ok" /\ worker[w].from = "executing"
                 /\ worker'[w].stage = "complete" /\ worker'[w].id = worker[w].id
        <4>1. Minted(worker[w].id)
          BY <1>0, <3>1, <3>4 DEF ReceiptsAreTrue, Minted
        <4>2. onchain'[worker'[w].id].status = "EXECUTED"
          BY <1>a, <3>2, <3>4, <4>1
        <4> QED BY <1>1, <2>0, <3>4, <4>2 DEF ReceiptsAreTrue, Minted
      <3> QED BY <2>1, <3>3, <3>4
    <2>5. CASE onProposing(w) \/ onExecuting(w)
      <3>1. worker[w].stage = "step"
        BY <2>5 DEF onProposing, onExecuting, Handles
      <3>2. /\ worker'[w].stage \in {"sent", "release"}
            /\ worker'[w].receipt = worker[w].receipt
        BY <1>0, <2>5, <3>1, GotoFields
           DEF onProposing, onExecuting, ProposeMint, ExecuteMint, SendTransaction, Broadcast,
               compensate, Stages, SagaStates, TerminalStates, FailedStates
      <3> QED BY <2>1, <2>3, <3>1, <3>2
    <2>6. CASE onCreated(w) \/ onReservingBars(w) \/ onAwaitingApprovals(w)
      <3>1. worker[w].stage = "step"
        BY <2>6 DEF onCreated, onReservingBars, onAwaitingApprovals, Handles
      <3>2. worker'[w] = Idle \/ worker'[w].stage \in {"advance", "release"}
        BY <1>0, <2>6, <3>1, GotoFields
           DEF onCreated, onReservingBars, onAwaitingApprovals, compensate, Stages, SagaStates,
               OpenStates, TerminalStates, FailedStates
      <3> QED BY <2>1, <3>2
    <2>7. CASE advance(w) \/ failSaga(w) \/ completeSaga(w) \/ Crash(w)
      BY <1>0, <2>1, <2>7 DEF advance, failSaga, completeSaga, Crash
    <2>8. CASE ReleaseAllocation(w) \/ ReleaseFails(w)
      <3>1. worker[w].stage = "release" /\ Goto(w, "fail", worker[w].to)
        BY <2>8 DEF ReleaseAllocation, ReleaseFails
      <3>2. worker[w].to \in SagaStates \cup {"none"}
        BY <1>0, <3>1, StepFields
      <3>3. worker'[w].stage = "fail"
        BY <1>0, <3>1, <3>2, GotoFields DEF Stages
      <3> QED BY <2>1, <3>3
    <2>9. CASE ReceiptLost(w)
      <3>1. worker'[w].stage = "release"
        BY <1>0, <2>9, GotoFields
           DEF ReceiptLost, compensate, Stages, SagaStates, TerminalStates, FailedStates
      <3> QED BY <2>1, <3>1
    <2> QED BY <1>3, <2>2, <2>4, <2>5, <2>6, <2>7, <2>8, <2>9 DEF WorkerStep
  <1>4. CASE MineTransaction
    <2> DEFINE tx == Head(mempool)
    <2>1. PICK receipt \in {"ok", "reverted"} :
             /\ receipt = "ok" => IF tx.op = "proposeMint" THEN Propose(tx.id) ELSE Execute(tx.id)
             /\ \A v \in Workers :
                   /\ worker'[v].stage = worker[v].stage /\ worker'[v].id = worker[v].id
                   /\ worker'[v].from = worker[v].from /\ worker'[v].to = worker[v].to
                   /\ v = tx.by => worker'[v].receipt = receipt
                   /\ v # tx.by => worker'[v] = worker[v]
      BY <1>4, MinedTransaction
    <2>2. tx \in Transaction /\ tx = mempool[1] /\ 1 \in DOMAIN mempool
      BY <1>4, MinedTransaction
    <2>3. ASSUME NEW v \in Workers, v = tx.by
          PROVE  /\ worker[v].stage = "sent" /\ worker[v].id = tx.id
                 /\ worker[v].from = "executing" => tx.op = "executeMint"
      BY <1>0, <2>2, <2>3 DEF PoolMatchesWorkers
    <2>4. ASSUME receipt = "ok", tx.op = "executeMint" PROVE onchain'[tx.id].status = "EXECUTED"
      <3>1. tx.id \in Allocations
        BY <2>2 DEF Transaction
      <3>2. Execute(tx.id)
        BY <2>1, <2>4
      <3> HIDE DEF tx
      <3>3. onchain \in [Allocations -> [status : Statuses, approvals : Nat]]
        BY <1>0 DEF SagaTypeOK
      <3>4. /\ onchain' \in [Allocations -> [status : Statuses, approvals : Nat]]
            /\ onchain'[tx.id].status = "EXECUTED"
        BY <3>1, <3>2, <3>3, ChainTypes
      <3> QED BY <3>4
    <2> QED BY <1>1, <2>1, <2>3, <2>4 DEF ReceiptsAreTrue, Minted
  <1>5. CASE OfficersAct \/ PublishRow \/ MarkPublished
    BY <1>2, <1>5 DEF OfficersAct, PublishRow, MarkPublished
  <1>6. ASSUME NEW a \in Allocations, CreateMintSaga(a) \/ TimePasses(a)
        PROVE  ReceiptsAreTrue'
    BY <1>2, <1>6 DEF CreateMintSaga, TimePasses
  <1>7. CASE UNCHANGED vars
    BY <1>2, <1>7 DEF vars
  <1> QED BY <1>3, <1>4, <1>5, <1>6, <1>7 DEF Next

LEMMA AnnouncedKept ==
    ASSUME SagaInv, [Next]_vars
    PROVE  AnnouncedMintIsReal'
  <1>0. /\ worker \in [Workers -> Steps \cup {Idle}]
        /\ outbox \in Seq(OutboxRow)
        /\ SagaTypeOK /\ ReceiptsAreTrue /\ AnnouncedMintIsReal
        /\ \A a \in Allocations : Minted(a) => Minted(a)'
    BY MintsAreFinal DEF SagaInv, SagaTypeOK, OutboxRow
  <1>1. ASSUME NEW i \in DOMAIN outbox, outbox[i].event = "mint.executed"
        PROVE  onchain'[outbox[i].id].status = "EXECUTED"
    <2>1. outbox[i] \in OutboxRow
      <3> HIDE DEF OutboxRow
      <3> QED BY <1>0, LenProperties, ElementOfSeq
    <2>2. outbox[i].id \in Allocations
      BY <2>1 DEF OutboxRow
    <2> QED BY <1>0, <1>1, <2>2 DEF AnnouncedMintIsReal, Minted
  <1>2. CASE UNCHANGED outbox
    BY <1>1, <1>2 DEF AnnouncedMintIsReal, Minted
  <1>3. ASSUME NEW w \in Workers, failSaga(w) \/ completeSaga(w)
        PROVE  AnnouncedMintIsReal'
    <2>1. worker[w].id \in Allocations
      BY <1>0, <1>3, StepFields DEF failSaga, completeSaga
    <2>2. PICK state \in SagaStates \cup {"none"}, event \in {"mint.executed", "mint.failed"} :
             /\ UpdateStateAndEnqueue(worker[w].id, state, event)
             /\ event = "mint.executed" => worker[w].stage = "complete"
      <3>1. CASE failSaga(w)
        <4>1. worker[w].to \in SagaStates \cup {"none"}
          BY <1>0, <3>1, StepFields DEF failSaga
        <4> QED BY <3>1, <4>1 DEF failSaga
      <3>2. CASE completeSaga(w)
        BY <3>2 DEF completeSaga, SagaStates, TerminalStates
      <3> QED BY <1>3, <3>1, <3>2
    <2>3. /\ DOMAIN outbox' = DOMAIN outbox \cup {Len(outbox) + 1}
          /\ outbox'[Len(outbox) + 1].id = worker[w].id
          /\ outbox'[Len(outbox) + 1].event = event
          /\ \A i \in DOMAIN outbox : outbox'[i] = outbox[i]
      <3>1. SagaTypeOK /\ UpdateStateAndEnqueue(worker[w].id, state, event)
        BY <1>0, <2>2
      <3> QED BY <2>1, <3>1, OutboxTypes
    <2>4. event = "mint.executed" => onchain'[worker[w].id].status = "EXECUTED"
      BY <1>0, <2>1, <2>2 DEF ReceiptsAreTrue, Minted
    <2> QED BY <1>1, <2>3, <2>4 DEF AnnouncedMintIsReal, Minted
  <1>4. ASSUME NEW w \in Workers,
               WorkerStep(w) \/ Crash(w) \/ ReceiptLost(w) \/ ReleaseFails(w)
        PROVE  AnnouncedMintIsReal'
    BY <1>2, <1>3, <1>4
       DEF WorkerStep, tickOnce, onCreated, onReservingBars, onProposing, ProposeMint,
           onAwaitingApprovals, onExecuting, ExecuteMint, SendTransaction, WaitReceipt,
           advance, ReleaseAllocation, Crash, ReceiptLost, ReleaseFails, outboxVars
  <1>5. CASE MineTransaction
    BY <1>2, <1>5 DEF MineTransaction, outboxVars
  <1>6. CASE OfficersAct \/ PublishRow \/ MarkPublished
    BY <1>2, <1>6 DEF OfficersAct, PublishRow, MarkPublished, outboxVars
  <1>7. ASSUME NEW a \in Allocations, CreateMintSaga(a) \/ TimePasses(a)
        PROVE  AnnouncedMintIsReal'
    BY <1>2, <1>7 DEF CreateMintSaga, TimePasses, outboxVars
  <1>8. CASE UNCHANGED vars
    BY <1>2, <1>8 DEF vars, outboxVars
  <1> QED BY <1>4, <1>5, <1>6, <1>7, <1>8 DEF Next

\* The inductive invariant of the saga: the types, and that every worker is right
\* about the transaction it waits for, whichever of its rivals wrote to the row.
THEOREM SagaInvariant == Spec => []SagaInv
  <1>1. Init => SagaInv
    BY SagaInit
  <1>2. SagaInv /\ [Next]_vars => SagaInv'
    BY TypesKept, PoolKept, ReceiptsKept, AnnouncedKept DEF SagaInv
  <1> QED BY <1>1, <1>2, PTL DEF Spec

\* The saga's variables keep their types, and the vault never backs more
\* allocations than it has bars for.
THEOREM SagaTypesHold == Spec => []SagaTypeOK
  <1>1. SagaInv => SagaTypeOK
    BY DEF SagaInv
  <1> QED BY <1>1, SagaInvariant, PTL

\* No row of the outbox announces a mint that has not happened: completeSaga runs
\* behind the successful receipt of its own executeMint only, with any number of
\* workers on one row, crashes and lost receipts.
THEOREM AnnouncedMintHolds == Spec => []AnnouncedMintIsReal
  <1>1. SagaInv => AnnouncedMintIsReal
    BY DEF SagaInv
  <1> QED BY <1>1, SagaInvariant, PTL

-----------------------------------------------------------------------------
(* One worker: every fault, and the promise of MintOutcomes *)

\* The moves advance makes; none of them ends a saga.
OpenMoves ==
    {<<"created", "reserving_bars">>, <<"reserving_bars", "proposing">>,
     <<"proposing", "awaiting_approvals">>, <<"awaiting_approvals", "awaiting_approvals">>,
     <<"awaiting_approvals", "executing">>}

\* The copy a worker acts on is still the row, and what it is about to write fits.
StepMatchesRow(w) ==
    /\ worker[w].stage # "idle" => sagas[worker[w].id] = worker[w].from
    /\ worker[w].stage = "advance" => <<worker[w].from, worker[w].to>> \in OpenMoves
    /\ worker[w].stage \in {"release", "fail"} => worker[w].to \in FailedStates
    /\ worker[w].stage = "complete" => worker[w].from = "executing"

\* The outbox tells of finished sagas only, and of each what became of it.
OutboxTells ==
    \A i \in DOMAIN outbox :
        /\ outbox[i].event = "mint.executed" => sagas[outbox[i].id] = "completed"
        /\ outbox[i].event = "mint.failed" => sagas[outbox[i].id] \in FailedStates

\* The inductive invariant with a single worker: nobody writes to the row
\* between its poll and its write.
OneWorkerInv(w) == SagaInv /\ StepMatchesRow(w) /\ OutboxTells

\* Which steps write to the saga table or the outbox, and what.
LEMMA RowWrites ==
    ASSUME NEW w \in Workers, Workers = {w}, OneWorkerInv(w), [Next]_vars
    PROVE  \/ UNCHANGED <<sagas, outbox>>
           \/ /\ \E a \in Allocations : sagas[a] = "none" /\ sagas' = [sagas EXCEPT ![a] = "created"]
              /\ UNCHANGED <<outbox, delivered, worker>>
           \/ /\ worker[w].stage = "advance"
              /\ sagas' = [sagas EXCEPT ![worker[w].id] = worker[w].to]
              /\ UNCHANGED <<outbox, delivered>> /\ worker'[w] = Idle
           \/ \E state \in SagaStates, event \in {"mint.executed", "mint.failed"} :
                 /\ worker[w].stage # "idle"
                 /\ IF event = "mint.failed" THEN state \in FailedStates ELSE state = "completed"
                 /\ UpdateStateAndEnqueue(worker[w].id, state, event)
                 /\ worker'[w] = Idle
  <1>0. /\ worker \in [Workers -> Steps \cup {Idle}]
        /\ SagaTypeOK /\ StepMatchesRow(w)
    BY DEF OneWorkerInv, SagaInv, SagaTypeOK
  <1>1. ASSUME NEW a \in Allocations, CreateMintSaga(a) \/ TimePasses(a)
        PROVE  \/ UNCHANGED <<sagas, outbox>>
               \/ /\ \E b \in Allocations : sagas[b] = "none" /\ sagas' = [sagas EXCEPT ![b] = "created"]
                  /\ UNCHANGED <<outbox, delivered, worker>>
    BY <1>1 DEF CreateMintSaga, TimePasses, outboxVars
  <1>2. CASE advance(w)
    BY <1>0, <1>2 DEF advance, UpdateState, outboxVars
  <1>3. CASE failSaga(w)
    <2>1. worker[w].to \in FailedStates /\ worker[w].to \in SagaStates
      BY <1>0, <1>3 DEF failSaga, StepMatchesRow, SagaStates, TerminalStates
    <2> QED BY <1>0, <1>3, <2>1 DEF failSaga
  <1>4. CASE completeSaga(w)
    BY <1>0, <1>4 DEF completeSaga, SagaStates, TerminalStates
  <1>5. CASE \/ tickOnce(w) \/ onCreated(w) \/ onReservingBars(w) \/ onProposing(w)
             \/ onAwaitingApprovals(w) \/ onExecuting(w) \/ WaitReceipt(w) \/ ReleaseAllocation(w)
             \/ Crash(w) \/ ReceiptLost(w) \/ ReleaseFails(w)
    BY <1>5 DEF tickOnce, onCreated, onReservingBars, onProposing, ProposeMint,
                onAwaitingApprovals, onExecuting, ExecuteMint, SendTransaction, WaitReceipt,
                ReleaseAllocation, Crash, ReceiptLost, ReleaseFails, repoVars, outboxVars
  <1>6. CASE MineTransaction \/ OfficersAct \/ PublishRow \/ MarkPublished \/ UNCHANGED vars
    BY <1>6 DEF MineTransaction, OfficersAct, PublishRow, MarkPublished, vars, repoVars, outboxVars
  <1> QED BY <1>1, <1>2, <1>3, <1>4, <1>5, <1>6 DEF Next, WorkerStep

LEMMA StepKept ==
    ASSUME NEW w \in Workers, Workers = {w}, OneWorkerInv(w), [Next]_vars
    PROVE  StepMatchesRow(w)'
  <1>0. /\ worker \in [Workers -> Steps \cup {Idle}]
        /\ sagas \in [Allocations -> SagaStates \cup {"none"}]
        /\ SagaTypeOK /\ SagaInv /\ StepMatchesRow(w)
    BY DEF OneWorkerInv, SagaInv, SagaTypeOK
  <1>1. ASSUME UNCHANGED sagas,
               /\ worker'[w].stage = worker[w].stage /\ worker'[w].id = worker[w].id
               /\ worker'[w].from = worker[w].from /\ worker'[w].to = worker[w].to
        PROVE  StepMatchesRow(w)'
    BY <1>0, <1>1 DEF StepMatchesRow
  <1>2. CASE worker'[w] = Idle
    BY <1>2 DEF StepMatchesRow, Idle
  <1>3. ASSUME NEW a \in Allocations, CreateMintSaga(a) \/ TimePasses(a)
        PROVE  StepMatchesRow(w)'
    <2>1. CASE CreateMintSaga(a)
      <3>1. worker[w].stage # "idle" => worker[w].from \in OpenStates /\ worker[w].id \in Allocations
        BY <1>0, StepFields
      <3>2. worker[w].stage # "idle" => worker[w].id # a
        BY <1>0, <2>1, <3>1 DEF CreateMintSaga, StepMatchesRow, OpenStates
      <3> QED BY <1>0, <2>1, <3>1, <3>2 DEF CreateMintSaga, StepMatchesRow
    <2>2. CASE TimePasses(a)
      BY <1>1, <2>2 DEF TimePasses
    <2> QED BY <1>3, <2>1, <2>2
  <1>4. CASE tickOnce(w)
    <2>1. \E a \in Allocations :
             worker'[w] = [stage |-> "step", id |-> a, from |-> sagas[a], to |-> "none",
                           receipt |-> "none"]
      BY <1>0, <1>4 DEF tickOnce
    <2> QED BY <1>4, <2>1 DEF tickOnce, repoVars, StepMatchesRow
  <1>5. ASSUME worker[w].stage # "idle", UNCHANGED sagas,
               NEW stage \in Stages, NEW to \in SagaStates \cup {"none"}, Goto(w, stage, to),
               stage = "advance" => <<worker[w].from, to>> \in OpenMoves,
               stage \in {"release", "fail"} => to \in FailedStates,
               stage = "complete" => worker[w].from = "executing"
        PROVE  StepMatchesRow(w)'
    <2>1. /\ worker'[w].stage = stage /\ worker'[w].to = to
          /\ worker'[w].id = worker[w].id /\ worker'[w].from = worker[w].from
      BY <1>0, <1>5, GotoFields
    <2> QED BY <1>0, <1>5, <2>1 DEF StepMatchesRow
  <1>6. CASE onCreated(w)
    BY <1>5, <1>6 DEF onCreated, Handles, OpenMoves, Stages, SagaStates, OpenStates, repoVars
  <1>7. CASE onReservingBars(w)
    BY <1>5, <1>7 DEF onReservingBars, Handles, compensate, OpenMoves, Stages, SagaStates, OpenStates,
                      TerminalStates, FailedStates, repoVars
  <1>8. CASE onProposing(w) \/ onExecuting(w)
    BY <1>5, <1>8 DEF onProposing, onExecuting, ProposeMint, ExecuteMint, SendTransaction, Broadcast,
                      Handles, compensate, Stages, SagaStates, TerminalStates, FailedStates, repoVars
  <1>9. CASE onAwaitingApprovals(w)
    BY <1>0, <1>2, <1>5, <1>9 DEF onAwaitingApprovals, Handles, compensate, OpenMoves, Stages,
                      SagaStates, OpenStates, TerminalStates, FailedStates, repoVars
  <1>10. CASE WaitReceipt(w)
    BY <1>5, <1>10 DEF WaitReceipt, compensate, OpenMoves, Stages, SagaStates, OpenStates,
                       TerminalStates, FailedStates, repoVars
  <1>11. CASE ReleaseAllocation(w) \/ ReleaseFails(w)
    <2>1. worker[w].to \in FailedStates
      BY <1>0, <1>11 DEF ReleaseAllocation, ReleaseFails, StepMatchesRow
    <2> QED BY <1>5, <1>11, <2>1
            DEF ReleaseAllocation, ReleaseFails, Stages, SagaStates, TerminalStates, repoVars
  <1>12. CASE ReceiptLost(w)
    BY <1>5, <1>12 DEF ReceiptLost, compensate, Stages, SagaStates, TerminalStates, FailedStates, repoVars
  <1>13. CASE advance(w) \/ failSaga(w) \/ completeSaga(w) \/ Crash(w)
    BY <1>0, <1>2, <1>13 DEF advance, failSaga, completeSaga, Crash
  <1>14. CASE MineTransaction
    BY <1>0, <1>1, <1>14, MinedTransaction DEF repoVars
  <1>15. CASE OfficersAct \/ PublishRow \/ MarkPublished \/ UNCHANGED vars
    BY <1>1, <1>15 DEF OfficersAct, PublishRow, MarkPublished, vars, repoVars
  <1> QED BY <1>3, <1>4, <1>6, <1>7, <1>8, <1>9, <1>10, <1>11, <1>12, <1>13, <1>14, <1>15
          DEF Next, WorkerStep

LEMMA OutboxKept ==
    ASSUME NEW w \in Workers, Workers = {w}, OneWorkerInv(w), [Next]_vars
    PROVE  OutboxTells'
  <1>0. /\ worker \in [Workers -> Steps \cup {Idle}]
        /\ sagas \in [Allocations -> SagaStates \cup {"none"}]
        /\ outbox \in Seq(OutboxRow)
        /\ SagaTypeOK /\ StepMatchesRow(w) /\ OutboxTells
    BY DEF OneWorkerInv, SagaInv, SagaTypeOK, OutboxRow
  <1>1. ASSUME NEW i \in DOMAIN outbox
        PROVE  /\ outbox[i].id \in Allocations
               /\ outbox[i].event \in {"mint.executed", "mint.failed"}
               /\ sagas[outbox[i].id] \notin OpenStates \cup {"none"}
    <2>1. outbox[i] \in OutboxRow
      <3> HIDE DEF OutboxRow
      <3> QED BY <1>0, LenProperties, ElementOfSeq
    <2>2. outbox[i].id \in Allocations /\ outbox[i].event \in {"mint.executed", "mint.failed"}
      BY <2>1 DEF OutboxRow
    <2> QED BY <1>0, <2>2 DEF OutboxTells, OpenStates, FailedStates
  <1>2. worker[w].stage # "idle" =>
            worker[w].id \in Allocations /\ sagas[worker[w].id] \in OpenStates
    BY <1>0, StepFields DEF StepMatchesRow
  <1>3. CASE UNCHANGED <<sagas, outbox>>
    BY <1>0, <1>3 DEF OutboxTells
  <1>4. ASSUME NEW a \in Allocations, sagas[a] \in OpenStates \cup {"none"},
               NEW state, sagas' = [sagas EXCEPT ![a] = state], UNCHANGED outbox
        PROVE  OutboxTells'
    BY <1>0, <1>1, <1>4 DEF OutboxTells
  <1>5. ASSUME NEW state \in SagaStates, NEW event \in {"mint.executed", "mint.failed"},
               worker[w].stage # "idle",
               IF event = "mint.failed" THEN state \in FailedStates ELSE state = "completed",
               UpdateStateAndEnqueue(worker[w].id, state, event)
        PROVE  OutboxTells'
    <2>1. /\ DOMAIN outbox' = DOMAIN outbox \cup {Len(outbox) + 1}
          /\ outbox'[Len(outbox) + 1].id = worker[w].id
          /\ outbox'[Len(outbox) + 1].event = event
          /\ \A i \in DOMAIN outbox : outbox'[i] = outbox[i]
      <3>1. worker[w].id \in Allocations /\ SagaTypeOK
        BY <1>0, <1>2, <1>5
      <3> QED BY <1>5, <3>1, OutboxTypes
    <2>2. sagas' = [sagas EXCEPT ![worker[w].id] = state]
      BY <1>5 DEF UpdateStateAndEnqueue, UpdateState
    <2>3. ASSUME NEW i \in DOMAIN outbox
          PROVE  outbox[i].id # worker[w].id /\ sagas'[outbox[i].id] = sagas[outbox[i].id]
      BY <1>0, <1>1, <1>2, <1>5, <2>2
    <2>4. sagas'[worker[w].id] = state
      BY <1>0, <1>2, <1>5, <2>2
    <2> QED BY <1>0, <1>5, <2>1, <2>3, <2>4 DEF OutboxTells
  <1> QED BY <1>2, <1>3, <1>4, <1>5, RowWrites

\* With one worker, the copy it acts on never goes stale and the outbox tells what
\* became of each saga, through every crash, lost receipt and failed release.
THEOREM OneWorkerInvariant ==
    ASSUME NEW w \in Workers, Workers = {w}
    PROVE  Spec => []OneWorkerInv(w)
  <1>1. Init => OneWorkerInv(w)
    <2>1. Init => SagaInv
      BY SagaInit
    <2>2. Init => worker[w] = Idle /\ DOMAIN outbox = {}
      BY EmptySeq DEF Init
    <2> QED BY <2>1, <2>2 DEF OneWorkerInv, StepMatchesRow, OutboxTells, Idle
  <1>2. OneWorkerInv(w) /\ [Next]_vars => OneWorkerInv(w)'
    <2>1. SagaInv /\ [Next]_vars => SagaInv'
      BY TypesKept, PoolKept, ReceiptsKept, AnnouncedKept DEF SagaInv
    <2> QED BY <2>1, StepKept, OutboxKept DEF OneWorkerInv
  <1> QED BY <1>1, <1>2, PTL DEF Spec

LEMMA OutcomeOfStates ==
    /\ OutcomeOf("none") = "none"
    /\ \A state \in OpenStates : OutcomeOf(state) = "open"
    /\ OutcomeOf("completed") = "completed"
    /\ \A state \in FailedStates : OutcomeOf(state) = "failed"
  BY DEF OutcomeOf, OpenStates, FailedStates

\* A step of the saga opens, finishes or announces one outcome, or none of these.
LEMMA StepRefines ==
    ASSUME NEW w \in Workers, Workers = {w}, OneWorkerInv(w), [Next]_vars
    PROVE  [Promise!OutcomesNext]_<<[a \in Allocations |-> OutcomeOf(sagas[a])],
              {[subject |-> outbox[i].event, id |-> outbox[i].id] : i \in delivered}>>
  <1> DEFINE outcome == [a \in Allocations |-> OutcomeOf(sagas[a])]
             Message(i) == [subject |-> outbox[i].event, id |-> outbox[i].id]
             announced == {Message(i) : i \in delivered}
  <1>0. /\ worker \in [Workers -> Steps \cup {Idle}]
        /\ sagas \in [Allocations -> SagaStates \cup {"none"}]
        /\ outbox \in Seq(OutboxRow) /\ delivered \subseteq DOMAIN outbox
        /\ SagaTypeOK /\ StepMatchesRow(w) /\ OutboxTells
    BY DEF OneWorkerInv, SagaInv, SagaTypeOK, OutboxRow
  <1>1. worker[w].stage # "idle" =>
            worker[w].id \in Allocations /\ sagas[worker[w].id] \in OpenStates
    BY <1>0, StepFields DEF StepMatchesRow
  <1>2. ASSUME NEW a \in Allocations, NEW state, sagas' = [sagas EXCEPT ![a] = state]
        PROVE  outcome' = [outcome EXCEPT ![a] = OutcomeOf(state)]
    BY <1>0, <1>2
  <1>3. CASE UNCHANGED <<sagas, outbox>>
    <2>1. UNCHANGED outcome
      BY <1>3
    <2>2. CASE PublishRow
      <3>1. PICK i \in DOMAIN outbox : delivered' = delivered \cup {i}
        BY <2>2 DEF PublishRow
      <3>2. announced' = announced \cup {Message(i)}
        BY <1>3, <3>1
      <3>3. outbox[i] \in OutboxRow
        <4> HIDE DEF OutboxRow
        <4> QED BY <1>0, <3>1, LenProperties, ElementOfSeq
      <3>4. outbox[i].id \in Allocations /\ outbox[i].event \in {"mint.executed", "mint.failed"}
        BY <3>3 DEF OutboxRow
      <3>5. PICK a \in Allocations : a = outbox[i].id
        BY <3>4
      <3>6. /\ outcome[a] \in {"completed", "failed"}
            /\ [completed |-> "mint.executed", failed |-> "mint.failed"][outcome[a]] = outbox[i].event
        BY <1>0, <3>4, <3>5, OutcomeOfStates DEF OutboxTells
      <3>7. Promise!Announce(a)
        BY <2>1, <3>2, <3>5, <3>6 DEF Promise!Announce, Promise!Outcomes, Promise!OutcomeSubject
      <3>8. Promise!OutcomesNext
        BY <3>7 DEF Promise!OutcomesNext
      <3> QED BY <3>8
    <2>3. CASE UNCHANGED delivered
      BY <1>3, <2>1, <2>3
    <2>4. PublishRow \/ UNCHANGED delivered
      BY DEF Next, WorkerStep, CreateMintSaga, TimePasses, tickOnce, onCreated, onReservingBars,
             onProposing, ProposeMint, onAwaitingApprovals, onExecuting, ExecuteMint,
             SendTransaction, WaitReceipt, advance, ReleaseAllocation, failSaga, completeSaga,
             UpdateStateAndEnqueue, Crash, ReceiptLost, ReleaseFails, MineTransaction, OfficersAct,
             MarkPublished, outboxVars, vars
    <2> QED BY <2>2, <2>3, <2>4
  <1>4. ASSUME UNCHANGED <<outbox, delivered>>
        PROVE  UNCHANGED announced
    BY <1>4
  <1>5. ASSUME NEW a \in Allocations, sagas[a] = "none",
               sagas' = [sagas EXCEPT ![a] = "created"], UNCHANGED <<outbox, delivered>>
        PROVE  Promise!OutcomesNext
    <2>1. outcome' = [outcome EXCEPT ![a] = "open"]
      <3>1. OutcomeOf("created") = "open"
        BY OutcomeOfStates DEF OpenStates
      <3>2. outcome' = [outcome EXCEPT ![a] = OutcomeOf("created")]
        BY <1>2, <1>5
      <3> QED BY <3>1, <3>2
    <2>2. outcome[a] = "none"
      BY <1>5, OutcomeOfStates
    <2>3. Promise!Open(a)
      BY <1>4, <1>5, <2>1, <2>2 DEF Promise!Open
    <2> QED BY <2>3 DEF Promise!OutcomesNext
  <1>6. ASSUME worker[w].stage = "advance", sagas' = [sagas EXCEPT ![worker[w].id] = worker[w].to],
               UNCHANGED <<outbox, delivered>>
        PROVE  UNCHANGED <<outcome, announced>>
    <2>1. worker[w].to \in OpenStates
      BY <1>0, <1>6 DEF StepMatchesRow, OpenMoves, OpenStates
    <2>2. outcome' = [outcome EXCEPT ![worker[w].id] = "open"]
      BY <1>1, <1>2, <1>6, <2>1, OutcomeOfStates
    <2>3. outcome[worker[w].id] = "open"
      BY <1>1, <1>6, OutcomeOfStates
    <2> QED BY <1>1, <1>4, <1>6, <2>2, <2>3
  <1>7. ASSUME NEW state \in SagaStates, NEW event \in {"mint.executed", "mint.failed"},
               worker[w].stage # "idle",
               IF event = "mint.failed" THEN state \in FailedStates ELSE state = "completed",
               UpdateStateAndEnqueue(worker[w].id, state, event)
        PROVE  Promise!OutcomesNext
    <2>1. /\ sagas' = [sagas EXCEPT ![worker[w].id] = state]
          /\ delivered' = delivered
      BY <1>7 DEF UpdateStateAndEnqueue, UpdateState
    <2>2. \A i \in DOMAIN outbox : outbox'[i] = outbox[i]
      <3>1. worker[w].id \in Allocations /\ SagaTypeOK
        BY <1>0, <1>1, <1>7
      <3> QED BY <1>7, <3>1, OutboxTypes
    <2>3. announced' = announced
      BY <1>0, <2>1, <2>2
    <2>4. outcome' = [outcome EXCEPT ![worker[w].id] = OutcomeOf(state)]
      BY <1>1, <1>2, <1>7, <2>1
    <2>5. OutcomeOf(state) \in {"completed", "failed"}
      BY <1>7, OutcomeOfStates
    <2>6. outcome[worker[w].id] = "open"
      BY <1>1, <1>7, OutcomeOfStates
    <2>7. Promise!Finish(worker[w].id)
      BY <2>3, <2>4, <2>5, <2>6 DEF Promise!Finish, Promise!Outcomes
    <2> QED BY <1>1, <1>7, <2>7 DEF Promise!OutcomesNext
  <1> QED BY <1>3, <1>5, <1>6, <1>7, RowWrites

\* With one worker the service keeps what the order service builds on: one saga per
\* order, one outcome per saga, and the bus hears that one, through every crash, lost
\* receipt, failed release and repeated step.
THEOREM OutcomesImplemented ==
    ASSUME NEW w \in Workers, Workers = {w}
    PROVE  Spec => ImplementsOutcomes
  <1>1. Init => Promise!OutcomesInit
    <2>1. Init => [a \in Allocations |-> OutcomeOf(sagas[a])] = [a \in Allocations |-> "none"]
      BY OutcomeOfStates DEF Init
    <2>2. Init => {[subject |-> outbox[i].event, id |-> outbox[i].id] : i \in delivered} = {}
      BY DEF Init
    <2> QED BY <2>1, <2>2 DEF Promise!OutcomesInit
  <1>2. OneWorkerInv(w) /\ [Next]_vars =>
            [Promise!OutcomesNext]_<<[a \in Allocations |-> OutcomeOf(sagas[a])],
               {[subject |-> outbox[i].event, id |-> outbox[i].id] : i \in delivered}>>
    BY StepRefines
  <1> QED BY <1>1, <1>2, OneWorkerInvariant, PTL DEF Spec, ImplementsOutcomes, Promise!OutcomesSpec

-----------------------------------------------------------------------------
(* One worker: the votes a saga waits for *)

VotingStates == {"awaiting_approvals", "executing"}

\* The worker's own transaction is the last in the pool, so that its receipt says the
\* pool is empty: no proposeMint is left to be mined once its saga has moved on.
NoProposalBehind(w) ==
    /\ \A i \in DOMAIN mempool : mempool[i].by = w => i = Len(mempool)
    /\ worker[w].stage = "sent" /\ worker[w].receipt # "none" => Len(mempool) = 0
    /\ worker[w].stage = "advance" /\ worker[w].from = "proposing" => Len(mempool) = 0
    /\ \A i \in DOMAIN mempool :
          mempool[i].op = "proposeMint" => sagas[mempool[i].id] \notin VotingStates

\* How the pool changes: at most one transaction at a time comes or goes.
LEMMA PoolChanges ==
    ASSUME NEW w \in Workers, Workers = {w}, OneWorkerInv(w), [Next]_vars
    PROVE  \/ UNCHANGED mempool
           \/ /\ mempool' = Abandoned(w) /\ UNCHANGED sagas /\ faults' = faults + 1
              /\ worker'[w] = Idle \/ worker'[w].stage = "release"
           \/ MineTransaction
           \/ \E op \in {"proposeMint", "executeMint"} :
                 /\ mempool' = Append(mempool, [op |-> op, id |-> worker[w].id, by |-> w])
                 /\ worker[w].stage = "step"
                 /\ worker[w].from = IF op = "proposeMint" THEN "proposing" ELSE "executing"
                 /\ worker'[w].stage = "sent" /\ worker'[w].receipt = "none"
                 /\ UNCHANGED <<repoVars, bars, outboxVars, faults, onchain>>
  <1>0. /\ worker \in [Workers -> Steps \cup {Idle}]
        /\ ReceiptsAreTrue
    BY DEF OneWorkerInv, SagaInv, SagaTypeOK
  <1>1. ASSUME NEW op \in {"proposeMint", "executeMint"}, Broadcast(w, op), worker[w].stage = "step"
        PROVE  /\ mempool' = Append(mempool, [op |-> op, id |-> worker[w].id, by |-> w])
               /\ worker'[w].stage = "sent" /\ worker'[w].receipt = "none"
    <2>1. worker[w].receipt = "none"
      BY <1>0, <1>1 DEF ReceiptsAreTrue
    <2> QED BY <1>0, <1>1, <2>1, GotoFields DEF Broadcast, Stages
  <1>2. CASE onProposing(w) \/ onExecuting(w)
    BY <1>1, <1>2 DEF onProposing, onExecuting, ProposeMint, ExecuteMint, SendTransaction, Handles
  <1>3. CASE Crash(w)
    BY <1>0, <1>3 DEF Crash, Fault, repoVars
  <1>4. CASE ReceiptLost(w)
    <2>1. worker'[w].stage = "release"
      BY <1>0, <1>4, GotoFields
         DEF ReceiptLost, compensate, Stages, SagaStates, TerminalStates, FailedStates
    <2> QED BY <1>4, <2>1 DEF ReceiptLost, Fault, repoVars
  <1>5. CASE \/ tickOnce(w) \/ onCreated(w) \/ onReservingBars(w) \/ onAwaitingApprovals(w)
             \/ WaitReceipt(w) \/ advance(w) \/ ReleaseAllocation(w) \/ failSaga(w)
             \/ completeSaga(w) \/ ReleaseFails(w)
    BY <1>5 DEF tickOnce, onCreated, onReservingBars, onAwaitingApprovals, WaitReceipt, advance,
                ReleaseAllocation, failSaga, completeSaga, ReleaseFails
  <1> QED BY <1>2, <1>3, <1>4, <1>5
          DEF Next, WorkerStep, CreateMintSaga, TimePasses, OfficersAct, PublishRow, MarkPublished, vars

\* A worker that advances from "proposing" has just read its receipt.
LEMMA AdvanceFromReceipt ==
    ASSUME NEW w \in Workers, Workers = {w}, OneWorkerInv(w), [Next]_vars, UNCHANGED mempool,
           NoProposalBehind(w)
    PROVE  /\ worker'[w].stage = "sent" /\ worker'[w].receipt # "none" => Len(mempool) = 0
           /\ worker'[w].stage = "advance" /\ worker'[w].from = "proposing" => Len(mempool) = 0
  <1>0. /\ worker \in [Workers -> Steps \cup {Idle}]
        /\ mempool \in Seq(Transaction)
        /\ SagaInv /\ ReceiptsAreTrue
    BY DEF OneWorkerInv, SagaInv, SagaTypeOK
  <1>1. CASE UNCHANGED worker
    BY <1>1 DEF NoProposalBehind
  <1>2. CASE worker'[w] = Idle
    BY <1>2 DEF Idle
  <1>3. CASE worker'[w].stage \notin {"sent", "advance"}
    BY <1>3
  <1>4. ASSUME worker[w].stage # "idle", worker[w].from # "proposing",
               NEW stage \in Stages \ {"sent"}, NEW to \in SagaStates \cup {"none"}, Goto(w, stage, to)
        PROVE  worker'[w].stage # "sent" /\ worker'[w].from # "proposing"
    BY <1>0, <1>4, GotoFields
  <1>5. CASE tickOnce(w)
    BY <1>0, <1>3, <1>5 DEF tickOnce
  <1>6. CASE onCreated(w) \/ onReservingBars(w) \/ onAwaitingApprovals(w)
    <2>1. CASE onCreated(w)
      BY <1>4, <2>1 DEF onCreated, Handles, Stages, SagaStates, OpenStates
    <2>2. CASE onReservingBars(w)
      BY <1>4, <2>2 DEF onReservingBars, Handles, compensate, Stages, SagaStates, OpenStates,
                        TerminalStates, FailedStates
    <2>3. CASE onAwaitingApprovals(w)
      <3>1. \/ worker' = [worker EXCEPT ![w] = Idle]
            \/ \E stage \in Stages \ {"sent"}, to \in SagaStates \cup {"none"} : Goto(w, stage, to)
        BY <2>3 DEF onAwaitingApprovals, compensate, Stages, SagaStates, OpenStates,
                    TerminalStates, FailedStates
      <3>2. worker[w].stage = "step" /\ worker[w].from = "awaiting_approvals"
        BY <2>3 DEF onAwaitingApprovals, Handles
      <3> QED BY <1>0, <1>2, <1>4, <3>1, <3>2
    <2> QED BY <1>6, <2>1, <2>2, <2>3
  <1>7. CASE onProposing(w) \/ onExecuting(w)
    <2>1. worker[w].stage = "step"
      BY <1>7 DEF onProposing, onExecuting, Handles
    <2>2. /\ worker'[w].stage \in {"sent", "release"}
          /\ worker'[w].receipt = worker[w].receipt
      BY <1>0, <1>7, <2>1, GotoFields
         DEF onProposing, onExecuting, ProposeMint, ExecuteMint, SendTransaction, Broadcast,
             compensate, Stages, SagaStates, TerminalStates, FailedStates
    <2> QED BY <1>0, <2>1, <2>2 DEF ReceiptsAreTrue
  <1>8. CASE WaitReceipt(w)
    <2>1. Len(mempool) = 0
      BY <1>8 DEF WaitReceipt, NoProposalBehind
    <2> QED BY <2>1
  <1>9. CASE advance(w) \/ failSaga(w) \/ completeSaga(w) \/ Crash(w)
    BY <1>0, <1>2, <1>9 DEF advance, failSaga, completeSaga, Crash
  <1>10. CASE ReleaseAllocation(w) \/ ReleaseFails(w)
    <2>1. worker[w].stage = "release" /\ Goto(w, "fail", worker[w].to)
      BY <1>10 DEF ReleaseAllocation, ReleaseFails
    <2>2. worker[w].to \in SagaStates \cup {"none"}
      BY <1>0, <2>1, StepFields
    <2>3. worker'[w].stage = "fail"
      BY <1>0, <2>1, <2>2, GotoFields DEF Stages
    <2> QED BY <2>3
  <1>11. CASE ReceiptLost(w)
    <2>1. worker'[w].stage = "release"
      BY <1>0, <1>11, GotoFields
         DEF ReceiptLost, compensate, Stages, SagaStates, TerminalStates, FailedStates
    <2> QED BY <2>1
  <1>12. ~MineTransaction
    <2>1. MineTransaction => mempool # <<>> /\ mempool' = Tail(mempool)
      BY DEF MineTransaction
    <2>2. MineTransaction => Len(mempool') = Len(mempool) - 1 /\ Len(mempool) \in Nat
      BY <1>0, <2>1, PoolTail
    <2> QED BY <2>2
  <1> QED BY <1>1, <1>5, <1>6, <1>7, <1>8, <1>9, <1>10, <1>11, <1>12
          DEF Next, WorkerStep, CreateMintSaga, TimePasses, OfficersAct, PublishRow, MarkPublished, vars

\* No row enters a voting state while a proposal is in the pool, except a row that
\* was in one before.
LEMMA NoVotingBehindProposal ==
    ASSUME NEW w \in Workers, Workers = {w}, OneWorkerInv(w), [Next]_vars,
           NoProposalBehind(w), Len(mempool) # 0,
           NEW a \in Allocations, sagas[a] \notin VotingStates
    PROVE  sagas'[a] \notin VotingStates
  <1>0. /\ worker \in [Workers -> Steps \cup {Idle}]
        /\ sagas \in [Allocations -> SagaStates \cup {"none"}]
        /\ StepMatchesRow(w)
    BY DEF OneWorkerInv, SagaInv, SagaTypeOK
  <1>1. CASE UNCHANGED sagas
    BY <1>1
  <1>2. CASE \E b \in Allocations : sagas' = [sagas EXCEPT ![b] = "created"]
    BY <1>0, <1>2 DEF VotingStates
  <1>3. CASE worker[w].stage = "advance" /\ sagas' = [sagas EXCEPT ![worker[w].id] = worker[w].to]
    <2>1. worker[w].from # "proposing"
      BY <1>3 DEF NoProposalBehind
    <2>2. sagas[worker[w].id] = worker[w].from /\ <<worker[w].from, worker[w].to>> \in OpenMoves
      BY <1>0, <1>3 DEF StepMatchesRow
    <2>3. worker[w].from \in VotingStates \/ worker[w].to \notin VotingStates
      BY <2>1, <2>2 DEF OpenMoves, VotingStates
    <2> QED BY <1>0, <1>3, <2>2, <2>3
  <1>4. CASE \E state \in TerminalStates : sagas' = [sagas EXCEPT ![worker[w].id] = state]
    BY <1>0, <1>4 DEF VotingStates, TerminalStates, FailedStates
  <1> QED BY <1>1, <1>2, <1>3, <1>4, RowWrites DEF UpdateStateAndEnqueue, UpdateState, TerminalStates

LEMMA ProposalsKept ==
    ASSUME NEW w \in Workers, Workers = {w}, OneWorkerInv(w), [Next]_vars, NoProposalBehind(w)
    PROVE  NoProposalBehind(w)'
  <1>0. /\ worker \in [Workers -> Steps \cup {Idle}]
        /\ mempool \in Seq(Transaction)
        /\ SagaInv /\ PoolMatchesWorkers /\ ReceiptsAreTrue /\ StepMatchesRow(w)
    BY DEF OneWorkerInv, SagaInv, SagaTypeOK
  <1>1. /\ DOMAIN mempool = 1..Len(mempool) /\ Len(mempool) \in Nat
        /\ \A i \in DOMAIN mempool : mempool[i] \in Transaction
    <2> HIDE DEF Transaction
    <2> QED BY <1>0, LenProperties
  <1>2. \A i \in DOMAIN mempool : mempool[i].id \in Allocations
    BY <1>1 DEF Transaction
  <1>3. ASSUME NEW i \in DOMAIN mempool, mempool[i].op = "proposeMint"
        PROVE  sagas'[mempool[i].id] \notin VotingStates
    <2>1. Len(mempool) # 0 /\ sagas[mempool[i].id] \notin VotingStates
      BY <1>1, <1>3 DEF NoProposalBehind
    <2> QED BY <1>2, <2>1, NoVotingBehindProposal
  <1>4. CASE UNCHANGED mempool
    <2>1. /\ worker'[w].stage = "sent" /\ worker'[w].receipt # "none" => Len(mempool) = 0
          /\ worker'[w].stage = "advance" /\ worker'[w].from = "proposing" => Len(mempool) = 0
      BY <1>4, AdvanceFromReceipt
    <2> QED BY <1>3, <1>4, <2>1 DEF NoProposalBehind
  <1>5. CASE mempool' = Abandoned(w) /\ UNCHANGED sagas /\ (worker'[w] = Idle \/ worker'[w].stage = "release")
    <2>1. /\ DOMAIN mempool' = DOMAIN mempool
          /\ \A i \in DOMAIN mempool :
                 /\ mempool'[i].op = mempool[i].op /\ mempool'[i].id = mempool[i].id
                 /\ mempool[i].by = w => mempool'[i].by = "nobody"
                 /\ mempool[i].by # w => mempool'[i].by = mempool[i].by
      BY <1>0, <1>5, PoolAbandoned
    <2>2. \A i \in DOMAIN mempool' : mempool'[i].by # w
      BY <2>1, SagaAssumption
    <2>3. worker'[w].stage \notin {"sent", "advance"}
      BY <1>5 DEF Idle
    <2> QED BY <1>3, <2>1, <2>2, <2>3 DEF NoProposalBehind
  <1>6. CASE MineTransaction
    <2>1. /\ mempool # <<>> /\ mempool' = Tail(mempool)
          /\ UNCHANGED sagas
      BY <1>6 DEF MineTransaction, repoVars
    <2>2. /\ mempool' \in Seq(Transaction)
          /\ Len(mempool) \in Nat \ {0} /\ Len(mempool') = Len(mempool) - 1
          /\ DOMAIN mempool' = 1..(Len(mempool) - 1)
          /\ Head(mempool) = mempool[1]
          /\ \A i \in DOMAIN mempool' : mempool'[i] = mempool[i + 1]
      BY <1>0, <2>1, PoolTail
    <2>3. PICK receipt \in {"ok", "reverted"} :
             /\ worker'[w].stage = worker[w].stage /\ worker'[w].from = worker[w].from
             /\ w # Head(mempool).by => worker'[w] = worker[w]
      BY <1>0, <1>6, MinedTransaction
    <2>4. \A i \in DOMAIN mempool' : mempool'[i].by = w => i = Len(mempool')
      BY <1>1, <2>2 DEF NoProposalBehind
    <2>5. worker'[w].stage = "sent" /\ worker'[w].receipt # "none" => Len(mempool') = 0
      <3>1. CASE w = Head(mempool).by
        <4>1. 1 = Len(mempool)
          BY <1>1, <2>2, <3>1 DEF NoProposalBehind
        <4>2. Len(mempool') = Len(mempool) - 1
          BY <2>2
        <4>3. Len(mempool') = 0
          BY <4>1, <4>2
        <4> QED BY <4>3
      <3>2. CASE w # Head(mempool).by
        BY <2>2, <2>3, <3>2 DEF NoProposalBehind
      <3> QED BY <3>1, <3>2
    <2>6. ~(worker'[w].stage = "advance" /\ worker'[w].from = "proposing")
      BY <2>2, <2>3 DEF NoProposalBehind
    <2>7. ASSUME NEW i \in DOMAIN mempool', mempool'[i].op = "proposeMint"
          PROVE  sagas'[mempool'[i].id] \notin VotingStates
      <3>1. i + 1 \in DOMAIN mempool /\ mempool'[i] = mempool[i + 1]
        BY <1>1, <2>2
      <3> QED BY <1>3, <2>7, <3>1
    <2> QED BY <2>4, <2>5, <2>6, <2>7 DEF NoProposalBehind
  <1>7. ASSUME NEW op \in {"proposeMint", "executeMint"},
               mempool' = Append(mempool, [op |-> op, id |-> worker[w].id, by |-> w]),
               worker[w].stage = "step",
               worker[w].from = IF op = "proposeMint" THEN "proposing" ELSE "executing",
               worker'[w].stage = "sent" /\ worker'[w].receipt = "none",
               UNCHANGED sagas
        PROVE  NoProposalBehind(w)'
    <2> DEFINE tx == [op |-> op, id |-> worker[w].id, by |-> w]
    <2>1. worker[w].id \in Allocations
      BY <1>0, <1>7, StepFields
    <2>2. tx \in Transaction /\ tx.op = op /\ tx.id = worker[w].id /\ tx.by = w
      BY <2>1 DEF Transaction
    <2>3. mempool' = Append(mempool, tx)
      BY <1>7
    <2> HIDE DEF tx
    <2>4. /\ Len(mempool') = Len(mempool) + 1
          /\ DOMAIN mempool' = 1..(Len(mempool) + 1)
          /\ mempool'[Len(mempool) + 1] = tx
          /\ \A i \in DOMAIN mempool : mempool'[i] = mempool[i]
      BY <1>0, <2>2, <2>3, PoolAppend
    <2>5. \A i \in DOMAIN mempool : mempool[i].by # w
      BY <1>0, <1>7 DEF PoolMatchesWorkers
    <2>6. op = "proposeMint" => sagas[worker[w].id] \notin VotingStates
      BY <1>0, <1>7 DEF StepMatchesRow, VotingStates
    <2>7. \A i \in DOMAIN mempool' : i \in DOMAIN mempool \/ i = Len(mempool) + 1
      BY <1>1, <2>4
    <2>8. \A i \in DOMAIN mempool' : mempool'[i].by = w => i = Len(mempool')
      BY <2>4, <2>5, <2>7
    <2>9. \A i \in DOMAIN mempool' :
             mempool'[i].op = "proposeMint" => sagas'[mempool'[i].id] \notin VotingStates
      BY <1>3, <1>7, <2>2, <2>4, <2>6, <2>7
    <2> QED BY <1>7, <2>8, <2>9 DEF NoProposalBehind
  <1> QED BY <1>4, <1>5, <1>6, <1>7, PoolChanges DEF repoVars

\* With one worker, no proposeMint is left in the pool behind a saga that has moved on
\* from proposing.
THEOREM ProposalsBehindInvariant ==
    ASSUME NEW w \in Workers, Workers = {w}
    PROVE  Spec => [](OneWorkerInv(w) /\ NoProposalBehind(w))
  <1>1. Init => NoProposalBehind(w)
    <2>1. Init => worker[w] = Idle /\ DOMAIN mempool = {} /\ Len(mempool) = 0
      BY EmptySeq DEF Init
    <2> QED BY <2>1 DEF NoProposalBehind, Idle
  <1>2. OneWorkerInv(w) /\ NoProposalBehind(w) /\ [Next]_vars => NoProposalBehind(w)'
    BY ProposalsKept
  <1> QED BY <1>1, <1>2, OneWorkerInvariant, PTL DEF Spec

\* A repeated or late proposeMint wipes no votes a saga waits for or executes on,
\* whatever crashes and lost receipts left it behind.
THEOREM ApprovalsAreKept ==
    ASSUME NEW w \in Workers, Workers = {w}
    PROVE  Spec => ApprovalsKept
  <1> DEFINE Kept == \A a \in Allocations : onchain'[a].approvals < onchain[a].approvals =>
                        sagas[a] \notin {"awaiting_approvals", "executing"}
  <1>1. ASSUME OneWorkerInv(w), NoProposalBehind(w), [Next]_vars PROVE Kept
    <2>0. /\ onchain \in [Allocations -> [status : Statuses, approvals : Nat]]
          /\ SagaInv
      BY <1>1 DEF OneWorkerInv, SagaInv, SagaTypeOK
    <2>1. \A a \in Allocations : onchain[a].approvals \in Nat
      BY <2>0
    <2>2. CASE UNCHANGED onchain
      BY <2>1, <2>2
    <2>3. ASSUME NEW a \in Allocations, Approve(a) \/ Cancel(a) \/ Execute(a) PROVE Kept
      <3>1. ~Propose(a)
        <4>1. Propose(a) => onchain'[a] = [status |-> "PROPOSED", approvals |-> 0]
          BY <2>0 DEF Propose
        <4>2. Propose(a) => onchain'[a].status = "PROPOSED" /\ onchain'[a].approvals = 0
          BY <4>1
        <4>3. onchain[a] \in [status : Statuses, approvals : Nat]
          BY <2>0
        <4>4. CASE Approve(a)
          <5>1. onchain'[a] = [onchain[a] EXCEPT !.approvals = onchain[a].approvals + 1]
            BY <2>0, <4>4 DEF Approve
          <5>2. onchain'[a].approvals = onchain[a].approvals + 1
            BY <4>3, <5>1
          <5> QED BY <2>1, <4>2, <5>2
        <4>5. CASE Cancel(a)
          <5>1. onchain'[a] = [onchain[a] EXCEPT !.status = "CANCELLED"]
            BY <2>0, <4>5 DEF Cancel
          <5> QED BY <4>2, <4>3, <5>1
        <4>6. CASE Execute(a)
          <5>1. onchain'[a] = [onchain[a] EXCEPT !.status = "EXECUTED"]
            BY <2>0, <4>6 DEF Execute
          <5> QED BY <4>2, <4>3, <5>1
        <4> QED BY <2>3, <4>4, <4>5, <4>6
      <3>2. /\ \A b \in Allocations \ {a} : onchain'[b] = onchain[b]
            /\ onchain'[a].approvals >= onchain[a].approvals
            /\ onchain' \in [Allocations -> [status : Statuses, approvals : Nat]]
        BY <2>0, <2>3, <3>1, ChainTypes
      <3>3. onchain'[a].approvals \in Nat
        BY <3>2
      <3> QED BY <2>1, <3>2, <3>3
    <2>4. CASE MineTransaction
      <3>1. /\ Head(mempool) \in Transaction /\ Head(mempool) = mempool[1] /\ 1 \in DOMAIN mempool
            /\ \/ UNCHANGED onchain
               \/ IF Head(mempool).op = "proposeMint" THEN Propose(Head(mempool).id)
                                                      ELSE Execute(Head(mempool).id)
        BY <2>0, <2>4, MinedTransaction
      <3>2. Head(mempool).id \in Allocations
        BY <3>1 DEF Transaction
      <3>3. CASE Head(mempool).op = "proposeMint" /\ Propose(Head(mempool).id)
        <4>1. sagas[Head(mempool).id] \notin VotingStates
          BY <1>1, <3>1, <3>3 DEF NoProposalBehind
        <4>2. \A b \in Allocations \ {Head(mempool).id} : onchain'[b] = onchain[b]
          BY <2>0, <3>2, <3>3, ChainTypes
        <4> QED BY <2>1, <4>1, <4>2 DEF VotingStates
      <3> QED BY <2>2, <2>3, <3>1, <3>2, <3>3
    <2>5. CASE OfficersAct
      BY <2>3, <2>5 DEF OfficersAct
    <2>6. ASSUME NEW v \in Workers,
                 WorkerStep(v) \/ Crash(v) \/ ReceiptLost(v) \/ ReleaseFails(v)
          PROVE  UNCHANGED onchain
      BY <2>6 DEF WorkerStep, tickOnce, onCreated, onReservingBars, onProposing, ProposeMint,
                  onAwaitingApprovals, onExecuting, ExecuteMint, SendTransaction, WaitReceipt,
                  advance, ReleaseAllocation, failSaga, completeSaga, Crash, ReceiptLost, ReleaseFails
    <2> QED BY <1>1, <2>2, <2>4, <2>5, <2>6
            DEF Next, CreateMintSaga, TimePasses, PublishRow, MarkPublished, vars
  <1>2. OneWorkerInv(w) /\ NoProposalBehind(w) /\ [Next]_vars => [Kept]_vars
    BY <1>1
  <1> QED BY <1>2, ProposalsBehindInvariant, PTL DEF Spec, ApprovalsKept

-----------------------------------------------------------------------------
(* One worker and no fault: bars and refunds *)

\* Every transaction in the pool is one the worker waits for.
OwnTransactions(w) == \A i \in DOMAIN mempool : mempool[i].by = w

\* What has been minted is announced, or in the hands of the worker that will.
MintInHand(w) ==
    \A a \in Allocations : Minted(a) =>
        \/ sagas[a] = "completed"
        \/ /\ worker[w].id = a /\ worker[w].from = "executing"
           /\ \/ worker[w].stage = "sent" /\ worker[w].receipt = "ok"
              \/ worker[w].stage = "complete"

BackedStates == {"proposing", "awaiting_approvals", "executing", "completed"}

\* Bars are held from the reservation to the end, and by no failed saga.
BarsHeld(w) ==
    /\ \A a \in Allocations :
          /\ sagas[a] \in BackedStates => \/ a \in bars
                                          \/ worker[w].stage = "fail" /\ worker[w].id = a
          /\ sagas[a] \in FailedStates => a \notin bars
    /\ worker[w].stage = "advance" /\ worker[w].to = "proposing" => worker[w].id \in bars
    /\ worker[w].stage = "fail" => worker[w].id \notin bars

CleanInv(w) ==
    /\ OneWorkerInv(w) /\ NoProposalBehind(w)
    /\ faults = 0 => OwnTransactions(w) /\ MintInHand(w) /\ BarsHeld(w)

\* A step after which nothing has gone wrong is none that goes wrong.
LEMMA NothingWentWrong ==
    ASSUME NEW w \in Workers, Workers = {w}, OneWorkerInv(w), [Next]_vars, faults' = 0
    PROVE  faults = 0 /\ ~Crash(w) /\ ~ReceiptLost(w) /\ ~ReleaseFails(w)
  <1>1. faults \in Nat
    BY SagaAssumption DEF OneWorkerInv, SagaInv, SagaTypeOK
  <1>2. CASE faults' = faults + 1
    BY <1>1, <1>2
  <1>3. ASSUME Crash(w) \/ ReceiptLost(w) \/ ReleaseFails(w) PROVE faults' = faults + 1
    BY <1>3 DEF Crash, ReceiptLost, ReleaseFails, Fault
  <1>4. faults' = faults \/ Crash(w) \/ ReceiptLost(w) \/ ReleaseFails(w)
    BY DEF Next, WorkerStep, CreateMintSaga, TimePasses, tickOnce, onCreated, onReservingBars,
           onProposing, ProposeMint, onAwaitingApprovals, onExecuting, ExecuteMint,
           SendTransaction, WaitReceipt, advance, ReleaseAllocation, failSaga, completeSaga,
           MineTransaction, OfficersAct, PublishRow, MarkPublished, vars
  <1> QED BY <1>1, <1>2, <1>3, <1>4

\* Only Execute mints.
LEMMA OnlyExecuteMints ==
    ASSUME onchain \in [Allocations -> [status : Statuses, approvals : Nat]],
           NEW a \in Allocations, Propose(a) \/ Approve(a) \/ Cancel(a)
    PROVE  onchain'[a].status # "EXECUTED" /\ \A b \in Allocations \ {a} : onchain'[b] = onchain[b]
  <1>1. onchain[a] \in [status : Statuses, approvals : Nat]
    OBVIOUS
  <1>2. CASE Propose(a)
    <2>1. onchain'[a] = [status |-> "PROPOSED", approvals |-> 0]
      BY <1>2 DEF Propose
    <2> QED BY <1>2, <2>1 DEF Propose
  <1>3. CASE Approve(a)
    <2>1. onchain'[a] = [onchain[a] EXCEPT !.approvals = onchain[a].approvals + 1]
      BY <1>3 DEF Approve
    <2> QED BY <1>1, <1>3, <2>1 DEF Approve
  <1>4. CASE Cancel(a)
    <2>1. onchain'[a] = [onchain[a] EXCEPT !.status = "CANCELLED"]
      BY <1>4 DEF Cancel
    <2> QED BY <1>1, <1>4, <2>1 DEF Cancel
  <1> QED BY <1>2, <1>3, <1>4

LEMMA OwnTransactionsKept ==
    ASSUME NEW w \in Workers, Workers = {w}, OneWorkerInv(w), [Next]_vars,
           faults' = 0, OwnTransactions(w)
    PROVE  OwnTransactions(w)'
  <1>0. /\ worker \in [Workers -> Steps \cup {Idle}]
        /\ mempool \in Seq(Transaction) /\ SagaInv /\ faults \in Nat
    BY SagaAssumption DEF OneWorkerInv, SagaInv, SagaTypeOK
  <1>1. CASE UNCHANGED mempool
    BY <1>1 DEF OwnTransactions
  <1>2. CASE faults' = faults + 1
    BY <1>0, <1>2
  <1>3. CASE MineTransaction
    BY <1>0, <1>3, MinedTransaction DEF OwnTransactions
  <1>4. ASSUME NEW op \in {"proposeMint", "executeMint"}, worker[w].stage = "step",
               mempool' = Append(mempool, [op |-> op, id |-> worker[w].id, by |-> w])
        PROVE  OwnTransactions(w)'
    <2> DEFINE tx == [op |-> op, id |-> worker[w].id, by |-> w]
    <2>1. worker[w].id \in Allocations
      BY <1>0, <1>4, StepFields
    <2>2. tx \in Transaction /\ tx.by = w /\ mempool' = Append(mempool, tx)
      BY <1>4, <2>1 DEF Transaction
    <2> HIDE DEF tx
    <2>3. /\ DOMAIN mempool = 1..Len(mempool) /\ DOMAIN mempool' = 1..(Len(mempool) + 1)
          /\ Len(mempool) \in Nat /\ mempool'[Len(mempool) + 1] = tx
          /\ \A i \in DOMAIN mempool : mempool'[i] = mempool[i]
      BY <1>0, <2>2, PoolAppend
    <2>4. \A i \in DOMAIN mempool' : i \in DOMAIN mempool \/ i = Len(mempool) + 1
      BY <2>3
    <2> QED BY <2>2, <2>3, <2>4 DEF OwnTransactions
  <1> QED BY <1>1, <1>2, <1>3, <1>4, PoolChanges

\* A completed saga stays completed when no rival writes to its row.
LEMMA CompletedStays ==
    ASSUME NEW w \in Workers, Workers = {w}, OneWorkerInv(w), [Next]_vars,
           NEW a \in Allocations, sagas[a] = "completed"
    PROVE  sagas'[a] = "completed"
  <1>1. /\ worker \in [Workers -> Steps \cup {Idle}]
        /\ sagas \in [Allocations -> SagaStates \cup {"none"}] /\ StepMatchesRow(w)
    BY DEF OneWorkerInv, SagaInv, SagaTypeOK
  <1>2. worker[w].stage # "idle" => worker[w].id # a
    <2>1. worker[w].stage # "idle" => worker[w].from \in OpenStates
      BY <1>1, StepFields
    <2> QED BY <1>1, <2>1 DEF StepMatchesRow, OpenStates
  <1>3. CASE \E state : sagas' = [sagas EXCEPT ![worker[w].id] = state] /\ worker[w].stage # "idle"
    BY <1>1, <1>2, <1>3
  <1> QED BY <1>1, <1>3, RowWrites DEF UpdateStateAndEnqueue, UpdateState

LEMMA MintInHandKept ==
    ASSUME NEW w \in Workers, Workers = {w}, OneWorkerInv(w), [Next]_vars,
           faults' = 0, OwnTransactions(w), MintInHand(w)
    PROVE  MintInHand(w)'
  <1> DEFINE InHand(a) ==
        /\ worker[w].id = a /\ worker[w].from = "executing"
        /\ \/ worker[w].stage = "sent" /\ worker[w].receipt = "ok"
           \/ worker[w].stage = "complete"
  <1>0. /\ worker \in [Workers -> Steps \cup {Idle}]
        /\ sagas \in [Allocations -> SagaStates \cup {"none"}]
        /\ onchain \in [Allocations -> [status : Statuses, approvals : Nat]]
        /\ SagaInv /\ PoolMatchesWorkers /\ StepMatchesRow(w)
    BY DEF OneWorkerInv, SagaInv, SagaTypeOK
  <1>1. ASSUME NEW a \in Allocations, sagas[a] = "completed"
        PROVE  sagas'[a] = "completed"
    BY <1>1, CompletedStays
  <1>2. ASSUME UNCHANGED onchain, \A a \in Allocations : InHand(a) => InHand(a)' \/ sagas'[a] = "completed"
        PROVE  MintInHand(w)'
    BY <1>1, <1>2 DEF MintInHand, Minted
  <1>3. CASE UNCHANGED <<onchain, worker>>
    BY <1>2, <1>3
  <1>4. ASSUME UNCHANGED onchain, worker[w].stage \notin {"sent", "complete"}
        PROVE  MintInHand(w)'
    BY <1>2, <1>4
  <1>5. CASE WorkerStep(w)
    <2>1. UNCHANGED onchain
      BY <1>5 DEF WorkerStep, tickOnce, onCreated, onReservingBars, onProposing, ProposeMint,
                  onAwaitingApprovals, onExecuting, ExecuteMint, SendTransaction, WaitReceipt,
                  advance, ReleaseAllocation, failSaga, completeSaga
    <2>2. CASE WaitReceipt(w)
      <3>1. worker[w].stage = "sent"
        BY <2>2 DEF WaitReceipt
      <3>2. worker[w].from = "executing" /\ worker[w].receipt = "ok" =>
               /\ worker'[w].stage = "complete" /\ worker'[w].id = worker[w].id
               /\ worker'[w].from = "executing"
        BY <1>0, <2>2, <3>1, GotoFields
           DEF WaitReceipt, Stages, SagaStates, TerminalStates, FailedStates
      <3> QED BY <1>2, <2>1, <3>1, <3>2
    <2>3. CASE completeSaga(w)
      <3>1. worker[w].stage = "complete" /\ sagas' = [sagas EXCEPT ![worker[w].id] = "completed"]
        BY <2>3 DEF completeSaga, UpdateStateAndEnqueue, UpdateState
      <3>2. worker[w].id \in Allocations
        BY <1>0, <3>1, StepFields
      <3>3. sagas'[worker[w].id] = "completed"
        BY <1>0, <3>1, <3>2
      <3> QED BY <1>2, <2>1, <3>3
    <2>4. CASE tickOnce(w)
      BY <1>4, <2>1, <2>4 DEF tickOnce, Idle
    <2>5. CASE \/ onCreated(w) \/ onReservingBars(w) \/ onProposing(w)
               \/ onAwaitingApprovals(w) \/ onExecuting(w)
      BY <1>4, <2>1, <2>5 DEF onCreated, onReservingBars, onProposing, onAwaitingApprovals,
                              onExecuting, Handles
    <2>6. CASE advance(w) \/ ReleaseAllocation(w) \/ failSaga(w)
      BY <1>4, <2>1, <2>6 DEF advance, ReleaseAllocation, failSaga
    <2> QED BY <1>5, <2>2, <2>3, <2>4, <2>5, <2>6 DEF WorkerStep
  <1>6. CASE MineTransaction
    <2> DEFINE tx == Head(mempool)
    <2>1. PICK receipt \in {"ok", "reverted"} :
             /\ receipt = "reverted" => UNCHANGED onchain
             /\ receipt = "ok" => IF tx.op = "proposeMint" THEN Propose(tx.id) ELSE Execute(tx.id)
             /\ worker'[w].stage = worker[w].stage /\ worker'[w].id = worker[w].id
             /\ worker'[w].from = worker[w].from
             /\ w = tx.by => worker'[w].receipt = receipt
      BY <1>0, <1>6, MinedTransaction
    <2>2. tx \in Transaction /\ tx = mempool[1] /\ 1 \in DOMAIN mempool
      BY <1>0, <1>6, MinedTransaction
    <2>3. /\ tx.by = w /\ tx.id \in Allocations
          /\ tx.op \in {"proposeMint", "executeMint"}
      BY <2>2 DEF Transaction, OwnTransactions
    <2>4. /\ worker[w].stage = "sent" /\ worker[w].receipt = "none" /\ worker[w].id = tx.id
          /\ (tx.op = "executeMint") <=> (worker[w].from = "executing")
      BY <1>0, <2>2, <2>3 DEF PoolMatchesWorkers
    <2> HIDE DEF tx
    <2>5. ASSUME NEW a \in Allocations, onchain'[a].status = "EXECUTED"
          PROVE  \/ sagas[a] = "completed"
                 \/ a = tx.id /\ receipt = "ok" /\ tx.op = "executeMint"
      <3>1. CASE receipt = "reverted"
        BY <2>1, <2>4, <2>5, <3>1 DEF MintInHand, Minted
      <3>2. CASE receipt = "ok" /\ tx.op = "proposeMint"
        <4>1. Propose(tx.id)
          BY <2>1, <3>2
        <4>2. a # tx.id /\ onchain'[a] = onchain[a]
          BY <1>0, <2>3, <2>5, <4>1, OnlyExecuteMints
        <4> QED BY <2>4, <2>5, <4>2 DEF MintInHand, Minted
      <3>3. CASE receipt = "ok" /\ tx.op = "executeMint"
        <4>1. Execute(tx.id)
          BY <2>1, <3>3
        <4>2. a # tx.id => onchain'[a] = onchain[a]
          BY <1>0, <2>3, <4>1, ChainTypes
        <4> QED BY <2>4, <2>5, <3>3, <4>2 DEF MintInHand, Minted
      <3> QED BY <2>3, <3>1, <3>2, <3>3
    <2> QED BY <1>1, <2>1, <2>3, <2>4, <2>5 DEF MintInHand, Minted
  <1>7. CASE OfficersAct
    <2>1. PICK a \in Allocations : Approve(a) \/ Cancel(a)
      BY <1>7 DEF OfficersAct
    <2>2. onchain'[a].status # "EXECUTED" /\ \A b \in Allocations \ {a} : onchain'[b] = onchain[b]
      BY <1>0, <2>1, OnlyExecuteMints
    <2>3. UNCHANGED <<sagas, worker>>
      BY <1>7 DEF OfficersAct, repoVars
    <2> QED BY <2>2, <2>3 DEF MintInHand, Minted
  <1>8. ~Crash(w) /\ ~ReceiptLost(w) /\ ~ReleaseFails(w)
    BY NothingWentWrong
  <1> QED BY <1>3, <1>5, <1>6, <1>7, <1>8
          DEF Next, CreateMintSaga, TimePasses, PublishRow, MarkPublished, vars

LEMMA BarsHeldKept ==
    ASSUME NEW w \in Workers, Workers = {w}, OneWorkerInv(w), [Next]_vars,
           faults' = 0, BarsHeld(w)
    PROVE  BarsHeld(w)'
  <1>0. /\ worker \in [Workers -> Steps \cup {Idle}]
        /\ sagas \in [Allocations -> SagaStates \cup {"none"}]
        /\ SagaInv /\ StepMatchesRow(w)
    BY DEF OneWorkerInv, SagaInv, SagaTypeOK
  <1>1. worker[w].stage # "idle" =>
            worker[w].id \in Allocations /\ sagas[worker[w].id] \in OpenStates
    BY <1>0, StepFields DEF StepMatchesRow
  <1>2. ASSUME UNCHANGED <<sagas, bars>>, worker'[w].stage = worker[w].stage,
               worker'[w].id = worker[w].id, worker'[w].to = worker[w].to
        PROVE  BarsHeld(w)'
    BY <1>2 DEF BarsHeld
  <1>3. ASSUME UNCHANGED <<sagas, bars>>, worker[w].stage # "fail", worker'[w].stage # "fail",
               worker'[w].stage = "advance" => worker'[w].to # "proposing"
        PROVE  BarsHeld(w)'
    BY <1>3 DEF BarsHeld
  <1>4. ASSUME NEW a \in Allocations, CreateMintSaga(a) \/ TimePasses(a)
        PROVE  BarsHeld(w)'
    <2>1. CASE CreateMintSaga(a)
      <3>1. /\ sagas' = [sagas EXCEPT ![a] = "created"]
            /\ UNCHANGED <<bars, worker>>
        BY <2>1 DEF CreateMintSaga
      <3>2. "created" \notin BackedStates \cup FailedStates
        BY DEF BackedStates, FailedStates
      <3> QED BY <1>0, <3>1, <3>2 DEF BarsHeld
    <2>2. CASE TimePasses(a)
      BY <1>2, <2>2 DEF TimePasses
    <2> QED BY <1>4, <2>1, <2>2
  <1>5. CASE tickOnce(w)
    BY <1>0, <1>3, <1>5 DEF tickOnce, repoVars, Idle
  <1>6. ASSUME worker[w].stage \notin {"idle", "fail"}, UNCHANGED <<sagas, bars>>,
               NEW stage \in Stages \ {"fail"}, NEW to \in SagaStates \cup {"none"}, Goto(w, stage, to),
               stage = "advance" => to # "proposing"
        PROVE  BarsHeld(w)'
    <2>1. worker'[w].stage = stage /\ worker'[w].to = to
      BY <1>0, <1>6, GotoFields
    <2> QED BY <1>3, <1>6, <2>1
  <1>7. CASE onCreated(w)
    BY <1>6, <1>7 DEF onCreated, Handles, Stages, SagaStates, OpenStates, repoVars
  <1>8. CASE onReservingBars(w)
    <2>1. worker[w].stage = "step" /\ worker[w].from = "reserving_bars" /\ UNCHANGED sagas
      BY <1>8 DEF onReservingBars, Handles, repoVars
    <2>2. CASE bars' = bars \cup {worker[w].id} /\ Goto(w, "advance", "proposing")
      <3>1. /\ worker'[w].stage = "advance" /\ worker'[w].to = "proposing"
            /\ worker'[w].id = worker[w].id
        BY <1>0, <2>1, <2>2, GotoFields DEF Stages, SagaStates, OpenStates
      <3>2. sagas[worker[w].id] \notin FailedStates
        BY <1>1, <2>1 DEF OpenStates, FailedStates
      <3> QED BY <2>1, <2>2, <3>1, <3>2 DEF BarsHeld
    <2>3. CASE Goto(w, "release", "failed_no_stock") /\ UNCHANGED bars
      BY <1>6, <2>1, <2>3 DEF Stages, SagaStates, TerminalStates, FailedStates
    <2> QED BY <1>8, <2>2, <2>3 DEF onReservingBars, compensate
  <1>9. CASE onProposing(w) \/ onExecuting(w)
    BY <1>6, <1>9 DEF onProposing, onExecuting, ProposeMint, ExecuteMint, SendTransaction, Broadcast,
                      Handles, compensate, Stages, SagaStates, TerminalStates, FailedStates, repoVars
  <1>10. CASE onAwaitingApprovals(w)
    <2>1. worker[w].stage = "step" /\ UNCHANGED <<sagas, bars>>
      BY <1>10 DEF onAwaitingApprovals, Handles, repoVars
    <2>2. \/ worker' = [worker EXCEPT ![w] = Idle]
          \/ \E stage \in Stages \ {"fail"}, to \in (SagaStates \cup {"none"}) \ {"proposing"} :
                Goto(w, stage, to)
      BY <1>10 DEF onAwaitingApprovals, compensate, Stages, SagaStates, OpenStates,
                   TerminalStates, FailedStates
    <2>3. CASE worker' = [worker EXCEPT ![w] = Idle]
      <3>1. worker'[w].stage = "idle"
        BY <1>0, <2>3 DEF Idle
      <3> QED BY <1>3, <2>1, <3>1
    <2> QED BY <1>6, <2>1, <2>2, <2>3
  <1>11. CASE WaitReceipt(w)
    BY <1>6, <1>11 DEF WaitReceipt, compensate, Stages, SagaStates, OpenStates, TerminalStates,
                       FailedStates, repoVars
  <1>12. CASE advance(w)
    <2>1. /\ worker[w].stage = "advance" /\ UNCHANGED bars
          /\ sagas' = [sagas EXCEPT ![worker[w].id] = worker[w].to]
          /\ worker'[w] = Idle
      BY <1>0, <1>12 DEF advance, UpdateState
    <2>2. /\ sagas[worker[w].id] = worker[w].from
          /\ <<worker[w].from, worker[w].to>> \in OpenMoves
      BY <1>0, <2>1 DEF StepMatchesRow
    <2>3. /\ worker[w].to \notin FailedStates
          /\ worker[w].to \in BackedStates => worker[w].to = "proposing" \/ worker[w].from \in BackedStates
      BY <2>2 DEF OpenMoves, BackedStates, FailedStates
    <2>4. worker[w].to \in BackedStates => worker[w].id \in bars
      BY <1>1, <2>1, <2>2, <2>3 DEF BarsHeld
    <2>5. \A a \in Allocations \ {worker[w].id} : sagas'[a] = sagas[a]
      BY <1>0, <2>1
    <2>6. sagas'[worker[w].id] = worker[w].to
      BY <1>0, <1>1, <2>1
    <2>7. worker'[w].stage = "idle"
      BY <2>1 DEF Idle
    <2> QED BY <2>1, <2>3, <2>4, <2>5, <2>6, <2>7 DEF BarsHeld
  <1>13. CASE ReleaseAllocation(w)
    <2>1. /\ worker[w].stage = "release" /\ bars' = bars \ {worker[w].id}
          /\ Goto(w, "fail", worker[w].to) /\ UNCHANGED sagas
      BY <1>13 DEF ReleaseAllocation, repoVars
    <2>2. worker[w].to \in SagaStates \cup {"none"}
      BY <1>0, <2>1, StepFields
    <2>3. worker'[w].stage = "fail" /\ worker'[w].id = worker[w].id
      BY <1>0, <2>1, <2>2, GotoFields DEF Stages
    <2> QED BY <2>1, <2>3 DEF BarsHeld
  <1>14. CASE failSaga(w) \/ completeSaga(w)
    <2>1. PICK state :
             /\ sagas' = [sagas EXCEPT ![worker[w].id] = state]
             /\ \/ worker[w].stage = "fail" /\ state = worker[w].to
                \/ worker[w].stage = "complete" /\ state = "completed"
             /\ UNCHANGED bars /\ worker'[w] = Idle
      BY <1>0, <1>14 DEF failSaga, completeSaga, UpdateStateAndEnqueue, UpdateState
    <2>2. /\ \A a \in Allocations \ {worker[w].id} : sagas'[a] = sagas[a]
          /\ sagas'[worker[w].id] = state
      BY <1>0, <1>1, <2>1
    <2>3. worker'[w].stage = "idle"
      BY <2>1 DEF Idle
    <2>4. CASE worker[w].stage = "fail" /\ state = worker[w].to
      <3>1. state \in FailedStates /\ state \notin BackedStates /\ worker[w].id \notin bars
        BY <1>0, <2>4 DEF StepMatchesRow, BarsHeld, FailedStates, BackedStates
      <3> QED BY <2>1, <2>2, <2>3, <3>1 DEF BarsHeld
    <2>5. CASE worker[w].stage = "complete" /\ state = "completed"
      <3>1. sagas[worker[w].id] \in BackedStates
        BY <1>0, <2>5 DEF StepMatchesRow, BackedStates
      <3>2. worker[w].id \in bars /\ state \notin FailedStates
        BY <1>1, <2>5, <3>1 DEF BarsHeld, FailedStates
      <3> QED BY <2>1, <2>2, <2>3, <2>5, <3>2 DEF BarsHeld
    <2> QED BY <2>1, <2>4, <2>5
  <1>15. CASE MineTransaction
    <2>1. /\ UNCHANGED <<sagas, bars>>
          /\ worker'[w].stage = worker[w].stage /\ worker'[w].id = worker[w].id
          /\ worker'[w].to = worker[w].to
      BY <1>0, <1>15, MinedTransaction DEF repoVars
    <2> QED BY <1>2, <2>1
  <1>16. CASE OfficersAct \/ PublishRow \/ MarkPublished \/ UNCHANGED vars
    BY <1>2, <1>16 DEF OfficersAct, PublishRow, MarkPublished, vars, repoVars
  <1>17. ~Crash(w) /\ ~ReceiptLost(w) /\ ~ReleaseFails(w)
    BY NothingWentWrong
  <1> QED BY <1>4, <1>5, <1>7, <1>8, <1>9, <1>10, <1>11, <1>12, <1>13, <1>14, <1>15, <1>16, <1>17
          DEF Next, WorkerStep

\* The inductive invariant of a saga nothing goes wrong with: what is minted is in
\* the hands of the one worker until it is written down.
THEOREM CleanInvariant ==
    ASSUME NEW w \in Workers, Workers = {w}
    PROVE  Spec => []CleanInv(w)
  <1>1. Init => OwnTransactions(w) /\ MintInHand(w) /\ BarsHeld(w)
    <2>1. Init => /\ worker[w] = Idle /\ DOMAIN mempool = {}
                  /\ \A a \in Allocations : sagas[a] = "none" /\ onchain[a].status = "NONE"
      BY EmptySeq DEF Init, ProposalsInit
    <2> QED BY <2>1 DEF OwnTransactions, MintInHand, Minted, BarsHeld, Idle, BackedStates, FailedStates
  <1>2. OneWorkerInv(w) /\ (faults = 0 => OwnTransactions(w) /\ MintInHand(w) /\ BarsHeld(w))
            /\ [Next]_vars
            => (faults = 0 => OwnTransactions(w) /\ MintInHand(w) /\ BarsHeld(w))'
    BY NothingWentWrong, OwnTransactionsKept, MintInHandKept, BarsHeldKept
  <1> QED BY <1>1, <1>2, ProposalsBehindInvariant, OneWorkerInvariant, PTL DEF Spec, CleanInv

\* As long as nothing has gone wrong, a refunded order has no tokens and no bars, and
\* every executed mint keeps its bars, whatever order receipts, approvals, timeouts
\* and cancellations come in.
THEOREM BarsAndRefundsHold ==
    ASSUME NEW w \in Workers, Workers = {w}
    PROVE  Spec => []BarsAndRefundsFollowTheMint
  <1>1. CleanInv(w) => BarsAndRefundsFollowTheMint
    <2> SUFFICES ASSUME CleanInv(w), faults = 0, NEW a \in Allocations
                 PROVE  /\ Minted(a) => a \in bars
                        /\ sagas[a] \in FailedStates => ~Minted(a) /\ a \notin bars
      BY DEF BarsAndRefundsFollowTheMint
    <2>1. StepMatchesRow(w) /\ MintInHand(w) /\ BarsHeld(w)
      BY DEF CleanInv, OneWorkerInv
    <2>2. Minted(a) => \/ sagas[a] = "completed" /\ ~(worker[w].stage = "fail" /\ worker[w].id = a)
                       \/ sagas[a] = "executing" /\ worker[w].stage # "fail"
      <3>1. worker[w].stage = "fail" /\ worker[w].id = a => sagas[a] \in OpenStates
        <4>1. worker \in [Workers -> Steps \cup {Idle}]
          BY DEF CleanInv, OneWorkerInv, SagaInv, SagaTypeOK
        <4>2. worker[w].stage = "fail" => worker[w].from \in OpenStates
          BY <4>1, StepFields
        <4> QED BY <2>1, <4>2 DEF StepMatchesRow
      <3> QED BY <2>1, <3>1 DEF MintInHand, StepMatchesRow, OpenStates
    <2>3. Minted(a) => a \in bars
      BY <2>1, <2>2 DEF BarsHeld, BackedStates
    <2> QED BY <2>1, <2>2, <2>3 DEF BarsHeld, FailedStates
  <1> QED BY <1>1, CleanInvariant, PTL
=============================================================================
