---------------------------- MODULE Bookkeeping ----------------------------
(***************************************************************************)
(* The services that keep books of what the event bus tells them: treasury *)
(* (the gold reserve and its settlements), wallet (a user's transactions), *)
(* reporting (daily counters), audit (every event) and fee (the ledger).   *)
(* Each is a durable consumer whose handler writes one row or counter per  *)
(* message; treasury's writes a second one, the settlement, afterwards.    *)
(*                                                                         *)
(* Every amount is 1: what matters is how often it is booked.  Abstracted: *)
(* accounts other than the gold reserve, which row a counter is in, whose  *)
(* wallet and which tier (Wallets and Fees have those), paging, and the    *)
(* events these services publish, whose only consumers are audit and a log *)
(* line.                                                                   *)
(***************************************************************************)
EXTENDS ServiceBus, Integers, FiniteSets

CONSTANTS
    Opening,     \* balance of the reserve account
    MaxManual    \* bound on manual settlements, for model checking only

ASSUME BookAssumption == Opening \in Nat /\ MaxManual \in Nat

VARIABLES
    rows,        \* durable -> id -> how often its handler's first write was made
    settling,    \* durable -> its handler stands between balance and settlement
    balance,     \* treasury.reserve_accounts.balance_wei of the gold account
    settled,     \* [credit, debit] -> rows in treasury.settlements
    manual,      \* manual settlements made
    recon        \* a reconciliation: [stage, actual, expected, since]

bookVars == <<rows, settling, balance, settled, manual, recon>>

NoRecon == [stage |-> "idle", actual |-> 0, expected |-> 0, since |-> 0]

\* The services whose table has a unique key for what a message leaves behind.
Deduplicates == DurablesOf["wallet"] \cup DurablesOf["audit"]

\* A wallet that is not registered, a fee tier that is not found, or any error of
\* the query for it: nothing is recorded and the message is acknowledged.
SkipsUnknown == DurablesOf["wallet"] \cup DurablesOf["fee"]

BookDurables == Durables \ (DurablesOf["compliance"] \cup DurablesOf["notification"])

\* A handler fails before it has written anything, or treasury's process dies
\* between its two writes.
Fails(d) ==
    /\ HandlerFails(d)
    /\ settling' = [settling EXCEPT ![d] = FALSE]
    /\ UNCHANGED <<published, rows, balance, settled, manual, recon>>

Wrote(d, n) == rows' = [rows EXCEPT ![d][handling[d]] = n]

-----------------------------------------------------------------------------
(* Wallet, reporting, audit, fee: one statement per message *)

\* ON CONFLICT (tx_hash, event_type) DO NOTHING
recordTransaction(d) == d \in DurablesOf["wallet"] /\ Wrote(d, 1)

\* ON CONFLICT (event_id, occurred_at) DO NOTHING
recordEntry(d) == d \in DurablesOf["audit"] /\ Wrote(d, 1)

incrementCounter(d) == d \in DurablesOf["reporting"] /\ Wrote(d, rows[d][handling[d]] + 1)

recordFee(d) == d \in DurablesOf["fee"] /\ Wrote(d, rows[d][handling[d]] + 1)

record(d) ==
    /\ handling[d] # "none"
    /\ recordTransaction(d) \/ recordEntry(d) \/ incrementCounter(d) \/ recordFee(d)
    /\ Acknowledged(d)
    /\ UNCHANGED <<published, settling, balance, settled, manual, recon>>

skip(d) ==
    /\ handling[d] # "none" /\ d \in SkipsUnknown
    /\ Acknowledged(d)
    /\ UNCHANGED <<published, bookVars>>

-----------------------------------------------------------------------------
(* Treasury *)

Credit(amount) == balance' = balance + amount

\* Slip, for the mutation runs: a Debit that changed no row is no error.
DebitIgnoresNoRow(amount) == balance' = IF balance >= amount THEN balance - amount ELSE balance

\* UPDATE ... WHERE balance_wei >= amount; no row is ErrInsufficientBalance.
Debit(amount) == balance >= amount /\ balance' = balance - amount

handleMintExecuted(d) ==
    /\ d = "treasury_mint_executed" /\ handling[d] # "none" /\ ~settling[d]
    /\ Credit(1)
    /\ Wrote(d, rows[d][handling[d]] + 1)
    /\ settling' = [settling EXCEPT ![d] = TRUE]
    /\ UNCHANGED <<published, settled, manual, recon, busVars, faults>>

\* A burn the balance does not cover is left to redelivery, MaxDeliver times.
handleBurnExecuted(d) ==
    /\ d = "treasury_burn_executed" /\ handling[d] # "none" /\ ~settling[d]
    /\ \/ /\ Debit(1)
          /\ Wrote(d, rows[d][handling[d]] + 1)
          /\ settling' = [settling EXCEPT ![d] = TRUE]
          /\ UNCHANGED busVars
       \/ /\ balance < 1
          /\ Nak(d)
          /\ UNCHANGED <<balance, rows, settling>>
    /\ UNCHANGED <<published, settled, manual, recon, faults>>

InsertSettlement(kind) == settled' = [settled EXCEPT ![kind] = @ + 1]

\* Second write of both handlers.  Its error is logged and the message acknowledged.
Create(d) ==
    /\ handling[d] # "none" /\ settling[d]
    /\ \/ InsertSettlement(IF d = "treasury_mint_executed" THEN "credit" ELSE "debit") /\ Acknowledged(d)
       \/ UNCHANGED settled /\ Ack(d) /\ Fault
    /\ settling' = [settling EXCEPT ![d] = FALSE]
    /\ UNCHANGED <<published, rows, balance, manual, recon>>

\* One transaction; a failure leaves nothing behind.
ApplyManualSettlement(kind) ==
    /\ IF kind = "credit" THEN Credit(1) ELSE Debit(1)
    /\ InsertSettlement(kind)

\* POST /treasury/settlements
createSettlement ==
    /\ service = "treasury" /\ manual < MaxManual
    /\ \E kind \in {"credit", "debit"} : ApplyManualSettlement(kind)
    /\ manual' = manual + 1
    /\ UNCHANGED <<published, rows, settling, recon, busVars, faults>>

\* The rows of treasury.settlements, and what they add up to.
Settlements == settled["credit"] + settled["debit"]

SettledNet == settled["credit"] - settled["debit"]

\* GET /treasury/settlements: what the reserve should be, as an operator adds it up.
listSettlements ==
    /\ service = "treasury" /\ recon = NoRecon
    /\ recon' = [recon EXCEPT !.stage = "counted",
                              !.actual = Opening + SettledNet, !.since = Settlements]
    /\ UNCHANGED <<streamVars, faults, rows, settling, balance, settled, manual>>

\* `since` becomes the number of settlements made after the figure was added up.
CreateReconciliation(expected) ==
    recon' = [recon EXCEPT !.stage = "logged", !.expected = expected, !.since = Settlements - @]

\* POST /treasury/reconcile, with that figure: it is logged beside the balance as it
\* is now.
reconcile ==
    /\ recon.stage = "counted"
    /\ \/ CreateReconciliation(balance) /\ UNCHANGED faults
       \/ recon' = [recon EXCEPT !.stage = "failed"] /\ Fault
    /\ UNCHANGED <<streamVars, rows, settling, balance, settled, manual>>

-----------------------------------------------------------------------------
BookInit ==
    /\ rows = [d \in BookDurables |-> [id \in Ids |-> 0]]
    /\ settling = [d \in BookDurables |-> FALSE]
    /\ balance = Opening
    /\ settled = [kind \in {"credit", "debit"} |-> 0]
    /\ manual = 0
    /\ recon = NoRecon

BookNext ==
    \/ \E d \in Listening \cap BookDurables :
          \/ Fails(d) \/ record(d) \/ skip(d)
          \/ handleMintExecuted(d) \/ handleBurnExecuted(d) \/ Create(d)
    \/ createSettlement \/ listSettlements \/ reconcile

\* The services that keep books, alone with the stream.
bookBusVars == <<service, streamVars, faults, bookVars>>

BookBusNext == (BookNext \/ (Stream /\ UNCHANGED bookVars)) /\ UNCHANGED service

BookSpec == StreamInit /\ BookInit /\ [][BookBusNext]_bookBusVars

-----------------------------------------------------------------------------
(* Properties *)

BookTypeOK ==
    /\ rows \in [BookDurables -> [Ids -> Nat]]
    /\ settling \in [BookDurables -> BOOLEAN]
    /\ balance \in Nat
    /\ settled \in [{"credit", "debit"} -> Nat]
    /\ manual \in 0..MaxManual
    /\ recon \in [stage : {"idle", "counted", "logged", "failed"},
                   actual : Int, expected : Int, since : Nat]

\* What was booked of the messages after the first time: <<message, which time>>.
Rebooked == UNION {{m} \X (2..rows[m[1]][m[2]]) : m \in BookDurables \X Ids}

\* What a service has acknowledged it has written, unless it may skip it.  A message
\* is booked twice only if a failure made it come again, and never by the services
\* whose table has a unique key for it.
BooksFollowMessages ==
    /\ \A d \in BookDurables \ SkipsUnknown : \A id \in acked[d] : rows[d][id] > 0
    /\ \A d \in Deduplicates, id \in Ids : rows[d][id] <= 1
    /\ Cardinality(Rebooked) <= faults

InFlight(d) == IF settling[d] THEN 1 ELSE 0

\* How far the balance is from what the settlements say, those under way included.
Drift ==
    balance - Opening - SettledNet
       - InFlight("treasury_mint_executed") + InFlight("treasury_burn_executed")

\* The reserve is never overdrawn, and while nothing fails it is exactly what its
\* settlements account for, but for a handler between its two writes; each failure
\* lets the two drift apart by at most one booking, however manual settlements and
\* the two consumers interleave.
ReserveMatchesSettlements ==
    balance >= 0 /\ -faults <= Drift /\ Drift <= faults

\* A reconciliation with the settlements finds a discrepancy only where a failure, a
\* settlement made since or one of the two consumers between its writes explains it.
ReconciliationIsExplained ==
    LET off == recon.actual - recon.expected
        explained == recon.since + faults + 1
    IN  recon.stage = "logged" => -explained <= off /\ off <= explained

\* What each message should have left behind, and the reserve as it is and as it is reported.
BooksAndReserveAgree ==
    BooksFollowMessages /\ ReserveMatchesSettlements /\ ReconciliationIsExplained
=============================================================================
