# gold-token: a TLA+ development

GOLD is a token backed by allocated gold. Five Solidity contracts hold the
token, its compliance rules, the reserve attestations and the two controllers
that mint and burn; Go services around a Postgres database and a NATS JetStream
bus take orders, drive the contracts, keep the books and screen customers. This
directory holds TLA+ models of that system, TLC configurations that check them
on small instances, and proofs that TLAPS checks for every instance.

`PROJECT.json` is the index: the components, the runs with their properties,
for every property a mutation of the model that breaks it, the source lines
behind every definition, the hazards and the findings, and the theorems.

    tlc -workers 2 -config ledger.cfg MCGoldContracts.tla     # a run
    tlapm GoldContracts_proofs.tla                            # the proofs of a module

## 1. Inventory

### Contracts (`contracts/src`)

| component | state | operations | what makes it hard | what makes it correct |
|---|---|---|---|---|
| ReserveOracle | append-only attestations, auditor role and its counter, signature threshold, growth cap | publish, auditor management, threshold, cap | dates of two kinds that must both increase; signatures against signers; five entry points to one role; truncating arithmetic; no upgrade, so any dead end is final | history ordered by both dates; a quorum of different auditors behind every entry; counter equals role |
| ComplianceRegistry | wallet profiles, blocked jurisdictions, travel-rule approvals and threshold | profile writes, freeze, sanction, three gates | a profile write replaces the flags a freeze set; KYC runs out by itself | restricted balances stand still; receivers are cleared |
| GoldToken | balances, supply, allowances, pause, controller slots | transfer, mint, burnFrom, operatorBurnFrom, pause | each path has its own combination of gates | books balance; pause and freeze hold on every path |
| MintController | proposals, used allocations, votes, approver role, rate-limit window | propose, approve, execute, cancel, configuration | re-proposal under the same id; roles and thresholds that change between vote and execution; attestation and KYC that age meanwhile; a window anchored at a mint | quorum for the very request minted; one mint per allocation; every mint covered |
| BurnController | executed redemptions, clawback nonces | redeem, clawback | replay of a signed authorization | each authorization and redemption burns once |

They call each other synchronously, inside one transaction: executeMint asks
registry and oracle and calls the token; the burn controller asks the registry
and calls the token; the token asks the registry.

### Services (`backend/services`, `backend/pkg`)

| component | state | operations | what makes it hard |
|---|---|---|---|
| mint-burn | saga rows, bar allocations, outbox | one saga step per poll, compensation, relay | crash between the pieces of a step, two replicas on one row, a lost receipt, timeout against late approvals |
| order | orders | create (idempotent by key), confirm, complete, fail, list | creation and confirmation are several statements and publishes; two consumers may finish one order |
| pkg/events | JetStream streams and durables | publish, deliver, ack, nak, terminate | redelivery, five attempts, then the message is gone |
| treasury | accounts, settlements | credit on mint, debit on burn, manual settlement, reconcile | credit and settlement are two statements under redelivery |
| wallet | addresses, transactions | give out an address, book mints and burns | two requests for one address; a payment whose address cannot be looked up is acknowledged |
| fee | tiers, ledger | quote, book an order, change a tier | a tier changes between quote and booking; patches write back what they read |
| audit | one row per event | consume, read by pages | pages by OFFSET over a time that entries share |
| reporting | daily counters, report jobs | consume, generate, download | redelivery; goroutines that die or outlive their context |
| notification | preferences, deliveries | consume, send, set preferences | a handler that dies between channels; preferences written back whole |
| vault | vaults, bars, movements, audits | ingest, transfer, audit | reads used after the row has changed |
| kyc | applications, documents | submit, review | submissions of one user race; a review ignores what the status has become |
| compliance | screening results and states | screen by request, screen an order, monitor | decisions that overwrite each other |
| por | attestation log, schedule | attest, two syncers, auditor verification | nonces, lost receipts, three writers of one log |
| price-oracle | history, candles, subscribers | fetch, median, store, broadcast | five writes per fetch, each may fail alone; slow and leaving subscribers |
| auth, pkg/jwtverify | accounts; keys in memory | register, login, refresh, verify | two spellings of one address; keys rotated under running processes |
| admin | operators, API keys | login, gateway with a permission matrix | roles that change while tokens carry the old one |

The path that matters most crosses all of them: an order is paid, a saga
reserves bars, proposes a mint, waits for approvers, executes it, and announces
`gold.mint.executed` or `gold.mint.failed` through an outbox; treasury, order,
wallet, notification and reporting react.

The hazards of this code, each at its line and with the properties that cover
it, are in `PROJECT.json`.

## 2. Modules

| module | models | of the code |
|---|---|---|
| `BlockTime` | the chain's clock | `block.timestamp` |
| `ReserveOracle` | the oracle alone, complete with its own specification | `ReserveOracle.sol` |
| `ComplianceRegistry` | registry state, gates and writes | `ComplianceRegistry.sol` |
| `GoldToken` | ledger, gates, pause, controllers | `GoldToken.sol` |
| `MintController` | proposals, votes, execution, rate limit, configuration | `MintController.sol` |
| `BurnController` | redemption and clawback | `BurnController.sol` |
| `GoldContracts` | the five together: `Init` is the deployment, `Next` one transaction or a tick; the contracts' properties | `Deploy.s.sol` and the above |
| `MintProposals` | what the mint controller promises a service that drives it | abstract specification |
| `MintSaga` | the saga workers, their repository, the outbox and its relay, running against `MintProposals` | `backend/services/mint-burn` |
| `MintOutcomes` | what mint-burn promises the services that send it orders | abstract specification |
| `EventBus` | durable consumers, acknowledgement, bounded redelivery | `backend/pkg/events` |
| `OrderFlow` | the order service from the request to the end of the order, against `MintOutcomes` over `EventBus` | `backend/services/order` |
| `ServiceBus` | the stream and the durables of the services that only listen | `Subscribe` calls of those services |
| `Bookkeeping` | the consumers that keep books; treasury's manual settlements and reconciliation | treasury, wallet, reporting, audit, fee |
| `Wallets` | addresses given out, and the owner a payment is booked to | `backend/services/wallet` |
| `Fees` | tiers, quotes, bookings, and patches of a tier | `backend/services/fee` |
| `AuditTrail` | classification, and the trail read page by page while it grows | `backend/services/audit` |
| `Screening` | screening by request and by order | `backend/services/compliance` |
| `RateLimiter` | the fixed-window limiter and its cleanup | `pkg/httputil/ratelimit.go` |
| `PriceHub` | hub and WebSocket handlers | `backend/services/price-oracle` |
| `PriceFeed` | median, cache, history, candles | `backend/services/price-oracle` |
| `ProofOfReserve` | the attestation log beside the chain: the attest request, two syncers, other publishers | `backend/services/por` |
| `Kyc` | submissions, reviews, their events | `backend/services/kyc` |
| `Notification` | preferences, channels, webhook retries | `backend/services/notification` |
| `ReportJobs` | report jobs and their goroutines | `backend/services/reporting` |
| `Auth` | accounts, token pairs, key rotation | `backend/services/auth`, `pkg/jwtverify` |
| `AdminGateway` | operators, tokens, permission matrix, API keys | `backend/services/admin` |
| `Faults` | the count of failures the service models share | |
| `MCGoldContracts`, `MCServices` | scenarios and compositions for TLC | |
| `ReserveOracle_proofs`, `GoldContracts_proofs`, `MintSaga_proofs`, `OrderFlow_proofs` | theorems of one module each | |
| `Ledger_proofs` | the sums: supply and rate limit, of `GoldContracts` and of the scenarios | |
| `BusServices_proofs` | `Screening`, `Notification`, `Bookkeeping`, `Fees`, `AuditTrail` | |
| `OwnServices_proofs` | `PriceHub`, `ProofOfReserve`, `RateLimiter`, `PriceFeed`, `AdminGateway`, `Kyc`, `Auth`, `Wallets` | |
| `MCServices_proofs` | all of these as the run composes them | |

**Contracts.** One action is one transaction that does not revert: its guards
are the modifiers, requires and custom errors of the function, in conjunction,
and of every contract it calls; its primed variables are the storage it writes.
A revert changes nothing and is the absence of a step. The operators are named
after the Solidity functions. `executeMint` is one action from the status check
to the second `token.mint`, because a transaction is atomic. Amounts are
natural numbers in units where 1 is a gram or a fraction of it: the contracts
compute in `uint256` with checked arithmetic, and no configured amount comes
near 2^256; the divisions truncate as the code's do (`\div`). Signatures are
the accounts they recover to, since the digests bind every field the contract
decides on. History variables (`quorums`, `votedFor`, `mintLog`, `limitedFrom`,
`clawbacks`) record what happened; no guard reads them except through bounds.

**MintSaga.** A saga step is split exactly where the code performs I/O: the poll,
the sending of a transaction, the wait for its receipt, the release of bars, the
write of the row. Between two pieces the other worker, the chain, the officers,
the clock, the relay or a crash can act. The worker keeps the copy of the row it
polled (`worker[w]`), and writes by key what it computed from that copy, as
`execUpdateState` does. State and event commit together (`UpdateStateAndEnqueue`).
`last_step_at` is kept as the order between rows, since `NextPending` picks the
oldest. The chain is `MintProposals`, reached through a mempool of one account
in nonce order; a transaction is mined or reverted nondeterministically, which
covers every gate of `executeMint` the abstract controller does not show.

**EventBus.** A durable hears of an aggregate at most once, so the aggregate's id
names the message. A handler runs between `Deliver` and `Ack` or `Nak`. A message
comes again after an error, a lost acknowledgement or a dead process, in any order
with others, and after `MaxDeliver` attempts never again. `published` is the
stream; the publishers add to it, and a known `Msg-Id` adds nothing.

**OrderFlow.** A request's handler is split at its statements: the lookup of the key,
the insert, the confirmation, the publication; so is a consumer of an outcome:
the read of the order and the write by id. Anything else can happen in between. The
mint-burn service is `MintOutcomes` behind its own consumer.

**Services.** `Bookkeeping` gives each durable one handler of one write, and treasury's
a second; `rows` counts what was written per message, so that a repetition shows. What
distinguishes the services is in two sets: those whose table has a unique key, and
those that skip what they do not know. `Screening` splits `runScreen` at its two
writes. `RateLimiter` follows one client, since the code looks at one entry under
its mutex. In `PriceHub` a goroutine's step ends where it releases `mu` or can block;
a send on a closed channel and a second `close` set `panicked`, which is Go's
panic. `Wallets`, `Fees` and `AuditTrail` take up what `Bookkeeping` abstracts
from: whose row it is, how much, and what a reader gets to see. In `ProofOfReserve`
an attestation is its timestamp, a request is split at nonce, send, receipt and
record, and a syncer's pass is one step per attestation; the chain is a sequence
that others append to as well. The adapter between service and oracle does not work as it
is built (section 5). Handlers and worker know it by interfaces (`por/internal/http/handlers.go:30`,
`por/internal/worker/auto_attestation.go:19`), so the variable `adapter` gives them the one that is
built, with which every request and every pass fails at its first call, or one that does what
the interface says. `Kyc`, `Notification` and `ReportJobs` split their
handlers at each statement, publication and delivery, and let the process die between
any two. `Auth` keeps three copies of a key: the files, authd's, another service's; `signingSince`
remembers when authd's changed. `emailIndex` says which of the repository's two schemas of
`auth.users` is there.
`AdminGateway` follows a request through the middleware as the routes are mounted,
which is not where the matrix expects them. `PriceFeed` makes one step of each of the
five writes of a fetch. The services share the bus and nothing else, so `MCServices` lets every
behaviour be about one of them (`service`), and the state spaces add up.

**The links.** `GoldContracts` implements `MintProposals` under the mapping
`getProposal` (status and number of approvals per allocation): checked by TLC and
proved. What MintSaga assumes of the chain is what the contracts promise. `MintSaga`
with one worker implements `MintOutcomes` (`ImplementsOutcomes`, checked by TLC with
crashes), and what OrderFlow assumes of mint-burn is what that promises; with two
workers it does not hold (`saga_terminal`).

## 3. Runs

| run | question | states |
|---|---|---|
| `gold_contracts` | the whole `Next` from deployment, with one wallet: wiring, onboarding, mint, redemption | 0.5 M |
| `governance` | oracle history under role changes; votes under re-proposal and role changes | 0.3 M |
| `ledger` | reserves, clearance of receivers, rate limit, transfers, burns | 0.5 M |
| `mint_saga` | one worker, two sagas, two crashes, safety and liveness | 0.2 M |
| `saga_replicas` | two workers on one saga with every fault | 1.1 M |
| `order_flow` | two requests, one or two keys, three failures, safety and liveness | 45 k |
| `services` | eighteen parts of the services, each alone; safety, and liveness of hub and report jobs | 0.26 M |
| `oracle_threshold`, `saga_terminal`, `saga_refund`, `order_retry`, `screening_unblocks` | disagreements between the code and what its comments and documents say | stop at the first |

`governance` and `ledger` choose one of several *scenarios* at the start
(`MCGoldContracts`): after deployment and onboarding a scenario admits some kinds of
transactions within its own bounds. The state spaces then add up instead of
multiplying. A scenario's steps are steps of `GoldContracts`, so what a scenario
violates the system violates; what it leaves out is left to the other scenarios,
to `gold_contracts`, and to the proofs, which cover all of `Next`.

What they show. On the contracts: history and quorum of attestations; a vote
counts only for the request it was cast on, whatever was proposed, cancelled
and proposed again; one mint per allocation; each mint is covered, gross of its
fee, by a fresh attestation; solvency is lost only by an audit that reports less;
restricted balances move only by clawback (and by the mint fee, which is credited
without asking the registry); receivers are cleared at the moment of the mint;
the supply is what was minted less each redemption and clawback once; the rate
limit lets through at most twice its maximum within a window. Three of these are
deliberately weaker than the contracts' README: INV-1 there says the supply never
exceeds the attested grams, but an audit may report less; INV-4 says nothing moves
while paused, but a clawback does; section 4.4 says only the compliance officer
unfreezes, but a profile write by the KYC service does too. `ReserveBacksTheSupply`
and `MovementsComply` say what the code does keep.

On the saga: with one worker and nothing failing, no refunded order has minted and bars follow
the mint; through crashes a saga has exactly one outcome, ends, and is announced,
and no vote it waits for is wiped; with several workers and every fault one
promise is left, that an announced mint is real. A crash or a lost receipt after
`executeMint` was sent does refund an order that has minted (`saga_refund`).

On the services: two requests with one key get one order, one saga and one answer
however they race and fail; an order says what its saga came to, is never changed after
that by late or repeated messages, and ends unless a message about it was given
up. An order whose confirmation fails stays `created`, and the retry the comment
counts on does not help it (`order_retry`). Bookkeepers write what they acknowledge,
at most one booking too many per failure, and none where a unique key stands;
reserve and settlements agree but for handlers in flight and one booking per
failure. Screening status and verdicts rest on saved results, but an order, screened
without a name, clears a blocked user (`screening_unblocks`). A payment to an address
that was given out is in its owner's list and no other's; an order is booked at the fee
it was quoted unless a tier changed or something failed in between; a reconciliation
finds only what a failure, a settlement made meanwhile or a consumer between its writes
explains; a reader of the audit trail who reaches the last page misses no entry that was
there when he began, except one of two of the same time. The log of attestations is a faithful part of the chain, and with the
adapter that is built it is empty, as is what was announced; that it ever is all of the chain is
not claimed. A user has
one active application; what is announced of one it has been. A notification reaches
every channel that was wanted all along and none that nobody switched on, and comes
again only for a failure. A job ends
unless a failure or its ten minutes come in the way. Who has an account is what the index
says: one account for an address as it is spelled under the schema the deployments apply, where
a second spelling gets a second account, and one for a person under the migration. A
superseded key opens nothing for longer than its tokens live after authd changed it, through
rotations that stop halfway; services with the same key accept the same tokens. What the
gateway lets through the matrix permits to the role in the database, not the one in
the token, and nothing to an account that was disabled. Candles are what the history of their hours gives. The limiter admits
fewer than twice its rate in any stretch as long as a window, cleanup included. The hub
neither sends on nor closes a closed channel, keeps each subscriber's prices in
order, and leaves nobody waiting after a shutdown.

**Bounds, and why they are enough.** `MaxTime`, `MaxAttestations`,
`MaxSignatures`, `MaxNonce` bound the contracts, `MaxFaults`, `MaxOutcomes` and
`MaxApprovals` the saga. Three attestations give a pair that is not adjacent; two
auditors and lists of two signatures tell signatures from signers; 800 to 1200
grams is exactly the default growth cap of 50 % and one basis point over the other
value; three approvers with threshold two let a voter be revoked and replaced;
amounts 399 and 400 lie on both sides of the smallest amount with a fee
(25 bps of 400 is 1), 0 is refused; reserves of 399, 400 and 800 lie just below
and at one and two mints; rate window two hours over four hours gives two windows;
the travel-rule threshold is at and above the amount; two clawback nonces and two
deadlines let an authorization be late, early and repeated. Two sagas compete for one bar and for
the worker; with one saga two workers already reach every pair of stages. Two
faults allow a crash during the repetition of a step a crash interrupted. In `order_flow`
two requests cover one racing retry and two unrelated orders; two deliveries and
three faults let a message be repeated, and be lost for good. In `services` two messages
interleave with two manual settlements around an empty reserve; two users and one
call race with two orders; `Rate` 2 in a window of 3 ticks over 9 gives three
windows and one cleanup after the first is over; channels of one price are full after one,
and three prices let one be dropped between two that arrive. Three fetches at hours 3, 4 and
24 share or part hourly, four-hourly and daily candles; two dates and two requests race for
one nonce while others publish; two submissions and two reviews, two patches and one order,
two requests for an address are each the smallest race; two key pairs and a clock of
three give a token before, during and after a rotation, and expired; keys are rotated with one
registration and the deployed schema, since tokens depend on neither. The larger services are
checked with one fault, and with one message of a kind, as is treasury around a
reconciliation (`Within`, `Small`). `MaxManual`, `MaxTime`,
`MaxPrices`, `MaxFetches`, `MaxClock`, `MaxKeys`, `MaxChanges` and `MaxFaults` exist for model checking only.

**Fairness.** `mint_saga` assumes weak fairness of every worker
(`Orchestrator.Run` ticks for ever), of the relay (`Run` drains on a ticker), of the
clock (a saga becomes overdue), and of mining. Mining is the assumption about the outside:
`WaitReceipt` has no deadline, and a transaction that is never mined stops the
worker for good. Approvers and officers owe nothing, the timeout ends their saga.
`order_flow` assumes weak fairness of request handlers, of each durable's consumer (the
bus delivers, handlers run), and of the saga's progress, which is what
`EverySagaIsAnnounced` establishes; no fairness is put on clients, so an order nobody
confirms may stay. `services` assumes that the hub's and the connections' goroutines
run, and that the goroutine of a report job runs while its process lives; nothing obliges the
service to shut down or a price to arrive. The proof of reserve gets no fairness and promises no
progress: as built, its passes make none.
Contracts make no liveness promise, so their runs have no fairness.

`CHECK_DEADLOCK FALSE`: every model has a real end (bounded time and history;
all sagas finished; all requests answered and messages settled).

## 4. Proofs

Every invariant and every action property that a passing run checks is proved for all values
of the constants, and so are both refinements; three of the mint saga's for one worker, with
which alone they hold. What is left to TLC is listed below. TLAPS checks the modules named
`*_proofs` from the assumptions in the modules that declare the constants: the role universes are finite; amounts, times, sizes and bounds are naturals,
and those the code divides or waits by are not 0; the initial threshold is one the constructor
accepts; the values that stand for nobody and nothing are no worker, request or key. One
says more, `TiersDoNotOverlap` in `Fees`: no two fee tiers of an arena hold the same
amount, since which of them `ORDER BY` puts first would be open. The migration's tiers follow each
other, nothing inserts a tier, and a patch cannot move its ends (`BoundsStay`, proved). Where a
module names a bound on its clock or its failures, the theorem holds for every such bound.

*Oracle.* `OracleInv` strengthens the two invariants by types and by what the
next `publish` needs: the signer set of every entry is finite, the counter equals
the cardinality of the role. `OraclePublishPreserves` holds the argument: an
appended entry is later than the last in both dates and hence than all.
`ZeroReserveIsFinal` follows from the cap being a product with the last amount.

*Contracts.* `IInv` is the oracle's invariant with the types of registry and token,
`MintInv` and `BurnInv`. `MintInv` is needed because none of the mint controller's
properties is inductive alone: that votes are for the present request needs that
the approver list and the flags agree (`ApprovalBookkeeping`), since `proposeMint` clears
exactly the flags of the listed approvers; `MintQuorum` needs votes for the
request and that votes on an executed allocation stay; single use needs that an
open proposal's allocation is unused (`OpenIsUnused`). There is one lemma per action,
one step per conjunct it can disturb. The clawback argument is by nonce: every
authorization that burned has a nonce below the wallet's next one.

*Action properties.* A step that moves the ledger is an execution, a transfer or a burn
(`LedgerMovers`); each action property is then checked on the three.

*Refinement.* `OracleUndisturbed` shows `Spec => OracleSpec`, so the oracle's
theorems hold of the composition; `ProposalsImplemented` shows every step maps to a
step of `MintProposals` or a stutter.

*Mint saga, any number of workers.* That an announced mint is real is all the code
promises when two replicas step one row, and it holds because of what a worker knows
of its own transaction, not because of the row: `SagaInv` adds that a transaction in
the pool that still names a worker is the one and last it waits for
(`PoolMatchesWorkers`: a crash or a lost receipt takes the name off), and that a receipt
of success is that of an executed mint (`ReceiptsAreTrue`).

*Mint saga, one worker* (`ASSUME Workers = {w}`). Nobody writes to the row between poll
and write, so `StepMatchesRow` holds: the copy is the row, and what the worker is about
to write follows from it. With `OutboxTells` each step is a step of `MintOutcomes` or a
stutter, through crashes, lost receipts and failed releases, which is
`OutcomesImplemented`: what `OrderFlow` builds on. That no vote is wiped
(`ApprovalsAreKept`) needs an argument about order: a repeated `proposeMint` resets the votes of
a cancelled proposal, and the one a crash left in the pool could be mined late. It cannot
be behind the one whose receipt moved the saga on, since the pool is first in, first out
(`NoProposalBehind`). With no fault, `CleanInv` follows the mint from its
transaction through the receipt to the row, and the bars along with it
(`BarsAndRefundsHold`); the finding `saga_refund` shows why that needs the absence of faults.

*Order flow.* `OrderInv` relates the four things that speak of one order: the row, the
request that wrote it, the messages about it, and its saga. No writer looks at the row
it writes; `FinishedOrdersStay` holds because a confirmation runs in the one handler that
inserted the row, so that it is still `created` (`HandlersKnowTheirRow`), and because a late consumer
writes what its message says, which is the outcome the row has
(`MessagesTell`, `HandlersHaveMessages`). `OneOrderHolds` rests on the unique index (`KeysAreUnique`).
Requests, keys, deliveries and failures are arbitrary.

*Sums* (`Ledger_proofs`). The supply is a sum over wallets and over logs of any length,
`SumFunction` of the community modules, which is a recursive function on the subsets of a set.
The library's induction rules take an operator and cannot be used; in their place stands one fact,
that any family of subsets of a finite set has a smallest member (`SmallestSubset`, from the
well-foundedness of the strict subset order). From it follow that such a function exists and is
unique, that one element more adds its value, that two disjoint sets add up, and that a part of
natural numbers is no more than the whole. `SupplyHolds` then has one lemma per action that
moves the ledger, `ScenariosAccount` carries it to the ledger run.

*Rate limit.* That at most twice the maximum fits a window's length is not inductive:
one has to know when the present window opened. `LimitInv` says there is a mint `s` that opened it,
such that the counter is the sum from `s` on, and every mint before it that lies less than a window
away from its start amounts, with all up to `s`, to no more than the maximum. What a sliding span can hold
is then a tail of one window and the next (`TwoWindows`). The same idea proves the HTTP limiter,
with a rank instead of a sum: requests `Rate` before the first of the present window came a
whole window earlier, also when the cleanup forgot the client in between (`Spaced`).

*Screening.* A run past its first write has its result saved, and a run for an order is of the
user who placed it (`RunsRestOnResults`).

*Notification.* The preferences exist in four copies: the row, what a request read, what a
handler still has to send, what was sent. `CopiesAreAsked` says of each that it holds only what was asked for.
That a row is repeated by failures only is a count along the bus: attempts are at most failures
and one (`Repeated`), and rows at most attempts, counting the one under way (`RowsFollowAttempts`).

*Bookkeeping.* Bookings beyond the first of a message are counted by failures, for any number of
consumers and messages. The invariant must count a message that was booked and will
come again already now, since the failure is spent when the handler fails and the
booking follows when the message is back (`Counted`, `FewRebooked`). The reserve and a reconciliation need only
that the figure read was right when it was read (`FigureWasRight`).

*Fees.* While no tier changes under an order its quote is what the tiers say now (`QuotesStand`),
so the consumer, which computes it anew, books the same.

*Audit trail.* Paging by OFFSET misses an entry if it slips to a page that was read. The
invariant is about ranks: an entry that was there, is unseen and has a time of its own has at
least as many newer entries before it as the reading has passed (`UnseenComeLater`). New entries only
raise that number.

*Price hub.* Each stretch a price goes through is increasing and older than what is behind
it: what was streamed, then the subscriber's channel, then the message being sent, then the
hub's channel, then the cache (`Queued`, `Delivered`). No panic follows from the registry being exactly the
open channels (`Registered`).

*Price feed.* `CandlesFollowHistory` speaks of the time between fetches; in the middle of five
writes it is false. The invariant says it of the fetches a write is *through* with, table by table
(`MissingByFaults`, `NothingIsMissing`).

*Proof of reserve.* A pass reads within the chain it counted, the chain's dates increase
(`Dated`), so a row found by date is the row of that attestation. With the adapter that is built
no request gets past its first call and no pass either, so nothing is ever in the pool, logged or
announced (`AsBuilt`).

*Accounts and tokens.* `IndexHolds` states the unique index with the comparison it makes
(`SameToIndex`), from which both claims about accounts follow. That superseded keys fade is not inductive:
`TokensDated` adds that no token is from the future and none of a key authd signs with no longer is
younger than its change of keys.

*Accounts, applications, gateway, wallet.* Each has a failure budget or a race of inserts. `Kyc` and
`Auth` count what is silent for good, in a set that grows only with `faults` (`OnlyFaultsSilence`), and rest on
the order of their writes (`RequestsComeFirst`, `AccountsComeFirst`). The gateway's claims carry the role that was read
(`ClaimsAreChecked`); as its routes are mounted, only `super_admin` passes at all
(`OnlySuperAdminPasses`), which is stronger than the property and shows in the proof. In `Wallets`
an address is the request that made it, and the request keeps to its user (`AddressesAreMade`,
`CallsKeepToTheirUser`), so an address never changes hands.

*The services together.* A behaviour of `MCServices` is about one service. `ServicesInv` says that
this one keeps its own invariant while all others, and the consumers of the bus that belong to
them, are where they began; each step moves one service as its own specification has it
(`OwnStep_Moves`, `BusStep_Moves`). Hence what the two modules show of each service alone holds of the
specification the run checks (`ServicesTyped`, `BooksAlwaysAgree`, `ServicesKeepTheirPromises`). The bounds
`Within` adds are a guard, and a proof that does without it covers it.

Only model-checked, because it is liveness under fairness, which this prover does not do:
`EverySagaIsAnnounced`, `DispatchedBuyEnds`, `SubscribersLeave`, `JobsEnd`. `ReportJobs`
has that one property and nothing proved. The five disagreements are counterexamples and have no proof.

## 5. Not modelled

In the contracts: the upgrade timelock of the UUPS proxies, `setComplianceRegistry`, the
roles whose membership only deployment sets; `transferFrom` and `permit`. In mint-burn:
the burn saga, which the code stubs (`stepBurn` only logs) and nothing creates; gas and
nonce selection; `pgBarRepo`, a placeholder that always fails, is replaced by the
contract of its interface. Nothing in the repository consumes `burn.requested` or
publishes `burn.executed`: the order service's burn consumers are left out, and in
`ServiceBus` that message comes from outside. The compliance monitor has an empty
schedule, since nothing calls `EnrollUser`. Parsing, HTTP, logging, metrics.

In the services: other treasury accounts; the auditors' verification rows of the proof of
reserve, the mark of a notification as read and the reserve snapshot of reporting, single
writes nothing depends on; the jurisdiction rules, which only their admin routes read and
write. The vault service writes and filters by a status the database's CHECK does not admit
(`0001_mintburn_initial.sql:46`), so it has no state to follow. Key management and the web
front end keep no protocol state. The branch of the saga that ends in `failed_reserve_invariant` is never
taken: nothing but a test returns the error it waits for.

**Which schema.** The repository has two: `backend/migrations`, for goose, and `docker/postgres`,
which `docker-compose.yml:33` and `docker-compose.staging.yml:38` mount. The second has tables for mint-burn,
auth, price-oracle, wallet, por, compliance, kyc and order only, partly in an older form. The models
follow the migrations, and `Auth` both, because there the difference matters:

- `auth.users`: `email TEXT NOT NULL UNIQUE` (`02-auth-schema.sql:6`) compares the spelling, the migration's index
  `lower(email)`. The handler does not normalise, so under the deployed schema a person who
  registers in another spelling has a second account. `AccountsFollowTheIndex` says what each gives.
- `kyc.applications`: the deployed index allows one application that is not rejected
  (`06-kyc-schema.sql:20`), the migration's one that is pending or under review. The deployed one admits less,
  and one active application per user holds under both.
- `wallet.wallets`: no unique index on the address, as in the model, which does without it (see below).
- `oracle`: the deployed schema has no candles and an older name of the price column; `PriceFeed` has
  the tables of migration 15. Orders lack the CHECK on their status; the unique key of an idempotency
  key is there.

**The stream.** `docker/nats/stream-init.sh` makes one stream for `gold.>` with duplicate detection of
two minutes. Two things follow that the models do not single out. `kyc.submitted`, `kyc.approved`,
`kyc.rejected` and `price.updated` are outside its subjects, so as deployed each of these publications fails;
`Kyc` and `PriceFeed` let any of them fail and count it as a failure, which is then every one. And a
`Msg-Id` repeated after two minutes is taken as new, where `EventBus` never forgets one; what a consumer does
with the repetition is covered, since it may be delivered twice anyway. The time within which a
message has to be acknowledged is not modelled: a webhook that times out three times takes longer than the
default of thirty seconds, and its message can be redelivered while its handler still runs, where the model
redelivers only after it ended. `NoticesFollowPreferences` asks whether anybody asked for a channel, so an
update of the preferences that another request overwrites is within it.

**Adapters to the chain.** Four readers look an unnamed output up under the key `"0"` of `UnpackIntoMap`, which
files it under the empty name, and so fail on every answer:

- `por/internal/chain/reserve_oracle.go:200` and `:217`, the latter also casting the decoded struct to a map (`:222`). With
  `Publish`, which packs a struct whose field `IPFSCid` is not the `IpfsCid` the packer looks for, the
  proof of reserve neither reads nor writes the chain. Modelled, as `adapter`.
- `mint-burn/internal/chain/eth_controller.go:262`, against its own comment. Every count of approvals fails, a saga of the real
  client waits until its approvals time out, fails and refunds, while its proposal stays open on the chain. In
  `MintSaga` a count may fail at any time, so its safety and its liveness cover this; the approvals it
  goes on to count are what the client means to read.
- `por/internal/chain/token_supply.go:74` and `wallet/internal/chain/balance.go:85`, which decide nothing.

**Where code, comments and schema part.** Besides the findings, which a run shows each:

- `auth/cmd/authd/main.go:6` speaks of refresh token rotation; a refresh leaves the old
  token valid. Login compares the spelling of an address, the index of the migration its lower case.
- The admin routes are mounted under `/admin` with names that begin with `/admin` again; no
  rule of the permission matrix matches `/admin/admin/...`, so only `super_admin` gets through,
  and the proxy strips nothing. `bootstrap` creates any number of operators.
- The compliance report reads `compliance.compliance_checks`, which no migration creates.
- Every pass of a syncer announces every attestation again; reporting counts messages.
  Nothing changes `auto_attestation_config.enabled`. The service's ABI has `publish` take one
  signature (`reserve_oracle.go:66`), the contract a list of them.
- The median of two providers is the higher price.
- The rate limiter's key is the client's address as `middleware.RealIP` takes it from a header, which the
  client chooses; `AtMostTwiceTheRate` is a claim about one key.
- `UNIQUE (lower(address))` as a table constraint (`0004_wallet_initial.sql:13`) is not valid PostgreSQL.
- `screener.go:106` says a name is compared for containing a list entry; the code asks whether
  the entry contains the name, so a listed name within a longer one passes and a
  fragment of one is blocked.
- A handler of treasury says a settlement that failed is "re-tried on replay"; its message is
  acknowledged.

## 6. Plan

1. Contracts, their proofs, the mint saga; order flow over the bus; the services. Done.
2. `UpgradeTimelock`: schedule, delay, execute, for the proxies (a delay lowered while an
   upgrade waits shortens its notice, `MintController.sol:374`), and the moving of the token to
   another registry while the controllers keep asking the old one (`GoldToken.sol:197`).
3. Proofs of all invariants and action properties. Done. Left: simulation of the services
   by abstract specifications of their own, as `MintOutcomes` is for the saga: a log that grows along a chain
   (`ProofOfReserve`), a set of bookings (`Bookkeeping`).
