--------------------------- MODULE GoldContracts ---------------------------
(***************************************************************************)
(* The five contracts as deployed together: token, compliance registry,    *)
(* reserve oracle, mint controller and burn controller on one chain.  A    *)
(* step is one transaction that does not revert, or time passing.          *)
(***************************************************************************)
EXTENDS MintController, BurnController, Functions

vars == <<now, registryVars, tokenVars, oracleVars, mintVars, burnVars>>

Init == TimeInit /\ RegistryInit /\ TokenInit /\ OracleInit /\ MintInit /\ BurnInit

OracleStep ==
    OracleNext /\ UNCHANGED <<now, registryVars, tokenVars, mintVars, burnVars>>

RegistryStep ==
    RegistryNext /\ UNCHANGED <<now, tokenVars, oracleVars, mintVars, burnVars>>

TokenStep ==
    TokenNext /\ UNCHANGED <<now, registryVars, oracleVars, mintVars, burnVars>>

MintBookStep ==
    MintBookNext /\ UNCHANGED <<now, registryVars, tokenVars, oracleVars, burnVars>>

ExecuteStep(id) ==
    executeMint(id) /\ UNCHANGED <<now, registryVars, oracleVars, burnVars>>

BurnBookStep ==
    BurnBookNext /\ UNCHANGED <<now, registryVars, tokenVars, oracleVars, mintVars>>

BurnStep ==
    BurnNext /\ UNCHANGED <<now, registryVars, oracleVars, mintVars>>

TickStep ==
    Tick /\ UNCHANGED <<registryVars, tokenVars, oracleVars, mintVars, burnVars>>

Next ==
    \/ OracleStep
    \/ RegistryStep
    \/ TokenStep
    \/ MintBookStep
    \/ \E id \in Allocations : ExecuteStep(id)
    \/ BurnBookStep
    \/ BurnStep
    \/ TickStep

Spec == Init /\ [][Next]_vars

-----------------------------------------------------------------------------
(* What the services that drive the mint controller rely on *)

\* What getProposal shows of each allocation.
getProposal ==
    [id \in Allocations |->
        [status |-> proposals[id].status, approvals |-> Len(proposals[id].approvers)]]

Proposals == INSTANCE MintProposals WITH onchain <- getProposal

\* The contracts implement MintProposals: an executed proposal is never proposed
\* again, approvals only grow until then, and executing takes at least one.
ImplementsProposals == Proposals!ProposalsSpec

-----------------------------------------------------------------------------
(* Invariants *)

\* The mint controller's part of TypeOK.
MintTypeOK ==
    /\ proposals \in [Allocations -> Proposal]
    /\ allocationUsed \subseteq Allocations
    /\ hasApproved \in [Allocations -> SUBSET ApproverAccounts]
    /\ mintApprovers \subseteq ApproverAccounts
    /\ totalApprovers \in Int
    /\ approvalThreshold \in Nat \ {0}
    /\ maxReserveAge \in Nat
    /\ feeRecipient \in Wallets
    /\ rateLimit \in [window : Nat, max : Nat, start : Nat, minted : Nat]
    /\ votedFor \in [Allocations -> [ApproverAccounts -> MintRequest \cup {NoRequest}]]
    /\ mintLog \in Seq(ExecutedMint)
    /\ limitedFrom \in Nat

\* Every variable of the five contracts is well typed.
TypeOK == OracleTypeOK /\ RegistryTypeOK /\ TokenTypeOK /\ MintTypeOK /\ BurnTypeOK

\* approveMint's two records of a vote agree, whatever was proposed, cancelled
\* and proposed again in between: the list executeMint counts names each voter
\* once, and exactly the voters the hasApproved flags keep from voting again.
ApprovalBookkeeping ==
    \A id \in Allocations :
        LET list == proposals[id].approvers
        IN  /\ hasApproved[id] = Entries(list)
            /\ \A i, j \in DOMAIN list : list[i] = list[j] => i = j

\* A vote counts only for the request it was cast on: proposing again under the
\* same allocation id, with another recipient or amount, never inherits it.
VotesAreForTheRequest ==
    \A id \in Allocations : \A a \in hasApproved[id] : votedFor[id][a] = proposals[id].req

\* INV-6: behind every mint ever executed stand as many different approvers as
\* the threshold asked for then, each of whom voted for the very request minted.
MintQuorum ==
    \A i \in DOMAIN mintLog :
        LET m == mintLog[i]
        IN  /\ Cardinality(m.approvers) >= m.needed
            /\ \A a \in m.approvers : votedFor[m.id][a] = m.req

\* INV-2: no allocation was ever minted twice, and the two records that are to
\* prevent it, the used flag and the proposal's status, tell the same story.
SingleUseAllocation ==
    /\ \A i, j \in DOMAIN mintLog : mintLog[i].id = mintLog[j].id => i = j
    /\ allocationUsed = {mintLog[i].id : i \in DOMAIN mintLog}
    /\ allocationUsed = {id \in Allocations : proposals[id].status = "EXECUTED"}

\* The count setApprovalThreshold validates against equals the role's size.
ApproverCountInSync == totalApprovers = Cardinality(mintApprovers)

\* Both role counters the threshold setters validate against equal the number of
\* holders, whichever entry point, guarded or not, granted or revoked last.
RoleCountsInSync == AuditorCountInSync /\ ApproverCountInSync

\* No clawback authorization burns twice, across retries and equal amounts.
AuthorizationBurnsOnce ==
    \A i, j \in DOMAIN clawbacks : clawbacks[i] = clawbacks[j] => i = j

-----------------------------------------------------------------------------
(* Accounting *)

\* What each executed mint issued, gross; each redemption and each clawback burned.
MintedAmounts == [i \in DOMAIN mintLog |-> mintLog[i].req.amount]

RedeemedAmounts == [r \in executed |-> r.amount]

ClawedBackAmounts == [i \in DOMAIN clawbacks |-> clawbacks[i].amount]

\* The ERC-20 books balance: no path mints, burns or moves tokens on one side only.
SupplyIsSumOfBalances == ledger.totalSupply = SumFunctionOnSet(ledger.balances, Wallets)

\* Every token in circulation traces back to an executed mint and every burned
\* one to one redemption or clawback: the supply is what was issued at the start
\* and what the mints issued gross, less each executed redemption once and each
\* clawback once.
SupplyIsMintedLessBurned(issued) ==
    ledger.totalSupply =
        issued + SumFunction(MintedAmounts)
               - SumFunction(RedeemedAmounts) - SumFunction(ClawedBackAmounts)

\* The two accounts of the supply of a freshly deployed token, by who holds it
\* and by where it came from.
SupplyIsAccounted == SupplyIsSumOfBalances /\ SupplyIsMintedLessBurned(0)

\* What the rate limit gives: the window is anchored at a mint and not sliding,
\* so within any span shorter than the window at most twice the maximum is
\* minted, and never more, for as long as the limit is not set anew.
RateLimitDoubled ==
    rateLimit.max > 0 =>
        \A i \in limitedFrom+1 .. Len(mintLog) :
            LET span == {j \in i .. Len(mintLog) : mintLog[j].at - mintLog[i].at < rateLimit.window}
            IN  SumFunctionOnSet(MintedAmounts, span) <= 2 * rateLimit.max

-----------------------------------------------------------------------------
(* Action properties *)

Solvent == ledger.totalSupply <= latestAttestedGrams

\* A step that issues tokens leaves the gross supply, fee included, covered by
\* an attestation no older than the configured age, at the moment it executes.
MintWithinReserve ==
    ledger'.totalSupply > ledger.totalSupply =>
       /\ Solvent'
       /\ TimeSinceLatestWithin(maxReserveAge)

\* INV-1 as far as the code keeps it: the only step that takes the system from
\* covered to uncovered is an audit that reports less gold than the one before.
SolvencyLostOnlyByAudit ==
    Solvent /\ ~Solvent' => /\ attestations' # attestations
                            /\ latestAttestedGrams' < latestAttestedGrams
                            /\ ledger' = ledger

\* A frozen or sanctioned wallet's balance moves in two ways only: down, by a
\* clawback, or up, by the mint fee when it is the fee recipient, which
\* executeMint credits without asking the registry.
RestrictedBalanceIsHeld ==
    \A w \in Wallets :
       Restricted(w) /\ ledger'.balances[w] # ledger.balances[w] =>
           \/ clawbacks' # clawbacks /\ ledger'.balances[w] < ledger.balances[w]
           \/ mintLog' # mintLog /\ w = feeRecipient

\* Nobody receives tokens uncleared: a wallet whose balance grows has valid KYC
\* and is neither frozen nor sanctioned at that moment, however long ago the
\* mint was proposed and approved.  The fee recipient of a mint is the exception.
ReceiversAreCleared ==
    \A w \in Wallets : ledger'.balances[w] > ledger.balances[w] =>
       \/ isKycValid(w) /\ ~Restricted(w)
       \/ mintLog' # mintLog /\ w = feeRecipient

\* While the token is paused only the clawback changes the ledger.
PauseHolds == paused /\ ledger' # ledger => clawbacks' # clawbacks

\* What the reserve promises: a mint is covered when it executes, and cover is lost
\* to audits only.
ReserveBacksTheSupply == [][MintWithinReserve /\ SolvencyLostOnlyByAudit]_vars

\* What the registry and the pause switch promise of every path that moves tokens.
MovementsComply == [][RestrictedBalanceIsHeld /\ ReceiversAreCleared /\ PauseHolds]_vars
=============================================================================
