--------------------------- MODULE MintController ---------------------------
(***************************************************************************)
(* contracts/src/MintController.sol: propose, approve k-of-n, execute, and *)
(* the gates executeMint asks: compliance, the reserve oracle's freshness  *)
(* and amount, the rate limit.                                             *)
(*                                                                         *)
(* Abstracted: the bar list (only required to be non-empty) and proposedAt *)
(* are left out of a request; the proposal id is the allocation id.  The   *)
(* proposer, executor, treasury and compliance-officer roles keep their    *)
(* members; the approver role changes, as the contract counts it.          *)
(***************************************************************************)
EXTENDS GoldToken, ReserveOracle

CONSTANTS
    Allocations,       \* allocation ids (bytes32 UUIDs)
    MintAmounts,       \* gross amounts a proposer may ask for
    Proposers,         \* holders of MINT_PROPOSER_ROLE
    Officers,          \* holders of COMPLIANCE_OFFICER_ROLE or TREASURY_ROLE
    ApproverAccounts,  \* accounts that may ever hold MINT_APPROVER_ROLE
    InitialApprovers,  \* initialize()'s approvers
    InitialApprovalThreshold, \* initialize()'s approvalThreshold_
    ReserveAges,       \* values of maxReserveAge
    RateLimits,        \* [window, max] pairs TREASURY_ROLE may set
    FeeRecipients      \* wallets TREASURY_ROLE may set as fee recipient

ASSUME MintAssumption ==
    /\ IsFiniteSet(ApproverAccounts)
    /\ InitialApprovers \subseteq ApproverAccounts
    /\ InitialApprovalThreshold \in 1..Cardinality(InitialApprovers)
    /\ MintAmounts \subseteq Nat
    /\ ReserveAges \subseteq Nat
    /\ RateLimits \subseteq [window : Nat, max : Nat]
    /\ FeeRecipients \subseteq Wallets

VARIABLES
    proposals,          \* allocation id -> Proposal
    allocationUsed,     \* the used allocation ids
    hasApproved,        \* allocation id -> accounts marked as having approved
    mintApprovers,      \* holders of MINT_APPROVER_ROLE
    totalApprovers,
    approvalThreshold,
    maxReserveAge,
    feeRecipient,
    rateLimit,          \* rateLimitWindow, rateLimitMax, rateLimitWindowStart, rateLimitMinted
    votedFor,           \* history: allocation id, approver -> the request its vote since
                        \* the last proposal was cast on
    mintLog,            \* history: the executed mints, in order
    limitedFrom         \* history: Len(mintLog) when the rate limit was last set

mintConfigVars == <<mintApprovers, totalApprovers, approvalThreshold, maxReserveAge, feeRecipient>>

mintVars ==
    <<proposals, allocationUsed, hasApproved, mintConfigVars, rateLimit,
      votedFor, mintLog, limitedFrom>>

MINT_FEE_BPS == 25

MintRequest == [to : Wallets, amount : MintAmounts, jurisdiction : Jurisdictions]

\* The zero record of an unwritten storage slot.
NoRequest == [to |-> "0x0", amount |-> 0, jurisdiction |-> "0x0"]

NoProposal == [status |-> "NONE", req |-> NoRequest, proposer |-> "0x0", approvers |-> <<>>]

Proposal ==
    [status : {"NONE", "PROPOSED", "EXECUTED", "CANCELLED"}, req : MintRequest \cup {NoRequest},
     proposer : Proposers \cup {"0x0"}, approvers : Seq(ApproverAccounts)]

ExecutedMint ==
    [id : Allocations, req : MintRequest, at : Nat, needed : Nat,
     approvers : SUBSET ApproverAccounts]

NoVotes == [a \in ApproverAccounts |-> NoRequest]

Fee(gross) == (gross * MINT_FEE_BPS) \div 10000

-----------------------------------------------------------------------------
(* Plausible slips, for the mutation runs *)

\* The proposal is deleted first, so the loop over its approvers finds none.
ClearedApprovalsTooLate(id) == hasApproved[id]

ReserveHeadroomNet(gross) == ledger.totalSupply + gross - Fee(gross) <= latestAttestedGrams

setApprovalThresholdAllowsZero(n) ==
    /\ n <= totalApprovers
    /\ approvalThreshold' = n
    /\ UNCHANGED <<mintApprovers, totalApprovers, maxReserveAge, feeRecipient>>

proposeMintKeepsVotes(caller, id, req) ==
    /\ caller \in Proposers /\ req.amount # 0 /\ id \notin allocationUsed
    /\ proposals' = [proposals EXCEPT ![id] =
         [@ EXCEPT !.status = "PROPOSED", !.req = req, !.proposer = caller]]
    /\ votedFor' = [votedFor EXCEPT ![id] = NoVotes]
    /\ UNCHANGED <<allocationUsed, hasApproved, mintConfigVars, rateLimit, mintLog, limitedFrom>>

proposeMintReusesAllocation(caller, id, req) ==
    /\ caller \in Proposers /\ req.amount # 0
    /\ hasApproved' = [hasApproved EXCEPT ![id] = {}]
    /\ proposals' = [proposals EXCEPT ![id] =
         [status |-> "PROPOSED", req |-> req, proposer |-> caller, approvers |-> <<>>]]
    /\ votedFor' = [votedFor EXCEPT ![id] = NoVotes]
    /\ UNCHANGED <<allocationUsed, mintConfigVars, rateLimit, mintLog, limitedFrom>>

RateWindowNeverStarts ==
    IF now >= rateLimit.start + rateLimit.window
    THEN [rateLimit EXCEPT !.minted = 0]
    ELSE rateLimit

-----------------------------------------------------------------------------
(* propose, approve, cancel *)

Entries(s) == {s[i] : i \in DOMAIN s}

\* What the loop over the previous proposal's approvers leaves in hasApproved.
ClearedApprovals(id) ==
    hasApproved[id] \ Entries(proposals[id].approvers)

\* Also overwrites a proposal that is still open.
proposeMint(caller, id, req) ==
    /\ caller \in Proposers
    /\ req.amount # 0
    /\ id \notin allocationUsed
    /\ hasApproved' = [hasApproved EXCEPT ![id] = ClearedApprovals(id)]
    /\ proposals' = [proposals EXCEPT ![id] =
         [status |-> "PROPOSED", req |-> req, proposer |-> caller, approvers |-> <<>>]]
    /\ votedFor' = [votedFor EXCEPT ![id] = NoVotes]
    /\ UNCHANGED <<allocationUsed, mintConfigVars, rateLimit, mintLog, limitedFrom>>

approveMint(caller, id) ==
    /\ caller \in mintApprovers
    /\ proposals[id].status = "PROPOSED"
    /\ caller \notin hasApproved[id]
    /\ hasApproved' = [hasApproved EXCEPT ![id] = @ \cup {caller}]
    /\ proposals' = [proposals EXCEPT ![id].approvers = Append(@, caller)]
    /\ votedFor' = [votedFor EXCEPT ![id][caller] = proposals[id].req]
    /\ UNCHANGED <<allocationUsed, mintConfigVars, rateLimit, mintLog, limitedFrom>>

cancelMint(caller, id) ==
    /\ proposals[id].status = "PROPOSED"
    /\ caller \in Officers \/ caller = proposals[id].proposer
    /\ proposals' = [proposals EXCEPT ![id].status = "CANCELLED"]
    /\ UNCHANGED <<allocationUsed, hasApproved, mintConfigVars, rateLimit,
                   votedFor, mintLog, limitedFrom>>

-----------------------------------------------------------------------------
(* execute *)

ReserveHeadroom(gross) == ledger.totalSupply + gross <= latestAttestedGrams

\* The window as executeMint finds it: restarted by the first mint after it ran out.
RateWindow ==
    IF now >= rateLimit.start + rateLimit.window
    THEN [rateLimit EXCEPT !.start = now, !.minted = 0]
    ELSE rateLimit

WithinRateLimit(gross) ==
    rateLimit.max > 0 => RateWindow.minted + gross <= rateLimit.max

\* The net amount to the recipient, then, if there is one, the fee to the treasury.
MintSplit(req) ==
    LET fee == Fee(req.amount)
        net == Minted(ledger, req.to, req.amount - fee)
    IN  IF fee > 0 THEN Minted(net, feeRecipient, fee) ELSE net

executeMint(id) ==
    LET p == proposals[id]
        req == proposals[id].req
    IN  /\ p.status = "PROPOSED"
        /\ Len(p.approvers) >= approvalThreshold
        /\ canMint(req.to, req.jurisdiction)
        /\ TimeSinceLatestWithin(maxReserveAge)
        /\ ReserveHeadroom(req.amount)
        /\ WithinRateLimit(req.amount)
        /\ CanMintTokens(req.amount - Fee(req.amount))
        /\ rateLimit' = IF rateLimit.max > 0
                        THEN [RateWindow EXCEPT !.minted = @ + req.amount]
                        ELSE rateLimit
        /\ proposals' = [proposals EXCEPT ![id].status = "EXECUTED"]
        /\ allocationUsed' = allocationUsed \cup {id}
        /\ ledger' = MintSplit(req)
        /\ mintLog' = Append(mintLog,
             [id |-> id, req |-> req, at |-> now, needed |-> approvalThreshold,
              approvers |-> Entries(p.approvers)])
        /\ UNCHANGED <<hasApproved, mintConfigVars, votedFor, limitedFrom,
                       allowance, paused, mintController, burnController>>

-----------------------------------------------------------------------------
(* Configuration, by TREASURY_ROLE, and the approver role's hooks *)

setApprovalThreshold(n) ==
    /\ n # 0 /\ n <= totalApprovers
    /\ approvalThreshold' = n
    /\ UNCHANGED <<mintApprovers, totalApprovers, maxReserveAge, feeRecipient>>

setMaxReserveAge(age) ==
    /\ maxReserveAge' = age
    /\ UNCHANGED <<mintApprovers, totalApprovers, approvalThreshold, feeRecipient>>

setFeeRecipient(w) ==
    /\ feeRecipient' = w
    /\ UNCHANGED <<mintApprovers, totalApprovers, approvalThreshold, maxReserveAge>>

grantApprover(a) ==
    /\ mintApprovers' = mintApprovers \cup {a}
    /\ totalApprovers' = IF a \in mintApprovers THEN totalApprovers ELSE totalApprovers + 1
    /\ UNCHANGED <<approvalThreshold, maxReserveAge, feeRecipient>>

\* Votes already cast stay in the proposals, and the threshold stays as it is.
revokeApprover(a) ==
    /\ mintApprovers' = mintApprovers \ {a}
    /\ totalApprovers' = IF a \in mintApprovers THEN totalApprovers - 1 ELSE totalApprovers
    /\ UNCHANGED <<approvalThreshold, maxReserveAge, feeRecipient>>

setRateLimit(l) ==
    /\ rateLimit' = [window |-> l.window, max |-> l.max, start |-> now, minted |-> 0]
    /\ limitedFrom' = Len(mintLog)
    /\ UNCHANGED <<proposals, allocationUsed, hasApproved, mintConfigVars, votedFor, mintLog>>

MintConfigNext ==
    /\ \/ \E n \in 0..(Cardinality(ApproverAccounts) + 1) : setApprovalThreshold(n)
       \/ \E age \in ReserveAges : setMaxReserveAge(age)
       \/ \E w \in FeeRecipients : setFeeRecipient(w)
       \/ \E a \in ApproverAccounts : grantApprover(a) \/ revokeApprover(a)
    /\ UNCHANGED <<proposals, allocationUsed, hasApproved, rateLimit,
                   votedFor, mintLog, limitedFrom>>

-----------------------------------------------------------------------------
\* initialize().
MintInit ==
    /\ proposals = [id \in Allocations |-> NoProposal]
    /\ allocationUsed = {}
    /\ hasApproved = [id \in Allocations |-> {}]
    /\ mintApprovers = InitialApprovers
    /\ totalApprovers = Cardinality(InitialApprovers)
    /\ approvalThreshold = InitialApprovalThreshold
    /\ maxReserveAge \in ReserveAges
    /\ feeRecipient \in FeeRecipients
    /\ rateLimit = [window |-> 0, max |-> 0, start |-> 0, minted |-> 0]
    /\ votedFor = [id \in Allocations |-> NoVotes]
    /\ mintLog = <<>>
    /\ limitedFrom = 0

\* The transactions that touch the mint controller only.
MintBookNext ==
    \/ \E c \in Proposers, id \in Allocations, req \in MintRequest : proposeMint(c, id, req)
    \/ \E a \in ApproverAccounts, id \in Allocations : approveMint(a, id)
    \/ \E c \in Proposers \cup Officers, id \in Allocations : cancelMint(c, id)
    \/ \E l \in RateLimits : setRateLimit(l)
    \/ MintConfigNext
=============================================================================
