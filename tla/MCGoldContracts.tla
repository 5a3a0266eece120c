-------------------------- MODULE MCGoldContracts --------------------------
(***************************************************************************)
(* GoldContracts for TLC, one part of the system at a time.  A scenario    *)
(* starts after deployment and KYC onboarding and lets some kinds of       *)
(* transactions happen, within its own bounds; what it leaves out is       *)
(* configuration another scenario exercises.  A run chooses one of several *)
(* scenarios at the start, so their state spaces add instead of multiply.  *)
(***************************************************************************)
EXTENDS GoldContracts

CONSTANT Scenarios

\* What a scenario starts with and asks for are wallets, amounts, times and
\* allocations of the contracts.
ASSUME ScenarioAssumption ==
    /\ "alice" \in Wallets /\ "TR" \in Jurisdictions
    /\ \A s \in Scenarios :
          /\ s.issued \in Nat /\ s.onboardedUntil \in Nat
          /\ s.travel \subseteq Nat /\ s.minPhysical \subseteq Nat
          /\ s.ids \subseteq Allocations

VARIABLE scenario

mcVars == <<vars, scenario>>

\* Rate limits: off, and one that a single mint exhausts.
MCRateLimits == {[window |-> 0, max |-> 0], [window |-> 2, max |-> 400]}

Plain ==
    [kinds |-> {},              \* the kinds of transactions that happen
     until |-> 1,               \* the last hour
     grams |-> AttestedGrams,   \* what audits report
     audits |-> 1,              \* how many there are
     ids |-> Allocations,       \* the allocations proposed
     issued |-> 0,              \* what "alice" holds at the start
     onboardedUntil |-> 9,      \* when the KYC of the onboarded wallets expires
     reserveAge |-> 1,
     travel |-> {1000},         \* the Travel Rule threshold at the start
     minPhysical |-> {0}]       \* and the physical minimum

\* Attestations by two auditors under changes of roles, threshold and growth cap.
Audits == [Plain EXCEPT !.kinds = {"oracle", "tick"}, !.until = 3]

\* One allocation under proposals, votes, cancellations, re-proposals and
\* changes of the approver set and the threshold, up to its execution.
Votes == [Plain EXCEPT !.kinds = {"audit", "book", "execute"}, !.grams = {1200}]

GovernanceScenarios == {Audits, Votes}

\* Audits going up and down, mints, redemptions and pauses racing with time.
Reserves ==
    [Plain EXCEPT !.kinds = {"audit", "propose", "execute", "hold", "burn", "tick"},
                  !.until = 3, !.grams = {399, 400, 800}, !.audits = 2, !.ids = {"al1", "al2"},
                  !.onboardedUntil = 3, !.minPhysical = {400}]

\* A mint while its recipient's KYC runs out or a freeze hits it.
Clearance ==
    [Plain EXCEPT !.kinds = {"audit", "propose", "execute", "restrict", "tick"},
                  !.until = 2, !.grams = {400}, !.ids = {"al1"}, !.onboardedUntil = 2]

\* The rate limit, set anew at any time, against mints over several windows.
RateLimit ==
    [Plain EXCEPT !.kinds = {"audit", "propose", "execute", "limit", "tick"},
                  !.until = 4, !.grams = {1600}, !.reserveAge = 9]

\* Transfers under every action of the registry.
Transfers ==
    [Plain EXCEPT !.kinds = {"registry", "transfer", "pause", "tick"},
                  !.until = 2, !.issued = 400, !.onboardedUntil = 2,
                  !.travel = TravelThresholds]

\* Redemptions and clawbacks from one wallet under freezes and pauses.
Burns ==
    [Plain EXCEPT !.kinds = {"restrict", "hold", "burn", "sign", "tick"},
                  !.until = 2, !.issued = 1197, !.onboardedUntil = 2]

LedgerScenarios == {Reserves, Clearance, RateLimit, Transfers, Burns}

-----------------------------------------------------------------------------
\* Deployed, controllers wired, every wallet onboarded.
MCInit ==
    /\ scenario \in Scenarios
    /\ TimeInit /\ OracleInit /\ MintInit /\ BurnInit
    /\ maxReserveAge = scenario.reserveAge
    /\ minPhysicalGrams \in scenario.minPhysical
    /\ profiles = [w \in Wallets |->
         [jurisdiction |-> "TR", kycExpiresAt |-> scenario.onboardedUntil,
          frozen |-> FALSE, sanctioned |-> FALSE]]
    /\ jurisdictionBlocked = {}
    /\ travelRuleApproved = {}
    /\ travelRuleThreshold \in scenario.travel
    /\ allowance = [w \in Wallets |-> 0]
    /\ paused = FALSE
    /\ mintController = "deployed"
    /\ burnController = "deployed"
    /\ ledger = [balances |-> [w \in Wallets |-> IF w = "alice" THEN scenario.issued ELSE 0],
                 totalSupply |-> scenario.issued]

Kind(k) == k \in scenario.kinds /\ UNCHANGED scenario

AuditStep ==
    /\ Len(attestations) < scenario.audits
    /\ \E a \in AttestationInputs, s \in SignerLists : a.totalGrams \in scenario.grams /\ publish(a, s)
    /\ UNCHANGED <<now, registryVars, tokenVars, mintVars, burnVars>>

ProposeStep ==
    /\ \E id \in scenario.ids :
          \/ \E c \in Proposers, req \in MintRequest :
                req.jurisdiction = "TR" /\ proposeMint(c, id, req)
          \/ \E a \in ApproverAccounts : approveMint(a, id)
    /\ UNCHANGED <<now, registryVars, tokenVars, oracleVars, burnVars>>

LimitStep ==
    /\ \E l \in RateLimits : setRateLimit(l)
    /\ UNCHANGED <<now, registryVars, tokenVars, oracleVars, burnVars>>

TransferStep ==
    /\ \E from, to \in Wallets, amount \in TransferAmounts : Transfer(from, to, amount)
    /\ UNCHANGED <<now, registryVars, oracleVars, mintVars, burnVars>>

PauseStep == (pause \/ unpause) /\ UNCHANGED <<now, registryVars, oracleVars, mintVars, burnVars>>

ApproveStep ==
    /\ \E amount \in Allowances : Approve("alice", amount)
    /\ UNCHANGED <<now, registryVars, oracleVars, mintVars, burnVars>>

RestrictStep ==
    /\ freeze("alice") \/ unfreeze("alice") \/ \E value \in BOOLEAN : setSanctioned("alice", value)
    /\ UNCHANGED <<now, tokenVars, oracleVars, mintVars, burnVars>>

SignStep ==
    /\ \/ \E n \in PhysicalMinima : setMinPhysicalGrams(n)
       \/ \E a \in AuthorizationInputs : a.from = "alice" /\ a.deadline <= 2 /\ SignAuthorization(a)
    /\ UNCHANGED <<now, registryVars, tokenVars, oracleVars, mintVars>>

MCNext ==
    \/ Kind("oracle") /\ OracleStep
    \/ Kind("audit") /\ AuditStep
    \/ Kind("book") /\ MintBookStep
    \/ Kind("propose") /\ ProposeStep
    \/ Kind("limit") /\ LimitStep
    \/ Kind("execute") /\ \E id \in Allocations : ExecuteStep(id)
    \/ Kind("registry") /\ RegistryStep
    \/ Kind("restrict") /\ RestrictStep
    \/ Kind("transfer") /\ TransferStep
    \/ Kind("pause") /\ PauseStep
    \/ Kind("hold") /\ (PauseStep \/ ApproveStep)
    \/ Kind("burn") /\ BurnStep
    \/ Kind("sign") /\ SignStep
    \/ Kind("tick") /\ now < scenario.until /\ TickStep

MCSpec == MCInit /\ [][MCNext]_mcVars

-----------------------------------------------------------------------------
\* The two accounts of the supply, by who holds it and by where it came from,
\* given what the scenario had issued before its first step.
SupplyIsAccountedFor == SupplyIsSumOfBalances /\ SupplyIsMintedLessBurned(scenario.issued)
=============================================================================
