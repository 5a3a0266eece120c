--------------------------- MODULE MintProposals ---------------------------
(***************************************************************************)
(* What the mint controller promises the services that drive it, apart     *)
(* from who may call and which gates a mint must pass: per allocation, the *)
(* status of its proposal and the number of approvals getProposal returns. *)
(* GoldContracts implements this specification; MintSaga is written        *)
(* against it.                                                             *)
(***************************************************************************)
EXTENDS Naturals

CONSTANT Allocations

VARIABLE onchain    \* allocation id -> [status, approvals]

Statuses == {"NONE", "PROPOSED", "EXECUTED", "CANCELLED"}

ProposalsInit == onchain = [a \in Allocations |-> [status |-> "NONE", approvals |-> 0]]

\* Starts over: the approvals of an open or cancelled proposal are dropped.
Propose(a) ==
    /\ onchain[a].status # "EXECUTED"
    /\ onchain' = [onchain EXCEPT ![a] = [status |-> "PROPOSED", approvals |-> 0]]

Approve(a) ==
    /\ onchain[a].status = "PROPOSED"
    /\ onchain' = [onchain EXCEPT ![a].approvals = @ + 1]

\* The threshold moves, but never to zero.
Execute(a) ==
    /\ onchain[a].status = "PROPOSED"
    /\ onchain[a].approvals > 0
    /\ onchain' = [onchain EXCEPT ![a].status = "EXECUTED"]

Cancel(a) ==
    /\ onchain[a].status = "PROPOSED"
    /\ onchain' = [onchain EXCEPT ![a].status = "CANCELLED"]

ProposalsNext ==
    \E a \in Allocations : Propose(a) \/ Approve(a) \/ Execute(a) \/ Cancel(a)

ProposalsSpec == ProposalsInit /\ [][ProposalsNext]_onchain
=============================================================================
