----------------------- MODULE GoldContracts_proofs -----------------------
(***************************************************************************)
(* Proofs about the five contracts together, for every set of wallets,     *)
(* allocations and approvers and every amount.  The inductive invariant    *)
(* splits by component; each part is disturbed by few steps.               *)
(***************************************************************************)
EXTENDS GoldContracts, ReserveOracle_proofs

-----------------------------------------------------------------------------
(* The inductive invariant *)

\* A proposal that was ever written carries a real request.
ProposedHasRequest ==
    \A id \in Allocations :
        proposals[id].status # "NONE" => proposals[id].req \in MintRequest

MintInv ==
    /\ MintTypeOK
    /\ ProposedHasRequest
    /\ ApprovalBookkeeping
    /\ VotesAreForTheRequest
    /\ MintQuorum
    /\ SingleUseAllocation
    /\ ApproverCountInSync

\* A spent authorization's nonce lies below its wallet's counter for good.
SpentNonces ==
    \A i \in DOMAIN clawbacks : clawbacks[i].nonce < opBurnNonces[clawbacks[i].from]

BurnInv == BurnTypeOK /\ SpentNonces /\ AuthorizationBurnsOnce

IInv == OracleInv /\ RegistryTypeOK /\ TokenTypeOK /\ MintInv /\ BurnInv

-----------------------------------------------------------------------------
(* Lemmas about the operators *)

\* The fee is a natural number and never exceeds what it is taken from.
LEMMA FeeBounds ==
    ASSUME NEW gross \in Nat
    PROVE  Fee(gross) \in Nat /\ Fee(gross) <= gross
  BY DEF Fee, MINT_FEE_BPS

\* The length executeMint compares is the number of different voters.
LEMMA DistinctVotersCount ==
    ASSUME NEW s \in Seq(ApproverAccounts), \A i, j \in DOMAIN s : s[i] = s[j] => i = j
    PROVE  Cardinality(Entries(s)) = Len(s)
  <1>1. /\ Len(s) \in Nat
        /\ s \in [1..Len(s) -> ApproverAccounts]
        /\ DOMAIN s = 1..Len(s)
    BY LenProperties
  <1>2. s \in [1..Len(s) -> Entries(s)]
    BY <1>1 DEF Entries
  <1>3. s \in Bijection(1..Len(s), Entries(s))
    BY <1>1, <1>2 DEF Entries, Bijection, Injection, IsInjective, Surjection
  <1>4. ExistsBijection(1..Len(s), Entries(s))
    BY <1>3 DEF ExistsBijection
  <1> QED BY <1>1, <1>4, FS_CountingElements

\* What appending to a sequence does to its entries.
LEMMA AppendEntries ==
    ASSUME NEW S, NEW s \in Seq(S), NEW e \in S
    PROVE  /\ Append(s, e) \in Seq(S)
           /\ DOMAIN s = 1..Len(s) /\ Len(s) \in Nat
           /\ DOMAIN Append(s, e) = 1..(Len(s) + 1)
           /\ \A i \in 1..Len(s) : Append(s, e)[i] = s[i]
           /\ Append(s, e)[Len(s) + 1] = e
           /\ Entries(Append(s, e)) = Entries(s) \cup {e}
  <1>1. /\ Append(s, e) \in Seq(S)
        /\ DOMAIN s = 1..Len(s) /\ Len(s) \in Nat
        /\ DOMAIN Append(s, e) = 1..(Len(s) + 1)
        /\ \A i \in 1..Len(s) : Append(s, e)[i] = s[i]
        /\ Append(s, e)[Len(s) + 1] = e
    BY LenProperties
  <1>2. \A i \in 1..(Len(s) + 1) : i \in 1..Len(s) \/ i = Len(s) + 1
    BY <1>1
  <1>3. 1..Len(s) \subseteq 1..(Len(s) + 1) /\ Len(s) + 1 \in 1..(Len(s) + 1)
    BY <1>1
  <1>4. Entries(Append(s, e)) = Entries(s) \cup {e}
    BY <1>1, <1>2, <1>3, Zenon DEF Entries
  <1> QED BY <1>1, <1>4

\* Minting and burning on the ledger.
LEMMA MintedType ==
    ASSUME NEW l \in [balances : [Wallets -> Nat], totalSupply : Int],
           NEW to \in Wallets, NEW amount \in Nat
    PROVE  /\ Minted(l, to, amount) \in [balances : [Wallets -> Nat], totalSupply : Int]
           /\ Minted(l, to, amount).totalSupply = l.totalSupply + amount
           /\ Minted(l, to, amount).balances = [l.balances EXCEPT ![to] = @ + amount]
  BY DEF Minted, Credited

LEMMA BurnedType ==
    ASSUME NEW l \in [balances : [Wallets -> Nat], totalSupply : Int],
           NEW from \in Wallets, NEW amount \in Nat, l.balances[from] >= amount
    PROVE  /\ Burned(l, from, amount) \in [balances : [Wallets -> Nat], totalSupply : Int]
           /\ Burned(l, from, amount).totalSupply = l.totalSupply - amount
           /\ Burned(l, from, amount).balances = [l.balances EXCEPT ![from] = @ - amount]
  BY DEF Burned, Debited

LEMMA TransferredType ==
    ASSUME NEW l \in [balances : [Wallets -> Nat], totalSupply : Int],
           NEW from \in Wallets, NEW to \in Wallets, NEW amount \in Nat,
           l.balances[from] >= amount
    PROVE  /\ Transferred(l, from, to, amount) \in [balances : [Wallets -> Nat], totalSupply : Int]
           /\ Transferred(l, from, to, amount).totalSupply = l.totalSupply
           /\ Transferred(l, from, to, amount).balances =
                [[l.balances EXCEPT ![from] = @ - amount] EXCEPT ![to] = @ + amount]
  BY DEF Transferred, Credited, Debited

\* executeMint issues the gross amount, net and fee together, and credits only
\* the recipient and the fee recipient.
LEMMA MintSplitIssuesGross ==
    ASSUME TokenTypeOK, MintTypeOK, NEW req \in MintRequest
    PROVE  /\ MintSplit(req) \in [balances : [Wallets -> Nat], totalSupply : Int]
           /\ MintSplit(req).totalSupply = ledger.totalSupply + req.amount
           /\ \A w \in Wallets : w # req.to /\ w # feeRecipient =>
                 MintSplit(req).balances[w] = ledger.balances[w]
  <1> DEFINE fee == Fee(req.amount)
             net == Minted(ledger, req.to, req.amount - fee)
  <1>1. /\ req.amount \in Nat /\ req.to \in Wallets /\ feeRecipient \in Wallets
        /\ ledger \in [balances : [Wallets -> Nat], totalSupply : Int]
    BY MintAssumption DEF MintRequest, MintTypeOK, TokenTypeOK
  <1>2. fee \in Nat /\ req.amount - fee \in Nat
    BY <1>1, FeeBounds
  <1> HIDE DEF fee
  <1>3. /\ net \in [balances : [Wallets -> Nat], totalSupply : Int]
        /\ net.totalSupply = ledger.totalSupply + (req.amount - fee)
        /\ net.balances = [ledger.balances EXCEPT ![req.to] = @ + (req.amount - fee)]
    BY <1>1, <1>2, MintedType
  <1> HIDE DEF net
  <1>4. /\ Minted(net, feeRecipient, fee) \in [balances : [Wallets -> Nat], totalSupply : Int]
        /\ Minted(net, feeRecipient, fee).totalSupply = net.totalSupply + fee
        /\ Minted(net, feeRecipient, fee).balances = [net.balances EXCEPT ![feeRecipient] = @ + fee]
    <2>1. /\ net \in [balances : [Wallets -> Nat], totalSupply : Int]
          /\ feeRecipient \in Wallets /\ fee \in Nat
      BY <1>1, <1>2, <1>3
    <2> QED BY <2>1, MintedType
  <1>5. MintSplit(req) = IF fee > 0 THEN Minted(net, feeRecipient, fee) ELSE net
    BY DEF MintSplit, fee, net
  <1>6. ledger.totalSupply \in Int /\ ledger.balances \in [Wallets -> Nat]
    BY <1>1
  <1>7. CASE fee > 0
    BY <1>1, <1>2, <1>3, <1>4, <1>5, <1>6, <1>7
  <1>8. CASE fee = 0
    BY <1>1, <1>2, <1>3, <1>5, <1>6, <1>8
  <1> QED BY <1>2, <1>7, <1>8

-----------------------------------------------------------------------------
(* The mint controller's part *)

LEMMA MintUntouched ==
    ASSUME MintInv, UNCHANGED mintVars
    PROVE  MintInv'
  BY DEF MintInv, MintTypeOK, ProposedHasRequest, ApprovalBookkeeping, VotesAreForTheRequest,
         MintQuorum, SingleUseAllocation, ApproverCountInSync, mintVars, mintConfigVars

\* While a proposal is open its allocation is in no executed mint.
LEMMA OpenIsUnused ==
    ASSUME MintInv, NEW id \in Allocations, proposals[id].status # "EXECUTED"
    PROVE  id \notin allocationUsed /\ \A i \in DOMAIN mintLog : mintLog[i].id # id
  BY DEF MintInv, SingleUseAllocation

LEMMA ProposePreserves ==
    ASSUME MintInv, NEW c \in Proposers, NEW id \in Allocations, NEW req \in MintRequest,
           proposeMint(c, id, req)
    PROVE  MintInv'
  <1> DEFINE p == [status |-> "PROPOSED", req |-> req, proposer |-> c, approvers |-> <<>>]
  <1>1. /\ proposals \in [Allocations -> Proposal]
        /\ hasApproved \in [Allocations -> SUBSET ApproverAccounts]
        /\ votedFor \in [Allocations -> [ApproverAccounts -> MintRequest \cup {NoRequest}]]
    BY DEF MintInv, MintTypeOK
  <1>2. p \in Proposal
    BY DEF Proposal
  <1>3. /\ proposals' = [proposals EXCEPT ![id] = p]
        /\ votedFor' = [votedFor EXCEPT ![id] = NoVotes]
        /\ hasApproved' = [hasApproved EXCEPT ![id] = {}]
        /\ id \notin allocationUsed
        /\ UNCHANGED <<allocationUsed, mintConfigVars, rateLimit, mintLog, limitedFrom>>
    <2>1. ClearedApprovals(id) = {}
      BY DEF ClearedApprovals, MintInv, ApprovalBookkeeping
    <2> QED BY <2>1 DEF proposeMint
  <1> HIDE DEF p, Proposal
  <1>4. proposals' \in [Allocations -> Proposal]
    BY <1>1, <1>2, <1>3
  <1>5. MintTypeOK'
    <2>1. NoVotes \in [ApproverAccounts -> MintRequest \cup {NoRequest}]
      BY DEF NoVotes
    <2> QED BY <1>1, <1>3, <1>4, <2>1 DEF MintInv, MintTypeOK, mintConfigVars
  <1>6. /\ proposals'[id] = p
        /\ \A x \in Allocations \ {id} : proposals'[x] = proposals[x]
        /\ hasApproved'[id] = {}
        /\ \A x \in Allocations \ {id} : hasApproved'[x] = hasApproved[x]
        /\ \A x \in Allocations \ {id} : votedFor'[x] = votedFor[x]
    BY <1>1, <1>3
  <1>7. ProposedHasRequest'
    BY <1>6 DEF p, MintInv, ProposedHasRequest
  <1>8. ApprovalBookkeeping'
    <2>1. Entries(<<>>) = {} /\ DOMAIN <<>> = {}
      BY DEF Entries
    <2>2. p.approvers = <<>>
      BY DEF p
    <2> QED BY <1>6, <2>1, <2>2 DEF MintInv, ApprovalBookkeeping
  <1>9. VotesAreForTheRequest'
    BY <1>6 DEF MintInv, VotesAreForTheRequest
  <1>10. \A i \in DOMAIN mintLog : mintLog[i].id \in Allocations \ {id}
    <2>1. \A i \in DOMAIN mintLog : mintLog[i] \in ExecutedMint
      <3> HIDE DEF ExecutedMint
      <3> QED BY LenProperties, ElementOfSeq DEF MintInv, MintTypeOK
    <2>2. \A i \in DOMAIN mintLog : mintLog[i].id \in allocationUsed
      BY DEF MintInv, SingleUseAllocation
    <2> QED BY <2>1, <2>2, <1>3 DEF ExecutedMint
  <1>11. MintQuorum'
    BY <1>3, <1>6, <1>10 DEF MintInv, MintQuorum
  <1>12. SingleUseAllocation'
    <2>1. \A x \in Allocations : proposals'[x].status = "EXECUTED" <=> proposals[x].status = "EXECUTED"
      <3>1. p.status = "PROPOSED"
        BY DEF p
      <3>2. proposals[id].status # "EXECUTED"
        BY <1>3 DEF MintInv, SingleUseAllocation
      <3> QED BY <1>6, <3>1, <3>2
    <2> QED BY <1>3, <2>1 DEF MintInv, SingleUseAllocation
  <1>13. ApproverCountInSync'
    BY <1>3 DEF MintInv, ApproverCountInSync, mintConfigVars
  <1> QED BY <1>5, <1>7, <1>8, <1>9, <1>11, <1>12, <1>13 DEF MintInv

LEMMA ApprovePreserves ==
    ASSUME MintInv, NEW c \in ApproverAccounts, NEW id \in Allocations, approveMint(c, id)
    PROVE  MintInv'
  <1> DEFINE list == proposals[id].approvers
  <1>1. /\ proposals \in [Allocations -> Proposal]
        /\ hasApproved \in [Allocations -> SUBSET ApproverAccounts]
        /\ votedFor \in [Allocations -> [ApproverAccounts -> MintRequest \cup {NoRequest}]]
        /\ list \in Seq(ApproverAccounts)
        /\ proposals[id].req \in MintRequest \cup {NoRequest}
    BY DEF MintInv, MintTypeOK, Proposal
  <1>2. /\ proposals[id].status = "PROPOSED"
        /\ c \notin hasApproved[id]
        /\ proposals' = [proposals EXCEPT ![id].approvers = Append(list, c)]
        /\ hasApproved' = [hasApproved EXCEPT ![id] = @ \cup {c}]
        /\ votedFor' = [votedFor EXCEPT ![id][c] = proposals[id].req]
        /\ UNCHANGED <<allocationUsed, mintConfigVars, rateLimit, mintLog, limitedFrom>>
    BY DEF approveMint
  <1>3. /\ Append(list, c) \in Seq(ApproverAccounts)
        /\ DOMAIN list = 1..Len(list) /\ Len(list) \in Nat
        /\ DOMAIN Append(list, c) = 1..(Len(list) + 1)
        /\ \A i \in 1..Len(list) : Append(list, c)[i] = list[i]
        /\ Append(list, c)[Len(list) + 1] = c
        /\ Entries(Append(list, c)) = Entries(list) \cup {c}
    BY <1>1, AppendEntries
  <1>4. /\ proposals' \in [Allocations -> Proposal]
        /\ \A x \in Allocations : /\ proposals'[x].status = proposals[x].status
                                  /\ proposals'[x].req = proposals[x].req
                                  /\ x # id => proposals'[x].approvers = proposals[x].approvers
        /\ proposals'[id].approvers = Append(list, c)
    BY <1>1, <1>2, <1>3, ZenonT(30) DEF Proposal
  <1>5. /\ hasApproved'[id] = hasApproved[id] \cup {c}
        /\ \A x \in Allocations \ {id} : hasApproved'[x] = hasApproved[x]
        /\ votedFor'[id][c] = proposals[id].req
        /\ \A a \in ApproverAccounts \ {c} : votedFor'[id][a] = votedFor[id][a]
        /\ \A x \in Allocations \ {id} : votedFor'[x] = votedFor[x]
        /\ votedFor' \in [Allocations -> [ApproverAccounts -> MintRequest \cup {NoRequest}]]
    BY <1>1, <1>2
  <1>6. MintTypeOK'
    BY <1>1, <1>2, <1>4, <1>5 DEF MintInv, MintTypeOK, mintConfigVars
  <1>7. ProposedHasRequest'
    BY <1>4 DEF MintInv, ProposedHasRequest
  <1>8. ApprovalBookkeeping'
    <2> SUFFICES ASSUME NEW x \in Allocations
                 PROVE  /\ hasApproved'[x] = Entries(proposals'[x].approvers)
                        /\ \A i, j \in DOMAIN proposals'[x].approvers :
                              proposals'[x].approvers[i] = proposals'[x].approvers[j] => i = j
      BY DEF ApprovalBookkeeping
    <2>1. CASE x # id
      BY <2>1, <1>4, <1>5 DEF MintInv, ApprovalBookkeeping
    <2>2. CASE x = id
      <3>1. hasApproved[id] = Entries(list) /\ \A i, j \in DOMAIN list : list[i] = list[j] => i = j
        BY DEF MintInv, ApprovalBookkeeping
      <3>2. \A i \in 1..Len(list) : list[i] # c
        BY <1>2, <1>3, <3>1 DEF Entries
      <3>3. \A i, j \in 1..(Len(list) + 1) : Append(list, c)[i] = Append(list, c)[j] => i = j
        <4>1. \A i \in 1..(Len(list) + 1) : i \in 1..Len(list) \/ i = Len(list) + 1
          BY <1>3
        <4> QED BY <4>1, <1>3, <3>1, <3>2, Zenon
      <3> QED BY <2>2, <3>1, <3>3, <1>3, <1>4, <1>5
    <2> QED BY <2>1, <2>2
  <1>9. VotesAreForTheRequest'
    <2> SUFFICES ASSUME NEW x \in Allocations, NEW a \in hasApproved'[x]
                 PROVE  votedFor'[x][a] = proposals'[x].req
      BY DEF VotesAreForTheRequest
    <2>1. CASE x # id
      BY <2>1, <1>4, <1>5 DEF MintInv, VotesAreForTheRequest
    <2>2. CASE x = id /\ a = c
      BY <2>2, <1>4, <1>5
    <2>3. CASE x = id /\ a # c
      BY <2>3, <1>1, <1>4, <1>5 DEF MintInv, VotesAreForTheRequest
    <2> QED BY <2>1, <2>2, <2>3
  <1>10. \A i \in DOMAIN mintLog : mintLog[i].id \in Allocations \ {id}
    <2>1. \A i \in DOMAIN mintLog : mintLog[i] \in ExecutedMint
      <3> HIDE DEF ExecutedMint
      <3> QED BY LenProperties, ElementOfSeq DEF MintInv, MintTypeOK
    <2>2. \A i \in DOMAIN mintLog : mintLog[i].id # id
      BY <1>2, OpenIsUnused
    <2> QED BY <2>1, <2>2 DEF ExecutedMint
  <1>11. MintQuorum'
    BY <1>2, <1>5, <1>10 DEF MintInv, MintQuorum
  <1>12. SingleUseAllocation'
    BY <1>2, <1>4 DEF MintInv, SingleUseAllocation
  <1>13. ApproverCountInSync'
    BY <1>2 DEF MintInv, ApproverCountInSync, mintConfigVars
  <1> QED BY <1>6, <1>7, <1>8, <1>9, <1>11, <1>12, <1>13 DEF MintInv

LEMMA CancelPreserves ==
    ASSUME MintInv, NEW c, NEW id \in Allocations, cancelMint(c, id)
    PROVE  MintInv'
  <1>1. proposals \in [Allocations -> Proposal]
    BY DEF MintInv, MintTypeOK
  <1>2. /\ proposals[id].status = "PROPOSED"
        /\ proposals' = [proposals EXCEPT ![id].status = "CANCELLED"]
        /\ UNCHANGED <<allocationUsed, hasApproved, mintConfigVars, rateLimit,
                       votedFor, mintLog, limitedFrom>>
    BY DEF cancelMint
  <1>3. /\ proposals' \in [Allocations -> Proposal]
        /\ \A x \in Allocations : /\ proposals'[x].approvers = proposals[x].approvers
                                  /\ proposals'[x].req = proposals[x].req
                                  /\ proposals'[x].status =
                                        IF x = id THEN "CANCELLED" ELSE proposals[x].status
    BY <1>1, <1>2 DEF Proposal
  <1>4. MintTypeOK'
    BY <1>2, <1>3 DEF MintInv, MintTypeOK, mintConfigVars
  <1>5. ProposedHasRequest'
    BY <1>2, <1>3 DEF MintInv, ProposedHasRequest
  <1>6. ApprovalBookkeeping' /\ VotesAreForTheRequest'
    BY <1>2, <1>3 DEF MintInv, ApprovalBookkeeping, VotesAreForTheRequest
  <1>7. MintQuorum' /\ ApproverCountInSync'
    BY <1>2 DEF MintInv, MintQuorum, ApproverCountInSync, mintConfigVars
  <1>8. SingleUseAllocation'
    BY <1>2, <1>3 DEF MintInv, SingleUseAllocation
  <1> QED BY <1>4, <1>5, <1>6, <1>7, <1>8 DEF MintInv

\* Configuring the controller, its approver role included.
LEMMA ConfigPreserves ==
    ASSUME MintInv, MintConfigNext
    PROVE  MintInv'
  <1>1. UNCHANGED <<proposals, allocationUsed, hasApproved, rateLimit, votedFor, mintLog, limitedFrom>>
    BY DEF MintConfigNext
  <1>2. /\ ProposedHasRequest' /\ ApprovalBookkeeping' /\ VotesAreForTheRequest'
        /\ MintQuorum' /\ SingleUseAllocation'
    BY <1>1 DEF MintInv, ProposedHasRequest, ApprovalBookkeeping, VotesAreForTheRequest,
                MintQuorum, SingleUseAllocation
  <1> DEFINE ConfigOK ==
               /\ mintApprovers \subseteq ApproverAccounts
               /\ totalApprovers \in Int
               /\ approvalThreshold \in Nat \ {0}
               /\ maxReserveAge \in Nat
               /\ feeRecipient \in Wallets
               /\ totalApprovers = Cardinality(mintApprovers)
  <1>3. ConfigOK
    BY DEF MintInv, MintTypeOK, ApproverCountInSync
  <1>4. IsFiniteSet(mintApprovers) /\ Cardinality(mintApprovers) \in Nat
    BY <1>3, MintAssumption, FS_Subset, FS_CardinalityType
  <1>5. ASSUME NEW n \in 0..(Cardinality(ApproverAccounts) + 1), setApprovalThreshold(n)
        PROVE  ConfigOK'
    BY <1>3, <1>5, MintAssumption, FS_CardinalityType DEF setApprovalThreshold
  <1>6. ASSUME NEW age \in ReserveAges, setMaxReserveAge(age)
        PROVE  ConfigOK'
    BY <1>3, <1>6, MintAssumption DEF setMaxReserveAge
  <1>7. ASSUME NEW w \in FeeRecipients, setFeeRecipient(w)
        PROVE  ConfigOK'
    BY <1>3, <1>7, MintAssumption DEF setFeeRecipient
  <1>8. ASSUME NEW a \in ApproverAccounts, grantApprover(a)
        PROVE  ConfigOK'
    <2>1. Cardinality(mintApprovers \cup {a}) =
            IF a \in mintApprovers THEN Cardinality(mintApprovers) ELSE Cardinality(mintApprovers) + 1
      BY <1>4, FS_AddElement
    <2> QED BY <1>3, <1>4, <1>8, <2>1 DEF grantApprover
  <1>9. ASSUME NEW a \in ApproverAccounts, revokeApprover(a)
        PROVE  ConfigOK'
    <2>1. Cardinality(mintApprovers \ {a}) =
            IF a \in mintApprovers THEN Cardinality(mintApprovers) - 1 ELSE Cardinality(mintApprovers)
      BY <1>4, FS_RemoveElement
    <2> QED BY <1>3, <1>4, <1>9, <2>1 DEF revokeApprover
  <1> HIDE DEF ConfigOK
  <1>10. ConfigOK'
    BY <1>5, <1>6, <1>7, <1>8, <1>9 DEF MintConfigNext
  <1>11. MintTypeOK' /\ ApproverCountInSync'
    BY <1>1, <1>10 DEF ConfigOK, MintInv, MintTypeOK, ApproverCountInSync
  <1> QED BY <1>2, <1>11 DEF MintInv

LEMMA RateLimitPreserves ==
    ASSUME MintInv, now \in Nat, NEW l \in RateLimits, setRateLimit(l)
    PROVE  MintInv'
  <1>1. UNCHANGED <<proposals, allocationUsed, hasApproved, mintConfigVars, votedFor, mintLog>>
    BY DEF setRateLimit
  <1>2. rateLimit' \in [window : Nat, max : Nat, start : Nat, minted : Nat]
    BY MintAssumption DEF setRateLimit
  <1>3. limitedFrom' \in Nat
    <2>1. mintLog \in Seq(ExecutedMint)
      BY DEF MintInv, MintTypeOK
    <2>2. Len(mintLog) \in Nat
      BY <2>1, LenProperties
    <2> QED BY <2>2 DEF setRateLimit
  <1>4. MintTypeOK'
    BY <1>1, <1>2, <1>3 DEF MintInv, MintTypeOK, mintConfigVars
  <1> QED BY <1>1, <1>4 DEF MintInv, ProposedHasRequest, ApprovalBookkeeping,
            VotesAreForTheRequest, MintQuorum, SingleUseAllocation, ApproverCountInSync,
            mintConfigVars

LEMMA MintBookPreserves ==
    ASSUME MintInv, now \in Nat, MintBookNext
    PROVE  MintInv'
  BY ProposePreserves, ApprovePreserves, CancelPreserves, RateLimitPreserves, ConfigPreserves, Zenon
  DEF MintBookNext

\* Executing: the quorum is counted on the list, and the log and the used flag
\* grow together.
LEMMA ExecutePreserves ==
    ASSUME MintInv, now \in Nat, NEW id \in Allocations, executeMint(id)
    PROVE  MintInv'
  <1> DEFINE p == proposals[id]
             m == [id |-> id, req |-> p.req, at |-> now, needed |-> approvalThreshold,
                   approvers |-> Entries(p.approvers)]
  <1>1. /\ proposals \in [Allocations -> Proposal]
        /\ hasApproved \in [Allocations -> SUBSET ApproverAccounts]
        /\ mintLog \in Seq(ExecutedMint)
        /\ rateLimit \in [window : Nat, max : Nat, start : Nat, minted : Nat]
        /\ p.approvers \in Seq(ApproverAccounts)
        /\ approvalThreshold \in Nat
    BY DEF MintInv, MintTypeOK, Proposal
  <1>2. /\ p.status = "PROPOSED"
        /\ Len(p.approvers) >= approvalThreshold
        /\ rateLimit' = IF rateLimit.max > 0
                        THEN [RateWindow EXCEPT !.minted = @ + p.req.amount]
                        ELSE rateLimit
        /\ proposals' = [proposals EXCEPT ![id].status = "EXECUTED"]
        /\ allocationUsed' = allocationUsed \cup {id}
        /\ mintLog' = Append(mintLog, m)
        /\ UNCHANGED <<hasApproved, mintConfigVars, votedFor, limitedFrom>>
    BY DEF executeMint
  <1>3. p.req \in MintRequest /\ p.req.amount \in Nat
    <2>1. p.req \in MintRequest
      BY <1>2 DEF MintInv, ProposedHasRequest
    <2> QED BY <2>1, MintAssumption DEF MintRequest
  <1>4. /\ hasApproved[id] = Entries(p.approvers)
        /\ Entries(p.approvers) \subseteq ApproverAccounts
        /\ Cardinality(Entries(p.approvers)) = Len(p.approvers)
        /\ \A a \in hasApproved[id] : votedFor[id][a] = p.req
    BY <1>1, DistinctVotersCount DEF MintInv, ApprovalBookkeeping, VotesAreForTheRequest
  <1>5. /\ m \in ExecutedMint /\ m.id = id /\ m.req = p.req
        /\ Cardinality(m.approvers) >= m.needed
        /\ \A a \in m.approvers : votedFor[m.id][a] = m.req
    <2>1. m \in ExecutedMint
      BY <1>1, <1>3, <1>4 DEF ExecutedMint
    <2>2. /\ m.id = id /\ m.req = p.req /\ m.needed = approvalThreshold
          /\ m.approvers = Entries(p.approvers)
      OBVIOUS
    <2>3. Cardinality(m.approvers) >= m.needed
      BY <1>2, <1>4, <2>2
    <2> QED BY <2>1, <2>2, <2>3, <1>4
  <1> HIDE DEF m
  <1>6. /\ mintLog' \in Seq(ExecutedMint)
        /\ DOMAIN mintLog = 1..Len(mintLog) /\ Len(mintLog) \in Nat
        /\ DOMAIN mintLog' = 1..(Len(mintLog) + 1)
        /\ \A i \in 1..Len(mintLog) : mintLog'[i] = mintLog[i]
        /\ mintLog'[Len(mintLog) + 1] = m
    BY <1>1, <1>2, <1>5, AppendEntries
  <1>7. \A i \in DOMAIN mintLog' : i \in DOMAIN mintLog \/ i = Len(mintLog) + 1
    BY <1>6
  <1>8. /\ proposals' \in [Allocations -> Proposal]
        /\ \A x \in Allocations : /\ proposals'[x].approvers = proposals[x].approvers
                                  /\ proposals'[x].req = proposals[x].req
                                  /\ proposals'[x].status =
                                        IF x = id THEN "EXECUTED" ELSE proposals[x].status
    BY <1>1, <1>2 DEF Proposal
  <1>9. rateLimit' \in [window : Nat, max : Nat, start : Nat, minted : Nat]
    <2> DEFINE Limits == [window : Nat, max : Nat, start : Nat, minted : Nat]
               opened == [RateWindow EXCEPT !.minted = @ + p.req.amount]
    <2>1. RateWindow \in Limits
      BY <1>1 DEF RateWindow
    <2>2. opened \in Limits
      <3> HIDE DEF RateWindow
      <3> QED BY <1>3, <2>1
    <2>3. rateLimit' = IF rateLimit.max > 0 THEN opened ELSE rateLimit
      BY <1>2
    <2> HIDE DEF opened
    <2> QED BY <1>1, <2>2, <2>3
  <1>10. MintTypeOK'
    BY <1>2, <1>6, <1>8, <1>9 DEF MintInv, MintTypeOK, mintConfigVars
  <1>11. ProposedHasRequest'
    BY <1>2, <1>8 DEF MintInv, ProposedHasRequest
  <1>12. ApprovalBookkeeping' /\ VotesAreForTheRequest'
    BY <1>2, <1>8 DEF MintInv, ApprovalBookkeeping, VotesAreForTheRequest
  <1>13. MintQuorum'
    <2>1. \A i \in DOMAIN mintLog :
             /\ Cardinality(mintLog[i].approvers) >= mintLog[i].needed
             /\ \A a \in mintLog[i].approvers : votedFor[mintLog[i].id][a] = mintLog[i].req
      BY DEF MintInv, MintQuorum
    <2>2. votedFor' = votedFor
      BY <1>2
    <2>3. \A i \in DOMAIN mintLog' :
             /\ Cardinality(mintLog'[i].approvers) >= mintLog'[i].needed
             /\ \A a \in mintLog'[i].approvers : votedFor'[mintLog'[i].id][a] = mintLog'[i].req
      <3> SUFFICES ASSUME NEW i \in DOMAIN mintLog'
                   PROVE  /\ Cardinality(mintLog'[i].approvers) >= mintLog'[i].needed
                          /\ \A a \in mintLog'[i].approvers :
                                votedFor'[mintLog'[i].id][a] = mintLog'[i].req
        OBVIOUS
      <3>1. CASE i \in DOMAIN mintLog
        <4>1. mintLog'[i] = mintLog[i]
          BY <1>6, <3>1
        <4> QED BY <2>1, <2>2, <3>1, <4>1
      <3>2. CASE i = Len(mintLog) + 1
        <4>1. mintLog'[i] = m
          BY <1>6, <3>2
        <4> QED BY <1>5, <2>2, <4>1
      <3> QED BY <1>7, <3>1, <3>2
    <2> QED BY <2>3 DEF MintQuorum
  <1>14. SingleUseAllocation'
    <2>1. /\ \A i, j \in DOMAIN mintLog : mintLog[i].id = mintLog[j].id => i = j
          /\ allocationUsed = {mintLog[i].id : i \in DOMAIN mintLog}
          /\ allocationUsed = {x \in Allocations : proposals[x].status = "EXECUTED"}
      BY DEF MintInv, SingleUseAllocation
    <2>2. \A i \in DOMAIN mintLog : mintLog[i].id # id
      BY <1>2, OpenIsUnused
    <2>3. \A i, j \in DOMAIN mintLog' : mintLog'[i].id = mintLog'[j].id => i = j
      BY <1>5, <1>6, <1>7, <2>1, <2>2, Zenon
    <2>4. /\ \A i \in DOMAIN mintLog : i \in DOMAIN mintLog'
          /\ Len(mintLog) + 1 \in DOMAIN mintLog'
      BY <1>6
    <2>5. allocationUsed' = {mintLog'[i].id : i \in DOMAIN mintLog'}
      <3>1. /\ allocationUsed' = allocationUsed \cup {id}
            /\ \A i \in DOMAIN mintLog : mintLog'[i].id = mintLog[i].id
            /\ mintLog'[Len(mintLog) + 1].id = id
        BY <1>2, <1>5, <1>6
      <3>2. \A x : x \in allocationUsed <=> \E i \in DOMAIN mintLog : x = mintLog[i].id
        BY <2>1
      <3>3. \A x \in allocationUsed' : \E i \in DOMAIN mintLog' : x = mintLog'[i].id
        BY <2>4, <3>1, <3>2
      <3>4. \A i \in DOMAIN mintLog' : mintLog'[i].id \in allocationUsed'
        BY <1>7, <3>1, <3>2
      <3> QED BY <3>3, <3>4
    <2>6. allocationUsed' = {x \in Allocations : proposals'[x].status = "EXECUTED"}
      BY <1>2, <1>8, <2>1
    <2> QED BY <2>3, <2>5, <2>6 DEF SingleUseAllocation
  <1>15. ApproverCountInSync'
    BY <1>2 DEF MintInv, ApproverCountInSync, mintConfigVars
  <1> QED BY <1>10, <1>11, <1>12, <1>13, <1>14, <1>15 DEF MintInv

-----------------------------------------------------------------------------
(* The registry's, the token's and the burn controller's parts *)

LEMMA RegistryPreserves ==
    ASSUME RegistryTypeOK, RegistryNext, UNCHANGED now
    PROVE  RegistryTypeOK'
  <1>1. ASSUME NEW w \in Wallets, NEW p \in WalletProfile, SetProfile(w, p)
        PROVE  RegistryTypeOK'
    BY <1>1 DEF RegistryTypeOK, SetProfile
  <1>2. /\ ProfileInputs \subseteq WalletProfile
        /\ \A w \in Wallets : profiles[w] \in WalletProfile
    BY RegistryAssumption DEF ProfileInputs, WalletProfile, RegistryTypeOK
  <1>3. ASSUME NEW w \in Wallets, NEW p \in ProfileInputs, setProfile(w, p)
        PROVE  RegistryTypeOK'
    BY <1>1, <1>2, <1>3 DEF setProfile
  <1>4. ASSUME NEW w \in Wallets, freeze(w) \/ unfreeze(w) \/ \E v \in BOOLEAN : setSanctioned(w, v)
        PROVE  RegistryTypeOK'
    <2>1. \A v \in BOOLEAN : /\ [profiles[w] EXCEPT !.frozen = v] \in WalletProfile
                             /\ [profiles[w] EXCEPT !.sanctioned = v] \in WalletProfile
      BY <1>2 DEF WalletProfile
    <2> QED BY <1>1, <1>4, <2>1 DEF freeze, unfreeze, setSanctioned
  <1>5. ASSUME NEW j \in Jurisdictions, NEW b \in BOOLEAN, setJurisdictionBlocked(j, b)
        PROVE  RegistryTypeOK'
    BY <1>5 DEF RegistryTypeOK, setJurisdictionBlocked
  <1>6. ASSUME NEW from \in Wallets, NEW to \in Wallets, NEW amount \in TransferAmounts,
               recordTravelRuleApproval(from, to, amount)
        PROVE  RegistryTypeOK'
    BY <1>6 DEF RegistryTypeOK, recordTravelRuleApproval
  <1>7. ASSUME NEW amount \in TravelThresholds, setTravelRuleThreshold(amount)
        PROVE  RegistryTypeOK'
    BY <1>7, RegistryAssumption DEF RegistryTypeOK, setTravelRuleThreshold
  <1> QED BY <1>3, <1>4, <1>5, <1>6, <1>7 DEF RegistryNext

LEMMA TokenPreserves ==
    ASSUME TokenTypeOK, TokenNext
    PROVE  TokenTypeOK'
  <1>1. /\ ledger \in [balances : [Wallets -> Nat], totalSupply : Int]
        /\ allowance \in [Wallets -> Nat]
    BY DEF TokenTypeOK
  <1>2. ASSUME NEW from \in Wallets, NEW to \in Wallets, NEW amount \in TransferAmounts,
               Transfer(from, to, amount)
        PROVE  TokenTypeOK'
    <2>1. amount \in Nat /\ ledger.balances[from] >= amount
      BY <1>2, RegistryAssumption DEF Transfer
    <2>2. Transferred(ledger, from, to, amount) \in [balances : [Wallets -> Nat], totalSupply : Int]
      BY <1>1, <2>1, TransferredType
    <2> QED BY <1>2, <2>2 DEF Transfer, TokenTypeOK
  <1>3. ASSUME NEW owner \in Wallets, NEW amount \in Allowances, Approve(owner, amount)
        PROVE  TokenTypeOK'
    BY <1>3, TokenAssumption DEF Approve, TokenTypeOK
  <1>4. ASSUME pause \/ unpause
        PROVE  TokenTypeOK'
    BY <1>4 DEF pause, unpause, TokenTypeOK
  <1>5. ASSUME NEW c \in ControllerSlots, setMintController(c) \/ setBurnController(c)
        PROVE  TokenTypeOK'
    BY <1>5 DEF setMintController, setBurnController, TokenTypeOK
  <1> QED BY <1>2, <1>3, <1>4, <1>5 DEF TokenNext

LEMMA ExecuteKeepsToken ==
    ASSUME TokenTypeOK, MintInv, NEW id \in Allocations, executeMint(id)
    PROVE  /\ TokenTypeOK'
           /\ proposals[id].req \in MintRequest
           /\ ledger' = MintSplit(proposals[id].req)
           /\ ledger'.totalSupply = ledger.totalSupply + proposals[id].req.amount
           /\ \A w \in Wallets : w # proposals[id].req.to /\ w # feeRecipient =>
                 ledger'.balances[w] = ledger.balances[w]
  <1>1. /\ proposals[id].req \in MintRequest
        /\ ledger' = MintSplit(proposals[id].req)
        /\ UNCHANGED <<allowance, paused, mintController, burnController>>
    BY DEF executeMint, MintInv, ProposedHasRequest
  <1>2. /\ MintSplit(proposals[id].req) \in [balances : [Wallets -> Nat], totalSupply : Int]
        /\ MintSplit(proposals[id].req).totalSupply = ledger.totalSupply + proposals[id].req.amount
        /\ \A w \in Wallets : w # proposals[id].req.to /\ w # feeRecipient =>
              MintSplit(proposals[id].req).balances[w] = ledger.balances[w]
    BY <1>1, MintSplitIssuesGross DEF MintInv
  <1> QED BY <1>1, <1>2 DEF TokenTypeOK

\* A step that burns keeps the types and lowers one balance and the supply.
LEMMA BurnKeepsToken ==
    ASSUME TokenTypeOK, NEW from \in Wallets, NEW amount \in Nat,
           burnFrom(from, amount) \/ operatorBurnFrom(from, amount)
    PROVE  /\ TokenTypeOK'
           /\ ledger'.totalSupply = ledger.totalSupply - amount
           /\ ledger'.balances = [ledger.balances EXCEPT ![from] = @ - amount]
  <1>1. /\ ledger \in [balances : [Wallets -> Nat], totalSupply : Int]
        /\ ledger.balances[from] >= amount
        /\ ledger' = Burned(ledger, from, amount)
        /\ UNCHANGED <<paused, mintController, burnController>>
    BY DEF TokenTypeOK, burnFrom, operatorBurnFrom
  <1>2. /\ ledger' \in [balances : [Wallets -> Nat], totalSupply : Int]
        /\ ledger'.totalSupply = ledger.totalSupply - amount
        /\ ledger'.balances = [ledger.balances EXCEPT ![from] = @ - amount]
    BY <1>1, BurnedType
  <1>3. allowance' \in [Wallets -> Nat]
    BY DEF burnFrom, operatorBurnFrom, TokenTypeOK
  <1> QED BY <1>1, <1>2, <1>3 DEF TokenTypeOK

LEMMA BurnPreserves ==
    ASSUME BurnInv, TokenTypeOK, BurnNext
    PROVE  BurnInv' /\ TokenTypeOK'
  <1>1. ASSUME NEW req \in RedemptionRequest, requestRedemption(req)
        PROVE  BurnInv' /\ TokenTypeOK'
    <2>1. req.from \in Wallets /\ req.amount \in Nat
      BY BurnAssumption DEF RedemptionRequest
    <2>2. TokenTypeOK'
      BY <1>1, <2>1, BurnKeepsToken DEF requestRedemption
    <2> QED BY <1>1, <2>2 DEF requestRedemption, BurnInv, BurnTypeOK, SpentNonces, AuthorizationBurnsOnce
  <1>2. ASSUME NEW sig \in authorizations, operatorBurn(sig.from, sig.amount, sig)
        PROVE  BurnInv' /\ TokenTypeOK'
    <2>1. /\ sig \in Authorization /\ sig.from \in Wallets /\ sig.amount \in Nat
          /\ clawbacks \in Seq(Authorization)
          /\ opBurnNonces \in [Wallets -> Nat]
      BY BurnAssumption DEF BurnInv, BurnTypeOK, Authorization
    <2>2. TokenTypeOK'
      BY <1>2, <2>1, BurnKeepsToken DEF operatorBurn
    <2>3. /\ sig.nonce = opBurnNonces[sig.from]
          /\ clawbacks' = Append(clawbacks, sig)
          /\ opBurnNonces' = [opBurnNonces EXCEPT ![sig.from] = @ + 1]
          /\ UNCHANGED <<minPhysicalGrams, executed, authorizations>>
      BY <1>2 DEF operatorBurn
    <2>4. /\ clawbacks' \in Seq(Authorization)
          /\ DOMAIN clawbacks = 1..Len(clawbacks) /\ Len(clawbacks) \in Nat
          /\ DOMAIN clawbacks' = 1..(Len(clawbacks) + 1)
          /\ \A i \in 1..Len(clawbacks) : clawbacks'[i] = clawbacks[i]
          /\ clawbacks'[Len(clawbacks) + 1] = sig
      BY <2>1, <2>3, AppendEntries
    <2>5. \A i \in DOMAIN clawbacks' : i \in DOMAIN clawbacks \/ i = Len(clawbacks) + 1
      BY <2>4
    <2>6. \A i \in DOMAIN clawbacks : clawbacks[i].from \in Wallets /\ clawbacks[i].nonce \in Nat
      <3>1. \A i \in DOMAIN clawbacks : clawbacks[i] \in Authorization
        BY <2>1, LenProperties, ElementOfSeq
      <3> QED BY <3>1 DEF Authorization
    <2>7. BurnTypeOK'
      BY <2>1, <2>3, <2>4 DEF BurnInv, BurnTypeOK
    <2>8. SpentNonces'
      <3> SUFFICES ASSUME NEW i \in DOMAIN clawbacks'
                   PROVE  clawbacks'[i].nonce < opBurnNonces'[clawbacks'[i].from]
        BY DEF SpentNonces
      <3>1. CASE i \in DOMAIN clawbacks
        <4>1. /\ clawbacks'[i] = clawbacks[i] /\ clawbacks[i].from \in Wallets
              /\ clawbacks[i].nonce < opBurnNonces[clawbacks[i].from]
              /\ clawbacks[i].nonce \in Nat
          BY <2>4, <2>6, <3>1 DEF BurnInv, SpentNonces
        <4> QED BY <2>1, <2>3, <4>1
      <3>2. CASE i = Len(clawbacks) + 1
        BY <2>1, <2>3, <2>4, <3>2
      <3> QED BY <2>5, <3>1, <3>2
    <2>9. AuthorizationBurnsOnce'
      <3>1. \A i \in DOMAIN clawbacks : clawbacks[i] # sig
        BY <2>1, <2>3 DEF BurnInv, SpentNonces
      <3>2. \A i, j \in DOMAIN clawbacks : clawbacks[i] = clawbacks[j] => i = j
        BY DEF BurnInv, AuthorizationBurnsOnce
      <3>3. \A i, j \in DOMAIN clawbacks' : clawbacks'[i] = clawbacks'[j] => i = j
        BY <2>4, <2>5, <3>1, <3>2, Zenon
      <3> QED BY <3>3 DEF AuthorizationBurnsOnce
    <2> QED BY <2>2, <2>7, <2>8, <2>9 DEF BurnInv
  <1> QED BY <1>1, <1>2 DEF BurnNext

LEMMA BurnBookPreserves ==
    ASSUME BurnInv, BurnBookNext
    PROVE  BurnInv'
  <1>1. ASSUME NEW n \in PhysicalMinima, setMinPhysicalGrams(n)
        PROVE  BurnInv'
    BY <1>1, BurnAssumption
    DEF setMinPhysicalGrams, BurnInv, BurnTypeOK, SpentNonces, AuthorizationBurnsOnce
  <1>2. ASSUME NEW a \in AuthorizationInputs, SignAuthorization(a)
        PROVE  BurnInv'
    <2>1. a \in Authorization
      BY BurnAssumption, MaxTimeAssumption DEF AuthorizationInputs, Authorization
    <2> QED BY <1>2, <2>1
        DEF SignAuthorization, BurnInv, BurnTypeOK, SpentNonces, AuthorizationBurnsOnce
  <1> QED BY <1>1, <1>2 DEF BurnBookNext

-----------------------------------------------------------------------------
(* The whole *)

\* initialize() of the mint and of the burn controller.
LEMMA MintInitEstablishes ==
    ASSUME MintInit
    PROVE  MintInv
  <1>1. IsFiniteSet(InitialApprovers) /\ Cardinality(InitialApprovers) \in Nat
    BY MintAssumption, FS_Subset, FS_CardinalityType
  <1>2. NoProposal \in Proposal /\ NoVotes \in [ApproverAccounts -> MintRequest \cup {NoRequest}]
    BY DEF NoProposal, Proposal, NoVotes
  <1>3. MintTypeOK
    BY <1>1, <1>2, MintAssumption DEF MintInit, MintTypeOK
  <1>4. ApprovalBookkeeping
    BY DEF MintInit, ApprovalBookkeeping, NoProposal, Entries
  <1>5. ProposedHasRequest /\ VotesAreForTheRequest /\ MintQuorum /\ ApproverCountInSync
    BY DEF MintInit, ProposedHasRequest, VotesAreForTheRequest, MintQuorum,
           ApproverCountInSync, NoProposal
  <1>6. SingleUseAllocation
    BY DEF MintInit, SingleUseAllocation, NoProposal
  <1> QED BY <1>3, <1>4, <1>5, <1>6 DEF MintInv

LEMMA BurnInitEstablishes ==
    ASSUME BurnInit
    PROVE  BurnInv
  BY BurnAssumption DEF BurnInit, BurnInv, BurnTypeOK, SpentNonces, AuthorizationBurnsOnce

LEMMA InitEstablishes ==
    ASSUME Init
    PROVE  IInv
  <1>1. OracleInv
    BY OracleInitEstablishes DEF Init
  <1>2. RegistryTypeOK
    <2>1. RegistryInit /\ now = 1
      BY DEF Init, TimeInit
    <2>2. profiles \in [Wallets -> WalletProfile]
      <3> DEFINE Unwritten == [jurisdiction : Jurisdictions, kycExpiresAt : {0},
                               frozen : {FALSE}, sanctioned : {FALSE}]
      <3>1. Unwritten \subseteq WalletProfile
        <4>1. {0} \subseteq Nat /\ {FALSE} \subseteq BOOLEAN
          OBVIOUS
        <4>2. \A N, B : {0} \subseteq N /\ {FALSE} \subseteq B =>
                Unwritten \subseteq [jurisdiction : Jurisdictions, kycExpiresAt : N,
                                    frozen : B, sanctioned : B]
          OBVIOUS
        <4> QED BY <4>1, <4>2 DEF WalletProfile
      <3>2. profiles \in [Wallets -> Unwritten]
        BY <2>1 DEF RegistryInit
      <3> HIDE DEF Unwritten
      <3> QED BY <3>1, <3>2
    <2>3. travelRuleThreshold \in Nat
      BY <2>1, RegistryAssumption DEF RegistryInit
    <2> QED BY <2>1, <2>2, <2>3 DEF RegistryInit, RegistryTypeOK
  <1>3. TokenTypeOK
    <2>1. TokenInit
      BY DEF Init
    <2>2. ledger \in [balances : [Wallets -> Nat], totalSupply : Int]
      BY <2>1 DEF TokenInit
    <2>3. allowance \in [Wallets -> Nat]
      BY <2>1 DEF TokenInit
    <2>4. paused \in BOOLEAN /\ mintController \in ControllerSlots /\ burnController \in ControllerSlots
      BY <2>1 DEF TokenInit, ControllerSlots
    <2> QED BY <2>2, <2>3, <2>4 DEF TokenTypeOK
  <1>4. MintInv
    BY MintInitEstablishes DEF Init
  <1>5. BurnInv
    BY BurnInitEstablishes DEF Init
  <1> QED BY <1>1, <1>2, <1>3, <1>4, <1>5 DEF IInv

\* What a step leaves alone stays as the invariant wants it.
LEMMA OthersUntouched ==
    ASSUME IInv
    PROVE  /\ UNCHANGED <<now, oracleVars>> => OracleInv'
           /\ UNCHANGED <<now, registryVars>> => RegistryTypeOK'
           /\ UNCHANGED tokenVars => TokenTypeOK'
           /\ UNCHANGED mintVars => MintInv'
           /\ UNCHANGED burnVars => BurnInv'
  <1>1. UNCHANGED <<now, oracleVars>> => OracleInv'
    BY DEF IInv, OracleInv, OracleTypeOK, AttestationMonotonicity, AuditorQuorum,
           AuditorCountInSync, oracleVars
  <1>2. UNCHANGED <<now, registryVars>> => RegistryTypeOK'
    BY DEF IInv, RegistryTypeOK, registryVars
  <1>3. UNCHANGED tokenVars => TokenTypeOK'
    BY DEF IInv, TokenTypeOK, tokenVars
  <1>4. UNCHANGED mintVars => MintInv'
    BY MintUntouched DEF IInv
  <1>5. UNCHANGED burnVars => BurnInv'
    BY DEF IInv, BurnInv, BurnTypeOK, SpentNonces, AuthorizationBurnsOnce, burnVars
  <1> QED BY <1>1, <1>2, <1>3, <1>4, <1>5

LEMMA NextPreserves ==
    ASSUME IInv, [Next]_vars
    PROVE  IInv'
  <1>0. now \in Nat
    BY DEF IInv, RegistryTypeOK
  <1>1. CASE OracleStep
    <2>1. OracleInv'
      BY <1>1, OracleNextPreserves DEF OracleStep, IInv
    <2> QED BY <1>1, <2>1, OthersUntouched DEF OracleStep, IInv
  <1>2. CASE RegistryStep
    <2>1. RegistryTypeOK'
      BY <1>2, RegistryPreserves DEF RegistryStep, IInv
    <2> QED BY <1>2, <2>1, OthersUntouched DEF RegistryStep, IInv
  <1>3. CASE TokenStep
    <2>1. TokenTypeOK'
      BY <1>3, TokenPreserves DEF TokenStep, IInv
    <2> QED BY <1>3, <2>1, OthersUntouched DEF TokenStep, IInv
  <1>4. CASE MintBookStep
    <2>1. MintInv'
      BY <1>0, <1>4, MintBookPreserves DEF MintBookStep, IInv
    <2> QED BY <1>4, <2>1, OthersUntouched DEF MintBookStep, IInv
  <1>5. ASSUME NEW id \in Allocations, ExecuteStep(id)
        PROVE  IInv'
    <2>1. MintInv' /\ TokenTypeOK'
      BY <1>0, <1>5, ExecutePreserves, ExecuteKeepsToken DEF ExecuteStep, IInv
    <2> QED BY <1>5, <2>1, OthersUntouched DEF ExecuteStep, IInv
  <1>6. CASE BurnBookStep
    <2>1. BurnInv'
      BY <1>6, BurnBookPreserves DEF BurnBookStep, IInv
    <2> QED BY <1>6, <2>1, OthersUntouched DEF BurnBookStep, IInv
  <1>7. CASE BurnStep
    <2>1. BurnInv' /\ TokenTypeOK'
      BY <1>7, BurnPreserves DEF BurnStep, IInv
    <2> QED BY <1>7, <2>1, OthersUntouched DEF BurnStep, IInv
  <1>8. CASE TickStep
    <2>1. OracleInv'
      BY <1>8, OracleTickPreserves DEF TickStep, IInv
    <2>2. RegistryTypeOK'
      BY <1>8 DEF TickStep, Tick, IInv, RegistryTypeOK, registryVars
    <2> QED BY <1>8, <2>1, <2>2, OthersUntouched DEF TickStep, IInv
  <1>9. CASE UNCHANGED vars
    BY <1>9, OthersUntouched DEF vars, IInv
  <1> QED BY <1>1, <1>2, <1>3, <1>4, <1>5, <1>6, <1>7, <1>8, <1>9 DEF Next

\* The inductive invariant holds in every reachable state.
THEOREM Invariant == Spec => []IInv
  BY InitEstablishes, NextPreserves, PTL DEF Spec

\* Type correctness of all five contracts: in particular no balance and no
\* counter ever goes negative, for any number of wallets and any amounts.
THEOREM TypesHold == Spec => []TypeOK
  <1>1. IInv => TypeOK
    BY DEF IInv, TypeOK, OracleInv, MintInv, BurnInv
  <1> QED BY <1>1, Invariant, PTL

\* approveMint's list and flags agree for every set of approvers, through any
\* number of proposals, cancellations and proposals again.
THEOREM BookkeepingHolds == Spec => []ApprovalBookkeeping
  BY Invariant, PTL DEF IInv, MintInv

\* No vote is ever counted for a request other than the one it was cast on.
THEOREM VotesHold == Spec => []VotesAreForTheRequest
  BY Invariant, PTL DEF IInv, MintInv

\* INV-6 for every threshold and every set of approvers.
THEOREM MintQuorumHolds == Spec => []MintQuorum
  BY Invariant, PTL DEF IInv, MintInv

\* INV-2 for every set of allocations.
THEOREM SingleUseHolds == Spec => []SingleUseAllocation
  BY Invariant, PTL DEF IInv, MintInv

\* Both role counters equal the size of their roles, whoever changed the roles.
THEOREM RoleCountsHold == Spec => []RoleCountsInSync
  <1>1. IInv => RoleCountsInSync
    BY DEF IInv, OracleInv, MintInv, RoleCountsInSync
  <1> QED BY <1>1, Invariant, PTL

\* No clawback authorization burns twice, whatever officers sign and retry.
THEOREM BurnsOnceHolds == Spec => []AuthorizationBurnsOnce
  BY Invariant, PTL DEF IInv, BurnInv

-----------------------------------------------------------------------------
(* What one step does to the ledger *)

\* The steps that move tokens; every other leaves the ledger and the histories.
LEMMA QuietSteps ==
    ASSUME [Next]_vars, ~TokenStep, ~\E id \in Allocations : ExecuteStep(id), ~BurnStep
    PROVE  /\ UNCHANGED <<ledger, mintLog, executed, clawbacks>>
           /\ OracleStep \/ UNCHANGED attestations
  <1>1. CASE OracleStep
    BY <1>1 DEF OracleStep, tokenVars, mintVars, burnVars
  <1>2. CASE RegistryStep
    BY <1>2 DEF RegistryStep, tokenVars, oracleVars, mintVars, burnVars
  <1>3. CASE MintBookStep
    BY <1>3 DEF MintBookStep, tokenVars, oracleVars, burnVars, MintBookNext, proposeMint,
                approveMint, cancelMint, setRateLimit, MintConfigNext
  <1>4. CASE BurnBookStep
    BY <1>4 DEF BurnBookStep, tokenVars, oracleVars, mintVars, BurnBookNext,
                setMinPhysicalGrams, SignAuthorization
  <1>5. CASE TickStep
    BY <1>5 DEF TickStep, tokenVars, oracleVars, mintVars, burnVars
  <1>6. CASE UNCHANGED vars
    BY <1>6 DEF vars, tokenVars, oracleVars, mintVars, burnVars
  <1> QED BY <1>1, <1>2, <1>3, <1>4, <1>5, <1>6 DEF Next

\* A transaction sent to the token moves tokens between cleared wallets at most.
LEMMA TokenStepMoves ==
    ASSUME IInv, TokenStep
    PROVE  /\ UNCHANGED <<attestations, mintLog, clawbacks>>
           /\ ledger'.totalSupply = ledger.totalSupply
           /\ \/ ledger' = ledger
              \/ /\ ~paused
                 /\ \E from, to \in Wallets :
                       /\ ~Restricted(from) /\ ~Restricted(to) /\ isKycValid(to)
                       /\ \A w \in Wallets :
                             /\ w # from /\ w # to => ledger'.balances[w] = ledger.balances[w]
                             /\ w # to => ledger'.balances[w] <= ledger.balances[w]
  <1>1. UNCHANGED <<attestations, mintLog, clawbacks>>
    BY DEF TokenStep, oracleVars, mintVars, burnVars
  <1>2. CASE ledger' = ledger
    BY <1>1, <1>2
  <1>3. CASE ledger' # ledger
    <2>1. PICK from \in Wallets, to \in Wallets, amount \in TransferAmounts : Transfer(from, to, amount)
      BY <1>3 DEF TokenStep, TokenNext, Approve, pause, unpause, setMintController, setBurnController
    <2>2. /\ ledger \in [balances : [Wallets -> Nat], totalSupply : Int]
          /\ amount \in Nat /\ ledger.balances[from] >= amount
          /\ ledger' = Transferred(ledger, from, to, amount)
      BY <2>1, RegistryAssumption DEF IInv, TokenTypeOK, Transfer
    <2>3. /\ ledger'.totalSupply = ledger.totalSupply
          /\ ledger'.balances =
               [[ledger.balances EXCEPT ![from] = @ - amount] EXCEPT ![to] = @ + amount]
      BY <2>2, TransferredType
    <2>4. ledger.balances \in [Wallets -> Nat]
      BY <2>2
    <2>5. \A w \in Wallets :
             /\ w # from /\ w # to => ledger'.balances[w] = ledger.balances[w]
             /\ w # to => ledger'.balances[w] <= ledger.balances[w]
      BY <2>2, <2>3, <2>4
    <2>6. ~paused /\ ~Restricted(from) /\ ~Restricted(to) /\ isKycValid(to)
      BY <2>1 DEF Transfer, canTransfer
    <2> QED BY <1>1, <2>3, <2>5, <2>6
  <1> QED BY <1>2, <1>3

\* An executed mint: what its gates have established, and whom it credits.
LEMMA ExecuteStepMoves ==
    ASSUME IInv, NEW id \in Allocations, ExecuteStep(id)
    PROVE  /\ UNCHANGED <<now, attestations, clawbacks>>
           /\ mintLog' # mintLog
           /\ ~paused
           /\ TimeSinceLatestWithin(maxReserveAge)
           /\ ledger'.totalSupply <= latestAttestedGrams
           /\ \E to \in Wallets :
                 /\ ~Restricted(to) /\ isKycValid(to)
                 /\ \A w \in Wallets : w # to /\ w # feeRecipient =>
                       ledger'.balances[w] = ledger.balances[w]
  <1> DEFINE req == proposals[id].req
  <1>1. executeMint(id) /\ UNCHANGED <<now, attestations, clawbacks>>
    BY DEF ExecuteStep, oracleVars, burnVars
  <1>2. /\ req \in MintRequest
        /\ ledger'.totalSupply = ledger.totalSupply + req.amount
        /\ \A w \in Wallets : w # req.to /\ w # feeRecipient =>
              ledger'.balances[w] = ledger.balances[w]
    BY <1>1, ExecuteKeepsToken DEF IInv
  <1>3. /\ ~paused /\ TimeSinceLatestWithin(maxReserveAge)
        /\ ledger.totalSupply + req.amount <= latestAttestedGrams
        /\ ~Restricted(req.to) /\ isKycValid(req.to)
    BY <1>1 DEF executeMint, CanMintTokens, ReserveHeadroom, canMint
  <1>4. mintLog' # mintLog
    <2>1. PICK m : mintLog' = Append(mintLog, m)
      BY <1>1 DEF executeMint
    <2>2. mintLog \in Seq(ExecutedMint)
      BY DEF IInv, MintInv, MintTypeOK
    <2>3. Len(mintLog) \in Nat /\ Len(Append(mintLog, m)) = Len(mintLog) + 1
      BY <2>2, AppendProperties, LenProperties
    <2> QED BY <2>1, <2>3
  <1>5. req.to \in Wallets
    BY <1>2 DEF MintRequest
  <1> HIDE DEF req
  <1> QED BY <1>1, <1>2, <1>3, <1>4, <1>5

\* A burn takes from one wallet: a redemption from a wallet in good standing
\* while the token runs, a clawback from a restricted one.
LEMMA BurnStepMoves ==
    ASSUME IInv, BurnStep
    PROVE  /\ UNCHANGED <<attestations, mintLog>>
           /\ ledger'.totalSupply <= ledger.totalSupply
           /\ \E from \in Wallets :
                 /\ ledger'.balances[from] < ledger.balances[from]
                 /\ \A w \in Wallets \ {from} : ledger'.balances[w] = ledger.balances[w]
                 /\ \/ ~paused /\ ~Restricted(from) /\ clawbacks' = clawbacks
                    \/ /\ Restricted(from) /\ clawbacks' # clawbacks
                       /\ clawbacks'[Len(clawbacks')].from = from
  <1>0. /\ UNCHANGED <<attestations, mintLog>>
        /\ TokenTypeOK
        /\ ledger.balances \in [Wallets -> Nat] /\ ledger.totalSupply \in Int
    BY DEF BurnStep, oracleVars, mintVars, IInv, TokenTypeOK
  <1>1. ASSUME NEW req \in RedemptionRequest, requestRedemption(req)
        PROVE  /\ ledger'.totalSupply <= ledger.totalSupply
               /\ req.from \in Wallets
               /\ ledger'.balances[req.from] < ledger.balances[req.from]
               /\ \A w \in Wallets \ {req.from} : ledger'.balances[w] = ledger.balances[w]
               /\ ~paused /\ ~Restricted(req.from) /\ clawbacks' = clawbacks
    <2>1. req.from \in Wallets /\ req.amount \in Nat
      BY BurnAssumption DEF RedemptionRequest
    <2>2. /\ ~paused /\ ~Restricted(req.from) /\ clawbacks' = clawbacks
          /\ req.amount # 0 /\ burnFrom(req.from, req.amount)
      BY <1>1 DEF requestRedemption, canBurn, burnFrom
    <2>3. /\ ledger'.totalSupply = ledger.totalSupply - req.amount
          /\ ledger'.balances = [ledger.balances EXCEPT ![req.from] = @ - req.amount]
      BY <1>0, <2>1, <2>2, BurnKeepsToken
    <2> QED BY <1>0, <2>1, <2>2, <2>3
  <1>2. ASSUME NEW sig \in authorizations, operatorBurn(sig.from, sig.amount, sig)
        PROVE  /\ ledger'.totalSupply <= ledger.totalSupply
               /\ sig.from \in Wallets
               /\ ledger'.balances[sig.from] < ledger.balances[sig.from]
               /\ \A w \in Wallets \ {sig.from} : ledger'.balances[w] = ledger.balances[w]
               /\ Restricted(sig.from) /\ clawbacks' # clawbacks
               /\ clawbacks'[Len(clawbacks')].from = sig.from
    <2>1. /\ sig \in Authorization /\ sig.from \in Wallets /\ sig.amount \in Nat
          /\ clawbacks \in Seq(Authorization)
      BY BurnAssumption DEF IInv, BurnInv, BurnTypeOK, Authorization
    <2>2. /\ Restricted(sig.from) /\ sig.amount # 0
          /\ operatorBurnFrom(sig.from, sig.amount) /\ clawbacks' = Append(clawbacks, sig)
      BY <1>2 DEF operatorBurn
    <2>3. /\ ledger'.totalSupply = ledger.totalSupply - sig.amount
          /\ ledger'.balances = [ledger.balances EXCEPT ![sig.from] = @ - sig.amount]
      BY <1>0, <2>1, <2>2, BurnKeepsToken
    <2>4. /\ Len(clawbacks) \in Nat /\ Len(clawbacks') = Len(clawbacks) + 1
          /\ clawbacks'[Len(clawbacks')] = sig
      BY <2>1, <2>2, AppendProperties, LenProperties
    <2>5. clawbacks' # clawbacks
      BY <2>4
    <2> QED BY <1>0, <2>1, <2>2, <2>3, <2>4, <2>5
  <1> QED BY <1>0, <1>1, <1>2 DEF BurnStep, BurnNext

\* No step changes the ledger but the three kinds above.
LEMMA LedgerMovers ==
    ASSUME [Next]_vars, ledger' # ledger
    PROVE  TokenStep \/ (\E id \in Allocations : ExecuteStep(id)) \/ BurnStep
  BY QuietSteps

\* The attested reserve is a natural number in every state.
LEMMA AttestedIsNat ==
    ASSUME NEW s \in Seq(Attestation), s # <<>>
    PROVE  s[Len(s)].totalGrams \in Nat
  <1>1. Len(s) \in 1..Len(s)
    BY LenProperties, EmptySeq
  <1>2. s[Len(s)] \in Attestation
    BY <1>1, ElementOfSeq
  <1> QED BY <1>2, OracleAssumption DEF Attestation

-----------------------------------------------------------------------------
(* The action properties *)

\* INV-1 at the moment of issue, for all amounts, fees, ages and histories: a
\* step that raises the supply leaves it within a fresh enough attestation.
THEOREM MintWithinReserveHolds == Spec => [][MintWithinReserve]_vars
  <1>1. IInv /\ [Next]_vars => [MintWithinReserve]_vars
    <2> SUFFICES ASSUME IInv, [Next]_vars, ledger'.totalSupply > ledger.totalSupply
                 PROVE  Solvent' /\ TimeSinceLatestWithin(maxReserveAge)
      BY DEF MintWithinReserve
    <2>1. ledger.totalSupply \in Int /\ ledger'.totalSupply \in Int
      <3>1. IInv'
        BY NextPreserves
      <3> QED BY <3>1 DEF IInv, TokenTypeOK
    <2>2. ledger' # ledger /\ ledger'.totalSupply # ledger.totalSupply
      BY <2>1
    <2>3. ~TokenStep
      BY <2>2, TokenStepMoves
    <2>4. ~BurnStep
      BY <2>1, BurnStepMoves
    <2>5. PICK id \in Allocations : ExecuteStep(id)
      BY <2>2, <2>3, <2>4, LedgerMovers
    <2>6. UNCHANGED attestations /\ TimeSinceLatestWithin(maxReserveAge)
          /\ ledger'.totalSupply <= latestAttestedGrams
      BY <2>5, ExecuteStepMoves
    <2> QED BY <2>6 DEF Solvent, latestAttestedGrams, latest
  <1> QED BY <1>1, Invariant, PTL DEF Spec

\* INV-1 is lost in one way only, to an audit that finds less gold.
THEOREM SolvencyLossHolds == Spec => [][SolvencyLostOnlyByAudit]_vars
  <1>1. IInv /\ [Next]_vars => [SolvencyLostOnlyByAudit]_vars
    <2> SUFFICES ASSUME IInv, [Next]_vars, Solvent, ~Solvent'
                 PROVE  /\ attestations' # attestations
                        /\ latestAttestedGrams' < latestAttestedGrams
                        /\ ledger' = ledger
      BY DEF SolvencyLostOnlyByAudit
    <2>1. IInv'
      BY NextPreserves
    <2>2. ledger.totalSupply \in Int /\ ledger'.totalSupply \in Int
      BY <2>1 DEF IInv, TokenTypeOK
    <2>3. /\ latestAttestedGrams = IF attestations = <<>> THEN 0 ELSE attestations[Len(attestations)].totalGrams
          /\ latestAttestedGrams' = IF attestations' = <<>> THEN 0 ELSE attestations'[Len(attestations')].totalGrams
      BY DEF latestAttestedGrams, latest
    <2>4. latestAttestedGrams \in Nat /\ latestAttestedGrams' \in Nat
      <3>1. attestations \in Seq(Attestation) /\ attestations' \in Seq(Attestation)
        BY <2>1 DEF IInv, OracleInv, OracleTypeOK
      <3> QED BY <2>3, <3>1, AttestedIsNat
    <2>5. UNCHANGED attestations => latestAttestedGrams' = latestAttestedGrams
      BY <2>3
    <2>6. /\ ledger.totalSupply <= latestAttestedGrams
          /\ ~(ledger'.totalSupply <= latestAttestedGrams')
      BY DEF Solvent
    <2>7. ~TokenStep
      BY <2>5, <2>6, TokenStepMoves
    <2>8. ~BurnStep
      BY <2>2, <2>4, <2>5, <2>6, BurnStepMoves
    <2>9. ~\E id \in Allocations : ExecuteStep(id)
      BY <2>5, <2>6, ExecuteStepMoves
    <2>10. ledger' = ledger
      BY <2>7, <2>8, <2>9, LedgerMovers
    <2>11. latestAttestedGrams' < latestAttestedGrams
      BY <2>2, <2>4, <2>6, <2>10
    <2> QED BY <2>4, <2>5, <2>10, <2>11
  <1> QED BY <1>1, Invariant, PTL DEF Spec

\* For any wallets and histories, a restricted balance falls only to a clawback
\* and rises only by a fee.
THEOREM RestrictedBalanceHolds == Spec => [][RestrictedBalanceIsHeld]_vars
  <1>1. IInv /\ [Next]_vars => [RestrictedBalanceIsHeld]_vars
    <2> SUFFICES ASSUME IInv, [Next]_vars, NEW w \in Wallets,
                        Restricted(w), ledger'.balances[w] # ledger.balances[w]
                 PROVE  \/ clawbacks' # clawbacks /\ ledger'.balances[w] < ledger.balances[w]
                        \/ mintLog' # mintLog /\ w = feeRecipient
      BY DEF RestrictedBalanceIsHeld
    <2>1. CASE TokenStep
      BY <2>1, TokenStepMoves
    <2>2. CASE \E id \in Allocations : ExecuteStep(id)
      BY <2>2, ExecuteStepMoves
    <2>3. CASE BurnStep
      BY <2>3, BurnStepMoves
    <2> QED BY <2>1, <2>2, <2>3, LedgerMovers
  <1> QED BY <1>1, Invariant, PTL DEF Spec

\* The recipient is cleared when the tokens arrive, not when the mint was asked for.
THEOREM ReceiversHold == Spec => [][ReceiversAreCleared]_vars
  <1>1. IInv /\ [Next]_vars => [ReceiversAreCleared]_vars
    <2> SUFFICES ASSUME IInv, [Next]_vars, NEW w \in Wallets,
                        ledger'.balances[w] > ledger.balances[w]
                 PROVE  \/ isKycValid(w) /\ ~Restricted(w)
                        \/ mintLog' # mintLog /\ w = feeRecipient
      BY DEF ReceiversAreCleared
    <2>1. ledger.balances[w] \in Nat /\ ledger'.balances[w] \in Nat
      <3>1. IInv'
        BY NextPreserves
      <3> QED BY <3>1 DEF IInv, TokenTypeOK
    <2>2. ledger' # ledger /\ ledger'.balances[w] # ledger.balances[w]
      BY <2>1
    <2>3. CASE TokenStep
      BY <2>1, <2>2, <2>3, TokenStepMoves
    <2>4. CASE \E id \in Allocations : ExecuteStep(id)
      BY <2>2, <2>4, ExecuteStepMoves
    <2>5. CASE BurnStep
      BY <2>1, <2>2, <2>5, BurnStepMoves
    <2> QED BY <2>2, <2>3, <2>4, <2>5, LedgerMovers
  <1> QED BY <1>1, Invariant, PTL DEF Spec

\* While the token is paused nothing but a clawback moves a single token.
THEOREM PauseHoldsAlways == Spec => [][PauseHolds]_vars
  <1>1. IInv /\ [Next]_vars => [PauseHolds]_vars
    <2> SUFFICES ASSUME IInv, [Next]_vars, paused, ledger' # ledger
                 PROVE  clawbacks' # clawbacks
      BY DEF PauseHolds
    <2>1. ~TokenStep
      BY TokenStepMoves
    <2>2. ~\E id \in Allocations : ExecuteStep(id)
      BY ExecuteStepMoves
    <2>3. BurnStep
      BY <2>1, <2>2, LedgerMovers
    <2> QED BY <2>3, BurnStepMoves
  <1> QED BY <1>1, Invariant, PTL DEF Spec

\* Mints are covered and cover is lost to audits only, for any amounts and ages.
THEOREM ReserveHolds == Spec => ReserveBacksTheSupply
  <1>1. [MintWithinReserve]_vars /\ [SolvencyLostOnlyByAudit]_vars
        => [MintWithinReserve /\ SolvencyLostOnlyByAudit]_vars
    OBVIOUS
  <1> QED BY <1>1, MintWithinReserveHolds, SolvencyLossHolds, PTL DEF ReserveBacksTheSupply

\* No path around the registry or the pause switch, for any wallets and profiles.
THEOREM MovementsHold == Spec => MovementsComply
  <1>1. [RestrictedBalanceIsHeld]_vars /\ [ReceiversAreCleared]_vars /\ [PauseHolds]_vars
        => [RestrictedBalanceIsHeld /\ ReceiversAreCleared /\ PauseHolds]_vars
    OBVIOUS
  <1> QED BY <1>1, RestrictedBalanceHolds, ReceiversHold, PauseHoldsAlways, PTL
          DEF MovementsComply

\* The oracle behaves in the deployed system as it does alone: no transaction of
\* the other four contracts touches its history, its auditors or its thresholds,
\* so what ReserveOracle_proofs shows of OracleSpec holds here.
THEOREM OracleUndisturbed == Spec => OracleSpec
  <1>1. Init => TimeInit /\ OracleInit
    BY DEF Init
  <1>2. [Next]_vars => [OracleChainNext]_chainVars
    <2> SUFFICES ASSUME [Next]_vars PROVE [OracleChainNext]_chainVars
      OBVIOUS
    <2>1. CASE OracleStep
      BY <2>1 DEF OracleStep, OracleChainNext
    <2>2. CASE TickStep
      BY <2>2 DEF TickStep, OracleChainNext
    <2>3. ASSUME UNCHANGED <<now, oracleVars>> PROVE UNCHANGED chainVars
      BY <2>3 DEF chainVars
    <2>4. CASE RegistryStep \/ TokenStep \/ MintBookStep \/ BurnBookStep \/ BurnStep
               \/ \E id \in Allocations : ExecuteStep(id)
      BY <2>3, <2>4 DEF RegistryStep, TokenStep, MintBookStep, BurnBookStep, BurnStep, ExecuteStep
    <2>5. CASE UNCHANGED vars
      BY <2>3, <2>5 DEF vars
    <2> QED BY <2>1, <2>2, <2>4, <2>5 DEF Next
  <1> QED BY <1>1, <1>2, PTL DEF Spec, OracleSpec

-----------------------------------------------------------------------------
(* Refinement: what the mint service relies on *)

\* How the mint controller's steps look from outside.
LEMMA ProposalStepsMap ==
    ASSUME IInv, NEW id \in Allocations
    PROVE  /\ \A c, req : proposeMint(c, id, req) => Proposals!Propose(id)
           /\ \A c \in ApproverAccounts : approveMint(c, id) => Proposals!Approve(id)
           /\ \A c : cancelMint(c, id) => Proposals!Cancel(id)
           /\ executeMint(id) => Proposals!Execute(id)
  <1>1. /\ proposals \in [Allocations -> Proposal]
        /\ approvalThreshold \in Nat \ {0}
        /\ proposals[id].approvers \in Seq(ApproverAccounts)
    BY DEF IInv, MintInv, MintTypeOK, Proposal
  <1>2. Len(proposals[id].approvers) \in Nat /\ Len(<<>>) = 0
    BY <1>1, LenProperties, EmptySeq
  <1>3. ASSUME NEW c, NEW req, proposeMint(c, id, req)
        PROVE  Proposals!Propose(id)
    <2>1. proposals[id].status # "EXECUTED"
      BY <1>3 DEF proposeMint, IInv, MintInv, SingleUseAllocation
    <2>2. proposals' = [proposals EXCEPT ![id] =
            [status |-> "PROPOSED", req |-> req, proposer |-> c, approvers |-> <<>>]]
      BY <1>3 DEF proposeMint
    <2>3. getProposal' = [getProposal EXCEPT ![id] = [status |-> "PROPOSED", approvals |-> 0]]
      BY <1>1, <1>2, <2>2 DEF getProposal
    <2>4. getProposal[id].status # "EXECUTED"
      BY <2>1 DEF getProposal
    <2> QED BY <2>3, <2>4 DEF Proposals!Propose
  <1>4. ASSUME NEW c \in ApproverAccounts, approveMint(c, id)
        PROVE  Proposals!Approve(id)
    <2>1. /\ proposals[id].status = "PROPOSED"
          /\ proposals' = [proposals EXCEPT ![id].approvers = Append(@, c)]
      BY <1>4 DEF approveMint
    <2>2. Len(Append(proposals[id].approvers, c)) = Len(proposals[id].approvers) + 1
      BY <1>1, AppendProperties
    <2>3. getProposal' = [getProposal EXCEPT ![id].approvals = @ + 1]
      BY <1>1, <1>2, <2>1, <2>2 DEF getProposal, Proposal
    <2> QED BY <2>1, <2>3 DEF Proposals!Approve, getProposal
  <1>5. ASSUME NEW c, cancelMint(c, id)
        PROVE  Proposals!Cancel(id)
    <2>1. /\ proposals[id].status = "PROPOSED"
          /\ proposals' = [proposals EXCEPT ![id].status = "CANCELLED"]
      BY <1>5 DEF cancelMint
    <2>2. getProposal' = [getProposal EXCEPT ![id].status = "CANCELLED"]
      BY <1>1, <2>1 DEF getProposal, Proposal
    <2> QED BY <2>1, <2>2 DEF Proposals!Cancel, getProposal
  <1>6. ASSUME executeMint(id)
        PROVE  Proposals!Execute(id)
    <2>1. /\ proposals[id].status = "PROPOSED"
          /\ Len(proposals[id].approvers) >= approvalThreshold
          /\ proposals' = [proposals EXCEPT ![id].status = "EXECUTED"]
      BY <1>6 DEF executeMint
    <2>2. getProposal' = [getProposal EXCEPT ![id].status = "EXECUTED"]
      BY <1>1, <2>1 DEF getProposal, Proposal
    <2>3. getProposal[id].approvals > 0
      BY <1>1, <1>2, <2>1 DEF getProposal
    <2> QED BY <2>1, <2>2, <2>3 DEF Proposals!Execute, getProposal
  <1> QED BY <1>3, <1>4, <1>5, <1>6

\* The five contracts implement MintProposals, for every threshold and however it
\* is moved: every transaction is one of its four steps or changes nothing of it.
THEOREM ProposalsImplemented == Spec => ImplementsProposals
  <1>1. Init => Proposals!ProposalsInit
    BY EmptySeq DEF Init, MintInit, NoProposal, Proposals!ProposalsInit, getProposal
  <1>2. IInv /\ [Next]_vars => [Proposals!ProposalsNext]_getProposal
    <2> SUFFICES ASSUME IInv, [Next]_vars
                 PROVE  Proposals!ProposalsNext \/ UNCHANGED getProposal
      OBVIOUS
    <2>1. UNCHANGED proposals => UNCHANGED getProposal
      BY DEF getProposal
    <2>2. CASE MintBookStep
      <3>1. \/ \E id \in Allocations :
                  \/ \E c, req : proposeMint(c, id, req)
                  \/ \E c \in ApproverAccounts : approveMint(c, id)
                  \/ \E c : cancelMint(c, id)
            \/ UNCHANGED proposals
        BY <2>2 DEF MintBookStep, MintBookNext, setRateLimit, MintConfigNext
      <3> QED BY <2>1, <3>1, ProposalStepsMap DEF Proposals!ProposalsNext
    <2>3. ASSUME NEW id \in Allocations, ExecuteStep(id)
          PROVE  Proposals!ProposalsNext
      BY <2>3, ProposalStepsMap DEF ExecuteStep, Proposals!ProposalsNext
    <2>4. CASE OracleStep \/ RegistryStep \/ TokenStep \/ BurnBookStep \/ BurnStep \/ TickStep
               \/ UNCHANGED vars
      BY <2>1, <2>4 DEF OracleStep, RegistryStep, TokenStep, BurnBookStep, BurnStep, TickStep,
                        vars, mintVars
    <2> QED BY <2>2, <2>3, <2>4 DEF Next
  <1> QED BY <1>1, <1>2, Invariant, PTL DEF Spec, ImplementsProposals, Proposals!ProposalsSpec
=============================================================================
