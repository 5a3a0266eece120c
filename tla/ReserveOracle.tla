--------------------------- MODULE ReserveOracle ---------------------------
(***************************************************************************)
(* contracts/src/ReserveOracle.sol: the append-only record of reserve      *)
(* attestations.  MintController gates every mint on its latest entry.     *)
(*                                                                         *)
(* Abstracted: a signature list is the sequence of accounts ECDSA.recover  *)
(* yields for it (the digest binds every field of the attestation), and an *)
(* attestation carries the fields the contract decides on; the Merkle root *)
(* and the IPFS CID are carried along unread.                              *)
(***************************************************************************)
EXTENDS BlockTime, Sequences, FiniteSets

CONSTANTS
    AuditorAccounts,   \* accounts that may ever hold AUDITOR_ROLE
    InitialAuditors,   \* the constructor's initialAuditors
    AttestedGrams,     \* values of totalGrams an audit may report
    GrowthCaps,        \* values TREASURY_ROLE may pass to setMaxGrowthBps
    MaxSignatures,     \* bound on the length of a signature list
    MaxAttestations    \* bound on the length of the history

ASSUME OracleAssumption ==
    /\ IsFiniteSet(AuditorAccounts)
    /\ InitialAuditors \subseteq AuditorAccounts
    /\ AttestedGrams \subseteq Nat
    /\ GrowthCaps \subseteq Nat
    /\ MaxSignatures \in Nat
    /\ MaxAttestations \in Nat

VARIABLES
    attestations,        \* _attestations
    auditors,            \* holders of AUDITOR_ROLE
    auditorCount,        \* _auditorCount
    signatureThreshold,  \* _signatureThreshold
    maxGrowthBps,        \* _maxGrowthBps
    quorums              \* history: per attestation, who vouched for it and how many had to

oracleVars ==
    <<attestations, auditors, auditorCount, signatureThreshold, maxGrowthBps, quorums>>

ClockTolerance == 1              \* "1 hours"
DEFAULT_SIGNATURE_THRESHOLD == 2
DEFAULT_MAX_GROWTH_BPS == 5000

Attestation ==
    [timestamp : Nat, asOf : Nat, totalGrams : AttestedGrams, auditor : AuditorAccounts]

\* What the model checker lets an auditor put into the two dates.
AttestationInputs ==
    [timestamp : 1..(MaxTime + ClockTolerance + 1), asOf : 1..(MaxTime + 1),
     totalGrams : AttestedGrams, auditor : AuditorAccounts]

SignerLists == UNION {[1..k -> AuditorAccounts] : k \in 0..MaxSignatures}

Signers(s) == {s[i] : i \in DOMAIN s}

-----------------------------------------------------------------------------
(* Views *)

latest == attestations[Len(attestations)]

latestAttestedGrams == IF attestations = <<>> THEN 0 ELSE latest.totalGrams

\* timeSinceLatest() <= age.  With no attestation the contract answers
\* type(uint256).max, which no configured age reaches.
TimeSinceLatestWithin(age) ==
    /\ attestations # <<>>
    /\ (IF now > latest.timestamp THEN now - latest.timestamp ELSE 0) <= age

-----------------------------------------------------------------------------
(* Plausible slips in the operations below; the mutation runs put each in   *)
(* the place of the operator its name starts with.                          *)

GrantAuditorAlwaysCounts(a) ==
    auditors' = auditors \cup {a} /\ auditorCount' = auditorCount + 1

ValidSignaturesNoDuplicateCheck(a, s) ==
    /\ signatureThreshold # 0
    /\ Len(s) >= signatureThreshold
    /\ Signers(s) \subseteq auditors
    /\ a.auditor \in Signers(s)

ValidDatesAsOfUnordered(a) ==
    /\ attestations # <<>> => a.timestamp > latest.timestamp
    /\ a.timestamp <= now + ClockTolerance
    /\ a.asOf <= now

GrowthAllowedFromZero(a) ==
    attestations # <<>> /\ latest.totalGrams > 0 /\ a.totalGrams > latest.totalGrams =>
        a.totalGrams <= latest.totalGrams + (latest.totalGrams * maxGrowthBps) \div 10000

-----------------------------------------------------------------------------
(* Role hooks: the counter moves only when the membership does. *)

GrantAuditor(a) ==
    /\ auditors' = auditors \cup {a}
    /\ auditorCount' = IF a \in auditors THEN auditorCount ELSE auditorCount + 1

RevokeAuditor(a) ==
    /\ auditors' = auditors \ {a}
    /\ auditorCount' = IF a \in auditors THEN auditorCount - 1 ELSE auditorCount

-----------------------------------------------------------------------------
(* publish() *)

\* Every recovered signer holds the role, none twice, the lead among them.
ValidSignatures(a, s) ==
    /\ signatureThreshold # 0
    /\ Len(s) >= signatureThreshold
    /\ Signers(s) \subseteq auditors
    /\ \A i, j \in DOMAIN s : s[i] = s[j] => i = j
    /\ a.auditor \in Signers(s)

\* Dates strictly increase; the publication time may run at most the
\* tolerance ahead of the block, the audit date not at all.
ValidDates(a) ==
    /\ attestations # <<>> => a.timestamp > latest.timestamp /\ a.asOf > latest.asOf
    /\ a.timestamp <= now + ClockTolerance
    /\ a.asOf <= now

\* Only an increase is capped, against the previous entry, with the
\* contract's truncating division; a decrease always passes.
GrowthAllowed(a) ==
    attestations # <<>> /\ a.totalGrams > latest.totalGrams =>
        a.totalGrams <= latest.totalGrams + (latest.totalGrams * maxGrowthBps) \div 10000

publish(a, s) ==
    /\ Len(attestations) < MaxAttestations
    /\ ValidSignatures(a, s)
    /\ ValidDates(a)
    /\ GrowthAllowed(a)
    /\ attestations' = Append(attestations, a)
    /\ quorums' = Append(quorums, [signers |-> Signers(s), needed |-> signatureThreshold])
    /\ UNCHANGED <<auditors, auditorCount, signatureThreshold, maxGrowthBps>>

-----------------------------------------------------------------------------
(* Auditor management and configuration, by TREASURY_ROLE *)

authorizeAuditor(a) ==
    /\ GrantAuditor(a)
    /\ UNCHANGED <<attestations, signatureThreshold, maxGrowthBps, quorums>>

\* The guard runs after the revocation and reverts it.
deauthorizeAuditor(a) ==
    /\ RevokeAuditor(a)
    /\ signatureThreshold <= auditorCount'
    /\ UNCHANGED <<attestations, signatureThreshold, maxGrowthBps, quorums>>

setSignatureThreshold(n) ==
    /\ n # 0 /\ n <= auditorCount
    /\ signatureThreshold' = n
    /\ UNCHANGED <<attestations, auditors, auditorCount, maxGrowthBps, quorums>>

setMaxGrowthBps(bps) ==
    /\ maxGrowthBps' = bps
    /\ UNCHANGED <<attestations, auditors, auditorCount, signatureThreshold, quorums>>

\* AccessControl's public grantRole, revokeRole and renounceRole reach the
\* role hooks directly, without the guard of deauthorizeAuditor.
revokeRoleAuditor(a) ==
    /\ RevokeAuditor(a)
    /\ UNCHANGED <<attestations, signatureThreshold, maxGrowthBps, quorums>>

-----------------------------------------------------------------------------
(* The specification *)

InitialThreshold ==
    LET n == Cardinality(InitialAuditors)
        clamped == IF n < DEFAULT_SIGNATURE_THRESHOLD THEN n ELSE DEFAULT_SIGNATURE_THRESHOLD
    IN  IF clamped = 0 THEN 1 ELSE clamped

\* The constructor.
OracleInit ==
    /\ attestations = <<>>
    /\ auditors = InitialAuditors
    /\ auditorCount = Cardinality(InitialAuditors)
    /\ signatureThreshold = InitialThreshold
    /\ maxGrowthBps = DEFAULT_MAX_GROWTH_BPS
    /\ quorums = <<>>

\* Every transaction the oracle accepts.
OracleNext ==
    \/ \E a \in AttestationInputs, s \in SignerLists : publish(a, s)
    \/ \E a \in AuditorAccounts :
          authorizeAuditor(a) \/ deauthorizeAuditor(a) \/ revokeRoleAuditor(a)
    \/ \E n \in 0..(Cardinality(AuditorAccounts) + 1) : setSignatureThreshold(n)
    \/ \E bps \in GrowthCaps : setMaxGrowthBps(bps)

chainVars == <<now, oracleVars>>

OracleChainNext ==
    \/ OracleNext /\ UNCHANGED now
    \/ Tick /\ UNCHANGED oracleVars

OracleSpec == TimeInit /\ OracleInit /\ [][OracleChainNext]_chainVars

-----------------------------------------------------------------------------
(* Properties *)

\* The state is well typed.
OracleTypeOK ==
    /\ now \in Nat \ {0}
    /\ attestations \in Seq(Attestation)
    /\ auditors \subseteq AuditorAccounts
    /\ auditorCount \in Nat
    /\ signatureThreshold \in Nat \ {0}
    /\ maxGrowthBps \in Nat
    /\ quorums \in Seq([signers : SUBSET AuditorAccounts, needed : Nat])

\* INV-5 over the whole history, not only over neighbours: any two entries are
\* ordered by publication time and by audit date alike, no audit date lies in
\* the future, and no publication time more than the tolerance ahead.
AttestationMonotonicity ==
    /\ \A i, j \in 1..Len(attestations) : i < j =>
          /\ attestations[i].timestamp < attestations[j].timestamp
          /\ attestations[i].asOf < attestations[j].asOf
    /\ \A i \in 1..Len(attestations) :
          /\ attestations[i].asOf <= now
          /\ attestations[i].timestamp <= now + ClockTolerance

\* INV-7: behind every entry stand at least as many different accounts as the
\* threshold in force when it was published, the recorded lead among them.
\* publish() counts list entries; only its duplicate check makes them accounts.
AuditorQuorum ==
    /\ Len(quorums) = Len(attestations)
    /\ \A i \in 1..Len(attestations) :
          /\ Cardinality(quorums[i].signers) >= quorums[i].needed
          /\ attestations[i].auditor \in quorums[i].signers

\* The counter the threshold checks use equals the number of role holders,
\* whichever of the five entry points changed the role.
AuditorCountInSync == auditorCount = Cardinality(auditors)

\* An audit of zero grams is final: the cap on growth is relative to the
\* previous entry, so no later attestation can report a positive reserve and
\* minting through this oracle is over for good.
ZeroReserveIsFinal ==
    [][attestations # <<>> /\ latestAttestedGrams = 0 => latestAttestedGrams' = 0]_oracleVars

\* What deauthorizeAuditor's guard promises ("revoking an auditor must not
\* leave the threshold unsatisfiable") and the constructor's clamp assumes.
ThresholdSatisfiable == signatureThreshold <= auditorCount
=============================================================================
