----------------------- MODULE ReserveOracle_proofs -----------------------
(***************************************************************************)
(* Proofs about ReserveOracle, for every set of auditors, every cap and    *)
(* every bound.                                                            *)
(***************************************************************************)
EXTENDS ReserveOracle, TLAPS, FiniteSetTheorems, SequenceTheorems

\* The inductive invariant: the counter must be in step with the role for the
\* type of auditorCount to survive a revocation, the rest carries itself.
OracleInv ==
    OracleTypeOK /\ AttestationMonotonicity /\ AuditorQuorum /\ AuditorCountInSync

\* A signature list is a sequence, and its signers are no more than its entries.
LEMMA SignerListIsSeq ==
    ASSUME NEW s \in SignerLists
    PROVE  s \in Seq(AuditorAccounts)
  <1>1. PICK k \in 0..MaxSignatures : s \in [1..k -> AuditorAccounts]
    BY DEF SignerLists
  <1>2. k \in Nat
    BY OracleAssumption
  <1> QED BY <1>1, <1>2

\* publish() compares the threshold with the length of the list; when no signer
\* repeats, that length is the number of different signers.
LEMMA DistinctSignersCount ==
    ASSUME NEW s \in SignerLists, \A i, j \in DOMAIN s : s[i] = s[j] => i = j
    PROVE  Cardinality(Signers(s)) = Len(s)
  <1>1. s \in Seq(AuditorAccounts)
    BY SignerListIsSeq
  <1>2. /\ Len(s) \in Nat
        /\ s \in [1..Len(s) -> AuditorAccounts]
        /\ DOMAIN s = 1..Len(s)
    BY <1>1, LenProperties
  <1>3. s \in [1..Len(s) -> Signers(s)]
    BY <1>2 DEF Signers
  <1>4. s \in Bijection(1..Len(s), Signers(s))
    BY <1>2, <1>3 DEF Signers, Bijection, Injection, IsInjective, Surjection
  <1>5. ExistsBijection(1..Len(s), Signers(s))
    BY <1>4 DEF ExistsBijection
  <1> QED BY <1>2, <1>5, FS_CountingElements

\* What publish() appends, in the terms the other steps need.
LEMMA PublishAppends ==
    ASSUME OracleInv, UNCHANGED now,
           NEW a \in AttestationInputs, NEW s \in SignerLists, publish(a, s)
    PROVE  /\ a \in Attestation
           /\ attestations' \in Seq(Attestation)
           /\ Len(attestations') = Len(attestations) + 1
           /\ attestations'[Len(attestations) + 1] = a
           /\ \A i \in 1..Len(attestations) : attestations'[i] = attestations[i]
           /\ quorums' \in Seq([signers : SUBSET AuditorAccounts, needed : Nat])
           /\ Len(quorums') = Len(quorums) + 1
           /\ quorums'[Len(quorums) + 1] = [signers |-> Signers(s), needed |-> signatureThreshold]
           /\ \A i \in 1..Len(quorums) : quorums'[i] = quorums[i]
  <1>1. a \in Attestation
    BY OracleAssumption, MaxTimeAssumption DEF AttestationInputs, Attestation, ClockTolerance
  <1>2. s \in Seq(AuditorAccounts)
    BY SignerListIsSeq
  <1>3. Signers(s) \in SUBSET AuditorAccounts
    BY <1>2, LenProperties DEF Signers
  <1>4. [signers |-> Signers(s), needed |-> signatureThreshold]
            \in [signers : SUBSET AuditorAccounts, needed : Nat]
    BY <1>3 DEF OracleInv, OracleTypeOK
  <1>5. attestations \in Seq(Attestation)
    BY DEF OracleInv, OracleTypeOK
  <1>6. quorums \in Seq([signers : SUBSET AuditorAccounts, needed : Nat])
    BY DEF OracleInv, OracleTypeOK
  <1>7. attestations' = Append(attestations, a)
    BY DEF publish
  <1>8. quorums' = Append(quorums, [signers |-> Signers(s), needed |-> signatureThreshold])
    BY DEF publish
  <1> HIDE DEF Attestation
  <1>9. /\ attestations' \in Seq(Attestation)
        /\ Len(attestations') = Len(attestations) + 1
        /\ attestations'[Len(attestations) + 1] = a
        /\ \A i \in 1..Len(attestations) : attestations'[i] = attestations[i]
    BY <1>1, <1>5, <1>7
  <1>10. /\ quorums' \in Seq([signers : SUBSET AuditorAccounts, needed : Nat])
         /\ Len(quorums') = Len(quorums) + 1
         /\ quorums'[Len(quorums) + 1] = [signers |-> Signers(s), needed |-> signatureThreshold]
         /\ \A i \in 1..Len(quorums) : quorums'[i] = quorums[i]
    <2> DEFINE q == [signers |-> Signers(s), needed |-> signatureThreshold]
               Q == [signers : SUBSET AuditorAccounts, needed : Nat]
    <2>1. q \in Q /\ quorums \in Seq(Q) /\ quorums' = Append(quorums, q)
      BY <1>4, <1>6, <1>8
    <2> HIDE DEF q, Q
    <2>2. /\ quorums' \in Seq(Q)
          /\ Len(quorums') = Len(quorums) + 1
          /\ quorums'[Len(quorums) + 1] = q
          /\ \A i \in 1..Len(quorums) : quorums'[i] = quorums[i]
      BY <2>1
    <2> QED BY <2>2 DEF q, Q
  <1> QED BY <1>1, <1>9, <1>10

\* The dates of an entry are numbers.
LEMMA HistoryTypes ==
    ASSUME OracleInv
    PROVE  /\ Len(attestations) \in Nat
           /\ \A i \in 1..Len(attestations) :
                 /\ attestations[i].asOf \in Nat
                 /\ attestations[i].timestamp \in Nat
  <1>1. attestations \in Seq(Attestation)
    BY DEF OracleInv, OracleTypeOK
  <1>2. Len(attestations) \in Nat
    BY <1>1, LenProperties
  <1>3. ASSUME NEW i \in 1..Len(attestations) PROVE attestations[i] \in Attestation
    <2> HIDE DEF Attestation
    <2> QED BY <1>1, ElementOfSeq
  <1> QED BY <1>2, <1>3 DEF Attestation

LEMMA OraclePublishPreserves ==
    ASSUME OracleInv, UNCHANGED now,
           NEW a \in AttestationInputs, NEW s \in SignerLists, publish(a, s)
    PROVE  OracleInv'
  <1> DEFINE n == Len(attestations)
  <1>1. n \in Nat /\ Len(quorums) = n
    BY LenProperties DEF OracleInv, OracleTypeOK, AuditorQuorum
  <1>a. /\ Len(attestations') = n + 1
        /\ attestations'[n + 1] = a
        /\ \A i \in 1..n : attestations'[i] = attestations[i]
    BY PublishAppends
  <1>q. /\ Len(quorums') = n + 1
        /\ quorums'[n + 1] = [signers |-> Signers(s), needed |-> signatureThreshold]
        /\ \A i \in 1..n : quorums'[i] = quorums[i]
    BY <1>1, PublishAppends
  <1>2. OracleTypeOK'
    BY PublishAppends DEF OracleInv, OracleTypeOK, publish
  <1>3. AttestationMonotonicity'
    <2>1. /\ a.asOf <= now /\ a.timestamp <= now + ClockTolerance
          /\ a.timestamp \in Nat /\ a.asOf \in Nat
          /\ n > 0 => /\ a.timestamp > attestations[n].timestamp
                      /\ a.asOf > attestations[n].asOf
      BY <1>1, PublishAppends DEF publish, ValidDates, latest, Attestation
    <2>2. \A i \in 1..n : /\ attestations[i].timestamp \in Nat
                           /\ attestations[i].asOf \in Nat
      BY HistoryTypes
    <2>3. \A i, j \in 1..(n + 1) : i < j =>
             /\ attestations'[i].timestamp < attestations'[j].timestamp
             /\ attestations'[i].asOf < attestations'[j].asOf
      <3> SUFFICES ASSUME NEW i \in 1..(n + 1), NEW j \in 1..(n + 1), i < j
                   PROVE  /\ attestations'[i].timestamp < attestations'[j].timestamp
                          /\ attestations'[i].asOf < attestations'[j].asOf
        OBVIOUS
      <3>1. i \in 1..n /\ attestations'[i] = attestations[i]
        BY <1>1, <1>a
      <3>2. CASE j \in 1..n
        BY <3>1, <3>2, <1>1, <1>a DEF OracleInv, AttestationMonotonicity
      <3>3. CASE j = n + 1
        <4>1. attestations'[j] = a
          BY <3>3, <1>a
        <4>2. /\ attestations[i].timestamp <= attestations[n].timestamp
              /\ attestations[i].asOf <= attestations[n].asOf
          <5>1. CASE i = n
            BY <5>1, <1>1, <2>2, <3>1
          <5>2. CASE i < n
            BY <5>2, <1>1, <2>2, <3>1 DEF OracleInv, AttestationMonotonicity
          <5> QED BY <5>1, <5>2, <1>1, <3>1
        <4> QED BY <4>1, <4>2, <3>1, <2>1, <2>2, <1>1
      <3> QED BY <3>2, <3>3, <1>1
    <2>4. \A i \in 1..(n + 1) : /\ attestations'[i].asOf <= now
                                /\ attestations'[i].timestamp <= now + ClockTolerance
      <3> SUFFICES ASSUME NEW i \in 1..(n + 1)
                   PROVE  /\ attestations'[i].asOf <= now
                          /\ attestations'[i].timestamp <= now + ClockTolerance
        OBVIOUS
      <3>1. CASE i \in 1..n
        BY <3>1, <1>a DEF OracleInv, AttestationMonotonicity
      <3>2. CASE i = n + 1
        BY <3>2, <1>a, <2>1
      <3> QED BY <3>1, <3>2, <1>1
    <2> QED BY <2>3, <2>4, <1>a DEF AttestationMonotonicity
  <1>4. AuditorQuorum'
    <2>1. /\ Cardinality(Signers(s)) >= signatureThreshold
          /\ a.auditor \in Signers(s)
      BY DistinctSignersCount DEF publish, ValidSignatures
    <2>2. \A i \in 1..(n + 1) : /\ Cardinality(quorums'[i].signers) >= quorums'[i].needed
                                /\ attestations'[i].auditor \in quorums'[i].signers
      <3> SUFFICES ASSUME NEW i \in 1..(n + 1)
                   PROVE  /\ Cardinality(quorums'[i].signers) >= quorums'[i].needed
                          /\ attestations'[i].auditor \in quorums'[i].signers
        OBVIOUS
      <3>1. CASE i \in 1..n
        BY <3>1, <1>1, <1>a, <1>q DEF OracleInv, AuditorQuorum
      <3>2. CASE i = n + 1
        BY <3>2, <1>1, <2>1, <1>a, <1>q
      <3> QED BY <3>1, <3>2, <1>1
    <2> QED BY <1>1, <2>2, <1>a, <1>q DEF AuditorQuorum
  <1>5. AuditorCountInSync'
    BY DEF OracleInv, AuditorCountInSync, publish
  <1> QED BY <1>2, <1>3, <1>4, <1>5 DEF OracleInv

\* The role hooks keep the counter equal to the number of holders.
LEMMA RoleHooksCount ==
    ASSUME OracleInv, NEW a \in AuditorAccounts
    PROVE  /\ GrantAuditor(a) =>
                 /\ auditors' \subseteq AuditorAccounts
                 /\ auditorCount' \in Nat
                 /\ auditorCount' = Cardinality(auditors')
           /\ RevokeAuditor(a) =>
                 /\ auditors' \subseteq AuditorAccounts
                 /\ auditorCount' \in Nat
                 /\ auditorCount' = Cardinality(auditors')
  <1>1. auditors \subseteq AuditorAccounts /\ auditorCount = Cardinality(auditors)
    BY DEF OracleInv, OracleTypeOK, AuditorCountInSync
  <1>2. IsFiniteSet(auditors)
    BY <1>1, OracleAssumption, FS_Subset
  <1>3. /\ IsFiniteSet(auditors \cup {a})
        /\ Cardinality(auditors \cup {a}) =
             IF a \in auditors THEN Cardinality(auditors) ELSE Cardinality(auditors) + 1
    BY <1>2, FS_AddElement
  <1>4. /\ IsFiniteSet(auditors \ {a})
        /\ Cardinality(auditors \ {a}) =
             IF a \in auditors THEN Cardinality(auditors) - 1 ELSE Cardinality(auditors)
    BY <1>2, FS_RemoveElement
  <1>5. Cardinality(auditors \cup {a}) \in Nat /\ Cardinality(auditors \ {a}) \in Nat
    BY <1>3, <1>4, FS_CardinalityType
  <1> QED BY <1>1, <1>3, <1>4, <1>5 DEF GrantAuditor, RevokeAuditor

\* Steps that leave the history alone keep what is said about it.
LEMMA HistoryUntouched ==
    ASSUME OracleInv, now' \in Nat, now <= now', UNCHANGED <<attestations, quorums>>
    PROVE  AttestationMonotonicity' /\ AuditorQuorum'
  <1>1. \A i \in 1..Len(attestations) : attestations[i].asOf \in Nat /\ attestations[i].timestamp \in Nat
    BY HistoryTypes
  <1>2. AttestationMonotonicity'
    <2>1. now \in Nat /\ now <= now' /\ now' \in Nat
      BY DEF OracleInv, OracleTypeOK
    <2>2. \A i \in 1..Len(attestations) : /\ attestations[i].asOf <= now'
                                          /\ attestations[i].timestamp <= now' + ClockTolerance
      BY <1>1, <2>1 DEF OracleInv, AttestationMonotonicity, ClockTolerance
    <2> QED BY <2>2 DEF OracleInv, AttestationMonotonicity, ClockTolerance
  <1>3. AuditorQuorum'
    BY DEF OracleInv, AuditorQuorum
  <1> QED BY <1>2, <1>3

LEMMA OracleNextPreserves ==
    ASSUME OracleInv, OracleNext, UNCHANGED now
    PROVE  OracleInv'
  <1>0. now \in Nat /\ now <= now' /\ now' \in Nat
    BY DEF OracleInv, OracleTypeOK
  <1>1. ASSUME NEW a \in AttestationInputs, NEW s \in SignerLists, publish(a, s)
        PROVE  OracleInv'
    BY <1>1, OraclePublishPreserves
  <1>2. ASSUME NEW a \in AuditorAccounts,
               authorizeAuditor(a) \/ deauthorizeAuditor(a) \/ revokeRoleAuditor(a)
        PROVE  OracleInv'
    <2>1. GrantAuditor(a) \/ RevokeAuditor(a)
      BY <1>2 DEF authorizeAuditor, deauthorizeAuditor, revokeRoleAuditor
    <2>2. UNCHANGED <<attestations, signatureThreshold, maxGrowthBps, quorums>>
      BY <1>2 DEF authorizeAuditor, deauthorizeAuditor, revokeRoleAuditor
    <2>3. /\ auditors' \subseteq AuditorAccounts
          /\ auditorCount' \in Nat
          /\ auditorCount' = Cardinality(auditors')
      BY <2>1, RoleHooksCount
    <2>4. AttestationMonotonicity' /\ AuditorQuorum'
      BY <1>0, <2>2, HistoryUntouched
    <2> QED BY <2>2, <2>3, <2>4 DEF OracleInv, OracleTypeOK, AuditorCountInSync
  <1>3. ASSUME NEW n \in 0..(Cardinality(AuditorAccounts) + 1), setSignatureThreshold(n)
        PROVE  OracleInv'
    <2>1. n \in Nat \ {0}
      BY <1>3, OracleAssumption, FS_CardinalityType DEF setSignatureThreshold
    <2>2. AttestationMonotonicity' /\ AuditorQuorum'
      BY <1>0, <1>3, HistoryUntouched DEF setSignatureThreshold
    <2> QED BY <1>3, <2>1, <2>2 DEF setSignatureThreshold, OracleInv, OracleTypeOK, AuditorCountInSync
  <1>4. ASSUME NEW bps \in GrowthCaps, setMaxGrowthBps(bps)
        PROVE  OracleInv'
    <2>1. AttestationMonotonicity' /\ AuditorQuorum'
      BY <1>0, <1>4, HistoryUntouched DEF setMaxGrowthBps
    <2> QED BY <1>4, <2>1, OracleAssumption
            DEF setMaxGrowthBps, OracleInv, OracleTypeOK, AuditorCountInSync
  <1> QED BY <1>1, <1>2, <1>3, <1>4 DEF OracleNext

LEMMA OracleTickPreserves ==
    ASSUME OracleInv, Tick, UNCHANGED oracleVars
    PROVE  OracleInv'
  <1>1. now \in Nat /\ now <= now' /\ now' \in Nat \ {0}
    BY DEF OracleInv, OracleTypeOK, Tick
  <1>2. AttestationMonotonicity' /\ AuditorQuorum'
    BY <1>1, HistoryUntouched DEF oracleVars
  <1> QED BY <1>1, <1>2 DEF OracleInv, OracleTypeOK, AuditorCountInSync, oracleVars

LEMMA OracleInitEstablishes ==
    ASSUME TimeInit, OracleInit
    PROVE  OracleInv
  <1>1. IsFiniteSet(InitialAuditors) /\ Cardinality(InitialAuditors) \in Nat
    BY OracleAssumption, FS_Subset, FS_CardinalityType
  <1>2. InitialThreshold \in Nat \ {0}
    BY <1>1 DEF InitialThreshold, DEFAULT_SIGNATURE_THRESHOLD
  <1>3. OracleTypeOK
    BY <1>1, <1>2, OracleAssumption DEF OracleTypeOK, TimeInit, OracleInit, DEFAULT_MAX_GROWTH_BPS
  <1>4. AttestationMonotonicity /\ AuditorQuorum /\ AuditorCountInSync
    BY DEF AttestationMonotonicity, AuditorQuorum, AuditorCountInSync, OracleInit
  <1> QED BY <1>3, <1>4 DEF OracleInv

\* Every reachable state of the oracle is well typed, its history is ordered, every
\* entry has its quorum, and the auditor counter is exact.
THEOREM OracleInvariant == OracleSpec => []OracleInv
  <1>1. TimeInit /\ OracleInit => OracleInv
    BY OracleInitEstablishes
  <1>2. OracleInv /\ [OracleChainNext]_chainVars => OracleInv'
    <2>1. CASE OracleNext /\ UNCHANGED now
      BY <2>1, OracleNextPreserves
    <2>2. CASE Tick /\ UNCHANGED oracleVars
      BY <2>2, OracleTickPreserves
    <2>3. CASE UNCHANGED chainVars
      BY <2>3 DEF chainVars, oracleVars, OracleInv, OracleTypeOK, AttestationMonotonicity, AuditorQuorum,
                  AuditorCountInSync
    <2> QED BY <2>1, <2>2, <2>3 DEF OracleChainNext
  <1> QED BY <1>1, <1>2, PTL DEF OracleSpec

\* INV-5 for the whole history, for every number of attestations.
THEOREM MonotonicityHolds == OracleSpec => []AttestationMonotonicity
  BY OracleInvariant, PTL DEF OracleInv

\* INV-7: no entry without its quorum of different accounts.
THEOREM QuorumHolds == OracleSpec => []AuditorQuorum
  BY OracleInvariant, PTL DEF OracleInv

\* The counter every threshold check reads is the role's size.
THEOREM CountHolds == OracleSpec => []AuditorCountInSync
  BY OracleInvariant, PTL DEF OracleInv

\* Whatever the cap, a reserve attested at zero stays at zero.
THEOREM ZeroIsFinal == OracleSpec => ZeroReserveIsFinal
  <1> DEFINE Final == attestations # <<>> /\ latestAttestedGrams = 0 => latestAttestedGrams' = 0
  <1>1. OracleInv /\ [OracleChainNext]_chainVars => [Final]_oracleVars
    <2> SUFFICES ASSUME OracleInv, OracleNext, UNCHANGED now PROVE Final
      BY DEF oracleVars, chainVars, OracleChainNext
    <2>1. ASSUME NEW a \in AttestationInputs, NEW s \in SignerLists, publish(a, s),
                 attestations # <<>>, latestAttestedGrams = 0
          PROVE  latestAttestedGrams' = 0
      <3>1. latest.totalGrams = 0
        BY <2>1 DEF latestAttestedGrams
      <3>2. a.totalGrams \in Nat /\ maxGrowthBps \in Nat
        BY OracleAssumption DEF AttestationInputs, OracleInv, OracleTypeOK
      <3>3. a.totalGrams = 0
        BY <2>1, <3>1, <3>2 DEF publish, GrowthAllowed
      <3>4. Len(attestations) \in Nat /\ Len(attestations') = Len(attestations) + 1
            /\ attestations'[Len(attestations)+1] = a
        BY <2>1, PublishAppends, LenProperties DEF OracleInv, OracleTypeOK
      <3>5. attestations' # <<>>
        BY <3>4
      <3> QED BY <3>3, <3>4, <3>5 DEF latestAttestedGrams, latest
    <2>2. UNCHANGED attestations => Final
      BY DEF latestAttestedGrams, latest
    <2> QED BY <2>1, <2>2 DEF OracleNext, authorizeAuditor, deauthorizeAuditor, revokeRoleAuditor,
              setSignatureThreshold, setMaxGrowthBps
  <1> QED BY <1>1, OracleInvariant, PTL DEF OracleSpec, ZeroReserveIsFinal
=============================================================================
