--------------------------- MODULE ProofOfReserve ---------------------------
(***************************************************************************)
(* backend/services/por: the database log of the attestations on the       *)
(* chain.  POST /por/attest sends one and logs it; a ticker and a daily    *)
(* schedule each read the whole chain and log and announce what they find; *)
(* other holders of auditor keys publish without this service.             *)
(*                                                                         *)
(* As the adapter to the oracle is built, every call of it fails:          *)
(* AttestationCount and unpackAttestation look the answer up under "0",    *)
(* where UnpackIntoMap files an output without a name under "", the latter *)
(* takes the decoded struct for a map, and Publish packs a struct whose    *)
(* field is IPFSCid where the packer looks for IpfsCid.  The handler and   *)
(* the worker know the oracle by their interfaces only, so `adapter` says  *)
(* which they have: the one that is built, or one that does what the       *)
(* interface says; around both, the code is the same.                      *)
(*                                                                         *)
(* Abstracted: an attestation is its timestamp, which the contract makes   *)
(* strictly increasing (ReserveOracle.ValidDates); field validation; the   *)
(* answers of the read-only routes and the reserve ratio; the rows that    *)
(* auditors add to verify a logged attestation, which nothing reads to     *)
(* decide; whether the schedule is enabled (an operator's change of the    *)
(* row, which may come at any time).  The chain may refuse any             *)
(* transaction: this service's ABI has publish take one signature, the     *)
(* contract of this repository a list of them.  `announced` is a set:      *)
(* every pass publishes every attestation again.                           *)
(***************************************************************************)
EXTENDS Faults, Sequences, SequencesExt

CONSTANTS
    Posts,       \* POST /por/attest requests
    Dates        \* timestamps of attestations

ASSUME PorAssumption == Dates \subseteq Nat \ {0}

VARIABLES
    chain,       \* ReserveOracle.attestations
    nonce,       \* PendingNonceAt of the service's key
    pool,        \* its transactions waiting to be mined, as requests
    post,        \* request -> [stage, date, nonce], the nonce while it is signed
    log,         \* por.attestation_log, as [date, idx]; idx 0 is NULL
    announced,   \* dates of gold.reserve.attestation messages
    scan,        \* syncer -> [stage, at, count]
    adapter      \* "asBuilt": every call of the oracle fails; "asMeant": the chain is reached

porVars == <<chain, nonce, pool, post, log, announced, scan, adapter>>

Syncers == {"ticker", "schedule"}

NoPost == [stage |-> "idle", date |-> 0, nonce |-> 0]

Idle == [stage |-> "idle", at |-> 0, count |-> 0]

PostStages == {"idle", "signed", "sent", "mined", "published", "reverted", "failed"}

Latest == IF chain = <<>> THEN 0 ELSE Last(chain)

Logged == {r.date : r \in log}

Moves(p, stage) == post' = [post EXCEPT ![p].stage = stage]

\* What the reader makes of the oracle's answer: as built nothing, since the key "0" is
\* in no answer.
OracleAnswer(value) == IF adapter = "asBuilt" THEN {} ELSE {value}

AttestationCount == OracleAnswer(Len(chain))

AttestationAt(i) == OracleAnswer(chain[i])

\* Slip, for the mutation runs: no ON CONFLICT (timestamp_sec) DO NOTHING.
CreateAttestationAlways(date, idx) == log' = log \cup {[date |-> date, idx |-> idx]}

CreateAttestation(date, idx) ==
    log' = IF date \in Logged THEN log ELSE log \cup {[date |-> date, idx |-> idx]}

-----------------------------------------------------------------------------
(* POST /por/attest *)

\* The nonce counts what is pending; gas estimation fails for an attestation the
\* contract would refuse now.
Sign(p, date) ==
    /\ date > Latest
    /\ post' = [post EXCEPT ![p] = [stage |-> "signed", date |-> date, nonce |-> nonce]]

\* As built, the attestation cannot be packed and the request fails before it is signed.
attest(p) ==
    /\ post[p] = NoPost
    /\ IF adapter = "asBuilt" THEN Moves(p, "failed") ELSE \E date \in Dates : Sign(p, date)
    /\ UNCHANGED <<chain, nonce, pool, log, announced, scan, faults>>

\* The node refuses a nonce that another request has used meanwhile.  Its answer
\* may be lost.
SendTx(p) ==
    /\ post[p].stage = "signed"
    /\ LET taken == post[p].nonce = nonce
           next(stage) == post' = [post EXCEPT ![p].stage = stage, ![p].nonce = 0]
       IN  \/ taken /\ next("sent") /\ UNCHANGED faults
           \/ taken /\ next("failed") /\ Fault
           \/ ~taken /\ next("failed") /\ UNCHANGED faults
    /\ IF post[p].nonce = nonce THEN pool' = Append(pool, p) /\ nonce' = nonce + 1
                                ELSE UNCHANGED <<pool, nonce>>
    /\ UNCHANGED <<chain, log, announced, scan>>

\* External: the head of the pool is mined; a transaction may always revert.
Mine ==
    /\ pool # <<>>
    /\ LET p == Head(pool)
           told(stage) == IF post[p].stage = "sent" THEN Moves(p, stage) ELSE UNCHANGED post
       IN  \/ post[p].date > Latest /\ chain' = Append(chain, post[p].date) /\ told("mined")
           \/ UNCHANGED chain /\ told("reverted")
    /\ pool' = Tail(pool)
    /\ UNCHANGED <<nonce, log, announced, scan, faults>>

\* The outcomes of what follows the receipt: the row has no index on the chain, and
\* errors of the insert and of the publication are only logged.
Recorded(p) ==
    /\ \E inserted, sent \in BOOLEAN :
          /\ inserted \/ sent
          /\ IF inserted THEN CreateAttestation(post[p].date, 0) ELSE UNCHANGED log
          /\ announced' = IF sent THEN announced \cup {post[p].date} ELSE announced
          /\ IF inserted /\ sent THEN UNCHANGED faults ELSE Fault
    /\ Moves(p, "published")
    /\ UNCHANGED <<chain, nonce, pool, scan>>

\* Publish fails on a reverted transaction.
recordReceipt(p) == post[p].stage = "mined" /\ Recorded(p)

\* The receipt cannot be read: the request fails, whatever becomes of its transaction.
ReceiptLost(p) ==
    /\ post[p].stage \in {"sent", "mined"}
    /\ Moves(p, "failed") /\ Fault
    /\ UNCHANGED <<chain, nonce, pool, log, announced, scan>>

-----------------------------------------------------------------------------
(* syncOnce, on the ticker and on the schedule *)

\* The schedule reads its configuration, sleeps until the hour it names and syncs,
\* enabled or not by then.
Schedule ==
    /\ scan["schedule"].stage = "idle"
    /\ scan' = [scan EXCEPT !["schedule"].stage = "asleep"]
    /\ UNCHANGED <<chain, nonce, pool, post, log, announced, faults>>

\* Without an answer the pass is over, as it is when there is nothing on the chain.
runChainSync(s) ==
    /\ scan[s].stage = IF s = "ticker" THEN "idle" ELSE "asleep"
    /\ \/ /\ AttestationCount \subseteq {0}
          /\ scan' = [scan EXCEPT ![s] = Idle]
       \/ \E count \in AttestationCount \ {0} :
             scan' = [scan EXCEPT ![s] = [stage |-> "scan", at |-> 1, count |-> count]]
    /\ UNCHANGED <<chain, nonce, pool, post, log, announced, faults>>

Advance(s) ==
    scan' = [scan EXCEPT ![s] = IF @.at = @.count THEN Idle ELSE [scan[s] EXCEPT !.at = @ + 1]]

\* One attestation: read, logged unless it is, published in any case.  An error of
\* the read or of the insert goes on to the next one, so does one of the publication.
syncOnce(s) ==
    /\ scan[s].stage = "scan"
    /\ \/ \E date \in AttestationAt(scan[s].at) :
             /\ CreateAttestation(date, scan[s].at)
             /\ \/ announced' = announced \cup {date} /\ UNCHANGED faults
                \/ UNCHANGED announced /\ Fault
       \/ UNCHANGED <<log, announced>> /\ Fault
    /\ Advance(s)
    /\ UNCHANGED <<chain, nonce, pool, post>>

-----------------------------------------------------------------------------
\* External: an auditor publishes without the service.
OthersPublish ==
    /\ \E date \in Dates : date > Latest /\ chain' = Append(chain, date)
    /\ UNCHANGED <<nonce, pool, post, log, announced, scan, faults>>

\* The process dies: requests and passes are lost, not what the node has taken.
PordDies ==
    /\ Fault
    /\ post' = [p \in Posts |-> IF post[p].stage \in {"idle", "published", "reverted", "failed"} THEN post[p]
                                ELSE [post[p] EXCEPT !.stage = "failed", !.nonce = 0]]
    /\ scan' = [s \in Syncers |-> Idle]
    /\ UNCHANGED <<chain, nonce, pool, log, announced>>

PorInit ==
    /\ chain = <<>> /\ nonce = 0 /\ pool = <<>>
    /\ post = [p \in Posts |-> NoPost]
    /\ log = {} /\ announced = {}
    /\ scan = [s \in Syncers |-> Idle]
    /\ adapter \in {"asBuilt", "asMeant"}

Syncing(s) == runChainSync(s) \/ syncOnce(s)

PorStep ==
    \/ \E p \in Posts : attest(p) \/ SendTx(p) \/ recordReceipt(p) \/ ReceiptLost(p)
    \/ \E s \in Syncers : Syncing(s)
    \/ Schedule \/ Mine \/ OthersPublish \/ PordDies

PorNext == PorStep /\ UNCHANGED adapter

PorSpec == PorInit /\ faults = 0 /\ [][PorNext]_<<porVars, faults>>

-----------------------------------------------------------------------------
(* Properties *)

PorTypeOK ==
    /\ chain \in Seq(Dates) /\ nonce \in Nat /\ pool \in Seq(Posts)
    /\ post \in [Posts -> [stage : PostStages, date : Dates \cup {0}, nonce : Nat]]
    /\ log \subseteq [date : Dates, idx : Nat]
    /\ announced \subseteq Dates
    /\ scan \in [Syncers -> [stage : {"idle", "asleep", "scan"}, at : Nat, count : Nat]]
    /\ adapter \in {"asBuilt", "asMeant"}
    /\ \A s \in Syncers : scan[s].count <= Len(chain)

\* However requests, the two syncers and other publishers race and fail, the log is a
\* faithful part of the chain: one row per attestation, none that is not on the chain,
\* an index that is right where it is set; so is what was announced and what a request
\* was answered to have published.  With the adapter as it is built nothing is logged,
\* announced or published at all.
LogMirrorsChain ==
    /\ \A r \in log : \E i \in DOMAIN chain : chain[i] = r.date /\ r.idx \in {0, i}
    /\ \A q, r \in log : q.date = r.date => q = r
    /\ announced \subseteq Range(chain)
    /\ \A p \in Posts : post[p].stage \in {"mined", "published"} => post[p].date \in Range(chain)
    /\ adapter = "asBuilt" => /\ log = {} /\ announced = {}
                              /\ \A p \in Posts : post[p].stage \in {"idle", "failed"}
=============================================================================
