------------------------- MODULE ComplianceRegistry -------------------------
(***************************************************************************)
(* contracts/src/ComplianceRegistry.sol: wallet profiles and the three     *)
(* gates the token and the controllers ask.                                *)
(*                                                                         *)
(* Abstracted: the gates never look at the tier beyond "NONE or not", so a *)
(* profile of tier NONE is one whose KYC expired at time 0; kycApprovedAt  *)
(* is never read.  Each entry point is called by a holder of the role the  *)
(* contract requires; role membership is fixed at deployment.              *)
(***************************************************************************)
EXTENDS BlockTime, FiniteSets

CONSTANTS
    Wallets,            \* every address that can hold tokens
    Jurisdictions,      \* ISO-3166 codes
    KycExpiries,        \* values of kycExpiresAt the KYC service writes
    TravelThresholds,   \* values TREASURY_ROLE may give the Travel Rule threshold
    TransferAmounts     \* amounts of transfers and of Travel Rule approvals

ASSUME RegistryAssumption ==
    /\ IsFiniteSet(Wallets)
    /\ KycExpiries \subseteq Nat
    /\ TravelThresholds \subseteq Nat
    /\ TransferAmounts \subseteq Nat

VARIABLES
    profiles,             \* wallet -> WalletProfile
    jurisdictionBlocked,  \* the blocked codes
    travelRuleApproved,   \* approved (from, to, amount) keys; never consumed
    travelRuleThreshold

registryVars == <<profiles, jurisdictionBlocked, travelRuleApproved, travelRuleThreshold>>

WalletProfile ==
    [jurisdiction : Jurisdictions, kycExpiresAt : Nat, frozen : BOOLEAN, sanctioned : BOOLEAN]

\* What the KYC service may write: the whole record, flags included.
ProfileInputs ==
    [jurisdiction : Jurisdictions, kycExpiresAt : KycExpiries,
     frozen : BOOLEAN, sanctioned : BOOLEAN]

-----------------------------------------------------------------------------
(* Views *)

isKycValid(w) == profiles[w].kycExpiresAt > now

isFrozen(w) == profiles[w].frozen

isSanctioned(w) == profiles[w].sanctioned

Restricted(w) == isFrozen(w) \/ isSanctioned(w)

travelRuleRequired(from, to, amount) ==
    amount >= travelRuleThreshold /\ <<from, to, amount>> \notin travelRuleApproved

-----------------------------------------------------------------------------
(* Plausible slips, for the mutation runs *)

canTransferSenderOnly(from, to, amount) ==
    /\ ~Restricted(from)
    /\ {profiles[from].jurisdiction, profiles[to].jurisdiction} \cap jurisdictionBlocked = {}
    /\ isKycValid(from) /\ isKycValid(to)
    /\ ~travelRuleRequired(from, to, amount)

-----------------------------------------------------------------------------
(* The gates *)

canTransfer(from, to, amount) ==
    /\ ~Restricted(from) /\ ~Restricted(to)
    /\ {profiles[from].jurisdiction, profiles[to].jurisdiction} \cap jurisdictionBlocked = {}
    /\ isKycValid(from) /\ isKycValid(to)
    /\ ~travelRuleRequired(from, to, amount)

\* The jurisdiction is the request's, not the one on the profile.
canMint(to, jurisdiction) ==
    /\ ~Restricted(to)
    /\ jurisdiction \notin jurisdictionBlocked
    /\ isKycValid(to)

canBurn(from) == ~Restricted(from) /\ isKycValid(from)

-----------------------------------------------------------------------------
(* Writes *)

SetProfile(w, p) ==
    /\ profiles' = [profiles EXCEPT ![w] = p]
    /\ UNCHANGED <<jurisdictionBlocked, travelRuleApproved, travelRuleThreshold>>

setProfile(w, p) == SetProfile(w, p)

freeze(w) == SetProfile(w, [profiles[w] EXCEPT !.frozen = TRUE])

unfreeze(w) == SetProfile(w, [profiles[w] EXCEPT !.frozen = FALSE])

setSanctioned(w, value) == SetProfile(w, [profiles[w] EXCEPT !.sanctioned = value])

setJurisdictionBlocked(j, blocked) ==
    /\ jurisdictionBlocked' =
         IF blocked THEN jurisdictionBlocked \cup {j} ELSE jurisdictionBlocked \ {j}
    /\ UNCHANGED <<profiles, travelRuleApproved, travelRuleThreshold>>

recordTravelRuleApproval(from, to, amount) ==
    /\ travelRuleApproved' = travelRuleApproved \cup {<<from, to, amount>>}
    /\ UNCHANGED <<profiles, jurisdictionBlocked, travelRuleThreshold>>

setTravelRuleThreshold(amount) ==
    /\ travelRuleThreshold' = amount
    /\ UNCHANGED <<profiles, jurisdictionBlocked, travelRuleApproved>>

-----------------------------------------------------------------------------
\* initialize(): every profile is the zero record until the KYC service
\* writes one; the threshold is the deployer's.
RegistryInit ==
    /\ profiles \in [Wallets -> [jurisdiction : Jurisdictions, kycExpiresAt : {0},
                                 frozen : {FALSE}, sanctioned : {FALSE}]]
    /\ jurisdictionBlocked = {}
    /\ travelRuleApproved = {}
    /\ travelRuleThreshold \in TravelThresholds

RegistryNext ==
    \/ \E w \in Wallets : \/ \E p \in ProfileInputs : setProfile(w, p)
                          \/ freeze(w)
                          \/ unfreeze(w)
                          \/ \E value \in BOOLEAN : setSanctioned(w, value)
    \/ \E j \in Jurisdictions, blocked \in BOOLEAN : setJurisdictionBlocked(j, blocked)
    \/ \E from, to \in Wallets, amount \in TransferAmounts :
          recordTravelRuleApproval(from, to, amount)
    \/ \E amount \in TravelThresholds : setTravelRuleThreshold(amount)

\* The state is well typed.
RegistryTypeOK ==
    /\ now \in Nat \ {0}
    /\ profiles \in [Wallets -> WalletProfile]
    /\ jurisdictionBlocked \subseteq Jurisdictions
    /\ travelRuleApproved \subseteq Wallets \X Wallets \X TransferAmounts
    /\ travelRuleThreshold \in Nat
=============================================================================
