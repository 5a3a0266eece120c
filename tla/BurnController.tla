--------------------------- MODULE BurnController ---------------------------
(***************************************************************************)
(* contracts/src/BurnController.sol: redemption burns, each executed once, *)
(* and the compliance clawback under a signed, nonce-bound authorization.  *)
(*                                                                         *)
(* Abstracted: a redemption id is a hash of the request's fields, so the   *)
(* request stands for its id (order and delivery reference are one field). *)
(* What a compliance officer signed off-chain is a set that only grows;    *)
(* the reason hash is left out.  The fee of a redemption is only reported. *)
(***************************************************************************)
EXTENDS GoldToken, Sequences

CONSTANTS
    RedemptionOrders,   \* (offChainOrderId, deliveryRef) pairs
    BurnAmounts,        \* amounts redeemed or clawed back
    PhysicalMinima,     \* values of minPhysicalGrams
    MaxNonce            \* bound on clawback nonces, for model checking only

ASSUME BurnAssumption ==
    /\ BurnAmounts \subseteq Nat
    /\ PhysicalMinima \subseteq Nat
    /\ MaxNonce \in Nat

VARIABLES
    minPhysicalGrams,
    executed,          \* executed redemption ids
    opBurnNonces,      \* wallet -> next clawback nonce
    authorizations,    \* environment: what a compliance officer has signed
    clawbacks          \* history: authorizations that burned tokens, in order

burnVars == <<minPhysicalGrams, executed, opBurnNonces, authorizations, clawbacks>>

RedemptionRequest ==
    [from : Wallets, amount : BurnAmounts, redemptionType : {"CASH_BACK", "PHYSICAL"},
     order : RedemptionOrders]

Authorization == [from : Wallets, amount : BurnAmounts, nonce : Nat, deadline : Nat]

AuthorizationInputs ==
    [from : Wallets, amount : BurnAmounts, nonce : 0..MaxNonce, deadline : 1..MaxTime]

-----------------------------------------------------------------------------
(* Plausible slips, for the mutation runs *)

requestRedemptionRepeats(req) ==
    /\ req.amount # 0
    /\ req.redemptionType = "PHYSICAL" => req.amount >= minPhysicalGrams
    /\ canBurn(req.from)
    /\ executed' = executed \cup {req}
    /\ burnFrom(req.from, req.amount)
    /\ UNCHANGED <<minPhysicalGrams, opBurnNonces, authorizations, clawbacks>>

operatorBurnKeepsNonce(from, amount, sig) ==
    /\ amount # 0
    /\ now <= sig.deadline
    /\ sig \in authorizations
    /\ sig.from = from /\ sig.amount = amount /\ sig.nonce = opBurnNonces[from]
    /\ Restricted(from)
    /\ operatorBurnFrom(from, amount)
    /\ clawbacks' = Append(clawbacks, sig)
    /\ UNCHANGED <<minPhysicalGrams, executed, opBurnNonces, authorizations>>

-----------------------------------------------------------------------------
requestRedemption(req) ==
    /\ req.amount # 0
    /\ req.redemptionType = "PHYSICAL" => req.amount >= minPhysicalGrams
    /\ canBurn(req.from)
    /\ req \notin executed
    /\ executed' = executed \cup {req}
    /\ burnFrom(req.from, req.amount)
    /\ UNCHANGED <<minPhysicalGrams, opBurnNonces, authorizations, clawbacks>>

\* The recovered signer is a compliance officer exactly when the digest, which
\* binds the fields and the target's current nonce, is one an officer signed.
operatorBurn(from, amount, sig) ==
    /\ amount # 0
    /\ now <= sig.deadline
    /\ sig \in authorizations
    /\ sig.from = from /\ sig.amount = amount /\ sig.nonce = opBurnNonces[from]
    /\ opBurnNonces[from] < MaxNonce
    /\ opBurnNonces' = [opBurnNonces EXCEPT ![from] = @ + 1]
    /\ Restricted(from)
    /\ operatorBurnFrom(from, amount)
    /\ clawbacks' = Append(clawbacks, sig)
    /\ UNCHANGED <<minPhysicalGrams, executed, authorizations>>

setMinPhysicalGrams(n) ==
    /\ minPhysicalGrams' = n
    /\ UNCHANGED <<executed, opBurnNonces, authorizations, clawbacks>>

\* Environment: an officer signs, off-chain and at any time.
SignAuthorization(a) ==
    /\ authorizations' = authorizations \cup {a}
    /\ UNCHANGED <<minPhysicalGrams, executed, opBurnNonces, clawbacks>>

-----------------------------------------------------------------------------
\* initialize().
BurnInit ==
    /\ minPhysicalGrams \in PhysicalMinima
    /\ executed = {}
    /\ opBurnNonces = [w \in Wallets |-> 0]
    /\ authorizations = {}
    /\ clawbacks = <<>>

\* The steps that leave the token alone.
BurnBookNext ==
    \/ \E n \in PhysicalMinima : setMinPhysicalGrams(n)
    \/ \E a \in AuthorizationInputs : SignAuthorization(a)

\* The steps that burn.
BurnNext ==
    \/ \E req \in RedemptionRequest : requestRedemption(req)
    \/ \E sig \in authorizations : operatorBurn(sig.from, sig.amount, sig)

\* The state is well typed.
BurnTypeOK ==
    /\ minPhysicalGrams \in Nat
    /\ executed \subseteq RedemptionRequest
    /\ opBurnNonces \in [Wallets -> Nat]
    /\ authorizations \subseteq Authorization
    /\ clawbacks \in Seq(Authorization)
=============================================================================
