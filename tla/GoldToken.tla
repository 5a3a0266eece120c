----------------------------- MODULE GoldToken -----------------------------
(***************************************************************************)
(* contracts/src/GoldToken.sol: the ERC-20 ledger, its pause switch and    *)
(* its two controller slots, above the compliance registry it asks.        *)
(*                                                                         *)
(* Abstracted: allowances are kept for one spender, the burn controller    *)
(* (transferFrom runs the same _update as transfer); the token keeps the   *)
(* registry it was initialised with.  A controller slot holds the deployed *)
(* controller or some other address that never calls the token.            *)
(***************************************************************************)
EXTENDS ComplianceRegistry, Integers

CONSTANT Allowances    \* amounts a wallet may approve for the burn controller

ASSUME TokenAssumption == Allowances \subseteq Nat

VARIABLES
    ledger,           \* balances and totalSupply of the ERC-20
    allowance,        \* wallet -> what the burn controller may pull
    paused,
    mintController,   \* address slots; "unset" is address(0)
    burnController

tokenVars == <<ledger, allowance, paused, mintController, burnController>>

ControllerSlots == {"unset", "deployed", "other"}

-----------------------------------------------------------------------------
(* ERC-20 ledger arithmetic (OpenZeppelin _mint, _burn and _transfer) *)

Credited(balances, w, amount) == [balances EXCEPT ![w] = @ + amount]

Debited(balances, w, amount) == [balances EXCEPT ![w] = @ - amount]

Minted(l, to, amount) ==
    [balances |-> Credited(l.balances, to, amount), totalSupply |-> l.totalSupply + amount]

Burned(l, from, amount) ==
    [balances |-> Debited(l.balances, from, amount), totalSupply |-> l.totalSupply - amount]

\* The credit is applied to the debited balances, so a transfer to oneself is a no-op.
Transferred(l, from, to, amount) ==
    [balances |-> Credited(Debited(l.balances, from, amount), to, amount),
     totalSupply |-> l.totalSupply]

-----------------------------------------------------------------------------
(* Plausible slips, for the mutation runs *)

-----------------------------------------------------------------------------
(* Holders *)

\* transfer and transferFrom: _update asks the pause switch, then canTransfer.
Transfer(from, to, amount) ==
    /\ ~paused
    /\ canTransfer(from, to, amount)
    /\ ledger.balances[from] >= amount
    /\ ledger' = Transferred(ledger, from, to, amount)
    /\ UNCHANGED <<allowance, paused, mintController, burnController>>

Approve(owner, amount) ==
    /\ allowance' = [allowance EXCEPT ![owner] = amount]
    /\ UNCHANGED <<ledger, paused, mintController, burnController>>

-----------------------------------------------------------------------------
(* Controllers.  Called within a controller's own transaction. *)

\* mint(to, amount): what the mint controller must find for the call not to revert.
CanMintTokens(amount) == mintController = "deployed" /\ amount # 0 /\ ~paused

burnFrom(from, amount) ==
    /\ burnController = "deployed"
    /\ amount # 0
    /\ ~paused
    /\ allowance[from] >= amount /\ ledger.balances[from] >= amount
    /\ ledger' = Burned(ledger, from, amount)
    /\ allowance' = [allowance EXCEPT ![from] = @ - amount]
    /\ UNCHANGED <<paused, mintController, burnController>>

\* operatorBurnInProgress is raised around the burn: no pause gate, no allowance.
operatorBurnFrom(from, amount) ==
    /\ burnController = "deployed"
    /\ amount # 0
    /\ ledger.balances[from] >= amount
    /\ ledger' = Burned(ledger, from, amount)
    /\ UNCHANGED <<allowance, paused, mintController, burnController>>

-----------------------------------------------------------------------------
(* Administration *)

pause ==
    /\ ~paused
    /\ paused' = TRUE
    /\ UNCHANGED <<ledger, allowance, mintController, burnController>>

unpause ==
    /\ paused
    /\ paused' = FALSE
    /\ UNCHANGED <<ledger, allowance, mintController, burnController>>

setMintController(c) ==
    /\ c # "unset"
    /\ mintController' = c
    /\ UNCHANGED <<ledger, allowance, paused, burnController>>

setBurnController(c) ==
    /\ c # "unset"
    /\ burnController' = c
    /\ UNCHANGED <<ledger, allowance, paused, mintController>>

-----------------------------------------------------------------------------
TokenInit ==
    /\ ledger = [balances |-> [w \in Wallets |-> 0], totalSupply |-> 0]
    /\ allowance = [w \in Wallets |-> 0]
    /\ paused = FALSE
    /\ mintController = "unset"
    /\ burnController = "unset"

\* The transactions sent to the token itself.
TokenNext ==
    \/ \E from, to \in Wallets, amount \in TransferAmounts : Transfer(from, to, amount)
    \/ \E owner \in Wallets, amount \in Allowances : Approve(owner, amount)
    \/ pause
    \/ unpause
    \/ \E c \in ControllerSlots : setMintController(c) \/ setBurnController(c)

\* The state is well typed.  (The supply is subtracted unchecked by _burn; that
\* it stays a natural number follows from SupplyIsSumOfBalances, not from here.)
TokenTypeOK ==
    /\ ledger \in [balances : [Wallets -> Nat], totalSupply : Int]
    /\ allowance \in [Wallets -> Nat]
    /\ paused \in BOOLEAN
    /\ mintController \in ControllerSlots
    /\ burnController \in ControllerSlots
=============================================================================
