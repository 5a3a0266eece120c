----------------------------- MODULE BlockTime -----------------------------
(***************************************************************************)
(* The clock every contract reads as block.timestamp.  A block may carry   *)
(* several transactions, so a contract action leaves the clock alone and   *)
(* Tick moves it between blocks.  One unit of model time is one hour, the  *)
(* finest distance any of the contracts tells apart.                       *)
(***************************************************************************)
EXTENDS Naturals

CONSTANT MaxTime    \* bound on the clock, for model checking only

ASSUME MaxTimeAssumption == MaxTime \in Nat \ {0}

VARIABLE now        \* block.timestamp; never 0 on a live chain

TimeInit == now = 1

Tick == now < MaxTime /\ now' = now + 1
=============================================================================
