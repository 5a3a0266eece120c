------------------------------- MODULE Faults -------------------------------
(***************************************************************************)
(* Failures a service meets and the models count: a process that dies, a   *)
(* statement the database refuses, an answer that is lost.                 *)
(***************************************************************************)
EXTENDS Naturals

CONSTANT MaxFaults      \* bound on their number, for model checking only

ASSUME FaultsAssumption == MaxFaults \in Nat

VARIABLE faults         \* how many have happened

Fault == faults < MaxFaults /\ faults' = faults + 1
=============================================================================
