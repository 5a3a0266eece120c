---------------------------- MODULE MintOutcomes ----------------------------
(***************************************************************************)
(* What the mint-burn service promises the services that send it orders:   *)
(* an order opens at most one saga, the saga has at most one outcome, and  *)
(* that outcome, nothing else, is announced, once as far as the event bus  *)
(* can tell.  MintSaga with one worker implements it.                      *)
(***************************************************************************)
CONSTANT Allocations

VARIABLES
    outcome,    \* allocation id -> where its saga stands
    announced   \* messages [subject, id] the event bus has accepted

Outcomes == {"completed", "failed"}

OutcomeSubject == [completed |-> "mint.executed", failed |-> "mint.failed"]

OutcomesInit ==
    /\ outcome = [a \in Allocations |-> "none"]
    /\ announced = {}

\* The unique index on the allocation id admits one row.
Open(a) ==
    /\ outcome[a] = "none"
    /\ outcome' = [outcome EXCEPT ![a] = "open"]
    /\ UNCHANGED announced

Finish(a) ==
    /\ outcome[a] = "open"
    /\ \E o \in Outcomes : outcome' = [outcome EXCEPT ![a] = o]
    /\ UNCHANGED announced

Announce(a) ==
    /\ outcome[a] \in Outcomes
    /\ announced' = announced \cup {[subject |-> OutcomeSubject[outcome[a]], id |-> a]}
    /\ UNCHANGED outcome

OutcomesNext == \E a \in Allocations : Open(a) \/ Finish(a) \/ Announce(a)

OutcomesSpec == OutcomesInit /\ [][OutcomesNext]_<<outcome, announced>>
=============================================================================
