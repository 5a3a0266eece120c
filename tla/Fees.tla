-------------------------------- MODULE Fees --------------------------------
(***************************************************************************)
(* backend/services/fee, what Bookkeeping leaves out: which tier an amount *)
(* falls in and what it costs, as GET /fees/calculate quotes it and as the *)
(* consumer of order.created later books it, while PATCH /fees/schedule    *)
(* changes the tiers.                                                      *)
(*                                                                         *)
(* Abstracted: amounts are small integers, the real ones of 18 decimals    *)
(* more; orders of one operation; the lists the service answers; how often *)
(* an order is booked, which is Bookkeeping's.                             *)
(***************************************************************************)
EXTENDS Faults, Integers

CONSTANTS
    Orders,
    Patches,     \* PATCH /fees/schedule/{id} requests
    Schedules,   \* fee.schedules at the start: id -> row; nothing inserts one
    Changes,     \* what a patch may ask: functions from some of the fields to values
    Grams        \* amounts as they are typed, in tenths of a wei

Arenas == {"TR", "global"}
NoFee == -1      \* no tier was found
NULL == 0        \* tier_max_grams_wei IS NULL: no upper end

Rows == [arena : Arenas, from : Nat, to : Nat, fee_bps : Int, min_fee : Int, active : BOOLEAN]

\* Digits past the last place are cut off.
gramsToWei(grams) == grams \div 10

Covers(row, amount) == row.from <= amount /\ (row.to = NULL \/ amount < row.to)

\* A patch asks for a fee, a least fee or whether the tier is active, and nothing else.
ASSUME FeesAssumption ==
    /\ Grams \subseteq Nat
    /\ Schedules \in [DOMAIN Schedules -> Rows]
    /\ \A asked \in Changes : \A field \in DOMAIN asked :
          \/ field \in {"fee_bps", "min_fee"} /\ asked[field] \in Int
          \/ field = "active" /\ asked[field] \in BOOLEAN

\* The tiers of an arena are one after the other, as those of the migration, where
\* ORDER BY would leave it open which comes first.
ASSUME TiersDoNotOverlap ==
    \A id1, id2 \in DOMAIN Schedules : \A grams \in Grams :
       /\ Schedules[id1].arena = Schedules[id2].arena
       /\ Covers(Schedules[id1], gramsToWei(grams)) /\ Covers(Schedules[id2], gramsToWei(grams))
       => id1 = id2

VARIABLES
    schedules,   \* fee.schedules: id -> [arena, from, to, fee_bps, min_fee, active]
    patch,       \* request -> [stage, id, asked, read]
    order,       \* order -> [stage, arena, amount, quote, fee]
    stale        \* orders that were on their way when a schedule changed

feeVars == <<schedules, patch, order, stale>>

NoPatch == [stage |-> "idle"]
NoOrder == [stage |-> "idle", arena |-> "global", amount |-> 0, quote |-> NoFee, fee |-> NoFee]

\* The rows ORDER BY may put first: the arena's own before the global ones.
FindTier(arena, amount) ==
    LET fits == {id \in DOMAIN schedules :
                   /\ schedules[id].arena \in {arena, "global"} /\ schedules[id].active
                   /\ Covers(schedules[id], amount)}
        own == {id \in fits : schedules[id].arena = arena}
    IN  IF own # {} THEN own ELSE fits

Charge(row, amount) ==
    LET fee == (amount * row.fee_bps) \div 10000
    IN  IF fee < row.min_fee THEN row.min_fee ELSE fee

\* The consumer has the formula once more.
Booked(row, amount) ==
    LET fee == (amount * row.fee_bps) \div 10000
    IN  IF fee < row.min_fee THEN row.min_fee ELSE fee

-----------------------------------------------------------------------------
\* GET /fees/calculate, for an order placed afterwards.
calculate(o) ==
    /\ order[o] = NoOrder
    /\ \E arena \in Arenas, grams \in Grams :
          LET amount == gramsToWei(grams)
              tiers == FindTier(arena, amount)
              quoted(fee) == order' = [order EXCEPT ![o] =
                 [stage |-> "placed", arena |-> arena, amount |-> amount, quote |-> fee, fee |-> NoFee]]
          IN  /\ amount > 0
              /\ \/ \E id \in tiers : quoted(Charge(schedules[id], amount))
                 \/ tiers = {} /\ quoted(NoFee)
    /\ UNCHANGED <<faults, schedules, patch, stale>>

\* order.created: the tier, or no fee, also when the query for the tier fails.
bookFee(o) ==
    /\ order[o].stage = "placed"
    /\ LET tiers == FindTier(order[o].arena, order[o].amount)
       IN  \/ \E id \in tiers :
                 order' = [order EXCEPT ![o].stage = "book",
                                        ![o].fee = Booked(schedules[id], order[o].amount)]
              /\ UNCHANGED faults
           \/ tiers = {} /\ order' = [order EXCEPT ![o].stage = "free"] /\ UNCHANGED faults
           \/ order' = [order EXCEPT ![o].stage = "free"] /\ Fault
    /\ UNCHANGED <<schedules, patch, stale>>

\* The ledger entry; if the insert fails the order comes again.
CreateEntry(o) ==
    /\ order[o].stage = "book"
    /\ \/ order' = [order EXCEPT ![o].stage = "booked"] /\ UNCHANGED faults
       \/ order' = [order EXCEPT ![o].stage = "placed", ![o].fee = NoFee] /\ Fault
    /\ UNCHANGED <<schedules, patch, stale>>

-----------------------------------------------------------------------------
(* PATCH /fees/schedule/{id} *)

\* The fields asked for, and the others as they are.
Patched(asked, row) ==
    [field \in DOMAIN row |-> IF field \in DOMAIN asked THEN asked[field] ELSE row[field]]

\* Reads the row ...
updateSchedule(p) ==
    /\ patch[p] = NoPatch
    /\ \E id \in DOMAIN schedules, asked \in Changes :
          patch' = [patch EXCEPT ![p] =
                      [stage |-> "write", id |-> id, asked |-> asked, read |-> schedules[id]]]
    /\ UNCHANGED <<faults, schedules, order, stale>>

\* ... and writes all its fields: those asked for, and the others as they were read.
UpdateRow(p) ==
    /\ patch[p].stage = "write"
    /\ \/ /\ schedules' = [schedules EXCEPT ![patch[p].id] = Patched(patch[p].asked, patch[p].read)]
          /\ stale' = stale \cup {o \in Orders : order[o].stage \in {"placed", "book"}}
          /\ patch' = [patch EXCEPT ![p].stage = "done"]
          /\ UNCHANGED faults
       \/ /\ patch' = [patch EXCEPT ![p].stage = "failed"]
          /\ Fault /\ UNCHANGED <<schedules, stale>>
    /\ UNCHANGED order

-----------------------------------------------------------------------------
FeesInit ==
    /\ schedules = Schedules
    /\ patch = [p \in Patches |-> NoPatch]
    /\ order = [o \in Orders |-> NoOrder]
    /\ stale = {}

FeesNext ==
    \/ \E o \in Orders : calculate(o) \/ bookFee(o) \/ CreateEntry(o)
    \/ \E p \in Patches : updateSchedule(p) \/ UpdateRow(p)

FeesSpec == FeesInit /\ faults = 0 /\ [][FeesNext]_<<faults, feeVars>>

-----------------------------------------------------------------------------
(* Properties *)

\* The state is well typed.
FeesTypeOK ==
    /\ schedules \in [DOMAIN Schedules -> Rows]
    /\ patch \in [Patches -> {NoPatch} \cup
         [stage : {"write", "done", "failed"}, id : DOMAIN Schedules, asked : Changes, read : Rows]]
    /\ order \in [Orders -> [stage : {"idle", "placed", "book", "booked", "free"}, arena : Arenas,
                             amount : Nat, quote : Int, fee : Int]]
    /\ stale \subseteq Orders
    /\ faults \in Nat

\* An order is booked at the fee it was quoted, and booked unless none was quoted,
\* while no change of the schedules or failure comes between the two; and of two
\* patches of a tier that race, the one that writes last has all it asked for,
\* though it may undo the other's.
FeesFollowTheSchedule ==
    /\ \A o \in Orders \ stale :
          /\ order[o].stage = "booked" => order[o].fee = order[o].quote
          /\ order[o].stage = "free" => order[o].quote = NoFee \/ faults > 0
    /\ \A id \in DOMAIN schedules :
          LET done == {p \in Patches : patch[p].stage = "done" /\ patch[p].id = id}
          IN  done # {} => \E p \in done :
                 \A field \in DOMAIN patch[p].asked : schedules[id][field] = patch[p].asked[field]
=============================================================================
