----------------------------- MODULE AuditTrail -----------------------------
(***************************************************************************)
(* backend/services/audit, what Bookkeeping leaves out: what an entry of   *)
(* the trail says about its event, and whether somebody who reads          *)
(* GET /audit/logs page by page, while entries come in, sees all of it.    *)
(*                                                                         *)
(* Abstracted: ids; the filters by actor, action and time, which select    *)
(* like the one by entity; the lookup of one entry; and the limit of 200   *)
(* entries a page, which is what PageSize stands for.                      *)
(***************************************************************************)
EXTENDS Faults, FiniteSets, Sequences, SequencesExt

CONSTANTS
    Events,       \* event id -> [type, aggregate, order_id, occurred_at]
    PageSize

ASSUME TrailAssumption ==
    PageSize \in Nat \ {0} /\ \A e \in DOMAIN Events : Events[e].occurred_at \in Nat

VARIABLES
    entries,      \* audit.entries: what is said of an event, with its id
    reading       \* a walk through the pages: [stage, entity, offset, there, seen]

trailVars == <<entries, reading>>

NoReading == [stage |-> "idle", entity |-> "any", offset |-> 0, there |-> {}, seen |-> {}]

\* The kinds of entity the type of an event names; a type that is not listed has none.
classifyEvent(type) ==
    CASE type \in {"order.created", "order.ready_to_mint", "order.cancelled"} -> "order"
      [] type \in {"mint.executed", "mint.failed"} -> "saga"
      [] OTHER -> "unknown"

\* The entity an event is about: its aggregate, or the order of its data.
extractIDs(e) == IF Events[e].aggregate = "" THEN Events[e].order_id ELSE Events[e].aggregate

Entry(e) == [event |-> e, entity_type |-> classifyEvent(Events[e].type),
             entity_id |-> extractIDs(e), occurred_at |-> Events[e].occurred_at]

Matching(rows, entity) ==
    {r \in rows : entity = "any" \/ (r.entity_id = entity /\ r.entity_type = "order")}

-----------------------------------------------------------------------------
\* ON CONFLICT (event_id, occurred_at) DO NOTHING.  Events come in any order, and again
\* if the handler fails after its insert.
Insert(e) ==
    /\ entries' = entries \cup {Entry(e)}
    /\ UNCHANGED <<faults, reading>>

\* GET /audit/logs, of one order or of everything.
listLogs ==
    /\ reading = NoReading
    /\ \E entity \in {"any"} \cup {Events[e].order_id : e \in DOMAIN Events} :
          reading' = [reading EXCEPT !.stage = "page", !.entity = entity,
                                     !.there = Matching(entries, entity)]
    /\ UNCHANGED <<faults, entries>>

\* ORDER BY occurred_at DESC: entries of one time in any order, another one each time.
List(entity) ==
    {rows \in SetToSeqs(Matching(entries, entity)) :
       \A i, j \in DOMAIN rows : i < j => rows[i].occurred_at >= rows[j].occurred_at}

\* The next page, until one is not full.
nextPage ==
    /\ reading.stage = "page"
    /\ \/ /\ \E rows \in List(reading.entity) :
                LET from == reading.offset
                    page == {rows[i] : i \in DOMAIN rows \cap (from + 1)..(from + PageSize)}
                IN  reading' = [reading EXCEPT
                       !.seen = @ \cup page,
                       !.offset = @ + PageSize,
                       !.stage = IF Cardinality(page) < PageSize THEN "done" ELSE "page"]
          /\ UNCHANGED faults
       \/ reading' = [reading EXCEPT !.stage = "failed"] /\ Fault
    /\ UNCHANGED entries

-----------------------------------------------------------------------------
TrailInit == entries = {} /\ reading = NoReading

TrailNext == (\E e \in DOMAIN Events : Insert(e)) \/ listLogs \/ nextPage

TrailSpec == TrailInit /\ [][TrailNext]_<<faults, trailVars>>

-----------------------------------------------------------------------------
(* Properties *)

\* The state is well typed, and what somebody reads is in the trail.
TrailTypeOK ==
    /\ entries \subseteq {Entry(e) : e \in DOMAIN Events} /\ IsFiniteSet(entries)
    /\ reading \in [stage : {"idle", "page", "done", "failed"},
                    entity : {"any"} \cup {Events[e].order_id : e \in DOMAIN Events}, offset : Nat,
                    there : SUBSET Matching(entries, reading.entity),
                    seen : SUBSET Matching(entries, reading.entity)]

\* Who reads to the last page has seen every entry that was there when the reading
\* began, though others came in before, between and after them and moved the pages;
\* except that one of two entries of the same time may be missed.
PagesMissNothing ==
    reading.stage = "done" =>
       \A r \in reading.there :
          \/ r \in reading.seen
          \/ \E q \in entries \ {r} : q.occurred_at = r.occurred_at
=============================================================================
