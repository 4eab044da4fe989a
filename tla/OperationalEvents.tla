--------------------------- MODULE OperationalEvents ---------------------------
(***************************************************************************)
(* OperationalEventService over the operational_events table: record(),    *)
(* which never throws, and the pages an administrator reads by cursor.     *)
(*                                                                         *)
(* The table draws an id before the insert commits, so rows become visible *)
(* in an order that is not that of their ids.  Nothing deletes a row.  Of  *)
(* an event only its name is kept; the filters on the other columns work   *)
(* like the one on it.                                                     *)
(***************************************************************************)
EXTENDS Integers, Sequences, SequencesExt

CONSTANTS Names,        \* event names
          Filters,      \* the names asked for, Undefined for all
          Limits,       \* limit arguments of the requests, Undefined for none
          DefaultLimit, \* DEFAULT_LIMIT, 50 in the code
          MaxLimit,     \* MAX_LIMIT, 200 in the code
          Undefined,
          MaxEvents     \* bound: events ever recorded

ASSUME LimitsAssumption ==
  /\ Limits \ {Undefined} \subseteq Int /\ Undefined \notin Names
  /\ Filters \subseteq Names \cup {Undefined}
  /\ MaxLimit \in Nat \ {0} /\ DefaultLimit \in 1..MaxLimit /\ MaxEvents \in Nat

VARIABLES event,     \* event[id]: the name of each event an id was drawn for
          inserting, \* the inserts that have not ended
          stored,    \* the rows of the table
          returned,  \* history: the events whose record() has returned
          walk       \* an administrator's way through the pages, or NoWalk

eventVars == <<event, inserting, stored, returned, walk>>

EventIds == DOMAIN event
NoCursor == 0
NoWalk == [cursor |-> NoCursor]
Walk == [filter : Filters, got : Seq(EventIds), cursor : EventIds \cup {NoCursor},
         due : SUBSET EventIds]

EventsTypeOK ==
  /\ event \in Seq(Names) /\ Len(event) <= MaxEvents
  /\ inserting \subseteq EventIds /\ stored \subseteq EventIds \ inserting
  /\ returned \subseteq EventIds
  /\ walk \in Walk \cup {NoWalk}

EventsInit == event = <<>> /\ inserting = {} /\ stored = {} /\ returned = {} /\ walk = NoWalk

-----------------------------------------------------------------------------
(* record(): the insert begins; it commits or fails, and the error is only logged. *)
BeginRecord(name) ==
  /\ Len(event) < MaxEvents
  /\ event' = Append(event, name)
  /\ inserting' = inserting \cup {Len(event) + 1}

EndInsert(id) ==
  /\ id \in inserting
  /\ inserting' = inserting \ {id}
  /\ stored' \in {stored, stored \cup {id}}
  /\ UNCHANGED <<event, returned, walk>>

(* The caller goes on when its insert has ended, whichever way. *)
Recorded(id) == id \notin inserting

-----------------------------------------------------------------------------
ClampLimit(limit) ==
  IF limit = Undefined THEN DefaultLimit ELSE Min({Max({limit, 1}), MaxLimit})

Matching(filter) == {id \in stored : filter \in {Undefined, event[id]}}

(* ORDER BY id DESC: there is one such sequence of the rows. *)
Descending(rows) == \A i, j \in DOMAIN rows : i < j => rows[i] > rows[j]
OrderedById(ids) == CHOOSE rows \in SetToSeqs(ids) : Descending(rows)

(* From the cursor's row on; skip: 1 leaves that row out. *)
Skip_None(cursor) == 0 \* mutated: no skip
Skip(cursor) == IF cursor = NoCursor THEN 0 ELSE 1
Found(filter, cursor) ==
  LET from == {id \in Matching(filter) : cursor # NoCursor => id <= cursor}
      rows == OrderedById(from)
  IN  SubSeq(rows, Skip(cursor) + 1, Len(rows))

(* One row more than asked for is taken, to see whether there is another page. *)
NextCursor_Extra(rows, limit) == IF Len(rows) > limit THEN rows[limit + 1] ELSE NoCursor \* mutated: the extra row
NextCursor(rows, limit) == IF Len(rows) > limit THEN rows[limit] ELSE NoCursor
FindMany(filter, limit, cursor) ==
  LET n == ClampLimit(limit)
      rows == Found(filter, cursor)
  IN  [items |-> SubSeq(rows, 1, Min({n, Len(rows)})), nextCursor |-> NextCursor(rows, n)]

(* GET /admin/events without a cursor; what is stored by now, or has been reported *)
(* to the caller of record() as done, is due in this walk.                         *)
FirstPage(filter, limit) ==
  LET page == FindMany(filter, limit, NoCursor) IN
  /\ walk = NoWalk
  /\ walk' = [filter |-> filter, got |-> page.items, cursor |-> page.nextCursor,
              due |-> Matching(filter) \cup {id \in returned : filter \in {Undefined, event[id]}}]
  /\ UNCHANGED <<event, inserting, stored, returned>>

(* The next page, with the cursor of the one before and the same filter. *)
NextPage(limit) ==
  LET page == FindMany(walk.filter, limit, walk.cursor) IN
  /\ walk.cursor # NoCursor
  /\ walk' = [walk EXCEPT !.got = @ \o page.items, !.cursor = page.nextCursor]
  /\ UNCHANGED <<event, inserting, stored, returned>>

EndWalk == walk # NoWalk /\ walk' = NoWalk /\ UNCHANGED <<event, inserting, stored, returned>>

EventsStep ==
  \/ \E id \in EventIds : EndInsert(id)
  \/ \E limit \in Limits : NextPage(limit) \/ \E filter \in Filters : FirstPage(filter, limit)
  \/ EndWalk
=============================================================================
