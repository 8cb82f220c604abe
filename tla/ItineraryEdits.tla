-------------------------- MODULE ItineraryEdits --------------------------
(***************************************************************************)
(* The edits of one trip's itinerary: the agent's tools, the hand edits,   *)
(* Reuse, and approval. Every edit is a Prisma transaction of many         *)
(* statements at PostgreSQL's READ COMMITTED, with no lock of its own:     *)
(*   - a statement sees the rows committed when it starts, and its own;    *)
(*   - a row a transaction has written is locked until that one ends, and  *)
(*     another transaction that writes it waits, then goes on with the     *)
(*     values it had computed from what it read before;                    *)
(*   - (itineraryId, dayNumber) and (itineraryDayId, sortOrder) are unique *)
(*     and checked row by row: a write that would repeat a committed key   *)
(*     fails, one that would repeat an uncommitted key waits;              *)
(*   - a write of a row that is gone fails (Prisma's P2025, or the foreign *)
(*     key of an inserted row), and a failed statement undoes the edit;    *)
(*   - a transaction may be undone before any statement (a lost            *)
(*     connection, a deadlock, Prisma's transaction timeout).              *)
(* Only the queries that open an edit, one after the other with no write   *)
(* between them, are taken as one step (Plan).                             *)
(***************************************************************************)
EXTENDS Integers, FiniteSets, Sequences, SequencesExt, Functions

CONSTANTS
  Edits,         \* the requests; each is executed once
  Kinds,         \* the operations they may be
  OldDays,       \* ids of days that are there at the start
  OldItems,      \* ids of items that are there at the start
  Slots,         \* positions a client may name, None for the last
  Custom,        \* items with no place on the map
  Trip, Itin,    \* the ids of the trip row and of the itinerary row
  Start,         \* the tables the run may start with
  None           \* no item: the day's first stop has no route

\* An agentAdd is the addItem of the agent's tool, which goes on to a route.
AddKinds == {"addItem", "agentAdd"}
HandKinds == AddKinds \union {"addDay", "removeDay", "removeItem", "moveItem", "replace"}
StatusKinds == {"approve", "reopen"}
ReuseKinds == {"reuseDay", "reuseItem"}
Structural == {"addDay", "removeDay", "replace", "reuseDay", "reuseItem"}

ASSUME KindAssumption == Kinds \subseteq HandKinds \union StatusKinds \union ReuseKinds
ASSUME SlotAssumption == Slots \subseteq (Nat \ {0}) \union {None}

NewDay(e) == <<"day", e>>
NewItem(e, k) == <<"item", e, k>>
\* A new row's id is that of no other row.
ASSUME IdAssumption ==
  \A e \in Edits : {NewDay(e), NewItem(e, 1), NewItem(e, 2)}
                     \intersect ({Trip, Itin} \union OldDays \union OldItems) = {}

Days == OldDays \union {NewDay(e) : e \in Edits}
Items == OldItems \union {NewItem(e, k) : e \in Edits, k \in 1..2}

\* The values of TripStatus and ItineraryStatus that the lock tells apart.
Approved == "APPROVED_INTERNAL"
Statuses == {"IN_REVIEW", Approved}

VARIABLES
  table,         \* the committed rows of the trip, by id
  edit           \* [Edits -> the transaction of the edit]

editVars == <<table, edit>>

\* Rows: a day or an item has its parent and its dayNumber or sortOrder; a
\* route is the item it starts from; the trip and the itinerary have a status.
Place(parent, at, route) == [in |-> parent, at |-> at, route |-> route]
Header(status, version) == [status |-> status, version |-> version]
PlacesOf(rows) == DOMAIN rows \ {Trip, Itin}
Key(row) == <<row.in, row.at>>

\* What the columns' types and the unique indexes say of the committed rows.
IsRow(row) == row = Place(row.in, row.at, row.route) /\ row.at \in Int
IsHeader(row) == row = Header(row.status, row.version) /\ row.version \in Int
KeysAreUnique(rows) ==
  \A i, j \in PlacesOf(rows) : Key(rows[i]) = Key(rows[j]) => i = j
WellFormed(rows) ==
  /\ IsFiniteSet(DOMAIN rows)
  /\ {Trip, Itin} \subseteq DOMAIN rows /\ IsHeader(rows[Itin])
  /\ \A id \in PlacesOf(rows) : IsRow(rows[id]) /\ rows[id].at >= 0
  /\ KeysAreUnique(rows)
ASSUME StartAssumption ==
  \A rows \in Start :
    /\ WellFormed(rows) /\ DOMAIN rows \subseteq {Trip, Itin} \union OldDays \union OldItems
    /\ \A id \in PlacesOf(rows) : rows[id].in \in DOMAIN rows

Idle == [phase |-> "idle", op |-> [kind |-> "none"], todo |-> << >>, own |-> << >>,
         dropped |-> {}, parents |-> {}, before |-> << >>, alone |-> TRUE]

(***************************************************************************)
(* What a transaction sees.                                                *)
(***************************************************************************)
View(e) ==
  LET own == edit[e].own
  IN [id \in (DOMAIN own \union DOMAIN table) \ edit[e].dropped |->
        IF id \in DOMAIN own THEN own[id] ELSE table[id]]

Children(v, parent) == {id \in DOMAIN v \ {Trip, Itin} : v[id].in = parent}

\* orderBy dayNumber or sortOrder, ascending
Rank(v, rows, id) == 1 + Cardinality({j \in rows : v[j].at < v[id].at})
Ordered(v, rows) == [k \in 1..Cardinality(rows) |-> CHOOSE id \in rows : Rank(v, rows, id) = k]
InOrder(v, parent) == Ordered(v, Children(v, parent))

Mapped(id) == id \notin Custom

\* For each stop on the map of a day, the nearest earlier stop on the map.
RouteStarts(v, day) ==
  LET stops == {id \in Children(v, day) : Mapped(id)}
  IN [id \in stops |->
        LET k == Rank(v, stops, id)
        IN IF k = 1 THEN None ELSE Ordered(v, stops)[k - 1]]

RouteStartsOf(v, days) ==
  LET starts == [d \in days |-> RouteStarts(v, d)]
      stops == UNION {DOMAIN starts[d] : d \in days}
  IN [id \in stops |-> starts[CHOOSE d \in days : id \in DOMAIN starts[d]][id]]


(***************************************************************************)
(* Statements. A writing statement changes rows; a reading one is replaced *)
(* by the writes computed from what it reads.                              *)
(***************************************************************************)
SetAt(id, at) == [do |-> "setAt", id |-> id, at |-> at]
SetDay(id, day) == [do |-> "setDay", id |-> id, day |-> day]
SetRoute(ids, route) == [do |-> "setRoute", ids |-> ids, route |-> route]
SetStatus(id, status) == [do |-> "setStatus", id |-> id, status |-> status]
Insert(id, parent, at) == [do |-> "insert", id |-> id, row |-> Place(parent, at, None)]
Delete(id) == [do |-> "delete", id |-> id]
DeleteDays == [do |-> "deleteDays"]
ShiftItems(day, from, by) == [do |-> "shift", day |-> day, from |-> from, by |-> by]
BumpVersion == [do |-> "bump"]
Resequence(day) == [do |-> "resequence", day |-> day]
RenumberDays == [do |-> "renumber"]
PlaceItem(id, day, slot) == [do |-> "place", id |-> id, day |-> day, slot |-> slot]
ClearRoutes(days) == [do |-> "clear", days |-> days]

Reads == {"resequence", "renumber", "place", "clear"}

\* Rows that are out of place go to scratch - k first, for the unique index.
ParkOutOfPlace(v, rows, scratch) ==
  LET wrong == Ordered(v, {id \in rows : v[id].at # Rank(v, rows, id)})
  IN [k \in DOMAIN wrong |-> SetAt(wrong[k], scratch - Rank(v, rows, wrong[k]))]
NumberFromOne(rows) == [k \in DOMAIN rows |-> SetAt(rows[k], k)]

Clamp(slot, top) == IF slot < 1 THEN 1 ELSE IF slot > top THEN top ELSE slot

PlaceAmongPeers(v, id, day, slot) ==
  LET peers == Ordered(v, Children(v, day) \ {id})
      last == Len(peers) + 1
      desired == IF slot = None THEN last ELSE Clamp(slot, last)
  IN [k \in DOMAIN peers |-> SetAt(peers[k], -99 - k)]
     \o [k \in DOMAIN peers |-> SetAt(peers[k], IF k < desired THEN k ELSE k + 1)]
     \o <<SetAt(id, desired)>>

StaleRoutes(v, days, before) ==
  LET after == RouteStartsOf(v, days)
  IN {id \in DOMAIN after \intersect DOMAIN before : after[id] # before[id]}

\* The writes that a reading statement of edit e turns into.
Expansion(e, s) ==
  LET v == View(e)
  IN CASE s.do = "resequence" ->
            ParkOutOfPlace(v, Children(v, s.day), -99) \o NumberFromOne(InOrder(v, s.day))
       [] s.do = "renumber" ->
            ParkOutOfPlace(v, Children(v, Itin), 0) \o NumberFromOne(InOrder(v, Itin))
       [] s.do = "place" -> PlaceAmongPeers(v, s.id, s.day, s.slot)
       [] s.do = "clear" ->
            LET stale == StaleRoutes(v, s.days, edit[e].before)
            IN IF stale = {} THEN << >> ELSE <<SetRoute(stale, None)>>

\* The rows a statement deletes: a day's items go with it.
Deleted(v, s) ==
  CASE s.do = "delete" -> {s.id} \union Children(v, s.id)
    [] s.do = "deleteDays" -> DOMAIN v \ {Trip, Itin}
    [] OTHER -> {}

\* The rows a statement needs to be there.
Needed(s) ==
  CASE s.do \in {"setAt", "setStatus", "delete"} -> {s.id}
    [] s.do = "setDay" -> {s.id, s.day}
    [] s.do = "insert" -> {s.row.in}
    [] OTHER -> {}

\* The rows a statement writes, with their new values.
Only(id, row) == [x \in {id} |-> row]
Overlay(rows, older) ==
  [x \in DOMAIN rows \union DOMAIN older |-> IF x \in DOMAIN rows THEN rows[x] ELSE older[x]]
Change(v, s) ==
  CASE s.do = "setAt" -> Only(s.id, [v[s.id] EXCEPT !.at = s.at])
    [] s.do = "setDay" -> Only(s.id, [v[s.id] EXCEPT !.in = s.day])
    [] s.do = "setStatus" -> Only(s.id, [v[s.id] EXCEPT !.status = s.status])
    [] s.do = "insert" -> Only(s.id, s.row)
    [] s.do = "bump" -> Only(Itin, [v[Itin] EXCEPT !.version = @ + 1])
    [] s.do = "setRoute" ->
         [id \in s.ids \intersect DOMAIN v |-> [v[id] EXCEPT !.route = s.route]]
    [] s.do = "shift" ->
         [id \in {i \in Children(v, s.day) : v[i].at >= s.from} |-> [v[id] EXCEPT !.at = @ + s.by]]
    [] s.do \in {"delete", "deleteDays"} -> << >>
Written(v, s) == IF Needed(s) \subseteq DOMAIN v THEN Change(v, s) ELSE << >>

\* The days whose row a new or moved item refers to (FOR KEY SHARE).
Referred(s) ==
  Days \intersect (IF s.do = "insert" THEN {s.row.in} ELSE IF s.do = "setDay" THEN {s.day} ELSE {})

(***************************************************************************)
(* Locks and unique keys.                                                  *)
(***************************************************************************)
LockedBy(u) == DOMAIN edit[u].own \union edit[u].dropped

Missing(e, s) == ~ (Needed(s) \subseteq DOMAIN View(e))

\* The statement must wait for another transaction to end.
Blocked(e, s) ==
  LET v == View(e)
      rows == Written(v, s)
      targets == DOMAIN rows \union Deleted(v, s) \union (Needed(s) \ {Itin})
  IN \E u \in Edits \ {e} :
       \/ targets \intersect LockedBy(u) # {}
       \/ (DOMAIN rows \union Deleted(v, s)) \intersect edit[u].parents # {}
       \/ \E id \in PlacesOf(rows) :
            \/ \E other \in PlacesOf(edit[u].own) : Key(edit[u].own[other]) = Key(rows[id])
            \/ \E other \in PlacesOf(table) \intersect LockedBy(u) : Key(table[other]) = Key(rows[id])

\* The statement repeats a key of a row it does not write.
Collides(e, s) ==
  LET v == View(e)
      rows == Written(v, s)
  IN \E id \in PlacesOf(rows), other \in PlacesOf(v) \ DOMAIN rows : Key(rows[id]) = Key(v[other])

\* One UPDATE of many rows fails on a row whose new key is that of a row it has
\* not come to yet; the order is the planner's.
MayCollide(e, s) ==
  /\ s.do = "shift"
  /\ LET v == View(e)
         rows == Written(v, s)
     IN \E i, j \in DOMAIN rows : v[j].at = v[i].at + s.by

(***************************************************************************)
(* The requests.                                                           *)
(***************************************************************************)
Op(kind, id, day, slot, copies) ==
  [kind |-> kind, id |-> id, day |-> day, slot |-> slot, copies |-> copies,
   version |-> table[Itin].version]

Active(e) == edit[e].phase \in {"asked", "begun", "open"}
Editable(v) == v[Itin].status # Approved

\* Edit e is under way from now on: it is alone as long as no other one is.
Enter(e, phase, op) ==
  edit' = [u \in Edits |->
    IF u = e
    THEN [Idle EXCEPT !.phase = phase, !.op = op, !.alone = \A w \in Edits \ {e} : ~Active(w)]
    ELSE IF Active(u) THEN [edit[u] EXCEPT !.alone = FALSE] ELSE edit[u]]

\* The arguments a client may send, by what its page or the agent can see.
HandOps ==
  LET days == Children(table, Itin)
      items == UNION {Children(table, d) : d \in days}
  IN {Op("addDay", None, None, s, 0) : s \in Slots}
     \union {Op("removeDay", d, None, None, 0) : d \in days}
     \union {Op(kind, None, d, s, 0) : kind \in AddKinds, d \in days, s \in Slots}
     \union {Op("removeItem", i, None, None, 0) : i \in items}
     \union {Op("moveItem", i, d, s, 0) : i \in items, d \in days, s \in Slots}
     \union {Op("replace", None, None, s, 0) : s \in Slots \ {None}}

\* $transaction of an edit: assertEditableItinerary
BeginHandEdit(e) ==
  /\ edit[e].phase = "idle"
  /\ Editable(table)
  /\ \E op \in HandOps :
       op.kind \in Kinds /\ Enter(e, "begun", op)
  /\ UNCHANGED table

\* approveTrip, reopenTrip: the query of the trip; include runs another query
\* for the itinerary.
BeginStatusEdit(e) ==
  /\ edit[e].phase = "idle"
  /\ \E kind \in StatusKinds \intersect Kinds :
       Enter(e, "begun", Op(kind, None, None, table[Trip].status, 0))
  /\ UNCHANGED table

\* insertFromRatedHistory reads the target outside the transaction: the day by its
\* index, and the position after its last stop if the client names none.
AskReuse(e) ==
  /\ edit[e].phase = "idle"
  /\ Editable(table)
  /\ LET days == InOrder(table, Itin)
     IN \/ /\ "reuseDay" \in Kinds
           /\ \E index \in 0..Len(days) : Enter(e, "asked", Op("reuseDay", None, None, index, 1))
        \/ /\ "reuseItem" \in Kinds
           /\ \E k \in DOMAIN days, copies \in 1..2 :
                LET stops == InOrder(table, days[k])
                    last == IF stops = << >> THEN 0 ELSE table[Last(stops)].at + 1
                IN \E position \in {s - 1 : s \in Slots \ {None}} \union {last} :
                     Enter(e, "asked", Op("reuseItem", None, days[k], position, copies))
  /\ UNCHANGED table

\* The transaction of what was asked: the status, and for Reuse the version.
BeginAsked(e) ==
  LET op == edit[e].op
      accepted == Editable(table) /\ (op.kind \in ReuseKinds => table[Itin].version = op.version)
  IN /\ edit[e].phase = "asked"
     /\ edit' = [edit EXCEPT ![e].phase = IF accepted THEN "begun" ELSE "failed"]
     /\ UNCHANGED table

(***************************************************************************)
(* The opening reads of a transaction and the statements they lead to.     *)
(***************************************************************************)
(* Mutant: days are shifted without being parked.                          *)
AddDayPlanUnparked(e, v, slot) ==
  LET last == Cardinality(Children(v, Itin)) + 1
      target == Clamp(IF slot = None THEN last ELSE slot, last)
      shifted == Ordered(v, {d \in Children(v, Itin) : v[d].at >= target})
  IN [k \in DOMAIN shifted |-> SetAt(shifted[k], v[shifted[k]].at + 1)]
     \o <<Insert(NewDay(e), Itin, target), BumpVersion>>

AddDayPlan(e, v, slot) ==
  LET last == Cardinality(Children(v, Itin)) + 1
      target == Clamp(IF slot = None THEN last ELSE slot, last)
      shifted == Ordered(v, {d \in Children(v, Itin) : v[d].at >= target})
  IN [k \in DOMAIN shifted |-> SetAt(shifted[k], -k)]
     \o [k \in DOMAIN shifted |-> SetAt(shifted[k], v[shifted[k]].at + 1)]
     \o <<Insert(NewDay(e), Itin, target), BumpVersion>>

(* Mutant: the last slot is not past the last stop.                        *)
InsertionPointsBeforeLast(v, day, slot) ==
  LET stops == Children(v, day)
  IN IF slot = None THEN {Cardinality(stops) + 1} \union {v[i].at : i \in stops}
     ELSE {Clamp(slot, Cardinality(stops))}

\* Without a sortOrder the stop goes before the first stop with a later start
\* time, or last: before any of them, as far as positions can tell.
InsertionPoints(v, day, slot) ==
  LET last == Cardinality(Children(v, day)) + 1
  IN IF slot = None THEN {last} \union {v[i].at : i \in Children(v, day)}
     ELSE {Clamp(slot, last)}

(* Mutant: the routes of the stops that come later stay.                   *)
AddItemPlanUncleared(e, v, day, at) ==
  LET shifted == Reverse(Ordered(v, {i \in Children(v, day) : v[i].at >= at}))
  IN [k \in DOMAIN shifted |-> SetAt(shifted[k], v[shifted[k]].at + 1)]
     \o <<Insert(NewItem(e, 1), day, at)>>

AddItemPlan(e, v, day, at) ==
  LET shifted == Reverse(Ordered(v, {i \in Children(v, day) : v[i].at >= at}))
  IN [k \in DOMAIN shifted |-> SetAt(shifted[k], v[shifted[k]].at + 1)]
     \o <<Insert(NewItem(e, 1), day, at), ClearRoutes({day})>>

MoveItemPlan(v, item, day, slot) ==
  LET from == v[item].in
      across == from # day
  IN <<SetAt(item, -1)>>
     \o (IF across THEN <<SetDay(item, day), Resequence(from)>> ELSE << >>)
     \o <<PlaceItem(item, day, slot)>>
     \o (IF across THEN << >> ELSE <<Resequence(day)>>)
     \o <<ClearRoutes({from, day})>>

ReplacePlan(e, number) ==
  <<DeleteDays, BumpVersion,
    Insert(NewDay(e), Itin, number), Insert(NewItem(e, 1), NewDay(e), 1)>>

(* Mutant: Reuse of a day leaves the version.                              *)
ReuseDayPlanSameVersion(e, v, index) ==
  LET shifted == Reverse(Ordered(v, {d \in Children(v, Itin) : v[d].at >= index + 1}))
  IN [k \in DOMAIN shifted |-> SetAt(shifted[k], -k)]
     \o [k \in DOMAIN shifted |-> SetAt(shifted[k], v[shifted[k]].at + 1)]
     \o <<Insert(NewDay(e), Itin, index + 1), Insert(NewItem(e, 1), NewDay(e), 0)>>

ReuseDayPlan(e, v, index) ==
  LET shifted == Reverse(Ordered(v, {d \in Children(v, Itin) : v[d].at >= index + 1}))
  IN [k \in DOMAIN shifted |-> SetAt(shifted[k], -k)]
     \o [k \in DOMAIN shifted |-> SetAt(shifted[k], v[shifted[k]].at + 1)]
     \o <<Insert(NewDay(e), Itin, index + 1), Insert(NewItem(e, 1), NewDay(e), 0), BumpVersion>>

ReuseItemPlan(e, day, position, copies) ==
  <<ShiftItems(day, position, copies)>>
  \o [k \in 1..copies |-> Insert(NewItem(e, k), day, position + k - 1)]
  \o <<ClearRoutes({day}), BumpVersion>>

ApprovePlan(v, seen) ==
  IF seen = Approved /\ v[Itin].status = Approved THEN << >>
  ELSE <<SetStatus(Trip, Approved)>>
       \o (IF v[Itin].status = Approved THEN << >> ELSE <<SetStatus(Itin, Approved)>>)

ReopenPlan(v, seen) ==
  (IF seen = Approved THEN <<SetStatus(Trip, "IN_REVIEW")>> ELSE << >>)
  \o (IF v[Itin].status = Approved THEN <<SetStatus(Itin, "IN_REVIEW")>> ELSE << >>)

\* The statements the edit may come to.
Plans(e, v, op) ==
  CASE op.kind = "addDay" -> {AddDayPlan(e, v, op.slot)}
    [] op.kind = "removeDay" -> {<<Delete(op.id), RenumberDays, BumpVersion>>}
    [] op.kind \in AddKinds ->
         {AddItemPlan(e, v, op.day, at) : at \in InsertionPoints(v, op.day, op.slot)}
    [] op.kind = "removeItem" ->
         {<<Delete(op.id), Resequence(v[op.id].in), ClearRoutes({v[op.id].in})>>}
    [] op.kind = "moveItem" -> {MoveItemPlan(v, op.id, op.day, op.slot)}
    [] op.kind = "replace" -> {ReplacePlan(e, op.slot)}
    [] op.kind = "reuseDay" -> {ReuseDayPlan(e, v, op.slot)}
    [] op.kind = "reuseItem" -> {ReuseItemPlan(e, op.day, op.slot, op.copies)}
    [] op.kind = "route" -> {<<SetRoute({op.id}, op.slot)>>}
    [] op.kind = "approve" -> {ApprovePlan(v, op.slot)}
    [] op.kind = "reopen" -> {ReopenPlan(v, op.slot)}

\* The day and the item of the request that the edit looks up first.
Subjects(op) ==
  CASE op.kind \in {"removeDay", "removeItem", "route"} -> {op.id}
    [] op.kind \in AddKinds -> {op.day}
    [] op.kind = "moveItem" -> {op.id, op.day}
    [] OTHER -> {}

\* readDayOrders
OrdersBefore(v, op) ==
  CASE op.kind \in AddKinds \union {"reuseItem"} -> RouteStartsOf(v, {op.day})
    [] op.kind = "removeItem" -> RouteStartsOf(v, {v[op.id].in})
    [] op.kind = "moveItem" -> RouteStartsOf(v, {v[op.id].in, op.day})
    [] OTHER -> << >>

Undone(e) == [edit EXCEPT ![e] = [Idle EXCEPT !.phase = "failed"]]

Plan(e) ==
  LET op == edit[e].op
  IN /\ edit[e].phase = "begun"
     /\ UNCHANGED table
     /\ IF Subjects(op) \subseteq DOMAIN table
        THEN \E todo \in Plans(e, table, op) :
               edit' = [edit EXCEPT ![e].phase = "open", ![e].todo = todo,
                                    ![e].before = OrdersBefore(table, op)]
        ELSE edit' = Undone(e)

Next1(e) == Head(edit[e].todo)
Pending(e) == edit[e].phase = "open" /\ edit[e].todo # << >>

Read(e) ==
  /\ Pending(e) /\ Next1(e).do \in Reads
  /\ edit' = [edit EXCEPT ![e].todo = Expansion(e, Next1(e)) \o Tail(@)]
  /\ UNCHANGED table

Write(e) ==
  LET s == Next1(e)
      v == View(e)
  IN /\ Pending(e) /\ s.do \notin Reads
     /\ ~Blocked(e, s) /\ ~Missing(e, s) /\ ~Collides(e, s)
     /\ edit' = [edit EXCEPT ![e].todo = Tail(@),
                             ![e].own = Overlay(Written(v, s), @),
                             ![e].dropped = @ \union Deleted(v, s),
                             ![e].parents = @ \union Referred(s)]
     /\ UNCHANGED table

\* The statement fails, and Prisma undoes the edit.
Fail(e) ==
  LET s == Next1(e)
  IN /\ Pending(e) /\ s.do \notin Reads
     /\ ~Blocked(e, s)
     /\ Missing(e, s) \/ Collides(e, s) \/ MayCollide(e, s)
     /\ edit' = Undone(e)
     /\ UNCHANGED table

\* attachRouteFromPrevious: with the order its addItem has answered, the agent asks
\* the provider for the route from the nearest earlier stop on the map, and stores
\* it with a transaction of its own (updateItem).
RouteAfter(e) ==
  LET item == NewItem(e, 1)
      v == View(e)
  IN IF edit[e].op.kind = "agentAdd" /\ Mapped(item) /\ RouteStarts(v, v[item].in)[item] # None
     THEN {Op("route", item, v[item].in, RouteStarts(v, v[item].in)[item], 0)}
     ELSE {}

Commit(e) ==
  /\ edit[e].phase = "open" /\ edit[e].todo = << >>
  /\ table' = View(e)
  /\ IF RouteAfter(e) = {}
     THEN edit' = [edit EXCEPT ![e] = [Idle EXCEPT !.phase = "done"]]
     ELSE \E op \in RouteAfter(e) :
            edit' = [edit EXCEPT ![e] = [Idle EXCEPT !.phase = "asked", !.op = op,
                                                     !.alone = edit[e].alone]]

\* The transaction is lost between two of its statements.
Abort(e) ==
  /\ edit[e].phase \in {"begun", "open"}
  /\ edit' = Undone(e)
  /\ UNCHANGED table

EditsInit ==
  /\ table \in Start
  /\ edit = [e \in Edits |-> Idle]

EditsNext ==
  \E e \in Edits :
    \/ BeginHandEdit(e) \/ BeginStatusEdit(e) \/ AskReuse(e) \/ BeginAsked(e)
    \/ Plan(e) \/ Read(e) \/ Write(e) \/ Fail(e) \/ Commit(e) \/ Abort(e)

EditsSpec == EditsInit /\ [][EditsNext]_editVars

(***************************************************************************)
(* Properties.                                                             *)
(***************************************************************************)

\* The step with which an edit's transaction commits.
Committing(e) == edit[e].phase = "open" /\ edit'[e].phase \in {"done", "asked"}

\* A scratch position never outlives its transaction: whatever other edits commit
\* between the parking of a row and its numbering, no committed dayNumber or
\* sortOrder is negative (removeDay, addDay, moveItem, resequenceDayItems).
ScratchIsNeverCommitted == \A id \in PlacesOf(table) : table[id].at >= 0

\* An edit with no other one beside it never trips over the unique indexes or a
\* missing row, whatever gaps or zero-based days earlier edits have left. Reuse of
\* stops is the exception: it shifts rows one by one under the unique index.
AloneNeverFails ==
  [][\A e \in Edits : edit[e].alone /\ edit[e].op.kind # "reuseItem" => ~Fail(e)]_editVars

Contiguous(t, parent) ==
  \A k \in DOMAIN InOrder(t, parent) : t[InOrder(t, parent)[k]].at = k

\* The order of a day's stops, or of the days, before and after an edit.
Inserts(old, new, parent, id, slot) ==
  /\ SelectSeq(InOrder(new, parent), LAMBDA i : i # id) = InOrder(old, parent)
  /\ Contiguous(old, parent) =>
       /\ InOrder(new, parent) = InsertAt(InOrder(old, parent), Clamp(slot, Len(InOrder(old, parent)) + 1), id)
       /\ Contiguous(new, parent)
Removes(old, new, parent, id) ==
  /\ InOrder(new, parent) = SelectSeq(InOrder(old, parent), LAMBDA i : i # id)
  /\ Contiguous(new, parent)
Moves(old, new, id, to, slot) ==
  LET peers == SelectSeq(InOrder(old, to), LAMBDA i : i # id)
  IN /\ InOrder(new, to) =
          InsertAt(peers, IF slot = None THEN Len(peers) + 1 ELSE Clamp(slot, Len(peers) + 1), id)
     /\ Contiguous(new, to)
     /\ old[id].in # to => Removes(old, new, old[id].in, id)

\* The places an edit has no business with.
Untouched(old, new, parents, own) ==
  \A id \in PlacesOf(old) \ own : old[id].in \notin parents =>
    id \in DOMAIN new /\ new[id] = old[id]

AsAsked(e, op, old, new) ==
  CASE op.kind = "addDay" ->
         /\ Inserts(old, new, Itin, NewDay(e), IF op.slot = None THEN 99 ELSE op.slot)
         /\ Untouched(old, new, {Itin}, {})
    [] op.kind = "removeDay" ->
         /\ Removes(old, new, Itin, op.id)
         /\ Untouched(old, new, {Itin, op.id}, {})
    [] op.kind \in AddKinds ->
         /\ op.slot # None => Inserts(old, new, op.day, NewItem(e, 1), op.slot)
         /\ SelectSeq(InOrder(new, op.day), LAMBDA i : i # NewItem(e, 1)) = InOrder(old, op.day)
         /\ Untouched(old, new, {op.day}, {})
    [] op.kind = "removeItem" ->
         /\ Removes(old, new, old[op.id].in, op.id)
         /\ Untouched(old, new, {old[op.id].in}, {})
    [] op.kind = "moveItem" ->
         /\ Moves(old, new, op.id, op.day, op.slot)
         /\ Untouched(old, new, {old[op.id].in, op.day}, {})
    [] op.kind = "reuseDay" ->
         /\ Inserts(old, new, Itin, NewDay(e), op.slot + 1)
         /\ Untouched(old, new, {Itin}, {})
    [] op.kind = "reuseItem" ->
         LET copies == [k \in 1..op.copies |-> NewItem(e, k)]
             stops == InOrder(new, op.day)
         IN /\ SelectSeq(stops, LAMBDA i : i \notin ToSet(copies)) = InOrder(old, op.day)
            /\ \E k \in DOMAIN stops : SubSeq(stops, k, k + op.copies - 1) = copies
            /\ Untouched(old, new, {op.day}, {})
    [] op.kind = "replace" -> PlacesOf(new) = {NewDay(e), NewItem(e, 1)}
    [] op.kind = "approve" -> new[Trip].status = Approved /\ new[Itin].status = Approved
    [] op.kind = "reopen" -> new[Trip].status # Approved /\ new[Itin].status # Approved
    [] OTHER -> TRUE

\* What an edit commits that no other one overlapped is the list edit it was asked
\* for (itineraryRepository.ts:179-811, ratedHistoryRepository.ts:432-567): one day or
\* stop is inserted, taken out or moved, the others keep their order, and removing
\* and moving number from one again whatever the positions were before.  That an
\* insertion lands at the slot asked for is claimed of a list whose positions are
\* 1, 2, 3, ... before it; of any other list, and of a copied stop, only that the rest
\* keeps its order and the copies stay together.  A lone approval or reopening
\* brings trip and itinerary together.
EditsAsAsked ==
  [][\A e \in Edits : Committing(e) /\ edit[e].alone => AsAsked(e, edit[e].op, table, table')]_editVars

RouteIsCurrent(t, id) ==
  t[id].route # None => Mapped(id) /\ t[id].route = RouteStarts(t, t[id].in)[id]

\* A lone edit of the order leaves no route from the wrong place where there was none
\* (readDayOrders, clearStaleRoutes). Overlapping edits can.
EditsKeepRoutesCurrent ==
  [][\A e \in Edits : Committing(e) /\ edit[e].alone =>
       \A id \in PlacesOf(table) \intersect PlacesOf(table') :
         table[id].in # Itin /\ RouteIsCurrent(table, id) => RouteIsCurrent(table', id)]_editVars

\* The version counts the committed structural edits: none is lost by two that
\* commit together, so a client's ifMatchVersion cannot match by accident.
VersionCountsEdits ==
  [][\A e \in Edits : Committing(e) =>
       table'[Itin].version = table[Itin].version
                              + IF edit[e].op.kind \in Structural THEN 1 ELSE 0]_editVars

\* What holds of every committed state, however edits overlap.
OverlapIsHarmless == []ScratchIsNeverCommitted /\ VersionCountsEdits
=============================================================================
