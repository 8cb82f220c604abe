---------------------------- MODULE RatedHistory ----------------------------
(***************************************************************************)
(* The picker of well-rated trips and what is copied from them into a      *)
(* draft (ratedHistory/*.ts). Clients rate links and trips and the agency  *)
(* edits its itineraries while a colleague pages through the list, opens a *)
(* trip and inserts stops or days of it. A trip has the one itinerary that *)
(* was created with it, and days are numbered without gaps; what edits do  *)
(* to those numbers, statement by statement, is in ItineraryEdits.         *)
(***************************************************************************)
EXTENDS Integers, Sequences, FiniteSets, FiniteSetsExt, SequencesExt, TLC

CONSTANTS
  Trips, TripDates,      \* trip -> [start, end, month], start and end being numbers or Undated
  LinkTrips,         \* link -> its trip
  FirstPlans,        \* trip -> its itinerary: [version, approved, days]
  CreatedBy,         \* trip -> user
  Callers,           \* <<role, user>>
  Filters,           \* what the list is asked for: [duration, season]
  Selections,        \* what is to be copied: [kind, ids]
  PageSize, MaxRatings, MaxPlanEdits   \* the last two are bounds

Undated == -1
Unasked == 0
AnySeason == "any"
AtEnd == -1          \* no position: after the last stop
Good == 4

ASSUME RatedConstants ==
  /\ DOMAIN TripDates = Trips /\ DOMAIN FirstPlans = Trips /\ DOMAIN CreatedBy = Trips
  /\ PageSize \in Nat \ {0} /\ {MaxRatings, MaxPlanEdits} \subseteq Nat

VARIABLES
  tick, planEdits,   \* ratings are given one at a time; edits made so far
  tripReviews,       \* trip -> [rating, at]
  proposals,         \* link -> [rating, at]
  plans,             \* trip -> itinerary
  browse,            \* who pages through the list
  insert             \* the insertion under way

pool == <<tripReviews, proposals>>
ratedVars == <<tick, planEdits, pool, plans, browse, insert>>

----------------------------------------------------------------------------
(* The list.                                                                 *)
Season(month) ==
  CASE month \in {12, 1, 2} -> "winter"
    [] month \in 3 .. 5 -> "spring"
    [] month \in 6 .. 8 -> "summer"
    [] OTHER -> "fall"

WellRated(rs) == {k \in DOMAIN rs : rs[k].rating >= Good}

(* The best rating of a trip, and the time of its latest.                    *)
Merged(rs) == [rating |-> Max({r.rating : r \in rs}), at |-> Max({r.at : r \in rs})]

Matches(t, f) ==
  LET d == TripDates[t]
  IN /\ f.duration # Unasked => d.start # Undated /\ d.end # Undated /\ d.end - d.start + 1 = f.duration
     /\ f.season # AnySeason => d.start # Undated /\ Season(d.month) = f.season

(* All rows, the latest rated first; `reviewed` was read before the links.   *)
RatedRows(reviewed, ps, f) ==
  LET ReviewOf(t) == {reviewed[x] : x \in {t} \cap DOMAIN reviewed}
      GivenTo(t) == ReviewOf(t) \cup {ps[l] : l \in {k \in WellRated(ps) : LinkTrips[k] = t}}
      rows == {[trip |-> t, dayCount |-> Len(plans[t].days), rating |-> Merged(GivenTo(t)).rating, at |-> Merged(GivenTo(t)).at]
                 : t \in {x \in DOMAIN plans : GivenTo(x) # {} /\ Len(plans[x].days) > 0 /\ Matches(x, f)}}
  IN SetToSortSeq(rows, LAMBDA a, b : a.at > b.at)

Page(rows, n) == SubSeq(rows, (n - 1) * PageSize + 1, Min({n * PageSize, Len(rows)}))
HasMoreAtTheEnd(rows, n) == n * PageSize <= Len(rows)
HasMore(rows, n) == n * PageSize < Len(rows)

(* The first query of a page: the reviews.                                   *)
ListRatedHistory ==
  /\ browse.pc = "idle"
  /\ \E f \in Filters : browse' = [browse EXCEPT !.pc = "reviews", !.filter = f]
  /\ UNCHANGED <<tick, planEdits, pool, plans, insert>>

ReadReviews ==
  /\ browse.pc = "reviews"
  /\ browse' = [browse EXCEPT !.pc = "shares", !.quiet = @ \/ browse.page = 1,
                              !.reviewed = [t \in WellRated(tripReviews) |-> tripReviews[t]]]
  /\ UNCHANGED <<tick, planEdits, pool, plans, insert>>

ReadShares ==
  /\ browse.pc = "shares"
  /\ LET rows == RatedRows(browse.reviewed, proposals, browse.filter)
     IN browse' = [browse EXCEPT !.pc = IF HasMore(rows, browse.page) THEN "reviews" ELSE "done",
                                 !.page = @ + 1, !.reviewed = <<>>, !.seen = Append(@, Page(rows, browse.page))]
  /\ UNCHANGED <<tick, planEdits, pool, plans, insert>>

(* The detail: the trip's review, and any one of its well-rated links.       *)
BestRatings(t) ==
  LET review == {tripReviews[x].rating : x \in {t} \cap WellRated(tripReviews)}
      links == {proposals[l].rating : l \in {k \in WellRated(proposals) : LinkTrips[k] = t}}
  IN {Max({0} \cup review \cup one) : one \in IF links = {} THEN {{}} ELSE {{r} : r \in links}}

----------------------------------------------------------------------------
(* Ratings, and edits of an itinerary. The version moves with its days.      *)
Disturb == browse' = [browse EXCEPT !.quiet = FALSE]

ReviewTrip ==
  /\ tick < MaxRatings /\ tick' = tick + 1 /\ Disturb
  /\ \E t \in DOMAIN plans \ DOMAIN tripReviews, r \in {3, 4} :
       tripReviews' = (t :> [rating |-> r, at |-> tick]) @@ tripReviews
  /\ UNCHANGED <<planEdits, proposals, plans, insert>>

RateLink ==
  /\ tick < MaxRatings /\ tick' = tick + 1 /\ Disturb
  /\ \E l \in DOMAIN LinkTrips, r \in {3, 4, 5} :
       LinkTrips[l] \in DOMAIN plans /\ proposals' = (l :> [rating |-> r, at |-> tick]) @@ proposals
  /\ UNCHANGED <<planEdits, tripReviews, plans, insert>>

Edits(t, p) ==
  /\ planEdits < MaxPlanEdits /\ planEdits' = planEdits + 1 /\ Disturb
  /\ plans' = [plans EXCEPT ![t] = p]
  /\ UNCHANGED <<tick, pool, insert>>

NextPlace(items) == IF DOMAIN items = {} THEN 0 ELSE Max(DOMAIN items) + 1
NewStop == [id |-> -1, what |-> -1, note |-> TRUE, route |-> FALSE]
AddItem ==
  \E t \in DOMAIN plans : \E d \in DOMAIN plans[t].days :
    /\ ~plans[t].approved
    /\ LET items == plans[t].days[d].items
       IN Edits(t, [plans[t] EXCEPT !.days[d].items = (NextPlace(items) :> NewStop) @@ items])

RemoveDay ==
  \E t \in DOMAIN plans : \E d \in DOMAIN plans[t].days :
    /\ ~plans[t].approved
    /\ Edits(t, [plans[t] EXCEPT !.days = RemoveAt(@, d), !.version = @ + 1])

Approve == \E t \in DOMAIN plans : ~plans[t].approved /\ Edits(t, [plans[t] EXCEPT !.approved = TRUE])

----------------------------------------------------------------------------
(* Insertion. The source is read, then the target; the chosen places pass    *)
(* the gate, and one transaction writes them.                                *)
MayWrite(caller, t) == caller[1] \in {"OWNER", "ADMIN"} \/ CreatedBy[t] = caller[2]

ItemIds(day) == {day.items[k].id : k \in DOMAIN day.items}
DayIds(days) == {days[k].id : k \in DOMAIN days}
DayNumber(days, id) == CHOOSE k \in DOMAIN days : days[k].id = id

ValidSelection(sel, days) ==
  CASE sel.kind = "item" -> \E d \in DOMAIN days : ToSet(sel.ids) \subseteq ItemIds(days[d])
    [] sel.kind = "day" -> ToSet(sel.ids) \subseteq DayIds(days)
    [] sel.kind = "segment" ->
         /\ ToSet(sel.ids) \subseteq DayIds(days) /\ IsInjective(sel.ids)
         /\ LET numbers == {DayNumber(days, id) : id \in ToSet(sel.ids)}
            IN numbers = Min(numbers) .. Max(numbers)

GetSourceItinerary(t) == plans[t].days

BeginInsert ==
  /\ insert.pc = "idle"
  /\ \E s, t \in DOMAIN plans, caller \in Callers, sel \in Selections :
       /\ MayWrite(caller, t) /\ ValidSelection(sel, GetSourceItinerary(s))
       /\ \E index \in 0 .. Len(plans[t].days), position \in {AtEnd, 0, 1} :
            /\ sel.kind # "item" => position = AtEnd
            /\ insert' = [pc |-> "target", sel |-> sel, source |-> GetSourceItinerary(s), trip |-> t,
                          version |-> plans[t].version, index |-> index, position |-> position]
  /\ UNCHANGED <<tick, planEdits, pool, plans, browse>>

(* A copy has an id of its own, no note for the former client, and no route. *)
CopyId == 0
Copy(stop) == [stop EXCEPT !.id = CopyId, !.note = FALSE, !.route = FALSE]
AsSequence(items) == [k \in 1 .. Cardinality(DOMAIN items) |->
  items[CHOOSE i \in DOMAIN items : Cardinality({j \in DOMAIN items : j < i}) = k - 1]]

ItemsAsListed(sel, days) ==
  LET day == days[CHOOSE d \in DOMAIN days : ToSet(sel.ids) \subseteq ItemIds(days[d])]
  IN [k \in DOMAIN sel.ids |-> Copy(day.items[CHOOSE i \in DOMAIN day.items : day.items[i].id = sel.ids[k]])]
(* The chosen stops of a day, in its order.                                  *)
PreparedItems(sel, days) ==
  LET day == days[CHOOSE d \in DOMAIN days : ToSet(sel.ids) \subseteq ItemIds(days[d])]
      chosen == SelectSeq(AsSequence(day.items), LAMBDA s : s.id \in ToSet(sel.ids))
  IN [k \in DOMAIN chosen |-> Copy(chosen[k])]

AnchoredDate(t, number) == IF TripDates[t].start = Undated THEN Undated ELSE TripDates[t].start + number - 1

(* The chosen days, a segment in the source's order.                         *)
PreparedDays(sel, days, t, index) ==
  LET Number(id) == DayNumber(days, id)
      ids == IF sel.kind = "segment" THEN SetToSortSeq(ToSet(sel.ids), LAMBDA a, b : Number(a) < Number(b)) ELSE sel.ids
  IN [k \in DOMAIN ids |->
        LET day == days[Number(ids[k])]
            stops == AsSequence(day.items)
        IN [id |-> CopyId, what |-> day.what, date |-> AnchoredDate(t, index + k),
            items |-> [i \in 0 .. Len(stops) - 1 |-> Copy(stops[i + 1])]]]

BuildInsertion ==
  /\ insert.pc = "target"
  /\ LET t == insert.trip
         target == plans[t]
         byItem == insert.sel.kind = "item"
         inRange == insert.index < Len(target.days) \/ (~byItem /\ insert.index = Len(target.days))
     IN insert' =
          IF target.approved \/ ~inRange THEN [pc |-> "refused"]
          ELSE [insert EXCEPT !.pc = "gate",
                  !.position = IF byItem /\ @ = AtEnd THEN NextPlace(target.days[insert.index + 1].items) ELSE @]
  /\ UNCHANGED <<tick, planEdits, pool, plans, browse>>

(* The place gate refuses the whole insertion for one barred place.          *)
PrepareCopiedPlaces ==
  /\ insert.pc = "gate"
  /\ \/ insert' = [insert EXCEPT !.pc = "write"]
     \/ insert' = [pc |-> "refused"]
  /\ UNCHANGED <<tick, planEdits, pool, plans, browse>>

(* Stops from a position on make room; the one after the copies loses its    *)
(* route, which began elsewhere. All stops here are on the map.              *)
WithItems(items, position, new) ==
  LET n == Len(new)
      later == {k \in DOMAIN items : k >= position}
      Kept(k) == IF k < position THEN items[k]
                 ELSE IF k - n = Min(later) THEN [items[k - n] EXCEPT !.route = FALSE] ELSE items[k - n]
  IN [k \in (DOMAIN items \ later) \cup {j + n : j \in later} |-> Kept(k)]
       @@ [k \in position .. position + n - 1 |-> new[k - position + 1]]

InsertItemsTransactional ==
  /\ insert.pc = "write"
  /\ LET t == insert.trip
         p == plans[t]
         days == IF insert.sel.kind = "item"
                 THEN [p.days EXCEPT ![insert.index + 1].items = WithItems(@, insert.position, PreparedItems(insert.sel, insert.source))]
                 ELSE SubSeq(p.days, 1, insert.index) \o PreparedDays(insert.sel, insert.source, t, insert.index)
                        \o SubSeq(p.days, insert.index + 1, Len(p.days))
     IN IF p.approved \/ p.version # insert.version
        THEN insert' = [pc |-> "refused"] /\ UNCHANGED <<plans, browse>>
        ELSE /\ plans' = [plans EXCEPT ![t].days = days, ![t].version = @ + 1]
             /\ insert' = [pc |-> "done"] /\ Disturb
  /\ UNCHANGED <<tick, planEdits, pool>>

RatedInit ==
  /\ tick = 0 /\ planEdits = 0
  /\ tripReviews = <<>> /\ proposals = <<>> /\ plans = FirstPlans
  /\ browse = [pc |-> "idle", filter |-> <<>>, page |-> 1, reviewed |-> <<>>, seen |-> <<>>, quiet |-> FALSE]
  /\ insert = [pc |-> "idle"]

EditNext == AddItem \/ RemoveDay \/ Approve
ListNext == ListRatedHistory \/ ReadReviews \/ ReadShares \/ ReviewTrip \/ RateLink
InsertNext == BeginInsert \/ BuildInsertion \/ PrepareCopiedPlaces \/ InsertItemsTransactional

----------------------------------------------------------------------------
(* Pages that nobody disturbed hold every trip with a good rating from       *)
(* either source once, the latest rated first, all full but the last, and    *)
(* "more" never leads to nothing. A row carries the best of the trip's       *)
(* ratings and the time of its latest, and is the detail's rating too unless *)
(* several links were rated well (ratedHistoryRepository.ts:49-54,           *)
(* ratedHistoryService.ts:215-233).                                          *)
GoodRatings(t) ==
  {tripReviews[x] : x \in {t} \cap WellRated(tripReviews)}
    \cup {proposals[l] : l \in {k \in WellRated(proposals) : LinkTrips[k] = t}}
ListIsComplete ==
  browse.pc = "done" /\ browse.quiet =>
    LET rows == FlattenSeq(browse.seen)
        wanted == {t \in DOMAIN plans : GoodRatings(t) # {} /\ plans[t].days # <<>> /\ Matches(t, browse.filter)}
    IN /\ {rows[i].trip : i \in DOMAIN rows} = wanted /\ Len(rows) = Cardinality(wanted)
       /\ \A i, j \in DOMAIN rows : i < j => rows[i].at > rows[j].at
       /\ \A n \in DOMAIN browse.seen :
            IF n < Len(browse.seen) THEN Len(browse.seen[n]) = PageSize ELSE n > 1 => browse.seen[n] # <<>>
       /\ \A i \in DOMAIN rows :
            LET r == rows[i]
                given == GoodRatings(r.trip)
            IN /\ \A g \in given : g.rating <= r.rating /\ g.at <= r.at
               /\ r.rating \in {g.rating : g \in given} /\ r.at \in {g.at : g \in given}
               /\ BestRatings(r.trip) = {r.rating} \/ Cardinality({l \in WellRated(proposals) : LinkTrips[l] = r.trip}) > 1

(* What was chosen arrives whole, whatever was edited while it was checked:  *)
(* the copies stand together at the place asked for and in the source's      *)
(* order, everything the target had keeps its order around them, copied days *)
(* have the date of the number they ended with, and no stop keeps a note of  *)
(* the former client or a route from a stop that is no longer before it      *)
(* (ratedHistoryService.ts:255-258, ratedHistoryRepository.ts:554-556).      *)
Whats(seq) == [k \in DOMAIN seq |-> seq[k].what]
CopiedAt(seq) == {k \in DOMAIN seq : seq[k].id = CopyId}
FitsIn(old, new) ==
  /\ CopiedAt(new) = Min(CopiedAt(new)) .. Max(CopiedAt(new))
  /\ Whats(SelectSeq(new, LAMBDA x : x.id # CopyId)) = Whats(old)
RoutesHold(stops) ==
  \A k \in DOMAIN stops : stops[k].route => k > 1 /\ {k - 1, k} \cap CopiedAt(stops) = {}
Inserts == insert.pc = "write" /\ insert'.pc = "done"
CopiesFitIn ==
  [][Inserts =>
       LET sel == insert.sel
           source == insert.source
           p == plans[insert.trip].days
           q == plans'[insert.trip].days
           copies == CopiedAt(q)
           here == insert.index + 1
       IN IF sel.kind = "item"
          THEN LET old == AsSequence(p[here].items)
                   new == AsSequence(q[here].items)
                   arrived == {new[k].what : k \in CopiedAt(new)}
               IN /\ Len(q) = Len(p) /\ \A d \in DOMAIN p \ {here} : q[d] = p[d]
                  /\ FitsIn(old, new) /\ RoutesHold(new)
                  /\ \E d \in DOMAIN source :
                       LET day == AsSequence(source[d].items)
                           chosen == {k \in DOMAIN day : day[k].id \in ToSet(sel.ids)}
                       IN /\ arrived = {day[k].what : k \in chosen}
                          /\ \A i, j \in chosen : i < j =>
                               \E x, y \in CopiedAt(new) : x < y /\ new[x].what = day[i].what /\ new[y].what = day[j].what
          ELSE /\ FitsIn(p, q) /\ Min(copies) = here /\ Cardinality(copies) = Len(sel.ids)
               /\ \A k \in copies :
                    LET from == source[CHOOSE d \in DOMAIN source : source[d].what = q[k].what]
                        stops == AsSequence(q[k].items)
                    IN /\ Whats(stops) = Whats(AsSequence(from.items))
                       /\ q[k].date = AnchoredDate(insert.trip, k)
                       /\ \A i \in DOMAIN stops : ~stops[i].note /\ ~stops[i].route
               /\ sel.kind = "segment" =>
                    \A k \in copies \ {here} : \E d \in DOMAIN source \ {1} :
                      source[d].what = q[k].what /\ source[d - 1].what = q[k - 1].what]_ratedVars
=============================================================================
