--------------------------- MODULE PlaceSelection ---------------------------
(***************************************************************************)
(* Which places may be offered to an agent or attached to an itinerary     *)
(* (services/places: placeGate, placeSelectionService; modules/itineraries:*)
(* itineraryPlaceGuard; the map tools of the agent).  A session belongs to *)
(* one run or request and has read the agency's notes once; the stored     *)
(* snapshots of places are shared, and every run, read and refresh writes  *)
(* into them what the provider told it, at the time it was told.           *)
(***************************************************************************)
EXTENDS Naturals, FiniteSets, Sequences, SequencesExt, FiniteSetsExt

CONSTANTS
  Sessions, Places, Names, Cities, None,
  NameOf,       \* the name of a place; places may share one
  NoteSets,     \* the notes the agency may have when a session reads them
  Asks,         \* what callers ask for: see Begin
  StartStops,   \* the places of the stored stops
  Ttl,          \* ttlMs
  MaxTime, MaxOps

Open == "OPERATIONAL"
Closed == "CLOSED_PERMANENTLY"
Precedence == [CLOSED |-> 0, AVOID |-> 1, PREFERRED |-> 2, NEUTRAL |-> 3]

\* AgencyPlaceNote, and an item of a request; each part may be missing.
Notes == [id : Places \union {None}, name : Names, city : Cities \union {None},
          status : DOMAIN Precedence]
Items == [id : Places \union {None}, name : Names \union {None}, city : Cities \union {None}]
Operations == {"add", "update", "replace", "search", "pinpoint"}

ASSUME SelectionConstants ==
  /\ None \notin Places \union Names \union {Open, Closed}
  /\ NameOf \in [Places -> Names]
  /\ NoteSets \subseteq SUBSET Notes
  /\ \A a \in Asks : /\ a.op \in Operations /\ a.slot \in Nat /\ a.items \in Seq(Items)
                     /\ a.op = "update" => Len(a.items) = 1
  /\ StartStops \in Seq(Places \union {None})
  /\ {Ttl, MaxTime, MaxOps} \subseteq Nat

VARIABLES
  row,        \* PlaceSnapshot by place: [status, at, point], None when there is none
  stops,      \* the places of the stored itinerary's items
  session,    \* per session: the gate's notes and the memo of lookups
  ops,        \* operations so far
  req,        \* the operation of a session that is under way
  clock,
  since       \* history: the places recorded closed ever since the operation began

vars == <<row, stops, session, ops, req, clock, since>>

Idle == [pc |-> "idle"]
Status(r) == [status |-> r.status, at |-> r.at]
Recorded(rows, st) == {p \in Places : rows[p] # None /\ rows[p].status = st}
NewSession == [gate |-> None, memo |-> [n \in Names |-> None]]

Init ==
  /\ stops = StartStops /\ ops = 0
  /\ row = [p \in Places |-> IF p \in ToSet(StartStops)
                             THEN [status |-> None, at |-> 0, point |-> TRUE] ELSE None]
  /\ session = [s \in Sessions |-> NewSession] /\ req = [s \in Sessions |-> Idle]
  /\ clock = 1 /\ since = [s \in Sessions |-> {}]

-----------------------------------------------------------------------------
(* buildPlaceGate: the verdict of an agency's notes and a status.            *)
\* A note with a known place matches that place only, and then alone counts; the
\* others match by name, within their city if they have one.
Lookup(gate, place) ==
  LET exact == {n \in gate : n.id # None /\ n.id = place.id}
      named == {n \in gate : n.id = None /\ n.name = place.name
                             /\ (n.city = None \/ n.city = place.city)}
  IN IF exact # {} THEN exact ELSE named

MostSpecific(found) ==
  IF found = {} THEN "NEUTRAL"
  ELSE (CHOOSE n \in found : \A m \in found : Precedence[n.status] <= Precedence[m.status]).status

Check(gate, place, status) ==
  LET note == MostSpecific(Lookup(gate, place))
  IN IF note = "CLOSED" THEN "AGENCY_CLOSED" ELSE IF note = "AVOID" THEN "AGENCY_AVOID"
     ELSE IF status = Closed THEN Closed ELSE "allowed"

\* createPlaceGate: the notes as they are now; a failed query leaves a gate without.
\* What a session that begins nothing more remembers is forgotten, to save states.
LoadGate(s, gate) ==
  session' = [t \in Sessions |->
    IF t = s THEN [session[s] EXCEPT !.gate = IF @ = None THEN gate ELSE @]
    ELSE IF req[t] = Idle /\ ops + 1 = MaxOps THEN NewSession ELSE session[t]]

-----------------------------------------------------------------------------
(* An operation begins: add, update or replace stops, or search for places.  *)
(* An item is [id, name, city], each None when it is not given.              *)
At(s, pc) == req[s].pc = pc
Goes(s, q) == req' = [req EXCEPT ![s] = q]
Ends(s) == Goes(s, Idle)
CountIn(seq, p) == Cardinality({i \in DOMAIN seq : seq[i] = p})
NoAsk == [id |-> None, name |-> None, city |-> None]

Begin(s) ==
  /\ At(s, "idle") /\ ops < MaxOps /\ ops' = ops + 1
  /\ \E a \in Asks, gate \in NoteSets \union {{}} :
       /\ a.op = "update" => a.slot \in DOMAIN stops
       /\ LoadGate(s, gate)
       /\ Goes(s, [pc |-> IF a.op \in {"search", "pinpoint"} THEN "answer" ELSE "next", op |-> a.op, slot |-> a.slot,
                   todo |-> a.items, done |-> <<>>, read |-> stops,
                   left |-> [p \in Places |-> CountIn(stops, p)],
                   ask |-> NoAsk, got |-> None, of |-> None, lost |-> FALSE, kept |-> FALSE])
  /\ since' = [since EXCEPT ![s] = Recorded(row, Closed)]
  /\ UNCHANGED <<row, stops, clock>>

\* The steps of one session; a change of the stored snapshots is told to all.
Local == UNCHANGED <<row, stops, session, ops, clock, since>>
Rows(f) ==
  /\ row' = f /\ since' = [s \in Sessions |-> IF At(s, "idle") THEN {}
                                            ELSE since[s] \intersect Recorded(f, Closed)]

\* The item at the head of the list is settled with the place it gets.
Settled(s, place) ==
  Goes(s, [req[s] EXCEPT !.pc = "next", !.todo = Tail(@), !.done = Append(@, place),
                         !.ask = NoAsk, !.got = None, !.of = None])

(* An item without a snapshot of its own keeps what the request said: the id *)
(* that came with a name that disagrees stays, and was never checked.        *)
Unresolved(s) ==
  LET it == Head(req[s].todo)
  IN Goes(s, [req[s] EXCEPT !.pc = "next", !.todo = Tail(@), !.done = Append(@, it.id),
                            !.ask = NoAsk, !.got = None, !.of = None,
                            !.kept = @ \/ it.id # None])

(* itineraryPlaceGuard.  A name agrees with a stop when it is the stored     *)
(* name of the stop's place.                                                 *)
StoredName(s, id) == IF id # None /\ id \in ToSet(req[s].read) THEN NameOf[id] ELSE None
Agrees(s, it) == it.name = None \/ it.name = StoredName(s, it.id)

(* Mutant: a preserved stop is not counted off.                              *)
PreserveAny(s, p) == req[s].left[p] > 0 /\ Settled(s, p)

ConsumePreservedId(s, p) ==
  /\ req[s].left[p] > 0
  /\ Goes(s, [req[s] EXCEPT !.todo = Tail(@), !.done = Append(@, p), !.left[p] = @ - 1])

Preserve(s) ==
  /\ At(s, "next") /\ req[s].op = "replace" /\ req[s].todo # <<>> /\ Local
  /\ LET it == Head(req[s].todo)
     IN it.id # None /\ Agrees(s, it) /\ ConsumePreservedId(s, it.id)

\* A patch that leaves the place of the stop alone.
KeepsPlace(s, it) ==
  LET stored == req[s].read[req[s].slot]
  IN \/ it.id = None /\ it.name = None
     \/ /\ stored # None /\ it.id \in {None, stored}
        /\ it.name \in {None, NameOf[stored]}

KeepStop(s) ==
  /\ At(s, "next") /\ req[s].op = "update" /\ req[s].todo # <<>> /\ Local
  /\ KeepsPlace(s, Head(req[s].todo)) /\ Ends(s)

\* What is asked of the session for the item at the head: not the id when the
\* name disagrees with the stored one.
AskFor(s) ==
  LET it == Head(req[s].todo)
      stored == IF req[s].op = "update" THEN req[s].read[req[s].slot] ELSE it.id
      stale == /\ req[s].op # "add" /\ it.name # None /\ it.name # StoredName(s, stored)
  IN [it EXCEPT !.id = IF stale THEN None ELSE @]

Prepare(s) ==
  /\ At(s, "next") /\ req[s].todo # <<>> /\ Local
  /\ LET it == Head(req[s].todo)
     IN /\ req[s].op = "update" => ~KeepsPlace(s, it)
        /\ req[s].op = "replace" => ~(it.id # None /\ Agrees(s, it) /\ req[s].left[it.id] > 0)
        /\ LET ask == AskFor(s)
           IN IF ask.id # None THEN Goes(s, [req[s] EXCEPT !.pc = "find", !.ask = ask])
              ELSE IF ask.name # None THEN Goes(s, [req[s] EXCEPT !.pc = "name", !.ask = ask])
              ELSE Unresolved(s)

-----------------------------------------------------------------------------
(* placeSelectionService.                                                    *)
Fresh(at) == at # 0 /\ at + Ttl >= clock
Gate(s) == session[s].gate
As(p, ask) == [id |-> p, name |-> NameOf[p], city |-> ask.city]
Said == {None, Open, Closed}      \* what the provider may say, or leave out

\* prepareBySnapshotId; an unknown id ends the operation.
FindById(s) ==
  /\ At(s, "find") /\ Local
  /\ LET p == req[s].ask.id
     IN IF row[p] = None THEN Ends(s)
        ELSE Goes(s, [req[s] EXCEPT !.pc = "refresh", !.of = p, !.got = Status(row[p])])

\* prepareByName: the notes on the name come before anything is looked up.  Whether
\* a stored row is found and its data (fetchedAt) are new enough is left open.
FindCachedByName(s) ==
  /\ At(s, "name") /\ Local
  /\ IF Check(Gate(s), req[s].ask, None) # "allowed" THEN Ends(s)
     ELSE \/ \E p \in Places :
               /\ NameOf[p] = req[s].ask.name /\ row[p] # None
               /\ Goes(s, [req[s] EXCEPT !.pc = "refresh", !.of = p, !.got = Status(row[p])])
          \/ Goes(s, [req[s] EXCEPT !.pc = "resolve"])

NoAnswer == [of |-> None, status |-> None, at |-> 0]
MayAnswer(name) ==
  {[of |-> p, status |-> st, at |-> clock] : p \in {q \in Places : NameOf[q] = name}, st \in Said}

\* resolveMemo: the provider is asked of a name once in a session, and what it said
\* then, or its failure, is what later operations get.
ResolvePlace(s) ==
  /\ At(s, "resolve") /\ UNCHANGED <<row, stops, ops, clock, since>>
  /\ LET name == req[s].ask.name
         old == session[s].memo[name]
     IN \E r \in IF old # None THEN {old} ELSE MayAnswer(name) \union {NoAnswer} :
          /\ session' = [session EXCEPT ![s].memo[name] = r]
          /\ IF r = NoAnswer THEN Unresolved(s) ELSE Goes(s, [req[s] EXCEPT !.pc = "store", !.got = r])

\* observeStatus: a status replaces an older one only.
Observed(old, status, at) ==
  IF status # None /\ at > old.at THEN [old EXCEPT !.status = status, !.at = at] ELSE old

\* upsertPlaceSnapshot, or saveProviderCandidate when there is no location; either
\* writes the location it has, and then the status.
Saved(p, r, point) ==
  LET old == IF row[p] = None THEN [status |-> None, at |-> 0] ELSE row[p]
  IN [row EXCEPT ![p] = Observed([status |-> old.status, at |-> old.at, point |-> point], r.status, r.at)]

\* What the memo holds may have been enriched with a newer status (placeSnapshotEnrichment).
Enriched(r) == {r} \union {[r EXCEPT !.status = st, !.at = clock] : st \in {Open, Closed}}

Store(s) ==
  /\ At(s, "store") /\ UNCHANGED <<stops, session, ops, clock>>
  /\ \E r \in Enriched(req[s].got), point \in BOOLEAN :
       LET rows == Saved(r.of, r, point)
       IN /\ Rows(rows)
          /\ Goes(s, [req[s] EXCEPT !.pc = "refresh", !.of = r.of, !.got = Status(rows[r.of])])

\* Persistence fails: the provider's answer is judged, and the item gets no snapshot.
StoreFails(s) ==
  /\ At(s, "store") /\ Local
  /\ \E r \in Enriched(req[s].got) :
       IF Check(Gate(s), As(r.of, req[s].ask), r.status) = "allowed" THEN Unresolved(s) ELSE Ends(s)

(* refreshed, then enforce: a stale status is refreshed (ObserveStatus) and   *)
(* read back, unless something fails; then what was read before stands.       *)
Current(s) == IF Fresh(req[s].got.at) THEN {req[s].got} ELSE {req[s].got, Status(row[req[s].of])}

RefreshAndEnforce(s) ==
  /\ At(s, "refresh") /\ Local
  /\ \E current \in Current(s) :
       IF Check(Gate(s), As(req[s].of, req[s].ask), current.status) = "allowed"
       THEN Settled(s, req[s].of) ELSE Ends(s)

-----------------------------------------------------------------------------
(* The write of the itinerary, after every item has been settled; the order  *)
(* of statements inside it is the subject of ItineraryEdits.                 *)
Written(s) ==
  CASE req[s].op = "add" -> stops \o req[s].done
    [] req[s].op = "replace" -> req[s].done
    [] req[s].op = "update" -> [stops EXCEPT ![req[s].slot] = IF req[s].done[1] = None THEN @ ELSE req[s].done[1]]

Commit(s) ==
  /\ At(s, "next") /\ req[s].todo = <<>> /\ UNCHANGED <<row, session, ops, clock, since>>
  /\ IF req[s].op = "update" /\ req[s].slot \notin DOMAIN stops THEN UNCHANGED stops
     ELSE stops' = Written(s)
  /\ Ends(s)

-----------------------------------------------------------------------------
(* The map tools: the results of a search are considered one by one, each    *)
(* with the status that came with it, and offered or withheld; a place that  *)
(* was resolved by name (map_pinpoint, place_insights, the routes) is stored *)
(* with its location first.                                                  *)
Answer(s) ==
  /\ At(s, "answer") /\ Local
  /\ \E p \in Places, status \in Said :
       Goes(s, [req[s] EXCEPT !.pc = IF req[s].op = "pinpoint" THEN "upsert" ELSE "consider", !.of = p,
                              !.got = [of |-> p, status |-> status, at |-> clock]])

Upsert(s) ==
  /\ At(s, "upsert") /\ UNCHANGED <<stops, session, ops, clock>>
  /\ Rows(Saved(req[s].of, [status |-> None, at |-> 0], TRUE))
  /\ Goes(s, [req[s] EXCEPT !.pc = "consider"])

(* Mutant: the answer at hand counts before what is stored.                  *)
AnswerFirst(stored, r) == IF r.status # None THEN r.status ELSE stored

StoredFirst(stored, r) == IF stored # None THEN stored ELSE r.status

\* consider: the observation is stored, without a location, or the row is read when
\* there is none.
Consider(s) ==
  /\ At(s, "consider") /\ UNCHANGED <<stops, session, ops, clock>>
  /\ LET r == req[s].got
         rows == IF r.status # None THEN Saved(r.of, r, FALSE) ELSE row
         stored == IF rows[r.of] = None THEN None ELSE rows[r.of].status
         allowed == Check(Gate(s), As(r.of, NoAsk), StoredFirst(stored, r)) = "allowed"
     IN /\ Rows(rows)
        /\ Goes(s, [req[s] EXCEPT !.pc = "told", !.got = None, !.done = IF allowed THEN <<r.of>> ELSE <<>>])

\* The snapshot cannot be stored or read: the answer is all there is.
ConsiderFails(s) ==
  /\ At(s, "consider") /\ Local
  /\ LET r == req[s].got
         allowed == Check(Gate(s), As(r.of, NoAsk), r.status) = "allowed"
     IN Goes(s, [req[s] EXCEPT !.pc = "told", !.got = None, !.lost = TRUE, !.done = IF allowed THEN <<r.of>> ELSE <<>>])

Told(s) == At(s, "told") /\ Ends(s) /\ Local

-----------------------------------------------------------------------------
(* Around the sessions: refreshes and other runs store     *)
(* what they see, requests are cut off, time passes.                         *)
Disturbs == ops < MaxOps \/ \E s \in Sessions : ~At(s, "idle")   \* a bound

ObserveStatus ==
  \E p \in Places, status \in {Open, Closed} :
    /\ Disturbs /\ row[p] # None /\ Rows([row EXCEPT ![p] = Observed(@, status, clock)])
    /\ UNCHANGED <<stops, session, ops, req, clock>>

\* backfillUnenrichedSnapshots: the location it has read or a newer one is written
\* back, and then the status in a statement of its own (ObserveStatus).
Backfill ==
  \E p \in Places :
    /\ Disturbs /\ row[p] # None /\ Rows(Saved(p, [status |-> None, at |-> 0], TRUE))
    /\ UNCHANGED <<stops, session, ops, req, clock>>

Cut(s) == ~At(s, "idle") /\ Ends(s) /\ Local

Tick == Disturbs /\ clock < MaxTime /\ clock' = clock + 1 /\ UNCHANGED <<row, stops, session, ops, req, since>>

Next ==
  \/ \E s \in Sessions :
       \/ Begin(s) \/ Preserve(s) \/ KeepStop(s) \/ Prepare(s)
       \/ FindById(s) \/ FindCachedByName(s) \/ ResolvePlace(s)
       \/ Store(s) \/ StoreFails(s) \/ RefreshAndEnforce(s) \/ Commit(s)
       \/ Answer(s) \/ Upsert(s) \/ Consider(s) \/ ConsiderFails(s) \/ Told(s) \/ Cut(s)
  \/ ObserveStatus \/ Backfill \/ Tick

Spec == Init /\ [][Next]_vars

-----------------------------------------------------------------------------
(* The places a session's notes forbid whatever the city.                    *)
Forbidden(s) ==
  {p \in Places : Check(Gate(s), As(p, NoAsk), None) # "allowed"}
Barred(s) == since[s] \union Forbidden(s)

(* No edit of an itinerary brings in a place that has been recorded closed   *)
(* all the while, or that the agency's notes forbid: such a stop is kept, as *)
(* often as it was there, and never added, whatever ids and names the        *)
(* request combined, and whatever the session had looked up before.  Left    *)
(* out: an itinerary somebody else has changed meanwhile, and an item whose  *)
(* name disagrees with its id and could not be resolved, whose id the code   *)
(* then writes unchecked.  placeSelectionService.ts, itineraryPlaceGuard.ts. *)
BarredIsNeverAdded ==
  [][\A s \in Sessions :
       At(s, "next") /\ req'[s].pc = "idle" /\ stops' # stops /\ req[s].read = stops /\ ~req[s].kept =>
         \A p \in Barred(s) : CountIn(stops', p) <= CountIn(stops, p)]_vars

(* The same for what the map tools offer: a result is withheld when the      *)
(* notes forbid it or it has been recorded closed since before the provider  *)
(* answered, though the answer at hand may say nothing of it or be older     *)
(* than what is stored.  Left out: the snapshot could be neither stored nor  *)
(* read (lost).  mapTools.ts partitionResults, placeSelectionService.ts      *)
(* consider.                                                                 *)
BarredIsNeverOffered ==
  \A s \in Sessions :
    At(s, "told") /\ ~req[s].lost /\ req[s].done # <<>> =>
      /\ req[s].of \notin Forbidden(s)
      /\ req[s].of \notin since[s]

(* A stop keeps the coordinates of its place: routes between preserved stops *)
(* are worked out from what is stored, without asking for the place again.   *)
(* itineraryService.ts replaceDraft, itineraryPlaceGuard.ts                  *)
(* storedPointsBySnapshotId.                                                 *)
StopsKeepTheirPoint ==
  [][\A p \in ToSet(stops) \ {None} : row[p].point => row'[p].point]_vars
=============================================================================
