----------------------------- MODULE SharePage ------------------------------
(***************************************************************************)
(* A client's open share page and the fingerprint it asks for to learn     *)
(* whether the itinerary was edited (publicShareService.ts,                *)
(* publicShareRoutes.ts, shareRepository.ts). Both the page and the check  *)
(* read the tables query by query while the agency edits, the client acts  *)
(* and places are refreshed. The hash is taken to be free of collisions,   *)
(* and JSON with sorted keys to say no more than what it holds.            *)
(***************************************************************************)
EXTENDS Integers, FiniteSets

CONSTANT MaxChanges    \* a bound

ASSUME ShareConstant == MaxChanges \in Nat

Requests == {"page", "check"}
OK == 200
Gone == 410

VARIABLES
  changes,
  share,      \* the link's row: state, views, expires, rating
  itinerary,  \* its row and its days: text, version, and what only the agency sees
  place,      \* the snapshot of a stop, shared with other agencies
  trip,       \* status is not shown
  agency,     \* branding
  asked,      \* request -> what it has read, and what it will answer
  shown       \* what the open page holds: payload and revision

data == <<share, itinerary, place, trip, agency>>
shareVars == <<changes, data, asked, shown>>

NoRequest == [pc |-> "idle", got |-> <<>>, torn |-> FALSE, code |-> 0, revision |-> <<>>]
Nothing == [payload |-> <<>>, revision |-> <<>>]

----------------------------------------------------------------------------
(* What changes. Values go back and forth, so that an edit may be undone.    *)
Flip(x) == 1 - x
Reading == {r \in Requests : asked[r].pc \notin {"idle", "done"}}
Torn == {r \in Reading : asked[r].got # <<>>}
Change ==
  /\ changes < MaxChanges /\ changes' = changes + 1
  /\ asked' = [r \in Requests |-> IF r \in Torn THEN [asked[r] EXCEPT !.torn = TRUE] ELSE asked[r]]
  /\ UNCHANGED shown

(* An edit of the days counts a version, one of a stop's text does not.      *)
EditItinerary ==
  /\ Change
  /\ \/ itinerary' = [itinerary EXCEPT !.text = Flip(@), !.version = @ + 1]
     \/ itinerary' = [itinerary EXCEPT !.notes = Flip(@)]
     \/ itinerary' = [itinerary EXCEPT !.staffNotes = Flip(@)]
     \/ itinerary' = [itinerary EXCEPT !.version = @ + 1]     \* a draft is replaced by its like
  /\ UNCHANGED <<share, place, trip, agency>>

(* A status refresh stamps its time; enrichment rewrites rating and metadata; *)
(* a selection of the same place by anybody may rename it.                   *)
RefreshPlace ==
  /\ Change
  /\ \/ \E s \in {place.status, Flip(place.status)} :
          place' = [place EXCEPT !.status = s, !.checkedAt = Flip(@)]
     \/ place' = [place EXCEPT !.rating = Flip(@)]
     \/ place' = [place EXCEPT !.name = Flip(@)]
  /\ UNCHANGED <<share, itinerary, trip, agency>>

SaveTrip ==
  /\ Change
  /\ \/ trip' = [trip EXCEPT !.clientName = Flip(@), !.status = Flip(@)]
     \/ trip' = [trip EXCEPT !.status = Flip(@)]
  /\ UNCHANGED <<share, itinerary, place, agency>>

UseLink ==
  /\ Change /\ share.state = "live"
  /\ \/ share' = [share EXCEPT !.views = Flip(@)]
     \/ share' = [share EXCEPT !.rating = Flip(@)]
     \/ share' = [share EXCEPT !.expires = Flip(@)]
     \/ share' = [share EXCEPT !.state = "revoked"]
  /\ UNCHANGED <<itinerary, place, trip, agency>>

RenameAgency ==
  /\ Change /\ agency' = [agency EXCEPT !.name = Flip(@)]
  /\ UNCHANGED <<share, itinerary, place, trip>>

----------------------------------------------------------------------------
(* What is given away, field by field.                                       *)
PublicItinerary(d) == [text |-> d.itinerary.text, notes |-> d.itinerary.notes, version |-> d.itinerary.version, place |-> d.place]
BuildShareResponse(d) ==
  [share |-> [rating |-> d.share.rating], itinerary |-> PublicItinerary(d),
   trip |-> [clientName |-> d.trip.clientName], brand |-> d.agency]

(* Mutant: the counter is taken for something the page shows.                *)
WithVersion(it) ==
  [text |-> it.text, notes |-> it.notes, version |-> it.version,
   place |-> [name |-> it.place.name, status |-> it.place.status]]

(* What of it is fingerprinted: the counter and the refreshed fields are not. *)
VisibleItinerary(it) ==
  [text |-> it.text, notes |-> it.notes, place |-> [name |-> it.place.name, status |-> it.place.status]]
ComputeShareRevision(response) == [itinerary |-> VisibleItinerary(response.itinerary), trip |-> response.trip]

(* The client has the page open, or is yet to open it.                       *)
ShareInit ==
  /\ changes = 0
  /\ share = [state |-> "live", views |-> 0, expires |-> 0, rating |-> 0]
  /\ itinerary = [text |-> 0, notes |-> 0, version |-> 0, staffNotes |-> 0]
  /\ place = [name |-> 0, status |-> 0, rating |-> 0, checkedAt |-> 0]
  /\ trip = [clientName |-> 0, status |-> 0]
  /\ agency = [name |-> 0]
  /\ asked = [r \in Requests |-> NoRequest]
  /\ LET first == BuildShareResponse([share |-> share, itinerary |-> itinerary, place |-> place,
                                      trip |-> trip, agency |-> agency])
     IN shown \in {Nothing, [payload |-> first, revision |-> ComputeShareRevision(first)]}

(* The queries, in order: the share, the itinerary, its places, the trip,    *)
(* the agency.                                                               *)
TableOf(pc) ==
  CASE pc = "share" -> share
    [] pc = "itinerary" -> itinerary
    [] pc = "place" -> place
    [] pc = "trip" -> trip
    [] pc = "agency" -> agency
Following == [share |-> "itinerary", itinerary |-> "place", place |-> "trip", trip |-> "agency", agency |-> "answer"]
Learned(got, pc) == [k \in DOMAIN got \union {pc} |-> IF k = pc THEN TableOf(pc) ELSE got[k]]

Ask ==
  /\ \E r \in Requests :
       /\ asked[r].pc \in {"idle", "done"}
       /\ r = "check" => shown # Nothing
       /\ asked' = [asked EXCEPT ![r] = [NoRequest EXCEPT !.pc = "share"]]
  /\ UNCHANGED <<changes, data, shown>>

FindShareByToken ==
  /\ \E r \in Reading :
       LET pc == asked[r].pc
       IN /\ pc # "answer"
          /\ asked' = [asked EXCEPT ![r].pc = Following[pc], ![r].got = Learned(@, pc)]
  /\ UNCHANGED <<changes, data, shown>>

(* A link that was turned off answers 410 to both.                           *)
Respond ==
  /\ \E r \in Reading :
       LET got == asked[r].got
           response == BuildShareResponse(got)
           revision == ComputeShareRevision(response)
           gone == got.share.state = "revoked"
       IN /\ asked[r].pc = "answer"
          /\ asked' = [asked EXCEPT ![r] = [@ EXCEPT !.pc = "done", !.got = <<>>, !.code = IF gone THEN Gone ELSE OK,
                                            !.revision = IF gone \/ r = "page" THEN <<>> ELSE revision]]
          /\ shown' = IF r = "page" /\ ~gone THEN [payload |-> response, revision |-> revision] ELSE shown
  /\ UNCHANGED <<changes, data>>

ShareNext ==
  \/ EditItinerary \/ RefreshPlace \/ SaveTrip \/ UseLink \/ RenameAgency
  \/ Ask \/ FindShareByToken \/ Respond

ShareSpec == ShareInit /\ [][ShareNext]_shareVars

----------------------------------------------------------------------------
(* An open page is told "changed" exactly when the agency's itinerary, a     *)
(* place's identity or status, or the trip's details differ from what it     *)
(* shows: no edit goes unnoticed, not even by a page whose own queries fell  *)
(* on both sides of one, and no view, rating, extension, refresh, new brand  *)
(* or idle version is taken for an edit. A check that an edit overlapped is  *)
(* judged by the next one (publicShareService.ts:155-160,180-184,227-232).   *)
EditedPart == [text |-> itinerary.text, notes |-> itinerary.notes, name |-> place.name, status |-> place.status,
               clientName |-> trip.clientName]
PartShown(p) == [text |-> p.itinerary.text, notes |-> p.itinerary.notes, name |-> p.itinerary.place.name,
                 status |-> p.itinerary.place.status, clientName |-> p.trip.clientName]
Checked == asked["check"].pc = "answer" /\ asked'["check"].pc = "done" /\ ~asked["check"].torn
EditsAreNoticed ==
  [][Checked /\ asked'["check"].code = OK =>
       (asked'["check"].revision = shown.revision <=> PartShown(shown.payload) = EditedPart)]_shareVars
=============================================================================
