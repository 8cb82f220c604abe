----------------------------- MODULE Dashboards -----------------------------
(***************************************************************************)
(* What an agency's dashboard, calendar and trip panel show of its trips,  *)
(* links, comments and reviews (dashboard/*.ts). The tables change with    *)
(* the steps of the agency and its clients; a dashboard reads them with    *)
(* one query after another and composes its payload from the answers. A    *)
(* list the code sorts and does not cut is a set here.                     *)
(*                                                                         *)
(* Time counts half days. No code under src/ assigns an organizer or       *)
(* archives a trip, so those columns keep what their row began with.       *)
(***************************************************************************)
EXTENDS Integers, FiniteSets, FiniteSetsExt, TLC

CONSTANTS
  NTrips, NLinks, NComments,  \* rows; ids are numbers, so that they have an order
  Users, NoOne,
  Within,       \* the periods of the panels, in half days
  Most,         \* the longest lists they show
  Windows,      \* the <<from, to>> days a calendar is asked for
  Dates,        \* the <<start, end>> a trip may be given
  Horizon, MaxSteps, MaxTorn, MaxViews   \* bounds; MaxTorn is on the steps while a dashboard is read

ASSUME DashboardConstants ==
  /\ {NTrips, NLinks, NComments, Horizon, MaxSteps, MaxTorn, MaxViews} \subseteq Nat
  /\ NoOne \notin Users
  /\ Within.staffDraft <= Within.ownerDraft /\ Within.soon <= Within.upcoming

Null == -1       \* a date or a rating that is not set
Views == {"owner", "staff"}
Roles == {"OWNER", "ADMIN", "STAFF"}
Parts == {"trips", "drafts", "links"}

VARIABLES
  now, steps,
  trips, drafts,    \* trip rows, and the trips that have an itinerary
  links, comments,
  reviews,          \* trip -> when its review was submitted
  reader,           \* who asks for which view, and what is still to be read
  raw               \* what the queries have answered so far

tables == <<trips, drafts, links, comments, reviews>>
dashVars == <<now, steps, tables, reader, raw>>

Trip(u, s, e, status) ==
  [status |-> status, created |-> now, updated |-> now, by |-> u, organizer |-> NoOne, start |-> s, end |-> e]
Link(t, e) ==
  [trip |-> t, created |-> now, expires |-> e, revoked |-> FALSE, views |-> 0, lastViewed |-> Null,
   rating |-> Null, ratedAt |-> Null]
Comment(l) == [link |-> l, created |-> now, status |-> "PENDING", replied |-> Null]

(* One trip has been planned; its client has opened the link and asked.      *)
DashInit ==
  /\ now = 2 /\ steps = 0
  /\ \E u \in Users : trips = <<Trip(u, now + 3, now + 1, "DRAFT")>>
  /\ links = <<[Link(1, now + 2) EXCEPT !.views = 1, !.lastViewed = now]>>
  /\ drafts = {1} /\ comments = <<Comment(1)>> /\ reviews = <<>>
  /\ reader = [pc |-> "idle"] /\ raw = <<>>

----------------------------------------------------------------------------
(* What the agency and its clients do. Each is one transaction; nothing      *)
(* happens any more once the dashboard has answered.                         *)
Acts ==
  /\ reader.pc # "done" /\ steps < MaxSteps /\ steps' = steps + 1
  /\ reader.pc = "reading" => reader.left # Parts /\ reader.torn < MaxTorn
  /\ reader' = IF reader.pc = "reading" THEN [reader EXCEPT !.torn = @ + 1] ELSE reader
  /\ UNCHANGED <<now, raw>>

(* New rows get ids in order.                                                *)
Free(n, rows) == LET free == (1 .. n) \ DOMAIN rows IN {i \in free : i = Min(free)}
Without(rows, gone) == [x \in DOMAIN rows \ gone |-> rows[x]]

CreateTrip ==
  /\ Acts
  /\ \E t \in Free(NTrips, trips), u \in Users, dates \in Dates :
       /\ trips' = (t :> Trip(u, dates[1], dates[2], "DRAFT")) @@ trips
       /\ drafts' = drafts \cup {t}
  /\ UNCHANGED <<links, comments, reviews>>

(* A second option for a client, copied from a saved trip.                   *)
CreateTripOption ==
  /\ Acts
  /\ \E t \in Free(NTrips, trips), u \in Users, from \in DOMAIN trips \cap drafts :
       /\ trips[from].status \notin {"DRAFT", "ARCHIVED"}
       /\ trips' = (t :> [Trip(u, trips[from].start, trips[from].end, "IN_REVIEW")
                            EXCEPT !.organizer = trips[from].organizer]) @@ trips
       /\ drafts' = drafts \cup {t}
  /\ UNCHANGED <<links, comments, reviews>>

SetStatus(t, status) == trips' = [trips EXCEPT ![t].status = status, ![t].updated = now]

(* Saving a chat's draft for a client sets the dates of its trip anew.       *)
SaveItineraryThread ==
  /\ Acts
  /\ \E t \in DOMAIN trips \cap drafts, dates \in Dates :
       /\ trips[t].status = "DRAFT"
       /\ trips' = [trips EXCEPT ![t].status = "IN_REVIEW", ![t].updated = now, ![t].start = dates[1], ![t].end = dates[2]]
  /\ UNCHANGED <<drafts, links, comments, reviews>>

ApproveTrip ==
  /\ Acts
  /\ \E t \in DOMAIN trips : trips[t].status # "APPROVED_INTERNAL" /\ SetStatus(t, "APPROVED_INTERNAL")
  /\ UNCHANGED <<drafts, links, comments, reviews>>

ReopenTrip ==
  /\ Acts
  /\ \E t \in DOMAIN trips : trips[t].status = "APPROVED_INTERNAL" /\ SetStatus(t, "IN_REVIEW")
  /\ UNCHANGED <<drafts, links, comments, reviews>>

(* Links, comments and reviews go with their trip or itinerary.              *)
LinksOf(ts) == {l \in DOMAIN links : links[l].trip \in ts}
CommentsOn(ls) == {c \in DOMAIN comments : comments[c].link \in ls}
DropLinks(ts) ==
  /\ links' = Without(links, LinksOf(ts))
  /\ comments' = Without(comments, CommentsOn(LinksOf(ts)))

DeleteTrip ==
  /\ Acts
  /\ \E t \in DOMAIN trips :
       /\ trips' = Without(trips, {t}) /\ drafts' = drafts \ {t}
       /\ DropLinks({t}) /\ reviews' = Without(reviews, {t})

(* Only a draft itinerary is deleted; its trip stays.                        *)
DeleteItinerary ==
  /\ Acts
  /\ \E t \in drafts : trips[t].status = "DRAFT" /\ drafts' = drafts \ {t} /\ DropLinks({t})
  /\ UNCHANGED <<trips, reviews>>

CreateShare ==
  /\ Acts
  /\ \E l \in Free(NLinks, links), t \in drafts, e \in {Null, now + 1} :
       links' = (l :> Link(t, e)) @@ links
  /\ UNCHANGED <<trips, drafts, comments, reviews>>

RevokeShare ==
  /\ Acts
  /\ \E l \in DOMAIN links : ~links[l].revoked /\ links' = [links EXCEPT ![l].revoked = TRUE]
  /\ UNCHANGED <<trips, drafts, comments, reviews>>

Open(l) == ~links[l].revoked /\ (links[l].expires = Null \/ links[l].expires > now)

IncrementViewCount ==
  /\ Acts
  /\ \E l \in DOMAIN links :
       /\ Open(l) /\ links[l].views < MaxViews
       /\ links' = [links EXCEPT ![l].views = @ + 1, ![l].lastViewed = now]
  /\ UNCHANGED <<trips, drafts, comments, reviews>>

AddComment ==
  /\ Acts
  /\ \E c \in Free(NComments, comments), l \in DOMAIN links : Open(l) /\ comments' = (c :> Comment(l)) @@ comments
  /\ UNCHANGED <<trips, drafts, links, reviews>>

ReplyToComment ==
  /\ Acts
  /\ \E c \in DOMAIN comments : comments' = [comments EXCEPT ![c].status = "ADDRESSED", ![c].replied = now]
  /\ UNCHANGED <<trips, drafts, links, reviews>>

RateProposal ==
  /\ Acts
  /\ \E l \in DOMAIN links, r \in {3, 4} :
       Open(l) /\ links' = [links EXCEPT ![l].rating = r, ![l].ratedAt = now]
  /\ UNCHANGED <<trips, drafts, comments, reviews>>

SubmitTripReview ==
  /\ Acts
  /\ \E t \in DOMAIN trips : t \notin DOMAIN reviews /\ reviews' = (t :> now) @@ reviews
  /\ UNCHANGED <<trips, drafts, links, comments>>

HalfDayPasses ==
  /\ reader.pc = "idle" /\ now < Horizon /\ now' = now + 1
  /\ UNCHANGED <<steps, tables, reader, raw>>

----------------------------------------------------------------------------
(* The dashboard's queries. The first ones run at once on a pool of          *)
(* connections and see the tables in any order; the comments follow.         *)
SelectView(role, requested) ==
  IF requested = "staff" \/ role = "STAFF" THEN "staff" ELSE "owner"

GetDashboard ==
  /\ reader.pc = "idle"
  /\ \E u \in Users, role \in Roles, requested \in Views \cup {"default"} :
       /\ ~(requested = "owner" /\ role = "STAFF")
       /\ LET view == SelectView(role, requested)
          IN reader' = [pc |-> "reading", view |-> view, user |-> IF view = "owner" THEN NoOne ELSE u, left |-> Parts, torn |-> 0]
  /\ UNCHANGED <<now, steps, tables, raw>>

Query(part) ==
  CASE part = "trips" -> trips
    [] part = "drafts" -> drafts
    [] part = "links" -> links

ReadPart ==
  /\ reader.pc = "reading"
  /\ \E part \in reader.left :
       /\ raw' = (part :> Query(part)) @@ raw
       /\ reader' = [reader EXCEPT !.left = @ \ {part}]
  /\ UNCHANGED <<now, steps, tables>>

ReadComments ==
  /\ reader.pc = "reading" /\ reader.left = {}
  /\ raw' = ("comments" :> Without(comments, DOMAIN comments \ CommentsOn(DOMAIN raw.links))) @@ raw
  /\ reader' = [pc |-> "done", user |-> reader.user, view |-> reader.view]
  /\ UNCHANGED <<now, steps, tables>>

DashNext ==
  \/ CreateTrip \/ CreateTripOption \/ SaveItineraryThread \/ ApproveTrip \/ ReopenTrip
  \/ DeleteTrip \/ DeleteItinerary \/ CreateShare \/ RevokeShare
  \/ IncrementViewCount \/ AddComment \/ ReplyToComment \/ RateProposal \/ SubmitTripReview
  \/ HalfDayPasses \/ GetDashboard \/ ReadPart \/ ReadComments

----------------------------------------------------------------------------
(* The payload. `d` is what was read; the first n of S come from First.      *)
First(n, S, Before(_, _)) == {x \in S : Cardinality({y \in S : Before(y, x)}) < n}

Mine(t, u) == t.by = u \/ t.organizer = u
MyTrips(d, u) == {t \in DOMAIN d.trips : Mine(d.trips[t], u)}

(* selectStaffWorklistRows narrows every table to one person's trips.        *)
NarrowTo(d, ts) ==
  LET ls == {l \in DOMAIN d.links : d.links[l].trip \in ts}
  IN [d EXCEPT !.trips = Without(d.trips, DOMAIN d.trips \ ts),
               !.links = Without(d.links, DOMAIN d.links \ ls),
               !.comments = Without(d.comments, {c \in DOMAIN d.comments : d.comments[c].link \notin ls})]

Unanswered(c) == c.status = "PENDING" /\ c.replied = Null
UnreadComments(d) ==
  {c \in DOMAIN d.comments : Unanswered(d.comments[c]) /\ d.comments[c].link \in DOMAIN d.links}

RepliedAfter(d, l, time) == \E c \in DOMAIN d.comments : d.comments[c].link = l /\ d.comments[c].replied > time

ViewedNotReplied(d) ==
  {l \in DOMAIN d.links : LET k == d.links[l] IN
     /\ k.views > 0 /\ ~k.revoked
     /\ k.trip \in DOMAIN d.trips /\ d.trips[k.trip].status = "IN_REVIEW"
     /\ k.lastViewed # Null => ~RepliedAfter(d, l, k.lastViewed)}

DraftsStuck(d, days) ==
  {t \in DOMAIN d.trips : d.trips[t].status = "DRAFT" /\ d.trips[t].updated < now - days}

SharesExpiring(d) ==
  {l \in DOMAIN d.links : LET k == d.links[l] IN
     ~k.revoked /\ k.expires # Null /\ k.expires > now /\ k.expires < now + Within.expiring}

LowRated(d) ==
  {l \in DOMAIN d.links : LET k == d.links[l] IN
     /\ k.rating # Null /\ k.rating <= 3 /\ k.ratedAt >= now - Within.lowRated
     /\ ~RepliedAfter(d, l, k.ratedAt)}

OwnerWorklist(d) ==
  [unread |-> UnreadComments(d), viewed |-> ViewedNotReplied(d), stuck |-> DraftsStuck(d, Within.ownerDraft),
   expiring |-> SharesExpiring(d), low |-> LowRated(d)]

(* The rows of expiring and low-rated links read their trip unchecked.       *)
Throws(d) == \E l \in SharesExpiring(d) \cup LowRated(d) : d.links[l].trip \notin DOMAIN d.trips

StartsSoon(d) ==
  {t \in DOMAIN d.trips :
     /\ d.trips[t].status \in {"IN_REVIEW", "APPROVED_INTERNAL"}
     /\ d.trips[t].start > now /\ d.trips[t].start <= now + Within.soon}

StaffWorklist(d, u) ==
  LET m == NarrowTo(d, MyTrips(d, u))
  IN [unread |-> UnreadComments(m), stuck |-> DraftsStuck(m, Within.staffDraft),
      expiring |-> SharesExpiring(m), soon |-> StartsSoon(m)]

(* The "Client comments" card of some trips.                                 *)
OnTrips(d, ts) == {c \in DOMAIN d.comments :
  d.comments[c].link \in DOMAIN d.links /\ d.links[d.comments[c].link].trip \in ts \cap DOMAIN d.trips}
WaitingOnOpenLinks(d, ts) == {c \in OnTrips(d, ts) : Unanswered(d.comments[c]) /\ ~d.links[d.comments[c].link].revoked}
Waiting(d, ts) ==
  LET Asked(a, b) == LET p == d.comments[a].created  q == d.comments[b].created IN p < q \/ (p = q /\ a < b)
  IN First(Most.waiting, {c \in OnTrips(d, ts) : Unanswered(d.comments[c])}, Asked)
Answered(d, ts) ==
  LET Later(a, b) == LET p == d.comments[a].replied  q == d.comments[b].replied IN p > q \/ (p = q /\ a < b)
  IN First(Most.answered,
           {c \in OnTrips(d, ts) : d.comments[c].replied # Null /\ d.comments[c].replied >= now - Within.answered}, Later)

(* One row per trip: the views of all its links, by the latest of them.      *)
ViewsOf(d, t) == {l \in DOMAIN d.links : d.links[l].trip = t}
LatestView(d, t) == Max({Null} \cup {d.links[l].lastViewed : l \in ViewsOf(d, t)})
RecentViews(d, ts) ==
  LET Newer(a, b) == LET p == LatestView(d, a)  q == LatestView(d, b) IN p > q \/ (p = q /\ a < b)
      seen == {t \in ts \cap DOMAIN d.trips :
                 /\ d.trips[t].status # "ARCHIVED"
                 /\ LatestView(d, t) # Null /\ LatestView(d, t) >= now - Within.views}
  IN {[trip |-> t, views |-> MapThenSumSet(LAMBDA l : d.links[l].views, ViewsOf(d, t)), at |-> LatestView(d, t)]
        : t \in First(Most.views, seen, Newer)}

(* Trip progress: the trips created in the period, by the stage they reached. *)
InPeriod(time) == now - Within.period <= time /\ time <= now
Cohort(d) ==
  LET created == {t \in DOMAIN d.trips : InPeriod(d.trips[t].created)}
      shared == {d.links[l].trip : l \in DOMAIN d.links}
      everViewed == {d.links[l].trip : l \in {k \in DOMAIN d.links : d.links[k].views > 0}}
      drafted == created \cap (d.drafts \cup shared)
      sent == drafted \cap shared
  IN [created |-> created, drafted |-> drafted, sent |-> sent, viewed |-> sent \cap everViewed,
      approved |-> {t \in created : d.trips[t].status = "APPROVED_INTERNAL"}]

Sparkline(times) ==
  [i \in 0 .. 6 |-> Cardinality({x \in times : Min({6, ((x[1] - (now - Within.period)) * 7) \div Within.period}) = i})]

(* The agency's figures. An average is a sum and a number, and none when no  *)
(* row gives it; a median is twice its value.                                *)
WinRate(d, ts) ==
  LET With(stats) == {t \in ts : d.trips[t].status \in stats}
  IN <<Cardinality(With({"APPROVED_INTERNAL"})), Cardinality(With({"APPROVED_INTERNAL", "ARCHIVED"}))>>
Average(S, Value(_)) == <<MapThenSumSet(Value, S), Cardinality(S)>>
TwiceMedian(S, Value(_)) ==
  LET n == Cardinality(S)
      Rank(x) == Cardinality({y \in S : Value(y) < Value(x) \/ (Value(y) = Value(x) /\ y <= x)})
      Nth(k) == Value(CHOOSE x \in S : Rank(x) = k)
  IN IF n = 0 THEN Null ELSE Nth((n + 1) \div 2) + Nth((n + 2) \div 2)

FirstShare(d, t) == Min({d.links[l].created : l \in ViewsOf(d, t)})
Kpis(d) ==
  LET created == Cohort(d).created
      asked == {c \in DOMAIN d.comments : InPeriod(d.comments[c].created) /\ d.comments[c].replied >= d.comments[c].created}
      sent == {l \in DOMAIN d.links : InPeriod(d.links[l].created)}
      rated == {l \in sent : d.links[l].rating # Null}
      early == {t \in created : ViewsOf(d, t) # {} /\ FirstShare(d, t) >= d.trips[t].created}
  IN [winRate |-> WinRate(d, created),
      toFirstShare |-> Average(early, LAMBDA t : FirstShare(d, t) - d.trips[t].created),
      response |-> TwiceMedian(asked, LAMBDA c : d.comments[c].replied - d.comments[c].created),
      rating |-> Average(rated, LAMBDA l : d.links[l].rating),
      responseRate |-> <<Cardinality(rated), Cardinality(sent)>>,
      sparkline |-> Sparkline({<<d.trips[t].created, t>> : t \in created})]

(* The newest six of what was sent and approved in the period.               *)
Ribbon(d) ==
  {[kind |-> "share_sent", trip |-> d.links[l].trip, at |-> d.links[l].created]
     : l \in {k \in DOMAIN d.links : InPeriod(d.links[k].created) /\ d.links[k].trip \in DOMAIN d.trips}}
  \cup {[kind |-> "itinerary_approved", trip |-> t, at |-> d.trips[t].updated]
     : t \in {x \in DOMAIN d.trips : d.trips[x].status = "APPROVED_INTERNAL" /\ InPeriod(d.trips[x].updated)}}

OwnerPayload(d) ==
  [worklist |-> OwnerWorklist(d), waiting |-> Waiting(d, DOMAIN d.trips), answered |-> Answered(d, DOMAIN d.trips),
   views |-> RecentViews(d, DOMAIN d.trips), kpis |-> Kpis(d), funnel |-> Cohort(d), ribbon |-> Ribbon(d)]

MonthStart == now - Within.period
Pipeline(d, ts) ==
  [drafts |-> {t \in ts : d.trips[t].status = "DRAFT"},
   inReview |-> {t \in ts : d.trips[t].status = "IN_REVIEW"},
   approved |-> {t \in ts : d.trips[t].status = "APPROVED_INTERNAL" /\ d.trips[t].updated >= MonthStart},
   active |-> {t \in ts : LET r == d.trips[t] IN r.start # Null /\ r.end # Null /\ r.start <= now /\ r.end >= now}]

StaffPayload(d, u) ==
  LET ts == MyTrips(d, u)
      Fresher(a, b) == LET p == d.trips[a].updated  q == d.trips[b].updated IN p > q \/ (p = q /\ a < b)
      Sooner(a, b) == LET p == d.trips[a].start  q == d.trips[b].start IN p < q \/ (p = q /\ a < b)
  IN [worklist |-> StaffWorklist(d, u), waiting |-> Waiting(d, ts), answered |-> Answered(d, ts),
      views |-> RecentViews(d, ts), recent |-> First(4, ts, Fresher), pipeline |-> Pipeline(d, ts),
      starting |-> First(6, {t \in ts : d.trips[t].start > now /\ d.trips[t].start <= now + Within.upcoming}, Sooner)]

----------------------------------------------------------------------------
(* The calendar of days from .. to: days are compared for trips, instants,   *)
(* padded on both sides for every time zone, for events.                     *)
DayOf(time) == time \div 2
InstantsOf(w) == 2 * w[1] - Within.slack .. 2 * w[2] + 1 + Within.slack

FetchCalendarWindow(d, w) ==
  LET at == InstantsOf(w)
      ls == {l \in DOMAIN d.links : {d.links[l].created, d.links[l].expires, d.links[l].lastViewed,
                                     d.links[l].ratedAt} \cap at # {}}
  IN [trips |-> {t \in DOMAIN d.trips : LET r == d.trips[t] IN
                   /\ r.status # "ARCHIVED" /\ r.start # Null /\ r.start < 2 * (w[2] + 1)
                   /\ r.end >= 2 * w[1] \/ r.start >= 2 * w[1]},
      undated |-> {t \in DOMAIN d.trips : d.trips[t].status # "ARCHIVED" /\ d.trips[t].start = Null},
      links |-> ls,
      comments |-> {c \in DOMAIN d.comments : d.comments[c].created \in at},
      reviews |-> {t \in DOMAIN d.reviews : d.reviews[t] \in at}]

(* Every row, for a calendar that would filter nothing when it reads.        *)
EveryRow(d) ==
  [trips |-> DOMAIN d.trips, undated |-> {t \in DOMAIN d.trips : d.trips[t].start = Null},
   links |-> DOMAIN d.links, comments |-> DOMAIN d.comments, reviews |-> DOMAIN d.reviews]

Event(kind, id, at) == [kind |-> kind, id |-> id, at |-> at]
BuildCalendar(d, rows, role, u, w) ==
  LET at == InstantsOf(w)
      Scope(t) == role # "STAFF" \/ Mine(d.trips[t], u)
      ls == {l \in rows.links : Scope(d.links[l].trip)}
      Last(r) == IF r.end >= r.start THEN DayOf(r.end) ELSE DayOf(r.start)
  IN [trips |-> {t \in rows.trips : LET r == d.trips[t] IN
                   /\ r.status # "ARCHIVED" /\ r.start # Null /\ Scope(t)
                   /\ DayOf(r.start) <= w[2] /\ Last(r) >= w[1]},
      undated |-> Cardinality({t \in rows.undated : Scope(t)}),
      events |->
        {Event("share_sent", l, d.links[l].created) : l \in {k \in ls : d.links[k].created \in at}}
        \cup {Event("share_expires", l, d.links[l].expires) : l \in {k \in ls : ~d.links[k].revoked /\ d.links[k].expires \in at}}
        \cup {Event("client_viewed", l, d.links[l].lastViewed) : l \in {k \in ls : d.links[k].lastViewed \in at}}
        \cup {Event("proposal_rated", l, d.links[l].ratedAt) : l \in {k \in ls : d.links[k].rating # Null /\ d.links[k].ratedAt \in at}}
        \cup {Event(IF Unanswered(d.comments[c]) THEN "needs_reply" ELSE "client_commented", c, d.comments[c].created)
                : c \in {k \in rows.comments : Scope(d.links[d.comments[k].link].trip) /\ d.comments[k].created \in at}}
        \cup {Event("review_submitted", t, d.reviews[t]) : t \in {k \in rows.reviews : Scope(k) /\ d.reviews[k] \in at}}]

(* The trip panel: the newest live link, else the newest, and the newest     *)
(* comments on any of its links.                                             *)
TripPreview(d, t) ==
  LET ls == ViewsOf(d, t)
      live == {l \in ls : ~d.links[l].revoked}
      pool == IF live # {} THEN live ELSE ls
      cs == {c \in DOMAIN d.comments : d.comments[c].link \in ls}
      Newer(a, b) == LET p == d.comments[a].created  q == d.comments[b].created IN p > q \/ (p = q /\ a > b)
  IN [share |-> {l \in pool : \A k \in pool : d.links[k].created <= d.links[l].created},
      comments |-> First(Most.preview, cs, Newer)]
----------------------------------------------------------------------------
(* Properties. They speak of the answer to a dashboard request.              *)
Tables == [trips |-> trips, drafts |-> drafts, links |-> links, comments |-> comments, reviews |-> reviews]
Answering == reader.pc = "done"
Whole == \A part \in DOMAIN raw : raw[part] = Tables[part]     \* nothing changed while it was read
TripOf(d, c) == d.links[d.comments[c].link].trip

(* What the calendar's queries leave out, the calendar would not show: for   *)
(* every range, the payload is that of all rows (calendarRepository.ts:33).  *)
CalendarLosesNothing ==
  \A w \in Windows, role \in {"OWNER", "STAFF"} :
    LET For(rows) == BuildCalendar(Tables, rows, role, reader.user, w)
    IN For(FetchCalendarWindow(Tables, w)) = For(EveryRow(Tables))

(* The panels of one answer say the same of a client's question: the "Needs  *)
(* you today" rows whose trip was read are those of the "Client comments"    *)
(* card, up to its limit, and when nothing changed meanwhile the calendar    *)
(* marks the same comments and the trip panel shows them as waiting          *)
(* (clientComments.ts:5-10, calendar.ts:232). The calendar's own filters     *)
(* lose nothing of what it shows.                                            *)
PanelsAgree ==
  Answering =>
    LET unread == UnreadComments(raw)
        known == {c \in unread : TripOf(raw, c) \in DOMAIN raw.trips}
        card == Waiting(raw, DOMAIN raw.trips)
        w == <<0, Horizon>>
        calendar == BuildCalendar(Tables, FetchCalendarWindow(Tables, w), "OWNER", NoOne, w)
    IN /\ card \subseteq known /\ Cardinality(card) = Min({Most.waiting, Cardinality(known)})
       /\ Whole => /\ unread = {e.id : e \in {x \in calendar.events : x.kind = "needs_reply"}}
                   /\ \A c \in unread : LET shown == TripPreview(raw, TripOf(raw, c)).comments
                                       IN c \in shown \/ Cardinality(shown) = Most.preview
                   /\ CalendarLosesNothing

(* A member of staff sees of the agency's worklist the rows on the trips     *)
(* they created, drafts earlier than the owner does, and lists that are cut  *)
(* as they would be if the agency had no other trips: rows of other people   *)
(* never take their place (aggregations.ts:303-306, clientComments.ts:27).   *)
StaffSeesTheirShare ==
  Answering /\ reader.view = "staff" =>
    LET p == StaffPayload(raw, reader.user)
        o == OwnerPayload(raw)
        mine == {t \in DOMAIN raw.trips : raw.trips[t].by = reader.user}
        alone == OwnerPayload(NarrowTo(raw, mine))
        OnMine(ls) == {l \in ls : raw.links[l].trip \in mine}
    IN /\ p.worklist.unread = {c \in o.worklist.unread : TripOf(raw, c) \in mine}
       /\ p.worklist.expiring = OnMine(o.worklist.expiring)
       /\ o.worklist.stuck \cap mine \subseteq p.worklist.stuck /\ p.worklist.stuck \subseteq mine
       /\ p.waiting = alone.waiting /\ p.answered = alone.answered /\ p.views = alone.views

(* The owner's figures fit each other, however the tables changed while they *)
(* were read: no link that was read is lost to the funnel, the stages nest,  *)
(* the bars of the first figure add up to its trips, and an answer that saw  *)
(* the tables whole never fails for a missing trip (tripLists.ts:18-26).     *)
FiguresAddUp ==
  Answering /\ reader.view = "owner" =>
    LET o == OwnerPayload(raw)
        f == o.funnel
        Shown(ls) == {raw.links[l].trip : l \in ls}
    IN /\ f.viewed \subseteq f.sent /\ f.sent \subseteq f.drafted /\ f.drafted \subseteq f.created
       /\ Shown(DOMAIN raw.links) \cap f.created = f.sent
       /\ Shown(o.worklist.viewed) \cap f.created \subseteq f.viewed
       /\ MapThenSumSet(LAMBDA i : o.kpis.sparkline[i], 0 .. 6) = Cardinality(f.created)
       /\ o.kpis.winRate[1] <= o.kpis.winRate[2]
       /\ Whole => ~Throws(raw)

\* The panels and figures of one answer fit each other.
FiguresAgree == PanelsAgree /\ StaffSeesTheirShare /\ FiguresAddUp

=============================================================================
