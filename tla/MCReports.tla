------------------------------ MODULE MCReports ------------------------------
(***************************************************************************)
(* What the server adds up, looks up and shows. The parts do not interact, *)
(* so each behaviour runs one of them.                                     *)
(***************************************************************************)
EXTENDS Dashboards, UsageReports, Weather, RatedHistory, SharePage

VARIABLE part

CONSTANTS p1, p2, a1, a2, g1, h1, h2, l1, l2, c1, c2

\* Dashboards.
MCWithin ==
  [period |-> 2, ownerDraft |-> 2, staffDraft |-> 1, expiring |-> 2, lowRated |-> 1, soon |-> 1,
   upcoming |-> 2, views |-> 2, answered |-> 1, slack |-> 1]
MCMost == [waiting |-> 1, answered |-> 1, views |-> 1, preview |-> 1]
MCWindows == {<<0, 0>>, <<1, 1>>, <<1, 2>>, <<2, 2>>}
MCDates == {<<Null, Null>>, <<3, 4>>}
UsersAlike == Permutations(Users)

\* UsageReports: months of two or three days, and runs of before the job.
MCSeats == {[user |-> a1, agency |-> g1, chat |-> h1], [user |-> a2, agency |-> NoGroup, chat |-> h2]}
Price(i, c, o) == [input |-> i, cachedInput |-> c, output |-> o]
MCPrices == <<"m1" :> Price(2, 1, 3), ("m1" :> Price(2, 1, 4)) @@ ("m2" :> Price(1, 1, 1))>>
Reported(m, p, c, o) == [model |-> m, prompt |-> p, cached |-> c, output |-> o, thoughts |-> 1, total |-> p + 1]
MCCalls == {Reported("m1", 2, 1, 1), Reported("m2", 1, 0, 1)}
Stored(m, usable) ==
  [model |-> m, prompt |-> 1, cached |-> 2, output |-> 1, thoughts |-> 0, total |-> 2, cost |-> 0, usable |-> usable]
Old(at, detail) ==
  [status |-> "COMPLETED", at |-> at, user |-> a1, agency |-> g1, chat |-> h1, provider |-> "openai", model |-> "gpt",
   cost |-> 0, complete |-> TRUE, tokens |-> 2 * Len(detail), detail |-> detail]
MCLegacy ==
  (1 :> Old(5, <<Stored("m2", TRUE), Stored("m1", TRUE)>>)) @@ (3 :> Old(9, <<Stored("m1", FALSE)>>))
    @@ (4 :> Old(12, <<Stored("m1", TRUE)>>))
MCMonths == <<2, 3, 2, 3>>
MCSpans == ("7d" :> 1) @@ ("30d" :> 2)

\* Weather: trips across today, the end of the forecast and a leap year.
MCToday == DateOf(2026, 3, 10)
Day(own, place_, stops) == [own |-> own, place |-> place_, stops |-> stops]
Between(s, e) == [start |-> s, end |-> e]
MCItineraries ==
  {[start |-> MCToday - 2, days |-> <<Day(None, Nowhere, {}), Day(MCToday + 1, p1, {Between(780, 840), Between(840, None), Between(1050, 1110)}),
                                      Day(MCToday + 16, p1, {})>>],
   [start |-> None, days |-> <<Day(None, p1, {}), Day(DateOf(2026, 4, 1), p1, {}), Day(DateOf(2027, 4, 1), Nowhere, {})>>],
   [start |-> MCToday, days |-> <<Day(None, Nowhere, {}), Day(None, p1, {}), Day(None, p2, {}), Day(MCToday + 3, p2, {})>>],
   [start |-> MCToday, days |-> <<Day(None, Nowhere, {})>>]}
MCToolAsks == {<<p1, DateOf(2027, 3, 9), DateOf(2027, 3, 11)>>}
Hour(h, b, c) == [hour |-> h, band |-> b, chance |-> c]
MCHourlies ==
  {{Hour(13, 0, 20), Hour(14, 2, 70), Hour(15, 4, None), Hour(17, NoCode, 0), Hour(18, 0, 60), Hour(23, 2, 90)}}

\* RatedHistory: a dated trip with two links, and a trip without dates.
MCTripDates == <<[start |-> 5, end |-> 6, month |-> 4], [start |-> Undated, end |-> Undated, month |-> 0]>>
MCLinkTrips == (l1 :> 1) @@ (l2 :> 1)
AStop(n, route) == [id |-> n, what |-> n, note |-> TRUE, route |-> route]
ADay(n, date, items) == [id |-> n, what |-> n, date |-> date, items |-> items]
MCFirstPlans == <<
  [version |-> 1, approved |-> FALSE, days |->
     <<ADay(1, 5, (0 :> AStop(11, FALSE)) @@ (1 :> AStop(12, TRUE)) @@ (4 :> AStop(13, TRUE))), ADay(2, 6, 0 :> AStop(21, FALSE))>>],
  [version |-> 1, approved |-> FALSE, days |-> <<ADay(3, Undated, (1 :> AStop(31, FALSE)) @@ (2 :> AStop(32, TRUE)))>>]>>
MCCreatedBy == <<c1, c2>>
MCCallers == {<<"OWNER", c2>>, <<"STAFF", c1>>}
MCFilters == {[duration |-> Unasked, season |-> AnySeason], [duration |-> 2, season |-> "spring"]}
Chosen(kind, ids) == [kind |-> kind, ids |-> ids]
MCSelections ==
  {Chosen("item", <<13, 11>>), Chosen("item", <<32>>), Chosen("item", <<11, 21>>), Chosen("day", <<2, 1>>),
   Chosen("segment", <<2, 1>>), Chosen("segment", <<3, 3>>)}

----------------------------------------------------------------------------
Init ==
  /\ DashInit /\ UsageInit /\ WeatherInit /\ RatedInit /\ ShareInit
  /\ part \in {"dashboard", "usage", "weather", "list", "insertion", "page"}
  /\ part # "page" => shown = Nothing

Next ==
  \/ part = "dashboard" /\ DashNext /\ UNCHANGED <<usageVars, weatherVars, ratedVars, shareVars, part>>
  \/ part = "usage" /\ UsageNext /\ UNCHANGED <<dashVars, weatherVars, ratedVars, shareVars, part>>
  \/ part = "weather" /\ WeatherNext /\ UNCHANGED <<dashVars, usageVars, ratedVars, shareVars, part>>
  \/ part = "list" /\ (ListNext \/ EditNext) /\ UNCHANGED <<dashVars, usageVars, weatherVars, shareVars, part>>
  \/ part = "insertion" /\ (InsertNext \/ EditNext) /\ UNCHANGED <<dashVars, usageVars, weatherVars, shareVars, part>>
  \/ part = "page" /\ ShareNext /\ UNCHANGED <<dashVars, usageVars, weatherVars, ratedVars, part>>

Spec == Init /\ [][Next]_<<dashVars, usageVars, weatherVars, ratedVars, shareVars, part>>
=============================================================================
