------------------------------- MODULE Weather -------------------------------
(***************************************************************************)
(* The weather of an itinerary's days and of the agent's weather tool      *)
(* (services/weather/*.ts). Each place is looked up through a cache that   *)
(* concurrent askers share: the forecast first, then past years for the    *)
(* dates it does not reach, then the hours. Requests answer or fail in any *)
(* order. A date is the number of its day in the Gregorian calendar.       *)
(***************************************************************************)
EXTENDS Integers, Sequences, FiniteSets, FiniteSetsExt, SequencesExt, TLC

CONSTANTS
  Today,          \* the server's date; the places' own may be a day off
  Nowhere,        \* a day without located stops
  Itineraries,    \* what is asked for: <<[own, place, stops]>> and a start
  ToolAsks,       \* <<place, first date, last date>>
  TypicalYears, ForecastDays, HorizonDays, MaxBucketSpan, MaxEntries,
  Hourlies,       \* what the hours of a day may be: sets of [hour, band, chance]
  MaxAsks         \* a bound

ASSUME WeatherConstants ==
  /\ {TypicalYears, ForecastDays, HorizonDays, MaxEntries} \subseteq Nat \ {0}
  /\ \A k \in ToolAsks : k[3] - k[2] \in 0 .. 13 /\ k[2] - Today \in -1 .. 366

None == -1
Askers == {"view", "tool"}

VARIABLES
  promises,   \* the requests made so far: <<[key, state, rows]>>
  entries,    \* the cache, oldest first: <<[key, promise, fresh]>>
  asks,       \* how many lookups were begun
  build       \* asker -> [pc, days, at], `at` giving each place's lookup

weatherVars == <<promises, entries, asks, build>>

----------------------------------------------------------------------------
(* The calendar.                                                             *)
Leap(y) == y % 4 = 0 /\ (y % 100 # 0 \/ y % 400 = 0)
LeapDay(y) == IF Leap(y) THEN 1 ELSE 0
DaysIn(y, m) == IF m = 2 THEN 28 + LeapDay(y) ELSE <<31, 0, 31, 30, 31, 30, 31, 31, 30, 31, 30, 31>>[m]
DaysBefore(y, m) ==
  <<0, 31, 59, 90, 120, 151, 181, 212, 243, 273, 304, 334>>[m] + (IF m > 2 THEN LeapDay(y) ELSE 0)
DateOf(y, m, d) ==
  365 * (y - 1) + (y - 1) \div 4 - (y - 1) \div 100 + (y - 1) \div 400 + DaysBefore(y, m) + d

(* The dates that are looked up, and the years they are shifted by: bounds   *)
(* that let TLC compute the calendar once.                                   *)
Era == Today - 366 .. Today + 700
YearsBack == -(TypicalYears + 3) .. -1

Year == [date \in Era |->
  LET guess == date \div 365
  IN CHOOSE y \in guess - 5 .. guess + 1 : DateOf(y, 1, 1) <= date /\ date < DateOf(y + 1, 1, 1)]
Month == [date \in Era |-> Max({m \in 1 .. 12 : DateOf(Year[date], m, 1) <= date})]

(* The same day in another year; 29 February falls back to the 28th.         *)
ShiftYears == [date \in Era, years \in YearsBack |->
  LET y == Year[date] + years
      m == Month[date]
  IN DateOf(y, m, Min({date - DateOf(Year[date], m, 1) + 1, DaysIn(y, m)}))]

----------------------------------------------------------------------------
(* The cache. Get is folded over the keys that one step asks for; a caller   *)
(* keeps the promise it got whatever becomes of the entry.                   *)
Key(kind, place, from, to) == [kind |-> kind, place |-> place, from |-> from, to |-> to]
ForecastKey(place) == Key("forecast", place, None, None)
HourlyKey(place) == Key("hourly", place, None, None)

Cached(cache, key) == {i \in DOMAIN cache.entries : cache.entries[i].key = key /\ cache.entries[i].fresh}
Get(cache, key) ==
  IF Cached(cache, key) # {}
  THEN [cache EXCEPT !.ids = (key :> cache.entries[Min(Cached(cache, key))].promise) @@ @]
  ELSE LET id == Len(cache.promises) + 1
           kept == SelectSeq(cache.entries, LAMBDA e : e.key # key)
           all == Append(kept, [key |-> key, promise |-> id, fresh |-> TRUE])
       IN [promises |-> Append(cache.promises, [key |-> key, state |-> "pending", rows |-> {}]),
           entries |-> SubSeq(all, Max({1, Len(all) - MaxEntries + 1}), Len(all)),
           ids |-> (key :> id) @@ cache.ids]
GetAll(keys) == FoldLeft(Get, [promises |-> promises, entries |-> entries, ids |-> <<>>], SetToSeq(keys))
Asks(keys) == promises' = GetAll(keys).promises /\ entries' = GetAll(keys).entries

(* A failed request leaves the cache, if it is still the one held there.     *)
Evict(es, id) == SelectSeq(es, LAMBDA e : e.promise # id)

----------------------------------------------------------------------------
(* Which dates are asked of whom.                                            *)
Candidates(dates) == {d \in dates : d - Today \in -1 .. HorizonDays}
Beyond(dates) == {d \in dates : d - Today > HorizonDays}

(* Dates within one span of the bucket's first share its requests.           *)
BucketsOf(dates, span) ==
  LET Starts[rest \in SUBSET dates] ==
        IF rest = {} THEN {} ELSE {Min(rest)} \cup Starts[{d \in rest : d - Min(rest) > span}]
  IN {{d \in dates : d - s \in 0 .. span} : s \in Starts[dates]}
WholeYearBuckets(dates) == BucketsOf(dates, MaxBucketSpan + 1)
Buckets(dates) == BucketsOf(dates, MaxBucketSpan)

(* The first year back that the archive can serve, two days behind.          *)
FirstBack(end) ==
  Min({n \in 1 .. 3 : Year[end] - Year[Today - 2] <= n /\ ShiftYears[end, -n] <= Today - 2})
Histories(place, dates) ==
  UNION {LET back == FirstBack(Max(b))
         IN {[back |-> n, from |-> Min(b), to |-> Max(b),
              key |-> Key("history", place, ShiftYears[Min(b), -n], ShiftYears[Max(b), -n])]
               : n \in back .. back + TypicalYears - 1} : b \in Buckets(dates)}
HistoryKeys(place, dates) == {h.key : h \in Histories(place, dates)}

----------------------------------------------------------------------------
(* A day's date is its own, or follows from the trip's start; a day without  *)
(* a place borrows that of the first day that has one.                       *)
Resolved(it) ==
  LET located == {i \in DOMAIN it.days : it.days[i].place # Nowhere}
      fallback == IF located = {} THEN Nowhere ELSE it.days[Min(located)].place
  IN [i \in DOMAIN it.days |->
        LET day == it.days[i]
        IN [date |-> IF day.own # None THEN day.own ELSE IF it.start # None THEN it.start + i - 1 ELSE None,
            place |-> IF day.place # Nowhere THEN day.place ELSE fallback,
            stops |-> day.stops]]
ToolDays(k) == [i \in 1 .. k[3] - k[2] + 1 |-> [date |-> k[2] + i - 1, place |-> k[1], stops |-> {}]]

Wanted(days) == {i \in DOMAIN days : days[i].date # None /\ days[i].place # Nowhere}
DatesAt(days, place) == {days[i].date : i \in {k \in Wanted(days) : days[k].place = place}}
PlacesOf(days) == {days[i].place : i \in Wanted(days)}

FirstKeys(place, dates) ==
  IF Candidates(dates) # {} THEN {ForecastKey(place)} ELSE HistoryKeys(place, Beyond(dates))

(* What is waited for: the promises of the histories asked for.              *)
Waits(place, later, ids) == {[back |-> h.back, from |-> h.from, to |-> h.to, p |-> ids[h.key]] : h \in Histories(place, later)}

Begin(a, days) ==
  LET keys == UNION {FirstKeys(p, DatesAt(days, p)) : p \in PlacesOf(days)}
      ids == GetAll(keys).ids
      Lookup(p) ==
        LET ds == DatesAt(days, p)
            first == Candidates(ds) # {}
        IN [stage |-> IF first THEN "forecast" ELSE "history",
            forecast |-> IF first THEN ids[ForecastKey(p)] ELSE 0, hourly |-> 0,
            answers |-> [d \in ds |-> IF d - Today < -1 THEN "PAST" ELSE "UNAVAILABLE"],
            waits |-> IF first THEN {} ELSE Waits(p, Beyond(ds), ids)]
  IN /\ build[a].pc \in {"idle", "done"} /\ asks < MaxAsks /\ asks' = asks + 1
     /\ Asks(keys)
     /\ build' = [build EXCEPT ![a] = [pc |-> "daily", days |-> days, at |-> [p \in PlacesOf(days) |-> Lookup(p)]]]

BuildItineraryWeather == \E it \in Itineraries : Begin("view", Resolved(it))
WeatherForecast == \E k \in ToolAsks : Begin("tool", ToolDays(k))

----------------------------------------------------------------------------
(* The provider answers, or fails, or the request times out. A forecast      *)
(* covers its days from the place's today on, perhaps with a day missing.    *)
Rows(key) ==
  CASE key.kind = "forecast" ->
         {(Today - 1 .. Today + ForecastDays - 2) \ {Today + 3}, Today + 1 .. Today + ForecastDays, {}}
    [] key.kind = "history" -> {key.from .. key.to, {}}
    [] key.kind = "hourly" -> Hourlies

Settle ==
  /\ \E id \in DOMAIN promises :
       /\ promises[id].state = "pending"
       /\ \/ /\ \E rows \in Rows(promises[id].key) :
                  promises' = [promises EXCEPT ![id].state = "ok", ![id].rows = rows]
             /\ UNCHANGED entries
          \/ /\ promises' = [promises EXCEPT ![id].state = "failed"]
             /\ entries' = Evict(entries, id)
  /\ UNCHANGED <<asks, build>>

(* Three hours pass: forecasts are no longer fresh, past weather is.         *)
HoursPass ==
  /\ \A id \in DOMAIN promises : promises[id].state # "pending"
  /\ \E i \in DOMAIN entries : entries[i].fresh /\ entries[i].key.kind # "history"
  /\ entries' = [i \in DOMAIN entries |-> [entries[i] EXCEPT !.fresh = (entries[i].key.kind = "history")]]
  /\ UNCHANGED <<promises, asks, build>>

(* What a forecast says of a candidate.                                      *)
FromForecast(d, f) ==
  IF f.state = "failed" THEN "UNAVAILABLE"
  ELSE IF d \in f.rows THEN "FORECAST"
  ELSE IF f.rows # {} /\ d < Min(f.rows) THEN "PAST"
  ELSE IF f.rows # {} /\ d > Max(f.rows) THEN "LATER"
  ELSE "UNAVAILABLE"

TakeForecast ==
  /\ \E a \in Askers : \E p \in DOMAIN build[a].at :
       LET l == build[a].at[p]
           f == promises[l.forecast]
           candidates == Candidates(DOMAIN l.answers)
           later == Beyond(DOMAIN l.answers) \cup {d \in candidates : FromForecast(d, f) = "LATER"}
           answers == [d \in DOMAIN l.answers |-> IF d \in candidates \ later THEN FromForecast(d, f) ELSE l.answers[d]]
       IN /\ l.stage = "forecast" /\ f.state # "pending"
          /\ Asks(HistoryKeys(p, later))
          /\ build' = [build EXCEPT ![a].at[p].answers = answers,
                                    ![a].at[p].waits = Waits(p, later, GetAll(HistoryKeys(p, later)).ids),
                                    ![a].at[p].stage = IF later = {} THEN "ready" ELSE "history"]
  /\ UNCHANGED asks

(* A date is typical of the years in which its day has weather.              *)
Typical(d, l) ==
  \E w \in l.waits :
    d \in w.from .. w.to /\ promises[w.p].state = "ok" /\ ShiftYears[d, -w.back] \in promises[w.p].rows

TakeHistories ==
  /\ \E a \in Askers : \E p \in DOMAIN build[a].at :
       LET l == build[a].at[p]
       IN /\ l.stage = "history" /\ \A w \in l.waits : promises[w.p].state # "pending"
          /\ build' = [build EXCEPT ![a].at[p].stage = "ready",
                         ![a].at[p].answers = [d \in DOMAIN @ |-> IF Typical(d, l) THEN "TYPICAL" ELSE @[d]]]
  /\ UNCHANGED <<promises, entries, asks>>

(* With every place looked up, the hours are asked for where a forecast was. *)
AskHourly ==
  /\ \E a \in Askers :
       LET b == build[a]
           places == {p \in DOMAIN b.at : \E d \in DOMAIN b.at[p].answers : b.at[p].answers[d] = "FORECAST"}
           keys == {HourlyKey(p) : p \in places}
       IN /\ b.pc = "daily" /\ \A p \in DOMAIN b.at : b.at[p].stage = "ready"
          /\ Asks(keys)
          /\ build' = [build EXCEPT ![a].pc = "hourly", ![a].at =
                         [p \in DOMAIN b.at |-> [b.at[p] EXCEPT !.hourly = IF p \in places THEN GetAll(keys).ids[HourlyKey(p)] ELSE 0]]]
  /\ UNCHANGED asks

Answer ==
  /\ \E a \in Askers :
       LET b == build[a]
       IN /\ b.pc = "hourly"
          /\ \A p \in DOMAIN b.at : b.at[p].hourly # 0 => promises[b.at[p].hourly].state # "pending"
          /\ build' = [build EXCEPT ![a].pc = "done"]
  /\ UNCHANGED <<promises, entries, asks>>

WeatherInit ==
  /\ promises = <<>> /\ entries = <<>> /\ asks = 0
  /\ build = [a \in Askers |-> [pc |-> "idle", days |-> <<>>, at |-> <<>>]]

WeatherNext ==
  \/ BuildItineraryWeather \/ WeatherForecast \/ Settle \/ HoursPass
  \/ TakeForecast \/ TakeHistories \/ AskHourly \/ Answer

DayAnswer(b, i) ==
  IF b.days[i].date = None THEN "NO_DATE"
  ELSE IF b.days[i].place = Nowhere THEN "NO_LOCATION"
  ELSE b.at[b.days[i].place].answers[b.days[i].date]

----------------------------------------------------------------------------
(* The hours of a day. Bands go from dry (0) over showers, rain and snow to  *)
(* storms; a row without a weather code says nothing of its hour.            *)
NoCode == -1
Daytime == 6 .. 21
Known(rows) == {r \in rows : r.band # NoCode}
ByDay(rows) == {r \in Known(rows) : r.hour \in Daytime}
Worst(rows) == Max({0} \cup {r.band : r \in rows})
Chance(rows) == Max({None} \cup {r.chance : r \in rows})

(* A stop without an end after its start lasts an hour, within the day.      *)
StopHours(stop) ==
  LET end == IF stop.end > stop.start THEN stop.end ELSE Min({stop.start + 60, 1440})
  IN stop.start \div 60 .. (end - 1) \div 60
StopWeather(stop, rows) ==
  LET covered == {r \in Known(rows) : r.hour \in StopHours(stop)}
      band == Worst(covered)
  IN [outlook |-> IF band = 0 /\ Chance(covered) >= 50 THEN 1 ELSE band, chance |-> Chance(covered), covered |-> covered # {}]

SummarizeHourlyDay(rows) ==
  LET wet == {r \in ByDay(rows) : r.band > 0}
      worst == {r.hour : r \in {x \in wet : x.band = Worst(wet)}}
  IN IF wet = {} THEN [wet |-> FALSE, chance |-> Chance(ByDay(rows))]
     ELSE [wet |-> TRUE, chance |-> Chance(ByDay(rows)), band |-> Worst(wet),
           first |-> Min({r.hour : r \in wet}), last |-> Max({r.hour : r \in wet}),
           from |-> Min(worst), to |-> Max(worst) + 1]

(* The days that get their hours, as <<day, rows>>.                          *)
WithHours(b) ==
  {<<i, promises[b.at[b.days[i].place].hourly].rows>> : i \in
     {k \in Wanted(b.days) : /\ DayAnswer(b, k) = "FORECAST"
                              /\ promises[b.at[b.days[k].place].hourly].state = "ok"
                              /\ ByDay(promises[b.at[b.days[k].place].hourly].rows) # {}}}

----------------------------------------------------------------------------
Done(a) == build[a].pc = "done"
HistoriesAsked == {promises[id].key : id \in {k \in DOMAIN promises : promises[k].key.kind = "history"}}
RequestsFor(l, d) ==
  (IF l.forecast # 0 /\ d \in Candidates({d}) THEN {l.forecast} ELSE {})
    \cup {w.p : w \in {x \in l.waits : d \in x.from .. x.to}}
Fell(id) == promises[id].state = "failed" \/ promises[id].rows = {}

(* A failure is never handed to a later asker, and askers of one thing at    *)
(* one time share a request, unless the cache was full and let it go         *)
(* (weatherCache.ts:5-9).                                                    *)
FailuresAreRetried ==
  /\ \A i \in DOMAIN entries : promises[entries[i].promise].state # "failed"
  /\ \A i, j \in DOMAIN promises :
       i < j /\ promises[i].key = promises[j].key /\ promises[i].state = "pending" /\ promises[j].state = "pending"
         => Len(promises) > MaxEntries

(* Weather is supplementary: a request that fails or comes back empty costs  *)
(* only the dates it was made for, no day after the server's own is called   *)
(* past, a date has typical weather only where the forecast does not reach   *)
(* it, and then the full number of years was asked for. The archive is never *)
(* asked for days it cannot have, nor for more than 366 of them, and a       *)
(* failure of it is not kept for those who ask later                         *)
(* (weatherOutlook.ts:116-121,143-144,200-204, weatherCache.ts:22-24).       *)
AnswersAreRight ==
  /\ FailuresAreRetried
  /\ \A key \in HistoriesAsked : key.from <= key.to /\ key.to <= Today - 2 /\ key.to - key.from < 366
  /\ \A a \in Askers : Done(a) =>
       \A i \in Wanted(build[a].days) :
         LET d == build[a].days[i].date
             l == build[a].at[build[a].days[i].place]
             answer == DayAnswer(build[a], i)
             rows == IF l.forecast = 0 THEN {} ELSE promises[l.forecast].rows
         IN /\ answer = "PAST" => d <= Today
            /\ answer = "FORECAST" <=> d \in Candidates({d}) /\ d \in rows
            /\ answer = "TYPICAL" => \A r \in rows : d > r
            /\ answer = "UNAVAILABLE" =>
                 \/ \E id \in RequestsFor(l, d) : Fell(id)
                 \/ rows # {} /\ d \in Min(rows) .. Max(rows)
            /\ d > Today + HorizonDays =>
                 \E first \in 1 .. 3 : {w.back : w \in {x \in l.waits : d \in x.from .. x.to}} = first .. first + TypicalYears - 1

(* What a stop is told of the rain fits what its day is told: a stop in dry  *)
(* hours is not called wet for the hour it ends in, one in the day's wet     *)
(* hours is at most as bad as the day, the worst weather lies in the wet     *)
(* spell (hourlyWeather.ts:24-36,94-118).                                    *)
HoursFitTheDay ==
  \A a \in Askers : Done(a) =>
    \A x \in WithHours(build[a]) : \A stop \in build[a].days[x[1]].stops :
      LET day == SummarizeHourlyDay(x[2])
          there == StopWeather(stop, x[2])
          until == IF stop.end > stop.start THEN stop.end ELSE stop.start + 60
          daytime == stop.start >= 360 /\ until <= 1320
      IN /\ day.wet => day.first <= day.from /\ day.from < day.to /\ day.to <= day.last + 1
         /\ daytime /\ (day.wet => until <= 60 * day.first \/ stop.start >= 60 * (day.last + 1)) => there.outlook <= 1
         /\ daytime /\ there.outlook > 1 => day.wet /\ there.outlook <= day.band
         /\ daytime => there.chance <= day.chance
         /\ there.outlook > 0 => there.covered

\* What an outlook says of the days and of the stops in them.
OutlookIsRight == AnswersAreRight /\ HoursFitTheDay
=============================================================================
