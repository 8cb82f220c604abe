-------------------------- MODULE PlaceRefreshProofs --------------------------
(***************************************************************************)
(* Theorems about PlaceRefresh, for any places, agent runs and options.    *)
(***************************************************************************)
EXTENDS PlaceRefresh, SequenceTheorems, FiniteSetTheorems, TLAPS

(* Every non-empty set of natural numbers has a least element.              *)
LEMMA LeastOf ==
  ASSUME NEW T, T \subseteq Nat, T # {} PROVE \E n \in T : \A m \in T : n <= m
<1>1. PICK n \in T : \A m \in T : <<m, n>> \notin OpToRel(<, Nat)
  BY NatLessThanWellFounded, WFMin
<1>2. ASSUME NEW m \in T PROVE n <= m
  <2>1. m \in Nat /\ n \in Nat
    BY <1>1
  <2>2. ~(m < n)
    BY <1>1, <2>1 DEF OpToRel
  <2> QED BY <2>1, <2>2
<1> QED BY <1>1, <1>2

-----------------------------------------------------------------------------
Snapshots == [place : Places, at : Int]

Integral ==
  /\ queue \in Seq(Snapshots)
  /\ now \in Nat /\ hourlyRequests \in Seq(Nat) /\ issued \in Seq(Nat)
  /\ checkedAt \in [Places -> Int] /\ observed \in [Places -> Int]
  /\ cooldownUntil \in [Places -> Int] /\ failedAt \in [Places -> Int]
  /\ request \in [Places -> {"none", "asking", "observing"}]

(* The requests of the last hour end the list of all requests.              *)
Remembered(recent, all) ==
  LET n == Len(recent)
      m == Len(all)
  IN  /\ n <= m
      /\ \A i \in 1..n : recent[i] = all[m - n + i]
      /\ \A i \in 1..(m - n) : all[i] <= now - Hour

HourInv == Remembered(hourlyRequests, issued)

(* A failure starts the cooldown.                                           *)
CoolInv == \A p \in Places : failedAt[p] # Never => cooldownUntil[p] = failedAt[p] + Cooldown

LEMMA ExpiredIsFound ==
  ASSUME Integral
  PROVE  /\ Expired \in 0..Len(hourlyRequests)
         /\ \A i \in 1..Expired : hourlyRequests[i] <= now - Hour
<1> DEFINE len == Len(hourlyRequests)
           last == {n \in 0..len : n < len => hourlyRequests[n + 1] > now - Hour}
<1>1. len \in Nat /\ \A i \in 1..len : hourlyRequests[i] \in Nat
  BY LenProperties DEF Integral
<1>2. len \in last /\ last \subseteq Nat
  BY <1>1
<1>3. PICK n \in last : \A m \in last : n <= m
  BY <1>2, LeastOf
<1>4. ASSUME NEW i \in 1..n PROVE hourlyRequests[i] <= now - Hour
  <2>1. n \in 0..len /\ i \in 1..len /\ i - 1 \in 0..len /\ ~(n <= i - 1)
    BY <1>1, <1>3, <1>4
  <2>2. i - 1 \notin last
    BY <1>3, <2>1
  <2>3. ~(hourlyRequests[(i - 1) + 1] > now - Hour)
    BY <2>1, <2>2
  <2>4. hourlyRequests[i] \in Nat /\ now \in Nat /\ Hour \in Nat
    BY <1>1, <2>1, OptionsAssumption DEF Integral
  <2> QED BY <2>1, <2>3, <2>4
<1>5. /\ n \in 0..len
      /\ \A i \in 1..n : hourlyRequests[i] <= now - Hour
      /\ n < len => hourlyRequests[n + 1] > now - Hour
  BY <1>3, <1>4
<1> QED BY <1>5 DEF Expired

LEMMA UnexpiredIsRemembered ==
  ASSUME Integral, HourInv
  PROVE  Unexpired \in Seq(Nat) /\ Remembered(Unexpired, issued)
<1>1. PICK h, s, k : h = hourlyRequests /\ s = issued /\ k = Expired
  OBVIOUS
<1>2. /\ h \in Seq(Nat) /\ s \in Seq(Nat) /\ Len(h) \in Nat /\ Len(s) \in Nat
      /\ \A i \in 1..Len(h) : h[i] \in Nat
  BY <1>1, LenProperties DEF Integral
<1>3. k \in 0..Len(h) /\ \A i \in 1..k : h[i] <= now - Hour
  BY <1>1, ExpiredIsFound
<1>4. /\ Len(h) <= Len(s)
      /\ \A i \in 1..Len(h) : h[i] = s[Len(s) - Len(h) + i]
      /\ \A i \in 1..(Len(s) - Len(h)) : s[i] <= now - Hour
  BY <1>1 DEF HourInv, Remembered
<1>5. PICK u : u = Unexpired
  OBVIOUS
<1>6. u = SubSeq(h, k + 1, Len(h))
  BY <1>1, <1>5 DEF Unexpired
<1>7. /\ u \in Seq(Nat) /\ Len(u) = Len(h) - k
      /\ \A i \in 1..(Len(h) - k) : u[i] = h[k + i]
  <2>1. k + 1 \in Int /\ Len(h) \in Int /\ \A i \in (k + 1)..Len(h) : h[i] \in Nat
    BY <1>2, <1>3
  <2>2. /\ SubSeq(h, k + 1, Len(h)) \in Seq(Nat)
        /\ Len(SubSeq(h, k + 1, Len(h))) =
             IF k + 1 <= Len(h) THEN Len(h) - (k + 1) + 1 ELSE 0
        /\ \A i \in 1..(Len(h) - (k + 1) + 1) : SubSeq(h, k + 1, Len(h))[i] = h[k + 1 + i - 1]
    BY <2>1, SubSeqProperties
  <2>3. Len(u) = Len(h) - k
    BY <1>2, <1>3, <1>6, <2>2
  <2>4. ASSUME NEW i \in 1..(Len(h) - k) PROVE u[i] = h[k + i]
    <3>1. i \in 1..(Len(h) - (k + 1) + 1) /\ k + 1 + i - 1 = k + i
      BY <1>2, <1>3
    <3> QED BY <1>6, <2>2, <3>1
  <2> QED BY <1>6, <2>2, <2>3, <2>4
<1>8. ASSUME NEW i \in 1..Len(u) PROVE u[i] = s[Len(s) - Len(u) + i]
  <2>1. /\ i \in 1..(Len(h) - k) /\ k + i \in 1..Len(h)
        /\ Len(s) - Len(h) + (k + i) = Len(s) - Len(u) + i
    BY <1>2, <1>3, <1>7
  <2> QED BY <1>4, <1>7, <2>1
<1>9. ASSUME NEW i \in 1..(Len(s) - Len(u)) PROVE s[i] <= now - Hour
  <2>1. CASE i <= Len(s) - Len(h)
    BY <1>2, <1>4, <2>1
  <2>2. CASE i > Len(s) - Len(h)
    <3>1. PICK j : j = i - (Len(s) - Len(h))
      OBVIOUS
    <3>2. j \in 1..k /\ j \in 1..Len(h) /\ Len(s) - Len(h) + j = i
      BY <1>2, <1>3, <1>7, <2>2, <3>1
    <3> QED BY <1>3, <1>4, <3>2
  <2> QED BY <1>2, <2>1, <2>2
<1> QED BY <1>1, <1>2, <1>3, <1>4, <1>5, <1>7, <1>8, <1>9 DEF Remembered

(* A step that issues no request keeps both lists in step.                   *)
LEMMA Shortened ==
  ASSUME Integral, HourInv, now' = now, issued' = issued, hourlyRequests' = Unexpired
  PROVE  HourInv' /\ hourlyRequests' \in Seq(Nat)
<1>1. Unexpired \in Seq(Nat) /\ Remembered(Unexpired, issued)
  BY UnexpiredIsRemembered
<1> QED BY <1>1 DEF HourInv, Remembered

(* A request that is issued under the cap is the last of a full hour at most. *)
LEMMA IssuedUnderTheCap ==
  ASSUME Integral, HourInv, HourlyCap, Len(Unexpired) < PerHour, now' = now,
         issued' = Append(issued, now), hourlyRequests' = Append(Unexpired, now)
  PROVE  /\ HourInv' /\ HourlyCap'
         /\ hourlyRequests' \in Seq(Nat) /\ issued' \in Seq(Nat)
<1>1. PICK u, s, v, t : /\ u = Unexpired /\ s = issued
                        /\ v = Append(u, now) /\ t = Append(s, now)
  OBVIOUS
<1>2. /\ u \in Seq(Nat) /\ s \in Seq(Nat) /\ now \in Nat /\ Len(u) \in Nat /\ Len(s) \in Nat
      /\ Hour \in Nat /\ PerHour \in Nat
  BY <1>1, UnexpiredIsRemembered, LenProperties, OptionsAssumption DEF Integral
<1>3. /\ Len(u) <= Len(s)
      /\ \A i \in 1..Len(u) : u[i] = s[Len(s) - Len(u) + i]
      /\ \A i \in 1..(Len(s) - Len(u)) : s[i] <= now - Hour
  BY <1>1, UnexpiredIsRemembered DEF Remembered
<1>4. /\ v \in Seq(Nat) /\ Len(v) = Len(u) + 1 /\ v[Len(u) + 1] = now
      /\ \A i \in 1..Len(u) : v[i] = u[i]
      /\ t \in Seq(Nat) /\ Len(t) = Len(s) + 1 /\ t[Len(s) + 1] = now
      /\ \A i \in 1..Len(s) : t[i] = s[i]
  BY <1>1, <1>2, AppendProperties
<1>5. hourlyRequests' = v /\ issued' = t
  BY <1>1
<1>6. ASSUME NEW i \in 1..Len(v) PROVE v[i] = t[Len(t) - Len(v) + i]
  <2>1. CASE i = Len(u) + 1
    <3>1. Len(t) - Len(v) + i = Len(s) + 1
      BY <1>2, <1>4, <2>1
    <3> QED BY <1>4, <2>1, <3>1
  <2>2. CASE i \in 1..Len(u)
    <3>1. PICK j : j = Len(s) - Len(u) + i
      OBVIOUS
    <3>2. j = Len(t) - Len(v) + i /\ j \in 1..Len(s)
      BY <1>2, <1>3, <1>4, <2>2, <3>1
    <3>3. v[i] = u[i] /\ t[j] = s[j]
      BY <1>4, <2>2, <3>2
    <3>4. u[i] = s[j]
      BY <1>3, <2>2, <3>1
    <3> QED BY <3>2, <3>3, <3>4
  <2> QED BY <1>2, <1>4, <2>1, <2>2
<1>7. ASSUME NEW i \in 1..(Len(t) - Len(v)) PROVE t[i] <= now - Hour
  <2> DEFINE gap == Len(s) - Len(u)
  <2>1. Len(t) - Len(v) = gap
    BY <1>2, <1>4
  <2>2. i \in 1..gap
    BY <2>1
  <2>3. i \in 1..(Len(s) - Len(u)) /\ i \in 1..Len(s)
    BY <1>2, <1>3, <2>2
  <2> QED BY <1>3, <1>4, <2>3
<1>8. HourInv'
  <2>1. Len(v) <= Len(t)
    BY <1>2, <1>3, <1>4
  <2>2. Remembered(v, t)
    BY <1>6, <1>7, <2>1 DEF Remembered
  <2> QED BY <1>5, <2>2 DEF HourInv, Remembered
<1>9. DOMAIN t = 1..(Len(s) + 1) /\ DOMAIN s = 1..Len(s)
  BY <1>2, <1>4, LenProperties
<1>10. ASSUME NEW i \in DOMAIN t
       PROVE  Cardinality({j \in 1..i : t[j] > t[i] - Hour}) <= PerHour
  <2>1. CASE i \in 1..Len(s)
    <3>1. \A j \in 1..i : t[j] = s[j]
      BY <1>2, <1>4, <2>1
    <3>2. {j \in 1..i : t[j] > t[i] - Hour} = {j \in 1..i : s[j] > s[i] - Hour}
      BY <1>4, <2>1, <3>1, Zenon
    <3> QED BY <1>1, <1>9, <2>1, <3>2 DEF HourlyCap
  <2>2. CASE i = Len(s) + 1
    <3> DEFINE recent == {j \in 1..i : t[j] > t[i] - Hour}
               tail == (Len(s) - Len(u) + 1)..(Len(s) + 1)
    <3>1. IsFiniteSet(tail) /\ Cardinality(tail) = Len(u) + 1
      <4>1. PICK a, b : a = Len(s) - Len(u) + 1 /\ b = Len(s) + 1
        OBVIOUS
      <4>2. a \in Int /\ b \in Int /\ ~(a > b) /\ b - a + 1 = Len(u) + 1
        BY <1>2, <4>1
      <4>3. IsFiniteSet(a..b) /\ Cardinality(a..b) = b - a + 1
        BY <4>2, FS_Interval
      <4> QED BY <4>1, <4>2, <4>3
    <3>2. ASSUME NEW j \in recent PROVE j \in tail
      <4>1. j \in 1..(Len(s) + 1) /\ t[j] > now - Hour
        BY <1>4, <2>2, <3>2
      <4>2. ASSUME j \in 1..(Len(s) - Len(u)) PROVE FALSE
        <5>1. j \in 1..Len(s)
          BY <1>2, <1>3, <4>2
        <5>2. t[j] = s[j] /\ s[j] <= now - Hour /\ s[j] \in Nat
          BY <1>2, <1>3, <1>4, <4>2, <5>1, LenProperties
        <5> QED BY <1>2, <4>1, <5>2
      <4> QED BY <1>2, <1>3, <4>1, <4>2
    <3>3. Cardinality(recent) <= Len(u) + 1 /\ Cardinality(recent) \in Nat
      BY <3>1, <3>2, FS_Subset, FS_CardinalityType
    <3>4. Len(u) + 1 <= PerHour
      BY <1>1, <1>2
    <3> QED BY <1>2, <3>3, <3>4
  <2> QED BY <1>2, <1>9, <2>1, <2>2
<1>11. HourlyCap'
  BY <1>5, <1>10 DEF HourlyCap
<1> QED BY <1>4, <1>5, <1>8, <1>11

-----------------------------------------------------------------------------
Inv == Integral /\ HourInv /\ CoolInv /\ HourlyCap

(* What every step does to what the theorems speak of.                       *)
NoRequest == UNCHANGED <<now, issued, request, failedAt>> /\ hourlyRequests' = Unexpired
Requests(p) ==
  /\ UNCHANGED <<now, failedAt>>
  /\ p \in Places /\ request[p] = "none" /\ cooldownUntil[p] <= now
  /\ Len(Unexpired) < PerHour /\ Issue(p)
Idle == UNCHANGED <<now, hourlyRequests, issued>>

LEMMA RefreshRequests ==
  ASSUME Integral, NEW p \in Places, NEW at, NEW remaining, Refresh(p, at, remaining),
         UNCHANGED <<now, failedAt>>
  PROVE  NoRequest \/ Requests(p)
<1>1. CASE Awaits(p, at, remaining) /\ p \notin InFlight
  <2>1. request[p] = "none" /\ ~(cooldownUntil[p] > now) /\ Len(Unexpired) < PerHour
    BY <1>1 DEF Awaits, IsSkippable, InFlight
  <2> QED BY <1>1, <2>1 DEF Refresh, Requests, Integral
<1>2. CASE ~(Awaits(p, at, remaining) /\ p \notin InFlight)
  BY <1>2 DEF Refresh, NoIssue, NoRequest
<1> QED BY <1>1, <1>2

LEMMA TakeRequests ==
  ASSUME Integral, NEW w \in Workers, Take(w)
  PROVE  NoRequest \/ \E p \in Places : Requests(p)
<1>1. PICK s : s = Head(queue)
  OBVIOUS
<1>2. s \in Snapshots
  BY <1>1, HeadTailProperties DEF Take, Integral
<1>3. s.place \in Places
  BY <1>2 DEF Snapshots
<1>4. Refresh(s.place, s.at, 1) /\ UNCHANGED <<now, failedAt>>
  BY <1>1 DEF Take
<1> QED BY <1>3, <1>4, RefreshRequests

LEMMA AgentRequests ==
  ASSUME Integral, NEW a \in AgentRuns, AgentRefresh(a)
  PROVE  NoRequest \/ \E p \in Places : Requests(p)
<1>1. UNCHANGED <<now, failedAt>>
  BY DEF AgentRefresh
<1>2. PICK p \in Places : Refresh(p, checkedAt[p], budget[a])
  BY DEF AgentRefresh
<1> QED BY <1>1, <1>2, RefreshRequests

(* Every step asks for one place at most, and only when the place has no    *)
(* request under way, its cooldown is over and the hour has room.           *)
LEMMA StepKinds ==
  ASSUME Integral, [Next]_vars
  PROVE  NoRequest \/ (\E p \in Places : Requests(p)) \/ Idle \/ Tick
<1>1. ASSUME ScheduleRead PROVE NoRequest
  BY <1>1 DEF ScheduleRead, NoRequest, history
<1>2. ASSUME NEW w \in Workers, Take(w) PROVE NoRequest \/ \E p \in Places : Requests(p)
  BY <1>2, TakeRequests
<1>3. ASSUME NEW w \in Workers, Stop(w) PROVE Idle
  BY <1>3 DEF Stop, Idle, history
<1>4. ASSUME NEW a \in AgentRuns, AgentRefresh(a)
      PROVE  NoRequest \/ \E p \in Places : Requests(p)
  BY <1>4, AgentRequests
<1>5. ASSUME NEW p \in Places, GetPlaceStatusFails(p) \/ ObserveStatusFails(p) PROVE Idle
  BY <1>5 DEF GetPlaceStatusFails, ObserveStatusFails, Idle
<1>6. ASSUME NEW p \in Places, GetPlaceStatus(p) \/ ObserveStatus(p) \/ SaveProviderCandidate(p)
      PROVE  Idle
  BY <1>6 DEF GetPlaceStatus, ObserveStatus, SaveProviderCandidate, Idle, history
<1>7. CASE UNCHANGED vars
  BY <1>7 DEF vars, history, Idle
<1> QED BY <1>1, <1>2, <1>3, <1>4, <1>5, <1>6, <1>7 DEF Next

LEMMA HourStep ==
  ASSUME Integral, HourInv, HourlyCap, [Next]_vars
  PROVE  /\ HourInv' /\ HourlyCap'
         /\ now' \in Nat /\ hourlyRequests' \in Seq(Nat) /\ issued' \in Seq(Nat)
<1>1. CASE NoRequest
  <2>1. UNCHANGED <<now, issued>> /\ hourlyRequests' = Unexpired
    BY <1>1 DEF NoRequest
  <2> QED BY <2>1, Shortened DEF HourlyCap, Integral
<1>2. ASSUME NEW p \in Places, Requests(p)
      PROVE  /\ HourInv' /\ HourlyCap'
             /\ now' \in Nat /\ hourlyRequests' \in Seq(Nat) /\ issued' \in Seq(Nat)
  <2>1. /\ now' = now /\ Len(Unexpired) < PerHour
        /\ hourlyRequests' = Append(Unexpired, now) /\ issued' = Append(issued, now)
    BY <1>2 DEF Requests, Issue
  <2> QED BY <2>1, IssuedUnderTheCap DEF Integral
<1>3. CASE Idle
  BY <1>3 DEF Idle, HourInv, Remembered, HourlyCap, Integral
<1>4. CASE Tick
  <2>1. now' = now + 1 /\ UNCHANGED <<hourlyRequests, issued>>
    BY <1>4 DEF Tick, history
  <2>2. PICK h, s : h = hourlyRequests /\ s = issued
    OBVIOUS
  <2>3. h \in Seq(Nat) /\ s \in Seq(Nat) /\ Len(h) \in Nat /\ Len(s) \in Nat
        /\ \A i \in 1..Len(s) : s[i] \in Nat
    BY <2>2, LenProperties DEF Integral
  <2>4. now \in Nat /\ Hour \in Nat /\ now' \in Nat
    BY <2>1, OptionsAssumption DEF Integral
  <2>5. \A i \in 1..(Len(s) - Len(h)) : s[i] <= now - Hour
    BY <2>2 DEF HourInv, Remembered
  <2>6. ASSUME NEW i \in 1..(Len(s) - Len(h)) PROVE s[i] <= now' - Hour
    <3>1. i \in 1..Len(s)
      BY <2>3
    <3>2. s[i] \in Nat /\ s[i] <= now - Hour
      BY <2>3, <2>5, <3>1
    <3> QED BY <2>1, <2>4, <3>2
  <2>7. HourInv'
    BY <2>1, <2>2, <2>6 DEF HourInv, Remembered
  <2> QED BY <2>1, <2>4, <2>7 DEF HourlyCap, Integral
<1> QED BY <1>1, <1>2, <1>3, <1>4, StepKinds

LEMMA QueueStep ==
  ASSUME Integral, [Next]_vars PROVE queue' \in Seq(Snapshots)
<1>1. ASSUME ScheduleRead PROVE queue' \in Seq(Snapshots)
  <2>1. PICK found \in SUBSET Places :
          LET eligible == {p \in found : ~IsSkippable(p, checkedAt[p]) /\ p \notin InFlight}
          IN  \E order \in SetToSeqs(eligible) :
                LET selected == SubSeq(order, 1, Min({PerRead, Len(order)}))
                IN  queue' = queue \o [i \in DOMAIN selected |->
                                         [place |-> selected[i], at |-> checkedAt[selected[i]]]]
    BY <1>1, Zenon DEF ScheduleRead
  <2> DEFINE eligible == {p \in found : ~IsSkippable(p, checkedAt[p]) /\ p \notin InFlight}
             n == Cardinality(eligible)
  <2>2. IsFiniteSet(eligible) /\ eligible \subseteq Places /\ n \in Nat
    BY <2>1, OptionsAssumption, FS_Subset, FS_CardinalityType
  <2> HIDE DEF eligible
  <2>3. PICK order \in [1..n -> eligible] :
          LET selected == SubSeq(order, 1, Min({PerRead, Len(order)}))
          IN  queue' = queue \o [i \in DOMAIN selected |->
                                   [place |-> selected[i], at |-> checkedAt[selected[i]]]]
    BY <2>1 DEF SetToSeqs, eligible
  <2>4. order \in Seq(Places) /\ Len(order) = n /\ \A i \in 1..n : order[i] \in Places
    <3>1. order \in [1..n -> Places]
      BY <2>2, <2>3
    <3> QED BY <2>2, <3>1, LenProperties
  <2>5. PICK len : len = Min({PerRead, Len(order)})
    OBVIOUS
  <2>6. len \in 0..n
    <3>1. PerRead \in Nat /\ n \in Nat
      BY <2>2, OptionsAssumption
    <3>2. \E x \in {PerRead, n} : \A y \in {PerRead, n} : x =< y
      <4>1. CASE PerRead <= n
        BY <3>1, <4>1
      <4>2. CASE n <= PerRead
        BY <3>1, <4>2
      <4> QED BY <3>1, <4>1, <4>2
    <3>3. Min({PerRead, n}) \in {PerRead, n} /\ Min({PerRead, n}) <= n
      BY <3>2 DEF Min
    <3> QED BY <2>4, <2>5, <3>1, <3>3
  <2>7. PICK selected : selected = SubSeq(order, 1, len)
    OBVIOUS
  <2>8. selected \in Seq(Places)
    <3>1. 1 \in Int /\ len \in Int /\ \A i \in 1..len : order[i] \in Places
      BY <2>2, <2>4, <2>6
    <3> QED BY <2>7, <3>1, SubSeqProperties
  <2>9. PICK more : more = [i \in DOMAIN selected |->
                              [place |-> selected[i], at |-> checkedAt[selected[i]]]]
    OBVIOUS
  <2>10. more \in Seq(Snapshots)
    <3>1. Len(selected) \in Nat /\ DOMAIN selected = 1..Len(selected)
          /\ \A i \in 1..Len(selected) : selected[i] \in Places
      BY <2>8, LenProperties
    <3>2. \A p \in Places : checkedAt[p] \in Int
      BY DEF Integral
    <3>3. more \in [1..Len(selected) -> Snapshots]
      BY <2>9, <3>1, <3>2 DEF Snapshots
    <3> QED BY <3>1, <3>3
  <2>11. queue' = queue \o more
    BY <2>3, <2>5, <2>7, <2>9
  <2> QED BY <2>10, <2>11, ConcatProperties DEF Integral
<1>2. ASSUME NEW w \in Workers, Take(w) PROVE queue' \in Seq(Snapshots)
  BY <1>2, HeadTailProperties DEF Take, Integral
<1>3. ASSUME NEW w \in Workers, Stop(w) PROVE queue' = queue
  BY <1>3 DEF Stop
<1>4. ASSUME NEW a \in AgentRuns, AgentRefresh(a) PROVE queue' = queue
  BY <1>4 DEF AgentRefresh, pool
<1>5. ASSUME NEW p \in Places, GetPlaceStatusFails(p) \/ ObserveStatusFails(p)
      PROVE queue' = queue
  BY <1>5 DEF GetPlaceStatusFails, ObserveStatusFails
<1>6. ASSUME NEW p \in Places, GetPlaceStatus(p) \/ ObserveStatus(p) \/ SaveProviderCandidate(p)
      PROVE  queue' = queue
  BY <1>6 DEF GetPlaceStatus, ObserveStatus, SaveProviderCandidate, pool
<1>7. CASE Tick \/ UNCHANGED vars
  BY <1>7 DEF Tick, vars, pool, Integral
<1> QED BY <1>1, <1>2, <1>3, <1>4, <1>5, <1>6, <1>7 DEF Next, Integral

(* Statuses, cooldowns and requests.                                         *)
LEMMA Stores ==
  ASSUME Integral, NEW p \in Places, NEW at \in Int, StoreObservation(p, at)
  PROVE  checkedAt' \in [Places -> Int] /\ \A q \in Places : checkedAt'[q] >= checkedAt[q]
<1>1. \A q \in Places : checkedAt[q] \in Int
  BY DEF Integral
<1>2. CASE checkedAt[p] < at
  <2>1. checkedAt' = [checkedAt EXCEPT ![p] = at]
    BY <1>2 DEF StoreObservation
  <2>2. checkedAt' \in [Places -> Int]
    BY <2>1 DEF Integral
  <2>3. \A q \in Places : checkedAt'[q] = IF q = p THEN at ELSE checkedAt[q]
    BY <2>1 DEF Integral
  <2> QED BY <1>1, <1>2, <2>2, <2>3
<1>3. CASE ~(checkedAt[p] < at)
  <2>1. checkedAt' = checkedAt
    BY <1>3 DEF StoreObservation
  <2> QED BY <1>1, <2>1 DEF Integral
<1> QED BY <1>2, <1>3

(* What a step does to one place's stored status.                            *)
Forward == checkedAt' \in [Places -> Int] /\ \A q \in Places : checkedAt'[q] >= checkedAt[q]

LEMMA StatusStep == ASSUME Integral, [Next]_vars PROVE Forward
<1>1. CASE checkedAt' = checkedAt
  <2>1. \A q \in Places : checkedAt[q] \in Int
    BY DEF Integral
  <2> QED BY <1>1, <2>1 DEF Forward, Integral
<1>2. ASSUME NEW p \in Places, ObserveStatus(p) \/ SaveProviderCandidate(p) PROVE Forward
  <2>1. now \in Int /\ observed[p] \in Int
    BY DEF Integral
  <2>2. StoreObservation(p, observed[p]) \/ StoreObservation(p, now)
    BY <1>2 DEF ObserveStatus, SaveProviderCandidate
  <2> QED BY <2>1, <2>2, Stores DEF Forward
<1>3. ASSUME NEW p \in Places,
             GetPlaceStatusFails(p) \/ GetPlaceStatus(p) \/ ObserveStatusFails(p)
      PROVE  checkedAt' = checkedAt
  BY <1>3 DEF GetPlaceStatusFails, GetPlaceStatus, ObserveStatusFails
<1>4. ASSUME NEW w \in Workers, Take(w) \/ Stop(w) PROVE checkedAt' = checkedAt
  BY <1>4 DEF Take, Stop
<1>5. ASSUME NEW a \in AgentRuns, AgentRefresh(a) PROVE checkedAt' = checkedAt
  BY <1>5 DEF AgentRefresh
<1>6. CASE ScheduleRead \/ Tick \/ UNCHANGED vars
  BY <1>1, <1>6 DEF ScheduleRead, Tick, vars
<1> QED BY <1>1, <1>2, <1>3, <1>4, <1>5, <1>6 DEF Next

LEMMA ObservedStep ==
  ASSUME Integral, [Next]_vars PROVE observed' \in [Places -> Int]
<1>1. ASSUME NEW p \in Places, GetPlaceStatus(p) PROVE observed' \in [Places -> Int]
  BY <1>1 DEF GetPlaceStatus, Integral
<1>2. ASSUME NEW p \in Places,
             \/ GetPlaceStatusFails(p) \/ ObserveStatus(p)
             \/ ObserveStatusFails(p) \/ SaveProviderCandidate(p)
      PROVE  observed' = observed
  BY <1>2 DEF GetPlaceStatusFails, ObserveStatus, ObserveStatusFails, SaveProviderCandidate
<1>3. ASSUME NEW w \in Workers, Take(w) \/ Stop(w) PROVE observed' = observed
  BY <1>3 DEF Take, Stop
<1>4. ASSUME NEW a \in AgentRuns, AgentRefresh(a) PROVE observed' = observed
  BY <1>4 DEF AgentRefresh
<1>5. CASE ScheduleRead \/ Tick \/ UNCHANGED vars
  BY <1>5 DEF ScheduleRead, Tick, vars, Integral
<1> QED BY <1>1, <1>2, <1>3, <1>4, <1>5 DEF Next, Integral

(* What a step does to failures, cooldowns and requests: a request is issued *)
(* for one place whose cooldown is over, one fails and its cooldown starts,  *)
(* or one goes on or ends.                                                   *)
Cooling == UNCHANGED <<failedAt, cooldownUntil>>
Fails(p) ==
  /\ failedAt' = [failedAt EXCEPT ![p] = now]
  /\ cooldownUntil' = [cooldownUntil EXCEPT ![p] = now + Cooldown]
Advances(p) ==
  \E to \in {"none", "observing"} : request' = [request EXCEPT ![p] = to]

LEMMA CoolKinds ==
  ASSUME Integral, [Next]_vars
  PROVE  \/ Cooling /\ request' = request
         \/ \E p \in Places : Requests(p) /\ Cooling
         \/ \E p \in Places : Advances(p) /\ (Cooling \/ Fails(p))
<1>1. CASE ScheduleRead
  BY <1>1 DEF ScheduleRead, history, Cooling
<1>2. ASSUME Cooling, NoRequest \/ \E p \in Places : Requests(p)
      PROVE  (Cooling /\ request' = request) \/ \E p \in Places : Requests(p) /\ Cooling
  BY <1>2 DEF NoRequest
<1>3. ASSUME NEW w \in Workers, Take(w)
      PROVE  Cooling /\ (NoRequest \/ \E p \in Places : Requests(p))
  BY <1>3, TakeRequests DEF Take, Cooling
<1>4. ASSUME NEW a \in AgentRuns, AgentRefresh(a)
      PROVE  Cooling /\ (NoRequest \/ \E p \in Places : Requests(p))
  BY <1>4, AgentRequests DEF AgentRefresh, Cooling
<1>5. ASSUME NEW w \in Workers, Stop(w) PROVE Cooling /\ request' = request
  BY <1>5 DEF Stop, history, Cooling
<1>6. ASSUME NEW p \in Places, GetPlaceStatusFails(p) \/ ObserveStatusFails(p)
      PROVE  Advances(p) /\ Fails(p)
  BY <1>6 DEF GetPlaceStatusFails, ObserveStatusFails, Failed, Finished, Advances, Fails
<1>7. ASSUME NEW p \in Places, GetPlaceStatus(p) \/ ObserveStatus(p)
      PROVE  Advances(p) /\ Cooling
  BY <1>7 DEF GetPlaceStatus, ObserveStatus, Finished, Advances, Cooling, history
<1>8. ASSUME NEW p \in Places, SaveProviderCandidate(p) PROVE Cooling /\ request' = request
  BY <1>8 DEF SaveProviderCandidate, Cooling, history
<1>9. CASE Tick \/ UNCHANGED vars
  BY <1>9 DEF Tick, vars, history, Cooling
<1> QED BY <1>1, <1>2, <1>3, <1>4, <1>5, <1>6, <1>7, <1>8, <1>9 DEF Next

LEMMA CoolStep ==
  ASSUME Integral, CoolInv, [Next]_vars
  PROVE  /\ CoolInv' /\ cooldownUntil' \in [Places -> Int] /\ failedAt' \in [Places -> Int]
         /\ request' \in [Places -> {"none", "asking", "observing"}]
<1>1. ASSUME Cooling
      PROVE  CoolInv' /\ cooldownUntil' \in [Places -> Int] /\ failedAt' \in [Places -> Int]
  BY <1>1 DEF Cooling, CoolInv, Integral
<1>2. ASSUME NEW p \in Places, Fails(p)
      PROVE  CoolInv' /\ cooldownUntil' \in [Places -> Int] /\ failedAt' \in [Places -> Int]
  <2>1. now \in Int /\ now + Cooldown \in Int
    BY OptionsAssumption DEF Integral
  <2>2. cooldownUntil' \in [Places -> Int] /\ failedAt' \in [Places -> Int]
    BY <1>2, <2>1 DEF Fails, Integral
  <2>3. ASSUME NEW q \in Places, failedAt'[q] # Never
        PROVE  cooldownUntil'[q] = failedAt'[q] + Cooldown
    BY <1>2, <2>3 DEF Fails, CoolInv, Integral
  <2> QED BY <2>2, <2>3 DEF CoolInv
<1>3. ASSUME NEW p \in Places, Requests(p) \/ Advances(p)
      PROVE  request' \in [Places -> {"none", "asking", "observing"}]
  BY <1>3 DEF Requests, Issue, Advances, Integral
<1>4. ASSUME request' = request
      PROVE  request' \in [Places -> {"none", "asking", "observing"}]
  BY <1>4 DEF Integral
<1> QED BY <1>1, <1>2, <1>3, <1>4, CoolKinds

LEMMA CoolInitially == Init => CoolInv /\ Integral /\ HourInv /\ HourlyCap
<1> SUFFICES ASSUME Init PROVE CoolInv /\ Integral /\ HourInv /\ HourlyCap
  OBVIOUS
<1>1. Integral
  <2>1. <<>> \in Seq(Snapshots) /\ <<>> \in Seq(Nat)
    OBVIOUS
  <2> QED BY <2>1 DEF Init, Integral, Never
<1>2. CoolInv
  BY DEF Init, CoolInv
<1>3. HourInv
  BY DEF Init, HourInv, Remembered
<1>4. HourlyCap
  BY DEF Init, HourlyCap
<1> QED BY <1>1, <1>2, <1>3, <1>4

-----------------------------------------------------------------------------
LEMMA InvTheorem == Spec => []Inv
<1>1. Inv /\ [Next]_vars => Inv'
  <2> SUFFICES ASSUME Inv, [Next]_vars PROVE Inv'
    OBVIOUS
  <2>1. Integral /\ HourInv /\ HourlyCap /\ CoolInv
    BY DEF Inv
  <2>2. /\ HourInv' /\ HourlyCap'
        /\ now' \in Nat /\ hourlyRequests' \in Seq(Nat) /\ issued' \in Seq(Nat)
    BY <2>1, HourStep
  <2>3. /\ CoolInv' /\ cooldownUntil' \in [Places -> Int] /\ failedAt' \in [Places -> Int]
        /\ request' \in [Places -> {"none", "asking", "observing"}]
    BY <2>1, CoolStep
  <2>4. queue' \in Seq(Snapshots) /\ checkedAt' \in [Places -> Int]
    BY <2>1, QueueStep, StatusStep DEF Forward
  <2>5. observed' \in [Places -> Int]
    BY <2>1, ObservedStep
  <2> QED BY <2>2, <2>3, <2>4, <2>5 DEF Inv, Integral
<1>2. Init => Inv
  BY CoolInitially DEF Inv
<1> QED BY <1>1, <1>2, PTL DEF Spec

(* placeRefreshScheduler.ts performRefresh, expireBookkeeping — in every     *)
(* window of an hour at most PerHour requests go to the provider, from the   *)
(* queue and from agent runs together, however many workers, runs and places *)
(* there are.                                                                *)
THEOREM HourlyCapTheorem == Spec => []HourlyCap
<1>1. Inv => HourlyCap
  BY DEF Inv
<1> QED BY <1>1, InvTheorem, PTL

(* placeRefreshScheduler.ts isSkippable and performRefresh's failures,       *)
(* placeSnapshotRepository.ts observeStatus — nobody asks for a place whose  *)
(* request failed before its cooldown is over, and a stored status time      *)
(* never moves back, whenever the answers come.                              *)
THEOREM ConsiderateTheorem == Spec => RefreshIsConsiderate
<1>1. ASSUME Inv, [Next]_vars, NEW p \in Places,
             request[p] = "none" /\ request'[p] = "asking" /\ failedAt[p] # Never
      PROVE  now >= failedAt[p] + Cooldown
  <2>1. \E q \in Places : Requests(q)
    <3>1. ~(request' = request)
      BY <1>1
    <3>2. ASSUME NEW q \in Places, Advances(q) PROVE FALSE
      BY <1>1, <3>2 DEF Advances, Inv, Integral
    <3> QED BY <1>1, <3>1, <3>2, CoolKinds DEF Inv
  <2>2. PICK q \in Places : Requests(q)
    BY <2>1
  <2>3. q = p
    BY <1>1, <2>2 DEF Requests, Issue, Inv, Integral
  <2>4. cooldownUntil[p] <= now /\ cooldownUntil[p] = failedAt[p] + Cooldown
    BY <1>1, <2>2, <2>3 DEF Requests, Inv, CoolInv
  <2>5. now \in Int /\ cooldownUntil[p] \in Int
    BY <1>1 DEF Inv, Integral
  <2> QED BY <2>4, <2>5
<1>2. Inv /\ [Next]_vars =>
        [\A p \in Places : request[p] = "none" /\ request'[p] = "asking" /\ failedAt[p] # Never
           => now >= failedAt[p] + Cooldown]_vars
  BY <1>1
<1>3. Inv /\ [Next]_vars => [\A p \in Places : checkedAt'[p] >= checkedAt[p]]_vars
  BY StatusStep DEF Inv, Forward
<1> QED BY <1>2, <1>3, InvTheorem, PTL DEF Spec, RefreshIsConsiderate, CooldownKept,
           StatusOnlyForward
=============================================================================
