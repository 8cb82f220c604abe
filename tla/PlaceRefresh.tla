---------------------------- MODULE PlaceRefresh ----------------------------
(***************************************************************************)
(* The place status refresher of one server process                        *)
(* (placeRefreshScheduler.ts): a queue fed by itinerary reads and drained  *)
(* by a pool of workers, direct refreshes by agent runs on their own       *)
(* budget, one provider request at a time per place, an hourly cap and a   *)
(* cooldown after a failure.  Code between two awaits is one step; time    *)
(* passes between steps.                                                   *)
(***************************************************************************)
EXTENDS Integers, Sequences, FiniteSets, FiniteSetsExt, SequencesExt

CONSTANTS
  Places,            \* provider and providerPlaceId of the snapshots
  AgentRuns,         \* agent runs with a place session
  Concurrency, PerRead, PerHour, RunBudget,
  Ttl, Hour, Cooldown,
  MaxTime,           \* bound: the clock
  MaxReads           \* bound: itinerary reads that queue something

ASSUME OptionsAssumption ==
  /\ {Concurrency, PerRead, PerHour, Hour} \subseteq Nat \ {0}
  /\ {RunBudget, Ttl, Cooldown, MaxTime, MaxReads} \subseteq Nat
  /\ IsFiniteSet(Places)

Workers == 1..Concurrency
Never == -1                    \* businessStatusCheckedAt is null

VARIABLES
  now,
  checkedAt,         \* the stored businessStatusCheckedAt of each place
  queue,             \* snapshots waiting: the place and its time when read
  crews,             \* for each drain under way, its workers; activeWorkers is their number
  worker,            \* [Workers -> "off", "loop", "stopped" or the place it awaits]
  agent,             \* [AgentRuns -> "idle" or the place it awaits]
  budget,            \* [AgentRuns -> runBudget.remaining]
  request,           \* inFlight: "none", "asking" the provider, "observing"
  observed,          \* the response's status time while "observing"
  cooldownUntil,
  hourlyRequests,
  reads,
  issued, failedAt   \* history: times of all requests; each place's last failure

pool == <<queue, crews, worker>>
agents == <<agent, budget>>
history == <<issued, failedAt>>
vars == <<now, checkedAt, pool, agents, request, observed, cooldownUntil, hourlyRequests,
          reads, history>>

Init ==
  /\ now = 0
  /\ checkedAt = [p \in Places |-> Never]
  /\ queue = <<>> /\ crews = {}
  /\ worker = [w \in Workers |-> "off"]
  /\ agent = [a \in AgentRuns |-> "idle"]
  /\ budget = [a \in AgentRuns |-> RunBudget]
  /\ request = [p \in Places |-> "none"]
  /\ observed = [p \in Places |-> Never]
  /\ cooldownUntil = [p \in Places |-> 0]
  /\ hourlyRequests = <<>>
  /\ reads = 0
  /\ issued = <<>>
  /\ failedAt = [p \in Places |-> Never]

-----------------------------------------------------------------------------
StatusIsFresh(at) == at # Never /\ at >= now - Ttl
(* Mutant: the cooldown is not looked at.                                    *)
IsSkippableIfFresh(p, at) == p \in Places /\ StatusIsFresh(at)

IsSkippable(p, at) == StatusIsFresh(at) \/ cooldownUntil[p] > now

\* expireBookkeeping drops what is an hour old from the head of the list; a cooldown
\* that is over is never looked at again.
Expired ==
  CHOOSE n \in 0..Len(hourlyRequests) :
    /\ \A i \in 1..n : hourlyRequests[i] <= now - Hour
    /\ n < Len(hourlyRequests) => hourlyRequests[n + 1] > now - Hour
Unexpired == SubSeq(hourlyRequests, Expired + 1, Len(hourlyRequests))

InFlight == {p \in Places : request[p] # "none"}

(* A worker that waits for nothing goes on, in microtasks, before any timer  *)
(* or I/O callback does.                                                     *)
Running == \E w \in Workers : worker[w] = "loop"

(* performRefresh up to its first await.                                     *)
Issue(p) ==
  /\ request' = [request EXCEPT ![p] = "asking"]
  /\ hourlyRequests' = Append(Unexpired, now)
  /\ issued' = Append(issued, now)

NoIssue == hourlyRequests' = Unexpired /\ UNCHANGED <<request, issued>>

(* Mutant: an off-by-one in the hourly cap.                                  *)
AwaitsOneMore(p, at, remaining) ==
  ~IsSkippable(p, at) /\ (p \in InFlight \/ (remaining > 0 /\ Len(Unexpired) <= PerHour))

\* refresh() has to wait: it joins a request or issues one.
Awaits(p, at, remaining) ==
  ~IsSkippable(p, at) /\ (p \in InFlight \/ (remaining > 0 /\ Len(Unexpired) < PerHour))

(* refresh(): joining a request under way costs nothing.                     *)
Refresh(p, at, remaining) ==
  IF Awaits(p, at, remaining) /\ p \notin InFlight THEN Issue(p) ELSE NoIssue

-----------------------------------------------------------------------------
(* drain(): starts as many workers as the pool has room for.                 *)
Drain ==
  LET off == {w \in Workers : worker[w] = "off"}
      n == Min({Cardinality(off), Len(queue')})
  IN  IF n = 0 THEN UNCHANGED <<crews, worker>>
      ELSE \E crew \in kSubset(n, off) :
             /\ crews' = crews \union {crew}
             /\ worker' = [w \in Workers |-> IF w \in crew THEN "loop" ELSE worker[w]]

(* scheduleRead: an itinerary read found these places.  Only what is not     *)
(* skippable and not in flight counts against the read's allowance, oldest   *)
(* check first; what is queued already is queued again.                      *)
ScheduleRead ==
  /\ ~Running
  /\ reads < MaxReads
  /\ \E found \in SUBSET Places :
       LET eligible == {p \in found : ~IsSkippable(p, checkedAt[p]) /\ p \notin InFlight}
       IN  \E order \in SetToSeqs(eligible) :
             /\ \A i, j \in DOMAIN order : i < j => checkedAt[order[i]] <= checkedAt[order[j]]
             /\ LET selected == SubSeq(order, 1, Min({PerRead, Len(order)}))
                IN  queue' = queue \o [i \in DOMAIN selected |->
                                         [place |-> selected[i], at |-> checkedAt[selected[i]]]]
  /\ IF queue' = queue THEN UNCHANGED <<crews, worker, reads>>
     ELSE Drain /\ reads' = reads + 1
  /\ hourlyRequests' = Unexpired
  /\ UNCHANGED <<now, checkedAt, agents, request, observed, cooldownUntil, history>>

(* A worker takes the next snapshot and refreshes it.                        *)
Take(w) ==
  /\ worker[w] = "loop" /\ queue # <<>>
  /\ LET s == Head(queue)
     IN  /\ Refresh(s.place, s.at, 1)
         /\ worker' = [worker EXCEPT ![w] = IF Awaits(s.place, s.at, 1) THEN s.place ELSE "loop"]
  /\ queue' = Tail(queue)
  /\ UNCHANGED <<now, checkedAt, crews, agents, observed, cooldownUntil, reads, failedAt>>

(* Mutant: the places in the pool are not given back.                        *)
StopForGood(w) ==
  /\ worker[w] = "loop" /\ queue = <<>>
  /\ worker' = [worker EXCEPT ![w] = "stopped"]
  /\ UNCHANGED <<now, checkedAt, queue, crews, agents, request, observed, cooldownUntil,
                 hourlyRequests, reads, history>>

(* A worker finds the queue empty.  Only the last of a drain's workers gives *)
(* their places in the pool back; no I/O comes between its last look at the  *)
(* queue and that.                                                           *)
Stop(w) ==
  /\ worker[w] = "loop" /\ queue = <<>>
  /\ \E crew \in crews :
       /\ w \in crew
       /\ IF \A v \in crew \ {w} : worker[v] = "stopped"
            THEN /\ crews' = crews \ {crew}
                 /\ worker' = [v \in Workers |-> IF v \in crew THEN "off" ELSE worker[v]]
            ELSE /\ worker' = [worker EXCEPT ![w] = "stopped"]
                 /\ UNCHANGED crews
  /\ UNCHANGED <<now, checkedAt, queue, agents, request, observed, cooldownUntil,
                 hourlyRequests, reads, history>>

(* An agent run resolves a place: the session refreshes it directly, on the  *)
(* run's budget.                                                             *)
AgentRefresh(a) ==
  /\ ~Running
  /\ agent[a] = "idle"
  /\ \E p \in Places :
       LET at == checkedAt[p]
       IN  /\ ~StatusIsFresh(at)
           /\ Refresh(p, at, budget[a])
           /\ agent' = [agent EXCEPT ![a] = IF Awaits(p, at, budget[a]) THEN p ELSE "idle"]
           /\ budget' = [budget EXCEPT ![a] =
                           IF Awaits(p, at, @) /\ p \notin InFlight THEN @ - 1 ELSE @]
  /\ UNCHANGED <<now, checkedAt, pool, observed, cooldownUntil, reads, failedAt>>

-----------------------------------------------------------------------------
(* The request is over: inFlight forgets it and everyone who awaits it goes  *)
(* on.                                                                       *)
Finished(p) ==
  /\ request' = [request EXCEPT ![p] = "none"]
  /\ worker' = [w \in Workers |-> IF worker[w] = p THEN "loop" ELSE worker[w]]
  /\ agent' = [a \in AgentRuns |-> IF agent[a] = p THEN "idle" ELSE agent[a]]

Failed(p) ==
  /\ Finished(p)
  /\ cooldownUntil' = [cooldownUntil EXCEPT ![p] = now + Cooldown]
  /\ failedAt' = [failedAt EXCEPT ![p] = now]

(* The provider throws or reports no status, or answers with one.            *)
GetPlaceStatusFails(p) ==
  /\ ~Running
  /\ request[p] = "asking"
  /\ Failed(p)
  /\ UNCHANGED <<now, checkedAt, queue, crews, budget, observed, hourlyRequests, reads, issued>>

GetPlaceStatus(p) ==
  /\ ~Running
  /\ request[p] = "asking"
  /\ request' = [request EXCEPT ![p] = "observing"]
  /\ observed' = [observed EXCEPT ![p] = now]
  /\ UNCHANGED <<now, checkedAt, pool, agents, cooldownUntil, hourlyRequests, reads, history>>

(* observeStatus: the conditional update never moves the time back.          *)
StoreObservation(p, at) ==
  checkedAt' = IF checkedAt[p] < at THEN [checkedAt EXCEPT ![p] = at] ELSE checkedAt

ObserveStatus(p) ==
  /\ ~Running
  /\ request[p] = "observing"
  /\ StoreObservation(p, observed[p])
  /\ Finished(p)
  /\ UNCHANGED <<now, queue, crews, budget, observed, cooldownUntil, hourlyRequests, reads,
                 history>>

ObserveStatusFails(p) ==
  /\ ~Running
  /\ request[p] = "observing"
  /\ Failed(p)
  /\ UNCHANGED <<now, checkedAt, queue, crews, budget, observed, hourlyRequests, reads, issued>>

(* saveProviderCandidate: a place search elsewhere stores what it observed.  *)
SaveProviderCandidate(p) ==
  /\ ~Running
  /\ StoreObservation(p, now)
  /\ checkedAt' # checkedAt
  /\ UNCHANGED <<now, pool, agents, request, observed, cooldownUntil, hourlyRequests, reads,
                 history>>

Tick ==
  /\ ~Running
  /\ now < MaxTime
  /\ now' = now + 1
  /\ UNCHANGED <<checkedAt, pool, agents, request, observed, cooldownUntil, hourlyRequests,
                 reads, history>>

Next ==
  \/ ScheduleRead
  \/ \E w \in Workers : Take(w) \/ Stop(w)
  \/ \E a \in AgentRuns : AgentRefresh(a)
  \/ \E p \in Places : \/ GetPlaceStatusFails(p) \/ GetPlaceStatus(p)
                       \/ ObserveStatus(p) \/ ObserveStatusFails(p)
                       \/ SaveProviderCandidate(p)
  \/ Tick

Spec == Init /\ [][Next]_vars

(* Workers run, and the provider and the database answer, one way or another.*)
FairSpec ==
  /\ Spec
  /\ \A w \in Workers : WF_vars(Take(w) \/ Stop(w))
  /\ \A p \in Places : /\ WF_vars(GetPlaceStatus(p) \/ GetPlaceStatusFails(p))
                       /\ WF_vars(ObserveStatus(p) \/ ObserveStatusFails(p))

-----------------------------------------------------------------------------
(* placeRefreshScheduler.ts:9,194 — in every window of an hour at most       *)
(* perHour requests are issued, by the queue and by the agent runs together. *)
HourlyCap ==
  \A i \in DOMAIN issued :
    Cardinality({j \in 1..i : issued[j] > issued[i] - Hour}) <= PerHour

(* placeRefreshScheduler.ts:10,124 — after a failure nobody, whether queued  *)
(* before it or not, asks for the place again before the cooldown is over.   *)
CooldownKept ==
  [][\A p \in Places : request[p] = "none" /\ request'[p] = "asking" /\ failedAt[p] # Never
       => now >= failedAt[p] + Cooldown]_vars

(* placeSnapshotRepository.ts:107-109,136-158 — a slow answer never replaces *)
(* a newer status: the stored time only moves forward.                       *)
StatusOnlyForward == [][\A p \in Places : checkedAt'[p] >= checkedAt[p]]_vars

\* What a refresh never does, whoever asks and whenever the answer comes.
RefreshIsConsiderate == CooldownKept /\ StatusOnlyForward

(* placeRefreshScheduler.ts:240-260 — what reads have queued is taken out by *)
(* workers, to the last snapshot once the reads are over, even when the pool *)
(* was full when it was queued.                                              *)
QueueIsServed == queue # <<>> ~> queue = <<>>

=============================================================================
