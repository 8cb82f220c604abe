---------------------------- MODULE UsageReports ----------------------------
(***************************************************************************)
(* What finished runs cost, what a super administrator's usage page adds   *)
(* up from them, and the one-off job that prices old runs again            *)
(* (agentRunUsage.ts, repriceRunUsage.ts, backfillRunCosts.ts,             *)
(* admin/usage*.ts). Runs go on ending and chats are deleted while the job *)
(* works through its pages. Reports only read; they are operators on the   *)
(* table. Costs are in units in which every price is whole.                *)
(***************************************************************************)
EXTENDS Integers, Sequences, FiniteSets, FiniteSetsExt, Functions

CONSTANTS
  RunIds,         \* numbers: the job pages through the runs by id
  Seats, NoGroup, \* who runs the agent, in which agency, in which chat
  PriceTables,    \* the price tables of successive deploys, model -> price
  Calls,          \* what a model call may report: model and token counts
  Legacy,         \* runs of the time before the table: id -> row
  BatchSize, DrillInLimit,
  Months,         \* the days of successive months
  Spans,          \* the days of the "7d" and "30d" ranges
  LastHalfDay, MaxRuns, MaxCalls   \* bounds

ASSUME UsageConstants ==
  /\ RunIds \subseteq Nat \ {0} /\ DOMAIN Legacy \subseteq RunIds
  /\ BatchSize \in Nat \ {0} /\ DrillInLimit \in Nat \ {0}
  /\ NoGroup \notin {s.user : s \in Seats} /\ Len(Months) >= 4
  /\ MaxRuns \in Nat /\ MaxCalls \in Nat

Unpriced == -1           \* costUsd = null
Absent == -1             \* a count that the provider left out
Unknown == "unknown"

VARIABLES
  today,       \* half days since the first month began
  deploy,      \* the price table in force
  runs,        \* AgentRun rows that have ended
  job,         \* the repricing job
  ended,       \* how many runs ended since the start
  disturbed    \* history: a run was deleted while the job worked

usageVars == <<today, deploy, runs, job, ended, disturbed>>

----------------------------------------------------------------------------
(* What a call costs. Cached tokens are part of the prompt's, thinking is    *)
(* billed as output; a model without a price or an answer without both       *)
(* counts has no cost.                                                       *)
EstimateVertexCost(model, c) ==
  IF model \notin DOMAIN PriceTables[deploy] \/ c.prompt = Absent \/ c.output = Absent THEN Unpriced
  ELSE LET p == PriceTables[deploy][model]
       IN (c.prompt - c.cached) * p.input + c.cached * p.cachedInput + (c.output + c.thoughts) * p.output

Count(n) == Max({n, 0})
UsageEntryFromModel(c) ==
  [model |-> c.model, prompt |-> Count(c.prompt), cached |-> c.cached, output |-> Count(c.output),
   thoughts |-> c.thoughts, total |-> c.total, cost |-> EstimateVertexCost(c.model, c), usable |-> TRUE]

SumOver(f) == FoldFunction(+, 0, f)
CostOf(e) == Count(e.cost)
SummarizeUsage(detail) ==
  [cost |-> SumOver([i \in DOMAIN detail |-> CostOf(detail[i])]),
   complete |-> \A i \in DOMAIN detail : detail[i].cost # Unpriced,
   total |-> SumOver([i \in DOMAIN detail |-> detail[i].total])]

(* A stored call, priced again.                                              *)
NormalizeEntry(e) ==
  LET f == [e EXCEPT !.prompt = Count(@), !.output = Count(@), !.total = Count(@)]
  IN [f EXCEPT !.cost = EstimateVertexCost(e.model, [f EXCEPT !.cached = Min({@, f.prompt})])]

(* The model most of the calls used, the latest on a tie.                    *)
DominantModel(detail) ==
  LET named == {i \in DOMAIN detail : detail[i].model # Unknown}
      CallsOf(m) == {i \in named : detail[i].model = m}
      Weight(m) == <<Cardinality(CallsOf(m)), Max(CallsOf(m))>>
      Beats(a, b) == a[1] > b[1] \/ (a[1] = b[1] /\ a[2] > b[2])
      models == {detail[i].model : i \in named}
  IN IF named = {} THEN {} ELSE {m \in models : \A o \in models \ {m} : Beats(Weight(m), Weight(o))}

Malformed(detail) == \E i \in DOMAIN detail : ~detail[i].usable

(* What the job would write for a row.                                       *)
GeminiModels == UNION {DOMAIN PriceTables[d] : d \in DOMAIN PriceTables}
Repriced(row) ==
  LET entries == [i \in DOMAIN row.detail |-> NormalizeEntry(row.detail[i])]
      best == DominantModel(entries)
      model == IF best = {} THEN row.model ELSE CHOOSE m \in best : TRUE
      provider == IF row.provider = "openai" /\ model \in GeminiModels THEN "vertex" ELSE row.provider
  IN [row EXCEPT !.detail = entries, !.cost = SummarizeUsage(entries).cost,
                 !.complete = SummarizeUsage(entries).complete, !.model = model, !.provider = provider]

(* Nothing is planned for a run without usable detail.                       *)
Plannable(row) == ~Malformed(row.detail) /\ row.detail # <<>>
ToBeChanged(row) == Plannable(row) /\ Repriced(row) # row

----------------------------------------------------------------------------
(* Months begin and end where the calendar says.                             *)
StartOfMonth(m) == 2 * SumOver([k \in 1 .. m - 1 |-> Months[k]])
MonthOf(t) == CHOOSE m \in DOMAIN Months : StartOfMonth(m) <= t /\ t < StartOfMonth(m + 1)

(* What the columns of a row hold, and each call of its detail; a count may   *)
(* be Absent.                                                                *)
IsEntry(e) ==
  /\ e = [model |-> e.model, prompt |-> e.prompt, cached |-> e.cached, output |-> e.output,
          thoughts |-> e.thoughts, total |-> e.total, cost |-> e.cost, usable |-> e.usable]
  /\ {e.prompt, e.output, e.total} \subseteq Int
IsRunRow(row) ==
  /\ row = [status |-> row.status, at |-> row.at, user |-> row.user, agency |-> row.agency, chat |-> row.chat,
            provider |-> row.provider, model |-> row.model, cost |-> row.cost, complete |-> row.complete,
            tokens |-> row.tokens, detail |-> row.detail]
  /\ row.detail = [i \in DOMAIN row.detail |-> row.detail[i]]
  /\ \A i \in DOMAIN row.detail : IsEntry(row.detail[i])

ASSUME LegacyAssumption == IsFiniteSet(DOMAIN Legacy) /\ \A id \in DOMAIN Legacy : IsRunRow(Legacy[id])
ASSUME CallsAssumption == \A c \in Calls : {c.prompt, c.output, c.total} \subseteq Int

NoJob == [pc |-> "idle", cursor |-> 0, page |-> <<>>, began |-> {}]

UsageInit ==
  /\ today = StartOfMonth(4) - 2 /\ deploy = 1
  /\ runs = Legacy /\ ended = 0
  /\ job = NoJob /\ disturbed = FALSE

DetailOf(calls) == [i \in DOMAIN calls |-> UsageEntryFromModel(calls[i])]

(* The id of a new run is random, like those of the rows that are there.     *)
NewIds == RunIds \ (DOMAIN Legacy \union DOMAIN runs)
Inserted(id, row) == [r \in DOMAIN runs \union {id} |-> IF r = id THEN row ELSE runs[r]]

(* A run ends and its usage is stored with it, dated by the run's start.      *)
EndRun ==
  /\ job.pc # "done" /\ ended < MaxRuns /\ ended' = ended + 1
  /\ \E id \in NewIds, status \in {"COMPLETED", "FAILED"}, seat \in Seats, n \in 1 .. MaxCalls :
       \E calls \in [1 .. n -> Calls] :
         LET detail == DetailOf(calls)
             sum == SummarizeUsage(detail)
         IN runs' = Inserted(id,
              [status |-> status, at |-> today, user |-> seat.user, agency |-> seat.agency, chat |-> seat.chat,
               provider |-> "vertex", model |-> calls[n].model, cost |-> sum.cost,
               complete |-> sum.complete, tokens |-> sum.total, detail |-> detail])
  /\ UNCHANGED <<today, deploy, job, disturbed>>

(* A chat is deleted, and its runs with it.                                  *)
DeleteThread ==
  /\ \E c \in {s.chat : s \in Seats} :
       LET gone == {id \in DOMAIN runs : runs[id].chat = c}
       IN /\ gone # {}
          /\ runs' = [id \in DOMAIN runs \ gone |-> runs[id]]
          /\ job.pc # "done" /\ disturbed' = (disturbed \/ job.pc \in {"reading", "working"})
  /\ UNCHANGED <<today, deploy, job, ended>>

DeployPrices ==
  /\ job.pc = "idle" /\ deploy < Len(PriceTables) /\ deploy' = deploy + 1
  /\ UNCHANGED <<today, runs, job, ended, disturbed>>

HalfDayEnds ==
  /\ job.pc = "idle" /\ today < LastHalfDay /\ today' = today + 1
  /\ UNCHANGED <<deploy, runs, job, ended, disturbed>>

----------------------------------------------------------------------------
(* backfillRunCosts with apply. A page starts after the cursor's row, which  *)
(* must still exist for the database to find the place; the rows of a page   *)
(* are planned from what the page read, and each is written by its id.       *)
StartBackfill ==
  /\ job.pc = "idle" /\ deploy = Len(PriceTables)
  /\ job' = [NoJob EXCEPT !.pc = "reading", !.began = DOMAIN runs]
  /\ UNCHANGED <<today, deploy, runs, ended, disturbed>>

PageAfter(cursor) ==
  LET rest == {id \in DOMAIN runs : id > cursor}
      ids == {id \in rest : Cardinality({o \in rest : o < id}) < BatchSize}
  IN IF cursor # 0 /\ cursor \notin DOMAIN runs THEN {} ELSE ids

ReadPage ==
  /\ job.pc = "reading"
  /\ LET ids == PageAfter(job.cursor)
     IN job' = IF ids = {} THEN [job EXCEPT !.pc = "done"]
               ELSE [job EXCEPT !.pc = "working", !.cursor = Max(ids), !.page = [id \in ids |-> runs[id]]]
  /\ UNCHANGED <<today, deploy, runs, ended, disturbed>>

StopsEarly(size) == IF size <= BatchSize THEN "done" ELSE "reading"
(* A short page is the last one.                                             *)
AfterPage(size) == IF size < BatchSize THEN "done" ELSE "reading"

WriteRow ==
  /\ job.pc = "working"
  /\ LET todo == {id \in DOMAIN job.page : ToBeChanged(job.page[id])}
         id == Min(todo)
     IN /\ todo # {}
        /\ IF id \in DOMAIN runs
           THEN /\ runs' = [runs EXCEPT ![id] = Repriced(job.page[id])]
                /\ job' = [job EXCEPT !.page[id] = Repriced(@)]
           ELSE job' = [job EXCEPT !.pc = "failed", !.page = <<>>] /\ UNCHANGED runs
  /\ UNCHANGED <<today, deploy, ended, disturbed>>

EndPage ==
  /\ job.pc = "working" /\ \A id \in DOMAIN job.page : ~ToBeChanged(job.page[id])
  /\ job' = [job EXCEPT !.pc = AfterPage(Cardinality(DOMAIN job.page)), !.page = <<>>]
  /\ UNCHANGED <<today, deploy, runs, ended, disturbed>>

UsageNext ==
  \/ EndRun \/ DeleteThread \/ DeployPrices \/ HalfDayEnds
  \/ StartBackfill \/ ReadPage \/ WriteRow \/ EndPage

UsageSpec == UsageInit /\ [][UsageNext]_usageVars

----------------------------------------------------------------------------
(* The usage page.                                                           *)
DayStart(t) == t - (t % 2)

(* [from, to) of a range and of the stretch it is compared with.             *)
ResolveUsageRange(range, now) ==
  LET m == MonthOf(now)
  IN CASE range = "this_month" ->
            [from |-> StartOfMonth(m), to |-> now, prevFrom |-> StartOfMonth(m - 1),
             prevTo |-> Min({StartOfMonth(m - 1) + (now - StartOfMonth(m)), StartOfMonth(m)})]
       [] range = "last_month" ->
            [from |-> StartOfMonth(m - 1), to |-> StartOfMonth(m), prevFrom |-> StartOfMonth(m - 2), prevTo |-> StartOfMonth(m - 1)]
       [] OTHER ->
            LET from == DayStart(now) - 2 * (Spans[range] - 1)
            IN [from |-> from, to |-> now, prevFrom |-> from - 2 * Spans[range], prevTo |-> now - 2 * Spans[range]]

ListRunUsage(from, to) == {id \in DOMAIN runs : from <= runs[id].at /\ runs[id].at < to}

SumTotals(ids) ==
  [cost |-> MapThenSumSet(LAMBDA id : runs[id].cost, ids), tokens |-> MapThenSumSet(LAMBDA id : runs[id].tokens, ids),
   count |-> Cardinality(ids), failed |-> Cardinality({id \in ids : runs[id].status = "FAILED"})]

WholeDaysOnly(ids, from, to) ==
  [d \in {x \in from \div 2 .. to \div 2 : 2 * x + 2 <= to} |-> SumTotals({id \in ids : runs[id].at \div 2 = d})]
(* One bucket for every day from `from` up to `to`.                          *)
DailySeries(ids, from, to) ==
  [d \in {x \in from \div 2 .. to \div 2 : 2 * x < to} |-> SumTotals({id \in ids : runs[id].at \div 2 = d})]

GroupKey(id, by) ==
  CASE by = "user" -> runs[id].user
    [] by = "agency" -> runs[id].agency
    [] by = "chat" -> runs[id].chat
Rollup(ids, by) ==
  [g \in {GroupKey(id, by) : id \in ids} |-> SumTotals({id \in ids : GroupKey(id, by) = g})]

(* The newest runs of one group.                                             *)
GetRuns(ids, by, g) ==
  LET rows == {id \in ids : GroupKey(id, by) = g}
      Newer(a, b) == runs[a].at > runs[b].at \/ (runs[a].at = runs[b].at /\ a < b)
  IN {id \in rows : Cardinality({o \in rows : Newer(o, id)}) < DrillInLimit}

UnpricedModels(ids) ==
  {m \in {Unknown} \cup UNION {Range([i \in DOMAIN runs[id].detail |-> runs[id].detail[i].model]) : id \in ids} :
     \E id \in ids : \E i \in DOMAIN runs[id].detail : runs[id].detail[i].model = m /\ runs[id].detail[i].cost = Unpriced}

----------------------------------------------------------------------------
(* Every figure of a usage page adds up to the same runs: the days of the    *)
(* series and the rows of each grouping sum to the totals, a row opens into  *)
(* its own newest runs, models are named as unpriced exactly when a cost is  *)
(* incomplete, and the stretch compared with ends before the range begins    *)
(* and is as long, unless last month was too short (usageRange.ts:8,45-48).  *)
(* The runs of before the job are looked at once any of them has changed.    *)
Ranges == {"this_month", "last_month", "7d", "30d"}
Figures == {"cost", "tokens", "count", "failed"}
Adds(parts, total) ==
  \A figure \in Figures : SumOver([p \in DOMAIN parts |-> parts[p][figure]]) = total[figure]
OpensInto(ids, by, g, row) ==
  LET shown == GetRuns(ids, by, g)
  IN /\ Cardinality(shown) = Min({DrillInLimit, row.count})
     /\ row.count <= DrillInLimit => SumTotals(shown) = row
PageAddsUp ==
  runs # Legacy => \A range \in Ranges :
    LET r == ResolveUsageRange(range, today)
        ids == ListRunUsage(r.from, r.to)
        total == SumTotals(ids)
    IN /\ Adds(DailySeries(ids, r.from, r.to), total)
       /\ \A by \in {"user", "agency", "chat"} :
            LET rows == Rollup(ids, by)
            IN Adds(rows, total) /\ \A g \in DOMAIN rows \ {NoGroup} : OpensInto(ids, by, g, rows[g])
       /\ UnpricedModels(ids) = {} <=> \A id \in ids : runs[id].complete
       /\ r.prevTo <= r.from
       /\ range # "last_month" => r.prevTo - r.prevFrom = r.to - r.from \/ r.prevTo = r.from

(* repriceRunUsage.ts:73-78, backfillRunCosts.ts:13-17 - when the job has    *)
(* ended by itself, pricing any run with usable detail twice is pricing it   *)
(* once.  If, besides, no chat was deleted from its first to its last page,  *)
(* every run that was there when it began and has usable detail carries the  *)
(* cost, the model and the provider its own calls have at present prices, so *)
(* that a second job would change none of them; one with malformed detail is *)
(* as it was.  A job under which a chat was deleted may end early, because   *)
(* the row of its cursor is gone, and is promised nothing; runs that end     *)
(* while it works are priced as they end.                                    *)
BackfillIsThorough ==
  job.pc = "done" =>
    /\ \A id \in DOMAIN runs : Plannable(runs[id]) => Repriced(Repriced(runs[id])) = Repriced(runs[id])
    /\ ~disturbed => \A id \in job.began :
         IF id \in DOMAIN runs /\ Plannable(runs[id]) THEN runs[id] = Repriced(runs[id])
         ELSE id \in DOMAIN runs \cap DOMAIN Legacy => runs[id] = Legacy[id]
=============================================================================
