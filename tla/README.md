# Voyage Server in TLA+

Voyage Server is the back end of a travel-planning product: an Express and
Prisma server over PostgreSQL in which agencies (and single travellers) plan
trips with an AI agent, edit the itineraries by hand, share them with clients,
and collect comments and reviews. This directory holds TLA+ models of the parts
whose correctness depends on the order in which things happen, the TLC
configurations that check them, and TLAPS proofs about them. Paths below are
relative to the repository.

Contents: [system](#the-system), [modules](#the-modules-and-the-code),
[runs](#the-runs), [bounds](#bounds), [fairness](#fairness),
[proofs](#proofs), [disagreements](#where-code-and-documents-disagree),
[not modelled](#what-is-not-modelled), [plan](#plan).

## The system

One Node process serves HTTP; nothing forbids several processes on one database.
Between two `await`s code runs alone; at every `await` any other request,
background task or timer may run. Interactive transactions run at PostgreSQL's
READ COMMITTED. Publisher, tool call counters, abort controllers, caches and the
refresher's queue live in one process and are lost with it; only the rate
limiters share a store outside the database.

| Component | State | Operations | Hard because |
|---|---|---|---|
| Agent run repository (`src/modules/agent/agentRepository.ts`) | rows of threads, runs, events, tasks, sources, replies | create, start, append events, create and update tasks, complete, fail, cancel | sequence numbers are MAX+1 without a unique index; conditional updates race; locks of four kinds, taken in no common order |
| Agent run lifecycle (`agentService.ts`, `agentOrchestrator.ts`, `agentFactory.ts`, `agentController.ts`) | background task of a run, abort controller, nested catch blocks | accept a message, run model and tools, complete, fail, cancel | every call may throw with or without its effect; a cancellation may arrive at each await; a restart loses the task |
| Live stream and tool limits (`agentController.ts`, `agentStream.ts`, `agentEvents.ts`, `agentTools.ts`) | listeners, stream closed flags, per-run counters | replay, subscribe, publish, clean up | replay and publication overlap; a call left behind or a lost answer changes what is published and when; cleanup races with subscription; the counters are shared |
| Place status refresher (`src/services/places/placeRefreshScheduler.ts`, `placeSnapshotRepository.ts`) | queue, worker pool, requests in flight, cool-downs, hourly log | schedule after a read, refresh directly, observe a status | two kinds of callers, caps, late answers, workers that stop while work arrives |
| Itinerary edits (`src/modules/itineraries/`) | days and stops with unique positions, statuses, routes, a version | add, remove, move, replace, approve, reopen | renumbering under immediate unique indexes; no lock; the approval lock is a read |
| Rated history and Reuse (`src/modules/ratedHistory/`) | rated trips; writes into an itinerary | insert days or stops copied from a rated trip | shifts positions in one UPDATE; optimistic version |
| Accounts and sessions (`src/modules/auth/`, `src/http/authMiddleware.ts`) | users, sessions, verification and reset tokens | register, sign in, renew, reset, verify | token check and use are apart; renewal races with deletion |
| Agencies, team, invitations (`src/modules/agencies/`) | agency status and owner, memberships, invitations | apply, approve, invite, accept, revoke, change role, remove, transfer | role checked before the write; acceptance has three writes |
| Account administration (`src/modules/admin/account*`) | user status, pause, audit log | disable, sign out, pause, delete with successor | ownership read before the deleting transaction |
| Dashboards and calendar (`src/modules/dashboard/`) | two in-memory caches with one generation each | read, invalidate; pure aggregations | a slow fill against an invalidation; date arithmetic |
| Shares (`src/modules/shares/`) | links, comments, view counts | create, extend, regenerate, revoke, comment | check of a link and the write that follows it |
| Reviews and review mail (`src/modules/reviews/`) | ratings, reviews, mail log | rate, review, hourly scan | mail before log row; starvation in the batch; advisory lock over a pool |
| Weather, images, support, workspace, personal, usage, providers, mail | little or none | queries, uploads, external calls | external failures |

How they interact: the controller calls the service, which calls the repository
and starts the orchestrator as a background task. The orchestrator calls the
model provider and, one after another, tools; tools edit the itinerary
(`ItineraryEdits`), ask the place refresher (`PlaceRefresh`) and record sources
and tasks (`RunTransactions`). Each recorded event is committed and then
published to the streams of the process (`RunStream`). Hand edits, Reuse and
approval write the same itinerary rows. A read of an itinerary schedules place
refreshes. Approvals, comments and ratings invalidate the dashboards' caches.

What makes each part correct, in short: a run ends at most once and its log says
how; a client that watches misses and misorders no event but for named
circumstances; provider quotas hold; the committed positions of days and stops are
distinct and never scratch ones whatever edits overlap, and are the list asked for
when none do; an agency has exactly one owner as long as its requests do not
overlap; a used or void token opens nothing; a dashboard keeps no answer older than
an invalidation; a review is asked for in one mail, and again only when the first
went out unlogged. The exceptions each property makes stand in its text.

## The modules and the code

`PROJECT.json` maps every definition to its lines; this is the overview.

**`RunLog`** is the abstract specification of a run: a status that moves QUEUED,
RUNNING, terminal; an event log that only grows; a reply written exactly when
the run completes, with the two events that announce it. One step per repository
operation.

**`RunTransactions`** is the repository at the level of SQL statements. Each
transaction has a program counter; advisory lock, the rows of runs and tasks, the
unique key of task order, MAX+1 and the inserts are steps of their own, and other
transactions run between them. A task is created with the place the model asks for
or the next one, or it is updated, with or without a new place; its row and its
place are the thread's, so two runs can want the same ones. `WaitsFor` says whom a
statement waits for, and a transaction in a cycle of such waits (`Deadlocked`) is
rolled back, as PostgreSQL does. A transaction may also roll back before any
statement. `createToolCall` and `updateToolCall` are single statements and belong
to `AgentRun`. The module implements `RunLog`, which is what lets `AgentRun` take a
repository call as one step.

**`AgentRun`** is the life of a run above the repository: `createMessage`, the
orchestrator's whole control flow (the first model call, the batch of tool
calls with its two `Promise.all` pairs, unknown tools and the quota, the
continuation loop, the synthesis, completion), the three nested places that call
`failRun`, the cancel handler, a stream request that starts a run, and a crash.
A repository call, the creation of the run included, is a step, and with the fault
budget it may throw with its effect done or not done. A creation that throws after
it committed leaves a QUEUED run that no orchestrator takes up (`refused`). What
`startAgentRunInBackground` does before its `try` cannot be caught by anybody, and
a rejection there ends the process (`Crash`). A `Promise.all` that throws leaves its other call
behind, and the model keeps that call running. What the model says is a choice;
prompts, context and texts are left out. It too implements `RunLog`.

**`RunStream`** is one run, the process's publisher, and clients that connect,
read the replay, subscribe and leave, with the tool call counters that the
cleanup of a stream resets. A transaction commits its events first and publishes
them in a later step, when its call returns. The orchestrator waits for one such
call at a time (`Waited`), but a `Promise.all` that throws leaves a record behind,
before or after its commit: it is committed and published beside the next ones, in
either order, and a call that commits and throws is never published. So `published`
is a set and not a number. `strays` and `lost` record which events came by such
calls. Of the run it keeps no more than decides who may record next; that sequence
numbers grow with the commits is what `RunTransactions` shows.

**`PlaceRefresh`** is the refresher: reads that queue places, the worker pool
with its accounting (the last worker of a drain gives all places of that drain
back), direct refreshes of agent runs on a budget, the hourly window, cool-downs,
the conditional update of the stored status, and other writers of that status.
Microtasks run before I/O: a worker that waits for nothing goes on before
anything else (`Running`).

**`ItineraryEdits`** is the table of one itinerary and the transactions that edit
it, statement by statement: `table` holds the committed rows, each edit has an
overlay of rows it wrote and deleted, and rows are locked until the edit ends.
`Plan` computes, from what the edit reads when it opens, the list of statements
the code will execute; `Read`, `Write`, `Fail`, `Commit` and `Abort` execute
them. `resequenceDayItems` and the re-reading after a move are statements that
read again. The agent's add goes on to store a route after a provider call.
Unique keys are checked row by row; a collision with an uncommitted row waits.

**`ModelCalls`** is the model provider: a call of Vertex with its prompt cached at
the provider, or of an OpenAI-compatible interface that tries again. The map from
prompt to cached name is kept in order of use and cut at `CacheMax`; a name is a
promise that calls share, is dropped by a timer, and lives on at the provider for
`Life`. A stream yields frames, ends, breaks off or is silent until the deadline.

**`PlaceSelection`** is which places may be offered and attached: the gate, a
session's notes and memory of answers, the guard of itinerary edits with its
trusted, replaced and unresolved items, the map tools, and the stored snapshots
that every run, read and backfill writes. `since` records how long a place has
been known to be closed.

**`Accounts`** is sign-in: user row, sessions, mailed links and the resend
cool-down, with registration, sign-in, renewal in the middleware, verification,
reset, sign-in by a provider, and what an administrator does to an account. Each
request runs from await to await; time passes and statements fail in between.

**`Team`** is one agency: application and review, roles, transfer, invitations and
the deletion of members' accounts with the hand-over of an agency. `overlapped`
records that two requests were ever under way together.

**`ClientLinks`** is one finished trip and its client: links that are created,
extended, regenerated, revoked and opened, ratings and comments, the hourly scan
that mails for a review and logs the mail, the submission of the review, and the
two caches of the dashboards with the generation that a fill compares. The server
may crash and come back with empty caches.

**`Dashboards`** computes what the dashboards of owner and staff, the calendar and
the trip panel show, from tables that change between the queries of one payload.
**`UsageReports`** prices runs, adds the usage page up and runs the job that prices
old runs again, page by page. **`Weather`** answers an itinerary's outlook and the
agent's weather tool through a shared cache, with dates as day numbers of the
Gregorian calendar. **`RatedHistory`** is the paged picker of rated trips, a trip's
detail, and the choice and insertion of what is copied. **`SharePage`** is an open
share page and the fingerprint it polls.

`*Proofs.tla` hold the theorems. `MC*.tla` give the constants their values; a run
of several components has a variable `part` that picks one component per
behaviour, and the others keep their initial state, so that the run explores the
sum and not the product of them.

Fields such as `alone`, `overlapped`, `contended`, `crowded`, `disturbed`, `late`,
`lost`, `strays`, `jammed` and the variables `issued`, `failedAt`, `since`, `unlogged` are
history: no guard reads them. They name the circumstance in which the code is known
not to keep a promise, and the property then claims the promise for every other one.

## The runs

| Run | Asks | Properties |
|---|---|---|
| `run_transactions` | the SQL statements of three transactions on two runs, in every order | `LogInvariant`: sequences are 1, 2, 3, ... and the two events of the reply are neighbours; `ImplementsRunLog`; `EveryTransactionEnds` |
| `agent_run` | one run with tools, a cancel request, a stream request, two faults and a crash | `AbortIsSafe`: the signal is raised for closed runs only, and one tool at most runs after it; `EndedIsClosed`; `CompletedAudit`: rows and events of tool calls agree; `CompletionIsLast`; `ImplementsRunLog`; `RunEnds`; `FailureIsRecorded` |
| `streams_and_models` | two live streams beside a call that throws or is left behind; tool calls beside streams that close; and two model calls at a time, over and over | `ClientFollowsTheRun`: the order of the log up to repeats and left-behind records, and an event is missed only if its call has not returned or lost its answer, or it was published between replay and subscription; `OneQuotaPerCleanup`; `OneCreationAtATime`; `AnswerIsOneAttempts`; `NoExpiredContent` |
| `place_refresh` | reads, an agent run and a pool of two workers against a clock | `HourlyCap`; `RefreshIsConsiderate`: cool-downs are kept and stored times only grow; `QueueIsServed` |
| `accounts_and_links` | three requests of one user; and three requests on a trip's links, its review and the caches, with a crash | `ResetIsFinal`; `OneVerificationLink`; `DeletedIsErased`; `CacheKeepsUp`; `SuccessorTakesOver`; `AskedAndAnsweredOnce`; `ExpiryMovesOut` |
| `team_and_edits` | three requests on an agency; and every pair of edits of an itinerary | `SoundWhenAlone`; `DeletionIsFinal`; `OverlapIsHarmless`; `AloneNeverFails`; `EditsKeepRoutesCurrent`; `EditsAsAsked` |
| `place_selection` | a run and a request on one itinerary, with two places, notes and late answers | `BarredIsNeverOffered`; `BarredIsNeverAdded` |
| `reports` | what is added up, looked up and shown, against definitions of the same figures written another way | `FiguresAgree`; `PageAddsUp`; `BackfillIsThorough`; `OutlookIsRight`; `ListIsComplete`; `CopiesFitIn`; `EditsAreNoticed` |
| `run_stream_tool_limit`, `model_calls_usage`, `team_owner`, `place_points` | disagreements, [below](#where-code-and-documents-disagree) | one each |

`EndedIsClosed`, `RunEnds` and `FailureIsRecorded` name in their text how many
database faults they tolerate (one, one and none). With one more TLC refutes each,
so the numbers are exact. `RunEnds` speaks of runs whose message was accepted: with
the single fault that loses the answer of the creation, TLC finds the run that stays
QUEUED for ever if it is asked about every run. `EveryTransactionEnds` needs the
deadlock detection: without it TLC finds two updates of two runs that exchange the
places of two tasks and wait for each other. In `streams_and_models` TLC reaches
deliveries out of order; the exceptions of `ClientFollowsTheRun` are the ones the
run needs. The properties of edits that run alone are restricted so
because TLC refutes them otherwise: two overlapping adds on one day can fail on the
unique index or leave a stale route, and the code has no lock against it.

For every property `PROJECT.json` names a mutant, one definition changed the way a
slip in the code would change it, under which the run finds the property violated.

## Bounds

- `RunTransactions`: two runs of one thread, three transactions, batches of two
  rows, two older tasks at the places 1 and 2, which are also the places a call may
  ask for. Locks are per run, per row and per task key; two transactions of any
  kind, on one run or on two, and a third that completes a run give every pair of
  waiting relations and the cycle of two. `failRunIfOpen` and `createRunEvent` are left out of the run's
  `Work`: they execute the statements of `cancelRunIfOpen` and of a batch of one.
- `AgentRun`: one run, one cancel request, two tool calls, two unknown tools, one
  streamed delta, two faults, one crash. Runs share no state but the crash and
  the fault budget. Two tool calls let one be left behind while another is
  opened; two faults are one more than the properties tolerate.
- `RunStream`: two streams (symmetric), and either up to three events, one call that
  throws and no tool call, or three tool calls against a limit of one with at most
  one event and no fault. Three events are a stray, its neighbour and one more; the
  counters depend on streams only, so the two parts lose no interaction but that of
  a record with a counter, and there is none. One fault leaves a call behind or
  loses an answer; the theorems hold for any number.
- `ModelCalls`: two calls (symmetric; one with the express provider, which differs
  in two answers) without end, two prompts and two handles, a cache of one entry, a life of three against a timer and a timeout of one. Time is
  kept as ages, so it has no bound.
- `PlaceRefresh`: two places, a pool of two, a cap of two an hour, an hour of two
  ticks, a cool-down of one, a run budget of one, two reads that queue something.
  Every limit can be reached and expires within the run.
- `PlaceSelection`: two sessions (symmetric) whose edits overlap, two places with two
  names, one stored stop, two operations; a search overlaps other writers only. `Disturbs` bounds other writers to the time an operation is
  under way or to come. What is asked for: add the second place, set the stop to it
  or to the stored id with the other place's name, replace the list by the stored
  place twice, search, and pinpoint.
- `Accounts`: one user, two sessions and two links, three requests (symmetric),
  three ticks; a session lives for three, two when idle and kept, one when idle and
  not. Three requests are a victim, an interferer and one that comes later.
- `ClientLinks`: three links, three requests, two caches of one entry, two database
  connections, one day of the clock, crashes at any point.
- `Team`: an owner and another user, three requests of which two overlap at a time,
  two invitations.
- `ItineraryEdits`: two edits of any kind, two days, three stops of which one has
  no place on the map, slots 1, 2 and "last", start tables tidy and uneven, in
  review and approved. Each hazard is a statement of one edit between two of
  another. An edit adds at most two stops.
- `Dashboards`: two trips, links and comments, three changes of which one between
  the queries of a payload. `UsageReports`: five run ids of which three are old,
  two calls, pages of two, months of two or three days. `Weather`: `Era` and
  `YearsBack` bound the calendar; four itineraries across today, the end of the
  forecast and a leap year. `RatedHistory`: two trips, two links, three ratings,
  one edit, pages of one. `SharePage`: two changes per check.
- `MaxEvents`, `MaxAttempts`, `MaxTime`, `MaxReads`, `MaxDeltas`, `MaxFaults`,
  `MaxCrashes`, `MaxBatch`, `MaxOps`, `MaxClock`, `Horizon`, `MaxSteps`, `MaxTorn`,
  `MaxViews`, `MaxRuns`, `MaxAsks`, `MaxRatings`, `MaxPlanEdits` and `MaxChanges`
  bound counters in guards. `MaxToolCalls`, `MaxUnknown`, `MaxCalls`, `RunBudget`,
  `PerHour`, `PerRead`, `Concurrency`, `CacheMax`, `MaxTries`, `MaxEntries`,
  `BatchSize`, `PageSize` stand for limits of the code.

Deadlock is checked in `run_transactions`, `agent_run` and `model_calls_usage`. The
other systems really stop: clients have left, the clock is bounded, each request
runs once.

## Fairness

- `RunTransactions`: weak fairness of each transaction's next statement, and of
  the rollback when the key it wants has been committed by another or when it is in
  a cycle of waits. PostgreSQL executes what can run, refuses a duplicate key and
  breaks a deadlock after `deadlock_timeout`; a rollback for any other reason is
  never required.
- `AgentRun`: weak fairness of a run's orchestrator, of its outstanding calls,
  and of a cancel handler after the database has answered. The event loop runs
  what can run; model and tool calls have timeouts, the database answers or
  throws. Nothing makes a user write, watch or cancel, and crashes are never
  required.
- `PlaceRefresh`: weak fairness of each worker, of the provider's answer or
  failure and of the database's. Reads, agents and the clock are free.

The other modules claim safety only and state no fairness.

## Proofs

Eight modules hold theorems, beside the components whose promise rests on the
interleaving of many requests; components that share a run share a module of
theorems (`RunStream` and `ModelCalls`, `Accounts` and `ClientLinks`, `Team` and
`ItineraryEdits`), and so do the shorter ones about `RunTransactions`, `UsageReports`
and `SharePage`; the long ones about a lone edit have `LoneEditProofs` to
themselves. They hold for every value of the constants that satisfies the named
`ASSUME` of the component (natural bounds, null values outside their sets, rows of
the shape of their table, slots and stored positions that are whole numbers, run ids
from 1 so that the cursor 0 stands for none, `EvictAfter + Timeout < Life` for the
cached prompts: by default 1500 and 120 of 1800 seconds in the code): any number of runs, requests, links, places,
calls, and any bound, so no theorem depends on the sizes of a run. Each inductive
invariant was first checked by TLC on the run of its component.

| Module | Theorem | States |
|---|---|---|
| `RunsAndReportsProofs` | `TxnInvariantTheorem` | the inductive invariant |
| | `LogTheorem` | `[]LogInvariant` |
| | `LogRefinement` | `ImplementsRunLog` |
| | `RepricedTwice` | pricing a run again is idempotent |
| | `UsageInvTheorem`, `BackfillTheorem` | the inductive invariant of the job, `[]BackfillIsThorough` |
| | `ShareInvTheorem`, `NoticedTheorem` | the inductive invariant of the page, `EditsAreNoticed` |
| `AgentRunProofs` | `TypeInvariant` | `[]TypeOK` |
| | `AbortTheorem`, `LateTheorem`, `AbortSafety` | the two halves of `AbortIsSafe`, and the whole |
| | `EndedTheorem` | `[]EndedIsClosed` |
| | `CompletionTheorem` | `[]CompletionIsLast` |
| | `AuditTheorem` | `[]CompletedAudit` |
| | `RefinementTheorem` | `ImplementsRunLog` |
| `StreamsAndModelsProofs` | `StreamInvariantTheorem` | the inductive invariant |
| | `ClientTheorem`, `QuotaTheorem` | `[]ClientFollowsTheRun`, `[]OneQuotaPerCleanup` |
| | `ModelInvTheorem` | the inductive invariant of the model calls |
| | `CreationTheorem`, `AnswerTheorem`, `ContentTheorem` | `[]OneCreationAtATime`, `[]AnswerIsOneAttempts`, `NoExpiredContent` |
| `PlaceRefreshProofs` | `HourlyCapTheorem`, `ConsiderateTheorem` | `[]HourlyCap`, `RefreshIsConsiderate` |
| `TeamAndEditsProofs` | `TeamShapeTheorem` | what the requests carry |
| | `DeletionTheorem`, `AloneTheorem` | `DeletionIsFinal`, `[]SoundWhenAlone` |
| | `EditsInvariant` | the inductive invariant of the edits |
| | `CommittedRowsTheorem` | `[]WellFormed(table)`: the unique keys hold of every committed table |
| | `ScratchTheorem`, `VersionTheorem`, `OverlapTheorem` | `OverlapIsHarmless`, its two halves first |
| `LoneEditProofs` | `LoneInvariant` | the inductive invariant of an edit no other one overlaps |
| | `LoneTheorem` | `AloneNeverFails` |
| | `RoutesInvariant`, `RoutesTheorem` | the inductive invariant of the routes, `EditsKeepRoutesCurrent` |
| `AccountsAndLinksProofs` | `AccountsInvariantTheorem` | the inductive invariant |
| | `ResetTheorem`, `VerificationLinkTheorem`, `ErasureTheorem` | `[]ResetIsFinal`, `[]OneVerificationLink`, `[]DeletedIsErased` |
| | `LinkInvTheorem` | the inductive invariant of the rows |
| | `SuccessorTheorem`, `ExpiryTheorem`, `AskedTheorem`, `CacheTheorem` | `[]SuccessorTakesOver`, `ExpiryMovesOut`, `[]AskedAndAnsweredOnce`, `[]CacheKeepsUp` |
| `PlaceSelectionProofs` | `SelectionInvariantTheorem` | the inductive invariant |
| | `OfferTheorem`, `AdditionTheorem` | `[]BarredIsNeverOffered`, `BarredIsNeverAdded` |

The arguments, in the order of the table:

- *The log.* Sequence numbers are MAX + 1 and nothing unique backs them.
  `TxnInvariant` says that a transaction which has read MAX and not ended holds the
  run's advisory lock, alone, and that its number is still the next one
  (`NumberIsNext`); and that whoever holds a row or a key is at a place that does.
  Places of tasks are numbers or none, and the committed ones are bounded, so that
  MAX + 1 is a number.
  The two events of a reply are neighbours because one statement list writes both
  under the lock. For the refinement a commit is one step of `RunLog` and every
  other statement a stutter; `RunsExist` adds that a transaction is about a run
  that was created.
- *The run.* `AbortedIsClosed` is not inductive: raising the signal must know that
  the cancel handler closed the run (`CancelClosedFirst`), writing a status which
  runs exist (`Accepted`), and `EndedIsClosed` the way through the catch blocks: an
  open run reaches an outer `failRun` only after a fault (`FailurePath`). Together:
  `ClosedInv`. `LateInv`: once a tool has run with the signal raised, the signal
  stays and no place is left that opens another call. `CallsInv` says which calls
  of a `Promise.all` can be under way at each place; from it `DoneInv`: a completed
  run has none, not even one left behind. `AuditInv` keeps books: as long as a run
  can still complete, events and rows of tool calls differ exactly by the calls
  under way. `CompletedAudit` is that balance with nothing under way. Counting is
  done with cardinalities of index sets (`CountOfAppend` and its neighbours).
- *Streams.* `LogOK`: every committed event is published, lost or in flight; the
  transactions in flight share no event and none with what is published or lost; and
  whatever lies beyond one the orchestrator waits for is a stray. That is why a
  published event may follow a later one only if one of the two is a stray
  (`InFlightIsNext`). `Follows` relates what a client was given to its replay and to
  what was published when it subscribed. The counters of a run are at most a quota
  ahead of each cleanup.
- *Model calls.* `ModelInv`: the age of a cached prompt, what is left of the timer
  that will evict its key and `Timeout` add up to at most `Life` (`SlotFits`), and
  a call that found the key has at most what is left to it (`Refers`). A creation
  under way is in the map, and timers of one key are one, unless a key was dropped
  for lack of room (`SharedInv`).
- *The refresher.* `HourInv` says that the code's array of request times remembers
  every request of the last hour although it drops old entries when it looks;
  `CoolInv` that a cool-down starts with the failure. The induction over the
  requests an array has forgotten is done by the least element of a set of numbers.
- *The agency.* `TeamShape` types the requests; `AloneInvariant` says, as long as no
  two requests have overlapped, what a request may conclude at each place from what
  it has read (`Knows`), and that between requests the tables are in order.
- *Itinerary edits.* `EditsInv` says of each transaction (`TxnOk`) that it holds rows
  only while it is open, that the keys of the rows it sees are unique, that every
  row it sees at a scratch position is numbered by a statement still to come, and
  that what it has added to the version and what it is still to add is what its kind
  of edit is due; and of two transactions (`Apart`) that they hold no row and no key
  in common, which the row locks and the wait for an uncommitted key give. So what
  one commits can disturb neither the keys nor the debts of another. That a plan is
  sound whatever gaps the itinerary has (`Good`) is shown from what `Ordered` and
  `Rank` are, not from their code: no sorting is looked into.
- *A lone edit.* `LoneInv` adds two things to `EditsInv`. `RowsAreNew`: the id of a
  day or stop that an edit is to insert is known neither to the committed table nor
  to any other edit. `LonesAreSmooth`: the statements a lone edit has still to send are
  `Smooth`, that is the opening of a plan that deletes or moves a row, or a `Flow`.
  In a flow every row that is written or numbered is there, a place whose key is
  claimed has been given another one before, no two statements claim one key, and no
  row that a numbering statement will read is at a scratch position when its turn
  comes. That is what the two passes of the code (to scratch positions, then to final
  ones) are for, and it needs no bound on how many rows are numbered. `FlowWrites`
  and `FlowReads` show that executing the first statement leaves a flow, `SmoothGoes`
  that the first statement of one can always be executed, so `Fail` has no step to
  take. Reuse of a stop is excepted, as in the property.
- *The routes of a lone edit.* `RoutesTended`: until its `clear` the edit is
  `Tending`. Every statement still to come stays within the days that will be cleared,
  the list of days and the new day (`Within`); all other lists of stops are as
  committed (`OthersRest`), no stop has got a route, and one that has gone to another
  day has gone from a cleared day to a cleared one (`RoutesKept`); and the order noted
  before the first write is that of just these days. So a stop whose route was right
  and is not now is one whose predecessor on the map `clear` finds changed
  (`ClearSettles`). From then on the edit is `Settling`: no list changes, and a
  route that is no longer right is one it will write. A commit with nothing left to
  send keeps what was current (`NothingLeft`). What the sorting of a list yields is
  never needed: only that equal lists have equal predecessors (`SameStarts`).
- *Accounts.* `Knows` again, per place of each request: a session, a link or a user
  that was read is there, of the same user, and after a deletion nobody is past the
  place at which the deleted user is turned away. `SessionsFit` and `LinksFit`
  relate sessions and links to the password they were opened with.
- *Links and caches.* `LinkInv`: a request that has read a link may rely on the row
  being there, on the expiry it computed being the later one unless another
  extension is about to write the same link, and then the link is marked
  `contended`. `MailInv` counts mails against the log while one scan is under way.
  `CacheInv`: a fill whose data misses an answered change carries an older
  generation than the cache; nothing else is needed, what the fill read does not
  matter.
- *Place selection.* What bars a place only ever shrinks while an operation is under
  way: the notes of a session are read once, and `since` holds the places recorded
  closed all along. So a request may be judged at each step by what bars a place
  after it (`FitsAntitone`). `Heeds`: a status that was read and will be judged later
  is Closed for a place in `since`, whatever was stored in between; `PassesUnbarred`:
  the gate lets no such place pass, nor one its notes forbid, whatever city and
  status the request came with (`ForbiddenAnyhow`, because more notes that match
  only add stricter ones). `AddsNone` counts: in a replacement the stops taken over
  and those that may still be are together no more than there were.
- *The repricing job.* `RepricedTwice`: a stored call priced again prices the same,
  so a row the job has written needs no second visit. `UsageInv`: a row up to the
  cursor is settled, or it waits in the job's page exactly as it is stored; nobody
  but the job rewrites a row, and a deletion is recorded in `disturbed`. That a short
  page is the last one needs a least element of the ids beyond the cursor.
- *The share page.* `ShareInv`: a request that no edit overlapped (`torn`) has read
  what the tables hold, so its fingerprint is that of the present; the page keeps the
  fingerprint of its payload, and two fingerprints agree exactly when the parts that
  are shown agree.

What a proof found: `Accounts` gave ids of deleted rows out again, which no database
does and which broke the invariant (`Erased` keeps them apart now); the timers of
`ModelCalls` need `EvictAfter + Timeout < Life`, which the constants of the code
satisfy by default and nothing in it checks (`timeoutMs` is configured); `SharePage`
let a check begin before there was a page to check, by the precedence of an
implication in its guard.

Only model-checked: liveness (`EveryTransactionEnds`, `RunEnds`,
`FailureIsRecorded`, `QueueIsServed`), which is out of the provers' reach, as is
ENABLED. `FiguresAgree`, `PageAddsUp`, `OutlookIsRight`, `ListIsComplete` and
`CopiesFitIn` compare a fold or a selection over the data with another definition of
the same figure, and `EditsAsAsked` an order that statements made one by one with
the list it should be: that is induction over data, which the provers cannot do.

## Where code and documents disagree

With a run whose counterexample shows it:

- `run_stream_tool_limit`: closing any live stream of a run clears the tool call
  counters its orchestrator is using, so the limit per run is one per closed stream
  (`agentController.ts:208`). `OneQuotaPerCleanup` is what holds.
- `model_calls_usage`: `[DONE]` returns from the generator before the usage is
  reported (`openaiCompatible.ts:269`), though the request asks for it.
- `team_owner`: role checks read, then write, without a lock, so an agency can be
  left with two owners, or one who is no member (`teamService.ts:39`).
- `place_points`: a writer that does not know the coordinates of a stored place
  erases those another one stored (`placeSnapshotRepository.ts:100`).

Without a run, seen while modelling:

- A cancellation is published once and not persisted; a stream that is reading its
  replay never hears of it (`agentService.ts:618`).
- Direct refreshes of agent runs are not part of the pool, so more than
  `concurrency` requests are in flight (`placeRefreshScheduler.ts:9`).
- Reuse before two consecutive stops increments their numbers in one UPDATE, which
  the unique index can refuse, depending on the order in which rows are visited
  (`ratedHistoryRepository.ts:526`).
- A route is stored for an order that a hand edit has changed during the provider
  call (`itineraryPlaceResolver.ts:195`); an edit that read the status before an
  approval commits after it (`itineraryRepository.ts:952`).
- `maybeRenameFromFirstMessage` passes no agency to `listThreadMessages`, whose
  filter (`agentRepository.ts:751`) then matches no chat of an agency: titles are
  never taken from the first message there, though `tests/agentService.test.ts:1186`
  says so with a stub.
- `deleteThreadByAgency` and `deleteItinerary` look at the status and delete by id:
  a trip approved in between is deleted, though the comment at
  `agentRepository.ts:179` says it never is.
- The comment at `vertex.ts:619` calls a stale timer a no-op; after the key was
  created again it evicts the new entry. That costs a creation and nothing else
  (`NoExpiredContent`, `OneCreationAtATime`). A refused creation leaves its null in
  the map until it is crowded out.
- A supplied name that disagrees with its id and cannot be resolved is written with
  the unchecked id (`itineraryPlaceGuard.ts:276`, against its own `:257`).
- Nothing sets a trip ARCHIVED or an assigned organizer, so the dashboards' win rate
  is null or 100 % and lists filtered by organizer are empty; the owner's dashboard
  throws when a row of one read is missing in another (`aggregations.ts:256`).
- The cost backfill ends early, without a word, when the row of its cursor is
  deleted between pages (`backfillRunCosts.ts:192`); live pricing leaves a call
  without candidate counts unpriced where repricing takes zero.
- A rated trip's detail takes any of its links, without an order, so its rating can
  be below the one listed (`ratedHistoryService.ts:222`); `insertFromRated` does not
  check that the source is rated; a rating between two page reads repeats or loses
  a row.
- A refreshed place status, or a place renamed, counts as an edit of a shared trip.
- Two duplications of a trip at once can take the same option number
  (`itineraryRepository.ts:814`).

Not contradicted by a document, but a reader should know: nothing takes up or closes
runs after a restart (`agent_run` has the crash, and `RunEnds` excludes it); a
creation whose answer is lost leaves a QUEUED run without an orchestrator; two
`failRun` calls lost in a row leave a run open; and an event whose call threw after
its commit, or was left behind, reaches watching clients late, out of order or only
with the next replay.

## What is not modelled

`PROJECT.json` lists every component with its status and reason. Left out for good:
what is said to the model and how its text is read (the lifecycle takes the outcome
as a choice), the services behind mail, maps, search and sign-in, images, support
reports, the workspace and personal trips (single statements), the rate limiters (a
library counts), configuration and start.

Within modelled components: titles, saving and deletion of threads; creation,
deletion and duplication of trips; texts, times and notes of stops; recent reviews,
stop titles and names of the dashboards; condition codes, averages of typical days
and wording of the weather, and the check of a share token there; collisions of the
share page's hash; agency settings, audit rows and lists of the administration.

## Plan

Modelled, checked and proved, in this order: `RunLog`, `RunTransactions`, `AgentRun`,
`RunStream`, `PlaceRefresh`, `ItineraryEdits`, `Team`, `Accounts`, `ClientLinks`,
`PlaceSelection`, `ModelCalls`, `Dashboards`, `UsageReports`, `Weather`,
`RatedHistory`, `SharePage`; proofs about twelve of them, all but `RunLog` (which two
are shown to implement), `Dashboards`, `Weather` and `RatedHistory`. Left:

1. The parts of `Dashboards` and `Weather` whose properties follow from a definition
   by cases and not from a fold.
2. `Trips`: creation, duplication and deletion of trips with the thread they belong
   to, for the last hazards of the list that no property covers.
