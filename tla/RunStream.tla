----------------------------- MODULE RunStream -----------------------------
(***************************************************************************)
(* The live stream of one run.  runStream starts the run, registers the    *)
(* close handlers, replays the persisted events and then subscribes to the *)
(* process's publisher.  A transaction's events are persisted first and    *)
(* published when the database has answered; a cancellation is published   *)
(* and not persisted.  The cleanup of a stream also clears the run's tool  *)
(* call counters in the registry that the orchestrator is using.           *)
(*                                                                         *)
(* The orchestrator awaits its records one by one, but for Promise.all: if *)
(* the other call of the pair throws, it goes on and the record is left    *)
(* behind, to be committed and published at any time (AgentRun).  Two      *)
(* transactions may then be answered in either order, and one that commits *)
(* and throws, its answer lost, is not published at all.                   *)
(***************************************************************************)
EXTENDS Integers, Sequences, FiniteSets, SequencesExt

CONSTANTS
  Streams,           \* stream requests of the run, from any client
  MaxEvents,         \* bound: events the run persists
  MaxFaults,         \* bound: repository calls that throw
  MaxCalls,          \* maxCallsByTool of the tool the model keeps calling
  MaxAttempts        \* bound: executions the model asks for

ASSUME BoundsAssumption ==
  MaxEvents \in Nat /\ MaxFaults \in Nat /\ MaxCalls \in Nat /\ MaxAttempts \in Nat

\* The one event that is published without being persisted.
Cancelled == 0

VARIABLES
  \* the run
  status,            \* "open", "completed", "cancelled", "failed", "reported" once that was told
  running,           \* the orchestrator has not ended
  cancelling,        \* the cancel request: "no", "read", "closed", "notified"
  faults,            \* calls that have thrown
  \* its events, by their sequence in the log
  persisted,         \* number of AgentRunEvent rows
  inFlight,          \* committed transactions whose call has not returned: [first, last, left]
  late,              \* calls left behind that have not committed
  published,         \* the events handed to publishAgentRunEvent
  lost,              \* history: events whose call threw after the commit
  strays,            \* history: events recorded by a call left behind
  \* the streams
  pc,                \* [Streams -> where runStream is]
  gone,              \* the streams whose connection is closed
  cleaned,           \* the streams whose cleanup has run
  listeners,         \* listenersByRunId.get(runId)
  snapshot,          \* [Streams -> events listRunEvents returned]
  since,             \* [Streams -> history: the events published when it subscribed]
  got,               \* [Streams -> what was written to the client]
  \* the tool registry
  calls,             \* callsByRunAndTool
  attempts,          \* tool calls the model has asked for
  executed           \* history: executions the provider saw

life == <<status, running, cancelling, faults>>
log == <<persisted, inFlight, late, published, lost, strays>>
clients == <<pc, gone, cleaned, listeners, snapshot, since, got>>
registry == <<calls, attempts, executed>>
streamVars == <<life, log, clients, registry>>

StreamInit ==
  /\ status = "open" /\ running = TRUE /\ cancelling = "no" /\ faults = 0
  /\ persisted = 0 /\ inFlight = {} /\ late = 0
  /\ published = {} /\ lost = {} /\ strays = {}
  /\ pc = [s \in Streams |-> "idle"]
  /\ gone = {} /\ cleaned = {} /\ listeners = {}
  /\ snapshot = [s \in Streams |-> 0]
  /\ since = [s \in Streams |-> {}]
  /\ got = [s \in Streams |-> <<>>]
  /\ calls = 0 /\ attempts = 0 /\ executed = 0

-----------------------------------------------------------------------------
\* The transaction the orchestrator waits for, if it waits for one.
Waited == {b \in inFlight : ~b.left}
EventsOf(b) == b.first..b.last

Fault == faults < MaxFaults /\ faults' = faults + 1
NoFault == UNCHANGED faults

\* The next n events are committed; the database has yet to answer.
Commits(n, left) ==
  /\ persisted + n <= MaxEvents
  /\ persisted' = persisted + n
  /\ inFlight' = inFlight \union
                   {[first |-> persisted + 1, last |-> persisted + n, left |-> left]}

(* A recordRunEvent, a recordTask or a recordSources commits.  It does not   *)
(* look at the run: a cancelled one goes on recording until it notices.      *)
Record ==
  /\ running /\ status \in {"open", "cancelled"} /\ Waited = {}
  /\ \E n \in 1..2 : Commits(n, FALSE)
  /\ UNCHANGED <<life, late, published, lost, strays, clients, registry>>

(* completeRun: the reply and the end of the run, two events.  A run with a  *)
(* call left behind fails instead.                                           *)
CompleteRun ==
  /\ running /\ status = "open" /\ Waited = {} /\ late = 0 /\ strays = {}
  /\ status' = "completed"
  /\ Commits(2, FALSE)
  /\ UNCHANGED <<running, cancelling, faults, late, published, lost, strays, clients, registry>>

(* failRun, of the orchestrator or of the background task: first the run is  *)
(* closed, then the event is recorded.                                       *)
FailRunIfOpen ==
  /\ status = "open" /\ Waited = {}
  /\ status' = "failed"
  /\ UNCHANGED <<running, cancelling, faults, log, clients, registry>>

RecordFailure ==
  /\ status = "failed" /\ Waited = {}
  /\ status' = "reported"
  /\ Commits(1, FALSE)
  /\ UNCHANGED <<running, cancelling, faults, late, published, lost, strays, clients, registry>>

(* Promise.all rejects because the tool call's row could not be written: the *)
(* record of the call's event is left behind, committed or not.              *)
LeaveBehind ==
  /\ running /\ status \in {"open", "cancelled"} /\ Fault
  /\ \/ /\ Waited = {}
        /\ late' = late + 1
        /\ UNCHANGED <<inFlight, strays>>
     \/ \E b \in Waited :
          /\ b.first = b.last
          /\ inFlight' = (inFlight \ {b}) \union {[b EXCEPT !.left = TRUE]}
          /\ strays' = strays \union EventsOf(b)
          /\ UNCHANGED late
  /\ UNCHANGED <<status, running, cancelling, persisted, published, lost, clients, registry>>

PersistLate ==
  /\ late > 0
  /\ late' = late - 1
  /\ Commits(1, TRUE)
  /\ strays' = strays \union {persisted + 1}
  /\ UNCHANGED <<life, published, lost, clients, registry>>

-----------------------------------------------------------------------------
(* Cleanup of the streams in S: unsubscribe, then toolRegistry.clearRun.  It *)
(* runs once per stream.                                                     *)
Cleanup(S) ==
  /\ cleaned' = cleaned \union S
  /\ listeners' = listeners \ (S \ cleaned)
  /\ calls' = IF S \subseteq cleaned THEN calls ELSE 0

(* publishAgentRunEvent for each event of a transaction.  safeWrite refuses  *)
(* a stream that is cleaned up, and cleans up one it finds closed.           *)
Deliver(events) ==
  /\ got' = [s \in Streams |-> IF s \in listeners \ (cleaned \union gone)
                               THEN got[s] \o events ELSE got[s]]
  /\ Cleanup(listeners \intersect gone)

(* Mutant: only the last event of a transaction is published.                *)
PublishLast(b) ==
  /\ Deliver(<<b.last>>)
  /\ inFlight' = inFlight \ {b}
  /\ published' = published \union EventsOf(b)
  /\ UNCHANGED <<life, persisted, late, lost, strays, pc, gone, snapshot, since,
                 attempts, executed>>

(* The database has answered: the events of the transaction are published.   *)
Publish(b) ==
  /\ Deliver([i \in 1..(b.last - b.first + 1) |-> b.first + i - 1])
  /\ inFlight' = inFlight \ {b}
  /\ published' = published \union EventsOf(b)
  /\ UNCHANGED <<life, persisted, late, lost, strays, pc, gone, snapshot, since,
                 attempts, executed>>

(* The answer is lost: the call throws, and its events are not published.    *)
LoseAnswer(b) ==
  /\ Fault
  /\ inFlight' = inFlight \ {b}
  /\ lost' = lost \union EventsOf(b)
  /\ UNCHANGED <<status, running, cancelling, persisted, late, published, strays, clients,
                 registry>>

(* run() returns or throws: its finally block clears the counters.  Its      *)
(* failRun may have thrown, before or after it closed the run; the second    *)
(* failRun, of the background task, finds a closed run and records nothing.  *)
RunReturns ==
  /\ running /\ Waited = {}
  /\ IF status \in {"open", "failed"} THEN Fault ELSE NoFault
  /\ running' = FALSE
  /\ status' = IF status = "failed" THEN "reported" ELSE status
  /\ calls' = 0
  /\ UNCHANGED <<cancelling, log, clients, attempts, executed>>

(* cancelRun: a run read as open is closed if it still is one, and then the  *)
(* listeners are told, whether it was or not.                                *)
ReadOpenRun ==
  /\ cancelling = "no" /\ status = "open"
  /\ cancelling' = "read"
  /\ UNCHANGED <<status, running, faults, log, clients, registry>>

CancelRunIfOpen ==
  /\ cancelling = "read"
  /\ cancelling' = "closed"
  /\ status' = IF status = "open" THEN "cancelled" ELSE status
  /\ UNCHANGED <<running, faults, log, clients, registry>>

NotifyCancelled ==
  /\ cancelling = "closed"
  /\ cancelling' = "notified"
  /\ Deliver(<<Cancelled>>)
  /\ UNCHANGED <<status, running, faults, log, pc, gone, snapshot, since, attempts, executed>>

(* Mutant: an off-by-one in the limit.                                       *)
ExecuteToolOnceMore ==
  /\ running /\ status \in {"open", "cancelled"} /\ Waited = {} /\ attempts < MaxAttempts
  /\ attempts' = attempts + 1
  /\ IF calls > MaxCalls
       THEN UNCHANGED <<calls, executed>>
       ELSE calls' = calls + 1 /\ executed' = executed + 1
  /\ UNCHANGED <<life, log, clients>>

(* toolRegistry.execute: a call over the limit is refused with 429.          *)
ExecuteTool ==
  /\ running /\ status \in {"open", "cancelled"} /\ Waited = {} /\ attempts < MaxAttempts
  /\ attempts' = attempts + 1
  /\ IF calls >= MaxCalls
       THEN UNCHANGED <<calls, executed>>
       ELSE calls' = calls + 1 /\ executed' = executed + 1
  /\ UNCHANGED <<life, log, clients>>

-----------------------------------------------------------------------------
(* runStream up to the await of startRun.                                    *)
Connect(s) ==
  /\ pc[s] = "idle"
  /\ pc' = [pc EXCEPT ![s] = "starting"]
  /\ UNCHANGED <<life, log, gone, cleaned, listeners, snapshot, since, got, registry>>

(* startRun answers: 409 for a finished run, else the close handlers are     *)
(* registered.  A connection closed before that has no handler to call.      *)
Started(s) ==
  /\ pc[s] = "starting"
  /\ pc' = [pc EXCEPT ![s] = IF status = "open" THEN "listing" ELSE "refused"]
  /\ UNCHANGED <<life, log, gone, cleaned, listeners, snapshot, since, got, registry>>

(* The database answers listRunEvents' query.                                *)
ListRunEvents(s) ==
  /\ pc[s] = "listing"
  /\ snapshot' = [snapshot EXCEPT ![s] = persisted]
  /\ pc' = [pc EXCEPT ![s] = "replaying"]
  /\ UNCHANGED <<life, log, gone, cleaned, listeners, since, got, registry>>

(* The rows have arrived: they are written, and unless a write is refused    *)
(* the stream subscribes.  With no rows nothing is written, and a closed     *)
(* connection is not noticed.                                                *)
ReplayAndSubscribe(s) ==
  LET refused == snapshot[s] > 0 /\ s \in gone \union cleaned
  IN  /\ pc[s] = "replaying"
      /\ pc' = [pc EXCEPT ![s] = IF refused THEN "stopped" ELSE "live"]
      /\ IF refused
           THEN Cleanup({s}) /\ UNCHANGED <<since, got>>
           ELSE /\ got' = [got EXCEPT ![s] = [i \in 1..snapshot[s] |-> i]]
                /\ listeners' = listeners \union {s}
                /\ since' = [since EXCEPT ![s] = published]
                /\ UNCHANGED <<cleaned, calls>>
      /\ UNCHANGED <<life, log, gone, snapshot, attempts, executed>>

(* The client goes away.                                                     *)
Disconnect(s) ==
  /\ pc[s] # "idle" /\ s \notin gone
  /\ gone' = gone \union {s}
  /\ IF pc[s] \in {"listing", "replaying", "live"}
       THEN Cleanup({s})
       ELSE UNCHANGED <<cleaned, listeners, calls>>
  /\ UNCHANGED <<life, log, pc, snapshot, since, got, attempts, executed>>

StreamNext ==
  \/ Record \/ CompleteRun \/ FailRunIfOpen \/ RecordFailure \/ LeaveBehind \/ PersistLate
  \/ \E b \in inFlight : Publish(b) \/ LoseAnswer(b)
  \/ RunReturns \/ ReadOpenRun \/ CancelRunIfOpen \/ NotifyCancelled \/ ExecuteTool
  \/ \E s \in Streams : \/ Connect(s) \/ Started(s) \/ ListRunEvents(s)
                        \/ ReplayAndSubscribe(s) \/ Disconnect(s)

StreamSpec == StreamInit /\ [][StreamNext]_streamVars

-----------------------------------------------------------------------------
Received(s) == ToSet(got[s]) \ {Cancelled}

(* agentController.ts:212-224, agentService.ts:433-445 — a client that stays *)
(* gets every event of the log, but for those whose call has not returned,   *)
(* those whose answer was lost, and those published after its replay was read*)
(* and before it subscribed; and it gets nothing that is not in the log.     *)
LiveStreamIsComplete ==
  \A s \in listeners \ gone :
    /\ Received(s) \subseteq 1..persisted
    /\ \A e \in 1..persisted :
         \/ e \in Received(s) \union lost \/ \E b \in inFlight : e \in EventsOf(b)
         \/ e > snapshot[s] /\ e \in since[s]

(* agentStream.ts:75-94, agentEvents.ts:12-26 — the events of a stream come  *)
(* in the order of the log, each once.  The exceptions: the publisher repeats*)
(* an event of the replay, which was read before the event was published; and*)
(* an event that a call left behind has recorded (agentOrchestrator.ts:      *)
(* 609-671) comes before or after one of its neighbours.                     *)
DeliveredInOrder ==
  \A s \in Streams : \A i, j \in DOMAIN got[s] :
    LET e == got[s][i] f == got[s][j]
    IN  i < j /\ Cancelled \notin {e, f} /\ e >= f =>
          \/ i <= snapshot[s] /\ snapshot[s] < j
          \/ e # f /\ {e, f} \intersect strays # {}

\* What the client of a stream can rely on.
ClientFollowsTheRun == LiveStreamIsComplete /\ DeliveredInOrder

(* agentTools.ts:132-151 — within one life of the counters the limit holds,  *)
(* so every closed stream is worth at most one more quota of provider calls. *)
OneQuotaPerCleanup == executed <= MaxCalls * (1 + Cardinality(cleaned))

-----------------------------------------------------------------------------
(* docs/superpowers/specs/2026-04-28-agency-itinerary-agent-design.md:535    *)
(* "The server enforces provider call limits per run."                       *)
ProviderLimitHolds == executed <= MaxCalls
=============================================================================
