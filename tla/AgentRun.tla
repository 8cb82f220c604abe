------------------------------ MODULE AgentRun ------------------------------
(***************************************************************************)
(* The life of an agent run: createMessage queues it and launches the      *)
(* orchestrator in the background; the orchestrator starts it, calls the   *)
(* model and the tools, and completes or fails it; stream requests start   *)
(* it too; cancel requests close it and then abort the orchestrator; the   *)
(* server may crash, and nothing resumes a run after a restart.            *)
(*                                                                         *)
(* Every await is a step boundary.  A repository call is one step, which   *)
(* RunTransactions justifies, and may be hit by a fault: the call throws,  *)
(* and its effect is in the database or not.  Promise.all is two such      *)
(* calls that finish in any order: when one throws, the orchestrator goes  *)
(* on and the other is still under way.                                    *)
(***************************************************************************)
EXTENDS Integers, Sequences, FiniteSets

CONSTANTS
  Runs,              \* runs that may be created
  Cancels,           \* cancel requests; each is for one run
  MaxToolCalls,      \* maxToolCallsPerRun
  MaxUnknown,        \* MAX_UNKNOWN_TOOL_FAILURES
  MaxDeltas,         \* bound: text deltas and sources of one run
  MaxFaults,         \* bound: database faults
  MaxCrashes         \* bound: server crashes

ASSUME ConstantsAssumption ==
  /\ MaxToolCalls \in Nat /\ MaxUnknown \in Nat \ {0}
  /\ MaxDeltas \in Nat /\ MaxFaults \in Nat /\ MaxCrashes \in Nat

Open == {"QUEUED", "RUNNING"}
Terminal == {"COMPLETED", "FAILED", "CANCELLED"}

\* What a tool call comes to: it succeeds, it succeeds and is ask_user, its
\* provider is unavailable, it is not registered, its input can be corrected,
\* or its error ends the run.
Outcomes == {"ok", "ask", "unavailable", "notFound", "inputInvalid", "fatal"}
Succeeded == {"ok", "ask"}

\* The types of the events the run records here (AgentStreamEventType).
EventTypes ==
  {"run.started", "thought.delta", "message.delta", "tool.started", "tool.completed",
   "tool.failed", "source.added", "message.completed", "run.completed", "run.failed"}
RowStatuses == {"RUNNING", "COMPLETED", "FAILED"}

\* The three places that call failRun, each catching the throw of the one before.
Layers == {"inner", "outer", "background"}

Pcs ==
  {"none",          \* no message yet
   "created",       \* createUserMessageAndRun has answered, response not sent
   "refused",       \* it threw: the client has an error, and nothing is launched
   "starting",      \* in agentService.startRun
   "announcing",    \* recording run.started
   "thinking",      \* the initial model call
   "check",         \* at the head of executeToolCallsBatch's loop
   "open",          \* past checkCancelled, the input being enriched
   "opening",       \* Promise.all: the tool call row and tool.started
   "executing",     \* toolRegistry.execute
   "closing",       \* Promise.all: closing the row and its event
   "turn",          \* a batch is done: continue or answer
   "synthesizing",  \* the synthesis model call
   "reply",         \* recording message.delta
   "completing",    \* in agentService.completeRun
   "failing",       \* in agentService.failRun
   "failEvent",     \* failRunIfOpen has answered, run.failed to be recorded
   "ended",         \* startAgentRunInBackground has returned
   "lost"}          \* the server went down

VARIABLES
  \* the database
  status, log, replies,
  rows,              \* statuses of the run's AgentToolCall rows, oldest first
  \* the orchestrator and its caller
  pc,
  awaiting,          \* calls under way: of a Promise.all, or left behind by one
  used,              \* toolCallsExecuted
  outcome,           \* of the tool call at hand
  unknown,           \* unknownToolFailures
  asked, stopped,    \* asked.payload is set; stopToolLoop
  layer,             \* which failRun call is running
  \* the process
  registered,        \* runAbortControllers has the run's controller
  aborted,           \* the controller's signal
  late,              \* history: tools executed with the signal aborted
  \* cancel requests
  cpc, target,
  \* bounds
  deltas, faults, crashes

database == <<status, log, replies, rows>>
tools == <<used, outcome, unknown, asked, stopped>>
process == <<registered, aborted, late>>
requests == <<cpc, target>>
bounds == <<deltas, faults, crashes>>
vars == <<database, pc, awaiting, tools, layer, process, requests, bounds>>

Init ==
  /\ status = [r \in Runs |-> "NONE"]
  /\ log = [r \in Runs |-> <<>>]
  /\ replies = [r \in Runs |-> 0]
  /\ rows = [r \in Runs |-> <<>>]
  /\ pc = [r \in Runs |-> "none"]
  /\ awaiting = [r \in Runs |-> {}]
  /\ used = [r \in Runs |-> 0]
  /\ outcome = [r \in Runs |-> "ok"]
  /\ unknown = [r \in Runs |-> 0]
  /\ asked = [r \in Runs |-> FALSE]
  /\ stopped = [r \in Runs |-> FALSE]
  /\ layer = [r \in Runs |-> "inner"]
  /\ registered = [r \in Runs |-> FALSE]
  /\ aborted = [r \in Runs |-> FALSE]
  /\ late = [r \in Runs |-> 0]
  /\ cpc = [c \in Cancels |-> "idle"]
  /\ target \in [Cancels -> Runs]
  /\ deltas = [r \in Runs |-> 0]
  /\ faults = 0
  /\ crashes = 0

Goto(r, to) == pc' = [pc EXCEPT ![r] = to]
Record(r, type) == log' = [log EXCEPT ![r] = Append(@, type)]

\* A repository call works, or throws with or without its effect.
NoFault == UNCHANGED faults
Fault == faults < MaxFaults /\ faults' = faults + 1

(* run() returns or startAgentRunInBackground has caught everything: the     *)
(* finally blocks drop the controller.                                       *)
End(r) ==
  /\ Goto(r, "ended")
  /\ registered' = [registered EXCEPT ![r] = FALSE]
  /\ UNCHANGED layer

CallFailRun(r, l) ==
  /\ Goto(r, "failing")
  /\ layer' = [layer EXCEPT ![r] = l]
  /\ UNCHANGED registered

(* Mutant: the catch block forgets failRun.                                  *)
CatchSilently(r, l) == l \in Layers /\ End(r)

(* A catch block: an aborted run returns, any other is failed.               *)
Catch(r, l) == IF aborted[r] THEN End(r) ELSE CallFailRun(r, l)

(* Mutant: no catch block further out.                                       *)
RethrowNowhere(r) == End(r)

(* failRun itself threw: the next catch block outwards; the last one logs.   *)
Rethrow(r) ==
  \/ layer[r] = "inner" /\ Catch(r, "outer")
  \/ layer[r] = "outer" /\ Catch(r, "background")
  \/ layer[r] = "background" /\ End(r)

Advance(r, to) == Goto(r, to) /\ UNCHANGED <<layer, registered>>

(* recordRunEvent from a place whose throws reach the catch block of l.      *)
RecordThen(r, type, to, l) ==
  \/ NoFault /\ Record(r, type) /\ Advance(r, to)
  \/ Fault /\ (Record(r, type) \/ UNCHANGED log) /\ Catch(r, l)

-----------------------------------------------------------------------------
(* createMessage: the message and the QUEUED run commit together.  When the  *)
(* call throws, so does the handler, and a run that was committed is QUEUED  *)
(* with nobody to work on it.                                                *)
CreateMessage(r) ==
  /\ pc[r] = "none"
  /\ LET Queue == status' = [status EXCEPT ![r] = "QUEUED"]
     IN  \/ NoFault /\ Queue /\ Goto(r, "created")
         \/ Fault /\ (Queue \/ UNCHANGED status) /\ Goto(r, "refused")
  /\ UNCHANGED <<log, replies, rows, awaiting, tools, layer, process, requests, deltas, crashes>>

(* After the best-effort touch and rename the controller is registered and   *)
(* run() starts.  getAgentOrchestrator is called first and outside the try;  *)
(* nobody handles its rejection, which ends the process: Crash.              *)
Launch(r) ==
  /\ pc[r] = "created"
  /\ registered' = [registered EXCEPT ![r] = TRUE]
  /\ Goto(r, "starting")
  /\ UNCHANGED <<database, awaiting, tools, layer, aborted, late, requests, bounds>>

(* agentService.startRun: a QUEUED run becomes RUNNING, a RUNNING run is     *)
(* taken as it is, a finished run is a 409.  Its reads only repeat what the  *)
(* conditional update decides, so the three calls are one step.              *)
StartStatus(r) ==
  status' = IF status[r] = "QUEUED" THEN [status EXCEPT ![r] = "RUNNING"] ELSE status

OrchestratorStart(r) ==
  /\ pc[r] = "starting"
  /\ \/ NoFault /\ status[r] \in Open /\ StartStatus(r) /\ Advance(r, "announcing")
     \/ NoFault /\ status[r] \notin Open /\ UNCHANGED status /\ Catch(r, "background")
     \/ Fault /\ (StartStatus(r) \/ UNCHANGED status) /\ Catch(r, "background")
  /\ UNCHANGED <<log, replies, rows, awaiting, tools, aborted, late, requests, deltas, crashes>>

(* run.started; an obvious extraction attempt is then refused without a      *)
(* model call.                                                               *)
Announce(r) ==
  /\ pc[r] = "announcing"
  /\ \E to \in {"thinking", "reply"} : RecordThen(r, "run.started", to, "outer")
  /\ UNCHANGED <<status, replies, rows, awaiting, tools, aborted, late, requests, deltas, crashes>>

(* Text streamed by a model call: of the first, a continuation (whose text is*)
(* not shown) or the synthesis.  When it cannot be recorded, the first call  *)
(* fails the run, without a look at the signal; a continuation ends the tool *)
(* loop, and the synthesis falls back to the assistant message.              *)
Delta(r) ==
  /\ pc[r] \in {"thinking", "turn", "synthesizing"}
  /\ pc[r] = "turn" => ~stopped[r] /\ used[r] < MaxToolCalls
  /\ deltas[r] < MaxDeltas
  /\ deltas' = [deltas EXCEPT ![r] = @ + 1]
  /\ \E type \in {"thought.delta", "message.delta"} :
       /\ type = "message.delta" => pc[r] # "turn"
       /\ \/ NoFault /\ Record(r, type) /\ Advance(r, pc[r])
          \/ /\ Fault
             /\ (Record(r, type) \/ UNCHANGED log)
             /\ \/ pc[r] = "thinking" /\ CallFailRun(r, "inner")
                \/ pc[r] = "turn" /\ Advance(r, "synthesizing")
                \/ pc[r] = "synthesizing" /\ Advance(r, "reply")
  /\ UNCHANGED <<status, replies, rows, awaiting, tools, aborted, late, requests, crashes>>

(* The model's answer: text, tool calls, or an error (of the provider or the *)
(* parser).                                                                  *)
ModelAnswers(r) ==
  /\ pc[r] = "thinking"
  /\ \/ Advance(r, "reply")
     \/ Advance(r, "check")
     \/ CallFailRun(r, "inner")
  /\ UNCHANGED <<database, awaiting, tools, aborted, late, requests, bounds>>

-----------------------------------------------------------------------------

(* executeToolCallsBatch, one call at a time.                                *)
CheckCall(r) ==
  /\ pc[r] = "check"
  /\ IF aborted[r] \/ used[r] >= MaxToolCalls THEN Catch(r, "inner") ELSE Advance(r, "open")
  /\ UNCHANGED <<database, awaiting, tools, aborted, late, requests, bounds>>

Opening == {"rowStarted", "eventStarted"}
ClosingCompleted == {"rowCompleted", "eventCompleted"}
ClosingFailed == {"rowFailed", "eventFailed"}
Calls == Opening \union ClosingCompleted \union ClosingFailed

OpenCall(r) ==
  /\ pc[r] = "open"
  /\ awaiting' = [awaiting EXCEPT ![r] = @ \union Opening]
  /\ Advance(r, "opening")
  /\ UNCHANGED <<database, tools, aborted, late, requests, bounds>>

\* The calls the orchestrator is waiting for; any other call under way was
\* left behind by a Promise.all that has thrown.
Awaited(r) ==
  CASE pc[r] = "opening" -> Opening
    [] pc[r] = "closing" /\ outcome[r] \in Succeeded -> ClosingCompleted
    [] pc[r] = "closing" /\ outcome[r] \notin Succeeded -> ClosingFailed
    [] OTHER -> {}

LastRow(r, s) ==
  rows' = IF rows[r] = <<>> THEN rows ELSE [rows EXCEPT ![r][Len(rows[r])] = s]

Effect(r, call) ==
  \/ /\ UNCHANGED log
     /\ \/ call = "rowStarted" /\ rows' = [rows EXCEPT ![r] = Append(@, "RUNNING")]
        \/ call = "rowCompleted" /\ LastRow(r, "COMPLETED")
        \/ call = "rowFailed" /\ LastRow(r, "FAILED")
  \/ /\ UNCHANGED rows
     /\ \/ call = "eventStarted" /\ Record(r, "tool.started")
        \/ call = "eventCompleted" /\ Record(r, "tool.completed")
        \/ call = "eventFailed" /\ Record(r, "tool.failed")

(* A call of a Promise.all finishes.                                         *)
Settle(r) ==
  \E call \in awaiting[r] :
    /\ awaiting' = [awaiting EXCEPT ![r] = @ \ {call}]
    /\ Effect(r, call)
    /\ UNCHANGED <<status, replies, pc, tools, layer, process, requests, bounds>>

(* A call of a Promise.all throws.  In the success block the throw is caught *)
(* as a failure of the tool, whose row and event are then written; anywhere  *)
(* else it leaves the batch.  A call left behind throws unheard.             *)
Reject(r) ==
  \E call \in awaiting[r] :
    /\ Fault
    /\ (Effect(r, call) \/ UNCHANGED <<rows, log>>)
    /\ \/ /\ call \notin Awaited(r)
          /\ awaiting' = [awaiting EXCEPT ![r] = @ \ {call}]
          /\ UNCHANGED <<pc, layer, registered, outcome>>
       \/ /\ call \in ClosingCompleted \intersect Awaited(r)
          /\ awaiting' = [awaiting EXCEPT ![r] = (@ \ {call}) \union ClosingFailed]
          /\ outcome' = [outcome EXCEPT ![r] = "fatal"]
          /\ UNCHANGED <<pc, layer, registered>>
       \/ /\ call \in Awaited(r) \ ClosingCompleted
          /\ awaiting' = [awaiting EXCEPT ![r] = @ \ {call}]
          /\ Catch(r, "inner")
          /\ UNCHANGED outcome
    /\ UNCHANGED <<status, replies, used, unknown, asked, stopped, aborted, late, requests,
                   deltas, crashes>>

(* Mutant: the Promise.all that opens a call is not awaited.                 *)
OpenedUnawaited(r) ==
  /\ pc[r] = "opening"
  /\ used' = [used EXCEPT ![r] = @ + 1]
  /\ late' = [late EXCEPT ![r] = IF aborted[r] THEN @ + 1 ELSE @]
  /\ Advance(r, "executing")
  /\ UNCHANGED <<database, awaiting, outcome, unknown, asked, stopped, aborted, requests, bounds>>

Opened(r) ==
  /\ pc[r] = "opening"
  /\ awaiting[r] \intersect Opening = {}
  /\ used' = [used EXCEPT ![r] = @ + 1]
  /\ late' = [late EXCEPT ![r] = IF aborted[r] THEN @ + 1 ELSE @]
  /\ Advance(r, "executing")
  /\ UNCHANGED <<database, awaiting, outcome, unknown, asked, stopped, aborted, requests, bounds>>

(* A tool that records sources or tasks does so before it returns.           *)
ToolRecords(r) ==
  /\ pc[r] = "executing"
  /\ deltas[r] < MaxDeltas
  /\ deltas' = [deltas EXCEPT ![r] = @ + 1]
  /\ Record(r, "source.added")
  /\ UNCHANGED <<status, replies, rows, pc, awaiting, tools, layer, process, requests,
                 faults, crashes>>

Executed(r) ==
  /\ pc[r] = "executing"
  /\ \E o \in Outcomes :
       /\ outcome' = [outcome EXCEPT ![r] = o]
       /\ awaiting' = [awaiting EXCEPT ![r] =
            @ \union IF o \in Succeeded THEN ClosingCompleted ELSE ClosingFailed]
  /\ Advance(r, "closing")
  /\ UNCHANGED <<database, used, unknown, asked, stopped, aborted, late, requests, bounds>>

(* Mutant: the Promise.all that closes a call is not awaited.                *)
ClosedUnawaited(r) ==
  /\ pc[r] = "closing"
  /\ unknown' = [unknown EXCEPT ![r] = IF outcome[r] = "notFound" THEN @ + 1 ELSE @]
  /\ asked' = [asked EXCEPT ![r] = @ \/ outcome[r] = "ask"]
  /\ stopped' = [stopped EXCEPT ![r] = @ \/ outcome[r] = "ask" \/ unknown'[r] >= MaxUnknown]
  /\ IF outcome[r] = "fatal" THEN Catch(r, "inner")
     ELSE \/ Advance(r, "turn")
          \/ ~stopped'[r] /\ Advance(r, "check")
  /\ UNCHANGED <<database, awaiting, used, outcome, aborted, late, requests, bounds>>

(* The call's row and event are written: the next call of the batch, the end *)
(* of the batch, the end of the tool loop, or the end of the run.            *)
Closed(r) ==
  /\ pc[r] = "closing"
  /\ awaiting[r] \intersect Awaited(r) = {}
  /\ unknown' = [unknown EXCEPT ![r] = IF outcome[r] = "notFound" THEN @ + 1 ELSE @]
  /\ asked' = [asked EXCEPT ![r] = @ \/ outcome[r] = "ask"]
  /\ stopped' = [stopped EXCEPT ![r] = @ \/ outcome[r] = "ask" \/ unknown'[r] >= MaxUnknown]
  /\ IF outcome[r] = "fatal" THEN Catch(r, "inner")
     ELSE \/ Advance(r, "turn")
          \/ ~stopped'[r] /\ Advance(r, "check")
  /\ UNCHANGED <<database, awaiting, used, outcome, aborted, late, requests, bounds>>

(* The head of the continuation loop.  A continuation whose completion fails,*)
(* does not parse or is text ends the loop, as the limit of 100 turns and an *)
(* edit loop do: all are Finish.  A remediation turn is a stutter.           *)
Continue(r) ==
  /\ pc[r] = "turn"
  /\ ~stopped[r]
  /\ used[r] < MaxToolCalls
  /\ IF aborted[r] THEN Catch(r, "outer") ELSE Advance(r, "check")
  /\ UNCHANGED <<database, awaiting, tools, aborted, late, requests, bounds>>

Finish(r) ==
  /\ pc[r] = "turn"
  /\ IF asked[r] THEN Advance(r, "reply")
     ELSE Advance(r, "synthesizing") \/ (used[r] = 0 /\ Advance(r, "reply"))
  /\ UNCHANGED <<database, awaiting, tools, aborted, late, requests, bounds>>

(* The synthesis streams message.delta events; an error falls back to the    *)
(* assistant message, which is then recorded like an unstreamed synthesis.   *)
Synthesize(r) ==
  /\ pc[r] = "synthesizing"
  /\ \/ NoFault /\ Record(r, "message.delta") /\ Advance(r, "completing")
     \/ NoFault /\ UNCHANGED log /\ Advance(r, "reply")
     \/ Fault /\ (Record(r, "message.delta") \/ UNCHANGED log) /\ Advance(r, "reply")
  /\ UNCHANGED <<status, replies, rows, awaiting, tools, aborted, late, requests, deltas, crashes>>

Reply(r) ==
  /\ pc[r] = "reply"
  /\ RecordThen(r, "message.delta", "completing", "outer")
  /\ UNCHANGED <<status, replies, rows, awaiting, tools, aborted, late, requests, deltas, crashes>>

CompletionEvents == <<"message.completed", "run.completed">>

CompleteRunIfOpen(r) ==
  /\ status[r] \in Open
  /\ status' = [status EXCEPT ![r] = "COMPLETED"]
  /\ replies' = [replies EXCEPT ![r] = @ + 1]
  /\ log' = [log EXCEPT ![r] = @ \o CompletionEvents]

(* agentService.completeRun; a run that is no longer open is a 409.          *)
CompleteRun(r) ==
  /\ pc[r] = "completing"
  /\ \/ NoFault /\ CompleteRunIfOpen(r) /\ End(r)
     \/ NoFault /\ status[r] \notin Open /\ UNCHANGED <<status, log, replies>> /\ Catch(r, "outer")
     \/ Fault /\ (CompleteRunIfOpen(r) \/ UNCHANGED <<status, log, replies>>) /\ Catch(r, "outer")
  /\ UNCHANGED <<rows, awaiting, tools, aborted, late, requests, deltas, crashes>>

-----------------------------------------------------------------------------
(* Mutant: failRun does not ask whether the run is open.                     *)
FailRunInAnyCase(r) == status' = [status EXCEPT ![r] = "FAILED"]

FailRunIfOpen(r) ==
  /\ status[r] \in Open
  /\ status' = [status EXCEPT ![r] = "FAILED"]

(* agentService.failRun: the status first ...                                *)
FailRun(r) ==
  /\ pc[r] = "failing"
  /\ \/ NoFault /\ FailRunIfOpen(r) /\ Advance(r, "failEvent")
     \/ NoFault /\ status[r] \notin Open /\ UNCHANGED status /\ Rethrow(r)
     \/ Fault /\ (FailRunIfOpen(r) \/ UNCHANGED status) /\ Rethrow(r)
  /\ UNCHANGED <<log, replies, rows, awaiting, tools, aborted, late, requests, deltas, crashes>>

(* Mutant: like other events, the failure is recorded for an open run only.  *)
RecordFailureIfOpen(r) ==
  /\ pc[r] = "failEvent"
  /\ IF status[r] \in Open THEN Record(r, "run.failed") ELSE UNCHANGED log
  /\ End(r)
  /\ UNCHANGED <<status, replies, rows, awaiting, tools, aborted, late, requests, bounds>>

(* ... then, in a transaction of its own, the event.                         *)
RecordFailure(r) ==
  /\ pc[r] = "failEvent"
  /\ \/ NoFault /\ Record(r, "run.failed") /\ End(r)
     \/ Fault /\ (Record(r, "run.failed") \/ UNCHANGED log) /\ Rethrow(r)
  /\ UNCHANGED <<status, replies, rows, awaiting, tools, aborted, late, requests, deltas, crashes>>

-----------------------------------------------------------------------------
(* A stream request starts the run it is about to show.                      *)
StreamStart(r) ==
  /\ status[r] = "QUEUED"
  /\ StartStatus(r)
  /\ UNCHANGED <<log, replies, rows, pc, awaiting, tools, layer, process, requests, bounds>>

(* The cancel handler closes the run in the database.  It ignores whether    *)
(* the run was still open; an error ends the request.                        *)
CancelRun(c) ==
  LET r == target[c]
      Close == status' = IF status[r] \in Open THEN [status EXCEPT ![r] = "CANCELLED"] ELSE status
  IN  /\ cpc[c] = "idle"
      /\ status[r] # "NONE"
      /\ \/ NoFault /\ Close /\ cpc' = [cpc EXCEPT ![c] = "abort"]
         \/ Fault /\ (Close \/ UNCHANGED status) /\ cpc' = [cpc EXCEPT ![c] = "done"]
      /\ UNCHANGED <<log, replies, rows, pc, awaiting, tools, layer, process, target,
                     deltas, crashes>>

(* Mutant: the handler aborts without waiting for the database.              *)
CancelAgentRunAtOnce(c) ==
  LET r == target[c]
  IN  /\ cpc[c] \in {"idle", "abort"}
      /\ cpc' = [cpc EXCEPT ![c] = "done"]
      /\ aborted' = [aborted EXCEPT ![r] = @ \/ registered[r]]
      /\ registered' = [registered EXCEPT ![r] = FALSE]
      /\ UNCHANGED <<database, pc, awaiting, tools, layer, late, target, bounds>>

(* cancelAgentRun, after the database has answered.                          *)
CancelAgentRun(c) ==
  LET r == target[c]
  IN  /\ cpc[c] = "abort"
      /\ cpc' = [cpc EXCEPT ![c] = "done"]
      /\ aborted' = [aborted EXCEPT ![r] = @ \/ registered[r]]
      /\ registered' = [registered EXCEPT ![r] = FALSE]
      /\ UNCHANGED <<database, pc, awaiting, tools, layer, late, target, bounds>>

(* The server goes down with everything in memory, or ends on an unhandled   *)
(* rejection (see Launch).  What a call under way still did to the database, *)
(* it did before.                                                            *)
Crash ==
  /\ crashes < MaxCrashes
  /\ crashes' = crashes + 1
  /\ pc' = [r \in Runs |-> IF pc[r] \in {"none", "refused", "ended"} THEN pc[r] ELSE "lost"]
  /\ awaiting' = [r \in Runs |-> {}]
  /\ registered' = [r \in Runs |-> FALSE]
  /\ aborted' = [r \in Runs |-> FALSE]
  /\ cpc' = [c \in Cancels |-> IF cpc[c] = "abort" THEN "done" ELSE cpc[c]]
  /\ UNCHANGED <<database, tools, layer, late, target, deltas, faults>>

-----------------------------------------------------------------------------
Orchestrate(r) ==
  \/ Launch(r) \/ OrchestratorStart(r) \/ Announce(r) \/ Delta(r) \/ ModelAnswers(r)
  \/ CheckCall(r) \/ OpenCall(r) \/ Opened(r) \/ ToolRecords(r) \/ Executed(r) \/ Closed(r)
  \/ Continue(r) \/ Finish(r) \/ Synthesize(r) \/ Reply(r) \/ CompleteRun(r)
  \/ FailRun(r) \/ RecordFailure(r)

(* Nobody works on a run and every cancel request has been answered.         *)
Quiet ==
  /\ \A r \in Runs : pc[r] \in {"refused", "ended", "lost"} /\ awaiting[r] = {}
  /\ \A c \in Cancels : cpc[c] = "done" \/ status[target[c]] = "NONE"
Terminating == Quiet /\ UNCHANGED vars

Next ==
  \/ \E r \in Runs : \/ CreateMessage(r) \/ Orchestrate(r) \/ Settle(r) \/ Reject(r)
                     \/ StreamStart(r)
  \/ \E c \in Cancels : CancelRun(c) \/ CancelAgentRun(c)
  \/ Crash
  \/ Terminating

Spec == Init /\ [][Next]_vars

(* The event loop runs what can run, and the database, the model and the     *)
(* tools answer.  Nothing makes a user write, watch or cancel.               *)
FairSpec ==
  /\ Spec
  /\ \A r \in Runs : WF_vars(Orchestrate(r)) /\ WF_vars(Settle(r))
  /\ \A c \in Cancels : WF_vars(CancelAgentRun(c))

-----------------------------------------------------------------------------
Statuses == {"NONE"} \union Open \union Terminal

TypeOK ==
  /\ status \in [Runs -> Statuses]
  /\ log \in [Runs -> Seq(EventTypes)]
  /\ replies \in [Runs -> Nat]
  /\ rows \in [Runs -> Seq(RowStatuses)]
  /\ pc \in [Runs -> Pcs]
  /\ awaiting \in [Runs -> SUBSET Calls]
  /\ used \in [Runs -> Nat] /\ outcome \in [Runs -> Outcomes] /\ unknown \in [Runs -> Nat]
  /\ asked \in [Runs -> BOOLEAN] /\ stopped \in [Runs -> BOOLEAN]
  /\ layer \in [Runs -> Layers]
  /\ registered \in [Runs -> BOOLEAN] /\ aborted \in [Runs -> BOOLEAN]
  /\ late \in [Runs -> Nat]
  /\ cpc \in [Cancels -> {"idle", "abort", "done"}] /\ target \in [Cancels -> Runs]
  /\ deltas \in [Runs -> Nat] /\ faults \in 0..MaxFaults /\ crashes \in 0..MaxCrashes

(* agentOrchestrator.ts:749,942,1091 and agentFactory.ts:273 — the catch     *)
(* blocks leave an aborted run alone.  That is right only because a signal   *)
(* is never raised for a run that is still open: the cancel handler closes   *)
(* the run first, and waits for the database before it aborts.               *)
AbortedIsClosed == \A r \in Runs : aborted[r] => status[r] \in Terminal

(* agentOrchestrator.ts:473-1095, agentFactory.ts:272-299 — when the         *)
(* background task of a run returns, on whatever path, the run is closed,    *)
(* even if one database call on that path failed: another failRun is tried   *)
(* by a catch block further out.                                             *)
EndedIsClosed == \A r \in Runs : pc[r] = "ended" /\ faults <= 1 => status[r] \in Terminal

Occurrences(r, type) == Cardinality({i \in DOMAIN log[r] : log[r][i] = type})
RowsWith(r, s) == Cardinality({i \in DOMAIN rows[r] : rows[r][i] = s})

(* agentOrchestrator.ts:609-671 — a completed run's audit trail adds up: each*)
(* tool call has a row and a tool.started event, no row is left RUNNING, and *)
(* there are as many tool.completed and tool.failed events as COMPLETED and  *)
(* FAILED rows, although rows and events are written by concurrent calls     *)
(* that can fail one by one.                                                 *)
CompletedAudit ==
  \A r \in Runs : status[r] = "COMPLETED" =>
    /\ Occurrences(r, "tool.started") = Len(rows[r])
    /\ RowsWith(r, "RUNNING") = 0
    /\ Occurrences(r, "tool.completed") = RowsWith(r, "COMPLETED")
    /\ Occurrences(r, "tool.failed") = RowsWith(r, "FAILED")

(* agentRepository.ts:690-715 — nothing is recorded after the reply: the two *)
(* completion events are the last of a completed run, so a client that stops *)
(* reading at run.completed has read everything.                             *)
CompletionIsLast ==
  \A r \in Runs : status[r] = "COMPLETED" =>
    LET n == Len(log[r])
    IN  n >= 2 /\ log[r][n - 1] = "message.completed" /\ log[r][n] = "run.completed"

(* agentOrchestrator.ts:589 — after the abort at most the call that had      *)
(* passed checkCancelled is still executed.                                  *)
AtMostOneLateTool == \A r \in Runs : late[r] <= 1

(* What a cancel request may rely on: it aborts closed runs only, and they   *)
(* stop. Every variable has its type.                                        *)
AbortIsSafe == TypeOK /\ AbortedIsClosed /\ AtMostOneLateTool

\* createMessage has had the answer of the database.
Accepted(r) == pc[r] \notin {"none", "refused"}

(* agentService.ts:591-612 and agentOrchestrator.ts:598-1093 - a run whose   *)
(* message was accepted ends, if the server stays up and no more than one    *)
(* database call fails.  It says nothing of a run whose creation was         *)
(* committed and not answered (CreateMessage): that one stays open until     *)
(* someone cancels it.                                                       *)
RunEnds ==
  \A r \in Runs : Accepted(r) ~> (status[r] \in Terminal \/ faults > 1 \/ crashes > 0)

(* agentService.ts:605 - the failure of a run gets into its event log, if    *)
(* the server stays up and no database call fails.                           *)
FailureIsRecorded ==
  \A r \in Runs :
    (status[r] = "FAILED")
      ~> ((\E i \in DOMAIN log[r] : log[r][i] = "run.failed") \/ faults > 0 \/ crashes > 0)

(* Whatever service, orchestrator, requests and crashes do to a run is a     *)
(* step of the repository's abstract log.                                    *)
Log == INSTANCE RunLog WITH MaxBatch <- 1
ImplementsRunLog == Log!Spec
=============================================================================
