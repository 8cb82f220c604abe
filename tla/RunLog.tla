------------------------------- MODULE RunLog -------------------------------
(***************************************************************************)
(* What the agent repository promises about a run: a status that moves     *)
(* from QUEUED over RUNNING to one terminal status, an event log that only *)
(* grows, and an assistant reply that is written exactly when the run      *)
(* completes, together with the two events that announce it.               *)
(*                                                                         *)
(* Every operation is one step here.  RunTransactions shows that the       *)
(* repository's multi-statement transactions behave like these steps under *)
(* READ COMMITTED; AgentRun shows that the service, the orchestrator, the  *)
(* cancel handler and a crash never do anything else to a run.             *)
(***************************************************************************)
EXTENDS Sequences, Naturals

CONSTANTS
  Runs,                \* the runs that may be created
  MaxBatch             \* the most events one transaction appends (createSourcesAndEvents)

VARIABLES
  status,              \* AgentRun.status, or "NONE" before the row exists
  log,                 \* the run's AgentRunEvent types in sequence order
  replies              \* number of ASSISTANT messages that belong to the run

vars == <<status, log, replies>>

Open == {"QUEUED", "RUNNING"}
Terminal == {"COMPLETED", "FAILED", "CANCELLED"}
Statuses == {"NONE"} \union Open \union Terminal

\* The two events that only completeRunIfOpen writes.
CompletionEvents == <<"message.completed", "run.completed">>
ProgressTypes ==
  {"run.started", "thought.delta", "message.delta", "tool.started",
   "tool.completed", "tool.failed", "task.updated", "source.added", "run.failed"}
EventTypes == ProgressTypes \union {"message.completed", "run.completed"}

Init ==
  /\ status = [r \in Runs |-> "NONE"]
  /\ log = [r \in Runs |-> <<>>]
  /\ replies = [r \in Runs |-> 0]

Create(r) ==
  /\ status[r] = "NONE"
  /\ status' = [status EXCEPT ![r] = "QUEUED"]
  /\ UNCHANGED <<log, replies>>

Start(r) ==
  /\ status[r] = "QUEUED"
  /\ status' = [status EXCEPT ![r] = "RUNNING"]
  /\ UNCHANGED <<log, replies>>

(* Progress events carry no condition on the status: the repository appends *)
(* an event to a run that is already finished as well.                      *)
Append1(r, type) ==
  /\ status[r] # "NONE"
  /\ log' = [log EXCEPT ![r] = Append(@, type)]
  /\ UNCHANGED <<status, replies>>

(* The events of one createSourcesAndEvents transaction, one per source.    *)
AppendBatch(r, type, n) ==
  /\ status[r] # "NONE"
  /\ log' = [log EXCEPT ![r] = @ \o [i \in 1..n |-> type]]
  /\ UNCHANGED <<status, replies>>

Complete(r) ==
  /\ status[r] \in Open
  /\ status' = [status EXCEPT ![r] = "COMPLETED"]
  /\ replies' = [replies EXCEPT ![r] = @ + 1]
  /\ log' = [log EXCEPT ![r] = @ \o CompletionEvents]

Close(r, end) ==
  /\ status[r] \in Open
  /\ status' = [status EXCEPT ![r] = end]
  /\ UNCHANGED <<log, replies>>

Next ==
  \E r \in Runs :
    \/ Create(r)
    \/ Start(r)
    \/ \E type \in ProgressTypes : Append1(r, type)
    \/ \E n \in 2..MaxBatch : AppendBatch(r, "source.added", n)
    \/ Complete(r)
    \/ \E end \in {"FAILED", "CANCELLED"} : Close(r, end)

Spec == Init /\ [][Next]_vars
=============================================================================
