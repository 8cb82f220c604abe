-------------------------- MODULE RunTransactions --------------------------
(***************************************************************************)
(* The transactions of agentRepository.ts that touch a run, one step per   *)
(* SQL statement, as PostgreSQL executes them at READ COMMITTED:           *)
(*   - a statement sees the rows committed when it starts, and its own;    *)
(*   - an UPDATE waits for a row another transaction has updated, and then *)
(*     evaluates its WHERE clause again on the committed row;              *)
(*   - pg_advisory_xact_lock waits for the run's lock and holds it to the  *)
(*     end of the transaction;                                             *)
(*   - a write of a unique key waits while an uncommitted transaction has  *)
(*     written that key or is changing the row that has it, and fails if a *)
(*     row with the key is then committed;                                 *)
(*   - transactions that wait for each other in a cycle are found by the   *)
(*     deadlock detection, which rolls one of them back;                   *)
(*   - a transaction may roll back before any of its statements (a lost    *)
(*     connection, Prisma's transaction timeout, a task id of no row).     *)
(*                                                                         *)
(* nextRunEventSequence reads MAX(sequence) + 1 and no unique index guards *)
(* the result: only the advisory lock keeps a run's sequences distinct.    *)
(***************************************************************************)
EXTENDS Integers, FiniteSets, FiniteSetsExt, Sequences, SequencesExt

CONSTANTS
  Runs,          \* the runs, all of one thread
  Txns,          \* transactions; each is executed once
  Work,          \* [Txns -> the operations it may be one of]
  MaxBatch,      \* sources written by one createSourcesAndEvents
  Tasks,         \* tasks the thread has from earlier runs
  FirstOrder,    \* [Tasks -> their sortOrder]
  Asked,         \* sortOrders the model asks for in a task tool call
  None           \* no transaction, no task, no sortOrder

Open == {"QUEUED", "RUNNING"}
Terminal == {"COMPLETED", "FAILED", "CANCELLED"}

\* The repository operations, by the statements they run.
TaskOps == {"createTaskAndEvent", "updateTaskAndEvent"}
EventOps == {"createRunEvent", "createSourcesAndEvents"} \union TaskOps
LockedOps == EventOps \union {"completeRunIfOpen"}
UpdateOps == {"startRun", "failRunIfOpen", "cancelRunIfOpen"}
Ops == LockedOps \union UpdateOps

ASSUME TxnAssumption ==
  /\ Work \in [Txns -> SUBSET Ops] /\ MaxBatch \in Nat \ {0}
  /\ IsFiniteSet(Tasks) /\ FirstOrder \in [Tasks -> Nat] /\ Asked \subseteq Nat
  /\ \A k, l \in Tasks : FirstOrder[k] = FirstOrder[l] => k = l
  /\ Tasks \intersect Txns = {}
  /\ None \notin Txns \union Tasks \union Nat

\* A task is known by the transaction that creates it, an older one by itself.
TaskIds == Tasks \union Txns

VARIABLES
  \* committed state of the database
  status,        \* [Runs -> status of the committed row]
  rows,          \* committed AgentRunEvent rows: [run, seq, type]
  replies,       \* [Runs -> committed ASSISTANT messages]
  tasks,         \* [TaskIds -> sortOrder of the committed AgentTask row, or None]
  \* locks
  advisory,      \* [Runs -> the transaction holding the run's advisory lock]
  rowOwner,      \* [Runs -> the transaction with an uncommitted update of the row]
  \* the transactions
  pc,            \* [Txns -> the next statement]
  op, run,       \* [Txns -> the operation and the run it works on]
  target,        \* [Txns -> the task it writes]
  order,         \* [Txns -> the sortOrder it gives the task, None for none (yet)]
  next,          \* [Txns -> what nextRunEventSequence returned, 0 before]
  pending        \* [Txns -> its uncommitted event rows]

database == <<status, rows, replies, tasks>>
locks == <<advisory, rowOwner>>
locals == <<op, run, target, order, next, pending>>
vars == <<database, locks, pc, locals>>

Pcs == {"idle", "lock", "update", "sortOrder", "updateTask", "taskKey", "max", "insert",
        "commit", "done", "rolledBack"}

Init ==
  /\ status = [r \in Runs |-> "NONE"]
  /\ rows = {}
  /\ replies = [r \in Runs |-> 0]
  /\ tasks = [k \in TaskIds |-> IF k \in Tasks THEN FirstOrder[k] ELSE None]
  /\ advisory = [r \in Runs |-> None]
  /\ rowOwner = [r \in Runs |-> None]
  /\ pc = [t \in Txns |-> "idle"]
  /\ op = [t \in Txns |-> None]
  /\ run = [t \in Txns |-> None]
  /\ target = [t \in Txns |-> None]
  /\ order = [t \in Txns |-> None]
  /\ next = [t \in Txns |-> 0]
  /\ pending = [t \in Txns |-> {}]

Goto(t, to) == pc' = [pc EXCEPT ![t] = to]

(* The transaction has ended: its local variables are gone.                  *)
End(t, how) ==
  /\ Goto(t, how)
  /\ op' = [op EXCEPT ![t] = None]
  /\ run' = [run EXCEPT ![t] = None]
  /\ target' = [target EXCEPT ![t] = None]
  /\ order' = [order EXCEPT ![t] = None]
  /\ next' = [next EXCEPT ![t] = 0]
  /\ pending' = [pending EXCEPT ![t] = {}]

RowsOf(r) == {e \in rows : e.run = r}
SequencesOf(r) == {e.seq : e \in RowsOf(r)}
SortOrders == {tasks[k] : k \in TaskIds} \ {None}

-----------------------------------------------------------------------------
(* createUserMessageAndRun commits the QUEUED run.                          *)
CreateRun(r) ==
  /\ status[r] = "NONE"
  /\ status' = [status EXCEPT ![r] = "QUEUED"]
  /\ UNCHANGED <<rows, replies, tasks, locks, pc, locals>>

(* What the task tools pass: the id of a committed task, or a new task, and  *)
(* a sortOrder or none; a label and a status change nothing here.            *)
AskForTask(t, o) ==
  \E k \in IF o = "createTaskAndEvent" THEN {t} ELSE {l \in TaskIds : tasks[l] # None},
     q \in Asked \union {None} :
    /\ target' = [target EXCEPT ![t] = k]
    /\ order' = [order EXCEPT ![t] = q]

(* client.$transaction opens; the update operations are one statement each. *)
(* A caller has the run's record, so the run exists.                        *)
Begin(t) ==
  /\ pc[t] = "idle"
  /\ \E o \in Work[t], r \in Runs :
       /\ status[r] # "NONE"
       /\ op' = [op EXCEPT ![t] = o]
       /\ run' = [run EXCEPT ![t] = r]
       /\ Goto(t, IF o \in LockedOps THEN "lock" ELSE "update")
       /\ IF o \in TaskOps THEN AskForTask(t, o) ELSE UNCHANGED <<target, order>>
  /\ UNCHANGED <<database, locks, next, pending>>

FirstStatement(t) ==
  CASE op[t] = "completeRunIfOpen" -> "update"
    [] op[t] = "updateTaskAndEvent" -> "updateTask"
    [] op[t] = "createTaskAndEvent" -> IF order[t] = None THEN "sortOrder" ELSE "taskKey"
    [] OTHER -> "max"

(* Mutant: no advisory lock is taken.                                        *)
LockRunForSequenceFreely(t) ==
  /\ pc[t] = "lock"
  /\ Goto(t, FirstStatement(t))
  /\ UNCHANGED <<database, locks, locals>>

(* SELECT pg_advisory_xact_lock(hashtext(runId)). *)
LockRunForSequence(t) ==
  /\ pc[t] = "lock"
  /\ advisory[run[t]] = None
  /\ advisory' = [advisory EXCEPT ![run[t]] = t]
  /\ Goto(t, FirstStatement(t))
  /\ UNCHANGED <<database, rowOwner, locals>>

(* completeRunIfOpen: UPDATE ... WHERE status IN (QUEUED, RUNNING).  With no *)
(* row matched the transaction ends and the caller gets null.                *)
CompleteUpdate(t) ==
  /\ pc[t] = "update" /\ op[t] = "completeRunIfOpen"
  /\ rowOwner[run[t]] = None
  /\ \/ /\ status[run[t]] \in Open
        /\ rowOwner' = [rowOwner EXCEPT ![run[t]] = t]
        /\ Goto(t, "max")
     \/ /\ status[run[t]] \notin Open
        /\ Goto(t, "commit")
        /\ UNCHANGED rowOwner
  /\ UNCHANGED <<database, advisory, locals>>

(* Mutant: the update has no condition on the status.                        *)
UnconditionalUpdate(t) ==
  /\ pc[t] = "update" /\ op[t] \in UpdateOps
  /\ rowOwner[run[t]] = None
  /\ status' = [status EXCEPT ![run[t]] = CASE op[t] = "startRun" -> "RUNNING"
                                            [] op[t] = "failRunIfOpen" -> "FAILED"
                                            [] op[t] = "cancelRunIfOpen" -> "CANCELLED"]
  /\ End(t, "done")
  /\ UNCHANGED <<rows, replies, tasks, locks>>

(* startRun, failRunIfOpen, cancelRunIfOpen: one conditional UPDATE, which   *)
(* commits by itself.                                                        *)
ConditionalUpdate(t) ==
  LET r == run[t]
      from == IF op[t] = "startRun" THEN {"QUEUED"} ELSE Open
      to == CASE op[t] = "startRun" -> "RUNNING"
              [] op[t] = "failRunIfOpen" -> "FAILED"
              [] op[t] = "cancelRunIfOpen" -> "CANCELLED"
  IN  /\ pc[t] = "update" /\ op[t] \in UpdateOps
      /\ rowOwner[r] = None
      /\ status' = IF status[r] \in from THEN [status EXCEPT ![r] = to] ELSE status
      /\ End(t, "done")
      /\ UNCHANGED <<rows, replies, tasks, locks>>

(* createTaskAndEvent without a sortOrder: MAX(sortOrder) + 1 over the thread*)
(* (the run's lock does not serialise the tasks of two runs of one thread).  *)
ReadSortOrder(t) ==
  /\ pc[t] = "sortOrder"
  /\ order' = [order EXCEPT ![t] = 1 + Max({0} \union SortOrders)]
  /\ Goto(t, "taskKey")
  /\ UNCHANGED <<database, locks, op, run, target, next, pending>>

\* t has an uncommitted version of a committed task, and one of its task's key.
RowTaken(t) ==
  op[t] = "updateTaskAndEvent" /\ pc[t] \in {"taskKey", "max", "insert", "commit"}
KeyTaken(t) == op[t] \in TaskOps /\ pc[t] \in {"max", "insert", "commit"}

\* The keys of (threadId, sortOrder) whose rows depend on how t ends.
KeysInDoubt(t) ==
  (IF RowTaken(t) THEN {tasks[target[t]]} ELSE {}) \union (IF KeyTaken(t) THEN {order[t]} ELSE {})

(* Whom the next statement of t has to wait for.                             *)
WaitsFor(t) ==
  CASE pc[t] = "lock" -> {u \in Txns : advisory[run[t]] = u}
    [] pc[t] = "update" -> {u \in Txns : rowOwner[run[t]] = u}
    [] pc[t] = "updateTask" -> {u \in Txns : RowTaken(u) /\ target[u] = target[t]}
    [] pc[t] = "taskKey" -> {u \in Txns \ {t} : order[t] \in KeysInDoubt(u)}
    [] OTHER -> {}

(* updateTaskAndEvent: UPDATE ... WHERE id takes the task's row ...          *)
UpdateTask(t) ==
  /\ pc[t] = "updateTask" /\ WaitsFor(t) = {}
  /\ Goto(t, IF order[t] = None THEN "max" ELSE "taskKey")
  /\ UNCHANGED <<database, locks, locals>>

(* ... and, like the INSERT of createTaskAndEvent, then the task's key.      *)
TakeTaskKey(t) ==
  /\ pc[t] = "taskKey" /\ WaitsFor(t) = {}
  /\ \A k \in TaskIds \ {target[t]} : tasks[k] # order[t]
  /\ Goto(t, "max")
  /\ UNCHANGED <<database, locks, locals>>

NextRunEventSequence(t) ==
  /\ pc[t] = "max"
  /\ next' = [next EXCEPT ![t] = 1 + Max({0} \union SequencesOf(run[t]))]
  /\ Goto(t, "insert")
  /\ UNCHANGED <<database, locks, op, run, target, order, pending>>

EventTypesOf(t) ==
  CASE op[t] = "completeRunIfOpen" -> {<<"message.completed", "run.completed">>}
    [] op[t] \in TaskOps -> {<<"task.updated">>}
    [] op[t] = "createSourcesAndEvents" -> {[i \in 1..n |-> "source.added"] : n \in 1..MaxBatch}
    [] OTHER -> {<<"tool.started">>}

(* The event rows, numbered consecutively from the sequence just read.       *)
Block(r, first, types) ==
  {[run |-> r, seq |-> first + i - 1, type |-> types[i]] : i \in DOMAIN types}

InsertEvents(t) ==
  /\ pc[t] = "insert"
  /\ \E types \in EventTypesOf(t) :
       pending' = [pending EXCEPT ![t] = Block(run[t], next[t], types)]
  /\ Goto(t, "commit")
  /\ UNCHANGED <<database, locks, op, run, target, order, next>>

(* Mutant: the advisory lock is one of the session, not of the transaction.  *)
ReleaseRow(t) ==
  /\ rowOwner' = [r \in Runs |-> IF rowOwner[r] = t THEN None ELSE rowOwner[r]]
  /\ UNCHANGED advisory

Release(t) ==
  /\ advisory' = [r \in Runs |-> IF advisory[r] = t THEN None ELSE advisory[r]]
  /\ rowOwner' = [r \in Runs |-> IF rowOwner[r] = t THEN None ELSE rowOwner[r]]

(* COMMIT: every row of the transaction becomes visible and its locks go.    *)
Commit(t) ==
  /\ pc[t] = "commit"
  /\ rows' = rows \union pending[t]
  /\ tasks' = IF KeyTaken(t) /\ order[t] # None
              THEN [tasks EXCEPT ![target[t]] = order[t]] ELSE tasks
  /\ IF rowOwner[run[t]] = t
       THEN /\ status' = [status EXCEPT ![run[t]] = "COMPLETED"]
            /\ replies' = [replies EXCEPT ![run[t]] = @ + 1]
       ELSE UNCHANGED <<status, replies>>
  /\ Release(t)
  /\ End(t, "done")

(* A unique violation on (threadId, sortOrder), a deadlock, a lost connection*)
(* or the transaction timeout: nothing of the transaction remains.           *)
Rollback(t) ==
  /\ pc[t] \notin {"idle", "done", "rolledBack"}
  /\ Release(t)
  /\ End(t, "rolledBack")
  /\ UNCHANGED database

Finished == \A t \in Txns : pc[t] \in {"done", "rolledBack"}
Terminating == Finished /\ UNCHANGED vars

Step(t) ==
  \/ Begin(t) \/ LockRunForSequence(t)
  \/ CompleteUpdate(t) \/ ConditionalUpdate(t)
  \/ ReadSortOrder(t) \/ UpdateTask(t) \/ TakeTaskKey(t)
  \/ NextRunEventSequence(t) \/ InsertEvents(t) \/ Commit(t)

Next ==
  \/ \E r \in Runs : CreateRun(r)
  \/ \E t \in Txns : Step(t) \/ Rollback(t)
  \/ Terminating

Spec == Init /\ [][Next]_vars

(* The key is another committed task's, and no transaction is changing that. *)
UniqueViolation(t) ==
  /\ pc[t] = "taskKey" /\ WaitsFor(t) = {}
  /\ \E k \in TaskIds \ {target[t]} : tasks[k] = order[t]

(* t is in a cycle of waits: each of C waits for the next of them.           *)
Deadlocked(t) ==
  /\ WaitsFor(t) # {}
  /\ \E C \in SUBSET {u \in Txns : WaitsFor(u) # {}} : t \in C /\ \E waits \in [C -> C] :
       {waits[u] : u \in C} = C /\ \A u \in C : waits[u] \in WaitsFor(u)

(* A statement that can run is run, and PostgreSQL rolls a transaction back  *)
(* for a unique violation and, after deadlock_timeout, for a deadlock.       *)
FairSpec ==
  /\ Spec
  /\ \A t \in Txns :
       WF_vars(Step(t)) /\ WF_vars((UniqueViolation(t) \/ Deadlocked(t)) /\ Rollback(t))

-----------------------------------------------------------------------------
EventTypes ==
  {"message.completed", "run.completed", "task.updated", "source.added", "tool.started"}
Events == [run : Runs, seq : Nat \ {0}, type : EventTypes]

TypeOK ==
  /\ status \in [Runs -> {"NONE"} \union Open \union Terminal]
  /\ rows \subseteq Events
  /\ replies \in [Runs -> Nat]
  /\ tasks \in [TaskIds -> Nat \union {None}]
  /\ advisory \in [Runs -> Txns \union {None}]
  /\ rowOwner \in [Runs -> Txns \union {None}]
  /\ pc \in [Txns -> Pcs]
  /\ op \in [Txns -> Ops \union {None}]
  /\ run \in [Txns -> Runs \union {None}]
  /\ target \in [Txns -> TaskIds \union {None}]
  /\ order \in [Txns -> Nat \union {None}]
  /\ next \in [Txns -> Nat]
  /\ pending \in [Txns -> SUBSET Events]

(* agentRepository.ts:64-77 — the committed events of a run are numbered 1,  *)
(* 2, 3, ... without a gap, and no two of them share a number, whatever the  *)
(* interleaving of the transactions that write them.                         *)
SequencesGapFree ==
  /\ \A e \in rows : e.seq >= 1 /\ 1..e.seq \subseteq SequencesOf(e.run)
  /\ \A e, f \in rows : e.run = f.run /\ e.seq = f.seq => e = f

(* agentRepository.ts:652-719 — the reply of a run is committed exactly when *)
(* the run is COMPLETED, and its two events are neighbours in the log: no    *)
(* event of another transaction is numbered between them.                    *)
ReplyIsOneBlock ==
  \A r \in Runs :
    LET seqs(type) == {e.seq : e \in {x \in RowsOf(r) : x.type = type}}
    IN  IF status[r] = "COMPLETED"
        THEN /\ replies[r] = 1
             /\ \E k \in SequencesOf(r) : /\ seqs("message.completed") = {k}
                                         /\ seqs("run.completed") = {k + 1}
        ELSE /\ replies[r] = 0
             /\ seqs("message.completed") = {} /\ seqs("run.completed") = {}

(* Both hold of every committed state, and every variable has its type.      *)
LogInvariant == TypeOK /\ SequencesGapFree /\ ReplyIsOneBlock

(* agentRepository.ts:515-605 — every transaction ends: none waits forever   *)
(* for the run's lock, the run's row, a task's row or a task's key.  Two runs*)
(* of a thread that exchange the places of two tasks do wait for each other, *)
(* and end because PostgreSQL's deadlock detection is fair: the advisory     *)
(* locks and the order of the other statements make no cycle of their own.   *)
EveryTransactionEnds ==
  \A t \in Txns : (pc[t] # "idle") ~> (pc[t] \in {"done", "rolledBack"})

(* The committed state is the abstract log: each transaction takes effect in *)
(* one step, at its commit, or not at all.                                   *)
LogOf(r) == [i \in 1..Max({0} \union SequencesOf(r)) |->
               (CHOOSE e \in RowsOf(r) : e.seq = i).type]

Log == INSTANCE RunLog WITH log <- [r \in Runs |-> LogOf(r)]
ImplementsRunLog == Log!Spec
=============================================================================
