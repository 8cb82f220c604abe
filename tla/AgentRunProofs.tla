--------------------------- MODULE AgentRunProofs ---------------------------
(***************************************************************************)
(* Theorems about AgentRun, for any number of runs and cancel requests and *)
(* any bounds.                                                             *)
(***************************************************************************)
EXTENDS AgentRun, SequenceTheorems, FiniteSetTheorems, TLAPS

(* Setting the last element of a sequence, as updateToolCall does to the    *)
(* newest row, leaves a sequence.                                           *)
LEMMA ReplaceLast ==
  ASSUME NEW S, NEW s \in Seq(S), NEW x \in S, s # <<>>
  PROVE  [s EXCEPT ![Len(s)] = x] \in Seq(S)
<1>1. Len(s) \in 1..Len(s)
  BY EmptySeq, LenProperties
<1> QED
  BY <1>1, ExceptSeq

LEMMA LastRowType ==
  ASSUME TypeOK, NEW r \in Runs, NEW s \in RowStatuses, LastRow(r, s)
  PROVE  rows' \in [Runs -> Seq(RowStatuses)]
<1>1. rows \in [Runs -> Seq(RowStatuses)] /\ rows[r] \in Seq(RowStatuses)
  BY DEF TypeOK
<1>2. CASE rows[r] = <<>>
  BY <1>1, <1>2 DEF LastRow
<1>3. CASE rows[r] # <<>>
  <2>1. [rows[r] EXCEPT ![Len(rows[r])] = s] \in Seq(RowStatuses)
    BY <1>1, <1>3, ReplaceLast
  <2>2. rows' = [rows EXCEPT ![r] = [rows[r] EXCEPT ![Len(rows[r])] = s]]
    BY <1>1, <1>3 DEF LastRow
  <2> QED
    BY <1>1, <2>1, <2>2
<1> QED
  BY <1>2, <1>3

LEMMA RecordType ==
  ASSUME TypeOK, NEW r \in Runs, NEW type \in EventTypes, Record(r, type)
  PROVE  log' \in [Runs -> Seq(EventTypes)]
BY DEF TypeOK, Record

(* The effect of a call of a Promise.all is well typed.                     *)
LEMMA EffectType ==
  ASSUME TypeOK, NEW r \in Runs, NEW call \in Calls, Effect(r, call)
  PROVE  /\ log' \in [Runs -> Seq(EventTypes)]
         /\ rows' \in [Runs -> Seq(RowStatuses)]
<1>1. /\ log \in [Runs -> Seq(EventTypes)] /\ rows \in [Runs -> Seq(RowStatuses)]
      /\ RowStatuses = {"RUNNING", "COMPLETED", "FAILED"}
      /\ {"tool.started", "tool.completed", "tool.failed"} \subseteq EventTypes
  BY DEF TypeOK, RowStatuses, EventTypes
<1>2. CASE UNCHANGED log /\ rows' = [rows EXCEPT ![r] = Append(@, "RUNNING")]
  BY <1>1, <1>2
<1>3. CASE UNCHANGED log /\ (LastRow(r, "COMPLETED") \/ LastRow(r, "FAILED"))
  BY <1>1, <1>3, LastRowType
<1>4. CASE UNCHANGED rows /\ (\/ Record(r, "tool.started") \/ Record(r, "tool.completed")
                              \/ Record(r, "tool.failed"))
  BY <1>1, <1>4, RecordType
<1> QED
  BY <1>2, <1>3, <1>4 DEF Effect

-----------------------------------------------------------------------------
(* The control part of the state, which every way to go on keeps well typed. *)
ControlOK ==
  /\ pc \in [Runs -> Pcs]
  /\ layer \in [Runs -> Layers]
  /\ registered \in [Runs -> BOOLEAN]

LEMMA AdvanceType ==
  ASSUME TypeOK, NEW r \in Runs, NEW to \in Pcs, Advance(r, to) PROVE ControlOK'
BY DEF TypeOK, ControlOK, Advance, Goto

LEMMA EndType ==
  ASSUME TypeOK, NEW r \in Runs, End(r) PROVE ControlOK'
BY DEF TypeOK, ControlOK, End, Goto, Pcs

LEMMA CallFailRunType ==
  ASSUME TypeOK, NEW r \in Runs, NEW l \in Layers, CallFailRun(r, l) PROVE ControlOK'
BY DEF TypeOK, ControlOK, CallFailRun, Goto, Pcs

LEMMA CatchType ==
  ASSUME TypeOK, NEW r \in Runs, NEW l \in Layers, Catch(r, l) PROVE ControlOK'
BY EndType, CallFailRunType DEF Catch

LEMMA RethrowType ==
  ASSUME TypeOK, NEW r \in Runs, Rethrow(r) PROVE ControlOK'
<1>1. {"outer", "background"} \subseteq Layers
  BY DEF Layers
<1> QED
  BY <1>1, EndType, CatchType DEF Rethrow

LEMMA FaultType ==
  ASSUME TypeOK, NoFault \/ Fault PROVE faults' \in 0..MaxFaults
BY ConstantsAssumption DEF TypeOK, NoFault, Fault

LEMMA StartType ==
  ASSUME TypeOK, NEW r \in Runs, StartStatus(r) PROVE status' \in [Runs -> Statuses]
BY DEF TypeOK, StartStatus, Statuses, Open

LEMMA CompleteType ==
  ASSUME TypeOK, NEW r \in Runs, CompleteRunIfOpen(r)
  PROVE  /\ status' \in [Runs -> Statuses] /\ log' \in [Runs -> Seq(EventTypes)]
         /\ replies' \in [Runs -> Nat]
<1>1. CompletionEvents \in Seq(EventTypes)
  BY DEF CompletionEvents, EventTypes
<1>2. log[r] \o CompletionEvents \in Seq(EventTypes)
  BY <1>1, ConcatProperties DEF TypeOK
<1> QED
  BY <1>2 DEF TypeOK, CompleteRunIfOpen, Statuses, Terminal

LEMMA RecordThenType ==
  ASSUME TypeOK, NEW r \in Runs, NEW type \in EventTypes, NEW to \in Pcs, NEW l \in Layers,
         RecordThen(r, type, to, l)
  PROVE  ControlOK' /\ log' \in [Runs -> Seq(EventTypes)] /\ faults' \in 0..MaxFaults
<1>1. log \in [Runs -> Seq(EventTypes)]
  BY DEF TypeOK
<1> QED
  BY <1>1, AdvanceType, CatchType, RecordType, FaultType DEF RecordThen

(* Each action keeps the types.                                             *)
LEMMA TypeStep == TypeOK /\ [Next]_vars => TypeOK'
<1> SUFFICES ASSUME TypeOK, [Next]_vars PROVE TypeOK'
  OBVIOUS
<1> USE DEF database, tools, process, requests, bounds
<1>1. ASSUME NEW r \in Runs, CreateMessage(r) PROVE TypeOK'
  <2>1. faults' \in 0..MaxFaults
    BY <1>1, FaultType DEF CreateMessage
  <2> QED
    BY <1>1, <2>1 DEF TypeOK, CreateMessage, Goto, Pcs, Statuses, Open
<1>2. ASSUME NEW r \in Runs, Launch(r) PROVE TypeOK'
  BY <1>2 DEF TypeOK, Launch, Goto, Pcs
<1>3. ASSUME NEW r \in Runs, OrchestratorStart(r) PROVE TypeOK'
  <2>1. ControlOK'
    BY <1>3, AdvanceType, CatchType DEF OrchestratorStart, Pcs, Layers
  <2>2. status' \in [Runs -> Statuses]
    BY <1>3, StartType DEF OrchestratorStart, TypeOK
  <2>3. faults' \in 0..MaxFaults
    BY <1>3, FaultType DEF OrchestratorStart
  <2> QED
    BY <1>3, <2>1, <2>2, <2>3 DEF TypeOK, ControlOK, OrchestratorStart
<1>4. ASSUME NEW r \in Runs, Announce(r) PROVE TypeOK'
  <2>1. ControlOK' /\ log' \in [Runs -> Seq(EventTypes)]
      /\ faults' \in 0..MaxFaults
    BY <1>4, RecordThenType DEF Announce, Pcs, Layers, EventTypes
  <2> QED
    BY <1>4, <2>1 DEF TypeOK, ControlOK, Announce
<1>5. ASSUME NEW r \in Runs, Delta(r) PROVE TypeOK'
  <2>1. ControlOK'
    BY <1>5, AdvanceType, CallFailRunType DEF Delta, Pcs, Layers
  <2>2. log' \in [Runs -> Seq(EventTypes)]
    BY <1>5, RecordType DEF Delta, TypeOK, EventTypes
  <2>3. faults' \in 0..MaxFaults
    BY <1>5, FaultType DEF Delta
  <2>4. deltas' \in [Runs -> Nat]
    BY <1>5 DEF Delta, TypeOK
  <2> QED
    BY <1>5, <2>1, <2>2, <2>3, <2>4 DEF TypeOK, ControlOK, Delta
<1>6. ASSUME NEW r \in Runs, ModelAnswers(r) PROVE TypeOK'
  <2>1. ControlOK'
    BY <1>6, AdvanceType, CallFailRunType DEF ModelAnswers, Pcs, Layers
  <2> QED
    BY <1>6, <2>1 DEF TypeOK, ControlOK, ModelAnswers
<1>7. ASSUME NEW r \in Runs, CheckCall(r) PROVE TypeOK'
  <2>1. ControlOK'
    BY <1>7, AdvanceType, CatchType DEF CheckCall, Pcs, Layers
  <2> QED
    BY <1>7, <2>1 DEF TypeOK, ControlOK, CheckCall
<1>8. ASSUME NEW r \in Runs, OpenCall(r) PROVE TypeOK'
  <2>1. ControlOK'
    BY <1>8, AdvanceType DEF OpenCall, Pcs
  <2>2. awaiting' \in [Runs -> SUBSET Calls]
    BY <1>8 DEF OpenCall, TypeOK, Calls
  <2> QED
    BY <1>8, <2>1, <2>2 DEF TypeOK, ControlOK, OpenCall
<1>9. ASSUME NEW r \in Runs, Opened(r) PROVE TypeOK'
  <2>1. ControlOK'
    BY <1>9, AdvanceType DEF Opened, Pcs
  <2>2. used' \in [Runs -> Nat] /\ late' \in [Runs -> Nat]
    BY <1>9 DEF Opened, TypeOK
  <2> QED
    BY <1>9, <2>1, <2>2 DEF TypeOK, ControlOK, Opened
<1>10. ASSUME NEW r \in Runs, ToolRecords(r) PROVE TypeOK'
  <2>1. log' \in [Runs -> Seq(EventTypes)]
    BY <1>10, RecordType DEF ToolRecords, EventTypes
  <2>2. deltas' \in [Runs -> Nat]
    BY <1>10 DEF ToolRecords, TypeOK
  <2> QED
    BY <1>10, <2>1, <2>2 DEF TypeOK, ControlOK, ToolRecords
<1>11. ASSUME NEW r \in Runs, Executed(r) PROVE TypeOK'
  <2>1. ControlOK'
    BY <1>11, AdvanceType DEF Executed, Pcs
  <2>2. outcome' \in [Runs -> Outcomes] /\ awaiting' \in [Runs -> SUBSET Calls]
    BY <1>11 DEF Executed, TypeOK, Calls
  <2> QED
    BY <1>11, <2>1, <2>2 DEF TypeOK, ControlOK, Executed
<1>12. ASSUME NEW r \in Runs, Closed(r) PROVE TypeOK'
  <2>1. ControlOK'
    BY <1>12, AdvanceType, CatchType DEF Closed, Pcs, Layers
  <2>2. /\ unknown' \in [Runs -> Nat] /\ asked' \in [Runs -> BOOLEAN]
        /\ stopped' \in [Runs -> BOOLEAN]
    BY <1>12 DEF Closed, TypeOK
  <2> QED
    BY <1>12, <2>1, <2>2 DEF TypeOK, ControlOK, Closed
<1>13. ASSUME NEW r \in Runs, Continue(r) PROVE TypeOK'
  <2>1. ControlOK'
    BY <1>13, AdvanceType, CatchType DEF Continue, Pcs, Layers
  <2> QED
    BY <1>13, <2>1 DEF TypeOK, ControlOK, Continue
<1>14. ASSUME NEW r \in Runs, Finish(r) PROVE TypeOK'
  <2>1. ControlOK'
    BY <1>14, AdvanceType DEF Finish, Pcs
  <2> QED
    BY <1>14, <2>1 DEF TypeOK, ControlOK, Finish
<1>15. ASSUME NEW r \in Runs, Synthesize(r) PROVE TypeOK'
  <2>1. ControlOK'
    BY <1>15, AdvanceType DEF Synthesize, Pcs
  <2>2. log' \in [Runs -> Seq(EventTypes)]
    BY <1>15, RecordType DEF Synthesize, TypeOK, EventTypes
  <2>3. faults' \in 0..MaxFaults
    BY <1>15, FaultType DEF Synthesize
  <2> QED
    BY <1>15, <2>1, <2>2, <2>3 DEF TypeOK, ControlOK, Synthesize
<1>16. ASSUME NEW r \in Runs, Reply(r) PROVE TypeOK'
  <2>1. ControlOK' /\ log' \in [Runs -> Seq(EventTypes)]
      /\ faults' \in 0..MaxFaults
    BY <1>16, RecordThenType DEF Reply, Pcs, Layers, EventTypes
  <2> QED
    BY <1>16, <2>1 DEF TypeOK, ControlOK, Reply
<1>17. ASSUME NEW r \in Runs, CompleteRun(r) PROVE TypeOK'
  <2>1. ControlOK'
    BY <1>17, EndType, CatchType DEF CompleteRun, Layers
  <2>2. /\ status' \in [Runs -> Statuses] /\ log' \in [Runs -> Seq(EventTypes)]
        /\ replies' \in [Runs -> Nat]
    BY <1>17, CompleteType DEF CompleteRun, TypeOK
  <2>3. faults' \in 0..MaxFaults
    BY <1>17, FaultType DEF CompleteRun
  <2> QED
    BY <1>17, <2>1, <2>2, <2>3 DEF TypeOK, ControlOK, CompleteRun
<1>18. ASSUME NEW r \in Runs, FailRun(r) PROVE TypeOK'
  <2>1. ControlOK'
    BY <1>18, AdvanceType, RethrowType DEF FailRun, Pcs
  <2>2. status' \in [Runs -> Statuses]
    BY <1>18 DEF FailRun, FailRunIfOpen, TypeOK, Statuses, Terminal
  <2>3. faults' \in 0..MaxFaults
    BY <1>18, FaultType DEF FailRun
  <2> QED
    BY <1>18, <2>1, <2>2, <2>3 DEF TypeOK, ControlOK, FailRun
<1>19. ASSUME NEW r \in Runs, RecordFailure(r) PROVE TypeOK'
  <2>1. ControlOK'
    BY <1>19, EndType, RethrowType DEF RecordFailure
  <2>2. log' \in [Runs -> Seq(EventTypes)]
    BY <1>19, RecordType DEF RecordFailure, TypeOK, EventTypes
  <2>3. faults' \in 0..MaxFaults
    BY <1>19, FaultType DEF RecordFailure
  <2> QED
    BY <1>19, <2>1, <2>2, <2>3 DEF TypeOK, ControlOK, RecordFailure
<1>20. ASSUME NEW r \in Runs, Settle(r) PROVE TypeOK'
  <2>1. PICK call \in awaiting[r] :
          /\ awaiting' = [awaiting EXCEPT ![r] = @ \ {call}]
          /\ Effect(r, call)
          /\ UNCHANGED <<status, replies, pc, tools, layer, process, requests, bounds>>
    BY <1>20 DEF Settle
  <2>2. call \in Calls /\ awaiting' \in [Runs -> SUBSET Calls]
    BY <2>1 DEF TypeOK
  <2>3. log' \in [Runs -> Seq(EventTypes)] /\ rows' \in [Runs -> Seq(RowStatuses)]
    BY <2>1, <2>2, EffectType
  <2> QED
    BY <2>1, <2>2, <2>3 DEF TypeOK
<1>21. ASSUME NEW r \in Runs, Reject(r) PROVE TypeOK'
  <2>1. PICK call \in awaiting[r] : Reject(r)!(call)
    BY <1>21 DEF Reject
  <2>2. call \in Calls
    BY DEF TypeOK
  <2>3. log' \in [Runs -> Seq(EventTypes)] /\ rows' \in [Runs -> Seq(RowStatuses)]
    BY <2>1, <2>2, EffectType DEF TypeOK
  <2>4. /\ \/ awaiting' = [awaiting EXCEPT ![r] = @ \ {call}]
           \/ awaiting' = [awaiting EXCEPT ![r] = (@ \ {call}) \union ClosingFailed]
        /\ outcome' = outcome \/ outcome' = [outcome EXCEPT ![r] = "fatal"]
    BY <2>1
  <2>5. awaiting' \in [Runs -> SUBSET Calls] /\ outcome' \in [Runs -> Outcomes]
    <3>1. /\ awaiting[r] \ {call} \in SUBSET Calls
          /\ (awaiting[r] \ {call}) \union ClosingFailed \in SUBSET Calls
      BY DEF TypeOK, Calls
    <3>2. awaiting' \in [Runs -> SUBSET Calls]
      BY <2>4, <3>1 DEF TypeOK
    <3>3. outcome' \in [Runs -> Outcomes]
      BY <2>4 DEF TypeOK, Outcomes
    <3> QED
      BY <3>2, <3>3
  <2>6. ControlOK'
    BY <2>1, CatchType DEF TypeOK, ControlOK, Layers
  <2>7. faults' \in 0..MaxFaults
    BY <2>1, FaultType
  <2> QED
    BY <2>1, <2>3, <2>5, <2>6, <2>7 DEF TypeOK, ControlOK
<1>22. ASSUME NEW r \in Runs, StreamStart(r) PROVE TypeOK'
  <2>1. status' \in [Runs -> Statuses]
    BY <1>22, StartType DEF StreamStart
  <2> QED
    BY <1>22, <2>1 DEF TypeOK, ControlOK, StreamStart
<1>23. ASSUME NEW c \in Cancels, CancelRun(c) PROVE TypeOK'
  <2>1. status' \in [Runs -> Statuses]
    BY <1>23 DEF CancelRun, TypeOK, Statuses, Terminal
  <2>2. faults' \in 0..MaxFaults
    BY <1>23, FaultType DEF CancelRun
  <2>3. cpc' \in [Cancels -> {"idle", "abort", "done"}]
    BY <1>23 DEF CancelRun, TypeOK
  <2> QED
    BY <1>23, <2>1, <2>2, <2>3 DEF TypeOK, ControlOK, CancelRun
<1>24. ASSUME NEW c \in Cancels, CancelAgentRun(c) PROVE TypeOK'
  <2>1. /\ cpc' \in [Cancels -> {"idle", "abort", "done"}]
        /\ aborted' \in [Runs -> BOOLEAN] /\ registered' \in [Runs -> BOOLEAN]
    BY <1>24 DEF CancelAgentRun, TypeOK
  <2> QED
    BY <1>24, <2>1 DEF TypeOK, ControlOK, CancelAgentRun
<1>25. CASE Crash
  <2>1. pc' \in [Runs -> Pcs] /\ cpc' \in [Cancels -> {"idle", "abort", "done"}]
    BY <1>25 DEF Crash, TypeOK, Pcs
  <2>2. crashes' \in 0..MaxCrashes
    BY <1>25, ConstantsAssumption DEF Crash, TypeOK
  <2> QED
    BY <1>25, <2>1, <2>2 DEF TypeOK, ControlOK, Crash
<1>26. CASE UNCHANGED vars
  BY <1>26 DEF TypeOK, vars
<1> QED
  BY <1>1, <1>2, <1>3, <1>4, <1>5, <1>6, <1>7, <1>8, <1>9, <1>10, <1>11,
     <1>12, <1>13, <1>14, <1>15, <1>16, <1>17, <1>18, <1>19, <1>20, <1>21,
     <1>22, <1>23, <1>24, <1>25, <1>26 DEF Next, Orchestrate, Terminating

(* Every variable of AgentRun stays in its type, for any number of runs and  *)
(* cancel requests and any bounds.                                           *)
THEOREM TypeInvariant == Spec => []TypeOK
<1>1. Init => TypeOK
  BY ConstantsAssumption DEF Init, TypeOK, Statuses, Open, Terminal, Pcs, Outcomes, Layers
<1> QED
  BY <1>1, TypeStep, PTL DEF Spec

-----------------------------------------------------------------------------
(* The inductive invariant behind AbortedIsClosed and EndedIsClosed.         *)

(* A run has a status, and calls under way, only once its message is in.     *)
Begun(r) ==
  /\ pc[r] = "none" => status[r] = "NONE"
  /\ status[r] = "NONE" => pc[r] \in {"none", "refused"}
  /\ pc[r] \in {"none", "refused"} => awaiting[r] = {}

(* The signal is raised for a closed run only ...                            *)
AbortOfClosed(r) == aborted[r] => status[r] \in Terminal

(* ... because a cancel request that is about to raise it has closed the run.*)
CancelClosedFirst(c) == cpc[c] = "abort" => status[target[c]] \in Terminal

(* On the way through failRun: only a database fault brings an open run to   *)
(* an outer failRun, and only a second one lets the task return without      *)
(* closing it.                                                               *)
FailurePath(r) ==
  /\ pc[r] = "failing" /\ layer[r] # "inner" /\ status[r] \in Open => faults >= 1
  /\ pc[r] = "failEvent" => status[r] \in Terminal
  /\ pc[r] = "ended" /\ faults <= 1 => status[r] \in Terminal

RunInv(r) == Begun(r) /\ AbortOfClosed(r) /\ FailurePath(r)

ClosedInv ==
  /\ \A r \in Runs : RunInv(r)
  /\ \A c \in Cancels : CancelClosedFirst(c)

(* What the proofs below use of the types.                                   *)
LEMMA ControlTypes ==
  ASSUME TypeOK
  PROVE  /\ status \in [Runs -> Statuses] /\ pc \in [Runs -> Pcs]
         /\ awaiting \in [Runs -> SUBSET Calls] /\ layer \in [Runs -> Layers]
         /\ aborted \in [Runs -> BOOLEAN] /\ faults \in Nat
         /\ cpc \in [Cancels -> {"idle", "abort", "done"}] /\ target \in [Cancels -> Runs]
BY ConstantsAssumption DEF TypeOK

LEMMA ClosedStep == TypeOK /\ ClosedInv /\ [Next]_vars => ClosedInv'
<1> SUFFICES ASSUME TypeOK, ClosedInv, [Next]_vars PROVE ClosedInv'
  OBVIOUS
<1> USE ControlTypes
<1> USE DEF ClosedInv, RunInv, Begun, AbortOfClosed, CancelClosedFirst, FailurePath,
            Statuses, Open, Terminal, Goto, NoFault, Fault, Advance, Catch, CallFailRun, End, Rethrow,
            database, tools, process, requests, bounds
<1>1. ASSUME NEW r \in Runs, CreateMessage(r) PROVE ClosedInv'
  BY <1>1 DEF CreateMessage
<1>2. ASSUME NEW r \in Runs, Launch(r) PROVE ClosedInv'
  BY <1>2 DEF Launch
<1>3. ASSUME NEW r \in Runs, OrchestratorStart(r) PROVE ClosedInv'
  BY <1>3 DEF OrchestratorStart, StartStatus
<1>4. ASSUME NEW r \in Runs, Announce(r) PROVE ClosedInv'
  BY <1>4 DEF Announce, RecordThen
<1>5. ASSUME NEW r \in Runs, Delta(r) PROVE ClosedInv'
  BY <1>5 DEF Delta
<1>6. ASSUME NEW r \in Runs, ModelAnswers(r) PROVE ClosedInv'
  BY <1>6 DEF ModelAnswers
<1>7. ASSUME NEW r \in Runs, CheckCall(r) PROVE ClosedInv'
  BY <1>7 DEF CheckCall
<1>8. ASSUME NEW r \in Runs, OpenCall(r) PROVE ClosedInv'
  BY <1>8 DEF OpenCall
<1>9. ASSUME NEW r \in Runs, Opened(r) PROVE ClosedInv'
  BY <1>9 DEF Opened
<1>10. ASSUME NEW r \in Runs, ToolRecords(r) PROVE ClosedInv'
  BY <1>10 DEF ToolRecords
<1>11. ASSUME NEW r \in Runs, Executed(r) PROVE ClosedInv'
  BY <1>11 DEF Executed
<1>12. ASSUME NEW r \in Runs, Closed(r) PROVE ClosedInv'
  BY <1>12 DEF Closed
<1>13. ASSUME NEW r \in Runs, Continue(r) PROVE ClosedInv'
  BY <1>13 DEF Continue
<1>14. ASSUME NEW r \in Runs, Finish(r) PROVE ClosedInv'
  BY <1>14 DEF Finish
<1>15. ASSUME NEW r \in Runs, Synthesize(r) PROVE ClosedInv'
  BY <1>15 DEF Synthesize
<1>16. ASSUME NEW r \in Runs, Reply(r) PROVE ClosedInv'
  BY <1>16 DEF Reply, RecordThen
<1>17. ASSUME NEW r \in Runs, CompleteRun(r) PROVE ClosedInv'
  BY <1>17 DEF CompleteRun, CompleteRunIfOpen
<1>18. ASSUME NEW r \in Runs, FailRun(r) PROVE ClosedInv'
  BY <1>18 DEF FailRun, FailRunIfOpen
<1>19. ASSUME NEW r \in Runs, RecordFailure(r) PROVE ClosedInv'
  BY <1>19 DEF RecordFailure
<1>20. ASSUME NEW r \in Runs, Settle(r) PROVE ClosedInv'
  BY <1>20 DEF Settle
<1>21. ASSUME NEW r \in Runs, Reject(r) PROVE ClosedInv'
  BY <1>21 DEF Reject
<1>22. ASSUME NEW r \in Runs, StreamStart(r) PROVE ClosedInv'
  BY <1>22 DEF StreamStart, StartStatus
<1>23. ASSUME NEW c \in Cancels, CancelRun(c) PROVE ClosedInv'
  BY <1>23 DEF CancelRun
<1>24. ASSUME NEW c \in Cancels, CancelAgentRun(c) PROVE ClosedInv'
  BY <1>24 DEF CancelAgentRun
<1>25. CASE Crash
  BY <1>25 DEF Crash
<1>26. CASE UNCHANGED vars
  BY <1>26 DEF vars
<1> QED
  BY <1>1, <1>2, <1>3, <1>4, <1>5, <1>6, <1>7, <1>8, <1>9, <1>10, <1>11,
     <1>12, <1>13, <1>14, <1>15, <1>16, <1>17, <1>18, <1>19, <1>20, <1>21,
     <1>22, <1>23, <1>24, <1>25, <1>26 DEF Next, Orchestrate, Terminating

LEMMA ClosedInvariant == Spec => [](TypeOK /\ ClosedInv)
<1>1. Init => ClosedInv
  BY DEF Init, ClosedInv, RunInv, Begun, AbortOfClosed, CancelClosedFirst, FailurePath
<1> QED
  BY <1>1, TypeInvariant, ClosedStep, PTL DEF Spec

(* The abort signal is raised only for a run that the database has closed, so *)
(* the catch blocks that leave an aborted run alone leave none open.          *)
THEOREM AbortTheorem == Spec => []AbortedIsClosed
<1>1. ClosedInv => AbortedIsClosed
  BY DEF ClosedInv, RunInv, AbortOfClosed, AbortedIsClosed
<1> QED
  BY <1>1, ClosedInvariant, PTL

(* A background task that returns has closed its run, if at most one database *)
(* call of the server failed.                                                 *)
THEOREM EndedTheorem == Spec => []EndedIsClosed
<1>1. ClosedInv => EndedIsClosed
  BY DEF ClosedInv, RunInv, FailurePath, EndedIsClosed
<1> QED
  BY <1>1, ClosedInvariant, PTL

-----------------------------------------------------------------------------
(* The inductive invariant behind AtMostOneLateTool: once a tool has run with *)
(* the signal raised, the signal stays and the run is past the point where it *)
(* could open another call.                                                   *)
LateInv ==
  \A r \in Runs :
    \/ late[r] = 0
    \/ /\ late[r] = 1
       /\ aborted[r] \/ pc[r] \in {"ended", "lost"}
       /\ pc[r] \notin {"none", "refused", "created", "open", "opening"}

LEMMA LateTypes ==
  ASSUME TypeOK
  PROVE  pc \in [Runs -> Pcs] /\ aborted \in [Runs -> BOOLEAN] /\ late \in [Runs -> Nat]
BY DEF TypeOK

(* Only inside a Promise.all is a call awaited.                              *)
LEMMA AwaitedAt ==
  ASSUME NEW r \in Runs
  PROVE  Awaited(r) # {} => pc[r] \in {"opening", "closing"}
BY DEF Awaited

LEMMA LateStep == TypeOK /\ LateInv /\ [Next]_vars => LateInv'
<1> SUFFICES ASSUME TypeOK, LateInv, [Next]_vars PROVE LateInv'
  OBVIOUS
<1> USE LateTypes
<1> USE DEF LateInv, Goto, Advance, Catch, CallFailRun, End, Rethrow,
            database, tools, process, requests, bounds
<1>1. ASSUME NEW r \in Runs, CreateMessage(r) PROVE LateInv'
  BY <1>1 DEF CreateMessage
<1>2. ASSUME NEW r \in Runs, Launch(r) PROVE LateInv'
  BY <1>2 DEF Launch
<1>3. ASSUME NEW r \in Runs, OrchestratorStart(r) PROVE LateInv'
  BY <1>3 DEF OrchestratorStart
<1>4. ASSUME NEW r \in Runs, Announce(r) PROVE LateInv'
  BY <1>4 DEF Announce, RecordThen
<1>5. ASSUME NEW r \in Runs, Delta(r) PROVE LateInv'
  BY <1>5 DEF Delta
<1>6. ASSUME NEW r \in Runs, ModelAnswers(r) PROVE LateInv'
  BY <1>6 DEF ModelAnswers
<1>7. ASSUME NEW r \in Runs, CheckCall(r) PROVE LateInv'
  BY <1>7 DEF CheckCall
<1>8. ASSUME NEW r \in Runs, OpenCall(r) PROVE LateInv'
  BY <1>8 DEF OpenCall
<1>9. ASSUME NEW r \in Runs, Opened(r) PROVE LateInv'
  BY <1>9 DEF Opened
<1>10. ASSUME NEW r \in Runs, ToolRecords(r) PROVE LateInv'
  BY <1>10 DEF ToolRecords
<1>11. ASSUME NEW r \in Runs, Executed(r) PROVE LateInv'
  BY <1>11 DEF Executed
<1>12. ASSUME NEW r \in Runs, Closed(r) PROVE LateInv'
  BY <1>12 DEF Closed
<1>13. ASSUME NEW r \in Runs, Continue(r) PROVE LateInv'
  BY <1>13 DEF Continue
<1>14. ASSUME NEW r \in Runs, Finish(r) PROVE LateInv'
  BY <1>14 DEF Finish
<1>15. ASSUME NEW r \in Runs, Synthesize(r) PROVE LateInv'
  BY <1>15 DEF Synthesize
<1>16. ASSUME NEW r \in Runs, Reply(r) PROVE LateInv'
  BY <1>16 DEF Reply, RecordThen
<1>17. ASSUME NEW r \in Runs, CompleteRun(r) PROVE LateInv'
  BY <1>17 DEF CompleteRun
<1>18. ASSUME NEW r \in Runs, FailRun(r) PROVE LateInv'
  BY <1>18 DEF FailRun
<1>19. ASSUME NEW r \in Runs, RecordFailure(r) PROVE LateInv'
  BY <1>19 DEF RecordFailure
<1>20. ASSUME NEW r \in Runs, Settle(r) PROVE LateInv'
  BY <1>20 DEF Settle
<1>21. ASSUME NEW r \in Runs, Reject(r) PROVE LateInv'
  BY <1>21, AwaitedAt DEF Reject
<1>22. ASSUME NEW r \in Runs, StreamStart(r) PROVE LateInv'
  BY <1>22 DEF StreamStart
<1>23. ASSUME NEW c \in Cancels, CancelRun(c) PROVE LateInv'
  BY <1>23 DEF CancelRun
<1>24. ASSUME NEW c \in Cancels, CancelAgentRun(c) PROVE LateInv'
  BY <1>24 DEF CancelAgentRun
<1>25. CASE Crash
  BY <1>25 DEF Crash
<1>26. CASE UNCHANGED vars
  BY <1>26 DEF vars
<1> QED
  BY <1>1, <1>2, <1>3, <1>4, <1>5, <1>6, <1>7, <1>8, <1>9, <1>10, <1>11,
     <1>12, <1>13, <1>14, <1>15, <1>16, <1>17, <1>18, <1>19, <1>20, <1>21,
     <1>22, <1>23, <1>24, <1>25, <1>26 DEF Next, Orchestrate, Terminating

(* After an abort at most one more tool call is executed.                     *)
THEOREM LateTheorem == Spec => []AtMostOneLateTool
<1>1. Init => LateInv
  BY DEF Init, LateInv
<1>2. LateInv => AtMostOneLateTool
  BY DEF LateInv, AtMostOneLateTool
<1> QED
  BY <1>1, <1>2, TypeInvariant, LateStep, PTL DEF Spec

(* A cancel request aborts closed runs only, and they stop.                   *)
THEOREM AbortSafety == Spec => []AbortIsSafe
  BY TypeInvariant, AbortTheorem, LateTheorem, PTL DEF AbortIsSafe

-----------------------------------------------------------------------------
(* The inductive invariant behind CompletionIsLast, in two parts: which calls *)
(* of a Promise.all may be under way, and where a completed run can be.       *)

(* Outside a Promise.all no call is under way, but for those that one has     *)
(* left behind; and then the run is on its way to failRun.                    *)
CallsUnderWay(r) ==
  /\ pc[r] \notin {"opening", "closing", "failing", "failEvent", "ended", "lost"}
       => awaiting[r] = {}
  /\ pc[r] = "opening" => awaiting[r] \subseteq Opening
  /\ pc[r] = "closing" => awaiting[r] \subseteq ClosingCompleted \union ClosingFailed
  /\ pc[r] = "closing" /\ outcome[r] \in Succeeded => awaiting[r] \subseteq ClosingCompleted
  /\ pc[r] = "closing" /\ outcome[r] \notin Succeeded \union {"fatal"}
       => awaiting[r] \subseteq ClosingFailed

CallsInv == \A r \in Runs : CallsUnderWay(r)

(* Whoever has completed the run writes nothing more.                         *)
CompletedIsDone(r) ==
  status[r] = "COMPLETED" => awaiting[r] = {} /\ pc[r] \in {"failing", "ended", "lost"}

DoneInv == \A r \in Runs : Begun(r) /\ CompletedIsDone(r)

LEMMA CallTypes ==
  ASSUME TypeOK
  PROVE  /\ status \in [Runs -> Statuses] /\ pc \in [Runs -> Pcs]
         /\ awaiting \in [Runs -> SUBSET Calls] /\ outcome \in [Runs -> Outcomes]
         /\ target \in [Cancels -> Runs]
BY DEF TypeOK

LEMMA CallsStep == TypeOK /\ CallsInv /\ [Next]_vars => CallsInv'
<1> SUFFICES ASSUME TypeOK, CallsInv, [Next]_vars PROVE CallsInv'
  OBVIOUS
<1> USE CallTypes
<1> USE DEF CallsInv, CallsUnderWay, Goto, Advance, Catch, CallFailRun, End, Rethrow,
            database, tools, process, requests, bounds
<1>1. ASSUME NEW r \in Runs, CreateMessage(r) PROVE CallsInv'
  BY <1>1 DEF CreateMessage
<1>2. ASSUME NEW r \in Runs, Launch(r) PROVE CallsInv'
  BY <1>2 DEF Launch
<1>3. ASSUME NEW r \in Runs, OrchestratorStart(r) PROVE CallsInv'
  BY <1>3 DEF OrchestratorStart
<1>4. ASSUME NEW r \in Runs, Announce(r) PROVE CallsInv'
  BY <1>4 DEF Announce, RecordThen
<1>5. ASSUME NEW r \in Runs, Delta(r) PROVE CallsInv'
  BY <1>5 DEF Delta
<1>6. ASSUME NEW r \in Runs, ModelAnswers(r) PROVE CallsInv'
  BY <1>6 DEF ModelAnswers
<1>7. ASSUME NEW r \in Runs, CheckCall(r) PROVE CallsInv'
  BY <1>7 DEF CheckCall
<1>8. ASSUME NEW r \in Runs, OpenCall(r) PROVE CallsInv'
  BY <1>8 DEF OpenCall
<1>9. ASSUME NEW r \in Runs, Opened(r) PROVE CallsInv'
  BY <1>9 DEF Opened
<1>10. ASSUME NEW r \in Runs, ToolRecords(r) PROVE CallsInv'
  BY <1>10 DEF ToolRecords
<1>11. ASSUME NEW r \in Runs, Executed(r) PROVE CallsInv'
  BY <1>11 DEF Executed
<1>12. ASSUME NEW r \in Runs, Closed(r) PROVE CallsInv'
  BY <1>12 DEF Closed, Awaited, Outcomes, Succeeded
<1>13. ASSUME NEW r \in Runs, Continue(r) PROVE CallsInv'
  BY <1>13 DEF Continue
<1>14. ASSUME NEW r \in Runs, Finish(r) PROVE CallsInv'
  BY <1>14 DEF Finish
<1>15. ASSUME NEW r \in Runs, Synthesize(r) PROVE CallsInv'
  BY <1>15 DEF Synthesize
<1>16. ASSUME NEW r \in Runs, Reply(r) PROVE CallsInv'
  BY <1>16 DEF Reply, RecordThen
<1>17. ASSUME NEW r \in Runs, CompleteRun(r) PROVE CallsInv'
  BY <1>17 DEF CompleteRun
<1>18. ASSUME NEW r \in Runs, FailRun(r) PROVE CallsInv'
  BY <1>18 DEF FailRun
<1>19. ASSUME NEW r \in Runs, RecordFailure(r) PROVE CallsInv'
  BY <1>19 DEF RecordFailure
<1>20. ASSUME NEW r \in Runs, Settle(r) PROVE CallsInv'
  BY <1>20 DEF Settle
<1>21. ASSUME NEW r \in Runs, Reject(r) PROVE CallsInv'
  <2>1. PICK call \in awaiting[r] : Reject(r)!(call)
    BY <1>21 DEF Reject
  <2>2. CASE /\ awaiting' = [awaiting EXCEPT ![r] = @ \ {call}]
             /\ UNCHANGED <<pc, outcome>>
    BY <2>2
  <2>3. CASE /\ call \in ClosingCompleted \intersect Awaited(r)
             /\ awaiting' = [awaiting EXCEPT ![r] = (@ \ {call}) \union ClosingFailed]
             /\ outcome' = [outcome EXCEPT ![r] = "fatal"]
             /\ UNCHANGED pc
    <3>1. pc[r] = "closing" /\ awaiting[r] \subseteq ClosingCompleted \union ClosingFailed
      BY <2>3 DEF Awaited, ClosingCompleted, Opening
    <3> QED
      BY <2>3, <3>1 DEF Succeeded, Outcomes
  <2>4. CASE /\ awaiting' = [awaiting EXCEPT ![r] = @ \ {call}]
             /\ Catch(r, "inner")
             /\ UNCHANGED outcome
    BY <2>4
  <2> QED
    BY <2>1, <2>2, <2>3, <2>4
<1>22. ASSUME NEW r \in Runs, StreamStart(r) PROVE CallsInv'
  BY <1>22 DEF StreamStart
<1>23. ASSUME NEW c \in Cancels, CancelRun(c) PROVE CallsInv'
  BY <1>23 DEF CancelRun
<1>24. ASSUME NEW c \in Cancels, CancelAgentRun(c) PROVE CallsInv'
  BY <1>24 DEF CancelAgentRun
<1>25. CASE Crash
  BY <1>25 DEF Crash
<1>26. CASE UNCHANGED vars
  BY <1>26 DEF vars
<1> QED
  BY <1>1, <1>2, <1>3, <1>4, <1>5, <1>6, <1>7, <1>8, <1>9, <1>10, <1>11,
     <1>12, <1>13, <1>14, <1>15, <1>16, <1>17, <1>18, <1>19, <1>20, <1>21,
     <1>22, <1>23, <1>24, <1>25, <1>26 DEF Next, Orchestrate, Terminating

LEMMA DoneStep == TypeOK /\ CallsInv /\ DoneInv /\ [Next]_vars => DoneInv'
<1> SUFFICES ASSUME TypeOK, CallsInv, DoneInv, [Next]_vars PROVE DoneInv'
  OBVIOUS
<1> USE CallTypes
<1> USE DEF CallsInv, CallsUnderWay, DoneInv, Begun, CompletedIsDone,
            Statuses, Open, Terminal, Goto, Advance, Catch, CallFailRun, End, Rethrow,
            database, tools, process, requests, bounds
<1>1. ASSUME NEW r \in Runs, CreateMessage(r) PROVE DoneInv'
  BY <1>1 DEF CreateMessage
<1>2. ASSUME NEW r \in Runs, Launch(r) PROVE DoneInv'
  BY <1>2 DEF Launch
<1>3. ASSUME NEW r \in Runs, OrchestratorStart(r) PROVE DoneInv'
  BY <1>3 DEF OrchestratorStart, StartStatus
<1>4. ASSUME NEW r \in Runs, Announce(r) PROVE DoneInv'
  BY <1>4 DEF Announce, RecordThen
<1>5. ASSUME NEW r \in Runs, Delta(r) PROVE DoneInv'
  BY <1>5 DEF Delta
<1>6. ASSUME NEW r \in Runs, ModelAnswers(r) PROVE DoneInv'
  BY <1>6 DEF ModelAnswers
<1>7. ASSUME NEW r \in Runs, CheckCall(r) PROVE DoneInv'
  BY <1>7 DEF CheckCall
<1>8. ASSUME NEW r \in Runs, OpenCall(r) PROVE DoneInv'
  BY <1>8 DEF OpenCall
<1>9. ASSUME NEW r \in Runs, Opened(r) PROVE DoneInv'
  BY <1>9 DEF Opened
<1>10. ASSUME NEW r \in Runs, ToolRecords(r) PROVE DoneInv'
  BY <1>10 DEF ToolRecords
<1>11. ASSUME NEW r \in Runs, Executed(r) PROVE DoneInv'
  BY <1>11 DEF Executed
<1>12. ASSUME NEW r \in Runs, Closed(r) PROVE DoneInv'
  BY <1>12 DEF Closed
<1>13. ASSUME NEW r \in Runs, Continue(r) PROVE DoneInv'
  BY <1>13 DEF Continue
<1>14. ASSUME NEW r \in Runs, Finish(r) PROVE DoneInv'
  BY <1>14 DEF Finish
<1>15. ASSUME NEW r \in Runs, Synthesize(r) PROVE DoneInv'
  BY <1>15 DEF Synthesize
<1>16. ASSUME NEW r \in Runs, Reply(r) PROVE DoneInv'
  BY <1>16 DEF Reply, RecordThen
<1>17. ASSUME NEW r \in Runs, CompleteRun(r) PROVE DoneInv'
  BY <1>17 DEF CompleteRun, CompleteRunIfOpen
<1>18. ASSUME NEW r \in Runs, FailRun(r) PROVE DoneInv'
  BY <1>18 DEF FailRun, FailRunIfOpen
<1>19. ASSUME NEW r \in Runs, RecordFailure(r) PROVE DoneInv'
  BY <1>19 DEF RecordFailure
<1>20. ASSUME NEW r \in Runs, Settle(r) PROVE DoneInv'
  BY <1>20 DEF Settle
<1>21. ASSUME NEW r \in Runs, Reject(r) PROVE DoneInv'
  BY <1>21, AwaitedAt DEF Reject
<1>22. ASSUME NEW r \in Runs, StreamStart(r) PROVE DoneInv'
  BY <1>22 DEF StreamStart, StartStatus
<1>23. ASSUME NEW c \in Cancels, CancelRun(c) PROVE DoneInv'
  BY <1>23 DEF CancelRun
<1>24. ASSUME NEW c \in Cancels, CancelAgentRun(c) PROVE DoneInv'
  BY <1>24 DEF CancelAgentRun
<1>25. CASE Crash
  BY <1>25 DEF Crash
<1>26. CASE UNCHANGED vars
  BY <1>26 DEF vars
<1> QED
  BY <1>1, <1>2, <1>3, <1>4, <1>5, <1>6, <1>7, <1>8, <1>9, <1>10, <1>11,
     <1>12, <1>13, <1>14, <1>15, <1>16, <1>17, <1>18, <1>19, <1>20, <1>21,
     <1>22, <1>23, <1>24, <1>25, <1>26 DEF Next, Orchestrate, Terminating

EndsWithCompletion(r) ==
  LET n == Len(log[r])
  IN  n >= 2 /\ log[r][n - 1] = "message.completed" /\ log[r][n] = "run.completed"

LEMMA ConcatPair ==
  ASSUME NEW S, NEW s \in Seq(S), NEW t \in Seq(S), Len(t) = 2
  PROVE  /\ Len(s \o t) = Len(s) + 2
         /\ (s \o t)[Len(s) + 1] = t[1]
         /\ (s \o t)[Len(s) + 2] = t[2]
<1>1. Len(s) \in Nat /\ Len(s \o t) = Len(s) + Len(t)
  BY ConcatProperties, LenProperties
<1>2. ASSUME NEW i \in 1..2 PROVE (s \o t)[Len(s) + i] = t[i]
  <2>1. PICK j \in 1..(Len(s) + Len(t)) : j = Len(s) + i
    BY <1>1
  <2>2. (s \o t)[j] = IF j <= Len(s) THEN s[j] ELSE t[j - Len(s)]
    BY ConcatProperties
  <2>3. ~(j <= Len(s)) /\ j - Len(s) = i
    BY <1>1, <2>1
  <2> QED
    BY <2>1, <2>2, <2>3
<1> QED
  BY <1>1, <1>2

LEMMA AppendsCompletion ==
  ASSUME TypeOK, NEW r \in Runs, CompleteRunIfOpen(r)
  PROVE  EndsWithCompletion(r)'
<1> DEFINE old == log[r]
<1>1. old \in Seq(EventTypes) /\ CompletionEvents \in Seq(EventTypes)
  BY DEF TypeOK, CompletionEvents, EventTypes
<1>2. log'[r] = old \o CompletionEvents
  BY DEF TypeOK, CompleteRunIfOpen
<1>3. /\ Len(CompletionEvents) = 2 /\ Len(old) \in Nat
      /\ CompletionEvents[1] = "message.completed" /\ CompletionEvents[2] = "run.completed"
  BY <1>1, LenProperties DEF CompletionEvents
<1> HIDE DEF old
<1>4. /\ Len(old \o CompletionEvents) = Len(old) + 2
      /\ (old \o CompletionEvents)[Len(old) + 1] = CompletionEvents[1]
      /\ (old \o CompletionEvents)[Len(old) + 2] = CompletionEvents[2]
  BY <1>1, <1>3, ConcatPair
<1> QED
  BY <1>2, <1>3, <1>4 DEF EndsWithCompletion

(* A step either completes a run or leaves a completed run's log alone.       *)
LEMMA CompletedLog ==
  ASSUME TypeOK, CallsInv, DoneInv, [Next]_vars, NEW q \in Runs, status'[q] = "COMPLETED"
  PROVE  CompleteRunIfOpen(q) \/ (status[q] = "COMPLETED" /\ log'[q] = log[q])
<1> USE CallTypes
<1>0. log \in [Runs -> Seq(EventTypes)]
  BY DEF TypeOK
<1> USE DEF CallsInv, CallsUnderWay, DoneInv, Begun, CompletedIsDone, Statuses, Open,
            Terminal, database, tools, process, requests, bounds
<1> DEFINE Goal == CompleteRunIfOpen(q) \/ (status[q] = "COMPLETED" /\ log'[q] = log[q])
<1>1. ASSUME NEW r \in Runs, CreateMessage(r) PROVE Goal
  BY <1>1 DEF CreateMessage
<1>2. ASSUME NEW r \in Runs, Launch(r) PROVE Goal
  BY <1>2 DEF Launch
<1>3. ASSUME NEW r \in Runs, OrchestratorStart(r) PROVE Goal
  BY <1>3 DEF OrchestratorStart, StartStatus
<1>4. ASSUME NEW r \in Runs, Announce(r) PROVE Goal
  BY <1>0, <1>4 DEF Announce, RecordThen, Record
<1>5. ASSUME NEW r \in Runs, Delta(r) PROVE Goal
  BY <1>0, <1>5 DEF Delta, Record
<1>6. ASSUME NEW r \in Runs, ModelAnswers(r) PROVE Goal
  BY <1>6 DEF ModelAnswers
<1>7. ASSUME NEW r \in Runs, CheckCall(r) PROVE Goal
  BY <1>7 DEF CheckCall
<1>8. ASSUME NEW r \in Runs, OpenCall(r) PROVE Goal
  BY <1>8 DEF OpenCall
<1>9. ASSUME NEW r \in Runs, Opened(r) PROVE Goal
  BY <1>9 DEF Opened
<1>10. ASSUME NEW r \in Runs, ToolRecords(r) PROVE Goal
  BY <1>0, <1>10 DEF ToolRecords, Record
<1>11. ASSUME NEW r \in Runs, Executed(r) PROVE Goal
  BY <1>11 DEF Executed
<1>12. ASSUME NEW r \in Runs, Closed(r) PROVE Goal
  BY <1>12 DEF Closed
<1>13. ASSUME NEW r \in Runs, Continue(r) PROVE Goal
  BY <1>13 DEF Continue
<1>14. ASSUME NEW r \in Runs, Finish(r) PROVE Goal
  BY <1>14 DEF Finish
<1>15. ASSUME NEW r \in Runs, Synthesize(r) PROVE Goal
  BY <1>0, <1>15 DEF Synthesize, Record
<1>16. ASSUME NEW r \in Runs, Reply(r) PROVE Goal
  BY <1>0, <1>16 DEF Reply, RecordThen, Record
<1>17. ASSUME NEW r \in Runs, CompleteRun(r) PROVE Goal
  <2>1. CASE CompleteRunIfOpen(r)
    <3>1. CASE q = r
      BY <2>1, <3>1
    <3>2. CASE q # r
      BY <1>0, <2>1, <3>2 DEF CompleteRunIfOpen
    <3> QED
      BY <3>1, <3>2
  <2>2. CASE UNCHANGED <<status, log, replies>>
    BY <2>2
  <2> QED
    BY <1>17, <2>1, <2>2 DEF CompleteRun
<1>18. ASSUME NEW r \in Runs, FailRun(r) PROVE Goal
  BY <1>18 DEF FailRun, FailRunIfOpen
<1>19. ASSUME NEW r \in Runs, RecordFailure(r) PROVE Goal
  BY <1>0, <1>19 DEF RecordFailure, Record
<1>20. ASSUME NEW r \in Runs, Settle(r) PROVE Goal
  BY <1>0, <1>20 DEF Settle, Effect, Record
<1>21. ASSUME NEW r \in Runs, Reject(r) PROVE Goal
  BY <1>0, <1>21, AwaitedAt DEF Reject, Effect, Record
<1>22. ASSUME NEW r \in Runs, StreamStart(r) PROVE Goal
  BY <1>22 DEF StreamStart, StartStatus
<1>23. ASSUME NEW c \in Cancels, CancelRun(c) PROVE Goal
  BY <1>23 DEF CancelRun
<1>24. ASSUME NEW c \in Cancels, CancelAgentRun(c) PROVE Goal
  BY <1>24 DEF CancelAgentRun
<1>25. CASE Crash
  BY <1>25 DEF Crash
<1>26. CASE UNCHANGED vars
  BY <1>26 DEF vars
<1> QED
  BY <1>1, <1>2, <1>3, <1>4, <1>5, <1>6, <1>7, <1>8, <1>9, <1>10, <1>11,
     <1>12, <1>13, <1>14, <1>15, <1>16, <1>17, <1>18, <1>19, <1>20, <1>21,
     <1>22, <1>23, <1>24, <1>25, <1>26 DEF Next, Orchestrate, Terminating

LEMMA EndStep ==
  TypeOK /\ CallsInv /\ DoneInv /\ CompletionIsLast /\ [Next]_vars => CompletionIsLast'
<1> SUFFICES ASSUME TypeOK, CallsInv, DoneInv, CompletionIsLast, [Next]_vars,
                    NEW r \in Runs, status'[r] = "COMPLETED"
             PROVE  EndsWithCompletion(r)'
  BY DEF CompletionIsLast, EndsWithCompletion
<1> QED
  BY CompletedLog, AppendsCompletion DEF CompletionIsLast, EndsWithCompletion

(* The reply and the completion are the last two events of a completed run.   *)
THEOREM CompletionTheorem == Spec => []CompletionIsLast
<1>1. Init => CallsInv /\ DoneInv /\ CompletionIsLast
  BY DEF Init, CallsInv, CallsUnderWay, DoneInv, Begun, CompletedIsDone, CompletionIsLast
<1> QED
  BY <1>1, TypeInvariant, CallsStep, DoneStep, EndStep, PTL DEF Spec

-----------------------------------------------------------------------------
(* Refinement: every step of AgentRun is a step of RunLog or leaves its       *)
(* variables alone.                                                           *)
LEMMA RefinesAppend ==
  ASSUME TypeOK, DoneInv, NEW r \in Runs, pc[r] \notin {"none", "refused"},
         NEW type \in Log!ProgressTypes, Record(r, type), UNCHANGED <<status, replies>>
  PROVE  Log!Next
<1>1. Log!Append1(r, type)
  BY DEF Log!Append1, Record, DoneInv, Begun
<1> QED
  BY <1>1 DEF Log!Next

LEMMA RefinesStart ==
  ASSUME TypeOK, NEW r \in Runs, StartStatus(r), UNCHANGED <<log, replies>>
  PROVE  Log!Next \/ UNCHANGED Log!vars
<1>1. Log!Start(r) \/ UNCHANGED Log!vars
  BY DEF StartStatus, Log!Start, Log!vars
<1> QED
  BY <1>1 DEF Log!Next

LEMMA RefinesClose ==
  ASSUME NEW r \in Runs, status[r] \in Open, NEW end \in {"FAILED", "CANCELLED"},
         status' = [status EXCEPT ![r] = end], UNCHANGED <<log, replies>>
  PROVE  Log!Next
<1>1. Log!Close(r, end)
  BY DEF Log!Close, Log!Open, Open
<1> QED
  BY <1>1 DEF Log!Next

LEMMA RefinesComplete ==
  ASSUME NEW r \in Runs, CompleteRunIfOpen(r)
  PROVE  Log!Next
<1>1. Log!Complete(r)
  BY DEF Log!Complete, Log!Open, Open, CompleteRunIfOpen, Log!CompletionEvents, CompletionEvents
<1> QED
  BY <1>1 DEF Log!Next

(* The calls of a Promise.all.                                                *)
LEMMA RefinesEffect ==
  ASSUME TypeOK, DoneInv, NEW r \in Runs, NEW call \in awaiting[r], Effect(r, call),
         UNCHANGED <<status, replies>>
  PROVE  Log!Next \/ UNCHANGED Log!vars
<1>1. pc[r] \notin {"none", "refused"}
  BY DEF DoneInv, Begun
<1>2. CASE UNCHANGED log
  BY <1>2 DEF Log!vars
<1>3. CASE Record(r, "tool.started") \/ Record(r, "tool.completed") \/ Record(r, "tool.failed")
  BY <1>1, <1>3, RefinesAppend DEF Log!ProgressTypes
<1> QED
  BY <1>2, <1>3 DEF Effect

LEMMA RefinesStep == TypeOK /\ DoneInv /\ [Next]_vars => [Log!Next]_(Log!vars)
<1> SUFFICES ASSUME TypeOK, DoneInv, [Next]_vars PROVE [Log!Next]_(Log!vars)
  OBVIOUS
<1> DEFINE Goal == Log!Next \/ UNCHANGED Log!vars
<1> USE DEF database, tools, process, requests, bounds
<1>1. ASSUME NEW r \in Runs, CreateMessage(r) PROVE Goal
  <2>1. Log!Create(r) \/ UNCHANGED Log!vars
    BY <1>1 DEF CreateMessage, Log!Create, Log!vars, DoneInv, Begun
  <2> QED
    BY <2>1 DEF Log!Next
<1>2. ASSUME NEW r \in Runs, Launch(r) PROVE Goal
  BY <1>2 DEF Launch, Log!vars
<1>3. ASSUME NEW r \in Runs, ModelAnswers(r) PROVE Goal
  BY <1>3 DEF ModelAnswers, Log!vars
<1>4. ASSUME NEW r \in Runs, CheckCall(r) PROVE Goal
  BY <1>4 DEF CheckCall, Log!vars
<1>5. ASSUME NEW r \in Runs, OpenCall(r) PROVE Goal
  BY <1>5 DEF OpenCall, Log!vars
<1>6. ASSUME NEW r \in Runs, Opened(r) PROVE Goal
  BY <1>6 DEF Opened, Log!vars
<1>7. ASSUME NEW r \in Runs, Executed(r) PROVE Goal
  BY <1>7 DEF Executed, Log!vars
<1>8. ASSUME NEW r \in Runs, Closed(r) PROVE Goal
  BY <1>8 DEF Closed, Log!vars
<1>9. ASSUME NEW r \in Runs, Continue(r) PROVE Goal
  BY <1>9 DEF Continue, Log!vars
<1>10. ASSUME NEW r \in Runs, Finish(r) PROVE Goal
  BY <1>10 DEF Finish, Log!vars
<1>11. ASSUME NEW r \in Runs, OrchestratorStart(r) PROVE Goal
  BY <1>11, RefinesStart DEF OrchestratorStart, Log!vars
<1>12. ASSUME NEW r \in Runs, StreamStart(r) PROVE Goal
  BY <1>12, RefinesStart DEF StreamStart, Log!vars
<1>13. ASSUME NEW r \in Runs, Announce(r) PROVE Goal
  BY <1>13, RefinesAppend DEF Announce, RecordThen, Log!ProgressTypes, Log!vars
<1>14. ASSUME NEW r \in Runs, Delta(r) PROVE Goal
  BY <1>14, RefinesAppend DEF Delta, Log!ProgressTypes, Log!vars
<1>15. ASSUME NEW r \in Runs, ToolRecords(r) PROVE Goal
  BY <1>15, RefinesAppend DEF ToolRecords, Log!ProgressTypes, Log!vars
<1>16. ASSUME NEW r \in Runs, Synthesize(r) PROVE Goal
  BY <1>16, RefinesAppend DEF Synthesize, Log!ProgressTypes, Log!vars
<1>17. ASSUME NEW r \in Runs, Reply(r) PROVE Goal
  BY <1>17, RefinesAppend DEF Reply, RecordThen, Log!ProgressTypes, Log!vars
<1>18. ASSUME NEW r \in Runs, RecordFailure(r) PROVE Goal
  BY <1>18, RefinesAppend DEF RecordFailure, Log!ProgressTypes, Log!vars
<1>19. ASSUME NEW r \in Runs, CompleteRun(r) PROVE Goal
  BY <1>19, RefinesComplete DEF CompleteRun, Log!vars
<1>20. ASSUME NEW r \in Runs, FailRun(r) PROVE Goal
  BY <1>20, RefinesClose DEF FailRun, FailRunIfOpen, Log!vars
<1>21. ASSUME NEW r \in Runs, Settle(r) PROVE Goal
  BY <1>21, RefinesEffect DEF Settle
<1>22. ASSUME NEW r \in Runs, Reject(r) PROVE Goal
  BY <1>22, RefinesEffect DEF Reject, Log!vars
<1>23. ASSUME NEW c \in Cancels, CancelRun(c) PROVE Goal
  <2>1. target[c] \in Runs
    BY DEF TypeOK
  <2> QED
    BY <1>23, <2>1, RefinesClose DEF CancelRun, Log!vars
<1>24. ASSUME NEW c \in Cancels, CancelAgentRun(c) PROVE Goal
  BY <1>24 DEF CancelAgentRun, Log!vars
<1>25. CASE Crash
  BY <1>25 DEF Crash, Log!vars
<1>26. CASE UNCHANGED vars
  BY <1>26 DEF vars, Log!vars
<1> QED
  BY <1>1, <1>2, <1>3, <1>4, <1>5, <1>6, <1>7, <1>8, <1>9, <1>10, <1>11,
     <1>12, <1>13, <1>14, <1>15, <1>16, <1>17, <1>18, <1>19, <1>20, <1>21,
     <1>22, <1>23, <1>24, <1>25, <1>26 DEF Next, Orchestrate, Terminating

(* Service, orchestrator, requests, faults and crashes do nothing to a run    *)
(* that the repository's abstract log does not allow.                         *)
THEOREM RefinementTheorem == Spec => ImplementsRunLog
<1>1. Init => Log!Init
  BY DEF Init, Log!Init
<1>2. Init => CallsInv /\ DoneInv
  BY DEF Init, CallsInv, CallsUnderWay, DoneInv, Begun, CompletedIsDone
<1> QED
  BY <1>1, <1>2, TypeInvariant, CallsStep, DoneStep, RefinesStep, PTL
     DEF Spec, ImplementsRunLog, Log!Spec

-----------------------------------------------------------------------------
(* CompletedAudit: rows and events of the calls, counted.                     *)
Count(s, x) == Cardinality({i \in DOMAIN s : s[i] = x})

LEMMA CountIsNat ==
  ASSUME NEW S, NEW s \in Seq(S), NEW x
  PROVE  Count(s, x) \in Nat /\ IsFiniteSet({i \in DOMAIN s : s[i] = x})
<1>1. Len(s) \in Nat /\ DOMAIN s = 1..Len(s)
  BY LenProperties
<1>2. IsFiniteSet(1..Len(s))
  BY <1>1, FS_Interval
<1>3. IsFiniteSet({i \in DOMAIN s : s[i] = x})
  BY <1>1, <1>2, FS_Subset
<1> QED BY <1>3, FS_CardinalityType DEF Count

LEMMA CountOfEmpty ==
  ASSUME NEW x
  PROVE  Count(<<>>, x) = 0
<1>1. {i \in DOMAIN <<>> : <<>>[i] = x} = {}
  OBVIOUS
<1> QED BY <1>1, FS_EmptySet DEF Count

LEMMA CountOfAppend ==
  ASSUME NEW S, NEW s \in Seq(S), NEW e \in S, NEW x
  PROVE  Count(Append(s, e), x) = IF e = x THEN Count(s, x) + 1 ELSE Count(s, x)
<1> DEFINE old == {i \in DOMAIN s : s[i] = x}
           new == {i \in DOMAIN Append(s, e) : Append(s, e)[i] = x}
<1>1. /\ Len(s) \in Nat /\ DOMAIN s = 1..Len(s)
      /\ DOMAIN Append(s, e) = 1..(Len(s) + 1)
      /\ Append(s, e)[Len(s) + 1] = e
      /\ \A i \in 1..Len(s) : Append(s, e)[i] = s[i]
  BY LenProperties, AppendProperties
<1>2. IsFiniteSet(old)
  BY CountIsNat
<1>3. CASE e = x
  <2>1. new = old \union {Len(s) + 1} /\ Len(s) + 1 \notin old
    BY <1>1, <1>3
  <2>2. Cardinality(new) = Cardinality(old) + 1
    BY <1>2, <2>1, FS_AddElement
  <2> QED BY <1>3, <2>2 DEF Count
<1>4. CASE e # x
  <2>1. new = old
    BY <1>1, <1>4
  <2> QED BY <1>4, <2>1 DEF Count
<1> QED BY <1>3, <1>4

LEMMA CountOfCompletion ==
  ASSUME NEW s \in Seq(EventTypes), NEW x, x \notin {"message.completed", "run.completed"}
  PROVE  Count(s \o CompletionEvents, x) = Count(s, x)
<1>1. /\ CompletionEvents \in Seq(EventTypes) /\ Len(CompletionEvents) = 2
      /\ CompletionEvents[1] = "message.completed" /\ CompletionEvents[2] = "run.completed"
  BY DEF CompletionEvents, EventTypes
<1>2. PICK t : t = CompletionEvents
  OBVIOUS
<1>3. /\ Len(s) \in Nat /\ DOMAIN s = 1..Len(s) /\ DOMAIN (s \o t) = 1..(Len(s) + 2)
      /\ \A i \in 1..(Len(s) + 2) : (s \o t)[i] = IF i <= Len(s) THEN s[i] ELSE t[i - Len(s)]
  <2>1. t \in Seq(EventTypes) /\ Len(t) = 2
    BY <1>1, <1>2
  <2>2. Len(s) \in Nat /\ DOMAIN s = 1..Len(s)
    BY LenProperties
  <2>3. s \o t \in Seq(EventTypes) /\ Len(s \o t) = Len(s) + Len(t)
    <3>1. t \in Seq(EventTypes)
      BY <2>1
    <3> QED BY <3>1, ConcatProperties
  <2>4. DOMAIN (s \o t) = 1..(Len(s) + 2)
    BY <2>1, <2>3, LenProperties
  <2>5. \A i \in 1..(Len(s) + 2) : (s \o t)[i] = IF i <= Len(s) THEN s[i] ELSE t[i - Len(s)]
    <3>1. t \in Seq(EventTypes)
      BY <2>1
    <3>2. \A i \in 1..(Len(s) + Len(t)) :
            (s \o t)[i] = IF i <= Len(s) THEN s[i] ELSE t[i - Len(s)]
      BY <3>1, ConcatProperties
    <3> QED BY <2>1, <3>2
  <2> QED BY <2>2, <2>4, <2>5
<1>4. ASSUME NEW i \in 1..(Len(s) + 2), ~(i <= Len(s)) PROVE (s \o t)[i] # x
  <2>1. i - Len(s) = 1 \/ i - Len(s) = 2
    BY <1>3, <1>4
  <2> QED BY <1>1, <1>2, <1>3, <1>4, <2>1
<1>5. {i \in DOMAIN (s \o t) : (s \o t)[i] = x} = {i \in DOMAIN s : s[i] = x}
  <2>1. \A i \in 1..Len(s) : i \in 1..(Len(s) + 2) /\ (s \o t)[i] = s[i]
    BY <1>3
  <2> QED BY <1>3, <1>4, <2>1
<1> QED BY <1>2, <1>5 DEF Count

LEMMA CountOfReplaced ==
  ASSUME NEW S, NEW s \in Seq(S), NEW y \in S, s # <<>>, NEW x, y # s[Len(s)]
  PROVE  Count([s EXCEPT ![Len(s)] = y], x) =
           IF y = x THEN Count(s, x) + 1
           ELSE IF s[Len(s)] = x THEN Count(s, x) - 1 ELSE Count(s, x)
<1> DEFINE t == [s EXCEPT ![Len(s)] = y]
           old == {i \in DOMAIN s : s[i] = x}
           new == {i \in DOMAIN t : t[i] = x}
<1>1. /\ Len(s) \in Nat /\ DOMAIN s = 1..Len(s) /\ Len(s) \in DOMAIN s
  BY LenProperties, EmptySeq
<1>2. /\ DOMAIN t = DOMAIN s /\ t[Len(s)] = y
      /\ \A i \in DOMAIN s \ {Len(s)} : t[i] = s[i]
  BY <1>1
<1>3. IsFiniteSet(old)
  BY CountIsNat
<1> HIDE DEF t
<1>4. CASE y = x
  <2>1. new = old \union {Len(s)} /\ Len(s) \notin old
    BY <1>1, <1>2, <1>4
  <2>2. Cardinality(new) = Cardinality(old) + 1
    BY <1>3, <2>1, FS_AddElement
  <2> QED BY <1>4, <2>2 DEF Count, t
<1>5. CASE y # x /\ s[Len(s)] = x
  <2>1. new = old \ {Len(s)} /\ Len(s) \in old
    BY <1>1, <1>2, <1>5
  <2>2. Cardinality(new) = Cardinality(old) - 1
    BY <1>3, <2>1, FS_RemoveElement
  <2> QED BY <1>5, <2>2 DEF Count, t
<1>6. CASE y # x /\ s[Len(s)] # x
  <2>1. new = old
    BY <1>1, <1>2, <1>6
  <2> QED BY <1>6, <2>1 DEF Count, t
<1> QED BY <1>4, <1>5, <1>6

(* What a call under way still owes to the audit trail.                       *)
ToolEvents == {"tool.started", "tool.completed", "tool.failed"}

Due(r, call) == IF call \in awaiting[r] THEN 1 ELSE 0

Hanging(r) ==
  CASE pc[r] = "opening" -> 1 - Due(r, "rowStarted")
    [] pc[r] = "executing" -> 1
    [] pc[r] = "closing" -> Due(r, "rowCompleted") + Due(r, "rowFailed")
    [] OTHER -> 0

Books(r) ==
  /\ Count(log[r], "tool.started") + Due(r, "eventStarted") = Len(rows[r]) + Due(r, "rowStarted")
  /\ Count(log[r], "tool.completed") + Due(r, "eventCompleted") =
       Count(rows[r], "COMPLETED") + Due(r, "rowCompleted")
  /\ Count(log[r], "tool.failed") + Due(r, "eventFailed") =
       Count(rows[r], "FAILED") + Due(r, "rowFailed")
  /\ Count(rows[r], "RUNNING") = Hanging(r)
  /\ Hanging(r) = 1 => rows[r] # <<>> /\ rows[r][Len(rows[r])] = "RUNNING"

(* A run that can still complete keeps its books.                             *)
Bound(r) ==
  \/ /\ pc[r] \notin {"failing", "failEvent", "ended", "lost"}
     /\ pc[r] = "closing" => outcome[r] # "fatal"
  \/ status[r] = "COMPLETED"

AuditInv == \A r \in Runs : Bound(r) => Books(r)

(* A step that leaves calls and rows of a run alone and records no tool event *)
(* keeps the books.                                                           *)
SameCounts(q) == \A x \in ToolEvents : Count(log'[q], x) = Count(log[q], x)

KeepsBooks(q) ==
  Bound(q)' =>
    /\ Bound(q) /\ Hanging(q)' = Hanging(q)
    /\ awaiting'[q] = awaiting[q] /\ rows'[q] = rows[q] /\ SameCounts(q)

LEMMA KeptBooks ==
  ASSUME NEW q \in Runs, AuditInv, KeepsBooks(q) PROVE Bound(q)' => Books(q)'
BY DEF AuditInv, KeepsBooks, Books, SameCounts, ToolEvents, Due

LEMMA RecordKeepsCounts ==
  ASSUME TypeOK, NEW r \in Runs, NEW q \in Runs, NEW type \in EventTypes \ ToolEvents,
         Record(r, type)
  PROVE  SameCounts(q)
<1>1. log \in [Runs -> Seq(EventTypes)]
  BY DEF TypeOK
<1>2. CASE q = r
  <2>1. log'[q] = Append(log[q], type) /\ log[q] \in Seq(EventTypes)
    BY <1>1, <1>2 DEF Record
  <2> QED BY <2>1, CountOfAppend DEF SameCounts
<1>3. CASE q # r
  BY <1>1, <1>3 DEF Record, SameCounts
<1> QED BY <1>2, <1>3

LEMMA CompletionKeepsCounts ==
  ASSUME TypeOK, NEW r \in Runs, NEW q \in Runs, CompleteRunIfOpen(r)
  PROVE  SameCounts(q)
<1>1. log \in [Runs -> Seq(EventTypes)]
  BY DEF TypeOK
<1>2. CASE q = r
  <2>1. log'[q] = log[q] \o CompletionEvents /\ log[q] \in Seq(EventTypes)
    BY <1>1, <1>2 DEF CompleteRunIfOpen
  <2> QED BY <2>1, CountOfCompletion DEF SameCounts, ToolEvents
<1>3. CASE q # r
  BY <1>1, <1>3 DEF CompleteRunIfOpen, SameCounts
<1> QED BY <1>2, <1>3

LEMMA AuditTypes ==
  ASSUME TypeOK
  PROVE  /\ status \in [Runs -> Statuses] /\ pc \in [Runs -> Pcs]
         /\ awaiting \in [Runs -> SUBSET Calls] /\ outcome \in [Runs -> Outcomes]
         /\ rows \in [Runs -> Seq(RowStatuses)] /\ log \in [Runs -> Seq(EventTypes)]
BY DEF TypeOK

(* The steps that only move the orchestrator or the run's status.             *)
LEMMA ControlKeepsBooks ==
  ASSUME TypeOK, CallsInv, DoneInv, NEW q \in Runs, NEW r \in Runs,
         \/ CreateMessage(r) \/ Launch(r) \/ OrchestratorStart(r) \/ ModelAnswers(r)
         \/ CheckCall(r) \/ Opened(r) \/ Closed(r) \/ Continue(r) \/ Finish(r) \/ FailRun(r)
         \/ StreamStart(r)
  PROVE  KeepsBooks(q)
<1> USE AuditTypes
<1> USE DEF KeepsBooks, SameCounts, Bound, Hanging, Due, CallsInv, CallsUnderWay, DoneInv, Begun,
            CompletedIsDone, Statuses, Open, Terminal, Goto, Advance, Catch, CallFailRun, End,
            Rethrow, database, tools, process, requests, bounds
<1>1. CASE CreateMessage(r)
  BY <1>1 DEF CreateMessage
<1>2. CASE Launch(r)
  BY <1>2 DEF Launch
<1>3. CASE OrchestratorStart(r)
  BY <1>3 DEF OrchestratorStart, StartStatus
<1>4. CASE ModelAnswers(r)
  BY <1>4 DEF ModelAnswers
<1>5. CASE CheckCall(r)
  BY <1>5 DEF CheckCall
<1>6. CASE Opened(r)
  BY <1>6 DEF Opened, Opening
<1>7. CASE Closed(r)
  BY <1>7 DEF Closed, Awaited, Succeeded, ClosingCompleted, ClosingFailed
<1>8. CASE Continue(r)
  BY <1>8 DEF Continue
<1>9. CASE Finish(r)
  BY <1>9 DEF Finish
<1>10. CASE FailRun(r)
  BY <1>10 DEF FailRun, FailRunIfOpen
<1>11. CASE StreamStart(r)
  BY <1>11 DEF StreamStart, StartStatus
<1> QED
  BY <1>1, <1>2, <1>3, <1>4, <1>5, <1>6, <1>7, <1>8, <1>9, <1>10, <1>11

(* The steps that record an event which is none of a tool call.               *)
LEMMA RecordingKeepsBooks ==
  ASSUME TypeOK, CallsInv, DoneInv, NEW q \in Runs, NEW r \in Runs,
         \/ Announce(r) \/ Delta(r) \/ ToolRecords(r) \/ Synthesize(r) \/ Reply(r)
         \/ CompleteRun(r) \/ RecordFailure(r)
  PROVE  KeepsBooks(q)
<1> USE AuditTypes
<1>1. UNCHANGED log => SameCounts(q)
  BY DEF SameCounts
<1>2. {"run.started", "thought.delta", "message.delta", "source.added", "run.failed"}
        \subseteq EventTypes \ ToolEvents
  BY DEF EventTypes, ToolEvents
<1>3. SameCounts(q)
  BY <1>1, <1>2, RecordKeepsCounts, CompletionKeepsCounts
     DEF Announce, RecordThen, Delta, ToolRecords, Synthesize, Reply, CompleteRun, RecordFailure
<1> USE DEF KeepsBooks, Bound, Hanging, Due, CallsInv, CallsUnderWay, DoneInv, Begun,
            CompletedIsDone, Statuses, Open, Terminal, Goto, Advance, Catch, CallFailRun, End,
            Rethrow, database, tools, process, requests, bounds
<1>4. CASE Announce(r)
  BY <1>3, <1>4 DEF Announce, RecordThen
<1>5. CASE Delta(r)
  BY <1>3, <1>5 DEF Delta
<1>6. CASE ToolRecords(r)
  BY <1>3, <1>6 DEF ToolRecords
<1>7. CASE Synthesize(r)
  BY <1>3, <1>7 DEF Synthesize
<1>8. CASE Reply(r)
  BY <1>3, <1>8 DEF Reply, RecordThen
<1>9. CASE CompleteRun(r)
  BY <1>3, <1>9 DEF CompleteRun, CompleteRunIfOpen
<1>10. CASE RecordFailure(r)
  BY <1>3, <1>10 DEF RecordFailure
<1> QED
  BY <1>4, <1>5, <1>6, <1>7, <1>8, <1>9, <1>10

(* A call that finishes while its Promise.all is awaited settles its account. *)
LEMMA SettledLog ==
  ASSUME TypeOK, NEW r \in Runs, NEW type \in ToolEvents, Record(r, type), UNCHANGED rows
  PROVE  /\ \A x \in ToolEvents :
              Count(log'[r], x) = IF type = x THEN Count(log[r], x) + 1 ELSE Count(log[r], x)
         /\ rows'[r] = rows[r]
<1>1. log'[r] = Append(log[r], type) /\ log[r] \in Seq(EventTypes) /\ type \in EventTypes
  BY AuditTypes DEF Record, ToolEvents, EventTypes
<1> QED BY <1>1, CountOfAppend

LEMMA StartedRow ==
  ASSUME TypeOK, NEW r \in Runs, rows' = [rows EXCEPT ![r] = Append(@, "RUNNING")]
  PROVE  /\ Len(rows'[r]) = Len(rows[r]) + 1
         /\ rows'[r] # <<>> /\ rows'[r][Len(rows'[r])] = "RUNNING"
         /\ Count(rows'[r], "RUNNING") = Count(rows[r], "RUNNING") + 1
         /\ Count(rows'[r], "COMPLETED") = Count(rows[r], "COMPLETED")
         /\ Count(rows'[r], "FAILED") = Count(rows[r], "FAILED")
<1>1. PICK s : s = rows[r]
  OBVIOUS
<1>2. s \in Seq(RowStatuses) /\ rows'[r] = Append(s, "RUNNING") /\ "RUNNING" \in RowStatuses
  BY <1>1, AuditTypes DEF RowStatuses
<1>3. /\ Len(Append(s, "RUNNING")) = Len(s) + 1
      /\ Append(s, "RUNNING")[Len(s) + 1] = "RUNNING" /\ Append(s, "RUNNING") # <<>>
  BY <1>2, AppendProperties
<1>4. /\ Count(Append(s, "RUNNING"), "RUNNING") = Count(s, "RUNNING") + 1
      /\ Count(Append(s, "RUNNING"), "COMPLETED") = Count(s, "COMPLETED")
      /\ Count(Append(s, "RUNNING"), "FAILED") = Count(s, "FAILED")
  BY <1>2, CountOfAppend
<1> QED BY <1>1, <1>2, <1>3, <1>4

LEMMA FinishedRow ==
  ASSUME TypeOK, NEW r \in Runs, NEW y \in {"COMPLETED", "FAILED"}, LastRow(r, y),
         rows[r] # <<>>, rows[r][Len(rows[r])] = "RUNNING"
  PROVE  /\ Len(rows'[r]) = Len(rows[r])
         /\ Count(rows'[r], "RUNNING") = Count(rows[r], "RUNNING") - 1
         /\ \A x \in {"COMPLETED", "FAILED"} :
              Count(rows'[r], x) = IF x = y THEN Count(rows[r], x) + 1 ELSE Count(rows[r], x)
<1>1. PICK s : s = rows[r]
  OBVIOUS
<1>2. /\ s \in Seq(RowStatuses) /\ s # <<>> /\ s[Len(s)] = "RUNNING" /\ y \in RowStatuses
      /\ y # "RUNNING"
  BY <1>1, AuditTypes DEF RowStatuses
<1>3. rows'[r] = [s EXCEPT ![Len(s)] = y]
  BY <1>1, <1>2, AuditTypes DEF LastRow
<1>4. Len([s EXCEPT ![Len(s)] = y]) = Len(s)
  <2>1. Len(s) \in 1..Len(s)
    BY <1>2, EmptySeq, LenProperties
  <2> QED BY <1>2, <2>1, ExceptSeq
<1>5. \A x : Count([s EXCEPT ![Len(s)] = y], x) =
               IF y = x THEN Count(s, x) + 1
               ELSE IF s[Len(s)] = x THEN Count(s, x) - 1 ELSE Count(s, x)
  BY <1>2, CountOfReplaced
<1> QED BY <1>1, <1>2, <1>3, <1>4, <1>5

LEMMA BookTypes ==
  ASSUME TypeOK, NEW r \in Runs
  PROVE  /\ Len(rows[r]) \in Nat
         /\ \A x : Count(rows[r], x) \in Nat /\ Count(log[r], x) \in Nat
<1>1. rows[r] \in Seq(RowStatuses) /\ log[r] \in Seq(EventTypes)
  BY AuditTypes
<1> QED BY <1>1, CountIsNat, LenProperties

LEMMA SettleKeepsAudit ==
  ASSUME TypeOK, CallsInv, DoneInv, AuditInv, NEW q \in Runs, NEW r \in Runs, Settle(r), Bound(q)'
  PROVE  Books(q)'
<1> USE AuditTypes
<1>1. PICK call \in awaiting[r] :
        /\ awaiting' = [awaiting EXCEPT ![r] = @ \ {call}]
        /\ Effect(r, call)
        /\ UNCHANGED <<status, replies, pc, tools, layer, process, requests, bounds>>
  BY DEF Settle
<1>2. status' = status /\ pc' = pc /\ outcome' = outcome /\ Bound(q)
  BY <1>1 DEF Bound, tools
<1>3. CASE q # r
  <2>1. log'[q] = log[q] /\ rows'[q] = rows[q] /\ awaiting'[q] = awaiting[q]
    BY <1>1, <1>3 DEF Effect, Record, LastRow
  <2>2. KeepsBooks(q)
    BY <1>2, <2>1 DEF KeepsBooks, SameCounts, Hanging, Due
  <2> QED BY <2>2, KeptBooks
<1>4. CASE q = r
  <2>1. Books(r)
    BY <1>2, <1>4 DEF AuditInv
  <2>2. \/ pc[r] = "opening" /\ awaiting[r] \subseteq Opening
        \/ /\ pc[r] = "closing"
           /\ awaiting[r] \subseteq ClosingCompleted \/ awaiting[r] \subseteq ClosingFailed
    BY <1>1, <1>2, <1>4 DEF Bound, CallsInv, CallsUnderWay, DoneInv, CompletedIsDone
  <2>3. awaiting'[r] = awaiting[r] \ {call} /\ call \in awaiting[r] /\ pc'[r] = pc[r]
    BY <1>1, <1>2
  <2> USE BookTypes
  <2> USE DEF Books, Hanging, Due
  <2>4. CASE call = "rowStarted"
    <3>1. UNCHANGED log /\ rows' = [rows EXCEPT ![r] = Append(@, "RUNNING")]
      BY <1>1, <2>4 DEF Effect
    <3>2. pc[r] = "opening"
      BY <2>2, <2>3, <2>4 DEF ClosingCompleted, ClosingFailed
    <3>3. Hanging(r) = 0 /\ Hanging(r)' = 1
      BY <2>3, <2>4, <3>2
    <3>4. /\ Len(rows'[r]) = Len(rows[r]) + 1
          /\ rows'[r] # <<>> /\ rows'[r][Len(rows'[r])] = "RUNNING"
          /\ Count(rows'[r], "RUNNING") = Count(rows[r], "RUNNING") + 1
          /\ Count(rows'[r], "COMPLETED") = Count(rows[r], "COMPLETED")
          /\ Count(rows'[r], "FAILED") = Count(rows[r], "FAILED")
      BY <3>1, StartedRow
    <3> QED BY <1>4, <2>1, <2>3, <2>4, <3>1, <3>3, <3>4
  <2>5. CASE call \in {"rowCompleted", "rowFailed"}
    <3>1. PICK y \in {"COMPLETED", "FAILED"} :
            /\ UNCHANGED log /\ LastRow(r, y)
            /\ call = IF y = "COMPLETED" THEN "rowCompleted" ELSE "rowFailed"
      BY <1>1, <2>5 DEF Effect
    <3>2. /\ pc[r] = "closing"
          /\ ~("rowCompleted" \in awaiting[r] /\ "rowFailed" \in awaiting[r])
      BY <2>2, <2>3, <2>5 DEF Opening, ClosingCompleted, ClosingFailed
    <3>3. Hanging(r) = 1 /\ Hanging(r)' = 0
      BY <2>3, <2>5, <3>2
    <3>4. rows[r] # <<>> /\ rows[r][Len(rows[r])] = "RUNNING"
      BY <2>1, <3>3
    <3>5. /\ Len(rows'[r]) = Len(rows[r])
          /\ Count(rows'[r], "RUNNING") = Count(rows[r], "RUNNING") - 1
          /\ \A x \in {"COMPLETED", "FAILED"} :
               Count(rows'[r], x) = IF x = y THEN Count(rows[r], x) + 1 ELSE Count(rows[r], x)
      BY <3>1, <3>4, FinishedRow
    <3> QED BY <1>4, <2>1, <2>3, <3>1, <3>3, <3>5
  <2>6. CASE call \in {"eventStarted", "eventCompleted", "eventFailed"}
    <3>1. PICK type \in ToolEvents :
            /\ UNCHANGED rows /\ Record(r, type)
            /\ call = CASE type = "tool.started" -> "eventStarted"
                        [] type = "tool.completed" -> "eventCompleted"
                        [] OTHER -> "eventFailed"
      BY <1>1, <2>6 DEF Effect, ToolEvents
    <3>2. /\ \A x \in ToolEvents :
               Count(log'[r], x) = IF type = x THEN Count(log[r], x) + 1 ELSE Count(log[r], x)
          /\ rows'[r] = rows[r]
      BY <3>1, SettledLog
    <3>3. Hanging(r)' = Hanging(r)
      BY <2>3, <2>6
    <3> QED BY <1>4, <2>1, <2>3, <3>1, <3>2, <3>3 DEF ToolEvents
  <2> QED
    BY <1>1, <2>4, <2>5, <2>6 DEF Calls, Opening, ClosingCompleted, ClosingFailed
<1> QED BY <1>3, <1>4

(* Opening a call owes a row and an event, and so does closing it.            *)
LEMMA OpenKeepsAudit ==
  ASSUME TypeOK, CallsInv, DoneInv, AuditInv, NEW q \in Runs, NEW r \in Runs,
         OpenCall(r) \/ Executed(r), Bound(q)'
  PROVE  Books(q)'
<1> USE AuditTypes
<1>1. /\ log' = log /\ rows' = rows /\ status' = status
      /\ pc[r] \in {"open", "executing"} /\ awaiting[r] = {}
  BY DEF OpenCall, Executed, database, CallsInv, CallsUnderWay
<1>2. CASE q # r
  <2>1. /\ awaiting'[q] = awaiting[q] /\ pc'[q] = pc[q] /\ outcome'[q] = outcome[q]
    BY <1>2 DEF OpenCall, Executed, Advance, Goto, tools
  <2>2. KeepsBooks(q)
    BY <1>1, <2>1 DEF KeepsBooks, SameCounts, Bound, Hanging, Due
  <2> QED BY <2>2, KeptBooks
<1>3. CASE q = r
  <2>1. Bound(r) /\ Books(r)
    BY <1>1 DEF Bound, AuditInv
  <2> USE BookTypes
  <2>2. CASE OpenCall(r)
    <3>1. /\ pc[r] = "open" /\ pc'[r] = "opening"
          /\ awaiting'[r] = {"rowStarted", "eventStarted"}
      BY <1>1, <2>2 DEF OpenCall, Advance, Goto, Opening
    <3> QED BY <1>1, <1>3, <2>1, <3>1 DEF Books, Hanging, Due
  <2>3. CASE Executed(r)
    <3>1. /\ pc[r] = "executing" /\ pc'[r] = "closing"
          /\ \/ awaiting'[r] = {"rowCompleted", "eventCompleted"}
             \/ awaiting'[r] = {"rowFailed", "eventFailed"}
      BY <1>1, <2>3 DEF Executed, Advance, Goto, ClosingCompleted, ClosingFailed
    <3>2. Hanging(r) = 1
      BY <3>1 DEF Hanging
    <3>3. Hanging(r)' = Due(r, "rowCompleted")' + Due(r, "rowFailed")'
      BY <3>1 DEF Hanging
    <3>4. /\ Count(log'[r], "tool.started") = Len(rows'[r])
          /\ Count(log'[r], "tool.completed") = Count(rows'[r], "COMPLETED")
          /\ Count(log'[r], "tool.failed") = Count(rows'[r], "FAILED")
          /\ Count(rows'[r], "RUNNING") = 1
          /\ rows'[r] # <<>> /\ rows'[r][Len(rows'[r])] = "RUNNING"
      BY <1>1, <2>1, <3>2 DEF Books, Due
    <3>5. /\ Due(r, "rowStarted")' = 0 /\ Due(r, "eventStarted")' = 0
          /\ \/ /\ Due(r, "rowCompleted")' = 1 /\ Due(r, "eventCompleted")' = 1
                /\ Due(r, "rowFailed")' = 0 /\ Due(r, "eventFailed")' = 0
             \/ /\ Due(r, "rowCompleted")' = 0 /\ Due(r, "eventCompleted")' = 0
                /\ Due(r, "rowFailed")' = 1 /\ Due(r, "eventFailed")' = 1
      <4>1. CASE awaiting'[r] = {"rowCompleted", "eventCompleted"}
        BY <4>1 DEF Due
      <4>2. CASE awaiting'[r] = {"rowFailed", "eventFailed"}
        BY <4>2 DEF Due
      <4> QED BY <3>1, <4>1, <4>2
    <3> QED BY <1>1, <1>3, <3>3, <3>4, <3>5 DEF Books
  <2> QED BY <2>2, <2>3
<1> QED BY <1>2, <1>3

(* A throw that is heard fails the run, and one that is not heard comes from  *)
(* a run that is failing already.                                             *)
LEMMA RejectKeepsBooks ==
  ASSUME TypeOK, CallsInv, DoneInv, NEW q \in Runs, NEW r \in Runs, Reject(r)
  PROVE  KeepsBooks(q)
<1> USE AuditTypes
<1>1. PICK call \in awaiting[r] :
        /\ (Effect(r, call) \/ UNCHANGED <<rows, log>>)
        /\ \/ /\ call \notin Awaited(r)
              /\ awaiting' = [awaiting EXCEPT ![r] = @ \ {call}]
              /\ UNCHANGED <<pc, layer, registered, outcome>>
           \/ /\ call \in ClosingCompleted \intersect Awaited(r)
              /\ awaiting' = [awaiting EXCEPT ![r] = (@ \ {call}) \union ClosingFailed]
              /\ outcome' = [outcome EXCEPT ![r] = "fatal"]
              /\ UNCHANGED <<pc, layer, registered>>
           \/ /\ call \in Awaited(r) \ ClosingCompleted
              /\ awaiting' = [awaiting EXCEPT ![r] = @ \ {call}]
              /\ Catch(r, "inner")
              /\ UNCHANGED outcome
        /\ status' = status
  BY DEF Reject
<1>2. CASE q # r
  <2>1. log'[q] = log[q] /\ rows'[q] = rows[q]
    BY <1>1, <1>2 DEF Effect, Record, LastRow
  <2>2. awaiting'[q] = awaiting[q] /\ pc'[q] = pc[q] /\ outcome'[q] = outcome[q]
    BY <1>1, <1>2 DEF Catch, CallFailRun, End, Goto
  <2> QED BY <1>1, <2>1, <2>2 DEF KeepsBooks, SameCounts, Bound, Hanging, Due
<1>3. CASE q = r
  <2>1. status'[r] # "COMPLETED"
    BY <1>1 DEF DoneInv, CompletedIsDone
  <2>2. CASE call \notin Awaited(r) /\ UNCHANGED <<pc, outcome>>
    <3>1. ~Bound(r)
      BY <1>1, <2>1, <2>2 DEF CallsInv, CallsUnderWay, Bound, Awaited, Succeeded
    <3> QED BY <1>1, <1>3, <2>2, <3>1 DEF KeepsBooks, Bound
  <2>3. CASE pc' = pc /\ outcome'[r] = "fatal" /\ call \in ClosingCompleted \intersect Awaited(r)
    <3>1. pc[r] = "closing"
      BY <2>3 DEF Awaited, ClosingCompleted, Opening
    <3> QED BY <1>3, <2>1, <2>3, <3>1 DEF KeepsBooks, Bound
  <2>4. CASE Catch(r, "inner")
    BY <1>3, <2>1, <2>4 DEF Catch, CallFailRun, End, Goto, KeepsBooks, Bound
  <2> QED BY <1>1, <2>2, <2>3, <2>4
<1> QED BY <1>2, <1>3

(* Requests and the crash.                                                    *)
LEMMA OthersKeepBooks ==
  ASSUME TypeOK, CallsInv, DoneInv, NEW q \in Runs,
         \/ \E c \in Cancels : CancelRun(c) \/ CancelAgentRun(c)
         \/ Crash
         \/ UNCHANGED vars
  PROVE  KeepsBooks(q)
<1> USE AuditTypes
<1> USE DEF KeepsBooks, SameCounts, Bound, Hanging, Due, CallsInv, CallsUnderWay, DoneInv,
            CompletedIsDone, database, tools, process, requests, bounds
<1>1. ASSUME NEW c \in Cancels, CancelRun(c) PROVE KeepsBooks(q)
  <2>1. status'[q] = status[q] \/ status'[q] = "CANCELLED"
    BY <1>1, CallTypes DEF CancelRun
  <2> QED BY <1>1, <2>1 DEF CancelRun
<1>2. ASSUME NEW c \in Cancels, CancelAgentRun(c) PROVE KeepsBooks(q)
  BY <1>2 DEF CancelAgentRun
<1>3. CASE Crash
  BY <1>3 DEF Crash
<1>4. CASE UNCHANGED vars
  BY <1>4 DEF vars
<1> QED BY <1>1, <1>2, <1>3, <1>4

LEMMA AuditStep == TypeOK /\ CallsInv /\ DoneInv /\ AuditInv /\ [Next]_vars => AuditInv'
<1> SUFFICES ASSUME TypeOK, CallsInv, DoneInv, AuditInv, [Next]_vars, NEW q \in Runs, Bound(q)'
             PROVE  Books(q)'
  BY DEF AuditInv
<1> QED
  BY KeptBooks, ControlKeepsBooks, RecordingKeepsBooks, SettleKeepsAudit, OpenKeepsAudit,
     RejectKeepsBooks, OthersKeepBooks DEF Next, Orchestrate, Terminating

(* The audit trail of a completed run adds up: every call of a Promise.all    *)
(* that was awaited has finished, and a call that threw has failed the run.   *)
THEOREM AuditTheorem == Spec => []CompletedAudit
<1>1. Init => CallsInv /\ DoneInv
  BY DEF Init, CallsInv, CallsUnderWay, DoneInv, Begun, CompletedIsDone
<1>2. Init => AuditInv
  <2>1. Len(<<>>) = 0
    OBVIOUS
  <2> QED
    BY <2>1, CountOfEmpty DEF Init, AuditInv, Books, Bound, Hanging, Due
<1>3. TypeOK /\ DoneInv /\ AuditInv => CompletedAudit
  <2> SUFFICES ASSUME TypeOK, DoneInv, AuditInv, NEW r \in Runs, status[r] = "COMPLETED"
               PROVE  /\ Count(log[r], "tool.started") = Len(rows[r])
                      /\ Count(rows[r], "RUNNING") = 0
                      /\ Count(log[r], "tool.completed") = Count(rows[r], "COMPLETED")
                      /\ Count(log[r], "tool.failed") = Count(rows[r], "FAILED")
    BY DEF CompletedAudit, Occurrences, RowsWith, Count
  <2>1. Books(r) /\ awaiting[r] = {} /\ pc[r] \in {"failing", "ended", "lost"}
    BY DEF AuditInv, Bound, DoneInv, CompletedIsDone
  <2>2. Hanging(r) = 0
    BY <2>1 DEF Hanging
  <2>3. \A call : Due(r, call) = 0
    BY <2>1 DEF Due
  <2>4. /\ Count(log[r], "tool.started") + 0 = Len(rows[r]) + 0
        /\ Count(log[r], "tool.completed") + 0 = Count(rows[r], "COMPLETED") + 0
        /\ Count(log[r], "tool.failed") + 0 = Count(rows[r], "FAILED") + 0
        /\ Count(rows[r], "RUNNING") = 0
    BY <2>1, <2>2, <2>3 DEF Books
  <2>5. /\ Len(rows[r]) \in Nat
        /\ \A x : Count(rows[r], x) \in Nat /\ Count(log[r], x) \in Nat
    BY BookTypes
  <2> QED BY <2>4, <2>5
<1> QED
  BY <1>1, <1>2, <1>3, TypeInvariant, CallsStep, DoneStep, AuditStep, PTL DEF Spec
=============================================================================
