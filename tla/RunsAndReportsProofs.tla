------------------------ MODULE RunsAndReportsProofs ------------------------
(***************************************************************************)
(* Theorems about the transactions on a run (RunTransactions.tla), the job *)
(* that prices old runs again (UsageReports.tla) and the fingerprint of an *)
(* open share page (SharePage.tla), for any number of runs, transactions,  *)
(* sources, prices, page sizes and edits.                                  *)
(*                                                                         *)
(* Transactions: the committed log of a run has no gap and no double       *)
(* although its numbers come from a MAX that no unique index guards: the   *)
(* invariant says which statements hold the advisory lock and the run's    *)
(* row, and what has been read under them.                                 *)
(*                                                                         *)
(* Reports: pricing a run twice is pricing it once, the rows up to the     *)
(* job's cursor are settled or wait in its page, and a request of the      *)
(* share page that no edit has overlapped has read what the trip holds.    *)
(***************************************************************************)
EXTENDS RunTransactions, UsageReports, SharePage, FiniteSetTheorems, SequenceTheorems,
        WellFoundedInduction, TLAPS

(***************************************************************************)
(* The transactions on a run.                                              *)
(***************************************************************************)
Live(t) == pc[t] \notin {"idle", "done", "rolledBack"}

(* Which operation can stand where.                                          *)
WorksAt(t) ==
  /\ Live(t) => run[t] \in Runs /\ op[t] \in Ops
  /\ pc[t] \in {"lock", "max", "insert", "commit"} => op[t] \in LockedOps
  /\ pc[t] = "update" => op[t] \in UpdateOps \union {"completeRunIfOpen"}
  /\ pc[t] = "sortOrder" => op[t] = "createTaskAndEvent"
  /\ pc[t] = "updateTask" => op[t] = "updateTaskAndEvent"
  /\ pc[t] = "taskKey" => op[t] \in TaskOps

(* A locked operation holds the run's advisory lock from its first statement *)
(* to its end, and the number it has read stays the next one of the run.     *)
HoldsLock(t) ==
  Live(t) /\ pc[t] # "lock" /\ op[t] \in LockedOps => advisory[run[t]] = t

NumberIsNext(t) == next[t] \in Nat \ {0} /\ SequencesOf(run[t]) = 1..(next[t] - 1)

HasWritten(t) ==
  /\ NumberIsNext(t)
  /\ \E types \in EventTypesOf(t) : pending[t] = Block(run[t], next[t], types)
  /\ op[t] = "completeRunIfOpen" => rowOwner[run[t]] = t

KnowsNumber(t) ==
  /\ pc[t] = "insert" => NumberIsNext(t)
  /\ pc[t] # "commit" => pending[t] = {}
  /\ pc[t] = "commit" => HasWritten(t) \/ (pending[t] = {} /\ rowOwner[run[t]] # t)

(* The run's row is held by the transaction that completes it.               *)
HoldsRow(t) ==
  pc[t] \in {"max", "insert"} /\ op[t] = "completeRunIfOpen" => rowOwner[run[t]] = t

RowIsHeld(r) ==
  rowOwner[r] # None =>
    /\ status[r] \in Open
    /\ LET t == rowOwner[r]
       IN run[t] = r /\ op[t] = "completeRunIfOpen" /\ pc[t] \in {"max", "insert", "commit"}

(* The committed numbers of a run are an initial segment.                    *)
DenseLogs == \A r \in Runs : \E n \in Nat : SequencesOf(r) = 1..n
NoDoubles == \A e, f \in rows : e.run = f.run /\ e.seq = f.seq => e = f
BoundedOrders == \E b \in Nat : \A x \in SortOrders : x <= b

TxnInvariant ==
  /\ TypeOK /\ DenseLogs /\ NoDoubles /\ BoundedOrders /\ ReplyIsOneBlock
  /\ \A t \in Txns : WorksAt(t) /\ HoldsLock(t) /\ KnowsNumber(t) /\ HoldsRow(t)
  /\ \A r \in Runs : RowIsHeld(r)

-----------------------------------------------------------------------------
(* MAX over the numbers that occur.                                          *)
LEMMA MaxOfSegment ==
  ASSUME NEW n \in Nat
  PROVE  Max({0} \union 1..n) = n
<1> DEFINE S == {0} \union 1..n
<1>1. n \in S /\ \A y \in S : n >= y
  OBVIOUS
<1>2. \A x \in S : (\A y \in S : x >= y) => x = n
  OBVIOUS
<1>3. Max(S) \in S /\ \A y \in S : Max(S) >= y
  BY <1>1, Zenon DEF Max
<1> QED BY <1>2, <1>3

(* A bounded set of numbers has a maximum: its distances from the bound have *)
(* a minimum.                                                                *)
LEMMA MaxOfBounded ==
  ASSUME NEW S \in SUBSET Nat, S # {}, NEW b \in Nat, \A x \in S : x <= b
  PROVE  Max(S) \in S /\ \A y \in S : Max(S) >= y
<1> DEFINE T == {b - x : x \in S}
<1>1. \A x \in S : x \in Nat /\ b - x \in Nat
  OBVIOUS
<1>2. T \subseteq Nat
  BY <1>1
<1>3. T # {}
  OBVIOUS
<1>4. PICK d \in T : \A y \in T : ~(<<y, d>> \in OpToRel(<, Nat))
  <2> HIDE DEF T
  <2> QED BY <1>2, <1>3, NatLessThanWellFounded, WFMin, Zenon
<1>5. \A y \in T : ~(y < d)
  <2> SUFFICES ASSUME NEW y \in T, y < d PROVE FALSE
    OBVIOUS
  <2>1. y \in Nat /\ d \in Nat
    BY <1>2
  <2>2. <<y, d>> \in OpToRel(<, Nat)
    BY <2>1 DEF OpToRel
  <2> QED BY <2>2, <1>4
<1>6. PICK m \in S : d = b - m
  BY <1>4
<1>7. ASSUME NEW y \in S PROVE m >= y
  <2>1. b - y \in T
    OBVIOUS
  <2>2. ~(b - y < b - m)
    BY <2>1, <1>5, <1>6
  <2> QED BY <2>2, <1>1, <1>6
<1> QED BY <1>6, <1>7, Zenon DEF Max

LEMMA OrdersAreNumbers ==
  ASSUME TypeOK
  PROVE  SortOrders \subseteq Nat
BY DEF TypeOK, SortOrders

LEMMA NextOrder ==
  ASSUME TypeOK, BoundedOrders
  PROVE  Max({0} \union SortOrders) \in Nat
<1>1. PICK b \in Nat : \A x \in SortOrders : x <= b
  BY DEF BoundedOrders
<1>2. {0} \union SortOrders \subseteq Nat /\ \A x \in {0} \union SortOrders : x <= b
  BY <1>1, OrdersAreNumbers
<1> QED BY <1>2, MaxOfBounded

(* A finite set of numbers is bounded: of the unbounded ones, one with the   *)
(* fewest elements would have a smaller one.                                 *)
HasBound(S) == \E b \in Nat : \A x \in S : x <= b

LEMMA FiniteHasBound ==
  ASSUME NEW S \in SUBSET Nat, IsFiniteSet(S)
  PROVE  HasBound(S)
<1> DEFINE Sizes == {n \in Nat : \E T \in SUBSET Nat :
                       IsFiniteSet(T) /\ ~HasBound(T) /\ Cardinality(T) = n}
<1>1. ASSUME Sizes # {} PROVE FALSE
  <2>1. PICK n \in Sizes : \A m \in Sizes : ~(<<m, n>> \in OpToRel(<, Nat))
    <3>1. Sizes \subseteq Nat
      OBVIOUS
    <3> HIDE DEF Sizes
    <3> QED BY <1>1, <3>1, NatLessThanWellFounded, WFMin, Zenon
  <2>2. PICK T \in SUBSET Nat : IsFiniteSet(T) /\ ~HasBound(T) /\ Cardinality(T) = n
    BY <2>1
  <2>3. T # {}
    BY <2>2 DEF HasBound
  <2>4. PICK x \in T : TRUE
    BY <2>3
  <2> DEFINE U == T \ {x}
  <2>5. IsFiniteSet(U) /\ Cardinality(U) = n - 1 /\ n \in Nat
    BY <2>1, <2>2, <2>4, FS_RemoveElement
  <2>6. n # 0
    BY <2>2, <2>3, FS_EmptySet
  <2>7. ~HasBound(U)
    <3> SUFFICES ASSUME NEW b \in Nat, \A y \in U : y <= b PROVE FALSE
      BY DEF HasBound
    <3>1. x \in Nat /\ b + x \in Nat
      BY <2>2, <2>4
    <3>2. \A y \in T : y <= b + x
      BY <2>2, <3>1
    <3> QED BY <2>2, <3>1, <3>2 DEF HasBound
  <2>8. n - 1 \in Sizes
    BY <2>5, <2>6, <2>7
  <2>9. <<n - 1, n>> \in OpToRel(<, Nat)
    BY <2>5, <2>6 DEF OpToRel
  <2> QED BY <2>1, <2>8, <2>9
<1>2. Cardinality(S) \in Nat
  BY FS_CardinalityType
<1> QED BY <1>1, <1>2

-----------------------------------------------------------------------------
(* The invariant holds at the start.                                         *)
LEMMA TxnInitially == Init => TxnInvariant
<1> SUFFICES ASSUME Init PROVE TxnInvariant
  OBVIOUS
<1> USE TxnAssumption DEF Init
<1>1. TypeOK
  BY DEF TypeOK, Pcs, Ops, LockedOps, EventOps, UpdateOps, Open, Terminal, TaskIds
<1>2. DenseLogs /\ NoDoubles /\ BoundedOrders
  <2>1. \A r \in Runs : SequencesOf(r) = 1..0
    BY DEF SequencesOf, RowsOf
  <2>2. SortOrders \subseteq {FirstOrder[k] : k \in Tasks}
    BY DEF SortOrders, TaskIds
  <2>3. IsFiniteSet({FirstOrder[k] : k \in Tasks})
    <3> DEFINE S == {FirstOrder[k] : k \in Tasks}
    <3>1. FirstOrder \in Surjection(Tasks, S)
      BY DEF Surjection
    <3> HIDE DEF S
    <3>2. IsFiniteSet(S)
      BY <3>1, FS_Surjection
    <3> QED BY <3>2 DEF S
  <2>4. HasBound(SortOrders)
    BY <1>1, <2>2, <2>3, FS_Subset, FiniteHasBound, OrdersAreNumbers
  <2> QED BY <2>1, <2>4 DEF DenseLogs, NoDoubles, BoundedOrders, HasBound
<1>3. ReplyIsOneBlock
  BY DEF ReplyIsOneBlock, RowsOf
<1>4. \A t \in Txns : WorksAt(t) /\ HoldsLock(t) /\ KnowsNumber(t) /\ HoldsRow(t)
  BY DEF WorksAt, HoldsLock, KnowsNumber, HoldsRow, Live
<1>5. \A r \in Runs : RowIsHeld(r)
  BY DEF RowIsHeld
<1> QED BY <1>1, <1>2, <1>3, <1>4, <1>5 DEF TxnInvariant

(* What a step of t leaves to the transactions it does not belong to.        *)
LEMMA OthersKeep ==
  ASSUME TxnInvariant, NEW u \in Txns,
         pc'[u] = pc[u], op'[u] = op[u], run'[u] = run[u], next'[u] = next[u],
         pending'[u] = pending[u],
         \A r \in Runs : advisory[r] = u => advisory'[r] = u /\ SequencesOf(r)' = SequencesOf(r),
         \A r \in Runs : rowOwner'[r] = u <=> rowOwner[r] = u
  PROVE  (WorksAt(u) /\ HoldsLock(u) /\ KnowsNumber(u) /\ HoldsRow(u))'
<1> USE DEF TxnInvariant
<1>1. WorksAt(u)'
  BY DEF WorksAt, Live
<1>2. Live(u)' <=> Live(u)
  BY DEF Live
<1>3. Live(u) => run[u] \in Runs
  BY DEF WorksAt
<1>4. HoldsLock(u)'
  BY <1>2, <1>3 DEF HoldsLock
<1>5. pc[u] \in {"insert", "commit"} => SequencesOf(run[u])' = SequencesOf(run[u])
  BY <1>3 DEF HoldsLock, WorksAt, Live
<1>6. EventTypesOf(u)' = EventTypesOf(u)
  BY DEF EventTypesOf
<1>7. pc[u] \in {"insert", "commit"} /\ NumberIsNext(u) => NumberIsNext(u)'
  BY <1>5 DEF NumberIsNext
<1>8. pc[u] = "commit" /\ HasWritten(u) => HasWritten(u)'
  BY <1>3, <1>6, <1>7 DEF HasWritten, Live
<1>9. KnowsNumber(u)'
  BY <1>3, <1>7, <1>8 DEF KnowsNumber, Live
<1>10. HoldsRow(u)'
  BY <1>3 DEF HoldsRow, Live
<1> QED BY <1>1, <1>4, <1>9, <1>10

LEMMA DatabaseKept ==
  ASSUME TxnInvariant, UNCHANGED database
  PROVE  /\ (DenseLogs /\ NoDoubles /\ BoundedOrders /\ ReplyIsOneBlock)'
         /\ \A r \in Runs : SequencesOf(r)' = SequencesOf(r)
  BY DEF TxnInvariant, database, DenseLogs, NoDoubles, BoundedOrders, ReplyIsOneBlock,
     SequencesOf, RowsOf, SortOrders

(* A step of t: the variables of the others stay, it takes only locks that   *)
(* are free and gives back only its own.                                     *)
StepOf(t) ==
  /\ \A u \in Txns \ {t} :
       /\ pc'[u] = pc[u] /\ op'[u] = op[u] /\ run'[u] = run[u] /\ next'[u] = next[u]
       /\ pending'[u] = pending[u]
  /\ \A r \in Runs :
       /\ advisory'[r] = advisory[r] \/ {advisory[r], advisory'[r]} \subseteq {None, t}
       /\ rowOwner'[r] = rowOwner[r] \/ {rowOwner[r], rowOwner'[r]} \subseteq {None, t}

LEMMA OthersAfterStep ==
  ASSUME TxnInvariant, NEW t \in Txns, StepOf(t),
         \A r \in Runs : advisory[r] \in Txns \ {t} => SequencesOf(r)' = SequencesOf(r),
         \A r \in Runs : rowOwner[r] \in Txns \ {t} => status'[r] = status[r],
         (WorksAt(t) /\ HoldsLock(t) /\ KnowsNumber(t) /\ HoldsRow(t))',
         \A r \in Runs : rowOwner'[r] = t => RowIsHeld(r)'
  PROVE  /\ (\A u \in Txns : WorksAt(u) /\ HoldsLock(u) /\ KnowsNumber(u) /\ HoldsRow(u))'
         /\ (\A r \in Runs : RowIsHeld(r))'
<1>1. ASSUME NEW u \in Txns \ {t} PROVE (WorksAt(u) /\ HoldsLock(u) /\ KnowsNumber(u) /\ HoldsRow(u))'
  BY TxnAssumption, OthersKeep DEF StepOf
<1>2. ASSUME NEW r \in Runs PROVE RowIsHeld(r)'
  <2>1. CASE rowOwner'[r] \in {None, t}
    BY <2>1 DEF RowIsHeld
  <2>2. CASE rowOwner'[r] \notin {None, t}
    <3>1. rowOwner'[r] = rowOwner[r] /\ rowOwner[r] \in Txns \ {t}
      BY <2>2 DEF StepOf, TxnInvariant, TypeOK
    <3> QED BY <3>1, <2>2 DEF StepOf, TxnInvariant, RowIsHeld
  <2> QED BY <2>1, <2>2
<1> QED BY <1>1, <1>2

-----------------------------------------------------------------------------
(* The steps.                                                                *)
LEMMA AfterCreateRun ==
  ASSUME TxnInvariant, NEW r \in Runs, CreateRun(r)
  PROVE  TxnInvariant'
<1>1. /\ status[r] = "NONE" /\ status' = [status EXCEPT ![r] = "QUEUED"]
      /\ UNCHANGED <<rows, replies, tasks, locks, pc, locals>>
  BY DEF CreateRun
<1>2. TypeOK'
  BY <1>1 DEF TxnInvariant, TypeOK, locks, locals, Open
<1>3. \A s \in Runs : SequencesOf(s)' = SequencesOf(s) /\ RowsOf(s)' = RowsOf(s)
  BY <1>1 DEF SequencesOf, RowsOf
<1>4. (DenseLogs /\ NoDoubles /\ BoundedOrders)'
  BY <1>1, <1>3 DEF TxnInvariant, DenseLogs, NoDoubles, BoundedOrders, SortOrders
<1>5. \A s \in Runs : status'[s] = "COMPLETED" <=> status[s] = "COMPLETED"
  BY <1>1 DEF TxnInvariant, TypeOK
<1>6. ReplyIsOneBlock'
  BY <1>1, <1>3, <1>5 DEF TxnInvariant, ReplyIsOneBlock
<1>7. \A s \in Runs : RowIsHeld(s)'
  BY <1>1 DEF TxnInvariant, RowIsHeld, TypeOK, locks, locals, Open
<1>8. \A t \in Txns : (WorksAt(t) /\ HoldsLock(t) /\ KnowsNumber(t) /\ HoldsRow(t))'
  BY <1>1, <1>3, OthersKeep DEF locks, locals
<1> QED BY <1>2, <1>4, <1>6, <1>7, <1>8 DEF TxnInvariant

LEMMA AfterBegin ==
  ASSUME TxnInvariant, NEW t \in Txns, Begin(t)
  PROVE  TxnInvariant'
<1>1. PICK o \in Work[t], r \in Runs :
        /\ op' = [op EXCEPT ![t] = o] /\ run' = [run EXCEPT ![t] = r]
        /\ pc' = [pc EXCEPT ![t] = IF o \in LockedOps THEN "lock" ELSE "update"]
        /\ IF o \in TaskOps THEN AskForTask(t, o) ELSE UNCHANGED <<target, order>>
  BY DEF Begin, Goto
<1>2. pc[t] = "idle" /\ UNCHANGED <<database, locks, next, pending>>
  BY DEF Begin
<1>3. o \in Ops
  BY TxnAssumption
<1>9. target' \in [Txns -> TaskIds \union {None}] /\ order' \in [Txns -> Nat \union {None}]
  <2>1. CASE o \in TaskOps
    <3>1. PICK k \in TaskIds, q \in Nat \union {None} :
            target' = [target EXCEPT ![t] = k] /\ order' = [order EXCEPT ![t] = q]
      BY <1>1, <2>1, TxnAssumption DEF AskForTask, TaskIds
    <3> QED BY <3>1 DEF TxnInvariant, TypeOK
  <2>2. CASE o \notin TaskOps
    BY <1>1, <2>2 DEF TxnInvariant, TypeOK
  <2> QED BY <2>1, <2>2
<1>4. TypeOK'
  BY <1>1, <1>2, <1>3, <1>9 DEF TxnInvariant, TypeOK, database, locks, Pcs
<1>5. StepOf(t)
  BY <1>1, <1>2 DEF StepOf, TxnInvariant, TypeOK, locks
<1>6. (WorksAt(t) /\ HoldsLock(t) /\ KnowsNumber(t) /\ HoldsRow(t))'
  BY <1>1, <1>2, <1>3 DEF TxnInvariant, TypeOK, WorksAt, HoldsLock, KnowsNumber, HoldsRow, Live,
     Ops, LockedOps, EventOps, TaskOps
<1>7. \A s \in Runs : rowOwner'[s] # t
  BY <1>2, TxnAssumption DEF TxnInvariant, RowIsHeld, locks
<1>8. status' = status
  BY <1>2 DEF database
<1> QED BY <1>2, <1>4, <1>5, <1>6, <1>7, <1>8, DatabaseKept, OthersAfterStep DEF TxnInvariant

LEMMA AfterLock ==
  ASSUME TxnInvariant, NEW t \in Txns, LockRunForSequence(t)
  PROVE  TxnInvariant'
<1>1. /\ pc[t] = "lock" /\ advisory[run[t]] = None
      /\ advisory' = [advisory EXCEPT ![run[t]] = t]
      /\ UNCHANGED <<database, rowOwner, locals>>
  BY DEF LockRunForSequence
<1>2. op[t] \in LockedOps /\ run[t] \in Runs
  BY <1>1 DEF TxnInvariant, WorksAt, Live
<1>3. PICK to : /\ pc' = [pc EXCEPT ![t] = to]
                /\ \/ to = "update" /\ op[t] = "completeRunIfOpen"
                   \/ to = "sortOrder" /\ op[t] = "createTaskAndEvent"
                   \/ to = "updateTask" /\ op[t] = "updateTaskAndEvent"
                   \/ to = "taskKey" /\ op[t] \in TaskOps
                   \/ to = "max" /\ op[t] \in EventOps
  BY <1>2 DEF LockRunForSequence, Goto, LockedOps, EventOps, TaskOps, FirstStatement
<1>4. TypeOK'
  BY <1>1, <1>2, <1>3 DEF TxnInvariant, TypeOK, database, locals, Pcs
<1>5. StepOf(t)
  BY <1>1, <1>2, <1>3 DEF StepOf, TxnInvariant, TypeOK, locals
<1>6. (WorksAt(t) /\ HoldsLock(t) /\ KnowsNumber(t) /\ HoldsRow(t))'
  BY <1>1, <1>2, <1>3 DEF TxnInvariant, TypeOK, WorksAt, HoldsLock, KnowsNumber, HoldsRow, Live,
     LockedOps, EventOps, TaskOps, locals
<1>7. \A s \in Runs : rowOwner'[s] # t
  BY <1>1, TxnAssumption DEF TxnInvariant, RowIsHeld
<1>8. status' = status
  BY <1>1 DEF database
<1> QED BY <1>1, <1>4, <1>5, <1>6, <1>7, <1>8, DatabaseKept, OthersAfterStep DEF TxnInvariant

LEMMA AfterCompleteUpdate ==
  ASSUME TxnInvariant, NEW t \in Txns, CompleteUpdate(t)
  PROVE  TxnInvariant'
<1>1. /\ pc[t] = "update" /\ op[t] = "completeRunIfOpen" /\ rowOwner[run[t]] = None
      /\ UNCHANGED <<database, advisory, locals>>
  BY DEF CompleteUpdate
<1>2. run[t] \in Runs /\ advisory[run[t]] = t /\ pending[t] = {}
  BY <1>1 DEF TxnInvariant, WorksAt, HoldsLock, KnowsNumber, Live, LockedOps
<1>3. \A s \in Runs : rowOwner[s] # t
  BY <1>1, TxnAssumption DEF TxnInvariant, RowIsHeld
<1>4. \/ /\ status[run[t]] \in Open /\ rowOwner' = [rowOwner EXCEPT ![run[t]] = t]
         /\ pc' = [pc EXCEPT ![t] = "max"]
      \/ rowOwner' = rowOwner /\ pc' = [pc EXCEPT ![t] = "commit"]
  BY DEF CompleteUpdate, Goto
<1>5. TypeOK'
  BY <1>1, <1>2, <1>4 DEF TxnInvariant, TypeOK, database, locals, Pcs
<1>6. StepOf(t)
  BY <1>1, <1>2, <1>4 DEF StepOf, TxnInvariant, TypeOK, locals
<1>7. status' = status
  BY <1>1 DEF database
<1>8. (WorksAt(t) /\ HoldsLock(t) /\ KnowsNumber(t) /\ HoldsRow(t))'
  BY <1>1, <1>2, <1>3, <1>4 DEF TxnInvariant, TypeOK, WorksAt, HoldsLock, KnowsNumber, HoldsRow,
     Live, LockedOps, locals
<1>9. \A s \in Runs : rowOwner'[s] = t => RowIsHeld(s)'
  BY <1>1, <1>2, <1>3, <1>4, <1>7 DEF TxnInvariant, TypeOK, RowIsHeld, locals
<1> QED BY <1>1, <1>5, <1>6, <1>7, <1>8, <1>9, DatabaseKept, OthersAfterStep DEF TxnInvariant

LEMMA AfterConditionalUpdate ==
  ASSUME TxnInvariant, NEW t \in Txns, ConditionalUpdate(t)
  PROVE  TxnInvariant'
<1>1. /\ pc[t] = "update" /\ op[t] \in UpdateOps /\ rowOwner[run[t]] = None
      /\ End(t, "done") /\ UNCHANGED <<rows, replies, tasks, locks>>
  BY DEF ConditionalUpdate
<1>2. run[t] \in Runs
  BY <1>1 DEF TxnInvariant, WorksAt, Live
<1>3. \/ status' = status
      \/ \E to \in {"RUNNING", "FAILED", "CANCELLED"} :
           status[run[t]] \in Open /\ status' = [status EXCEPT ![run[t]] = to]
  BY <1>1 DEF ConditionalUpdate, UpdateOps, Open
<1>4. TypeOK'
  BY <1>1, <1>2, <1>3 DEF TxnInvariant, TypeOK, End, Goto, locks, Pcs, Open, Terminal
<1>5. \A r \in Runs : /\ status'[r] = "COMPLETED" <=> status[r] = "COMPLETED"
                      /\ rowOwner[r] # None => status'[r] = status[r]
  BY <1>1, <1>2, <1>3 DEF TxnInvariant, TypeOK, Open
<1>6. \A r \in Runs : SequencesOf(r)' = SequencesOf(r) /\ RowsOf(r)' = RowsOf(r)
  BY <1>1 DEF SequencesOf, RowsOf
<1>7. (DenseLogs /\ NoDoubles /\ BoundedOrders)'
  BY <1>1, <1>6 DEF TxnInvariant, DenseLogs, NoDoubles, BoundedOrders, SortOrders
<1>8. ReplyIsOneBlock'
  BY <1>1, <1>5, <1>6 DEF TxnInvariant, ReplyIsOneBlock
<1>9. StepOf(t)
  BY <1>1, <1>2 DEF StepOf, TxnInvariant, TypeOK, locks, End, Goto
<1>10. (WorksAt(t) /\ HoldsLock(t) /\ KnowsNumber(t) /\ HoldsRow(t))'
  BY <1>1 DEF TxnInvariant, TypeOK, WorksAt, HoldsLock, KnowsNumber, HoldsRow, Live, End, Goto
<1>11. \A r \in Runs : rowOwner'[r] # t
  BY <1>1, TxnAssumption DEF TxnInvariant, RowIsHeld, locks, UpdateOps
<1>12. \A r \in Runs : rowOwner[r] \in Txns \ {t} => status'[r] = status[r]
  BY <1>5, TxnAssumption
<1> QED BY <1>4, <1>6, <1>7, <1>8, <1>9, <1>10, <1>11, <1>12, OthersAfterStep DEF TxnInvariant

LEMMA AfterSortOrder ==
  ASSUME TxnInvariant, NEW t \in Txns, ReadSortOrder(t)
  PROVE  TxnInvariant'
<1>1. /\ pc[t] = "sortOrder" /\ order' = [order EXCEPT ![t] = 1 + Max({0} \union SortOrders)]
      /\ pc' = [pc EXCEPT ![t] = "taskKey"] /\ UNCHANGED <<database, locks, op, run, target, next, pending>>
  BY DEF ReadSortOrder, Goto
<1>2. 1 + Max({0} \union SortOrders) \in Nat
  BY NextOrder DEF TxnInvariant
<1>3. TypeOK'
  BY <1>1, <1>2 DEF TxnInvariant, TypeOK, database, locks, Pcs
<1>4. StepOf(t)
  BY <1>1 DEF StepOf, TxnInvariant, TypeOK, locks
<1>5. (WorksAt(t) /\ HoldsLock(t) /\ KnowsNumber(t) /\ HoldsRow(t))'
  BY <1>1 DEF TxnInvariant, TypeOK, WorksAt, HoldsLock, KnowsNumber, HoldsRow, Live, locks,
     LockedOps, EventOps, TaskOps
<1>6. \A r \in Runs : rowOwner'[r] # t
  BY <1>1, TxnAssumption DEF TxnInvariant, RowIsHeld, locks
<1>7. status' = status
  BY <1>1 DEF database
<1> QED BY <1>1, <1>3, <1>4, <1>5, <1>6, <1>7, DatabaseKept, OthersAfterStep DEF TxnInvariant

(* The two statements that write a task: nothing is committed yet.           *)
LEMMA AfterTaskStatement ==
  ASSUME TxnInvariant, NEW t \in Txns, UpdateTask(t) \/ TakeTaskKey(t)
  PROVE  TxnInvariant'
<1>1. /\ pc[t] \in {"updateTask", "taskKey"}
      /\ pc' = [pc EXCEPT ![t] = "max"] \/ pc' = [pc EXCEPT ![t] = "taskKey"]
      /\ UNCHANGED <<database, locks, locals>>
  BY DEF UpdateTask, TakeTaskKey, Goto
<1>2. TypeOK'
  BY <1>1 DEF TxnInvariant, TypeOK, database, locks, locals, Pcs
<1>3. StepOf(t)
  BY <1>1 DEF StepOf, TxnInvariant, TypeOK, locks, locals
<1>4. (WorksAt(t) /\ HoldsLock(t) /\ KnowsNumber(t) /\ HoldsRow(t))'
  BY <1>1 DEF TxnInvariant, TypeOK, WorksAt, HoldsLock, KnowsNumber, HoldsRow, Live, locks, locals,
     LockedOps, EventOps, TaskOps
<1>5. \A r \in Runs : rowOwner'[r] # t
  BY <1>1, TxnAssumption DEF TxnInvariant, RowIsHeld, locks
<1>6. status' = status
  BY <1>1 DEF database
<1> QED BY <1>1, <1>2, <1>3, <1>4, <1>5, <1>6, DatabaseKept, OthersAfterStep DEF TxnInvariant

LEMMA AfterNextSequence ==
  ASSUME TxnInvariant, NEW t \in Txns, NextRunEventSequence(t)
  PROVE  TxnInvariant'
<1>1. /\ pc[t] = "max" /\ next' = [next EXCEPT ![t] = 1 + Max({0} \union SequencesOf(run[t]))]
      /\ pc' = [pc EXCEPT ![t] = "insert"] /\ UNCHANGED <<database, locks, op, run, target, order, pending>>
  BY DEF NextRunEventSequence, Goto
<1>2. run[t] \in Runs /\ op[t] \in LockedOps
  BY <1>1 DEF TxnInvariant, WorksAt, Live
<1>3. PICK n \in Nat : SequencesOf(run[t]) = 1..n
  BY <1>2 DEF TxnInvariant, DenseLogs
<1>4. next' = [next EXCEPT ![t] = 1 + n]
  BY <1>1, <1>3, MaxOfSegment
<1>5. TypeOK'
  BY <1>1, <1>4 DEF TxnInvariant, TypeOK, database, locks, Pcs
<1>6. StepOf(t)
  BY <1>1 DEF StepOf, TxnInvariant, TypeOK, locks
<1>7. next'[t] = 1 + n /\ SequencesOf(run[t])' = 1..n /\ run'[t] = run[t]
  <2>1. next'[t] = 1 + n
    BY <1>4 DEF TxnInvariant, TypeOK
  <2>2. rows' = rows /\ run' = run
    BY <1>1 DEF database
  <2>3. SequencesOf(run[t])' = SequencesOf(run[t])
    BY <2>2 DEF SequencesOf, RowsOf
  <2> QED BY <2>1, <2>2, <2>3, <1>3
<1>8. NumberIsNext(t)'
  BY <1>1, <1>7 DEF NumberIsNext
<1>9. (WorksAt(t) /\ HoldsLock(t) /\ KnowsNumber(t) /\ HoldsRow(t))'
  BY <1>1, <1>8 DEF TxnInvariant, TypeOK, WorksAt, HoldsLock, KnowsNumber, HoldsRow, Live, locks
<1>10. \A r \in Runs : rowOwner'[r] = t => RowIsHeld(r)'
  BY <1>1 DEF TxnInvariant, TypeOK, RowIsHeld, locks, database
<1>11. status' = status
  BY <1>1 DEF database
<1> QED BY <1>1, <1>5, <1>6, <1>9, <1>10, <1>11, DatabaseKept, OthersAfterStep DEF TxnInvariant

(* What the operations write: at least one event, the reply's two events if  *)
(* the run is completed, neither of them otherwise.                          *)
ReplyTypes == {"message.completed", "run.completed"}
IsBatch(types) == \E k \in Nat \ {0} : DOMAIN types = 1..k

LEMMA OneEvent ==
  ASSUME NEW x \in EventTypes \ ReplyTypes, NEW types, types = <<x>>
  PROVE  IsBatch(types) /\ \A i \in DOMAIN types : types[i] \in EventTypes \ ReplyTypes
<1>1. DOMAIN types = 1..1 /\ 1 \in Nat \ {0}
  OBVIOUS
<1>2. types[1] = x /\ \A i \in 1..1 : i = 1
  OBVIOUS
<1> QED BY <1>1, <1>2 DEF IsBatch

LEMMA WhatIsWritten ==
  ASSUME NEW t, op[t] \in LockedOps, NEW types \in EventTypesOf(t)
  PROVE  /\ IsBatch(types)
         /\ \A i \in DOMAIN types : types[i] \in EventTypes
         /\ op[t] = "completeRunIfOpen" =>
              DOMAIN types = 1..2 /\ types[1] = "message.completed" /\ types[2] = "run.completed"
         /\ op[t] # "completeRunIfOpen" =>
              \A i \in DOMAIN types : types[i] \notin ReplyTypes
<1>1. CASE op[t] = "completeRunIfOpen"
  <2>1. types = <<"message.completed", "run.completed">>
    BY <1>1 DEF EventTypesOf, TaskOps
  <2>2. DOMAIN types = 1..2 /\ types[1] = "message.completed" /\ types[2] = "run.completed"
    BY <2>1
  <2>3. \A i \in DOMAIN types : i = 1 \/ i = 2
    BY <2>2
  <2>4. \A i \in DOMAIN types : types[i] \in EventTypes
    BY <2>2, <2>3 DEF EventTypes
  <2>5. IsBatch(types)
    BY <2>2 DEF IsBatch
  <2> QED BY <1>1, <2>2, <2>4, <2>5
<1>2. CASE op[t] \in TaskOps
  <2>1. types = <<"task.updated">>
    BY <1>2 DEF EventTypesOf, TaskOps
  <2>2. "task.updated" \in EventTypes \ ReplyTypes
    BY DEF ReplyTypes, EventTypes
  <2>3. IsBatch(types) /\ \A i \in DOMAIN types : types[i] \in EventTypes \ ReplyTypes
    BY <2>1, <2>2, OneEvent
  <2> QED BY <1>2, <2>3 DEF TaskOps
<1>3. CASE op[t] = "createSourcesAndEvents"
  <2>1. PICK k \in 1..MaxBatch : types = [i \in 1..k |-> "source.added"]
    BY <1>3 DEF EventTypesOf, TaskOps
  <2>2. k \in Nat \ {0}
    BY TxnAssumption
  <2>3. DOMAIN types = 1..k /\ \A i \in 1..k : types[i] = "source.added"
    BY <2>1
  <2>4. IsBatch(types)
    BY <2>2, <2>3 DEF IsBatch
  <2>5. \A i \in DOMAIN types : types[i] \in EventTypes /\ types[i] \notin ReplyTypes
    BY <2>3 DEF ReplyTypes, EventTypes
  <2> QED BY <1>3, <2>4, <2>5
<1>4. CASE op[t] = "createRunEvent"
  <2>1. types = <<"tool.started">>
    BY <1>4 DEF EventTypesOf, TaskOps
  <2>2. "tool.started" \in EventTypes \ ReplyTypes
    BY DEF ReplyTypes, EventTypes
  <2>3. IsBatch(types) /\ \A i \in DOMAIN types : types[i] \in EventTypes \ ReplyTypes
    BY <2>1, <2>2, OneEvent
  <2> QED BY <1>4, <2>3
<1> QED BY <1>1, <1>2, <1>3, <1>4 DEF LockedOps, EventOps

LEMMA AfterInsertEvents ==
  ASSUME TxnInvariant, NEW t \in Txns, InsertEvents(t)
  PROVE  TxnInvariant'
<1>1. /\ pc[t] = "insert" /\ pc' = [pc EXCEPT ![t] = "commit"]
      /\ UNCHANGED <<database, locks, op, run, target, order, next>>
  BY DEF InsertEvents, Goto
<1>2. run[t] \in Runs /\ op[t] \in LockedOps /\ NumberIsNext(t)
  BY <1>1 DEF TxnInvariant, WorksAt, KnowsNumber, Live
<1>3. PICK types \in EventTypesOf(t) : pending' = [pending EXCEPT ![t] = Block(run[t], next[t], types)]
  BY DEF InsertEvents
<1>4. PICK k \in Nat \ {0} : DOMAIN types = 1..k
  BY <1>2, WhatIsWritten DEF IsBatch
<1>5. Block(run[t], next[t], types) \subseteq Events
  BY <1>2, <1>4, WhatIsWritten DEF Block, NumberIsNext, Events
<1>6. pending'[t] = Block(run[t], next[t], types)
  BY <1>3 DEF TxnInvariant, TypeOK
<1>7. TypeOK'
  BY <1>1, <1>3, <1>5 DEF TxnInvariant, TypeOK, database, locks, Pcs
<1>8. StepOf(t)
  BY <1>1, <1>3 DEF StepOf, TxnInvariant, TypeOK, locks
<1>9. EventTypesOf(t)' = EventTypesOf(t)
  BY <1>1 DEF EventTypesOf
<1>10. NumberIsNext(t)'
  BY <1>1, <1>2 DEF NumberIsNext, SequencesOf, RowsOf, database
<1>11. HasWritten(t)'
  <2>1. types \in EventTypesOf(t)'
    BY <1>9
  <2>2. pending'[t] = Block(run'[t], next'[t], types)
    BY <1>1, <1>6
  <2>3. op'[t] = "completeRunIfOpen" => rowOwner'[run'[t]] = t
    BY <1>1 DEF TxnInvariant, HoldsRow, locks
  <2> QED BY <1>10, <2>1, <2>2, <2>3 DEF HasWritten, Block
<1>12. (WorksAt(t) /\ HoldsLock(t) /\ KnowsNumber(t) /\ HoldsRow(t))'
  BY <1>1, <1>2, <1>11 DEF TxnInvariant, TypeOK, WorksAt, HoldsLock, KnowsNumber, HoldsRow, Live,
     locks
<1>13. \A r \in Runs : rowOwner'[r] = t => RowIsHeld(r)'
  BY <1>1 DEF TxnInvariant, TypeOK, RowIsHeld, locks, database
<1>14. status' = status
  BY <1>1 DEF database
<1> QED BY <1>1, <1>7, <1>8, <1>12, <1>13, <1>14, DatabaseKept, OthersAfterStep DEF TxnInvariant

LEMMA AfterRollback ==
  ASSUME TxnInvariant, NEW t \in Txns, Rollback(t)
  PROVE  TxnInvariant'
<1>1. /\ End(t, "rolledBack") /\ UNCHANGED database
      /\ \A r \in Runs : /\ advisory'[r] = IF advisory[r] = t THEN None ELSE advisory[r]
                         /\ rowOwner'[r] = IF rowOwner[r] = t THEN None ELSE rowOwner[r]
  BY DEF Rollback, Release
<1>2. TypeOK'
  BY <1>1, TxnAssumption DEF TxnInvariant, TypeOK, Rollback, Release, database, End, Goto, Pcs
<1>3. StepOf(t)
  BY <1>1 DEF StepOf, TxnInvariant, TypeOK, End, Goto
<1>4. (WorksAt(t) /\ HoldsLock(t) /\ KnowsNumber(t) /\ HoldsRow(t))'
  BY <1>1 DEF TxnInvariant, TypeOK, WorksAt, HoldsLock, KnowsNumber, HoldsRow, Live, End, Goto
<1>5. \A r \in Runs : rowOwner'[r] # t
  BY <1>1, TxnAssumption
<1>6. status' = status
  BY <1>1 DEF database
<1> QED BY <1>1, <1>2, <1>3, <1>4, <1>5, <1>6, DatabaseKept, OthersAfterStep DEF TxnInvariant

-----------------------------------------------------------------------------
(* The commit of a transaction that has written: its numbers continue those  *)
(* of the run.                                                               *)
LEMMA CommittedNumbers ==
  ASSUME NEW r \in Runs, NEW n \in Nat \ {0}, SequencesOf(r) = 1..(n - 1),
         NEW types, NEW k \in Nat \ {0}, DOMAIN types = 1..k,
         rows' = rows \union Block(r, n, types)
  PROVE  /\ RowsOf(r)' = RowsOf(r) \union Block(r, n, types)
         /\ SequencesOf(r)' = 1..(n + k - 1)
         /\ \A s \in Runs \ {r} : RowsOf(s)' = RowsOf(s) /\ SequencesOf(s)' = SequencesOf(s)
<1> DEFINE B == Block(r, n, types)
<1>1. \A e \in B : e.run = r
  BY DEF Block
<1>2. \A s : RowsOf(s)' = {e \in rows \union B : e.run = s}
  BY DEF RowsOf
<1> HIDE DEF B
<1>3. RowsOf(r)' = RowsOf(r) \union B
  BY <1>1, <1>2 DEF RowsOf
<1>4. \A s \in Runs \ {r} : RowsOf(s)' = RowsOf(s)
  BY <1>1, <1>2 DEF RowsOf
<1>5. {e.seq : e \in B} = n..(n + k - 1)
  <2>1. \A i \in 1..k : n + i - 1 \in n..(n + k - 1)
    OBVIOUS
  <2>2. \A j \in n..(n + k - 1) : j - n + 1 \in 1..k /\ n + (j - n + 1) - 1 = j
    OBVIOUS
  <2>3. B = {[run |-> r, seq |-> n + i - 1, type |-> types[i]] : i \in 1..k}
    BY DEF B, Block
  <2>4. ASSUME NEW e \in B PROVE e.seq \in n..(n + k - 1)
    BY <2>1, <2>3
  <2>5. ASSUME NEW j \in n..(n + k - 1) PROVE \E e \in B : e.seq = j
    <3>1. [run |-> r, seq |-> n + (j - n + 1) - 1, type |-> types[j - n + 1]] \in B
      BY <2>2, <2>3
    <3> QED BY <2>2, <3>1
  <2> QED BY <2>4, <2>5
<1>6. SequencesOf(r)' = SequencesOf(r) \union {e.seq : e \in B}
  BY <1>3 DEF SequencesOf
<1>7. \A s \in Runs \ {r} : SequencesOf(s)' = SequencesOf(s)
  BY <1>4 DEF SequencesOf
<1>8. 1..(n - 1) \union n..(n + k - 1) = 1..(n + k - 1)
  OBVIOUS
<1> QED BY <1>3, <1>4, <1>5, <1>6, <1>7, <1>8 DEF B

(* Nor does it make a double: its numbers are new and differ pairwise.       *)
LEMMA NoDoublesAfter ==
  ASSUME NoDoubles, NEW r \in Runs, NEW n \in Nat \ {0}, SequencesOf(r) = 1..(n - 1),
         NEW types, NEW k \in Nat \ {0}, DOMAIN types = 1..k,
         rows' = rows \union Block(r, n, types)
  PROVE  NoDoubles'
<1> DEFINE B == Block(r, n, types)
<1>1. \A e \in B : \E i \in 1..k : e = [run |-> r, seq |-> n + i - 1, type |-> types[i]]
  BY DEF Block
<1>2. \A e \in B : e.run = r /\ e.seq \in Nat /\ e.seq >= n
  BY <1>1
<1>3. \A e \in rows : e.run = r => e.seq \in 1..(n - 1)
  BY DEF SequencesOf, RowsOf
<1>4. ASSUME NEW e \in B, NEW f \in B, e.seq = f.seq PROVE e = f
  <2>1. PICK i \in 1..k : e = [run |-> r, seq |-> n + i - 1, type |-> types[i]]
    BY <1>1
  <2>2. PICK j \in 1..k : f = [run |-> r, seq |-> n + j - 1, type |-> types[j]]
    BY <1>1
  <2>3. n + i - 1 = n + j - 1
    BY <1>4, <2>1, <2>2
  <2>4. i = j
    BY <2>3
  <2> QED BY <2>1, <2>2, <2>4
<1>5. ASSUME NEW e \in rows, NEW f \in B PROVE ~(e.run = f.run /\ e.seq = f.seq)
  <2> SUFFICES ASSUME e.run = r, e.seq = f.seq PROVE FALSE
    BY <1>2
  <2>1. e.seq \in 1..(n - 1)
    BY <1>3
  <2> QED BY <2>1, <1>2
<1> HIDE DEF B
<1>6. \A e, f \in rows \union B : e.run = f.run /\ e.seq = f.seq => e = f
  BY <1>4, <1>5 DEF NoDoubles
<1> QED BY <1>6 DEF NoDoubles, B

-----------------------------------------------------------------------------
(* ReplyIsOneBlock for one run.                                              *)
NumbersOf(r, type) == {e.seq : e \in {x \in RowsOf(r) : x.type = type}}

ReplyOf(r) ==
  IF status[r] = "COMPLETED"
  THEN replies[r] = 1 /\ \E k \in SequencesOf(r) : /\ NumbersOf(r, "message.completed") = {k}
                                                  /\ NumbersOf(r, "run.completed") = {k + 1}
  ELSE replies[r] = 0 /\ \A type \in ReplyTypes : NumbersOf(r, type) = {}

LEMMA ReplyPerRun == ReplyIsOneBlock <=> \A r \in Runs : ReplyOf(r)
  BY DEF ReplyIsOneBlock, ReplyOf, NumbersOf, ReplyTypes

(* The commit of anything but a reply, and that of a reply.                  *)
LEMMA ReplyAfterOther ==
  ASSUME NEW r \in Runs, ReplyOf(r), status'[r] = status[r], replies'[r] = replies[r],
         NEW B, RowsOf(r)' = RowsOf(r) \union B, \A e \in B : e.type \notin ReplyTypes
  PROVE  ReplyOf(r)'
<1>1. ASSUME NEW type \in ReplyTypes PROVE NumbersOf(r, type)' = NumbersOf(r, type)
  <2>1. {x \in RowsOf(r)' : x.type = type} = {x \in RowsOf(r) : x.type = type}
    OBVIOUS
  <2> QED BY <2>1 DEF NumbersOf
<1>2. SequencesOf(r) \subseteq SequencesOf(r)'
  BY DEF SequencesOf
<1>3. "message.completed" \in ReplyTypes /\ "run.completed" \in ReplyTypes
  BY DEF ReplyTypes
<1>4. /\ NumbersOf(r, "message.completed")' = NumbersOf(r, "message.completed")
      /\ NumbersOf(r, "run.completed")' = NumbersOf(r, "run.completed")
  BY <1>1, <1>3
<1> QED BY <1>1, <1>2, <1>4 DEF ReplyOf

LEMMA ReplyAfterReply ==
  ASSUME NEW r \in Runs, ReplyOf(r), status[r] \in Open, status'[r] = "COMPLETED",
         replies'[r] = replies[r] + 1, NEW n \in Nat,
         RowsOf(r)' = RowsOf(r) \union
           {[run |-> r, seq |-> n, type |-> "message.completed"],
            [run |-> r, seq |-> n + 1, type |-> "run.completed"]}
  PROVE  ReplyOf(r)'
<1> DEFINE m == [run |-> r, seq |-> n, type |-> "message.completed"]
           c == [run |-> r, seq |-> n + 1, type |-> "run.completed"]
<1>1. replies[r] = 0 /\ \A type \in ReplyTypes : NumbersOf(r, type) = {}
  BY DEF ReplyOf, Open
<1>2. \A x \in RowsOf(r) : x.type \notin ReplyTypes
  BY <1>1 DEF NumbersOf
<1>3. \A x \in RowsOf(r) : x.type # "message.completed" /\ x.type # "run.completed"
  BY <1>2 DEF ReplyTypes
<1>4. {x \in RowsOf(r)' : x.type = "message.completed"} = {m}
  BY <1>3
<1>5. {x \in RowsOf(r)' : x.type = "run.completed"} = {c}
  BY <1>3
<1>8. m.seq = n /\ c.seq = n + 1 /\ m \in RowsOf(r)'
  OBVIOUS
<1> HIDE DEF m, c
<1>6. NumbersOf(r, "message.completed")' = {n} /\ NumbersOf(r, "run.completed")' = {n + 1}
  <2>1. NumbersOf(r, "message.completed")' = {e.seq : e \in {m}}
    BY <1>4 DEF NumbersOf
  <2>2. NumbersOf(r, "run.completed")' = {e.seq : e \in {c}}
    BY <1>5 DEF NumbersOf
  <2> QED BY <1>8, <2>1, <2>2
<1>7. n \in SequencesOf(r)'
  BY <1>8 DEF SequencesOf
<1> QED BY <1>1, <1>6, <1>7 DEF ReplyOf

LEMMA CommittedOrders ==
  ASSUME TypeOK, BoundedOrders, NEW t \in Txns,
         \/ tasks' = tasks
         \/ order[t] # None /\ tasks' = [tasks EXCEPT ![target[t]] = order[t]]
  PROVE  BoundedOrders' /\ tasks' \in [TaskIds -> Nat \union {None}]
<1>1. CASE tasks' = tasks
  <2>1. SortOrders' = SortOrders
    BY <1>1 DEF SortOrders
  <2> QED BY <1>1, <2>1 DEF TypeOK, BoundedOrders
<1>2. CASE order[t] # None /\ tasks' = [tasks EXCEPT ![target[t]] = order[t]]
  <2>1. PICK b \in Nat : \A x \in SortOrders : x <= b
    BY DEF BoundedOrders
  <2>2. PICK o \in Nat : o = order[t]
    BY <1>2 DEF TypeOK
  <2>3. tasks' \in [TaskIds -> Nat \union {None}]
    BY <1>2, <2>2 DEF TypeOK
  <2>4. SortOrders' \subseteq SortOrders \union {o}
    BY <1>2, <2>2 DEF SortOrders, TypeOK
  <2>5. \A x \in SortOrders \union {o} : x <= b + o
    BY <2>1, <2>2, OrdersAreNumbers
  <2>6. b + o \in Nat /\ \A x \in SortOrders' : x <= b + o
    BY <2>1, <2>2, <2>4, <2>5
  <2> QED BY <2>3, <2>6 DEF BoundedOrders
<1> QED BY <1>1, <1>2

(* What both kinds of commit do.                                             *)
LEMMA CommitReleases ==
  ASSUME TxnInvariant, NEW t \in Txns, Commit(t)
  PROVE  /\ pc[t] = "commit" /\ run[t] \in Runs /\ op[t] \in LockedOps /\ advisory[run[t]] = t
         /\ StepOf(t) /\ BoundedOrders' /\ tasks' \in [TaskIds -> Nat \union {None}]
         /\ (WorksAt(t) /\ HoldsLock(t) /\ KnowsNumber(t) /\ HoldsRow(t))'
         /\ \A r \in Runs : rowOwner'[r] # t
<1>1. /\ pc[t] = "commit" /\ End(t, "done")
      /\ \/ tasks' = tasks
         \/ order[t] # None /\ tasks' = [tasks EXCEPT ![target[t]] = order[t]]
      /\ \A r \in Runs : /\ advisory'[r] = IF advisory[r] = t THEN None ELSE advisory[r]
                         /\ rowOwner'[r] = IF rowOwner[r] = t THEN None ELSE rowOwner[r]
  BY DEF Commit, Release
<1>2. run[t] \in Runs /\ op[t] \in LockedOps
  BY <1>1 DEF TxnInvariant, WorksAt, Live
<1>3. advisory[run[t]] = t
  BY <1>1, <1>2 DEF TxnInvariant, HoldsLock, Live
<1>4. StepOf(t)
  BY <1>1 DEF StepOf, TxnInvariant, TypeOK, End, Goto
<1>5. BoundedOrders' /\ tasks' \in [TaskIds -> Nat \union {None}]
  BY <1>1, CommittedOrders DEF TxnInvariant
<1>6. (WorksAt(t) /\ HoldsLock(t) /\ KnowsNumber(t) /\ HoldsRow(t))'
  BY <1>1 DEF TxnInvariant, TypeOK, WorksAt, HoldsLock, KnowsNumber, HoldsRow, Live, End, Goto
<1>7. \A r \in Runs : rowOwner'[r] # t
  BY <1>1, TxnAssumption
<1> QED BY <1>1, <1>2, <1>3, <1>4, <1>5, <1>6, <1>7

LEMMA CommitTypes ==
  ASSUME TxnInvariant, NEW t \in Txns, Commit(t)
  PROVE  TypeOK'
<1>1. run[t] \in Runs /\ tasks' \in [TaskIds -> Nat \union {None}]
  BY CommitReleases
<1>2. rows' \subseteq Events
  BY DEF Commit, TxnInvariant, TypeOK
<1>3. replies' \in [Runs -> Nat] /\ status' \in [Runs -> {"NONE"} \union Open \union Terminal]
  BY <1>1 DEF Commit, TxnInvariant, TypeOK, Terminal
<1>4. advisory' \in [Runs -> Txns \union {None}] /\ rowOwner' \in [Runs -> Txns \union {None}]
  BY DEF Commit, Release, TxnInvariant, TypeOK
<1>5. /\ pc' \in [Txns -> Pcs] /\ op' \in [Txns -> Ops \union {None}]
      /\ run' \in [Txns -> Runs \union {None}]
      /\ target' \in [Txns -> TaskIds \union {None}] /\ order' \in [Txns -> Nat \union {None}]
      /\ next' \in [Txns -> Nat] /\ pending' \in [Txns -> SUBSET Events]
  BY DEF Commit, End, Goto, TxnInvariant, TypeOK, Pcs
<1> QED BY <1>1, <1>2, <1>3, <1>4, <1>5 DEF TypeOK

(* What the commit does to the log and the reply of its run.                 *)
CommitsLog(t) ==
  /\ \A s \in Runs \ {run[t]} : RowsOf(s)' = RowsOf(s) /\ SequencesOf(s)' = SequencesOf(s)
  /\ NoDoubles'
  /\ \E n \in Nat : \A r \in {run[t]} : SequencesOf(r)' = 1..n
  /\ \A r \in {run[t]} : ReplyOf(r)'

LEMMA CommitOfNothing ==
  ASSUME TxnInvariant, NEW t \in Txns, Commit(t), pending[t] = {}, rowOwner[run[t]] # t
  PROVE  CommitsLog(t)
<1>1. rows' = rows /\ UNCHANGED <<status, replies>>
  BY DEF Commit
<1>2. run[t] \in Runs
  BY CommitReleases
<1>3. \A r \in Runs : RowsOf(r)' = RowsOf(r) /\ SequencesOf(r)' = SequencesOf(r)
  BY <1>1 DEF RowsOf, SequencesOf
<1>4. NoDoubles'
  BY <1>1 DEF NoDoubles, TxnInvariant
<1>5. PICK r \in Runs : r = run[t]
  BY <1>2
<1>6. ReplyOf(r)'
  BY <1>1, <1>3, ReplyPerRun DEF TxnInvariant, ReplyOf, NumbersOf
<1>7. PICK n \in Nat : SequencesOf(r) = 1..n
  BY DEF TxnInvariant, DenseLogs
<1>8. SequencesOf(r)' = 1..n
  BY <1>3, <1>7
<1> QED BY <1>3, <1>4, <1>5, <1>6, <1>8 DEF CommitsLog

LEMMA CommitOfEvents ==
  ASSUME TxnInvariant, NEW t \in Txns, Commit(t), HasWritten(t)
  PROVE  CommitsLog(t)
<1>1. pc[t] = "commit" /\ run[t] \in Runs /\ op[t] \in LockedOps
  BY CommitReleases
<1>2. PICK r \in Runs : r = run[t]
  BY <1>1
<1>3. PICK n \in Nat \ {0} : n = next[t] /\ SequencesOf(r) = 1..(n - 1)
  BY <1>2 DEF HasWritten, NumberIsNext
<1>4. PICK types \in EventTypesOf(t) : pending[t] = Block(r, n, types)
  BY <1>2, <1>3 DEF HasWritten
<1>5. rows' = rows \union Block(r, n, types)
  BY <1>4 DEF Commit
<1>6. PICK k \in Nat \ {0} : DOMAIN types = 1..k
  BY <1>1, WhatIsWritten DEF IsBatch
<1>7. /\ RowsOf(r)' = RowsOf(r) \union Block(r, n, types)
      /\ SequencesOf(r)' = 1..(n + k - 1)
      /\ \A s \in Runs \ {r} : RowsOf(s)' = RowsOf(s) /\ SequencesOf(s)' = SequencesOf(s)
  BY <1>3, <1>5, <1>6, CommittedNumbers
<1>8. NoDoubles'
  BY <1>3, <1>5, <1>6, NoDoublesAfter DEF TxnInvariant
<1>9. ReplyOf(r)
  BY ReplyPerRun DEF TxnInvariant
<1>10. ReplyOf(r)'
  <2>1. CASE op[t] = "completeRunIfOpen"
    <3>1. rowOwner[r] = t /\ t # None
      BY <1>2, <2>1, TxnAssumption DEF HasWritten
    <3>2. status[r] \in Open
      BY <3>1 DEF TxnInvariant, RowIsHeld
    <3>3. status'[r] = "COMPLETED" /\ replies'[r] = replies[r] + 1
      BY <1>2, <3>1 DEF Commit, TxnInvariant, TypeOK
    <3>4. DOMAIN types = 1..2 /\ types[1] = "message.completed" /\ types[2] = "run.completed"
      BY <1>1, <2>1, WhatIsWritten
    <3>5. Block(r, n, types) = {[run |-> r, seq |-> n + 1 - 1, type |-> types[1]],
                                [run |-> r, seq |-> n + 2 - 1, type |-> types[2]]}
      BY <3>4 DEF Block
    <3>6. n + 1 - 1 = n /\ n + 2 - 1 = n + 1
      OBVIOUS
    <3>7. Block(r, n, types) = {[run |-> r, seq |-> n, type |-> "message.completed"],
                                [run |-> r, seq |-> n + 1, type |-> "run.completed"]}
      BY <3>4, <3>5, <3>6
    <3> QED BY <1>7, <1>9, <3>2, <3>3, <3>7, ReplyAfterReply
  <2>2. CASE op[t] # "completeRunIfOpen"
    <3>1. rowOwner[r] # t
      BY <1>2, <2>2, TxnAssumption DEF TxnInvariant, RowIsHeld
    <3>2. status'[r] = status[r] /\ replies'[r] = replies[r]
      BY <1>2, <3>1 DEF Commit
    <3>3. \A e \in Block(r, n, types) : e.type \notin ReplyTypes
      BY <1>1, <2>2, WhatIsWritten DEF Block
    <3> QED BY <1>7, <1>9, <3>2, <3>3, ReplyAfterOther
  <2> QED BY <2>1, <2>2
<1>11. n + k - 1 \in Nat
  OBVIOUS
<1> QED BY <1>2, <1>7, <1>8, <1>10, <1>11 DEF CommitsLog

LEMMA AfterCommit ==
  ASSUME TxnInvariant, NEW t \in Txns, Commit(t)
  PROVE  TxnInvariant'
<1>1. PICK r \in Runs : r = run[t]
  BY CommitReleases
<1>2. CommitsLog(t)
  BY CommitReleases, CommitOfNothing, CommitOfEvents DEF TxnInvariant, KnowsNumber
<1>3. DenseLogs'
  <2> SUFFICES ASSUME NEW s \in Runs PROVE (\E n \in Nat : SequencesOf(s) = 1..n)'
    BY DEF DenseLogs
  <2>1. CASE s = r
    BY <1>1, <1>2, <2>1 DEF CommitsLog
  <2>2. CASE s # r
    BY <1>1, <1>2, <2>2 DEF CommitsLog, TxnInvariant, DenseLogs
  <2> QED BY <2>1, <2>2
<1>4. \A s \in Runs \ {r} : status'[s] = status[s] /\ replies'[s] = replies[s]
  BY <1>1 DEF Commit, TxnInvariant, TypeOK
<1>5. \A s \in Runs : ReplyOf(s)'
  <2> TAKE s \in Runs
  <2>1. CASE s = r
    BY <1>1, <1>2, <2>1 DEF CommitsLog
  <2>2. CASE s # r
    <3>1. RowsOf(s)' = RowsOf(s) /\ SequencesOf(s)' = SequencesOf(s)
      BY <1>1, <1>2, <2>2 DEF CommitsLog
    <3>2. ReplyOf(s)
      BY ReplyPerRun DEF TxnInvariant
    <3> QED BY <1>4, <2>2, <3>1, <3>2 DEF ReplyOf, NumbersOf
  <2> QED BY <2>1, <2>2
<1>6. ReplyIsOneBlock'
  BY <1>5 DEF ReplyIsOneBlock, ReplyOf, NumbersOf, ReplyTypes
<1>7. \A s \in Runs : advisory[s] \in Txns \ {t} => SequencesOf(s)' = SequencesOf(s)
  BY <1>1, <1>2, CommitReleases DEF CommitsLog
<1>8. \A s \in Runs : rowOwner[s] \in Txns \ {t} => status'[s] = status[s]
  BY <1>1, <1>4 DEF Commit
<1>9. \A s \in Runs : rowOwner'[s] = t => RowIsHeld(s)'
  BY CommitReleases
<1>10. /\ (\A u \in Txns : WorksAt(u) /\ HoldsLock(u) /\ KnowsNumber(u) /\ HoldsRow(u))'
       /\ (\A s \in Runs : RowIsHeld(s))'
  BY <1>7, <1>8, <1>9, CommitReleases, OthersAfterStep
<1> QED BY <1>2, <1>3, <1>6, <1>10, CommitReleases, CommitTypes DEF TxnInvariant, CommitsLog

-----------------------------------------------------------------------------
(* Every transaction leaves the invariant as it found it.                    *)
LEMMA TxnStep == TxnInvariant /\ [Next]_vars => TxnInvariant'
<1> SUFFICES ASSUME TxnInvariant, [Next]_vars PROVE TxnInvariant'
  OBVIOUS
<1>1. CASE UNCHANGED vars
  <2>1. UNCHANGED <<status, rows, replies, tasks, advisory, rowOwner, pc, op, run, target, order, next,
                  pending>>
    BY <1>1 DEF vars, database, locks, locals
  <2>2. TypeOK'
    BY <2>1 DEF TxnInvariant, TypeOK
  <2>3. (DenseLogs /\ NoDoubles /\ BoundedOrders /\ ReplyIsOneBlock)'
    BY <2>1, DatabaseKept DEF database
  <2>4. \A r \in Runs : SequencesOf(r)' = SequencesOf(r)
    BY <2>1 DEF SequencesOf, RowsOf
  <2>5. \A u \in Txns : (WorksAt(u) /\ HoldsLock(u) /\ KnowsNumber(u) /\ HoldsRow(u))'
    BY <2>1, <2>4, OthersKeep
  <2>6. \A r \in Runs : RowIsHeld(r)'
    BY <2>1 DEF TxnInvariant, RowIsHeld
  <2> QED BY <2>2, <2>3, <2>5, <2>6 DEF TxnInvariant
<1>2. ASSUME NEW r \in Runs, CreateRun(r) PROVE TxnInvariant'
  BY <1>2, AfterCreateRun
<1>3. ASSUME NEW t \in Txns, Step(t) PROVE TxnInvariant'
  BY <1>3, AfterBegin, AfterLock, AfterCompleteUpdate, AfterConditionalUpdate, AfterSortOrder,
     AfterTaskStatement, AfterNextSequence, AfterInsertEvents, AfterCommit DEF Step
<1>4. ASSUME NEW t \in Txns, Rollback(t) PROVE TxnInvariant'
  BY <1>4, AfterRollback
<1> QED BY <1>1, <1>2, <1>3, <1>4 DEF Next, Terminating

(* agentRepository.ts:515-719 — the inductive invariant of the transactions. *)
THEOREM TxnInvariantTheorem == Spec => []TxnInvariant
<1> QED BY TxnInitially, TxnStep, PTL DEF Spec

(* agentRepository.ts:64-77, 652-719 — whatever the interleaving of any      *)
(* number of transactions, the committed events of every run are numbered    *)
(* 1, 2, 3, ... without a double, and a reply is committed exactly with the  *)
(* completion of its run, its two events side by side.                       *)
THEOREM LogTheorem == Spec => []LogInvariant
<1>1. TxnInvariant => LogInvariant
  <2> SUFFICES ASSUME TxnInvariant PROVE LogInvariant
    OBVIOUS
  <2>1. ASSUME NEW e \in rows PROVE e.seq >= 1 /\ 1..e.seq \subseteq SequencesOf(e.run)
    <3>1. e.run \in Runs /\ e.seq \in SequencesOf(e.run)
      BY DEF TxnInvariant, TypeOK, Events, SequencesOf, RowsOf
    <3>2. PICK n \in Nat : SequencesOf(e.run) = 1..n
      BY <3>1 DEF TxnInvariant, DenseLogs
    <3> QED BY <3>1, <3>2
  <2>2. SequencesGapFree
    BY <2>1 DEF TxnInvariant, NoDoubles, SequencesGapFree
  <2> QED BY <2>2 DEF TxnInvariant, LogInvariant
<1> QED BY <1>1, TxnInvariantTheorem, PTL

-----------------------------------------------------------------------------
(* The refinement of the abstract log.  A transaction works on a run that    *)
(* has been created, and no run disappears.                                  *)
RunsExist == \A t \in Txns : Live(t) => status[run[t]] # "NONE"

LEMMA StatusIsNeverLost ==
  ASSUME TxnInvariant, [Next]_vars
  PROVE  \A r \in Runs : status[r] # "NONE" => status'[r] # "NONE"
<1>1. CASE UNCHANGED vars
  BY <1>1 DEF vars, database
<1>2. ASSUME NEW r \in Runs, CreateRun(r) PROVE \A s \in Runs : status[s] # "NONE" => status'[s] # "NONE"
  BY <1>2 DEF CreateRun, TxnInvariant, TypeOK
<1>3. ASSUME NEW t \in Txns, ConditionalUpdate(t)
      PROVE  \A s \in Runs : status[s] # "NONE" => status'[s] # "NONE"
  BY <1>3 DEF ConditionalUpdate, UpdateOps, TxnInvariant, TypeOK
<1>4. ASSUME NEW t \in Txns, Commit(t) PROVE \A s \in Runs : status[s] # "NONE" => status'[s] # "NONE"
  BY <1>4 DEF Commit, TxnInvariant, TypeOK
<1>5. ASSUME NEW t \in Txns, Step(t) \/ Rollback(t), ~ConditionalUpdate(t), ~Commit(t)
      PROVE  status' = status
  BY <1>5 DEF Step, Begin, LockRunForSequence, CompleteUpdate, ReadSortOrder, UpdateTask, TakeTaskKey,
     NextRunEventSequence, InsertEvents, Rollback, database
<1> QED BY <1>1, <1>2, <1>3, <1>4, <1>5 DEF Next, Terminating

LEMMA LiveWhere ==
  ASSUME TxnInvariant, NEW t \in Txns, Step(t) \/ Rollback(t), NEW u \in Txns, Live(u)'
  PROVE  (Live(u) /\ run'[u] = run[u]) \/ (run'[u] \in Runs /\ status[run'[u]] # "NONE")
<1>1. CASE Begin(t)
  BY <1>1 DEF Begin, Goto, Live, TxnInvariant, TypeOK
<1>2. CASE LockRunForSequence(t)
  BY <1>2 DEF LockRunForSequence, Goto, Live, locals, TxnInvariant, TypeOK
<1>3. CASE CompleteUpdate(t)
  BY <1>3 DEF CompleteUpdate, Goto, Live, locals, TxnInvariant, TypeOK
<1>4. CASE ConditionalUpdate(t)
  BY <1>4 DEF ConditionalUpdate, End, Goto, Live, TxnInvariant, TypeOK
<1>5. CASE ReadSortOrder(t)
  BY <1>5 DEF ReadSortOrder, Goto, Live, TxnInvariant, TypeOK
<1>6. CASE UpdateTask(t) \/ TakeTaskKey(t)
  BY <1>6 DEF UpdateTask, TakeTaskKey, Goto, Live, locals, TxnInvariant, TypeOK
<1>7. CASE NextRunEventSequence(t)
  BY <1>7 DEF NextRunEventSequence, Goto, Live, TxnInvariant, TypeOK
<1>8. CASE InsertEvents(t)
  BY <1>8 DEF InsertEvents, Goto, Live, TxnInvariant, TypeOK
<1>9. CASE Commit(t)
  BY <1>9 DEF Commit, End, Goto, Live, TxnInvariant, TypeOK
<1>10. CASE Rollback(t)
  BY <1>10 DEF Rollback, End, Goto, Live, TxnInvariant, TypeOK
<1> QED BY <1>1, <1>2, <1>3, <1>4, <1>5, <1>6, <1>7, <1>8, <1>9, <1>10 DEF Step

LEMMA RunsExistStep == TxnInvariant /\ RunsExist /\ [Next]_vars => RunsExist'
<1> SUFFICES ASSUME TxnInvariant, RunsExist, [Next]_vars, NEW u \in Txns, Live(u)'
             PROVE  status'[run'[u]] # "NONE"
  BY DEF RunsExist
<1>1. (Live(u) /\ run'[u] = run[u]) \/ (run'[u] \in Runs /\ status[run'[u]] # "NONE")
  <2>1. CASE \E t \in Txns : Step(t) \/ Rollback(t)
    BY <2>1, LiveWhere
  <2>2. CASE \/ UNCHANGED vars
             \/ \E r \in Runs : CreateRun(r)
    BY <2>2 DEF vars, locals, CreateRun, Live
  <2> QED BY <2>1, <2>2 DEF Next, Terminating
<1>2. run'[u] \in Runs /\ status[run'[u]] # "NONE"
  BY <1>1 DEF RunsExist, TxnInvariant, WorksAt
<1> QED BY <1>2, StatusIsNeverLost

-----------------------------------------------------------------------------
(* The log of a set of rows numbered 1..n, and what a block appends to it.   *)
Sorted(R, n) == [i \in 1..n |-> (CHOOSE e \in R : e.seq = i).type]

LEMMA EntryOf ==
  ASSUME NEW R, \A e, f \in R : e.seq = f.seq => e = f, NEW e \in R
  PROVE  (CHOOSE x \in R : x.seq = e.seq) = e
OBVIOUS

NumberedTo(R, n) == {e.seq : e \in R} = 1..n /\ \A e \in R : e.type \in EventTypes
Distinct(R) == \A e, f \in R : e.seq = f.seq => e = f

Appends(r, R, n, types) ==
  /\ Sorted(R, n) \in Seq(EventTypes)
  /\ Sorted(R \union Block(r, n + 1, types), n + Len(types)) = Sorted(R, n) \o types

LEMMA BlockAppends ==
  ASSUME NEW r, NEW n \in Nat, NEW R, NumberedTo(R, n), NEW types \in Seq(EventTypes),
         Distinct(R \union Block(r, n + 1, types))
  PROVE  Appends(r, R, n, types)
<1>0. PICK k \in Nat : Len(types) = k
  OBVIOUS
<1> USE <1>0
<1> DEFINE B == Block(r, n + 1, types)
           T == R \union B
           s == Sorted(R, n)
           u == Sorted(T, n + k)
<1> USE DEF NumberedTo, Distinct
<1>1. ASSUME NEW i \in 1..n PROVE s[i] \in EventTypes /\ u[i] = s[i]
  <2>1. PICK e \in R : e.seq = i
    BY DEF NumberedTo
  <2>2. (CHOOSE x \in R : x.seq = i) = e
    BY <2>1, EntryOf
  <2>3. (CHOOSE x \in T : x.seq = i) = e
    BY <2>1, EntryOf
  <2>4. i \in 1..(n + k)
    OBVIOUS
  <2>5. e.type \in EventTypes
    BY <2>1
  <2>6. s[i] = (CHOOSE x \in R : x.seq = i).type
    BY Zenon DEF Sorted
  <2>7. u[i] = (CHOOSE x \in T : x.seq = i).type
    BY <2>4, Zenon DEF Sorted
  <2> QED BY <2>2, <2>3, <2>5, <2>6, <2>7, Zenon
<1>2. ASSUME NEW j \in 1..k PROVE u[n + j] = types[j]
  <2>1. j \in DOMAIN types
    OBVIOUS
  <2>2. PICK e \in B : e = [run |-> r, seq |-> n + 1 + j - 1, type |-> types[j]]
    BY <2>1 DEF Block
  <2>3. e.seq = n + j /\ e.type = types[j] /\ e \in T
    BY <2>2
  <2>4. (CHOOSE x \in T : x.seq = n + j) = e
    BY <2>3, EntryOf
  <2>5. n + j \in 1..(n + k)
    OBVIOUS
  <2> QED BY <2>3, <2>4, <2>5 DEF Sorted
<1>3. s \in Seq(EventTypes) /\ Len(s) = n
  <2>1. s \in [1..n -> EventTypes]
    BY <1>1 DEF Sorted
  <2> HIDE DEF s
  <2> QED BY <2>1
<1>4. u = [i \in 1..(n + k) |-> u[i]]
  BY DEF Sorted
<1> HIDE DEF s, u, T, B
<1>5. s \o types \in Seq(EventTypes) /\ Len(s \o types) = n + k
  BY <1>3, ConcatProperties
<1>6. ASSUME NEW i \in 1..(n + k) PROVE u[i] = (s \o types)[i]
  <2>1. CASE i <= n
    <3>1. i \in 1..n
      BY <2>1
    <3> QED BY <3>1, <1>1, <1>3, ConcatProperties
  <2>2. CASE i > n
    <3>1. i - n \in 1..k /\ n + (i - n) = i
      BY <2>2
    <3>2. u[i] = types[i - n]
      BY <1>2, <3>1
    <3>3. (s \o types)[i] = types[i - n]
      BY <1>3, <2>2, ConcatProperties
    <3> QED BY <3>2, <3>3
  <2>3. i <= n \/ i > n
    OBVIOUS
  <2> QED BY <2>1, <2>2, <2>3
<1>7. \A i \in 1..(n + k) : (s \o types)[i] \in EventTypes
  BY <1>5, ElementOfSeq
<1>8. u \in [1..(n + k) -> EventTypes]
  BY <1>4, <1>6, <1>7
<1>9. u \in Seq(EventTypes) /\ Len(u) = n + k
  BY <1>8
<1>10. u = s \o types
  BY <1>5, <1>6, <1>9, SeqEqual
<1> QED BY <1>0, <1>3, <1>10 DEF Appends, s, u, T, B

-----------------------------------------------------------------------------
(* The refinement mapping.                                                   *)
Logs == [r \in Runs |-> LogOf(r)]

LogFrom(R, S) == [i \in 1..Max({0} \union S) |-> (CHOOSE e \in R : e.seq = i).type]

LEMMA LogFromRows ==
  ASSUME NEW r \in Runs
  PROVE  /\ LogOf(r) = LogFrom(RowsOf(r), SequencesOf(r))
         /\ LogOf(r)' = LogFrom(RowsOf(r)', SequencesOf(r)')
<1>1. LogOf(r) = LogFrom(RowsOf(r), SequencesOf(r))
  BY Zenon DEF LogOf, LogFrom
<1>2. LogOf(r)' = LogFrom(RowsOf(r)', SequencesOf(r)')
  BY Zenon DEF LogOf, LogFrom
<1> QED BY <1>1, <1>2

LEMMA LogsKept ==
  ASSUME rows' = rows
  PROVE  Logs' = Logs
<1>1. \A r \in Runs : RowsOf(r)' = RowsOf(r) /\ SequencesOf(r)' = SequencesOf(r)
  BY DEF RowsOf, SequencesOf
<1>2. \A r \in Runs : LogOf(r)' = LogOf(r)
  BY <1>1, LogFromRows
<1> QED BY <1>2 DEF Logs

LEMMA TypesAreSequences ==
  ASSUME NEW t, op[t] \in LockedOps, NEW types \in EventTypesOf(t)
  PROVE  /\ types \in Seq(EventTypes)
         /\ op[t] = "completeRunIfOpen" => types = <<"message.completed", "run.completed">>
         /\ op[t] # "completeRunIfOpen" =>
              \/ \E type \in {"task.updated", "tool.started", "source.added"} : types = <<type>>
              \/ \E n \in 2..MaxBatch : types = [i \in 1..n |-> "source.added"]
<1> USE DEF EventTypesOf, EventTypes, TaskOps
<1>1. CASE op[t] = "completeRunIfOpen"
  <2>1. types = <<"message.completed", "run.completed">>
    BY <1>1
  <2>2. types \in Seq(EventTypes)
    BY <2>1
  <2> QED BY <1>1, <2>1, <2>2
<1>2. CASE op[t] \in TaskOps
  <2>1. types = <<"task.updated">>
    BY <1>2
  <2>2. types \in Seq(EventTypes)
    BY <2>1
  <2> QED BY <1>2, <2>1, <2>2
<1>3. CASE op[t] = "createSourcesAndEvents"
  <2>1. PICK k \in 1..MaxBatch : types = [i \in 1..k |-> "source.added"]
    BY <1>3
  <2>2. types \in Seq(EventTypes)
    BY <2>1, TxnAssumption
  <2>3. CASE k = 1
    <3>1. types = <<"source.added">>
      BY <2>1, <2>3
    <3> QED BY <1>3, <2>2, <3>1
  <2>4. CASE k # 1
    <3>1. k \in 2..MaxBatch
      BY <2>4, TxnAssumption
    <3> QED BY <1>3, <2>1, <2>2, <3>1
  <2> QED BY <2>3, <2>4
<1>4. CASE op[t] = "createRunEvent"
  <2>1. types = <<"tool.started">>
    BY <1>4
  <2>2. types \in Seq(EventTypes)
    BY <2>1
  <2> QED BY <1>4, <2>1, <2>2
<1> QED BY <1>1, <1>2, <1>3, <1>4 DEF LockedOps, EventOps

LEMMA CommitAppends ==
  ASSUME TxnInvariant, NEW t \in Txns, Commit(t), HasWritten(t)
  PROVE  \E types \in EventTypesOf(t) :
           /\ LogOf(run[t]) \in Seq(EventTypes)
           /\ Logs' = [Logs EXCEPT ![run[t]] = @ \o types]
<1>1. pc[t] = "commit" /\ run[t] \in Runs /\ op[t] \in LockedOps
  BY CommitReleases
<1>2. PICK r \in Runs : r = run[t]
  BY <1>1
<1>3. PICK n \in Nat \ {0} : n = next[t] /\ SequencesOf(r) = 1..(n - 1)
  BY <1>2 DEF HasWritten, NumberIsNext
<1>4. PICK types \in EventTypesOf(t) : pending[t] = Block(r, n, types)
  BY <1>2, <1>3 DEF HasWritten
<1>5. PICK k \in Nat \ {0} : DOMAIN types = 1..k
  BY <1>1, WhatIsWritten DEF IsBatch
<1>6. types \in Seq(EventTypes) /\ Len(types) = k
  BY <1>1, <1>5, TypesAreSequences
<1>7. rows' = rows \union Block(r, n, types)
  BY <1>4 DEF Commit
<1>8. /\ RowsOf(r)' = RowsOf(r) \union Block(r, n, types)
      /\ SequencesOf(r)' = 1..(n + k - 1)
      /\ \A s \in Runs \ {r} : RowsOf(s)' = RowsOf(s) /\ SequencesOf(s)' = SequencesOf(s)
  BY <1>3, <1>5, <1>7, CommittedNumbers
<1>9. NoDoubles'
  BY <1>3, <1>5, <1>7, NoDoublesAfter DEF TxnInvariant
<1>10. PICK m \in Nat : m = n - 1
  OBVIOUS
<1>11. n = m + 1 /\ n + k - 1 = m + k /\ m + k \in Nat
  BY <1>10
<1>12. {e.seq : e \in RowsOf(r)} = 1..m
  BY <1>3, <1>10 DEF SequencesOf
<1>13. \A e \in RowsOf(r) : e.type \in EventTypes
  BY DEF TxnInvariant, TypeOK, Events, RowsOf
<1>14. \A e, f \in RowsOf(r) \union Block(r, m + 1, types) : e.seq = f.seq => e = f
  <2>1. \A e, f \in RowsOf(r)' : e.seq = f.seq => e = f
    BY <1>9 DEF NoDoubles, RowsOf
  <2> QED BY <1>8, <1>11, <2>1
<1>15. /\ Sorted(RowsOf(r), m) \in Seq(EventTypes)
       /\ Sorted(RowsOf(r) \union Block(r, m + 1, types), m + k) = Sorted(RowsOf(r), m) \o types
  <2>1. types \in Seq(EventTypes)
    BY <1>6
  <2>2. NumberedTo(RowsOf(r), m) /\ Distinct(RowsOf(r) \union Block(r, m + 1, types))
    BY <1>12, <1>13, <1>14 DEF NumberedTo, Distinct
  <2>3. Appends(r, RowsOf(r), m, types)
    BY <2>1, <2>2, BlockAppends, Zenon
  <2> QED BY <1>6, <2>3 DEF Appends
<1>16. LogOf(r) = Sorted(RowsOf(r), m)
  BY <1>3, <1>10, MaxOfSegment DEF LogOf, Sorted
<1>17. LogOf(r)' = Sorted(RowsOf(r) \union Block(r, m + 1, types), m + k)
  <2>1. Max({0} \union SequencesOf(r)') = m + k
    BY <1>8, <1>11, MaxOfSegment
  <2>2. LogOf(r)' = [i \in 1..(m + k) |-> (CHOOSE e \in RowsOf(r)' : e.seq = i).type]
    BY <2>1 DEF LogOf
  <2> QED BY <1>8, <1>11, <2>2 DEF Sorted
<1>18. LogOf(r)' = LogOf(r) \o types
  BY <1>15, <1>16, <1>17
<1>19. \A s \in Runs \ {r} : LogOf(s)' = LogOf(s)
  BY <1>8, LogFromRows
<1>20. Logs' = [Logs EXCEPT ![r] = @ \o types]
  BY <1>18, <1>19 DEF Logs
<1> QED BY <1>2, <1>15, <1>16, <1>20

-----------------------------------------------------------------------------
(* Each statement is a step of the abstract log or changes nothing there.    *)
Unseen == UNCHANGED <<status, Logs, replies>>

LEMMA LogInitially == Init => Log!Init
<1> SUFFICES ASSUME Init PROVE Log!Init
  OBVIOUS
<1>1. \A r \in Runs : SequencesOf(r) = 1..0
  BY DEF Init, SequencesOf, RowsOf
<1>2. \A r \in Runs : LogOf(r) = <<>>
  BY <1>1, MaxOfSegment DEF LogOf
<1> QED BY <1>2 DEF Init, Log!Init

LEMMA CreateRunIsCreate ==
  ASSUME NEW r \in Runs, CreateRun(r)
  PROVE  Log!Create(r)
  BY LogsKept DEF CreateRun, Log!Create, Logs

LEMMA ConditionalUpdateIsOne ==
  ASSUME TxnInvariant, NEW t \in Txns, ConditionalUpdate(t)
  PROVE  Log!Next \/ Unseen
<1>1. run[t] \in Runs /\ op[t] \in UpdateOps
  BY DEF ConditionalUpdate, TxnInvariant, WorksAt, Live
<1>2. PICK r \in Runs : r = run[t]
  BY <1>1
<1>3. Logs' = Logs /\ replies' = replies
  BY LogsKept DEF ConditionalUpdate
<1>4. CASE status' = status
  BY <1>3, <1>4 DEF Unseen
<1>5. CASE status' # status /\ op[t] = "startRun"
  <2>1. Log!Start(r)
    BY <1>2, <1>3, <1>5 DEF ConditionalUpdate, Log!Start, Logs
  <2> QED BY <2>1 DEF Log!Next
<1>6. CASE status' # status /\ op[t] # "startRun"
  <2>1. PICK to \in {"FAILED", "CANCELLED"} :
          status[r] \in Open /\ status' = [status EXCEPT ![r] = to]
    BY <1>1, <1>2, <1>6 DEF ConditionalUpdate, UpdateOps
  <2>2. Log!Close(r, to)
    BY <1>3, <2>1 DEF Log!Close, Logs, Open, Log!Open
  <2> QED BY <2>2 DEF Log!Next
<1> QED BY <1>4, <1>5, <1>6

LEMMA CommitIsOne ==
  ASSUME TxnInvariant, RunsExist, NEW t \in Txns, Commit(t)
  PROVE  Log!Next \/ Unseen
<1>1. pc[t] = "commit" /\ run[t] \in Runs /\ op[t] \in LockedOps
  BY CommitReleases
<1>2. CASE ~HasWritten(t)
  <2>1. pending[t] = {} /\ rowOwner[run[t]] # t
    BY <1>1, <1>2 DEF TxnInvariant, KnowsNumber
  <2>2. rows' = rows /\ UNCHANGED <<status, replies>>
    BY <2>1 DEF Commit
  <2> QED BY <2>2, LogsKept DEF Unseen
<1>3. CASE HasWritten(t)
  <2>1. PICK types \in EventTypesOf(t) :
          LogOf(run[t]) \in Seq(EventTypes) /\ Logs' = [Logs EXCEPT ![run[t]] = @ \o types]
    BY <1>3, CommitAppends
  <2>2. PICK r \in Runs : r = run[t]
    BY <1>1
  <2>3. LogOf(r) \in Seq(EventTypes) /\ Logs' = [Logs EXCEPT ![r] = @ \o types] /\ Logs[r] = LogOf(r)
    BY <2>1, <2>2 DEF Logs
  <2>4. CASE op[t] = "completeRunIfOpen"
    <3>1. rowOwner[r] = t
      BY <1>3, <2>2, <2>4 DEF HasWritten
    <3>2. status[r] \in Open
      BY <3>1, TxnAssumption DEF TxnInvariant, RowIsHeld
    <3>3. types = <<"message.completed", "run.completed">>
      BY <1>1, <2>4, TypesAreSequences
    <3>4. /\ status' = [status EXCEPT ![r] = "COMPLETED"]
          /\ replies' = [replies EXCEPT ![r] = @ + 1]
      BY <2>2, <3>1 DEF Commit
    <3>5. Log!Complete(r)
      BY <2>3, <3>2, <3>3, <3>4 DEF Log!Complete, Log!CompletionEvents, Log!Open, Open, Logs
    <3> QED BY <3>5 DEF Log!Next
  <2>5. CASE op[t] # "completeRunIfOpen"
    <3>1. rowOwner[r] # t
      BY <2>2, <2>5, TxnAssumption DEF TxnInvariant, RowIsHeld
    <3>2. UNCHANGED <<status, replies>>
      BY <2>2, <3>1 DEF Commit
    <3>3. status[r] # "NONE"
      BY <1>1, <2>2 DEF RunsExist, Live
    <3>4. CASE \E type \in {"task.updated", "tool.started", "source.added"} : types = <<type>>
      <4>1. PICK type \in {"task.updated", "tool.started", "source.added"} : types = <<type>>
        BY <3>4
      <4>2. Append(LogOf(r), type) = LogOf(r) \o types
        BY <2>3, <4>1, AppendIsConcat DEF EventTypes
      <4>3. Logs' = [Logs EXCEPT ![r] = Append(@, type)]
        BY <2>3, <4>2
      <4>4. Log!Append1(r, type) /\ type \in Log!ProgressTypes
        BY <3>2, <3>3, <4>3 DEF Log!Append1, Log!ProgressTypes, Logs
      <4> QED BY <4>4 DEF Log!Next
    <3>5. CASE \E n \in 2..MaxBatch : types = [i \in 1..n |-> "source.added"]
      <4>1. PICK n \in 2..MaxBatch : types = [i \in 1..n |-> "source.added"]
        BY <3>5
      <4>2. Log!AppendBatch(r, "source.added", n)
        BY <2>3, <3>2, <3>3, <4>1 DEF Log!AppendBatch, Logs
      <4> QED BY <4>2 DEF Log!Next
    <3> QED BY <1>1, <2>5, <3>4, <3>5, TypesAreSequences
  <2> QED BY <2>4, <2>5
<1> QED BY <1>2, <1>3

LEMMA OthersAreUnseen ==
  ASSUME NEW t \in Txns, Step(t) \/ Rollback(t), ~ConditionalUpdate(t), ~Commit(t)
  PROVE  Unseen
<1>1. UNCHANGED database
  BY DEF Step, Begin, LockRunForSequence, CompleteUpdate, ReadSortOrder, UpdateTask, TakeTaskKey,
     NextRunEventSequence, InsertEvents, Rollback, Commit, ConditionalUpdate
<1> QED BY <1>1, LogsKept DEF database, Unseen

LEMMA LogStep ==
  TxnInvariant /\ RunsExist /\ [Next]_vars => [Log!Next]_Log!vars
<1> SUFFICES ASSUME TxnInvariant, RunsExist, [Next]_vars PROVE Log!Next \/ UNCHANGED Log!vars
  OBVIOUS
<1>1. Unseen => UNCHANGED Log!vars
  BY DEF Unseen, Log!vars, Logs
<1>2. CASE UNCHANGED vars
  <2>1. Unseen
    BY <1>2, LogsKept DEF vars, database, Unseen
  <2> QED BY <1>1, <2>1
<1>3. ASSUME NEW r \in Runs, CreateRun(r) PROVE Log!Next
  BY <1>3, CreateRunIsCreate DEF Log!Next
<1>4. ASSUME NEW t \in Txns, Step(t) \/ Rollback(t) PROVE Log!Next \/ Unseen
  BY <1>4, ConditionalUpdateIsOne, CommitIsOne, OthersAreUnseen
<1> QED BY <1>1, <1>2, <1>3, <1>4 DEF Next, Terminating

(* agentRepository.ts:515-719 — every operation of several statements takes  *)
(* effect in one step or not at all: the committed rows behave like the      *)
(* abstract run, whose log only grows and whose reply comes with its end.    *)
THEOREM LogRefinement == Spec => ImplementsRunLog
<1>1. Spec => []RunsExist
  <2>1. Init => RunsExist
    BY DEF Init, RunsExist, Live
  <2> QED BY <2>1, RunsExistStep, TxnInvariantTheorem, PTL DEF Spec
<1> QED BY <1>1, LogInitially, LogStep, TxnInvariantTheorem, PTL DEF Spec, ImplementsRunLog, Log!Spec

(***************************************************************************)
(* Usage and cost reports, and the share page.                             *)
(***************************************************************************)
(* Pricing twice is pricing once.                                            *)
LEMMA CountIs ==
  ASSUME NEW n \in Int
  PROVE  Count(n) = IF n > 0 THEN n ELSE 0
<1>1. PICK m \in {n, 0} : \A y \in {n, 0} : m >= y
  <2>1. CASE n > 0
    BY <2>1
  <2>2. CASE ~(n > 0)
    BY <2>2
  <2> QED BY <2>1, <2>2
<1>2. Count(n) \in {n, 0} /\ \A y \in {n, 0} : Count(n) >= y
  BY <1>1 DEF Count, Max
<1> QED BY <1>2

LEMMA CountTwice ==
  ASSUME NEW n \in Int
  PROVE  Count(n) \in Nat /\ Count(Count(n)) = Count(n)
<1>1. Count(n) \in Nat
  BY CountIs
<1>2. Count(Count(n)) = IF Count(n) > 0 THEN Count(n) ELSE 0
  BY <1>1, CountIs
<1> QED BY <1>1, <1>2

(* A cost depends on the model and the counts only.                          *)
LEMMA CostReads ==
  ASSUME NEW m, NEW c, NEW d, c.prompt = d.prompt, c.cached = d.cached, c.output = d.output,
         c.thoughts = d.thoughts
  PROVE  EstimateVertexCost(m, c) = EstimateVertexCost(m, d)
BY DEF EstimateVertexCost

LEMMA NormalizedIs ==
  ASSUME NEW e, IsEntry(e)
  PROVE  \E cost :
           /\ cost = EstimateVertexCost(e.model,
                [model |-> e.model, prompt |-> Count(e.prompt), cached |-> Min({e.cached, Count(e.prompt)}),
                 output |-> Count(e.output), thoughts |-> e.thoughts, total |-> Count(e.total),
                 cost |-> e.cost, usable |-> e.usable])
           /\ NormalizeEntry(e) =
                [model |-> e.model, prompt |-> Count(e.prompt), cached |-> e.cached, output |-> Count(e.output),
                 thoughts |-> e.thoughts, total |-> Count(e.total), cost |-> cost, usable |-> e.usable]
<1> DEFINE f == [model |-> e.model, prompt |-> Count(e.prompt), cached |-> e.cached, output |-> Count(e.output),
                 thoughts |-> e.thoughts, total |-> Count(e.total), cost |-> e.cost, usable |-> e.usable]
           g == [f EXCEPT !.cached = Min({e.cached, Count(e.prompt)})]
<1>1. f = [e EXCEPT !.prompt = Count(@), !.output = Count(@), !.total = Count(@)]
  <2>1. PICK m, p, c, o, h, t, k, u :
          e = [model |-> m, prompt |-> p, cached |-> c, output |-> o, thoughts |-> h, total |-> t, cost |-> k, usable |-> u]
    BY DEF IsEntry
  <2>2. /\ e.model = m /\ e.prompt = p /\ e.cached = c /\ e.output = o /\ e.thoughts = h /\ e.total = t
        /\ e.cost = k /\ e.usable = u
    BY <2>1
  <2>3. [e EXCEPT !.prompt = Count(p)]
          = [model |-> m, prompt |-> Count(p), cached |-> c, output |-> o, thoughts |-> h, total |-> t, cost |-> k, usable |-> u]
    BY <2>1
  <2>4. PICK f1 : f1 = [model |-> m, prompt |-> Count(p), cached |-> c, output |-> o, thoughts |-> h, total |-> t,
                        cost |-> k, usable |-> u]
    OBVIOUS
  <2>5. [f1 EXCEPT !.output = Count(o)]
          = [model |-> m, prompt |-> Count(p), cached |-> c, output |-> Count(o), thoughts |-> h, total |-> t,
             cost |-> k, usable |-> u]
    BY <2>4
  <2>6. PICK f2 : f2 = [model |-> m, prompt |-> Count(p), cached |-> c, output |-> Count(o), thoughts |-> h, total |-> t,
                        cost |-> k, usable |-> u]
    OBVIOUS
  <2>7. [f2 EXCEPT !.total = Count(t)]
          = [model |-> m, prompt |-> Count(p), cached |-> c, output |-> Count(o), thoughts |-> h, total |-> Count(t),
             cost |-> k, usable |-> u]
    BY <2>6
  <2>8. [e EXCEPT !.prompt = Count(@), !.output = Count(@), !.total = Count(@)]
          = [model |-> m, prompt |-> Count(p), cached |-> c, output |-> Count(o), thoughts |-> h, total |-> Count(t),
             cost |-> k, usable |-> u]
    BY <2>2, <2>3, <2>4, <2>5, <2>6, <2>7, Zenon
  <2> QED BY <2>2, <2>8
<1>2. NormalizeEntry(e) = [f EXCEPT !.cost = EstimateVertexCost(e.model, [f EXCEPT !.cached = Min({@, f.prompt})])]
  BY <1>1 DEF NormalizeEntry
<1>3. [f EXCEPT !.cached = Min({@, f.prompt})] = g
  OBVIOUS
<1>4. g = [model |-> e.model, prompt |-> Count(e.prompt), cached |-> Min({e.cached, Count(e.prompt)}),
           output |-> Count(e.output), thoughts |-> e.thoughts, total |-> Count(e.total),
           cost |-> e.cost, usable |-> e.usable]
  OBVIOUS
<1>5. [f EXCEPT !.cost = EstimateVertexCost(e.model, g)]
        = [model |-> e.model, prompt |-> Count(e.prompt), cached |-> e.cached, output |-> Count(e.output),
           thoughts |-> e.thoughts, total |-> Count(e.total), cost |-> EstimateVertexCost(e.model, g), usable |-> e.usable]
  OBVIOUS
<1> HIDE DEF f, g
<1> QED BY <1>2, <1>3, <1>4, <1>5

LEMMA NormalizedTwice ==
  ASSUME NEW e, IsEntry(e)
  PROVE  /\ IsEntry(NormalizeEntry(e))
         /\ NormalizeEntry(e).model = e.model /\ NormalizeEntry(e).usable = e.usable
         /\ NormalizeEntry(NormalizeEntry(e)) = NormalizeEntry(e)
<1>1. PICK cost :
        /\ cost = EstimateVertexCost(e.model,
             [model |-> e.model, prompt |-> Count(e.prompt), cached |-> Min({e.cached, Count(e.prompt)}),
              output |-> Count(e.output), thoughts |-> e.thoughts, total |-> Count(e.total),
              cost |-> e.cost, usable |-> e.usable])
        /\ NormalizeEntry(e) =
             [model |-> e.model, prompt |-> Count(e.prompt), cached |-> e.cached, output |-> Count(e.output),
              thoughts |-> e.thoughts, total |-> Count(e.total), cost |-> cost, usable |-> e.usable]
  BY NormalizedIs
<1> DEFINE n == NormalizeEntry(e)
<1> HIDE DEF n
<1>2. n = [model |-> e.model, prompt |-> Count(e.prompt), cached |-> e.cached, output |-> Count(e.output),
           thoughts |-> e.thoughts, total |-> Count(e.total), cost |-> cost, usable |-> e.usable]
  BY <1>1 DEF n
<1>3. /\ n.model = e.model /\ n.prompt = Count(e.prompt) /\ n.cached = e.cached /\ n.output = Count(e.output)
      /\ n.thoughts = e.thoughts /\ n.total = Count(e.total) /\ n.cost = cost /\ n.usable = e.usable
  BY <1>2
<1>4. e.prompt \in Int /\ e.output \in Int /\ e.total \in Int
  BY DEF IsEntry
<1>5. Count(e.prompt) \in Nat /\ Count(e.output) \in Nat /\ Count(e.total) \in Nat
  BY <1>4, CountTwice
<1>6. Count(n.prompt) = n.prompt /\ Count(n.output) = n.output /\ Count(n.total) = n.total
  BY <1>3, <1>4, CountTwice
<1>7. IsEntry(n)
  BY <1>2, <1>3, <1>5 DEF IsEntry
<1>8. PICK again :
        /\ again = EstimateVertexCost(n.model,
             [model |-> n.model, prompt |-> Count(n.prompt), cached |-> Min({n.cached, Count(n.prompt)}),
              output |-> Count(n.output), thoughts |-> n.thoughts, total |-> Count(n.total),
              cost |-> n.cost, usable |-> n.usable])
        /\ NormalizeEntry(n) =
             [model |-> n.model, prompt |-> Count(n.prompt), cached |-> n.cached, output |-> Count(n.output),
              thoughts |-> n.thoughts, total |-> Count(n.total), cost |-> again, usable |-> n.usable]
  BY <1>7, NormalizedIs
<1>9. again = cost
  <2>1. [model |-> n.model, prompt |-> Count(n.prompt), cached |-> Min({n.cached, Count(n.prompt)}),
         output |-> Count(n.output), thoughts |-> n.thoughts, total |-> Count(n.total),
         cost |-> n.cost, usable |-> n.usable]
        = [model |-> e.model, prompt |-> Count(e.prompt), cached |-> Min({e.cached, Count(e.prompt)}),
           output |-> Count(e.output), thoughts |-> e.thoughts, total |-> Count(e.total),
           cost |-> n.cost, usable |-> e.usable]
    BY <1>3, <1>6
  <2>2. EstimateVertexCost(e.model,
          [model |-> e.model, prompt |-> Count(e.prompt), cached |-> Min({e.cached, Count(e.prompt)}),
           output |-> Count(e.output), thoughts |-> e.thoughts, total |-> Count(e.total),
           cost |-> n.cost, usable |-> e.usable]) = cost
    BY <1>1, CostReads
  <2> QED BY <1>3, <1>8, <2>1, <2>2
<1>10. NormalizeEntry(n) = n
  BY <1>2, <1>3, <1>6, <1>8, <1>9
<1> QED BY <1>3, <1>7, <1>10 DEF n


-----------------------------------------------------------------------------
(* What pricing a row again makes of it.                                     *)
Entries(row) == [i \in DOMAIN row.detail |-> NormalizeEntry(row.detail[i])]
ModelFor(row) ==
  IF DominantModel(Entries(row)) = {} THEN row.model ELSE CHOOSE m \in DominantModel(Entries(row)) : TRUE
ProviderFor(row) == IF row.provider = "openai" /\ ModelFor(row) \in GeminiModels THEN "vertex" ELSE row.provider

LEMMA RepricedIs ==
  ASSUME NEW row, IsRunRow(row)
  PROVE  Repriced(row) =
           [status |-> row.status, at |-> row.at, user |-> row.user, agency |-> row.agency, chat |-> row.chat,
            provider |-> ProviderFor(row), model |-> ModelFor(row), cost |-> SummarizeUsage(Entries(row)).cost,
            complete |-> SummarizeUsage(Entries(row)).complete, tokens |-> row.tokens, detail |-> Entries(row)]
<1> DEFINE entries == Entries(row)
<1>1. Repriced(row) = [row EXCEPT !.detail = entries, !.cost = SummarizeUsage(entries).cost,
                         !.complete = SummarizeUsage(entries).complete, !.model = ModelFor(row), !.provider = ProviderFor(row)]
  BY Zenon DEF Repriced, Entries, ModelFor, ProviderFor
<1>2. [row EXCEPT !.detail = entries, !.cost = SummarizeUsage(entries).cost,
         !.complete = SummarizeUsage(entries).complete, !.model = ModelFor(row), !.provider = ProviderFor(row)]
      = [status |-> row.status, at |-> row.at, user |-> row.user, agency |-> row.agency, chat |-> row.chat,
         provider |-> ProviderFor(row), model |-> ModelFor(row), cost |-> SummarizeUsage(entries).cost,
         complete |-> SummarizeUsage(entries).complete, tokens |-> row.tokens, detail |-> entries]
  <2> HIDE DEF entries
  <2>1. PICK st, at, us, ag, ch, pr, mo, co, cm, tk, de :
          row = [status |-> st, at |-> at, user |-> us, agency |-> ag, chat |-> ch, provider |-> pr, model |-> mo,
             cost |-> co, complete |-> cm, tokens |-> tk, detail |-> de]
    BY DEF IsRunRow
  <2>2. row.status = st /\ row.at = at /\ row.user = us /\ row.agency = ag /\ row.chat = ch /\ row.tokens = tk
    BY <2>1
  <2>3. PICK f1 : f1 = [row EXCEPT !.detail = entries]
    OBVIOUS
  <2>4. f1 = [status |-> st, at |-> at, user |-> us, agency |-> ag, chat |-> ch, provider |-> pr, model |-> mo,
             cost |-> co, complete |-> cm, tokens |-> tk, detail |-> entries]
    BY <2>3, <2>1
  <2>5. PICK f2 : f2 = [f1 EXCEPT !.cost = SummarizeUsage(entries).cost]
    OBVIOUS
  <2>6. f2 = [status |-> st, at |-> at, user |-> us, agency |-> ag, chat |-> ch, provider |-> pr, model |-> mo,
             cost |-> SummarizeUsage(entries).cost, complete |-> cm, tokens |-> tk, detail |-> entries]
    BY <2>5, <2>4
  <2>7. PICK f3 : f3 = [f2 EXCEPT !.complete = SummarizeUsage(entries).complete]
    OBVIOUS
  <2>8. f3 = [status |-> st, at |-> at, user |-> us, agency |-> ag, chat |-> ch, provider |-> pr, model |-> mo,
             cost |-> SummarizeUsage(entries).cost, complete |-> SummarizeUsage(entries).complete, tokens |-> tk, detail |-> entries]
    BY <2>7, <2>6
  <2>9. PICK f4 : f4 = [f3 EXCEPT !.model = ModelFor(row)]
    OBVIOUS
  <2>10. f4 = [status |-> st, at |-> at, user |-> us, agency |-> ag, chat |-> ch, provider |-> pr, model |-> ModelFor(row),
             cost |-> SummarizeUsage(entries).cost, complete |-> SummarizeUsage(entries).complete, tokens |-> tk, detail |-> entries]
    BY <2>9, <2>8
  <2>11. PICK f5 : f5 = [f4 EXCEPT !.provider = ProviderFor(row)]
    OBVIOUS
  <2>12. f5 = [status |-> st, at |-> at, user |-> us, agency |-> ag, chat |-> ch, provider |-> ProviderFor(row), model |-> ModelFor(row),
             cost |-> SummarizeUsage(entries).cost, complete |-> SummarizeUsage(entries).complete, tokens |-> tk, detail |-> entries]
    BY <2>11, <2>10
  <2>13. [row EXCEPT !.detail = entries, !.cost = SummarizeUsage(entries).cost,
             !.complete = SummarizeUsage(entries).complete, !.model = ModelFor(row), !.provider = ProviderFor(row)]
          = f5
    BY <2>3, <2>5, <2>7, <2>9, <2>11, Zenon
  <2> QED BY <2>2, <2>12, <2>13
<1> QED BY <1>1, <1>2

(***************************************************************************)
(* Pricing a run again is idempotent, as the comment of repriceRunUsage    *)
(* says (repriceRunUsage.ts:73): a row that was repriced is left as it is  *)
(* by pricing it once more, so a job that starts over does no harm.  The   *)
(* result has the shape of a row, and is one the job still takes up.       *)
(***************************************************************************)
THEOREM RepricedTwice ==
  ASSUME NEW row, IsRunRow(row)
  PROVE  /\ IsRunRow(Repriced(row)) /\ Repriced(Repriced(row)) = Repriced(row)
         /\ Plannable(row) => Plannable(Repriced(row))
<1> DEFINE new == Repriced(row)
<1> HIDE DEF new
<1>1. new = [status |-> row.status, at |-> row.at, user |-> row.user, agency |-> row.agency, chat |-> row.chat,
             provider |-> ProviderFor(row), model |-> ModelFor(row), cost |-> SummarizeUsage(Entries(row)).cost,
             complete |-> SummarizeUsage(Entries(row)).complete, tokens |-> row.tokens, detail |-> Entries(row)]
  BY RepricedIs DEF new
<1>2. /\ new.status = row.status /\ new.at = row.at /\ new.user = row.user /\ new.agency = row.agency
      /\ new.chat = row.chat /\ new.provider = ProviderFor(row) /\ new.model = ModelFor(row)
      /\ new.cost = SummarizeUsage(Entries(row)).cost /\ new.complete = SummarizeUsage(Entries(row)).complete
      /\ new.tokens = row.tokens /\ new.detail = Entries(row)
  BY <1>1
<1>3. /\ row.detail = [i \in DOMAIN row.detail |-> row.detail[i]]
      /\ \A i \in DOMAIN row.detail : IsEntry(row.detail[i])
  BY DEF IsRunRow
<1>4. /\ DOMAIN Entries(row) = DOMAIN row.detail
      /\ \A i \in DOMAIN row.detail : Entries(row)[i] = NormalizeEntry(row.detail[i])
      /\ Entries(row) = [i \in DOMAIN Entries(row) |-> Entries(row)[i]]
  BY DEF Entries
<1>5. \A i \in DOMAIN row.detail :
        /\ IsEntry(Entries(row)[i]) /\ Entries(row)[i].usable = row.detail[i].usable
        /\ NormalizeEntry(Entries(row)[i]) = Entries(row)[i]
  BY <1>3, <1>4, NormalizedTwice
<1>6. Entries(new) = Entries(row)
  <2>1. Entries(new) = [i \in DOMAIN Entries(row) |-> NormalizeEntry(Entries(row)[i])]
    BY <1>2 DEF Entries
  <2>2. \A i \in DOMAIN Entries(row) : NormalizeEntry(Entries(row)[i]) = Entries(row)[i]
    BY <1>4, <1>5
  <2>3. [i \in DOMAIN Entries(row) |-> NormalizeEntry(Entries(row)[i])] = [i \in DOMAIN Entries(row) |-> Entries(row)[i]]
    BY <2>2
  <2> QED BY <2>1, <2>3, <1>4
<1>7. IsRunRow(new)
  <2>1. /\ new.detail = [i \in DOMAIN new.detail |-> new.detail[i]]
        /\ \A i \in DOMAIN new.detail : IsEntry(new.detail[i])
    BY <1>2, <1>4, <1>5
  <2>2. new = [status |-> new.status, at |-> new.at, user |-> new.user, agency |-> new.agency, chat |-> new.chat,
               provider |-> new.provider, model |-> new.model, cost |-> new.cost, complete |-> new.complete,
               tokens |-> new.tokens, detail |-> new.detail]
    BY <1>1, <1>2
  <2> QED BY <2>1, <2>2 DEF IsRunRow
<1>8. ModelFor(new) = ModelFor(row)
  BY <1>2, <1>6 DEF ModelFor
<1>9. ProviderFor(new) = ProviderFor(row)
  BY <1>2, <1>8 DEF ProviderFor
<1>10. Repriced(new) = new
  <2>1. Repriced(new) =
           [status |-> new.status, at |-> new.at, user |-> new.user, agency |-> new.agency, chat |-> new.chat,
            provider |-> ProviderFor(new), model |-> ModelFor(new), cost |-> SummarizeUsage(Entries(new)).cost,
            complete |-> SummarizeUsage(Entries(new)).complete, tokens |-> new.tokens, detail |-> Entries(new)]
    BY <1>7, RepricedIs
  <2> QED BY <2>1, <1>1, <1>2, <1>6, <1>8, <1>9
<1>11. Plannable(row) => Plannable(new)
  <2>1. Malformed(new.detail) <=> Malformed(row.detail)
    BY <1>2, <1>4, <1>5 DEF Malformed
  <2>2. ASSUME new.detail = <<>> PROVE row.detail = <<>>
    <3>1. DOMAIN row.detail = {}
      BY <2>2, <1>2, <1>4
    <3> QED BY <3>1, <1>3
  <2> QED BY <2>1, <2>2 DEF Plannable
<1> QED BY <1>7, <1>10, <1>11 DEF new

-----------------------------------------------------------------------------
(* Pages. Numbers have a least among them, and finitely many a greatest.     *)
LEMMA LeastOf ==
  ASSUME NEW S \in SUBSET Nat, S # {}
  PROVE  \E least \in S : \A x \in S : least <= x
<1>1. PICK n \in S : \A m \in S : <<m, n>> \notin OpToRel(<, Nat)
  BY NatLessThanWellFounded, WFMin
<1>2. ASSUME NEW m \in S PROVE n <= m
  <2>1. m \in Nat /\ n \in Nat
    BY <1>1
  <2>2. ~(m < n)
    BY <1>1, <2>1 DEF OpToRel
  <2> QED BY <2>1, <2>2
<1> QED BY <1>1, <1>2

LEMMA GreatestOf ==
  ASSUME NEW S \in SUBSET Nat, S # {}, IsFiniteSet(S)
  PROVE  Max(S) \in S /\ \A x \in S : x <= Max(S)
<1> DEFINE Above(x) == {y \in S : y > x}
           counts == {Cardinality(Above(x)) : x \in S}
<1>1. \A x \in S : Above(x) \in SUBSET S /\ IsFiniteSet(Above(x)) /\ Cardinality(Above(x)) \in Nat
  BY FS_Subset, FS_CardinalityType
<1>2. counts \in SUBSET Nat /\ counts # {}
  BY <1>1
<1>3. PICK least \in counts : \A n \in counts : least <= n
  <2> HIDE DEF counts
  <2> QED BY <1>2, LeastOf
<1>4. PICK m \in S : Cardinality(Above(m)) = least
  BY <1>3
<1>5. \A y \in S : y <= m
  <2>1. SUFFICES ASSUME NEW y \in S, ~(y <= m) PROVE FALSE
    OBVIOUS
  <2>2. y > m /\ y \in Nat /\ m \in Nat
    BY <2>1
  <2>3. Above(y) \subseteq Above(m) /\ y \in Above(m) /\ y \notin Above(y)
    <3>1. \A z \in S : z > y => z > m
      BY <2>2
    <3>2. \A x, z : z \in Above(x) <=> z \in S /\ z > x
      OBVIOUS
    <3>3. ~(y > y)
      BY <2>2
    <3> HIDE DEF Above
    <3> QED BY <2>2, <3>1, <3>2, <3>3
  <2>4. Cardinality(Above(y)) \in counts
    BY <2>1
  <2> HIDE DEF Above, counts
  <2>5. Cardinality(Above(y)) <= Cardinality(Above(m)) /\ Cardinality(Above(y)) # Cardinality(Above(m))
    BY <1>1, <2>1, <2>3, FS_Subset
  <2>6. Cardinality(Above(m)) <= Cardinality(Above(y))
    BY <1>3, <1>4, <2>4
  <2>7. Cardinality(Above(m)) \in Nat /\ Cardinality(Above(y)) \in Nat
    BY <1>1, <2>1
  <2> QED BY <2>5, <2>6, <2>7
<1>6. \E x \in S : \A y \in S : x >= y
  BY <1>5
<1>7. Max(S) \in S /\ \A y \in S : Max(S) >= y
  BY <1>6 DEF Max
<1> QED BY <1>7

LEMMA SmallestOf ==
  ASSUME NEW S \in SUBSET Nat, S # {}
  PROVE  Min(S) \in S
<1>1. \E x \in S : \A y \in S : x =< y
  BY LeastOf
<1> QED BY <1>1 DEF Min

(* A page is what comes first after the cursor, and a short one is all that  *)
(* comes.                                                                    *)
LEMMA PageIsFirst ==
  ASSUME NEW cursor \in Nat, DOMAIN runs \in SUBSET Nat, IsFiniteSet(DOMAIN runs)
  PROVE  /\ PageAfter(cursor) \in SUBSET {id \in DOMAIN runs : id > cursor}
         /\ IsFiniteSet(PageAfter(cursor))
         /\ cursor = 0 \/ cursor \in DOMAIN runs =>
              /\ Cardinality(PageAfter(cursor)) < BatchSize =>
                   \A id \in DOMAIN runs : id > cursor => id \in PageAfter(cursor)
              /\ \A x \in PageAfter(cursor) : \A y \in DOMAIN runs : cursor < y /\ y <= x => y \in PageAfter(cursor)
<1> DEFINE rest == {id \in DOMAIN runs : id > cursor}
           Below(x) == {o \in rest : o < x}
           ids == {id \in rest : Cardinality(Below(id)) < BatchSize}
           page == PageAfter(cursor)
<1>1. page \subseteq ids /\ (cursor = 0 \/ cursor \in DOMAIN runs => page = ids)
  BY DEF PageAfter
<1>2. rest \in SUBSET DOMAIN runs /\ rest \in SUBSET Nat /\ ids \in SUBSET rest
  OBVIOUS
<1>3. IsFiniteSet(rest) /\ IsFiniteSet(ids) /\ IsFiniteSet(page)
  <2> HIDE DEF rest, ids, page
  <2>1. IsFiniteSet(rest)
    BY <1>2, FS_Subset
  <2>2. IsFiniteSet(ids)
    BY <1>2, <2>1, FS_Subset
  <2>3. IsFiniteSet(page)
    BY <1>1, <2>2, FS_Subset
  <2> QED BY <2>1, <2>2, <2>3
<1>4. \A x : Below(x) \in SUBSET rest
  OBVIOUS
<1>5. \A x : IsFiniteSet(Below(x)) /\ Cardinality(Below(x)) \in Nat
  <2> HIDE DEF rest, Below
  <2> QED BY <1>3, <1>4, FS_Subset, FS_CardinalityType
<1>6. BatchSize \in Nat
  BY UsageConstants
<1>7. ASSUME NEW x \in ids, NEW y \in rest, y <= x
      PROVE  y \in ids
  <2>1. Below(y) \subseteq Below(x)
    BY <1>2, <1>7
  <2>2. Cardinality(Below(y)) <= Cardinality(Below(x))
    <3> HIDE DEF Below
    <3> QED BY <2>1, <1>5, FS_Subset
  <2>3. Cardinality(Below(x)) < BatchSize
    BY <1>7
  <2>4. Cardinality(Below(y)) < BatchSize
    <3> HIDE DEF Below
    <3> QED BY <2>2, <2>3, <1>5, <1>6
  <2> QED BY <2>4
<1>8. ASSUME Cardinality(ids) < BatchSize
      PROVE  rest \subseteq ids
  <2>1. SUFFICES ASSUME rest \ ids # {} PROVE FALSE
    OBVIOUS
  <2>2. PICK least \in rest \ ids : \A x \in rest \ ids : least <= x
    <3>1. rest \ ids \in SUBSET Nat
      BY <1>2
    <3> HIDE DEF rest, ids
    <3> QED BY <2>1, <3>1, LeastOf
  <2>3. Below(least) \in SUBSET ids
    BY <1>2, <2>2
  <2>4. Cardinality(Below(least)) <= Cardinality(ids) /\ Cardinality(ids) \in Nat
    <3> HIDE DEF Below, ids
    <3> QED BY <2>3, <1>3, FS_Subset, FS_CardinalityType
  <2>5. Cardinality(Below(least)) < BatchSize
    <3> HIDE DEF Below, ids
    <3> QED BY <2>4, <1>5, <1>6, <1>8
  <2> QED BY <2>2, <2>5
<1>9. page \in SUBSET rest
  BY <1>1, <1>2
<1>10. ASSUME cursor = 0 \/ cursor \in DOMAIN runs
       PROVE  /\ Cardinality(page) < BatchSize => \A id \in DOMAIN runs : id > cursor => id \in page
              /\ \A x \in page : \A y \in DOMAIN runs : cursor < y /\ y <= x => y \in page
  <2>1. page = ids
    BY <1>1, <1>10
  <2>2. \A id \in DOMAIN runs : id \in rest <=> id > cursor
    OBVIOUS
  <2> HIDE DEF page, ids, rest
  <2>3. Cardinality(page) < BatchSize => \A id \in DOMAIN runs : id > cursor => id \in page
    BY <2>1, <2>2, <1>8
  <2>4. \A x \in page : \A y \in DOMAIN runs : cursor < y /\ y <= x => y \in page
    <3>1. \A y \in DOMAIN runs : y \in Nat
      OBVIOUS
    <3> QED BY <2>1, <2>2, <3>1, <1>7
  <2> QED BY <2>3, <2>4
<1> QED BY <1>3, <1>9, <1>10

-----------------------------------------------------------------------------
(* The job. Rows keep their shape and old ones that are not priced again are *)
(* as they were; as long as no row was deleted under the job, the rows up to *)
(* the cursor have been settled, or wait in the page as they are stored, and *)
(* a page that is short reaches to the end.                                  *)
Settled == {id \in DOMAIN runs : Plannable(runs[id]) => runs[id] = Repriced(runs[id])}

RowsFit ==
  /\ DOMAIN runs \in SUBSET RunIds /\ IsFiniteSet(DOMAIN runs)
  /\ \A id \in DOMAIN runs : IsRunRow(runs[id])
  /\ \A id \in DOMAIN runs \cap DOMAIN Legacy : Plannable(runs[id]) \/ runs[id] = Legacy[id]

JobFits ==
  /\ job = [pc |-> job.pc, cursor |-> job.cursor, page |-> job.page, began |-> job.began]
  /\ job.pc \in {"idle", "reading", "working", "done", "failed"} /\ disturbed \in BOOLEAN
  /\ job.cursor \in Nat
  /\ job.pc = "working" => \A id \in DOMAIN job.page : id \in RunIds /\ id <= job.cursor /\ IsRunRow(job.page[id])

Progress ==
  /\ job.pc \in {"reading", "working", "done"} => job.began \subseteq DOMAIN runs
  /\ job.pc \in {"reading", "working"} => job.cursor = 0 \/ job.cursor \in DOMAIN runs
  /\ job.pc = "reading" => \A id \in job.began : id <= job.cursor => id \in Settled
  /\ job.pc = "working" =>
       /\ \A id \in DOMAIN job.page : id \in DOMAIN runs /\ runs[id] = job.page[id]
       /\ \A id \in job.began : id <= job.cursor => id \in DOMAIN job.page \union Settled
       /\ Cardinality(DOMAIN job.page) < BatchSize => \A id \in job.began : id <= job.cursor
  /\ job.pc = "done" => job.began \subseteq Settled

UsageInv == RowsFit /\ JobFits /\ (~disturbed => Progress)

LEMMA SettledStays ==
  ASSUME deploy' = deploy
  PROVE  \A id \in Settled : id \in DOMAIN runs' /\ runs'[id] = runs[id] => id \in Settled'
<1>1. ASSUME NEW m, NEW c PROVE EstimateVertexCost(m, c)' = EstimateVertexCost(m, c)
  BY DEF EstimateVertexCost
<1>2. ASSUME NEW e PROVE NormalizeEntry(e)' = NormalizeEntry(e)
  BY <1>1 DEF NormalizeEntry
<1>3. ASSUME NEW row PROVE Repriced(row)' = Repriced(row)
  BY <1>2, Zenon DEF Repriced
<1>4. ASSUME NEW id \in Settled, id \in DOMAIN runs', runs'[id] = runs[id]
      PROVE  id \in Settled'
  BY <1>3, <1>4 DEF Settled
<1> QED BY <1>4

(* The cases that leave the job alone.                                       *)
LEMMA RowsComeAndGo ==
  ASSUME UsageInv, RowsFit', deploy' = deploy, job' = job, disturbed' \in BOOLEAN,
         disturbed => disturbed',
         ~disturbed' => \A id \in DOMAIN runs : id \in DOMAIN runs' /\ runs'[id] = runs[id]
  PROVE  UsageInv'
<1>1. JobFits'
  BY DEF UsageInv, JobFits
<1>2. ASSUME ~disturbed' PROVE Progress'
  <2>1. Progress
    BY <1>2 DEF UsageInv, JobFits
  <2>2. \A id \in DOMAIN runs : id \in DOMAIN runs' /\ runs'[id] = runs[id]
    BY <1>2
  <2>3. \A id \in Settled : id \in Settled'
    BY <2>2, SettledStays DEF Settled
  <2>4. job.pc \in {"reading", "working", "done"} => job.began \subseteq DOMAIN runs'
    BY <2>1, <2>2 DEF Progress
  <2>5. job.pc \in {"reading", "working"} => job.cursor = 0 \/ job.cursor \in DOMAIN runs'
    BY <2>1, <2>2 DEF Progress
  <2>6. job.pc = "reading" => \A id \in job.began : id <= job.cursor => id \in Settled'
    BY <2>1, <2>3 DEF Progress
  <2>7. job.pc = "working" =>
          /\ \A id \in DOMAIN job.page : id \in DOMAIN runs' /\ runs'[id] = job.page[id]
          /\ \A id \in job.began : id <= job.cursor => id \in DOMAIN job.page \union Settled'
          /\ Cardinality(DOMAIN job.page) < BatchSize => \A id \in job.began : id <= job.cursor
    BY <2>1, <2>2, <2>3 DEF Progress
  <2>8. job.pc = "done" => job.began \subseteq Settled'
    BY <2>1, <2>3 DEF Progress
  <2> QED BY <2>4, <2>5, <2>6, <2>7, <2>8 DEF Progress
<1> QED BY <1>1, <1>2 DEF UsageInv

LEMMA AfterStart == UsageInit => UsageInv
<1> SUFFICES ASSUME UsageInit PROVE UsageInv
  OBVIOUS
<1>1. runs = Legacy /\ job = [pc |-> "idle", cursor |-> 0, page |-> <<>>, began |-> {}] /\ disturbed = FALSE
  BY DEF UsageInit, NoJob
<1>2. RowsFit
  BY <1>1, UsageConstants, LegacyAssumption DEF RowsFit
<1>3. /\ job.pc = "idle" /\ job.cursor = 0 /\ job.page = <<>> /\ job.began = {}
  BY <1>1
<1>4. JobFits
  BY <1>1, <1>3 DEF JobFits
<1>5. Progress
  BY <1>3 DEF Progress
<1> QED BY <1>2, <1>4, <1>5 DEF UsageInv

(* What a run stores has the shape of a row.                                 *)
LEMMA NewRow ==
  ASSUME NEW n \in 1 .. MaxCalls, NEW calls \in [1 .. n -> Calls], NEW row,
         row.detail = DetailOf(calls),
         row = [status |-> row.status, at |-> row.at, user |-> row.user, agency |-> row.agency, chat |-> row.chat,
                provider |-> row.provider, model |-> row.model, cost |-> row.cost, complete |-> row.complete,
                tokens |-> row.tokens, detail |-> row.detail]
  PROVE  IsRunRow(row)
<1>1. /\ DOMAIN row.detail = 1 .. n
      /\ \A i \in 1 .. n : row.detail[i] = UsageEntryFromModel(calls[i])
      /\ row.detail = [i \in DOMAIN row.detail |-> row.detail[i]]
  BY DEF DetailOf
<1>2. ASSUME NEW c \in Calls PROVE IsEntry(UsageEntryFromModel(c))
  <2>1. c.prompt \in Int /\ c.output \in Int /\ c.total \in Int
    BY CallsAssumption
  <2>2. Count(c.prompt) \in Int /\ Count(c.output) \in Int
    BY <2>1, CountTwice
  <2>3. PICK e : e = [model |-> c.model, prompt |-> Count(c.prompt), cached |-> c.cached, output |-> Count(c.output),
                      thoughts |-> c.thoughts, total |-> c.total, cost |-> EstimateVertexCost(c.model, c), usable |-> TRUE]
    OBVIOUS
  <2>4. /\ e.model = c.model /\ e.prompt = Count(c.prompt) /\ e.cached = c.cached /\ e.output = Count(c.output)
        /\ e.thoughts = c.thoughts /\ e.total = c.total /\ e.cost = EstimateVertexCost(c.model, c) /\ e.usable = TRUE
    BY <2>3
  <2>5. IsEntry(e)
    BY <2>1, <2>2, <2>3, <2>4 DEF IsEntry
  <2>6. UsageEntryFromModel(c) = e
    BY <2>3 DEF UsageEntryFromModel
  <2> QED BY <2>5, <2>6
<1>3. \A i \in DOMAIN row.detail : IsEntry(row.detail[i])
  BY <1>1, <1>2
<1> QED BY <1>1, <1>3 DEF IsRunRow

LEMMA AfterEndRun ==
  ASSUME UsageInv, EndRun
  PROVE  UsageInv'
<1>1. PICK id \in NewIds, ending \in {"COMPLETED", "FAILED"}, seat \in Seats, n \in 1 .. MaxCalls :
        \E calls \in [1 .. n -> Calls] : runs' = Inserted(id,
          [status |-> ending, at |-> today, user |-> seat.user, agency |-> seat.agency, chat |-> seat.chat,
           provider |-> "vertex", model |-> calls[n].model, cost |-> SummarizeUsage(DetailOf(calls)).cost,
           complete |-> SummarizeUsage(DetailOf(calls)).complete, tokens |-> SummarizeUsage(DetailOf(calls)).total,
           detail |-> DetailOf(calls)])
  BY Zenon DEF EndRun
<1>a. PICK calls \in [1 .. n -> Calls] : runs' = Inserted(id,
          [status |-> ending, at |-> today, user |-> seat.user, agency |-> seat.agency, chat |-> seat.chat,
           provider |-> "vertex", model |-> calls[n].model, cost |-> SummarizeUsage(DetailOf(calls)).cost,
           complete |-> SummarizeUsage(DetailOf(calls)).complete, tokens |-> SummarizeUsage(DetailOf(calls)).total,
           detail |-> DetailOf(calls)])
  BY <1>1
<1>2. PICK row : row = [status |-> ending, at |-> today, user |-> seat.user, agency |-> seat.agency, chat |-> seat.chat,
           provider |-> "vertex", model |-> calls[n].model, cost |-> SummarizeUsage(DetailOf(calls)).cost,
           complete |-> SummarizeUsage(DetailOf(calls)).complete, tokens |-> SummarizeUsage(DetailOf(calls)).total,
           detail |-> DetailOf(calls)]
  OBVIOUS
<1>3. runs' = Inserted(id, row) /\ deploy' = deploy /\ job' = job /\ disturbed' = disturbed
  BY <1>a, <1>2 DEF EndRun
<1>4. IsRunRow(row)
  <2>1. row.detail = DetailOf(calls)
    BY <1>2
  <2>2. row = [status |-> row.status, at |-> row.at, user |-> row.user, agency |-> row.agency, chat |-> row.chat,
               provider |-> row.provider, model |-> row.model, cost |-> row.cost, complete |-> row.complete,
               tokens |-> row.tokens, detail |-> row.detail]
    BY <1>2
  <2> QED BY <2>1, <2>2, NewRow
<1>5. id \in RunIds /\ id \notin DOMAIN Legacy /\ id \notin DOMAIN runs
  BY DEF NewIds
<1>6. /\ DOMAIN runs' = DOMAIN runs \union {id} /\ runs'[id] = row
      /\ \A x \in DOMAIN runs : runs'[x] = runs[x]
  BY <1>3, <1>5 DEF Inserted
<1>7. RowsFit'
  <2>1. RowsFit
    BY DEF UsageInv
  <2>2. DOMAIN runs' \in SUBSET RunIds /\ IsFiniteSet(DOMAIN runs')
    BY <1>5, <1>6, <2>1, FS_AddElement DEF RowsFit
  <2>3. \A x \in DOMAIN runs' : IsRunRow(runs'[x])
    BY <1>4, <1>6, <2>1 DEF RowsFit
  <2>4. \A x \in DOMAIN runs' \cap DOMAIN Legacy : Plannable(runs'[x]) \/ runs'[x] = Legacy[x]
    BY <1>5, <1>6, <2>1 DEF RowsFit
  <2> QED BY <2>2, <2>3, <2>4 DEF RowsFit
<1>8. disturbed \in BOOLEAN
  BY DEF UsageInv, JobFits
<1> QED BY <1>3, <1>6, <1>7, <1>8, RowsComeAndGo

LEMMA AfterDeleteThread ==
  ASSUME UsageInv, DeleteThread
  PROVE  UsageInv'
<1>1. PICK c \in {s.chat : s \in Seats} :
        LET gone == {id \in DOMAIN runs : runs[id].chat = c}
        IN /\ gone # {}
           /\ runs' = [id \in DOMAIN runs \ gone |-> runs[id]]
           /\ job.pc # "done" /\ disturbed' = (disturbed \/ job.pc \in {"reading", "working"})
  BY DEF DeleteThread
<1>2. deploy' = deploy /\ job' = job
  BY DEF DeleteThread
<1>3. DOMAIN runs' \in SUBSET DOMAIN runs /\ \A x \in DOMAIN runs' : runs'[x] = runs[x]
  BY <1>1
<1>4. RowsFit'
  <2>1. RowsFit
    BY DEF UsageInv
  <2>2. DOMAIN runs' \in SUBSET RunIds /\ IsFiniteSet(DOMAIN runs')
    BY <1>3, <2>1, FS_Subset DEF RowsFit
  <2>3. \A x \in DOMAIN runs' : IsRunRow(runs'[x])
    BY <1>3, <2>1 DEF RowsFit
  <2>4. \A x \in DOMAIN runs' \cap DOMAIN Legacy : Plannable(runs'[x]) \/ runs'[x] = Legacy[x]
    BY <1>3, <2>1 DEF RowsFit
  <2> QED BY <2>2, <2>3, <2>4 DEF RowsFit
<1>5. /\ job.pc \in {"idle", "reading", "working", "done", "failed"} /\ disturbed \in BOOLEAN
  BY DEF UsageInv, JobFits
<1>6. JobFits'
  BY <1>1, <1>2, <1>5 DEF UsageInv, JobFits
<1>7. ~disturbed' => job.pc \in {"idle", "failed"}
  BY <1>1, <1>5
<1>8. ~disturbed' => Progress'
  BY <1>2, <1>7 DEF Progress
<1> QED BY <1>4, <1>6, <1>8 DEF UsageInv

LEMMA AfterIdleSteps ==
  ASSUME UsageInv, DeployPrices \/ HalfDayEnds
  PROVE  UsageInv'
<1>1. job' = job /\ runs' = runs /\ disturbed' = disturbed /\ job.pc = "idle"
  BY DEF DeployPrices, HalfDayEnds
<1>2. RowsFit' /\ JobFits'
  BY <1>1 DEF UsageInv, RowsFit, JobFits
<1>3. Progress'
  BY <1>1 DEF Progress
<1> QED BY <1>2, <1>3 DEF UsageInv

LEMMA AfterStartBackfill ==
  ASSUME UsageInv, StartBackfill
  PROVE  UsageInv'
<1>1. /\ runs' = runs /\ deploy' = deploy /\ disturbed' = disturbed
      /\ job' = [pc |-> "reading", cursor |-> 0, page |-> <<>>, began |-> DOMAIN runs]
  BY DEF StartBackfill, NoJob
<1>2. job'.pc = "reading" /\ job'.cursor = 0 /\ job'.page = <<>> /\ job'.began = DOMAIN runs
  BY <1>1
<1>3. RowsFit' /\ RowsFit
  BY <1>1 DEF UsageInv, RowsFit
<1>4. disturbed \in BOOLEAN
  BY DEF UsageInv, JobFits
<1>5. JobFits'
  BY <1>1, <1>2, <1>4 DEF JobFits
<1>6. ASSUME NEW id \in DOMAIN runs PROVE ~(id <= 0)
  <2>1. id \in Nat /\ id # 0
    BY <1>3, UsageConstants DEF RowsFit
  <2> QED BY <2>1
<1>7. Progress'
  BY <1>1, <1>2, <1>6 DEF Progress
<1> QED BY <1>3, <1>5, <1>7 DEF UsageInv

LEMMA AfterReadPage ==
  ASSUME UsageInv, ReadPage
  PROVE  UsageInv'
<1>1. PICK ids : ids = PageAfter(job.cursor)
  OBVIOUS
<1>2. /\ runs' = runs /\ deploy' = deploy /\ disturbed' = disturbed /\ job.pc = "reading"
      /\ job' = IF ids = {} THEN [job EXCEPT !.pc = "done"]
                ELSE [job EXCEPT !.pc = "working", !.cursor = Max(ids), !.page = [id \in ids |-> runs[id]]]
  BY <1>1 DEF ReadPage
<1>3. RowsFit /\ RowsFit' /\ JobFits
  BY <1>2 DEF UsageInv, RowsFit
<1>4. PICK stage, cursor, page, began : job = [pc |-> stage, cursor |-> cursor, page |-> page, began |-> began]
  BY <1>3 DEF JobFits
<1>5. job.pc = stage /\ job.cursor = cursor /\ job.began = began /\ cursor \in Nat /\ disturbed \in BOOLEAN
  BY <1>3, <1>4 DEF JobFits
<1>6. DOMAIN runs \in SUBSET Nat /\ IsFiniteSet(DOMAIN runs)
  BY <1>3, UsageConstants DEF RowsFit
<1>7. /\ ids \in SUBSET {id \in DOMAIN runs : id > cursor} /\ IsFiniteSet(ids)
      /\ cursor = 0 \/ cursor \in DOMAIN runs =>
           /\ Cardinality(ids) < BatchSize => \A id \in DOMAIN runs : id > cursor => id \in ids
           /\ \A x \in ids : \A y \in DOMAIN runs : cursor < y /\ y <= x => y \in ids
  BY <1>1, <1>5, <1>6, PageIsFirst
<1>8. ~disturbed => /\ began \subseteq DOMAIN runs /\ (cursor = 0 \/ cursor \in DOMAIN runs)
                    /\ \A id \in began : id <= cursor => id \in Settled
  BY <1>2, <1>5 DEF UsageInv, Progress
<1>9. \A id \in Settled : id \in Settled'
  BY <1>2, SettledStays DEF Settled
<1>10. \A id \in DOMAIN runs : id \in Nat
  BY <1>6
<1>11. CASE ids = {}
  <2>1. job' = [pc |-> "done", cursor |-> cursor, page |-> page, began |-> began]
    BY <1>2, <1>4, <1>11
  <2>2. job'.pc = "done" /\ job'.cursor = cursor /\ job'.page = page /\ job'.began = began
    BY <2>1
  <2>3. JobFits'
    BY <1>2, <1>5, <2>1, <2>2 DEF JobFits
  <2>4. ASSUME ~disturbed' PROVE Progress'
    <3>1. Cardinality(ids) < BatchSize
      <4>1. Cardinality(ids) = 0
        BY <1>11, FS_EmptySet
      <4> QED BY <4>1, UsageConstants
    <3>2. \A id \in began : id \in DOMAIN runs /\ id <= cursor
      BY <3>1, <2>4, <1>2, <1>5, <1>7, <1>8, <1>10, <1>11
    <3>3. began \subseteq Settled'
      BY <3>2, <2>4, <1>2, <1>8, <1>9
    <3> QED BY <1>2, <2>2, <3>2, <3>3 DEF Progress
  <2> QED BY <1>3, <2>3, <2>4 DEF UsageInv
<1>12. CASE ids # {}
  <2>1. PICK last, pageRows : last = Max(ids) /\ pageRows = [id \in ids |-> runs[id]]
    OBVIOUS
  <2>2. last \in ids /\ \A x \in ids : x <= last
    BY <1>6, <1>7, <1>12, <2>1, GreatestOf
  <2>3. DOMAIN pageRows = ids /\ \A id \in ids : pageRows[id] = runs[id]
    BY <2>1
  <2>4. job' = [pc |-> "working", cursor |-> last, page |-> pageRows, began |-> began]
    BY <1>2, <1>4, <1>12, <2>1
  <2>5. job'.pc = "working" /\ job'.cursor = last /\ job'.page = pageRows /\ job'.began = began
    BY <2>4
  <2>6. \A id \in DOMAIN pageRows : id \in RunIds /\ id <= last /\ IsRunRow(pageRows[id])
    BY <1>3, <1>7, <2>2, <2>3 DEF RowsFit
  <2>7. JobFits'
    BY <1>2, <1>5, <1>7, <1>10, <2>2, <2>4, <2>5, <2>6 DEF JobFits
  <2>8. ASSUME ~disturbed' PROVE Progress'
    <3>1. began \subseteq DOMAIN runs' /\ last \in DOMAIN runs'
      BY <1>2, <1>7, <1>8, <2>2, <2>8
    <3>2. \A id \in DOMAIN pageRows : id \in DOMAIN runs' /\ runs'[id] = pageRows[id]
      BY <1>2, <1>7, <2>3
    <3>3. ASSUME NEW id \in began, id <= last PROVE id \in DOMAIN pageRows \union Settled'
      <4>1. CASE id <= cursor
        BY <4>1, <1>2, <1>8, <1>9, <2>8
      <4>2. CASE ~(id <= cursor)
        <5>1. id \in DOMAIN runs /\ cursor < id
          BY <4>2, <1>2, <1>5, <1>8, <1>10, <2>8
        <5> QED BY <5>1, <3>3, <1>2, <1>7, <1>8, <2>2, <2>3, <2>8
      <4> QED BY <4>1, <4>2
    <3>4. ASSUME Cardinality(DOMAIN pageRows) < BatchSize, NEW id \in began PROVE id <= last
      <4>1. id \in DOMAIN runs /\ id \in Nat /\ last \in Nat /\ last > cursor
        BY <1>2, <1>7, <1>8, <1>10, <2>2, <2>8
      <4>2. CASE id <= cursor
        BY <4>1, <4>2, <1>5
      <4>3. CASE id > cursor
        BY <4>1, <4>3, <3>4, <1>2, <1>7, <1>8, <2>2, <2>3, <2>8
      <4> QED BY <4>1, <4>2, <4>3, <1>5
    <3> QED BY <2>5, <3>1, <3>2, <3>3, <3>4 DEF Progress
  <2> QED BY <1>3, <2>7, <2>8 DEF UsageInv
<1> QED BY <1>11, <1>12

LEMMA AfterWriteRow ==
  ASSUME UsageInv, WriteRow
  PROVE  UsageInv'
<1>1. PICK todo : todo = {id \in DOMAIN job.page : ToBeChanged(job.page[id])}
  OBVIOUS
<1>2. PICK id : id = Min(todo)
  OBVIOUS
<1>3. /\ todo # {} /\ job.pc = "working" /\ deploy' = deploy /\ disturbed' = disturbed
      /\ IF id \in DOMAIN runs
         THEN /\ runs' = [runs EXCEPT ![id] = Repriced(job.page[id])]
              /\ job' = [job EXCEPT !.page[id] = Repriced(@)]
         ELSE job' = [job EXCEPT !.pc = "failed", !.page = <<>>] /\ runs' = runs
  BY <1>1, <1>2 DEF WriteRow
<1>4. RowsFit /\ JobFits
  BY DEF UsageInv
<1>5. PICK stage, cursor, page, began : job = [pc |-> stage, cursor |-> cursor, page |-> page, began |-> began]
  BY <1>4 DEF JobFits
<1>6. job.pc = stage /\ job.cursor = cursor /\ job.page = page /\ job.began = began
  BY <1>5
<1>7. /\ cursor \in Nat /\ disturbed \in BOOLEAN
      /\ \A x \in DOMAIN page : x \in RunIds /\ x <= cursor /\ IsRunRow(page[x])
  BY <1>3, <1>4, <1>6 DEF JobFits
<1>8. id \in DOMAIN page /\ ToBeChanged(page[id]) /\ Plannable(page[id])
  <2>1. todo \in SUBSET Nat
    BY <1>1, <1>6, <1>7, UsageConstants
  <2>2. id \in todo
    BY <1>2, <1>3, <2>1, SmallestOf
  <2> QED BY <1>1, <1>6, <2>2 DEF ToBeChanged
<1>9. CASE id \notin DOMAIN runs
  <2>1. job' = [pc |-> "failed", cursor |-> cursor, page |-> <<>>, began |-> began] /\ runs' = runs
    BY <1>3, <1>5, <1>9
  <2>2. job'.pc = "failed" /\ job'.cursor = cursor /\ job'.page = <<>> /\ job'.began = began
    BY <2>1
  <2>3. JobFits'
    BY <1>3, <1>7, <2>1, <2>2 DEF JobFits
  <2>4. RowsFit' /\ Progress'
    BY <1>4, <2>1, <2>2 DEF RowsFit, Progress
  <2> QED BY <2>3, <2>4 DEF UsageInv
<1>10. CASE id \in DOMAIN runs
  <2>1. PICK new : new = Repriced(page[id])
    OBVIOUS
  <2>2. IsRunRow(new) /\ Plannable(new)
    BY <1>7, <1>8, <2>1, RepricedTwice
  <2>3. PICK after : after = [page EXCEPT ![id] = new]
    OBVIOUS
  <2>4. /\ DOMAIN after = DOMAIN page /\ after[id] = new
        /\ \A x \in DOMAIN page : x # id => after[x] = page[x]
    BY <1>8, <2>3
  <2>5. job' = [pc |-> stage, cursor |-> cursor, page |-> after, began |-> began]
    BY <1>3, <1>5, <1>10, <2>1, <2>3
  <2>6. job'.pc = "working" /\ job'.cursor = cursor /\ job'.page = after /\ job'.began = began
    BY <1>3, <1>6, <2>5
  <2>7. /\ DOMAIN runs' = DOMAIN runs /\ runs'[id] = new
        /\ \A x \in DOMAIN runs : x # id => runs'[x] = runs[x]
    BY <1>3, <1>6, <1>10, <2>1
  <2>8. RowsFit'
    <3>1. DOMAIN runs' \in SUBSET RunIds /\ IsFiniteSet(DOMAIN runs')
      BY <1>4, <2>7 DEF RowsFit
    <3>2. \A x \in DOMAIN runs' : IsRunRow(runs'[x])
      BY <1>4, <2>2, <2>7 DEF RowsFit
    <3>3. \A x \in DOMAIN runs' \cap DOMAIN Legacy : Plannable(runs'[x]) \/ runs'[x] = Legacy[x]
      BY <1>4, <2>2, <2>7 DEF RowsFit
    <3> QED BY <3>1, <3>2, <3>3 DEF RowsFit
  <2>9. JobFits'
    <3>1. \A x \in DOMAIN after : x \in RunIds /\ x <= cursor /\ IsRunRow(after[x])
      BY <1>7, <2>2, <2>4
    <3> QED BY <1>3, <1>7, <2>5, <2>6, <3>1 DEF JobFits
  <2>10. ASSUME ~disturbed' PROVE Progress'
    <3>1. /\ began \subseteq DOMAIN runs /\ (cursor = 0 \/ cursor \in DOMAIN runs)
          /\ \A x \in DOMAIN page : x \in DOMAIN runs /\ runs[x] = page[x]
          /\ \A x \in began : x <= cursor => x \in DOMAIN page \union Settled
          /\ Cardinality(DOMAIN page) < BatchSize => \A x \in began : x <= cursor
      BY <1>3, <1>6, <2>10 DEF UsageInv, Progress
    <3>2. \A x \in DOMAIN after : x \in DOMAIN runs' /\ runs'[x] = after[x]
      BY <2>4, <2>7, <3>1
    <3>3. \A x \in Settled : x # id => x \in Settled'
      BY <1>3, <2>7, SettledStays DEF Settled
    <3>4. \A x \in began : x <= cursor => x \in DOMAIN after \union Settled'
      BY <1>8, <2>4, <3>1, <3>3
    <3> QED BY <2>4, <2>6, <2>7, <3>1, <3>2, <3>4 DEF Progress
  <2> QED BY <2>8, <2>9, <2>10 DEF UsageInv
<1> QED BY <1>9, <1>10

LEMMA AfterEndPage ==
  ASSUME UsageInv, EndPage
  PROVE  UsageInv'
<1>1. PICK stage, cursor, page, began : job = [pc |-> stage, cursor |-> cursor, page |-> page, began |-> began]
  BY DEF UsageInv, JobFits
<1>2. job.pc = stage /\ job.cursor = cursor /\ job.page = page /\ job.began = began
  BY <1>1
<1>3. PICK then : then = AfterPage(Cardinality(DOMAIN page))
  OBVIOUS
<1>4. /\ job.pc = "working" /\ deploy' = deploy /\ disturbed' = disturbed /\ runs' = runs
      /\ \A id \in DOMAIN page : ~ToBeChanged(page[id])
      /\ job' = [pc |-> then, cursor |-> cursor, page |-> <<>>, began |-> began]
  BY <1>1, <1>2, <1>3 DEF EndPage
<1>5. job'.pc = then /\ job'.cursor = cursor /\ job'.page = <<>> /\ job'.began = began
  BY <1>4
<1>6. then = IF Cardinality(DOMAIN page) < BatchSize THEN "done" ELSE "reading"
  BY <1>3 DEF AfterPage
<1>7. RowsFit' /\ cursor \in Nat /\ disturbed \in BOOLEAN
  BY <1>2, <1>4 DEF UsageInv, RowsFit, JobFits
<1>8. JobFits'
  BY <1>4, <1>5, <1>6, <1>7 DEF JobFits
<1>9. ASSUME ~disturbed' PROVE Progress'
  <2>1. /\ began \subseteq DOMAIN runs /\ (cursor = 0 \/ cursor \in DOMAIN runs)
        /\ \A x \in DOMAIN page : x \in DOMAIN runs /\ runs[x] = page[x]
        /\ \A x \in began : x <= cursor => x \in DOMAIN page \union Settled
        /\ Cardinality(DOMAIN page) < BatchSize => \A x \in began : x <= cursor
    BY <1>2, <1>4, <1>9 DEF UsageInv, Progress
  <2>2. \A x \in DOMAIN page : x \in Settled
    BY <1>4, <2>1 DEF ToBeChanged, Settled
  <2>3. \A x \in Settled : x \in Settled'
    BY <1>4, SettledStays DEF Settled
  <2>4. \A x \in began : x <= cursor => x \in Settled'
    BY <2>1, <2>2, <2>3
  <2>5. CASE then = "done"
    BY <2>1, <2>4, <2>5, <1>4, <1>5, <1>6 DEF Progress
  <2>6. CASE then = "reading"
    BY <2>1, <2>4, <2>6, <1>4, <1>5 DEF Progress
  <2> QED BY <2>5, <2>6, <1>6
<1> QED BY <1>7, <1>8, <1>9 DEF UsageInv

LEMMA UsageUntouched ==
  ASSUME UsageInv, UNCHANGED usageVars
  PROVE  UsageInv'
<1>1. runs' = runs /\ deploy' = deploy /\ job' = job /\ disturbed' = disturbed
  BY DEF usageVars
<1>2. RowsFit' /\ disturbed \in BOOLEAN
  BY <1>1 DEF UsageInv, RowsFit, JobFits
<1> QED BY <1>1, <1>2, RowsComeAndGo

(* Every state of the usage reports satisfies the invariant.                 *)
THEOREM UsageInvTheorem == UsageSpec => []UsageInv
<1>1. UsageInv /\ [UsageNext]_usageVars => UsageInv'
  BY AfterEndRun, AfterDeleteThread, AfterIdleSteps, AfterStartBackfill, AfterReadPage, AfterWriteRow, AfterEndPage,
     UsageUntouched DEF UsageNext
<1> QED BY <1>1, AfterStart, PTL DEF UsageSpec

(* A job that ends by itself, with no chat deleted under it, has settled     *)
(* every run it found, and a second one would change nothing; malformed rows *)
(* are as they were. This holds for any page size and any number of runs     *)
(* that end meanwhile (backfillRunCosts.ts:176-255).                         *)
THEOREM BackfillTheorem == UsageSpec => []BackfillIsThorough
<1>1. UsageInv => BackfillIsThorough
  <2> SUFFICES ASSUME UsageInv, job.pc = "done" PROVE BackfillIsThorough
    BY DEF BackfillIsThorough
  <2>1. RowsFit /\ disturbed \in BOOLEAN /\ (~disturbed => Progress)
    BY DEF UsageInv, JobFits
  <2>2. \A id \in DOMAIN runs : Plannable(runs[id]) => Repriced(Repriced(runs[id])) = Repriced(runs[id])
    BY <2>1, RepricedTwice DEF RowsFit
  <2>3. ASSUME ~disturbed, NEW id \in job.began
        PROVE  IF id \in DOMAIN runs /\ Plannable(runs[id]) THEN runs[id] = Repriced(runs[id])
               ELSE id \in DOMAIN runs \cap DOMAIN Legacy => runs[id] = Legacy[id]
    <3>1. id \in Settled
      BY <2>1, <2>3 DEF Progress
    <3>2. id \in DOMAIN runs /\ (Plannable(runs[id]) => runs[id] = Repriced(runs[id]))
      BY <3>1 DEF Settled
    <3>3. id \in DOMAIN Legacy => Plannable(runs[id]) \/ runs[id] = Legacy[id]
      BY <2>1, <3>2 DEF RowsFit
    <3> QED BY <3>2, <3>3
  <2> QED BY <2>2, <2>3 DEF BackfillIsThorough
<1> QED BY <1>1, UsageInvTheorem, PTL

-----------------------------------------------------------------------------
(* The open page. What a request has read is what the tables hold, unless a  *)
(* change fell between its queries, and the page's fingerprint is that of    *)
(* the payload it shows.                                                     *)
Places == {"idle", "share", "itinerary", "place", "trip", "agency", "answer", "done"}
ReadBefore(stage) ==
  CASE stage = "itinerary" -> {"share"}
    [] stage = "place" -> {"share", "itinerary"}
    [] stage = "trip" -> {"share", "itinerary", "place"}
    [] stage = "agency" -> {"share", "itinerary", "place", "trip"}
    [] stage = "answer" -> {"share", "itinerary", "place", "trip", "agency"}
    [] OTHER -> {}

RequestFits(q) ==
  /\ q = [pc |-> q.pc, got |-> q.got, torn |-> q.torn, code |-> q.code, revision |-> q.revision]
  /\ q.pc \in Places /\ q.torn \in BOOLEAN
  /\ q.pc \notin {"idle", "done"} =>
       /\ DOMAIN q.got = ReadBefore(q.pc)
       /\ ~q.torn => \A k \in ReadBefore(q.pc) : q.got[k] = TableOf(k)

PageFits(p) ==
  /\ p.revision = ComputeShareRevision(p.payload)
  /\ p.payload.trip = [clientName |-> p.payload.trip.clientName]

ShareInv ==
  /\ DOMAIN asked = Requests /\ \A r \in Requests : RequestFits(asked[r])
  /\ shown = Nothing \/ PageFits(shown)
  /\ asked["check"].pc # "idle" => PageFits(shown)

LEMMA BuiltPageFits ==
  ASSUME NEW d, NEW p, p = [payload |-> BuildShareResponse(d), revision |-> ComputeShareRevision(BuildShareResponse(d))]
  PROVE  PageFits(p)
<1>1. PICK x : x = BuildShareResponse(d)
  OBVIOUS
<1>2. p.payload = x /\ p.revision = ComputeShareRevision(x)
  BY <1>1
<1>3. x.trip = [clientName |-> d.trip.clientName]
  BY <1>1 DEF BuildShareResponse
<1>4. x.trip = [clientName |-> x.trip.clientName]
  BY <1>3
<1> QED BY <1>2, <1>4 DEF PageFits

LEMMA ShareStarts == ShareInit => ShareInv
<1> SUFFICES ASSUME ShareInit PROVE ShareInv
  OBVIOUS
<1>1. asked = [r \in Requests |-> [pc |-> "idle", got |-> <<>>, torn |-> FALSE, code |-> 0, revision |-> <<>>]]
  BY DEF ShareInit, NoRequest
<1>2. ASSUME NEW r \in Requests PROVE RequestFits(asked[r]) /\ asked[r].pc = "idle"
  <2>1. asked[r] = [pc |-> "idle", got |-> <<>>, torn |-> FALSE, code |-> 0, revision |-> <<>>]
    BY <1>1
  <2>2. asked[r].pc = "idle" /\ asked[r].got = <<>> /\ asked[r].torn = FALSE /\ asked[r].code = 0 /\ asked[r].revision = <<>>
    BY <2>1
  <2> QED BY <2>1, <2>2 DEF RequestFits, Places
<1>3. shown = Nothing \/ PageFits(shown)
  <2>1. PICK d : d = [share |-> share, itinerary |-> itinerary, place |-> place, trip |-> trip, agency |-> agency]
    OBVIOUS
  <2>2. shown \in {Nothing, [payload |-> BuildShareResponse(d), revision |-> ComputeShareRevision(BuildShareResponse(d))]}
    BY <2>1, Zenon DEF ShareInit
  <2> QED BY <2>2, BuiltPageFits
<1>4. DOMAIN asked = Requests /\ "check" \in Requests
  BY <1>1 DEF Requests
<1> QED BY <1>2, <1>3, <1>4 DEF ShareInv

(* A change tears every request that has read something.                     *)
LEMMA AfterChange ==
  ASSUME ShareInv, Change
  PROVE  ShareInv'
<1>1. /\ asked' = [r \in Requests |-> IF r \in Torn THEN [asked[r] EXCEPT !.torn = TRUE] ELSE asked[r]]
      /\ shown' = shown
  BY DEF Change
<1>2. ASSUME NEW r \in Requests PROVE RequestFits(asked[r])' /\ asked'[r].pc = asked[r].pc
  <2>1. RequestFits(asked[r])
    BY DEF ShareInv
  <2>2. PICK stage, got, torn, code, revision :
          asked[r] = [pc |-> stage, got |-> got, torn |-> torn, code |-> code, revision |-> revision]
    BY <2>1 DEF RequestFits
  <2>3. /\ asked[r].pc = stage /\ asked[r].got = got /\ asked[r].torn = torn /\ asked[r].code = code
        /\ asked[r].revision = revision
    BY <2>2
  <2>4. CASE r \in Torn
    <3>1. asked'[r] = [pc |-> stage, got |-> got, torn |-> TRUE, code |-> code, revision |-> revision]
      <4>1. asked'[r] = [asked[r] EXCEPT !.torn = TRUE]
        BY <1>1, <2>4
      <4>2. PICK q : q = asked[r]
        OBVIOUS
      <4>3. [q EXCEPT !.torn = TRUE] = [pc |-> stage, got |-> got, torn |-> TRUE, code |-> code, revision |-> revision]
        <5>1. q = [pc |-> stage, got |-> got, torn |-> torn, code |-> code, revision |-> revision]
          BY <2>2, <4>2
        <5>2. PICK t, q1 : t = TRUE /\ q1 = [q EXCEPT !.torn = t]
          OBVIOUS
        <5>3. q1 = [pc |-> stage, got |-> got, torn |-> t, code |-> code, revision |-> revision]
          BY <5>1, <5>2
        <5> QED BY <5>2, <5>3, Zenon
      <4> QED BY <4>1, <4>2, <4>3
    <3>2. /\ asked'[r].pc = stage /\ asked'[r].got = got /\ asked'[r].torn = TRUE /\ asked'[r].code = code
          /\ asked'[r].revision = revision
      BY <3>1
    <3> QED BY <2>1, <2>3, <3>1, <3>2 DEF RequestFits
  <2>5. CASE r \notin Torn
    <3>1. asked'[r] = asked[r]
      BY <1>1, <2>5
    <3>2. asked[r].pc \notin {"idle", "done"} => asked[r].got = <<>>
      BY <2>5 DEF Torn, Reading
    <3>3. asked[r].pc \notin {"idle", "done"} => ReadBefore(asked[r].pc) = {}
      <4>1. SUFFICES ASSUME asked[r].pc \notin {"idle", "done"} PROVE ReadBefore(asked[r].pc) = {}
        OBVIOUS
      <4>2. DOMAIN asked[r].got = {}
        BY <3>2, <4>1
      <4> QED BY <2>1, <4>1, <4>2 DEF RequestFits
    <3>4. RequestFits(asked[r])'
      BY <2>1, <3>1, <3>3 DEF RequestFits
    <3> QED BY <3>1, <3>4
  <2> QED BY <2>4, <2>5
<1>3. shown' = Nothing \/ PageFits(shown)'
  BY <1>1 DEF ShareInv, PageFits, ComputeShareRevision, VisibleItinerary
<1>4. asked'["check"].pc # "idle" => PageFits(shown)'
  BY <1>1, <1>2 DEF ShareInv, PageFits, ComputeShareRevision, VisibleItinerary, Requests
<1>5. DOMAIN asked' = Requests
  BY <1>1
<1> QED BY <1>2, <1>3, <1>4, <1>5 DEF ShareInv, Nothing

LEMMA AfterAsk ==
  ASSUME ShareInv, Ask
  PROVE  ShareInv'
<1>1. PICK r \in Requests :
        /\ r = "check" => shown # Nothing
        /\ asked' = [asked EXCEPT ![r] = [NoRequest EXCEPT !.pc = "share"]]
  BY DEF Ask
<1>2. shown' = shown /\ share' = share /\ itinerary' = itinerary /\ place' = place /\ trip' = trip /\ agency' = agency
  BY DEF Ask, data
<1>3. asked'[r] = [pc |-> "share", got |-> <<>>, torn |-> FALSE, code |-> 0, revision |-> <<>>]
  BY <1>1 DEF NoRequest, ShareInv
<1>4. /\ asked'[r].pc = "share" /\ asked'[r].got = <<>> /\ asked'[r].torn = FALSE /\ asked'[r].code = 0
      /\ asked'[r].revision = <<>>
  BY <1>3
<1>5. DOMAIN asked' = Requests /\ \A s \in Requests : s # r => asked'[s] = asked[s]
  BY <1>1 DEF ShareInv
<1>6. RequestFits(asked[r])'
  <2>1. DOMAIN asked'[r].got = {} /\ ReadBefore("share") = {}
    BY <1>4 DEF ReadBefore
  <2> QED BY <1>3, <1>4, <2>1 DEF RequestFits, Places
<1>7. \A k : TableOf(k)' = TableOf(k)
  BY <1>2 DEF TableOf
<1>8. ASSUME NEW s \in Requests, s # r PROVE RequestFits(asked[s])'
  BY <1>5, <1>7, <1>8 DEF ShareInv, RequestFits
<1>9. shown' = Nothing \/ PageFits(shown)'
  BY <1>2 DEF ShareInv, PageFits
<1>10. ASSUME asked'["check"].pc # "idle" PROVE PageFits(shown)'
  <2>1. PageFits(shown)
    BY <1>1, <1>5, <1>10 DEF ShareInv, Requests
  <2> QED BY <1>2, <2>1 DEF PageFits
<1> QED BY <1>5, <1>6, <1>8, <1>9, <1>10 DEF ShareInv, Nothing

LEMMA AfterFind ==
  ASSUME ShareInv, FindShareByToken
  PROVE  ShareInv'
<1>1. PICK r \in Reading :
        /\ asked[r].pc # "answer"
        /\ asked' = [asked EXCEPT ![r].pc = Following[asked[r].pc], ![r].got = Learned(@, asked[r].pc)]
  BY DEF FindShareByToken
<1>2. shown' = shown /\ share' = share /\ itinerary' = itinerary /\ place' = place /\ trip' = trip /\ agency' = agency
  BY DEF FindShareByToken, data
<1>3. r \in Requests /\ asked[r].pc \notin {"idle", "done", "answer"} /\ RequestFits(asked[r])
  BY <1>1 DEF Reading, ShareInv
<1>4. PICK stage, got, torn, code, revision :
        asked[r] = [pc |-> stage, got |-> got, torn |-> torn, code |-> code, revision |-> revision]
  BY <1>3 DEF RequestFits
<1>5. asked[r].pc = stage /\ asked[r].got = got /\ asked[r].torn = torn
  BY <1>4
<1>6. stage \in {"share", "itinerary", "place", "trip", "agency"}
  BY <1>3, <1>5 DEF RequestFits, Places
<1>7. PICK after, known : after = Following[stage] /\ known = Learned(got, stage)
  OBVIOUS
<1>8. asked'[r] = [pc |-> after, got |-> known, torn |-> torn, code |-> code, revision |-> revision]
  <2>1. asked'[r] = [asked[r] EXCEPT !.pc = Following[asked[r].pc], !.got = Learned(@, asked[r].pc)]
    BY <1>1, <1>3 DEF ShareInv
  <2>2. PICK q : q = asked[r]
    OBVIOUS
  <2>3. [q EXCEPT !.pc = after, !.got = known]
          = [pc |-> after, got |-> known, torn |-> torn, code |-> code, revision |-> revision]
    <3>1. q = [pc |-> stage, got |-> got, torn |-> torn, code |-> code, revision |-> revision]
      BY <1>4, <2>2
    <3>2. PICK q1 : q1 = [q EXCEPT !.pc = after, !.got = known]
      OBVIOUS
    <3>3. q1 = [pc |-> after, got |-> known, torn |-> torn, code |-> code, revision |-> revision]
      BY <3>1, <3>2
    <3> QED BY <3>2, <3>3
  <2> QED BY <1>5, <1>7, <2>1, <2>2, <2>3
<1>9. /\ asked'[r].pc = after /\ asked'[r].got = known /\ asked'[r].torn = torn /\ asked'[r].code = code
      /\ asked'[r].revision = revision
  BY <1>8
<1>10. /\ after \in {"itinerary", "place", "trip", "agency", "answer"}
       /\ ReadBefore(after) = ReadBefore(stage) \union {stage} /\ stage \notin ReadBefore(stage)
  BY <1>6, <1>7 DEF Following, ReadBefore
<1>11. \A k : TableOf(k)' = TableOf(k)
  BY <1>2 DEF TableOf
<1>12. RequestFits(asked[r])'
  <2>1. /\ DOMAIN got = ReadBefore(stage) /\ torn \in BOOLEAN
        /\ ~torn => \A k \in ReadBefore(stage) : got[k] = TableOf(k)
    BY <1>3, <1>5 DEF RequestFits
  <2>2. DOMAIN known = ReadBefore(after)
    BY <1>7, <1>10, <2>1 DEF Learned
  <2>3. \A k \in ReadBefore(after) : known[k] = IF k = stage THEN TableOf(stage) ELSE got[k]
    BY <1>7, <1>10, <2>1 DEF Learned
  <2>4. ~torn => \A k \in ReadBefore(after) : known[k] = TableOf(k)
    BY <1>10, <2>1, <2>3
  <2>5. after \in Places
    BY <1>10 DEF Places
  <2>6. ~torn => \A k \in ReadBefore(after) : known[k] = TableOf(k)'
    BY <2>4, <1>11
  <2> QED BY <1>8, <1>9, <2>1, <2>2, <2>5, <2>6 DEF RequestFits
<1>13. DOMAIN asked' = Requests /\ \A s \in Requests : s # r => asked'[s] = asked[s]
  BY <1>1 DEF ShareInv
<1>14. ASSUME NEW s \in Requests, s # r PROVE RequestFits(asked[s])'
  BY <1>11, <1>13, <1>14 DEF ShareInv, RequestFits
<1>15. shown' = Nothing \/ PageFits(shown)'
  BY <1>2 DEF ShareInv, PageFits
<1>16. ASSUME asked'["check"].pc # "idle" PROVE PageFits(shown)'
  <2>1. PageFits(shown)
    BY <1>3, <1>13, <1>16 DEF ShareInv, Requests
  <2> QED BY <1>2, <2>1 DEF PageFits
<1> QED BY <1>12, <1>13, <1>14, <1>15, <1>16 DEF ShareInv, Nothing

(* What an answer does: the request is over, and a page shows what it read.  *)
LEMMA Responded ==
  ASSUME ShareInv, Respond
  PROVE  \E r \in Reading : \E code : \E rev :
           /\ asked[r].pc = "answer" /\ RequestFits(asked[r])
           /\ asked'[r] = [pc |-> "done", got |-> <<>>, torn |-> asked[r].torn, code |-> code, revision |-> rev]
           /\ DOMAIN asked' = Requests /\ \A s \in Requests : s # r => asked'[s] = asked[s]
           /\ r = "check" /\ code = OK => rev = ComputeShareRevision(BuildShareResponse(asked[r].got))
           /\ shown' = shown \/ shown' = [payload |-> BuildShareResponse(asked[r].got),
                                          revision |-> ComputeShareRevision(BuildShareResponse(asked[r].got))]
           /\ r = "check" => shown' = shown
<1>1. PICK r \in Reading :
        LET got == asked[r].got
            response == BuildShareResponse(got)
            revision == ComputeShareRevision(response)
            gone == got.share.state = "revoked"
        IN /\ asked[r].pc = "answer"
           /\ asked' = [asked EXCEPT ![r] = [@ EXCEPT !.pc = "done", !.got = <<>>, !.code = IF gone THEN Gone ELSE OK,
                                             !.revision = IF gone \/ r = "page" THEN <<>> ELSE revision]]
           /\ shown' = IF r = "page" /\ ~gone THEN [payload |-> response, revision |-> revision] ELSE shown
  BY Zenon DEF Respond
<1>2. r \in Requests /\ RequestFits(asked[r]) /\ DOMAIN asked = Requests
  BY DEF Reading, ShareInv
<1>3. PICK q, built, print, gone :
        /\ q = asked[r] /\ built = BuildShareResponse(q.got) /\ print = ComputeShareRevision(built)
        /\ gone = (q.got.share.state = "revoked")
  OBVIOUS
<1>4. PICK code, rev : code = (IF gone THEN Gone ELSE OK) /\ rev = (IF gone \/ r = "page" THEN <<>> ELSE print)
  OBVIOUS
<1>5. /\ asked[r].pc = "answer"
      /\ asked' = [asked EXCEPT ![r] = [q EXCEPT !.pc = "done", !.got = <<>>, !.code = code, !.revision = rev]]
      /\ shown' = IF r = "page" /\ ~gone THEN [payload |-> built, revision |-> print] ELSE shown
  BY <1>1, <1>3, <1>4, Zenon
<1>6. [q EXCEPT !.pc = "done", !.got = <<>>, !.code = code, !.revision = rev]
        = [pc |-> "done", got |-> <<>>, torn |-> q.torn, code |-> code, revision |-> rev]
  <2>1. PICK stage, got, torn, cd, rv : q = [pc |-> stage, got |-> got, torn |-> torn, code |-> cd, revision |-> rv]
    BY <1>2, <1>3 DEF RequestFits
  <2>2. PICK q1 : q1 = [q EXCEPT !.pc = "done", !.got = <<>>, !.code = code, !.revision = rev]
    OBVIOUS
  <2>3. q1 = [pc |-> "done", got |-> <<>>, torn |-> torn, code |-> code, revision |-> rev]
    BY <2>1, <2>2
  <2>4. q.torn = torn
    BY <2>1
  <2> QED BY <2>2, <2>3, <2>4, Zenon
<1>7. /\ asked'[r] = [pc |-> "done", got |-> <<>>, torn |-> q.torn, code |-> code, revision |-> rev]
      /\ DOMAIN asked' = Requests /\ \A s \in Requests : s # r => asked'[s] = asked[s]
  BY <1>2, <1>5, <1>6
<1>8. r = "check" /\ code = OK => rev = print
  <2>1. code = OK => ~gone
    BY <1>4 DEF OK, Gone
  <2> QED BY <2>1, <1>4
<1>9. /\ shown' = shown \/ shown' = [payload |-> built, revision |-> print]
      /\ r = "check" => shown' = shown
  BY <1>5
<1>10. /\ asked'[r] = [pc |-> "done", got |-> <<>>, torn |-> asked[r].torn, code |-> code, revision |-> rev]
       /\ r = "check" /\ code = OK => rev = ComputeShareRevision(BuildShareResponse(asked[r].got))
       /\ shown' = shown \/ shown' = [payload |-> BuildShareResponse(asked[r].got),
                                      revision |-> ComputeShareRevision(BuildShareResponse(asked[r].got))]
  BY <1>3, <1>7, <1>8, <1>9, Zenon
<1>11. /\ asked[r].pc = "answer" /\ RequestFits(asked[r])
       /\ DOMAIN asked' = Requests /\ \A s \in Requests : s # r => asked'[s] = asked[s]
       /\ r = "check" => shown' = shown
  BY <1>2, <1>5, <1>7, <1>9
<1> WITNESS r \in Reading
<1> WITNESS code
<1> WITNESS rev
<1> QED BY <1>10, <1>11, Zenon

LEMMA AfterRespond ==
  ASSUME ShareInv, Respond
  PROVE  ShareInv'
<1>1. PICK r, code, rev :
        /\ r \in Reading /\ asked[r].pc = "answer" /\ RequestFits(asked[r])
        /\ asked'[r] = [pc |-> "done", got |-> <<>>, torn |-> asked[r].torn, code |-> code, revision |-> rev]
        /\ DOMAIN asked' = Requests /\ \A s \in Requests : s # r => asked'[s] = asked[s]
        /\ r = "check" /\ code = OK => rev = ComputeShareRevision(BuildShareResponse(asked[r].got))
        /\ shown' = shown \/ shown' = [payload |-> BuildShareResponse(asked[r].got),
                                       revision |-> ComputeShareRevision(BuildShareResponse(asked[r].got))]
        /\ r = "check" => shown' = shown
  BY Responded
<1>2. share' = share /\ itinerary' = itinerary /\ place' = place /\ trip' = trip /\ agency' = agency
  BY DEF Respond, data
<1>3. RequestFits(asked[r])'
  <2>1. /\ asked'[r].pc = "done" /\ asked'[r].got = <<>> /\ asked'[r].torn = asked[r].torn /\ asked'[r].code = code
        /\ asked'[r].revision = rev
    BY <1>1
  <2>2. asked[r].torn \in BOOLEAN
    BY <1>1 DEF RequestFits
  <2> QED BY <1>1, <2>1, <2>2 DEF RequestFits, Places
<1>4. \A k : TableOf(k)' = TableOf(k)
  BY <1>2 DEF TableOf
<1>5. ASSUME NEW s \in Requests, s # r PROVE RequestFits(asked[s])'
  BY <1>1, <1>4, <1>5 DEF ShareInv, RequestFits
<1>6. PageFits(shown) \/ shown' # shown => PageFits(shown')
  BY <1>1, BuiltPageFits
<1>7. shown' = Nothing \/ PageFits(shown')
  BY <1>6 DEF ShareInv
<1>8. ASSUME asked'["check"].pc # "idle" PROVE PageFits(shown')
  <2>1. asked["check"].pc # "idle"
    BY <1>1, <1>8 DEF Reading, Requests
  <2> QED BY <2>1, <1>6 DEF ShareInv
<1>9. PageFits(shown)' <=> PageFits(shown')
  BY DEF PageFits, ComputeShareRevision, VisibleItinerary
<1> QED BY <1>1, <1>3, <1>5, <1>7, <1>8, <1>9 DEF ShareInv, Nothing

LEMMA AfterShareStep == ShareInv /\ [ShareNext]_shareVars => ShareInv'
<1> SUFFICES ASSUME ShareInv, [ShareNext]_shareVars PROVE ShareInv'
  OBVIOUS
<1>1. CASE EditItinerary \/ RefreshPlace \/ SaveTrip \/ UseLink \/ RenameAgency
  BY <1>1, AfterChange DEF EditItinerary, RefreshPlace, SaveTrip, UseLink, RenameAgency
<1>2. CASE UNCHANGED shareVars
  <2>1. asked' = asked /\ shown' = shown /\ UNCHANGED <<share, itinerary, place, trip, agency>>
    BY <1>2 DEF shareVars, data
  <2>2. \A k : TableOf(k)' = TableOf(k)
    BY <2>1 DEF TableOf
  <2>3. \A r \in Requests : RequestFits(asked[r])'
    BY <2>1, <2>2 DEF ShareInv, RequestFits
  <2> QED BY <2>1, <2>3 DEF ShareInv, PageFits, Nothing
<1> QED BY <1>1, <1>2, AfterAsk, AfterFind, AfterRespond DEF ShareNext

(* Every state of the open page satisfies the invariant.                     *)
THEOREM ShareInvTheorem == ShareSpec => []ShareInv
BY ShareStarts, AfterShareStep, PTL DEF ShareSpec

(* Fingerprints agree exactly when the parts they are made of do.            *)
LEMMA PrintsAgree ==
  ASSUME NEW x, NEW y,
         x.trip = [clientName |-> x.trip.clientName], y.trip = [clientName |-> y.trip.clientName]
  PROVE  ComputeShareRevision(x) = ComputeShareRevision(y) <=> PartShown(x) = PartShown(y)
<1> DEFINE a == x.itinerary
           b == y.itinerary
<1>1. ComputeShareRevision(x) = ComputeShareRevision(y)
        <=> VisibleItinerary(a) = VisibleItinerary(b) /\ x.trip = y.trip
  BY DEF ComputeShareRevision
<1>2. VisibleItinerary(a) = VisibleItinerary(b)
        <=> a.text = b.text /\ a.notes = b.notes /\ a.place.name = b.place.name /\ a.place.status = b.place.status
  BY DEF VisibleItinerary
<1>3. x.trip = y.trip <=> x.trip.clientName = y.trip.clientName
  OBVIOUS
<1>4. PartShown(x) = PartShown(y)
        <=> /\ a.text = b.text /\ a.notes = b.notes /\ a.place.name = b.place.name /\ a.place.status = b.place.status
            /\ x.trip.clientName = y.trip.clientName
  BY DEF PartShown
<1> QED BY <1>1, <1>2, <1>3, <1>4

(* An open page is told "changed" exactly when the itinerary, a place's      *)
(* name or status or the client's name differ from what it shows, however    *)
(* often they change back and forth and whatever the page itself read        *)
(* between the changes (publicShareService.ts:155-160,180-184).              *)
THEOREM NoticedTheorem == ShareSpec => EditsAreNoticed
<1>1. ASSUME ShareInv, [ShareNext]_shareVars, Checked, asked'["check"].code = OK
      PROVE  asked'["check"].revision = shown.revision <=> PartShown(shown.payload) = EditedPart
  <2>1. asked["check"].pc = "answer" /\ asked'["check"].pc = "done" /\ ~asked["check"].torn
    BY <1>1 DEF Checked
  <2>2. "check" \in Requests
    BY DEF Requests
  <2>3. Respond
    <3>1. ~(EditItinerary \/ RefreshPlace \/ SaveTrip \/ UseLink \/ RenameAgency)
      <4>1. SUFFICES ASSUME Change PROVE FALSE
        BY DEF EditItinerary, RefreshPlace, SaveTrip, UseLink, RenameAgency
      <4>2. asked'["check"] = IF "check" \in Torn THEN [asked["check"] EXCEPT !.torn = TRUE] ELSE asked["check"]
        BY <2>2, <4>1 DEF Change
      <4>3. PICK q : q = asked["check"]
        OBVIOUS
      <4>4. [q EXCEPT !.torn = TRUE].pc = q.pc
        <5>1. RequestFits(q)
          BY <1>1, <2>2, <4>3 DEF ShareInv
        <5>2. PICK stage, got, torn, cd, rv : q = [pc |-> stage, got |-> got, torn |-> torn, code |-> cd, revision |-> rv]
          BY <5>1 DEF RequestFits
        <5> QED BY <5>2
      <4> QED BY <2>1, <4>2, <4>3, <4>4
    <3>2. ~Ask
      <4>1. SUFFICES ASSUME Ask PROVE FALSE
        OBVIOUS
      <4>2. PICK r \in Requests : asked' = [asked EXCEPT ![r] = [NoRequest EXCEPT !.pc = "share"]]
        BY <4>1 DEF Ask
      <4>3. PICK q : q = [NoRequest EXCEPT !.pc = "share"]
        OBVIOUS
      <4>4. q.pc = "share"
        BY <4>3 DEF NoRequest
      <4>5. asked'["check"] = q \/ asked'["check"] = asked["check"]
        BY <1>1, <2>2, <4>2, <4>3 DEF ShareInv
      <4> QED BY <2>1, <4>4, <4>5
    <3>3. ~FindShareByToken
      <4>1. SUFFICES ASSUME FindShareByToken PROVE FALSE
        OBVIOUS
      <4>2. PICK r \in Reading :
              /\ asked[r].pc # "answer"
              /\ asked' = [asked EXCEPT ![r].pc = Following[asked[r].pc], ![r].got = Learned(@, asked[r].pc)]
        BY <4>1 DEF FindShareByToken
      <4>3. asked'["check"] = asked["check"]
        BY <1>1, <2>1, <2>2, <4>2 DEF ShareInv
      <4> QED BY <2>1, <4>3
    <3>4. ~UNCHANGED shareVars
      BY <2>1 DEF shareVars
    <3> QED BY <1>1, <3>1, <3>2, <3>3, <3>4 DEF ShareNext
  <2>4. PICK r, code, rev :
          /\ r \in Reading /\ asked[r].pc = "answer" /\ RequestFits(asked[r])
          /\ asked'[r] = [pc |-> "done", got |-> <<>>, torn |-> asked[r].torn, code |-> code, revision |-> rev]
          /\ DOMAIN asked' = Requests /\ \A s \in Requests : s # r => asked'[s] = asked[s]
          /\ r = "check" /\ code = OK => rev = ComputeShareRevision(BuildShareResponse(asked[r].got))
    BY <1>1, <2>3, Responded
  <2>5. r = "check"
    BY <2>1, <2>2, <2>4
  <2>6. PICK d, built, page : d = asked["check"].got /\ built = BuildShareResponse(d) /\ page = shown.payload
    OBVIOUS
  <2>7. asked'["check"].revision = ComputeShareRevision(built)
    <3>1. asked'["check"].code = code /\ asked'["check"].revision = rev
      BY <2>4, <2>5
    <3> QED BY <1>1, <2>4, <2>5, <2>6, <3>1
  <2>8. d.itinerary = itinerary /\ d.place = place /\ d.trip = trip
    <3>1. \A k \in ReadBefore("answer") : d[k] = TableOf(k)
      BY <2>1, <2>4, <2>5, <2>6 DEF RequestFits
    <3>2. ReadBefore("answer") = {"share", "itinerary", "place", "trip", "agency"}
      BY DEF ReadBefore
    <3>3. TableOf("itinerary") = itinerary /\ TableOf("place") = place /\ TableOf("trip") = trip
      BY DEF TableOf
    <3> QED BY <3>1, <3>2, <3>3
  <2>9. /\ shown.revision = ComputeShareRevision(page)
        /\ page.trip = [clientName |-> page.trip.clientName]
    BY <1>1, <2>1, <2>6 DEF ShareInv, PageFits
  <2>10. built.trip = [clientName |-> built.trip.clientName] /\ PartShown(built) = EditedPart
    <3>1. /\ built.itinerary = [text |-> itinerary.text, notes |-> itinerary.notes, version |-> itinerary.version, place |-> place]
          /\ built.trip = [clientName |-> trip.clientName]
      BY <2>6, <2>8 DEF BuildShareResponse, PublicItinerary
    <3>2. /\ built.itinerary.text = itinerary.text /\ built.itinerary.notes = itinerary.notes
          /\ built.itinerary.place = place /\ built.trip.clientName = trip.clientName
      BY <3>1
    <3> QED BY <3>1, <3>2 DEF PartShown, EditedPart
  <2>11. ComputeShareRevision(built) = ComputeShareRevision(page) <=> PartShown(built) = PartShown(page)
    BY <2>9, <2>10, PrintsAgree
  <2> QED BY <2>6, <2>7, <2>9, <2>10, <2>11
<1>2. ShareInv /\ [ShareNext]_shareVars =>
        [Checked /\ asked'["check"].code = OK =>
           (asked'["check"].revision = shown.revision <=> PartShown(shown.payload) = EditedPart)]_shareVars
  BY <1>1
<1> QED BY <1>2, ShareInvTheorem, PTL DEF ShareSpec, EditsAreNoticed
=============================================================================
