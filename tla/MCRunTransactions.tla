------------------------- MODULE MCRunTransactions -------------------------
(* Three transactions over two runs of one thread: two of them can meet on  *)
(* one run while the third works beside them or on the thread's task order. *)
EXTENDS RunTransactions

CONSTANTS r1, r2, t1, t2, t3, k1, k2

MCRuns == {r1, r2}
MCTxns == {t1, t2, t3}

\* The thread has two tasks, which transactions of two runs may exchange; a new
\* task may ask for a place that is taken.
MCTasks == {k1, k2}
MCFirstOrder == [k \in MCTasks |-> IF k = k1 THEN 1 ELSE 2]

\* Two transactions are of any operation, but failRunIfOpen, which executes
\* cancelRunIfOpen's statement with another status, and createRunEvent, which is
\* a createSourcesAndEvents of one source.  The third completes a run beside them.
MCWork ==
  [t \in MCTxns |-> IF t = t3 THEN {"completeRunIfOpen"}
                    ELSE Ops \ {"failRunIfOpen", "createRunEvent"}]
=============================================================================
