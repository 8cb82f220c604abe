---------------------------- MODULE MCAgentRun ----------------------------
(* One run and a cancel request: runs share nothing but the server's crash  *)
(* and the fault budget.                                                    *)
EXTENDS AgentRun, TLC

CONSTANTS r1, c1

MCRuns == {r1}
OneCancel == {c1}
=============================================================================
