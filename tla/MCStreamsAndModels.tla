-------------------------- MODULE MCStreamsAndModels --------------------------
(* Two components of the agent that do not touch each other's state are      *)
(* explored by one run: every behaviour is one of one of them, told by part, *)
(* and the other keeps its initial state.                                    *)
(*  - stream: two clients on one run that persists up to three events, with  *)
(*    a call that throws; no tool is counted;                                *)
(*  - tools: the same clients and three tool calls, with one event and no    *)
(*    fault;                                                                 *)
(*  - models: two calls, over and over, with two prompts: one is used in     *)
(*    streams, the other for whole answers; one call with a provider that    *)
(*    differs from Vertex in two answers only.                               *)
EXTENDS RunStream, ModelCalls, TLC

CONSTANTS Parts,
          x1, x2,               \* streams, and calls: one symmetry serves both
          p1, p2, h1, h2

VARIABLE part

TwoStreams == {x1, x2}
OneStream == {x1}
TwoCalls == {x1, x2}
TwoPrompts == {p1, p2}
TwoHandles == {h1, h2}
MCUses == {<<"stream", p1>>, <<"complete", p2>>}

\* A component that is not explored has one initial state.
Init ==
  /\ part \in Parts /\ StreamInit /\ ModelInit
  /\ part # "models" => provider = "vertex"

Next ==
  /\ UNCHANGED part
  /\ \/ part = "stream" /\ StreamNext /\ attempts' = 0 /\ UNCHANGED modelVars
     \/ part = "tools" /\ StreamNext /\ persisted' <= 1 /\ faults' = 0 /\ UNCHANGED modelVars
     \/ /\ part = "models" /\ ModelNext /\ UNCHANGED streamVars
        /\ provider = "express" => \E c \in Calls : call'[c] = NotCalled

Spec == Init /\ [][Next]_<<part, streamVars, modelVars>>

Symmetry == Permutations({x1, x2}) \union Permutations({h1, h2})
=============================================================================
