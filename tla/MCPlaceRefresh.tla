-------------------------- MODULE MCPlaceRefresh --------------------------
(* Two places, a pool of two and one agent run; an hour is two ticks of the *)
(* clock, a cooldown lasts for one, and a status is fresh only at the tick  *)
(* it was observed.                                                         *)
EXTENDS PlaceRefresh

CONSTANTS p1, p2, a1

TwoPlaces == {p1, p2}
MCAgentRuns == {a1}
=============================================================================
