---------------------------- MODULE MCTeamAndEdits ----------------------------
(* Two components that do not touch each other's state are explored by one   *)
(* run: every behaviour is one of one of them, told by part, and the other   *)
(* keeps its initial state.                                                  *)
(*  - team: an owner and another user, and three requests, of which at most  *)
(*    two overlap at a time;                                                 *)
(*  - edits: two edits of a trip of two days. It starts from a tidy          *)
(*    itinerary or from what earlier edits can leave: days with a gap        *)
(*    between them (two overlapping edits, or a plan whose days are so       *)
(*    numbered) and a day whose stops count from zero (Reuse of a day), in   *)
(*    review or approved. i2 has no place on the map.                        *)
EXTENDS Team, ItineraryEdits, TLC

CONSTANTS Parts, o, m, r1, r2, r3, none,
          x1, x2,               \* invitations, and edits: one symmetry serves both
          d1, d2, i1, i2, i3

VARIABLE part

TwoPeople == {o, m}
TwoRequests == {r1, r2}
ThreeRequests == {r1, r2, r3}
TwoInvites == {x1, x2}

MCEdits == {x1, x2}
MCDays == {d1, d2}
MCItems == {i1, i2, i3}

Trips(status, days) ==
  (Trip :> Header(status, 0)) @@ (Itin :> Header(status, 0)) @@ days

Tidy ==
  (d1 :> Place(Itin, 1, None)) @@ (d2 :> Place(Itin, 2, None))
  @@ (i1 :> Place(d1, 1, None)) @@ (i2 :> Place(d1, 2, None)) @@ (i3 :> Place(d1, 3, i1))

Uneven ==
  (d1 :> Place(Itin, 1, None)) @@ (d2 :> Place(Itin, 3, None))
  @@ (i1 :> Place(d1, 0, None)) @@ (i3 :> Place(d1, 1, i1)) @@ (i2 :> Place(d2, 0, None))

MCStart == {Trips(s, t) : s \in Statuses, t \in {Tidy, Uneven}}
MCSlots == {1, 2, None}
MCCustom == {i2}

MCKinds == HandKinds \union StatusKinds \union ReuseKinds

\* A component that is not explored has one initial state.
Init ==
  /\ part \in Parts /\ TeamInit /\ EditsInit
  /\ part # "edits" => table = Trips("IN_REVIEW", Tidy)
  /\ part # "team" => /\ agency.status = "none"
                      /\ account \in [People -> [status : {"ACTIVE"}, type : {"PENDING"}]]

Next ==
  /\ UNCHANGED part
  /\ \/ part = "team" /\ TeamNext /\ UNCHANGED editVars /\ Cardinality(Running') <= 2
     \/ part = "edits" /\ EditsNext /\ UNCHANGED teamVars

Spec == Init /\ [][Next]_<<part, teamVars, editVars>>

Symmetry == Permutations({r1, r2, r3}) \union Permutations({x1, x2})
=============================================================================
