-------------------------- MODULE MCPlaceSelection --------------------------
(* Two sessions, a run and a request, on one itinerary with one stop, and a  *)
(* second place to select.  Edits of the two overlap; a search shares nothing *)
(* but the stored snapshots with another session, which ObserveStatus and    *)
(* Backfill change at any time.                                              *)
EXTENDS PlaceSelection, TLC

CONSTANTS s1, s2, p1, p2, n1, n2

MCNameOf == (p1 :> n1) @@ (p2 :> n2)
MCStops == <<p1>>

Note(id, name, status) == [id |-> id, name |-> name, city |-> None, status |-> status]
MCNoteSets == {{Note(p2, n2, "AVOID"), Note(None, n1, "CLOSED"), Note(p1, n1, "PREFERRED")}}

Item(id, name) == [id |-> id, name |-> name, city |-> None]
Ask(op, slot, items) == [op |-> op, slot |-> slot, items |-> items]
MCAsks ==
  {Ask("add", 0, <<Item(p2, None)>>),
   Ask("update", 1, <<Item(p2, None)>>), Ask("update", 1, <<Item(p1, n2)>>),
   Ask("replace", 0, <<Item(p1, None), Item(p1, None)>>),
   Ask("search", 0, <<>>), Ask("pinpoint", 0, <<>>)}

OnlyEditsOverlap ==
  \A s, t \in Sessions :
    s # t /\ req[s] # Idle /\ req[t] # Idle => req[s].op \in {"add", "update", "replace"}

MCSpec == Init /\ [][Next /\ OnlyEditsOverlap']_vars

Symmetry == Permutations({s1, s2})
=============================================================================
