-------------------------- MODULE LoneEditProofs ---------------------------
(***************************************************************************)
(* AloneNeverFails and EditsKeepRoutesCurrent, for any number of edits,    *)
(* days and stops: an edit of an itinerary (ItineraryEdits.tla) that no    *)
(* other one overlaps trips neither over the unique indexes nor over a row *)
(* that is gone, and leaves no stop with a route that it has made wrong.   *)
(*                                                                         *)
(* The invariant follows the statements that the edit still has to send.   *)
(* They are smooth: either the opening of one of the plans that delete or  *)
(* move a row, or a flow. In a flow a statement writes or numbers rows that*)
(* are there, a place whose key a statement claims has been given another  *)
(* one before, no two statements claim one key, and what a numbering       *)
(* statement is to read is not at a scratch position when its turn comes.  *)
(* A flow stays one when its first statement is executed (FlowWrites) or,  *)
(* if that one reads, replaced by the writes it leads to (FlowReads).      *)
(* An edit also relies on the ids of its new rows being new, which what    *)
(* the other edits know must not contradict (RowsAreNew).                  *)
(*                                                                         *)
(* For the routes the invariant (RoutesTended) says of the days whose      *)
(* order the edit disturbs that it has still to clear their stale routes,  *)
(* or that it has done so; no other list of stops has changed.             *)
(***************************************************************************)
EXTENDS TeamAndEditsProofs

\* A statement that gives a place a key, and the key.
Keyed(s) == s.do \in {"setAt", "insert"}
Claim(v, s) == IF s.do = "insert" THEN Key(s.row) ELSE <<v[s.id].in, s.at>>

\* The statements claim keys of their own, and a place whose key one of them claims
\* has been given another key before.
NoClash(v, t) ==
  /\ \A k \in DOMAIN t, x \in PlacesOf(v) :
       Keyed(t[k]) /\ x # t[k].id /\ Key(v[x]) = Claim(v, t[k]) =>
         \E j \in DOMAIN t : j < k /\ Keyed(t[j]) /\ t[j].id = x
  /\ \A k, j \in DOMAIN t : Keyed(t[k]) /\ Keyed(t[j]) /\ j # k => Claim(v, t[k]) # Claim(v, t[j])

\* The rows that a numbering statement reads.
Numbering == {"resequence", "renumber", "place"}
Scope(v, s) ==
  CASE s.do = "resequence" -> Children(v, s.day)
    [] s.do = "renumber" -> Children(v, Itin)
    [] s.do = "place" -> Children(v, s.day) \ {s.id}

\* When statement k comes to be executed, no row of its scope is at a scratch
\* position, and the item it is to place is at the one moveItem has given it.
ScopeIsDry(v, t, k) ==
  /\ \A x \in Scope(v, t[k]) : v[x].at < 0 => \E j \in DOMAIN t : j < k /\ Settles(t[j], x)
  /\ \A j \in DOMAIN t : j < k /\ Sinks(t[j]) /\ t[j].id \in Scope(v, t[k]) =>
       \E l \in DOMAIN t : j < l /\ l < k /\ Settles(t[l], t[j].id)
ItemIsParked(v, t, k) ==
  /\ t[k].id \in PlacesOf(v) /\ v[t[k].id].in = t[k].day /\ v[t[k].id].at = -1
  /\ \A j \in DOMAIN t : j < k =>
       /\ Keyed(t[j]) => t[j].id # t[k].id
       /\ t[j].do \notin {"renumber", "place"}
       /\ t[j].do = "resequence" => t[j].day # t[k].day

InsertsUnder(v, t, gone, k) ==
  \/ t[k].row.in \in DOMAIN v
  \/ /\ t[k].row.in \notin gone
     /\ \E j \in DOMAIN t : j < k /\ t[j].do = "insert" /\ t[j].id = t[k].row.in

FlowKinds == {"setAt", "insert", "setStatus", "setRoute", "bump", "clear"} \union Numbering

\* The rest of an edit that needs nothing that will not be there.
Flow(v, t, gone) ==
  /\ \A k \in DOMAIN t :
       /\ t[k].do \in FlowKinds
       /\ t[k].do = "setAt" => t[k].id \in PlacesOf(v)
       /\ t[k].do = "setStatus" => t[k].id \in {Trip, Itin}
       /\ t[k].do = "insert" => InsertsUnder(v, t, gone, k)
       /\ t[k].do \in Numbering => ScopeIsDry(v, t, k)
       /\ t[k].do = "place" => ItemIsParked(v, t, k)
  /\ \A j, k \in DOMAIN t : j < k =>
       /\ t[j].do = "insert" => t[k].do \notin {"setAt"} \union Numbering
       /\ t[j].do \in Reads => ~ Keyed(t[k])
  /\ NoClash(v, t)

\* The first statements of the edits that delete or move: no row is parked.
NoneParked(v, but) == \A x \in PlacesOf(v) \ but : v[x].at >= 0
Removing(v, t) ==
  /\ NoneParked(v, {})
  /\ \E id \in PlacesOf(v) :
       \/ t = <<Delete(id), RenumberDays, BumpVersion>>
       \/ \E day : t = <<Delete(id), Resequence(day), ClearRoutes({day})>>
Replacing(e, v, t, gone) ==
  /\ gone = {} /\ NewDay(e) \notin DOMAIN v
  /\ \E number : t = ReplacePlan(e, number)
Moving(v, t) ==
  /\ NoneParked(v, {})
  /\ \E id \in PlacesOf(v), day \in DOMAIN v, slot \in Slots : t = MoveItemPlan(v, id, day, slot)
Crossing(v, t) ==
  \E id \in PlacesOf(v), day \in DOMAIN v, slot \in Slots : \E from :
    /\ from # day /\ v[id].at = -1 /\ v[id].in = from
    /\ NoneParked(v, {id})
    /\ t = <<SetDay(id, day), Resequence(from), PlaceItem(id, day, slot), ClearRoutes({from, day})>>

Smooth(e, v, t, gone) ==
  Flow(v, t, gone) \/ Removing(v, t) \/ Replacing(e, v, t, gone) \/ Moving(v, t) \/ Crossing(v, t)

\* The rows that edit e may insert are not known before e has committed.
Spent(e) ==
  edit[e].phase \in {"done", "failed"} \/ (edit[e].phase # "idle" /\ edit[e].op.kind = "route")
Unknown(rows, day) == day \notin DOMAIN rows /\ \A x \in PlacesOf(rows) : rows[x].in # day
Names(s, day) ==
  \/ s.do = "insert" /\ (s.id = day \/ s.row.in = day)
  \/ s.do = "setDay" /\ s.day = day
\* A transaction that does not know the day: it has not inserted it, nor is it to.
Unnamed(t, day) == IsList(t) /\ \A k \in DOMAIN t : ~ Names(t[k], day)
Blind(t, day) ==
  /\ Unknown(t.own, day) /\ Unnamed(t.todo, day)
  /\ t.op.kind = "reuseItem" => t.op.day # day
NewRows(e) == {NewDay(e), NewItem(e, 1), NewItem(e, 2)}
IsNew(e, id) == Unknown(table, id) /\ \A u \in Edits \ {e} : Blind(edit[u], id)

\* The inductive invariant. A row that an edit may come to insert is known neither
\* to the committed rows nor to any other edit; no other edit is under way beside a
\* lone one, and the rest of a lone one is smooth.
RowsAreNew == \A e \in Edits : ~ Spent(e) => \A id \in NewRows(e) : IsNew(e, id)
LonesAreSmooth ==
  \A e \in Edits : edit[e].alone /\ Active(e) =>
    /\ \A u \in Edits \ {e} : ~ Active(u)
    /\ edit[e].phase = "open" /\ edit[e].op.kind # "reuseItem" =>
         Smooth(e, See(edit[e], table), edit[e].todo, edit[e].dropped)
LoneInv == RowsAreNew /\ LonesAreSmooth

\* v2 is what the transaction sees when it has executed s.
Moved(v, v2, s, gone) ==
  LET w == Written(v, s)
  IN /\ DOMAIN v2 = (DOMAIN v \union (DOMAIN w \ gone)) \ Deleted(v, s)
     /\ \A id \in DOMAIN v2 : v2[id] = IF id \in DOMAIN w THEN w[id] ELSE v[id]

\* A writing statement of the flow whose rows are there.
Executable(v, s) ==
  /\ Sound(s) /\ s.do \in {"setAt", "insert", "setStatus", "setRoute", "bump"}
  /\ s.do = "setAt" => s.id \in PlacesOf(v)
  /\ s.do = "setStatus" => s.id \in {Trip, Itin}
  /\ s.do = "insert" => s.row.in \in DOMAIN v

\* The rows it writes: one with the key it claims, or rows that keep their keys.
Writes(v, s, w) ==
  /\ Needed(s) \subseteq DOMAIN v /\ Deleted(v, s) = {}
  /\ Keyed(s) => DOMAIN w = {s.id} /\ s.id \notin {Trip, Itin} /\ Key(w[s.id]) = Claim(v, s)
  /\ s.do = "setAt" => w[s.id].in = v[s.id].in /\ w[s.id].at = s.at
  /\ ~ Keyed(s) => /\ DOMAIN w \subseteq DOMAIN v
                   /\ \A x \in PlacesOf(w) : w[x].in = v[x].in /\ w[x].at = v[x].at

LEMMA FlowRows ==
  ASSUME NEW v, Typed(v), Trip \in DOMAIN v, Itin \in DOMAIN v, NEW s, Executable(v, s),
         NEW w, w = Written(v, s)
  PROVE  Writes(v, s, w)
<1> USE DEF Executable, Writes
<1>1. Needed(s) \subseteq DOMAIN v /\ Deleted(v, s) = {}
  BY DEF Needed, Deleted, PlacesOf
<1>2. Written(v, s) = Change(v, s)
  BY <1>1 DEF Written
<1>3. CASE s.do = "setAt"
  <2>1. PICK q, r, x : q = v[s.id] /\ r = [q EXCEPT !.at = x] /\ x = s.at
    OBVIOUS
  <2>2. Change(v, s) = Only(s.id, r)
    BY <1>3, <2>1 DEF Change
  <2>3. IsRow(q) /\ s.id \notin {Trip, Itin}
    BY <1>3, <2>1 DEF Typed, PlacesOf
  <2>4. r.in = q.in /\ r.at = x
    BY <2>1, <2>3 DEF IsRow, Place
  <2>5. DOMAIN Only(s.id, r) = {s.id} /\ Only(s.id, r)[s.id] = r
    BY DEF Only
  <2> QED
    BY <1>1, <1>2, <1>3, <2>1, <2>2, <2>3, <2>4, <2>5 DEF Keyed, Claim, Key
<1>4. CASE s.do = "insert"
  <2>1. Change(v, s) = Only(s.id, s.row) /\ s.id \notin {Trip, Itin}
    BY <1>4 DEF Change, Sound
  <2>2. DOMAIN Only(s.id, s.row) = {s.id} /\ Only(s.id, s.row)[s.id] = s.row
    BY DEF Only
  <2> QED
    BY <1>1, <1>2, <1>4, <2>1, <2>2 DEF Keyed, Claim
<1>5. CASE s.do = "setStatus"
  <2>1. \E r : Change(v, s) = Only(s.id, r)
    BY <1>5 DEF Change
  <2>2. DOMAIN Written(v, s) = {s.id} /\ PlacesOf(Written(v, s)) = {} /\ s.id \in DOMAIN v
    BY <1>2, <1>5, <2>1 DEF Only, PlacesOf
  <2> QED
    BY <1>1, <1>5, <2>2 DEF Keyed
<1>6. CASE s.do = "bump"
  <2>1. \E r : Change(v, s) = Only(Itin, r)
    BY <1>6 DEF Change
  <2>2. DOMAIN Written(v, s) = {Itin} /\ PlacesOf(Written(v, s)) = {}
    BY <1>2, <2>1 DEF Only, PlacesOf
  <2> QED
    BY <1>1, <1>6, <2>2 DEF Keyed
<1>7. CASE s.do = "setRoute"
  <2>1. PICK x : x = s.route
    OBVIOUS
  <2>2. DOMAIN w = s.ids \intersect DOMAIN v /\ \A id \in DOMAIN w : w[id] = [v[id] EXCEPT !.route = x]
    BY <1>2, <1>7, <2>1 DEF Change
  <2>3. ASSUME NEW id \in PlacesOf(w)
        PROVE  w[id].in = v[id].in /\ w[id].at = v[id].at
    <3>1. PICK q : q = v[id]
      OBVIOUS
    <3>2. IsRow(q) /\ w[id] = [q EXCEPT !.route = x]
      BY <2>2, <3>1 DEF Typed, PlacesOf
    <3> QED
      BY <3>1, <3>2 DEF IsRow, Place
  <2> QED
    BY <1>1, <1>7, <2>1, <2>2, <2>3 DEF Keyed
<1> QED
  BY <1>3, <1>4, <1>5, <1>6, <1>7

\* What the flow's next statement needs is there, and no row has its key.
LEMMA FlowHead ==
  ASSUME NEW v, Typed(v), KeysAreUnique(v), Trip \in DOMAIN v, Itin \in DOMAIN v,
         NEW t, Legal(t), NEW gone, Flow(v, t, gone), t # << >>, NEW s, s = Head(t), s.do \notin Reads
  PROVE  /\ Executable(v, s)
         /\ Needed(s) \subseteq DOMAIN v
         /\ \A i \in PlacesOf(Written(v, s)), j \in PlacesOf(v) \ DOMAIN Written(v, s) :
              Key(Written(v, s)[i]) # Key(v[j])
<1>1. 1 \in DOMAIN t /\ s = t[1] /\ \A j \in DOMAIN t : ~ (j < 1)
  BY ListFacts DEF Legal
<1>2. Sound(s)
  BY <1>1 DEF Legal
<1>3. s.do \in {"setAt", "insert", "setStatus", "setRoute", "bump"}
  BY <1>1 DEF Flow, FlowKinds, Numbering, Reads
<1>4. s.do = "setAt" => s.id \in PlacesOf(v)
  BY <1>1 DEF Flow
<1>5. s.do = "setStatus" => s.id \in {Trip, Itin}
  BY <1>1 DEF Flow
<1>6. s.do = "insert" => s.row.in \in DOMAIN v
  BY <1>1 DEF Flow, InsertsUnder
<1>10. Executable(v, s)
  BY <1>2, <1>3, <1>4, <1>5, <1>6 DEF Executable
<1>7. PICK w : w = Written(v, s)
  OBVIOUS
<1>8. Writes(v, s, w)
  BY <1>7, <1>10, FlowRows
<1>9. ASSUME NEW i \in PlacesOf(w), NEW j \in PlacesOf(v) \ DOMAIN w
      PROVE  Key(w[i]) # Key(v[j])
  <2>1. CASE Keyed(s)
    <3>1. i = s.id /\ j # s.id /\ Key(w[i]) = Claim(v, s)
      BY <1>8, <2>1 DEF Writes, PlacesOf
    <3>2. Key(v[j]) # Claim(v, t[1])
      BY <1>1, <2>1, <3>1 DEF Flow, NoClash
    <3> QED
      BY <1>1, <3>1, <3>2
  <2>2. CASE ~ Keyed(s)
    <3>1. i \in PlacesOf(v) /\ Key(w[i]) = Key(v[i]) /\ i # j
      BY <1>8, <2>2 DEF Writes, PlacesOf, Key
    <3> QED
      BY <3>1 DEF KeysAreUnique
  <2> QED
    BY <2>1, <2>2
<1> QED
  BY <1>7, <1>8, <1>9, <1>10 DEF Writes

\* What the transaction sees after a statement of the flow.
Sees(v, v2, s, gone) ==
  /\ DOMAIN v \subseteq DOMAIN v2 /\ PlacesOf(v) \subseteq PlacesOf(v2)
  /\ s.do # "insert" => DOMAIN v2 = DOMAIN v /\ \A x \in PlacesOf(v) : v2[x].in = v[x].in
  /\ s.do = "insert" => /\ PlacesOf(v2) \subseteq PlacesOf(v) \union {s.id}
                        /\ s.id \notin gone => s.id \in DOMAIN v2
  /\ \A x \in PlacesOf(v) : x # s.id \/ ~ Keyed(s) => v2[x].in = v[x].in /\ v2[x].at = v[x].at
  /\ Keyed(s) /\ s.id \in DOMAIN v2 => Key(v2[s.id]) = Claim(v, s)
  /\ s.do = "setAt" => s.id \in PlacesOf(v) /\ v2[s.id].at = s.at

LEMMA FlowView ==
  ASSUME NEW v, Typed(v), KeysAreUnique(v), Trip \in DOMAIN v, Itin \in DOMAIN v,
         NEW t, Legal(t), NEW gone, Flow(v, t, gone), t # << >>, NEW s, s = Head(t), s.do \notin Reads,
         NEW v2, Moved(v, v2, s, gone)
  PROVE  Sees(v, v2, s, gone)
<1> USE DEF Sees
<1>1. PICK w : w = Written(v, s)
  OBVIOUS
<1>2. Executable(v, s) /\ (s.do = "setAt" => s.id \in PlacesOf(v))
      /\ s.do \in {"setAt", "insert", "setStatus", "setRoute", "bump"}
  BY FlowHead DEF Executable
<1>9. Writes(v, s, w)
  BY <1>1, <1>2, FlowRows
<1>3. /\ Deleted(v, s) = {}
      /\ Keyed(s) => DOMAIN w = {s.id} /\ s.id \notin {Trip, Itin} /\ Key(w[s.id]) = Claim(v, s)
      /\ s.do = "setAt" => w[s.id].in = v[s.id].in /\ w[s.id].at = s.at
      /\ ~ Keyed(s) => /\ DOMAIN w \subseteq DOMAIN v
                       /\ \A x \in PlacesOf(w) : w[x].in = v[x].in /\ w[x].at = v[x].at
  BY <1>9 DEF Writes
<1>4. /\ DOMAIN v2 = DOMAIN v \union (DOMAIN w \ gone)
      /\ \A id \in DOMAIN v2 : v2[id] = IF id \in DOMAIN w THEN w[id] ELSE v[id]
  BY <1>1, <1>3 DEF Moved
<1>5. DOMAIN v \subseteq DOMAIN v2 /\ PlacesOf(v) \subseteq PlacesOf(v2)
  BY <1>4 DEF PlacesOf
<1>6. CASE s.do = "setAt"
  <2>1. Keyed(s) /\ DOMAIN w = {s.id} /\ s.id \in PlacesOf(v)
    BY <1>2, <1>3, <1>6 DEF Keyed
  <2>2. DOMAIN v2 = DOMAIN v
    BY <1>4, <2>1 DEF PlacesOf
  <2> QED
    BY <1>3, <1>4, <1>5, <1>6, <2>1, <2>2 DEF PlacesOf
<1>7. CASE s.do = "insert"
  <2>1. Keyed(s) /\ DOMAIN w = {s.id}
    BY <1>3, <1>7 DEF Keyed
  <2> QED
    BY <1>3, <1>4, <1>5, <1>7, <2>1 DEF PlacesOf
<1>8. CASE s.do \notin {"setAt", "insert"}
  <2>1. ~ Keyed(s) /\ DOMAIN w \subseteq DOMAIN v /\ DOMAIN v2 = DOMAIN v
    BY <1>3, <1>4, <1>8 DEF Keyed
  <2>2. ASSUME NEW x \in PlacesOf(v)
        PROVE  v2[x].in = v[x].in /\ v2[x].at = v[x].at
    BY <1>3, <1>4, <2>1 DEF PlacesOf
  <2> QED
    BY <1>5, <1>8, <2>1, <2>2
<1> QED
  BY <1>6, <1>7, <1>8

LEMMA FlowClash ==
  ASSUME NEW v, NEW t, Legal(t), NEW gone, Flow(v, t, gone), t # << >>, NEW s, s = Head(t),
         NEW v2, Sees(v, v2, s, gone)
  PROVE  NoClash(v2, Tail(t))
<1>1. PICK n, r : n = Len(t) /\ r = Tail(t)
  OBVIOUS
<1>2. /\ n \in Nat /\ n > 0 /\ DOMAIN t = 1..n /\ s = t[1] /\ DOMAIN r = 1..(n - 1)
      /\ \A k \in 1..(n - 1) : r[k] = t[k + 1]
  BY <1>1, ListFacts DEF Legal
<1>3. ASSUME NEW k \in DOMAIN t, k > 1, Keyed(t[k])
      PROVE  Claim(v2, t[k]) = Claim(v, t[k])
  <2>1. CASE t[k].do = "insert"
    BY <2>1 DEF Claim
  <2>2. CASE t[k].do = "setAt"
    <3>1. t[k].id \in PlacesOf(v) /\ s.do # "insert"
      BY <1>2, <1>3, <2>2 DEF Flow
    <3>2. v2[t[k].id].in = v[t[k].id].in
      BY <3>1 DEF Sees
    <3> QED
      BY <2>2, <3>2 DEF Claim
  <2> QED
    BY <1>3, <2>1, <2>2 DEF Keyed
<1>4. ASSUME NEW k \in DOMAIN t, NEW j \in DOMAIN t, Keyed(t[k]), Keyed(t[j]), j # k
      PROVE  Claim(v, t[k]) # Claim(v, t[j])
  BY <1>4 DEF Flow, NoClash
<1>5. ASSUME NEW k \in DOMAIN t, k > 1, Keyed(t[k]), NEW x \in PlacesOf(v2), x # t[k].id,
             Key(v2[x]) = Claim(v2, t[k])
      PROVE  \E j \in DOMAIN t : 1 < j /\ j < k /\ Keyed(t[j]) /\ t[j].id = x
  <2>1. ~ (Keyed(s) /\ x = s.id)
    <3>1. SUFFICES ASSUME Keyed(s), x = s.id
                   PROVE  FALSE
      OBVIOUS
    <3>2. Key(v2[x]) = Claim(v, t[1])
      BY <1>2, <1>5, <3>1 DEF Sees, PlacesOf
    <3>3. Claim(v, t[k]) = Claim(v, t[1])
      BY <1>3, <1>5, <3>2
    <3>4. 1 \in DOMAIN t /\ 1 # k /\ Keyed(t[1])
      BY <1>2, <1>5, <3>1
    <3> QED
      BY <1>4, <1>5, <3>3, <3>4
  <2>2. x \in PlacesOf(v)
    <3>1. CASE s.do = "insert"
      BY <2>1, <3>1 DEF Sees, Keyed
    <3>2. CASE s.do # "insert"
      BY <3>2 DEF Sees, PlacesOf
    <3> QED
      BY <3>1, <3>2
  <2>3. Key(v[x]) = Key(v2[x])
    BY <2>1, <2>2 DEF Sees, Key
  <2>4. Key(v[x]) = Claim(v, t[k])
    BY <1>3, <1>5, <2>3
  <2>5. PICK j \in DOMAIN t : j < k /\ Keyed(t[j]) /\ t[j].id = x
    BY <1>5, <2>2, <2>4 DEF Flow, NoClash
  <2>6. j # 1
    BY <1>2, <2>1, <2>5
  <2> QED
    BY <1>2, <2>5, <2>6
<1>6. ASSUME NEW k \in DOMAIN r, NEW x \in PlacesOf(v2), Keyed(r[k]), x # r[k].id,
             Key(v2[x]) = Claim(v2, r[k])
      PROVE  \E j \in DOMAIN r : j < k /\ Keyed(r[j]) /\ r[j].id = x
  <2>1. PICK i \in DOMAIN t : i = k + 1 /\ i > 1 /\ t[i] = r[k] /\ k \in Int
    BY <1>2
  <2>2. PICK j \in DOMAIN t : 1 < j /\ j < i /\ Keyed(t[j]) /\ t[j].id = x
    BY <1>5, <1>6, <2>1
  <2>3. j - 1 \in DOMAIN r /\ j - 1 < k /\ r[j - 1] = t[j]
    BY <1>2, <2>1, <2>2
  <2> QED
    BY <2>2, <2>3
<1>7. ASSUME NEW k \in DOMAIN r, NEW j \in DOMAIN r, Keyed(r[k]), Keyed(r[j]), j # k
      PROVE  Claim(v2, r[k]) # Claim(v2, r[j])
  <2>1. PICK i \in DOMAIN t : i = k + 1 /\ i > 1 /\ t[i] = r[k]
    BY <1>2
  <2>2. PICK l \in DOMAIN t : l = j + 1 /\ l > 1 /\ t[l] = r[j]
    BY <1>2
  <2>3. i # l
    BY <1>2, <1>7, <2>1, <2>2
  <2> QED
    BY <1>3, <1>4, <1>7, <2>1, <2>2, <2>3
<1> QED
  BY <1>1, <1>6, <1>7 DEF NoClash

LEMMA FlowScope ==
  ASSUME NEW v, NEW t, Legal(t), NEW gone, Flow(v, t, gone), t # << >>, NEW s, s = Head(t),
         s.do \notin Reads, NEW v2, Sees(v, v2, s, gone), NEW r, r = Tail(t),
         NEW k \in DOMAIN r, r[k].do \in Numbering
  PROVE  ScopeIsDry(v2, r, k) /\ (r[k].do = "place" => ItemIsParked(v2, r, k))
<1>1. PICK n : n = Len(t)
  OBVIOUS
<1>2. /\ n \in Nat /\ n > 0 /\ DOMAIN t = 1..n /\ s = t[1] /\ DOMAIN r = 1..(n - 1)
      /\ \A j \in 1..(n - 1) : r[j] = t[j + 1]
  BY <1>1, ListFacts DEF Legal
<1>3. PICK i \in DOMAIN t : i = k + 1 /\ i > 1 /\ t[i] = r[k] /\ k \in Int
  BY <1>2
<1>4. PICK q : q = t[i]
  OBVIOUS
<1>5. q.do \in Numbering /\ r[k] = q
  BY <1>3, <1>4
<1>6. s.do # "insert"
  BY <1>2, <1>3, <1>4, <1>5 DEF Flow
<1>7. PICK scope : scope = Scope(v, q)
  OBVIOUS
<1>8. Scope(v2, q) = scope /\ scope \subseteq PlacesOf(v)
  <2>1. DOMAIN v2 = DOMAIN v /\ \A x \in DOMAIN v \ {Trip, Itin} : v2[x].in = v[x].in
    BY <1>6 DEF Sees, PlacesOf
  <2>2. \A parent : Children(v2, parent) = Children(v, parent)
    BY <2>1 DEF Children
  <2>3. \A parent : Children(v, parent) \subseteq PlacesOf(v)
    BY DEF Children, PlacesOf
  <2>4. CASE q.do = "resequence"
    BY <1>7, <2>2, <2>3, <2>4 DEF Scope
  <2>5. CASE q.do = "renumber"
    BY <1>7, <2>2, <2>3, <2>5 DEF Scope
  <2>6. CASE q.do = "place"
    BY <1>7, <2>2, <2>3, <2>6 DEF Scope
  <2> QED
    BY <1>5, <2>4, <2>5, <2>6 DEF Numbering
<1>9. /\ \A x \in scope : v[x].at < 0 => \E j \in DOMAIN t : j < i /\ Settles(t[j], x)
      /\ \A j \in DOMAIN t : j < i /\ Sinks(t[j]) /\ t[j].id \in scope =>
           \E l \in DOMAIN t : j < l /\ l < i /\ Settles(t[l], t[j].id)
  BY <1>4, <1>5, <1>7 DEF Flow, ScopeIsDry
<1>10. ASSUME NEW x, NEW j \in DOMAIN t, 1 < j, j < i, Settles(t[j], x)
       PROVE  \E m \in DOMAIN r : m < k /\ Settles(r[m], x)
  <2>1. j - 1 \in DOMAIN r /\ j - 1 < k /\ r[j - 1] = t[j]
    BY <1>2, <1>3, <1>10
  <2> QED
    BY <1>10, <2>1
<1>11. ASSUME NEW x \in scope, v2[x].at < 0
       PROVE  \E m \in DOMAIN r : m < k /\ Settles(r[m], x)
  <2>1. CASE s.do = "setAt" /\ s.id = x
    <3>1. Sinks(t[1]) /\ t[1].id \in scope /\ 1 \in DOMAIN t /\ 1 < i
      BY <1>2, <1>3, <1>11, <2>1 DEF Sees, Sinks
    <3>2. PICK l \in DOMAIN t : 1 < l /\ l < i /\ Settles(t[l], t[1].id)
      BY <1>9, <3>1
    <3>3. t[1].id = x
      BY <1>2, <2>1
    <3> QED
      BY <1>10, <3>2, <3>3
  <2>2. CASE ~ (s.do = "setAt" /\ s.id = x)
    <3>1. v2[x].at = v[x].at
      BY <1>6, <1>8, <2>2 DEF Sees, Keyed
    <3>2. PICK j \in DOMAIN t : j < i /\ Settles(t[j], x)
      BY <1>9, <1>11, <3>1
    <3>3. j # 1
      BY <1>2, <2>2, <3>2 DEF Settles, Reads
    <3>4. 1 < j
      BY <1>2, <3>3
    <3> QED
      BY <1>10, <3>2, <3>4
  <2> QED
    BY <2>1, <2>2
<1>12. ASSUME NEW j \in DOMAIN r, j < k, Sinks(r[j]), r[j].id \in scope
       PROVE  \E m \in DOMAIN r : j < m /\ m < k /\ Settles(r[m], r[j].id)
  <2>1. PICK g \in DOMAIN t : g = j + 1 /\ t[g] = r[j] /\ g < i /\ j \in Int
    BY <1>2, <1>3, <1>12
  <2>2. PICK l \in DOMAIN t : g < l /\ l < i /\ Settles(t[l], t[g].id)
    BY <1>9, <1>12, <2>1
  <2>3. l - 1 \in DOMAIN r /\ j < l - 1 /\ l - 1 < k /\ r[l - 1] = t[l]
    BY <1>2, <1>3, <2>1, <2>2
  <2> QED
    BY <2>1, <2>2, <2>3
<1>13. ScopeIsDry(v2, r, k)
  BY <1>5, <1>8, <1>11, <1>12 DEF ScopeIsDry
<1>14. ASSUME q.do = "place"
       PROVE  ItemIsParked(v2, r, k)
  <2>1. /\ q.id \in PlacesOf(v) /\ v[q.id].in = q.day /\ v[q.id].at = -1
        /\ \A j \in DOMAIN t : j < i =>
             /\ Keyed(t[j]) => t[j].id # q.id
             /\ t[j].do \notin {"renumber", "place"}
             /\ t[j].do = "resequence" => t[j].day # q.day
    BY <1>4, <1>14 DEF Flow, ItemIsParked
  <2>2. 1 < i /\ 1 \in DOMAIN t
    BY <1>2, <1>3
  <2>3. Keyed(s) => s.id # q.id
    BY <1>2, <2>1, <2>2
  <2>4. v2[q.id].in = v[q.id].in /\ v2[q.id].at = v[q.id].at /\ q.id \in PlacesOf(v2)
    BY <2>1, <2>3 DEF Sees
  <2>5. ASSUME NEW j \in DOMAIN r, j < k
        PROVE  /\ Keyed(r[j]) => r[j].id # q.id
               /\ r[j].do \notin {"renumber", "place"}
               /\ r[j].do = "resequence" => r[j].day # q.day
    <3>1. PICK g \in DOMAIN t : g = j + 1 /\ t[g] = r[j] /\ g < i
      BY <1>2, <1>3, <2>5
    <3> QED
      BY <2>1, <3>1
  <2> QED
    BY <1>5, <2>1, <2>4, <2>5 DEF ItemIsParked
<1> QED
  BY <1>5, <1>13, <1>14

\* A writing statement of the flow leaves a flow.
LEMMA FlowWrites ==
  ASSUME NEW v, NEW t, Legal(t), NEW gone, Flow(v, t, gone), t # << >>, NEW s, s = Head(t),
         s.do \notin Reads, NEW v2, Sees(v, v2, s, gone)
  PROVE  Flow(v2, Tail(t), gone)
<1>1. PICK n, r : n = Len(t) /\ r = Tail(t)
  OBVIOUS
<1>2. /\ n \in Nat /\ n > 0 /\ DOMAIN t = 1..n /\ s = t[1] /\ DOMAIN r = 1..(n - 1)
      /\ \A k \in 1..(n - 1) : r[k] = t[k + 1]
  BY <1>1, ListFacts DEF Legal
<1>3. ASSUME NEW k \in DOMAIN r
      PROVE  /\ r[k].do \in FlowKinds
             /\ r[k].do = "setAt" => r[k].id \in PlacesOf(v2)
             /\ r[k].do = "setStatus" => r[k].id \in {Trip, Itin}
             /\ r[k].do = "insert" => InsertsUnder(v2, r, gone, k)
             /\ r[k].do \in Numbering => ScopeIsDry(v2, r, k)
             /\ r[k].do = "place" => ItemIsParked(v2, r, k)
  <2>1. PICK i \in DOMAIN t : i = k + 1 /\ t[i] = r[k] /\ k \in Int
    BY <1>2
  <2>2. /\ t[i].do \in FlowKinds
        /\ t[i].do = "setAt" => t[i].id \in PlacesOf(v)
        /\ t[i].do = "setStatus" => t[i].id \in {Trip, Itin}
        /\ t[i].do = "insert" => InsertsUnder(v, t, gone, i)
    BY DEF Flow
  <2>3. t[i].do = "setAt" => t[i].id \in PlacesOf(v2)
    BY <2>2 DEF Sees
  <2>4. ASSUME t[i].do = "insert"
        PROVE  InsertsUnder(v2, r, gone, k)
    <3>1. CASE t[i].row.in \in DOMAIN v
      BY <2>1, <3>1 DEF Sees, InsertsUnder
    <3>2. CASE t[i].row.in \notin DOMAIN v
      <4>1. PICK j \in DOMAIN t : j < i /\ t[j].do = "insert" /\ t[j].id = t[i].row.in
        BY <2>2, <2>4, <3>2 DEF InsertsUnder
      <4>2. t[i].row.in \notin gone
        BY <2>2, <2>4, <3>2 DEF InsertsUnder
      <4>3. CASE j = 1
        BY <1>2, <2>1, <4>1, <4>2, <4>3 DEF InsertsUnder, Sees
      <4>4. CASE j # 1
        <5>1. j - 1 \in DOMAIN r /\ j - 1 < k /\ r[j - 1] = t[j]
          BY <1>2, <2>1, <4>1, <4>4
        <5> QED
          BY <2>1, <4>1, <4>2, <5>1 DEF InsertsUnder
      <4> QED
        BY <4>3, <4>4
    <3> QED
      BY <3>1, <3>2
  <2>5. ASSUME r[k].do \in Numbering
        PROVE  ScopeIsDry(v2, r, k) /\ (r[k].do = "place" => ItemIsParked(v2, r, k))
    BY <1>1, <2>5, FlowScope
  <2>6. r[k].do = "place" => r[k].do \in Numbering
    BY DEF Numbering
  <2> QED
    BY <2>1, <2>2, <2>3, <2>4, <2>5, <2>6
<1>4. ASSUME NEW j \in DOMAIN r, NEW k \in DOMAIN r, j < k
      PROVE  /\ r[j].do = "insert" => r[k].do \notin {"setAt"} \union Numbering
             /\ r[j].do \in Reads => ~ Keyed(r[k])
  <2>1. PICK g \in DOMAIN t : g = j + 1 /\ t[g] = r[j]
    BY <1>2
  <2>2. PICK i \in DOMAIN t : i = k + 1 /\ t[i] = r[k]
    BY <1>2
  <2>3. g < i
    BY <1>2, <1>4, <2>1, <2>2
  <2> QED
    BY <2>1, <2>2, <2>3 DEF Flow
<1>5. NoClash(v2, r)
  BY <1>1, FlowClash
<1> QED
  BY <1>1, <1>3, <1>4, <1>5 DEF Flow

(***************************************************************************)
(* Lists of statements that give no key twice.                             *)
(***************************************************************************)
LEMMA JoinedClear ==
  ASSUME NEW v, NEW a, NEW b, IsList(a), IsList(b), NoClash(v, a),
         \A k \in DOMAIN b, x \in PlacesOf(v) :
           Keyed(b[k]) /\ x # b[k].id /\ Key(v[x]) = Claim(v, b[k]) =>
             \E j \in DOMAIN a : Keyed(a[j]) /\ a[j].id = x,
         \A k \in DOMAIN b, j \in DOMAIN a : Keyed(b[k]) /\ Keyed(a[j]) => Claim(v, b[k]) # Claim(v, a[j]),
         \A k, j \in DOMAIN b : Keyed(b[k]) /\ Keyed(b[j]) /\ j # k => Claim(v, b[k]) # Claim(v, b[j])
  PROVE  NoClash(v, a \o b)
<1>1. PICK c, m, n : c = a \o b /\ m = Len(a) /\ n = Len(b)
  OBVIOUS
<1>2. /\ m \in Nat /\ n \in Nat /\ DOMAIN a = 1..m /\ DOMAIN b = 1..n /\ DOMAIN c = 1..(m + n)
      /\ \A k \in 1..m : c[k] = a[k]
  <2>1. m \in Nat /\ n \in Nat /\ DOMAIN a = 1..m /\ DOMAIN b = 1..n
    BY <1>1, ListFacts
  <2>2. IsList(c) /\ Len(c) = m + n /\ \A k \in 1..m : c[k] = a[k]
    BY <1>1, JoinedList
  <2>3. DOMAIN c = 1..(m + n)
    BY <2>2, ListFacts
  <2> QED
    BY <2>1, <2>2, <2>3
<1>3. ASSUME NEW k \in DOMAIN c
      PROVE  \/ k \in 1..m /\ c[k] = a[k]
             \/ \E i \in 1..n : k = m + i /\ c[k] = b[i]
  <2>1. \/ k \in DOMAIN a /\ c[k] = a[k]
        \/ k - m \in DOMAIN b /\ c[k] = b[k - m] /\ k > m /\ k \in Int
    BY <1>1, JoinedIndex
  <2>2. CASE k - m \in DOMAIN b /\ c[k] = b[k - m] /\ k > m /\ k \in Int
    <3>1. PICK i \in 1..n : i = k - m
      BY <1>2, <2>2
    <3>2. k = m + i /\ c[k] = b[i]
      BY <1>2, <2>2, <3>1
    <3> QED
      BY <3>2
  <2> QED
    BY <1>2, <2>1, <2>2
<1>4. ASSUME NEW k \in DOMAIN c, NEW x \in PlacesOf(v), Keyed(c[k]), x # c[k].id,
             Key(v[x]) = Claim(v, c[k])
      PROVE  \E j \in DOMAIN c : j < k /\ Keyed(c[j]) /\ c[j].id = x
  <2>1. CASE k \in 1..m /\ c[k] = a[k]
    <3>1. PICK j \in DOMAIN a : j < k /\ Keyed(a[j]) /\ a[j].id = x
      BY <1>2, <1>4, <2>1 DEF NoClash
    <3> QED
      BY <1>2, <3>1
  <2>2. ASSUME NEW i \in 1..n, k = m + i, c[k] = b[i]
        PROVE  \E j \in DOMAIN c : j < k /\ Keyed(c[j]) /\ c[j].id = x
    <3>1. PICK j \in DOMAIN a : Keyed(a[j]) /\ a[j].id = x
      BY <1>2, <1>4, <2>2
    <3>2. j \in DOMAIN c /\ c[j] = a[j] /\ j < k
      BY <1>2, <2>2, <3>1
    <3> QED
      BY <3>1, <3>2
  <2> QED
    BY <1>3, <2>1, <2>2
<1>5. ASSUME NEW k \in DOMAIN c, NEW j \in DOMAIN c, Keyed(c[k]), Keyed(c[j]), j # k
      PROVE  Claim(v, c[k]) # Claim(v, c[j])
  <2>1. CASE k \in 1..m /\ c[k] = a[k] /\ j \in 1..m /\ c[j] = a[j]
    BY <1>2, <1>5, <2>1 DEF NoClash
  <2>2. ASSUME NEW i \in 1..n, c[k] = b[i], j \in 1..m, c[j] = a[j]
        PROVE  Claim(v, c[k]) # Claim(v, c[j])
    BY <1>2, <1>5, <2>2
  <2>3. ASSUME NEW i \in 1..n, c[j] = b[i], k \in 1..m, c[k] = a[k]
        PROVE  Claim(v, c[k]) # Claim(v, c[j])
    BY <1>2, <1>5, <2>3
  <2>4. ASSUME NEW i \in 1..n, c[k] = b[i], k = m + i, NEW l \in 1..n, c[j] = b[l], j = m + l
        PROVE  Claim(v, c[k]) # Claim(v, c[j])
    <3>1. i # l
      BY <1>5, <2>4
    <3> QED
      BY <1>2, <1>5, <2>4, <3>1
  <2>5. \/ k \in 1..m /\ c[k] = a[k]
        \/ \E i \in 1..n : k = m + i /\ c[k] = b[i]
    BY <1>3
  <2>6. \/ j \in 1..m /\ c[j] = a[j]
        \/ \E i \in 1..n : j = m + i /\ c[j] = b[i]
    BY <1>3
  <2> QED
    BY <2>1, <2>2, <2>3, <2>4, <2>5, <2>6
<1>6. NoClash(v, c)
  <2>1. \A k \in DOMAIN c, x \in PlacesOf(v) :
          Keyed(c[k]) /\ x # c[k].id /\ Key(v[x]) = Claim(v, c[k]) =>
            \E j \in DOMAIN c : j < k /\ Keyed(c[j]) /\ c[j].id = x
    BY <1>4
  <2>2. \A k, j \in DOMAIN c : Keyed(c[k]) /\ Keyed(c[j]) /\ j # k => Claim(v, c[k]) # Claim(v, c[j])
    BY <1>5
  <2> QED
    BY <2>1, <2>2 DEF NoClash
<1> QED
  BY <1>1, <1>6

\* A list that gives the rows of one parent positions: the k-th gives d[k] the position p[k].
Assigns(v, parent, t, d, p) ==
  /\ IsList(t) /\ DOMAIN d = DOMAIN t /\ DOMAIN p = DOMAIN t
  /\ \A k \in DOMAIN t : /\ t[k] = SetAt(d[k], p[k]) /\ d[k] \in Children(v, parent)
                         /\ p[k] \in Int
  /\ \A j, k \in DOMAIN t : p[j] = p[k] => j = k

LEMMA AssignedClaims ==
  ASSUME NEW v, NEW parent, NEW t, NEW d, NEW p, Assigns(v, parent, t, d, p), NEW k \in DOMAIN t
  PROVE  /\ t[k].do = "setAt" /\ Keyed(t[k]) /\ t[k].id = d[k] /\ t[k].at = p[k]
         /\ t[k].id \in PlacesOf(v) /\ v[t[k].id].in = parent
         /\ Claim(v, t[k]) = <<parent, p[k]>>
<1>1. t[k] = SetAt(d[k], p[k]) /\ d[k] \in PlacesOf(v) /\ v[d[k]].in = parent
  BY DEF Assigns, Children, PlacesOf
<1>2. t[k].do = "setAt" /\ t[k].id = d[k] /\ t[k].at = p[k]
  BY <1>1 DEF SetAt
<1> QED
  BY <1>1, <1>2 DEF Keyed, Claim

\* The positions are free.
LEMMA AssignsFree ==
  ASSUME NEW v, NEW parent, NEW t, NEW d, NEW p, Assigns(v, parent, t, d, p),
         \A x \in Children(v, parent), k \in DOMAIN t : v[x].at # p[k]
  PROVE  NoClash(v, t)
<1>1. \A k \in DOMAIN t : Keyed(t[k]) /\ Claim(v, t[k]) = <<parent, p[k]>>
  BY AssignedClaims
<1>2. ASSUME NEW k \in DOMAIN t, NEW x \in PlacesOf(v)
      PROVE  Key(v[x]) # Claim(v, t[k])
  <2>1. SUFFICES ASSUME Key(v[x]) = <<parent, p[k]>>
                 PROVE  FALSE
    BY <1>1
  <2>2. v[x].in = parent /\ v[x].at = p[k]
    BY <2>1 DEF Key
  <2>3. x \in Children(v, parent)
    BY <2>2 DEF Children, PlacesOf
  <2> QED
    BY <2>2, <2>3
<1>3. ASSUME NEW k \in DOMAIN t, NEW j \in DOMAIN t, j # k
      PROVE  Claim(v, t[k]) # Claim(v, t[j])
  <2>1. p[k] # p[j]
    BY <1>3 DEF Assigns
  <2> QED
    BY <1>1, <2>1
<1> QED
  BY <1>2, <1>3 DEF NoClash

\* The rows that have one of the positions have been parked before.
LEMMA ParkedAndAssigned ==
  ASSUME NEW v, NEW parent, NEW a, NEW d, NEW p, Assigns(v, parent, a, d, p), NoClash(v, a),
         NEW b, NEW c, NEW q, Assigns(v, parent, b, c, q),
         \A k \in DOMAIN a, j \in DOMAIN b : p[k] # q[j],
         \A x \in Children(v, parent), k \in DOMAIN b :
           x # c[k] /\ v[x].at = q[k] => \E j \in DOMAIN a : d[j] = x
  PROVE  NoClash(v, a \o b)
<1>1. \A k \in DOMAIN a : Keyed(a[k]) /\ a[k].id = d[k] /\ Claim(v, a[k]) = <<parent, p[k]>>
  BY AssignedClaims
<1>2. \A k \in DOMAIN b : Keyed(b[k]) /\ b[k].id = c[k] /\ Claim(v, b[k]) = <<parent, q[k]>>
  BY AssignedClaims
<1>3. ASSUME NEW k \in DOMAIN b, NEW x \in PlacesOf(v), x # b[k].id, Key(v[x]) = Claim(v, b[k])
      PROVE  \E j \in DOMAIN a : Keyed(a[j]) /\ a[j].id = x
  <2>1. Key(v[x]) = <<parent, q[k]>>
    BY <1>2, <1>3
  <2>2. v[x].in = parent /\ v[x].at = q[k]
    BY <2>1 DEF Key
  <2>3. x \in Children(v, parent) /\ x # c[k]
    BY <1>2, <1>3, <2>2 DEF Children, PlacesOf
  <2>4. PICK j \in DOMAIN a : d[j] = x
    BY <2>2, <2>3
  <2> QED
    BY <1>1, <2>4
<1>4. ASSUME NEW k \in DOMAIN b, NEW j \in DOMAIN a
      PROVE  Claim(v, b[k]) # Claim(v, a[j])
  <2>1. p[j] # q[k]
    OBVIOUS
  <2> QED
    BY <1>1, <1>2, <2>1
<1>5. ASSUME NEW k \in DOMAIN b, NEW j \in DOMAIN b, j # k
      PROVE  Claim(v, b[k]) # Claim(v, b[j])
  <2>1. q[k] # q[j]
    BY <1>5 DEF Assigns
  <2> QED
    BY <1>2, <2>1
<1>6. IsList(a) /\ IsList(b)
  BY DEF Assigns
<1> QED
  BY <1>3, <1>4, <1>5, <1>6, JoinedClear

\* What a numbering statement turns into: it numbers rows of one parent, and no two alike.
Numbers(v, parent, t) ==
  /\ NoClash(v, t)
  /\ \A k \in DOMAIN t : t[k].do = "setAt" /\ t[k].id \in PlacesOf(v) /\ v[t[k].id].in = parent

LEMMA AssignedNumbers ==
  ASSUME NEW v, NEW parent, NEW a, NEW d, NEW p, Assigns(v, parent, a, d, p),
         NEW b, NEW c, NEW q, Assigns(v, parent, b, c, q), NoClash(v, a \o b)
  PROVE  Numbers(v, parent, a \o b)
<1>1. IsList(a) /\ IsList(b)
  BY DEF Assigns
<1>2. ASSUME NEW k \in DOMAIN (a \o b)
      PROVE  /\ (a \o b)[k].do = "setAt" /\ (a \o b)[k].id \in PlacesOf(v)
             /\ v[(a \o b)[k].id].in = parent
  <2>1. (\E j \in DOMAIN a : (a \o b)[k] = a[j]) \/ (\E j \in DOMAIN b : (a \o b)[k] = b[j])
    BY <1>1, JoinedIndex
  <2>2. CASE \E j \in DOMAIN a : (a \o b)[k] = a[j]
    BY <2>2, AssignedClaims
  <2>3. CASE \E j \in DOMAIN b : (a \o b)[k] = b[j]
    BY <2>3, AssignedClaims
  <2> QED
    BY <2>1, <2>2, <2>3
<1> QED
  BY <1>2 DEF Numbers

LEMMA RenumberingClear ==
  ASSUME NEW v, NEW parent, Spread(v, Children(v, parent)),
         \A x \in Children(v, parent) : v[x].at >= 0, NEW scratch \in Int, scratch <= 0
  PROVE  Numbers(v, parent, ParkOutOfPlace(v, Children(v, parent), scratch)
                            \o NumberFromOne(InOrder(v, parent)))
<1> DEFINE rows == Children(v, parent)
           n == Cardinality(rows)
           order == Ordered(v, rows)
           bad == {id \in rows : v[id].at # Rank(v, rows, id)}
           wrong == Ordered(v, bad)
<1>1. /\ n \in Nat /\ DOMAIN order = 1..n /\ \A k \in 1..n : order[k] \in rows
      /\ \A i \in rows : Rank(v, rows, i) \in 1..n /\ order[Rank(v, rows, i)] = i
  BY OrderedLists
<1>2. bad \subseteq rows /\ Spread(v, bad)
  BY FS_Subset DEF Spread
<1>3. PICK m \in Nat :
        /\ DOMAIN wrong = 1..m /\ \A k \in 1..m : wrong[k] \in bad /\ Rank(v, bad, wrong[k]) = k
        /\ \A i \in bad : Rank(v, bad, i) \in 1..m /\ wrong[Rank(v, bad, i)] = i
  BY <1>2, OrderedLists
<1>4. PICK p : p = [k \in 1..m |-> scratch - Rank(v, rows, wrong[k])]
  OBVIOUS
<1>5. PICK q : q = [k \in 1..n |-> k]
  OBVIOUS
<1>6. PICK a : a = [k \in 1..m |-> SetAt(wrong[k], p[k])]
  OBVIOUS
<1>7. PICK b : b = [k \in 1..n |-> SetAt(order[k], q[k])]
  OBVIOUS
<1>8. a = ParkOutOfPlace(v, rows, scratch)
  BY <1>3, <1>4, <1>6 DEF ParkOutOfPlace
<1>9. b = NumberFromOne(InOrder(v, parent))
  BY <1>1, <1>5, <1>7 DEF NumberFromOne, InOrder
<1> HIDE DEF order, wrong, n
<1> HIDE DEF bad
<1>10. ASSUME NEW k \in 1..m
       PROVE  p[k] \in Int /\ p[k] < 0 /\ wrong[k] \in rows
              /\ p[k] = scratch - Rank(v, rows, wrong[k])
  <2>1. wrong[k] \in rows
    BY <1>2, <1>3
  <2>2. PICK r \in 1..n : r = Rank(v, rows, wrong[k])
    BY <1>1, <2>1
  <2>3. p[k] = scratch - r
    BY <1>4, <2>2
  <2> QED
    BY <1>1, <2>1, <2>2, <2>3
<1>11. ASSUME NEW j \in 1..m, NEW k \in 1..m, p[j] = p[k]
       PROVE  j = k
  <2>1. PICK r \in 1..n, s \in 1..n : r = Rank(v, rows, wrong[j]) /\ s = Rank(v, rows, wrong[k])
    BY <1>1, <1>10
  <2>2. scratch - r = scratch - s
    BY <1>10, <1>11, <2>1
  <2>3. r = s
    BY <1>1, <2>2
  <2>4. wrong[j] = wrong[k]
    BY <1>1, <1>10, <2>1, <2>3
  <2>5. j = Rank(v, bad, wrong[j]) /\ k = Rank(v, bad, wrong[k])
    BY <1>3
  <2> QED
    BY <2>4, <2>5
<1>12. Assigns(v, parent, a, wrong, p)
  <2>1. DOMAIN p = 1..m /\ DOMAIN a = 1..m /\ \A k \in 1..m : a[k] = SetAt(wrong[k], p[k])
    BY <1>4, <1>6
  <2>2. IsList(a)
    BY <1>6, Numbered
  <2> QED
    BY <1>3, <1>10, <1>11, <2>1, <2>2 DEF Assigns
<1>13. Assigns(v, parent, b, order, q)
  <2>1. DOMAIN q = 1..n /\ DOMAIN b = 1..n /\ \A k \in 1..n : b[k] = SetAt(order[k], q[k]) /\ q[k] = k
    BY <1>5, <1>7
  <2>2. IsList(b)
    BY <1>1, <1>7, Numbered
  <2>3. \A k \in 1..n : q[k] \in Int
    BY <1>1, <2>1
  <2> QED
    BY <1>1, <2>1, <2>2, <2>3 DEF Assigns
<1>14. NoClash(v, a)
  <2>1. \A x \in rows, k \in DOMAIN a : v[x].at # p[k]
    <3>1. \A x \in rows : v[x].at \in Int
      BY DEF Spread
    <3> QED
      BY <1>6, <1>10, <3>1
  <2> QED
    BY <1>12, <2>1, AssignsFree
<1>15. NoClash(v, a \o b)
  <2>1. \A k \in DOMAIN a, j \in DOMAIN b : p[k] # q[j]
    BY <1>1, <1>5, <1>6, <1>7, <1>10
  <2>2. ASSUME NEW x \in rows, NEW k \in DOMAIN b, x # order[k], v[x].at = q[k]
        PROVE  \E j \in DOMAIN a : wrong[j] = x
    <3>1. v[x].at = k /\ k \in 1..n
      BY <1>5, <1>7, <2>2
    <3>2. Rank(v, rows, x) # k
      BY <1>1, <2>2
    <3>3. x \in bad
      BY <3>1, <3>2 DEF bad
    <3>4. Rank(v, bad, x) \in DOMAIN a /\ wrong[Rank(v, bad, x)] = x
      BY <1>3, <1>6, <3>3
    <3> QED
      BY <3>4
  <2> QED
    BY <1>12, <1>13, <1>14, <2>1, <2>2, ParkedAndAssigned
<1>16. Numbers(v, parent, a \o b)
  BY <1>12, <1>13, <1>15, AssignedNumbers
<1> QED
  BY <1>8, <1>9, <1>16

LEMMA PlacingClear ==
  ASSUME NEW v, NEW id \in PlacesOf(v), NEW day, v[id].in = day, v[id].at = -1, NEW slot \in Slots,
         Spread(v, Children(v, day)), \A x \in Children(v, day) \ {id} : v[x].at >= 0
  PROVE  Numbers(v, day, PlaceAmongPeers(v, id, day, slot))
<1> DEFINE rows == Children(v, day) \ {id}
<1>1. PICK peers : peers = Ordered(v, rows)
  OBVIOUS
<1>2. Spread(v, rows)
  BY FS_Subset DEF Spread, rows
<1> HIDE DEF rows
<1>29. PICK n : n = Cardinality(rows)
  OBVIOUS
<1>3. /\ n \in Nat /\ DOMAIN peers = 1..n /\ Len(peers) = n /\ \A k \in 1..n : peers[k] \in rows
      /\ \A x \in rows : Rank(v, rows, x) \in 1..n /\ peers[Rank(v, rows, x)] = x
  BY <1>1, <1>2, <1>29, OrderedLists
<1>4. PICK last \in Nat : last = Len(peers) + 1 /\ last >= 1
  BY <1>3
<1>5. PICK desired \in Nat : desired = (IF slot = None THEN last ELSE Clamp(slot, last)) /\ desired >= 1
  BY <1>4, ClampRange
<1>6. PICK p : p = [k \in 1..n |-> -99 - k]
  OBVIOUS
<1>7. PICK q : q = [k \in 1..n |-> IF k < desired THEN k ELSE k + 1]
  OBVIOUS
<1>8. PICK z : z = [k \in 1..1 |-> desired]
  OBVIOUS
<1>9. PICK me : me = [k \in 1..1 |-> id]
  OBVIOUS
<1>10. PICK a : a = [k \in 1..n |-> SetAt(peers[k], p[k])]
  OBVIOUS
<1>11. PICK b : b = [k \in 1..n |-> SetAt(peers[k], q[k])]
  OBVIOUS
<1>12. PICK put : put = <<SetAt(id, desired)>>
  OBVIOUS
<1>13. PlaceAmongPeers(v, id, day, slot) = (a \o b) \o put
  <2>1. a = [k \in DOMAIN peers |-> SetAt(peers[k], -99 - k)]
    BY <1>3, <1>6, <1>10
  <2>2. b = [k \in DOMAIN peers |-> SetAt(peers[k], IF k < desired THEN k ELSE k + 1)]
    BY <1>3, <1>7, <1>11
  <2> QED
    BY <1>1, <1>4, <1>5, <1>12, <2>1, <2>2 DEF PlaceAmongPeers, rows
<1>14. \A k \in 1..n : p[k] = -99 - k /\ p[k] \in Int /\ p[k] < -1
  BY <1>6
<1>15. \A k \in 1..n : /\ q[k] = (IF k < desired THEN k ELSE k + 1)
                       /\ q[k] \in Int /\ q[k] > 0 /\ q[k] # desired
  BY <1>7
<1>16. id \in Children(v, day) /\ rows \subseteq Children(v, day)
  BY DEF Children, PlacesOf, rows
<1>17. Assigns(v, day, a, peers, p)
  <2>1. IsList(a) /\ DOMAIN a = 1..n /\ DOMAIN p = 1..n /\ \A k \in 1..n : a[k] = SetAt(peers[k], p[k])
    BY <1>3, <1>6, <1>10, Numbered
  <2>2. \A j, k \in 1..n : p[j] = p[k] => j = k
    BY <1>14
  <2> QED
    BY <1>3, <1>14, <1>16, <2>1, <2>2 DEF Assigns
<1>18. Assigns(v, day, b, peers, q)
  <2>1. IsList(b) /\ DOMAIN b = 1..n /\ DOMAIN q = 1..n /\ \A k \in 1..n : b[k] = SetAt(peers[k], q[k])
    BY <1>3, <1>7, <1>11, Numbered
  <2>2. \A j, k \in 1..n : q[j] = q[k] => j = k
    BY <1>15
  <2> QED
    BY <1>3, <1>15, <1>16, <2>1, <2>2 DEF Assigns
<1>19. Assigns(v, day, put, me, z)
  <2>1. put \in Seq({SetAt(id, desired)})
    BY <1>12
  <2>2. IsList(put)
    BY <2>1, AnyList
  <2>3. DOMAIN put = 1..1 /\ DOMAIN me = 1..1 /\ DOMAIN z = 1..1
    BY <1>8, <1>9, <1>12
  <2>4. \A k \in 1..1 : k = 1 /\ put[k] = SetAt(id, desired) /\ me[k] = id /\ z[k] = desired
    BY <1>8, <1>9, <1>12
  <2> QED
    BY <1>16, <2>2, <2>3, <2>4 DEF Assigns
<1>20. \A x \in Children(v, day) : v[x].at \in Int /\ (x # id => v[x].at >= 0)
  BY DEF Spread
<1>21. NoClash(v, a)
  <2>1. \A x \in Children(v, day), k \in DOMAIN a : v[x].at # p[k]
    <3>1. DOMAIN a = 1..n
      BY <1>10
    <3> QED
      BY <1>14, <1>20, <3>1
  <2> QED
    BY <1>17, <2>1, AssignsFree
<1>22. \A x \in rows : \E j \in DOMAIN a : peers[j] = x
  BY <1>3, <1>10
<1>23. NoClash(v, a \o b)
  <2>1. \A k \in DOMAIN a, j \in DOMAIN b : p[k] # q[j]
    BY <1>10, <1>11, <1>14, <1>15
  <2>2. ASSUME NEW x \in Children(v, day), NEW k \in DOMAIN b, v[x].at = q[k]
        PROVE  \E j \in DOMAIN a : peers[j] = x
    <3>1. x # id
      BY <1>11, <1>15, <2>2
    <3>2. x \in rows
      BY <3>1 DEF rows
    <3> QED
      BY <1>22, <3>2
  <2> QED
    BY <1>17, <1>18, <1>21, <2>1, <2>2, ParkedAndAssigned
<1>24. Numbers(v, day, a \o b)
  BY <1>17, <1>18, <1>23, AssignedNumbers
<1>25. Numbers(v, day, (a \o b) \o put)
  <2>1. IsList(a) /\ IsList(b) /\ IsList(put)
    BY <1>17, <1>18, <1>19 DEF Assigns
  <2>2. IsList(a \o b)
    BY <2>1, JoinedList
  <2>3. \A k \in DOMAIN put : /\ put[k].do = "setAt" /\ put[k].id = id
                              /\ Claim(v, put[k]) = <<day, desired>>
    <3>1. \A k \in DOMAIN put : k = 1
      BY <1>12
    <3>2. me[1] = id /\ z[1] = desired
      BY <1>8, <1>9
    <3> QED
      BY <1>19, <3>1, <3>2, AssignedClaims
  <2>4. \A k \in DOMAIN put : k = 1
    BY <1>12
  <2>5. ASSUME NEW j \in DOMAIN (a \o b)
        PROVE  Claim(v, (a \o b)[j]) # <<day, desired>>
    <3>1. (\E k \in DOMAIN a : (a \o b)[j] = a[k]) \/ (\E k \in DOMAIN b : (a \o b)[j] = b[k])
      BY <2>1, JoinedIndex
    <3>2. ASSUME NEW k \in DOMAIN a, (a \o b)[j] = a[k]
          PROVE  Claim(v, (a \o b)[j]) # <<day, desired>>
      <4>1. p[k] # desired
        BY <1>10, <1>14
      <4>2. Claim(v, a[k]) = <<day, p[k]>>
        BY <1>17, AssignedClaims
      <4> QED
        BY <3>2, <4>1, <4>2
    <3>3. ASSUME NEW k \in DOMAIN b, (a \o b)[j] = b[k]
          PROVE  Claim(v, (a \o b)[j]) # <<day, desired>>
      <4>1. q[k] # desired
        BY <1>11, <1>15
      <4>2. Claim(v, b[k]) = <<day, q[k]>>
        BY <1>18, AssignedClaims
      <4> QED
        BY <3>3, <4>1, <4>2
    <3> QED
      BY <3>1, <3>2, <3>3
  <2>6. ASSUME NEW x \in PlacesOf(v), x # id, Key(v[x]) = <<day, desired>>
        PROVE  \E j \in DOMAIN (a \o b) : Keyed((a \o b)[j]) /\ (a \o b)[j].id = x
    <3>1. x \in rows
      BY <2>6 DEF rows, Key, Children, PlacesOf
    <3>2. PICK j \in DOMAIN a : peers[j] = x
      BY <1>22, <3>1
    <3>3. Keyed(a[j]) /\ a[j].id = x
      BY <1>17, <3>2, AssignedClaims
    <3>4. j \in DOMAIN (a \o b) /\ (a \o b)[j] = a[j]
      <4>1. Len(a) \in Nat /\ DOMAIN a = 1..Len(a) /\ Len(b) \in Nat
        BY <2>1, ListFacts
      <4>2. Len(a \o b) = Len(a) + Len(b) /\ \A k \in 1..Len(a) : (a \o b)[k] = a[k]
        BY <2>1, JoinedList
      <4>3. DOMAIN (a \o b) = 1..Len(a \o b)
        BY <2>2, ListFacts
      <4> QED
        BY <4>1, <4>2, <4>3
    <3> QED
      BY <3>3, <3>4
  <2>7. NoClash(v, (a \o b) \o put)
    BY <1>23, <2>1, <2>2, <2>3, <2>4, <2>5, <2>6, JoinedClear
  <2>8. PICK c, all : c = a \o b /\ all = c \o put
    OBVIOUS
  <2>9. ASSUME NEW k \in DOMAIN all
        PROVE  all[k].do = "setAt" /\ all[k].id \in PlacesOf(v) /\ v[all[k].id].in = day
    <3>1. (\E j \in DOMAIN c : all[k] = c[j]) \/ (\E j \in DOMAIN put : all[k] = put[j])
      BY <2>1, <2>2, <2>8, JoinedIndex
    <3> QED
      BY <1>24, <2>3, <2>8, <3>1 DEF Numbers
  <2> QED
    BY <2>7, <2>8, <2>9 DEF Numbers
<1> QED
  BY <1>13, <1>25
\* What a reading statement turns into.
Unfolds(v, s, x) ==
  /\ IsList(x) /\ NoClash(v, x) /\ Steady(x)
  /\ \A id : Settles(s, id) => Settled(x, id)
  /\ \A k \in DOMAIN x : x[k].do \in {"setAt", "setRoute"}
  /\ \A k \in DOMAIN x : x[k].do = "setAt" =>
       /\ s.do \in Numbering /\ x[k].id \in PlacesOf(v)
       /\ s.do = "resequence" => v[x[k].id].in = s.day

LEMMA UnfoldedNumbers ==
  ASSUME NEW v, NEW s, s.do \in Numbering, NEW x, Good(x, 0), \A id : Settles(s, id) => Settled(x, id),
         NEW parent, Numbers(v, parent, x), s.do = "resequence" => parent = s.day
  PROVE  Unfolds(v, s, x)
<1>1. IsList(x) /\ Steady(x) /\ NoClash(v, x)
  BY DEF Good, Legal, Numbers
<1>2. \A k \in DOMAIN x : x[k].do = "setAt" /\ x[k].id \in PlacesOf(v) /\ v[x[k].id].in = parent
  BY DEF Numbers
<1> QED
  BY <1>1, <1>2 DEF Unfolds

LEMMA UnfoldingReads ==
  ASSUME NEW e \in Edits, NEW v, v = View(e), Typed(v), KeysAreUnique(v), NEW t, Legal(t), NEW gone,
         Flow(v, t, gone), t # << >>, NEW s, s = Head(t), s.do \in Reads
  PROVE  Unfolds(v, s, Expansion(e, s))
<1>1. 1 \in DOMAIN t /\ s = t[1] /\ Sound(s) /\ \A j \in DOMAIN t : ~ (j < 1)
  BY ListFacts DEF Legal
<1>2. PICK x : x = Expansion(e, s)
  OBVIOUS
<1>3. Good(x, 0) /\ \A id : Settles(s, id) => Settled(x, id)
  BY <1>1, <1>2, ExpansionGood DEF Typed
<1>4. s.do \in Numbering => ScopeIsDry(v, t, 1)
  BY <1>1 DEF Flow
<1>5. s.do \in Numbering => \A y \in Scope(v, s) : ~ (v[y].at < 0)
  BY <1>1, <1>4 DEF ScopeIsDry
<1>6. ASSUME NEW parent
      PROVE  Spread(v, Children(v, parent)) /\ \A y \in Children(v, parent) : v[y].at \in Int
  <2>1. Spread(v, Children(v, parent))
    BY ChildrenSpread DEF Typed
  <2> QED
    BY <2>1 DEF Spread
<1>7. CASE s.do = "resequence"
  <2>1. \A y \in Children(v, s.day) : v[y].at >= 0
    BY <1>5, <1>6, <1>7 DEF Numbering, Scope
  <2>2. x = ParkOutOfPlace(v, Children(v, s.day), -99) \o NumberFromOne(InOrder(v, s.day))
    BY <1>2, <1>7 DEF Expansion
  <2>3. PICK scratch \in Int : scratch = -99
    OBVIOUS
  <2>4. Numbers(v, s.day, ParkOutOfPlace(v, Children(v, s.day), scratch)
                          \o NumberFromOne(InOrder(v, s.day)))
    BY <1>6, <2>1, <2>3, RenumberingClear
  <2>5. Numbers(v, s.day, x)
    BY <2>2, <2>3, <2>4
  <2> QED
    BY <1>2, <1>3, <1>7, <2>5, UnfoldedNumbers DEF Numbering
<1>8. CASE s.do = "renumber"
  <2>1. \A y \in Children(v, Itin) : v[y].at >= 0
    BY <1>5, <1>6, <1>8 DEF Numbering, Scope
  <2>2. x = ParkOutOfPlace(v, Children(v, Itin), 0) \o NumberFromOne(InOrder(v, Itin))
    BY <1>2, <1>8 DEF Expansion
  <2>3. Numbers(v, Itin, x)
    BY <1>6, <2>1, <2>2, RenumberingClear
  <2> QED
    BY <1>2, <1>3, <1>8, <2>3, UnfoldedNumbers DEF Numbering
<1>9. CASE s.do = "place"
  <2>1. s.id \in PlacesOf(v) /\ v[s.id].in = s.day /\ v[s.id].at = -1
    <3>1. ItemIsParked(v, t, 1)
      BY <1>1, <1>9 DEF Flow
    <3> QED
      BY <1>1, <3>1 DEF ItemIsParked
  <2>2. s.slot \in Slots
    BY <1>1, <1>9 DEF Sound
  <2>3. x = PlaceAmongPeers(v, s.id, s.day, s.slot)
    BY <1>2, <1>9 DEF Expansion
  <2>4. \A y \in Children(v, s.day) \ {s.id} : v[y].at >= 0
    BY <1>5, <1>6, <1>9 DEF Numbering, Scope
  <2>5. PICK id, day, slot : id = s.id /\ day = s.day /\ slot = s.slot
    OBVIOUS
  <2>6. Numbers(v, day, PlaceAmongPeers(v, id, day, slot))
    BY <1>6, <2>1, <2>2, <2>4, <2>5, PlacingClear
  <2> QED
    BY <1>2, <1>3, <1>9, <2>3, <2>5, <2>6, UnfoldedNumbers DEF Numbering
<1>10. CASE s.do = "clear"
  <2>1. IsList(x) /\ Steady(x) /\ \A id : ~ Settles(s, id)
    BY <1>3, <1>10 DEF Good, Legal, Settles
  <2>2. \A k \in DOMAIN x : x[k].do = "setRoute"
    <3>1. PICK stale : x = IF stale = {} THEN << >> ELSE <<SetRoute(stale, None)>>
      BY <1>2, <1>10 DEF Expansion
    <3>2. CASE stale = {}
      BY <3>1, <3>2
    <3>3. CASE stale # {}
      <4>1. PICK q : q = SetRoute(stale, None) /\ q.do = "setRoute" /\ x = <<q>>
        BY <3>1, <3>3 DEF SetRoute
      <4> QED
        BY <4>1
    <3> QED
      BY <3>2, <3>3
  <2>3. NoClash(v, x)
    BY <2>2 DEF NoClash, Keyed
  <2> QED
    BY <1>2, <2>1, <2>2, <2>3 DEF Unfolds
<1> QED
  BY <1>7, <1>8, <1>9, <1>10 DEF Reads

\* The statements a reading statement turns into take its place.
LEMMA FlowReads ==
  ASSUME NEW v, NEW t, Legal(t), NEW gone, Flow(v, t, gone), t # << >>, NEW s, s = Head(t),
         s.do \in Reads, NEW x, Unfolds(v, s, x)
  PROVE  Flow(v, x \o Tail(t), gone)
<1>1. PICK n, r : n = Len(t) /\ r = Tail(t)
  OBVIOUS
<1>2. /\ n \in Nat /\ n > 0 /\ DOMAIN t = 1..n /\ s = t[1] /\ DOMAIN r = 1..(n - 1) /\ IsList(r)
      /\ \A k \in 1..(n - 1) : r[k] = t[k + 1]
  BY <1>1, ListFacts DEF Legal
<1>3. PICK c, m : c = x \o r /\ m = Len(x)
  OBVIOUS
<1>4. /\ m \in Nat /\ DOMAIN x = 1..m /\ IsList(x) /\ DOMAIN c = 1..(m + (n - 1))
      /\ \A k \in 1..m : c[k] = x[k]
      /\ \A k \in 1..(n - 1) : c[m + k] = r[k]
  <2>1. IsList(x) /\ m \in Nat /\ DOMAIN x = 1..m
    BY <1>3, ListFacts DEF Unfolds
  <2>2. n - 1 \in Nat /\ Len(r) = n - 1
    BY <1>2, ListFacts
  <2>3. /\ IsList(x \o r) /\ Len(x \o r) = Len(x) + Len(r)
        /\ \A k \in 1..Len(x) : (x \o r)[k] = x[k]
        /\ \A k \in 1..Len(r) : (x \o r)[Len(x) + k] = r[k]
    BY <1>2, <2>1, JoinedList
  <2>4. DOMAIN c = 1..(m + (n - 1))
    BY <1>3, <2>2, <2>3, ListFacts
  <2> QED
    BY <1>3, <2>1, <2>2, <2>3, <2>4
<1>5. ASSUME NEW k \in DOMAIN c
      PROVE  \/ k \in 1..m /\ c[k] = x[k]
             \/ \E i \in DOMAIN t : i > 1 /\ k = m + i - 1 /\ c[k] = t[i]
  <2>1. CASE k \in 1..m
    BY <1>4, <2>1
  <2>2. CASE k \notin 1..m
    <3>1. PICK j \in 1..(n - 1) : j = k - m
      BY <1>2, <1>4, <2>2
    <3>2. PICK i \in DOMAIN t : i = j + 1 /\ i > 1
      BY <1>2
    <3>3. k = m + i - 1 /\ c[k] = c[m + j] /\ r[j] = t[i]
      BY <1>2, <1>4, <3>1, <3>2
    <3> QED
      BY <1>4, <3>2, <3>3
  <2> QED
    BY <2>1, <2>2
<1>6. ASSUME NEW i \in DOMAIN t, i > 1
      PROVE  \E k \in DOMAIN c : k = m + i - 1 /\ c[k] = t[i]
  <2>1. PICK j \in 1..(n - 1) : j = i - 1 /\ r[j] = t[i]
    BY <1>2, <1>6
  <2>2. m + j \in DOMAIN c /\ c[m + j] = r[j] /\ m + j = m + i - 1
    BY <1>2, <1>4, <2>1
  <2> QED
    BY <2>1, <2>2
<1>7. \A i \in DOMAIN t : i > 1 => ~ Keyed(t[i])
  <2>1. 1 \in DOMAIN t
    BY <1>2
  <2> QED
    BY <1>2, <2>1 DEF Flow
<1>8. \A k \in 1..m : /\ x[k].do \in {"setAt", "setRoute"} /\ x[k].do \in FlowKinds
                      /\ x[k].do \notin Reads \union Numbering \union {"insert", "setStatus"}
                      /\ x[k].do = "setAt" => x[k].id \in PlacesOf(v)
  BY <1>4 DEF Unfolds, FlowKinds, Reads, Numbering
<1>9. ASSUME NEW i \in DOMAIN t, i > 1, t[i].do \in Numbering, NEW k \in DOMAIN c, k = m + i - 1,
             c[k] = t[i]
      PROVE  ScopeIsDry(v, c, k)
  <2>1. ScopeIsDry(v, t, i)
    BY <1>9 DEF Flow
  <2>2. ASSUME NEW y \in Scope(v, c[k]), v[y].at < 0
        PROVE  \E j \in DOMAIN c : j < k /\ Settles(c[j], y)
    <3>1. PICK j \in DOMAIN t : j < i /\ Settles(t[j], y)
      BY <1>9, <2>1, <2>2 DEF ScopeIsDry
    <3>2. CASE j = 1
      <4>1. PICK l \in DOMAIN x : Settles(x[l], y)
        BY <1>2, <3>1, <3>2 DEF Unfolds, Settled
      <4>2. l \in DOMAIN c /\ c[l] = x[l] /\ l < k
        BY <1>2, <1>4, <1>9, <4>1
      <4> QED
        BY <4>1, <4>2
    <3>3. CASE j # 1
      <4>1. j > 1
        BY <1>2, <3>3
      <4>2. PICK l \in DOMAIN c : l = m + j - 1 /\ c[l] = t[j]
        BY <1>6, <4>1
      <4>3. l < k
        BY <1>2, <1>4, <1>9, <3>1, <4>2
      <4> QED
        BY <3>1, <4>2, <4>3
    <3> QED
      BY <3>2, <3>3
  <2>3. ASSUME NEW j \in DOMAIN c, j < k, Sinks(c[j])
        PROVE  \E l \in DOMAIN c : j < l /\ l < k /\ Settles(c[l], c[j].id)
    <3>1. j \in 1..m /\ c[j] = x[j]
      <4>1. ASSUME NEW l \in DOMAIN t, l > 1, c[j] = t[l]
            PROVE  FALSE
        BY <1>7, <2>3, <4>1 DEF Sinks, Keyed
      <4> QED
        BY <1>5, <4>1
    <3>2. PICK l \in DOMAIN x : l > j /\ Settles(x[l], x[j].id)
      BY <1>4, <2>3, <3>1 DEF Unfolds, Steady
    <3>3. l \in DOMAIN c /\ c[l] = x[l] /\ l < k /\ j < l
      BY <1>2, <1>4, <1>9, <3>1, <3>2
    <3> QED
      BY <3>1, <3>2, <3>3
  <2> QED
    BY <2>2, <2>3 DEF ScopeIsDry
<1>10. ASSUME NEW i \in DOMAIN t, i > 1, t[i].do = "place", NEW k \in DOMAIN c, k = m + i - 1,
              c[k] = t[i]
       PROVE  ItemIsParked(v, c, k)
  <2>1. ItemIsParked(v, t, i)
    BY <1>10 DEF Flow
  <2>2. 1 \in DOMAIN t /\ 1 < i
    BY <1>2, <1>10
  <2>3. s.do \notin {"renumber", "place"} /\ (s.do = "resequence" => s.day # t[i].day)
    BY <1>2, <2>1, <2>2 DEF ItemIsParked
  <2>4. ASSUME NEW j \in DOMAIN c, j < k
        PROVE  /\ Keyed(c[j]) => c[j].id # t[i].id
               /\ c[j].do \notin {"renumber", "place"}
               /\ c[j].do = "resequence" => c[j].day # t[i].day
    <3>1. CASE j \in 1..m /\ c[j] = x[j]
      <4>1. c[j].do \notin {"renumber", "place", "resequence", "insert"}
        BY <1>8, <3>1 DEF Numbering
      <4>2. ASSUME c[j].do = "setAt"
            PROVE  c[j].id # t[i].id
        <5>1. s.do \in Numbering /\ (s.do = "resequence" => v[x[j].id].in = s.day)
          BY <1>4, <3>1, <4>2 DEF Unfolds
        <5>2. v[c[j].id].in = s.day /\ s.day # t[i].day
          BY <2>3, <3>1, <5>1 DEF Numbering
        <5> QED
          BY <2>1, <5>2 DEF ItemIsParked
      <4> QED
        BY <4>1, <4>2 DEF Keyed
    <3>2. ASSUME NEW l \in DOMAIN t, l > 1, j = m + l - 1, c[j] = t[l]
          PROVE  /\ Keyed(c[j]) => c[j].id # t[i].id
                 /\ c[j].do \notin {"renumber", "place"}
                 /\ c[j].do = "resequence" => c[j].day # t[i].day
      <4>1. l < i
        BY <1>2, <1>4, <1>10, <2>4, <3>2
      <4> QED
        BY <2>1, <3>2, <4>1 DEF ItemIsParked
    <3> QED
      BY <1>5, <3>1, <3>2
  <2> QED
    BY <1>10, <2>1, <2>4 DEF ItemIsParked
<1>11. ASSUME NEW k \in DOMAIN c
       PROVE  /\ c[k].do \in FlowKinds
              /\ c[k].do = "setAt" => c[k].id \in PlacesOf(v)
              /\ c[k].do = "setStatus" => c[k].id \in {Trip, Itin}
              /\ c[k].do = "insert" => InsertsUnder(v, c, gone, k)
              /\ c[k].do \in Numbering => ScopeIsDry(v, c, k)
              /\ c[k].do = "place" => ItemIsParked(v, c, k)
  <2>1. CASE k \in 1..m /\ c[k] = x[k]
    BY <1>8, <2>1 DEF Numbering
  <2>2. ASSUME NEW i \in DOMAIN t, i > 1, k = m + i - 1, c[k] = t[i]
        PROVE  /\ c[k].do \in FlowKinds
               /\ c[k].do = "setAt" => c[k].id \in PlacesOf(v)
               /\ c[k].do = "setStatus" => c[k].id \in {Trip, Itin}
               /\ c[k].do = "insert" => InsertsUnder(v, c, gone, k)
               /\ c[k].do \in Numbering => ScopeIsDry(v, c, k)
               /\ c[k].do = "place" => ItemIsParked(v, c, k)
    <3>1. c[k].do \in FlowKinds /\ (c[k].do = "setStatus" => c[k].id \in {Trip, Itin})
      BY <2>2 DEF Flow
    <3>2. c[k].do \notin {"setAt", "insert"}
      BY <1>7, <2>2 DEF Keyed
    <3>3. c[k].do \in Numbering => ScopeIsDry(v, c, k)
      BY <1>9, <2>2
    <3>4. c[k].do = "place" => ItemIsParked(v, c, k)
      BY <1>10, <2>2
    <3> QED
      BY <3>1, <3>2, <3>3, <3>4
  <2> QED
    BY <1>5, <2>1, <2>2
<1>12. ASSUME NEW j \in DOMAIN c, NEW k \in DOMAIN c, j < k
       PROVE  /\ c[j].do = "insert" => c[k].do \notin {"setAt"} \union Numbering
              /\ c[j].do \in Reads => ~ Keyed(c[k])
  <2>1. CASE j \in 1..m /\ c[j] = x[j]
    BY <1>8, <2>1
  <2>2. ASSUME NEW l \in DOMAIN t, l > 1, j = m + l - 1, c[j] = t[l]
        PROVE  c[j].do # "insert" /\ ~ Keyed(c[k])
    <3>1. c[j].do # "insert"
      BY <1>7, <2>2 DEF Keyed
    <3>2. k \notin 1..m
      BY <1>2, <1>4, <1>12, <2>2
    <3> QED
      BY <1>5, <1>7, <3>1, <3>2
  <2> QED
    BY <1>5, <2>1, <2>2
<1>13. NoClash(v, c)
  <2>1. \A k \in DOMAIN r : ~ Keyed(r[k])
    <3>1. ASSUME NEW k \in DOMAIN r
          PROVE  ~ Keyed(r[k])
      <4>1. k + 1 \in DOMAIN t /\ k + 1 > 1 /\ r[k] = t[k + 1]
        BY <1>2
      <4> QED
        BY <1>7, <4>1
    <3> QED
      BY <3>1
  <2>2. NoClash(v, x)
    BY DEF Unfolds
  <2> QED
    BY <1>2, <1>3, <1>4, <2>1, <2>2, JoinedClear
<1> QED
  BY <1>1, <1>3, <1>11, <1>12, <1>13 DEF Flow

(***************************************************************************)
(* Rows of a parent that make room for a new one.                          *)
(***************************************************************************)
\* d lists each row once.
Lists(rows, d, n) ==
  /\ n \in Nat /\ DOMAIN d = 1..n /\ \A k \in 1..n : d[k] \in rows
  /\ \A j, k \in 1..n : d[j] = d[k] => j = k
  /\ \A x \in rows : \E k \in 1..n : d[k] = x
Descending(v, d, n) == \A j, k \in 1..n : j < k => v[d[k]].at < v[d[j]].at

LEMMA OrderedOnce ==
  ASSUME NEW v, NEW rows, Spread(v, rows), NEW d, d = Ordered(v, rows)
  PROVE  Lists(rows, d, Cardinality(rows))
<1>1. PICK n : n = Cardinality(rows)
  OBVIOUS
<1>2. /\ n \in Nat /\ DOMAIN d = 1..n /\ \A k \in 1..n : d[k] \in rows /\ Rank(v, rows, d[k]) = k
      /\ \A x \in rows : Rank(v, rows, x) \in 1..n /\ d[Rank(v, rows, x)] = x
  BY <1>1, OrderedLists
<1>3. ASSUME NEW j \in 1..n, NEW k \in 1..n, d[j] = d[k]
      PROVE  j = k
  <2>1. j = Rank(v, rows, d[j]) /\ k = Rank(v, rows, d[k])
    BY <1>2
  <2> QED
    BY <1>3, <2>1
<1> QED
  BY <1>1, <1>2, <1>3 DEF Lists

LEMMA ReversedOnce ==
  ASSUME NEW v, NEW rows, Spread(v, rows), NEW d, d = Reverse(Ordered(v, rows))
  PROVE  Lists(rows, d, Cardinality(rows)) /\ Descending(v, d, Cardinality(rows))
<1>1. PICK n, s : n = Cardinality(rows) /\ s = Ordered(v, rows)
  OBVIOUS
<1>2. /\ n \in Nat /\ DOMAIN s = 1..n /\ Len(s) = n
      /\ \A k \in 1..n : s[k] \in rows /\ Rank(v, rows, s[k]) = k
      /\ \A x \in rows : Rank(v, rows, x) \in 1..n /\ s[Rank(v, rows, x)] = x
  BY <1>1, OrderedLists
<1>3. Lists(rows, s, n)
  BY <1>1, OrderedOnce
<1>4. DOMAIN d = 1..n /\ \A k \in 1..n : d[k] = s[(n - k) + 1]
  BY <1>1, <1>2 DEF Reverse
<1>5. ASSUME NEW k \in 1..n
      PROVE  \E j \in 1..n : j = (n - k) + 1 /\ d[k] = s[j] /\ d[k] \in rows /\ Rank(v, rows, d[k]) = j
  <2>1. PICK j \in 1..n : j = (n - k) + 1
    BY <1>2
  <2> QED
    BY <1>2, <1>4, <2>1
<1>6. ASSUME NEW x \in rows
      PROVE  \E k \in 1..n : d[k] = x
  <2>1. PICK j \in 1..n : s[j] = x
    BY <1>3 DEF Lists
  <2>2. PICK k \in 1..n : k = (n - j) + 1
    BY <1>2
  <2>3. (n - k) + 1 = j
    BY <1>2, <2>2
  <2> QED
    BY <1>4, <2>1, <2>3
<1>7. ASSUME NEW j \in 1..n, NEW k \in 1..n, j < k
      PROVE  v[d[k]].at < v[d[j]].at /\ d[j] # d[k]
  <2>1. PICK g \in 1..n : g = (n - j) + 1 /\ d[j] \in rows /\ Rank(v, rows, d[j]) = g
    BY <1>5
  <2>2. PICK h \in 1..n : h = (n - k) + 1 /\ d[k] \in rows /\ Rank(v, rows, d[k]) = h
    BY <1>5
  <2>3. h < g
    BY <1>2, <1>7, <2>1, <2>2
  <2>4. d[j] # d[k]
    BY <1>2, <2>1, <2>2, <2>3
  <2>5. v[d[j]].at \in Int /\ v[d[k]].at \in Int /\ v[d[j]].at # v[d[k]].at
    BY <2>1, <2>2, <2>4 DEF Spread
  <2>6. ~ (v[d[j]].at < v[d[k]].at)
    <3>1. SUFFICES ASSUME v[d[j]].at < v[d[k]].at
                   PROVE  FALSE
      OBVIOUS
    <3>2. Rank(v, rows, d[j]) < Rank(v, rows, d[k])
      BY <2>1, <2>2, <3>1, RankIsOrder
    <3> QED
      BY <1>2, <2>1, <2>2, <2>3, <3>2
  <2> QED
    BY <2>4, <2>5, <2>6
<1>8. ASSUME NEW j \in 1..n, NEW k \in 1..n, d[j] = d[k]
      PROVE  j = k
  <2>1. ~ (j < k) /\ ~ (k < j)
    BY <1>7, <1>8
  <2> QED
    BY <1>2, <2>1
<1>9. \A k \in 1..n : d[k] \in rows
  BY <1>5
<1> QED
  BY <1>1, <1>2, <1>4, <1>6, <1>7, <1>8, <1>9 DEF Lists, Descending

\* After the statements of t nothing stands at the position.
MakesRoom(v, parent, at, t) ==
  /\ IsList(t) /\ Numbers(v, parent, t)
  /\ \A k \in DOMAIN t : Claim(v, t[k]) # <<parent, at>>
  /\ \A x \in PlacesOf(v) : Key(v[x]) = <<parent, at>> =>
       \E k \in DOMAIN t : Keyed(t[k]) /\ t[k].id = x

\* The rows from the position on.
From(v, parent, at) == {x \in Children(v, parent) : v[x].at >= at}

\* One position up.
LEMMA ShiftAssigns ==
  ASSUME NEW v, WellFormed(v), NEW parent, NEW at \in Nat, NEW d, NEW n, Lists(From(v, parent, at), d, n),
         NEW b, b = [k \in DOMAIN d |-> SetAt(d[k], v[d[k]].at + 1)],
         NEW q, q = [k \in 1..n |-> v[d[k]].at + 1]
  PROVE  Assigns(v, parent, b, d, q)
<1>1. PICK rows : rows = From(v, parent, at)
  OBVIOUS
<1>2. /\ n \in Nat /\ DOMAIN d = 1..n /\ \A k \in 1..n : d[k] \in rows
      /\ \A j, k \in 1..n : d[j] = d[k] => j = k
  BY <1>1 DEF Lists
<1>3. rows \subseteq Children(v, parent)
  BY <1>1 DEF From
<1>4. Spread(v, rows)
  BY <1>3, ChildrenListed
<1>5. \A k \in 1..n : v[d[k]].at \in Int /\ q[k] = v[d[k]].at + 1
  BY <1>2, <1>4 DEF Spread
<1>6. ASSUME NEW j \in 1..n, NEW k \in 1..n, q[j] = q[k]
      PROVE  j = k
  <2>1. v[d[j]].at = v[d[k]].at
    BY <1>5, <1>6
  <2>2. d[j] = d[k]
    BY <1>2, <1>4, <2>1 DEF Spread
  <2> QED
    BY <1>2, <2>2
<1>7. IsList(b) /\ DOMAIN b = 1..n /\ \A k \in 1..n : b[k] = SetAt(d[k], q[k])
  <2>1. DOMAIN b = 1..n /\ \A k \in 1..n : b[k] = SetAt(d[k], v[d[k]].at + 1)
    BY <1>2
  <2>2. b = [k \in 1..n |-> b[k]]
    BY <1>2
  <2>3. IsList(b)
    BY <1>2, <2>2, Numbered
  <2> QED
    BY <1>5, <2>1, <2>3
<1> QED
  BY <1>2, <1>3, <1>5, <1>6, <1>7 DEF Assigns

LEMMA ShiftFacts ==
  ASSUME NEW v, WellFormed(v), NEW parent, NEW at \in Nat, NEW d, NEW n, Lists(From(v, parent, at), d, n),
         NEW q, q = [k \in 1..n |-> v[d[k]].at + 1]
  PROVE  /\ \A k \in 1..n : q[k] \in Int /\ q[k] > at /\ v[d[k]].at \in Int /\ q[k] = v[d[k]].at + 1
         /\ \A x \in Children(v, parent) : v[x].at >= at => \E k \in 1..n : d[k] = x
         /\ \A x \in Children(v, parent) : v[x].at \in Int /\ v[x].at >= 0
<1>1. PICK rows : rows = From(v, parent, at)
  OBVIOUS
<1>2. \A k \in 1..n : d[k] \in rows
  BY <1>1 DEF Lists
<1>3. \A x \in rows : v[x].at >= at /\ x \in Children(v, parent)
  BY <1>1 DEF From
<1>4. \A x \in Children(v, parent) : v[x].at \in Int /\ v[x].at >= 0
  BY DEF Children, WellFormed, IsRow, PlacesOf
<1>5. \A x \in Children(v, parent) : v[x].at >= at => \E k \in 1..n : d[k] = x
  <2>1. ASSUME NEW x \in Children(v, parent), v[x].at >= at
        PROVE  \E k \in 1..n : d[k] = x
    <3>1. x \in rows
      BY <1>1, <2>1 DEF From
    <3> QED
      BY <1>1, <3>1 DEF Lists
  <2> QED
    BY <2>1
<1>6. ASSUME NEW k \in 1..n
      PROVE  q[k] \in Int /\ q[k] > at /\ v[d[k]].at \in Int /\ q[k] = v[d[k]].at + 1
  <2>1. PICK z \in Int : z = v[d[k]].at /\ z >= at
    BY <1>2, <1>3, <1>4
  <2> QED
    BY <2>1
<1> QED
  BY <1>4, <1>5, <1>6

\* A list of numberings makes room when every row from the position on is in it.
LEMMA RoomMade ==
  ASSUME NEW v, NEW parent, NEW at \in Nat, NEW t, IsList(t), Numbers(v, parent, t),
         \A k \in DOMAIN t : t[k].at # at,
         \A x \in Children(v, parent) : v[x].at = at => \E k \in DOMAIN t : t[k].id = x
  PROVE  MakesRoom(v, parent, at, t)
<1>1. \A k \in DOMAIN t : Keyed(t[k]) /\ Claim(v, t[k]) = <<parent, t[k].at>>
  BY DEF Numbers, Keyed, Claim
<1>2. ASSUME NEW k \in DOMAIN t
      PROVE  Claim(v, t[k]) # <<parent, at>>
  <2>1. t[k].at # at
    OBVIOUS
  <2> QED
    BY <1>1, <2>1
<1>3. ASSUME NEW x \in PlacesOf(v), Key(v[x]) = <<parent, at>>
      PROVE  \E k \in DOMAIN t : Keyed(t[k]) /\ t[k].id = x
  <2>1. v[x].in = parent /\ v[x].at = at
    BY <1>3 DEF Key
  <2>2. x \in Children(v, parent)
    BY <2>1 DEF Children, PlacesOf
  <2> QED
    BY <1>1, <2>1, <2>2
<1> QED
  BY <1>2, <1>3 DEF MakesRoom

\* By parking the rows first.
LEMMA ParkingMakesRoom ==
  ASSUME NEW v, WellFormed(v), NEW parent, NEW at \in Nat, NEW d, NEW n, Lists(From(v, parent, at), d, n)
  PROVE  MakesRoom(v, parent, at, [k \in DOMAIN d |-> SetAt(d[k], -k)]
                                  \o [k \in DOMAIN d |-> SetAt(d[k], v[d[k]].at + 1)])
<1>1. PICK a : a = [k \in DOMAIN d |-> SetAt(d[k], -k)]
  OBVIOUS
<1>2. PICK b : b = [k \in DOMAIN d |-> SetAt(d[k], v[d[k]].at + 1)]
  OBVIOUS
<1>3. PICK p : p = [k \in 1..n |-> -k]
  OBVIOUS
<1>4. PICK q : q = [k \in 1..n |-> v[d[k]].at + 1]
  OBVIOUS
<1>5. /\ n \in Nat /\ DOMAIN d = 1..n /\ \A k \in 1..n : d[k] \in Children(v, parent)
      /\ \A j, k \in 1..n : d[j] = d[k] => j = k
  BY DEF Lists, From
<1>6. /\ \A k \in 1..n : q[k] \in Int /\ q[k] > at
      /\ \A x \in Children(v, parent) : v[x].at >= at => \E k \in 1..n : d[k] = x
      /\ \A x \in Children(v, parent) : v[x].at \in Int /\ v[x].at >= 0
  BY <1>4, ShiftFacts
<1>7. \A k \in 1..n : p[k] \in Int /\ p[k] < 0 /\ p[k] = -k
  BY <1>3
<1>8. Assigns(v, parent, a, d, p)
  <2>1. DOMAIN a = 1..n /\ DOMAIN p = 1..n /\ \A k \in 1..n : a[k] = SetAt(d[k], p[k])
    BY <1>1, <1>3, <1>5
  <2>2. IsList(a)
    <3>1. a = [k \in 1..n |-> a[k]]
      BY <1>1, <1>5
    <3> QED
      BY <1>5, <3>1, Numbered
  <2>3. \A j, k \in 1..n : p[j] = p[k] => j = k
    BY <1>7
  <2> QED
    BY <1>5, <1>7, <2>1, <2>2, <2>3 DEF Assigns
<1>9. Assigns(v, parent, b, d, q)
  BY <1>2, <1>4, ShiftAssigns
<1>10. DOMAIN a = 1..n /\ DOMAIN b = 1..n
  BY <1>1, <1>2, <1>5
<1>11. NoClash(v, a)
  <2>1. \A x \in Children(v, parent), k \in DOMAIN a : v[x].at # p[k]
    BY <1>6, <1>7, <1>10
  <2> QED
    BY <1>8, <2>1, AssignsFree
<1>12. NoClash(v, a \o b)
  <2>1. \A k \in DOMAIN a, j \in DOMAIN b : p[k] # q[j]
    BY <1>6, <1>7, <1>10
  <2>2. ASSUME NEW x \in Children(v, parent), NEW k \in DOMAIN b, v[x].at = q[k]
        PROVE  \E j \in DOMAIN a : d[j] = x
    <3>1. v[x].at >= at
      BY <1>6, <1>10, <2>2
    <3> QED
      BY <1>6, <1>10, <3>1
  <2> QED
    BY <1>8, <1>9, <1>11, <2>1, <2>2, ParkedAndAssigned
<1>13. Numbers(v, parent, a \o b)
  BY <1>8, <1>9, <1>12, AssignedNumbers
<1>14. PICK c : c = a \o b
  OBVIOUS
<1>15. IsList(a) /\ IsList(b) /\ IsList(c)
  BY <1>8, <1>9, <1>14, JoinedList DEF Assigns
<1>16. ASSUME NEW k \in DOMAIN c
       PROVE  c[k].at # at
  <2>1. (\E j \in DOMAIN a : c[k] = a[j]) \/ (\E j \in DOMAIN b : c[k] = b[j])
    BY <1>14, <1>15, JoinedIndex
  <2>2. ASSUME NEW j \in DOMAIN a, c[k] = a[j]
        PROVE  c[k].at # at
    <3>1. a[j].at = p[j]
      BY <1>8, AssignedClaims
    <3> QED
      BY <1>7, <1>10, <2>2, <3>1
  <2>3. ASSUME NEW j \in DOMAIN b, c[k] = b[j]
        PROVE  c[k].at # at
    <3>1. b[j].at = q[j]
      BY <1>9, AssignedClaims
    <3> QED
      BY <1>6, <1>10, <2>3, <3>1
  <2> QED
    BY <2>1, <2>2, <2>3
<1>17. ASSUME NEW x \in Children(v, parent), v[x].at = at
       PROVE  \E k \in DOMAIN c : c[k].id = x
  <2>1. PICK j \in DOMAIN a : d[j] = x
    BY <1>6, <1>10, <1>17
  <2>2. a[j].id = x
    BY <1>8, <2>1, AssignedClaims
  <2>3. j \in DOMAIN c /\ c[j] = a[j]
    <3>1. Len(a) \in Nat /\ DOMAIN a = 1..Len(a) /\ Len(b) \in Nat /\ DOMAIN c = 1..Len(c)
      BY <1>15, ListFacts
    <3>2. Len(c) = Len(a) + Len(b) /\ \A k \in 1..Len(a) : c[k] = a[k]
      BY <1>14, <1>15, JoinedList
    <3> QED
      BY <3>1, <3>2
  <2> QED
    BY <2>2, <2>3
<1>18. MakesRoom(v, parent, at, c)
  BY <1>13, <1>14, <1>15, <1>16, <1>17, RoomMade
<1> QED
  BY <1>1, <1>2, <1>14, <1>18

\* By moving the last row first.
LEMMA DescendingMakesRoom ==
  ASSUME NEW v, WellFormed(v), NEW parent, NEW at \in Nat, NEW d, NEW n, Lists(From(v, parent, at), d, n),
         Descending(v, d, n)
  PROVE  MakesRoom(v, parent, at, [k \in DOMAIN d |-> SetAt(d[k], v[d[k]].at + 1)])
<1>1. PICK b : b = [k \in DOMAIN d |-> SetAt(d[k], v[d[k]].at + 1)]
  OBVIOUS
<1>2. PICK q : q = [k \in 1..n |-> v[d[k]].at + 1]
  OBVIOUS
<1>3. /\ n \in Nat /\ DOMAIN d = 1..n /\ DOMAIN b = 1..n
      /\ \A j, k \in 1..n : d[j] = d[k] => j = k
  BY <1>1 DEF Lists
<1>4. /\ \A k \in 1..n : q[k] \in Int /\ q[k] > at /\ v[d[k]].at \in Int /\ q[k] = v[d[k]].at + 1
      /\ \A x \in Children(v, parent) : v[x].at >= at => \E k \in 1..n : d[k] = x
      /\ \A x \in Children(v, parent) : v[x].at \in Int /\ v[x].at >= 0
  BY <1>2, ShiftFacts
<1>5. Assigns(v, parent, b, d, q)
  BY <1>1, <1>2, ShiftAssigns
<1>6. \A k \in DOMAIN b : /\ b[k].do = "setAt" /\ Keyed(b[k]) /\ b[k].id = d[k] /\ b[k].at = q[k]
                          /\ b[k].id \in PlacesOf(v) /\ v[b[k].id].in = parent
                          /\ Claim(v, b[k]) = <<parent, q[k]>>
  BY <1>5, AssignedClaims
<1>7. ASSUME NEW k \in DOMAIN b, NEW x \in PlacesOf(v), Key(v[x]) = Claim(v, b[k])
      PROVE  \E j \in DOMAIN b : j < k /\ Keyed(b[j]) /\ b[j].id = x
  <2>1. Key(v[x]) = <<parent, q[k]>>
    BY <1>6, <1>7
  <2>2. v[x].in = parent /\ v[x].at = q[k]
    BY <2>1 DEF Key
  <2>3. x \in Children(v, parent)
    BY <2>2 DEF Children, PlacesOf
  <2>4. PICK j \in 1..n : d[j] = x
    BY <1>3, <1>4, <2>2, <2>3
  <2>5. v[d[k]].at < v[d[j]].at
    BY <1>3, <1>4, <2>2, <2>4
  <2>6. ~ (k < j) /\ k # j
    BY <1>3, <1>4, <2>5 DEF Descending
  <2>7. j < k
    BY <1>3, <2>6
  <2> QED
    BY <1>3, <1>6, <2>4, <2>7
<1>8. ASSUME NEW k \in DOMAIN b, NEW j \in DOMAIN b, j # k
      PROVE  Claim(v, b[k]) # Claim(v, b[j])
  <2>1. q[k] # q[j]
    BY <1>5, <1>8 DEF Assigns
  <2> QED
    BY <1>6, <2>1
<1>9. NoClash(v, b)
  BY <1>7, <1>8 DEF NoClash
<1>10. Numbers(v, parent, b) /\ IsList(b)
  BY <1>5, <1>6, <1>9 DEF Numbers, Assigns
<1>11. \A k \in DOMAIN b : b[k].at # at
  BY <1>3, <1>4, <1>6
<1>12. ASSUME NEW x \in Children(v, parent), v[x].at = at
       PROVE  \E k \in DOMAIN b : b[k].id = x
  <2>1. PICK j \in 1..n : d[j] = x
    BY <1>4, <1>12
  <2> QED
    BY <1>3, <1>6, <2>1
<1>13. MakesRoom(v, parent, at, b)
  BY <1>10, <1>11, <1>12, RoomMade
<1> QED
  BY <1>1, <1>13

\* The statements that insert a row where room has been made, and rows under it.
Inserting(v, parent, at, r) ==
  /\ IsList(r) /\ r # << >>
  /\ r[1].do = "insert" /\ r[1].row.in = parent /\ r[1].row.at = at
  /\ \A k \in DOMAIN r : k # 1 =>
       \/ r[k].do \in {"bump", "clear"}
       \/ /\ r[k].do = "insert" /\ r[k].row.in = r[1].id
          /\ r[1].id # parent /\ \A x \in PlacesOf(v) : v[x].in # r[1].id
  /\ \A j, k \in DOMAIN r : j # 1 /\ k # 1 /\ r[j].do = "insert" /\ r[k].do = "insert" => j = k
  /\ \A j, k \in DOMAIN r : j < k /\ r[j].do = "clear" => r[k].do # "insert"

LEMMA RoomFlow ==
  ASSUME NEW v, NEW parent \in DOMAIN v, NEW at, NEW t, MakesRoom(v, parent, at, t),
         NEW r, Inserting(v, parent, at, r)
  PROVE  Flow(v, t \o r, {})
<1>1. PICK c, m, n : c = t \o r /\ m = Len(t) /\ n = Len(r)
  OBVIOUS
<1>2. IsList(t) /\ IsList(r) /\ r # << >>
  BY DEF MakesRoom, Inserting
<1>3. /\ m \in Nat /\ n \in Nat /\ n > 0 /\ DOMAIN t = 1..m /\ DOMAIN r = 1..n
      /\ DOMAIN c = 1..(m + n)
      /\ \A k \in 1..m : c[k] = t[k]
      /\ \A k \in 1..n : c[m + k] = r[k]
  <2>1. m \in Nat /\ n \in Nat /\ n > 0 /\ DOMAIN t = 1..m /\ DOMAIN r = 1..n
    BY <1>1, <1>2, ListFacts
  <2>2. /\ IsList(t \o r) /\ Len(t \o r) = Len(t) + Len(r)
        /\ \A k \in 1..Len(t) : (t \o r)[k] = t[k]
        /\ \A k \in 1..Len(r) : (t \o r)[Len(t) + k] = r[k]
    BY <1>2, JoinedList
  <2>3. DOMAIN c = 1..(m + n)
    BY <1>1, <2>2, ListFacts
  <2> QED
    BY <1>1, <2>1, <2>2, <2>3
<1>4. ASSUME NEW k \in DOMAIN c
      PROVE  \/ k \in 1..m /\ c[k] = t[k]
             \/ \E i \in 1..n : k = m + i /\ c[k] = r[i]
  <2>1. CASE k \in 1..m
    BY <1>3, <2>1
  <2>2. CASE k \notin 1..m
    <3>1. PICK i \in 1..n : i = k - m
      BY <1>3, <2>2
    <3>2. k = m + i
      BY <1>3, <3>1
    <3> QED
      BY <1>3, <3>2
  <2> QED
    BY <2>1, <2>2
<1>5. \A k \in 1..m : /\ t[k].do = "setAt" /\ t[k].id \in PlacesOf(v) /\ v[t[k].id].in = parent
                      /\ Keyed(t[k])
  BY <1>3 DEF MakesRoom, Numbers, Keyed
<1>6. \A k \in 1..n : r[k].do \in {"insert", "bump", "clear"}
  BY <1>3 DEF Inserting
<1>7. ASSUME NEW i \in 1..n, r[i].do = "insert"
      PROVE  InsertsUnder(v, c, {}, m + i)
  <2>1. c[m + i] = r[i]
    BY <1>3
  <2>2. CASE i = 1
    BY <2>1, <2>2 DEF Inserting, InsertsUnder
  <2>3. CASE i # 1
    <3>1. r[i].row.in = r[1].id /\ r[1].do = "insert"
      BY <1>3, <1>7, <2>3 DEF Inserting
    <3>2. m + 1 \in DOMAIN c /\ c[m + 1] = r[1] /\ m + 1 < m + i
      BY <1>3, <2>3
    <3> QED
      BY <2>1, <3>1, <3>2 DEF InsertsUnder
  <2> QED
    BY <2>2, <2>3
<1>8. ASSUME NEW k \in DOMAIN c
      PROVE  /\ c[k].do \in FlowKinds
             /\ c[k].do = "setAt" => c[k].id \in PlacesOf(v)
             /\ c[k].do = "setStatus" => c[k].id \in {Trip, Itin}
             /\ c[k].do = "insert" => InsertsUnder(v, c, {}, k)
             /\ c[k].do \in Numbering => ScopeIsDry(v, c, k)
             /\ c[k].do = "place" => ItemIsParked(v, c, k)
  <2>1. CASE k \in 1..m /\ c[k] = t[k]
    BY <1>5, <2>1 DEF FlowKinds, Numbering
  <2>2. ASSUME NEW i \in 1..n, k = m + i, c[k] = r[i]
        PROVE  /\ c[k].do \in {"insert", "bump", "clear"}
               /\ c[k].do = "insert" => InsertsUnder(v, c, {}, k)
    BY <1>6, <1>7, <2>2
  <2>3. CASE c[k].do \in {"insert", "bump", "clear"} /\ (c[k].do = "insert" => InsertsUnder(v, c, {}, k))
    BY <2>3 DEF FlowKinds, Numbering
  <2> QED
    BY <1>4, <2>1, <2>2, <2>3
<1>9. ASSUME NEW j \in DOMAIN c, NEW k \in DOMAIN c, j < k
      PROVE  /\ c[j].do = "insert" => c[k].do \notin {"setAt"} \union Numbering
             /\ c[j].do \in Reads => ~ Keyed(c[k])
  <2>1. CASE j \in 1..m /\ c[j] = t[j]
    BY <1>5, <2>1 DEF Reads
  <2>2. ASSUME NEW i \in 1..n, j = m + i, c[j] = r[i]
        PROVE  /\ c[j].do = "insert" => c[k].do \notin {"setAt"} \union Numbering
               /\ c[j].do \in Reads => ~ Keyed(c[k])
    <3>1. PICK l \in 1..n : k = m + l /\ c[k] = r[l]
      BY <1>3, <1>4, <1>9, <2>2
    <3>2. i < l
      BY <1>3, <1>9, <2>2, <3>1
    <3>3. r[i].do = "clear" => r[l].do # "insert"
      BY <1>3, <3>2 DEF Inserting
    <3>4. r[i].do \in {"insert", "bump", "clear"} /\ r[l].do \in {"insert", "bump", "clear"}
      BY <1>6
    <3> QED
      BY <2>2, <3>1, <3>3, <3>4 DEF Numbering, Reads, Keyed
  <2> QED
    BY <1>4, <2>1, <2>2
<1>10. ASSUME NEW k \in 1..n, Keyed(r[k])
       PROVE  /\ r[k].do = "insert" /\ Claim(v, r[k]) = Key(r[k].row)
              /\ k = 1 => Claim(v, r[k]) = <<parent, at>>
              /\ k # 1 => \E z : /\ Claim(v, r[k]) = <<r[1].id, z>> /\ r[1].id # parent
                                 /\ \A x \in PlacesOf(v) : v[x].in # r[1].id
  <2>1. r[k].do = "insert" /\ Claim(v, r[k]) = Key(r[k].row)
    BY <1>6, <1>10 DEF Keyed, Claim
  <2>2. CASE k = 1
    BY <2>1, <2>2 DEF Inserting, Key
  <2>3. CASE k # 1
    <3>1. /\ r[k].row.in = r[1].id /\ r[1].id # parent
          /\ \A x \in PlacesOf(v) : v[x].in # r[1].id
      BY <1>3, <2>1, <2>3 DEF Inserting
    <3>2. Claim(v, r[k]) = <<r[1].id, r[k].row.at>>
      BY <2>1, <3>1 DEF Key
    <3> QED
      BY <2>1, <2>3, <3>1, <3>2
  <2> QED
    BY <2>2, <2>1, <2>3
<1>11. ASSUME NEW k \in DOMAIN r, NEW x \in PlacesOf(v), Keyed(r[k]), Key(v[x]) = Claim(v, r[k])
       PROVE  \E j \in DOMAIN t : Keyed(t[j]) /\ t[j].id = x
  <2>1. CASE k = 1
    BY <1>3, <1>10, <1>11, <2>1 DEF MakesRoom
  <2>2. CASE k # 1
    <3>1. PICK z : Claim(v, r[k]) = <<r[1].id, z>> /\ v[x].in # r[1].id
      BY <1>3, <1>10, <1>11, <2>2
    <3> QED
      BY <1>11, <3>1 DEF Key
  <2> QED
    BY <2>1, <2>2
<1>12. ASSUME NEW k \in DOMAIN r, NEW j \in DOMAIN t, Keyed(r[k])
       PROVE  Claim(v, r[k]) # Claim(v, t[j])
  <2>1. CASE k = 1
    BY <1>3, <1>10, <1>12, <2>1 DEF MakesRoom
  <2>2. CASE k # 1
    <3>1. PICK z : Claim(v, r[k]) = <<r[1].id, z>> /\ r[1].id # parent
      BY <1>3, <1>10, <1>12, <2>2
    <3>2. Claim(v, t[j]) = <<parent, t[j].at>>
      BY <1>3, <1>5 DEF Claim
    <3> QED
      BY <3>1, <3>2
  <2> QED
    BY <2>1, <2>2
<1>13. ASSUME NEW k \in DOMAIN r, NEW j \in DOMAIN r, Keyed(r[k]), Keyed(r[j]), j # k
       PROVE  Claim(v, r[k]) # Claim(v, r[j])
  <2>1. r[k].do = "insert" /\ r[j].do = "insert"
    BY <1>3, <1>10, <1>13
  <2>2. j = 1 \/ k = 1
    BY <1>13, <2>1 DEF Inserting
  <2>3. ASSUME NEW i \in 1..n, i # 1, Keyed(r[i])
        PROVE  Claim(v, r[i]) # <<parent, at>>
    <3>1. PICK z : Claim(v, r[i]) = <<r[1].id, z>> /\ r[1].id # parent
      BY <1>10, <2>3
    <3> QED
      BY <3>1
  <2> QED
    BY <1>3, <1>10, <1>13, <2>2, <2>3
<1>14. NoClash(v, t)
  BY DEF MakesRoom, Numbers
<1>15. NoClash(v, t \o r)
  BY <1>2, <1>11, <1>12, <1>13, <1>14, JoinedClear
<1> QED
  BY <1>1, <1>8, <1>9, <1>15 DEF Flow

\* Statements that give no key and read no order.
QuietList(t) ==
  /\ IsList(t)
  /\ \A k \in DOMAIN t : t[k].do \in {"setStatus", "setRoute", "bump", "clear"}
  /\ \A k \in DOMAIN t : t[k].do = "setStatus" => t[k].id \in {Trip, Itin}

LEMMA QuietFlow ==
  ASSUME NEW v, NEW t, QuietList(t), NEW gone
  PROVE  Flow(v, t, gone)
<1>1. ASSUME NEW k \in DOMAIN t
      PROVE  /\ ~ Keyed(t[k]) /\ t[k].do \in FlowKinds
             /\ t[k].do \notin {"setAt", "insert", "place"} /\ t[k].do \notin Numbering
  <2>1. PICK w : w = t[k].do
    OBVIOUS
  <2>2. w \in {"setStatus", "setRoute", "bump", "clear"}
    BY <2>1 DEF QuietList
  <2> QED
    BY <2>1, <2>2 DEF Keyed, FlowKinds, Numbering
<1>2. NoClash(v, t)
  BY <1>1 DEF NoClash
<1>3. \A k \in DOMAIN t : t[k].do = "setStatus" => t[k].id \in {Trip, Itin}
  BY DEF QuietList
<1> QED
  BY <1>1, <1>2, <1>3 DEF Flow

\* A plan that makes room and goes on with r.
Prepares(v, parent, at, t, r) == \E shift : MakesRoom(v, parent, at, shift) /\ t = shift \o r

LEMMA PreparedFlow ==
  ASSUME NEW v, NEW parent \in DOMAIN v, NEW at, NEW t, NEW r, Prepares(v, parent, at, t, r),
         Inserting(v, parent, at, r)
  PROVE  Flow(v, t, {})
<1>1. PICK shift : MakesRoom(v, parent, at, shift) /\ t = shift \o r
  BY DEF Prepares
<1>2. Flow(v, shift \o r, {})
  BY <1>1, RoomFlow
<1> QED
  BY <1>1, <1>2

LEMMA AddDayPrepares ==
  ASSUME NEW v, WellFormed(v), NEW e \in Edits, NEW slot \in Slots
  PROVE  \E at \in Nat :
           Prepares(v, Itin, at, AddDayPlan(e, v, slot), <<Insert(NewDay(e), Itin, at), BumpVersion>>)
<1>1. PICK last \in Nat : last = Cardinality(Children(v, Itin)) + 1 /\ last >= 1
  BY ChildrenListed
<1>2. PICK target \in Nat : target = Clamp(IF slot = None THEN last ELSE slot, last)
  BY <1>1, ClampRange
<1>3. PICK rows, d : rows = From(v, Itin, target) /\ d = Ordered(v, rows)
  OBVIOUS
<1>4. PICK n : n = Cardinality(rows)
  OBVIOUS
<1>5. Lists(rows, d, n)
  <2>1. rows \subseteq Children(v, Itin)
    BY <1>3 DEF From
  <2>2. Spread(v, rows)
    BY <2>1, ChildrenListed
  <2> QED
    BY <1>3, <1>4, <2>2, OrderedOnce
<1>6. PICK shift : shift = [k \in DOMAIN d |-> SetAt(d[k], -k)]
                           \o [k \in DOMAIN d |-> SetAt(d[k], v[d[k]].at + 1)]
  OBVIOUS
<1>7. MakesRoom(v, Itin, target, shift)
  BY <1>3, <1>5, <1>6, ParkingMakesRoom
<1>8. PICK r : r = <<Insert(NewDay(e), Itin, target), BumpVersion>>
  OBVIOUS
<1>9. AddDayPlan(e, v, slot) = shift \o r
  BY <1>1, <1>2, <1>3, <1>6, <1>8 DEF AddDayPlan, From
<1>10. Prepares(v, Itin, target, AddDayPlan(e, v, slot), r)
  BY <1>7, <1>9 DEF Prepares
<1> QED
  BY <1>8, <1>10

LEMMA AddDayFlow ==
  ASSUME NEW v, WellFormed(v), NEW e \in Edits, NEW slot \in Slots
  PROVE  Flow(v, AddDayPlan(e, v, slot), {})
<1>1. PICK target \in Nat :
        Prepares(v, Itin, target, AddDayPlan(e, v, slot), <<Insert(NewDay(e), Itin, target), BumpVersion>>)
  BY AddDayPrepares
<1>2. PICK one, two, r : one = Insert(NewDay(e), Itin, target) /\ two = BumpVersion /\ r = <<one, two>>
  OBVIOUS
<1>3. one.do = "insert" /\ one.row.in = Itin /\ one.row.at = target /\ two.do = "bump"
  BY <1>2 DEF Insert, Place, BumpVersion
<1>4. Inserting(v, Itin, target, r)
  <2>1. r \in Seq({one, two})
    BY <1>2
  <2>2. IsList(r)
    BY <2>1, AnyList
  <2>3. DOMAIN r = {1, 2} /\ r[1] = one /\ r[2] = two /\ r # << >>
    BY <1>2
  <2> QED
    BY <1>3, <2>2, <2>3 DEF Inserting
<1>5. Itin \in DOMAIN v
  BY DEF WellFormed
<1>6. Prepares(v, Itin, target, AddDayPlan(e, v, slot), r)
  BY <1>1, <1>2
<1> QED
  BY <1>4, <1>5, <1>6, PreparedFlow

LEMMA AddItemPrepares ==
  ASSUME NEW v, WellFormed(v), NEW e \in Edits, NEW day \in DOMAIN v, NEW slot \in Slots,
         NEW at \in InsertionPoints(v, day, slot)
  PROVE  Prepares(v, day, at, AddItemPlan(e, v, day, at), <<Insert(NewItem(e, 1), day, at), ClearRoutes({day})>>)
<1>1. at \in Nat
  <2>1. PICK last \in Nat : last = Cardinality(Children(v, day)) + 1 /\ last >= 1
    BY ChildrenListed
  <2>2. Clamp(slot, last) \in Nat \/ slot = None
    BY <2>1, ClampRange
  <2>3. \A i \in Children(v, day) : v[i].at \in Nat
    BY DEF Children, WellFormed, IsRow, PlacesOf
  <2> QED
    BY <2>1, <2>2, <2>3 DEF InsertionPoints
<1>2. PICK rows, d : rows = From(v, day, at) /\ d = Reverse(Ordered(v, rows))
  OBVIOUS
<1>3. PICK n : n = Cardinality(rows)
  OBVIOUS
<1>4. Lists(rows, d, n) /\ Descending(v, d, n)
  <2>1. rows \subseteq Children(v, day)
    BY <1>2 DEF From
  <2>2. Spread(v, rows)
    BY <2>1, ChildrenListed
  <2> QED
    BY <1>2, <1>3, <2>2, ReversedOnce
<1>5. PICK shift : shift = [k \in DOMAIN d |-> SetAt(d[k], v[d[k]].at + 1)]
  OBVIOUS
<1>6. MakesRoom(v, day, at, shift)
  BY <1>1, <1>2, <1>4, <1>5, DescendingMakesRoom
<1>7. PICK r : r = <<Insert(NewItem(e, 1), day, at), ClearRoutes({day})>>
  OBVIOUS
<1>8. AddItemPlan(e, v, day, at) = shift \o r
  BY <1>2, <1>5, <1>7 DEF AddItemPlan, From
<1> QED
  BY <1>6, <1>7, <1>8 DEF Prepares

LEMMA AddItemFlow ==
  ASSUME NEW v, WellFormed(v), NEW e \in Edits, NEW day \in DOMAIN v, NEW slot \in Slots,
         NEW at \in InsertionPoints(v, day, slot)
  PROVE  Flow(v, AddItemPlan(e, v, day, at), {})
<1>1. PICK one, two, r : one = Insert(NewItem(e, 1), day, at) /\ two = ClearRoutes({day}) /\ r = <<one, two>>
  OBVIOUS
<1>2. one.do = "insert" /\ one.row.in = day /\ one.row.at = at /\ two.do = "clear"
  BY <1>1 DEF Insert, Place, ClearRoutes
<1>3. Inserting(v, day, at, r)
  <2>1. r \in Seq({one, two})
    BY <1>1
  <2>2. IsList(r)
    BY <2>1, AnyList
  <2>3. DOMAIN r = {1, 2} /\ r[1] = one /\ r[2] = two /\ r # << >>
    BY <1>1
  <2> QED
    BY <1>2, <2>2, <2>3 DEF Inserting
<1>4. Prepares(v, day, at, AddItemPlan(e, v, day, at), r)
  BY <1>1, AddItemPrepares
<1> QED
  BY <1>3, <1>4, PreparedFlow

LEMMA ReuseDayPrepares ==
  ASSUME NEW v, WellFormed(v), NEW e \in Edits, NEW index \in Nat
  PROVE  Prepares(v, Itin, index + 1, ReuseDayPlan(e, v, index),
                  <<Insert(NewDay(e), Itin, index + 1), Insert(NewItem(e, 1), NewDay(e), 0), BumpVersion>>)
<1>1. PICK target \in Nat : target = index + 1
  OBVIOUS
<1>2. PICK rows, d : rows = From(v, Itin, target) /\ d = Reverse(Ordered(v, rows))
  OBVIOUS
<1>3. PICK n : n = Cardinality(rows)
  OBVIOUS
<1>4. Lists(rows, d, n)
  <2>1. rows \subseteq Children(v, Itin)
    BY <1>2 DEF From
  <2>2. Spread(v, rows)
    BY <2>1, ChildrenListed
  <2> QED
    BY <1>2, <1>3, <2>2, ReversedOnce
<1>5. PICK shift : shift = [k \in DOMAIN d |-> SetAt(d[k], -k)]
                           \o [k \in DOMAIN d |-> SetAt(d[k], v[d[k]].at + 1)]
  OBVIOUS
<1>6. MakesRoom(v, Itin, target, shift)
  BY <1>2, <1>4, <1>5, ParkingMakesRoom
<1>7. PICK r : r = <<Insert(NewDay(e), Itin, target), Insert(NewItem(e, 1), NewDay(e), 0), BumpVersion>>
  OBVIOUS
<1>8. ReuseDayPlan(e, v, index) = shift \o r
  BY <1>1, <1>2, <1>5, <1>7 DEF ReuseDayPlan, From
<1>9. Prepares(v, Itin, target, ReuseDayPlan(e, v, index), r)
  BY <1>6, <1>8 DEF Prepares
<1> QED
  BY <1>1, <1>7, <1>9

LEMMA ReuseDayFlow ==
  ASSUME NEW v, WellFormed(v), NEW e \in Edits, NEW index \in Nat, Unknown(v, NewDay(e))
  PROVE  Flow(v, ReuseDayPlan(e, v, index), {})
<1>1. PICK target \in Nat : target = index + 1
  OBVIOUS
<1>2. PICK one, two, three, r :
        /\ one = Insert(NewDay(e), Itin, target) /\ two = Insert(NewItem(e, 1), NewDay(e), 0)
        /\ three = BumpVersion /\ r = <<one, two, three>>
  OBVIOUS
<1>3. /\ one.do = "insert" /\ one.id = NewDay(e) /\ one.row.in = Itin /\ one.row.at = target
      /\ two.do = "insert" /\ two.row.in = NewDay(e) /\ three.do = "bump"
  BY <1>2 DEF Insert, Place, BumpVersion
<1>4. Inserting(v, Itin, target, r)
  <2>1. r \in Seq({one, two, three})
    BY <1>2
  <2>2. IsList(r)
    BY <2>1, AnyList
  <2>3. DOMAIN r = {1, 2, 3} /\ r[1] = one /\ r[2] = two /\ r[3] = three /\ r # << >>
    BY <1>2
  <2>4. NewDay(e) # Itin /\ \A x \in PlacesOf(v) : v[x].in # NewDay(e)
    BY IdAssumption DEF Unknown
  <2> QED
    BY <1>3, <2>2, <2>3, <2>4 DEF Inserting
<1>5. Itin \in DOMAIN v
  BY DEF WellFormed
<1>6. Prepares(v, Itin, target, ReuseDayPlan(e, v, index), r)
  BY <1>1, <1>2, ReuseDayPrepares
<1> QED
  BY <1>4, <1>5, <1>6, PreparedFlow

\* What an edit of the itinerary sets out with runs smoothly.
LEMMA QuietOne ==
  ASSUME NEW s, s.do \in {"setStatus", "setRoute", "bump", "clear"},
         s.do = "setStatus" => s.id \in {Trip, Itin}
  PROVE  QuietList(<<s>>)
<1>1. <<s>> \in Seq({s})
  OBVIOUS
<1>2. IsList(<<s>>)
  BY <1>1, AnyList
<1> QED
  BY <1>2 DEF QuietList

LEMMA QuietNone == QuietList(<< >>)
<1>1. << >> \in Seq({})
  OBVIOUS
<1>2. IsList(<< >>)
  BY <1>1, AnyList
<1> QED
  BY <1>2 DEF QuietList

LEMMA QuietJoined ==
  ASSUME NEW a, NEW b, QuietList(a), QuietList(b)
  PROVE  QuietList(a \o b)
<1>1. IsList(a) /\ IsList(b)
  BY DEF QuietList
<1>2. PICK c : c = a \o b
  OBVIOUS
<1>3. IsList(c)
  BY <1>1, <1>2, JoinedList
<1>4. ASSUME NEW k \in DOMAIN c
      PROVE  (\E j \in DOMAIN a : c[k] = a[j]) \/ (\E j \in DOMAIN b : c[k] = b[j])
  BY <1>1, <1>2, JoinedIndex
<1> QED
  BY <1>2, <1>3, <1>4 DEF QuietList

LEMMA StatusQuiet ==
  ASSUME NEW v, NEW e \in Edits, NEW op, op.kind \in StatusKinds \union {"route"},
         NEW todo \in Plans(e, v, op)
  PROVE  QuietList(todo)
<1>1. ASSUME NEW id \in {Trip, Itin}, NEW status
      PROVE  QuietList(<<SetStatus(id, status)>>)
  <2>1. PICK one : one = SetStatus(id, status)
    OBVIOUS
  <2>2. one.do = "setStatus" /\ one.id = id
    BY <2>1 DEF SetStatus
  <2>3. QuietList(<<one>>)
    BY <2>2, QuietOne
  <2> QED
    BY <2>1, <2>3
<1>2. PICK five : five = SetRoute({op.id}, op.slot)
  OBVIOUS
<1>3. five.do = "setRoute"
  BY <1>2 DEF SetRoute
<1>4. QuietList(<<five>>)
  BY <1>3, QuietOne
<1>5. QuietList(todo)
  <2>1. CASE op.kind = "approve"
    <3>1. todo = ApprovePlan(v, op.slot)
      BY <2>1 DEF Plans, AddKinds
    <3>2. PICK a : a = <<SetStatus(Trip, Approved)>>
      OBVIOUS
    <3>3. PICK b : b = IF v[Itin].status = Approved THEN << >> ELSE <<SetStatus(Itin, Approved)>>
      OBVIOUS
    <3>4. QuietList(a) /\ QuietList(b)
      BY <1>1, <3>2, <3>3, QuietNone
    <3>5. QuietList(a \o b)
      BY <3>4, QuietJoined
    <3>6. todo = << >> \/ todo = a \o b
      BY <3>1, <3>2, <3>3, Zenon DEF ApprovePlan
    <3> QED
      BY <3>5, <3>6, QuietNone
  <2>2. CASE op.kind = "reopen"
    <3>1. todo = ReopenPlan(v, op.slot)
      BY <2>2 DEF Plans, AddKinds
    <3>2. PICK a : a = IF op.slot = Approved THEN <<SetStatus(Trip, "IN_REVIEW")>> ELSE << >>
      OBVIOUS
    <3>3. PICK b : b = IF v[Itin].status = Approved THEN <<SetStatus(Itin, "IN_REVIEW")>> ELSE << >>
      OBVIOUS
    <3>4. QuietList(a) /\ QuietList(b)
      BY <1>1, <3>2, <3>3, QuietNone
    <3>5. QuietList(a \o b)
      BY <3>4, QuietJoined
    <3>6. todo = a \o b
      BY <3>1, <3>2, <3>3, Zenon DEF ReopenPlan
    <3> QED
      BY <3>5, <3>6
  <2>3. CASE op.kind = "route"
    <3>1. todo = <<five>>
      BY <1>2, <2>3 DEF Plans, AddKinds
    <3> QED
      BY <1>4, <3>1
  <2> QED
    BY <2>1, <2>2, <2>3 DEF StatusKinds
<1> QED
  BY <1>5

LEMMA StatusFlow ==
  ASSUME NEW v, NEW e \in Edits, NEW op, op.kind \in StatusKinds \union {"route"},
         NEW todo \in Plans(e, v, op)
  PROVE  Flow(v, todo, {})
<1>1. QuietList(todo)
  BY StatusQuiet
<1> QED
  BY <1>1, QuietFlow

LEMMA PlansSmooth ==
  ASSUME NEW v, WellFormed(v), NEW e \in Edits, NEW op, RequestOk(op), op.kind # "reuseItem",
         Subjects(op) \subseteq DOMAIN v, op.kind # "route" => Unknown(v, NewDay(e)),
         NEW todo \in Plans(e, v, op)
  PROVE  Smooth(e, v, todo, {})
<1>1. NoneParked(v, {})
  BY DEF NoneParked, WellFormed
<1>2. CASE op.kind = "addDay"
  <2>1. todo = AddDayPlan(e, v, op.slot) /\ op.slot \in Slots
    BY <1>2 DEF Plans, RequestOk, AddKinds
  <2>2. PICK slot \in Slots : slot = op.slot
    BY <2>1
  <2>3. Flow(v, AddDayPlan(e, v, slot), {})
    BY AddDayFlow
  <2> QED
    BY <2>1, <2>2, <2>3 DEF Smooth
<1>3. CASE op.kind \in AddKinds
  <2>1. PICK day \in DOMAIN v, slot \in Slots : day = op.day /\ slot = op.slot
    BY <1>3 DEF RequestOk, Subjects, AddKinds
  <2>2. PICK at \in InsertionPoints(v, day, slot) : todo = AddItemPlan(e, v, day, at)
    BY <1>3, <2>1 DEF Plans, AddKinds
  <2>3. Flow(v, AddItemPlan(e, v, day, at), {})
    BY AddItemFlow
  <2> QED
    BY <2>2, <2>3 DEF Smooth
<1>4. CASE op.kind = "reuseDay"
  <2>1. todo = ReuseDayPlan(e, v, op.slot) /\ op.slot \in Nat
    BY <1>4 DEF Plans, RequestOk, AddKinds, ReuseKinds
  <2>2. PICK index \in Nat : index = op.slot
    BY <2>1
  <2>3. Unknown(v, NewDay(e))
    BY <1>4
  <2>4. Flow(v, ReuseDayPlan(e, v, index), {})
    BY <2>3, ReuseDayFlow
  <2> QED
    BY <2>1, <2>2, <2>4 DEF Smooth
<1>5. CASE op.kind = "removeDay"
  <2>0. op.id \in PlacesOf(v)
    <3>1. Subjects(op) = {op.id}
      BY <1>5 DEF Subjects, AddKinds
    <3>2. op.id \notin {Trip, Itin}
      BY <1>5 DEF RequestOk
    <3> QED
      BY <3>1, <3>2 DEF PlacesOf
  <2>1. PICK id \in PlacesOf(v) : id = op.id
    BY <2>0
  <2>2. todo = <<Delete(id), RenumberDays, BumpVersion>>
    BY <1>5, <2>1 DEF Plans, AddKinds
  <2> QED
    BY <1>1, <2>2 DEF Smooth, Removing
<1>6. CASE op.kind = "removeItem"
  <2>0. op.id \in PlacesOf(v)
    <3>1. Subjects(op) = {op.id}
      BY <1>6 DEF Subjects, AddKinds
    <3>2. op.id \notin {Trip, Itin}
      BY <1>6 DEF RequestOk
    <3> QED
      BY <3>1, <3>2 DEF PlacesOf
  <2>1. PICK id \in PlacesOf(v) : id = op.id
    BY <2>0
  <2>2. PICK day : day = v[op.id].in
    OBVIOUS
  <2>3. todo = <<Delete(id), Resequence(day), ClearRoutes({day})>>
    BY <1>6, <2>1, <2>2 DEF Plans, AddKinds
  <2> QED
    BY <1>1, <2>3 DEF Smooth, Removing
<1>7. CASE op.kind = "moveItem"
  <2>1. PICK id \in PlacesOf(v), day \in DOMAIN v, slot \in Slots :
          id = op.id /\ day = op.day /\ slot = op.slot
    BY <1>7 DEF RequestOk, Subjects, PlacesOf, AddKinds
  <2>2. todo = MoveItemPlan(v, id, day, slot)
    BY <1>7, <2>1 DEF Plans, AddKinds
  <2> QED
    BY <1>1, <2>2 DEF Smooth, Moving
<1>8. CASE op.kind = "replace"
  <2>1. todo = ReplacePlan(e, op.slot)
    BY <1>8 DEF Plans, AddKinds
  <2>2. NewDay(e) \notin DOMAIN v
    BY <1>8 DEF Unknown
  <2> QED
    BY <2>1, <2>2 DEF Smooth, Replacing
<1>9. CASE op.kind \in StatusKinds \union {"route"}
  <2>1. Flow(v, todo, {})
    BY <1>9, StatusFlow
  <2> QED
    BY <2>1 DEF Smooth
<1> QED
  BY <1>2, <1>3, <1>4, <1>5, <1>6, <1>7, <1>8, <1>9
     DEF RequestOk, HandKinds, AddKinds, ReuseKinds

\* The rows a transaction sees before it has written anything.
SameRows(v, w) == DOMAIN v = DOMAIN w /\ \A id \in DOMAIN v : w[id] = v[id]

LEMMA SameScope ==
  ASSUME NEW v, NEW w, SameRows(v, w), NEW s, s.do \in Numbering
  PROVE  Scope(w, s) = Scope(v, s) /\ Scope(v, s) \subseteq DOMAIN v
<1>1. \A parent : Children(w, parent) = Children(v, parent) /\ Children(v, parent) \subseteq DOMAIN v
  BY DEF Children, SameRows
<1>2. CASE s.do = "resequence"
  BY <1>1, <1>2 DEF Scope
<1>3. CASE s.do = "renumber"
  BY <1>1, <1>3 DEF Scope
<1>4. CASE s.do = "place"
  BY <1>1, <1>4 DEF Scope
<1> QED
  BY <1>2, <1>3, <1>4 DEF Numbering

LEMMA SameFlow ==
  ASSUME NEW v, NEW w, SameRows(v, w), NEW t, NEW gone, Flow(v, t, gone)
  PROVE  Flow(w, t, gone)
<1>1. PlacesOf(w) = PlacesOf(v) /\ DOMAIN w = DOMAIN v /\ \A x \in PlacesOf(v) : w[x] = v[x]
  BY DEF SameRows, PlacesOf
<1>2. ASSUME NEW k \in DOMAIN t, Keyed(t[k])
      PROVE  Claim(w, t[k]) = Claim(v, t[k])
  <2>1. CASE t[k].do = "insert"
    BY <2>1 DEF Claim
  <2>2. CASE t[k].do = "setAt"
    <3>1. t[k].id \in PlacesOf(v)
      BY <2>2 DEF Flow
    <3> QED
      BY <1>1, <2>2, <3>1 DEF Claim
  <2> QED
    BY <1>2, <2>1, <2>2 DEF Keyed
<1>3. NoClash(w, t)
  <2>1. ASSUME NEW k \in DOMAIN t, NEW x \in PlacesOf(w), Keyed(t[k]), x # t[k].id,
               Key(w[x]) = Claim(w, t[k])
        PROVE  \E j \in DOMAIN t : j < k /\ Keyed(t[j]) /\ t[j].id = x
    <3>1. x \in PlacesOf(v) /\ Key(v[x]) = Claim(v, t[k])
      BY <1>1, <1>2, <2>1
    <3> QED
      BY <2>1, <3>1 DEF Flow, NoClash
  <2>2. ASSUME NEW k \in DOMAIN t, NEW j \in DOMAIN t, Keyed(t[k]), Keyed(t[j]), j # k
        PROVE  Claim(w, t[k]) # Claim(w, t[j])
    <3>1. Claim(v, t[k]) # Claim(v, t[j])
      BY <2>2 DEF Flow, NoClash
    <3> QED
      BY <1>2, <2>2, <3>1
  <2> QED
    BY <2>1, <2>2 DEF NoClash
<1>4. ASSUME NEW k \in DOMAIN t, t[k].do \in Numbering
      PROVE  ScopeIsDry(w, t, k)
  <2>1. ScopeIsDry(v, t, k)
    BY <1>4 DEF Flow
  <2>2. PICK scope : scope = Scope(v, t[k])
    OBVIOUS
  <2>3. Scope(w, t[k]) = scope /\ scope \subseteq DOMAIN v
    BY <1>4, <2>2, SameScope
  <2>4. \A x \in scope : w[x].at = v[x].at
    BY <2>3 DEF SameRows
  <2> QED
    BY <2>1, <2>2, <2>3, <2>4 DEF ScopeIsDry
<1>5. ASSUME NEW k \in DOMAIN t, t[k].do = "place"
      PROVE  ItemIsParked(w, t, k)
  <2>1. ItemIsParked(v, t, k)
    BY <1>5 DEF Flow
  <2> QED
    BY <1>1, <2>1 DEF ItemIsParked
<1>6. ASSUME NEW k \in DOMAIN t, t[k].do = "insert"
      PROVE  InsertsUnder(w, t, gone, k)
  <2>1. InsertsUnder(v, t, gone, k)
    BY <1>6 DEF Flow
  <2> QED
    BY <1>1, <2>1 DEF InsertsUnder
<1>7. ASSUME NEW k \in DOMAIN t
      PROVE  /\ t[k].do \in FlowKinds
             /\ t[k].do = "setAt" => t[k].id \in PlacesOf(w)
             /\ t[k].do = "setStatus" => t[k].id \in {Trip, Itin}
  BY <1>1 DEF Flow
<1>8. \A j, k \in DOMAIN t : j < k =>
        /\ t[j].do = "insert" => t[k].do \notin {"setAt"} \union Numbering
        /\ t[j].do \in Reads => ~ Keyed(t[k])
  BY DEF Flow
<1> QED
  BY <1>3, <1>4, <1>5, <1>6, <1>7, <1>8 DEF Flow

LEMMA SameSmooth ==
  ASSUME NEW v, NEW w, SameRows(v, w), NEW e, NEW t, NEW gone,
         Smooth(e, v, t, gone)
  PROVE  Smooth(e, w, t, gone)
<1>1. PlacesOf(w) = PlacesOf(v) /\ DOMAIN w = DOMAIN v /\ \A x \in PlacesOf(v) : w[x] = v[x]
  BY DEF SameRows, PlacesOf
<1>2. NoneParked(v, {}) => NoneParked(w, {})
  BY <1>1 DEF NoneParked
<1>3. CASE Flow(v, t, gone)
  <2>1. Flow(w, t, gone)
    BY <1>3, SameFlow
  <2> QED
    BY <2>1 DEF Smooth
<1>4. CASE Removing(v, t)
  <2>1. Removing(w, t)
    BY <1>1, <1>2, <1>4 DEF Removing
  <2> QED
    BY <2>1 DEF Smooth
<1>5. CASE Replacing(e, v, t, gone)
  <2>1. Replacing(e, w, t, gone)
    BY <1>1, <1>5 DEF Replacing
  <2> QED
    BY <2>1 DEF Smooth
<1>6. CASE Moving(v, t)
  <2>1. PICK id \in PlacesOf(v), day \in DOMAIN v, slot \in Slots : t = MoveItemPlan(v, id, day, slot)
    BY <1>6 DEF Moving
  <2>2. MoveItemPlan(w, id, day, slot) = MoveItemPlan(v, id, day, slot)
    <3>1. w[id].in = v[id].in
      BY <1>1
    <3> QED
      BY <3>1 DEF MoveItemPlan
  <2>3. Moving(w, t)
    BY <1>1, <1>2, <1>6, <2>1, <2>2 DEF Moving
  <2> QED
    BY <2>3 DEF Smooth
<1>7. CASE Crossing(v, t)
  <2>1. PICK id \in PlacesOf(v), day \in DOMAIN v, slot \in Slots : \E from :
          /\ from # day /\ v[id].at = -1 /\ v[id].in = from
          /\ NoneParked(v, {id})
          /\ t = <<SetDay(id, day), Resequence(from), PlaceItem(id, day, slot), ClearRoutes({from, day})>>
    BY <1>7 DEF Crossing
  <2>2. PICK from :
          /\ from # day /\ v[id].at = -1 /\ v[id].in = from
          /\ NoneParked(v, {id})
          /\ t = <<SetDay(id, day), Resequence(from), PlaceItem(id, day, slot), ClearRoutes({from, day})>>
    BY <2>1
  <2>3. w[id] = v[id] /\ NoneParked(w, {id}) /\ id \in PlacesOf(w) /\ day \in DOMAIN w
    BY <1>1, <2>2 DEF NoneParked
  <2>4. Crossing(w, t)
    BY <2>2, <2>3 DEF Crossing
  <2> QED
    BY <2>4 DEF Smooth
<1> QED
  BY <1>3, <1>4, <1>5, <1>6, <1>7 DEF Smooth

(***************************************************************************)
(* The edits that delete or move something first.                          *)
(***************************************************************************)
\* One element more.
LEMMA OneMore ==
  ASSUME NEW S, NEW t \in Seq(S), NEW b \in S, NEW c \in Seq(S), Len(c) = Len(t) + 1,
         \A k \in 1..Len(t) : c[k] = t[k], c[Len(c)] = b
  PROVE  t \o <<b>> = c
<1>1. <<b>> \in Seq(S) /\ Len(<<b>>) = 1 /\ <<b>>[1] = b
  OBVIOUS
<1>2. PICK d : d = t \o <<b>>
  OBVIOUS
<1>3. PICK n \in Nat : n = Len(t)
  BY LenProperties
<1>4. /\ d \in Seq(S) /\ Len(d) = n + 1
      /\ \A i \in 1..(n + 1) : d[i] = IF i <= n THEN t[i] ELSE <<b>>[i - n]
  BY <1>1, <1>2, <1>3, ConcatProperties
<1>5. \A i \in 1..(n + 1) : d[i] = c[i]
  BY <1>1, <1>3, <1>4
<1> QED
  BY <1>2, <1>3, <1>4, <1>5, SeqEqual

LEMMA TwoJoined ==
  ASSUME NEW a, NEW b
  PROVE  <<a>> \o <<b>> = <<a, b>>
<1>1. PICK S : S = {a, b}
  OBVIOUS
<1>2. PICK t, u : t = <<a>> /\ u = <<a, b>>
  OBVIOUS
<1>3. t \in Seq(S) /\ u \in Seq(S) /\ Len(t) = 1 /\ Len(u) = 2 /\ b \in S
  BY <1>1, <1>2
<1>4. u[1] = t[1] /\ u[2] = b
  BY <1>2
<1>5. \A k \in 1..Len(t) : u[k] = t[k]
  BY <1>3, <1>4
<1>6. u[Len(u)] = b /\ Len(u) = Len(t) + 1
  BY <1>3, <1>4
<1>7. t \o <<b>> = u
  BY <1>3, <1>5, <1>6, OneMore
<1> QED
  BY <1>2, <1>7

LEMMA ThreeJoined ==
  ASSUME NEW a, NEW b, NEW c
  PROVE  <<a, b>> \o <<c>> = <<a, b, c>>
<1>1. PICK S : S = {a, b, c}
  OBVIOUS
<1>2. PICK t, u : t = <<a, b>> /\ u = <<a, b, c>>
  OBVIOUS
<1>3. t \in Seq(S) /\ u \in Seq(S) /\ Len(t) = 2 /\ Len(u) = 3 /\ c \in S
  BY <1>1, <1>2
<1>4. u[1] = t[1] /\ u[2] = t[2] /\ u[3] = c
  BY <1>2
<1>5. \A k \in 1..Len(t) : u[k] = t[k]
  BY <1>3, <1>4
<1>6. u[Len(u)] = c /\ Len(u) = Len(t) + 1
  BY <1>3, <1>4
<1>7. t \o <<c>> = u
  BY <1>3, <1>5, <1>6, OneMore
<1> QED
  BY <1>2, <1>7

LEMMA FourJoined ==
  ASSUME NEW a, NEW b, NEW c, NEW d
  PROVE  <<a, b, c>> \o <<d>> = <<a, b, c, d>>
<1>1. PICK S : S = {a, b, c, d}
  OBVIOUS
<1>2. PICK t, u : t = <<a, b, c>> /\ u = <<a, b, c, d>>
  OBVIOUS
<1>3. t \in Seq(S) /\ u \in Seq(S) /\ Len(t) = 3 /\ Len(u) = 4 /\ d \in S
  BY <1>1, <1>2
<1>4. u[1] = t[1] /\ u[2] = t[2] /\ u[3] = t[3] /\ u[4] = d
  BY <1>2
<1>5. \A k \in 1..Len(t) : u[k] = t[k]
  BY <1>3, <1>4
<1>6. u[Len(u)] = d /\ Len(u) = Len(t) + 1
  BY <1>3, <1>4
<1>7. t \o <<d>> = u
  BY <1>3, <1>5, <1>6, OneMore
<1> QED
  BY <1>2, <1>7

LEMMA FiveJoined ==
  ASSUME NEW a, NEW b, NEW c, NEW d, NEW f
  PROVE  <<a, b, c, d>> \o <<f>> = <<a, b, c, d, f>>
<1>1. PICK S : S = {a, b, c, d, f}
  OBVIOUS
<1>2. PICK t, u : t = <<a, b, c, d>> /\ u = <<a, b, c, d, f>>
  OBVIOUS
<1>3. t \in Seq(S) /\ u \in Seq(S) /\ Len(t) = 4 /\ Len(u) = 5 /\ f \in S
  BY <1>1, <1>2
<1>4. u[1] = t[1] /\ u[2] = t[2] /\ u[3] = t[3] /\ u[4] = t[4] /\ u[5] = f
  BY <1>2
<1>5. \A k \in 1..Len(t) : u[k] = t[k]
  BY <1>3, <1>4
<1>6. u[Len(u)] = f /\ Len(u) = Len(t) + 1
  BY <1>3, <1>4
<1>7. t \o <<f>> = u
  BY <1>3, <1>5, <1>6, OneMore
<1> QED
  BY <1>2, <1>7

LEMMA OneAndTwoJoined ==
  ASSUME NEW a, NEW b, NEW c
  PROVE  <<a>> \o <<b, c>> = <<a, b, c>>
<1>0. PICK S : S = {a,b,c}
  OBVIOUS
<1>1. <<a>> \in Seq(S) /\ <<b>> \in Seq(S) /\ <<c>> \in Seq(S)
  BY <1>0
<1>2. <<a>> \o (<<b>> \o <<c>>) = (<<a>> \o <<b>>) \o <<c>>
  BY <1>1, ConcatAssociative
<1>3. <<b>> \o <<c>> = <<b, c>> /\ <<a>> \o <<b>> = <<a, b>> /\ <<a, b>> \o <<c>> = <<a, b, c>>
  BY TwoJoined, ThreeJoined
<1> QED
  BY <1>2, <1>3, Zenon

\* A move, written out.
MoveWithin(id, day, slot) ==
  <<SetAt(id, -1), PlaceItem(id, day, slot), Resequence(day), ClearRoutes({day, day})>>
MoveAcross(id, from, day, slot) ==
  <<SetAt(id, -1), SetDay(id, day), Resequence(from), PlaceItem(id, day, slot), ClearRoutes({from, day})>>

LEMMA MoveWritten ==
  ASSUME NEW v, NEW id, NEW day, NEW slot, NEW from, from = v[id].in
  PROVE  MoveItemPlan(v, id, day, slot) =
           IF from = day THEN MoveWithin(id, day, slot) ELSE MoveAcross(id, from, day, slot)
<1>1. PICK a : a = SetAt(id, -1)
  OBVIOUS
<1>2. PICK b, c : b = SetDay(id, day) /\ c = Resequence(from)
  OBVIOUS
<1>3. PICK d, f, g : d = PlaceItem(id, day, slot) /\ f = Resequence(day) /\ g = ClearRoutes({from, day})
  OBVIOUS
<1>4. CASE from = day
  <2>1. MoveItemPlan(v, id, day, slot) = (((<<a>> \o << >>) \o <<d>>) \o <<f>>) \o <<g>>
    BY <1>1, <1>3, <1>4, Zenon DEF MoveItemPlan
  <2>2. <<a>> \o << >> = <<a>>
    OBVIOUS
  <2>3. <<a>> \o <<d>> = <<a, d>> /\ <<a, d>> \o <<f>> = <<a, d, f>>
        /\ <<a, d, f>> \o <<g>> = <<a, d, f, g>>
    BY TwoJoined, ThreeJoined, FourJoined
  <2>4. MoveItemPlan(v, id, day, slot) = <<a, d, f, g>>
    BY <2>1, <2>2, <2>3, Zenon
  <2>5. <<a, d, f, g>> = MoveWithin(id, day, slot)
    BY <1>1, <1>3, <1>4, Zenon DEF MoveWithin
  <2> QED
    BY <1>4, <2>4, <2>5
<1>5. CASE from # day
  <2>1. MoveItemPlan(v, id, day, slot) = (((<<a>> \o <<b, c>>) \o <<d>>) \o << >>) \o <<g>>
    BY <1>1, <1>2, <1>3, <1>5, Zenon DEF MoveItemPlan
  <2>2. <<a, b, c, d>> \o << >> = <<a, b, c, d>>
    OBVIOUS
  <2>3. <<a>> \o <<b, c>> = <<a, b, c>> /\ <<a, b, c>> \o <<d>> = <<a, b, c, d>>
        /\ <<a, b, c, d>> \o <<g>> = <<a, b, c, d, g>>
    BY OneAndTwoJoined, FourJoined, FiveJoined
  <2>4. MoveItemPlan(v, id, day, slot) = <<a, b, c, d, g>>
    BY <2>1, <2>2, <2>3, Zenon
  <2>5. <<a, b, c, d, g>> = MoveAcross(id, from, day, slot)
    BY <1>1, <1>2, <1>3, Zenon DEF MoveAcross
  <2> QED
    BY <1>5, <2>4, <2>5
<1> QED
  BY <1>4, <1>5

\* The next statement can be executed: what it needs is there, and no row has its key.
Goes(v, s) ==
  /\ s.do \notin Reads \union {"shift"}
  /\ Needed(s) \subseteq DOMAIN v
  /\ \A i \in PlacesOf(Written(v, s)), j \in PlacesOf(v) \ DOMAIN Written(v, s) :
       Key(Written(v, s)[i]) # Key(v[j])

\* Statements that only number, count and clear.
LEMMA UnkeyedFlow ==
  ASSUME NEW v, NEW t, NEW gone,
         \A k \in DOMAIN t : t[k].do \in {"bump", "clear"} \union Numbering,
         \A k \in DOMAIN t : t[k].do \in Numbering => ScopeIsDry(v, t, k),
         \A k \in DOMAIN t : t[k].do = "place" => ItemIsParked(v, t, k)
  PROVE  Flow(v, t, gone)
<1>1. ASSUME NEW k \in DOMAIN t
      PROVE  /\ ~ Keyed(t[k]) /\ t[k].do \in FlowKinds
             /\ t[k].do \notin {"setAt", "insert", "setStatus"}
  <2>1. PICK w : w = t[k].do
    OBVIOUS
  <2>2. w \in {"bump", "clear"} \union Numbering
    BY <2>1
  <2> QED
    BY <2>1, <2>2 DEF Keyed, FlowKinds, Numbering
<1>2. NoClash(v, t)
  BY <1>1 DEF NoClash
<1> QED
  BY <1>1, <1>2 DEF Flow

LEMMA DryScope ==
  ASSUME NEW v, Typed(v), NEW but, NoneParked(v, but), NEW t, \A j \in DOMAIN t : ~ Sinks(t[j]),
         NEW k \in DOMAIN t, t[k].do \in Numbering,
         \A x \in but : x \in Scope(v, t[k]) => \E j \in DOMAIN t : j < k /\ Settles(t[j], x)
  PROVE  ScopeIsDry(v, t, k)
<1>1. Scope(v, t[k]) \subseteq PlacesOf(v)
  <2>1. PICK s : s = t[k]
    OBVIOUS
  <2>2. \A parent : Children(v, parent) \subseteq PlacesOf(v)
    BY DEF Children, PlacesOf
  <2>3. CASE s.do = "resequence"
    BY <2>1, <2>2, <2>3 DEF Scope
  <2>4. CASE s.do = "renumber"
    BY <2>1, <2>2, <2>4 DEF Scope
  <2>5. CASE s.do = "place"
    BY <2>1, <2>2, <2>5 DEF Scope
  <2> QED
    BY <2>1, <2>3, <2>4, <2>5 DEF Numbering
<1>2. ASSUME NEW x \in Scope(v, t[k]), v[x].at < 0
      PROVE  x \in but
  BY <1>1, <1>2 DEF NoneParked, Typed, IsRow
<1> QED
  BY <1>2 DEF ScopeIsDry

LEMMA TwoDry ==
  ASSUME NEW v, Typed(v), NoneParked(v, {}), NEW b, b.do \in {"renumber", "resequence"},
         NEW c, c.do \in {"bump", "clear"}, NEW gone
  PROVE  Flow(v, <<b, c>>, gone)
<1>1. PICK t : t = <<b, c>>
  OBVIOUS
<1>2. DOMAIN t = {1, 2} /\ t[1] = b /\ t[2] = c
  BY <1>1
<1>3. \A j \in DOMAIN t : ~ Sinks(t[j]) /\ t[j].do # "place"
  BY <1>2 DEF Sinks
<1>4. ASSUME NEW k \in DOMAIN t, t[k].do \in Numbering
      PROVE  ScopeIsDry(v, t, k)
  BY <1>3, <1>4, DryScope
<1>5. \A k \in DOMAIN t : t[k].do \in {"bump", "clear"} \union Numbering
  BY <1>2 DEF Numbering
<1>6. Flow(v, t, gone)
  BY <1>3, <1>4, <1>5, UnkeyedFlow
<1> QED
  BY <1>1, <1>6

LEMMA RemovingHead ==
  ASSUME NEW v, NEW t, Removing(v, t), NEW s, s = Head(t)
  PROVE  /\ s.do = "delete" /\ s.id \in PlacesOf(v) /\ NoneParked(v, {})
         /\ \E b, c : /\ Tail(t) = <<b, c>>
                      /\ b.do \in {"renumber", "resequence"} /\ c.do \in {"bump", "clear"}
<1>1. NoneParked(v, {})
  BY DEF Removing
<1>2. PICK id \in PlacesOf(v) :
        \/ t = <<Delete(id), RenumberDays, BumpVersion>>
        \/ \E day : t = <<Delete(id), Resequence(day), ClearRoutes({day})>>
  BY DEF Removing
<1>3. PICK a : a = Delete(id)
  OBVIOUS
<1>4. a.do = "delete" /\ a.id = id
  BY <1>3 DEF Delete
<1>5. \E b, c : t = <<a, b, c>> /\ b.do \in {"renumber", "resequence"} /\ c.do \in {"bump", "clear"}
  <2>1. CASE t = <<Delete(id), RenumberDays, BumpVersion>>
    <3>1. PICK b, c : b = RenumberDays /\ c = BumpVersion
      OBVIOUS
    <3>2. b.do = "renumber" /\ c.do = "bump"
      BY <3>1 DEF RenumberDays, BumpVersion
    <3>3. t = <<a, b, c>>
      BY <1>3, <2>1, <3>1
    <3> QED
      BY <3>2, <3>3
  <2>2. CASE \E day : t = <<Delete(id), Resequence(day), ClearRoutes({day})>>
    <3>1. PICK day : t = <<Delete(id), Resequence(day), ClearRoutes({day})>>
      BY <2>2
    <3>2. PICK b, c : b = Resequence(day) /\ c = ClearRoutes({day})
      OBVIOUS
    <3>3. b.do = "resequence" /\ c.do = "clear"
      BY <3>2 DEF Resequence, ClearRoutes
    <3>4. t = <<a, b, c>>
      BY <1>3, <3>1, <3>2
    <3> QED
      BY <3>3, <3>4
  <2> QED
    BY <1>2, <2>1, <2>2
<1>6. PICK b, c : t = <<a, b, c>> /\ b.do \in {"renumber", "resequence"} /\ c.do \in {"bump", "clear"}
  BY <1>5
<1>7. Head(t) = a /\ Tail(t) = <<b, c>>
  BY <1>6
<1> QED
  BY <1>1, <1>4, <1>6, <1>7

LEMMA NothingWritten ==
  ASSUME NEW v, NEW s, s.do \in {"delete", "deleteDays"}
  PROVE  Written(v, s) = << >> /\ DOMAIN Written(v, s) = {}
<1>1. Change(v, s) = << >>
  BY DEF Change
<1>2. Written(v, s) = << >>
  BY <1>1 DEF Written
<1> QED
  BY <1>2

LEMMA RemovingGoes ==
  ASSUME NEW v, NEW t, Removing(v, t), NEW s, s = Head(t)
  PROVE  Goes(v, s)
<1>1. s.do = "delete" /\ s.id \in PlacesOf(v)
  BY RemovingHead
<1>2. Needed(s) \subseteq DOMAIN v
  BY <1>1 DEF Needed, PlacesOf
<1>3. PlacesOf(Written(v, s)) = {}
  BY <1>1, NothingWritten DEF PlacesOf
<1> QED
  BY <1>1, <1>2, <1>3 DEF Goes, Reads

LEMMA RemovingMoves ==
  ASSUME NEW v, NEW t, Removing(v, t), NEW s, s = Head(t), NEW gone, NEW v2, Typed(v2),
         Moved(v, v2, s, gone)
  PROVE  Flow(v2, Tail(t), gone \union Deleted(v, s))
<1>1. s.do = "delete" /\ NoneParked(v, {})
  BY RemovingHead
<1>2. PICK b, c : /\ Tail(t) = <<b, c>>
                  /\ b.do \in {"renumber", "resequence"} /\ c.do \in {"bump", "clear"}
  BY RemovingHead
<1>3. PICK w : w = Written(v, s)
  OBVIOUS
<1>4. DOMAIN w = {}
  BY <1>1, <1>3, NothingWritten
<1>5. DOMAIN v2 \subseteq DOMAIN v /\ \A x \in DOMAIN v2 : v2[x] = v[x]
  BY <1>3, <1>4 DEF Moved
<1>6. NoneParked(v2, {})
  BY <1>1, <1>5 DEF NoneParked, PlacesOf
<1>7. PICK g : g = gone \union Deleted(v, s)
  OBVIOUS
<1>8. Flow(v2, <<b, c>>, g)
  BY <1>2, <1>6, TwoDry
<1> QED
  BY <1>2, <1>7, <1>8

LEMMA ReplacingHead ==
  ASSUME NEW e, NEW v, NEW t, NEW gone, Replacing(e, v, t, gone), NEW s, s = Head(t)
  PROVE  /\ s.do = "deleteDays" /\ gone = {} /\ NewDay(e) \notin DOMAIN v
         /\ \E number : Tail(t) = <<BumpVersion, Insert(NewDay(e), Itin, number), Insert(NewItem(e, 1), NewDay(e), 1)>>
<1>1. PICK number : t = ReplacePlan(e, number)
  BY DEF Replacing
<1>2. PICK a : a = DeleteDays
  OBVIOUS
<1>3. PICK b, c, d : b = BumpVersion /\ c = Insert(NewDay(e), Itin, number) /\ d = Insert(NewItem(e, 1), NewDay(e), 1)
  OBVIOUS
<1>4. t = <<a, b, c, d>>
  BY <1>1, <1>2, <1>3 DEF ReplacePlan
<1>5. Head(t) = a /\ Tail(t) = <<b, c, d>>
  BY <1>4
<1>6. a.do = "deleteDays"
  BY <1>2 DEF DeleteDays
<1> QED
  BY <1>3, <1>5, <1>6 DEF Replacing

LEMMA ReplacingGoes ==
  ASSUME NEW e, NEW v, NEW t, NEW gone, Replacing(e, v, t, gone), NEW s, s = Head(t)
  PROVE  Goes(v, s)
<1>1. s.do = "deleteDays"
  BY ReplacingHead
<1>2. Needed(s) \subseteq DOMAIN v
  BY <1>1 DEF Needed
<1>3. PlacesOf(Written(v, s)) = {}
  BY <1>1, NothingWritten DEF PlacesOf
<1> QED
  BY <1>1, <1>2, <1>3 DEF Goes, Reads

LEMMA ReplacingMoves ==
  ASSUME NEW e \in Edits, NEW v, Itin \in DOMAIN v, NEW t, NEW gone, Replacing(e, v, t, gone),
         NEW s, s = Head(t), NEW v2, Moved(v, v2, s, gone)
  PROVE  Flow(v2, Tail(t), gone \union Deleted(v, s))
<1>1. s.do = "deleteDays" /\ gone = {} /\ NewDay(e) \notin DOMAIN v
  BY ReplacingHead
<1>2. PICK number : Tail(t) = <<BumpVersion, Insert(NewDay(e), Itin, number), Insert(NewItem(e, 1), NewDay(e), 1)>>
  BY ReplacingHead
<1>3. PICK b, c, d : b = BumpVersion /\ c = Insert(NewDay(e), Itin, number) /\ d = Insert(NewItem(e, 1), NewDay(e), 1)
  OBVIOUS
<1>4. PICK r : r = <<b, c, d>>
  OBVIOUS
<1>5. DOMAIN r = {1, 2, 3} /\ r[1] = b /\ r[2] = c /\ r[3] = d
  BY <1>4
<1>6. PICK day : day = NewDay(e) /\ day # Itin
  BY IdAssumption
<1>7. /\ b.do = "bump" /\ c.do = "insert" /\ c.id = day /\ c.row.in = Itin
      /\ d.do = "insert" /\ d.row.in = day
  BY <1>3, <1>6 DEF BumpVersion, Insert, Place
<1>8. PICK w : w = Written(v, s)
  OBVIOUS
<1>9. PICK g : g = gone \union Deleted(v, s)
  OBVIOUS
<1>10. Deleted(v, s) = DOMAIN v \ {Trip, Itin}
  BY <1>1 DEF Deleted
<1>11. DOMAIN w = {}
  BY <1>1, <1>8, NothingWritten
<1>12. DOMAIN v2 = DOMAIN v \ (DOMAIN v \ {Trip, Itin})
  BY <1>8, <1>10, <1>11 DEF Moved
<1>13. PlacesOf(v2) = {} /\ Itin \in DOMAIN v2 /\ day \notin g
  BY <1>1, <1>6, <1>9, <1>10, <1>12 DEF PlacesOf
<1>14. Claim(v2, c) # Claim(v2, d)
  <2>1. Claim(v2, c) = Key(c.row) /\ Claim(v2, d) = Key(d.row)
    BY <1>7 DEF Claim
  <2> QED
    BY <1>6, <1>7, <2>1 DEF Key
<1>15. NoClash(v2, r)
  <2>1. \A k, j \in DOMAIN r : Keyed(r[k]) /\ Keyed(r[j]) /\ j # k => Claim(v2, r[k]) # Claim(v2, r[j])
    BY <1>5, <1>7, <1>14 DEF Keyed
  <2> QED
    BY <1>13, <2>1 DEF NoClash
<1>16. InsertsUnder(v2, r, g, 2)
  BY <1>5, <1>7, <1>13 DEF InsertsUnder
<1>17. InsertsUnder(v2, r, g, 3)
  BY <1>5, <1>7, <1>13 DEF InsertsUnder
<1>18. \A k \in DOMAIN r :
         /\ r[k].do \in {"bump", "insert"}
         /\ r[k].do = "insert" => InsertsUnder(v2, r, g, k)
  BY <1>5, <1>7, <1>16, <1>17
<1>19. \A k \in DOMAIN r :
         /\ r[k].do \in FlowKinds /\ r[k].do \notin {"setAt", "setStatus", "place"}
         /\ r[k].do \notin Numbering /\ r[k].do \notin Reads
  BY <1>18 DEF FlowKinds, Numbering, Reads
<1>20. Flow(v2, r, g)
  BY <1>15, <1>18, <1>19 DEF Flow
<1> QED
  BY <1>2, <1>3, <1>4, <1>9, <1>20, Zenon

\* A row that is parked while all others are where they were.
Parked(v, id, parent) ==
  id \in PlacesOf(v) /\ NoneParked(v, {id}) /\ v[id].in = parent /\ v[id].at = -1

LEMMA PlacingFlow ==
  ASSUME NEW v, Typed(v), NEW id, NEW day, Parked(v, id, day), NEW a, NEW b, NEW c, c.do = "clear",
         NEW slot, NEW place, place = PlaceItem(id, day, slot),
         \/ a = place /\ b = Resequence(day)
         \/ b = place /\ \E from : from # day /\ a = Resequence(from),
         NEW gone
  PROVE  Flow(v, <<a, b, c>>, gone)
<1>1. PICK t : t = <<a, b, c>>
  OBVIOUS
<1>2. DOMAIN t = {1, 2, 3} /\ t[1] = a /\ t[2] = b /\ t[3] = c
  BY <1>1
<1>3. place.do = "place" /\ place.id = id /\ place.day = day
  BY DEF PlaceItem
<1>4. id \in PlacesOf(v) /\ NoneParked(v, {id}) /\ v[id].in = day /\ v[id].at = -1
  BY DEF Parked
<1>5. CASE a = place /\ b = Resequence(day)
  <2>1. b.do = "resequence" /\ b.day = day
    BY <1>5 DEF Resequence
  <2>2. \A k \in DOMAIN t : t[k].do \in {"clear", "resequence", "place"}
    BY <1>2, <1>3, <1>5, <2>1
  <2>3. \A k \in DOMAIN t : ~ Sinks(t[k])
    BY <2>2 DEF Sinks
  <2>4. ScopeIsDry(v, t, 1)
    <3>1. id \notin Scope(v, t[1])
      BY <1>2, <1>3, <1>5 DEF Scope
    <3>2. 1 \in DOMAIN t /\ t[1].do \in Numbering
      BY <1>2, <1>3, <1>5 DEF Numbering
    <3> QED
      BY <1>4, <2>3, <3>1, <3>2, DryScope
  <2>5. ScopeIsDry(v, t, 2)
    <3>1. Settles(t[1], id) /\ 1 < 2
      BY <1>2, <1>3, <1>5 DEF Settles
    <3>2. 1 \in DOMAIN t /\ 2 \in DOMAIN t /\ t[2].do \in Numbering
      BY <1>2, <2>1 DEF Numbering
    <3>3. \A x \in {id} : x \in Scope(v, t[2]) => \E j \in DOMAIN t : j < 2 /\ Settles(t[j], x)
      BY <3>1, <3>2
    <3> QED
      BY <1>4, <2>3, <3>2, <3>3, DryScope
  <2>6. ItemIsParked(v, t, 1)
    <3>1. \A j \in DOMAIN t : ~ (j < 1)
      BY <1>2
    <3> QED
      BY <1>2, <1>3, <1>4, <1>5, <3>1 DEF ItemIsParked
  <2>7. \A k \in DOMAIN t : t[k].do \in {"bump", "clear"} \union Numbering
    BY <2>2 DEF Numbering
  <2>8. \A k \in DOMAIN t : t[k].do \in Numbering => ScopeIsDry(v, t, k)
    BY <1>2, <2>4, <2>5 DEF Numbering
  <2>9. \A k \in DOMAIN t : t[k].do = "place" => ItemIsParked(v, t, k)
    BY <1>2, <2>1, <2>6
  <2>10. Flow(v, t, gone)
    BY <2>7, <2>8, <2>9, UnkeyedFlow
  <2> QED
    BY <1>1, <2>10
<1>6. ASSUME b = place, NEW from, from # day, a = Resequence(from)
      PROVE  Flow(v, <<a, b, c>>, gone)
  <2>1. a.do = "resequence" /\ a.day = from
    BY <1>6 DEF Resequence
  <2>2. \A k \in DOMAIN t : t[k].do \in {"clear", "resequence", "place"}
    BY <1>2, <1>3, <1>6, <2>1
  <2>3. \A k \in DOMAIN t : ~ Sinks(t[k])
    BY <2>2 DEF Sinks
  <2>4. ScopeIsDry(v, t, 1)
    <3>1. id \notin Scope(v, t[1])
      BY <1>2, <1>4, <1>6, <2>1 DEF Scope, Children
    <3>2. 1 \in DOMAIN t /\ t[1].do \in Numbering
      BY <1>2, <2>1 DEF Numbering
    <3> QED
      BY <1>4, <2>3, <3>1, <3>2, DryScope
  <2>5. ScopeIsDry(v, t, 2)
    <3>1. id \notin Scope(v, t[2])
      BY <1>2, <1>3, <1>6 DEF Scope
    <3>2. 2 \in DOMAIN t /\ t[2].do \in Numbering
      BY <1>2, <1>3, <1>6 DEF Numbering
    <3> QED
      BY <1>4, <2>3, <3>1, <3>2, DryScope
  <2>6. ItemIsParked(v, t, 2)
    <3>1. \A j \in DOMAIN t : j < 2 => t[j] = a
      BY <1>2
    <3>2. ~ Keyed(a) /\ a.do \notin {"renumber", "place"} /\ a.day # day
      BY <1>6, <2>1 DEF Keyed
    <3> QED
      BY <1>2, <1>3, <1>4, <1>6, <3>1, <3>2 DEF ItemIsParked
  <2>7. \A k \in DOMAIN t : t[k].do \in {"bump", "clear"} \union Numbering
    BY <2>2 DEF Numbering
  <2>8. \A k \in DOMAIN t : t[k].do \in Numbering => ScopeIsDry(v, t, k)
    BY <1>2, <2>4, <2>5 DEF Numbering
  <2>9. \A k \in DOMAIN t : t[k].do = "place" => ItemIsParked(v, t, k)
    BY <1>2, <2>1, <2>6
  <2>10. Flow(v, t, gone)
    BY <2>7, <2>8, <2>9, UnkeyedFlow
  <2> QED
    BY <1>1, <2>10
<1> QED
  BY <1>5, <1>6

\* The row that is to be moved gets a scratch position, or its new parent with it.
ParksIn(v, w, id, parent) ==
  /\ id \in PlacesOf(v) /\ NoneParked(v, {id})
  /\ DOMAIN w = {id} /\ w[id].in = parent /\ w[id].at = -1

LEMMA ParkingGoes ==
  ASSUME NEW v, Typed(v), NEW w, NEW id, NEW parent, ParksIn(v, w, id, parent),
         NEW i \in PlacesOf(w), NEW j \in PlacesOf(v) \ DOMAIN w
  PROVE  Key(w[i]) # Key(v[j])
<1>1. i = id /\ j # id /\ w[i].at = -1 /\ v[j].at >= 0 /\ v[j].at \in Int
  BY DEF ParksIn, PlacesOf, NoneParked, Typed, IsRow
<1> QED
  BY <1>1 DEF Key

LEMMA ParkingMoves ==
  ASSUME NEW v, NEW s, NEW w, w = Written(v, s), NEW id, NEW parent, ParksIn(v, w, id, parent),
         Deleted(v, s) = {}, NEW gone, NEW v2, Moved(v, v2, s, gone)
  PROVE  Parked(v2, id, parent) /\ DOMAIN v2 = DOMAIN v
<1>1. DOMAIN w = {id} /\ id \in PlacesOf(v)
  BY DEF ParksIn
<1>2. DOMAIN v2 = DOMAIN v /\ \A x \in DOMAIN v2 : v2[x] = IF x = id THEN w[x] ELSE v[x]
  BY <1>1 DEF Moved, PlacesOf
<1>3. v2[id] = w[id] /\ id \in PlacesOf(v2)
  BY <1>1, <1>2 DEF PlacesOf
<1>4. NoneParked(v2, {id})
  BY <1>2 DEF ParksIn, NoneParked, PlacesOf
<1> QED
  BY <1>2, <1>3, <1>4 DEF Parked, ParksIn

LEMMA ParkWrites ==
  ASSUME NEW v, Typed(v), NEW id \in PlacesOf(v), NoneParked(v, {}), NEW s, s = SetAt(id, -1)
  PROVE  /\ s.do = "setAt" /\ Needed(s) \subseteq DOMAIN v /\ Deleted(v, s) = {}
         /\ ParksIn(v, Written(v, s), id, v[id].in)
<1>1. s.do = "setAt" /\ s.id = id /\ s.at = -1
  BY DEF SetAt
<1>2. Needed(s) \subseteq DOMAIN v /\ Deleted(v, s) = {}
  BY <1>1 DEF Needed, Deleted, PlacesOf
<1>3. PICK q, r, x : q = v[id] /\ r = [q EXCEPT !.at = x] /\ x = -1
  OBVIOUS
<1>4. IsRow(q)
  BY <1>3 DEF Typed
<1>5. r.in = q.in /\ r.at = x
  BY <1>3, <1>4 DEF IsRow, Place
<1>6. Written(v, s) = Only(id, r)
  BY <1>1, <1>2, <1>3 DEF Written, Change
<1>7. DOMAIN Only(id, r) = {id} /\ Only(id, r)[id] = r
  BY DEF Only
<1>8. NoneParked(v, {id})
  BY DEF NoneParked
<1> QED
  BY <1>1, <1>2, <1>3, <1>5, <1>6, <1>7, <1>8 DEF ParksIn

LEMMA TransferWrites ==
  ASSUME NEW v, Typed(v), NEW id, NEW from, Parked(v, id, from), NEW day \in DOMAIN v,
         NEW s, s = SetDay(id, day)
  PROVE  /\ s.do = "setDay" /\ Needed(s) \subseteq DOMAIN v /\ Deleted(v, s) = {}
         /\ ParksIn(v, Written(v, s), id, day)
<1>1. s.do = "setDay" /\ s.id = id /\ s.day = day
  BY DEF SetDay
<1>2. id \in PlacesOf(v) /\ NoneParked(v, {id}) /\ v[id].at = -1
  BY DEF Parked
<1>3. Needed(s) \subseteq DOMAIN v /\ Deleted(v, s) = {}
  BY <1>1, <1>2 DEF Needed, Deleted, PlacesOf
<1>4. PICK q, r : q = v[id] /\ r = [q EXCEPT !.in = day]
  OBVIOUS
<1>5. IsRow(q)
  BY <1>2, <1>4 DEF Typed
<1>6. r.in = day /\ r.at = q.at
  BY <1>4, <1>5 DEF IsRow, Place
<1>7. Written(v, s) = Only(id, r)
  BY <1>1, <1>3, <1>4 DEF Written, Change
<1>8. DOMAIN Only(id, r) = {id} /\ Only(id, r)[id] = r
  BY DEF Only
<1> QED
  BY <1>1, <1>2, <1>3, <1>4, <1>6, <1>7, <1>8 DEF ParksIn

LEMMA MovingHead ==
  ASSUME NEW v, NEW t, Moving(v, t), NEW s, s = Head(t)
  PROVE  /\ NoneParked(v, {})
         /\ \E id \in PlacesOf(v), day \in DOMAIN v, slot \in Slots :
              /\ s = SetAt(id, -1)
              /\ t = IF v[id].in = day THEN MoveWithin(id, day, slot)
                                       ELSE MoveAcross(id, v[id].in, day, slot)
<1>1. NoneParked(v, {})
  BY DEF Moving
<1>2. PICK id \in PlacesOf(v), day \in DOMAIN v, slot \in Slots : t = MoveItemPlan(v, id, day, slot)
  BY DEF Moving
<1>3. PICK from : from = v[id].in
  OBVIOUS
<1>4. t = IF from = day THEN MoveWithin(id, day, slot) ELSE MoveAcross(id, from, day, slot)
  BY <1>2, <1>3, MoveWritten
<1>5. PICK a : a = SetAt(id, -1)
  OBVIOUS
<1>6. Head(t) = a
  <2>1. CASE from = day
    <3>1. PICK b, c, d : t = <<a, b, c, d>>
      BY <1>4, <1>5, <2>1 DEF MoveWithin
    <3> QED
      BY <3>1
  <2>2. CASE from # day
    <3>1. PICK b, c, d, f : t = <<a, b, c, d, f>>
      BY <1>4, <1>5, <2>2 DEF MoveAcross
    <3> QED
      BY <3>1
  <2> QED
    BY <2>1, <2>2
<1> QED
  BY <1>1, <1>3, <1>4, <1>5, <1>6

LEMMA MovingGoes ==
  ASSUME NEW v, Typed(v), NEW t, Moving(v, t), NEW s, s = Head(t)
  PROVE  Goes(v, s)
<1>1. NoneParked(v, {})
  BY MovingHead
<1>2. PICK id \in PlacesOf(v) : s = SetAt(id, -1)
  BY MovingHead
<1>3. PICK w, parent : w = Written(v, s) /\ parent = v[id].in
  OBVIOUS
<1>4. s.do = "setAt" /\ Needed(s) \subseteq DOMAIN v /\ ParksIn(v, w, id, parent)
  BY <1>1, <1>2, <1>3, ParkWrites
<1>5. \A i \in PlacesOf(w), j \in PlacesOf(v) \ DOMAIN w : Key(w[i]) # Key(v[j])
  BY <1>4, ParkingGoes
<1> QED
  BY <1>3, <1>4, <1>5 DEF Goes, Reads

LEMMA MovingMoves ==
  ASSUME NEW e, NEW v, Typed(v), NEW t, Moving(v, t), NEW s, s = Head(t), NEW gone,
         NEW v2, Typed(v2), Moved(v, v2, s, gone)
  PROVE  Smooth(e, v2, Tail(t), gone \union Deleted(v, s))
<1>1. NoneParked(v, {})
  BY MovingHead
<1>2. PICK id \in PlacesOf(v), day \in DOMAIN v, slot \in Slots :
        /\ s = SetAt(id, -1)
        /\ t = IF v[id].in = day THEN MoveWithin(id, day, slot)
                                 ELSE MoveAcross(id, v[id].in, day, slot)
  BY MovingHead
<1>3. PICK w, from : w = Written(v, s) /\ from = v[id].in
  OBVIOUS
<1>4. Deleted(v, s) = {} /\ ParksIn(v, w, id, from)
  BY <1>1, <1>2, <1>3, ParkWrites
<1>5. Parked(v2, id, from) /\ DOMAIN v2 = DOMAIN v
  BY <1>3, <1>4, ParkingMoves
<1>6. PICK a : a = SetAt(id, -1)
  OBVIOUS
<1>7. PICK g : g = gone \union Deleted(v, s)
  OBVIOUS
<1>8. CASE from = day
  <2>1. PICK b, c, d : b = PlaceItem(id, day, slot) /\ c = Resequence(day) /\ d = ClearRoutes({day, day})
    OBVIOUS
  <2>2. t = <<a, b, c, d>>
    BY <1>2, <1>3, <1>6, <1>8, <2>1 DEF MoveWithin
  <2>3. d.do = "clear"
    BY <2>1 DEF ClearRoutes
  <2>4. Flow(v2, <<b, c, d>>, g)
    BY <1>5, <1>8, <2>1, <2>3, PlacingFlow
  <2>5. Tail(t) = <<b, c, d>>
    BY <2>2
  <2> QED
    BY <1>7, <2>4, <2>5 DEF Smooth
<1>9. CASE from # day
  <2>1. PICK b, c : b = SetDay(id, day) /\ c = Resequence(from)
    OBVIOUS
  <2>2. PICK d, f : d = PlaceItem(id, day, slot) /\ f = ClearRoutes({from, day})
    OBVIOUS
  <2>3. t = <<a, b, c, d, f>>
    BY <1>2, <1>3, <1>6, <1>9, <2>1, <2>2 DEF MoveAcross
  <2>4. Tail(t) = <<b, c, d, f>>
    BY <2>3
  <2>5. Tail(t) = <<SetDay(id, day), Resequence(from), PlaceItem(id, day, slot), ClearRoutes({from, day})>>
    BY <2>1, <2>2, <2>4
  <2>6. id \in PlacesOf(v2) /\ v2[id].at = -1 /\ v2[id].in = from /\ NoneParked(v2, {id})
    BY <1>5 DEF Parked
  <2>7. day \in DOMAIN v2
    BY <1>5
  <2>8. Crossing(v2, Tail(t))
    BY <1>9, <2>5, <2>6, <2>7 DEF Crossing
  <2> QED
    BY <2>8 DEF Smooth
<1> QED
  BY <1>8, <1>9

\* A parked row is to be given another parent.
Transfers(v, t, s, id, from, day, slot) ==
  /\ Parked(v, id, from) /\ day \in DOMAIN v /\ from # day /\ s = SetDay(id, day)
  /\ Tail(t) = <<Resequence(from), PlaceItem(id, day, slot), ClearRoutes({from, day})>>

LEMMA CrossingHead ==
  ASSUME NEW v, NEW t, Crossing(v, t), NEW s, s = Head(t)
  PROVE  \E id, from, day, slot : Transfers(v, t, s, id, from, day, slot)
<1>1. PICK id \in PlacesOf(v), day \in DOMAIN v, slot \in Slots : \E from :
        /\ from # day /\ v[id].at = -1 /\ v[id].in = from
        /\ NoneParked(v, {id})
        /\ t = <<SetDay(id, day), Resequence(from), PlaceItem(id, day, slot), ClearRoutes({from, day})>>
  BY DEF Crossing
<1>2. PICK from :
        /\ from # day /\ v[id].at = -1 /\ v[id].in = from
        /\ NoneParked(v, {id})
        /\ t = <<SetDay(id, day), Resequence(from), PlaceItem(id, day, slot), ClearRoutes({from, day})>>
  BY <1>1
<1>3. Parked(v, id, from)
  BY <1>2 DEF Parked
<1>4. PICK a, b : a = SetDay(id, day) /\ b = Resequence(from)
  OBVIOUS
<1>5. PICK c, d : c = PlaceItem(id, day, slot) /\ d = ClearRoutes({from, day})
  OBVIOUS
<1>6. t = <<a, b, c, d>>
  BY <1>2, <1>4, <1>5
<1>7. Head(t) = a /\ Tail(t) = <<b, c, d>>
  BY <1>6
<1>8. Transfers(v, t, s, id, from, day, slot)
  BY <1>2, <1>3, <1>4, <1>5, <1>7 DEF Transfers
<1> QED
  BY <1>8

LEMMA CrossingGoes ==
  ASSUME NEW v, Typed(v), NEW t, Crossing(v, t), NEW s, s = Head(t)
  PROVE  Goes(v, s)
<1>1. PICK id, from, day, slot : Transfers(v, t, s, id, from, day, slot)
  BY CrossingHead
<1>5. Parked(v, id, from) /\ day \in DOMAIN v /\ s = SetDay(id, day)
  BY <1>1 DEF Transfers
<1>2. PICK w : w = Written(v, s)
  OBVIOUS
<1>3. s.do = "setDay" /\ Needed(s) \subseteq DOMAIN v /\ ParksIn(v, w, id, day)
  BY <1>2, <1>5, TransferWrites
<1>4. \A i \in PlacesOf(w), j \in PlacesOf(v) \ DOMAIN w : Key(w[i]) # Key(v[j])
  BY <1>3, ParkingGoes
<1> QED
  BY <1>2, <1>3, <1>4 DEF Goes, Reads

LEMMA CrossingMoves ==
  ASSUME NEW v, Typed(v), NEW t, Crossing(v, t), NEW s, s = Head(t), NEW gone,
         NEW v2, Typed(v2), Moved(v, v2, s, gone)
  PROVE  Flow(v2, Tail(t), gone \union Deleted(v, s))
<1>0. PICK id, from, day, slot : Transfers(v, t, s, id, from, day, slot)
  BY CrossingHead
<1>1. /\ Parked(v, id, from) /\ day \in DOMAIN v /\ from # day /\ s = SetDay(id, day)
      /\ Tail(t) = <<Resequence(from), PlaceItem(id, day, slot), ClearRoutes({from, day})>>
  BY <1>0 DEF Transfers
<1>2. PICK w : w = Written(v, s)
  OBVIOUS
<1>3. Deleted(v, s) = {} /\ ParksIn(v, w, id, day)
  BY <1>1, <1>2, TransferWrites
<1>4. Parked(v2, id, day)
  BY <1>2, <1>3, ParkingMoves
<1>5. PICK a : a = Resequence(from)
  OBVIOUS
<1>6. PICK b, c : b = PlaceItem(id, day, slot) /\ c = ClearRoutes({from, day})
  OBVIOUS
<1>7. c.do = "clear"
  BY <1>6 DEF ClearRoutes
<1>8. PICK g : g = gone \union Deleted(v, s)
  OBVIOUS
<1>9. Flow(v2, <<a, b, c>>, g)
  BY <1>1, <1>4, <1>5, <1>6, <1>7, PlacingFlow
<1> QED
  BY <1>1, <1>5, <1>6, <1>8, <1>9

LEMMA SmoothGoes ==
  ASSUME NEW e, NEW v, Typed(v), KeysAreUnique(v), Trip \in DOMAIN v, Itin \in DOMAIN v,
         NEW t, Legal(t), NEW gone, Smooth(e, v, t, gone), t # << >>, NEW s, s = Head(t), s.do \notin Reads
  PROVE  Goes(v, s)
<1>1. CASE Flow(v, t, gone)
  <2>1. Executable(v, s)
    BY <1>1, FlowHead
  <2>2. Needed(s) \subseteq DOMAIN v
    BY <1>1, FlowHead
  <2>3. \A i \in PlacesOf(Written(v, s)), j \in PlacesOf(v) \ DOMAIN Written(v, s) :
          Key(Written(v, s)[i]) # Key(v[j])
    BY <1>1, FlowHead
  <2>4. s.do \notin Reads \union {"shift"}
    BY <2>1 DEF Executable
  <2> QED
    BY <2>2, <2>3, <2>4 DEF Goes
<1>2. CASE Removing(v, t)
  BY <1>2, RemovingGoes
<1>3. CASE Replacing(e, v, t, gone)
  BY <1>3, ReplacingGoes
<1>4. CASE Moving(v, t)
  BY <1>4, MovingGoes
<1>5. CASE Crossing(v, t)
  BY <1>5, CrossingGoes
<1> QED
  BY <1>1, <1>2, <1>3, <1>4, <1>5 DEF Smooth

LEMMA SmoothWrites ==
  ASSUME NEW e \in Edits, NEW v, Typed(v), KeysAreUnique(v), Trip \in DOMAIN v, Itin \in DOMAIN v,
         NEW t, Legal(t), NEW gone, Smooth(e, v, t, gone), t # << >>, NEW s, s = Head(t), s.do \notin Reads,
         NEW v2, Typed(v2), Moved(v, v2, s, gone)
  PROVE  Smooth(e, v2, Tail(t), gone \union Deleted(v, s))
<1>1. CASE Flow(v, t, gone)
  <2>1. Sees(v, v2, s, gone)
    BY <1>1, FlowView
  <2>2. Flow(v2, Tail(t), gone)
    BY <1>1, <2>1, FlowWrites
  <2>3. Executable(v, s)
    BY <1>1, FlowHead
  <2>4. Deleted(v, s) = {}
    BY <2>3 DEF Executable, Deleted
  <2>5. gone \union Deleted(v, s) = gone
    BY <2>4
  <2> QED
    BY <2>2, <2>5 DEF Smooth
<1>2. CASE Removing(v, t)
  <2>1. Flow(v2, Tail(t), gone \union Deleted(v, s))
    BY <1>2, RemovingMoves
  <2> QED
    BY <2>1 DEF Smooth
<1>3. CASE Replacing(e, v, t, gone)
  <2>1. Flow(v2, Tail(t), gone \union Deleted(v, s))
    BY <1>3, ReplacingMoves
  <2> QED
    BY <2>1 DEF Smooth
<1>4. CASE Moving(v, t)
  BY <1>4, MovingMoves
<1>5. CASE Crossing(v, t)
  <2>1. Flow(v2, Tail(t), gone \union Deleted(v, s))
    BY <1>5, CrossingMoves
  <2> QED
    BY <2>1 DEF Smooth
<1> QED
  BY <1>1, <1>2, <1>3, <1>4, <1>5 DEF Smooth

\* No edit reads before it has written.
LEMMA SmoothReads ==
  ASSUME NEW e, NEW v, Typed(v), NEW t, NEW gone, Smooth(e, v, t, gone), NEW s, s = Head(t), s.do \in Reads
  PROVE  Flow(v, t, gone)
<1>1. ~ Goes(v, s)
  BY DEF Goes
<1>2. ~ Removing(v, t) /\ ~ Replacing(e, v, t, gone) /\ ~ Moving(v, t) /\ ~ Crossing(v, t)
  BY <1>1, RemovingGoes, ReplacingGoes, MovingGoes, CrossingGoes
<1> QED
  BY <1>2 DEF Smooth

(***************************************************************************)
(* A day that has not been inserted is not known.                          *)
(***************************************************************************)
LEMMA UnnamedSeq ==
  ASSUME NEW day, NEW S, \A s \in S : ~ Names(s, day), NEW t \in Seq(S)
  PROVE  Unnamed(t, day)
<1>1. IsList(t)
  BY AnyList
<1>2. ASSUME NEW k \in DOMAIN t
      PROVE  ~ Names(t[k], day)
  <2>1. k \in 1..Len(t)
    BY <1>1, ListFacts
  <2>2. t[k] \in S
    BY <2>1, ElementOfSeq
  <2> QED
    BY <2>2
<1> QED
  BY <1>1, <1>2 DEF Unnamed

LEMMA UnnamedJoined ==
  ASSUME NEW day, NEW a, NEW b, Unnamed(a, day), Unnamed(b, day)
  PROVE  Unnamed(a \o b, day)
<1>1. IsList(a) /\ IsList(b)
  BY DEF Unnamed
<1>2. PICK c : c = a \o b
  OBVIOUS
<1>3. IsList(c)
  BY <1>1, <1>2, JoinedList
<1>4. ASSUME NEW k \in DOMAIN c
      PROVE  (\E j \in DOMAIN a : c[k] = a[j]) \/ (\E j \in DOMAIN b : c[k] = b[j])
  BY <1>1, <1>2, JoinedIndex
<1> QED
  BY <1>2, <1>3, <1>4 DEF Unnamed

LEMMA UnnamedKinds ==
  ASSUME NEW day, NEW t, IsList(t), \A k \in DOMAIN t : t[k].do \notin {"insert", "setDay"}
  PROVE  Unnamed(t, day)
BY DEF Unnamed, Names

\* A day that is none of the edit's own, nor there.
Spares(e, v, day) ==
  day \notin DOMAIN v /\ day # Itin /\ day # NewDay(e) /\ day # NewItem(e, 1) /\ day # NewItem(e, 2)

LEMMA InsertUnnamed ==
  ASSUME NEW e, NEW v, NEW day, Spares(e, v, day),
         NEW id \in {NewDay(e), NewItem(e, 1), NewItem(e, 2)}, NEW parent, parent # day, NEW at
  PROVE  ~ Names(Insert(id, parent, at), day)
<1>1. PICK s : s = Insert(id, parent, at)
  OBVIOUS
<1>2. s.do = "insert" /\ s.id = id /\ s.row.in = parent
  BY <1>1 DEF Insert, Place
<1> QED
  BY <1>1, <1>2 DEF Names, Spares

LEMMA OtherUnnamed ==
  ASSUME NEW day, NEW s, s.do \notin {"insert", "setDay"}
  PROVE  ~ Names(s, day)
BY DEF Names

LEMMA PreparedUnnamed ==
  ASSUME NEW v, NEW parent, NEW at, NEW t, NEW r, Prepares(v, parent, at, t, r), NEW day, Unnamed(r, day)
  PROVE  Unnamed(t, day)
<1>1. PICK shift : MakesRoom(v, parent, at, shift) /\ t = shift \o r
  BY DEF Prepares
<1>2. IsList(shift) /\ \A k \in DOMAIN shift : shift[k].do = "setAt"
  BY <1>1 DEF MakesRoom, Numbers
<1>3. Unnamed(shift, day)
  BY <1>2, UnnamedKinds
<1>4. Unnamed(shift \o r, day)
  BY <1>3, UnnamedJoined
<1> QED
  BY <1>1, <1>4

LEMMA AddDayUnnamed ==
  ASSUME NEW v, WellFormed(v), NEW e \in Edits, NEW slot \in Slots, NEW day, Spares(e, v, day)
  PROVE  Unnamed(AddDayPlan(e, v, slot), day)
<1>1. PICK at \in Nat :
        Prepares(v, Itin, at, AddDayPlan(e, v, slot), <<Insert(NewDay(e), Itin, at), BumpVersion>>)
  BY AddDayPrepares
<1>2. PICK one, two : one = Insert(NewDay(e), Itin, at) /\ two = BumpVersion
  OBVIOUS
<1>3. ~ Names(one, day)
  BY <1>2, InsertUnnamed DEF Spares
<1>4. ~ Names(two, day)
  BY <1>2 DEF Names, BumpVersion
<1>5. <<one, two>> \in Seq({one, two})
  OBVIOUS
<1>6. Unnamed(<<one, two>>, day)
  BY <1>3, <1>4, <1>5, UnnamedSeq
<1> QED
  BY <1>1, <1>2, <1>6, PreparedUnnamed

LEMMA AddItemUnnamed ==
  ASSUME NEW v, WellFormed(v), NEW e \in Edits, NEW parent \in DOMAIN v, NEW slot \in Slots,
         NEW at \in InsertionPoints(v, parent, slot), NEW day, Spares(e, v, day)
  PROVE  Unnamed(AddItemPlan(e, v, parent, at), day)
<1>1. Prepares(v, parent, at, AddItemPlan(e, v, parent, at),
               <<Insert(NewItem(e, 1), parent, at), ClearRoutes({parent})>>)
  BY AddItemPrepares
<1>2. PICK one, two : one = Insert(NewItem(e, 1), parent, at) /\ two = ClearRoutes({parent})
  OBVIOUS
<1>3. ~ Names(one, day)
  BY <1>2, InsertUnnamed DEF Spares
<1>4. ~ Names(two, day)
  BY <1>2 DEF Names, ClearRoutes
<1>5. <<one, two>> \in Seq({one, two})
  OBVIOUS
<1>6. Unnamed(<<one, two>>, day)
  BY <1>3, <1>4, <1>5, UnnamedSeq
<1> QED
  BY <1>1, <1>2, <1>6, PreparedUnnamed

LEMMA ReuseDayUnnamed ==
  ASSUME NEW v, WellFormed(v), NEW e \in Edits, NEW index \in Nat, NEW day, Spares(e, v, day)
  PROVE  Unnamed(ReuseDayPlan(e, v, index), day)
<1>1. Prepares(v, Itin, index + 1, ReuseDayPlan(e, v, index),
               <<Insert(NewDay(e), Itin, index + 1), Insert(NewItem(e, 1), NewDay(e), 0), BumpVersion>>)
  BY ReuseDayPrepares
<1>2. PICK one, two, three :
        /\ one = Insert(NewDay(e), Itin, index + 1) /\ two = Insert(NewItem(e, 1), NewDay(e), 0)
        /\ three = BumpVersion
  OBVIOUS
<1>3. ~ Names(one, day) /\ ~ Names(two, day)
  BY <1>2, InsertUnnamed DEF Spares
<1>4. ~ Names(three, day)
  BY <1>2 DEF Names, BumpVersion
<1>5. <<one, two, three>> \in Seq({one, two, three})
  OBVIOUS
<1>6. Unnamed(<<one, two, three>>, day)
  BY <1>3, <1>4, <1>5, UnnamedSeq
<1> QED
  BY <1>1, <1>2, <1>6, PreparedUnnamed

LEMMA ReuseItemUnnamed ==
  ASSUME NEW v, NEW e \in Edits, NEW parent, NEW position, NEW copies \in 1..2,
         NEW day, Spares(e, v, day), parent # day
  PROVE  Unnamed(ReuseItemPlan(e, parent, position, copies), day)
<1>1. PICK one, two, three :
        /\ one = ShiftItems(parent, position, copies) /\ two = ClearRoutes({parent})
        /\ three = BumpVersion
  OBVIOUS
<1>2. ~ Names(one, day) /\ ~ Names(two, day) /\ ~ Names(three, day)
  BY <1>1 DEF Names, ShiftItems, ClearRoutes, BumpVersion
<1>3. <<one>> \in Seq({one}) /\ <<two, three>> \in Seq({two, three})
  OBVIOUS
<1>4. Unnamed(<<one>>, day)
  BY <1>2, <1>3, UnnamedSeq
<1>5. Unnamed(<<two, three>>, day)
  BY <1>2, <1>3, UnnamedSeq
<1>6. PICK inserts : inserts = [k \in 1..copies |-> Insert(NewItem(e, k), parent, position + k - 1)]
  OBVIOUS
<1>7. IsList(inserts) /\ DOMAIN inserts = 1..copies
  <2>1. inserts = [k \in 1..copies |-> inserts[k]]
    BY <1>6
  <2>2. copies \in Nat
    OBVIOUS
  <2> QED
    BY <2>1, <2>2, Numbered
<1>8. ASSUME NEW k \in DOMAIN inserts
      PROVE  ~ Names(inserts[k], day)
  <2>1. k \in 1..2 /\ k \in 1..copies
    BY <1>7
  <2>2. NewItem(e, k) \in {NewDay(e), NewItem(e, 1), NewItem(e, 2)}
    BY <2>1
  <2>3. PICK at : at = position + k - 1
    OBVIOUS
  <2>4. ~ Names(Insert(NewItem(e, k), parent, at), day)
    BY <2>2, InsertUnnamed
  <2> QED
    BY <1>6, <2>1, <2>3, <2>4
<1>9. Unnamed(inserts, day)
  BY <1>7, <1>8 DEF Unnamed
<1>10. Unnamed(<<one>> \o inserts, day)
  BY <1>4, <1>9, UnnamedJoined
<1>11. Unnamed((<<one>> \o inserts) \o <<two, three>>, day)
  BY <1>5, <1>10, UnnamedJoined
<1>12. ReuseItemPlan(e, parent, position, copies) = (<<one>> \o inserts) \o <<two, three>>
  BY <1>1, <1>6, Zenon DEF ReuseItemPlan
<1> QED
  BY <1>11, <1>12

LEMMA PlansUnnamed ==
  ASSUME NEW v, WellFormed(v), NEW e \in Edits, NEW op, RequestOk(op), Subjects(op) \subseteq DOMAIN v,
         NEW todo \in Plans(e, v, op), NEW day, Spares(e, v, day), op.kind = "reuseItem" => op.day # day
  PROVE  Unnamed(todo, day)
<1>1. CASE op.kind = "addDay"
  <2>1. todo = AddDayPlan(e, v, op.slot) /\ op.slot \in Slots
    BY <1>1 DEF Plans, RequestOk, AddKinds
  <2>2. PICK slot \in Slots : slot = op.slot
    BY <2>1
  <2>3. Unnamed(AddDayPlan(e, v, slot), day)
    BY AddDayUnnamed
  <2> QED
    BY <2>1, <2>2, <2>3
<1>2. CASE op.kind \in AddKinds
  <2>1. PICK parent \in DOMAIN v, slot \in Slots : parent = op.day /\ slot = op.slot
    BY <1>2 DEF RequestOk, Subjects, AddKinds
  <2>2. PICK at \in InsertionPoints(v, parent, slot) : todo = AddItemPlan(e, v, parent, at)
    BY <1>2, <2>1 DEF Plans, AddKinds
  <2>3. Unnamed(AddItemPlan(e, v, parent, at), day)
    BY AddItemUnnamed
  <2> QED
    BY <2>2, <2>3
<1>3. CASE op.kind = "reuseDay"
  <2>1. todo = ReuseDayPlan(e, v, op.slot) /\ op.slot \in Nat
    BY <1>3 DEF Plans, RequestOk, AddKinds, ReuseKinds
  <2>2. PICK index \in Nat : index = op.slot
    BY <2>1
  <2>3. Unnamed(ReuseDayPlan(e, v, index), day)
    BY ReuseDayUnnamed
  <2> QED
    BY <2>1, <2>2, <2>3
<1>4. CASE op.kind = "reuseItem"
  <2>1. todo = ReuseItemPlan(e, op.day, op.slot, op.copies) /\ op.copies \in 1..2
    BY <1>4 DEF Plans, RequestOk, AddKinds
  <2>2. PICK parent, position, copies : parent = op.day /\ position = op.slot /\ copies = op.copies
    OBVIOUS
  <2>3. copies \in 1..2 /\ parent # day
    BY <1>4, <2>1, <2>2
  <2>4. Unnamed(ReuseItemPlan(e, parent, position, copies), day)
    BY <2>3, ReuseItemUnnamed
  <2> QED
    BY <2>1, <2>2, <2>4
<1>5. CASE op.kind = "removeDay"
  <2>1. PICK one, two, three : one = Delete(op.id) /\ two = RenumberDays /\ three = BumpVersion
    OBVIOUS
  <2>2. ~ Names(one, day) /\ ~ Names(two, day) /\ ~ Names(three, day)
    BY <2>1 DEF Names, Delete, RenumberDays, BumpVersion
  <2>3. <<one, two, three>> \in Seq({one, two, three})
    OBVIOUS
  <2>4. Unnamed(<<one, two, three>>, day)
    BY <2>2, <2>3, UnnamedSeq
  <2>5. todo = <<one, two, three>>
    BY <1>5, <2>1 DEF Plans, AddKinds
  <2> QED
    BY <2>4, <2>5
<1>6. CASE op.kind = "removeItem"
  <2>1. PICK parent : parent = v[op.id].in
    OBVIOUS
  <2>2. PICK one, two, three : one = Delete(op.id) /\ two = Resequence(parent) /\ three = ClearRoutes({parent})
    OBVIOUS
  <2>3. ~ Names(one, day) /\ ~ Names(two, day) /\ ~ Names(three, day)
    BY <2>2 DEF Names, Delete, Resequence, ClearRoutes
  <2>4. <<one, two, three>> \in Seq({one, two, three})
    OBVIOUS
  <2>5. Unnamed(<<one, two, three>>, day)
    BY <2>3, <2>4, UnnamedSeq
  <2>6. todo = <<one, two, three>>
    BY <1>6, <2>1, <2>2 DEF Plans, AddKinds
  <2> QED
    BY <2>5, <2>6
<1>7. CASE op.kind = "moveItem"
  <2>1. PICK parent \in DOMAIN v : parent = op.day
    BY <1>7 DEF Subjects, AddKinds
  <2>2. PICK id, slot, from : id = op.id /\ slot = op.slot /\ from = v[id].in
    OBVIOUS
  <2>3. todo = MoveItemPlan(v, id, parent, slot)
    BY <1>7, <2>1, <2>2 DEF Plans, AddKinds
  <2>4. todo = IF from = parent THEN MoveWithin(id, parent, slot) ELSE MoveAcross(id, from, parent, slot)
    BY <2>2, <2>3, MoveWritten
  <2>5. CASE from = parent
    <3>1. PICK a, b : a = SetAt(id, -1) /\ b = PlaceItem(id, parent, slot)
      OBVIOUS
    <3>2. PICK c, d : c = Resequence(parent) /\ d = ClearRoutes({parent, parent})
      OBVIOUS
    <3>3. ~ Names(a, day) /\ ~ Names(b, day) /\ ~ Names(c, day) /\ ~ Names(d, day)
      BY <3>1, <3>2 DEF Names, SetAt, PlaceItem, Resequence, ClearRoutes
    <3>4. <<a, b, c, d>> \in Seq({a, b, c, d})
      OBVIOUS
    <3>5. Unnamed(<<a, b, c, d>>, day)
      BY <3>3, <3>4, UnnamedSeq
    <3>6. todo = <<a, b, c, d>>
      BY <2>4, <2>5, <3>1, <3>2 DEF MoveWithin
    <3> QED
      BY <3>5, <3>6
  <2>6. CASE from # parent
    <3>1. PICK a, b : a = SetAt(id, -1) /\ b = SetDay(id, parent)
      OBVIOUS
    <3>2. PICK c, d, f : c = Resequence(from) /\ d = PlaceItem(id, parent, slot) /\ f = ClearRoutes({from, parent})
      OBVIOUS
    <3>3. ~ Names(a, day) /\ ~ Names(c, day) /\ ~ Names(d, day) /\ ~ Names(f, day)
      BY <3>1, <3>2 DEF Names, SetAt, PlaceItem, Resequence, ClearRoutes
    <3>4. ~ Names(b, day)
      <4>1. parent # day
        BY DEF Spares
      <4> QED
        BY <3>1, <4>1 DEF Names, SetDay
    <3>5. <<a, b, c, d, f>> \in Seq({a, b, c, d, f})
      OBVIOUS
    <3>6. Unnamed(<<a, b, c, d, f>>, day)
      BY <3>3, <3>4, <3>5, UnnamedSeq
    <3>7. todo = <<a, b, c, d, f>>
      BY <2>4, <2>6, <3>1, <3>2 DEF MoveAcross
    <3> QED
      BY <3>6, <3>7
  <2> QED
    BY <2>5, <2>6
<1>8. CASE op.kind = "replace"
  <2>1. PICK a, b : a = DeleteDays /\ b = BumpVersion
    OBVIOUS
  <2>2. PICK c, d : c = Insert(NewDay(e), Itin, op.slot) /\ d = Insert(NewItem(e, 1), NewDay(e), 1)
    OBVIOUS
  <2>3. ~ Names(a, day) /\ ~ Names(b, day)
    BY <2>1 DEF Names, DeleteDays, BumpVersion
  <2>4. ~ Names(c, day) /\ ~ Names(d, day)
    BY <2>2, InsertUnnamed DEF Spares
  <2>5. <<a, b, c, d>> \in Seq({a, b, c, d})
    OBVIOUS
  <2>6. Unnamed(<<a, b, c, d>>, day)
    BY <2>3, <2>4, <2>5, UnnamedSeq
  <2>7. todo = ReplacePlan(e, op.slot)
    BY <1>8 DEF Plans, AddKinds
  <2>8. ReplacePlan(e, op.slot) = <<a, b, c, d>>
    BY <2>1, <2>2 DEF ReplacePlan
  <2> QED
    BY <2>6, <2>7, <2>8
<1>9. CASE op.kind \in StatusKinds \union {"route"}
  <2>1. QuietList(todo)
    BY <1>9, StatusQuiet
  <2>2. IsList(todo) /\ \A k \in DOMAIN todo : todo[k].do \notin {"insert", "setDay"}
    BY <2>1 DEF QuietList
  <2> QED
    BY <2>2, UnnamedKinds
<1> QED
  BY <1>1, <1>2, <1>3, <1>4, <1>5, <1>6, <1>7, <1>8, <1>9
     DEF RequestOk, HandKinds, AddKinds, ReuseKinds

\* The writes that a reading statement turns into: positions of some rows.
Sets(t, rows) == IsList(t) /\ \A k \in DOMAIN t : t[k].do = "setAt" /\ t[k].id \in rows

LEMMA SetsUnnamed ==
  ASSUME NEW t, NEW rows, Sets(t, rows), NEW day
  PROVE  Unnamed(t, day)
<1>1. \A k \in DOMAIN t : t[k].do \notin {"insert", "setDay"}
  BY DEF Sets
<1> QED
  BY <1>1, UnnamedKinds DEF Sets

LEMMA SetsJoined ==
  ASSUME NEW a, NEW b, NEW rows, Sets(a, rows), Sets(b, rows)
  PROVE  Sets(a \o b, rows)
<1>1. IsList(a) /\ IsList(b)
  BY DEF Sets
<1>2. PICK c : c = a \o b
  OBVIOUS
<1>3. IsList(c)
  BY <1>1, <1>2, JoinedList
<1>4. ASSUME NEW k \in DOMAIN c
      PROVE  (\E j \in DOMAIN a : c[k] = a[j]) \/ (\E j \in DOMAIN b : c[k] = b[j])
  BY <1>1, <1>2, JoinedIndex
<1> QED
  BY <1>2, <1>3, <1>4 DEF Sets

\* A position for each of a list of rows.
LEMMA EachSet ==
  ASSUME NEW d, NEW n \in Nat, DOMAIN d = 1..n, NEW rows, \A k \in 1..n : d[k] \in rows,
         NEW t, DOMAIN t = 1..n, t = [k \in 1..n |-> t[k]], \A k \in 1..n : \E at : t[k] = SetAt(d[k], at)
  PROVE  Sets(t, rows)
<1>1. IsList(t)
  BY Numbered
<1>2. \A id, at : SetAt(id, at).do = "setAt" /\ SetAt(id, at).id = id
  BY DEF SetAt
<1> QED
  BY <1>1, <1>2 DEF Sets

LEMMA NumberingSets ==
  ASSUME NEW v, NEW rows, Spread(v, rows), NEW scratch
  PROVE  Sets(ParkOutOfPlace(v, rows, scratch) \o NumberFromOne(Ordered(v, rows)), rows)
<1>1. PICK bad : bad = {id \in rows : v[id].at # Rank(v, rows, id)}
  OBVIOUS
<1>2. Spread(v, bad)
  BY <1>1, FS_Subset DEF Spread
<1>3. PICK wrong, order : wrong = Ordered(v, bad) /\ order = Ordered(v, rows)
  OBVIOUS
<1>4. PICK m \in Nat : DOMAIN wrong = 1..m /\ \A k \in 1..m : wrong[k] \in rows
  <2>1. PICK m : Lists(bad, wrong, m)
    BY <1>2, <1>3, OrderedOnce
  <2>2. bad \subseteq rows
    BY <1>1
  <2> QED
    BY <2>1, <2>2 DEF Lists
<1>5. PICK n \in Nat : DOMAIN order = 1..n /\ \A k \in 1..n : order[k] \in rows
  BY <1>3, OrderedLists
<1>6. PICK a : a = [k \in DOMAIN wrong |-> SetAt(wrong[k], scratch - Rank(v, rows, wrong[k]))]
  OBVIOUS
<1>7. PICK b : b = [k \in DOMAIN order |-> SetAt(order[k], k)]
  OBVIOUS
<1>8. Sets(a, rows)
  <2>1. DOMAIN a = 1..m /\ a = [k \in 1..m |-> a[k]] /\ \A k \in 1..m : \E at : a[k] = SetAt(wrong[k], at)
    BY <1>4, <1>6
  <2> QED
    BY <1>4, <2>1, EachSet
<1>9. Sets(b, rows)
  <2>1. DOMAIN b = 1..n /\ b = [k \in 1..n |-> b[k]] /\ \A k \in 1..n : \E at : b[k] = SetAt(order[k], at)
    BY <1>5, <1>7
  <2> QED
    BY <1>5, <2>1, EachSet
<1>10. Sets(a \o b, rows)
  BY <1>8, <1>9, SetsJoined
<1>11. ParkOutOfPlace(v, rows, scratch) = a /\ NumberFromOne(order) = b
  BY <1>1, <1>3, <1>6, <1>7 DEF ParkOutOfPlace, NumberFromOne
<1> QED
  BY <1>3, <1>10, <1>11

LEMMA PlacingSets ==
  ASSUME NEW v, NEW id, NEW parent, NEW slot \in Slots, Spread(v, Children(v, parent) \ {id})
  PROVE  Sets(PlaceAmongPeers(v, id, parent, slot), Children(v, parent) \union {id})
<1>1. PICK rows, peers : rows = Children(v, parent) \union {id} /\ peers = Ordered(v, Children(v, parent) \ {id})
  OBVIOUS
<1>2. PICK n \in Nat : DOMAIN peers = 1..n /\ \A k \in 1..n : peers[k] \in rows
  <2>1. PICK n : Lists(Children(v, parent) \ {id}, peers, n)
    BY <1>1, OrderedOnce
  <2> QED
    BY <1>1, <2>1 DEF Lists
<1>3. PICK desired : desired = IF slot = None THEN Len(peers) + 1 ELSE Clamp(slot, Len(peers) + 1)
  OBVIOUS
<1>4. PICK a : a = [k \in DOMAIN peers |-> SetAt(peers[k], -99 - k)]
  OBVIOUS
<1>5. PICK b : b = [k \in DOMAIN peers |-> SetAt(peers[k], IF k < desired THEN k ELSE k + 1)]
  OBVIOUS
<1>6. PICK c : c = <<SetAt(id, desired)>>
  OBVIOUS
<1>7. Sets(a, rows)
  <2>1. DOMAIN a = 1..n /\ a = [k \in 1..n |-> a[k]] /\ \A k \in 1..n : \E at : a[k] = SetAt(peers[k], at)
    BY <1>2, <1>4
  <2> QED
    BY <1>2, <2>1, EachSet
<1>8. Sets(b, rows)
  <2>1. DOMAIN b = 1..n /\ b = [k \in 1..n |-> b[k]] /\ \A k \in 1..n : \E at : b[k] = SetAt(peers[k], at)
    BY <1>2, <1>5
  <2> QED
    BY <1>2, <2>1, EachSet
<1>9. Sets(c, rows)
  <2>1. c \in Seq({SetAt(id, desired)}) /\ DOMAIN c = {1} /\ c[1] = SetAt(id, desired)
    BY <1>6
  <2>2. SetAt(id, desired).do = "setAt" /\ SetAt(id, desired).id \in rows
    BY <1>1 DEF SetAt
  <2>3. IsList(c)
    BY <2>1, AnyList
  <2> QED
    BY <2>1, <2>2, <2>3 DEF Sets
<1>10. Sets((a \o b) \o c, rows)
  BY <1>7, <1>8, <1>9, SetsJoined
<1>11. PlaceAmongPeers(v, id, parent, slot) = (a \o b) \o c
  BY <1>1, <1>3, <1>4, <1>5, <1>6, Zenon DEF PlaceAmongPeers
<1> QED
  BY <1>1, <1>10, <1>11

\* The rows a reading statement puts in order.
LEMMA ExpansionSets ==
  ASSUME NEW e \in Edits, NEW v, v = View(e), Typed(v), KeysAreUnique(v), NEW s, Sound(s), s.do \in Numbering
  PROVE  \E parent : /\ parent = (IF s.do = "renumber" THEN Itin ELSE s.day)
                     /\ Sets(Expansion(e, s),
                             Children(v, parent) \union (IF s.do = "place" THEN {s.id} ELSE {}))
<1>1. \A parent : \A rows \in SUBSET Children(v, parent) : Spread(v, rows)
  BY ChildrenSpread DEF Typed
<1>2. CASE s.do = "resequence"
  <2>1. Expansion(e, s) = ParkOutOfPlace(v, Children(v, s.day), -99) \o NumberFromOne(InOrder(v, s.day))
    BY <1>2 DEF Expansion
  <2>2. PICK rows : rows = Children(v, s.day) /\ Spread(v, rows)
    BY <1>1
  <2>3. Sets(ParkOutOfPlace(v, rows, -99) \o NumberFromOne(Ordered(v, rows)), rows)
    BY <2>2, NumberingSets
  <2> QED
    BY <1>2, <2>1, <2>2, <2>3 DEF InOrder
<1>3. CASE s.do = "renumber"
  <2>1. Expansion(e, s) = ParkOutOfPlace(v, Children(v, Itin), 0) \o NumberFromOne(InOrder(v, Itin))
    BY <1>3 DEF Expansion
  <2>2. PICK rows : rows = Children(v, Itin) /\ Spread(v, rows)
    BY <1>1
  <2>3. Sets(ParkOutOfPlace(v, rows, 0) \o NumberFromOne(Ordered(v, rows)), rows)
    BY <2>2, NumberingSets
  <2> QED
    BY <1>3, <2>1, <2>2, <2>3 DEF InOrder
<1>4. CASE s.do = "place"
  <2>1. Expansion(e, s) = PlaceAmongPeers(v, s.id, s.day, s.slot)
    BY <1>4 DEF Expansion
  <2>2. PICK id, parent : id = s.id /\ parent = s.day
    OBVIOUS
  <2>3. PICK slot \in Slots : slot = s.slot
    BY <1>4 DEF Sound
  <2>4. Spread(v, Children(v, parent) \ {id})
    BY <1>1
  <2>5. Sets(PlaceAmongPeers(v, id, parent, slot), Children(v, parent) \union {id})
    BY <2>4, PlacingSets
  <2> QED
    BY <1>4, <2>1, <2>2, <2>3, <2>5
<1> QED
  BY <1>2, <1>3, <1>4 DEF Numbering

\* Nor does a reading statement name a day.
LEMMA ExpansionUnnamed ==
  ASSUME NEW e \in Edits, NEW v, v = View(e), Typed(v), KeysAreUnique(v), NEW s, Sound(s), s.do \in Reads, NEW day
  PROVE  Unnamed(Expansion(e, s), day)
<1>1. CASE s.do \in Numbering
  BY <1>1, ExpansionSets, SetsUnnamed
<1>2. CASE s.do = "clear"
  <2>1. PICK stale : stale = StaleRoutes(v, s.days, edit[e].before)
    OBVIOUS
  <2>2. Expansion(e, s) = IF stale = {} THEN << >> ELSE <<SetRoute(stale, None)>>
    BY <1>2, <2>1 DEF Expansion
  <2>3. PICK c : c = SetRoute(stale, None)
    OBVIOUS
  <2>4. ~ Names(c, day) /\ <<c>> \in Seq({c}) /\ << >> \in Seq({c})
    BY <2>3 DEF Names, SetRoute
  <2>5. Unnamed(<<c>>, day) /\ Unnamed(<< >>, day)
    BY <2>4, UnnamedSeq
  <2> QED
    BY <2>2, <2>3, <2>5
<1> QED
  BY <1>1, <1>2 DEF Reads, Numbering

(***************************************************************************)
(* A day that nobody knows stays unknown while others write.               *)
(***************************************************************************)
LEMMA OnlyUnknown ==
  ASSUME NEW day, NEW id, NEW r, id # day, id \notin {Trip, Itin} => r.in # day
  PROVE  Unknown(Only(id, r), day)
<1>1. DOMAIN Only(id, r) = {id} /\ Only(id, r)[id] = r
  BY DEF Only
<1> QED
  BY <1>1 DEF Unknown, PlacesOf

LEMMA EmptyUnknown ==
  ASSUME NEW day
  PROVE  Unknown(<< >>, day)
<1>1. DOMAIN << >> = {}
  OBVIOUS
<1> QED
  BY <1>1 DEF Unknown, PlacesOf

LEMMA WrittenUnknown ==
  ASSUME NEW v, Typed(v), Itin \in DOMAIN v, NEW s, Sound(s), s.do \notin Reads, NEW day,
         Unknown(v, day), ~ Names(s, day)
  PROVE  Unknown(Written(v, s), day)
<1>1. \A x \in DOMAIN v : x # day /\ (x \notin {Trip, Itin} => IsRow(v[x]) /\ v[x].in # day)
  BY DEF Unknown, Typed, PlacesOf
<1>2. ASSUME Needed(s) \subseteq DOMAIN v
      PROVE  Unknown(Change(v, s), day)
  <2>1. CASE s.do = "setAt"
    <3>1. PICK q, x : q = v[s.id] /\ x = s.at
      OBVIOUS
    <3>2. PICK r : r = [q EXCEPT !.at = x]
      OBVIOUS
    <3>3. Change(v, s) = Only(s.id, r) /\ s.id \in DOMAIN v
      BY <1>2, <2>1, <3>1, <3>2 DEF Change, Needed
    <3>4. IsRow(q) => r.in = q.in
      BY <3>2 DEF IsRow, Place
    <3> QED
      BY <1>1, <3>1, <3>3, <3>4, OnlyUnknown
  <2>2. CASE s.do = "setDay"
    <3>1. PICK q, x : q = v[s.id] /\ x = s.day
      OBVIOUS
    <3>2. PICK r : r = [q EXCEPT !.in = x]
      OBVIOUS
    <3>3. Change(v, s) = Only(s.id, r) /\ s.id \in DOMAIN v /\ x # day
      BY <1>2, <2>2, <3>1, <3>2 DEF Change, Needed, Names
    <3>4. IsRow(q) => r.in = x
      BY <3>2 DEF IsRow, Place
    <3> QED
      BY <1>1, <3>1, <3>3, <3>4, OnlyUnknown
  <2>3. CASE s.do = "setStatus"
    <3>1. PICK q, x : q = v[s.id] /\ x = s.status
      OBVIOUS
    <3>2. PICK r : r = [q EXCEPT !.status = x]
      OBVIOUS
    <3>3. Change(v, s) = Only(s.id, r) /\ s.id \in DOMAIN v
      BY <1>2, <2>3, <3>1, <3>2 DEF Change, Needed
    <3>4. IsRow(q) => r.in = q.in
      BY <3>2 DEF IsRow, Place
    <3> QED
      BY <1>1, <3>1, <3>3, <3>4, OnlyUnknown
  <2>4. CASE s.do = "insert"
    <3>1. Change(v, s) = Only(s.id, s.row) /\ s.id # day /\ s.row.in # day
      BY <2>4 DEF Change, Names
    <3> QED
      BY <3>1, OnlyUnknown
  <2>5. CASE s.do = "bump"
    <3>1. \E r : Change(v, s) = Only(Itin, r)
      BY <2>5 DEF Change
    <3> QED
      BY <1>1, <3>1, OnlyUnknown
  <2>6. CASE s.do = "setRoute"
    <3>1. PICK x, w : x = s.route /\ w = Change(v, s)
      OBVIOUS
    <3>2. DOMAIN w = s.ids \intersect DOMAIN v /\ \A id \in DOMAIN w : w[id] = [v[id] EXCEPT !.route = x]
      BY <2>6, <3>1 DEF Change
    <3>3. ASSUME NEW id \in PlacesOf(w)
          PROVE  w[id].in # day
      <4>1. PICK q : q = v[id]
        OBVIOUS
      <4>2. IsRow(q) /\ q.in # day /\ w[id] = [q EXCEPT !.route = x]
        BY <1>1, <3>2, <4>1 DEF PlacesOf
      <4> QED
        BY <4>2 DEF IsRow, Place
    <3> QED
      BY <1>1, <3>1, <3>2, <3>3 DEF Unknown
  <2>7. CASE s.do = "shift"
    <3>1. PICK x, w : x = s.by /\ w = Change(v, s)
      OBVIOUS
    <3>2. DOMAIN w \subseteq DOMAIN v /\ \A id \in DOMAIN w : w[id] = [v[id] EXCEPT !.at = @ + x]
      BY <2>7, <3>1 DEF Change, Children
    <3>3. ASSUME NEW id \in PlacesOf(w)
          PROVE  w[id].in # day
      <4>1. PICK q : q = v[id]
        OBVIOUS
      <4>2. IsRow(q) /\ q.in # day /\ w[id] = [q EXCEPT !.at = @ + x]
        BY <1>1, <3>2, <4>1 DEF PlacesOf
      <4> QED
        BY <4>2 DEF IsRow, Place
    <3> QED
      BY <1>1, <3>1, <3>2, <3>3 DEF Unknown
  <2>8. CASE s.do \in {"delete", "deleteDays"}
    <3>1. Change(v, s) = << >>
      BY <2>8 DEF Change
    <3> QED
      BY <3>1, EmptyUnknown
  <2> QED
    BY <2>1, <2>2, <2>3, <2>4, <2>5, <2>6, <2>7, <2>8 DEF Sound, Reads
<1>3. Written(v, s) = IF Needed(s) \subseteq DOMAIN v THEN Change(v, s) ELSE << >>
  BY DEF Written
<1> QED
  BY <1>2, <1>3, EmptyUnknown

LEMMA OverlayUnknown ==
  ASSUME NEW day, NEW w, NEW own, Unknown(w, day), Unknown(own, day)
  PROVE  Unknown(Overlay(w, own), day)
<1>1. PICK z : z = Overlay(w, own)
  OBVIOUS
<1>2. DOMAIN z = DOMAIN w \union DOMAIN own /\ \A x \in DOMAIN z : z[x] = IF x \in DOMAIN w THEN w[x] ELSE own[x]
  BY <1>1 DEF Overlay
<1> QED
  BY <1>1, <1>2 DEF Unknown, PlacesOf

LEMMA SeenUnknown ==
  ASSUME NEW t, NEW rows, NEW day, Unknown(t.own, day), Unknown(rows, day)
  PROVE  Unknown(See(t, rows), day)
<1>1. PICK z : z = See(t, rows)
  OBVIOUS
<1>2. /\ DOMAIN z = (DOMAIN t.own \union DOMAIN rows) \ t.dropped
      /\ \A x \in DOMAIN z : z[x] = IF x \in DOMAIN t.own THEN t.own[x] ELSE rows[x]
  BY <1>1 DEF See
<1> QED
  BY <1>1, <1>2 DEF Unknown, PlacesOf

LEMMA TailUnnamed ==
  ASSUME NEW t, t # << >>, NEW day, Unnamed(t, day)
  PROVE  ~ Names(Head(t), day) /\ Unnamed(Tail(t), day)
<1>1. IsList(t)
  BY DEF Unnamed
<1>2. PICK n, r : n = Len(t) /\ r = Tail(t)
  OBVIOUS
<1>3. /\ n \in Nat /\ n > 0 /\ DOMAIN t = 1..n /\ Head(t) = t[1] /\ IsList(r) /\ Len(r) = n - 1
      /\ \A k \in 1..n - 1 : r[k] = t[k + 1]
  BY <1>1, <1>2, ListFacts
<1>4. DOMAIN r = 1..n - 1
  BY <1>3, ListFacts
<1>5. \A k \in DOMAIN r : k + 1 \in DOMAIN t /\ r[k] = t[k + 1]
  BY <1>3, <1>4
<1>6. 1 \in DOMAIN t
  BY <1>3
<1> QED
  BY <1>2, <1>3, <1>5, <1>6 DEF Unnamed

LEMMA NewRowsDiffer ==
  ASSUME NEW d \in Edits, NEW e \in Edits, NEW new \in NewRows(d)
  PROVE  /\ new \notin {Trip, Itin} \union OldDays \union OldItems
         /\ d # e => new # NewDay(e) /\ new # NewItem(e, 1) /\ new # NewItem(e, 2)
<1>1. new \notin {Trip, Itin} \union OldDays \union OldItems
  BY IdAssumption DEF NewRows
<1>2. ASSUME d # e
      PROVE  new # NewDay(e) /\ new # NewItem(e, 1) /\ new # NewItem(e, 2)
  BY <1>2 DEF NewRows, NewDay, NewItem
<1> QED
  BY <1>1, <1>2

\* What a transaction sees when it has executed a statement.
LEMMA SeenMoved ==
  ASSUME NEW t, NEW rows, NEW v, v = See(t, rows), NEW s,
         NEW r, r.own = Overlay(Written(v, s), t.own), r.dropped = t.dropped \union Deleted(v, s)
  PROVE  Moved(v, See(r, rows), s, t.dropped)
<1>1. PICK w, z, gone : w = Written(v, s) /\ z = See(r, rows) /\ gone = Deleted(v, s)
  OBVIOUS
<1>2. /\ DOMAIN v = (DOMAIN t.own \union DOMAIN rows) \ t.dropped
      /\ \A x \in DOMAIN v : v[x] = IF x \in DOMAIN t.own THEN t.own[x] ELSE rows[x]
  BY DEF See
<1>3. /\ DOMAIN z = (DOMAIN r.own \union DOMAIN rows) \ r.dropped
      /\ \A x \in DOMAIN z : z[x] = IF x \in DOMAIN r.own THEN r.own[x] ELSE rows[x]
  BY <1>1 DEF See
<1>4. /\ DOMAIN r.own = DOMAIN w \union DOMAIN t.own /\ r.dropped = t.dropped \union gone
      /\ \A x \in DOMAIN r.own : r.own[x] = IF x \in DOMAIN w THEN w[x] ELSE t.own[x]
  BY <1>1 DEF Overlay
<1>5. DOMAIN z = (DOMAIN v \union (DOMAIN w \ t.dropped)) \ gone
  BY <1>2, <1>3, <1>4
<1>6. ASSUME NEW x \in DOMAIN z
      PROVE  z[x] = IF x \in DOMAIN w THEN w[x] ELSE v[x]
  <2>1. CASE x \in DOMAIN w
    BY <1>3, <1>4, <2>1
  <2>2. CASE x \notin DOMAIN w
    BY <1>2, <1>3, <1>4, <1>5, <2>2
  <2> QED
    BY <2>1, <2>2
<1> QED
  BY <1>1, <1>5, <1>6 DEF Moved

(***************************************************************************)
(* One edit moves.                                                         *)
(***************************************************************************)
LEMMA RowsStayNew ==
  ASSUME RowsAreNew, NEW e \in Edits,
         \A u \in Edits \ {e} : SameTxn(edit[u], edit'[u]),
         Spent(e) => Spent(e)',
         \A d \in Edits : \A new \in NewRows(d) : ~ Spent(d)' /\ IsNew(d, new) => Unknown(table', new),
         \A d \in Edits \ {e} : \A new \in NewRows(d) : IsNew(d, new) => Blind(edit'[e], new)
  PROVE  RowsAreNew'
<1>1. SUFFICES ASSUME NEW d \in Edits, ~ Spent(d)', NEW new \in NewRows(d)
               PROVE  /\ Unknown(table', new)
                      /\ \A u \in Edits \ {d} : Blind(edit'[u], new)
  BY DEF RowsAreNew, IsNew
<1>2. d # e => (Spent(d) <=> Spent(d)')
  BY DEF SameTxn, Spent
<1>3. ~ Spent(d)
  BY <1>1, <1>2
<1>4. IsNew(d, new)
  BY <1>3 DEF RowsAreNew
<1>5. Unknown(table', new)
  BY <1>1, <1>4
<1>6. ASSUME NEW u \in Edits \ {d}
      PROVE  Blind(edit'[u], new)
  <2>1. CASE u = e
    BY <1>4, <2>1
  <2>2. CASE u # e
    <3>1. Blind(edit[u], new) /\ SameTxn(edit[u], edit'[u])
      BY <1>4, <2>2 DEF IsNew
    <3> QED
      BY <3>1 DEF Blind, SameTxn
  <2> QED
    BY <2>1, <2>2
<1> QED
  BY <1>5, <1>6

LEMMA LonesStaySmooth ==
  ASSUME LonesAreSmooth, NEW e \in Edits, Active(e),
         \A u \in Edits \ {e} : edit'[u] = edit[u],
         edit'[e].alone => edit[e].alone,
         edit'[e].alone /\ edit'[e].phase = "open" /\ edit'[e].op.kind # "reuseItem" =>
           Smooth(e, See(edit'[e], table'), edit'[e].todo, edit'[e].dropped)
  PROVE  LonesAreSmooth'
<1>1. SUFFICES ASSUME NEW d \in Edits, edit'[d].alone, Active(d)'
               PROVE  /\ \A u \in Edits \ {d} : ~ Active(u)'
                      /\ edit'[d].phase = "open" /\ edit'[d].op.kind # "reuseItem" =>
                           Smooth(d, See(edit'[d], table'), edit'[d].todo, edit'[d].dropped)
  BY DEF LonesAreSmooth
<1>2. \A u \in Edits \ {e} : Active(u)' <=> Active(u)
  BY DEF Active
<1>3. d = e
  <2>1. SUFFICES ASSUME d # e PROVE FALSE
    OBVIOUS
  <2>2. edit[d].alone /\ Active(d)
    BY <1>1, <1>2, <2>1
  <2>3. ~ Active(e)
    BY <2>1, <2>2 DEF LonesAreSmooth
  <2> QED
    BY <2>3
<1>4. \A u \in Edits \ {e} : ~ Active(u)
  BY <1>1, <1>3 DEF LonesAreSmooth
<1> QED
  BY <1>1, <1>2, <1>3, <1>4

LEMMA EmptyUnnamed ==
  ASSUME NEW day
  PROVE  Unnamed(<< >>, day)
<1>1. << >> \in Seq({})
  OBVIOUS
<1> QED
  BY <1>1, UnnamedSeq

\* An edit that holds nothing, with nothing to do, and not at a day of another.
LEMMA EmptyBlind ==
  ASSUME NEW t, t.own = << >>, t.todo = << >>, NEW day, t.op.kind = "reuseItem" => t.op.day # day
  PROVE  Blind(t, day)
BY EmptyUnknown, EmptyUnnamed DEF Blind

LEMMA UndoneLone ==
  ASSUME EditsInv, LoneInv, NEW e \in Edits, Active(e), UNCHANGED table, edit' = Undone(e)
  PROVE  LoneInv'
<1>1. DOMAIN edit = Edits /\ \A u \in Edits : DOMAIN edit[u] = Fields
  BY DEF EditsInv
<1>2. \A u \in Edits \ {e} : edit'[u] = edit[u] /\ SameTxn(edit[u], edit'[u])
  BY <1>1 DEF Undone, SameTxn
<1>3. PICK r : r = edit'[e]
  OBVIOUS
<1>4. r = [Idle EXCEPT !.phase = "failed"]
  BY <1>1, <1>3 DEF Undone
<1>5. r.phase = "failed" /\ r.own = << >> /\ r.todo = << >> /\ r.op = [kind |-> "none"]
  BY <1>4 DEF Idle
<1>6. r.op.kind = "none"
  BY <1>5
<1>7. Spent(e)' /\ ~ Active(e)'
  BY <1>3, <1>5 DEF Spent, Active
<1>8. \A d \in Edits \ {e} : \A new \in NewRows(d) : Blind(edit'[e], new)
  BY <1>3, <1>5, <1>6, EmptyBlind
<1>9. \A d \in Edits : \A new \in NewRows(d) : IsNew(d, new) => Unknown(table', new)
  BY DEF IsNew
<1>10. RowsAreNew'
  BY <1>2, <1>7, <1>8, <1>9, RowsStayNew DEF LoneInv
<1>11. LonesAreSmooth'
  <2>1. SUFFICES ASSUME NEW d \in Edits, edit'[d].alone, Active(d)'
                 PROVE  FALSE
    BY DEF LonesAreSmooth
  <2>2. d # e /\ edit[d].alone /\ Active(d)
    BY <1>2, <1>7, <2>1 DEF Active
  <2>3. ~ Active(e)
    BY <2>2 DEF LoneInv, LonesAreSmooth
  <2> QED
    BY <2>3
<1> QED
  BY <1>10, <1>11 DEF LoneInv

(***************************************************************************)
(* Requests.                                                               *)
(***************************************************************************)
LEMMA EnterLone ==
  ASSUME EditsInv, LoneInv, NEW e \in Edits, edit[e].phase = "idle", UNCHANGED table,
         NEW phase \in {"asked", "begun"}, NEW op, Enter(e, phase, op),
         \A d \in Edits : \A new \in NewRows(d) : IsNew(d, new) /\ op.kind = "reuseItem" => op.day # new
  PROVE  LoneInv'
<1>1. DOMAIN edit = Edits /\ \A u \in Edits : DOMAIN edit[u] = Fields
  BY DEF EditsInv
<1>2. PICK alone : alone = \A w \in Edits \ {e} : ~ Active(w)
  OBVIOUS
<1>3. edit' = [u \in Edits |->
         IF u = e THEN [Idle EXCEPT !.phase = phase, !.op = op, !.alone = alone]
         ELSE IF Active(u) THEN [edit[u] EXCEPT !.alone = FALSE] ELSE edit[u]]
  BY <1>2 DEF Enter
<1>4. PICK r : r = edit'[e]
  OBVIOUS
<1>5. /\ r = [Idle EXCEPT !.phase = phase, !.op = op, !.alone = alone]
      /\ \A u \in Edits \ {e} : edit'[u] = IF Active(u) THEN [edit[u] EXCEPT !.alone = FALSE] ELSE edit[u]
  BY <1>3, <1>4
<1>6. /\ r.own = << >> /\ r.todo = << >> /\ r.dropped = {} /\ r.phase = phase /\ r.op = op
      /\ r.alone = alone
  BY <1>5 DEF Idle
<1>7. ASSUME NEW u \in Edits \ {e}
      PROVE  SameTxn(edit[u], edit'[u]) /\ (Active(u) => edit'[u].alone = FALSE)
  <2>1. PICK t : t = edit[u] /\ DOMAIN t = Fields
    BY <1>1
  <2>2. edit'[u] = IF Active(u) THEN [t EXCEPT !.alone = FALSE] ELSE t
    BY <1>5, <2>1
  <2>3. /\ [t EXCEPT !.alone = FALSE].alone = FALSE
        /\ SameTxn(t, [t EXCEPT !.alone = FALSE]) /\ SameTxn(t, t)
    BY <2>1 DEF SameTxn, Fields
  <2> QED
    BY <2>1, <2>2, <2>3
<1>8. ~ Spent(e)
  BY DEF Spent
<1>9. \A d \in Edits : \A new \in NewRows(d) : IsNew(d, new) => Blind(edit'[e], new)
  BY <1>4, <1>6, EmptyBlind
<1>10. \A d \in Edits : \A new \in NewRows(d) : IsNew(d, new) => Unknown(table', new)
  BY DEF IsNew
<1>11. RowsAreNew'
  BY <1>7, <1>8, <1>9, <1>10, RowsStayNew DEF LoneInv
<1>12. \A u \in Edits \ {e} : Active(u)' <=> Active(u)
  BY <1>7 DEF SameTxn, Active
<1>13. ASSUME NEW d \in Edits, edit'[d].alone, Active(d)'
       PROVE  d = e /\ edit'[d].phase # "open" /\ \A u \in Edits \ {d} : ~ Active(u)'
  <2>1. d = e
    BY <1>7, <1>12, <1>13
  <2>2. alone
    BY <1>4, <1>6, <1>13, <2>1
  <2>3. \A w \in Edits \ {e} : ~ Active(w)
    BY <1>2, <2>2
  <2> QED
    BY <1>4, <1>6, <1>12, <2>1, <2>3
<1>14. LonesAreSmooth'
  BY <1>13 DEF LonesAreSmooth
<1> QED
  BY <1>11, <1>14 DEF LoneInv

LEMMA HandEditLone ==
  ASSUME EditsInv, LoneInv, NEW e \in Edits, BeginHandEdit(e)
  PROVE  LoneInv'
<1>1. PICK op \in HandOps : op.kind \in Kinds /\ Enter(e, "begun", op)
  BY DEF BeginHandEdit
<1>2. UNCHANGED table /\ edit[e].phase = "idle"
  BY DEF BeginHandEdit
<1>3. op.kind # "reuseItem"
  BY DEF HandOps, Op, AddKinds
<1> QED
  BY <1>1, <1>2, <1>3, EnterLone

LEMMA StatusEditLone ==
  ASSUME EditsInv, LoneInv, NEW e \in Edits, BeginStatusEdit(e)
  PROVE  LoneInv'
<1>1. PICK kind \in StatusKinds : Enter(e, "begun", Op(kind, None, None, table[Trip].status, 0))
  BY DEF BeginStatusEdit
<1>2. PICK op : op = Op(kind, None, None, table[Trip].status, 0)
  OBVIOUS
<1>3. op.kind # "reuseItem"
  BY <1>1, <1>2 DEF Op, StatusKinds
<1>4. UNCHANGED table /\ edit[e].phase = "idle"
  BY DEF BeginStatusEdit
<1> QED
  BY <1>1, <1>2, <1>3, <1>4, EnterLone

LEMMA AskReuseLone ==
  ASSUME EditsInv, LoneInv, NEW e \in Edits, AskReuse(e)
  PROVE  LoneInv'
<1>1. WellFormed(table) /\ UNCHANGED table /\ edit[e].phase = "idle"
  BY DEF EditsInv, AskReuse
<1>2. PICK days : days = InOrder(table, Itin)
  OBVIOUS
<1>3. \A k \in DOMAIN days : days[k] \in DOMAIN table
  <2>1. \A k \in DOMAIN days : days[k] \in Children(table, Itin)
    BY <1>1, <1>2, ChildrenListed DEF InOrder
  <2> QED
    BY <2>1 DEF Children
<1>4. ASSUME NEW index, Enter(e, "asked", Op("reuseDay", None, None, index, 1))
      PROVE  LoneInv'
  <2>1. PICK op : op = Op("reuseDay", None, None, index, 1)
    OBVIOUS
  <2>2. op.kind # "reuseItem"
    BY <2>1 DEF Op
  <2> QED
    BY <1>1, <1>4, <2>1, <2>2, EnterLone
<1>5. ASSUME NEW position, NEW copies, NEW k \in DOMAIN days,
             Enter(e, "asked", Op("reuseItem", None, days[k], position, copies))
      PROVE  LoneInv'
  <2>1. PICK op : op = Op("reuseItem", None, days[k], position, copies)
    OBVIOUS
  <2>2. op.day = days[k]
    BY <2>1 DEF Op
  <2>3. \A d \in Edits : \A new \in NewRows(d) : IsNew(d, new) => op.day # new
    BY <1>3, <2>2 DEF IsNew, Unknown
  <2> QED
    BY <1>1, <1>5, <2>1, <2>3, EnterLone
<1>6. \/ \E index : Enter(e, "asked", Op("reuseDay", None, None, index, 1))
      \/ \E k \in DOMAIN days : \E copies, position :
           Enter(e, "asked", Op("reuseItem", None, days[k], position, copies))
  BY <1>2 DEF AskReuse
<1> QED
  BY <1>4, <1>5, <1>6

LEMMA BeginAskedLone ==
  ASSUME EditsInv, LoneInv, NEW e \in Edits, BeginAsked(e)
  PROVE  LoneInv'
<1>1. PICK t : t = edit[e] /\ DOMAIN t = Fields
  BY DEF EditsInv
<1>2. PICK phase \in {"begun", "failed"} : edit' = [edit EXCEPT ![e].phase = phase]
  BY DEF BeginAsked
<1>3. UNCHANGED table /\ t.phase = "asked" /\ Active(e)
  BY <1>1 DEF BeginAsked, Active
<1>4. DOMAIN edit = Edits
  BY DEF EditsInv
<1>5. PICK r : r = edit'[e]
  OBVIOUS
<1>6. r = [t EXCEPT !.phase = phase]
  BY <1>1, <1>2, <1>4, <1>5
<1>7. r.phase = phase /\ r.own = t.own /\ r.todo = t.todo /\ r.op = t.op /\ r.alone = t.alone
  BY <1>1, <1>6 DEF Fields
<1>8. \A u \in Edits \ {e} : edit'[u] = edit[u] /\ SameTxn(edit[u], edit'[u])
  BY <1>2, <1>4 DEF SameTxn
<1>9. Spent(e) => Spent(e)'
  BY <1>1, <1>3, <1>5, <1>7 DEF Spent
<1>10. \A d \in Edits \ {e} : \A new \in NewRows(d) : IsNew(d, new) => Blind(edit'[e], new)
  BY <1>1, <1>5, <1>7 DEF IsNew, Blind
<1>11. \A d \in Edits : \A new \in NewRows(d) : IsNew(d, new) => Unknown(table', new)
  BY <1>3 DEF IsNew
<1>12. RowsAreNew'
  BY <1>8, <1>9, <1>10, <1>11, RowsStayNew DEF LoneInv
<1>13. LonesAreSmooth'
  BY <1>1, <1>3, <1>5, <1>7, <1>8, LonesStaySmooth DEF LoneInv
<1> QED
  BY <1>12, <1>13 DEF LoneInv

(***************************************************************************)
(* The opening reads.                                                      *)
(***************************************************************************)
LEMMA UnspentDay ==
  ASSUME LoneInv, NEW e \in Edits, edit[e].phase \in {"begun", "open"}, edit[e].op.kind # "route"
  PROVE  Unknown(table, NewDay(e))
<1>1. ~ Spent(e)
  BY DEF Spent
<1> QED
  BY <1>1 DEF LoneInv, RowsAreNew, IsNew, NewRows

LEMMA OthersRowsSpared ==
  ASSUME NEW e \in Edits, NEW d \in Edits \ {e}, NEW new \in NewRows(d), NEW v, Itin \in DOMAIN v,
         Unknown(v, new)
  PROVE  Spares(e, v, new)
BY NewRowsDiffer DEF Spares, Unknown

LEMMA PlanLone ==
  ASSUME EditsInv, LoneInv, NEW e \in Edits, Plan(e)
  PROVE  LoneInv'
<1>1. PICK t : t = edit[e] /\ DOMAIN t = Fields
  BY DEF EditsInv
<1>2. UNCHANGED table /\ t.phase = "begun" /\ Active(e)
  BY <1>1 DEF Plan, Active
<1>3. TxnOk(t, table) /\ DOMAIN edit = Edits
  BY <1>1 DEF EditsInv
<1>4. WellFormed(table) /\ t.own = << >> /\ t.dropped = {} /\ RequestOk(t.op)
  BY <1>2, <1>3 DEF TxnOk, EditsInv
<1>5. \/ edit' = Undone(e)
      \/ /\ Subjects(t.op) \subseteq DOMAIN table
         /\ \E todo \in Plans(e, table, t.op) :
              edit' = [edit EXCEPT ![e].phase = "open", ![e].todo = todo,
                                   ![e].before = OrdersBefore(table, t.op)]
  BY <1>1 DEF Plan
<1>6. ASSUME Subjects(t.op) \subseteq DOMAIN table, NEW todo \in Plans(e, table, t.op), NEW before,
             edit' = [edit EXCEPT ![e].phase = "open", ![e].todo = todo, ![e].before = before]
      PROVE  LoneInv'
  <2>1. PICK r : r = edit'[e]
    OBVIOUS
  <2>2. r = [t EXCEPT !.phase = "open", !.todo = todo, !.before = before]
    BY <1>1, <1>3, <1>6, <2>1
  <2>3. /\ r.phase = "open" /\ r.todo = todo /\ r.own = t.own /\ r.dropped = t.dropped
        /\ r.op = t.op /\ r.alone = t.alone
    BY <1>1, <2>2 DEF Fields
  <2>4. \A u \in Edits \ {e} : edit'[u] = edit[u] /\ SameTxn(edit[u], edit'[u])
    BY <1>3, <1>6 DEF SameTxn
  <2>5. Spent(e) => Spent(e)'
    BY <1>1, <1>2, <2>1, <2>3 DEF Spent
  <2>6. ASSUME NEW d \in Edits \ {e}, NEW new \in NewRows(d), IsNew(d, new)
        PROVE  Blind(edit'[e], new)
    <3>1. Unknown(table, new) /\ Blind(t, new)
      BY <1>1, <2>6 DEF IsNew
    <3>2. Spares(e, table, new)
      BY <1>4, <3>1, OthersRowsSpared DEF WellFormed
    <3>3. Unnamed(todo, new)
      BY <1>4, <1>6, <3>1, <3>2, PlansUnnamed DEF Blind
    <3> QED
      BY <2>1, <2>3, <3>1, <3>3 DEF Blind
  <2>7. RowsAreNew'
    <3>1. \A d \in Edits : \A new \in NewRows(d) : IsNew(d, new) => Unknown(table', new)
      BY <1>2 DEF IsNew
    <3> QED
      BY <2>4, <2>5, <2>6, <3>1, RowsStayNew DEF LoneInv
  <2>8. ASSUME r.op.kind # "reuseItem"
        PROVE  Smooth(e, See(r, table), r.todo, r.dropped)
    <3>1. t.op.kind # "route" => Unknown(table, NewDay(e))
      BY <1>1, <1>2, UnspentDay
    <3>2. Smooth(e, table, todo, {})
      BY <1>4, <1>6, <2>3, <2>8, <3>1, PlansSmooth
    <3>3. SameRows(table, See(r, table))
      BY <1>4, <2>3, NothingHeld DEF SameRows
    <3> QED
      BY <1>4, <2>3, <3>2, <3>3, SameSmooth
  <2>9. LonesAreSmooth'
    BY <1>1, <1>2, <2>1, <2>3, <2>4, <2>8, LonesStaySmooth DEF LoneInv
  <2> QED
    BY <2>7, <2>9 DEF LoneInv
<1> QED
  BY <1>2, <1>5, <1>6, UndoneLone

(***************************************************************************)
(* The next statement.                                                     *)
(***************************************************************************)
LEMMA LoneNow ==
  ASSUME LoneInv, NEW e \in Edits, edit[e].alone, edit[e].phase = "open", edit[e].op.kind # "reuseItem"
  PROVE  Smooth(e, See(edit[e], table), edit[e].todo, edit[e].dropped)
<1>1. Active(e)
  BY DEF Active
<1> QED
  BY <1>1 DEF LoneInv, LonesAreSmooth

\* What a writing statement leaves of the transaction.
LEMMA WriteChanges ==
  ASSUME EditsInv, NEW e \in Edits, Write(e), NEW t, t = edit[e], NEW s, s = Head(t.todo),
         NEW v, v = See(t, table), NEW w, w = Written(v, s), NEW r, r = edit'[e]
  PROVE  /\ \A u \in Edits \ {e} : edit'[u] = edit[u]
         /\ r.todo = Tail(t.todo)
         /\ r.own = Overlay(w, t.own) /\ r.dropped = t.dropped \union Deleted(v, s)
         /\ r.phase = t.phase /\ r.op = t.op /\ r.alone = t.alone /\ r.before = t.before
<1>1. DOMAIN edit = Edits /\ DOMAIN t = Fields
  BY DEF EditsInv
<1>2. View(e) = v /\ Next1(e) = s
  BY ViewIsSeen DEF Next1
<1>3. PICK todo, own, dropped, parents :
        /\ todo = Tail(edit[e].todo) /\ own = Overlay(Written(v, s), edit[e].own)
        /\ dropped = edit[e].dropped \union Deleted(v, s)
        /\ parents = edit[e].parents \union Referred(s)
  OBVIOUS
<1>4. edit' = [edit EXCEPT ![e].todo = Tail(@),
                           ![e].own = Overlay(Written(v, s), @),
                           ![e].dropped = @ \union Deleted(v, s),
                           ![e].parents = @ \union Referred(s)]
  BY <1>2 DEF Write
<1>5. edit' = [edit EXCEPT ![e] = [t EXCEPT !.todo = todo, !.own = own, !.dropped = dropped,
                                            !.parents = parents]]
  BY <1>1, <1>3, <1>4 DEF Fields
<1>6. r = [t EXCEPT !.todo = todo, !.own = own, !.dropped = dropped, !.parents = parents]
  BY <1>1, <1>5
<1>7. \A u \in Edits \ {e} : edit'[u] = edit[u]
  BY <1>1, <1>5
<1>8. /\ r.todo = todo /\ r.own = own /\ r.dropped = dropped
      /\ r.phase = t.phase /\ r.op = t.op /\ r.alone = t.alone /\ r.before = t.before
  BY <1>1, <1>6 DEF Fields
<1> QED
  BY <1>3, <1>7, <1>8

LEMMA ReadLone ==
  ASSUME EditsInv, LoneInv, NEW e \in Edits, Read(e)
  PROVE  LoneInv'
<1>1. PICK t : t = edit[e] /\ DOMAIN t = Fields
  BY DEF EditsInv
<1>2. PICK s : s = Head(t.todo)
  OBVIOUS
<1>3. UNCHANGED table /\ t.phase = "open" /\ t.todo # << >> /\ s.do \in Reads /\ Active(e)
  BY <1>1, <1>2 DEF Read, Pending, Next1, Active
<1>4. WellFormed(table) /\ TxnOk(t, table) /\ DOMAIN edit = Edits
  BY <1>1 DEF EditsInv
<1>5. PICK x : x = Expansion(e, s)
  OBVIOUS
<1>6. PICK rest, todo : rest = Tail(t.todo) /\ todo = x \o rest
  OBVIOUS
<1>7. edit' = [edit EXCEPT ![e].todo = todo]
  <2>1. edit' = [edit EXCEPT ![e].todo = Expansion(e, Next1(e)) \o Tail(@)]
    BY DEF Read
  <2>2. edit' = [edit EXCEPT ![e].todo = Expansion(e, Next1(e)) \o Tail(edit[e].todo)]
    BY <1>4, <2>1
  <2> QED
    BY <1>1, <1>2, <1>5, <1>6, <2>2 DEF Next1
<1>8. PICK v : v = See(t, table)
  OBVIOUS
<1>9. View(e) = v /\ Typed(v) /\ KeysAreUnique(v)
  BY <1>1, <1>4, <1>8, SeenTyped, ViewIsSeen DEF TxnOk
<1>10. Legal(t.todo) /\ Sound(s)
  <2>1. Legal(t.todo)
    BY <1>3, <1>4 DEF TxnOk
  <2>2. 1 \in DOMAIN t.todo /\ s = t.todo[1]
    BY <1>2, <1>3, <2>1, ListFacts DEF Legal
  <2> QED
    BY <2>1, <2>2 DEF Legal
<1>11. PICK r : r = edit'[e]
  OBVIOUS
<1>12. r = [t EXCEPT !.todo = todo]
  BY <1>1, <1>4, <1>7, <1>11
<1>13. /\ r.phase = t.phase /\ r.todo = todo /\ r.own = t.own /\ r.dropped = t.dropped
       /\ r.op = t.op /\ r.alone = t.alone
  BY <1>1, <1>12 DEF Fields
<1>14. \A u \in Edits \ {e} : edit'[u] = edit[u] /\ SameTxn(edit[u], edit'[u])
  BY <1>4, <1>7 DEF SameTxn
<1>15. Spent(e) => Spent(e)'
  BY <1>1, <1>11, <1>13 DEF Spent
<1>16. ASSUME NEW d \in Edits \ {e}, NEW new \in NewRows(d), IsNew(d, new)
       PROVE  Blind(edit'[e], new)
  <2>1. Blind(t, new)
    BY <1>1, <1>16 DEF IsNew
  <2>2. Unnamed(rest, new)
    BY <1>3, <1>6, <2>1, TailUnnamed DEF Blind
  <2>3. Unnamed(x, new)
    BY <1>3, <1>5, <1>9, <1>10, ExpansionUnnamed
  <2>4. Unnamed(todo, new)
    BY <1>6, <2>2, <2>3, UnnamedJoined
  <2> QED
    BY <1>11, <1>13, <2>1, <2>4 DEF Blind
<1>17. RowsAreNew'
  <2>1. \A d \in Edits : \A new \in NewRows(d) : IsNew(d, new) => Unknown(table', new)
    BY <1>3 DEF IsNew
  <2> QED
    BY <1>14, <1>15, <1>16, <2>1, RowsStayNew DEF LoneInv
<1>18. ASSUME r.alone, r.op.kind # "reuseItem"
       PROVE  Smooth(e, See(r, table), r.todo, r.dropped)
  <2>1. Smooth(e, v, t.todo, t.dropped)
    BY <1>1, <1>3, <1>8, <1>13, <1>18, LoneNow
  <2>2. Flow(v, t.todo, t.dropped)
    BY <1>2, <1>3, <1>9, <2>1, SmoothReads
  <2>3. Unfolds(v, s, x)
    BY <1>2, <1>3, <1>5, <1>9, <1>10, <2>2, UnfoldingReads
  <2>4. Flow(v, todo, t.dropped)
    BY <1>2, <1>3, <1>6, <1>10, <2>2, <2>3, FlowReads
  <2>5. See(r, table) = v
    BY <1>8, <1>13 DEF See
  <2> QED
    BY <1>13, <2>4, <2>5 DEF Smooth
<1>19. LonesAreSmooth'
  BY <1>1, <1>3, <1>11, <1>13, <1>14, <1>18, LonesStaySmooth DEF LoneInv
<1> QED
  BY <1>17, <1>19 DEF LoneInv

LEMMA WriteLone ==
  ASSUME EditsInv, LoneInv, NEW e \in Edits, Write(e)
  PROVE  LoneInv'
<1>1. PICK t : t = edit[e] /\ DOMAIN t = Fields
  BY DEF EditsInv
<1>2. PICK s, v, w : s = Head(t.todo) /\ v = See(t, table) /\ w = Written(v, s)
  OBVIOUS
<1>3. View(e) = v /\ Next1(e) = s
  BY <1>1, <1>2, ViewIsSeen DEF Next1
<1>4. /\ UNCHANGED table /\ t.phase = "open" /\ t.todo # << >> /\ s.do \notin Reads
      /\ Needed(s) \subseteq DOMAIN v /\ ~ Collides(e, s) /\ Active(e)
  BY <1>1, <1>3 DEF Write, Pending, Missing, Active
<1>5. WellFormed(table) /\ TxnOk(t, table) /\ DOMAIN edit = Edits
  BY <1>1 DEF EditsInv
<1>6. PICK r : r = edit'[e]
  OBVIOUS
<1>7. /\ \A u \in Edits \ {e} : edit'[u] = edit[u]
      /\ r.phase = t.phase /\ r.op = t.op /\ r.todo = Tail(t.todo) /\ r.alone = t.alone
      /\ r.own = Overlay(w, t.own) /\ r.dropped = t.dropped \union Deleted(v, s)
  BY <1>1, <1>2, <1>6, WriteChanges
<1>8. \A u \in Edits \ {e} : edit'[u] = edit[u] /\ SameTxn(edit[u], edit'[u])
  BY <1>7 DEF SameTxn
<1>9. \A i \in PlacesOf(w), j \in PlacesOf(v) \ DOMAIN w : Key(w[i]) # Key(v[j])
  BY <1>2, <1>3, <1>4 DEF Collides
<1>10. /\ Typed(v) /\ KeysAreUnique(v) /\ Trip \in DOMAIN v /\ Itin \in DOMAIN v
       /\ Legal(t.todo) /\ Sound(s)
  <2>1. Legal(t.todo)
    BY <1>4, <1>5 DEF TxnOk
  <2>2. 1 \in DOMAIN t.todo /\ s = t.todo[1]
    BY <1>2, <1>4, <2>1, ListFacts DEF Legal
  <2>3. Sound(s)
    BY <2>1, <2>2 DEF Legal
  <2>4. KeysAreUnique(v)
    BY <1>2, <1>5 DEF TxnOk
  <2>5. Typed(v) /\ Trip \in DOMAIN v /\ Itin \in DOMAIN v
    BY <1>2, <1>5, SeenTyped
  <2> QED
    BY <2>1, <2>3, <2>4, <2>5
<1>11. Spent(e) => Spent(e)'
  BY <1>1, <1>6, <1>7 DEF Spent
<1>12. ASSUME NEW d \in Edits \ {e}, NEW new \in NewRows(d), IsNew(d, new)
       PROVE  Blind(edit'[e], new)
  <2>1. Blind(t, new) /\ Unknown(table, new)
    BY <1>1, <1>12 DEF IsNew
  <2>2. ~ Names(s, new) /\ Unnamed(Tail(t.todo), new)
    BY <1>2, <1>4, <2>1, TailUnnamed DEF Blind
  <2>3. Unknown(v, new)
    BY <1>2, <2>1, SeenUnknown DEF Blind
  <2>4. Unknown(w, new)
    BY <1>2, <1>4, <1>10, <2>2, <2>3, WrittenUnknown
  <2>5. Unknown(r.own, new)
    BY <1>7, <2>1, <2>4, OverlayUnknown DEF Blind
  <2> QED
    BY <1>6, <1>7, <2>1, <2>2, <2>5 DEF Blind
<1>13. RowsAreNew'
  <2>1. \A d \in Edits : \A new \in NewRows(d) : IsNew(d, new) => Unknown(table', new)
    BY <1>4 DEF IsNew
  <2> QED
    BY <1>8, <1>11, <1>12, <2>1, RowsStayNew DEF LoneInv
<1>14. Typed(See(r, table))
  <2>1. TxnOk(r, table)
    BY <1>2, <1>4, <1>5, <1>7, <1>9, WriteIsOk
  <2> QED
    BY <1>5, <2>1, SeenTyped
<1>15. Moved(v, See(r, table), s, t.dropped)
  BY <1>2, <1>7, SeenMoved
<1>16. ASSUME r.alone, r.op.kind # "reuseItem"
       PROVE  Smooth(e, See(r, table), r.todo, r.dropped)
  <2>1. Smooth(e, v, t.todo, t.dropped)
    BY <1>1, <1>2, <1>4, <1>7, <1>16, LoneNow
  <2>2. PICK v2 : v2 = See(r, table)
    OBVIOUS
  <2>3. Smooth(e, v2, Tail(t.todo), t.dropped \union Deleted(v, s))
    BY <1>2, <1>4, <1>10, <1>14, <1>15, <2>1, <2>2, SmoothWrites
  <2> QED
    BY <1>7, <2>2, <2>3
<1>17. LonesAreSmooth'
  BY <1>1, <1>4, <1>6, <1>7, <1>16, LonesStaySmooth DEF LoneInv
<1> QED
  BY <1>13, <1>17 DEF LoneInv

(***************************************************************************)
(* Commit.                                                                 *)
(***************************************************************************)
LEMMA CommitLone ==
  ASSUME EditsInv, LoneInv, NEW e \in Edits, Commit(e)
  PROVE  LoneInv'
<1>1. PICK t, v : t = edit[e] /\ v = See(t, table)
  OBVIOUS
<1>2. table' = v /\ t.phase = "open" /\ Active(e) /\ DOMAIN edit = Edits
  BY <1>1, ViewIsSeen DEF Commit, Active, EditsInv
<1>3. PICK r : r = edit'[e]
  OBVIOUS
<1>4. /\ \A u \in Edits \ {e} : edit'[u] = edit[u]
      /\ r.own = << >> /\ r.todo = << >> /\ r.op.kind # "reuseItem" /\ r.phase # "open"
      /\ r.phase = "done" \/ (r.phase = "asked" /\ r.op.kind = "route")
      /\ r.phase = "asked" => (r.alone => t.alone)
  <2>1. CASE edit' = [edit EXCEPT ![e] = [Idle EXCEPT !.phase = "done"]]
    <3>1. r = [Idle EXCEPT !.phase = "done"]
      BY <1>2, <1>3, <2>1
    <3>2. r.own = << >> /\ r.todo = << >> /\ r.phase = "done" /\ r.op = [kind |-> "none"]
      BY <3>1 DEF Idle
    <3>3. r.op.kind = "none"
      BY <3>2
    <3> QED
      BY <1>2, <2>1, <3>2, <3>3
  <2>2. ASSUME NEW op \in RouteAfter(e), NEW alone, alone = edit[e].alone,
               edit' = [edit EXCEPT ![e] = [Idle EXCEPT !.phase = "asked", !.op = op, !.alone = alone]]
        PROVE  /\ \A u \in Edits \ {e} : edit'[u] = edit[u]
               /\ r.own = << >> /\ r.todo = << >> /\ r.phase = "asked" /\ r.op.kind = "route"
               /\ r.alone => t.alone
    <3>1. r = [Idle EXCEPT !.phase = "asked", !.op = op, !.alone = alone]
      BY <1>2, <1>3, <2>2
    <3>2. r.own = << >> /\ r.todo = << >> /\ r.phase = "asked" /\ r.op = op /\ r.alone = alone
      BY <3>1 DEF Idle
    <3>3. \E id, day, slot : op = Op("route", id, day, slot, 0)
      BY <2>2 DEF RouteAfter
    <3>4. op.kind = "route"
      BY <3>3 DEF Op
    <3> QED
      BY <1>1, <1>2, <2>2, <3>2, <3>4
  <2>3. \/ edit' = [edit EXCEPT ![e] = [Idle EXCEPT !.phase = "done"]]
        \/ \E op \in RouteAfter(e) :
             edit' = [edit EXCEPT ![e] = [Idle EXCEPT !.phase = "asked", !.op = op,
                                                      !.alone = edit[e].alone]]
    BY DEF Commit
  <2> QED
    BY <2>1, <2>2, <2>3
<1>5. \A u \in Edits \ {e} : SameTxn(edit[u], edit'[u])
  BY <1>4 DEF SameTxn
<1>6. Spent(e)'
  BY <1>3, <1>4 DEF Spent
<1>7. \A d \in Edits \ {e} : \A new \in NewRows(d) : Blind(edit'[e], new)
  BY <1>3, <1>4, EmptyBlind
<1>8. ASSUME NEW d \in Edits, NEW new \in NewRows(d), ~ Spent(d)', IsNew(d, new)
      PROVE  Unknown(table', new)
  <2>1. d # e
    BY <1>6, <1>8
  <2>2. Unknown(table, new) /\ Unknown(t.own, new)
    BY <1>1, <1>8, <2>1 DEF IsNew, Blind
  <2> QED
    BY <1>1, <1>2, <2>2, SeenUnknown
<1>9. RowsAreNew'
  BY <1>5, <1>6, <1>7, <1>8, RowsStayNew DEF LoneInv
<1>10. LonesAreSmooth'
  <2>1. CASE r.phase = "asked"
    BY <1>1, <1>2, <1>3, <1>4, <2>1, LonesStaySmooth DEF LoneInv
  <2>2. CASE r.phase = "done"
    <3>1. SUFFICES ASSUME NEW d \in Edits, edit'[d].alone, Active(d)'
                   PROVE  FALSE
      BY DEF LonesAreSmooth
    <3>2. d # e /\ edit[d].alone /\ Active(d)
      BY <1>3, <1>4, <2>2, <3>1 DEF Active
    <3>3. ~ Active(e)
      BY <3>2 DEF LoneInv, LonesAreSmooth
    <3> QED
      BY <1>2, <3>3
  <2> QED
    BY <1>4, <2>1, <2>2
<1> QED
  BY <1>9, <1>10 DEF LoneInv

LEMMA LoneStart ==
  ASSUME EditsInit
  PROVE  LoneInv
<1>1. edit = [e \in Edits |-> Idle] /\ table \in Start
  BY DEF EditsInit
<1>2. \A e \in Edits : edit[e] = Idle
  BY <1>1
<1>3. Idle.own = << >> /\ Idle.todo = << >> /\ Idle.phase = "idle" /\ Idle.op.kind = "none"
  BY DEF Idle
<1>4. \A e \in Edits : ~ Active(e) /\ ~ Spent(e)
  BY <1>2, <1>3 DEF Active, Spent
<1>5. ASSUME NEW e \in Edits, NEW new \in NewRows(e)
      PROVE  IsNew(e, new)
  <2>1. /\ DOMAIN table \subseteq {Trip, Itin} \union OldDays \union OldItems
        /\ \A x \in PlacesOf(table) : table[x].in \in DOMAIN table
    BY <1>1, StartAssumption
  <2>2. new \notin DOMAIN table
    BY <2>1, NewRowsDiffer
  <2>3. Unknown(table, new)
    BY <2>1, <2>2 DEF Unknown
  <2>4. \A u \in Edits \ {e} : Blind(edit[u], new)
    BY <1>2, <1>3, EmptyBlind
  <2> QED
    BY <2>3, <2>4 DEF IsNew
<1> QED
  BY <1>4, <1>5 DEF LoneInv, RowsAreNew, LonesAreSmooth

LEMMA FailLone ==
  ASSUME EditsInv, LoneInv, NEW e \in Edits, Fail(e) \/ Abort(e)
  PROVE  LoneInv'
<1>1. Active(e) /\ UNCHANGED table /\ edit' = Undone(e)
  BY DEF Active, Fail, Pending, Abort
<1> QED
  BY <1>1, UndoneLone

LEMMA LoneStep ==
  ASSUME EditsInv, LoneInv, [EditsNext]_editVars
  PROVE  LoneInv'
<1>1. CASE UNCHANGED editVars
  BY <1>1 DEF editVars, LoneInv, RowsAreNew, LonesAreSmooth, Spent, Active, IsNew
<1>2. ASSUME NEW e \in Edits,
             \/ BeginHandEdit(e) \/ BeginStatusEdit(e) \/ AskReuse(e) \/ BeginAsked(e)
             \/ Plan(e) \/ Read(e) \/ Write(e) \/ Fail(e) \/ Commit(e) \/ Abort(e)
      PROVE  LoneInv'
  BY <1>2, HandEditLone, StatusEditLone, AskReuseLone, BeginAskedLone, PlanLone, ReadLone,
     WriteLone, FailLone, CommitLone
<1> QED
  BY <1>1, <1>2 DEF EditsNext

\* The next statement of a lone edit finds its rows, and its keys are free.
LEMMA LoneGoes ==
  ASSUME EditsInv, LoneInv, NEW e \in Edits, edit[e].alone, edit[e].op.kind # "reuseItem"
  PROVE  ~ Fail(e)
<1>1. SUFFICES ASSUME Fail(e) PROVE FALSE
  OBVIOUS
<1>2. PICK t, s, v : t = edit[e] /\ s = Head(t.todo) /\ v = See(t, table)
  OBVIOUS
<1>3. View(e) = v /\ Next1(e) = s
  BY <1>2, ViewIsSeen DEF Next1
<1>4. t.phase = "open" /\ t.todo # << >> /\ s.do \notin Reads
  BY <1>1, <1>2, <1>3 DEF Fail, Pending
<1>5. WellFormed(table) /\ TxnOk(t, table)
  BY <1>2 DEF EditsInv
<1>6. Smooth(e, v, t.todo, t.dropped)
  BY <1>2, <1>4, LoneNow
<1>7. Typed(v) /\ KeysAreUnique(v) /\ Trip \in DOMAIN v /\ Itin \in DOMAIN v
  BY <1>2, <1>5, SeenTyped DEF TxnOk
<1>8. Legal(t.todo)
  BY <1>4, <1>5 DEF TxnOk
<1>9. Goes(v, s)
  BY <1>2, <1>4, <1>6, <1>7, <1>8, SmoothGoes
<1>10. Missing(e, s) \/ Collides(e, s) \/ MayCollide(e, s)
  BY <1>1, <1>3 DEF Fail
<1>11. ~ Missing(e, s) /\ ~ Collides(e, s) /\ ~ MayCollide(e, s)
  BY <1>3, <1>9 DEF Goes, Missing, Collides, MayCollide
<1> QED
  BY <1>10, <1>11

\* What holds of a lone edit's remaining statements, in every state.
THEOREM LoneInvariant == EditsSpec => []LoneInv
BY LoneStart, LoneStep, EditsInvariant, PTL DEF EditsSpec

\* An edit that no other one overlaps never fails on a unique index or on a row that
\* is gone, whatever gaps or zero-based positions earlier edits have left and however
\* those ended: addDay, removeDay, moveItem, insertItemsTransactional, replace,
\* resequenceDayItems and the reuse of a day park, number and insert in an order in
\* which every row is there and every key is free.
THEOREM LoneTheorem == EditsSpec => AloneNeverFails
<1>1. EditsInv /\ LoneInv =>
        [\A e \in Edits : edit[e].alone /\ edit[e].op.kind # "reuseItem" => ~ Fail(e)]_editVars
  BY LoneGoes
<1> QED
  BY <1>1, EditsInvariant, LoneInvariant, PTL DEF AloneNeverFails

(***************************************************************************)
(* The routes of a lone edit. Between its first write and its last the     *)
(* edit disturbs the lists of some days; the days it will clear are those  *)
(* whose places may have a route, and their places keep the route they had *)
(* or go to another of them. When the lists are done, StaleRoutes compares *)
(* them with the order from before the first write.                        *)
(***************************************************************************)
\* The parents whose lists the edit may change: the days it will clear of stale
\* routes, the list of days and the day it may insert.
Cleared(t) == UNION {t[k].days : k \in {j \in DOMAIN t : t[j].do = "clear"}}
Busy(e, C) == {Itin, NewDay(e)} \union C

\* A statement that changes no other list, moves places only between days that will
\* be cleared and gives no place a route.
Within(e, v, s, C) ==
  /\ s.do \notin {"setRoute", "setStatus"}
  /\ s.do \in {"setAt", "insert", "delete", "place"} =>
       (s.id \in PlacesOf(v) => v[s.id].in \in Busy(e, C))
  /\ s.do = "setDay" =>
       /\ s.day \in C
       /\ s.id \in PlacesOf(v) =>
            v[s.id].in \in C \/ (v[s.id].in \in Busy(e, C) /\ v[s.id].route = None)
  /\ s.do \in {"shift", "resequence", "place"} => s.day \in Busy(e, C)
  /\ s.do = "insert" => s.row.in \in Busy(e, C) /\ s.row.route = None

\* The lists of other parents are as they were, as far as there is anything left.
OthersRest(v, rows, D) ==
  \A x \in PlacesOf(v) : v[x].in \notin D =>
    /\ x \in PlacesOf(rows) /\ rows[x].in = v[x].in /\ rows[x].at = v[x].at
    /\ \A y \in Children(rows, v[x].in) : y \in DOMAIN v /\ v[y].in = v[x].in

\* No place has got a route, or gone to a day that will not be cleared.
RoutesKept(v, rows, C) ==
  \A x \in PlacesOf(v) :
    \/ v[x].route = None
    \/ /\ x \in PlacesOf(rows) /\ v[x].route = rows[x].route
       /\ v[x].in = rows[x].in \/ {v[x].in, rows[x].in} \subseteq C

\* The edit has still to clear what it disturbs, and knows the routes from before.
Tending(e, v, t, before, rows) ==
  /\ Unknown(rows, NewDay(e))
  /\ \A k \in DOMAIN t : Within(e, v, t[k], Cleared(t))
  /\ \A k \in DOMAIN t : t[k].do = "clear" =>
       /\ before = RouteStartsOf(rows, t[k].days)
       /\ \A j \in DOMAIN t : k < j => t[j].do = "bump"
  /\ OthersRest(v, rows, Busy(e, Cleared(t)))
  /\ RoutesKept(v, rows, Cleared(t))

\* The lists are done: a route that was current is so, or the edit will write it.
Fits(v, s) ==
  \A x \in s.ids \intersect PlacesOf(v) :
    s.route = None \/ (Mapped(x) /\ s.route = RouteStarts(v, v[x].in)[x])
Settling(v, t, rows) ==
  /\ \A k \in DOMAIN t : /\ t[k].do \in {"bump", "setStatus", "setRoute"}
                         /\ t[k].do = "setRoute" => Fits(v, t[k])
  /\ \A x \in PlacesOf(v) \intersect PlacesOf(rows) :
       rows[x].in # Itin /\ RouteIsCurrent(rows, x) =>
         \/ RouteIsCurrent(v, x)
         \/ \E k \in DOMAIN t : t[k].do = "setRoute" /\ x \in t[k].ids

\* What a lone request was made from still holds.
RequestFits(op, rows) ==
  /\ op.kind = "removeDay" /\ op.id \in PlacesOf(rows) => rows[op.id].in = Itin
  /\ op.kind = "route" /\ op.id \in PlacesOf(rows) =>
       Mapped(op.id) /\ op.slot = RouteStarts(rows, rows[op.id].in)[op.id]

\* The inductive invariant of the routes.
Tended(e, t, rows) ==
  /\ t.phase \in {"asked", "begun"} => RequestFits(t.op, rows)
  /\ t.phase = "open" => \/ Tending(e, See(t, rows), t.todo, t.before, rows)
                         \/ Settling(See(t, rows), t.todo, rows)
RoutesTended == \A e \in Edits : edit[e].alone => Tended(e, edit[e], table)

(***************************************************************************)
(* Routes and lists.                                                       *)
(***************************************************************************)
\* The nearest earlier stops depend on the list of the day only.
LEMMA SameStarts ==
  ASSUME NEW v, Typed(v), KeysAreUnique(v), NEW w, NEW day, Children(w, day) = Children(v, day),
         \A x \in Children(v, day) : w[x].at = v[x].at
  PROVE  RouteStarts(w, day) = RouteStarts(v, day)
<1>1. PICK stops : stops = {id \in Children(v, day) : Mapped(id)}
  OBVIOUS
<1>2. Spread(v, stops) /\ \A x \in stops : w[x].at = v[x].at
  BY <1>1, ChildrenSpread DEF Typed
<1>3. Spread(w, stops)
  BY <1>2 DEF Spread
<1>4. ASSUME NEW x \in stops
      PROVE  Rank(w, stops, x) = Rank(v, stops, x)
  <2>1. {j \in stops : w[j].at < w[x].at} = {j \in stops : v[j].at < v[x].at}
    BY <1>2
  <2> QED
    BY <2>1 DEF Rank
<1>5. PICK a, b, n : a = Ordered(v, stops) /\ b = Ordered(w, stops) /\ n = Cardinality(stops)
  OBVIOUS
<1>6. /\ n \in Nat
      /\ \A i \in stops : Rank(v, stops, i) \in 1..n /\ a[Rank(v, stops, i)] = i
      /\ \A k \in 1..n : b[k] \in stops /\ Rank(w, stops, b[k]) = k
  <2>1. n \in Nat /\ \A i \in stops : Rank(v, stops, i) \in 1..n /\ a[Rank(v, stops, i)] = i
    BY <1>2, <1>5, OrderedLists
  <2>2. \A k \in 1..n : b[k] \in stops /\ Rank(w, stops, b[k]) = k
    BY <1>3, <1>5, OrderedLists
  <2> QED
    BY <2>1, <2>2
<1>7. \A k \in 1..n : b[k] = a[k]
  BY <1>4, <1>6
<1>8. ASSUME NEW id \in stops
      PROVE  (IF Rank(w, stops, id) = 1 THEN None ELSE b[Rank(w, stops, id) - 1])
               = (IF Rank(v, stops, id) = 1 THEN None ELSE a[Rank(v, stops, id) - 1])
  <2>1. PICK k : k = Rank(v, stops, id)
    OBVIOUS
  <2>2. Rank(w, stops, id) = k /\ k \in 1..n
    BY <1>4, <1>6, <2>1
  <2>3. k # 1 => b[k - 1] = a[k - 1]
    BY <1>6, <1>7, <2>2
  <2> QED
    BY <2>1, <2>2, <2>3
<1>9. /\ RouteStarts(v, day) = [id \in stops |-> IF Rank(v, stops, id) = 1 THEN None
                                                 ELSE a[Rank(v, stops, id) - 1]]
      /\ RouteStarts(w, day) = [id \in stops |-> IF Rank(w, stops, id) = 1 THEN None
                                                 ELSE b[Rank(w, stops, id) - 1]]
  BY <1>1, <1>5, Zenon DEF RouteStarts
<1>10. PICK f, g : /\ f = [id \in stops |-> IF Rank(v, stops, id) = 1 THEN None
                                            ELSE a[Rank(v, stops, id) - 1]]
                   /\ g = [id \in stops |-> IF Rank(w, stops, id) = 1 THEN None
                                            ELSE b[Rank(w, stops, id) - 1]]
  OBVIOUS
<1>11. \A id \in stops : f[id] = g[id]
  BY <1>8, <1>10
<1>12. f = g
  BY <1>10, <1>11
<1> QED
  BY <1>9, <1>10, <1>12

LEMMA StartsDomain ==
  ASSUME NEW v, NEW day
  PROVE  DOMAIN RouteStarts(v, day) = {id \in Children(v, day) : Mapped(id)}
BY DEF RouteStarts

\* The nearest earlier stops of several days: each stop is of one day.
LEMMA StartsOfDays ==
  ASSUME NEW v, NEW days
  PROVE  /\ DOMAIN RouteStartsOf(v, days) = {x \in PlacesOf(v) : Mapped(x) /\ v[x].in \in days}
         /\ \A x \in PlacesOf(v) : Mapped(x) /\ v[x].in \in days =>
              RouteStartsOf(v, days)[x] = RouteStarts(v, v[x].in)[x]
<1>1. PICK starts : starts = [d \in days |-> RouteStarts(v, d)]
  OBVIOUS
<1>2. \A d \in days : starts[d] = RouteStarts(v, d) /\ DOMAIN starts[d] = {x \in Children(v, d) : Mapped(x)}
  BY <1>1, StartsDomain
<1>3. PICK stops : stops = UNION {DOMAIN starts[d] : d \in days}
  OBVIOUS
<1>4. RouteStartsOf(v, days) = [id \in stops |-> starts[CHOOSE d \in days : id \in DOMAIN starts[d]][id]]
  BY <1>1, <1>3, Zenon DEF RouteStartsOf
<1>5. \A d \in days : \A x : x \in DOMAIN starts[d] <=> x \in PlacesOf(v) /\ v[x].in = d /\ Mapped(x)
  BY <1>2 DEF Children, PlacesOf
<1>6. stops = {x \in PlacesOf(v) : Mapped(x) /\ v[x].in \in days}
  BY <1>3, <1>5
<1>7. ASSUME NEW x \in stops
      PROVE  RouteStartsOf(v, days)[x] = RouteStarts(v, v[x].in)[x]
  <2>1. PICK d : d = CHOOSE y \in days : x \in DOMAIN starts[y]
    OBVIOUS
  <2>2. \E y \in days : x \in DOMAIN starts[y]
    BY <1>3
  <2>3. d \in days /\ x \in DOMAIN starts[d]
    BY <2>1, <2>2
  <2>4. d = v[x].in
    BY <1>5, <2>3
  <2>5. RouteStartsOf(v, days)[x] = starts[d][x]
    BY <1>4, <2>1
  <2> QED
    BY <1>2, <2>3, <2>4, <2>5
<1>8. DOMAIN RouteStartsOf(v, days) = stops
  BY <1>4
<1> QED
  BY <1>6, <1>7, <1>8

\* What a writing statement does to the places it writes.
WritesPlaces(v, s, w) ==
  /\ s.do \in {"bump", "delete", "deleteDays"} => PlacesOf(w) = {}
  /\ s.do = "insert" => \A x \in PlacesOf(w) : x = s.id /\ w[x] = s.row
  /\ s.do # "insert" => PlacesOf(w) \subseteq PlacesOf(v)
  /\ s.do \in {"setAt", "setDay"} => \A x \in PlacesOf(w) : x = s.id
  /\ s.do \in {"setAt", "shift", "setStatus", "setRoute"} => \A x \in PlacesOf(w) : w[x].in = v[x].in
  /\ s.do \in {"setStatus", "setRoute"} => \A x \in PlacesOf(w) : w[x].at = v[x].at
  /\ s.do = "setDay" => \A x \in PlacesOf(w) : w[x].in = s.day
  /\ s.do = "shift" => \A x \in PlacesOf(w) : v[x].in = s.day
  /\ s.do \in {"setAt", "setDay", "shift", "setStatus"} => \A x \in PlacesOf(w) : w[x].route = v[x].route
  /\ s.do = "setRoute" => /\ s.ids \intersect PlacesOf(v) = PlacesOf(w)
                          /\ \A x \in PlacesOf(w) : w[x].route = s.route

LEMMA WrittenPlaces ==
  ASSUME NEW v, Typed(v), NEW s, Sound(s), s.do \notin Reads, Needed(s) \subseteq DOMAIN v,
         NEW w, w = Written(v, s)
  PROVE  WritesPlaces(v, s, w)
<1> USE DEF WritesPlaces
<1>1. w = Change(v, s) /\ \A x \in PlacesOf(v) : IsRow(v[x])
  BY DEF Written, Typed
<1>2. \A id, r : PlacesOf(Only(id, r)) \subseteq {id} /\ Only(id, r)[id] = r /\ DOMAIN Only(id, r) = {id}
  BY DEF Only, PlacesOf
<1>3. CASE s.do = "setAt"
  <2>1. PICK q, y, r : q = v[s.id] /\ y = s.at /\ r = [q EXCEPT !.at = y]
    OBVIOUS
  <2>2. w = Only(s.id, r) /\ s.id \in DOMAIN v
    BY <1>1, <1>3, <2>1 DEF Change, Needed
  <2>3. IsRow(q) => r.in = q.in /\ r.route = q.route
    BY <2>1 DEF IsRow, Place
  <2>4. \A x \in PlacesOf(w) : x = s.id /\ x \in PlacesOf(v) /\ w[x] = r /\ v[x] = q /\ IsRow(q)
    BY <1>1, <1>2, <2>1, <2>2 DEF PlacesOf
  <2> QED
    BY <1>3, <2>1, <2>3, <2>4
<1>4. CASE s.do = "setDay"
  <2>1. PICK q, y, r : q = v[s.id] /\ y = s.day /\ r = [q EXCEPT !.in = y]
    OBVIOUS
  <2>2. w = Only(s.id, r) /\ s.id \in DOMAIN v
    BY <1>1, <1>4, <2>1 DEF Change, Needed
  <2>3. IsRow(q) => r.in = y /\ r.route = q.route
    BY <2>1 DEF IsRow, Place
  <2>4. \A x \in PlacesOf(w) : x = s.id /\ x \in PlacesOf(v) /\ w[x] = r /\ v[x] = q /\ IsRow(q)
    BY <1>1, <1>2, <2>1, <2>2 DEF PlacesOf
  <2> QED
    BY <1>4, <2>1, <2>3, <2>4
<1>5. CASE s.do = "setStatus"
  <2>1. PICK q, y, r : q = v[s.id] /\ y = s.status /\ r = [q EXCEPT !.status = y]
    OBVIOUS
  <2>2. w = Only(s.id, r) /\ s.id \in DOMAIN v
    BY <1>1, <1>5, <2>1 DEF Change, Needed
  <2>3. IsRow(q) => r.in = q.in /\ r.at = q.at /\ r.route = q.route
    BY <2>1 DEF IsRow, Place
  <2>4. \A x \in PlacesOf(w) : x = s.id /\ x \in PlacesOf(v) /\ w[x] = r /\ v[x] = q /\ IsRow(q)
    BY <1>1, <1>2, <2>1, <2>2 DEF PlacesOf
  <2> QED
    BY <1>5, <2>1, <2>3, <2>4
<1>6. CASE s.do = "insert"
  <2>1. w = Only(s.id, s.row)
    BY <1>1, <1>6 DEF Change
  <2> QED
    BY <1>2, <1>6, <2>1
<1>7. CASE s.do = "bump"
  <2>1. \E r : w = Only(Itin, r)
    BY <1>1, <1>7 DEF Change
  <2>2. DOMAIN w = {Itin}
    BY <1>2, <2>1
  <2> QED
    BY <1>7, <2>2 DEF PlacesOf
<1>8. CASE s.do = "setRoute"
  <2>1. PICK y : y = s.route
    OBVIOUS
  <2>2. DOMAIN w = s.ids \intersect DOMAIN v /\ \A x \in DOMAIN w : w[x] = [v[x] EXCEPT !.route = y]
    BY <1>1, <1>8, <2>1 DEF Change
  <2>3. PlacesOf(w) = s.ids \intersect PlacesOf(v)
    BY <2>2 DEF PlacesOf
  <2>4. ASSUME NEW x \in PlacesOf(w)
        PROVE  w[x].in = v[x].in /\ w[x].at = v[x].at /\ w[x].route = y
    <3>1. PICK q : q = v[x]
      OBVIOUS
    <3>2. IsRow(q) /\ w[x] = [q EXCEPT !.route = y]
      BY <1>1, <2>2, <2>3, <3>1 DEF PlacesOf
    <3> QED
      BY <3>1, <3>2 DEF IsRow, Place
  <2> QED
    BY <1>8, <2>1, <2>3, <2>4
<1>9. CASE s.do = "shift"
  <2>1. PICK y : y = s.by
    OBVIOUS
  <2>2. /\ DOMAIN w \subseteq Children(v, s.day)
        /\ \A x \in DOMAIN w : w[x] = [v[x] EXCEPT !.at = @ + y]
    BY <1>1, <1>9, <2>1 DEF Change
  <2>3. \A x \in PlacesOf(w) : x \in PlacesOf(v) /\ v[x].in = s.day
    BY <2>2 DEF PlacesOf, Children
  <2>4. ASSUME NEW x \in PlacesOf(w)
        PROVE  w[x].in = v[x].in /\ w[x].route = v[x].route
    <3>1. PICK q : q = v[x]
      OBVIOUS
    <3>2. IsRow(q) /\ w[x] = [q EXCEPT !.at = @ + y]
      BY <1>1, <2>2, <2>3, <3>1 DEF PlacesOf
    <3> QED
      BY <3>1, <3>2 DEF IsRow, Place
  <2> QED
    BY <1>9, <2>3, <2>4
<1>10. CASE s.do \in {"delete", "deleteDays"}
  <2>1. w = << >>
    BY <1>1, <1>10 DEF Change
  <2>2. PlacesOf(w) = {}
    BY <2>1 DEF PlacesOf
  <2> QED
    BY <1>10, <2>2
<1> QED
  BY <1>3, <1>4, <1>5, <1>6, <1>7, <1>8, <1>9, <1>10 DEF Sound, Reads

(***************************************************************************)
(* A statement within the lists the edit may change.                       *)
(***************************************************************************)
LEMMA WithinWrites ==
  ASSUME NEW v, Typed(v), NEW s, Sound(s), s.do \notin Reads, Needed(s) \subseteq DOMAIN v,
         NEW w, w = Written(v, s), NEW e, NEW C, Within(e, v, s, C), NEW x \in PlacesOf(w)
  PROVE  /\ w[x].in \in Busy(e, C) /\ (x \in PlacesOf(v) => v[x].in \in Busy(e, C))
         /\ w[x].route = None \/ (x \in PlacesOf(v) /\ w[x].route = v[x].route)
         /\ w[x].route = None \/ w[x].in = v[x].in \/ {w[x].in, v[x].in} \subseteq C
<1>1. WritesPlaces(v, s, w)
  BY WrittenPlaces
<1>2. C \subseteq Busy(e, C)
  BY DEF Busy
<1>3. s.do \in {"setAt", "setDay", "insert", "shift"}
  <2>1. s.do \notin {"bump", "delete", "deleteDays", "setRoute", "setStatus"}
    BY <1>1 DEF WritesPlaces, Within
  <2> QED
    BY <2>1 DEF Sound, Reads
<1>4. CASE s.do = "setAt"
  <2>1. x = s.id /\ x \in PlacesOf(v) /\ w[x].in = v[x].in /\ w[x].route = v[x].route
    BY <1>1, <1>4 DEF WritesPlaces
  <2> QED
    BY <1>4, <2>1 DEF Within
<1>5. CASE s.do = "setDay"
  <2>1. x = s.id /\ x \in PlacesOf(v) /\ w[x].in = s.day /\ w[x].route = v[x].route
    BY <1>1, <1>5 DEF WritesPlaces
  <2> QED
    BY <1>2, <1>5, <2>1 DEF Within
<1>6. CASE s.do = "insert"
  <2>1. x = s.id /\ w[x] = s.row
    BY <1>1, <1>6 DEF WritesPlaces
  <2> QED
    BY <1>6, <2>1 DEF Within
<1>7. CASE s.do = "shift"
  <2>1. x \in PlacesOf(v) /\ w[x].in = v[x].in /\ w[x].route = v[x].route /\ v[x].in = s.day
    BY <1>1, <1>7 DEF WritesPlaces
  <2> QED
    BY <1>7, <2>1 DEF Within
<1> QED
  BY <1>3, <1>4, <1>5, <1>6, <1>7

\* A deletion leaves nothing of a list it does not belong to.
LEMMA WithinDeletes ==
  ASSUME NEW v, NEW s, Sound(s), Needed(s) \subseteq DOMAIN v, NEW e, NEW C, Within(e, v, s, C),
         NEW x \in PlacesOf(v), x \in Deleted(v, s), v[x].in \notin Busy(e, C),
         NEW y \in PlacesOf(v), v[y].in = v[x].in
  PROVE  y \in Deleted(v, s)
<1>1. CASE s.do = "delete"
  <2>1. s.id \in PlacesOf(v)
    BY <1>1 DEF Sound, Needed, PlacesOf
  <2>2. x # s.id
    BY <1>1, <2>1 DEF Within
  <2>3. v[x].in = s.id
    BY <1>1, <2>2 DEF Deleted, Children
  <2> QED
    BY <1>1, <2>3 DEF Deleted, Children, PlacesOf
<1>2. CASE s.do = "deleteDays"
  BY <1>2 DEF Deleted, PlacesOf
<1>3. CASE s.do \notin {"delete", "deleteDays"}
  BY <1>3 DEF Deleted
<1> QED
  BY <1>1, <1>2, <1>3

\* What the transaction sees after it: a place that was not written is as it was.
LEMMA MovedPlaces ==
  ASSUME NEW v, NEW v2, NEW s, NEW gone, Moved(v, v2, s, gone), NEW w, w = Written(v, s)
  PROVE  /\ \A x \in PlacesOf(v2) : x \in PlacesOf(w) => v2[x] = w[x]
         /\ \A x \in PlacesOf(v2) : x \notin PlacesOf(w) => x \in PlacesOf(v) /\ v2[x] = v[x]
         /\ \A x \in PlacesOf(v) : x \in PlacesOf(v2) <=> x \notin Deleted(v, s)
         /\ \A x \in PlacesOf(v2) : x \notin Deleted(v, s)
BY DEF Moved, PlacesOf

LEMMA WithinStays ==
  ASSUME NEW v, Typed(v), NEW s, Sound(s), s.do \notin Reads, Needed(s) \subseteq DOMAIN v,
         NEW e, NEW C, Within(e, v, s, C), NEW v2, NEW gone, Moved(v, v2, s, gone),
         NEW t, Within(e, v, t, C)
  PROVE  Within(e, v2, t, C)
<1>1. PICK w : w = Written(v, s)
  OBVIOUS
<1>2. ASSUME NEW x \in PlacesOf(v2), x \in PlacesOf(v) => v[x].in \in Busy(e, C)
      PROVE  v2[x].in \in Busy(e, C)
  <2>1. CASE x \in PlacesOf(w)
    <3>1. v2[x] = w[x]
      BY <1>1, <2>1, MovedPlaces
    <3> QED
      BY <1>1, <2>1, <3>1, WithinWrites
  <2>2. CASE x \notin PlacesOf(w)
    <3>1. x \in PlacesOf(v) /\ v2[x] = v[x]
      BY <1>1, <2>2, MovedPlaces
    <3> QED
      BY <1>2, <3>1
  <2> QED
    BY <2>1, <2>2
<1>3. ASSUME NEW x \in PlacesOf(v2),
             x \in PlacesOf(v) => v[x].in \in C \/ (v[x].in \in Busy(e, C) /\ v[x].route = None)
      PROVE  v2[x].in \in C \/ (v2[x].in \in Busy(e, C) /\ v2[x].route = None)
  <2>1. CASE x \in PlacesOf(w)
    <3>1. v2[x] = w[x]
      BY <1>1, <2>1, MovedPlaces
    <3>2. /\ w[x].in \in Busy(e, C) /\ (x \in PlacesOf(v) => v[x].in \in Busy(e, C))
          /\ w[x].route = None \/ (x \in PlacesOf(v) /\ w[x].route = v[x].route)
          /\ w[x].route = None \/ w[x].in = v[x].in \/ {w[x].in, v[x].in} \subseteq C
      BY <1>1, <2>1, WithinWrites
    <3>3. CASE w[x].route = None
      BY <3>1, <3>2, <3>3
    <3>4. CASE w[x].route # None
      BY <1>3, <3>1, <3>2, <3>4
    <3> QED
      BY <3>3, <3>4
  <2>2. CASE x \notin PlacesOf(w)
    <3>1. x \in PlacesOf(v) /\ v2[x] = v[x]
      BY <1>1, <2>2, MovedPlaces
    <3> QED
      BY <1>3, <3>1
  <2> QED
    BY <2>1, <2>2
<1>4. t.id \in PlacesOf(v2) /\ (t.id \in PlacesOf(v) => v[t.id].in \in Busy(e, C)) =>
        v2[t.id].in \in Busy(e, C)
  BY <1>2
<1>5. t.id \in PlacesOf(v2)
      /\ (t.id \in PlacesOf(v) => v[t.id].in \in C \/ (v[t.id].in \in Busy(e, C) /\ v[t.id].route = None)) =>
        v2[t.id].in \in C \/ (v2[t.id].in \in Busy(e, C) /\ v2[t.id].route = None)
  BY <1>3
<1> QED
  BY <1>4, <1>5 DEF Within

LEMMA OthersStayAtRest ==
  ASSUME NEW v, Typed(v), NEW s, Sound(s), s.do \notin Reads, Needed(s) \subseteq DOMAIN v,
         NEW e, NEW C, Within(e, v, s, C), NEW v2, NEW gone, Moved(v, v2, s, gone),
         NEW rows, OthersRest(v, rows, Busy(e, C))
  PROVE  OthersRest(v2, rows, Busy(e, C))
<1>1. PICK w : w = Written(v, s)
  OBVIOUS
<1>2. SUFFICES ASSUME NEW x \in PlacesOf(v2), v2[x].in \notin Busy(e, C)
               PROVE  /\ x \in PlacesOf(rows) /\ rows[x].in = v2[x].in /\ rows[x].at = v2[x].at
                      /\ \A y \in Children(rows, v2[x].in) : y \in DOMAIN v2 /\ v2[y].in = v2[x].in
  BY DEF OthersRest
<1>3. x \notin PlacesOf(w)
  <2>1. SUFFICES ASSUME x \in PlacesOf(w) PROVE FALSE
    OBVIOUS
  <2>2. v2[x] = w[x]
    BY <1>1, <2>1, MovedPlaces
  <2>3. w[x].in \in Busy(e, C)
    BY <1>1, <2>1, WithinWrites
  <2> QED
    BY <1>2, <2>2, <2>3
<1>4. x \in PlacesOf(v) /\ v2[x] = v[x] /\ x \notin Deleted(v, s)
  BY <1>1, <1>3, MovedPlaces
<1>5. /\ x \in PlacesOf(rows) /\ rows[x].in = v[x].in /\ rows[x].at = v[x].at
      /\ \A y \in Children(rows, v[x].in) : y \in DOMAIN v /\ v[y].in = v[x].in
  BY <1>2, <1>4 DEF OthersRest
<1>6. ASSUME NEW y \in Children(rows, v[x].in)
      PROVE  y \in DOMAIN v2 /\ v2[y].in = v[x].in
  <2>1. y \in PlacesOf(v) /\ v[y].in = v[x].in
    BY <1>5 DEF Children, PlacesOf
  <2>2. y \notin Deleted(v, s)
    BY <1>2, <1>4, <2>1, WithinDeletes
  <2>3. y \in PlacesOf(v2)
    BY <1>1, <2>1, <2>2, MovedPlaces
  <2>4. y \notin PlacesOf(w)
    <3>1. v[y].in \notin Busy(e, C)
      BY <1>2, <1>4, <2>1
    <3> QED
      BY <1>1, <2>1, <3>1, WithinWrites
  <2>5. v2[y] = v[y]
    BY <1>1, <2>3, <2>4, MovedPlaces
  <2> QED
    BY <2>1, <2>3, <2>5 DEF PlacesOf
<1> QED
  BY <1>4, <1>5, <1>6

LEMMA RoutesStayKept ==
  ASSUME NEW v, Typed(v), NEW s, Sound(s), s.do \notin Reads, Needed(s) \subseteq DOMAIN v,
         NEW e, NEW C, Within(e, v, s, C), NEW v2, NEW gone, Moved(v, v2, s, gone),
         NEW rows, RoutesKept(v, rows, C)
  PROVE  RoutesKept(v2, rows, C)
<1>1. PICK w : w = Written(v, s)
  OBVIOUS
<1>2. SUFFICES ASSUME NEW x \in PlacesOf(v2), v2[x].route # None
               PROVE  /\ x \in PlacesOf(rows) /\ v2[x].route = rows[x].route
                      /\ v2[x].in = rows[x].in \/ {v2[x].in, rows[x].in} \subseteq C
  BY DEF RoutesKept
<1>3. CASE x \in PlacesOf(w)
  <2>1. v2[x] = w[x]
    BY <1>1, <1>3, MovedPlaces
  <2>2. /\ x \in PlacesOf(v) /\ w[x].route = v[x].route
        /\ w[x].in = v[x].in \/ {w[x].in, v[x].in} \subseteq C
    BY <1>1, <1>2, <1>3, <2>1, WithinWrites
  <2>3. /\ x \in PlacesOf(rows) /\ v[x].route = rows[x].route
        /\ v[x].in = rows[x].in \/ {v[x].in, rows[x].in} \subseteq C
    BY <1>2, <2>1, <2>2 DEF RoutesKept
  <2> QED
    BY <2>1, <2>2, <2>3
<1>4. CASE x \notin PlacesOf(w)
  <2>1. x \in PlacesOf(v) /\ v2[x] = v[x]
    BY <1>1, <1>4, MovedPlaces
  <2> QED
    BY <1>2, <2>1 DEF RoutesKept
<1> QED
  BY <1>3, <1>4

\* A list of statements without its first.
LEMMA WithoutFirst ==
  ASSUME NEW t, IsList(t), t # << >>, NEW r, r = Tail(t)
  PROVE  /\ 1 \in DOMAIN t /\ Head(t) = t[1] /\ IsList(r)
         /\ \A k \in DOMAIN t : k \in Nat /\ k >= 1
         /\ \A k \in DOMAIN r : k \in Nat /\ k + 1 \in DOMAIN t /\ r[k] = t[k + 1]
         /\ \A k \in DOMAIN t : k # 1 => k - 1 \in DOMAIN r /\ r[k - 1] = t[k]
<1>1. PICK n : n = Len(t)
  OBVIOUS
<1>2. /\ n \in Nat /\ DOMAIN t = 1..n /\ n > 0 /\ Head(t) = t[1] /\ IsList(r) /\ Len(r) = n - 1
      /\ \A k \in 1..(n - 1) : r[k] = t[k + 1]
  BY <1>1, ListFacts
<1>3. DOMAIN r = 1..(n - 1)
  BY <1>2, ListFacts
<1>4. \A k \in DOMAIN r : k \in Nat /\ k + 1 \in DOMAIN t /\ r[k] = t[k + 1]
  BY <1>2, <1>3
<1>5. ASSUME NEW k \in DOMAIN t, k # 1
      PROVE  k - 1 \in DOMAIN r /\ r[k - 1] = t[k]
  <2>1. k - 1 \in 1..(n - 1) /\ (k - 1) + 1 = k
    BY <1>2, <1>5
  <2> QED
    BY <1>2, <1>3, <2>1
<1>6. 1 \in DOMAIN t /\ \A k \in DOMAIN t : k \in Nat /\ k >= 1
  BY <1>2
<1> QED
  BY <1>2, <1>4, <1>5, <1>6

LEMMA SameCleared ==
  ASSUME NEW t, NEW r,
         \A k \in DOMAIN r : r[k].do = "clear" => \E j \in DOMAIN t : t[j].do = "clear" /\ t[j].days = r[k].days,
         \A k \in DOMAIN t : t[k].do = "clear" => \E j \in DOMAIN r : r[j].do = "clear" /\ r[j].days = t[k].days
  PROVE  Cleared(r) = Cleared(t)
<1>1. {r[k].days : k \in {j \in DOMAIN r : r[j].do = "clear"}}
        = {t[k].days : k \in {j \in DOMAIN t : t[j].do = "clear"}}
  OBVIOUS
<1> QED
  BY <1>1 DEF Cleared

LEMMA ClearedTail ==
  ASSUME NEW t, IsList(t), t # << >>, Head(t).do # "clear", NEW r, r = Tail(t)
  PROVE  Cleared(r) = Cleared(t)
<1>1. /\ Head(t) = t[1]
      /\ \A k \in DOMAIN r : k + 1 \in DOMAIN t /\ r[k] = t[k + 1]
      /\ \A k \in DOMAIN t : k # 1 => k - 1 \in DOMAIN r /\ r[k - 1] = t[k]
  BY WithoutFirst
<1>2. \A k \in DOMAIN r : r[k].do = "clear" =>
        \E j \in DOMAIN t : t[j].do = "clear" /\ t[j].days = r[k].days
  BY <1>1
<1>3. \A k \in DOMAIN t : t[k].do = "clear" =>
        \E j \in DOMAIN r : r[j].do = "clear" /\ r[j].days = t[k].days
  BY <1>1
<1> QED
  BY <1>2, <1>3, SameCleared

\* The rest of a list that clears what the whole list does.
LEMMA TendingTail ==
  ASSUME NEW t, IsList(t), t # << >>, Head(t).do # "clear", NEW r, r = Tail(t),
         NEW e, NEW v, NEW before, NEW rows, Tending(e, v, t, before, rows)
  PROVE  /\ Cleared(r) = Cleared(t)
         /\ Tending(e, v, r, before, rows)
<1>1. Cleared(r) = Cleared(t)
  BY ClearedTail
<1>2. \A k \in DOMAIN r : k \in Nat /\ k + 1 \in DOMAIN t /\ r[k] = t[k + 1]
  BY WithoutFirst
<1>3. \A k \in DOMAIN r : Within(e, v, r[k], Cleared(t))
  BY <1>2 DEF Tending
<1>4. ASSUME NEW k \in DOMAIN r, r[k].do = "clear"
      PROVE  /\ before = RouteStartsOf(rows, r[k].days)
             /\ \A j \in DOMAIN r : k < j => r[j].do = "bump"
  <2>1. t[k + 1].do = "clear" /\ k + 1 \in DOMAIN t
    BY <1>2, <1>4
  <2>2. /\ before = RouteStartsOf(rows, t[k + 1].days)
        /\ \A j \in DOMAIN t : k + 1 < j => t[j].do = "bump"
    BY <2>1 DEF Tending
  <2>3. ASSUME NEW j \in DOMAIN r, k < j
        PROVE  r[j].do = "bump"
    <3>1. k + 1 < j + 1 /\ j + 1 \in DOMAIN t
      BY <1>2, <2>3
    <3> QED
      BY <1>2, <2>2, <3>1
  <2> QED
    BY <1>2, <2>2, <2>3
<1> QED
  BY <1>1, <1>3, <1>4 DEF Tending

LEMMA TendingWrites ==
  ASSUME NEW v, Typed(v), NEW t, Legal(t), t # << >>, NEW s, s = Head(t), s.do \notin Reads,
         Needed(s) \subseteq DOMAIN v, NEW e, NEW before, NEW rows, Tending(e, v, t, before, rows),
         NEW v2, NEW gone, Moved(v, v2, s, gone), NEW r, r = Tail(t)
  PROVE  Tending(e, v2, r, before, rows)
<1>1. PICK C : C = Cleared(t)
  OBVIOUS
<1>2. s.do # "clear" /\ Sound(s) /\ IsList(t)
  BY WithoutFirst DEF Reads, Legal
<1>3. Cleared(r) = C /\ Tending(e, v, r, before, rows)
  BY <1>1, <1>2, TendingTail
<1>4. Within(e, v, s, C)
  BY <1>1, <1>2, WithoutFirst DEF Tending
<1>5. ASSUME NEW k \in DOMAIN r
      PROVE  Within(e, v2, r[k], C)
  <2>1. PICK q : q = r[k]
    OBVIOUS
  <2>2. Within(e, v, q, C)
    BY <1>3, <2>1 DEF Tending
  <2>3. Within(e, v2, q, C)
    BY <1>2, <1>4, <2>2, WithinStays
  <2> QED
    BY <2>1, <2>3
<1>6. OthersRest(v2, rows, Busy(e, C))
  <2>1. OthersRest(v, rows, Busy(e, C))
    BY <1>3 DEF Tending
  <2> QED
    BY <1>2, <1>4, <2>1, OthersStayAtRest
<1>7. RoutesKept(v2, rows, C)
  <2>1. RoutesKept(v, rows, C)
    BY <1>3 DEF Tending
  <2> QED
    BY <1>2, <1>4, <2>1, RoutesStayKept
<1> QED
  BY <1>3, <1>5, <1>6, <1>7 DEF Tending

(***************************************************************************)
(* The lists are done.                                                     *)
(***************************************************************************)
\* A statement that leaves the lists: places keep their position, and their route
\* unless it is the one the statement writes.
LEMMA SettledPlaces ==
  ASSUME NEW v, Typed(v), NEW s, Sound(s), s.do \in {"bump", "setStatus", "setRoute"},
         Needed(s) \subseteq DOMAIN v, NEW v2, NEW gone, Moved(v, v2, s, gone)
  PROVE  /\ PlacesOf(v2) = PlacesOf(v)
         /\ \A x \in PlacesOf(v) : v2[x].in = v[x].in /\ v2[x].at = v[x].at
         /\ \A x \in PlacesOf(v) : v2[x].route = IF s.do = "setRoute" /\ x \in s.ids THEN s.route
                                                                                  ELSE v[x].route
<1>1. PICK w : w = Written(v, s)
  OBVIOUS
<1>2. s.do \notin Reads /\ Deleted(v, s) = {}
  BY DEF Reads, Deleted
<1>3. WritesPlaces(v, s, w)
  BY <1>1, <1>2, WrittenPlaces
<1>4. /\ PlacesOf(w) \subseteq PlacesOf(v)
      /\ \A x \in PlacesOf(w) : w[x].in = v[x].in /\ w[x].at = v[x].at
      /\ \A x \in PlacesOf(w) : w[x].route = IF s.do = "setRoute" /\ x \in s.ids THEN s.route
                                                                                ELSE v[x].route
      /\ \A x \in PlacesOf(v) : s.do = "setRoute" /\ x \in s.ids => x \in PlacesOf(w)
  BY <1>3 DEF WritesPlaces
<1>5. PlacesOf(v2) = PlacesOf(v)
  BY <1>1, <1>2, <1>4, MovedPlaces
<1>6. \A x \in PlacesOf(v) : IF x \in PlacesOf(w) THEN v2[x] = w[x] ELSE v2[x] = v[x]
  BY <1>1, <1>5, MovedPlaces
<1> QED
  BY <1>4, <1>5, <1>6

LEMMA SettledStarts ==
  ASSUME NEW v, Typed(v), KeysAreUnique(v), NEW v2, PlacesOf(v2) = PlacesOf(v),
         \A x \in PlacesOf(v) : v2[x].in = v[x].in /\ v2[x].at = v[x].at, NEW day
  PROVE  RouteStarts(v2, day) = RouteStarts(v, day)
<1>1. Children(v2, day) = Children(v, day)
  BY DEF Children, PlacesOf
<1>2. \A x \in Children(v, day) : v2[x].at = v[x].at
  BY DEF Children, PlacesOf
<1> QED
  BY <1>1, <1>2, SameStarts

LEMMA SettlingWrites ==
  ASSUME NEW v, Typed(v), KeysAreUnique(v), NEW t, Legal(t), t # << >>, NEW s, s = Head(t),
         Needed(s) \subseteq DOMAIN v, NEW rows, Settling(v, t, rows),
         NEW v2, NEW gone, Moved(v, v2, s, gone), NEW r, r = Tail(t)
  PROVE  Settling(v2, r, rows)
<1>1. /\ 1 \in DOMAIN t /\ s = t[1] /\ Sound(s)
      /\ \A k \in DOMAIN r : k + 1 \in DOMAIN t /\ r[k] = t[k + 1]
      /\ \A k \in DOMAIN t : k # 1 => k - 1 \in DOMAIN r /\ r[k - 1] = t[k]
  BY WithoutFirst DEF Legal
<1>2. s.do \in {"bump", "setStatus", "setRoute"}
  BY <1>1 DEF Settling
<1>3. /\ PlacesOf(v2) = PlacesOf(v)
      /\ \A x \in PlacesOf(v) : v2[x].in = v[x].in /\ v2[x].at = v[x].at
      /\ \A x \in PlacesOf(v) : v2[x].route = IF s.do = "setRoute" /\ x \in s.ids THEN s.route
                                                                               ELSE v[x].route
  BY <1>1, <1>2, SettledPlaces
<1>4. \A day : RouteStarts(v2, day) = RouteStarts(v, day)
  BY <1>3, SettledStarts
<1>5. \A q : Fits(v, q) => Fits(v2, q)
  BY <1>3, <1>4 DEF Fits
<1>6. \A k \in DOMAIN r : /\ r[k].do \in {"bump", "setStatus", "setRoute"}
                          /\ r[k].do = "setRoute" => Fits(v2, r[k])
  BY <1>1, <1>5 DEF Settling
<1>7. ASSUME NEW x \in PlacesOf(v2) \intersect PlacesOf(rows),
             rows[x].in # Itin, RouteIsCurrent(rows, x)
      PROVE  \/ RouteIsCurrent(v2, x)
             \/ \E k \in DOMAIN r : r[k].do = "setRoute" /\ x \in r[k].ids
  <2>1. \/ RouteIsCurrent(v, x)
        \/ \E k \in DOMAIN t : t[k].do = "setRoute" /\ x \in t[k].ids
    BY <1>3, <1>7 DEF Settling
  <2>2. CASE s.do = "setRoute" /\ x \in s.ids
    <3>1. Fits(v2, s)
      BY <1>1, <1>5, <2>2 DEF Settling
    <3>2. v2[x].route = s.route /\ (s.route = None \/ (Mapped(x) /\ s.route = RouteStarts(v2, v2[x].in)[x]))
      BY <1>3, <1>7, <2>2, <3>1 DEF Fits
    <3> QED
      BY <3>2 DEF RouteIsCurrent
  <2>3. CASE ~ (s.do = "setRoute" /\ x \in s.ids)
    <3>1. CASE RouteIsCurrent(v, x)
      BY <1>3, <1>4, <1>7, <2>3, <3>1 DEF RouteIsCurrent
    <3>2. CASE \E k \in DOMAIN t : t[k].do = "setRoute" /\ x \in t[k].ids
      BY <1>1, <2>3, <3>2
    <3> QED
      BY <2>1, <3>1, <3>2
  <2> QED
    BY <2>2, <2>3
<1> QED
  BY <1>6, <1>7 DEF Settling

\* A place of a list that will not be cleared: the list is as it was.
LEMMA KeptIsCurrent ==
  ASSUME NEW e, NEW v, NEW rows, Typed(rows), KeysAreUnique(rows), Unknown(rows, NewDay(e)),
         NEW C, OthersRest(v, rows, Busy(e, C)), RoutesKept(v, rows, C),
         NEW x \in PlacesOf(v) \intersect PlacesOf(rows), rows[x].in # Itin, RouteIsCurrent(rows, x)
  PROVE  \/ RouteIsCurrent(v, x)
         \/ /\ Mapped(x) /\ {v[x].in, rows[x].in} \subseteq C
            /\ v[x].route = RouteStarts(rows, rows[x].in)[x]
<1>1. SUFFICES ASSUME v[x].route # None
               PROVE  \/ RouteIsCurrent(v, x)
                      \/ /\ Mapped(x) /\ {v[x].in, rows[x].in} \subseteq C
                         /\ v[x].route = RouteStarts(rows, rows[x].in)[x]
  BY DEF RouteIsCurrent
<1>2. v[x].route = rows[x].route /\ (v[x].in = rows[x].in \/ {v[x].in, rows[x].in} \subseteq C)
  BY <1>1 DEF RoutesKept
<1>3. Mapped(x) /\ rows[x].route = RouteStarts(rows, rows[x].in)[x]
  BY <1>1, <1>2 DEF RouteIsCurrent
<1>4. CASE {v[x].in, rows[x].in} \subseteq C
  BY <1>2, <1>3, <1>4
<1>5. CASE v[x].in = rows[x].in /\ ~ ({v[x].in, rows[x].in} \subseteq C)
  <2>1. PICK d : d = v[x].in
    OBVIOUS
  <2>2. d \notin Busy(e, C)
    <3>1. d \notin C /\ d # Itin
      BY <1>5, <2>1
    <3>2. d # NewDay(e)
      BY <1>5, <2>1 DEF Unknown
    <3> QED
      BY <3>1, <3>2 DEF Busy
  <2>3. \A y \in PlacesOf(v) : v[y].in = d =>
          y \in PlacesOf(rows) /\ rows[y].in = d /\ rows[y].at = v[y].at
    BY <2>2 DEF OthersRest
  <2>4. \A y \in Children(rows, d) : y \in DOMAIN v /\ v[y].in = d
    BY <2>1, <2>2 DEF OthersRest
  <2>5. Children(v, d) = Children(rows, d)
    BY <2>3, <2>4 DEF Children, PlacesOf
  <2>6. \A y \in Children(rows, d) : v[y].at = rows[y].at
    BY <2>3, <2>5 DEF Children, PlacesOf
  <2>7. RouteStarts(v, d) = RouteStarts(rows, d)
    BY <2>5, <2>6, SameStarts
  <2> QED
    BY <1>2, <1>3, <1>5, <2>1, <2>7 DEF RouteIsCurrent
<1> QED
  BY <1>2, <1>4, <1>5

\* The routes that have changed are cleared.
LEMMA ClearSettles ==
  ASSUME NEW e, NEW v, NEW t, IsList(t), t # << >>, NEW s, s = Head(t), s.do = "clear",
         NEW before, NEW rows, Typed(rows), KeysAreUnique(rows), Tending(e, v, t, before, rows),
         NEW stale, stale = StaleRoutes(v, s.days, before), NEW u, IsList(u),
         \A k \in DOMAIN u : u[k].do = "bump" \/ u[k] = SetRoute(stale, None),
         stale # {} => \E k \in DOMAIN u : u[k] = SetRoute(stale, None)
  PROVE  Settling(v, u, rows)
<1>1. PICK C : C = Cleared(t)
  OBVIOUS
<1>2. /\ 1 \in DOMAIN t /\ s = t[1] /\ \A k \in DOMAIN t : k \in Nat /\ k >= 1
  BY WithoutFirst
<1>3. /\ before = RouteStartsOf(rows, s.days)
      /\ \A j \in DOMAIN t : 1 < j => t[j].do = "bump"
  BY <1>2 DEF Tending
<1>4. C = s.days
  <2>1. {j \in DOMAIN t : t[j].do = "clear"} = {1}
    BY <1>2, <1>3
  <2> QED
    BY <1>1, <1>2, <2>1 DEF Cleared
<1>5. /\ SetRoute(stale, None).do = "setRoute" /\ SetRoute(stale, None).ids = stale
      /\ Fits(v, SetRoute(stale, None))
  BY DEF SetRoute, Fits
<1>6. \A k \in DOMAIN u : /\ u[k].do \in {"bump", "setStatus", "setRoute"}
                          /\ u[k].do = "setRoute" => Fits(v, u[k])
  BY <1>5
<1>7. ASSUME NEW x \in PlacesOf(v) \intersect PlacesOf(rows),
             rows[x].in # Itin, RouteIsCurrent(rows, x), ~ RouteIsCurrent(v, x)
      PROVE  \E k \in DOMAIN u : u[k].do = "setRoute" /\ x \in u[k].ids
  <2>1. /\ Mapped(x) /\ v[x].in \in C /\ rows[x].in \in C
        /\ v[x].route = RouteStarts(rows, rows[x].in)[x]
    BY <1>1, <1>7, KeptIsCurrent DEF Tending
  <2>2. x \in DOMAIN before /\ before[x] = v[x].route
    <3>0. before = RouteStartsOf(rows, C)
      BY <1>3, <1>4
    <3>1. DOMAIN before = {y \in PlacesOf(rows) : Mapped(y) /\ rows[y].in \in C}
      BY <3>0, StartsOfDays
    <3>2. \A y \in PlacesOf(rows) : Mapped(y) /\ rows[y].in \in C =>
            before[y] = RouteStarts(rows, rows[y].in)[y]
      BY <3>0, StartsOfDays
    <3> QED
      BY <1>7, <2>1, <3>1, <3>2
  <2>3. PICK after : after = RouteStartsOf(v, C)
    OBVIOUS
  <2>4. x \in DOMAIN after /\ after[x] = RouteStarts(v, v[x].in)[x]
    <3>1. DOMAIN after = {y \in PlacesOf(v) : Mapped(y) /\ v[y].in \in C}
      BY <2>3, StartsOfDays
    <3>2. \A y \in PlacesOf(v) : Mapped(y) /\ v[y].in \in C => after[y] = RouteStarts(v, v[y].in)[y]
      BY <2>3, StartsOfDays
    <3> QED
      BY <1>7, <2>1, <3>1, <3>2
  <2>5. after[x] # before[x]
    BY <1>7, <2>1, <2>2, <2>4 DEF RouteIsCurrent
  <2>6. x \in stale
    BY <1>4, <2>2, <2>3, <2>4, <2>5 DEF StaleRoutes
  <2> QED
    BY <1>5, <2>6
<1> QED
  BY <1>6, <1>7 DEF Settling

\* With nothing left to do, what was current is so.
LEMMA NothingLeft ==
  ASSUME NEW e, NEW v, NEW before, NEW rows, Typed(rows), KeysAreUnique(rows),
         Tending(e, v, << >>, before, rows) \/ Settling(v, << >>, rows),
         NEW x \in PlacesOf(v) \intersect PlacesOf(rows), rows[x].in # Itin, RouteIsCurrent(rows, x)
  PROVE  RouteIsCurrent(v, x)
<1>1. PICK t : t = << >> /\ DOMAIN t = {}
  OBVIOUS
<1>2. CASE Settling(v, t, rows)
  BY <1>1, <1>2 DEF Settling
<1>3. CASE Tending(e, v, t, before, rows)
  <2>1. Cleared(t) = {}
    BY <1>1 DEF Cleared
  <2> QED
    BY <1>3, <2>1, KeptIsCurrent DEF Tending
<1> QED
  BY <1>1, <1>2, <1>3

(***************************************************************************)
(* Statements put before those of an edit that clears.                     *)
(***************************************************************************)
LEMMA ClearedJoined ==
  ASSUME NEW x, IsList(x), \A k \in DOMAIN x : x[k].do # "clear", NEW r, IsList(r), NEW t, t = x \o r
  PROVE  Cleared(t) = Cleared(r)
<1>1. PICK n \in Nat : n = Len(x) /\ DOMAIN x = 1..n
  BY ListFacts
<1>2. \A k \in DOMAIN t : t[k].do = "clear" => \E j \in DOMAIN r : r[j].do = "clear" /\ r[j].days = t[k].days
  BY JoinedIndex
<1>3. \A k \in DOMAIN r : n + k \in DOMAIN t /\ t[n + k] = r[k]
  <2>1. PICK m \in Nat : m = Len(r) /\ DOMAIN r = 1..m
    BY ListFacts
  <2>2. IsList(t) /\ Len(t) = n + m /\ \A k \in 1..m : t[n + k] = r[k]
    BY <1>1, <2>1, JoinedList
  <2>3. DOMAIN t = 1..(n + m)
    BY <2>2, ListFacts
  <2>4. \A k \in 1..m : n + k \in 1..(n + m)
    BY <1>1, <2>1
  <2> QED
    BY <2>1, <2>2, <2>3, <2>4
<1>4. ASSUME NEW k \in DOMAIN r, r[k].do = "clear"
      PROVE  \E j \in DOMAIN t : t[j].do = "clear" /\ t[j].days = r[k].days
  <2>1. PICK j : j = n + k
    OBVIOUS
  <2>2. j \in DOMAIN t /\ t[j] = r[k]
    BY <1>3, <2>1
  <2> QED
    BY <1>4, <2>2
<1> QED
  BY <1>2, <1>4, SameCleared

LEMMA TendingJoined ==
  ASSUME NEW e, NEW v, NEW before, NEW rows, NEW r, IsList(r), Tending(e, v, r, before, rows),
         NEW x, IsList(x),
         \A k \in DOMAIN x : x[k].do # "clear" /\ Within(e, v, x[k], Cleared(r)),
         NEW t, t = x \o r
  PROVE  Tending(e, v, t, before, rows)
<1>1. PICK C : C = Cleared(r)
  OBVIOUS
<1>2. Cleared(t) = C
  BY <1>1, ClearedJoined
<1>3. \A k \in DOMAIN t : \/ k \in DOMAIN x /\ t[k] = x[k]
                          \/ k - Len(x) \in DOMAIN r /\ t[k] = r[k - Len(x)] /\ k > Len(x) /\ k \in Int
  BY JoinedIndex
<1>4. \A k \in DOMAIN t : Within(e, v, t[k], C)
  BY <1>1, <1>3 DEF Tending
<1>5. ASSUME NEW k \in DOMAIN t, t[k].do = "clear"
      PROVE  /\ before = RouteStartsOf(rows, t[k].days)
             /\ \A j \in DOMAIN t : k < j => t[j].do = "bump"
  <2>1. PICK n \in Nat : n = Len(x) /\ DOMAIN x = 1..n
    BY ListFacts
  <2>2. k - n \in DOMAIN r /\ t[k] = r[k - n] /\ k > n /\ k \in Int
    BY <1>3, <1>5, <2>1
  <2>3. /\ before = RouteStartsOf(rows, r[k - n].days)
        /\ \A j \in DOMAIN r : k - n < j => r[j].do = "bump"
    BY <1>5, <2>2 DEF Tending
  <2>4. ASSUME NEW j \in DOMAIN t, k < j
        PROVE  t[j].do = "bump"
    <3>1. ~ (j \in 1..n)
      BY <2>2, <2>4
    <3>2. j - n \in DOMAIN r /\ t[j] = r[j - n] /\ j \in Int
      BY <1>3, <2>1, <3>1
    <3>3. k - n < j - n
      BY <2>2, <2>4, <3>2
    <3> QED
      BY <2>3, <3>2, <3>3
  <2> QED
    BY <2>2, <2>3, <2>4
<1> QED
  BY <1>1, <1>2, <1>4, <1>5 DEF Tending

LEMMA SetsWithin ==
  ASSUME NEW e, NEW v, NEW C, NEW ids, \A x \in ids : x \in PlacesOf(v) => v[x].in \in Busy(e, C),
         NEW t, Sets(t, ids)
  PROVE  IsList(t) /\ \A k \in DOMAIN t : t[k].do # "clear" /\ Within(e, v, t[k], C)
<1>1. ASSUME NEW s, s.do = "setAt", s.id \in ids
      PROVE  Within(e, v, s, C)
  BY <1>1 DEF Within
<1> QED
  BY <1>1 DEF Sets

LEMMA TendingReads ==
  ASSUME NEW e, NEW v, NEW t, IsList(t), t # << >>, NEW s, s = Head(t), s.do \in Numbering,
         NEW before, NEW rows, Tending(e, v, t, before, rows), NEW parent,
         parent = (IF s.do = "renumber" THEN Itin ELSE s.day), NEW x,
         Sets(x, Children(v, parent) \union (IF s.do = "place" THEN {s.id} ELSE {})),
         NEW r, r = Tail(t), NEW u, u = x \o r
  PROVE  Tending(e, v, u, before, rows)
<1>1. PICK C : C = Cleared(t)
  OBVIOUS
<1>2. s.do # "clear" /\ IsList(r) /\ 1 \in DOMAIN t /\ s = t[1]
  BY WithoutFirst DEF Numbering
<1>3. Cleared(r) = C /\ Tending(e, v, r, before, rows)
  BY <1>1, <1>2, TendingTail
<1>4. Within(e, v, s, C)
  BY <1>1, <1>2 DEF Tending
<1>5. PICK ids : ids = Children(v, parent) \union (IF s.do = "place" THEN {s.id} ELSE {})
  OBVIOUS
<1>6. parent \in Busy(e, C)
  BY <1>4 DEF Within, Numbering, Busy
<1>7. \A y \in ids : y \in PlacesOf(v) => v[y].in \in Busy(e, C)
  <2>1. \A y \in Children(v, parent) : v[y].in \in Busy(e, C)
    BY <1>6 DEF Children
  <2>2. s.do = "place" /\ s.id \in PlacesOf(v) => v[s.id].in \in Busy(e, C)
    BY <1>4 DEF Within
  <2> QED
    BY <1>5, <2>1, <2>2
<1>8. IsList(x) /\ \A k \in DOMAIN x : x[k].do # "clear" /\ Within(e, v, x[k], C)
  BY <1>5, <1>7, SetsWithin
<1> QED
  BY <1>2, <1>3, <1>8, TendingJoined

(***************************************************************************)
(* What an edit sets out with.                                             *)
(***************************************************************************)
LEMMA TendingStarts ==
  ASSUME NEW e, NEW rows, Unknown(rows, NewDay(e)), NEW t, NEW C, NEW before,
         \A k \in DOMAIN t : Within(e, rows, t[k], C),
         \A k \in DOMAIN t : t[k].do = "clear" =>
           /\ t[k].days = C /\ before = RouteStartsOf(rows, C)
           /\ \A j \in DOMAIN t : k < j => t[j].do = "bump",
         C = {} \/ \E k \in DOMAIN t : t[k].do = "clear"
  PROVE  Cleared(t) = C /\ Tending(e, rows, t, before, rows)
<1>1. Cleared(t) = C
  <2>1. \A k \in {j \in DOMAIN t : t[j].do = "clear"} : t[k].days = C
    OBVIOUS
  <2>2. CASE C = {}
    BY <2>1, <2>2 DEF Cleared
  <2>3. CASE \E k \in DOMAIN t : t[k].do = "clear"
    <3>1. {t[k].days : k \in {j \in DOMAIN t : t[j].do = "clear"}} = {C}
      BY <2>1, <2>3
    <3> QED
      BY <3>1 DEF Cleared
  <2> QED
    BY <2>2, <2>3
<1>2. OthersRest(rows, rows, Busy(e, C))
  BY DEF OthersRest, Children
<1>3. RoutesKept(rows, rows, C)
  BY DEF RoutesKept
<1> QED
  BY <1>1, <1>2, <1>3 DEF Tending

\* A plan that makes room among rows of a list it may change.
LEMMA TendingPrepared ==
  ASSUME NEW e, NEW v, NEW parent, NEW at, NEW t, NEW r, IsList(r), Prepares(v, parent, at, t, r),
         NEW before, NEW rows, Tending(e, v, r, before, rows), parent \in Busy(e, Cleared(r))
  PROVE  Tending(e, v, t, before, rows)
<1>1. PICK x : MakesRoom(v, parent, at, x) /\ t = x \o r
  BY DEF Prepares
<1>2. Sets(x, Children(v, parent))
  <2>1. IsList(x) /\ \A k \in DOMAIN x : x[k].do = "setAt" /\ x[k].id \in PlacesOf(v) /\ v[x[k].id].in = parent
    BY <1>1 DEF MakesRoom, Numbers
  <2>2. \A k \in DOMAIN x : x[k].id \in Children(v, parent)
    BY <2>1 DEF Children, PlacesOf
  <2> QED
    BY <2>1, <2>2 DEF Sets
<1>3. \A y \in Children(v, parent) : y \in PlacesOf(v) => v[y].in \in Busy(e, Cleared(r))
  BY DEF Children
<1>4. IsList(x) /\ \A k \in DOMAIN x : x[k].do # "clear" /\ Within(e, v, x[k], Cleared(r))
  BY <1>2, <1>3, SetsWithin
<1> QED
  BY <1>1, <1>4, TendingJoined

\* The statements, one by one.
LEMMA WithinOne ==
  ASSUME NEW e, NEW v, NEW C
  PROVE  /\ \A id, at : (id \in PlacesOf(v) => v[id].in \in Busy(e, C)) => Within(e, v, SetAt(id, at), C)
         /\ \A id, day : day \in C /\ (id \in PlacesOf(v) => v[id].in \in C) => Within(e, v, SetDay(id, day), C)
         /\ \A id, parent, at : id \notin PlacesOf(v) /\ parent \in Busy(e, C) =>
              Within(e, v, Insert(id, parent, at), C)
         /\ \A id : (id \in PlacesOf(v) => v[id].in \in Busy(e, C)) => Within(e, v, Delete(id), C)
         /\ \A day, from, by : day \in Busy(e, C) => Within(e, v, ShiftItems(day, from, by), C)
         /\ \A day : day \in Busy(e, C) => Within(e, v, Resequence(day), C)
         /\ \A id, day, slot : day \in Busy(e, C) /\ (id \in PlacesOf(v) => v[id].in \in Busy(e, C)) =>
              Within(e, v, PlaceItem(id, day, slot), C)
         /\ Within(e, v, RenumberDays, C) /\ Within(e, v, BumpVersion, C) /\ Within(e, v, DeleteDays, C)
         /\ \A days : Within(e, v, ClearRoutes(days), C)
<1> USE DEF Within
<1>1. \A id, at : (id \in PlacesOf(v) => v[id].in \in Busy(e, C)) => Within(e, v, SetAt(id, at), C)
  BY DEF SetAt
<1>2. \A id, day : day \in C /\ (id \in PlacesOf(v) => v[id].in \in C) => Within(e, v, SetDay(id, day), C)
  BY DEF SetDay
<1>3. \A id, parent, at : id \notin PlacesOf(v) /\ parent \in Busy(e, C) =>
        Within(e, v, Insert(id, parent, at), C)
  BY DEF Insert, Place
<1>4. \A id : (id \in PlacesOf(v) => v[id].in \in Busy(e, C)) => Within(e, v, Delete(id), C)
  BY DEF Delete
<1>5. \A day, from, by : day \in Busy(e, C) => Within(e, v, ShiftItems(day, from, by), C)
  BY DEF ShiftItems
<1>6. \A day : day \in Busy(e, C) => Within(e, v, Resequence(day), C)
  BY DEF Resequence
<1>7. \A id, day, slot : day \in Busy(e, C) /\ (id \in PlacesOf(v) => v[id].in \in Busy(e, C)) =>
        Within(e, v, PlaceItem(id, day, slot), C)
  BY DEF PlaceItem
<1>8. Within(e, v, RenumberDays, C) /\ Within(e, v, BumpVersion, C) /\ Within(e, v, DeleteDays, C)
  BY DEF RenumberDays, BumpVersion, DeleteDays
<1>9. \A days : Within(e, v, ClearRoutes(days), C)
  BY DEF ClearRoutes
<1> QED
  BY <1>1, <1>2, <1>3, <1>4, <1>5, <1>6, <1>7, <1>8, <1>9

LEMMA StatementKinds ==
  /\ \A id, at : SetAt(id, at).do = "setAt"
  /\ \A id, day : SetDay(id, day).do = "setDay"
  /\ \A id, parent, at : Insert(id, parent, at).do = "insert"
  /\ \A id : Delete(id).do = "delete"
  /\ \A day, from, by : ShiftItems(day, from, by).do = "shift"
  /\ \A day : Resequence(day).do = "resequence"
  /\ \A id, day, slot : PlaceItem(id, day, slot).do = "place"
  /\ RenumberDays.do = "renumber" /\ BumpVersion.do = "bump" /\ DeleteDays.do = "deleteDays"
  /\ \A days : ClearRoutes(days).do = "clear" /\ ClearRoutes(days).days = days
BY DEF SetAt, SetDay, Insert, Delete, ShiftItems, Resequence, PlaceItem, RenumberDays, BumpVersion,
       DeleteDays, ClearRoutes

LEMMA AddDayTends ==
  ASSUME NEW v, WellFormed(v), NEW e \in Edits, Unknown(v, NewDay(e)), NEW slot \in Slots, NEW before
  PROVE  Tending(e, v, AddDayPlan(e, v, slot), before, v)
<1>1. PICK at \in Nat :
        Prepares(v, Itin, at, AddDayPlan(e, v, slot), <<Insert(NewDay(e), Itin, at), BumpVersion>>)
  BY AddDayPrepares
<1>2. PICK a, b, r : a = Insert(NewDay(e), Itin, at) /\ b = BumpVersion /\ r = <<a, b>>
  OBVIOUS
<1>3. a.do = "insert" /\ b.do = "bump"
  BY <1>2, StatementKinds
<1>4. Within(e, v, a, {}) /\ Within(e, v, b, {})
  <2>1. NewDay(e) \notin PlacesOf(v) /\ Itin \in Busy(e, {})
    BY DEF Unknown, PlacesOf, Busy
  <2> QED
    BY <1>2, <2>1, WithinOne
<1>5. r \in Seq({a, b}) /\ DOMAIN r = {1, 2} /\ r[1] = a /\ r[2] = b
  BY <1>2
<1>6. Cleared(r) = {} /\ Tending(e, v, r, before, v)
  BY <1>3, <1>4, <1>5, TendingStarts
<1>7. IsList(r) /\ Itin \in Busy(e, Cleared(r))
  BY <1>5, AnyList DEF Busy
<1> QED
  BY <1>1, <1>2, <1>6, <1>7, TendingPrepared

LEMMA AddItemTends ==
  ASSUME NEW v, WellFormed(v), NEW e \in Edits, \A new \in NewRows(e) : Unknown(v, new),
         NEW day \in DOMAIN v, NEW slot \in Slots, NEW at \in InsertionPoints(v, day, slot)
  PROVE  Tending(e, v, AddItemPlan(e, v, day, at), RouteStartsOf(v, {day}), v)
<1>1. Prepares(v, day, at, AddItemPlan(e, v, day, at), <<Insert(NewItem(e, 1), day, at), ClearRoutes({day})>>)
  BY AddItemPrepares
<1>2. PICK a, b, r, C : /\ a = Insert(NewItem(e, 1), day, at) /\ b = ClearRoutes({day}) /\ r = <<a, b>>
                        /\ C = {day}
  OBVIOUS
<1>3. a.do = "insert" /\ b.do = "clear" /\ b.days = C
  BY <1>2, StatementKinds
<1>4. Within(e, v, a, C) /\ Within(e, v, b, C)
  <2>1. NewItem(e, 1) \notin PlacesOf(v) /\ day \in Busy(e, C)
    BY <1>2 DEF Unknown, PlacesOf, Busy, NewRows
  <2> QED
    BY <1>2, <2>1, WithinOne
<1>5. r \in Seq({a, b}) /\ DOMAIN r = {1, 2} /\ r[1] = a /\ r[2] = b
  BY <1>2
<1>6. PICK before : before = RouteStartsOf(v, C)
  OBVIOUS
<1>7. Cleared(r) = C /\ Tending(e, v, r, before, v)
  <2>1. Unknown(v, NewDay(e))
    BY DEF NewRows
  <2>2. \A k \in DOMAIN r : Within(e, v, r[k], C)
    BY <1>4, <1>5
  <2>3. \A k \in DOMAIN r : r[k].do = "clear" =>
          /\ r[k].days = C /\ before = RouteStartsOf(v, C)
          /\ \A j \in DOMAIN r : k < j => r[j].do = "bump"
    BY <1>3, <1>5, <1>6
  <2>4. \E k \in DOMAIN r : r[k].do = "clear"
    BY <1>3, <1>5
  <2> QED
    BY <2>1, <2>2, <2>3, <2>4, TendingStarts
<1>8. IsList(r) /\ day \in Busy(e, Cleared(r))
  BY <1>2, <1>5, <1>7, AnyList DEF Busy
<1> QED
  BY <1>1, <1>2, <1>6, <1>7, <1>8, TendingPrepared

LEMMA ReuseDayTends ==
  ASSUME NEW v, WellFormed(v), NEW e \in Edits, \A new \in NewRows(e) : Unknown(v, new),
         NEW index \in Nat, NEW before
  PROVE  Tending(e, v, ReuseDayPlan(e, v, index), before, v)
<1>1. PICK at \in Nat : at = index + 1
  OBVIOUS
<1>2. PICK a, b, c, r : /\ a = Insert(NewDay(e), Itin, at) /\ b = Insert(NewItem(e, 1), NewDay(e), 0)
                        /\ c = BumpVersion /\ r = <<a, b, c>>
  OBVIOUS
<1>3. Prepares(v, Itin, at, ReuseDayPlan(e, v, index), r)
  BY <1>1, <1>2, ReuseDayPrepares
<1>4. a.do = "insert" /\ b.do = "insert" /\ c.do = "bump"
  BY <1>2, StatementKinds
<1>5. Within(e, v, a, {}) /\ Within(e, v, b, {}) /\ Within(e, v, c, {})
  <2>1. /\ NewDay(e) \notin PlacesOf(v) /\ NewItem(e, 1) \notin PlacesOf(v)
        /\ Itin \in Busy(e, {}) /\ NewDay(e) \in Busy(e, {})
    BY DEF Unknown, PlacesOf, Busy, NewRows
  <2> QED
    BY <1>2, <2>1, WithinOne
<1>6. r \in Seq({a, b, c}) /\ DOMAIN r = {1, 2, 3} /\ r[1] = a /\ r[2] = b /\ r[3] = c
  BY <1>2
<1>7. Cleared(r) = {} /\ Tending(e, v, r, before, v)
  <2>1. Unknown(v, NewDay(e))
    BY DEF NewRows
  <2> QED
    BY <1>4, <1>5, <1>6, <2>1, TendingStarts
<1>8. IsList(r) /\ Itin \in Busy(e, Cleared(r))
  BY <1>6, AnyList DEF Busy
<1> QED
  BY <1>3, <1>7, <1>8, TendingPrepared

LEMMA JoinedAgain ==
  ASSUME NEW a, NEW b, NEW c, IsList(a), IsList(b), IsList(c)
  PROVE  (a \o b) \o c = a \o (b \o c)
<1>1. PICK S : S = {a[k] : k \in DOMAIN a} \union {b[k] : k \in DOMAIN b} \union {c[k] : k \in DOMAIN c}
  OBVIOUS
<1>2. a \in Seq(S) /\ b \in Seq(S) /\ c \in Seq(S)
  BY <1>1 DEF IsList
<1> QED
  BY <1>2

LEMMA ReuseItemTends ==
  ASSUME NEW v, NEW e \in Edits, \A new \in NewRows(e) : Unknown(v, new),
         NEW day, NEW position, NEW copies \in 1..2
  PROVE  Tending(e, v, ReuseItemPlan(e, day, position, copies), RouteStartsOf(v, {day}), v)
<1>1. PICK one, two, three, C :
        /\ one = ShiftItems(day, position, copies) /\ two = ClearRoutes({day})
        /\ three = BumpVersion /\ C = {day}
  OBVIOUS
<1>2. one.do = "shift" /\ two.do = "clear" /\ two.days = C /\ three.do = "bump"
  BY <1>1, StatementKinds
<1>3. PICK inserts : inserts = [k \in 1..copies |-> Insert(NewItem(e, k), day, position + k - 1)]
  OBVIOUS
<1>4. IsList(inserts) /\ DOMAIN inserts = 1..copies
  <2>1. inserts = [k \in 1..copies |-> inserts[k]]
    BY <1>3
  <2>2. copies \in Nat
    OBVIOUS
  <2> QED
    BY <2>1, <2>2, Numbered
<1>5. day \in Busy(e, C)
  BY <1>1 DEF Busy
<1>6. ASSUME NEW k \in DOMAIN inserts
      PROVE  inserts[k].do = "insert" /\ Within(e, v, inserts[k], C)
  <2>1. k \in 1..2 /\ k \in 1..copies
    BY <1>4
  <2>2. PICK at, new : at = position + k - 1 /\ new = NewItem(e, k)
    OBVIOUS
  <2>3. new \notin PlacesOf(v)
    BY <2>1, <2>2 DEF NewRows, Unknown, PlacesOf
  <2>4. inserts[k] = Insert(new, day, at)
    BY <1>3, <2>1, <2>2
  <2>5. Within(e, v, Insert(new, day, at), C)
    BY <1>5, <2>3, WithinOne
  <2> QED
    BY <2>4, <2>5, StatementKinds
<1>7. PICK first, last : first = <<one>> /\ last = <<two, three>>
  OBVIOUS
<1>8. /\ IsList(first) /\ DOMAIN first = {1} /\ first[1] = one
      /\ IsList(last) /\ DOMAIN last = {1, 2} /\ last[1] = two /\ last[2] = three
  <2>1. first \in Seq({one}) /\ last \in Seq({two, three})
    BY <1>7
  <2>2. IsList(first) /\ IsList(last)
    BY <2>1, AnyList
  <2> QED
    BY <1>7, <2>2
<1>9. PICK before : before = RouteStartsOf(v, C)
  OBVIOUS
<1>10. Cleared(last) = C /\ Tending(e, v, last, before, v)
  <2>1. Unknown(v, NewDay(e))
    BY DEF NewRows
  <2>2. Within(e, v, two, C) /\ Within(e, v, three, C)
    BY <1>1, WithinOne
  <2>3. \A k \in DOMAIN last : Within(e, v, last[k], C)
    BY <1>8, <2>2
  <2>4. \A k \in DOMAIN last : last[k].do = "clear" =>
          /\ last[k].days = C /\ before = RouteStartsOf(v, C)
          /\ \A j \in DOMAIN last : k < j => last[j].do = "bump"
    BY <1>2, <1>8, <1>9
  <2>5. \E k \in DOMAIN last : last[k].do = "clear"
    BY <1>2, <1>8
  <2> QED
    BY <2>1, <2>3, <2>4, <2>5, TendingStarts
<1>11. PICK u : u = inserts \o last
  OBVIOUS
<1>12. IsList(u) /\ Tending(e, v, u, before, v) /\ Cleared(u) = C
  <2>1. \A k \in DOMAIN inserts : inserts[k].do # "clear" /\ Within(e, v, inserts[k], Cleared(last))
    BY <1>6, <1>10
  <2> QED
    BY <1>4, <1>8, <1>10, <1>11, <2>1, TendingJoined, ClearedJoined, JoinedList
<1>13. Tending(e, v, first \o u, before, v)
  <2>1. Within(e, v, one, C)
    BY <1>1, <1>5, WithinOne
  <2>2. \A k \in DOMAIN first : first[k].do # "clear" /\ Within(e, v, first[k], Cleared(u))
    BY <1>2, <1>8, <1>12, <2>1
  <2> QED
    BY <1>8, <1>12, <2>2, TendingJoined
<1>14. ReuseItemPlan(e, day, position, copies) = first \o u
  <2>1. ReuseItemPlan(e, day, position, copies) = (first \o inserts) \o last
    BY <1>1, <1>3, <1>7, Zenon DEF ReuseItemPlan
  <2>2. (first \o inserts) \o last = first \o (inserts \o last)
    BY <1>4, <1>8, JoinedAgain
  <2> QED
    BY <1>11, <2>1, <2>2
<1> QED
  BY <1>1, <1>9, <1>13, <1>14

LEMMA RemoveDayTends ==
  ASSUME NEW v, NEW e \in Edits, Unknown(v, NewDay(e)), NEW id \in PlacesOf(v), v[id].in = Itin, NEW before
  PROVE  Tending(e, v, <<Delete(id), RenumberDays, BumpVersion>>, before, v)
<1>1. PICK a, b, c, r : a = Delete(id) /\ b = RenumberDays /\ c = BumpVersion /\ r = <<a, b, c>>
  OBVIOUS
<1>2. a.do = "delete" /\ b.do = "renumber" /\ c.do = "bump"
  BY <1>1, StatementKinds
<1>3. Within(e, v, a, {}) /\ Within(e, v, b, {}) /\ Within(e, v, c, {})
  BY <1>1, WithinOne DEF Busy
<1>4. DOMAIN r = {1, 2, 3} /\ r[1] = a /\ r[2] = b /\ r[3] = c
  BY <1>1
<1>5. Tending(e, v, r, before, v)
  BY <1>2, <1>3, <1>4, TendingStarts
<1> QED
  BY <1>1, <1>5

LEMMA RemoveItemTends ==
  ASSUME NEW v, NEW e \in Edits, Unknown(v, NewDay(e)), NEW id \in PlacesOf(v), NEW day, v[id].in = day
  PROVE  Tending(e, v, <<Delete(id), Resequence(day), ClearRoutes({day})>>, RouteStartsOf(v, {day}), v)
<1>1. PICK a, b, c, r, C :
        a = Delete(id) /\ b = Resequence(day) /\ c = ClearRoutes({day}) /\ r = <<a, b, c>> /\ C = {day}
  OBVIOUS
<1>2. a.do = "delete" /\ b.do = "resequence" /\ c.do = "clear" /\ c.days = C
  BY <1>1, StatementKinds
<1>3. Within(e, v, a, C) /\ Within(e, v, b, C) /\ Within(e, v, c, C)
  BY <1>1, WithinOne DEF Busy
<1>4. DOMAIN r = {1, 2, 3} /\ r[1] = a /\ r[2] = b /\ r[3] = c
  BY <1>1
<1>5. \A k \in DOMAIN r : Within(e, v, r[k], C)
  BY <1>3, <1>4
<1>6. PICK before : before = RouteStartsOf(v, C)
  OBVIOUS
<1>7. Tending(e, v, r, before, v)
  <2>1. \A k \in DOMAIN r : r[k].do = "clear" =>
          /\ r[k].days = C /\ before = RouteStartsOf(v, C)
          /\ \A j \in DOMAIN r : k < j => r[j].do = "bump"
    BY <1>2, <1>4, <1>6
  <2>2. \E k \in DOMAIN r : r[k].do = "clear"
    BY <1>2, <1>4
  <2> QED
    BY <1>5, <2>1, <2>2, TendingStarts
<1> QED
  BY <1>1, <1>6, <1>7

LEMMA MoveTends ==
  ASSUME NEW v, NEW e \in Edits, Unknown(v, NewDay(e)), NEW id \in PlacesOf(v), NEW day, NEW slot,
         NEW from, from = v[id].in
  PROVE  Tending(e, v, MoveItemPlan(v, id, day, slot), RouteStartsOf(v, {from, day}), v)
<1>1. PICK C, before : C = {from, day} /\ before = RouteStartsOf(v, C)
  OBVIOUS
<1>2. PICK a, b, c : a = SetAt(id, -1) /\ b = SetDay(id, day) /\ c = Resequence(from)
  OBVIOUS
<1>3. PICK d, f, g : d = PlaceItem(id, day, slot) /\ f = Resequence(day) /\ g = ClearRoutes({from, day})
  OBVIOUS
<1>4. /\ a.do = "setAt" /\ b.do = "setDay" /\ c.do = "resequence"
      /\ d.do = "place" /\ f.do = "resequence" /\ g.do = "clear" /\ g.days = C
  BY <1>1, <1>2, <1>3, StatementKinds
<1>5. /\ Within(e, v, a, C) /\ Within(e, v, b, C) /\ Within(e, v, c, C)
      /\ Within(e, v, d, C) /\ Within(e, v, f, C) /\ Within(e, v, g, C)
  <2>1. from \in C /\ day \in C /\ from \in Busy(e, C) /\ day \in Busy(e, C)
    BY <1>1 DEF Busy
  <2> QED
    BY <1>2, <1>3, <2>1, WithinOne
<1>0. MoveItemPlan(v, id, day, slot) =
        IF from = day THEN MoveWithin(id, day, slot) ELSE MoveAcross(id, from, day, slot)
  BY MoveWritten
<1>6. CASE from = day
  <2>1. PICK r : r = <<a, d, f, g>>
    OBVIOUS
  <2>2. DOMAIN r = {1, 2, 3, 4} /\ r[1] = a /\ r[2] = d /\ r[3] = f /\ r[4] = g
    BY <2>1
  <2>3. \A k \in DOMAIN r : Within(e, v, r[k], C)
    BY <1>5, <2>2
  <2>4. Tending(e, v, r, before, v)
    <3>1. \A k \in DOMAIN r : r[k].do = "clear" =>
            /\ r[k].days = C /\ before = RouteStartsOf(v, C)
            /\ \A j \in DOMAIN r : k < j => r[j].do = "bump"
      BY <1>1, <1>4, <2>2
    <3>2. \E k \in DOMAIN r : r[k].do = "clear"
      BY <1>4, <2>2
    <3> QED
      BY <2>3, <3>1, <3>2, TendingStarts
  <2>5. MoveItemPlan(v, id, day, slot) = MoveWithin(id, day, slot)
    BY <1>0, <1>6
  <2>6. MoveWithin(id, day, slot) = r
    BY <1>2, <1>3, <1>6, <2>1 DEF MoveWithin
  <2> QED
    BY <1>1, <2>4, <2>5, <2>6
<1>7. CASE from # day
  <2>1. PICK r : r = <<a, b, c, d, g>>
    OBVIOUS
  <2>2. DOMAIN r = {1, 2, 3, 4, 5} /\ r[1] = a /\ r[2] = b /\ r[3] = c /\ r[4] = d /\ r[5] = g
    BY <2>1
  <2>3. \A k \in DOMAIN r : Within(e, v, r[k], C)
    BY <1>5, <2>2
  <2>4. Tending(e, v, r, before, v)
    <3>1. \A k \in DOMAIN r : r[k].do = "clear" =>
            /\ r[k].days = C /\ before = RouteStartsOf(v, C)
            /\ \A j \in DOMAIN r : k < j => r[j].do = "bump"
      BY <1>1, <1>4, <2>2
    <3>2. \E k \in DOMAIN r : r[k].do = "clear"
      BY <1>4, <2>2
    <3> QED
      BY <2>3, <3>1, <3>2, TendingStarts
  <2>5. MoveItemPlan(v, id, day, slot) = MoveAcross(id, from, day, slot)
    BY <1>0, <1>7
  <2>6. MoveAcross(id, from, day, slot) = r
    BY <1>2, <1>3, <2>1 DEF MoveAcross
  <2> QED
    BY <1>1, <2>4, <2>5, <2>6
<1> QED
  BY <1>6, <1>7

LEMMA ReplaceTends ==
  ASSUME NEW v, NEW e \in Edits, \A new \in NewRows(e) : Unknown(v, new), NEW number, NEW before
  PROVE  Tending(e, v, ReplacePlan(e, number), before, v)
<1>1. PICK a, b : a = DeleteDays /\ b = BumpVersion
  OBVIOUS
<1>2. PICK c, d, r : /\ c = Insert(NewDay(e), Itin, number) /\ d = Insert(NewItem(e, 1), NewDay(e), 1)
                     /\ r = <<a, b, c, d>>
  OBVIOUS
<1>3. a.do = "deleteDays" /\ b.do = "bump" /\ c.do = "insert" /\ d.do = "insert"
  BY <1>1, <1>2, StatementKinds
<1>4. Within(e, v, a, {}) /\ Within(e, v, b, {}) /\ Within(e, v, c, {}) /\ Within(e, v, d, {})
  <2>1. /\ NewDay(e) \notin PlacesOf(v) /\ NewItem(e, 1) \notin PlacesOf(v)
        /\ Itin \in Busy(e, {}) /\ NewDay(e) \in Busy(e, {})
    BY DEF Unknown, PlacesOf, Busy, NewRows
  <2> QED
    BY <1>1, <1>2, <2>1, WithinOne
<1>5. DOMAIN r = {1, 2, 3, 4} /\ r[1] = a /\ r[2] = b /\ r[3] = c /\ r[4] = d
  BY <1>2
<1>6. Tending(e, v, r, before, v)
  <2>1. Unknown(v, NewDay(e))
    BY DEF NewRows
  <2> QED
    BY <1>3, <1>4, <1>5, <2>1, TendingStarts
<1>7. ReplacePlan(e, number) = r
  BY <1>1, <1>2 DEF ReplacePlan
<1> QED
  BY <1>6, <1>7

\* Statements on the statuses leave the routes alone.
LEMMA StatusSettles ==
  ASSUME NEW v, NEW e, NEW op, op.kind \in StatusKinds, NEW todo \in Plans(e, v, op)
  PROVE  Settling(v, todo, v)
<1>2. PICK a, b : a = SetStatus(Trip, Approved) /\ b = SetStatus(Itin, Approved)
  OBVIOUS
<1>3. PICK c, d : c = SetStatus(Trip, "IN_REVIEW") /\ d = SetStatus(Itin, "IN_REVIEW")
  OBVIOUS
<1>4. PICK S : S = {a, b, c, d}
  OBVIOUS
<1>5. << >> \in Seq(S) /\ <<a>> \in Seq(S) /\ <<b>> \in Seq(S) /\ <<c>> \in Seq(S) /\ <<d>> \in Seq(S)
  BY <1>4
<1>6. \A x, y \in Seq(S) : x \o y \in Seq(S)
  OBVIOUS
<1>7. todo \in Seq(S)
  <2>1. CASE op.kind = "approve"
    <3>1. todo = ApprovePlan(v, op.slot)
      BY <2>1 DEF Plans, AddKinds
    <3>2. PICK y : y = IF v[Itin].status = Approved THEN << >> ELSE <<b>>
      OBVIOUS
    <3>3. y \in Seq(S)
      BY <1>5, <3>2
    <3>4. todo = << >> \/ todo = <<a>> \o y
      BY <1>2, <3>1, <3>2, Zenon DEF ApprovePlan
    <3> QED
      BY <1>5, <1>6, <3>3, <3>4
  <2>2. CASE op.kind = "reopen"
    <3>1. todo = ReopenPlan(v, op.slot)
      BY <2>2 DEF Plans, AddKinds
    <3>2. PICK x : x = IF op.slot = Approved THEN <<c>> ELSE << >>
      OBVIOUS
    <3>3. PICK y : y = IF v[Itin].status = Approved THEN <<d>> ELSE << >>
      OBVIOUS
    <3>4. x \in Seq(S) /\ y \in Seq(S)
      BY <1>5, <3>2, <3>3
    <3>5. todo = x \o y
      BY <1>3, <3>1, <3>2, <3>3, Zenon DEF ReopenPlan
    <3> QED
      BY <1>6, <3>4, <3>5
  <2> QED
    BY <2>1, <2>2 DEF StatusKinds
<1>8. \A k \in DOMAIN todo : todo[k] \in S
  BY <1>7
<1>9. \A s \in S : s.do = "setStatus"
  BY <1>2, <1>3, <1>4 DEF SetStatus
<1> QED
  BY <1>8, <1>9 DEF Settling

\* The route the agent has asked for is written as long as it is the right one.
LEMMA RouteSettles ==
  ASSUME NEW v, NEW op, op.kind = "route", RequestFits(op, v), NEW e, NEW todo \in Plans(e, v, op)
  PROVE  Settling(v, todo, v)
<1>1. PICK id, route, s : id = op.id /\ route = op.slot /\ s = SetRoute({id}, route)
  OBVIOUS
<1>2. todo = <<s>>
  BY <1>1 DEF Plans, AddKinds
<1>3. DOMAIN todo = {1} /\ todo[1] = s
  BY <1>2
<1>4. s.do = "setRoute" /\ s.ids = {id} /\ s.route = route
  BY <1>1 DEF SetRoute
<1>5. Fits(v, s)
  BY <1>1, <1>4 DEF Fits, RequestFits
<1> QED
  BY <1>3, <1>4, <1>5 DEF Settling

LEMMA PlansTended ==
  ASSUME NEW v, WellFormed(v), NEW e \in Edits, NEW op, RequestOk(op), Subjects(op) \subseteq DOMAIN v,
         RequestFits(op, v), op.kind # "route" => \A new \in NewRows(e) : Unknown(v, new),
         NEW todo \in Plans(e, v, op), NEW before, before = OrdersBefore(v, op)
  PROVE  Tending(e, v, todo, before, v) \/ Settling(v, todo, v)
<1>0. op.kind # "route" => Unknown(v, NewDay(e))
  BY DEF NewRows
<1>1. CASE op.kind = "addDay"
  <2>1. todo = AddDayPlan(e, v, op.slot) /\ op.slot \in Slots
    BY <1>1 DEF Plans, RequestOk, AddKinds
  <2>2. PICK slot \in Slots : slot = op.slot
    BY <2>1
  <2>3. Tending(e, v, AddDayPlan(e, v, slot), before, v)
    BY <1>0, <1>1, AddDayTends
  <2> QED
    BY <2>1, <2>2, <2>3
<1>2. CASE op.kind \in AddKinds
  <2>1. PICK day \in DOMAIN v, slot \in Slots : day = op.day /\ slot = op.slot
    BY <1>2 DEF RequestOk, Subjects, AddKinds
  <2>2. PICK at \in InsertionPoints(v, day, slot) : todo = AddItemPlan(e, v, day, at)
    BY <1>2, <2>1 DEF Plans, AddKinds
  <2>3. before = RouteStartsOf(v, {day})
    <3>1. op.kind \in AddKinds \union {"reuseItem"}
      BY <1>2
    <3>2. OrdersBefore(v, op) = RouteStartsOf(v, {op.day})
      BY <3>1 DEF OrdersBefore, AddKinds
    <3> QED
      BY <2>1, <3>2
  <2>4. \A new \in NewRows(e) : Unknown(v, new)
    BY <1>2 DEF AddKinds
  <2>5. Tending(e, v, AddItemPlan(e, v, day, at), RouteStartsOf(v, {day}), v)
    BY <2>4, AddItemTends
  <2> QED
    BY <2>2, <2>3, <2>5
<1>3. CASE op.kind = "reuseDay"
  <2>1. todo = ReuseDayPlan(e, v, op.slot) /\ op.slot \in Nat
    BY <1>3 DEF Plans, RequestOk, AddKinds, ReuseKinds
  <2>2. PICK index \in Nat : index = op.slot
    BY <2>1
  <2>3. Tending(e, v, ReuseDayPlan(e, v, index), before, v)
    BY <1>3, ReuseDayTends
  <2> QED
    BY <2>1, <2>2, <2>3
<1>4. CASE op.kind = "reuseItem"
  <2>1. todo = ReuseItemPlan(e, op.day, op.slot, op.copies) /\ op.copies \in 1..2
    BY <1>4 DEF Plans, RequestOk, AddKinds
  <2>2. PICK parent, position, copies : parent = op.day /\ position = op.slot /\ copies = op.copies
    OBVIOUS
  <2>3. copies \in 1..2
    BY <2>1, <2>2
  <2>4. before = RouteStartsOf(v, {parent})
    BY <1>4, <2>2 DEF OrdersBefore
  <2>5. Tending(e, v, ReuseItemPlan(e, parent, position, copies), RouteStartsOf(v, {parent}), v)
    BY <1>4, <2>3, ReuseItemTends
  <2> QED
    BY <2>1, <2>2, <2>4, <2>5
<1>5. CASE op.kind = "removeDay"
  <2>0. op.id \in PlacesOf(v)
    <3>1. Subjects(op) = {op.id}
      BY <1>5 DEF Subjects, AddKinds
    <3>2. op.id \notin {Trip, Itin}
      BY <1>5 DEF RequestOk
    <3> QED
      BY <3>1, <3>2 DEF PlacesOf
  <2>1. PICK id \in PlacesOf(v) : id = op.id
    BY <2>0
  <2>2. todo = <<Delete(id), RenumberDays, BumpVersion>>
    BY <1>5, <2>1 DEF Plans, AddKinds
  <2>3. v[id].in = Itin
    BY <1>5, <2>1 DEF RequestFits
  <2> QED
    BY <1>0, <1>5, <2>2, <2>3, RemoveDayTends
<1>6. CASE op.kind = "removeItem"
  <2>0. op.id \in PlacesOf(v)
    <3>1. Subjects(op) = {op.id}
      BY <1>6 DEF Subjects, AddKinds
    <3>2. op.id \notin {Trip, Itin}
      BY <1>6 DEF RequestOk
    <3> QED
      BY <3>1, <3>2 DEF PlacesOf
  <2>1. PICK id \in PlacesOf(v) : id = op.id
    BY <2>0
  <2>2. PICK day : day = v[id].in
    OBVIOUS
  <2>3. todo = <<Delete(id), Resequence(day), ClearRoutes({day})>>
    BY <1>6, <2>1, <2>2 DEF Plans, AddKinds
  <2>4. before = RouteStartsOf(v, {day})
    BY <1>6, <2>1, <2>2 DEF OrdersBefore, AddKinds
  <2>5. Tending(e, v, <<Delete(id), Resequence(day), ClearRoutes({day})>>, RouteStartsOf(v, {day}), v)
    BY <1>0, <1>6, <2>2, RemoveItemTends
  <2> QED
    BY <2>3, <2>4, <2>5
<1>7. CASE op.kind = "moveItem"
  <2>1. PICK id \in PlacesOf(v), day \in DOMAIN v, slot \in Slots :
          id = op.id /\ day = op.day /\ slot = op.slot
    BY <1>7 DEF RequestOk, Subjects, PlacesOf, AddKinds
  <2>2. PICK from : from = v[id].in
    OBVIOUS
  <2>3. todo = MoveItemPlan(v, id, day, slot)
    BY <1>7, <2>1 DEF Plans, AddKinds
  <2>4. before = RouteStartsOf(v, {from, day})
    BY <1>7, <2>1, <2>2 DEF OrdersBefore, AddKinds
  <2>5. Tending(e, v, MoveItemPlan(v, id, day, slot), RouteStartsOf(v, {from, day}), v)
    BY <1>0, <1>7, <2>2, MoveTends
  <2> QED
    BY <2>3, <2>4, <2>5
<1>8. CASE op.kind = "replace"
  <2>1. todo = ReplacePlan(e, op.slot)
    BY <1>8 DEF Plans, AddKinds
  <2>2. PICK number : number = op.slot
    OBVIOUS
  <2>3. Tending(e, v, ReplacePlan(e, number), before, v)
    BY <1>8, ReplaceTends
  <2> QED
    BY <2>1, <2>2, <2>3
<1>9. CASE op.kind \in StatusKinds
  BY <1>9, StatusSettles
<1>10. CASE op.kind = "route"
  BY <1>10, RouteSettles
<1> QED
  BY <1>1, <1>2, <1>3, <1>4, <1>5, <1>6, <1>7, <1>8, <1>9, <1>10
     DEF RequestOk, HandKinds, AddKinds, ReuseKinds

\* The rows of a transaction that has written nothing.
LEMMA SameTended ==
  ASSUME NEW v, Typed(v), KeysAreUnique(v), NEW w, SameRows(v, w), NEW e, NEW t, NEW before
  PROVE  /\ Tending(e, v, t, before, v) => Tending(e, w, t, before, v)
         /\ Settling(v, t, v) => Settling(w, t, v)
<1>1. PlacesOf(w) = PlacesOf(v) /\ \A x \in PlacesOf(v) : w[x] = v[x]
  BY DEF SameRows, PlacesOf
<1>2. \A s, C : Within(e, v, s, C) => Within(e, w, s, C)
  BY <1>1 DEF Within
<1>3. \A D : OthersRest(v, v, D) => OthersRest(w, v, D)
  <2>1. SUFFICES ASSUME NEW D, OthersRest(v, v, D), NEW x \in PlacesOf(v), w[x].in \notin D
                 PROVE  /\ x \in PlacesOf(v) /\ v[x].in = w[x].in /\ v[x].at = w[x].at
                        /\ \A y \in Children(v, w[x].in) : y \in DOMAIN w /\ w[y].in = w[x].in
    BY <1>1 DEF OthersRest
  <2> QED
    BY <1>1, <2>1 DEF Children, PlacesOf
<1>4. \A C : RoutesKept(v, v, C) => RoutesKept(w, v, C)
  BY <1>1 DEF RoutesKept
<1>5. ASSUME Tending(e, v, t, before, v)
      PROVE  Tending(e, w, t, before, v)
  BY <1>2, <1>3, <1>4, <1>5 DEF Tending
<1>6. \A day : RouteStarts(w, day) = RouteStarts(v, day)
  BY <1>1, SettledStarts
<1>7. ASSUME Settling(v, t, v)
      PROVE  Settling(w, t, v)
  <2>1. \A s : Fits(v, s) => Fits(w, s)
    BY <1>1, <1>6 DEF Fits
  <2>2. \A x \in PlacesOf(v) : RouteIsCurrent(v, x) => RouteIsCurrent(w, x)
    BY <1>1, <1>6 DEF RouteIsCurrent
  <2> QED
    BY <1>1, <1>7, <2>1, <2>2 DEF Settling
<1> QED
  BY <1>5, <1>7

(***************************************************************************)
(* The routes of a lone edit, step by step.                                *)
(***************************************************************************)
LEMMA RoutesStay ==
  ASSUME LoneInv, NEW e \in Edits, Active(e), \A u \in Edits \ {e} : edit'[u] = edit[u],
         edit'[e].alone => Tended(e, edit'[e], table')
  PROVE  RoutesTended'
<1>1. SUFFICES ASSUME NEW u \in Edits \ {e}, edit[u].alone
               PROVE  Tended(u, edit[u], table')
  BY DEF RoutesTended
<1>2. ~ Active(u)
  BY <1>1 DEF LoneInv, LonesAreSmooth
<1> QED
  BY <1>2 DEF Active, Tended

LEMMA UndoneRoutes ==
  ASSUME EditsInv, LoneInv, NEW e \in Edits, Active(e), edit' = Undone(e)
  PROVE  RoutesTended'
<1>1. DOMAIN edit = Edits
  BY DEF EditsInv
<1>2. \A u \in Edits \ {e} : edit'[u] = edit[u]
  BY <1>1 DEF Undone
<1>3. edit'[e].phase = "failed"
  BY <1>1 DEF Undone, Idle
<1>4. Tended(e, edit'[e], table')
  BY <1>3 DEF Tended
<1> QED
  BY <1>2, <1>4, RoutesStay

LEMMA EnterRoutes ==
  ASSUME EditsInv, NEW e \in Edits, UNCHANGED table,
         NEW phase \in {"asked", "begun"}, NEW op, Enter(e, phase, op), RequestFits(op, table)
  PROVE  RoutesTended'
<1>1. DOMAIN edit = Edits /\ \A u \in Edits : DOMAIN edit[u] = Fields
  BY DEF EditsInv
<1>2. PICK alone : alone = \A w \in Edits \ {e} : ~ Active(w)
  OBVIOUS
<1>3. edit' = [u \in Edits |->
         IF u = e THEN [Idle EXCEPT !.phase = phase, !.op = op, !.alone = alone]
         ELSE IF Active(u) THEN [edit[u] EXCEPT !.alone = FALSE] ELSE edit[u]]
  BY <1>2 DEF Enter
<1>4. PICK r : r = edit'[e]
  OBVIOUS
<1>5. /\ r = [Idle EXCEPT !.phase = phase, !.op = op, !.alone = alone]
      /\ \A u \in Edits \ {e} : edit'[u] = IF Active(u) THEN [edit[u] EXCEPT !.alone = FALSE] ELSE edit[u]
  BY <1>3, <1>4
<1>6. r.phase = phase /\ r.op = op
  BY <1>5 DEF Idle
<1>7. ASSUME NEW u \in Edits \ {e}, edit'[u].alone
      PROVE  Tended(u, edit'[u], table')
  <2>1. PICK t : t = edit[u] /\ DOMAIN t = Fields
    BY <1>1
  <2>2. edit'[u] = IF Active(u) THEN [t EXCEPT !.alone = FALSE] ELSE t
    BY <1>5, <2>1
  <2>3. [t EXCEPT !.alone = FALSE].alone = FALSE
    BY <2>1 DEF Fields
  <2>4. ~ Active(u) /\ edit'[u] = t
    BY <1>7, <2>2, <2>3
  <2> QED
    BY <2>1, <2>4 DEF Active, Tended
<1>8. Tended(e, r, table')
  BY <1>6 DEF Tended
<1> QED
  BY <1>4, <1>7, <1>8 DEF RoutesTended

LEMMA BeginRoutes ==
  ASSUME EditsInv, NEW e \in Edits, BeginHandEdit(e) \/ BeginStatusEdit(e) \/ AskReuse(e)
  PROVE  RoutesTended'
<1>1. UNCHANGED table
  BY DEF BeginHandEdit, BeginStatusEdit, AskReuse
<1>2. CASE BeginHandEdit(e)
  <2>1. PICK op \in HandOps : Enter(e, "begun", op)
    BY <1>2 DEF BeginHandEdit
  <2>2. op.kind # "route" /\ (op.kind = "removeDay" => op.id \in Children(table, Itin))
    BY DEF HandOps, Op, AddKinds
  <2>3. RequestFits(op, table)
    BY <2>2 DEF RequestFits, Children
  <2> QED
    BY <1>1, <2>1, <2>3, EnterRoutes
<1>3. ASSUME NEW phase \in {"asked", "begun"}, NEW op, op.kind \in StatusKinds \union ReuseKinds, Enter(e, phase, op)
      PROVE  RoutesTended'
  <2>1. RequestFits(op, table)
    BY <1>3 DEF RequestFits, StatusKinds, ReuseKinds
  <2> QED
    BY <1>1, <1>3, <2>1, EnterRoutes
<1>4. CASE BeginStatusEdit(e)
  <2>1. PICK kind \in StatusKinds : Enter(e, "begun", Op(kind, None, None, table[Trip].status, 0))
    BY <1>4 DEF BeginStatusEdit
  <2>2. PICK op : op = Op(kind, None, None, table[Trip].status, 0)
    OBVIOUS
  <2>3. op.kind \in StatusKinds
    BY <2>2 DEF Op
  <2> QED
    BY <1>3, <2>1, <2>2, <2>3
<1>5. CASE AskReuse(e)
  <2>1. PICK kind, day, slot, copies :
          kind \in ReuseKinds /\ Enter(e, "asked", Op(kind, None, day, slot, copies))
    <3>1. \/ \E slot : Enter(e, "asked", Op("reuseDay", None, None, slot, 1))
          \/ \E day, slot, copies : Enter(e, "asked", Op("reuseItem", None, day, slot, copies))
      BY <1>5 DEF AskReuse
    <3> QED
      BY <3>1 DEF ReuseKinds
  <2>2. PICK op : op = Op(kind, None, day, slot, copies)
    OBVIOUS
  <2>3. op.kind \in ReuseKinds
    BY <2>1, <2>2 DEF Op
  <2> QED
    BY <1>3, <2>1, <2>2, <2>3
<1> QED
  BY <1>2, <1>4, <1>5

LEMMA BeginAskedRoutes ==
  ASSUME EditsInv, LoneInv, RoutesTended, NEW e \in Edits, BeginAsked(e)
  PROVE  RoutesTended'
<1>1. PICK t : t = edit[e] /\ DOMAIN t = Fields
  BY DEF EditsInv
<1>2. PICK phase \in {"begun", "failed"} : edit' = [edit EXCEPT ![e].phase = phase]
  BY DEF BeginAsked
<1>3. UNCHANGED table /\ t.phase = "asked" /\ Active(e) /\ DOMAIN edit = Edits
  BY <1>1 DEF BeginAsked, Active, EditsInv
<1>4. PICK r : r = edit'[e]
  OBVIOUS
<1>5. r = [t EXCEPT !.phase = phase]
  BY <1>1, <1>2, <1>3, <1>4
<1>6. r.phase = phase /\ r.op = t.op /\ r.alone = t.alone
  BY <1>1, <1>5 DEF Fields
<1>7. \A u \in Edits \ {e} : edit'[u] = edit[u]
  BY <1>2, <1>3
<1>8. ASSUME r.alone
      PROVE  Tended(e, r, table')
  <2>1. RequestFits(t.op, table)
    BY <1>1, <1>3, <1>6, <1>8 DEF RoutesTended, Tended
  <2> QED
    BY <1>3, <1>6, <2>1 DEF Tended
<1> QED
  BY <1>3, <1>4, <1>7, <1>8, RoutesStay

LEMMA PlanRoutes ==
  ASSUME EditsInv, LoneInv, RoutesTended, NEW e \in Edits, Plan(e)
  PROVE  RoutesTended'
<1>1. PICK t : t = edit[e] /\ DOMAIN t = Fields
  BY DEF EditsInv
<1>2. UNCHANGED table /\ t.phase = "begun" /\ Active(e)
  BY <1>1 DEF Plan, Active
<1>3. TxnOk(t, table) /\ DOMAIN edit = Edits
  BY <1>1 DEF EditsInv
<1>4. WellFormed(table) /\ t.own = << >> /\ t.dropped = {} /\ RequestOk(t.op)
  BY <1>2, <1>3 DEF TxnOk, EditsInv
<1>5. \/ edit' = Undone(e)
      \/ /\ Subjects(t.op) \subseteq DOMAIN table
         /\ \E todo \in Plans(e, table, t.op) :
              edit' = [edit EXCEPT ![e].phase = "open", ![e].todo = todo,
                                   ![e].before = OrdersBefore(table, t.op)]
  BY <1>1 DEF Plan
<1>6. ASSUME Subjects(t.op) \subseteq DOMAIN table, NEW todo \in Plans(e, table, t.op),
             NEW before, before = OrdersBefore(table, t.op),
             edit' = [edit EXCEPT ![e].phase = "open", ![e].todo = todo, ![e].before = before]
      PROVE  RoutesTended'
  <2>1. PICK r : r = edit'[e]
    OBVIOUS
  <2>2. r = [t EXCEPT !.phase = "open", !.todo = todo, !.before = before]
    BY <1>1, <1>3, <1>6, <2>1
  <2>3. /\ r.phase = "open" /\ r.todo = todo /\ r.own = t.own /\ r.dropped = t.dropped
        /\ r.alone = t.alone /\ r.before = before
    BY <1>1, <2>2 DEF Fields
  <2>4. \A u \in Edits \ {e} : edit'[u] = edit[u]
    BY <1>3, <1>6
  <2>5. ASSUME r.alone
        PROVE  Tended(e, r, table')
    <3>1. RequestFits(t.op, table)
      BY <1>1, <1>2, <2>3, <2>5 DEF RoutesTended, Tended
    <3>2. t.op.kind # "route" => \A new \in NewRows(e) : Unknown(table, new)
      BY <1>1, <1>2 DEF LoneInv, RowsAreNew, IsNew, Spent
    <3>3. Tending(e, table, todo, before, table) \/ Settling(table, todo, table)
      BY <1>4, <1>6, <3>1, <3>2, PlansTended
    <3>4. PICK w : w = See(r, table)
      OBVIOUS
    <3>5. SameRows(table, w)
      BY <1>4, <2>3, <3>4, NothingHeld DEF SameRows
    <3>6. Typed(table) /\ KeysAreUnique(table)
      BY <1>4 DEF WellFormed, Typed
    <3>7. Tending(e, w, todo, before, table) \/ Settling(w, todo, table)
      BY <3>3, <3>5, <3>6, SameTended
    <3> QED
      BY <1>2, <2>3, <3>4, <3>7 DEF Tended
  <2> QED
    BY <1>2, <2>1, <2>4, <2>5, RoutesStay
<1> QED
  BY <1>2, <1>5, <1>6, UndoneRoutes

LEMMA PutBefore ==
  ASSUME NEW one, NEW x, IsList(x), \A k \in DOMAIN x : x[k] = one, NEW r, IsList(r),
         \A k \in DOMAIN r : r[k].do = "bump", NEW t, t = x \o r
  PROVE  /\ IsList(t) /\ \A k \in DOMAIN t : t[k].do = "bump" \/ t[k] = one
         /\ DOMAIN x # {} => \E k \in DOMAIN t : t[k] = one
<1>1. PICK n \in Nat : n = Len(x) /\ DOMAIN x = 1..n
  BY ListFacts
<1>2. PICK m \in Nat : m = Len(r) /\ DOMAIN r = 1..m
  BY ListFacts
<1>3. /\ IsList(t) /\ Len(t) = n + m
      /\ \A k \in 1..n : t[k] = x[k]
      /\ \A k \in 1..m : t[n + k] = r[k]
  BY <1>1, <1>2, JoinedList
<1>4. DOMAIN t = 1..(n + m)
  BY <1>3, ListFacts
<1>5. ASSUME NEW k \in DOMAIN t
      PROVE  t[k].do = "bump" \/ t[k] = one
  <2>1. CASE k \in 1..n
    BY <1>1, <1>3, <2>1
  <2>2. CASE k \notin 1..n
    <3>1. PICK j : j = k - n
      OBVIOUS
    <3>2. j \in 1..m /\ k = n + j
      BY <1>4, <1>5, <2>2, <3>1
    <3> QED
      BY <1>2, <1>3, <3>2
  <2> QED
    BY <2>1, <2>2
<1>6. ASSUME NEW k \in DOMAIN x
      PROVE  k \in DOMAIN t /\ t[k] = one
  BY <1>1, <1>3, <1>4
<1> QED
  BY <1>3, <1>5, <1>6

LEMMA ReadRoutes ==
  ASSUME EditsInv, LoneInv, RoutesTended, NEW e \in Edits, Read(e)
  PROVE  RoutesTended'
<1>1. PICK t, v : t = edit[e] /\ v = See(t, table)
  OBVIOUS
<1>2. PICK s, x, rest, r : s = Head(t.todo) /\ x = Expansion(e, s) /\ rest = Tail(t.todo) /\ r = edit'[e]
  OBVIOUS
<1>3. UNCHANGED table /\ t.phase = "open" /\ t.todo # << >> /\ s.do \in Reads /\ Active(e)
  BY <1>1, <1>2 DEF Read, Pending, Next1, Active
<1>4. WellFormed(table) /\ TxnOk(t, table)
  BY <1>1 DEF EditsInv
<1>5. View(e) = v /\ Typed(v) /\ KeysAreUnique(v)
  BY <1>1, <1>4, SeenTyped, ViewIsSeen DEF TxnOk
<1>6. IsList(t.todo) /\ Sound(s) /\ 1 \in DOMAIN t.todo /\ s = t.todo[1] /\ IsList(rest)
  <2>1. Legal(t.todo)
    BY <1>3, <1>4 DEF TxnOk
  <2>2. 1 \in DOMAIN t.todo /\ s = t.todo[1] /\ IsList(rest)
    BY <1>2, <1>3, <2>1, WithoutFirst DEF Legal
  <2> QED
    BY <2>1, <2>2 DEF Legal
<1>9. PICK before, todo : before = t.before /\ todo = x \o rest
  OBVIOUS
<1>7. /\ \A u \in Edits \ {e} : edit'[u] = edit[u]
      /\ r.todo = todo /\ r.phase = t.phase /\ r.own = t.own /\ r.dropped = t.dropped
      /\ r.alone = t.alone /\ r.before = t.before
  <2>1. DOMAIN edit = Edits /\ DOMAIN t = Fields
    BY <1>1 DEF EditsInv
  <2>2. edit' = [edit EXCEPT ![e].todo = todo]
    <3>1. edit' = [edit EXCEPT ![e].todo = Expansion(e, Next1(e)) \o Tail(@)]
      BY DEF Read
    <3>2. edit' = [edit EXCEPT ![e].todo = Expansion(e, Next1(e)) \o Tail(edit[e].todo)]
      BY <2>1, <3>1
    <3> QED
      BY <1>1, <1>2, <1>9, <3>2 DEF Next1
  <2>3. r = [t EXCEPT !.todo = todo] /\ \A u \in Edits \ {e} : edit'[u] = edit[u]
    BY <1>1, <1>2, <2>1, <2>2
  <2> QED
    BY <2>1, <2>3 DEF Fields
<1>8. See(r, table) = v
  BY <1>1, <1>7 DEF See
<1>10. ASSUME r.alone
       PROVE  Tending(e, v, todo, before, table) \/ Settling(v, todo, table)
  <2>1. Tending(e, v, t.todo, before, table) \/ Settling(v, t.todo, table)
    BY <1>1, <1>3, <1>7, <1>9, <1>10 DEF RoutesTended, Tended
  <2>2. ~ Settling(v, t.todo, table)
    BY <1>3, <1>6 DEF Settling, Reads
  <2>3. Tending(e, v, t.todo, before, table)
    BY <2>1, <2>2
  <2>4. CASE s.do \in Numbering
    <3>1. PICK parent :
            /\ parent = (IF s.do = "renumber" THEN Itin ELSE s.day)
            /\ Sets(x, Children(v, parent) \union (IF s.do = "place" THEN {s.id} ELSE {}))
      <4>1. PICK y : y = Expansion(e, s)
        OBVIOUS
      <4>2. \E parent : /\ parent = (IF s.do = "renumber" THEN Itin ELSE s.day)
                        /\ Sets(y, Children(v, parent) \union (IF s.do = "place" THEN {s.id} ELSE {}))
        BY <1>5, <1>6, <2>4, <4>1, ExpansionSets
      <4> QED
        BY <1>2, <4>1, <4>2
    <3>2. PICK list : list = t.todo
      OBVIOUS
    <3>3. IsList(list) /\ list # << >> /\ s = Head(list) /\ rest = Tail(list)
      BY <1>2, <1>3, <1>6, <3>2
    <3>4. Tending(e, v, list, before, table)
      BY <2>3, <3>2
    <3> QED
      BY <1>9, <2>4, <3>1, <3>3, <3>4, TendingReads
  <2>5. CASE s.do = "clear"
    <3>1. PICK stale, one : stale = StaleRoutes(v, s.days, before) /\ one = SetRoute(stale, None)
      OBVIOUS
    <3>2. x = IF stale = {} THEN << >> ELSE <<one>>
      <4>1. Expansion(e, s) = LET gone == StaleRoutes(View(e), s.days, edit[e].before)
                              IN IF gone = {} THEN << >> ELSE <<SetRoute(gone, None)>>
        BY <2>5 DEF Expansion
      <4> QED
        BY <1>1, <1>2, <1>5, <1>9, <3>1, <4>1
    <3>3. \A k \in DOMAIN rest : rest[k].do = "bump"
      <4>1. \A k \in DOMAIN rest : k \in Nat /\ k + 1 \in DOMAIN t.todo /\ rest[k] = t.todo[k + 1]
                                   /\ (k + 1 # 1 => k + 1 - 1 \in DOMAIN rest)
        BY <1>2, <1>3, <1>6, WithoutFirst
      <4>2. \A k \in DOMAIN t.todo : k \in Nat /\ k >= 1
        BY <1>2, <1>3, <1>6, WithoutFirst
      <4>3. \A j \in DOMAIN t.todo : 1 < j => t.todo[j].do = "bump"
        BY <1>6, <2>3, <2>5 DEF Tending
      <4> QED
        BY <1>6, <4>1, <4>3, ListFacts
    <3>4. IsList(x) /\ (\A k \in DOMAIN x : x[k] = one) /\ (stale # {} => DOMAIN x # {})
      <4>1. << >> \in Seq({one}) /\ <<one>> \in Seq({one}) /\ DOMAIN <<one>> = {1}
        OBVIOUS
      <4>2. x \in Seq({one})
        BY <3>2, <4>1
      <4>3. IsList(x)
        BY <4>2, AnyList
      <4>4. stale # {} => DOMAIN x # {}
        BY <3>2, <4>1
      <4> QED
        BY <4>2, <4>3, <4>4
    <3>5. IsList(todo)
      BY <1>6, <1>9, <3>3, <3>4, PutBefore
    <3>6. \A k \in DOMAIN todo : todo[k].do = "bump" \/ todo[k] = one
      BY <1>6, <1>9, <3>3, <3>4, PutBefore
    <3>7. DOMAIN x # {} => \E k \in DOMAIN todo : todo[k] = one
      BY <1>6, <1>9, <3>3, <3>4, PutBefore
    <3>8. \A k \in DOMAIN todo : todo[k].do = "bump" \/ todo[k] = SetRoute(stale, None)
      BY <3>1, <3>6
    <3>9. stale # {} => \E k \in DOMAIN todo : todo[k] = SetRoute(stale, None)
      BY <3>1, <3>4, <3>7
    <3>10. PICK list : list = t.todo
      OBVIOUS
    <3>11. IsList(list) /\ list # << >> /\ s = Head(list) /\ Typed(table) /\ KeysAreUnique(table)
      BY <1>2, <1>3, <1>4, <1>6, <3>10 DEF WellFormed, Typed
    <3>12. Tending(e, v, list, before, table)
      BY <2>3, <3>10
    <3> QED
      BY <2>5, <3>1, <3>5, <3>8, <3>9, <3>11, <3>12, ClearSettles
  <2> QED
    BY <1>3, <2>4, <2>5 DEF Reads, Numbering
<1>11. r.alone => Tended(e, r, table')
  BY <1>3, <1>7, <1>8, <1>9, <1>10 DEF Tended
<1> QED
  BY <1>2, <1>3, <1>7, <1>11, RoutesStay

LEMMA WriteRoutes ==
  ASSUME EditsInv, LoneInv, RoutesTended, NEW e \in Edits, Write(e)
  PROVE  RoutesTended'
<1>1. PICK t, v : t = edit[e] /\ v = See(t, table)
  OBVIOUS
<1>2. PICK s, w, rest, r : s = Head(t.todo) /\ w = Written(v, s) /\ rest = Tail(t.todo) /\ r = edit'[e]
  OBVIOUS
<1>3. View(e) = v /\ Next1(e) = s
  BY <1>1, <1>2, ViewIsSeen DEF Next1
<1>4. /\ UNCHANGED table /\ t.phase = "open" /\ t.todo # << >> /\ s.do \notin Reads
      /\ Needed(s) \subseteq DOMAIN v /\ Active(e)
  BY <1>1, <1>3 DEF Write, Pending, Missing, Active
<1>5. WellFormed(table) /\ TxnOk(t, table)
  BY <1>1 DEF EditsInv
<1>6. Typed(v) /\ KeysAreUnique(v) /\ Legal(t.todo)
  BY <1>1, <1>4, <1>5, SeenTyped DEF TxnOk
<1>7. /\ \A u \in Edits \ {e} : edit'[u] = edit[u]
      /\ r.todo = rest /\ r.phase = t.phase
      /\ r.own = Overlay(w, t.own) /\ r.dropped = t.dropped \union Deleted(v, s)
      /\ r.alone = t.alone /\ r.before = t.before
  BY <1>1, <1>2, WriteChanges
<1>8. PICK v2, gone, before : v2 = See(r, table) /\ gone = t.dropped /\ before = t.before
  OBVIOUS
<1>9. Moved(v, v2, s, gone)
  BY <1>1, <1>2, <1>7, <1>8, SeenMoved
<1>10. ASSUME r.alone
       PROVE  Tending(e, v2, rest, before, table) \/ Settling(v2, rest, table)
  <2>1. Tending(e, v, t.todo, before, table) \/ Settling(v, t.todo, table)
    BY <1>1, <1>4, <1>7, <1>8, <1>10 DEF RoutesTended, Tended
  <2>2. CASE Tending(e, v, t.todo, before, table)
    BY <1>2, <1>4, <1>6, <1>9, <2>2, TendingWrites
  <2>3. CASE Settling(v, t.todo, table)
    BY <1>2, <1>4, <1>6, <1>9, <2>3, SettlingWrites
  <2> QED
    BY <2>1, <2>2, <2>3
<1>11. r.alone => Tended(e, r, table')
  BY <1>4, <1>7, <1>8, <1>10 DEF Tended
<1> QED
  BY <1>2, <1>4, <1>7, <1>11, RoutesStay

LEMMA CommitRoutes ==
  ASSUME EditsInv, LoneInv, NEW e \in Edits, Commit(e)
  PROVE  RoutesTended'
<1>1. PICK v, r : v = View(e) /\ r = edit'[e]
  OBVIOUS
<1>2. table' = v /\ Active(e) /\ DOMAIN edit = Edits
  BY <1>1 DEF Commit, Active, EditsInv
<1>3. CASE edit' = [edit EXCEPT ![e] = [Idle EXCEPT !.phase = "done"]]
  <2>1. r = [Idle EXCEPT !.phase = "done"] /\ \A u \in Edits \ {e} : edit'[u] = edit[u]
    BY <1>1, <1>2, <1>3
  <2>2. r.phase = "done"
    BY <2>1 DEF Idle
  <2>3. Tended(e, r, table')
    BY <2>2 DEF Tended
  <2> QED
    BY <1>1, <1>2, <2>1, <2>3, RoutesStay
<1>4. ASSUME NEW op \in RouteAfter(e), NEW alone,
             edit' = [edit EXCEPT ![e] = [Idle EXCEPT !.phase = "asked", !.op = op, !.alone = alone]]
      PROVE  RoutesTended'
  <2>1. /\ r = [Idle EXCEPT !.phase = "asked", !.op = op, !.alone = alone]
        /\ \A u \in Edits \ {e} : edit'[u] = edit[u]
    BY <1>1, <1>2, <1>4
  <2>2. r.phase = "asked" /\ r.op = op
    BY <2>1 DEF Idle
  <2>3. PICK item, route : item = NewItem(e, 1) /\ route = RouteStarts(v, v[item].in)[item]
    OBVIOUS
  <2>4. Mapped(item) /\ op = Op("route", item, v[item].in, route, 0)
    BY <1>1, <1>4, <2>3 DEF RouteAfter
  <2>5. op.kind = "route" /\ op.id = item /\ op.slot = route
    BY <2>4 DEF Op
  <2>6. RequestFits(op, v)
    BY <2>3, <2>4, <2>5 DEF RequestFits
  <2>7. Tended(e, r, table')
    BY <1>2, <2>2, <2>6 DEF Tended
  <2> QED
    BY <1>1, <1>2, <2>1, <2>7, RoutesStay
<1>5. \/ edit' = [edit EXCEPT ![e] = [Idle EXCEPT !.phase = "done"]]
      \/ \E op \in RouteAfter(e) :
           edit' = [edit EXCEPT ![e] = [Idle EXCEPT !.phase = "asked", !.op = op,
                                                    !.alone = edit[e].alone]]
  BY DEF Commit
<1> QED
  BY <1>3, <1>4, <1>5

LEMMA RoutesStart ==
  ASSUME EditsInit
  PROVE  RoutesTended
<1>1. \A e \in Edits : edit[e] = Idle
  BY DEF EditsInit
<1>2. Idle.phase = "idle"
  BY DEF Idle
<1> QED
  BY <1>1, <1>2 DEF RoutesTended, Tended

LEMMA RoutesStep ==
  ASSUME EditsInv, LoneInv, RoutesTended, [EditsNext]_editVars
  PROVE  RoutesTended'
<1>1. CASE UNCHANGED editVars
  BY <1>1 DEF editVars, RoutesTended
<1>2. ASSUME NEW e \in Edits, Fail(e) \/ Abort(e)
      PROVE  RoutesTended'
  <2>1. Active(e) /\ edit' = Undone(e)
    BY <1>2 DEF Active, Fail, Pending, Abort
  <2> QED
    BY <2>1, UndoneRoutes
<1>3. ASSUME NEW e \in Edits,
             \/ BeginHandEdit(e) \/ BeginStatusEdit(e) \/ AskReuse(e) \/ BeginAsked(e)
             \/ Plan(e) \/ Read(e) \/ Write(e) \/ Fail(e) \/ Commit(e) \/ Abort(e)
      PROVE  RoutesTended'
  BY <1>2, <1>3, BeginRoutes, BeginAskedRoutes, PlanRoutes, ReadRoutes, WriteRoutes, CommitRoutes
<1> QED
  BY <1>1, <1>3 DEF EditsNext

\* The commit of a lone edit: what was current is so.
LEMMA RoutesCommitted ==
  ASSUME EditsInv, RoutesTended, NEW e \in Edits, Commit(e), edit[e].alone,
         NEW x \in PlacesOf(table) \intersect PlacesOf(table'), table[x].in # Itin, RouteIsCurrent(table, x)
  PROVE  RouteIsCurrent(table', x)
<1>1. PICK t, v, before : t = edit[e] /\ v = See(t, table) /\ before = t.before
  OBVIOUS
<1>2. table' = v /\ t.phase = "open" /\ t.todo = << >>
  BY <1>1, ViewIsSeen DEF Commit
<1>3. Typed(table) /\ KeysAreUnique(table)
  BY DEF EditsInv, WellFormed, Typed
<1>4. Tending(e, v, << >>, before, table) \/ Settling(v, << >>, table)
  BY <1>1, <1>2 DEF RoutesTended, Tended
<1>5. RouteIsCurrent(v, x)
  BY <1>2, <1>3, <1>4, NothingLeft
<1> QED
  BY <1>2, <1>5

\* What holds of the routes a lone edit has not cleared yet, in every state.
THEOREM RoutesInvariant == EditsSpec => []RoutesTended
BY RoutesStart, RoutesStep, EditsInvariant, LoneInvariant, PTL DEF EditsSpec

\* An edit that no other one overlaps leaves no stop with a route from the wrong place
\* that had the right one or none: readDayOrders notes the order of the days it
\* disturbs before the first write, clearStaleRoutes compares it with the one after
\* the last, and the agent's updateItem stores a route that is still from the stop
\* before.
THEOREM RoutesTheorem == EditsSpec => EditsKeepRoutesCurrent
<1>1. ASSUME EditsInv, RoutesTended, [EditsNext]_editVars, NEW e \in Edits, Committing(e), edit[e].alone,
             NEW x \in PlacesOf(table) \intersect PlacesOf(table'), table[x].in # Itin, RouteIsCurrent(table, x)
      PROVE  RouteIsCurrent(table', x)
  <2>1. ~ (UNCHANGED editVars)
    BY <1>1 DEF editVars, Committing
  <2>2. \A u \in Edits : (\/ BeginHandEdit(u) \/ BeginStatusEdit(u) \/ AskReuse(u) \/ BeginAsked(u)
                          \/ Plan(u) \/ Read(u) \/ Write(u) \/ Fail(u) \/ Commit(u) \/ Abort(u)) =>
                         Commit(u) /\ u = e
    BY <1>1, OnlyCommitCommits
  <2>3. Commit(e)
    BY <1>1, <2>1, <2>2 DEF EditsNext
  <2> QED
    BY <1>1, <2>3, RoutesCommitted
<1>2. EditsInv /\ RoutesTended /\ [EditsNext]_editVars =>
        [\A e \in Edits : Committing(e) /\ edit[e].alone =>
           \A id \in PlacesOf(table) \intersect PlacesOf(table') :
             table[id].in # Itin /\ RouteIsCurrent(table, id) => RouteIsCurrent(table', id)]_editVars
  BY <1>1
<1> QED
  BY <1>2, EditsInvariant, RoutesInvariant, PTL DEF EditsSpec, EditsKeepRoutesCurrent
=============================================================================
