------------------------ MODULE PlaceSelectionProofs ------------------------
(***************************************************************************)
(* Which places are offered and added (PlaceSelection.tla), for any        *)
(* sessions, places, notes, requests and times.  A place is barred by the  *)
(* notes of a session, which do not change, or because it has been         *)
(* recorded closed ever since the operation began; what is barred at the   *)
(* end was barred at every step, so each step may be judged by what is     *)
(* barred after it.                                                        *)
(***************************************************************************)
EXTENDS PlaceSelection, FiniteSetTheorems, SequenceTheorems, TLAPS

-----------------------------------------------------------------------------
(* What the state is made of.                                                *)
Known == Places \union {None}
Statuses == [status : Said, at : Nat]
Answers == [of : Places, status : Said, at : Nat]
Remembered == Answers \union {None, NoAnswer}
Remembering == [gate : (SUBSET Notes) \union {None}, memo : [Names -> Remembered]]
Rowed == [status : Said, at : Nat, point : BOOLEAN]
Pcs == {"next", "find", "name", "resolve", "store", "refresh", "answer", "upsert", "consider", "told"}

Busy ==
  [pc : Pcs, op : Operations, slot : Nat, todo : Seq(Items), done : Seq(Known), read : Seq(Known),
   left : [Places -> Nat], ask : Items, got : Statuses \union Answers \union {None}, of : Known,
   lost : BOOLEAN, kept : BOOLEAN]

SelectionTypeOK ==
  /\ row \in [Places -> Rowed \union {None}]
  /\ stops \in Seq(Known)
  /\ session \in [Sessions -> Remembering]
  /\ ops \in Nat /\ clock \in Nat
  /\ req \in [Sessions -> Busy \union {Idle}]
  /\ since \in [Sessions -> SUBSET Places]

(* What a request may rely on where it stands, given what its notes forbid   *)
(* and what has been recorded closed since it began (barred).                *)
ForbiddenBy(gate) == {p \in Places : Check(gate, As(p, NoAsk), None) # "allowed"}

Reached(q) ==
  /\ q.pc \in {"answer", "upsert", "consider", "told"} <=> q.op \in {"search", "pinpoint"}
  /\ q.pc = "find" => q.ask.id \in Places
  /\ q.pc \in {"name", "resolve"} => q.ask.name \in Names
  /\ q.pc = "store" => q.got \in Answers
  /\ q.pc = "refresh" => q.of \in Places /\ q.got \in Statuses
  /\ q.pc \in {"find", "name", "resolve", "store", "refresh"} => q.todo # <<>>
  /\ q.pc \in {"upsert", "consider"} => q.got \in Answers /\ q.of = q.got.of
  /\ q.op = "update" => Len(q.done) + Len(q.todo) = 1

\* A status that was read before a place was recorded closed does not pass for newer.
Heeds(q, closed) == q.pc = "refresh" /\ q.of \in closed => q.got.status = Closed

OffersNone(q, barred) == q.pc = "told" /\ ~q.lost /\ q.done # <<>> => q.of \notin barred

\* In a replacement the stops kept and those that may still be kept are no more
\* than there were.
AddsNone(q, barred) ==
  ~q.kept =>
    \A p \in barred :
      /\ q.op \in {"add", "update"} => \A i \in DOMAIN q.done : q.done[i] # p
      /\ q.op = "replace" => CountIn(q.done, p) + q.left[p] <= CountIn(q.read, p)

Fits(q, gate, closed) ==
  /\ gate \in SUBSET Notes
  /\ Reached(q) /\ Heeds(q, closed)
  /\ OffersNone(q, closed \union ForbiddenBy(gate))
  /\ AddsNone(q, closed \union ForbiddenBy(gate))

ClosedAllAlong == \A s \in Sessions : since[s] \subseteq Recorded(row, Closed)
RequestsFit == \A s \in Sessions : req[s] # Idle => Fits(req[s], Gate(s), since[s])

(* The inductive invariant.                                                  *)
SelectionInvariant == SelectionTypeOK /\ ClosedAllAlong /\ RequestsFit

-----------------------------------------------------------------------------
(* Counting in a sequence.                                                   *)
LEMMA CountIsNat ==
  ASSUME NEW S, NEW seq \in Seq(S), NEW p
  PROVE  CountIn(seq, p) \in Nat /\ IsFiniteSet({i \in DOMAIN seq : seq[i] = p})
<1>1. DOMAIN seq = 1..Len(seq) /\ Len(seq) \in Nat
  BY LenProperties
<1>2. IsFiniteSet(1..Len(seq))
  BY <1>1, FS_Interval
<1>3. IsFiniteSet({i \in DOMAIN seq : seq[i] = p})
  BY <1>1, <1>2, FS_Subset
<1> QED BY <1>3, FS_CardinalityType DEF CountIn

LEMMA CountOfNone ==
  ASSUME NEW S, NEW seq \in Seq(S), NEW p, \A i \in DOMAIN seq : seq[i] # p
  PROVE  CountIn(seq, p) = 0
<1>1. {i \in DOMAIN seq : seq[i] = p} = {}
  OBVIOUS
<1> QED BY <1>1, FS_EmptySet DEF CountIn

LEMMA CountOfAppend ==
  ASSUME NEW S, NEW seq \in Seq(S), NEW e \in S, NEW p
  PROVE  CountIn(Append(seq, e), p) = IF e = p THEN CountIn(seq, p) + 1 ELSE CountIn(seq, p)
<1> DEFINE old == {i \in DOMAIN seq : seq[i] = p}
           new == {i \in DOMAIN Append(seq, e) : Append(seq, e)[i] = p}
<1>1. /\ Len(seq) \in Nat /\ DOMAIN seq = 1..Len(seq)
      /\ DOMAIN Append(seq, e) = 1..(Len(seq) + 1)
      /\ Append(seq, e)[Len(seq) + 1] = e
      /\ \A i \in 1..Len(seq) : Append(seq, e)[i] = seq[i]
  BY LenProperties, AppendProperties
<1>2. IsFiniteSet(old)
  BY CountIsNat
<1>3. CASE e = p
  <2>1. new = old \union {Len(seq) + 1} /\ Len(seq) + 1 \notin old
    BY <1>1, <1>3
  <2>2. Cardinality(new) = Cardinality(old) + 1
    BY <1>2, <2>1, FS_AddElement
  <2> QED BY <1>3, <2>2 DEF CountIn
<1>4. CASE e # p
  <2>1. new = old
    BY <1>1, <1>4
  <2> QED BY <1>4, <2>1 DEF CountIn
<1> QED BY <1>3, <1>4

\* What is added and does not hold a place does not raise its count.
LEMMA CountOfAdded ==
  ASSUME NEW S, NEW old \in Seq(S), NEW added \in Seq(S), NEW p,
         \A i \in DOMAIN added : added[i] # p
  PROVE  CountIn(old \o added, p) = CountIn(old, p)
<1>1. /\ Len(old) \in Nat /\ Len(added) \in Nat
      /\ DOMAIN old = 1..Len(old) /\ DOMAIN added = 1..Len(added)
  BY LenProperties
<1>2. /\ old \o added \in Seq(S) /\ Len(old \o added) = Len(old) + Len(added)
      /\ \A i \in 1..(Len(old) + Len(added)) :
           (old \o added)[i] = IF i <= Len(old) THEN old[i] ELSE added[i - Len(old)]
  BY ConcatProperties
<1>3. DOMAIN (old \o added) = 1..(Len(old) + Len(added))
  BY <1>2, LenProperties
<1>4. ASSUME NEW i \in 1..(Len(old) + Len(added)), i > Len(old)
      PROVE  (old \o added)[i] # p
  <2>1. i - Len(old) \in DOMAIN added
    BY <1>1, <1>4
  <2> QED BY <1>2, <1>4, <2>1
<1>5. {i \in DOMAIN (old \o added) : (old \o added)[i] = p} = {i \in DOMAIN old : old[i] = p}
  <2>1. \A i \in DOMAIN old : i \in DOMAIN (old \o added) /\ (old \o added)[i] = old[i]
    BY <1>1, <1>2, <1>3
  <2>2. \A i \in DOMAIN (old \o added) : (old \o added)[i] = p => i \in DOMAIN old
    BY <1>1, <1>3, <1>4
  <2> QED BY <2>1, <2>2
<1> QED BY <1>5 DEF CountIn

LEMMA CountOfReplaced ==
  ASSUME NEW S, NEW seq \in Seq(S), NEW k, NEW e, NEW p, e # p
  PROVE  CountIn([seq EXCEPT ![k] = e], p) <= CountIn(seq, p)
<1> DEFINE old == {i \in DOMAIN seq : seq[i] = p}
           new == {i \in DOMAIN [seq EXCEPT ![k] = e] : [seq EXCEPT ![k] = e][i] = p}
<1>1. IsFiniteSet(old)
  BY CountIsNat
<1>2. new \subseteq old
  OBVIOUS
<1>3. Cardinality(new) <= Cardinality(old)
  BY <1>1, <1>2, FS_Subset
<1> QED BY <1>3 DEF CountIn

-----------------------------------------------------------------------------
(* The gate.                                                                 *)
LEMMA Ranks ==
  /\ Precedence["CLOSED"] = 0 /\ Precedence["AVOID"] = 1
  /\ Precedence["PREFERRED"] = 2 /\ Precedence["NEUTRAL"] = 3
  /\ DOMAIN Precedence = {"CLOSED", "AVOID", "PREFERRED", "NEUTRAL"}
  BY DEF Precedence

LEMMA MostSpecificIsLeast ==
  ASSUME NEW found \in SUBSET Notes, found # {}
  PROVE  \E n \in found : /\ MostSpecific(found) = n.status
                          /\ \A m \in found : Precedence[n.status] <= Precedence[m.status]
<1> DEFINE Least(n) == \A m \in found : Precedence[n.status] <= Precedence[m.status]
<1>1. \A m \in found : m.status \in {"CLOSED", "AVOID", "PREFERRED", "NEUTRAL"}
  BY Ranks DEF Notes
<1>2. \E n \in found : Least(n)
  <2>1. CASE \E n \in found : n.status = "CLOSED"
    BY <1>1, <2>1, Ranks
  <2>2. CASE (\A n \in found : n.status # "CLOSED") /\ \E n \in found : n.status = "AVOID"
    BY <1>1, <2>2, Ranks
  <2>3. CASE (\A n \in found : n.status \notin {"CLOSED", "AVOID"}) /\ \E n \in found : n.status = "PREFERRED"
    BY <1>1, <2>3, Ranks
  <2>4. CASE \A n \in found : n.status = "NEUTRAL"
    BY <2>4, Ranks
  <2> QED BY <1>1, <2>1, <2>2, <2>3, <2>4
<1>3. PICK n : n = CHOOSE m \in found : Least(m)
  OBVIOUS
<1>4. n \in found /\ Least(n)
  BY <1>2, <1>3
<1>5. MostSpecific(found) = n.status
  BY <1>3 DEF MostSpecific
<1> QED BY <1>4, <1>5

\* More notes do not lift what the first forbid.
LEMMA ForbiddenStays ==
  ASSUME NEW few \in SUBSET Notes, NEW more \in SUBSET Notes, few \subseteq more,
         MostSpecific(few) \in {"CLOSED", "AVOID"}
  PROVE  MostSpecific(more) \in {"CLOSED", "AVOID"}
<1>1. few # {}
  BY DEF MostSpecific
<1>2. PICK n \in few : MostSpecific(few) = n.status
  BY <1>1, MostSpecificIsLeast
<1>3. PICK m \in more : /\ MostSpecific(more) = m.status
                        /\ \A o \in more : Precedence[m.status] <= Precedence[o.status]
  BY <1>1, MostSpecificIsLeast
<1>4. Precedence[m.status] <= Precedence[n.status]
  BY <1>3
<1>5. Precedence[n.status] \in {0, 1}
  BY <1>2, Ranks
<1>6. m.status \in {"CLOSED", "AVOID", "PREFERRED", "NEUTRAL"}
  BY Ranks DEF Notes
<1> QED BY <1>3, <1>4, <1>5, <1>6, Ranks

LEMMA ForbiddenAnyhow ==
  ASSUME NEW gate \in SUBSET Notes, NEW p \in ForbiddenBy(gate), NEW ask, NEW status
  PROVE  Check(gate, As(p, ask), status) # "allowed"
<1>1. p \in Places /\ Check(gate, As(p, NoAsk), None) # "allowed"
  BY DEF ForbiddenBy
<1> DEFINE exact == {n \in gate : n.id # None /\ n.id = p}
           named(city) == {n \in gate : n.id = None /\ n.name = NameOf[p] /\ (n.city = None \/ n.city = city)}
<1>2. /\ Lookup(gate, As(p, NoAsk)) = IF exact # {} THEN exact ELSE named(None)
      /\ Lookup(gate, As(p, ask)) = IF exact # {} THEN exact ELSE named(ask.city)
  BY DEF Lookup, As, NoAsk
<1>3. /\ Lookup(gate, As(p, NoAsk)) \in SUBSET Notes
      /\ Lookup(gate, As(p, ask)) \in SUBSET Notes
      /\ Lookup(gate, As(p, NoAsk)) \subseteq Lookup(gate, As(p, ask))
  BY <1>2
<1>4. MostSpecific(Lookup(gate, As(p, NoAsk))) \in {"CLOSED", "AVOID"}
  BY <1>1, SelectionConstants DEF Check, Closed
<1>5. MostSpecific(Lookup(gate, As(p, ask))) \in {"CLOSED", "AVOID"}
  BY <1>3, <1>4, ForbiddenStays
<1> QED BY <1>5 DEF Check

\* A place that passes the gate is not barred, if the status judged is that of a
\* place recorded closed.
LEMMA PassesUnbarred ==
  ASSUME NEW gate \in SUBSET Notes, NEW closed, NEW p, NEW ask, NEW status,
         Check(gate, As(p, ask), status) = "allowed",
         p \in closed => status = Closed
  PROVE  p \notin closed \union ForbiddenBy(gate)
<1>1. status # Closed
  BY DEF Check, Closed
<1> QED BY <1>1, ForbiddenAnyhow

LEMMA FitsAntitone ==
  ASSUME NEW q, NEW gate, NEW closed, NEW fewer \in SUBSET closed, Fits(q, gate, closed)
  PROVE  Fits(q, gate, fewer)
  BY DEF Fits, Heeds, OffersNone, AddsNone

-----------------------------------------------------------------------------
(* The steps.  What a step of one session must show: the state keeps its     *)
(* type, the places closed all along are recorded closed, nothing is lost or *)
(* newly closed for the others, and its own request fits where it has come.  *)
LEMMA OneSessionMoves ==
  ASSUME SelectionInvariant, NEW s \in Sessions, NEW q \in Busy \union {Idle}, Goes(s, q),
         /\ row' \in [Places -> Rowed \union {None}] /\ stops' \in Seq(Known)
         /\ session' \in [Sessions -> Remembering]
         /\ ops' \in Nat /\ clock' \in Nat /\ since' \in [Sessions -> SUBSET Places],
         ClosedAllAlong',
         \A t \in Sessions \ {s} :
           req[t] # Idle => session'[t].gate = session[t].gate /\ since'[t] \subseteq since[t],
         q # Idle => Fits(q, session'[s].gate, since'[s])
  PROVE  SelectionInvariant'
<1>1. req \in [Sessions -> Busy \union {Idle}]
  BY DEF SelectionInvariant, SelectionTypeOK
<1>2. req' \in [Sessions -> Busy \union {Idle}]
  BY <1>1 DEF Goes
<1>3. SelectionTypeOK'
  BY <1>2 DEF SelectionTypeOK
<1>4. ASSUME NEW t \in Sessions, req'[t] # Idle
      PROVE  Fits(req'[t], session'[t].gate, since'[t])
  <2>1. CASE t = s
    BY <1>1, <1>4, <2>1 DEF Goes
  <2>2. CASE t # s
    <3>1. req'[t] = req[t]
      BY <1>1, <2>2 DEF Goes
    <3>2. session'[t].gate = session[t].gate /\ since'[t] \subseteq since[t]
      BY <1>4, <2>2, <3>1
    <3>3. Fits(req[t], session[t].gate, since[t])
      BY <1>4, <3>1 DEF SelectionInvariant, RequestsFit, Gate
    <3> QED BY <3>1, <3>2, <3>3, FitsAntitone
  <2> QED BY <2>1, <2>2
<1>5. RequestsFit'
  BY <1>4 DEF RequestsFit, Gate
<1> QED BY <1>3, <1>5 DEF SelectionInvariant

\* A step that changes nothing but its request.
LEMMA LocalStep ==
  ASSUME SelectionInvariant, NEW s \in Sessions, NEW q \in Busy \union {Idle}, Goes(s, q), Local,
         q # Idle => Fits(q, Gate(s), since[s])
  PROVE  SelectionInvariant'
<1>1. ClosedAllAlong'
  BY DEF SelectionInvariant, ClosedAllAlong, Local, Recorded
<1>2. \A t \in Sessions : session'[t].gate = session[t].gate /\ since'[t] \subseteq since[t]
  BY DEF Local
<1>3. q # Idle => Fits(q, session'[s].gate, since'[s])
  BY DEF Local, Gate
<1> QED
  BY <1>1, <1>2, <1>3, OneSessionMoves DEF SelectionInvariant, SelectionTypeOK, Local

\* What a change of the snapshots means for the requests under way.
LEMMA RowsClose ==
  ASSUME SelectionInvariant, NEW f \in [Places -> Rowed \union {None}], Rows(f)
  PROVE  /\ row' \in [Places -> Rowed \union {None}]
         /\ since' \in [Sessions -> SUBSET Places]
         /\ ClosedAllAlong'
         /\ \A s \in Sessions : /\ req[s] # Idle => since'[s] \subseteq since[s]
                                /\ since'[s] \subseteq Recorded(f, Closed)
<1>1. /\ since \in [Sessions -> SUBSET Places]
      /\ \A s \in Sessions : req[s] # Idle => ~At(s, "idle")
  BY DEF SelectionInvariant, SelectionTypeOK, Busy, Pcs, At
<1>2. /\ row' = f
      /\ \A s \in Sessions : \/ since'[s] = since[s] \intersect Recorded(f, Closed)
                             \/ At(s, "idle") /\ since'[s] = {}
  BY DEF Rows
<1>3. since' \in [Sessions -> SUBSET Places]
  BY <1>1 DEF Rows
<1>4. \A s \in Sessions : since'[s] \subseteq Recorded(f, Closed)
  BY <1>2
<1>5. ClosedAllAlong'
  BY <1>2, <1>4 DEF ClosedAllAlong, Recorded
<1> QED BY <1>1, <1>2, <1>3, <1>4, <1>5

\* A step that changes the snapshots and its request.
LEMMA RowStep ==
  ASSUME SelectionInvariant, NEW s \in Sessions, NEW q \in Busy \union {Idle}, Goes(s, q),
         NEW f \in [Places -> Rowed \union {None}], Rows(f),
         UNCHANGED <<stops, session, ops, clock>>,
         q # Idle => Fits(q, Gate(s), since'[s])
  PROVE  SelectionInvariant'
<1>1. /\ row' \in [Places -> Rowed \union {None}]
      /\ since' \in [Sessions -> SUBSET Places]
      /\ ClosedAllAlong'
      /\ \A t \in Sessions : req[t] # Idle => since'[t] \subseteq since[t]
  BY RowsClose
<1>2. q # Idle => Fits(q, session'[s].gate, since'[s])
  BY DEF Gate
<1> QED BY <1>1, <1>2, OneSessionMoves DEF SelectionInvariant, SelectionTypeOK

\* A change of the snapshots by others.
LEMMA OthersStore ==
  ASSUME SelectionInvariant, NEW f \in [Places -> Rowed \union {None}], Rows(f),
         UNCHANGED <<stops, session, ops, req, clock>>
  PROVE  SelectionInvariant'
<1>1. /\ row' \in [Places -> Rowed \union {None}]
      /\ since' \in [Sessions -> SUBSET Places]
      /\ ClosedAllAlong'
      /\ \A t \in Sessions : req[t] # Idle => since'[t] \subseteq since[t]
  BY RowsClose
<1>2. SelectionTypeOK'
  BY <1>1 DEF SelectionInvariant, SelectionTypeOK
<1>3. ASSUME NEW t \in Sessions, req'[t] # Idle
      PROVE  Fits(req'[t], session'[t].gate, since'[t])
  <2>1. Fits(req[t], session[t].gate, since[t])
    BY <1>3 DEF SelectionInvariant, RequestsFit, Gate
  <2> QED BY <1>1, <1>3, <2>1, FitsAntitone
<1>4. RequestsFit'
  BY <1>3 DEF RequestsFit, Gate
<1> QED BY <1>1, <1>2, <1>4 DEF SelectionInvariant

\* What is known of a request under way.
LEMMA UnderWay ==
  ASSUME SelectionInvariant, NEW s \in Sessions, ~At(s, "idle")
  PROVE  /\ req[s] \in Busy /\ Fits(req[s], Gate(s), since[s])
         /\ since[s] \subseteq Recorded(row, Closed) /\ since[s] \in SUBSET Places
<1>1. req[s] # Idle /\ req[s] \in Busy
  BY DEF SelectionInvariant, SelectionTypeOK, At, Idle
<1> QED BY <1>1 DEF SelectionInvariant, SelectionTypeOK, RequestsFit, ClosedAllAlong

\* The head of a list is an item, and the rest a list.
LEMMA HeadOfItems ==
  ASSUME NEW todo \in Seq(Items), todo # <<>>
  PROVE  Head(todo) \in Items /\ Tail(todo) \in Seq(Items) /\ Len(Tail(todo)) + 1 = Len(todo)
  BY HeadTailProperties, LenProperties, EmptySeq

\* An item is settled with a place that is not barred, or the request is marked.
LEMMA Settling ==
  ASSUME NEW q \in Busy, NEW gate, NEW closed \in SUBSET Places, Fits(q, gate, closed),
         q.op \in {"add", "update", "replace"}, q.todo # <<>>, NEW place \in Known,
         NEW r \in Busy,
         /\ r.pc = "next" /\ r.op = q.op /\ r.todo = Tail(q.todo) /\ r.done = Append(q.done, place)
         /\ r.left = q.left /\ r.read = q.read,
         ~r.kept => ~q.kept /\ place \notin closed \union ForbiddenBy(gate)
  PROVE  Fits(r, gate, closed)
<1>1. /\ q.done \in Seq(Known) /\ q.read \in Seq(Known) /\ q.todo \in Seq(Items)
      /\ q.left \in [Places -> Nat]
  BY DEF Busy
<1>2. /\ Len(q.done) \in Nat /\ Len(r.done) = Len(q.done) + 1
      /\ DOMAIN q.done = 1..Len(q.done) /\ DOMAIN r.done = 1..(Len(q.done) + 1)
      /\ r.done[Len(q.done) + 1] = place
      /\ \A i \in 1..Len(q.done) : r.done[i] = q.done[i]
  BY <1>1, LenProperties, AppendProperties
<1>3. Len(r.todo) + 1 = Len(q.todo) /\ Len(r.todo) \in Nat /\ Len(q.todo) \in Nat
  BY <1>1, HeadOfItems, LenProperties
<1>4. Reached(r)
  <2>1. q.op = "update" => Len(q.done) + Len(q.todo) = 1
    BY DEF Fits, Reached
  <2>2. PICK m \in Nat, n \in Nat, m1 \in Nat, n1 \in Nat :
          m = Len(q.done) /\ n = Len(r.todo) /\ m1 = Len(r.done) /\ n1 = Len(q.todo)
    <3>1. Len(r.done) \in Nat
      BY LenProperties DEF Busy
    <3> QED BY <1>2, <1>3, <3>1
  <2>3. m1 = m + 1 /\ n1 = n + 1
    BY <1>2, <1>3, <2>2
  <2>4. m1 + n = m + n1
    BY <2>3
  <2>5. r.op = "update" => Len(r.done) + Len(r.todo) = 1
    BY <2>1, <2>2, <2>4
  <2>6. r.pc = "next" /\ r.op \notin {"search", "pinpoint"}
    OBVIOUS
  <2> QED BY <2>5, <2>6 DEF Reached
<1>5. ASSUME ~r.kept, NEW p \in closed \union ForbiddenBy(gate)
      PROVE  /\ r.op \in {"add", "update"} => \A i \in DOMAIN r.done : r.done[i] # p
             /\ r.op = "replace" => CountIn(r.done, p) + r.left[p] <= CountIn(r.read, p)
  <2>1. /\ q.op \in {"add", "update"} => \A i \in DOMAIN q.done : q.done[i] # p
        /\ q.op = "replace" => CountIn(q.done, p) + q.left[p] <= CountIn(q.read, p)
    BY <1>5 DEF Fits, AddsNone
  <2>2. place # p
    BY <1>5
  <2>3. r.op \in {"add", "update"} => \A i \in DOMAIN r.done : r.done[i] # p
    BY <1>2, <2>1, <2>2
  <2>4. CountIn(r.done, p) = CountIn(q.done, p)
    BY <1>1, <2>2, CountOfAppend
  <2> QED BY <2>1, <2>3, <2>4
<1> QED BY <1>4, <1>5 DEF Fits, Heeds, OffersNone, AddsNone

-----------------------------------------------------------------------------
(* The beginning.                                                            *)
LEMMA NewIsTyped == NewSession \in Remembering
<1>1. PICK memo \in [Names -> Remembered] : memo = [n \in Names |-> None]
  BY DEF Remembered
<1>2. NewSession = [gate |-> None, memo |-> memo]
  BY <1>1 DEF NewSession
<1> QED BY <1>2 DEF Remembering

LEMMA Beginning ==
  ASSUME Init
  PROVE  SelectionInvariant
<1>1. StartStops \in Seq(Known) /\ ToSet(StartStops) \subseteq Known
  BY SelectionConstants, ElementOfSeq, LenProperties DEF Known, ToSet
<1>2. row \in [Places -> Rowed \union {None}]
  BY DEF Init, Rowed, Said
<1>3. session \in [Sessions -> Remembering]
  BY NewIsTyped DEF Init
<1>4. SelectionTypeOK
  BY <1>1, <1>2, <1>3 DEF Init, SelectionTypeOK
<1> QED BY <1>4 DEF Init, SelectionInvariant, ClosedAllAlong, RequestsFit

LEMMA BeginKeeps ==
  ASSUME SelectionInvariant, NEW s \in Sessions, Begin(s)
  PROVE  SelectionInvariant'
<1>1. PICK a \in Asks, gate \in NoteSets \union {{}} :
        /\ a.op = "update" => a.slot \in DOMAIN stops
        /\ LoadGate(s, gate)
        /\ Goes(s, [pc |-> IF a.op \in {"search", "pinpoint"} THEN "answer" ELSE "next", op |-> a.op, slot |-> a.slot,
                   todo |-> a.items, done |-> <<>>, read |-> stops,
                   left |-> [p \in Places |-> CountIn(stops, p)],
                   ask |-> NoAsk, got |-> None, of |-> None, lost |-> FALSE, kept |-> FALSE])
  BY DEF Begin
<1>2. /\ a.op \in Operations /\ a.slot \in Nat /\ a.items \in Seq(Items)
      /\ a.op = "update" => Len(a.items) = 1
  BY SelectionConstants
<1>3. /\ gate \in SUBSET Notes
      /\ stops \in Seq(Known) /\ ops \in Nat /\ clock \in Nat
      /\ row \in [Places -> Rowed \union {None}] /\ since \in [Sessions -> SUBSET Places]
      /\ session \in [Sessions -> Remembering]
  BY SelectionConstants DEF SelectionInvariant, SelectionTypeOK
<1>4. PICK left \in [Places -> Nat] : left = [p \in Places |-> CountIn(stops, p)]
  BY <1>3, CountIsNat
<1>5. PICK pc \in {"answer", "next"} :
        pc = IF a.op \in {"search", "pinpoint"} THEN "answer" ELSE "next"
  OBVIOUS
<1>6. PICK q : q = [pc |-> pc, op |-> a.op, slot |-> a.slot, todo |-> a.items, done |-> <<>>,
                    read |-> stops, left |-> left, ask |-> NoAsk, got |-> None, of |-> None,
                    lost |-> FALSE, kept |-> FALSE]
  OBVIOUS
<1>7. Goes(s, q)
  BY <1>1, <1>4, <1>5, <1>6
<1>8. q \in Busy
  <2>1. <<>> \in Seq(Known) /\ NoAsk \in Items
    BY DEF NoAsk, Items
  <2> QED BY <1>2, <1>3, <1>6, <2>1 DEF Busy, Pcs, Known
<1>9. /\ session' \in [Sessions -> Remembering]
      /\ session'[s].gate \in SUBSET Notes
      /\ \A t \in Sessions \ {s} : req[t] # Idle => session'[t].gate = session[t].gate
  <2>1. NewSession \in Remembering
    BY NewIsTyped
  <2>2. PICK mine : mine = [session[s] EXCEPT !.gate = IF @ = None THEN gate ELSE @]
    OBVIOUS
  <2>3. /\ mine \in Remembering
        /\ mine.gate \in SUBSET Notes
    <3>1. PICK held \in Remembering : held = session[s]
      BY <1>3
    <3>2. CASE held.gate = None
      <4>1. mine = [held EXCEPT !.gate = gate]
        BY <2>2, <3>1, <3>2
      <4> QED BY <1>3, <4>1 DEF Remembering
    <3>3. CASE held.gate # None
      <4>1. mine = held
        BY <2>2, <3>1, <3>3 DEF Remembering
      <4> QED BY <3>3, <4>1 DEF Remembering
    <3> QED BY <3>2, <3>3
  <2>4. session' = [t \in Sessions |->
                     IF t = s THEN mine
                     ELSE IF req[t] = Idle /\ ops + 1 = MaxOps THEN NewSession ELSE session[t]]
    BY <1>1, <2>2 DEF LoadGate
  <2>5. session'[s] = mine
    BY <2>4
  <2>6. \A t \in Sessions \ {s} : req[t] # Idle => session'[t] = session[t]
    BY <2>4
  <2>7. session' \in [Sessions -> Remembering]
    BY <1>3, <2>1, <2>3, <2>4
  <2> QED BY <2>3, <2>5, <2>6, <2>7
<1>10. /\ since' = [since EXCEPT ![s] = Recorded(row, Closed)]
       /\ row' = row /\ stops' = stops /\ clock' = clock /\ ops' = ops + 1
  BY DEF Begin
<1>11. since' \in [Sessions -> SUBSET Places] /\ \A t \in Sessions \ {s} : since'[t] = since[t]
  BY <1>3, <1>10 DEF Recorded
<1>12. ClosedAllAlong'
  BY <1>3, <1>10 DEF SelectionInvariant, ClosedAllAlong, Recorded
<1>13. Fits(q, session'[s].gate, since'[s])
  <2>1. Len(<<>>) = 0 /\ DOMAIN <<>> = {}
    OBVIOUS
  <2>2. Reached(q)
    BY <1>2, <1>5, <1>6, <2>1 DEF Reached
  <2>3. ASSUME NEW p \in since'[s] \union ForbiddenBy(session'[s].gate)
        PROVE  /\ \A i \in DOMAIN q.done : q.done[i] # p
               /\ CountIn(q.done, p) + q.left[p] <= CountIn(q.read, p)
    <3>1. p \in Places
      BY <1>11 DEF ForbiddenBy
    <3>2. q.left[p] = CountIn(stops, p) /\ q.done = <<>> /\ q.read = stops
      BY <1>4, <1>6, <3>1
    <3>3. CountIn(<<>>, p) = 0
      <4>1. <<>> \in Seq(Known)
        OBVIOUS
      <4> QED BY <2>1, <4>1, CountOfNone
    <3>4. CountIn(stops, p) \in Nat
      BY <1>3, CountIsNat
    <3> QED BY <2>1, <3>2, <3>3, <3>4
  <2> QED BY <1>5, <1>6, <1>9, <2>2, <2>3 DEF Fits, Heeds, OffersNone, AddsNone
<1>14. /\ row' \in [Places -> Rowed \union {None}] /\ stops' \in Seq(Known)
       /\ ops' \in Nat /\ clock' \in Nat
  BY <1>3, <1>10
<1>15. \A t \in Sessions \ {s} :
         req[t] # Idle => session'[t].gate = session[t].gate /\ since'[t] \subseteq since[t]
  BY <1>9, <1>11
<1>16. q \in Busy \union {Idle}
  BY <1>8
<1> QED BY <1>7, <1>9, <1>11, <1>12, <1>13, <1>14, <1>15, <1>16, OneSessionMoves

-----------------------------------------------------------------------------
(* The guard of the items, and the steps of one item through the selection.  *)
LEMMA EndKeeps ==
  ASSUME SelectionInvariant, NEW s \in Sessions, Ends(s), Local
  PROVE  SelectionInvariant'
  BY LocalStep DEF Ends

LEMMA Working ==
  ASSUME SelectionInvariant, NEW s \in Sessions,
         req[s].pc \in {"next", "find", "name", "resolve", "store", "refresh"}
  PROVE  /\ req[s] \in Busy /\ Fits(req[s], Gate(s), since[s]) /\ Reached(req[s])
         /\ Gate(s) \in SUBSET Notes
         /\ since[s] \subseteq Recorded(row, Closed) /\ since[s] \in SUBSET Places
         /\ req[s].op \in {"add", "update", "replace"}
         /\ req[s].pc # "next" => req[s].todo # <<>>
<1>1. ~At(s, "idle")
  BY DEF At
<1>2. /\ req[s] \in Busy /\ Fits(req[s], Gate(s), since[s])
      /\ since[s] \subseteq Recorded(row, Closed) /\ since[s] \in SUBSET Places
  BY <1>1, UnderWay
<1>3. Reached(req[s]) /\ Gate(s) \in SUBSET Notes
  BY <1>2 DEF Fits
<1>4. req[s].op \notin {"search", "pinpoint"} /\ (req[s].pc # "next" => req[s].todo # <<>>)
  BY <1>3 DEF Reached
<1>5. req[s].op \in Operations
  BY <1>2 DEF Busy
<1> QED BY <1>2, <1>3, <1>4, <1>5 DEF Operations

\* A request that moves on with the same items settled.
LEMMA SameItems ==
  ASSUME NEW q, NEW gate, NEW closed, Fits(q, gate, closed), NEW r,
         /\ r.pc \in {"find", "name", "resolve", "store", "refresh"}
         /\ r.op = q.op /\ r.todo = q.todo /\ r.done = q.done /\ r.read = q.read /\ r.left = q.left
         /\ r.kept = q.kept /\ r.todo # <<>> /\ q.op \in {"add", "update", "replace"},
         /\ r.pc = "find" => r.ask.id \in Places
         /\ r.pc \in {"name", "resolve"} => r.ask.name \in Names
         /\ r.pc = "store" => r.got \in Answers
         /\ r.pc = "refresh" => r.of \in Places /\ r.got \in Statuses,
         Heeds(r, closed)
  PROVE  Fits(r, gate, closed)
<1>1. q.op = "update" => Len(q.done) + Len(q.todo) = 1
  BY DEF Fits, Reached
<1>2. Reached(r)
  BY <1>1 DEF Reached
<1>3. OffersNone(r, closed \union ForbiddenBy(gate))
  BY DEF OffersNone
<1>4. AddsNone(r, closed \union ForbiddenBy(gate))
  BY DEF Fits, AddsNone
<1> QED BY <1>2, <1>3, <1>4 DEF Fits

LEMMA SettledFits ==
  ASSUME NEW s \in Sessions, NEW q \in Busy, q = req[s], NEW gate, NEW closed \in SUBSET Places,
         Fits(q, gate, closed), q.op \in {"add", "update", "replace"}, q.todo # <<>>,
         NEW place \in Known, place \notin closed \union ForbiddenBy(gate), Settled(s, place)
  PROVE  \E r \in Busy : Goes(s, r) /\ Fits(r, gate, closed)
<1>1. /\ q.done \in Seq(Known) /\ q.todo \in Seq(Items)
  BY DEF Busy
<1>2. PICK todo \in Seq(Items) : todo = Tail(q.todo)
  BY <1>1, HeadOfItems
<1>3. PICK done \in Seq(Known) : done = Append(q.done, place)
  BY <1>1, AppendProperties
<1>4. NoAsk \in Items /\ None \in Known
  BY DEF NoAsk, Items, Known
<1>5. PICK r : r = [q EXCEPT !.pc = "next", !.todo = todo, !.done = done,
                             !.ask = NoAsk, !.got = None, !.of = None]
  OBVIOUS
<1>6. r \in Busy
  BY <1>4, <1>5 DEF Busy, Pcs
<1>7. Goes(s, r)
  BY <1>2, <1>3, <1>5 DEF Settled
<1>8. /\ r.pc = "next" /\ r.op = q.op /\ r.todo = Tail(q.todo) /\ r.done = Append(q.done, place)
      /\ r.left = q.left /\ r.read = q.read /\ r.kept = q.kept
  BY <1>2, <1>3, <1>5 DEF Busy
<1>9. Fits(r, gate, closed)
  BY <1>6, <1>8, Settling
<1> QED BY <1>6, <1>7, <1>9

LEMMA UnresolvedFits ==
  ASSUME NEW s \in Sessions, NEW q \in Busy, q = req[s], NEW gate, NEW closed \in SUBSET Places,
         Fits(q, gate, closed), q.op \in {"add", "update", "replace"}, q.todo # <<>>, Unresolved(s)
  PROVE  \E r \in Busy : Goes(s, r) /\ Fits(r, gate, closed)
<1>1. /\ q.done \in Seq(Known) /\ q.todo \in Seq(Items) /\ q.kept \in BOOLEAN
  BY DEF Busy
<1>2. PICK todo \in Seq(Items) : todo = Tail(q.todo)
  BY <1>1, HeadOfItems
<1>3. PICK it \in Items : it = Head(q.todo)
  BY <1>1, HeadOfItems
<1>4. it.id \in Known
  BY DEF Items, Known
<1>5. PICK done \in Seq(Known) : done = Append(q.done, it.id)
  BY <1>1, <1>4, AppendProperties
<1>6. NoAsk \in Items /\ None \in Known
  BY DEF NoAsk, Items, Known
<1>7. PICK kept \in BOOLEAN : kept = (q.kept \/ it.id # None)
  OBVIOUS
<1>8. PICK r : r = [q EXCEPT !.pc = "next", !.todo = todo, !.done = done,
                             !.ask = NoAsk, !.got = None, !.of = None, !.kept = kept]
  OBVIOUS
<1>9. r \in Busy
  BY <1>6, <1>8 DEF Busy, Pcs
<1>10. Goes(s, r)
  BY <1>2, <1>3, <1>5, <1>7, <1>8 DEF Unresolved
<1>11. /\ r.pc = "next" /\ r.op = q.op /\ r.todo = Tail(q.todo) /\ r.done = Append(q.done, it.id)
       /\ r.left = q.left /\ r.read = q.read /\ r.kept = kept
  BY <1>2, <1>5, <1>8 DEF Busy
<1>12. ASSUME ~r.kept
       PROVE  ~q.kept /\ it.id \notin closed \union ForbiddenBy(gate)
  <2>1. ~q.kept /\ it.id = None
    BY <1>1, <1>7, <1>11, <1>12
  <2>2. None \notin Places
    BY SelectionConstants
  <2> QED BY <2>1, <2>2 DEF ForbiddenBy
<1>13. Fits(r, gate, closed)
  BY <1>4, <1>9, <1>11, <1>12, Settling
<1> QED BY <1>9, <1>10, <1>13

LEMMA PreserveKeeps ==
  ASSUME SelectionInvariant, NEW s \in Sessions, Preserve(s)
  PROVE  SelectionInvariant'
<1>1. At(s, "next") /\ req[s].op = "replace" /\ req[s].todo # <<>> /\ Local
  BY DEF Preserve
<1>2. PICK q \in Busy : q = req[s]
  BY <1>1, Working DEF At
<1>3. /\ Fits(q, Gate(s), since[s]) /\ since[s] \in SUBSET Places
  BY <1>1, <1>2, Working DEF At
<1>4. /\ q.todo \in Seq(Items) /\ q.done \in Seq(Known) /\ q.read \in Seq(Known)
      /\ q.left \in [Places -> Nat]
  BY DEF Busy
<1>5. PICK it \in Items : it = Head(q.todo)
  BY <1>1, <1>2, <1>4, HeadOfItems
<1>6. PICK todo \in Seq(Items) : todo = Tail(q.todo)
  BY <1>1, <1>2, <1>4, HeadOfItems
<1>7. PICK p \in Places : p = it.id
  BY <1>2, <1>5 DEF Preserve, Items
<1>8. /\ q.left[p] > 0
      /\ Goes(s, [q EXCEPT !.todo = Tail(@), !.done = Append(@, p), !.left[p] = @ - 1])
  BY <1>2, <1>5, <1>7 DEF Preserve, ConsumePreservedId
<1>9. PICK n \in Nat : q.left[p] = n + 1
  <2>1. q.left[p] \in Nat
    BY <1>4
  <2>2. q.left[p] - 1 \in Nat /\ q.left[p] = (q.left[p] - 1) + 1
    BY <1>8, <2>1
  <2> QED BY <2>2
<1>10. PICK left \in [Places -> Nat] : left = [q.left EXCEPT ![p] = n]
  BY <1>4
<1>11. PICK done \in Seq(Known) : done = Append(q.done, p)
  BY <1>4, AppendProperties DEF Known
<1>12. PICK r : r = [q EXCEPT !.todo = todo, !.done = done, !.left = left]
  OBVIOUS
<1>13. r \in Busy
  BY <1>12 DEF Busy
<1>14. Goes(s, r)
  <2>1. (n + 1) - 1 = n
    OBVIOUS
  <2> QED BY <1>6, <1>8, <1>9, <1>10, <1>11, <1>12, <2>1
<1>15. /\ r.pc = "next" /\ r.op = "replace" /\ r.read = q.read /\ r.kept = q.kept
       /\ r.left = left /\ r.done = done /\ r.todo = todo
  BY <1>1, <1>2, <1>12 DEF Busy, At
<1>16. ASSUME ~q.kept, NEW o \in since[s] \union ForbiddenBy(Gate(s))
       PROVE  CountIn(done, o) + left[o] <= CountIn(q.read, o)
  <2>1. o \in Places
    BY <1>3 DEF ForbiddenBy
  <2>2. CountIn(q.done, o) + q.left[o] <= CountIn(q.read, o)
    BY <1>1, <1>2, <1>3, <1>16 DEF Fits, AddsNone
  <2>3. /\ CountIn(q.done, o) \in Nat /\ q.left[o] \in Nat /\ CountIn(q.read, o) \in Nat
    BY <1>4, <2>1, CountIsNat
  <2> p \in Known
    BY DEF Known
  <2>4. CountIn(Append(q.done, p), o) = IF p = o THEN CountIn(q.done, o) + 1 ELSE CountIn(q.done, o)
    BY <1>4, CountOfAppend
  <2>5. CASE o = p
    <3>1. CountIn(done, o) = CountIn(q.done, o) + 1
      BY <1>11, <2>5, <2>4
    <3>2. left[o] = n /\ q.left[o] = n + 1
      BY <1>4, <1>9, <1>10, <2>5
    <3> QED BY <2>2, <2>3, <3>1, <3>2
  <2>6. CASE o # p
    <3>1. CountIn(done, o) = CountIn(q.done, o)
      BY <1>11, <2>6, <2>4
    <3>2. left[o] = q.left[o]
      BY <1>4, <1>10, <2>1, <2>6
    <3> QED BY <2>2, <3>1, <3>2
  <2> QED BY <2>5, <2>6
<1>17. Fits(r, Gate(s), since[s])
  BY <1>3, <1>15, <1>16 DEF Fits, Reached, Heeds, OffersNone, AddsNone
<1> QED BY <1>1, <1>13, <1>14, <1>17, LocalStep

LEMMA KeepStopKeeps ==
  ASSUME SelectionInvariant, NEW s \in Sessions, KeepStop(s)
  PROVE  SelectionInvariant'
  BY EndKeeps DEF KeepStop

LEMMA PrepareKeeps ==
  ASSUME SelectionInvariant, NEW s \in Sessions, Prepare(s)
  PROVE  SelectionInvariant'
<1>1. At(s, "next") /\ req[s].todo # <<>> /\ Local
  BY DEF Prepare
<1>2. PICK q \in Busy : q = req[s]
  BY <1>1, Working DEF At
<1>3. /\ Fits(q, Gate(s), since[s]) /\ since[s] \in SUBSET Places
      /\ q.op \in {"add", "update", "replace"} /\ q.todo # <<>> /\ q.pc = "next"
  BY <1>1, <1>2, Working DEF At
<1>4. PICK it \in Items : it = Head(q.todo)
  BY <1>3, HeadOfItems DEF Busy
<1>5. PICK ask \in Items : ask = AskFor(s)
  <2>1. AskFor(s) \in {it, [it EXCEPT !.id = None]}
    <3>1. \E id \in {None, it.id} : AskFor(s) = [it EXCEPT !.id = id]
      BY <1>2, <1>4 DEF AskFor
    <3>2. [it EXCEPT !.id = it.id] = it
      BY DEF Items
    <3> QED BY <3>1, <3>2
  <2> QED BY <2>1 DEF Items
<1>6. \/ ask.id # None /\ Goes(s, [q EXCEPT !.pc = "find", !.ask = ask])
      \/ ask.id = None /\ ask.name # None /\ Goes(s, [q EXCEPT !.pc = "name", !.ask = ask])
      \/ Unresolved(s)
  BY <1>2, <1>5 DEF Prepare
<1>7. CASE Unresolved(s)
  <2>1. PICK r \in Busy : Goes(s, r) /\ Fits(r, Gate(s), since[s])
    BY <1>2, <1>3, <1>7, UnresolvedFits
  <2> QED BY <1>1, <2>1, LocalStep
<1>8. ASSUME NEW pc \in {"find", "name"}, Goes(s, [q EXCEPT !.pc = pc, !.ask = ask]),
             pc = "find" => ask.id # None, pc = "name" => ask.name # None
      PROVE  SelectionInvariant'
  <2>1. PICK r : r = [q EXCEPT !.pc = pc, !.ask = ask]
    OBVIOUS
  <2>2. r \in Busy
    BY <2>1 DEF Busy, Pcs
  <2>3. /\ r.pc = pc /\ r.ask = ask /\ r.op = q.op /\ r.todo = q.todo /\ r.done = q.done
        /\ r.read = q.read /\ r.left = q.left /\ r.kept = q.kept
    BY <2>1 DEF Busy
  <2>4. (pc = "find" => ask.id \in Places) /\ (pc = "name" => ask.name \in Names)
    BY <1>8 DEF Items
  <2>5. Heeds(r, since[s])
    BY <2>3 DEF Heeds
  <2>6. Fits(r, Gate(s), since[s])
    BY <1>3, <2>3, <2>4, <2>5, SameItems
  <2> QED BY <1>1, <1>8, <2>1, <2>2, <2>6, LocalStep
<1> QED BY <1>6, <1>7, <1>8

\* A stored status is taken up: a place closed all along is closed there.
LEMMA TakesStatus ==
  ASSUME NEW s \in Sessions, NEW q \in Busy, NEW gate, NEW closed \in SUBSET Places,
         Fits(q, gate, closed), q.op \in {"add", "update", "replace"}, q.todo # <<>>,
         NEW f \in [Places -> Rowed \union {None}], closed \subseteq Recorded(f, Closed),
         NEW p \in Places, f[p] \in Rowed,
         Goes(s, [q EXCEPT !.pc = "refresh", !.of = p, !.got = Status(f[p])])
  PROVE  \E r \in Busy : Goes(s, r) /\ Fits(r, gate, closed)
<1>1. PICK got \in Statuses : got = Status(f[p])
  BY DEF Status, Statuses, Rowed
<1>2. p \in closed => got.status = Closed
  BY <1>1 DEF Recorded, Status
<1>3. PICK r : r = [q EXCEPT !.pc = "refresh", !.of = p, !.got = got]
  OBVIOUS
<1>4. r \in Busy
  BY <1>3 DEF Busy, Pcs, Known
<1>5. /\ r.pc = "refresh" /\ r.of = p /\ r.got = got /\ r.op = q.op /\ r.todo = q.todo
      /\ r.done = q.done /\ r.read = q.read /\ r.left = q.left /\ r.kept = q.kept
  BY <1>3 DEF Busy
<1>6. Heeds(r, closed)
  BY <1>2, <1>5 DEF Heeds
<1>7. Fits(r, gate, closed)
  BY <1>5, <1>6, SameItems
<1> QED BY <1>1, <1>3, <1>4, <1>7

LEMMA FindByIdKeeps ==
  ASSUME SelectionInvariant, NEW s \in Sessions, FindById(s)
  PROVE  SelectionInvariant'
<1>1. At(s, "find") /\ Local
  BY DEF FindById
<1>2. PICK q \in Busy : q = req[s]
  BY <1>1, Working DEF At
<1>3. /\ Fits(q, Gate(s), since[s]) /\ since[s] \in SUBSET Places /\ Reached(q)
      /\ since[s] \subseteq Recorded(row, Closed)
      /\ q.op \in {"add", "update", "replace"} /\ q.todo # <<>> /\ q.pc = "find"
  BY <1>1, <1>2, Working DEF At
<1>4. PICK p \in Places : p = q.ask.id
  BY <1>3 DEF Reached
<1>5. \/ Ends(s)
      \/ row[p] # None /\ Goes(s, [q EXCEPT !.pc = "refresh", !.of = p, !.got = Status(row[p])])
  BY <1>2, <1>4 DEF FindById
<1>6. CASE Ends(s)
  BY <1>1, <1>6, EndKeeps
<1>7. CASE row[p] # None /\ Goes(s, [q EXCEPT !.pc = "refresh", !.of = p, !.got = Status(row[p])])
  <2>1. row \in [Places -> Rowed \union {None}] /\ row[p] \in Rowed
    BY <1>7 DEF SelectionInvariant, SelectionTypeOK
  <2>2. PICK r \in Busy : Goes(s, r) /\ Fits(r, Gate(s), since[s])
    BY <1>3, <1>7, <2>1, TakesStatus
  <2> QED BY <1>1, <2>2, LocalStep
<1> QED BY <1>5, <1>6, <1>7

LEMMA FindCachedByNameKeeps ==
  ASSUME SelectionInvariant, NEW s \in Sessions, FindCachedByName(s)
  PROVE  SelectionInvariant'
<1>1. At(s, "name") /\ Local
  BY DEF FindCachedByName
<1>2. PICK q \in Busy : q = req[s]
  BY <1>1, Working DEF At
<1>3. /\ Fits(q, Gate(s), since[s]) /\ since[s] \in SUBSET Places /\ Reached(q)
      /\ since[s] \subseteq Recorded(row, Closed)
      /\ q.op \in {"add", "update", "replace"} /\ q.todo # <<>> /\ q.pc = "name"
  BY <1>1, <1>2, Working DEF At
<1>4. \/ Ends(s)
      \/ Goes(s, [q EXCEPT !.pc = "resolve"])
      \/ \E p \in Places :
           row[p] # None /\ Goes(s, [q EXCEPT !.pc = "refresh", !.of = p, !.got = Status(row[p])])
  BY <1>2 DEF FindCachedByName
<1>5. CASE Ends(s)
  BY <1>1, <1>5, EndKeeps
<1>6. CASE Goes(s, [q EXCEPT !.pc = "resolve"])
  <2>1. PICK r : r = [q EXCEPT !.pc = "resolve"]
    OBVIOUS
  <2>2. r \in Busy
    BY <2>1 DEF Busy, Pcs
  <2>3. /\ r.pc = "resolve" /\ r.ask = q.ask /\ r.op = q.op /\ r.todo = q.todo /\ r.done = q.done
        /\ r.read = q.read /\ r.left = q.left /\ r.kept = q.kept
    BY <2>1 DEF Busy
  <2>4. q.ask.name \in Names
    BY <1>3 DEF Reached
  <2>5. Heeds(r, since[s])
    BY <2>3 DEF Heeds
  <2>6. Fits(r, Gate(s), since[s])
    BY <1>3, <2>3, <2>4, <2>5, SameItems
  <2> QED BY <1>1, <1>6, <2>1, <2>2, <2>6, LocalStep
<1>7. ASSUME NEW p \in Places, row[p] # None,
             Goes(s, [q EXCEPT !.pc = "refresh", !.of = p, !.got = Status(row[p])])
      PROVE  SelectionInvariant'
  <2>1. row \in [Places -> Rowed \union {None}] /\ row[p] \in Rowed
    BY <1>7 DEF SelectionInvariant, SelectionTypeOK
  <2>2. PICK r \in Busy : Goes(s, r) /\ Fits(r, Gate(s), since[s])
    BY <1>3, <1>7, <2>1, TakesStatus
  <2> QED BY <1>1, <2>2, LocalStep
<1> QED BY <1>4, <1>5, <1>6, <1>7

\* What the provider says of a name, or is remembered to have said.
LEMMA Resolving ==
  ASSUME SelectionInvariant, NEW s \in Sessions, ResolvePlace(s), req[s].ask.name \in Names
  PROVE  \E r \in Answers \union {NoAnswer} :
           /\ session' = [session EXCEPT ![s].memo[req[s].ask.name] = r]
           /\ \/ r = NoAnswer /\ Unresolved(s)
              \/ r # NoAnswer /\ Goes(s, [req[s] EXCEPT !.pc = "store", !.got = r])
<1> DEFINE name == req[s].ask.name
           old == session[s].memo[name]
<1>1. \E r \in IF old # None THEN {old} ELSE MayAnswer(name) \union {NoAnswer} :
        /\ session' = [session EXCEPT ![s].memo[name] = r]
        /\ IF r = NoAnswer THEN Unresolved(s) ELSE Goes(s, [req[s] EXCEPT !.pc = "store", !.got = r])
  BY DEF ResolvePlace
<1>2. MayAnswer(name) \subseteq Answers
  <2>1. clock \in Nat
    BY DEF SelectionInvariant, SelectionTypeOK
  <2> QED BY <2>1 DEF MayAnswer, Answers
<1>3. old \in Answers \union {None, NoAnswer}
  BY DEF SelectionInvariant, SelectionTypeOK, Remembering, Remembered
<1> HIDE DEF old
<1>4. (IF old # None THEN {old} ELSE MayAnswer(name) \union {NoAnswer}) \subseteq Answers \union {NoAnswer}
  BY <1>2, <1>3
<1> QED BY <1>1, <1>4

LEMMA ResolvePlaceKeeps ==
  ASSUME SelectionInvariant, NEW s \in Sessions, ResolvePlace(s)
  PROVE  SelectionInvariant'
<1>1. At(s, "resolve") /\ UNCHANGED <<row, stops, ops, clock, since>>
  BY DEF ResolvePlace
<1>2. PICK q \in Busy : q = req[s]
  BY <1>1, Working DEF At
<1>3. /\ Fits(q, Gate(s), since[s]) /\ since[s] \in SUBSET Places /\ Reached(q)
      /\ q.op \in {"add", "update", "replace"} /\ q.todo # <<>> /\ q.pc = "resolve"
  BY <1>1, <1>2, Working DEF At
<1>4. PICK name \in Names : name = q.ask.name
  BY <1>3 DEF Reached
<1>5. PICK mine \in Remembering : mine = session[s]
  BY DEF SelectionInvariant, SelectionTypeOK
<1>6. PICK r \in Answers \union {NoAnswer} :
        /\ session' = [session EXCEPT ![s].memo[name] = r]
        /\ \/ r = NoAnswer /\ Unresolved(s)
           \/ r # NoAnswer /\ Goes(s, [q EXCEPT !.pc = "store", !.got = r])
  BY <1>2, <1>4, Resolving
<1>7. r \in Answers \union {NoAnswer}
  OBVIOUS
<1>8. PICK memo \in [Names -> Remembered] : memo = [mine.memo EXCEPT ![name] = r]
  BY <1>7 DEF Remembering, Remembered
<1>9. PICK new \in Remembering : new = [mine EXCEPT !.memo = memo]
  BY DEF Remembering
<1>10. session' = [session EXCEPT ![s] = new]
  BY <1>5, <1>6, <1>8, <1>9
<1>11. session \in [Sessions -> Remembering]
  BY DEF SelectionInvariant, SelectionTypeOK
<1>12. /\ session' \in [Sessions -> Remembering]
       /\ \A t \in Sessions : session'[t].gate = session[t].gate
  <2>1. new.gate = mine.gate
    BY <1>9 DEF Remembering
  <2> QED BY <1>5, <1>10, <1>11, <2>1
<1>13. PICK n \in Busy : Goes(s, n) /\ Fits(n, Gate(s), since[s])
  <2>1. CASE r = NoAnswer /\ Unresolved(s)
    BY <1>2, <1>3, <2>1, UnresolvedFits
  <2>2. CASE r # NoAnswer /\ Goes(s, [q EXCEPT !.pc = "store", !.got = r])
    <3>1. r \in Answers
      BY <1>7, <2>2
    <3>2. PICK n : n = [q EXCEPT !.pc = "store", !.got = r]
      OBVIOUS
    <3>3. n \in Busy
      BY <3>1, <3>2 DEF Busy, Pcs
    <3>4. /\ n.pc = "store" /\ n.got = r /\ n.op = q.op /\ n.todo = q.todo /\ n.done = q.done
          /\ n.read = q.read /\ n.left = q.left /\ n.kept = q.kept
      BY <3>2 DEF Busy
    <3>5. Heeds(n, since[s])
      BY <3>4 DEF Heeds
    <3>6. Fits(n, Gate(s), since[s])
      BY <1>3, <3>1, <3>4, <3>5, SameItems
    <3> QED BY <2>2, <3>2, <3>3, <3>6
  <2> QED BY <1>6, <2>1, <2>2
<1>14. Fits(n, session'[s].gate, since'[s])
  BY <1>1, <1>12, <1>13 DEF Gate
<1>15. ClosedAllAlong'
  BY <1>1 DEF SelectionInvariant, ClosedAllAlong, Recorded
<1>16. /\ row' \in [Places -> Rowed \union {None}] /\ stops' \in Seq(Known)
       /\ ops' \in Nat /\ clock' \in Nat /\ since' \in [Sessions -> SUBSET Places]
       /\ \A t \in Sessions : since'[t] = since[t]
  BY <1>1 DEF SelectionInvariant, SelectionTypeOK
<1>17. n \in Busy \union {Idle}
  OBVIOUS
<1> QED BY <1>12, <1>13, <1>14, <1>15, <1>16, <1>17, OneSessionMoves

\* What is saved of a place keeps the snapshots in shape.
LEMMA SavedIsTyped ==
  ASSUME SelectionInvariant, NEW p \in Places, NEW r, r.status \in Said, r.at \in Nat,
         NEW point \in BOOLEAN
  PROVE  Saved(p, r, point) \in [Places -> Rowed \union {None}] /\ Saved(p, r, point)[p] \in Rowed
<1>1. row \in [Places -> Rowed \union {None}]
  BY DEF SelectionInvariant, SelectionTypeOK
<1>2. PICK status \in Said, at \in Nat :
        [status |-> status, at |-> at]
          = (LET old == IF row[p] = None THEN [status |-> None, at |-> 0] ELSE row[p]
             IN  [status |-> old.status, at |-> old.at])
  <2>1. CASE row[p] = None
    BY <2>1 DEF Said
  <2>2. CASE row[p] # None
    BY <1>1, <2>2 DEF Rowed
  <2> QED BY <2>1, <2>2
<1>3. PICK old \in Rowed : old = [status |-> status, at |-> at, point |-> point]
  BY DEF Rowed
<1>4. Saved(p, r, point) = [row EXCEPT ![p] = Observed(old, r.status, r.at)]
  BY <1>2, <1>3 DEF Saved
<1>5. Observed(old, r.status, r.at) \in Rowed
  BY DEF Observed, Rowed
<1> QED BY <1>1, <1>4, <1>5

LEMMA StoreKeeps ==
  ASSUME SelectionInvariant, NEW s \in Sessions, Store(s)
  PROVE  SelectionInvariant'
<1>1. At(s, "store") /\ UNCHANGED <<stops, session, ops, clock>>
  BY DEF Store
<1>2. PICK q \in Busy : q = req[s]
  BY <1>1, Working DEF At
<1>3. /\ Fits(q, Gate(s), since[s]) /\ since[s] \in SUBSET Places /\ Reached(q)
      /\ q.op \in {"add", "update", "replace"} /\ q.todo # <<>> /\ q.pc = "store"
  BY <1>1, <1>2, Working DEF At
<1>4. q.got \in Answers
  BY <1>3 DEF Reached
<1>5. PICK r \in Enriched(q.got), point \in BOOLEAN :
        /\ Rows(Saved(r.of, r, point))
        /\ Goes(s, [q EXCEPT !.pc = "refresh", !.of = r.of, !.got = Status(Saved(r.of, r, point)[r.of])])
  BY <1>2 DEF Store
<1>6. r \in Answers
  <2>1. clock \in Nat
    BY DEF SelectionInvariant, SelectionTypeOK
  <2> QED BY <1>4, <1>5, <2>1 DEF Enriched, Answers, Said
<1>7. PICK p \in Places : p = r.of
  BY <1>6 DEF Answers
<1>8. PICK f \in [Places -> Rowed \union {None}] : f = Saved(p, r, point) /\ f[p] \in Rowed
  BY <1>6, <1>7, SavedIsTyped DEF Answers
<1>9. Rows(f) /\ Goes(s, [q EXCEPT !.pc = "refresh", !.of = p, !.got = Status(f[p])])
  BY <1>5, <1>7, <1>8
<1>10. /\ since'[s] \subseteq Recorded(f, Closed)
       /\ since'[s] \subseteq since[s]
  <2>1. req[s] # Idle
    BY <1>2, <1>3 DEF Idle
  <2> QED BY <1>9, <2>1, RowsClose
<1>11. Fits(q, Gate(s), since'[s])
  BY <1>3, <1>10, FitsAntitone
<1>12. PICK n \in Busy : Goes(s, n) /\ Fits(n, Gate(s), since'[s])
  BY <1>3, <1>8, <1>9, <1>10, <1>11, TakesStatus
<1> QED BY <1>1, <1>9, <1>12, RowStep

LEMMA StoreFailsKeeps ==
  ASSUME SelectionInvariant, NEW s \in Sessions, StoreFails(s)
  PROVE  SelectionInvariant'
<1>1. At(s, "store") /\ Local /\ (Unresolved(s) \/ Ends(s))
  BY DEF StoreFails
<1>2. PICK q \in Busy : q = req[s]
  BY <1>1, Working DEF At
<1>3. /\ Fits(q, Gate(s), since[s]) /\ since[s] \in SUBSET Places
      /\ q.op \in {"add", "update", "replace"} /\ q.todo # <<>>
  BY <1>1, <1>2, Working DEF At
<1>4. CASE Unresolved(s)
  <2>1. PICK r \in Busy : Goes(s, r) /\ Fits(r, Gate(s), since[s])
    BY <1>2, <1>3, <1>4, UnresolvedFits
  <2> QED BY <1>1, <2>1, LocalStep
<1>5. CASE Ends(s)
  BY <1>1, <1>5, EndKeeps
<1> QED BY <1>1, <1>4, <1>5

\* The gate has the last word on a place, with the status of the moment or one that
\* heeds what has been closed all along.
LEMMA RefreshAndEnforceKeeps ==
  ASSUME SelectionInvariant, NEW s \in Sessions, RefreshAndEnforce(s)
  PROVE  SelectionInvariant'
<1>1. At(s, "refresh") /\ Local
  BY DEF RefreshAndEnforce
<1>2. PICK q \in Busy : q = req[s]
  BY <1>1, Working DEF At
<1>3. /\ Fits(q, Gate(s), since[s]) /\ since[s] \in SUBSET Places /\ Reached(q)
      /\ Gate(s) \in SUBSET Notes /\ since[s] \subseteq Recorded(row, Closed)
      /\ q.op \in {"add", "update", "replace"} /\ q.todo # <<>> /\ q.pc = "refresh"
  BY <1>1, <1>2, Working DEF At
<1>4. PICK current \in {q.got, Status(row[q.of])} :
        \/ Check(Gate(s), As(q.of, q.ask), current.status) = "allowed" /\ Settled(s, q.of)
        \/ Ends(s)
  BY <1>2 DEF RefreshAndEnforce, Current
<1>5. CASE Ends(s)
  BY <1>1, <1>5, EndKeeps
<1>6. CASE Check(Gate(s), As(q.of, q.ask), current.status) = "allowed" /\ Settled(s, q.of)
  <2>1. q.of \in since[s] => q.got.status = Closed
    BY <1>3 DEF Fits, Heeds
  <2>2. q.of \in since[s] => row[q.of].status = Closed
    BY <1>3 DEF Recorded
  <2>3. q.of \in since[s] => current.status = Closed
    BY <1>4, <2>1, <2>2 DEF Status
  <2>4. q.of \notin since[s] \union ForbiddenBy(Gate(s))
    <3>1. PICK p, status, ask : p = q.of /\ status = current.status /\ ask = q.ask
      OBVIOUS
    <3>2. Check(Gate(s), As(p, ask), status) = "allowed" /\ (p \in since[s] => status = Closed)
      BY <1>6, <2>3, <3>1
    <3>3. p \notin since[s] \union ForbiddenBy(Gate(s))
      BY <1>3, <3>2, PassesUnbarred
    <3> QED BY <3>1, <3>3
  <2>5. q.of \in Known
    BY <1>3 DEF Reached, Known
  <2>6. PICK r \in Busy : Goes(s, r) /\ Fits(r, Gate(s), since[s])
    BY <1>2, <1>3, <1>6, <2>4, <2>5, SettledFits
  <2> QED BY <1>1, <2>6, LocalStep
<1> QED BY <1>4, <1>5, <1>6

-----------------------------------------------------------------------------
(* The write, the map tools, and what happens around the sessions.           *)
LEMMA CommitKeeps ==
  ASSUME SelectionInvariant, NEW s \in Sessions, Commit(s)
  PROVE  SelectionInvariant'
<1>1. /\ At(s, "next") /\ req[s].todo = <<>> /\ UNCHANGED <<row, session, ops, clock, since>>
      /\ Ends(s)
  BY DEF Commit
<1>2. PICK q \in Busy : q = req[s]
  BY <1>1, Working DEF At
<1>3. Reached(q) /\ q.op \in {"add", "update", "replace"}
  BY <1>1, <1>2, Working DEF At
<1>4. /\ q.done \in Seq(Known) /\ q.todo = <<>>
  BY <1>1, <1>2 DEF Busy
<1>5. stops \in Seq(Known)
  BY DEF SelectionInvariant, SelectionTypeOK
<1>6. \/ stops' = stops
      \/ stops' = Written(s) /\ (q.op = "update" => q.slot \in DOMAIN stops)
  BY <1>2 DEF Commit
<1>7. stops' \in Seq(Known)
  <2>1. CASE q.op = "add"
    <3>1. Written(s) = stops \o q.done
      BY <1>2, <2>1 DEF Written
    <3>2. stops \o q.done \in Seq(Known)
      BY <1>4, <1>5, ConcatProperties
    <3> QED BY <1>5, <1>6, <3>1, <3>2
  <2>2. CASE q.op = "replace"
    <3>1. Written(s) = q.done
      BY <1>2, <2>2 DEF Written
    <3> QED BY <1>4, <1>5, <1>6, <3>1
  <2>3. CASE q.op = "update"
    <3>1. Len(q.done) = 1
      <4>1. Len(q.todo) = 0 /\ Len(q.done) \in Nat
        BY <1>4, LenProperties
      <4>2. Len(q.done) + Len(q.todo) = 1
        BY <1>3, <2>3 DEF Reached
      <4> QED BY <4>1, <4>2
    <3>2. q.done[1] \in Known
      <4>1. 1 \in 1..Len(q.done)
        BY <3>1
      <4> QED BY <1>4, <4>1, ElementOfSeq
    <3>3. PICK e \in Known : e = q.done[1]
      BY <3>2
    <3>4. Written(s) = [stops EXCEPT ![q.slot] = IF e = None THEN @ ELSE e]
      BY <1>2, <2>3, <3>3 DEF Written
    <3>5. Written(s) \in {stops, [stops EXCEPT ![q.slot] = e]}
      <4>1. CASE e = None
        <5>1. Written(s) = [stops EXCEPT ![q.slot] = stops[q.slot]]
          BY <3>4, <4>1
        <5>2. Written(s) = stops
          BY <1>5, <5>1
        <5> QED BY <5>2
      <4>2. CASE e # None
        BY <3>4, <4>2
      <4> QED BY <4>1, <4>2
    <3>6. q.slot \in DOMAIN stops => [stops EXCEPT ![q.slot] = e] \in Seq(Known)
      BY <1>5, ExceptSeq, LenProperties
    <3> QED BY <1>5, <1>6, <2>3, <3>5, <3>6
  <2> QED BY <1>3, <2>1, <2>2, <2>3
<1>8. /\ row' \in [Places -> Rowed \union {None}] /\ session' \in [Sessions -> Remembering]
      /\ ops' \in Nat /\ clock' \in Nat /\ since' \in [Sessions -> SUBSET Places]
      /\ session' = session /\ since' = since
  BY <1>1 DEF SelectionInvariant, SelectionTypeOK
<1>9. ClosedAllAlong'
  BY <1>1 DEF SelectionInvariant, ClosedAllAlong, Recorded
<1>10. Goes(s, Idle)
  BY <1>1 DEF Ends
<1> QED BY <1>7, <1>8, <1>9, <1>10, OneSessionMoves

LEMMA Searching ==
  ASSUME SelectionInvariant, NEW s \in Sessions,
         req[s].pc \in {"answer", "upsert", "consider", "told"}
  PROVE  /\ req[s] \in Busy /\ Fits(req[s], Gate(s), since[s]) /\ Reached(req[s])
         /\ Gate(s) \in SUBSET Notes /\ req[s] # Idle
         /\ since[s] \in SUBSET Places
         /\ req[s].op \in {"search", "pinpoint"}
<1>1. ~At(s, "idle") /\ req[s] # Idle
  BY DEF At, Idle
<1>2. req[s] \in Busy /\ Fits(req[s], Gate(s), since[s]) /\ since[s] \in SUBSET Places
  BY <1>1, UnderWay
<1>3. Reached(req[s]) /\ Gate(s) \in SUBSET Notes
  BY <1>2 DEF Fits
<1> QED BY <1>1, <1>2, <1>3 DEF Reached

\* A search brings nothing into the itinerary; what it says matters when it is told.
LEMMA SearchFits ==
  ASSUME NEW q, NEW gate \in SUBSET Notes, NEW closed,
         q.pc \in {"answer", "upsert", "consider", "told"}, q.op \in {"search", "pinpoint"},
         q.pc \in {"upsert", "consider"} => q.got \in Answers /\ q.of = q.got.of,
         OffersNone(q, closed \union ForbiddenBy(gate))
  PROVE  Fits(q, gate, closed)
<1>1. q.op \notin {"add", "update", "replace"}
  OBVIOUS
<1>2. Reached(q)
  BY DEF Reached
<1>3. Heeds(q, closed) /\ AddsNone(q, closed \union ForbiddenBy(gate))
  BY <1>1 DEF Heeds, AddsNone
<1> QED BY <1>2, <1>3 DEF Fits

LEMMA AnswerKeeps ==
  ASSUME SelectionInvariant, NEW s \in Sessions, Answer(s)
  PROVE  SelectionInvariant'
<1>1. At(s, "answer") /\ Local
  BY DEF Answer
<1>2. PICK q \in Busy : q = req[s]
  BY <1>1, Searching DEF At
<1>3. Gate(s) \in SUBSET Notes /\ q.op \in {"search", "pinpoint"}
  BY <1>1, <1>2, Searching DEF At
<1>4. PICK p \in Places, status \in Said :
        Goes(s, [q EXCEPT !.pc = IF q.op = "pinpoint" THEN "upsert" ELSE "consider", !.of = p,
                          !.got = [of |-> p, status |-> status, at |-> clock]])
  BY <1>2 DEF Answer
<1>5. PICK got \in Answers : got = [of |-> p, status |-> status, at |-> clock]
  BY DEF Answers, SelectionInvariant, SelectionTypeOK
<1>6. PICK pc \in {"upsert", "consider"} : pc = IF q.op = "pinpoint" THEN "upsert" ELSE "consider"
  OBVIOUS
<1>7. PICK r : r = [q EXCEPT !.pc = pc, !.of = p, !.got = got]
  OBVIOUS
<1>8. r \in Busy
  BY <1>7 DEF Busy, Pcs, Known
<1>9. r.pc = pc /\ r.op = q.op /\ r.got = got /\ r.of = p /\ got.of = p
  BY <1>5, <1>7 DEF Busy
<1>10. OffersNone(r, since[s] \union ForbiddenBy(Gate(s)))
  BY <1>9 DEF OffersNone
<1>11. Fits(r, Gate(s), since[s])
  BY <1>3, <1>9, <1>10, SearchFits
<1>12. Goes(s, r)
  BY <1>4, <1>5, <1>6, <1>7
<1> QED BY <1>1, <1>8, <1>11, <1>12, LocalStep

LEMMA UpsertKeeps ==
  ASSUME SelectionInvariant, NEW s \in Sessions, Upsert(s)
  PROVE  SelectionInvariant'
<1>1. At(s, "upsert") /\ UNCHANGED <<stops, session, ops, clock>>
  BY DEF Upsert
<1>2. PICK q \in Busy : q = req[s]
  BY <1>1, Searching DEF At
<1>3. /\ Gate(s) \in SUBSET Notes /\ q.op \in {"search", "pinpoint"}
      /\ q.got \in Answers /\ q.of = q.got.of
  BY <1>1, <1>2, Searching DEF At, Reached
<1>4. PICK none : none = [status |-> None, at |-> 0]
  OBVIOUS
<1>5. none.status \in Said /\ none.at \in Nat /\ q.of \in Places
  BY <1>3, <1>4 DEF Said, Answers
<1>6. PICK f \in [Places -> Rowed \union {None}] : f = Saved(q.of, none, TRUE)
  BY <1>5, SavedIsTyped
<1>7. Rows(f) /\ Goes(s, [q EXCEPT !.pc = "consider"])
  BY <1>2, <1>4, <1>6 DEF Upsert
<1>8. PICK r : r = [q EXCEPT !.pc = "consider"]
  OBVIOUS
<1>9. r \in Busy
  BY <1>8 DEF Busy, Pcs
<1>10. r.pc = "consider" /\ r.op = q.op /\ r.got = q.got /\ r.of = q.of
  BY <1>8 DEF Busy
<1>11. OffersNone(r, since'[s] \union ForbiddenBy(Gate(s)))
  BY <1>10 DEF OffersNone
<1>12. Fits(r, Gate(s), since'[s])
  BY <1>3, <1>10, <1>11, SearchFits
<1> QED BY <1>1, <1>7, <1>8, <1>9, <1>12, RowStep

\* A request told what the gate has let pass, or nothing.
LEMMA ToldFits ==
  ASSUME NEW s \in Sessions, NEW q \in Busy, q = req[s], q.op \in {"search", "pinpoint"},
         NEW gate \in SUBSET Notes, NEW closed, NEW lost \in BOOLEAN, NEW done \in Seq(Known),
         ~lost /\ done # <<>> => q.of \notin closed \union ForbiddenBy(gate),
         NEW r, r = [q EXCEPT !.pc = "told", !.got = None, !.lost = lost, !.done = done]
  PROVE  r \in Busy /\ Fits(r, gate, closed)
<1>1. r \in Busy
  BY DEF Busy, Pcs
<1>2. r.pc = "told" /\ r.op = q.op /\ r.of = q.of /\ r.lost = lost /\ r.done = done
  BY DEF Busy
<1>3. OffersNone(r, closed \union ForbiddenBy(gate))
  BY <1>2 DEF OffersNone
<1>4. PICK n : n = r
  OBVIOUS
<1>5. /\ n.pc \in {"answer", "upsert", "consider", "told"} /\ n.op \in {"search", "pinpoint"}
      /\ n.pc \notin {"upsert", "consider"} /\ OffersNone(n, closed \union ForbiddenBy(gate))
  BY <1>2, <1>3, <1>4
<1>6. Fits(n, gate, closed)
  BY <1>5, SearchFits
<1> QED BY <1>1, <1>4, <1>6

LEMMA ConsiderKeeps ==
  ASSUME SelectionInvariant, NEW s \in Sessions, Consider(s)
  PROVE  SelectionInvariant'
<1>1. At(s, "consider") /\ UNCHANGED <<stops, session, ops, clock>>
  BY DEF Consider
<1>2. PICK q \in Busy : q = req[s]
  BY <1>1, Searching DEF At
<1>3. /\ Gate(s) \in SUBSET Notes /\ q.op \in {"search", "pinpoint"} /\ q # Idle
      /\ q.got \in Answers /\ q.of = q.got.of /\ since[s] \in SUBSET Places
  BY <1>1, <1>2, Searching DEF At, Reached
<1>4. PICK r \in Answers : r = q.got
  BY <1>3
<1>5. PICK p \in Places : p = q.of /\ p = r.of
  BY <1>3, <1>4 DEF Answers
<1>6. PICK f : f = IF r.status # None THEN Saved(p, r, FALSE) ELSE row
  OBVIOUS
<1>7. f \in [Places -> Rowed \union {None}]
  <2>1. row \in [Places -> Rowed \union {None}]
    BY DEF SelectionInvariant, SelectionTypeOK
  <2>2. Saved(p, r, FALSE) \in [Places -> Rowed \union {None}]
    BY SavedIsTyped DEF Answers
  <2> QED BY <1>6, <2>1, <2>2
<1>8. PICK status : status = StoredFirst(IF f[p] = None THEN None ELSE f[p].status, r)
  OBVIOUS
<1>9. PICK done \in Seq(Known) :
        done = IF Check(Gate(s), As(p, NoAsk), status) = "allowed" THEN <<p>> ELSE <<>>
  <2>1. <<p>> \in Seq(Known) /\ <<>> \in Seq(Known)
    BY DEF Known
  <2> QED BY <2>1
<1>10. Rows(f) /\ Goes(s, [q EXCEPT !.pc = "told", !.got = None, !.done = done])
  BY <1>2, <1>4, <1>5, <1>6, <1>8, <1>9 DEF Consider
<1>11. since'[s] \subseteq Recorded(f, Closed)
  BY <1>7, <1>10, RowsClose
<1>12. p \in since'[s] => status = Closed
  <2>1. p \in since'[s] => f[p] # None /\ f[p].status = Closed
    BY <1>11 DEF Recorded
  <2>2. Closed # None
    BY SelectionConstants
  <2> QED BY <1>8, <2>1, <2>2 DEF StoredFirst
<1>13. done # <<>> => p \notin since'[s] \union ForbiddenBy(Gate(s))
  <2>1. done # <<>> => Check(Gate(s), As(p, NoAsk), status) = "allowed"
    BY <1>9
  <2>2. PICK closed : closed = since'[s]
    OBVIOUS
  <2>3. done # <<>> => p \notin closed \union ForbiddenBy(Gate(s))
    BY <1>3, <1>12, <2>1, <2>2, PassesUnbarred
  <2> QED BY <2>2, <2>3
<1>14. PICK lost \in BOOLEAN : lost = q.lost
  BY DEF Busy
<1>15. PICK n : n = [q EXCEPT !.pc = "told", !.got = None, !.lost = lost, !.done = done]
  OBVIOUS
<1>16. n \in Busy /\ Fits(n, Gate(s), since'[s])
  <2>1. PICK closed : closed = since'[s]
    OBVIOUS
  <2>2. ~lost /\ done # <<>> => q.of \notin closed \union ForbiddenBy(Gate(s))
    BY <1>5, <1>13, <2>1
  <2>3. n \in Busy /\ Fits(n, Gate(s), closed)
    BY <1>2, <1>3, <1>15, <2>2, ToldFits
  <2> QED BY <2>1, <2>3
<1>17. n = [q EXCEPT !.pc = "told", !.got = None, !.done = done]
  BY <1>14, <1>15 DEF Busy
<1> QED BY <1>1, <1>7, <1>10, <1>16, <1>17, RowStep

LEMMA ConsiderFailsKeeps ==
  ASSUME SelectionInvariant, NEW s \in Sessions, ConsiderFails(s)
  PROVE  SelectionInvariant'
<1>1. At(s, "consider") /\ Local
  BY DEF ConsiderFails
<1>2. PICK q \in Busy : q = req[s]
  BY <1>1, Searching DEF At
<1>3. /\ Gate(s) \in SUBSET Notes /\ q.op \in {"search", "pinpoint"}
      /\ q.got \in Answers
  BY <1>1, <1>2, Searching DEF At, Reached
<1>4. PICK done \in Seq(Known) :
        Goes(s, [q EXCEPT !.pc = "told", !.got = None, !.lost = TRUE, !.done = done])
  <2>1. <<q.got.of>> \in Seq(Known) /\ <<>> \in Seq(Known)
    BY <1>3 DEF Known, Answers
  <2>2. \E done \in {<<q.got.of>>, <<>>} :
          Goes(s, [q EXCEPT !.pc = "told", !.got = None, !.lost = TRUE, !.done = done])
    BY <1>2 DEF ConsiderFails
  <2> QED BY <2>1, <2>2
<1>5. PICK n : n = [q EXCEPT !.pc = "told", !.got = None, !.lost = TRUE, !.done = done]
  OBVIOUS
<1>6. n \in Busy /\ Fits(n, Gate(s), since[s])
  BY <1>2, <1>3, <1>5, ToldFits
<1> QED BY <1>1, <1>4, <1>5, <1>6, LocalStep

LEMMA ToldKeeps ==
  ASSUME SelectionInvariant, NEW s \in Sessions, Told(s)
  PROVE  SelectionInvariant'
  BY EndKeeps DEF Told

LEMMA CutKeeps ==
  ASSUME SelectionInvariant, NEW s \in Sessions, Cut(s)
  PROVE  SelectionInvariant'
  BY EndKeeps DEF Cut

LEMMA ObserveStatusKeeps ==
  ASSUME SelectionInvariant, ObserveStatus
  PROVE  SelectionInvariant'
<1>1. PICK p \in Places, status \in {Open, Closed} :
        /\ row[p] # None /\ Rows([row EXCEPT ![p] = Observed(row[p], status, clock)])
        /\ UNCHANGED <<stops, session, ops, req, clock>>
  BY DEF ObserveStatus
<1>2. row \in [Places -> Rowed \union {None}] /\ clock \in Nat
  BY DEF SelectionInvariant, SelectionTypeOK
<1>3. Observed(row[p], status, clock) \in Rowed
  <2>1. PICK old \in Rowed : old = row[p]
    BY <1>1, <1>2
  <2>2. Observed(old, status, clock) \in Rowed
    BY <1>2 DEF Observed, Rowed, Said
  <2> QED BY <2>1, <2>2
<1>4. PICK f \in [Places -> Rowed \union {None}] : f = [row EXCEPT ![p] = Observed(row[p], status, clock)]
  BY <1>2, <1>3
<1> QED BY <1>1, <1>4, OthersStore

LEMMA BackfillKeeps ==
  ASSUME SelectionInvariant, Backfill
  PROVE  SelectionInvariant'
<1>1. PICK none : none = [status |-> None, at |-> 0]
  OBVIOUS
<1>2. PICK p \in Places :
        Rows(Saved(p, none, TRUE)) /\ UNCHANGED <<stops, session, ops, req, clock>>
  BY <1>1 DEF Backfill
<1>3. none.status \in Said /\ none.at \in Nat
  BY <1>1 DEF Said
<1>4. PICK f \in [Places -> Rowed \union {None}] : f = Saved(p, none, TRUE)
  BY <1>3, SavedIsTyped
<1> QED BY <1>2, <1>4, OthersStore

LEMMA TickKeeps ==
  ASSUME SelectionInvariant, Tick
  PROVE  SelectionInvariant'
<1>1. clock' = clock + 1 /\ UNCHANGED <<row, stops, session, ops, req, since>>
  BY DEF Tick
<1>2. SelectionTypeOK'
  BY <1>1 DEF SelectionInvariant, SelectionTypeOK
<1>3. ClosedAllAlong'
  BY <1>1 DEF SelectionInvariant, ClosedAllAlong, Recorded
<1>4. RequestsFit'
  BY <1>1 DEF SelectionInvariant, RequestsFit, Gate
<1> QED BY <1>2, <1>3, <1>4 DEF SelectionInvariant

LEMMA NoStepKeeps ==
  ASSUME SelectionInvariant, UNCHANGED vars
  PROVE  SelectionInvariant'
<1>1. UNCHANGED <<row, stops, session, ops, req, clock, since>>
  BY DEF vars
<1>2. SelectionTypeOK'
  BY <1>1 DEF SelectionInvariant, SelectionTypeOK
<1>3. ClosedAllAlong'
  BY <1>1 DEF SelectionInvariant, ClosedAllAlong, Recorded
<1>4. RequestsFit'
  BY <1>1 DEF SelectionInvariant, RequestsFit, Gate
<1> QED BY <1>2, <1>3, <1>4 DEF SelectionInvariant

-----------------------------------------------------------------------------
(* The theorems.                                                             *)
LEMMA SessionKeeps ==
  ASSUME SelectionInvariant, NEW s \in Sessions,
         \/ Begin(s) \/ Preserve(s) \/ KeepStop(s) \/ Prepare(s)
         \/ FindById(s) \/ FindCachedByName(s) \/ ResolvePlace(s)
         \/ Store(s) \/ StoreFails(s) \/ RefreshAndEnforce(s) \/ Commit(s)
         \/ Answer(s) \/ Upsert(s) \/ Consider(s) \/ ConsiderFails(s) \/ Told(s) \/ Cut(s)
  PROVE  SelectionInvariant'
<1>1. CASE Begin(s) \/ Preserve(s) \/ KeepStop(s) \/ Prepare(s)
  BY <1>1, BeginKeeps, PreserveKeeps, KeepStopKeeps, PrepareKeeps
<1>2. CASE FindById(s) \/ FindCachedByName(s) \/ ResolvePlace(s)
  BY <1>2, FindByIdKeeps, FindCachedByNameKeeps, ResolvePlaceKeeps
<1>3. CASE Store(s) \/ StoreFails(s) \/ RefreshAndEnforce(s) \/ Commit(s)
  BY <1>3, StoreKeeps, StoreFailsKeeps, RefreshAndEnforceKeeps, CommitKeeps
<1>4. CASE Answer(s) \/ Upsert(s) \/ Consider(s) \/ ConsiderFails(s) \/ Told(s) \/ Cut(s)
  BY <1>4, AnswerKeeps, UpsertKeeps, ConsiderKeeps, ConsiderFailsKeeps, ToldKeeps, CutKeeps
<1> QED BY <1>1, <1>2, <1>3, <1>4

(* Every state of the sessions satisfies the inductive invariant.            *)
THEOREM SelectionInvariantTheorem == Spec => []SelectionInvariant
<1>1. Init => SelectionInvariant
  BY Beginning
<1>2. SelectionInvariant /\ [Next]_vars => SelectionInvariant'
  <2> SUFFICES ASSUME SelectionInvariant, [Next]_vars PROVE SelectionInvariant'
    OBVIOUS
  <2>1. CASE UNCHANGED vars
    BY <2>1, NoStepKeeps
  <2>2. CASE ObserveStatus \/ Backfill \/ Tick
    BY <2>2, ObserveStatusKeeps, BackfillKeeps, TickKeeps
  <2>3. CASE Next /\ ~(ObserveStatus \/ Backfill \/ Tick)
    BY <2>3, SessionKeeps DEF Next
  <2> QED BY <2>1, <2>2, <2>3
<1> QED BY <1>1, <1>2, PTL DEF Spec

LEMMA ForbiddenIs ==
  ASSUME NEW s \in Sessions
  PROVE  Forbidden(s) = ForbiddenBy(Gate(s)) /\ Barred(s) = since[s] \union ForbiddenBy(Gate(s))
  BY DEF Forbidden, ForbiddenBy, Barred

(* No place is offered that the notes forbid or that has been recorded       *)
(* closed since before the provider answered, with any number of sessions    *)
(* and whatever is stored meanwhile: consider stores the observation and     *)
(* judges the place by what is stored after it.                              *)
THEOREM OfferTheorem == Spec => []BarredIsNeverOffered
<1>1. SelectionInvariant => BarredIsNeverOffered
  <2> SUFFICES ASSUME SelectionInvariant, NEW s \in Sessions,
                      At(s, "told"), ~req[s].lost, req[s].done # <<>>
               PROVE  req[s].of \notin Forbidden(s) /\ req[s].of \notin since[s]
    BY DEF BarredIsNeverOffered
  <2>1. Fits(req[s], Gate(s), since[s]) /\ req[s].pc = "told"
    BY Searching DEF At
  <2>2. req[s].of \notin since[s] \union ForbiddenBy(Gate(s))
    BY <2>1 DEF Fits, OffersNone
  <2> QED BY <2>2, ForbiddenIs
<1> QED BY <1>1, SelectionInvariantTheorem, PTL

\* Only the write of a session's own operation ends it with other stops.
LEMMA OnlyCommitWrites ==
  ASSUME SelectionInvariant, [Next]_vars, NEW s \in Sessions,
         At(s, "next"), req'[s].pc = "idle", stops' # stops
  PROVE  Commit(s)
<1>1. PICK t \in Sessions : Commit(t)
  <2>1. ~UNCHANGED vars
    BY DEF vars
  <2>2. ~(ObserveStatus \/ Backfill \/ Tick)
    BY DEF ObserveStatus, Backfill, Tick
  <2>3. PICK t \in Sessions :
          \/ Begin(t) \/ Preserve(t) \/ KeepStop(t) \/ Prepare(t)
          \/ FindById(t) \/ FindCachedByName(t) \/ ResolvePlace(t)
          \/ Store(t) \/ StoreFails(t) \/ RefreshAndEnforce(t) \/ Commit(t)
          \/ Answer(t) \/ Upsert(t) \/ Consider(t) \/ ConsiderFails(t) \/ Told(t) \/ Cut(t)
    BY <2>1, <2>2 DEF Next
  <2>4. ~(Begin(t) \/ Preserve(t) \/ KeepStop(t) \/ Prepare(t))
    BY DEF Begin, Preserve, KeepStop, Prepare, Local
  <2>5. ~(FindById(t) \/ FindCachedByName(t) \/ ResolvePlace(t))
    BY DEF FindById, FindCachedByName, ResolvePlace, Local
  <2>6. ~(Store(t) \/ StoreFails(t) \/ RefreshAndEnforce(t))
    BY DEF Store, StoreFails, RefreshAndEnforce, Local
  <2>7. ~(Answer(t) \/ Upsert(t) \/ Consider(t) \/ ConsiderFails(t) \/ Told(t) \/ Cut(t))
    BY DEF Answer, Upsert, Consider, ConsiderFails, Told, Cut, Local
  <2> QED BY <2>3, <2>4, <2>5, <2>6, <2>7
<1>2. req' = [req EXCEPT ![t] = Idle]
  BY <1>1 DEF Commit, Ends, Goes
<1>3. t = s
  <2>1. ASSUME t # s PROVE FALSE
    <3>1. req \in [Sessions -> Busy \union {Idle}]
      BY DEF SelectionInvariant, SelectionTypeOK
    <3>2. req'[s] = req[s]
      BY <1>2, <2>1, <3>1
    <3> QED BY <3>2 DEF At
  <2> QED BY <2>1
<1> QED BY <1>1, <1>3

\* What a write does to the count of a barred place.
LEMMA WriteAddsNone ==
  ASSUME SelectionInvariant, NEW s \in Sessions, Commit(s), stops' # stops,
         req[s].read = stops, ~req[s].kept, NEW p \in Barred(s)
  PROVE  CountIn(stops', p) <= CountIn(stops, p)
<1>1. At(s, "next") /\ req[s].todo = <<>> /\ stops' = Written(s)
  BY DEF Commit
<1>2. PICK q \in Busy : q = req[s]
  BY <1>1, Working DEF At
<1>3. /\ Fits(q, Gate(s), since[s]) /\ Reached(q) /\ q.op \in {"add", "update", "replace"}
      /\ since[s] \in SUBSET Places
  BY <1>1, <1>2, Working DEF At
<1>4. /\ p \in since[s] \union ForbiddenBy(Gate(s)) /\ p \in Places /\ p # None
  BY <1>3, ForbiddenIs, SelectionConstants DEF ForbiddenBy
<1>5. /\ q.op \in {"add", "update"} => \A i \in DOMAIN q.done : q.done[i] # p
      /\ q.op = "replace" => CountIn(q.done, p) + q.left[p] <= CountIn(q.read, p)
  BY <1>2, <1>3, <1>4 DEF Fits, AddsNone
<1>6. stops \in Seq(Known) /\ q.done \in Seq(Known) /\ q.left \in [Places -> Nat]
  BY DEF SelectionInvariant, SelectionTypeOK, Busy
<1>7. CountIn(stops, p) \in Nat /\ CountIn(q.done, p) \in Nat /\ q.left[p] \in Nat
  BY <1>4, <1>6, CountIsNat
<1>8. CASE q.op = "add"
  <2>1. stops' = stops \o q.done
    BY <1>1, <1>2, <1>8 DEF Written
  <2>2. CountIn(stops \o q.done, p) = CountIn(stops, p)
    BY <1>5, <1>6, <1>8, CountOfAdded
  <2> QED BY <1>7, <2>1, <2>2
<1>9. CASE q.op = "replace"
  <2>1. stops' = q.done
    BY <1>1, <1>2, <1>9 DEF Written
  <2>2. CountIn(q.done, p) + q.left[p] <= CountIn(stops, p)
    BY <1>2, <1>5, <1>9
  <2> QED BY <1>7, <2>1, <2>2
<1>10. CASE q.op = "update"
  <2>1. Len(q.done) = 1
    <3>1. Len(q.todo) = 0 /\ Len(q.done) \in Nat
      BY <1>1, <1>2, <1>6, LenProperties
    <3>2. Len(q.done) + Len(q.todo) = 1
      BY <1>3, <1>10 DEF Reached
    <3> QED BY <3>1, <3>2
  <2>2. q.done[1] # p
    <3>1. 1 \in DOMAIN q.done
      BY <1>6, <2>1, LenProperties
    <3> QED BY <1>5, <1>10, <3>1
  <2>3. PICK e : e = q.done[1]
    OBVIOUS
  <2>4. stops' = [stops EXCEPT ![q.slot] = IF e = None THEN stops[q.slot] ELSE e]
    BY <1>1, <1>2, <1>10, <2>3 DEF Written
  <2>5. CASE e = None
    <3>1. stops' = [stops EXCEPT ![q.slot] = stops[q.slot]]
      BY <2>4, <2>5
    <3>2. stops' = stops
      BY <1>6, <3>1
    <3> QED BY <3>2
  <2>6. CASE e # None
    <3>1. stops' = [stops EXCEPT ![q.slot] = e]
      BY <2>4, <2>6
    <3> QED BY <1>6, <2>2, <2>3, <3>1, CountOfReplaced
  <2> QED BY <2>5, <2>6
<1> QED BY <1>3, <1>8, <1>9, <1>10

(* No edit brings in a barred place or multiplies one that is there, with    *)
(* any requests, any notes, any memo of answers and any interleaving with    *)
(* refreshes and other sessions.                                             *)
THEOREM AdditionTheorem == Spec => BarredIsNeverAdded
<1> DEFINE Keeps ==
      \A s \in Sessions :
        At(s, "next") /\ req'[s].pc = "idle" /\ stops' # stops /\ req[s].read = stops /\ ~req[s].kept =>
          \A p \in Barred(s) : CountIn(stops', p) <= CountIn(stops, p)
<1>1. SelectionInvariant /\ [Next]_vars => [Keeps]_vars
  BY OnlyCommitWrites, WriteAddsNone
<1>2. Spec => [][Keeps]_vars
  BY <1>1, SelectionInvariantTheorem, PTL DEF Spec
<1> QED BY <1>2 DEF BarredIsNeverAdded
=============================================================================
