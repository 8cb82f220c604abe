----------------------- MODULE StreamsAndModelsProofs -----------------------
(***************************************************************************)
(* Theorems about the two components one run explores (MCStreamsAndModels): *)
(* the live stream (RunStream.tla), for any number of streams, events and  *)
(* calls, and the calls of the model (ModelCalls.tla), for any calls,      *)
(* prompts, promises, sizes and times.                                     *)
(*                                                                         *)
(* The stream's invariant says where every committed event is: published,  *)
(* lost, or in flight, and who can still overtake it; and what a stream has *)
(* received by where it stands: nothing before it has subscribed, and then *)
(* the replay followed by what was published since.                        *)
(***************************************************************************)
EXTENDS RunStream, ModelCalls, FiniteSetTheorems, SequenceTheorems, TLAPS

-----------------------------------------------------------------------------
(* The live stream: what its state is made of.                               *)
StreamTypeOK ==
  /\ running \in BOOLEAN
  /\ {persisted, late, calls, attempts, executed} \subseteq Nat
  /\ inFlight \subseteq [first : Nat, last : Nat, left : BOOLEAN]
  /\ pc \in [Streams -> {"idle", "starting", "listing", "replaying", "live", "refused", "stopped"}]
  /\ gone \subseteq Streams
  /\ cleaned \subseteq Streams /\ IsFiniteSet(cleaned)
  /\ listeners \subseteq Streams /\ IsFiniteSet(listeners)
  /\ snapshot \in [Streams -> Nat]
  /\ since \in [Streams -> SUBSET Nat]
  /\ got \in [Streams -> Seq(Nat)]

(* The counters are emptied once per stream that is cleaned up, and once by  *)
(* the orchestrator's end, after which no tool is called.                    *)
Quota ==
  /\ calls <= MaxCalls
  /\ executed <= MaxCalls * Cardinality(cleaned) + (IF running THEN calls ELSE MaxCalls)

(* A transaction in flight: its events are nowhere else, and what is         *)
(* numbered after them while the orchestrator waits is recorded by calls     *)
(* left behind.                                                              *)
InFlightOK(b) ==
  /\ b.first \in Nat \ {0} /\ b.last \in Nat /\ b.left \in BOOLEAN
  /\ b.first <= b.last /\ b.last <= persisted
  /\ EventsOf(b) \intersect (published \union lost) = {}
  /\ b.left => EventsOf(b) \subseteq strays
  /\ ~b.left => (b.last + 1)..persisted \subseteq strays

(* Every event of the log is published, lost or in one transaction in flight.*)
LogOK ==
  /\ published \union lost \subseteq 1..persisted
  /\ \A e \in 1..persisted : e \in published \union lost \/ \E b \in inFlight : e \in EventsOf(b)
  /\ \A b \in inFlight : InFlightOK(b)
  /\ \A b, c \in inFlight : b # c => EventsOf(b) \intersect EventsOf(c) = {}

(* e may be published before f: it is the earlier one, or one of them is an  *)
(* event of S.                                                               *)
Before(e, f, S) == e < f \/ (e # f /\ (e \in S \/ f \in S))

(* A replay of the events 1..n, and then events of P that are not in M, each *)
(* at most once and in order but for S, with cancellations in between.       *)
Follows(g, n, M, P, S) ==
  /\ n <= Len(g)
  /\ \A i \in 1..Len(g) : i <= n => g[i] = i
  /\ \A i \in 1..Len(g) : i > n => g[i] = Cancelled \/ g[i] \in P \ M
  /\ \A i, j \in 1..Len(g) :
       n < i /\ i < j /\ g[i] # Cancelled /\ g[j] # Cancelled => Before(g[i], g[j], S)

HasReceived(s) ==
  /\ since[s] \subseteq published /\ snapshot[s] <= persisted
  /\ pc[s] # "live" => got[s] = <<>> /\ s \notin listeners
  /\ pc[s] = "live" => Follows(got[s], snapshot[s], since[s], published, strays)
  /\ s \in listeners \ gone => Received(s) = 1..snapshot[s] \union (published \ since[s])

StreamInvariant ==
  /\ StreamTypeOK /\ Quota /\ LogOK /\ cleaned \subseteq gone
  /\ \A s \in Streams : HasReceived(s)

-----------------------------------------------------------------------------
(* What is received, as a sequence.                                          *)
LEMMA ReplayFollows ==
  ASSUME NEW n \in Nat, NEW P, NEW S, NEW g, g = [i \in 1..n |-> i]
  PROVE  g \in Seq(Nat) /\ Follows(g, n, P, P, S) /\ ToSet(g) = 1..n
<1>1. g \in Seq(Nat) /\ Len(g) = n /\ DOMAIN g = 1..n
  OBVIOUS
<1>2. \A i \in 1..n : g[i] = i
  OBVIOUS
<1>3. Follows(g, n, P, P, S)
  BY <1>1, <1>2 DEF Follows
<1>4. ToSet(g) = 1..n
  BY <1>1, <1>2 DEF ToSet
<1> QED BY <1>1, <1>3, <1>4

LEMMA FollowsLonger ==
  ASSUME NEW g \in Seq(Nat), NEW n \in Nat, NEW M, NEW P, NEW Q, P \subseteq Q,
         NEW S, NEW T, S \subseteq T, Follows(g, n, M, P, S)
  PROVE  Follows(g, n, M, Q, T)
BY DEF Follows, Before

LEMMA Numbers ==
  ASSUME NEW g \in Seq(Nat)
  PROVE  Len(g) \in Nat /\ \A i \in 1..Len(g) : g[i] \in Nat
OBVIOUS

LEMMA Joined ==
  ASSUME NEW g \in Seq(Nat), NEW e \in Seq(Nat)
  PROVE  /\ g \o e \in Seq(Nat) /\ Len(g \o e) = Len(g) + Len(e)
         /\ \A i \in 1..Len(g) : (g \o e)[i] = g[i]
         /\ \A i \in 1..Len(e) : (g \o e)[Len(g) + i] = e[i]
         /\ \A i \in 1..(Len(g) + Len(e)) : i \in 1..Len(g) \/ \E j \in 1..Len(e) : i = Len(g) + j
         /\ ToSet(g \o e) = ToSet(g) \union ToSet(e)
<1>1. g \o e \in Seq(Nat) /\ Len(g \o e) = Len(g) + Len(e)
  BY ConcatProperties
<1>2. \A i \in 1..Len(g) : (g \o e)[i] = g[i]
  BY ConcatProperties
<1>3. \A i \in 1..Len(e) : (g \o e)[Len(g) + i] = e[i]
  BY ConcatProperties
<1>4. ASSUME NEW i \in 1..(Len(g) + Len(e)) PROVE i \in 1..Len(g) \/ \E j \in 1..Len(e) : i = Len(g) + j
  <2> DEFINE j == i - Len(g)
  <2>1. i \in Int /\ Len(g) \in Nat /\ Len(e) \in Nat
    OBVIOUS
  <2>2. CASE i > Len(g)
    <3>1. j \in 1..Len(e) /\ i = Len(g) + j
      BY <2>1, <2>2
    <3> QED BY <3>1
  <2>3. CASE i <= Len(g)
    BY <2>1, <2>3
  <2> QED BY <2>1, <2>2, <2>3
<1>5. ToSet(g \o e) = ToSet(g) \union ToSet(e)
  <2>1. DOMAIN (g \o e) = 1..(Len(g) + Len(e)) /\ DOMAIN g = 1..Len(g) /\ DOMAIN e = 1..Len(e)
    BY <1>1
  <2>2. ASSUME NEW x \in ToSet(g \o e) PROVE x \in ToSet(g) \union ToSet(e)
    <3>1. PICK i \in 1..(Len(g) + Len(e)) : x = (g \o e)[i]
      BY <2>1 DEF ToSet
    <3> QED BY <1>2, <1>3, <1>4, <2>1, <3>1 DEF ToSet
  <2>3. \A i \in 1..Len(g) : i \in 1..(Len(g) + Len(e))
    OBVIOUS
  <2>4. \A i \in 1..Len(e) : Len(g) + i \in 1..(Len(g) + Len(e))
    OBVIOUS
  <2>5. ASSUME NEW x \in ToSet(g) \union ToSet(e) PROVE x \in ToSet(g \o e)
    BY <1>2, <1>3, <2>1, <2>3, <2>4 DEF ToSet
  <2> QED BY <2>2, <2>5
<1> QED BY <1>1, <1>2, <1>3, <1>4, <1>5

LEMMA FollowsJoined ==
  ASSUME NEW g \in Seq(Nat), NEW e \in Seq(Nat), NEW n \in Nat,
         NEW M, NEW P, NEW Q, NEW S, P \subseteq Q, Follows(g, n, M, P, S),
         \A i \in 1..Len(e) : e[i] = Cancelled \/ e[i] \in Q \ M,
         \A i, j \in 1..Len(e) :
           i < j /\ e[i] # Cancelled /\ e[j] # Cancelled => Before(e[i], e[j], S),
         \A x \in P : \A i \in 1..Len(e) : e[i] # Cancelled => Before(x, e[i], S)
  PROVE  Follows(g \o e, n, M, Q, S)
<1> DEFINE h == g \o e
<1>1. /\ h \in Seq(Nat) /\ Len(h) = Len(g) + Len(e)
      /\ \A i \in 1..Len(g) : h[i] = g[i]
      /\ \A i \in 1..Len(e) : h[Len(g) + i] = e[i]
      /\ \A i \in 1..(Len(g) + Len(e)) : i \in 1..Len(g) \/ \E j \in 1..Len(e) : i = Len(g) + j
  BY Joined
<1> HIDE DEF h
<1>2. n <= Len(g)
  BY DEF Follows
<1>3. Len(g) \in Nat /\ Len(e) \in Nat
  BY Numbers, Zenon
<1>4. n <= Len(h)
  BY <1>1, <1>2, <1>3
<1>5. ASSUME NEW i \in 1..Len(h), i <= n PROVE h[i] = i
  <2>1. i \in 1..Len(g)
    BY <1>2, <1>3, <1>5
  <2> QED BY <1>1, <1>5, <2>1 DEF Follows
<1>6. ASSUME NEW i \in 1..Len(h), i > n PROVE h[i] = Cancelled \/ h[i] \in Q \ M
  <2>1. CASE i \in 1..Len(g)
    BY <1>1, <1>6, <2>1 DEF Follows
  <2>2. CASE \E j \in 1..Len(e) : i = Len(g) + j
    BY <1>1, <2>2
  <2> QED BY <1>1, <2>1, <2>2
<1>7. ASSUME NEW i \in 1..Len(h), NEW j \in 1..Len(h),
             n < i, i < j, h[i] # Cancelled, h[j] # Cancelled
      PROVE  Before(h[i], h[j], S)
  <2>1. CASE j \in 1..Len(g)
    <3>1. i \in 1..Len(g)
      BY <1>3, <1>7, <2>1
    <3> QED BY <1>1, <1>7, <2>1, <3>1 DEF Follows
  <2>2. CASE i \in 1..Len(g) /\ \E k \in 1..Len(e) : j = Len(g) + k
    <3>1. PICK k \in 1..Len(e) : j = Len(g) + k
      BY <2>2
    <3>2. h[i] = g[i] /\ g[i] \in P
      BY <1>1, <1>7, <2>2 DEF Follows
    <3>3. h[j] = e[k] /\ e[k] # Cancelled
      BY <1>1, <1>7, <3>1
    <3> QED BY <3>2, <3>3, Zenon
  <2>3. CASE /\ \E k \in 1..Len(e) : i = Len(g) + k
             /\ \E k \in 1..Len(e) : j = Len(g) + k
    <3>1. PICK k \in 1..Len(e) : i = Len(g) + k
      BY <2>3
    <3>2. PICK l \in 1..Len(e) : j = Len(g) + l
      BY <2>3
    <3>3. k < l
      BY <1>3, <1>7, <3>1, <3>2
    <3>4. h[i] = e[k] /\ h[j] = e[l]
      BY <1>1, <3>1, <3>2
    <3> QED BY <1>7, <3>3, <3>4, Zenon
  <2> QED BY <1>1, <2>1, <2>2, <2>3
<1> QED BY <1>4, <1>5, <1>6, <1>7 DEF Follows, h

-----------------------------------------------------------------------------
(* The quota.                                                                *)
LEMMA Product ==
  ASSUME NEW k \in Nat, NEW a \in Nat, NEW b \in Nat, a <= b
  PROVE  k * a \in Nat /\ k * a <= k * b /\ k * (a + 1) = k * a + k
OBVIOUS

(* A cleanup counts the stream before it empties the counters.               *)
LEMMA CleanupKeeps ==
  ASSUME StreamInvariant, NEW S \in SUBSET Streams, IsFiniteSet(S), Cleanup(S),
         executed' = executed, running' = running
  PROVE  /\ Quota' /\ calls' \in Nat
         /\ cleaned' \subseteq Streams /\ IsFiniteSet(cleaned')
         /\ listeners' \subseteq listeners /\ IsFiniteSet(listeners')
<1> USE DEF StreamInvariant, StreamTypeOK
<1>1. /\ cleaned' = cleaned \union S /\ listeners' = listeners \ (S \ cleaned)
      /\ calls' = IF S \subseteq cleaned THEN calls ELSE 0
  BY DEF Cleanup
<1>2. IsFiniteSet(cleaned') /\ IsFiniteSet(listeners')
  BY <1>1, FS_Union, FS_Subset
<1>3. PICK n \in Nat : n = Cardinality(cleaned)
  BY FS_CardinalityType
<1>4. PICK m \in Nat : m = Cardinality(cleaned')
  BY <1>2, FS_CardinalityType
<1>5. n <= m
  BY <1>1, <1>2, <1>3, <1>4, FS_Subset
<1>6. calls <= MaxCalls /\ executed <= MaxCalls * n + (IF running THEN calls ELSE MaxCalls)
  BY <1>3 DEF Quota
<1>7. CASE S \subseteq cleaned
  <2>1. cleaned' = cleaned /\ calls' = calls
    BY <1>1, <1>7
  <2> QED BY <1>1, <1>2, <2>1 DEF Quota
<1>8. CASE ~(S \subseteq cleaned)
  <2>1. PICK s \in S : s \notin cleaned
    BY <1>8
  <2>2. IsFiniteSet(cleaned \union {s}) /\ Cardinality(cleaned \union {s}) = n + 1
    BY <1>3, <2>1, FS_AddElement
  <2>3. n + 1 <= m
    BY <1>1, <1>2, <1>4, <2>1, <2>2, FS_Subset
  <2>4. calls' = 0
    BY <1>1, <1>8
  <2>5. MaxCalls * n \in Nat /\ MaxCalls * (n + 1) = MaxCalls * n + MaxCalls
    BY BoundsAssumption, Product
  <2>6. MaxCalls * (n + 1) <= MaxCalls * m /\ MaxCalls * m \in Nat
    <3>1. n + 1 \in Nat
      OBVIOUS
    <3> QED BY <2>3, <3>1, BoundsAssumption, Product
  <2> DEFINE a == MaxCalls * n
             b == MaxCalls * (n + 1)
             c == MaxCalls * m
  <2>7. a \in Nat /\ b = a + MaxCalls /\ b <= c /\ c \in Nat /\ executed <= a + MaxCalls
    <3>1. executed <= a + (IF running THEN calls ELSE MaxCalls) /\ a \in Nat
      BY <1>6, <2>5
    <3> HIDE DEF a
    <3>2. executed <= a + MaxCalls
      BY <1>6, <3>1, BoundsAssumption
    <3> QED BY <2>5, <2>6, <3>1, <3>2 DEF a
  <2> HIDE DEF a, b, c
  <2>8. executed <= c /\ executed <= c + MaxCalls
    BY <2>7, BoundsAssumption
  <2>9. executed' <= c + (IF running' THEN calls' ELSE MaxCalls)
    BY <2>4, <2>7, <2>8
  <2>10. MaxCalls * Cardinality(cleaned') = c
    BY <1>4 DEF c
  <2>11. Quota'
    BY <2>4, <2>9, <2>10, BoundsAssumption DEF Quota
  <2> QED BY <1>1, <1>2, <2>4, <2>11
<1> QED BY <1>1, <1>2, <1>7, <1>8

-----------------------------------------------------------------------------
(* A stream that a step does not touch.                                      *)
LEMMA Untouched ==
  ASSUME StreamInvariant, NEW s \in Streams, got'[s] = got[s], snapshot'[s] = snapshot[s],
         since'[s] = since[s], pc'[s] = pc[s], published' = published, strays \subseteq strays',
         persisted' \in Nat, persisted <= persisted',
         s \in listeners' => s \in listeners, s \in gone => s \in gone'
  PROVE  HasReceived(s)'
<1> USE DEF StreamInvariant, StreamTypeOK
<1>1. Received(s)' = Received(s)
  BY DEF Received
<1>2. Follows(got[s], snapshot[s], since[s], published, strays)
        => Follows(got[s], snapshot[s], since[s], published, strays)'
  <2>1. got[s] \in Seq(Nat) /\ snapshot[s] \in Nat
    OBVIOUS
  <2>2. Follows(got[s], snapshot[s], since[s], published, strays)
          => Follows(got[s], snapshot[s], since[s], published, strays')
    BY <2>1, FollowsLonger
  <2> QED BY <2>2, Zenon DEF Follows
<1>3. snapshot'[s] <= persisted'
  BY DEF HasReceived
<1> QED BY <1>1, <1>2, <1>3 DEF HasReceived

(* What a step leaves alone that moves no event to a stream.                 *)
LEMMA NoDelivery ==
  ASSUME StreamInvariant, NEW T \in SUBSET Streams, UNCHANGED <<published, persisted, strays, since, got>>,
         \A s \in Streams \ T : pc'[s] = pc[s] /\ snapshot'[s] = snapshot[s],
         \A s \in T : pc[s] # "live" /\ pc'[s] # "live" /\ snapshot'[s] <= persisted,
         listeners' \subseteq listeners, gone \subseteq gone'
  PROVE  (\A s \in Streams : HasReceived(s))'
<1> SUFFICES ASSUME NEW s \in Streams PROVE HasReceived(s)'
  OBVIOUS
<1>1. CASE s \in T
  BY <1>1 DEF StreamInvariant, HasReceived
<1>2. CASE s \notin T
  <2>1. persisted' \in Nat /\ persisted <= persisted'
    BY DEF StreamInvariant, StreamTypeOK
  <2> QED BY <1>2, <2>1, Untouched
<1> QED BY <1>1, <1>2

-----------------------------------------------------------------------------
(* The events in flight.                                                     *)
LEMMA AfterCommits ==
  ASSUME StreamInvariant, NEW new \in [first : Nat, last : Nat, left : BOOLEAN],
         new.first = persisted + 1, new.first <= new.last, persisted' = new.last,
         inFlight' = inFlight \union {new}, UNCHANGED <<published, lost>>,
         \/ ~new.left /\ Waited = {} /\ strays' = strays
         \/ new.left /\ new.last = new.first /\ strays' = strays \union {new.first}
  PROVE  LogOK' /\ inFlight' \subseteq [first : Nat, last : Nat, left : BOOLEAN]
<1>a. PICK p : p = persisted
  OBVIOUS
<1>1. p = persisted /\ p \in Nat /\ persisted' \in Nat /\ p < persisted'
  BY <1>a DEF StreamInvariant, StreamTypeOK
<1>2. new.first = p + 1 /\ new.last = persisted' /\ EventsOf(new) = (p + 1)..persisted'
  BY <1>1 DEF EventsOf
<1>3. \A b \in inFlight : InFlightOK(b)
  BY DEF StreamInvariant, LogOK
<1>4. published \union lost \subseteq 1..p
  BY <1>1 DEF StreamInvariant, LogOK
<1>5. ASSUME NEW b \in inFlight PROVE InFlightOK(b)' /\ EventsOf(b) \intersect EventsOf(new) = {}
  <2>1. /\ b.first \in Nat \ {0} /\ b.last \in Nat /\ b.left \in BOOLEAN
        /\ b.first <= b.last /\ b.last <= p
        /\ EventsOf(b) \intersect (published \union lost) = {}
        /\ b.left => EventsOf(b) \subseteq strays
        /\ ~b.left => (b.last + 1)..p \subseteq strays
    BY <1>1, <1>3 DEF InFlightOK
  <2>2. b.last <= persisted'
    BY <1>1, <2>1
  <2>3. ~b.left => (b.last + 1)..persisted' \subseteq strays'
    <3> SUFFICES ASSUME ~b.left PROVE (b.last + 1)..persisted' \subseteq strays'
      OBVIOUS
    <3>1. persisted' = p + 1 /\ strays' = strays \union {p + 1}
      BY <1>1, <1>2 DEF Waited
    <3>2. (b.last + 1)..(p + 1) \subseteq (b.last + 1)..p \union {p + 1}
      BY <1>1, <2>1
    <3> QED BY <1>1, <2>1, <3>1, <3>2
  <2>4. EventsOf(b) \subseteq 1..p
    BY <1>1, <2>1 DEF EventsOf
  <2>5. EventsOf(b)' = EventsOf(b)
    BY DEF EventsOf
  <2>6. EventsOf(b) \intersect EventsOf(new) = {}
    BY <1>1, <1>2, <2>4
  <2> QED BY <2>1, <2>2, <2>3, <2>5, <2>6 DEF InFlightOK
<1>6. InFlightOK(new)'
  <2>1. EventsOf(new) \intersect (published \union lost) = {}
    BY <1>1, <1>2, <1>4
  <2>2. new.left => EventsOf(new) \subseteq strays'
    BY <1>1, <1>2
  <2>3. (new.last + 1)..persisted' = {}
    BY <1>1, <1>2
  <2>4. /\ new.first \in Nat \ {0} /\ new.last \in Nat /\ new.left \in BOOLEAN
        /\ new.first <= new.last /\ new.last <= persisted'
    BY <1>1, <1>2
  <2>5. EventsOf(new)' = EventsOf(new)
    BY DEF EventsOf
  <2> QED BY <1>2, <2>1, <2>2, <2>3, <2>4, <2>5 DEF InFlightOK
<1>7. \A e \in 1..persisted' : e \in 1..p \/ e \in EventsOf(new)
  BY <1>1, <1>2
<1>8. \A b : EventsOf(b)' = EventsOf(b)
  BY DEF EventsOf
<1>9. (\A e \in 1..persisted : e \in published \union lost \/ \E b \in inFlight : e \in EventsOf(b))'
  BY <1>1, <1>7, <1>8 DEF StreamInvariant, LogOK
<1>10. (published \union lost \subseteq 1..persisted)'
  BY <1>1, <1>4
<1>11. (\A b, c \in inFlight : b # c => EventsOf(b) \intersect EventsOf(c) = {})'
  BY <1>1, <1>5, <1>8 DEF StreamInvariant, LogOK
<1>12. (\A b \in inFlight : InFlightOK(b))'
  BY <1>1, <1>5, <1>6
<1>13. inFlight' \subseteq [first : Nat, last : Nat, left : BOOLEAN]
  BY DEF StreamInvariant, StreamTypeOK
<1> QED BY <1>9, <1>10, <1>11, <1>12, <1>13 DEF LogOK

LEMMA AfterLeaving ==
  ASSUME StreamInvariant, NEW b \in inFlight,
         inFlight' = (inFlight \ {b}) \union {[b EXCEPT !.left = TRUE]},
         strays' = strays \union EventsOf(b), UNCHANGED <<persisted, published, lost>>
  PROVE  LogOK' /\ inFlight' \subseteq [first : Nat, last : Nat, left : BOOLEAN]
<1>1. PICK c : c = [b EXCEPT !.left = TRUE]
  OBVIOUS
<1>9. b \in [first : Nat, last : Nat, left : BOOLEAN]
  BY DEF StreamInvariant, StreamTypeOK
<1>2. /\ c.first = b.first /\ c.last = b.last /\ c.left = TRUE /\ EventsOf(c) = EventsOf(b)
      /\ c \in [first : Nat, last : Nat, left : BOOLEAN]
  BY <1>1, <1>9 DEF EventsOf
<1>3. \A d : EventsOf(d)' = EventsOf(d)
  BY DEF EventsOf
<1>4. InFlightOK(c)'
  BY <1>2, <1>3 DEF StreamInvariant, LogOK, InFlightOK
<1>5. \A d \in inFlight : InFlightOK(d)'
  BY <1>3 DEF StreamInvariant, LogOK, InFlightOK
<1>6. inFlight' = (inFlight \ {b}) \union {c}
  BY <1>1
<1>7. (\A d, e \in inFlight : d # e => EventsOf(d) \intersect EventsOf(e) = {})'
  BY <1>2, <1>3, <1>6 DEF StreamInvariant, LogOK
<1>8. (\A e \in 1..persisted : e \in published \union lost \/ \E d \in inFlight : e \in EventsOf(d))'
  BY <1>2, <1>3, <1>6 DEF StreamInvariant, LogOK
<1>10. inFlight' \subseteq [first : Nat, last : Nat, left : BOOLEAN]
  BY <1>2, <1>6 DEF StreamInvariant, StreamTypeOK
<1> QED BY <1>4, <1>5, <1>6, <1>7, <1>8, <1>10 DEF StreamInvariant, LogOK

LEMMA AfterAnswer ==
  ASSUME StreamInvariant, NEW b \in inFlight, inFlight' = inFlight \ {b},
         UNCHANGED <<persisted, strays>>,
         \/ published' = published \union EventsOf(b) /\ lost' = lost
         \/ published' = published /\ lost' = lost \union EventsOf(b)
  PROVE  LogOK'
<1>1. \A d : EventsOf(d)' = EventsOf(d)
  BY DEF EventsOf
<1>2. published' \union lost' = published \union lost \union EventsOf(b)
  OBVIOUS
<1>3. EventsOf(b) \subseteq 1..persisted
  BY DEF StreamInvariant, StreamTypeOK, LogOK, InFlightOK, EventsOf
<1>4. ASSUME NEW d \in inFlight' PROVE InFlightOK(d)'
  <2>1. InFlightOK(d) /\ EventsOf(d) \intersect EventsOf(b) = {}
    BY DEF StreamInvariant, LogOK
  <2>2. EventsOf(d) \intersect (published' \union lost') = {}
    BY <1>2, <2>1 DEF InFlightOK
  <2> QED BY <1>1, <2>1, <2>2 DEF InFlightOK
<1>5. (published \union lost \subseteq 1..persisted)'
  BY <1>2, <1>3 DEF StreamInvariant, LogOK
<1>6. (\A e \in 1..persisted : e \in published \union lost \/ \E d \in inFlight : e \in EventsOf(d))'
  <2> SUFFICES ASSUME NEW e \in 1..persisted
               PROVE  e \in published' \union lost' \/ \E d \in inFlight' : e \in EventsOf(d)
    BY <1>1
  <2>1. e \in published \union lost \/ \E d \in inFlight : e \in EventsOf(d)
    BY DEF StreamInvariant, LogOK
  <2> QED BY <1>2, <2>1
<1>7. (\A d, e \in inFlight : d # e => EventsOf(d) \intersect EventsOf(e) = {})'
  BY <1>1 DEF StreamInvariant, LogOK
<1> QED BY <1>4, <1>5, <1>6, <1>7 DEF LogOK

(* What is published may come before what is in flight.                      *)
LEMMA InFlightIsNext ==
  ASSUME StreamInvariant, NEW b \in inFlight, NEW e \in published, NEW f \in EventsOf(b)
  PROVE  Before(e, f, strays)
<1>1. /\ InFlightOK(b) /\ e \in 1..persisted /\ persisted \in Nat
      /\ f \in Nat /\ b.first <= f /\ f <= b.last
  BY DEF StreamInvariant, StreamTypeOK, LogOK, InFlightOK, EventsOf
<1>2. e \notin EventsOf(b) /\ e # f
  BY <1>1 DEF InFlightOK
<1>3. CASE b.left
  BY <1>1, <1>2, <1>3 DEF InFlightOK, Before
<1>4. CASE ~b.left
  <2>1. e < b.first \/ e > b.last
    BY <1>1, <1>2 DEF EventsOf, InFlightOK
  <2>2. e > b.last => e \in strays
    BY <1>1, <1>4 DEF InFlightOK
  <2>3. e < b.first => e < f
    BY <1>1 DEF InFlightOK
  <2> QED BY <1>2, <2>1, <2>2, <2>3 DEF Before
<1> QED BY <1>1, <1>3, <1>4 DEF InFlightOK

-----------------------------------------------------------------------------
(* The invariant holds at the start and after every step.                    *)
LEMMA StreamInitially == StreamInit => StreamInvariant
<1> SUFFICES ASSUME StreamInit PROVE StreamInvariant
  OBVIOUS
<1>1. StreamTypeOK
  BY FS_EmptySet DEF StreamInit, StreamTypeOK
<1>2. Quota
  BY FS_EmptySet, BoundsAssumption DEF StreamInit, Quota
<1>3. LogOK
  BY DEF StreamInit, LogOK
<1>4. \A s \in Streams : HasReceived(s)
  BY DEF StreamInit, HasReceived
<1> QED BY <1>1, <1>2, <1>3, <1>4 DEF StreamInvariant, StreamInit

(* The steps that record events.                                             *)
LEMMA AfterRecording ==
  ASSUME StreamInvariant,
         Record \/ CompleteRun \/ RecordFailure \/ LeaveBehind \/ PersistLate
  PROVE  StreamInvariant'
<1>1. UNCHANGED <<running, published, lost, pc, gone, cleaned, listeners, snapshot, since, got,
                  calls, attempts, executed>>
  BY DEF Record, CompleteRun, RecordFailure, LeaveBehind, PersistLate, life, clients, registry
<1>0. late \in Nat
  BY DEF StreamInvariant, StreamTypeOK
<1> DEFINE Recorded == /\ LogOK' /\ persisted' \in Nat /\ persisted <= persisted' /\ strays \subseteq strays'
                       /\ inFlight' \subseteq [first : Nat, last : Nat, left : BOOLEAN]
<1>2. Recorded /\ late' \in Nat
  <2>1. ASSUME NEW n \in Nat \ {0}, Commits(n, FALSE), Waited = {}, UNCHANGED strays
        PROVE  Recorded
    <3>1. PICK new : new = [first |-> persisted + 1, last |-> persisted + n, left |-> FALSE]
      OBVIOUS
    <3>2. /\ new \in [first : Nat, last : Nat, left : BOOLEAN] /\ persisted \in Nat
          /\ new.first = persisted + 1 /\ new.first <= new.last /\ ~new.left
          /\ persisted' = new.last /\ inFlight' = inFlight \union {new}
      BY <2>1, <3>1 DEF Commits, StreamInvariant, StreamTypeOK
    <3>3. LogOK' /\ inFlight' \subseteq [first : Nat, last : Nat, left : BOOLEAN]
      BY <1>1, <2>1, <3>2, AfterCommits
    <3> QED BY <2>1, <3>2, <3>3
  <2>0. ASSUME Commits(1, TRUE), strays' = strays \union {persisted + 1}
        PROVE  Recorded
    <3>1. PICK new : new = [first |-> persisted + 1, last |-> persisted + 1, left |-> TRUE]
      OBVIOUS
    <3>2. /\ new \in [first : Nat, last : Nat, left : BOOLEAN] /\ persisted \in Nat
          /\ new.first = persisted + 1 /\ new.last = new.first /\ new.first <= new.last /\ new.left
          /\ persisted' = new.last /\ inFlight' = inFlight \union {new}
          /\ strays' = strays \union {new.first}
      BY <2>0, <3>1 DEF Commits, StreamInvariant, StreamTypeOK
    <3>3. LogOK' /\ inFlight' \subseteq [first : Nat, last : Nat, left : BOOLEAN]
      BY <1>1, <3>2, AfterCommits
    <3> QED BY <3>2, <3>3
  <2> HIDE DEF Recorded
  <2>2. CASE Record
    <3>1. PICK n \in 1..2 : Commits(n, FALSE)
      BY <2>2 DEF Record
    <3>2. Waited = {} /\ UNCHANGED <<strays, late>>
      BY <2>2 DEF Record
    <3>3. n \in Nat \ {0}
      OBVIOUS
    <3> QED BY <1>0, <2>1, <3>1, <3>2, <3>3, Zenon
  <2>3. CASE CompleteRun
    <3>1. Waited = {} /\ UNCHANGED <<strays, late>> /\ Commits(2, FALSE)
      BY <2>3 DEF CompleteRun
    <3>2. 2 \in Nat \ {0}
      OBVIOUS
    <3> QED BY <1>0, <2>1, <3>1, <3>2, Zenon
  <2>4. CASE RecordFailure
    <3>1. Waited = {} /\ UNCHANGED <<strays, late>> /\ Commits(1, FALSE)
      BY <2>4 DEF RecordFailure
    <3>2. 1 \in Nat \ {0}
      OBVIOUS
    <3> QED BY <1>0, <2>1, <3>1, <3>2, Zenon
  <2>5. CASE LeaveBehind
    <3>1. UNCHANGED <<persisted, published, lost>> /\ persisted \in Nat
      BY <2>5 DEF LeaveBehind, StreamInvariant, StreamTypeOK
    <3>2. CASE late' = late + 1 /\ UNCHANGED <<inFlight, strays>>
      <4>1. LogOK'
        BY <3>1, <3>2 DEF StreamInvariant, LogOK, InFlightOK, EventsOf
      <4> QED BY <1>0, <3>1, <3>2, <4>1 DEF Recorded, StreamInvariant, StreamTypeOK
    <3>3. CASE /\ UNCHANGED late
               /\ \E b \in Waited : /\ inFlight' = (inFlight \ {b}) \union {[b EXCEPT !.left = TRUE]}
                                    /\ strays' = strays \union EventsOf(b)
      <4>1. PICK b \in inFlight : /\ inFlight' = (inFlight \ {b}) \union {[b EXCEPT !.left = TRUE]}
                                  /\ strays' = strays \union EventsOf(b)
        BY <3>3 DEF Waited
      <4>2. LogOK' /\ inFlight' \subseteq [first : Nat, last : Nat, left : BOOLEAN]
        BY <3>1, <4>1, AfterLeaving
      <4> QED BY <1>0, <3>1, <3>3, <4>1, <4>2 DEF Recorded
    <3> QED BY <2>5, <3>2, <3>3 DEF LeaveBehind
  <2>6. CASE PersistLate
    <3>1. Commits(1, TRUE) /\ late > 0 /\ late' = late - 1 /\ strays' = strays \union {persisted + 1}
      BY <2>6 DEF PersistLate
    <3>2. Recorded
      BY <2>0, <3>1
    <3> QED BY <1>0, <3>1, <3>2
  <2> QED BY <2>2, <2>3, <2>4, <2>5, <2>6
<1> USE DEF StreamInvariant, StreamTypeOK
<1>3. StreamTypeOK' /\ Quota' /\ (cleaned \subseteq gone)'
  BY <1>1, <1>2 DEF Quota
<1>4. (\A s \in Streams : HasReceived(s))'
  BY <1>1, <1>2, Untouched
<1> QED BY <1>2, <1>3, <1>4

(* The steps that neither record nor publish.                                *)
LEMMA AfterRunStep ==
  ASSUME StreamInvariant,
         \/ FailRunIfOpen \/ RunReturns \/ ReadOpenRun \/ CancelRunIfOpen \/ ExecuteTool
         \/ \E b \in inFlight : LoseAnswer(b)
  PROVE  StreamInvariant'
<1> USE DEF StreamInvariant, StreamTypeOK
<1>1. UNCHANGED <<persisted, late, published, strays, pc, gone, cleaned, listeners, snapshot, since, got>>
  BY DEF FailRunIfOpen, RunReturns, ReadOpenRun, CancelRunIfOpen, ExecuteTool, LoseAnswer, log, clients
<1>2. LogOK' /\ inFlight' \subseteq inFlight
  <2>1. CASE \E b \in inFlight : LoseAnswer(b)
    <3>1. PICK b \in inFlight : LoseAnswer(b)
      BY <2>1
    <3>2. inFlight' = inFlight \ {b} /\ lost' = lost \union EventsOf(b)
      BY <3>1 DEF LoseAnswer
    <3> QED BY <1>1, <3>2, AfterAnswer
  <2>2. CASE UNCHANGED <<inFlight, lost>>
    BY <1>1, <2>2 DEF LogOK, InFlightOK, EventsOf
  <2> QED BY <2>1, <2>2 DEF FailRunIfOpen, RunReturns, ReadOpenRun, CancelRunIfOpen, ExecuteTool, log
<1>3. PICK a \in Nat : a = MaxCalls * Cardinality(cleaned)
  BY BoundsAssumption, FS_CardinalityType, Product
<1>4. executed <= a + (IF running THEN calls ELSE MaxCalls) /\ calls <= MaxCalls
  BY <1>3 DEF Quota
<1>5. /\ {calls', attempts', executed'} \subseteq Nat /\ running' \in BOOLEAN
      /\ calls' <= MaxCalls /\ executed' <= a + (IF running' THEN calls' ELSE MaxCalls)
  <2>1. CASE UNCHANGED <<running, registry>>
    BY <1>4, <2>1 DEF registry
  <2>2. CASE RunReturns
    <3>1. calls' = 0 /\ running' = FALSE /\ UNCHANGED <<attempts, executed>>
      BY <2>2 DEF RunReturns
    <3>2. executed <= a + MaxCalls
      BY <1>4, BoundsAssumption
    <3>0. {calls', attempts', executed'} \subseteq Nat /\ calls' <= MaxCalls
      BY <3>1, BoundsAssumption
    <3>3. running' \in BOOLEAN
      BY <3>1, Zenon
    <3>4. (IF running' THEN calls' ELSE MaxCalls) = MaxCalls
      BY <3>1
    <3>5. \A q : q = MaxCalls => executed' <= a + q
      BY <3>1, <3>2
    <3> QED BY <3>0, <3>3, <3>4, <3>5, Zenon
  <2>3. CASE ExecuteTool
    BY <1>4, <2>3, BoundsAssumption DEF ExecuteTool, life
  <2> QED BY <2>1, <2>2, <2>3 DEF FailRunIfOpen, ReadOpenRun, CancelRunIfOpen, LoseAnswer
<1>6. Quota'
  BY <1>1, <1>3, <1>5 DEF Quota
<1>7. StreamTypeOK'
  BY <1>1, <1>2, <1>5
<1>8. (\A s \in Streams : HasReceived(s))'
  <2>1. persisted' \in Nat /\ persisted <= persisted' /\ strays \subseteq strays'
    BY <1>1
  <2> QED BY <1>1, <2>1, Untouched
<1> QED BY <1>1, <1>2, <1>6, <1>7, <1>8

LEMMA AfterOpening ==
  ASSUME StreamInvariant, NEW s \in Streams, Connect(s) \/ Started(s) \/ ListRunEvents(s)
  PROVE  StreamInvariant'
<1>1. /\ UNCHANGED <<life, log, gone, cleaned, listeners, since, got, registry>>
      /\ \E to \in {"starting", "listing", "refused", "replaying"} : pc' = [pc EXCEPT ![s] = to]
      /\ \A u \in Streams \ {s} : snapshot'[u] = snapshot[u]
      /\ pc[s] # "live"
  BY DEF Connect, Started, ListRunEvents, StreamInvariant, StreamTypeOK
<1>2. snapshot' \in [Streams -> Nat] /\ snapshot'[s] <= persisted
  BY DEF Connect, Started, ListRunEvents, StreamInvariant, StreamTypeOK, HasReceived
<1>3. StreamTypeOK' /\ LogOK' /\ (cleaned \subseteq gone)'
  BY <1>1, <1>2 DEF StreamInvariant, StreamTypeOK, LogOK, InFlightOK, EventsOf, life, log, registry
<1>4. Quota'
  BY <1>1 DEF StreamInvariant, Quota, life, registry
<1>5. (\A u \in Streams : HasReceived(u))'
  <2>1. \A u \in Streams \ {s} : pc'[u] = pc[u] /\ snapshot'[u] = snapshot[u]
    BY <1>1 DEF StreamInvariant, StreamTypeOK
  <2>2. pc'[s] # "live"
    BY <1>1 DEF StreamInvariant, StreamTypeOK
  <2>3. \A u \in {s} : pc[u] # "live" /\ pc'[u] # "live" /\ snapshot'[u] <= persisted
    BY <1>1, <1>2, <2>2
  <2>4. /\ UNCHANGED <<published, persisted, strays, since, got>>
        /\ listeners' \subseteq listeners /\ gone \subseteq gone'
    BY <1>1 DEF log
  <2>5. {s} \in SUBSET Streams
    OBVIOUS
  <2> QED BY <2>1, <2>3, <2>4, <2>5, NoDelivery, Zenon
<1> QED BY <1>1, <1>3, <1>4, <1>5 DEF StreamInvariant

LEMMA AfterDisconnect ==
  ASSUME StreamInvariant, NEW s \in Streams, Disconnect(s)
  PROVE  StreamInvariant'
<1>1. /\ gone' = gone \union {s}
      /\ Cleanup({s}) \/ UNCHANGED <<cleaned, listeners, calls>>
      /\ UNCHANGED <<life, log, pc, snapshot, since, got, attempts, executed>>
  BY DEF Disconnect
<1>2. /\ Quota' /\ calls' \in Nat
      /\ cleaned' \subseteq Streams /\ IsFiniteSet(cleaned')
      /\ listeners' \subseteq listeners /\ IsFiniteSet(listeners')
  <2>1. CASE Cleanup({s})
    BY <1>1, <2>1, CleanupKeeps, FS_Singleton DEF life
  <2>2. CASE UNCHANGED <<cleaned, listeners, calls>>
    BY <1>1, <2>2 DEF StreamInvariant, StreamTypeOK, Quota, life
  <2> QED BY <1>1, <2>1, <2>2
<1>3. (cleaned \subseteq gone)'
  BY <1>1 DEF StreamInvariant, Cleanup
<1>4. StreamTypeOK' /\ LogOK'
  BY <1>1, <1>2 DEF StreamInvariant, StreamTypeOK, LogOK, InFlightOK, EventsOf, life, log
<1>5. (\A u \in Streams : HasReceived(u))'
  <2>1. persisted' \in Nat /\ persisted <= persisted' /\ strays \subseteq strays' /\ published' = published
    BY <1>1 DEF log, StreamInvariant, StreamTypeOK
  <2> QED BY <1>1, <1>2, <2>1, Untouched
<1> QED BY <1>2, <1>3, <1>4, <1>5 DEF StreamInvariant

-----------------------------------------------------------------------------
(* Events that can be published next: those of B, in order, or cancellations.*)
Continues(e, B) ==
  /\ e \in Seq(Nat) /\ ToSet(e) \ {Cancelled} = B
  /\ B \subseteq 1..persisted /\ B \intersect published = {}
  /\ \A i \in 1..Len(e) : e[i] = Cancelled \/ e[i] \in B
  /\ \A i, j \in 1..Len(e) : i < j /\ e[i] # Cancelled /\ e[j] # Cancelled => e[i] < e[j]
  /\ \A x \in published, f \in B : Before(x, f, strays)

LEMMA BlockContinues ==
  ASSUME StreamInvariant, NEW b \in inFlight
  PROVE  Continues([i \in 1..(b.last - b.first + 1) |-> b.first + i - 1], EventsOf(b))
<1>1. /\ b.first \in Nat \ {0} /\ b.last \in Nat /\ persisted \in Nat
      /\ b.first <= b.last /\ b.last <= persisted
      /\ EventsOf(b) \intersect published = {} /\ EventsOf(b) = b.first..b.last
  BY DEF StreamInvariant, StreamTypeOK, LogOK, InFlightOK, EventsOf
<1>2. PICK f \in Nat \ {0} : f = b.first
  BY <1>1
<1>3. PICK l \in Nat : l = b.last
  BY <1>1
<1>4. PICK e : e = [i \in 1..(l - f + 1) |-> f + i - 1]
  OBVIOUS
<1>5. f <= l /\ l - f + 1 \in Nat
  BY <1>1, <1>2, <1>3
<1>6. e \in Seq(Nat) /\ Len(e) = l - f + 1 /\ DOMAIN e = 1..(l - f + 1)
  <2>1. \A i \in 1..(l - f + 1) : f + i - 1 \in Nat
    BY <1>5
  <2> QED BY <1>4, <1>5, <2>1
<1>7. \A i \in 1..Len(e) : e[i] = f + i - 1 /\ e[i] \in f..l
  <2>1. \A i \in 1..(l - f + 1) : f + i - 1 \in f..l
    BY <1>5
  <2> QED BY <1>4, <1>6, <2>1
<1>8. ToSet(e) = f..l
  <2>1. \A x \in f..l : x - f + 1 \in 1..(l - f + 1) /\ f + (x - f + 1) - 1 = x
    BY <1>5
  <2>2. \A x \in f..l : \E i \in 1..(l - f + 1) : e[i] = x
    <3> TAKE x \in f..l
    <3>1. x - f + 1 \in 1..(l - f + 1) /\ e[x - f + 1] = x
      BY <1>6, <1>7, <2>1
    <3> QED BY <3>1
  <2> QED BY <1>6, <1>7, <2>2 DEF ToSet
<1>9. Cancelled \notin f..l /\ f..l = EventsOf(b)
  BY <1>1, <1>2, <1>3 DEF Cancelled
<1>10. \A i, j \in 1..Len(e) : i < j => e[i] < e[j]
  BY <1>6, <1>7
<1>11. EventsOf(b) \subseteq 1..persisted
  BY <1>1
<1>12. \A x \in published, g \in EventsOf(b) : Before(x, g, strays)
  BY InFlightIsNext
<1>13. ToSet(e) \ {Cancelled} = EventsOf(b)
  BY <1>8, <1>9
<1>14. \A i \in 1..Len(e) : e[i] \in EventsOf(b)
  BY <1>7, <1>9
<1>15. Continues(e, EventsOf(b))
  BY <1>1, <1>6, <1>10, <1>11, <1>12, <1>13, <1>14, Zenon DEF Continues
<1> QED BY <1>2, <1>3, <1>4, <1>15

LEMMA CancelledContinues == Continues(<<Cancelled>>, {})
<1>1. <<Cancelled>> \in Seq(Nat)
  BY DEF Cancelled
<1>2. PICK e \in Seq(Nat) : e = <<Cancelled>>
  BY <1>1
<1>3. Len(e) = 1 /\ DOMAIN e = 1..1 /\ e[1] = Cancelled /\ \A i \in 1..1 : i = 1
  BY <1>2
<1>4. ToSet(e) \ {Cancelled} = {}
  BY <1>3 DEF ToSet
<1>5. Continues(e, {})
  BY <1>3, <1>4 DEF Continues
<1> QED BY <1>2, <1>5

(* What a delivery does to a listener.                                       *)
LEMMA ReceiverFollows ==
  ASSUME StreamInvariant, NEW s \in Streams, s \in listeners \ gone,
         NEW e, NEW B, Continues(e, B)
  PROVE  /\ got[s] \o e \in Seq(Nat)
         /\ Follows(got[s] \o e, snapshot[s], since[s], published \union B, strays)
         /\ ToSet(got[s] \o e) = ToSet(got[s]) \union ToSet(e)
<1>1. /\ got[s] \in Seq(Nat) /\ snapshot[s] \in Nat /\ e \in Seq(Nat)
      /\ since[s] \subseteq published
      /\ Follows(got[s], snapshot[s], since[s], published, strays)
  BY DEF StreamInvariant, StreamTypeOK, HasReceived, Continues
<1>2. \A i \in 1..Len(e) : e[i] = Cancelled \/ e[i] \in (published \union B) \ since[s]
  BY <1>1 DEF Continues
<1>3. \A i, j \in 1..Len(e) :
        i < j /\ e[i] # Cancelled /\ e[j] # Cancelled => Before(e[i], e[j], strays)
  BY DEF Continues, Before
<1>4. \A x \in published : \A i \in 1..Len(e) : e[i] # Cancelled => Before(x, e[i], strays)
  BY DEF Continues
<1>5. published \subseteq published \union B
  OBVIOUS
<1>6. Follows(got[s] \o e, snapshot[s], since[s], published \union B, strays)
  BY <1>1, <1>2, <1>3, <1>4, <1>5, FollowsJoined, ZenonT(30)
<1> QED BY <1>1, <1>6, Joined

LEMMA AfterDelivery ==
  ASSUME StreamInvariant, NEW e, NEW B, Continues(e, B), LogOK', inFlight' \subseteq inFlight,
         Deliver(e), published' = published \union B,
         UNCHANGED <<running, persisted, late, strays, pc, gone, snapshot, since, attempts, executed>>
  PROVE  StreamInvariant'
<1> USE DEF StreamInvariant, StreamTypeOK
<1>1. /\ got' = [s \in Streams |-> IF s \in listeners \ (cleaned \union gone)
                                   THEN got[s] \o e ELSE got[s]]
      /\ Cleanup(listeners \intersect gone)
  BY DEF Deliver
<1>2. /\ Quota' /\ calls' \in Nat
      /\ cleaned' \subseteq Streams /\ IsFiniteSet(cleaned')
      /\ listeners' \subseteq listeners /\ IsFiniteSet(listeners')
  <2>1. listeners \intersect gone \in SUBSET Streams /\ IsFiniteSet(listeners \intersect gone)
    BY FS_Subset
  <2> QED BY <1>1, <2>1, CleanupKeeps, Zenon
<1>3. cleaned' \subseteq gone'
  BY <1>1 DEF Cleanup
<1>4. ASSUME NEW s \in Streams PROVE got'[s] \in Seq(Nat) /\ HasReceived(s)'
  <2>1. /\ got[s] \in Seq(Nat) /\ snapshot[s] \in Nat /\ HasReceived(s)
        /\ since[s] \subseteq published
    BY DEF HasReceived
  <2>2. /\ since'[s] = since[s] /\ snapshot'[s] = snapshot[s] /\ pc'[s] = pc[s] /\ gone' = gone
        /\ strays' = strays /\ since[s] \subseteq published' /\ snapshot[s] <= persisted'
    BY <2>1 DEF HasReceived
  <2>3. CASE s \in listeners \ gone
    <3>1. pc[s] = "live" /\ Received(s) = 1..snapshot[s] \union (published \ since[s])
      BY <2>1, <2>3 DEF HasReceived
    <3>2. got'[s] = got[s] \o e
      BY <1>1, <2>3
    <3>3. /\ got[s] \o e \in Seq(Nat)
          /\ Follows(got[s] \o e, snapshot[s], since[s], published \union B, strays)
          /\ ToSet(got[s] \o e) = ToSet(got[s]) \union ToSet(e)
      BY <2>3, ReceiverFollows
    <3>4. /\ got'[s] \in Seq(Nat) /\ Follows(got'[s], snapshot'[s], since'[s], published', strays')
          /\ ToSet(got'[s]) = ToSet(got[s]) \union ToSet(e)
      BY <2>2, <3>2, <3>3, Zenon
    <3>5. ToSet(e) \ {Cancelled} = B /\ B \intersect published = {}
      BY DEF Continues
    <3>6. Received(s)' = Received(s) \union B
      BY <3>4, <3>5 DEF Received
    <3>7. Received(s)' = 1..snapshot[s] \union (published' \ since[s])
      BY <2>1, <3>1, <3>5, <3>6
    <3> QED BY <2>2, <3>1, <3>4, <3>7 DEF HasReceived
  <2>4. CASE s \notin listeners \ gone
    <3>1. got'[s] = got[s] /\ s \notin listeners' \ gone'
      BY <1>1, <1>2, <2>4
    <3>2. pc[s] = "live" => Follows(got[s], snapshot[s], since[s], published', strays)
      <4>1. strays \subseteq strays /\ published \subseteq published'
        OBVIOUS
      <4> QED BY <2>1, <4>1, FollowsLonger DEF HasReceived
    <3>3. pc[s] # "live" => got'[s] = <<>> /\ s \notin listeners'
      BY <1>2, <2>1, <3>1 DEF HasReceived
    <3> QED BY <2>1, <2>2, <3>1, <3>2, <3>3 DEF HasReceived
  <2> QED BY <2>3, <2>4
<1>5. got' \in [Streams -> Seq(Nat)]
  <2>1. got' = [s \in Streams |-> got'[s]]
    BY <1>1
  <2> QED BY <1>4, <2>1
<1>6. StreamTypeOK'
  BY <1>2, <1>5
<1> QED BY <1>2, <1>3, <1>4, <1>6

LEMMA AfterPublish ==
  ASSUME StreamInvariant, NEW b \in inFlight, Publish(b)
  PROVE  StreamInvariant'
<1>1. Continues([i \in 1..(b.last - b.first + 1) |-> b.first + i - 1], EventsOf(b))
  BY BlockContinues
<1>2. /\ Deliver([i \in 1..(b.last - b.first + 1) |-> b.first + i - 1])
      /\ inFlight' = inFlight \ {b} /\ published' = published \union EventsOf(b)
      /\ UNCHANGED <<lost, running, persisted, late, strays, pc, gone, snapshot, since, attempts,
                     executed>>
  BY DEF Publish, life
<1>3. LogOK' /\ inFlight' \subseteq inFlight
  BY <1>2, AfterAnswer
<1> QED BY <1>1, <1>2, <1>3, AfterDelivery, Zenon

LEMMA AfterNotifyCancelled ==
  ASSUME StreamInvariant, NotifyCancelled
  PROVE  StreamInvariant'
<1>1. /\ Deliver(<<Cancelled>>) /\ published' = published \union {} /\ inFlight' \subseteq inFlight
      /\ UNCHANGED <<running, persisted, late, strays, pc, gone, snapshot, since, attempts, executed>>
  BY DEF NotifyCancelled, log
<1>2. LogOK'
  BY DEF NotifyCancelled, log, StreamInvariant, LogOK, InFlightOK, EventsOf
<1> QED BY <1>1, <1>2, CancelledContinues, AfterDelivery, Zenon

LEMMA AfterReplay ==
  ASSUME StreamInvariant, NEW s \in Streams, ReplayAndSubscribe(s)
  PROVE  StreamInvariant'
<1> DEFINE refused == snapshot[s] > 0 /\ s \in gone \union cleaned
<1>1. /\ UNCHANGED <<life, log, gone, snapshot, attempts, executed>>
      /\ pc[s] = "replaying"
      /\ pc' = [pc EXCEPT ![s] = IF refused THEN "stopped" ELSE "live"]
  BY DEF ReplayAndSubscribe
<1>2. /\ pc' \in [Streams -> {"idle", "starting", "listing", "replaying", "live", "refused", "stopped"}]
      /\ \A u \in Streams \ {s} : pc'[u] = pc[u]
      /\ pc'[s] = IF refused THEN "stopped" ELSE "live"
  BY <1>1 DEF StreamInvariant, StreamTypeOK
<1>5. UNCHANGED <<running, persisted, inFlight, late, published, lost, strays>>
  BY <1>1 DEF life, log
<1>6. LogOK'
  BY <1>5 DEF StreamInvariant, LogOK, InFlightOK, EventsOf
<1>3. CASE refused
  <2>1. Cleanup({s}) /\ UNCHANGED <<since, got>> /\ s \in gone
    BY <1>3 DEF ReplayAndSubscribe, StreamInvariant
  <2>2. /\ Quota' /\ calls' \in Nat
        /\ cleaned' \subseteq Streams /\ IsFiniteSet(cleaned')
        /\ listeners' \subseteq listeners /\ IsFiniteSet(listeners')
    BY <1>1, <1>5, <2>1, CleanupKeeps, FS_Singleton
  <2>3. (cleaned \subseteq gone)'
    BY <1>1, <2>1 DEF StreamInvariant, Cleanup
  <2>4. StreamTypeOK'
    BY <1>1, <1>2, <1>5, <2>1, <2>2 DEF StreamInvariant, StreamTypeOK
  <2>5. (\A u \in Streams : HasReceived(u))'
    <3>1. \A u \in Streams \ {s} : pc'[u] = pc[u] /\ snapshot'[u] = snapshot[u]
      BY <1>1, <1>2
    <3>2. \A u \in {s} : pc[u] # "live" /\ pc'[u] # "live" /\ snapshot'[u] <= persisted
      BY <1>1, <1>2, <1>3 DEF StreamInvariant, HasReceived
    <3>3. /\ UNCHANGED <<published, persisted, strays, since, got>>
          /\ listeners' \subseteq listeners /\ gone \subseteq gone'
      BY <1>1, <1>5, <2>1, <2>2
    <3>4. {s} \in SUBSET Streams
      OBVIOUS
    <3> QED BY <3>1, <3>2, <3>3, <3>4, NoDelivery, Zenon
  <2> QED BY <1>6, <2>2, <2>3, <2>4, <2>5 DEF StreamInvariant
<1>4. CASE ~refused
  <2> DEFINE g == [i \in 1..snapshot[s] |-> i]
  <2>1. /\ got' = [got EXCEPT ![s] = g]
        /\ listeners' = listeners \union {s}
        /\ since' = [since EXCEPT ![s] = published]
        /\ UNCHANGED <<cleaned, calls>>
    BY <1>4 DEF ReplayAndSubscribe
  <2>2. snapshot[s] \in Nat /\ snapshot[s] <= persisted
    BY DEF StreamInvariant, StreamTypeOK, HasReceived
  <2>3. g \in Seq(Nat) /\ Follows(g, snapshot[s], published, published, strays) /\ ToSet(g) = 1..snapshot[s]
    BY <2>2, ReplayFollows
  <2> HIDE DEF g
  <2>4. /\ got' \in [Streams -> Seq(Nat)]
        /\ got'[s] = g /\ \A u \in Streams \ {s} : got'[u] = got[u]
    BY <2>1, <2>3 DEF StreamInvariant, StreamTypeOK
  <2>5. IsFiniteSet(listeners') /\ listeners' \subseteq Streams
    BY <2>1, FS_AddElement DEF StreamInvariant, StreamTypeOK
  <2>10. since'[s] = published /\ \A u \in Streams \ {s} : since'[u] = since[u]
    BY <2>1 DEF StreamInvariant, StreamTypeOK
  <2>6. StreamTypeOK' /\ (cleaned \subseteq gone)'
    <3>1. since' \in [Streams -> SUBSET Nat]
      BY <2>1 DEF StreamInvariant, StreamTypeOK, LogOK
    <3> QED BY <1>1, <1>2, <1>5, <2>1, <2>4, <2>5, <3>1 DEF StreamInvariant, StreamTypeOK
  <2>7. Quota'
    BY <1>1, <1>5, <2>1 DEF StreamInvariant, Quota
  <2>8. HasReceived(s)'
    <3>1. pc'[s] = "live" /\ snapshot'[s] = snapshot[s]
      BY <1>1, <1>2, <1>4
    <3>2. Follows(got'[s], snapshot'[s], since'[s], published', strays')
      BY <1>5, <2>3, <2>4, <2>10, <3>1, Zenon
    <3>3. Received(s)' = 1..snapshot[s]
      BY <2>2, <2>3, <2>4 DEF Received, Cancelled
    <3>4. published' \ since'[s] = {} /\ since'[s] \subseteq published' /\ snapshot'[s] <= persisted'
      BY <1>5, <2>2, <2>10, <3>1
    <3> QED BY <3>1, <3>2, <3>3, <3>4 DEF HasReceived
  <2>9. ASSUME NEW u \in Streams \ {s} PROVE HasReceived(u)'
    <3>1. persisted' \in Nat /\ persisted <= persisted' /\ strays \subseteq strays'
      BY <1>5 DEF StreamInvariant, StreamTypeOK
    <3>2. /\ u \in Streams /\ got'[u] = got[u] /\ snapshot'[u] = snapshot[u] /\ since'[u] = since[u]
          /\ pc'[u] = pc[u] /\ published' = published
          /\ (u \in listeners' => u \in listeners) /\ (u \in gone => u \in gone')
      BY <1>1, <1>2, <1>5, <2>1, <2>4, <2>10
    <3> QED BY <3>1, <3>2, Untouched
  <2> QED BY <1>6, <2>6, <2>7, <2>8, <2>9 DEF StreamInvariant
<1> QED BY <1>3, <1>4

LEMMA StreamStep == StreamInvariant /\ [StreamNext]_streamVars => StreamInvariant'
<1> SUFFICES ASSUME StreamInvariant, [StreamNext]_streamVars
             PROVE  StreamInvariant'
  OBVIOUS
<1>1. CASE Record \/ CompleteRun \/ RecordFailure \/ LeaveBehind \/ PersistLate
  BY <1>1, AfterRecording
<1>2. CASE \/ FailRunIfOpen \/ RunReturns \/ ReadOpenRun \/ CancelRunIfOpen \/ ExecuteTool
           \/ \E b \in inFlight : LoseAnswer(b)
  BY <1>2, AfterRunStep
<1>3. ASSUME NEW b \in inFlight, Publish(b) PROVE StreamInvariant'
  BY <1>3, AfterPublish
<1>4. CASE NotifyCancelled
  BY <1>4, AfterNotifyCancelled
<1>5. ASSUME NEW s \in Streams,
             Connect(s) \/ Started(s) \/ ListRunEvents(s) \/ ReplayAndSubscribe(s) \/ Disconnect(s)
      PROVE  StreamInvariant'
  BY <1>5, AfterOpening, AfterReplay, AfterDisconnect
<1>6. CASE UNCHANGED streamVars
  <2>1. UNCHANGED <<life, log, clients, registry>>
    BY <1>6 DEF streamVars
  <2>2. StreamTypeOK' /\ Quota' /\ LogOK' /\ (cleaned \subseteq gone)'
    BY <2>1 DEF life, log, clients, registry, StreamInvariant, StreamTypeOK, Quota, LogOK,
                InFlightOK, EventsOf
  <2>3. (\A s \in Streams : HasReceived(s))'
    BY <2>1 DEF log, clients, StreamInvariant, HasReceived, Received, Follows, Before
  <2> QED BY <2>2, <2>3 DEF StreamInvariant
<1> QED BY <1>1, <1>2, <1>3, <1>4, <1>5, <1>6, Zenon DEF StreamNext

(* RunStream.tla's state is well formed, every event of the log is published,*)
(* lost or in flight, a client has received what its stage of runStream      *)
(* implies, and the tool registry has kept to the limit since the counters   *)
(* were last emptied.                                                        *)
THEOREM StreamInvariantTheorem == StreamSpec => []StreamInvariant
<1>1. StreamInit => StreamInvariant
  BY StreamInitially
<1>2. StreamInvariant /\ [StreamNext]_streamVars => StreamInvariant'
  BY StreamStep
<1> QED BY <1>1, <1>2, PTL DEF StreamSpec

(* Whatever calls throw and are left behind, a connected client misses only  *)
(* what is in flight, what was lost and what was published between its replay*)
(* and its subscription, and what it sees is in order but for the repeats of *)
(* the replay and the events of calls left behind.                           *)
THEOREM ClientTheorem == StreamSpec => []ClientFollowsTheRun
<1>1. StreamInvariant => ClientFollowsTheRun
  <2> SUFFICES ASSUME StreamInvariant PROVE ClientFollowsTheRun
    OBVIOUS
  <2>1. LiveStreamIsComplete
    <3> SUFFICES ASSUME NEW s \in listeners \ gone
                 PROVE  /\ Received(s) \subseteq 1..persisted
                        /\ \A e \in 1..persisted :
                             \/ e \in Received(s) \union lost \/ \E b \in inFlight : e \in EventsOf(b)
                             \/ e > snapshot[s] /\ e \in since[s]
      BY DEF LiveStreamIsComplete
    <3>1. /\ snapshot[s] \in Nat /\ snapshot[s] <= persisted /\ persisted \in Nat
          /\ published \subseteq 1..persisted
          /\ Received(s) = 1..snapshot[s] \union (published \ since[s])
      BY DEF StreamInvariant, StreamTypeOK, LogOK, HasReceived
    <3>2. Received(s) \subseteq 1..persisted
      <4> SUFFICES ASSUME NEW e \in Received(s) PROVE e \in 1..persisted
        OBVIOUS
      <4>1. e \in 1..snapshot[s] \/ e \in published
        BY <3>1
      <4>2. CASE e \in 1..snapshot[s]
        BY <3>1, <4>2
      <4>3. CASE e \in published
        BY <3>1, <4>3
      <4> QED BY <4>1, <4>2, <4>3
    <3>3. ASSUME NEW e \in 1..persisted
          PROVE  \/ e \in Received(s) \union lost \/ \E b \in inFlight : e \in EventsOf(b)
                 \/ e > snapshot[s] /\ e \in since[s]
      <4>1. e \in published \union lost \/ \E b \in inFlight : e \in EventsOf(b)
        BY DEF StreamInvariant, LogOK
      <4>2. e <= snapshot[s] => e \in 1..snapshot[s]
        BY <3>1
      <4>3. e > snapshot[s] \/ e <= snapshot[s]
        BY <3>1
      <4> QED BY <3>1, <4>1, <4>2, <4>3, Zenon
    <3> QED BY <3>2, <3>3
  <2>2. DeliveredInOrder
    <3> SUFFICES ASSUME NEW s \in Streams, NEW i \in DOMAIN got[s], NEW j \in DOMAIN got[s],
                        i < j, got[s][i] # Cancelled, got[s][j] # Cancelled, got[s][i] >= got[s][j]
                 PROVE  \/ i <= snapshot[s] /\ snapshot[s] < j
                        \/ got[s][i] # got[s][j] /\ {got[s][i], got[s][j]} \intersect strays # {}
      BY Zenon DEF DeliveredInOrder
    <3>1. got[s] \in Seq(Nat) /\ snapshot[s] \in Nat /\ DOMAIN got[s] = 1..Len(got[s])
      BY DEF StreamInvariant, StreamTypeOK
    <3>2. pc[s] = "live"
      BY DEF StreamInvariant, HasReceived
    <3>3. Follows(got[s], snapshot[s], since[s], published, strays)
      BY <3>2 DEF StreamInvariant, HasReceived
    <3>4. got[s][i] \in Nat /\ got[s][j] \in Nat /\ i \in Nat /\ j \in Nat
      BY <3>1
    <3>5. CASE i > snapshot[s]
      <4>1. Before(got[s][i], got[s][j], strays)
        BY <3>1, <3>3, <3>5 DEF Follows
      <4> QED BY <3>4, <4>1 DEF Before
    <3>6. CASE j <= snapshot[s]
      <4>1. got[s][i] = i /\ got[s][j] = j
        BY <3>1, <3>3, <3>4, <3>6 DEF Follows
      <4> QED BY <3>4, <4>1
    <3> QED BY <3>1, <3>4, <3>5, <3>6
  <2> QED BY <2>1, <2>2 DEF ClientFollowsTheRun
<1> QED BY <1>1, StreamInvariantTheorem, PTL

(* However the streams of a run come and go, the provider sees at most one   *)
(* quota of calls, and one more for every stream that was cleaned up.        *)
THEOREM QuotaTheorem == StreamSpec => []OneQuotaPerCleanup
<1>1. StreamInvariant => OneQuotaPerCleanup
  <2> SUFFICES ASSUME StreamInvariant PROVE OneQuotaPerCleanup
    OBVIOUS
  <2>1. PICK n \in Nat : n = Cardinality(cleaned)
    BY FS_CardinalityType DEF StreamInvariant, StreamTypeOK
  <2>2. MaxCalls * n \in Nat /\ MaxCalls * (n + 1) = MaxCalls * n + MaxCalls
    BY BoundsAssumption, Product
  <2>3. PICK a \in Nat : a = MaxCalls * n
    BY <2>2
  <2>4. executed <= a + (IF running THEN calls ELSE MaxCalls) /\ calls <= MaxCalls
    BY <2>1, <2>3 DEF StreamInvariant, Quota
  <2>5. executed <= a + MaxCalls
    BY <2>4, BoundsAssumption DEF StreamInvariant, StreamTypeOK
  <2>6. MaxCalls * (1 + n) = a + MaxCalls
    BY <2>2, <2>3
  <2> QED BY <2>1, <2>5, <2>6 DEF OneQuotaPerCleanup
<1> QED BY <1>1, StreamInvariantTheorem, PTL

-----------------------------------------------------------------------------
(* The calls of the model: what their state is made of.                      *)
Slot == [key : Prompts, handle : Handles]
Promise ==
  [key : Prompts \union {NoPrompt}, is : {"unused", "asked", "made", "named", "null"},
   age : Nat, late : BOOLEAN]
Timer == [key : Prompts, left : Nat]

Pcs == {"project", "wait", "token", "send", "response", "body"}
Running ==
  [pc : Pcs, mode : {"complete", "stream"}, key : Prompts \union {NoPrompt},
   content : Handles \union {NoPrompt}, left : 0..Timeout, attempt : Nat, spoke : SUBSET Nat,
   usage : {"none", "latest"}]
Answered == [pc : {"ok"}, spoke : SUBSET Nat, missed : BOOLEAN, done : BOOLEAN]

Slots(s) == {s[i] : i \in DOMAIN s}
KeysOnce(s) == \A i, j \in DOMAIN s : s[i].key = s[j].key => i = j

StoreTyped ==
  /\ cached \in Seq(Slot) /\ KeysOnce(cached)
  /\ handle \in [Handles -> Promise] /\ timers \subseteq Timer /\ crowded \in BOOLEAN

\* A call under way: where it refers to a cached prompt, and what it has said.
Runs(q) ==
  /\ q \in Running
  /\ q.pc \in {"project", "response", "body"} => q.content = NoPrompt
  /\ q.pc = "project" => q.key # NoPrompt
  /\ q.pc = "wait" => q.content # NoPrompt
  /\ provider = "openai" => q.content = NoPrompt /\ q.pc \notin {"project", "wait", "token"}
  /\ q.spoke \subseteq {q.attempt}
  /\ q.pc # "body" \/ q.mode = "complete" => q.spoke = {}
Over(q) ==
  \/ q = NotCalled \/ q = Failed
  \/ q \in Answered /\ (\E n : q.spoke \subseteq {n}) /\ (q.missed => q.done)

CallsFit ==
  provider \in Providers /\ DOMAIN call = Calls /\ \A c \in Calls : Runs(call[c]) \/ Over(call[c])

-----------------------------------------------------------------------------
(* What is in the map, and what the timers do about it.                      *)
Timely(h) == handle[h].is = "named" /\ ~handle[h].late

\* A slot is of its promise's key, and a content whose name came in time leaves the map
\* early enough.
SlotFits(e) ==
  /\ handle[e.handle].is # "unused"
  /\ handle[e.handle].is # "null" => handle[e.handle].key = e.key
  /\ Timely(e.handle) =>
       \E t \in timers : t.key = e.key /\ handle[e.handle].age + t.left + Timeout <= Life

\* A call that refers to a content sends before that is dropped, or not at all.
Refers(q) ==
  q.pc \in Pcs /\ q.content # NoPrompt =>
    /\ handle[q.content].is # "unused"
    /\ q.pc # "wait" => handle[q.content].is = "named"
    /\ Timely(q.content) /\ q.left > 0 => handle[q.content].age + q.left <= Life

PromiseFits(h) == handle[h].is \in {"asked", "made", "named"} => handle[h].key \in Prompts

ContentInv ==
  /\ \A h \in Handles : PromiseFits(h)
  /\ \A e \in Slots(cached) : SlotFits(e)
  /\ \A c \in Calls : Refers(call[c])

\* As long as no key was dropped for lack of room: a creation under way is in the map, and
\* a key in the map whose content has a name has one timer, another has none.
SharedInv ==
  ~crowded =>
    /\ \A h \in Handles : UnderWay(h) => [key |-> handle[h].key, handle |-> h] \in Slots(cached)
    /\ \A t \in timers :
         /\ \E e \in Slots(cached) : e.key = t.key
         /\ \A h \in Handles : UnderWay(h) => handle[h].key # t.key
         /\ \A u \in timers : u.key = t.key => u = t

ModelInv == StoreTyped /\ CallsFit /\ ContentInv /\ SharedInv

-----------------------------------------------------------------------------
(* Steps of a call that leave the cache alone.                               *)
Good(q) == (Runs(q) \/ Over(q)) /\ Refers(q)

LEMMA OverIsGood == ASSUME NEW q, Over(q) PROVE q.pc \notin Pcs /\ Good(q)
<1>1. q.pc \notin Pcs
  BY DEF Over, NotCalled, Failed, Answered, Pcs
<1> QED BY <1>1 DEF Good, Refers

LEMMA UnderWayRuns ==
  ASSUME ModelInv, NEW c \in Calls, call[c].pc \in Pcs
  PROVE  Runs(call[c]) /\ call[c] \in Running /\ Refers(call[c])
BY OverIsGood DEF ModelInv, CallsFit, ContentInv, Runs

LEMMA CallStep ==
  ASSUME ModelInv, NEW c \in Calls, NEW q, Goes(c, q), Good(q), UNCHANGED <<provider, store>>
  PROVE  ModelInv'
<1>1. DOMAIN call' = Calls /\ call'[c] = q /\ \A d \in Calls \ {c} : call'[d] = call[d]
  BY DEF Goes, ModelInv, CallsFit
<1>2. UNCHANGED <<provider, cached, handle, timers, crowded>>
  BY DEF store
<1>3. \A d \in Calls : (Runs(call[d]) \/ Over(call[d])) /\ Refers(call[d])
  BY DEF ModelInv, CallsFit, ContentInv
<1>4. ASSUME NEW d \in Calls PROVE (Runs(call[d]) \/ Over(call[d]))' /\ Refers(call[d])'
  <2>1. PICK p : p = call'[d] /\ (Runs(p) \/ Over(p)) /\ Refers(p)
    BY <1>1, <1>3 DEF Good
  <2>2. (Runs(p) \/ Over(p))' /\ Refers(p)'
    BY <1>2, <2>1 DEF Runs, Over, Refers, Timely
  <2> QED BY <2>1, <2>2 DEF Runs, Over, Refers, Timely
<1>5. CallsFit'
  BY <1>1, <1>2, <1>4 DEF ModelInv, CallsFit
<1>6. StoreTyped' /\ SharedInv'
  BY <1>2 DEF ModelInv, StoreTyped, SharedInv, UnderWay
<1>7. (\A h \in Handles : PromiseFits(h))' /\ (\A e \in Slots(cached) : SlotFits(e))'
  BY <1>2 DEF ModelInv, ContentInv, PromiseFits, SlotFits, Timely
<1> QED BY <1>4, <1>5, <1>6, <1>7 DEF ModelInv, ContentInv

(* Another attempt, or the end.                                              *)
LEMMA Again ==
  ASSUME ModelInv, NEW c \in Calls, call[c].pc \in Pcs, call[c].spoke = {},
         call[c].content = NoPrompt \/ provider # "openai", AgainOrFails(c)
  PROVE  \E q : Goes(c, q) /\ Good(q)
<1>1. CASE Goes(c, Failed)
  BY <1>1, OverIsGood DEF Over
<1>2. CASE ~LastAttempt(c)
  <2>1. PICK p \in Running : p = call[c]
    BY UnderWayRuns
  <2>2. PICK q : q = [p EXCEPT !.pc = "send", !.attempt = p.attempt + 1, !.left = Timeout]
    OBVIOUS
  <2>3. Goes(c, q)
    BY <1>2, <2>1, <2>2 DEF AgainOrFails
  <2>4. q \in Running /\ q.pc = "send" /\ q.content = NoPrompt /\ q.spoke = {}
    <3>1. p.content = NoPrompt /\ p.spoke = {} /\ p.attempt \in Nat
      BY <1>2, <2>1 DEF LastAttempt, Running
    <3>2. Timeout \in 0..Timeout
      BY CallConstants
    <3>3. PICK n \in Nat : n = p.attempt + 1
      BY <3>1
    <3>4. q = [p EXCEPT !.pc = "send", !.attempt = n, !.left = Timeout]
      BY <2>2, <3>3
    <3> QED BY <3>1, <3>2, <3>4 DEF Running, Pcs
  <2>5. Good(q)
    BY <2>4 DEF Good, Runs, Refers
  <2> QED BY <2>3, <2>5
<1> QED BY <1>1, <1>2 DEF AgainOrFails

LEMMA Begins == ASSUME ModelInv, NEW c \in Calls, Begin(c) PROVE ModelInv'
<1>1. PICK use \in Uses :
        Goes(c, [pc |-> Asks(use[2]), mode |-> use[1], key |-> use[2], content |-> NoPrompt,
                 left |-> Timeout, attempt |-> 1, spoke |-> {}, usage |-> "none"])
  BY DEF Begin
<1>2. PICK q : q = [pc |-> Asks(use[2]), mode |-> use[1], key |-> use[2], content |-> NoPrompt,
                    left |-> Timeout, attempt |-> 1, spoke |-> {}, usage |-> "none"]
  OBVIOUS
<1>3. use[1] \in {"complete", "stream"} /\ use[2] \in Prompts \union {NoPrompt}
      /\ Timeout \in 0..Timeout
  BY CallConstants
<1>4. /\ Asks(use[2]) \in {"send", "token", "project"}
      /\ Asks(use[2]) = "project" => use[2] # NoPrompt
      /\ provider = "openai" => Asks(use[2]) = "send"
  BY DEF Asks
<1>5. q \in Running /\ q.pc = Asks(use[2]) /\ q.content = NoPrompt /\ q.spoke = {} /\ q.key = use[2]
  BY <1>2, <1>3, <1>4 DEF Running, Pcs
<1>6. Good(q)
  BY <1>4, <1>5 DEF Good, Runs, Refers
<1> QED BY <1>1, <1>2, <1>6, CallStep DEF Begin, Apart

LEMMA LocalSteps ==
  ASSUME ModelInv, NEW c \in Calls,
         \/ NoProject(c) \/ Awaited(c) \/ GetAccessToken(c) \/ NoAccessToken(c) \/ Send(c)
         \/ SendAborted(c) \/ Aborts(c)
  PROVE  ModelInv'
<1>1. call[c].pc \in Pcs /\ UNCHANGED <<provider, store>>
  BY DEF NoProject, Awaited, GetAccessToken, NoAccessToken, Send, SendAborted, Aborts, Fails, Apart,
         At, Pcs
<1>2. PICK p \in Running : p = call[c] /\ Runs(p) /\ Refers(p)
  BY <1>1, UnderWayRuns
<1>3. SUFFICES \E q : Goes(c, q) /\ Good(q)
  BY <1>1, CallStep
<1>4. CASE NoProject(c)
  <2>1. PICK q : q = [p EXCEPT !.pc = "token"]
    OBVIOUS
  <2>2. p.pc = "project" /\ Goes(c, q)
    BY <1>2, <1>4, <2>1 DEF NoProject, At, To
  <2>3. q \in Running /\ q.pc = "token" /\ q.content = NoPrompt /\ q.spoke = {} /\ provider # "openai"
    BY <1>2, <2>1, <2>2 DEF Running, Pcs, Runs
  <2>4. Good(q)
    BY <2>3 DEF Good, Runs, Refers
  <2> QED BY <2>2, <2>4
<1>5. CASE Awaited(c)
  <2>1. PICK k : k = IF handle[p.content].is = "named" THEN p.content ELSE NoPrompt
    OBVIOUS
  <2>2. PICK q : q = [p EXCEPT !.pc = "token", !.content = k]
    OBVIOUS
  <2>3. p.pc = "wait" /\ Goes(c, q)
    BY <1>2, <1>5, <2>1, <2>2 DEF Awaited, At, Content
  <2>4. q \in Running /\ q.pc = "token" /\ q.content = k /\ q.spoke = {} /\ provider # "openai"
        /\ q.left = p.left
    <3>1. k \in Handles \union {NoPrompt}
      BY <2>1 DEF Running
    <3> QED BY <1>2, <2>2, <2>3, <3>1 DEF Running, Pcs, Runs
  <2>5. Refers(q)
    <3>1. SUFFICES ASSUME k # NoPrompt PROVE Refers(q)
      BY <2>4 DEF Refers
    <3>2. k = p.content /\ handle[k].is = "named" /\ p.content # NoPrompt /\ p.pc \in Pcs
      BY <2>1, <3>1 DEF Running
    <3> QED BY <1>2, <2>4, <3>2 DEF Refers
  <2>6. Runs(q)
    BY <2>4 DEF Runs
  <2> QED BY <2>3, <2>5, <2>6 DEF Good
<1>6. CASE GetAccessToken(c)
  <2>1. PICK q : q = [p EXCEPT !.pc = "send"]
    OBVIOUS
  <2>2. p.pc = "token" /\ Goes(c, q)
    BY <1>2, <1>6, <2>1 DEF GetAccessToken, At, To
  <2>3. q \in Running /\ q.pc = "send" /\ q.content = p.content /\ q.spoke = {} /\ provider # "openai"
        /\ q.left = p.left
    BY <1>2, <2>1, <2>2 DEF Running, Pcs, Runs
  <2>4. Refers(q)
    BY <1>2, <2>2, <2>3 DEF Refers, Pcs
  <2>5. Runs(q)
    BY <2>3 DEF Runs
  <2> QED BY <2>2, <2>4, <2>5 DEF Good
<1>7. CASE NoAccessToken(c)
  BY <1>7, OverIsGood DEF NoAccessToken, Fails, Over
<1>8. CASE Send(c)
  <2>1. PICK q : q = [p EXCEPT !.pc = "response", !.content = NoPrompt]
    OBVIOUS
  <2>2. p.pc = "send" /\ Goes(c, q)
    BY <1>2, <1>8, <2>1 DEF Send, At
  <2>3. q \in Running /\ q.pc = "response" /\ q.content = NoPrompt /\ q.spoke = {}
    BY <1>2, <2>1, <2>2 DEF Running, Pcs, Runs
  <2>4. Good(q)
    BY <2>3 DEF Good, Runs, Refers
  <2> QED BY <2>2, <2>4
<1>9. CASE SendAborted(c)
  <2>1. p.pc = "send" /\ p.spoke = {} /\ (p.content = NoPrompt \/ provider # "openai")
    BY <1>2, <1>9 DEF SendAborted, At, Runs
  <2> QED BY <1>1, <1>2, <1>9, <2>1, Again DEF SendAborted
<1>10. CASE Aborts(c)
  <2>1. CASE Goes(c, Failed)
    BY <2>1, OverIsGood DEF Over
  <2>2. CASE ~(p.pc = "body" /\ p.mode = "stream")
    <3>1. p.pc \in {"response", "body"} /\ p.spoke = {} /\ p.content = NoPrompt
      BY <1>2, <1>10, <2>2 DEF Aborts, Runs, Running
    <3> QED BY <1>1, <1>2, <1>10, <2>2, <3>1, Again DEF Aborts, At
  <2> QED BY <1>2, <1>10, <2>1, <2>2 DEF Aborts, At
<1> QED BY <1>4, <1>5, <1>6, <1>7, <1>8, <1>9, <1>10

LEMMA AnswerSteps ==
  ASSUME ModelInv, NEW c \in Calls, Answers(c)
  PROVE  ModelInv'
<1>1. call[c].pc \in {"response", "body"} /\ UNCHANGED <<provider, store>>
  BY DEF Answers, ResponseOk, ResponseNotOk, StreamingBlocked, Breaks, Whole, Frame, StreamEnds,
         StreamBreaks, Fails, Apart, At
<1>2. PICK p \in Running : p = call[c] /\ Runs(p) /\ p.content = NoPrompt
  BY <1>1, UnderWayRuns DEF Runs, Pcs
<1>3. SUFFICES \E q : Goes(c, q) /\ Good(q)
  BY <1>1, CallStep
<1>4. CASE ResponseOk(c)
  <2>1. PICK q : q = [p EXCEPT !.pc = "body", !.key = NoPrompt]
    OBVIOUS
  <2>2. p.pc = "response" /\ Goes(c, q)
    BY <1>2, <1>4, <2>1 DEF ResponseOk, At
  <2>3. q \in Running /\ q.pc = "body" /\ q.content = NoPrompt /\ q.spoke = {}
    BY <1>2, <2>1, <2>2 DEF Running, Pcs, Runs
  <2>4. Good(q)
    BY <2>3 DEF Good, Runs, Refers
  <2> QED BY <2>2, <2>4
<1>5. CASE ResponseNotOk(c) \/ Breaks(c)
  <2>1. p.pc = "response" /\ p.spoke = {} /\ AgainOrFails(c)
    BY <1>2, <1>5 DEF ResponseNotOk, Breaks, At, Runs
  <2> QED BY <1>1, <1>2, <2>1, Again DEF Pcs
<1>6. CASE StreamingBlocked(c)
  <2>1. PICK q : q = [p EXCEPT !.mode = "complete", !.left = Timeout, !.pc = Asks(p.key)]
    OBVIOUS
  <2>2. p.pc = "response" /\ Goes(c, q) /\ provider = "express"
    BY <1>2, <1>6, <2>1 DEF StreamingBlocked, At
  <2>3. Asks(p.key) \in {"token", "project"} /\ (Asks(p.key) = "project" => p.key # NoPrompt)
    BY <2>2 DEF Asks
  <2>4. q \in Running /\ q.pc = Asks(p.key) /\ q.content = NoPrompt /\ q.spoke = {} /\ q.key = p.key
    <3>1. Timeout \in 0..Timeout
      BY CallConstants
    <3> QED BY <1>2, <2>1, <2>2, <2>3, <3>1 DEF Running, Pcs, Runs
  <2>5. Good(q)
    BY <2>2, <2>3, <2>4 DEF Good, Runs, Refers
  <2> QED BY <2>2, <2>5
<1>7. CASE Whole(c)
  <2>1. p.pc = "body" /\ p.mode = "complete" /\ p.spoke = {}
    BY <1>2, <1>7 DEF Whole, At, Runs
  <2>2. PICK a \in Nat : a = p.attempt
    BY DEF Running
  <2>3. CASE Goes(c, Ok([call[c] EXCEPT !.spoke = {call[c].attempt}], FALSE, FALSE))
    <3>1. PICK q : q = Ok([call[c] EXCEPT !.spoke = {call[c].attempt}], FALSE, FALSE)
      OBVIOUS
    <3>2. q = [pc |-> "ok", spoke |-> {a}, missed |-> FALSE, done |-> FALSE]
      BY <1>2, <2>2, <3>1 DEF Ok, Running
    <3>3. Over(q)
      BY <3>2 DEF Over, Answered
    <3> QED BY <2>3, <3>1, <3>3, OverIsGood
  <2>4. CASE Goes(c, Failed)
    BY <2>4, OverIsGood DEF Over
  <2>5. CASE AgainOrFails(c)
    BY <1>1, <1>2, <2>1, <2>5, Again DEF Pcs
  <2> QED BY <1>7, <2>3, <2>4, <2>5 DEF Whole
<1>8. ASSUME Frame(c) \/ StreamEnds(c)
      PROVE  \E q : Goes(c, q) /\ Good(q)
  <2>1. p.pc = "body" /\ p.mode = "stream" /\ p.spoke \subseteq {p.attempt} /\ p.attempt \in Nat
        /\ p.spoke \subseteq Nat
    BY <1>2, <1>8 DEF Frame, StreamEnds, At, Runs, Running
  <2>2. Good(p)
    BY <1>2 DEF Good, Refers
  <2>3. ASSUME NEW missed \in BOOLEAN, NEW done \in BOOLEAN, missed => done,
               Goes(c, Ok(call[c], missed, done))
        PROVE  \E q : Goes(c, q) /\ Good(q)
    <3>1. PICK q : q = [pc |-> "ok", spoke |-> p.spoke, missed |-> missed, done |-> done]
      OBVIOUS
    <3>2. q = Ok(call[c], missed, done)
      BY <1>2, <3>1 DEF Ok
    <3>3. Over(q)
      BY <2>1, <2>3, <3>1 DEF Over, Answered
    <3> QED BY <2>3, <3>2, <3>3, OverIsGood
  <2>4. CASE StreamEnds(c)
    <3>1. p.usage # "older"
      BY DEF Running
    <3> QED BY <1>2, <2>3, <2>4, <3>1 DEF StreamEnds
  <2>5. CASE Goes(c, [call[c] EXCEPT !.spoke = @ \union {call[c].attempt}])
    <3>1. PICK s : s = p.spoke \union {p.attempt}
      OBVIOUS
    <3>2. s \subseteq {p.attempt} /\ s \subseteq Nat
      BY <2>1, <3>1
    <3>3. PICK q : q = [p EXCEPT !.spoke = s]
      OBVIOUS
    <3>4. Goes(c, q)
      BY <1>2, <2>5, <3>1, <3>3 DEF Running
    <3>5. q \in Running /\ q.pc = "body" /\ q.mode = "stream" /\ q.content = NoPrompt
          /\ q.spoke = s /\ q.attempt = p.attempt
      BY <1>2, <2>1, <3>2, <3>3 DEF Running
    <3>6. Good(q)
      BY <3>2, <3>5 DEF Good, Runs, Refers
    <3> QED BY <3>4, <3>6
  <2>6. CASE Goes(c, [call[c] EXCEPT !.usage = KeepLatest(call[c])])
    <3>1. PICK q : q = [p EXCEPT !.usage = "latest"]
      OBVIOUS
    <3>2. Goes(c, q)
      BY <1>2, <2>6, <3>1 DEF KeepLatest
    <3>3. q \in Running /\ q.pc = "body" /\ q.mode = "stream" /\ q.content = NoPrompt
          /\ q.spoke = p.spoke /\ q.attempt = p.attempt
      BY <1>2, <2>1, <3>1 DEF Running
    <3>4. Good(q)
      BY <2>1, <3>3 DEF Good, Runs, Refers
    <3> QED BY <3>2, <3>4
  <2>7. CASE Goes(c, call[c])
    BY <1>2, <2>2, <2>7
  <2>8. CASE Goes(c, Ok(call[c], call[c].usage # "none", TRUE))
    BY <2>3, <2>8
  <2> QED BY <1>8, <2>4, <2>5, <2>6, <2>7, <2>8 DEF Frame
<1>9. CASE StreamBreaks(c)
  BY <1>9, OverIsGood DEF StreamBreaks, Fails, Over
<1> QED BY <1>4, <1>5, <1>6, <1>7, <1>8, <1>9 DEF Answers

-----------------------------------------------------------------------------
(* The map.  A key that is deleted leaves the others as they are.            *)
LEMMA SlotsOf ==
  ASSUME NEW s \in Seq(Slot) PROVE Slots(s) \subseteq Slot
BY DEF Slots

LEMMA Deleting ==
  ASSUME NEW s \in Seq(Slot), KeysOnce(s), NEW key
  PROVE  /\ Delete(s, key) \in Seq(Slot) /\ KeysOnce(Delete(s, key))
         /\ Slots(Delete(s, key)) = {e \in Slots(s) : e.key # key}
<1>1. PICK n \in Nat : n = Len(s) /\ DOMAIN s = 1..n /\ \A i \in 1..n : s[i] \in Slot
  BY LenProperties, ElementOfSeq
<1>2. CASE ~\E i \in DOMAIN s : s[i].key = key
  <2>1. Delete(s, key) = s
    BY <1>2 DEF Delete
  <2>2. Slots(s) = {e \in Slots(s) : e.key # key}
    BY <1>2 DEF Slots
  <2> QED BY <2>1, <2>2
<1>3. CASE \E i \in DOMAIN s : s[i].key = key
  <2>1. PICK k \in 1..n : s[k].key = key
                          /\ Delete(s, key) = SubSeq(s, 1, k - 1) \o SubSeq(s, k + 1, Len(s))
    BY <1>1, <1>3 DEF Delete
  <2>2. PICK a : a = SubSeq(s, 1, k - 1)
    OBVIOUS
  <2>3. PICK b : b = SubSeq(s, k + 1, n)
    OBVIOUS
  <2>4. a \in Seq(Slot) /\ Len(a) = k - 1 /\ \A i \in 1..(k - 1) : a[i] = s[i]
    <3>1. 1 \in Int /\ k - 1 \in Int /\ \A i \in 1..(k - 1) : s[i] \in Slot
      BY <1>1
    <3>2. IF 1 <= k - 1 THEN k - 1 - 1 + 1 = k - 1 ELSE k - 1 = 0
      OBVIOUS
    <3>3. \A i \in 1..(k - 1) : 1 + i - 1 = i
      OBVIOUS
    <3> QED BY <2>2, <3>1, <3>2, <3>3, SubSeqProperties
  <2>5. b \in Seq(Slot) /\ Len(b) = n - k /\ \A i \in 1..(n - k) : b[i] = s[k + i]
    <3>1. k + 1 \in Int /\ n \in Int /\ \A i \in (k + 1)..n : s[i] \in Slot
      BY <1>1
    <3>2. IF k + 1 <= n THEN n - (k + 1) + 1 = n - k ELSE n - k = 0
      OBVIOUS
    <3>3. \A i \in 1..(n - k) : k + 1 + i - 1 = k + i
      OBVIOUS
    <3> QED BY <2>3, <3>1, <3>2, <3>3, SubSeqProperties
  <2>6. PICK t : t = a \o b
    OBVIOUS
  <2>7. t = Delete(s, key)
    BY <1>1, <2>1, <2>2, <2>3, <2>6
  <2>8. /\ t \in Seq(Slot) /\ Len(t) = n - 1 /\ DOMAIN t = 1..(n - 1)
        /\ \A i \in 1..(n - 1) : t[i] = IF i < k THEN s[i] ELSE s[i + 1]
    <3>1. t \in Seq(Slot) /\ Len(t) = Len(a) + Len(b)
          /\ \A i \in 1..(Len(a) + Len(b)) : t[i] = IF i <= Len(a) THEN a[i] ELSE b[i - Len(a)]
      BY <2>4, <2>5, <2>6, ConcatProperties
    <3>2. Len(t) = n - 1
      BY <2>4, <2>5, <3>1
    <3>3. ASSUME NEW i \in 1..(n - 1) PROVE t[i] = IF i < k THEN s[i] ELSE s[i + 1]
      <4>1. t[i] = IF i <= k - 1 THEN a[i] ELSE b[i - (k - 1)]
        BY <2>4, <2>5, <3>1
      <4>2. CASE i < k
        <5>1. i \in 1..(k - 1)
          BY <4>2
        <5> QED BY <2>4, <4>1, <4>2, <5>1
      <4>3. CASE ~(i < k)
        <5>1. PICK j \in 1..(n - k) : j = i - (k - 1) /\ k + j = i + 1
          BY <4>3
        <5>2. b[j] = s[k + j]
          BY <2>5
        <5> QED BY <4>1, <4>3, <5>1, <5>2
      <4> QED BY <4>2, <4>3
    <3> QED BY <3>1, <3>2, <3>3, LenProperties
  <2>9. ASSUME NEW i \in 1..(n - 1), NEW j \in 1..(n - 1), t[i].key = t[j].key PROVE i = j
    <3>1. PICK x \in 1..n : t[i] = s[x] /\ x = (IF i < k THEN i ELSE i + 1)
      BY <2>8
    <3>2. PICK y \in 1..n : t[j] = s[y] /\ y = (IF j < k THEN j ELSE j + 1)
      BY <2>8
    <3>3. x = y
      BY <1>1, <2>9, <3>1, <3>2 DEF KeysOnce
    <3> QED BY <3>1, <3>2, <3>3
  <2>10. Slots(t) = {e \in Slots(s) : e.key # key}
    <3>1. ASSUME NEW i \in 1..(n - 1) PROVE \E x \in 1..n : t[i] = s[x] /\ x # k
      BY <2>8
    <3>2. ASSUME NEW x \in 1..n, x # k PROVE \E i \in 1..(n - 1) : t[i] = s[x]
      <4>1. CASE x < k
        <5>1. x \in 1..(n - 1) /\ t[x] = s[x]
          BY <2>8, <4>1
        <5> QED BY <5>1
      <4>2. CASE ~(x < k)
        <5>1. PICK i \in 1..(n - 1) : i = x - 1 /\ ~(i < k) /\ i + 1 = x
          BY <3>2, <4>2
        <5>2. t[i] = s[i + 1]
          BY <2>8, <5>1
        <5> QED BY <5>1, <5>2
      <4> QED BY <4>1, <4>2
    <3>3. \A x \in 1..n : s[x].key = key <=> x = k
      BY <1>1, <2>1 DEF KeysOnce
    <3>4. \A e : e \in Slots(t) <=> \E i \in 1..(n - 1) : e = t[i]
      BY <2>8 DEF Slots
    <3>5. \A e : e \in Slots(s) <=> \E x \in 1..n : e = s[x]
      BY <1>1 DEF Slots
    <3>6. ASSUME NEW e \in Slots(t) PROVE e \in Slots(s) /\ e.key # key
      BY <3>1, <3>3, <3>4, <3>5
    <3>7. ASSUME NEW e \in Slots(s), e.key # key PROVE e \in Slots(t)
      <4>1. PICK x \in 1..n : e = s[x]
        BY <3>5
      <4>2. x # k
        BY <3>3, <3>7, <4>1
      <4> QED BY <3>2, <3>4, <4>1, <4>2
    <3> QED BY <3>6, <3>7
  <2> QED BY <2>7, <2>8, <2>9, <2>10 DEF KeysOnce
<1> QED BY <1>2, <1>3

LEMMA Appending ==
  ASSUME NEW s \in Seq(Slot), KeysOnce(s), NEW e \in Slot, \A o \in Slots(s) : o.key # e.key
  PROVE  /\ Append(s, e) \in Seq(Slot) /\ KeysOnce(Append(s, e))
         /\ Slots(Append(s, e)) = Slots(s) \union {e}
<1>1. PICK n \in Nat : n = Len(s) /\ DOMAIN s = 1..n
  BY LenProperties
<1>2. PICK t : t = Append(s, e)
  OBVIOUS
<1>3. t \in Seq(Slot) /\ DOMAIN t = 1..(n + 1) /\ t[n + 1] = e /\ \A i \in 1..n : t[i] = s[i]
  BY <1>1, <1>2, AppendProperties
<1>4. ASSUME NEW i \in 1..(n + 1), NEW j \in 1..(n + 1), t[i].key = t[j].key PROVE i = j
  <2>1. \A x \in 1..n : s[x].key # e.key
    BY <1>1 DEF Slots
  <2>2. \A x \in 1..(n + 1) : x \in 1..n \/ x = n + 1
    BY <1>1
  <2> QED BY <1>1, <1>3, <1>4, <2>1, <2>2 DEF KeysOnce
<1>5. Slots(t) = Slots(s) \union {e}
  <2>1. \A x : x \in 1..(n + 1) <=> x \in 1..n \/ x = n + 1
    BY <1>1
  <2>2. \A o : o \in Slots(t) <=> \E i \in 1..(n + 1) : o = t[i]
    BY <1>3 DEF Slots
  <2>3. \A o : o \in Slots(s) <=> \E i \in 1..n : o = s[i]
    BY <1>1 DEF Slots
  <2> QED BY <1>3, <2>1, <2>2, <2>3
<1> QED BY <1>2, <1>3, <1>4, <1>5 DEF KeysOnce

(* What is found is moved to the end of the map.                             *)
LEMMA Touching ==
  ASSUME StoreTyped, NEW key \in Prompts, NEW h \in Handles, TouchCacheEntry(key, h)
  PROVE  /\ cached' \in Seq(Slot) /\ KeysOnce(cached)'
         /\ Slots(cached)' \subseteq Slots(cached) \union {[key |-> key, handle |-> h]}
         /\ [key |-> key, handle |-> h] \in Slots(cached)'
         /\ \A e \in Slots(cached) : e.key = key \/ MakesRoom(key) \/ e \in Slots(cached)'
<1>1. cached \in Seq(Slot) /\ KeysOnce(cached)
  BY DEF StoreTyped
<1>2. PICK dropped : dropped = IF MakesRoom(key) THEN cached[1].key ELSE key
  OBVIOUS
<1>3. PICK s : s = Delete(cached, dropped)
  OBVIOUS
<1>4. s \in Seq(Slot) /\ KeysOnce(s) /\ Slots(s) = {e \in Slots(cached) : e.key # dropped}
  BY <1>1, <1>3, Deleting
<1>5. PICK e \in Slot : e = [key |-> key, handle |-> h]
  BY DEF Slot
<1>6. cached' = Append(s, e)
  BY <1>2, <1>3, <1>5 DEF TouchCacheEntry
<1>7. \A o \in Slots(s) : o.key # e.key
  <2>1. CASE MakesRoom(key)
    BY <1>4, <1>5, <2>1 DEF MakesRoom, Entry, Slots
  <2>2. CASE ~MakesRoom(key)
    BY <1>2, <1>4, <1>5, <2>2
  <2> QED BY <2>1, <2>2
<1>8. PICK t : t = cached' /\ t \in Seq(Slot) /\ KeysOnce(t) /\ Slots(t) = Slots(s) \union {e}
  BY <1>4, <1>6, <1>7, Appending
<1>9. KeysOnce(cached)' /\ Slots(cached)' = Slots(t) /\ cached' \in Seq(Slot)
  BY <1>8 DEF KeysOnce, Slots
<1> QED BY <1>2, <1>4, <1>5, <1>8, <1>9

\* A slot has its key once, so that it is known by it.
LEMMA SlotByKey ==
  ASSUME StoreTyped, NEW e \in Slots(cached), NEW o \in Slots(cached), e.key = o.key PROVE e = o
BY DEF StoreTyped, Slots, KeysOnce

LEMMA FindsExisting ==
  ASSUME ModelInv, NEW c \in Calls, FindExisting(c) PROVE ModelInv'
<1>1. call[c].pc = "project" /\ UNCHANGED <<provider, handle, timers, crowded>>
  BY DEF FindExisting, At
<1>2. PICK p \in Running : p = call[c] /\ Runs(p) /\ Refers(p)
  BY <1>1, UnderWayRuns DEF Pcs
<1>3. PICK key \in Prompts : key = p.key
  BY <1>1, <1>2 DEF Runs, Running
<1>4. PICK e \in Slots(cached) :
        /\ e.key = key /\ TouchCacheEntry(key, e.handle) /\ ~MakesRoom(key)
        /\ Goes(c, [p EXCEPT !.pc = "wait", !.content = e.handle])
  BY <1>2, <1>3 DEF FindExisting, Entry, Slots, MakesRoom
<1>5. e \in Slot /\ e = [key |-> key, handle |-> e.handle] /\ e.handle \in Handles
  BY <1>4, SlotsOf DEF ModelInv, StoreTyped, Slot
<1>6. /\ cached' \in Seq(Slot) /\ KeysOnce(cached)'
      /\ Slots(cached)' \subseteq Slots(cached) \union {e}
      /\ e \in Slots(cached)'
      /\ \A o \in Slots(cached) : o.key = key \/ o \in Slots(cached)'
  BY <1>4, <1>5, Touching DEF ModelInv
<1>7. Slots(cached)' = Slots(cached)
  <2>1. \A o \in Slots(cached) : o.key = key => o = e
    BY <1>4, SlotByKey DEF ModelInv
  <2>2. PICK S, T : S = Slots(cached) /\ T = Slots(cached)'
    OBVIOUS
  <2>3. T \subseteq S \union {e} /\ e \in T /\ e \in S /\ \A o \in S : o.key = key \/ o \in T
    BY <1>4, <1>6, <2>2
  <2>4. \A o \in S : o.key = key => o = e
    BY <2>1, <2>2
  <2>5. S = T
    BY <2>3, <2>4
  <2> QED BY <2>2, <2>5
<1>8. PICK q : q = [p EXCEPT !.pc = "wait", !.content = e.handle]
  OBVIOUS
<1>9. q \in Running /\ q.pc = "wait" /\ q.content = e.handle /\ q.spoke = {} /\ provider # "openai"
      /\ q.left = p.left
  BY <1>1, <1>2, <1>5, <1>8 DEF Running, Pcs, Runs
<1>10. SlotFits(e)
  BY DEF ModelInv, ContentInv
<1>11. Refers(q)
  <2>1. ASSUME Timely(e.handle) PROVE handle[e.handle].age + q.left <= Life
    <3>1. PICK t \in timers : handle[e.handle].age + t.left + Timeout <= Life
      BY <1>10, <2>1 DEF SlotFits
    <3>2. PICK a \in Nat, l \in Nat : a = handle[e.handle].age /\ l = t.left
      BY <1>5 DEF ModelInv, StoreTyped, Promise, Timer
    <3>3. q.left \in 0..Timeout
      BY <1>9 DEF Running
    <3> QED BY <3>1, <3>2, <3>3, CallConstants
  <2>2. handle[e.handle].is # "unused"
    BY <1>10 DEF SlotFits
  <2> QED BY <1>9, <2>1, <2>2 DEF Refers
<1>12. Runs(q) /\ call' = [call EXCEPT ![c] = q]
  BY <1>4, <1>5, <1>8, <1>9, CallConstants DEF Runs, Goes
<1>13. CallsFit'
  <2>1. ASSUME NEW d \in Calls PROVE (Runs(call[d]) \/ Over(call[d]))'
    BY <1>1, <1>12 DEF ModelInv, CallsFit, Runs, Over
  <2> QED BY <1>1, <1>12, <2>1 DEF ModelInv, CallsFit
<1>14. ContentInv'
  <2>1. ASSUME NEW d \in Calls PROVE Refers(call[d])'
    BY <1>1, <1>11, <1>12 DEF ModelInv, CallsFit, ContentInv, Refers, Timely
  <2>2. ASSUME NEW o \in Slots(cached) PROVE SlotFits(o)'
    BY <1>1 DEF ModelInv, ContentInv, SlotFits, Timely
  <2> QED BY <1>1, <1>7, <2>1, <2>2 DEF ModelInv, ContentInv, PromiseFits
<1>15. StoreTyped' /\ SharedInv'
  BY <1>1, <1>6, <1>7 DEF ModelInv, StoreTyped, SharedInv, UnderWay
<1> QED BY <1>13, <1>14, <1>15 DEF ModelInv

LEMMA Creates ==
  ASSUME ModelInv, NEW c \in Calls, CreateVertexCachedContent(c) PROVE ModelInv'
<1>1. call[c].pc = "project" /\ UNCHANGED <<provider, timers>>
  BY DEF CreateVertexCachedContent, At
<1>2. PICK p \in Running : p = call[c] /\ Runs(p)
  BY <1>1, UnderWayRuns DEF Pcs
<1>3. PICK key \in Prompts : key = p.key
  BY <1>1, <1>2 DEF Runs, Running
<1>4. PICK h \in Handles :
        /\ Entry(key) = {} /\ Free(h) /\ Asked(h, key) /\ TouchCacheEntry(key, h)
        /\ Goes(c, [p EXCEPT !.pc = "wait", !.content = h])
  BY <1>2, <1>3 DEF CreateVertexCachedContent
<1>5. PICK v \in Promise : v = [Unused EXCEPT !.key = key, !.is = "asked"]
                           /\ v.key = key /\ v.is = "asked"
  <2>1. Unused \in Promise
    BY DEF Unused, Promise
  <2>2. PICK v : v = [Unused EXCEPT !.key = key, !.is = "asked"]
    OBVIOUS
  <2>3. v \in Promise /\ v.key = key /\ v.is = "asked"
    BY <2>1, <2>2 DEF Promise
  <2> QED BY <2>2, <2>3
<1>6. PICK e \in Slot : e = [key |-> key, handle |-> h] /\ e.key = key /\ e.handle = h
  <2>1. PICK e : e = [key |-> key, handle |-> h]
    OBVIOUS
  <2> QED BY <2>1 DEF Slot
<1>7. handle' = [handle EXCEPT ![h] = v] /\ crowded' = (crowded \/ MakesRoom(key))
  BY <1>4, <1>5 DEF Asked
<1>8. handle \in [Handles -> Promise] /\ crowded \in BOOLEAN /\ timers \subseteq Timer
  BY DEF ModelInv, StoreTyped
<1>9. handle'[h] = v /\ \A g \in Handles \ {h} : handle'[g] = handle[g]
  BY <1>7, <1>8
<1>10. /\ cached' \in Seq(Slot) /\ KeysOnce(cached)'
       /\ Slots(cached)' \subseteq Slots(cached) \union {e}
       /\ e \in Slots(cached)'
       /\ \A o \in Slots(cached) : o.key = key \/ MakesRoom(key) \/ o \in Slots(cached)'
  BY <1>4, <1>6, Touching DEF ModelInv
<1>11. \A o \in Slots(cached) : o.key # key /\ o.handle \in Handles \ {h}
  <2>1. Slots(cached) \subseteq Slot
    BY SlotsOf DEF ModelInv, StoreTyped
  <2> QED BY <1>4, <2>1 DEF Entry, Free, Slots, Slot
<1>12. PICK q : q = [p EXCEPT !.pc = "wait", !.content = h]
  OBVIOUS
<1>13. q \in Running /\ q.pc = "wait" /\ q.content = h /\ q.spoke = {} /\ provider # "openai"
       /\ q.left = p.left
  BY <1>1, <1>2, <1>12 DEF Running, Pcs, Runs
<1>14. h # NoPrompt
  BY CallConstants
<1>15. Runs(q) /\ call' = [call EXCEPT ![c] = q]
  BY <1>4, <1>12, <1>13, <1>14 DEF Runs, Goes
<1>16. StoreTyped'
  BY <1>1, <1>5, <1>7, <1>8, <1>10 DEF StoreTyped
<1>17. CallsFit'
  <2>1. ASSUME NEW d \in Calls PROVE (Runs(call[d]) \/ Over(call[d]))'
    BY <1>1, <1>15, <2>1 DEF ModelInv, CallsFit, Runs, Over
  <2> QED BY <1>1, <1>15, <2>1 DEF ModelInv, CallsFit
<1>18. ContentInv'
  <2>1. ASSUME NEW d \in Calls PROVE Refers(call[d])'
    <3>1. CASE d = c
      BY <1>5, <1>9, <1>13, <1>15, <3>1 DEF ModelInv, CallsFit, Refers, Timely
    <3>2. CASE d # c
      <4>1. call'[d] = call[d] /\ Refers(call[d])
        BY <1>15, <3>2 DEF ModelInv, CallsFit, ContentInv
      <4>2. SUFFICES ASSUME call[d].pc \in Pcs, call[d].content # NoPrompt PROVE Refers(call[d])'
        BY <4>1 DEF Refers
      <4>3. call[d].content \in Handles
        BY <4>2, UnderWayRuns DEF Running
      <4>4. call[d].content # h
        BY <1>4, <4>2 DEF Free, Ended, Pcs
      <4>5. handle'[call[d].content] = handle[call[d].content]
        BY <1>9, <4>3, <4>4
      <4> QED BY <4>1, <4>5 DEF Refers, Timely
    <3> QED BY <3>1, <3>2
  <2>2. ASSUME NEW o \in Slots(cached)' PROVE SlotFits(o)'
    <3>1. CASE o = e
      BY <1>5, <1>6, <1>9, <3>1 DEF SlotFits, Timely
    <3>2. CASE o \in Slots(cached)
      <4>1. handle'[o.handle] = handle[o.handle] /\ SlotFits(o)
        BY <1>9, <1>11, <3>2 DEF ModelInv, ContentInv
      <4> QED BY <1>1, <4>1 DEF SlotFits, Timely
    <3> QED BY <1>10, <3>1, <3>2
  <2>3. ASSUME NEW g \in Handles PROVE PromiseFits(g)'
    BY <1>5, <1>9 DEF ModelInv, ContentInv, PromiseFits
  <2> QED BY <2>1, <2>2, <2>3 DEF ContentInv
<1>19. SharedInv'
  <2>1. SUFFICES ASSUME ~crowded, ~MakesRoom(key)
        PROVE  /\ \A g \in Handles : UnderWay(g)' => [key |-> handle'[g].key, handle |-> g] \in Slots(cached)'
               /\ \A t \in timers :
                    /\ \E o \in Slots(cached)' : o.key = t.key
                    /\ \A g \in Handles : UnderWay(g)' => handle'[g].key # t.key
                    /\ \A u \in timers : u.key = t.key => u = t
    BY <1>1, <1>7 DEF SharedInv
  <2>2. \A o \in Slots(cached) : o \in Slots(cached)'
    BY <1>10, <1>11, <2>1
  <2>3. ASSUME NEW g \in Handles, UnderWay(g)'
        PROVE  [key |-> handle'[g].key, handle |-> g] \in Slots(cached)'
    BY <1>5, <1>6, <1>9, <1>10, <2>1, <2>2, <2>3 DEF ModelInv, SharedInv, UnderWay
  <2>4. ASSUME NEW t \in timers
        PROVE  /\ \E o \in Slots(cached)' : o.key = t.key
               /\ \A g \in Handles : UnderWay(g)' => handle'[g].key # t.key
               /\ \A u \in timers : u.key = t.key => u = t
    <3>1. PICK o \in Slots(cached) : o.key = t.key
      BY <2>1 DEF ModelInv, SharedInv
    <3>2. t.key # key
      BY <1>11, <3>1
    <3>3. \A g \in Handles : UnderWay(g)' => handle'[g].key # t.key
      BY <1>5, <1>9, <2>1, <3>2 DEF ModelInv, SharedInv, UnderWay
    <3> QED BY <2>1, <2>2, <3>1, <3>3 DEF ModelInv, SharedInv
  <2> QED BY <2>3, <2>4
<1> QED BY <1>16, <1>17, <1>18, <1>19 DEF ModelInv

-----------------------------------------------------------------------------
(* The answer to a creation: the promise of one content moves on.            *)
LEMMA PromiseMovesOn ==
  ASSUME ModelInv, NEW h \in Handles, UnderWay(h), NEW v \in Promise,
         handle' = [handle EXCEPT ![h] = v], UNCHANGED <<provider, call, crowded>>,
         v.is \in {"made", "named", "null"}, v.is # "null" => v.key = handle[h].key,
         timers \subseteq timers', timers' \subseteq Timer,
         cached' \in Seq(Slot), KeysOnce(cached)', Slots(cached)' \subseteq Slots(cached),
         v.is = "named" /\ ~v.late =>
           v.age + EvictAfter + Timeout <= Life /\ [key |-> v.key, left |-> EvictAfter] \in timers'
  PROVE  StoreTyped' /\ CallsFit' /\ ContentInv'
<1>1. StoreTyped'
  BY DEF ModelInv, StoreTyped
<1>2. CallsFit'
  BY DEF ModelInv, CallsFit, Runs, Over
<1>3. handle'[h] = v /\ \A g \in Handles \ {h} : handle'[g] = handle[g]
  BY DEF ModelInv, StoreTyped
<1>4. PICK a \in Nat : a = v.age
  BY DEF Promise
<1>5. ASSUME NEW d \in Calls PROVE Refers(call[d])'
  <2>1. SUFFICES ASSUME call[d].pc \in Pcs, call[d].content # NoPrompt PROVE Refers(call[d])'
    BY DEF Refers
  <2>2. PICK p \in Running : p = call[d] /\ Refers(p)
    BY <2>1, UnderWayRuns
  <2>3. p.content \in Handles /\ p.left \in 0..Timeout
    BY <2>1, <2>2 DEF Running
  <2>4. CASE p.content = h
    <3>1. p.pc = "wait"
      BY <2>1, <2>2, <2>4 DEF Refers, UnderWay
    <3>2. v.is = "named" /\ ~v.late => v.age + p.left <= Life
      BY <1>4, <2>3, CallConstants
    <3> QED BY <1>3, <2>2, <2>4, <3>1, <3>2 DEF Refers, Timely
  <2>5. CASE p.content # h
    BY <1>3, <2>2, <2>3, <2>5 DEF Refers, Timely
  <2> QED BY <2>4, <2>5
<1>6. ASSUME NEW o \in Slots(cached)' PROVE SlotFits(o)'
  <2>1. o \in Slots(cached) /\ SlotFits(o) /\ o.handle \in Handles
    BY SlotsOf DEF ModelInv, ContentInv, StoreTyped, Slot
  <2>2. CASE o.handle = h
    <3>1. handle[h].key = o.key
      BY <2>1, <2>2 DEF SlotFits, UnderWay
    <3>2. ASSUME v.is = "named", ~v.late
          PROVE  \E t \in timers' : t.key = o.key /\ v.age + t.left + Timeout <= Life
      <4>1. PICK t \in timers' : t = [key |-> v.key, left |-> EvictAfter]
        BY <3>2
      <4> QED BY <3>1, <3>2, <4>1
    <3> QED BY <1>3, <2>2, <3>1, <3>2 DEF SlotFits, Timely
  <2>3. CASE o.handle # h
    BY <1>3, <2>1, <2>3 DEF SlotFits, Timely
  <2> QED BY <2>2, <2>3
<1>7. ASSUME NEW g \in Handles PROVE PromiseFits(g)'
  BY <1>3 DEF ModelInv, ContentInv, PromiseFits, UnderWay
<1> QED BY <1>1, <1>2, <1>5, <1>6, <1>7 DEF ContentInv

\* Two creations of one key are one.
LEMMA SharedOnce ==
  ASSUME ModelInv, ~crowded, NEW g \in Handles, NEW h \in Handles, UnderWay(g), UnderWay(h),
         handle[g].key = handle[h].key
  PROVE  g = h
<1>1. PICK e, o : e = [key |-> handle[g].key, handle |-> g] /\ o = [key |-> handle[h].key, handle |-> h]
  OBVIOUS
<1>2. e \in Slots(cached) /\ o \in Slots(cached)
  BY <1>1 DEF ModelInv, SharedInv
<1>3. e = o
  BY <1>1, <1>2, SlotByKey DEF ModelInv
<1> QED BY <1>1, <1>3

OnTime(h) == handle[h].age + EvictAfter + Timeout <= Life

LEMMA Named == ASSUME ModelInv, NEW h \in Handles, ContentNamed(h) PROVE ModelInv'
<1>1. PICK v : v = [handle[h] EXCEPT !.is = "named", !.late = handle[h].age > Life - EvictAfter - Timeout]
  OBVIOUS
<1>2. /\ handle[h] \in Promise /\ handle[h].is = "made" /\ handle[h].age \in Nat
      /\ handle \in [Handles -> Promise] /\ UnderWay(h)
  BY DEF ModelInv, StoreTyped, Promise, ContentNamed, UnderWay
<1>2a. PICK p \in Promise : p = handle[h]
  BY <1>2
<1>3. v \in Promise /\ v.is = "named" /\ v.key = p.key /\ v.age = p.age /\ (v.late \/ OnTime(h))
  <2>1. handle[h].age \in Nat /\ Life \in Nat /\ EvictAfter \in Nat /\ Timeout \in Nat
    BY <1>2, CallConstants
  <2>2. CASE handle[h].age > Life - EvictAfter - Timeout
    <3>1. (handle[h].age > Life - EvictAfter - Timeout) = TRUE
      BY <2>2, Zenon
    <3>2. v = [p EXCEPT !.is = "named", !.late = TRUE]
      BY <1>1, <1>2a, <3>1, Zenon
    <3> QED BY <1>2a, <3>2 DEF Promise
  <2>3. CASE handle[h].age <= Life - EvictAfter - Timeout
    <3>1. OnTime(h)
      BY <2>1, <2>3 DEF OnTime
    <3>2. (handle[h].age > Life - EvictAfter - Timeout) = FALSE
      BY <2>1, <2>3, SMT
    <3>3. v = [p EXCEPT !.is = "named", !.late = FALSE]
      BY <1>1, <1>2a, <3>2, Zenon
    <3> QED BY <1>2a, <3>1, <3>3 DEF Promise
  <2> QED BY <2>1, <2>2, <2>3
<1>4. v \in Promise /\ v.is = "named" /\ v.key = handle[h].key /\ v.age = handle[h].age
  BY <1>2a, <1>3
<1>5. handle' = [handle EXCEPT ![h] = v] /\ UNCHANGED <<provider, cached, call, crowded>>
  BY <1>1, <1>2 DEF ContentNamed
<1>6. PICK t : t = [key |-> v.key, left |-> EvictAfter] /\ timers' = timers \union {t}
  BY <1>4 DEF ContentNamed, EvictBeforeTtl
<1>7. t \in Timer /\ t.key = handle[h].key
  <2>1. v.key \in Prompts /\ EvictAfter \in Nat
    BY <1>2, <1>4, CallConstants DEF ModelInv, ContentInv, PromiseFits
  <2> QED BY <1>4, <1>6, <2>1 DEF Timer
<1>8. ASSUME ~v.late PROVE v.age + EvictAfter + Timeout <= Life
  BY <1>3, <1>4, <1>8 DEF OnTime
<1>9. Slots(cached)' = Slots(cached) /\ cached' \in Seq(Slot) /\ KeysOnce(cached)'
  BY <1>5 DEF ModelInv, StoreTyped, Slots, KeysOnce
<1>10. timers \subseteq timers' /\ timers' \subseteq Timer /\ t \in timers'
  BY <1>6, <1>7 DEF ModelInv, StoreTyped
<1>11. StoreTyped' /\ CallsFit' /\ ContentInv'
  BY <1>2, <1>4, <1>5, <1>6, <1>8, <1>9, <1>10, PromiseMovesOn
<1>12. SharedInv'
  <2>1. SUFFICES ASSUME ~crowded
        PROVE  /\ \A g \in Handles : UnderWay(g)' => [key |-> handle'[g].key, handle |-> g] \in Slots(cached)
               /\ \A u \in timers \union {t} :
                    /\ \E o \in Slots(cached) : o.key = u.key
                    /\ \A g \in Handles : UnderWay(g)' => handle'[g].key # u.key
                    /\ \A w \in timers \union {t} : w.key = u.key => w = u
    BY <1>5, <1>6, <1>9 DEF SharedInv
  <2>2. \A g \in Handles : UnderWay(g)' => g # h /\ UnderWay(g) /\ handle'[g] = handle[g]
    BY <1>2, <1>4, <1>5 DEF UnderWay
  <2>3. ASSUME NEW g \in Handles, UnderWay(g)'
        PROVE  [key |-> handle'[g].key, handle |-> g] \in Slots(cached)
    BY <2>1, <2>2, <2>3 DEF ModelInv, SharedInv
  <2>4. PICK o \in Slots(cached) : o.key = t.key
    <3>1. [key |-> handle[h].key, handle |-> h] \in Slots(cached)
      BY <1>2, <2>1 DEF ModelInv, SharedInv
    <3> QED BY <1>7, <3>1
  <2>5. \A g \in Handles : UnderWay(g)' => handle'[g].key # t.key
    BY <1>2, <1>7, <2>1, <2>2, SharedOnce
  <2>6. \A u \in timers : u.key # t.key
    BY <1>2, <1>7, <2>1 DEF ModelInv, SharedInv
  <2>7. ASSUME NEW u \in timers \union {t}
        PROVE  /\ \E x \in Slots(cached) : x.key = u.key
               /\ \A g \in Handles : UnderWay(g)' => handle'[g].key # u.key
               /\ \A w \in timers \union {t} : w.key = u.key => w = u
    <3>1. CASE u = t
      BY <2>4, <2>5, <2>6, <3>1
    <3>2. CASE u \in timers
      <4>1. \E x \in Slots(cached) : x.key = u.key
        BY <2>1, <3>2 DEF ModelInv, SharedInv
      <4>2. \A g \in Handles : UnderWay(g)' => handle'[g].key # u.key
        BY <2>1, <2>2, <3>2 DEF ModelInv, SharedInv
      <4>3. \A w \in timers : w.key = u.key => w = u
        BY <2>1, <3>2 DEF ModelInv, SharedInv
      <4> QED BY <2>6, <3>2, <4>1, <4>2, <4>3
    <3> QED BY <3>1, <3>2
  <2> QED BY <2>3, <2>7
<1> QED BY <1>11, <1>12 DEF ModelInv

LEMMA MadeOrRefused ==
  ASSUME ModelInv, NEW h \in Handles, ContentMade(h) \/ ContentRefused(h) PROVE ModelInv'
<1>1. UNCHANGED <<provider, cached, timers, call, crowded>> /\ handle[h].is = "asked" /\ UnderWay(h)
      /\ handle \in [Handles -> Promise] /\ handle[h] \in Promise
  BY DEF ContentMade, ContentRefused, UnderWay, ModelInv, StoreTyped
<1>2. PICK v \in Promise : /\ handle' = [handle EXCEPT ![h] = v]
                           /\ \/ v.is = "made" /\ v.key = handle[h].key
                              \/ v.is = "null"
  <2>1. CASE ContentMade(h)
    <3>1. PICK v : v = [handle[h] EXCEPT !.is = "made"]
      OBVIOUS
    <3>2. v \in Promise /\ v.is = "made" /\ v.key = handle[h].key
      BY <1>1, <3>1 DEF Promise
    <3>3. handle' = [handle EXCEPT ![h] = v]
      BY <1>1, <2>1, <3>1 DEF ContentMade
    <3> QED BY <3>2, <3>3
  <2>2. CASE ContentRefused(h)
    <3>1. Unused \in Promise
      BY DEF Unused, Promise
    <3>2. Null \in Promise /\ Null.is = "null"
      BY <3>1 DEF Null, Promise
    <3> QED BY <2>2, <3>2 DEF ContentRefused
  <2> QED BY <2>1, <2>2
<1>3. Slots(cached)' = Slots(cached) /\ cached' \in Seq(Slot) /\ KeysOnce(cached)'
      /\ timers' \subseteq Timer
  BY <1>1 DEF ModelInv, StoreTyped, Slots, KeysOnce
<1>4. StoreTyped' /\ CallsFit' /\ ContentInv'
  BY <1>1, <1>2, <1>3, PromiseMovesOn
<1>5. \A g \in Handles : UnderWay(g)' => UnderWay(g) /\ handle'[g].key = handle[g].key
  BY <1>1, <1>2 DEF UnderWay
<1>6. SharedInv'
  BY <1>1, <1>3, <1>5 DEF ModelInv, SharedInv
<1> QED BY <1>4, <1>6 DEF ModelInv

LEMMA Broken == ASSUME ModelInv, NEW h \in Handles, ContentBroken(h) PROVE ModelInv'
<1>1. /\ UNCHANGED <<provider, timers, call, crowded>> /\ UnderWay(h)
      /\ handle' = [handle EXCEPT ![h] = Null] /\ cached' = Delete(cached, handle[h].key)
      /\ handle \in [Handles -> Promise]
  BY DEF ContentBroken, ModelInv, StoreTyped
<1>2. Null \in Promise /\ Null.is = "null"
  <2>1. Unused \in Promise
    BY DEF Unused, Promise
  <2> QED BY <2>1 DEF Null, Promise
<1>3. PICK t : t = cached' /\ t \in Seq(Slot) /\ KeysOnce(t)
               /\ Slots(t) = {e \in Slots(cached) : e.key # handle[h].key}
  BY <1>1, Deleting DEF ModelInv, StoreTyped
<1>4. cached' \in Seq(Slot) /\ KeysOnce(cached)' /\ Slots(cached)' = Slots(t)
      /\ timers' \subseteq Timer
  BY <1>1, <1>3 DEF ModelInv, StoreTyped, Slots, KeysOnce
<1>5. StoreTyped' /\ CallsFit' /\ ContentInv'
  BY <1>1, <1>2, <1>3, <1>4, PromiseMovesOn
<1>6. SharedInv'
  <2>1. SUFFICES ASSUME ~crowded
        PROVE  /\ \A g \in Handles : UnderWay(g)' => [key |-> handle'[g].key, handle |-> g] \in Slots(t)
               /\ \A u \in timers :
                    /\ \E o \in Slots(t) : o.key = u.key
                    /\ \A g \in Handles : UnderWay(g)' => handle'[g].key # u.key
                    /\ \A w \in timers : w.key = u.key => w = u
    BY <1>1, <1>4 DEF SharedInv
  <2>2. \A g \in Handles : UnderWay(g)' => g # h /\ UnderWay(g) /\ handle'[g] = handle[g]
    BY <1>1, <1>2 DEF UnderWay
  <2>3. ASSUME NEW g \in Handles, UnderWay(g)'
        PROVE  [key |-> handle'[g].key, handle |-> g] \in Slots(t)
    <3>1. handle[g].key # handle[h].key
      BY <1>1, <2>1, <2>2, <2>3, SharedOnce
    <3>2. PICK e \in Slots(cached) : e = [key |-> handle[g].key, handle |-> g]
      BY <2>1, <2>2, <2>3 DEF ModelInv, SharedInv
    <3>3. e \in Slots(t)
      BY <1>3, <3>1, <3>2
    <3> QED BY <2>2, <2>3, <3>2, <3>3
  <2>4. ASSUME NEW u \in timers
        PROVE  /\ \E o \in Slots(t) : o.key = u.key
               /\ \A g \in Handles : UnderWay(g)' => handle'[g].key # u.key
               /\ \A w \in timers : w.key = u.key => w = u
    <3>1. handle[h].key # u.key
      BY <1>1, <2>1 DEF ModelInv, SharedInv
    <3>2. PICK o \in Slots(cached) : o.key = u.key
      BY <2>1 DEF ModelInv, SharedInv
    <3>3. o \in Slots(t)
      BY <1>3, <3>1, <3>2
    <3>4. \A g \in Handles : UnderWay(g)' => handle'[g].key # u.key
      BY <2>1, <2>2 DEF ModelInv, SharedInv
    <3>5. \A w \in timers : w.key = u.key => w = u
      BY <2>1 DEF ModelInv, SharedInv
    <3> QED BY <3>2, <3>3, <3>4, <3>5
  <2> QED BY <2>3, <2>4
<1> QED BY <1>5, <1>6 DEF ModelInv

LEMMA Fires == ASSUME ModelInv, TimerFires PROVE ModelInv'
<1>1. PICK t0 \in timers : /\ timers' = timers \ {t0} /\ cached' = Delete(cached, t0.key)
                           /\ UNCHANGED <<provider, handle, call, crowded>>
  BY DEF TimerFires
<1>2. PICK t : t = cached' /\ t \in Seq(Slot) /\ KeysOnce(t)
               /\ Slots(t) = {e \in Slots(cached) : e.key # t0.key}
  BY <1>1, Deleting DEF ModelInv, StoreTyped
<1>3. cached' \in Seq(Slot) /\ KeysOnce(cached)' /\ Slots(cached)' = Slots(t)
  BY <1>2 DEF Slots, KeysOnce
<1>4. StoreTyped'
  BY <1>1, <1>3 DEF ModelInv, StoreTyped
<1>5. CallsFit'
  BY <1>1 DEF ModelInv, CallsFit, Runs, Over
<1>6. ContentInv'
  <2>1. ASSUME NEW o \in Slots(t) PROVE SlotFits(o)'
    <3>1. o \in Slots(cached) /\ o.key # t0.key /\ SlotFits(o)
      BY <1>2 DEF ModelInv, ContentInv
    <3>2. ASSUME Timely(o.handle)
          PROVE  \E u \in timers' : u.key = o.key /\ handle[o.handle].age + u.left + Timeout <= Life
      <4>1. PICK u \in timers : u.key = o.key /\ handle[o.handle].age + u.left + Timeout <= Life
        BY <3>1, <3>2 DEF SlotFits
      <4>2. u \in timers'
        BY <1>1, <3>1, <4>1
      <4> QED BY <4>1, <4>2
    <3> QED BY <1>1, <3>1, <3>2 DEF SlotFits, Timely
  <2>2. \A c \in Calls : Refers(call[c])'
    BY <1>1 DEF ModelInv, ContentInv, Refers, Timely
  <2>3. \A h \in Handles : PromiseFits(h)'
    BY <1>1 DEF ModelInv, ContentInv, PromiseFits
  <2> QED BY <1>3, <2>1, <2>2, <2>3 DEF ContentInv
<1>7. SharedInv'
  <2>1. SUFFICES ASSUME ~crowded
        PROVE  /\ \A g \in Handles : UnderWay(g) => [key |-> handle[g].key, handle |-> g] \in Slots(t)
               /\ \A u \in timers \ {t0} :
                    /\ \E o \in Slots(t) : o.key = u.key
                    /\ \A g \in Handles : UnderWay(g) => handle[g].key # u.key
                    /\ \A w \in timers \ {t0} : w.key = u.key => w = u
    BY <1>1, <1>3 DEF SharedInv, UnderWay
  <2>2. ASSUME NEW g \in Handles, UnderWay(g)
        PROVE  [key |-> handle[g].key, handle |-> g] \in Slots(t)
    <3>1. handle[g].key # t0.key
      BY <2>1, <2>2 DEF ModelInv, SharedInv
    <3>2. PICK e \in Slots(cached) : e = [key |-> handle[g].key, handle |-> g]
      BY <2>1, <2>2 DEF ModelInv, SharedInv
    <3>3. e \in Slots(t)
      BY <1>2, <3>1, <3>2
    <3> QED BY <3>2, <3>3
  <2>3. ASSUME NEW u \in timers \ {t0}
        PROVE  /\ \E o \in Slots(t) : o.key = u.key
               /\ \A g \in Handles : UnderWay(g) => handle[g].key # u.key
               /\ \A w \in timers \ {t0} : w.key = u.key => w = u
    <3>1. u.key # t0.key
      BY <2>1, <2>3 DEF ModelInv, SharedInv
    <3>2. PICK o \in Slots(cached) : o.key = u.key
      BY <2>1 DEF ModelInv, SharedInv
    <3>3. o \in Slots(t)
      BY <1>2, <3>1, <3>2
    <3> QED BY <2>1, <3>2, <3>3 DEF ModelInv, SharedInv
  <2> QED BY <2>2, <2>3
<1> QED BY <1>4, <1>5, <1>6, <1>7 DEF ModelInv


-----------------------------------------------------------------------------
(* The clock.                                                                *)
LEMMA Ticks == ASSUME ModelInv, Tick PROVE ModelInv'
<1>1. /\ \A t \in timers : t.left # 0
      /\ UNCHANGED <<provider, cached, crowded>> /\ Slots(cached)' = Slots(cached)
  BY DEF Tick, Due, Slots
<1>2. \A t \in timers : /\ t \in Timer /\ t.left \in Nat \ {0} /\ t.key \in Prompts
                        /\ [t EXCEPT !.left = t.left - 1] \in timers'
                        /\ [t EXCEPT !.left = t.left - 1].left = t.left - 1
                        /\ [t EXCEPT !.left = t.left - 1].key = t.key
  BY <1>1 DEF ModelInv, StoreTyped, Timer, Tick
<1>3. \A u \in timers' : \E t \in timers : u = [t EXCEPT !.left = t.left - 1]
  BY DEF Tick
<1>4. ASSUME NEW h \in Handles
      PROVE  /\ handle'[h] \in Promise
             /\ UnderWay(h)' => UnderWay(h) /\ handle'[h].key = handle[h].key
             /\ Free(h) => handle'[h] = Unused
             /\ ~Free(h) => /\ handle'[h].is = handle[h].is /\ handle'[h].late = handle[h].late
                            /\ handle'[h].key = handle[h].key /\ handle'[h].age <= handle[h].age + 1
  <2>1. PICK p \in Promise : p = handle[h] /\ p.age \in Nat
    BY DEF ModelInv, StoreTyped, Promise
  <2>2. CASE Free(h)
    <3>1. handle'[h] = Unused
      BY <2>2 DEF Tick
    <3> QED BY <2>2, <3>1 DEF Unused, Promise, UnderWay
  <2>3. CASE ~Free(h) /\ p.is \in {"made", "named"} /\ p.age < Life
    <3>1. PICK n \in Nat : n = p.age + 1
      BY <2>1
    <3>2. handle'[h] = [p EXCEPT !.age = n]
      BY <2>1, <2>3, <3>1 DEF Tick
    <3> QED BY <2>1, <2>3, <3>1, <3>2 DEF Promise, UnderWay
  <2>4. CASE ~Free(h) /\ ~(p.is \in {"made", "named"} /\ p.age < Life)
    <3>1. handle'[h] = p
      BY <2>1, <2>4 DEF Tick
    <3>2. p.age <= p.age + 1
      BY <2>1
    <3> QED BY <2>1, <2>4, <3>1, <3>2 DEF UnderWay
  <2> QED BY <2>2, <2>3, <2>4
<1>5. ASSUME NEW c \in Calls
      PROVE  /\ Runs(call[c])' \/ Over(call[c])'
             /\ call'[c].pc \in Pcs =>
                  /\ call[c].pc \in Pcs /\ call'[c].pc = call[c].pc /\ call[c] \in Running
                  /\ call'[c].content = call[c].content
                  /\ call'[c].left > 0 => call[c].left = call'[c].left + 1
                  /\ call'[c].left \in Nat
  <2>1. CASE Ended(c)
    <3>1. call'[c] = call[c] /\ call[c].pc \notin Pcs
      BY <2>1 DEF Tick, Ended, Pcs
    <3>2. Over(call[c])
      BY <3>1 DEF ModelInv, CallsFit, Runs, Running
    <3> QED BY <3>1, <3>2 DEF Over
  <2>2. CASE ~Ended(c)
    <3>1. call[c].pc \in Pcs
      <4>1. ~Over(call[c])
        BY <2>2 DEF Ended, Over, NotCalled, Failed, Answered
      <4> QED BY <4>1 DEF ModelInv, CallsFit, Runs, Running
    <3>2. PICK p \in Running : p = call[c] /\ Runs(p)
      BY <3>1, UnderWayRuns
    <3>3. PICK n : n = IF p.left > 0 THEN p.left - 1 ELSE 0
      OBVIOUS
    <3>4. p.left \in 0..Timeout /\ Timeout \in Nat
      BY <3>2, CallConstants DEF Running
    <3>5. n \in 0..Timeout /\ n \in Nat /\ (n > 0 => p.left = n + 1)
      BY <3>3, <3>4
    <3>6. call'[c] = [p EXCEPT !.left = n]
      BY <2>2, <3>2, <3>3 DEF Tick
    <3>7. PICK q : q = [p EXCEPT !.left = n]
      OBVIOUS
    <3>8. /\ q \in Running /\ q.pc = p.pc /\ q.content = p.content /\ q.left = n /\ q.spoke = p.spoke
          /\ q.mode = p.mode /\ q.attempt = p.attempt /\ q.key = p.key
      BY <3>2, <3>5, <3>7 DEF Running
    <3>9. Runs(q)
      BY <3>2, <3>8 DEF Runs
    <3>10. Runs(call[c])'
      <4>1. q = call'[c] /\ provider' = provider
        BY <1>1, <3>6, <3>7
      <4> QED BY <3>9, <4>1 DEF Runs
    <3> QED BY <3>1, <3>2, <3>5, <3>6, <3>7, <3>8, <3>10
  <2> QED BY <2>1, <2>2
<1>6. StoreTyped'
  <2>1. handle' \in [Handles -> Promise]
    BY <1>4 DEF Tick
  <2>2. timers' \subseteq Timer
    <3>1. ASSUME NEW u \in timers' PROVE u \in Timer
      <4>1. PICK t \in timers : u = [t EXCEPT !.left = t.left - 1]
        BY <1>3
      <4>2. PICK n \in Nat : n = t.left - 1
        <5>1. t.left \in Nat \ {0}
          BY <1>2
        <5> QED BY <5>1
      <4>3. t \in Timer
        BY <1>2
      <4> QED BY <4>1, <4>2, <4>3 DEF Timer
    <3> QED BY <3>1
  <2> QED BY <1>1, <2>1, <2>2 DEF ModelInv, StoreTyped, KeysOnce
<1>7. CallsFit'
  <2>1. DOMAIN call' = Calls
    BY DEF Tick
  <2> QED BY <1>1, <1>5, <2>1 DEF ModelInv, CallsFit
<1>8. ContentInv'
  <2>1. ASSUME NEW h \in Handles PROVE PromiseFits(h)'
    BY <1>4 DEF ModelInv, ContentInv, PromiseFits, Unused
  <2>2. ASSUME NEW e \in Slots(cached) PROVE SlotFits(e)'
    <3>1. SlotFits(e) /\ e.handle \in Handles /\ e \in Slot
      BY <2>2, SlotsOf DEF ModelInv, ContentInv, StoreTyped, Slot
    <3>2. ~Free(e.handle)
      BY <2>2 DEF Free, Slots
    <3>3. /\ handle'[e.handle].is = handle[e.handle].is /\ handle'[e.handle].late = handle[e.handle].late
          /\ handle'[e.handle].key = handle[e.handle].key
      BY <1>4, <3>1, <3>2
    <3>4. PICK a \in Nat, b \in Nat : a = handle[e.handle].age /\ b = handle'[e.handle].age /\ b <= a + 1
      BY <1>4, <3>1, <3>2 DEF ModelInv, StoreTyped, Promise
    <3>5. ASSUME Timely(e.handle)
          PROVE  \E u \in timers' : u.key = e.key /\ b + u.left + Timeout <= Life
      <4>1. PICK t \in timers : t.key = e.key /\ a + t.left + Timeout <= Life
        BY <3>1, <3>4, <3>5 DEF SlotFits
      <4>2. PICK u \in timers' : u.key = t.key /\ u.left = t.left - 1
        BY <1>2
      <4>3. b + u.left + Timeout <= Life
        <5>1. t.left \in Nat \ {0} /\ Timeout \in Nat /\ Life \in Nat
          BY <1>2, CallConstants
        <5> QED BY <3>4, <4>1, <4>2, <5>1
      <4> QED BY <4>1, <4>2, <4>3
    <3>6. Timely(e.handle)' = Timely(e.handle)
      BY <3>3 DEF Timely
    <3> QED BY <3>1, <3>3, <3>4, <3>5, <3>6 DEF SlotFits
  <2>3. ASSUME NEW c \in Calls PROVE Refers(call[c])'
    <3>1. SUFFICES ASSUME call'[c].pc \in Pcs, call'[c].content # NoPrompt PROVE Refers(call[c])'
      BY DEF Refers
    <3>2. PICK h \in Handles : h = call[c].content /\ h = call'[c].content /\ h # NoPrompt
      BY <1>5, <3>1 DEF Running
    <3>3. /\ call[c].pc \in Pcs /\ call'[c].pc = call[c].pc /\ Refers(call[c])
          /\ call[c].left \in 0..Timeout /\ call'[c].left \in Nat
          /\ call'[c].left > 0 => call[c].left = call'[c].left + 1
      BY <1>5, <3>1 DEF ModelInv, ContentInv, Running
    <3>4. ~Free(h)
      BY <3>2, <3>3 DEF Free, Ended, Pcs
    <3>5. /\ handle'[h].is = handle[h].is /\ handle'[h].late = handle[h].late
      BY <1>4, <3>4
    <3>6. PICK a \in Nat, b \in Nat : a = handle[h].age /\ b = handle'[h].age /\ b <= a + 1
      BY <1>4, <3>4 DEF ModelInv, StoreTyped, Promise
    <3>7. ASSUME Timely(h), call'[c].left > 0
          PROVE  b + call'[c].left <= Life
      <4>1. PICK l \in Nat : l = call'[c].left /\ call[c].left = l + 1
        BY <3>3, <3>7
      <4>2. a + (l + 1) <= Life
        BY <3>2, <3>3, <3>6, <3>7, <4>1 DEF Refers
      <4>3. Life \in Nat
        BY CallConstants
      <4>4. b + l <= Life
        BY <3>6, <4>1, <4>2, <4>3
      <4> QED BY <4>1, <4>4
    <3>8. Timely(h)' = Timely(h)
      BY <3>5 DEF Timely
    <3>9. handle[h].is # "unused" /\ (call[c].pc # "wait" => handle[h].is = "named")
      BY <3>2, <3>3 DEF Refers
    <3> QED BY <3>2, <3>3, <3>5, <3>6, <3>7, <3>8, <3>9 DEF Refers, Timely
  <2> QED BY <1>1, <2>1, <2>2, <2>3 DEF ContentInv
<1>9. SharedInv'
  <2>1. SUFFICES ASSUME ~crowded
        PROVE  /\ \A h \in Handles : UnderWay(h)' => [key |-> handle'[h].key, handle |-> h] \in Slots(cached)
               /\ \A u \in timers' :
                    /\ \E e \in Slots(cached) : e.key = u.key
                    /\ \A h \in Handles : UnderWay(h)' => handle'[h].key # u.key
                    /\ \A w \in timers' : w.key = u.key => w = u
    BY <1>1 DEF SharedInv
  <2>2. ASSUME NEW h \in Handles, UnderWay(h)'
        PROVE  [key |-> handle'[h].key, handle |-> h] \in Slots(cached)
    BY <1>4, <2>1, <2>2 DEF ModelInv, SharedInv
  <2>3. ASSUME NEW u \in timers'
        PROVE  /\ \E e \in Slots(cached) : e.key = u.key
               /\ \A h \in Handles : UnderWay(h)' => handle'[h].key # u.key
               /\ \A w \in timers' : w.key = u.key => w = u
    <3>1. PICK t \in timers : u = [t EXCEPT !.left = t.left - 1] /\ u.key = t.key
      BY <1>2, <1>3
    <3>2. \E e \in Slots(cached) : e.key = u.key
      BY <2>1, <3>1 DEF ModelInv, SharedInv
    <3>3. \A h \in Handles : UnderWay(h)' => handle'[h].key # u.key
      BY <1>4, <2>1, <3>1 DEF ModelInv, SharedInv
    <3>4. ASSUME NEW w \in timers', w.key = u.key PROVE w = u
      <4>1. PICK s \in timers : w = [s EXCEPT !.left = s.left - 1] /\ w.key = s.key
        BY <1>2, <1>3
      <4>2. s = t
        BY <2>1, <3>1, <3>4, <4>1 DEF ModelInv, SharedInv
      <4> QED BY <3>1, <4>1, <4>2
    <3> QED BY <3>2, <3>3, <3>4
  <2> QED BY <2>2, <2>3
<1> QED BY <1>6, <1>7, <1>8, <1>9 DEF ModelInv


-----------------------------------------------------------------------------
LEMMA ModelStarts == ModelInit => ModelInv
<1> SUFFICES ASSUME ModelInit PROVE ModelInv
  OBVIOUS
<1>1. /\ provider \in Providers /\ cached = <<>> /\ handle = [h \in Handles |-> Unused]
      /\ timers = {} /\ call = [c \in Calls |-> NotCalled] /\ crowded = FALSE
  BY DEF ModelInit
<1>2. Unused \in Promise /\ Unused.is = "unused"
  BY DEF Unused, Promise
<1>3. cached \in Seq(Slot) /\ Slots(cached) = {} /\ KeysOnce(cached)
  BY <1>1 DEF Slots, KeysOnce
<1>4. StoreTyped
  BY <1>1, <1>2, <1>3 DEF StoreTyped
<1>5. \A c \in Calls : Over(call[c]) /\ Refers(call[c])
  BY <1>1, OverIsGood DEF Over, Good
<1>6. CallsFit
  BY <1>1, <1>5 DEF CallsFit
<1>7. ContentInv
  BY <1>1, <1>2, <1>3, <1>5 DEF ContentInv, PromiseFits
<1>8. SharedInv
  BY <1>1, <1>2, <1>3 DEF SharedInv, UnderWay
<1> QED BY <1>4, <1>6, <1>7, <1>8 DEF ModelInv

LEMMA ModelStep == ModelInv /\ [ModelNext]_modelVars => ModelInv'
<1> SUFFICES ASSUME ModelInv, [ModelNext]_modelVars PROVE ModelInv'
  OBVIOUS
<1>1. ASSUME NEW c \in Calls, Begin(c) \/ Local(c) \/ Answers(c) PROVE ModelInv'
  <2>1. CASE Begin(c)
    BY <2>1, Begins
  <2>2. CASE Local(c)
    BY <2>2, LocalSteps, FindsExisting, Creates DEF Local
  <2>3. CASE Answers(c)
    BY <2>3, AnswerSteps
  <2> QED BY <1>1, <2>1, <2>2, <2>3
<1>2. ASSUME NEW h \in Handles, Creation(h) PROVE ModelInv'
  BY <1>2, Named, MadeOrRefused, Broken DEF Creation
<1>3. CASE UNCHANGED modelVars
  <2>1. UNCHANGED <<provider, cached, handle, timers, call, crowded>>
    BY <1>3 DEF modelVars
  <2>2. StoreTyped' /\ SharedInv'
    BY <2>1 DEF ModelInv, StoreTyped, KeysOnce, SharedInv, UnderWay, Slots
  <2>3. CallsFit'
    BY <2>1 DEF ModelInv, CallsFit, Runs, Over
  <2>4. ContentInv'
    BY <2>1 DEF ModelInv, ContentInv, PromiseFits, SlotFits, Refers, Timely, Slots
  <2> QED BY <2>2, <2>3, <2>4 DEF ModelInv
<1> QED BY <1>1, <1>2, <1>3, Fires, Ticks DEF ModelNext

(* vertex.ts getCachedContentForPrompt, touchCacheEntry and completeStream,   *)
(* openaiCompatible.ts complete — what the cache, the promises, the timers    *)
(* and every call look like in every reachable state: the times add up, and   *)
(* a creation under way is in the map as long as no key was crowded out.      *)
THEOREM ModelInvTheorem == ModelSpec => []ModelInv
BY ModelStarts, ModelStep, PTL DEF ModelSpec

(* vertex.ts getCachedContentForPrompt — calls with the same prompt share one *)
(* creation, with any number of calls and whatever the answers do, as long as *)
(* the map never had to drop a key for lack of room.                          *)
THEOREM CreationTheorem == ModelSpec => []OneCreationAtATime
<1>1. ModelInv => OneCreationAtATime
  <2> SUFFICES ASSUME ModelInv, NEW g \in Handles, NEW h \in Handles, g # h, UnderWay(g), UnderWay(h),
                      handle[g].key = handle[h].key
               PROVE  crowded
    BY DEF OneCreationAtATime
  <2> QED BY SharedOnce
<1> QED BY <1>1, ModelInvTheorem, PTL

(* vertex.ts completeStream, openaiCompatible.ts complete, completeStream —   *)
(* what a caller has seen comes from one attempt, for any number of attempts, *)
(* and a call that ends well has reported the latest usage unless [DONE] cut  *)
(* the reading short.                                                         *)
THEOREM AnswerTheorem == ModelSpec => []AnswerIsOneAttempts
<1>1. ModelInv => AnswerIsOneAttempts
  <2> SUFFICES ASSUME ModelInv, NEW c \in Calls, ~At(c, "idle")
               PROVE  /\ Cardinality(call[c].spoke) <= 1
                      /\ At(c, "ok") /\ call[c].missed => call[c].done
    BY DEF AnswerIsOneAttempts
  <2>1. Runs(call[c]) \/ Over(call[c])
    BY DEF ModelInv, CallsFit
  <2>2. \E n : call[c].spoke \subseteq {n}
    <3>1. call[c] # NotCalled
      BY DEF At, NotCalled
    <3> QED BY <2>1, <3>1 DEF Runs, Over, Failed
  <2>3. PICK n : call[c].spoke = {} \/ call[c].spoke = {n}
    BY <2>2
  <2>4. Cardinality(call[c].spoke) <= 1
    <3>1. Cardinality({}) = 0 /\ Cardinality({n}) = 1
      BY FS_EmptySet, FS_Singleton
    <3> QED BY <2>3, <3>1
  <2>5. At(c, "ok") => Over(call[c]) /\ call[c] \in Answered
    BY <2>1 DEF At, Runs, Running, Pcs, Over, NotCalled, Failed
  <2> QED BY <2>4, <2>5 DEF Over, At, NotCalled, Failed
<1> QED BY <1>1, ModelInvTheorem, PTL

\* A request goes out only in Send, in time.
LEMMA OnlySend ==
  ASSUME ModelInv, [ModelNext]_modelVars, NEW c \in Calls, At(c, "send"), call'[c].pc = "response"
  PROVE  Send(c)
<1>1. call[c].pc = "send" /\ call' # call /\ DOMAIN call = Calls
  BY DEF At, ModelInv, CallsFit
<1>2. ASSUME NEW d \in Calls, Begin(d) \/ Local(d) \/ Answers(d) PROVE Send(c)
  <2>1. PICK q : Goes(d, q)
    BY <1>2 DEF Begin, Local, Answers, NoProject, FindExisting, CreateVertexCachedContent, Awaited,
         GetAccessToken, NoAccessToken, Send, SendAborted, Aborts, ResponseOk, ResponseNotOk,
         StreamingBlocked, Breaks, Whole, Frame, StreamEnds, StreamBreaks, To, Fails, AgainOrFails
  <2>2. d = c
    BY <1>1, <2>1 DEF Goes
  <2>3. Send(c) \/ SendAborted(c)
    BY <1>1, <1>2, <2>2 DEF Begin, Local, Answers, NoProject, FindExisting,
         CreateVertexCachedContent, Awaited, GetAccessToken, NoAccessToken, Aborts, ResponseOk,
         ResponseNotOk, StreamingBlocked, Breaks, Whole, Frame, StreamEnds, StreamBreaks, At, Ended
  <2>4. ASSUME SendAborted(c) PROVE FALSE
    <3>1. PICK p \in Running : p = call[c]
      BY <1>1, UnderWayRuns DEF Pcs
    <3>2. CASE Goes(c, Failed)
      BY <1>1, <3>2 DEF Goes, Failed
    <3>3. CASE Goes(c, [call[c] EXCEPT !.pc = "send", !.attempt = @ + 1, !.left = Timeout])
      <4>1. call'[c] = [p EXCEPT !.pc = "send", !.attempt = p.attempt + 1, !.left = Timeout]
        BY <1>1, <3>1, <3>3 DEF Goes
      <4>2. call'[c].pc = "send"
        BY <4>1 DEF Running
      <4> QED BY <4>2
    <3> QED BY <2>4, <3>2, <3>3 DEF SendAborted, AgainOrFails
  <2> QED BY <2>3, <2>4
<1>3. ASSUME NEW h \in Handles, Creation(h) PROVE FALSE
  BY <1>1, <1>3 DEF Creation, ContentMade, ContentNamed, ContentRefused, ContentBroken
<1>4. ~TimerFires
  BY <1>1 DEF TimerFires
<1>5. ~Tick
  BY <1>1 DEF Tick, Due, At
<1>6. ~UNCHANGED modelVars
  BY <1>1 DEF modelVars
<1> QED BY <1>2, <1>3, <1>4, <1>5, <1>6 DEF ModelNext

(* vertex.ts getCachedContentForPrompt, fetchVertexCompletion — no request    *)
(* names a prompt the provider has dropped, for any life, eviction delay and  *)
(* timeout with EvictAfter + Timeout < Life, unless its name came too late.   *)
THEOREM ContentTheorem == ModelSpec => NoExpiredContent
<1>1. ASSUME ModelInv, [ModelNext]_modelVars, NEW c \in Calls, At(c, "send"),
             call'[c].pc = "response", call[c].content # NoPrompt
      PROVE  handle[call[c].content].late \/ handle[call[c].content].age < Life
  <2>1. Send(c)
    BY <1>1, OnlySend
  <2>2. PICK p \in Running : p = call[c] /\ Refers(p) /\ p.pc = "send" /\ p.left > 0
    BY <1>1, <2>1, UnderWayRuns DEF Send, At, Pcs
  <2>3. p.content \in Handles /\ p.left \in Nat
    BY <1>1, <2>2 DEF Running
  <2>4. handle[p.content].is = "named"
    BY <1>1, <2>2 DEF Refers, Pcs
  <2>5. ASSUME ~handle[p.content].late
        PROVE  handle[p.content].age < Life
    <3>1. PICK a \in Nat : a = handle[p.content].age
      BY <1>1, <2>3 DEF ModelInv, StoreTyped, Promise
    <3>2. a + p.left <= Life
      BY <1>1, <2>2, <2>4, <2>5, <3>1 DEF Refers, Timely, Pcs
    <3>3. Life \in Nat
      BY CallConstants
    <3> QED BY <2>2, <2>3, <3>1, <3>2, <3>3
  <2> QED BY <2>2, <2>5
<1>2. ModelInv /\ [ModelNext]_modelVars =>
        [\A c \in Calls :
           At(c, "send") /\ call'[c].pc = "response" /\ call[c].content # NoPrompt =>
             handle[call[c].content].late \/ handle[call[c].content].age < Life]_modelVars
  BY <1>1
<1> QED BY <1>2, ModelInvTheorem, PTL DEF ModelSpec, NoExpiredContent
=============================================================================
