---------------------------- MODULE ClientLinks ----------------------------
(***************************************************************************)
(* The links an agency shares one finished trip with, what the client does *)
(* with them, the review mail sent after the trip, and the dashboard and   *)
(* calendar payloads cached in the server's memory meanwhile               *)
(* (shareService.ts, shareRepository.ts, reviewService.ts,                 *)
(* reviewScheduler.ts, dashboard/cache.ts and the two services around it). *)
(* A request runs from await to await; others run in between, a statement  *)
(* may fail, and the server may crash and start again with empty caches.   *)
(***************************************************************************)
EXTENDS Naturals, FiniteSets, Sequences

CONSTANTS
  Links, NoLink,     \* rows of ItineraryShare
  Calls,
  Caches,            \* the dashboards' TtlCache and the calendar's
  Keys, OwnKeys,     \* cache keys, and those that start with this agency's id
  MaxEntries, Ttl,   \* of a TtlCache
  ExtendDays,        \* EXTEND_DAY_OPTIONS
  Window,            \* RATING_UPDATE_WINDOW_MS
  Connections,       \* the database pool of the server
  MaxClock

ASSUME LinkConstants ==
  /\ NoLink \notin Links /\ OwnKeys \subseteq Keys
  /\ {MaxEntries, Ttl} \subseteq Nat \ {0} /\ ExtendDays \subseteq Nat \ {0}
  /\ {Window, MaxClock} \subseteq Nat

Tables == {"links", "comments"}     \* what a payload is built from
Never == MaxClock + 100             \* expiresAt = null
Unrated == MaxClock + 1             \* proposalRatedAt = null

VARIABLES
  link,        \* per row: state, expiry, successor bookkeeping, rating time, client e-mail
  comments,    \* the links commented on, with the comment's status
  reviews,     \* how many reviews the trip has
  log,         \* the trip has a TripReviewEmailLog row
  holder,      \* connection -> how often it holds the scheduler's advisory lock
  cache, generation,
  ask, clock,
  mails, unlogged,        \* history: review mails sent, and those whose log row failed
  contended,   \* history: links whose extensions overlapped
  jammed       \* history: two reviews were submitted, or two scans ran, at once

rows == <<link, comments, reviews, log>>
marks == <<mails, unlogged, contended, jammed>>
memory == <<cache, generation>>
linkVars == <<rows, holder, memory, ask, clock, marks>>

NewLink(e, m, from) ==
  [state |-> "live", expires |-> e, ratedAt |-> Unrated, mail |-> m, from |-> from]
NoLinkRow ==
  [state |-> "none", expires |-> Never, ratedAt |-> Unrated, mail |-> FALSE, from |-> NoLink]

NotAsked == [pc |-> "idle"]
Served == [pc |-> "done"]
Serving == {r \in Calls : ask[r] \notin {NotAsked, Served}}
Doing(op) == {r \in Serving : ask[r].op = op}

\* A new row has a new id; which of those not used yet makes no difference.
FirstOf(ids) == CHOOSE l \in ids : TRUE
NewIds == LET unused == {l \in Links : link[l].state = "none"}
          IN IF unused = {} THEN {} ELSE {FirstOf(unused)}

(* One link has been sent to the client.                                     *)
LinksInit ==
  /\ \E e \in {1, Never} :
       link = [l \in Links |-> IF l = FirstOf(Links) THEN NewLink(e, e = 1, NoLink)
                              ELSE NoLinkRow]
  /\ comments = {} /\ reviews = 0 /\ log = FALSE
  /\ holder = [c \in Connections |-> 0]
  /\ cache = [c \in Caches |-> <<>>] /\ generation = [c \in Caches |-> 0]
  /\ ask = [r \in Calls |-> NotAsked] /\ clock = 0
  /\ mails = 0 /\ unlogged = 0 /\ contended = {} /\ jammed = FALSE

-----------------------------------------------------------------------------
Stage(r, op, pc) == ask[r].pc = pc /\ ask[r].op = op
Turns(r, q) == ask' = [ask EXCEPT ![r] = q]
Advances(r, pc) == Turns(r, [ask[r] EXCEPT !.pc = pc])
Serves(r) == Turns(r, Served)

\* Everything but requests: what a step that only reads leaves alone.
Still == UNCHANGED <<rows, holder, memory, clock, marks>>
Wrote == UNCHANGED <<holder, generation, clock, marks>>

Live(l) == link[l].state = "live" /\ link[l].expires > clock

(* What arrives: each request is used once.  The agency's routes:            *)
AgencyAsks(r) ==
  /\ ask[r] = NotAsked /\ Still
  /\ \/ \E e \in {clock + 1, Never} :
          Turns(r, [op |-> "create", pc |-> "write", expires |-> e, mail |-> e # Never])
     \/ \E l \in Links, op \in {"revoke", "regenerate"} :
          link[l].state # "none" /\ Turns(r, [op |-> op, pc |-> "read", link |-> l])
     \/ \E l \in Links, d \in ExtendDays :
          /\ link[l].state # "none"
          /\ Turns(r, [op |-> "extend", pc |-> "read", link |-> l, days |-> d])
     \/ \E c \in comments : Turns(r, [op |-> "reply", pc |-> "write", comment |-> c])
     \/ \E c \in Caches, k \in Keys :
          Turns(r, [op |-> "fill", pc |-> "get", cache |-> c, key |-> k])

\* The public routes of a link, and the page the review mail leads to.
ClientAsks(r) ==
  /\ ask[r] = NotAsked /\ Still
  /\ \/ \E l \in Links, op \in {"view", "comment", "rate"} :
          link[l].state # "none" /\ Turns(r, [op |-> op, pc |-> "read", link |-> l])
     \/ mails > 0 /\ Turns(r, [op |-> "review", pc |-> "read"])

\* The hourly cron task; a scan that is still running does not stop the next.
HourStrikes(r) == ask[r] = NotAsked /\ Still /\ Turns(r, [op |-> "scan", pc |-> "lock"])

-----------------------------------------------------------------------------
(* TtlCache.  A cache is the sequence of its entries in insertion order.     *)
Keeping(s, P) ==       \* what is left of s at the positions in P
  LET Kept[n \in 0..Len(s)] ==
        IF n = 0 THEN <<>> ELSE IF n \in P THEN Append(Kept[n - 1], s[n]) ELSE Kept[n - 1]
  IN  Kept[Len(s)]
Dropping(s, K) == Keeping(s, {i \in DOMAIN s : s[i].key \notin K})
HasKey(s, k) == \E i \in DOMAIN s : s[i].key = k
EntryOf(s, k) == s[CHOOSE i \in DOMAIN s : s[i].key = k]

MakeRoom(s) ==
  LET unexpired == Keeping(s, {i \in DOMAIN s : s[i].until > clock})
      surplus == Len(unexpired) - (MaxEntries - 1)
  IN IF surplus > 0 THEN SubSeq(unexpired, surplus + 1, Len(unexpired)) ELSE unexpired

SetEntry(s, k, v) ==
  LET room == IF HasKey(s, k) THEN Dropping(s, {k})
              ELSE IF Len(s) >= MaxEntries THEN MakeRoom(s) ELSE s
  IN Append(room, [key |-> k, data |-> v, until |-> clock + Ttl])

(* Mutant: what was read is stored whatever was invalidated meanwhile.       *)
SetAlways(s, k, v, g, current) == SetEntry(s, k, v)

SetIfCurrent(s, k, v, g, current) == IF g = current THEN SetEntry(s, k, v) ELSE s

(* What a payload was built from.  read: the tables queried so far; missed   *)
(* and stale are history: the requests that changed a table after it was     *)
(* read, and whether one of them has been answered.                          *)
Nothing == [read |-> {}, missed |-> {}, stale |-> FALSE]
Filling(r) == ask[r].pc = "fetch"

(* getDashboard and getCalendar.                                             *)
FillBegins(c, k) ==
  [op |-> "fill", pc |-> "fetch", cache |-> c, key |-> k,
   generation |-> generation[c], data |-> Nothing]

CacheGet(r) ==
  /\ Stage(r, "fill", "get")
  /\ LET q == ask[r]
         s == cache[q.cache]
         hit == HasKey(s, q.key) /\ EntryOf(s, q.key).until > clock
     IN /\ cache' = [cache EXCEPT ![q.cache] = IF hit THEN s ELSE Dropping(s, {q.key})]
        /\ IF hit THEN Serves(r)
           ELSE Turns(r, FillBegins(q.cache, q.key))
  /\ UNCHANGED <<rows, holder, generation, clock, marks>>

(* The queries of the fetch run side by side (a dashboard's comments after   *)
(* its links); each sees the table as it is then.                            *)
FetchTable(r, t) ==
  /\ Stage(r, "fill", "fetch") /\ t \notin ask[r].data.read
  /\ Turns(r, [ask[r] EXCEPT !.data.read = @ \union {t}])
  /\ Still

Store(r) ==
  /\ Stage(r, "fill", "fetch") /\ ask[r].data.read = Tables
  /\ LET q == ask[r]
     IN cache' = [cache EXCEPT ![q.cache] =
                    SetIfCurrent(@, q.key, q.data, q.generation, generation[q.cache])]
  /\ Serves(r) /\ UNCHANGED <<rows, holder, generation, clock, marks>>

-----------------------------------------------------------------------------
(* A change of a table, and what has read that table before.                 *)
Misses(d, r, t) == IF t \in d.read THEN [d EXCEPT !.missed = @ \union {r}] ELSE d
Learns(d, r) == [d EXCEPT !.stale = @ \/ r \in d.missed, !.missed = @ \ {r}]

Entries(s, Op(_)) == [i \in DOMAIN s |-> [s[i] EXCEPT !.data = Op(s[i].data)]]
Requested(r, q, Op(_)) ==
  [s \in Calls |-> IF s = r THEN q
                   ELSE IF Filling(s) THEN [ask[s] EXCEPT !.data = Op(ask[s].data)]
                   ELSE ask[s]]

Answers(r, t) ==
  /\ ask' = Requested(r, [op |-> ask[r].op, pc |-> "answer"], LAMBDA d : Misses(d, r, t))
  /\ cache' = [c \in Caches |-> Entries(cache[c], LAMBDA d : Misses(d, r, t))]

(* Both caches drop the agency's keys, and every fill under way, of whatever *)
(* agency, is not stored.  Then the request that made the change is answered. *)
InvalidateAgencyDashboards(r) ==
  /\ cache' = [c \in Caches |-> Entries(Dropping(cache[c], OwnKeys), LAMBDA d : Learns(d, r))]
  /\ generation' = [c \in Caches |-> generation[c] + 1]

Answer(r) ==
  /\ ask[r].pc = "answer" /\ InvalidateAgencyDashboards(r)
  /\ ask' = Requested(r, Served, LAMBDA d : Learns(d, r))
  /\ UNCHANGED <<rows, holder, clock, marks>>

CreateShare(r) ==
  /\ Stage(r, "create", "write") /\ Wrote
  /\ \E l \in NewIds :
       link' = [link EXCEPT ![l] = NewLink(ask[r].expires, ask[r].mail, NoLink)]
  /\ Answers(r, "links") /\ UNCHANGED <<comments, reviews, log>>

(* revokeShare: find, then an update by id alone.                            *)
FindForRevoke(r) ==
  /\ Stage(r, "revoke", "read") /\ Still
  /\ IF link[ask[r].link].state = "live" THEN Advances(r, "write") ELSE Serves(r)

RevokeShare(r) ==
  /\ Stage(r, "revoke", "write") /\ Wrote
  /\ link' = [link EXCEPT ![ask[r].link].state = "revoked"]
  /\ Answers(r, "links") /\ UNCHANGED <<comments, reviews, log>>

(* regenerateShare: the checks on what was read, then one transaction in     *)
(* which turning the old link off is the guard.                              *)
FindForRegenerate(r) ==
  /\ Stage(r, "regenerate", "read") /\ Still
  /\ IF Live(ask[r].link) THEN Advances(r, "write") ELSE Serves(r)

Replaces(l, k) ==
  link' = [link EXCEPT ![l].state = "revoked",
                       ![k] = NewLink(link[l].expires, link[l].mail, l)]

(* Mutant: the swap trusts the check made before it.                         *)
ReplaceTrusting(r) ==
  /\ Stage(r, "regenerate", "write") /\ Wrote /\ UNCHANGED <<comments, reviews, log>>
  /\ \E k \in NewIds : Replaces(ask[r].link, k)
  /\ Answers(r, "links")

ReplaceShare(r) ==
  /\ Stage(r, "regenerate", "write") /\ Wrote /\ UNCHANGED <<comments, reviews, log>>
  /\ LET l == ask[r].link
     IN \/ /\ link[l].state = "live"
           /\ \E k \in NewIds : Replaces(l, k)
           /\ Answers(r, "links")
        \/ /\ link[l].state # "live" /\ Serves(r) /\ UNCHANGED <<link, cache>>

(* extendShare: the new expiry is computed from the one that was read; the   *)
(* write checks that the link is not revoked.                                *)
(* Mutant: an extension counts from now.                                     *)
ExtendedFromNow(current, days) == clock + days

ExtendedExpiry(current, days) == (IF current > clock THEN current ELSE clock) + days

FindForExtend(r) ==
  /\ Stage(r, "extend", "read")
  /\ LET q == ask[r]
         rivals == {s \in Doing("extend") \ {r} : ask[s].pc = "write" /\ ask[s].link = q.link}
     IN IF link[q.link].state = "live" /\ link[q.link].expires # Never
        THEN /\ Turns(r, [op |-> "extend", pc |-> "write", link |-> q.link,
                          expires |-> ExtendedExpiry(link[q.link].expires, q.days)])
             /\ contended' = IF rivals = {} THEN contended ELSE contended \union {q.link}
        ELSE Serves(r) /\ UNCHANGED contended
  /\ UNCHANGED <<rows, holder, memory, clock, mails, unlogged, jammed>>

UpdateShareExpiry(r) ==
  /\ Stage(r, "extend", "write") /\ Wrote /\ UNCHANGED <<comments, reviews, log>>
  /\ LET q == ask[r]
     IN \/ /\ link[q.link].state = "live"
           /\ link' = [link EXCEPT ![q.link].expires = q.expires]
           /\ Answers(r, "links")
        \/ /\ link[q.link].state # "live" /\ Serves(r) /\ UNCHANGED <<link, cache>>

(* The public routes: a live link is read, then the row written by its id.   *)
ReadLiveShare(r) ==
  /\ ask[r].pc = "read" /\ ask[r].op \in {"view", "comment", "rate"} /\ Still
  /\ LET l == ask[r].link
         open == link[l].ratedAt = Unrated \/ clock - link[l].ratedAt <= Window
     IN IF Live(l) /\ (ask[r].op = "rate" => open) THEN Advances(r, "write") ELSE Serves(r)

IncrementViewCount(r) ==
  /\ Stage(r, "view", "write") /\ Wrote /\ Answers(r, "links") /\ UNCHANGED rows

AddComment(r) ==
  /\ Stage(r, "comment", "write") /\ Wrote
  /\ comments' = comments \union {[link |-> ask[r].link, status |-> "PENDING"]}
  /\ Answers(r, "comments") /\ UNCHANGED <<link, reviews, log>>

RateProposal(r) ==
  /\ Stage(r, "rate", "write") /\ Wrote
  /\ link' = [link EXCEPT ![ask[r].link].ratedAt = clock]
  /\ Answers(r, "links") /\ UNCHANGED <<comments, reviews, log>>

ReplyToComment(r) ==
  /\ Stage(r, "reply", "write") /\ Wrote
  /\ LET c == ask[r].comment
     IN comments' = (comments \ {c}) \union {[c EXCEPT !.status = "ADDRESSED"]}
  /\ Answers(r, "comments") /\ UNCHANGED <<link, reviews, log>>

(* submitTripReview: look for a review of the trip, then create one.  It     *)
(* does not invalidate.                                                      *)
FindReview(r) ==
  /\ Stage(r, "review", "read")
  /\ IF reviews = 0 THEN Advances(r, "write") ELSE Serves(r)
  /\ jammed' = (jammed \/ \E s \in Doing("review") \ {r} : ask[s].pc = "write")
  /\ UNCHANGED <<rows, holder, memory, clock, mails, unlogged, contended>>

CreateReview(r) ==
  /\ Stage(r, "review", "write") /\ Wrote
  /\ reviews' = reviews + 1
  /\ Serves(r) /\ UNCHANGED <<link, comments, log, cache>>

-----------------------------------------------------------------------------
(* runReviewScanOnce under withAdvisoryLock.  The lock belongs to a          *)
(* connection; each of its two statements takes any connection of the pool,  *)
(* and a connection that holds the lock gets it again.                       *)
Scanning == {r \in Doing("scan") : ask[r].pc # "lock"}
Quietly == UNCHANGED <<link, comments, reviews, memory, clock, contended>>

(* Mutant: the scan goes on whether or not the lock was free.                *)
LockUnasked(r) ==
  /\ Stage(r, "scan", "lock") /\ Quietly
  /\ \E c \in Connections : holder' = [holder EXCEPT ![c] = @ + 1]
  /\ Advances(r, "list") /\ UNCHANGED <<log, mails, unlogged, jammed>>

TryAdvisoryLock(r) ==
  /\ Stage(r, "scan", "lock") /\ Quietly /\ UNCHANGED <<log, mails, unlogged>>
  /\ \E c \in Connections :
       IF \E d \in Connections \ {c} : holder[d] > 0
       THEN Serves(r) /\ UNCHANGED <<holder, jammed>>
       ELSE /\ holder' = [holder EXCEPT ![c] = @ + 1]
            /\ jammed' = (jammed \/ Scanning # {})
            /\ Advances(r, "list")

ListTrips(r) ==
  /\ Stage(r, "scan", "list") /\ Still
  /\ IF log THEN Advances(r, "unlock") ELSE Advances(r, "resolve")

ResolveRecipientEmail(r) ==
  /\ Stage(r, "scan", "resolve") /\ Still
  /\ IF \E l \in Links : link[l].mail THEN Advances(r, "send") ELSE Advances(r, "unlock")

SendTripReviewEmail(r) ==
  /\ Stage(r, "scan", "send") /\ Quietly /\ UNCHANGED <<log, holder, unlogged, jammed>>
  /\ \/ mails' = mails + 1 /\ Advances(r, "log")
     \/ UNCHANGED mails /\ Advances(r, "unlock")

CreateLog(r) ==
  /\ Stage(r, "scan", "log") /\ Quietly /\ UNCHANGED <<holder, mails, jammed>>
  /\ Advances(r, "unlock")
  /\ \/ ~log /\ log' = TRUE /\ UNCHANGED unlogged
     \/ UNCHANGED log /\ unlogged' = unlogged + 1

AdvisoryUnlock(r) ==
  /\ Stage(r, "scan", "unlock") /\ Quietly /\ UNCHANGED <<log, mails, unlogged, jammed>>
  /\ \E c \in Connections :
       holder' = [holder EXCEPT ![c] = IF @ > 0 THEN @ - 1 ELSE 0]
  /\ Serves(r)

-----------------------------------------------------------------------------
(* A statement fails, or its answer is lost after it took effect: then the   *)
(* caches are not invalidated, and nobody was promised the change.           *)
Forgets(d, r) == [d EXCEPT !.missed = @ \ {r}]

Errs(r) ==
  /\ r \in Serving
  /\ IF ask[r].op = "scan"
     THEN ask[r].pc \in {"list", "resolve"} /\ Advances(r, "unlock") /\ UNCHANGED cache
     ELSE /\ ask[r].pc \in {"read", "write", "fetch", "answer"}
          /\ ask' = Requested(r, Served, LAMBDA d : Forgets(d, r))
          /\ cache' = [c \in Caches |-> Entries(cache[c], LAMBDA d : Forgets(d, r))]
  /\ UNCHANGED <<rows, holder, generation, clock, marks>>

(* The server goes down and comes back: requests, caches and the sessions    *)
(* of its connections are gone.                                              *)
Crash ==
  /\ ask' = [r \in Calls |-> IF r \in Serving THEN Served ELSE ask[r]]
  /\ unlogged' = unlogged + Cardinality({r \in Doing("scan") : ask[r].pc = "log"})
  /\ cache' = [c \in Caches |-> <<>>] /\ generation' = [c \in Caches |-> 0]
  /\ holder' = [c \in Connections |-> 0]
  /\ UNCHANGED <<rows, clock, mails, contended, jammed>>

LinkTick ==
  /\ clock < MaxClock /\ clock' = clock + 1
  /\ UNCHANGED <<rows, holder, memory, ask, marks>>

LinksNext ==
  \/ \E r \in Calls :
       \/ AgencyAsks(r) \/ ClientAsks(r) \/ HourStrikes(r) \/ Answer(r) \/ Errs(r)
       \/ CacheGet(r) \/ Store(r) \/ \E t \in Tables : FetchTable(r, t)
       \/ CreateShare(r) \/ FindForRevoke(r) \/ RevokeShare(r)
       \/ FindForRegenerate(r) \/ ReplaceShare(r) \/ FindForExtend(r) \/ UpdateShareExpiry(r)
       \/ ReadLiveShare(r) \/ IncrementViewCount(r) \/ AddComment(r) \/ RateProposal(r)
       \/ ReplyToComment(r) \/ FindReview(r) \/ CreateReview(r)
       \/ TryAdvisoryLock(r) \/ ListTrips(r) \/ ResolveRecipientEmail(r)
       \/ SendTripReviewEmail(r) \/ CreateLog(r) \/ AdvisoryUnlock(r)
  \/ Crash \/ LinkTick

LinksSpec == LinksInit /\ [][LinksNext]_linkVars

-----------------------------------------------------------------------------
(* What a cache holds for the agency contains every change that was answered *)
(* to the one who made it: a payload whose queries ran before or around the  *)
(* change is never stored after it (cache.ts:12-19, dashboardService.ts:87). *)
(* A submitted trip review invalidates nothing and is not promised.          *)
CacheKeepsUp ==
  \A c \in Caches : \A i \in DOMAIN cache[c] :
    cache[c][i].key \in OwnKeys => ~cache[c][i].data.stale

(* A link that was regenerated is off for good and has one successor, which  *)
(* does not end before it: no second link is made of it, and no extension    *)
(* that was answered is lost (shareRepository.ts:224-269).                   *)
SuccessorTakesOver ==
  \A k \in Links : link[k].from # NoLink =>
    /\ link[link[k].from].state = "revoked"
    /\ link[k].expires >= link[link[k].from].expires
    /\ \A j \in Links : link[j].from = link[k].from => j = k

(* A link's expiry only moves out, unless two extensions of it overlapped    *)
(* and the shorter one was written last (shareExpiry.ts:8-15).               *)
ExpiryMovesOut ==
  [][\A l \in Links : link[l].state = "live" =>
       link'[l].expires >= link[l].expires \/ l \in contended]_linkVars

(* The trip's client is asked once for a review, again only for each mail    *)
(* whose log row was not written, and reviews once: unless two scans got the *)
(* lock over one connection, or two reviews were sent at once                *)
(* (reviewScheduler.ts:13-17, reviewService.ts:112-116).                     *)
AskedAndAnsweredOnce ==
  ~jammed => mails <= 1 + unlogged /\ reviews <= 1

=============================================================================
