----------------------------- MODULE ModelCalls -----------------------------
(***************************************************************************)
(* Calls of the model: the Vertex provider with its cache of prompts held  *)
(* at the provider, and the providers with an OpenAI-compatible interface, *)
(* which try again (services/modelProvider).  One server calls, others     *)
(* answer: refused, late, broken off in the middle, or never.  Two clocks  *)
(* matter, the provider's, after which a cached prompt is gone, and the    *)
(* timers of the server; a timer is taken to fire when it is due.  Time is *)
(* kept as ages and as the time that is left, so that it needs no bound.   *)
(***************************************************************************)
EXTENDS Naturals, FiniteSets, Sequences

CONSTANTS
  Calls, Prompts,
  Uses,              \* what is asked for: whole or in a stream, with which prompt
  Handles, NoPrompt,     \* promises of a cached prompt
  CacheMax,          \* CACHE_MAX_ENTRIES
  Life,              \* ttl "1800s", counted by the provider
  EvictAfter,        \* EVICT_BEFORE_TTL_MS
  Timeout,           \* timeoutMs
  MaxTries           \* maxAttempts of an OpenAI-compatible provider

ASSUME CallConstants ==
  /\ NoPrompt \notin Handles \union Prompts
  /\ Uses \subseteq {"complete", "stream"} \X (Prompts \union {NoPrompt})
  /\ {CacheMax, Life, EvictAfter, Timeout, MaxTries} \subseteq Nat \ {0}
  /\ EvictAfter + Timeout < Life

Frames == {"text", "usage", "junk", "done"}

\* Vertex with an access token, Vertex with a key, an OpenAI-compatible interface.
Providers == {"vertex", "express", "openai"}

VARIABLES
  provider,  \* the one the server was configured with
  cached,    \* cachedContentByPromptKey: [key, handle] in insertion order
  handle,    \* per promise: its key, how it stands, the age of the content, and as
             \* history whether its name came late
  timers,    \* the timers that will take a key out of the cache: [key, left]
  call,
  crowded    \* history: a key was dropped for lack of room

modelVars == <<provider, cached, handle, timers, call, crowded>>
store == <<cached, handle, timers, crowded>>

Unused == [key |-> NoPrompt, is |-> "unused", age |-> 0, late |-> FALSE]
Null == [Unused EXCEPT !.is = "null"]
NotCalled == [pc |-> "idle"]

ModelInit ==
  /\ provider \in Providers
  /\ cached = <<>> /\ handle = [h \in Handles |-> Unused] /\ timers = {}
  /\ call = [c \in Calls |-> NotCalled] /\ crowded = FALSE

-----------------------------------------------------------------------------
At(c, pc) == call[c].pc = pc
Goes(c, q) == call' = [call EXCEPT ![c] = q]
To(c, pc) == Goes(c, [call[c] EXCEPT !.pc = pc])
Ended(c) == call[c].pc \in {"idle", "ok", "failed"}
Apart == UNCHANGED <<provider, store>>    \* a step of a call that leaves the cache alone

(* A call begins, for a whole answer or for a stream.  left is the time until *)
(* its timer aborts it, attempt the number of the request, usage whether the *)
(* call remembers none, the latest the provider told, or an older one.       *)
Asks(key) == IF provider = "openai" THEN "send" ELSE IF key = NoPrompt THEN "token" ELSE "project"

Begin(c) ==
  /\ Ended(c) /\ Apart
  /\ \E use \in Uses :
       Goes(c, [pc |-> Asks(use[2]), mode |-> use[1], key |-> use[2], content |-> NoPrompt,
                left |-> Timeout, attempt |-> 1, spoke |-> {}, usage |-> "none"])

\* What is kept of a call when it is over: missed, usage was told and its latest
\* was not reported; done, the reading was cut short.
Failed == [pc |-> "failed", spoke |-> {}]
Ok(q, missed, done) == [pc |-> "ok", spoke |-> q.spoke, missed |-> missed, done |-> done]

-----------------------------------------------------------------------------
(* getCachedContentForPrompt.                                                *)
Entry(key) == {i \in DOMAIN cached : cached[i].key = key}
Delete(s, key) ==      \* of a Map, which has a key once
  IF \E i \in DOMAIN s : s[i].key = key
  THEN LET i == CHOOSE i \in DOMAIN s : s[i].key = key
       IN  SubSeq(s, 1, i - 1) \o SubSeq(s, i + 1, Len(s))
  ELSE s

MakesRoom(key) == Entry(key) = {} /\ Len(cached) >= CacheMax
TouchCacheEntry(key, h) ==
  cached' = Append(Delete(cached, IF MakesRoom(key) THEN cached[1].key ELSE key),
                   [key |-> key, handle |-> h])

UnderWay(h) == handle[h].is \in {"asked", "made"}

\* A promise is free for use again when nothing refers to it.
Free(h) ==
  /\ ~UnderWay(h)
  /\ \A i \in DOMAIN cached : cached[i].handle # h
  /\ \A c \in Calls : ~Ended(c) => call[c].content # h

(* The project of the cache cannot be resolved: the cache is left out.       *)
NoProject(c) == At(c, "project") /\ To(c, "token") /\ Apart

FindExisting(c) ==
  /\ At(c, "project") /\ UNCHANGED <<provider, handle, timers, crowded>>
  /\ \E i \in Entry(call[c].key) :
       /\ TouchCacheEntry(call[c].key, cached[i].handle)
       /\ Goes(c, [call[c] EXCEPT !.pc = "wait", !.content = cached[i].handle])

Asked(h, key) ==
  /\ handle' = [handle EXCEPT ![h] = [Unused EXCEPT !.key = key, !.is = "asked"]]
  /\ crowded' = (crowded \/ MakesRoom(key))

(* Mutant: the promise is entered in the map only when it has resolved.      *)
CreateUnshared(c) ==
  /\ At(c, "project") /\ Entry(call[c].key) = {} /\ UNCHANGED <<provider, timers, cached>>
  /\ \E h \in Handles :
       /\ Free(h) /\ Asked(h, call[c].key)
       /\ Goes(c, [call[c] EXCEPT !.pc = "wait", !.content = h])

CreateVertexCachedContent(c) ==
  /\ At(c, "project") /\ Entry(call[c].key) = {} /\ UNCHANGED <<provider, timers>>
  /\ \E h \in Handles :
       /\ Free(h) /\ Asked(h, call[c].key) /\ TouchCacheEntry(call[c].key, h)
       /\ Goes(c, [call[c] EXCEPT !.pc = "wait", !.content = h])

Content(c) == handle[call[c].content]
Resolved(h) == handle[h].is \in {"named", "null"}

Awaited(c) ==
  /\ At(c, "wait") /\ Resolved(call[c].content) /\ Apart
  /\ Goes(c, [call[c] EXCEPT !.pc = "token",
                             !.content = IF Content(c).is = "named" THEN @ ELSE NoPrompt])

(* The provider makes the content, then answers with its name.  The request  *)
(* has no abort signal.                                                      *)
ContentMade(h) ==
  /\ handle[h].is = "asked"
  /\ handle' = [handle EXCEPT ![h].is = "made"]
  /\ UNCHANGED <<provider, cached, timers, call, crowded>>

(* Mutant: the key stays for the whole life of the content.                  *)
EvictAtTtl(h) == timers' = timers \union {[key |-> handle[h].key, left |-> Life]}

EvictBeforeTtl(h) == timers' = timers \union {[key |-> handle[h].key, left |-> EvictAfter]}

ContentNamed(h) ==
  /\ handle[h].is = "made" /\ EvictBeforeTtl(h)
  /\ handle' = [handle EXCEPT ![h].is = "named",
                              ![h].late = handle[h].age > Life - EvictAfter - Timeout]
  /\ UNCHANGED <<provider, cached, call, crowded>>

(* An answer other than ok resolves to null, which stays in the map; a       *)
(* request that breaks is taken out of it.                                   *)
ContentRefused(h) ==
  /\ handle[h].is = "asked"
  /\ handle' = [handle EXCEPT ![h] = Null]
  /\ UNCHANGED <<provider, cached, timers, call, crowded>>

ContentBroken(h) ==
  /\ UnderWay(h)
  /\ handle' = [handle EXCEPT ![h] = Null]
  /\ cached' = Delete(cached, handle[h].key)
  /\ UNCHANGED <<provider, timers, call, crowded>>

(* A timer takes out whatever is there under its key.                        *)
TimerFires ==
  \E t \in timers :
    /\ t.left = 0 /\ timers' = timers \ {t}
    /\ cached' = Delete(cached, t.key)
    /\ UNCHANGED <<provider, handle, call, crowded>>

-----------------------------------------------------------------------------
(* The request.                                                              *)
Fails(c) == Goes(c, Failed) /\ Apart

GetAccessToken(c) == At(c, "token") /\ To(c, "send") /\ Apart
NoAccessToken(c) == At(c, "token") /\ provider = "vertex" /\ Fails(c)

\* Another attempt, with a timer of its own, or the end of the call.
LastAttempt(c) == provider # "openai" \/ call[c].attempt = MaxTries
AgainOrFails(c) ==
  IF LastAttempt(c) THEN Goes(c, Failed)
  ELSE Goes(c, [call[c] EXCEPT !.pc = "send", !.attempt = @ + 1, !.left = Timeout])

(* fetch with the call's abort signal: raised already, nothing is sent.      *)
Send(c) ==
  /\ At(c, "send") /\ call[c].left > 0 /\ Apart
  /\ Goes(c, [call[c] EXCEPT !.pc = "response", !.content = NoPrompt])
SendAborted(c) == At(c, "send") /\ call[c].left = 0 /\ AgainOrFails(c) /\ Apart

ResponseOk(c) ==
  /\ At(c, "response") /\ Apart
  /\ Goes(c, [call[c] EXCEPT !.pc = "body", !.key = NoPrompt])

(* Not ok: the key may not stream, then the answer is asked for in one piece, *)
(* under a timer of its own.                                                 *)
ResponseNotOk(c) == At(c, "response") /\ AgainOrFails(c) /\ Apart

StreamingBlocked(c) ==
  /\ At(c, "response") /\ provider = "express" /\ call[c].mode = "stream" /\ Apart
  /\ Goes(c, [call[c] EXCEPT !.mode = "complete", !.left = Timeout, !.pc = Asks(call[c].key)])

(* complete: the whole answer, with or without content and usage.            *)
Whole(c) ==
  /\ At(c, "body") /\ call[c].mode = "complete" /\ Apart
  /\ \/ Goes(c, Ok([call[c] EXCEPT !.spoke = {call[c].attempt}], FALSE, FALSE))
     \/ Goes(c, Failed)
     \/ provider = "openai" /\ AgainOrFails(c)      \* the body cannot be read

(* A frame of a stream.  The latest usage counts; [DONE] ends the reading of *)
(* an OpenAI-compatible stream there, and is skipped in a Vertex stream.     *)
KeepLatest(q) == "latest"

Frame(c) ==
  /\ At(c, "body") /\ call[c].mode = "stream" /\ Apart
  /\ LET q == call[c]
     IN \E f \in Frames :
          \/ f = "text" /\ Goes(c, [q EXCEPT !.spoke = @ \union {q.attempt}])
          \/ f = "usage" /\ Goes(c, [q EXCEPT !.usage = KeepLatest(q)])
          \/ f = "junk" /\ Goes(c, q)
          \/ f = "done" /\ Goes(c, IF provider = "openai" THEN Ok(q, q.usage # "none", TRUE) ELSE q)

StreamEnds(c) ==
  /\ At(c, "body") /\ call[c].mode = "stream" /\ Apart
  /\ Goes(c, Ok(call[c], call[c].usage = "older", FALSE))

(* Mutant: a stream that breaks is tried again like a request.               *)
BreaksAgain(c) == At(c, "body") /\ call[c].mode = "stream" /\ AgainOrFails(c) /\ Apart

\* After the first byte a stream that breaks is not tried again.
StreamBreaks(c) == At(c, "body") /\ call[c].mode = "stream" /\ Fails(c)

(* The request breaks or its timer aborts it.                                *)
Aborts(c) ==
  /\ call[c].pc \in {"response", "body"} /\ call[c].left = 0 /\ Apart
  /\ IF At(c, "body") /\ call[c].mode = "stream" THEN Goes(c, Failed) ELSE AgainOrFails(c)

Breaks(c) == At(c, "response") /\ AgainOrFails(c) /\ Apart

-----------------------------------------------------------------------------
\* What happens before the clock moves: timers that are due, and a request, which
\* goes out with nothing to wait for.
Due == \/ \E t \in timers : t.left = 0
       \/ \E c \in Calls : \/ At(c, "send")
                           \/ call[c].pc \in {"response", "body"} /\ call[c].left = 0

Tick ==
  /\ ~Due /\ timers' = {[t EXCEPT !.left = @ - 1] : t \in timers}
  /\ call' = [c \in Calls |-> IF Ended(c) THEN call[c]
                              ELSE [call[c] EXCEPT !.left = IF @ > 0 THEN @ - 1 ELSE 0]]
  /\ handle' = [h \in Handles |->
                 IF Free(h) THEN Unused
                 ELSE IF handle[h].is \in {"made", "named"} /\ handle[h].age < Life
                 THEN [handle[h] EXCEPT !.age = @ + 1] ELSE handle[h]]
  /\ UNCHANGED <<provider, cached, crowded>>

Local(c) ==
  \/ NoProject(c) \/ FindExisting(c) \/ CreateVertexCachedContent(c) \/ Awaited(c)
  \/ GetAccessToken(c) \/ NoAccessToken(c) \/ Send(c) \/ SendAborted(c) \/ Aborts(c)

Answers(c) ==
  \/ ResponseOk(c) \/ ResponseNotOk(c) \/ StreamingBlocked(c) \/ Breaks(c)
  \/ Whole(c) \/ Frame(c) \/ StreamEnds(c) \/ StreamBreaks(c)

Creation(h) == ContentMade(h) \/ ContentNamed(h) \/ ContentRefused(h) \/ ContentBroken(h)

ModelNext ==
  \/ \E c \in Calls : Begin(c) \/ Local(c) \/ Answers(c)
  \/ \E h \in Handles : Creation(h)
  \/ TimerFires \/ Tick

ModelSpec == ModelInit /\ [][ModelNext]_modelVars

-----------------------------------------------------------------------------
(* No request names a prompt the provider has already dropped: the key leaves *)
(* the map EVICT_BEFORE_TTL_MS after the name came, a call that found it then *)
(* sends within timeoutMs or not at all, and the provider keeps the content   *)
(* for ttl.  Not so for a name that took too long to come (late).  vertex.ts  *)
(* getCachedContentForPrompt, fetchVertexCompletion.                          *)
NoExpiredContent ==
  [][\A c \in Calls :
       At(c, "send") /\ call'[c].pc = "response" /\ call[c].content # NoPrompt =>
         handle[call[c].content].late \/ handle[call[c].content].age < Life]_modelVars

(* Calls with the same prompt share one creation: a second is under way at    *)
(* the same time only once a key was dropped for lack of room.  vertex.ts *)
(* touchCacheEntry, getCachedContentForPrompt.                                *)
OneCreationAtATime ==
  \A g, h \in Handles :
    g # h /\ UnderWay(g) /\ UnderWay(h) /\ handle[g].key = handle[h].key
      => crowded

(* The text a caller has seen comes from one attempt, whatever was tried      *)
(* again, and a call that ends well has reported the last usage the provider  *)
(* told, unless [DONE] cut the reading short.  vertex.ts completeStream,      *)
(* openaiCompatible.ts complete, completeStream.                              *)
AnswerIsOneAttempts ==
  \A c \in Calls :
    ~At(c, "idle") =>
      /\ Cardinality(call[c].spoke) <= 1
      /\ At(c, "ok") /\ call[c].missed => call[c].done

(* A call that ends well reports the usage the provider told: the request     *)
(* asks for it with include_usage (openaiCompatible.ts:203-205).  Violated:   *)
(* [DONE] returns from the generator before the report.                       *)
UsageReported ==
  \A c \in Calls : At(c, "ok") => ~call[c].missed
=============================================================================
