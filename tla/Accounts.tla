------------------------------ MODULE Accounts ------------------------------
(***************************************************************************)
(* Sign-in of one server process (authService.ts, sessionLifetime.ts,      *)
(* authMiddleware.ts) and what an administrator does to an account         *)
(* (accountActionRepository.ts): the user row, its sessions, the mailed    *)
(* links and the cool-down kept in memory.  A request runs from await to   *)
(* await; other requests and time come in between, and any statement may   *)
(* fail.                                                                   *)
(***************************************************************************)
EXTENDS Integers, FiniteSets, FiniteSetsExt

CONSTANTS
  Users, Requests, Sessions, Tokens,
  PersistentTtl, ShortTtl, MaxAge, RenewInterval,   \* sessionLifetimeConfig
  LinkLife,                                         \* 24 hours
  ResendCooldown,                                   \* 60 seconds
  MaxTime                                           \* bound: the clock

ASSUME TimesAssumption ==
  /\ {PersistentTtl, ShortTtl, MaxAge, LinkLife, ResendCooldown} \subseteq Nat \ {0}
  /\ {RenewInterval, MaxTime} \subseteq Nat

VARIABLES
  now,
  user,        \* the row: status, password (its number; 0 is null), emailVerifiedAt, a
               \* provider account, a display name of its own, and the end of the
               \* agent pause (NotPaused, Indefinite or a time)
  session,     \* the rows: [user, expires, created, persistent], and the history fields below
  token,       \* mailed links: [kind, user, expires, used], and spent: it set a password
  asked,       \* lastVerificationRequestAt, or -1
  req,
  passwords,   \* history: passwords set so far
  halfReset,   \* history: users whose reset failed before it reached the sessions
  crowded      \* history: users deleted while a request of theirs was under way

accountVars == <<now, user, session, token, asked, req, passwords, halfReset, crowded>>
tables == <<user, session, token>>
history == <<passwords, halfReset, crowded>>

NotPaused == -1
Indefinite == MaxTime + 1

\* A row that has not been inserted, and one that was deleted: no id is given twice.
NoRow == [user |-> "none"]
Erased == [user |-> "erased"]
Rows(table) == {x \in DOMAIN table : table[x] \notin {NoRow, Erased}}
Unregistered == [status |-> "none", password |-> 0, verified |-> FALSE, linked |-> FALSE,
                 named |-> FALSE, paused |-> NotPaused]

Idle == [pc |-> "idle"]
Done == [pc |-> "done"]
UnderWay == {r \in Requests : req[r] \notin {Idle, Done}}

-----------------------------------------------------------------------------
(* sessionLifetime.ts                                                        *)
IdleWindow(persistent) == IF persistent THEN PersistentTtl ELSE ShortTtl

InitialExpiry(persistent) == now + Min({IdleWindow(persistent), MaxAge})

RenewalTarget(s) ==
  Min({now + IdleWindow(session[s].persistent), session[s].created + MaxAge})

Renews(s) ==
  /\ session[s].expires > now
  /\ RenewalTarget(s) - session[s].expires >= RenewInterval

-----------------------------------------------------------------------------
(* An unknown address, or a verified user with or without a session.         *)
AccountsInit ==
  /\ now = 0
  /\ user \in [Users -> {Unregistered,
                         [status |-> "ACTIVE", password |-> 1, verified |-> TRUE,
                          linked |-> FALSE, named |-> TRUE, paused |-> NotPaused]}]
  /\ \E open \in SUBSET Sessions, u \in Users, persistent \in BOOLEAN :
       /\ open # {} => user[u].status = "ACTIVE" /\ Cardinality(open) = 1
       /\ session = [s \in Sessions |->
                      IF s \in open
                      THEN [user |-> u, expires |-> Min({IdleWindow(persistent), MaxAge}),
                            created |-> 0, persistent |-> persistent, password |-> 1,
                            swept |-> FALSE]
                      ELSE NoRow]
  /\ token = [t \in Tokens |-> NoRow]
  /\ asked = [u \in Users |-> -1]
  /\ req = [r \in Requests |-> Idle]
  /\ passwords = 1 /\ halfReset = {} /\ crowded = {}

(* Requests, each used once.  swept: the user's sessions were deleted while  *)
(* it was under way.                                                         *)
Begin(r, q) ==
  /\ req[r] = Idle
  /\ req' = [req EXCEPT ![r] = q]
  /\ UNCHANGED <<now, tables, asked, history>>

Ops == {"register", "verification", "login", "oauth", "resetRequest", "signOut", "delete",
        "enable", "disable", "pause", "resume"}

\* Where the handler of an operation starts.
Entry == [register |-> "find", verification |-> "byEmail", login |-> "credentials",
          oauth |-> "provider", resetRequest |-> "forgot", signOut |-> "load",
          delete |-> "load", enable |-> "load", disable |-> "load", pause |-> "load",
          resume |-> "load"]

Request(r) ==
  \/ \E u \in Users, op \in Ops, yes \in BOOLEAN :
       /\ op \notin {"login", "oauth"} => yes
       /\ Begin(r, [op |-> op, pc |-> Entry[op], user |-> u, persistent |-> yes, swept |-> FALSE,
                    password |-> 0])
  \/ \E s \in Rows(session), op \in {"use", "profile", "logout"} :
       Begin(r, [op |-> op, pc |-> IF op = "logout" THEN "logout" ELSE "attach",
                 user |-> session[s].user, session |-> s, swept |-> FALSE])
  \/ \E t \in Rows(token) :
       Begin(r, [op |-> token[t].kind, pc |-> "token", user |-> token[t].user, token |-> t,
                 swept |-> FALSE])

At(r, pc) == req[r].pc = pc
Goes(r, q) == req' = [req EXCEPT ![r] = q]
To(r, pc) == Goes(r, [req[r] EXCEPT !.pc = pc])
Ends(r) == Goes(r, Done)
OrEnds(r, condition, pc) == IF condition THEN To(r, pc) ELSE Ends(r)
Reads == UNCHANGED <<now, tables, asked, history>>
Row(r) == user[req[r].user]
Active(r) == Row(r).status = "ACTIVE"
Update(r, row) == user' = [user EXCEPT ![req[r].user] = row]

-----------------------------------------------------------------------------
(* registerWithEmail, then the verification mail.                            *)
FindByEmail(r) ==
  /\ At(r, "find") /\ Reads
  /\ OrEnds(r, Row(r).status = "none", "create")

\* The e-mail address is unique: a second insert fails.
CreateUser(r) ==
  /\ At(r, "create") /\ Row(r).status = "none"
  /\ Update(r, [status |-> "ACTIVE", password |-> passwords + 1, verified |-> FALSE,
                linked |-> FALSE, named |-> TRUE, paused |-> NotPaused])
  /\ passwords' = passwords + 1
  /\ To(r, "verification") /\ UNCHANGED <<now, session, token, asked, halfReset, crowded>>

RequestByEmail(r) ==
  /\ At(r, "byEmail") /\ Reads
  /\ OrEnds(r, Active(r) /\ ~Row(r).verified, "verification")

CoolingDown(u) == asked[u] # -1 /\ now - asked[u] < ResendCooldown

(* Mutant: the time of the request is not kept.                              *)
RequestUnrecorded(r) ==
  /\ At(r, "verification")
  /\ OrEnds(r, Active(r) /\ ~Row(r).verified /\ ~CoolingDown(req[r].user), "void")
  /\ UNCHANGED <<now, tables, asked, history>>

(* requestEmailVerification: the cool-down is looked at and started without  *)
(* an await in between.                                                      *)
RequestVerification(r) ==
  /\ At(r, "verification")
  /\ LET ok == Active(r) /\ ~Row(r).verified /\ ~CoolingDown(req[r].user)
     IN /\ asked' = IF ok THEN [asked EXCEPT ![req[r].user] = now] ELSE asked
        /\ OrEnds(r, ok, "void")
  /\ UNCHANGED <<now, tables, history>>

Void(kind, u) ==
  token' = [t \in Tokens |-> IF t \in Rows(token) /\ token[t].kind = kind /\ token[t].user = u
                             THEN [token[t] EXCEPT !.used = TRUE] ELSE token[t]]

VoidLinks(r) ==
  /\ At(r, "void")
  /\ Void(IF req[r].op = "resetRequest" THEN "reset" ELSE "verify", req[r].user)
  /\ To(r, "link") /\ UNCHANGED <<now, user, session, asked, history>>

\* The mail that follows changes nothing here, whether it is sent or not.
CreateLink(r) ==
  /\ At(r, "link")
  /\ \E t \in Tokens :
       /\ token[t] = NoRow
       /\ token' = [token EXCEPT ![t] =
            [kind |-> IF req[r].op = "resetRequest" THEN "reset" ELSE "verify",
             user |-> req[r].user, expires |-> now + LinkLife, used |-> FALSE, spent |-> FALSE]]
  /\ Ends(r) /\ UNCHANGED <<now, user, session, asked, history>>

Forgot(r) ==
  /\ At(r, "forgot") /\ Reads
  /\ OrEnds(r, Active(r), "void")

Usable(t) == t \in Rows(token) /\ ~token[t].used /\ token[t].expires > now

(* confirmEmailVerification and confirmPasswordReset: the link is judged     *)
(* once, then the user is read.                                              *)
FindToken(r) ==
  /\ At(r, "token") /\ Reads
  /\ OrEnds(r, Usable(req[r].token), "owner")

FindOwner(r) ==
  /\ At(r, "owner") /\ Reads
  /\ OrEnds(r, Active(r),
            IF req[r].op = "reset" THEN "voidReset"
            ELSE IF Row(r).verified THEN "markOnly" ELSE "markVerified")

MarkVerified(r) ==
  /\ At(r, "markVerified") \/ At(r, "markOnly")
  /\ req[r].token \in Rows(token)
  /\ token' = [token EXCEPT ![req[r].token].used = TRUE]
  /\ OrEnds(r, At(r, "markVerified"), "verify") /\ UNCHANGED <<now, user, session, asked, history>>

Verify(r) ==
  /\ At(r, "verify")
  /\ Update(r, [Row(r) EXCEPT !.verified = TRUE])
  /\ Ends(r) /\ UNCHANGED <<now, session, token, asked, history>>

(* confirmPasswordReset: every open link is voided, the password written,    *)
(* the sessions deleted and the link marked, one after the other.            *)
VoidResetLinks(r) ==
  /\ At(r, "voidReset")
  /\ Void("reset", req[r].user)
  /\ To(r, "password") /\ UNCHANGED <<now, user, session, asked, history>>

(* Mutant: the sessions are left alone.                                      *)
WritePasswordOnly(r) ==
  /\ At(r, "password")
  /\ Update(r, [Row(r) EXCEPT !.password = passwords + 1])
  /\ passwords' = passwords + 1
  /\ token' = [t \in Tokens |-> IF t = req[r].token /\ t \in Rows(token)
                               THEN [token[t] EXCEPT !.spent = TRUE] ELSE token[t]]
  /\ To(r, "markReset") /\ UNCHANGED <<now, session, asked, halfReset, crowded>>

WritePassword(r) ==
  /\ At(r, "password")
  /\ Update(r, [Row(r) EXCEPT !.password = passwords + 1])
  /\ passwords' = passwords + 1
  /\ token' = [t \in Tokens |-> IF t = req[r].token /\ t \in Rows(token)
                               THEN [token[t] EXCEPT !.spent = TRUE] ELSE token[t]]
  /\ To(r, "sweep") /\ UNCHANGED <<now, session, asked, halfReset, crowded>>

\* deleteSessionsByUserId, and what it means for the requests under way.
Without(u) == [s \in Sessions |-> IF s \in Rows(session) /\ session[s].user = u
                                THEN Erased ELSE session[s]]
Swept(u) == [r \in Requests |-> IF r \in UnderWay /\ req[r].user = u
                               THEN [req[r] EXCEPT !.swept = TRUE] ELSE req[r]]

SweepSessions(r) ==
  /\ At(r, "sweep")
  /\ session' = Without(req[r].user)
  /\ halfReset' = halfReset \ {req[r].user}
  /\ req' = [Swept(req[r].user) EXCEPT ![r].pc = "markReset"]
  /\ UNCHANGED <<now, user, token, asked, passwords, crowded>>

MarkReset(r) ==
  /\ At(r, "markReset") /\ req[r].token \in Rows(token)
  /\ token' = [token EXCEPT ![req[r].token].used = TRUE]
  /\ Ends(r) /\ UNCHANGED <<now, user, session, asked, history>>

-----------------------------------------------------------------------------
(* loginWithEmail: the row is read, the password checked against what was    *)
(* read (any password the user ever had may be typed), the session created.  *)
CheckCredentials(r) ==
  /\ At(r, "credentials") /\ Reads
  /\ IF Active(r) /\ Row(r).password # 0 /\ Row(r).verified
     THEN Goes(r, [req[r] EXCEPT !.pc = "open", !.password = Row(r).password])
     ELSE Ends(r)

CreateSession(r) ==
  /\ At(r, "open")
  /\ \E s \in Sessions :
       /\ session[s] = NoRow
       /\ session' = [session EXCEPT ![s] =
            [user |-> req[r].user, expires |-> InitialExpiry(req[r].persistent), created |-> now,
             persistent |-> req[r].persistent, password |-> req[r].password,
             swept |-> req[r].swept]]
  /\ Ends(r) /\ UNCHANGED <<now, user, token, asked, history>>

(* signInWithVerifiedOAuth: by the provider account, else by the e-mail,     *)
(* which links an existing user when the provider vouches for the address.   *)
FindProviderAccount(r) ==
  /\ At(r, "provider") /\ Reads
  /\ IF Row(r).linked
     THEN IF Active(r) THEN Goes(r, [req[r] EXCEPT !.pc = "open", !.password = Row(r).password])
          ELSE Ends(r)
     ELSE \E vouched \in BOOLEAN :
            CASE Row(r).status = "none" ->
                   To(r, IF vouched THEN "createVerified" ELSE "createUnverified")
              [] Active(r) /\ vouched -> To(r, IF Row(r).verified THEN "linkOnly" ELSE "vouch")
              [] OTHER -> Ends(r)

CreateOAuthUser(r) ==
  /\ At(r, "createVerified") \/ At(r, "createUnverified")
  /\ Row(r).status = "none"
  /\ Update(r, [status |-> "ACTIVE", password |-> 0, verified |-> At(r, "createVerified"),
                linked |-> FALSE, named |-> TRUE, paused |-> NotPaused])
  /\ To(r, "linkOnly") /\ UNCHANGED <<now, session, token, asked, history>>

VouchEmail(r) ==
  /\ At(r, "vouch")
  /\ Update(r, [Row(r) EXCEPT !.verified = TRUE])
  /\ To(r, "linkOnly") /\ UNCHANGED <<now, session, token, asked, history>>

\* A provider account belongs to one user: a second insert fails.
CreateProviderAccount(r) ==
  /\ At(r, "linkOnly") /\ ~Row(r).linked
  /\ Update(r, [Row(r) EXCEPT !.linked = TRUE])
  /\ Goes(r, [req[r] EXCEPT !.pc = "open", !.password = Row(r).password])
  /\ UNCHANGED <<now, session, token, asked, history>>

-----------------------------------------------------------------------------
(* attachAuthUser: session and user in one query; the renewal is a compare   *)
(* and set on the expiry that was read, and its failure is ignored.          *)
Attach(r) ==
  /\ At(r, "attach") /\ Reads
  /\ LET s == req[r].session
         next == IF req[r].op = "profile" THEN "profile" ELSE "done"
     IN IF s \in Rows(session) /\ session[s].expires > now /\ Active(r)
        THEN IF Renews(s)
             THEN Goes(r, [op |-> req[r].op, pc |-> "renew", user |-> req[r].user, session |-> s,
                           read |-> session[s].expires, target |-> RenewalTarget(s),
                           swept |-> req[r].swept])
             ELSE OrEnds(r, req[r].op = "profile", "profile")
        ELSE Ends(r)

RenewSession(r) ==
  /\ At(r, "renew")
  /\ LET s == req[r].session
     IN session' = IF s \in Rows(session) /\ session[s].expires = req[r].read
                   THEN [session EXCEPT ![s].expires = req[r].target] ELSE session
  /\ OrEnds(r, req[r].op = "profile", "profile")
  /\ UNCHANGED <<now, user, token, asked, history>>

\* updateProfile: the name is written by id.
WriteProfile(r) ==
  /\ At(r, "profile")
  /\ Update(r, [Row(r) EXCEPT !.named = TRUE])
  /\ Ends(r) /\ UNCHANGED <<now, session, token, asked, history>>

Logout(r) ==
  /\ At(r, "logout")
  /\ session' = [session EXCEPT ![req[r].session] = Erased]
  /\ Ends(r) /\ UNCHANGED <<now, user, token, asked, history>>

-----------------------------------------------------------------------------
(* accountActionService by a super administrator who is none of the users;   *)
(* each effect is one transaction.                                           *)
\* getActiveAgentPause: a pause that has ended is none.
PauseIsActive(row) == row.paused # NotPaused /\ row.paused > now

LoadTarget(r) ==
  /\ At(r, "load") /\ Reads
  /\ OrEnds(r, Row(r).status \notin ({"none", "DELETED"} \union
                 (CASE req[r].op = "enable" -> {"ACTIVE"}
                    [] req[r].op = "disable" -> {"DISABLED"}
                    [] OTHER -> {}))
              /\ (req[r].op = "resume" => PauseIsActive(Row(r))),
            req[r].op)

Enable(r) ==
  /\ At(r, "enable") /\ Row(r).status # "DELETED"
  /\ Update(r, [Row(r) EXCEPT !.status = "ACTIVE"])
  /\ Ends(r) /\ UNCHANGED <<now, session, token, asked, history>>

Disable(r) ==
  /\ At(r, "disable") /\ Row(r).status # "DELETED"
  /\ Update(r, [Row(r) EXCEPT !.status = "DISABLED"])
  /\ session' = Without(req[r].user)
  /\ req' = [Swept(req[r].user) EXCEPT ![r] = Done]
  /\ UNCHANGED <<now, token, asked, history>>

(* A pause for a while or for ever; written, as it is lifted, only on an      *)
(* account that is not deleted.                                              *)
PauseAgent(r) ==
  /\ At(r, "pause") /\ Row(r).status # "DELETED"
  /\ \E until \in {now + 1, Indefinite} : Update(r, [Row(r) EXCEPT !.paused = until])
  /\ Ends(r) /\ UNCHANGED <<now, session, token, asked, history>>

ResumeAgent(r) ==
  /\ At(r, "resume") /\ Row(r).status # "DELETED"
  /\ Update(r, [Row(r) EXCEPT !.paused = NotPaused])
  /\ Ends(r) /\ UNCHANGED <<now, session, token, asked, history>>

RevokeSessions(r) ==
  /\ At(r, "signOut")
  /\ session' = Without(req[r].user)
  /\ req' = [Swept(req[r].user) EXCEPT ![r] = Done]
  /\ UNCHANGED <<now, user, token, asked, history>>

(* Mutant: the sign-in links of a deleted account are kept.                  *)
AnonymizeKeepingLinks(r) ==
  /\ At(r, "delete") /\ Row(r).status # "DELETED"
  /\ Update(r, [Row(r) EXCEPT !.status = "DELETED", !.password = 0, !.verified = FALSE,
                              !.named = FALSE, !.paused = NotPaused])
  /\ session' = Without(req[r].user)
  /\ token' = [t \in Tokens |-> IF t \in Rows(token) /\ token[t].user = req[r].user
                               THEN Erased ELSE token[t]]
  /\ req' = [Swept(req[r].user) EXCEPT ![r] = Done]
  /\ crowded' = crowded \union {u \in {req[r].user} :
                                 \E x \in UnderWay \ {r} : req[x].user = u}
  /\ UNCHANGED <<now, asked, passwords, halfReset>>

Anonymize(r) ==
  /\ At(r, "delete") /\ Row(r).status # "DELETED"
  /\ Update(r, [Unregistered EXCEPT !.status = "DELETED"])
  /\ session' = Without(req[r].user)
  /\ token' = [t \in Tokens |-> IF t \in Rows(token) /\ token[t].user = req[r].user
                               THEN Erased ELSE token[t]]
  /\ req' = [Swept(req[r].user) EXCEPT ![r] = Done]
  /\ crowded' = crowded \union {u \in {req[r].user} :
                                 \E x \in UnderWay \ {r} : req[x].user = u}
  /\ UNCHANGED <<now, asked, passwords, halfReset>>

(* A failing statement ends the request where it is.                         *)
Fails(r) ==
  /\ r \in UnderWay
  /\ halfReset' = halfReset \union {u \in {req[r].user} : At(r, "sweep")}
  /\ Ends(r) /\ UNCHANGED <<now, tables, asked, passwords, crowded>>

(* A statement takes less than the cool-down, so time waits for a link that  *)
(* is about to be written; elsewhere a request may take as long as it wants. *)
Tick ==
  /\ now < MaxTime
  /\ \A r \in Requests : ~At(r, "void") /\ ~At(r, "link")
  /\ now' = now + 1
  /\ UNCHANGED <<tables, asked, req, history>>

-----------------------------------------------------------------------------
Step(r) ==
  \/ FindByEmail(r) \/ CreateUser(r) \/ RequestByEmail(r) \/ RequestVerification(r)
  \/ VoidLinks(r) \/ CreateLink(r) \/ Forgot(r) \/ FindToken(r) \/ FindOwner(r)
  \/ MarkVerified(r) \/ Verify(r)
  \/ VoidResetLinks(r) \/ WritePassword(r) \/ SweepSessions(r) \/ MarkReset(r)
  \/ CheckCredentials(r) \/ CreateSession(r)
  \/ FindProviderAccount(r) \/ CreateOAuthUser(r) \/ VouchEmail(r) \/ CreateProviderAccount(r)
  \/ Attach(r) \/ RenewSession(r) \/ WriteProfile(r) \/ Logout(r)
  \/ LoadTarget(r) \/ Enable(r) \/ Disable(r)
  \/ PauseAgent(r) \/ ResumeAgent(r) \/ RevokeSessions(r) \/ Anonymize(r)

AccountsNext == Tick \/ \E r \in Requests : Request(r) \/ Step(r) \/ Fails(r)

AccountsSpec == AccountsInit /\ [][AccountsNext]_accountVars

-----------------------------------------------------------------------------
Resetting(u) == \E r \in Requests : At(r, "sweep") /\ req[r].user = u

(* A password reset ends what the old password opened: a session opened with *)
(* an earlier password was being opened when the sessions were deleted, or   *)
(* their deletion is still to come or has failed.  And a link that has set a *)
(* password cannot be used again, even when the reset failed half-way.       *)
ResetIsFinal ==
  /\ \A s \in Rows(session) :
       LET u == session[s].user
       IN  \/ session[s].password = user[u].password \/ session[s].swept
           \/ Resetting(u) \/ u \in halfReset
  /\ \A t \in Rows(token) : token[t].spent => token[t].used

(* At any moment at most one verification link of a user works.              *)
OneVerificationLink ==
  \A t, x \in Rows(token) :
    t # x /\ token[t].kind = "verify" /\ token[x].kind = "verify" /\ Usable(t) /\ Usable(x)
    => token[t].user # token[x].user

(* Deleting an account leaves nothing to sign in with and nothing personal,  *)
(* unless a request of that user was under way: requests that come later are *)
(* all turned away.                                                          *)
DeletedIsErased ==
  \A u \in Users : user[u].status = "DELETED" /\ u \notin crowded =>
    /\ user[u] = [Unregistered EXCEPT !.status = "DELETED"]
    /\ \A s \in Rows(session) : session[s].user # u
    /\ \A t \in Rows(token) : token[t].user # u
=============================================================================
