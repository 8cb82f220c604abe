------------------------ MODULE AccountsAndLinksProofs ------------------------
(***************************************************************************)
(* What sign-in keeps true (Accounts.tla) for any number of users,         *)
(* requests, sessions and links, and what the links of a trip, its review  *)
(* mail and the caches keep true (ClientLinks.tla).  Both invariants say   *)
(* of every request under way what its reads have established and the      *)
(* steps of others leave true.                                             *)
(***************************************************************************)
EXTENDS Accounts, ClientLinks, SequenceTheorems, FiniteSetTheorems, TLAPS

(* Accounts. Knows is what a request relies on, RowsFit what the rows owe it.  *)
Statuses == {"none", "ACTIVE", "DISABLED", "DELETED"}
AccountRow ==
  [status : Statuses, password : Nat, verified : BOOLEAN, linked : BOOLEAN, named : BOOLEAN,
   paused : Int]
SessionRow ==
  [user : Users, expires : Nat, created : Nat, persistent : BOOLEAN, password : Nat,
   swept : BOOLEAN]
TokenRow ==
  [kind : {"verify", "reset"}, user : Users, expires : Nat, used : BOOLEAN, spent : BOOLEAN]

(* The requests, by what they carry and where they can stand.                *)
Orders == {"signOut", "delete", "enable", "disable", "pause", "resume"}
ByUser ==
  {q \in [op : Ops,
          pc : {"find", "create", "byEmail", "verification", "forgot", "void", "link",
                "credentials", "provider", "createVerified", "createUnverified", "vouch",
                "linkOnly", "open", "load"} \union Orders,
          user : Users, persistent : BOOLEAN, swept : BOOLEAN, password : Nat] :
     /\ q.pc = "forgot" => q.op = "resetRequest"
     /\ q.pc = "load" => q.op \in Orders}
BySession ==
  [op : {"use", "profile", "logout"}, pc : {"attach", "profile", "logout"}, user : Users,
   session : Sessions, swept : BOOLEAN]
Renewing ==
  [op : {"use", "profile", "logout"}, pc : {"renew", "profile"}, user : Users,
   session : Sessions, read : Nat, target : Nat, swept : BOOLEAN]
ByToken ==
  [op : {"verify", "reset"},
   pc : {"token", "owner", "markVerified", "markOnly", "verify", "voidReset", "password",
         "sweep", "markReset"},
   user : Users, token : Tokens, swept : BOOLEAN]

Busy == ByUser \union BySession \union Renewing \union ByToken

AccountsTypeOK ==
  /\ now \in Nat /\ passwords \in Nat
  /\ user \in [Users -> AccountRow]
  /\ session \in [Sessions -> SessionRow \union {NoRow, Erased}]
  /\ token \in [Tokens -> TokenRow \union {NoRow, Erased}]
  /\ asked \in [Users -> Nat \union {-1}]
  /\ req \in [Requests -> Busy \union {Idle, Done}]
  /\ halfReset \subseteq Users /\ crowded \subseteq Users

-----------------------------------------------------------------------------
(* A password that is not the user's any more is on its way out.             *)
Accounted(u, password, swept) ==
  password = user[u].password \/ swept \/ Resetting(u) \/ u \in halfReset

(* Where a request can be that came after its user was deleted.              *)
FirstPlaces == {"find", "byEmail", "credentials", "provider", "forgot", "load"}
Deleted(u) == user[u].status = "DELETED" /\ u \notin crowded

LinksOf(u, kind) == {t \in Rows(token) : token[t].kind = kind /\ token[t].user = u}
Writing(q) == q.pc \in {"void", "link"} /\ q.op # "resetRequest"

Informed(q) ==
  /\ q.pc = "open" => Accounted(q.user, q.password, q.swept)
  /\ q.pc \in {"open", "linkOnly", "vouch"} => user[q.user].status # "none"
  /\ q.pc \in {"token", "owner", "voidReset"} =>
       token[q.token] = Erased \/ q.token \in LinksOf(q.user, q.op)
  /\ q.pc = "voidReset" => q.op = "reset"
  /\ q.pc = "password" =>
       token[q.token] = Erased \/ (q.token \in Rows(token) /\ token[q.token].used)
  /\ Writing(q) => asked[q.user] = now
  /\ Writing(q) /\ q.pc = "link" => \A t \in LinksOf(q.user, "verify") : token[t].used

TurnedAway(q) == q \in Busy /\ Deleted(q.user) => q.pc \in FirstPlaces

Knows(q) == Informed(q) /\ TurnedAway(q)

SessionsFit ==
  \A s \in Rows(session) :
    /\ Accounted(session[s].user, session[s].password, session[s].swept)
    /\ user[session[s].user].status # "none"

LinksFit ==
  /\ \A t \in Rows(token) : token[t].spent => token[t].used
  /\ \A u \in Users : \A t, x \in LinksOf(u, "verify") : ~token[t].used /\ ~token[x].used => t = x

RequestsFit ==
  /\ \A r \in Requests : \A q \in {req[r]} : Knows(q)
  /\ \A r, x \in Requests :
       Writing(req[r]) /\ Writing(req[x]) /\ req[r].user = req[x].user => r = x

AccountsInvariant ==
  AccountsTypeOK /\ SessionsFit /\ LinksFit /\ RequestsFit /\ DeletedIsErased
-----------------------------------------------------------------------------
(* Rows and requests.                                                        *)
LEMMA RowKinds ==
  /\ \A x \in SessionRow : x \notin {NoRow, Erased}
  /\ \A x \in TokenRow : x \notin {NoRow, Erased}
  /\ NoRow # Erased
<1>1. ASSUME NEW x \in SessionRow PROVE x \notin {NoRow, Erased}
  <2>1. "created" \in DOMAIN x
    BY DEF SessionRow
  <2>2. "created" \notin DOMAIN NoRow /\ "created" \notin DOMAIN Erased
    BY DEF NoRow, Erased
  <2> QED BY <2>1, <2>2
<1>2. ASSUME NEW x \in TokenRow PROVE x \notin {NoRow, Erased}
  <2>1. "kind" \in DOMAIN x
    BY DEF TokenRow
  <2>2. "kind" \notin DOMAIN NoRow /\ "kind" \notin DOMAIN Erased
    BY DEF NoRow, Erased
  <2> QED BY <2>1, <2>2
<1>3. NoRow.user # Erased.user
  BY DEF NoRow, Erased
<1> QED BY <1>1, <1>2, <1>3

LEMMA RowsOfTable ==
  ASSUME NEW table, NEW Ids, NEW S, table \in [Ids -> S \union {NoRow, Erased}],
         \A x \in S : x \notin {NoRow, Erased}
  PROVE  Rows(table) \subseteq Ids /\ \A i \in Ids : i \in Rows(table) <=> table[i] \in S
BY DEF Rows

LEMMA SessionRows ==
  ASSUME session \in [Sessions -> SessionRow \union {NoRow, Erased}]
  PROVE  /\ Rows(session) \subseteq Sessions
         /\ \A s \in Sessions : s \in Rows(session) <=> session[s] \in SessionRow
BY RowKinds DEF Rows

LEMMA TokenRows ==
  ASSUME token \in [Tokens -> TokenRow \union {NoRow, Erased}]
  PROVE  /\ Rows(token) \subseteq Tokens
         /\ \A t \in Tokens : t \in Rows(token) <=> token[t] \in TokenRow
BY RowKinds DEF Rows

(* A request that is not under way stands nowhere.                           *)
LEMMA Standing ==
  /\ \A q \in Busy : q.user \in Users /\ q.swept \in BOOLEAN /\ q # Idle /\ q # Done
                    /\ q.pc \notin {"idle", "done"}
  /\ \A q \in {Idle, Done} : q.pc \in {"idle", "done"} /\ q \notin Busy
<1>1. ASSUME NEW q \in Busy
      PROVE  q.user \in Users /\ q.swept \in BOOLEAN /\ q.pc \notin {"idle", "done"}
  BY DEF Busy, ByUser, BySession, Renewing, ByToken, Orders
<1>2. \A q \in {Idle, Done} : q.pc \in {"idle", "done"}
  BY DEF Idle, Done
<1> QED BY <1>1, <1>2

(* Where a request stands tells what it carries.                             *)
LEMMA StandsAs ==
  ASSUME NEW q \in Busy \union {Idle, Done}
  PROVE  /\ q.pc \in {"find", "create", "byEmail", "verification", "forgot", "void", "link",
                     "credentials", "provider", "createVerified", "createUnverified", "vouch",
                     "linkOnly", "open", "load"} \union Orders => q \in ByUser
         /\ q.pc \in {"attach", "logout"} => q \in BySession
         /\ q.pc = "renew" => q \in Renewing
         /\ q.pc = "profile" => q \in BySession \union Renewing
         /\ q.pc \in {"token", "owner", "markVerified", "markOnly", "verify", "voidReset",
                     "password", "sweep", "markReset"} => q \in ByToken
  BY DEF Busy, ByUser, BySession, Renewing, ByToken, Orders, Idle, Done

(* A request that moves on carries what it carried.                          *)
LEMMA MovesOn ==
  ASSUME NEW q, NEW pc
  PROVE  /\ /\ q \in ByUser /\ pc # "forgot" /\ pc # "load"
            /\ pc \in {"find", "create", "byEmail", "verification", "void", "link",
                       "credentials", "provider", "createVerified", "createUnverified",
                       "vouch", "linkOnly", "open"} \union Orders
            => [q EXCEPT !.pc = pc] \in ByUser
         /\ q \in BySession /\ pc \in {"attach", "profile", "logout"} =>
              [q EXCEPT !.pc = pc] \in BySession
         /\ q \in Renewing /\ pc \in {"renew", "profile"} => [q EXCEPT !.pc = pc] \in Renewing
         /\ /\ q \in ByToken
            /\ pc \in {"token", "owner", "markVerified", "markOnly", "verify", "voidReset",
                       "password", "sweep", "markReset"}
            => [q EXCEPT !.pc = pc] \in ByToken
  BY DEF ByUser, BySession, Renewing, ByToken, Orders

LEMMA OnlyPlace ==
  ASSUME NEW q \in Busy, NEW pc, NEW s, s = [q EXCEPT !.pc = pc]
  PROVE  /\ s.pc = pc /\ s.user = q.user /\ s.op = q.op /\ s.swept = q.swept
         /\ q \in ByToken => s.token = q.token
         /\ q \in ByUser => s.password = q.password
  BY DEF Busy, ByUser, BySession, Renewing, ByToken

-----------------------------------------------------------------------------
(* Most steps change one request and little else: sessions may end or be     *)
(* opened, links be used, and a user who is not deleted may change, but for  *)
(* the password.                                                             *)
Admitted(u, password, swept) ==
  Accounted(u, password, swept) /\ user[u].status # "none" /\ ~Deleted(u)

KeepsSessions ==
  /\ session' \in [Sessions -> SessionRow \union {NoRow, Erased}]
  /\ \A s \in Sessions : session'[s] \in SessionRow =>
       \/ /\ session[s] \in SessionRow
          /\ session'[s].user = session[s].user
          /\ session'[s].password = session[s].password
          /\ session'[s].swept = session[s].swept
       \/ Admitted(session'[s].user, session'[s].password, session'[s].swept)

KeepsTokens ==
  /\ token' \in [Tokens -> TokenRow \union {NoRow, Erased}]
  /\ \A t \in Tokens :
       \/ token'[t] = token[t]
       \/ /\ token[t] \in TokenRow /\ token'[t] \in TokenRow
          /\ token'[t].kind = token[t].kind /\ token'[t].user = token[t].user
          /\ token'[t].spent = token[t].spent /\ token'[t].used

Revised(u) ==
  /\ ~Deleted(u)
  /\ user'[u].status = "none" => user[u].status = "none"
  /\ user'[u].status = "DELETED" => user[u].status = "DELETED"
  /\ user'[u].password = user[u].password \/ user[u].status = "none"

KeepsUsers ==
  /\ user' \in [Users -> AccountRow]
  /\ \A u \in Users : user'[u] = user[u] \/ Revised(u)

LEMMA UsersKept ==
  ASSUME KeepsUsers, crowded' = crowded, NEW u \in Users
  PROVE  /\ user[u].status # "none" => user'[u].status # "none"
         /\ user[u].status # "none" => user'[u].password = user[u].password
         /\ Deleted(u)' => Deleted(u) /\ user'[u] = user[u]
BY DEF KeepsUsers, Revised, Deleted

LEMMA AccountedStill ==
  ASSUME KeepsUsers, UNCHANGED <<crowded, halfReset>>, NEW u \in Users, NEW p, NEW swept,
         Resetting(u) => Resetting(u)', user[u].status # "none", Accounted(u, p, swept)
  PROVE  Accounted(u, p, swept)'
<1>1. user'[u].password = user[u].password
  BY UsersKept
<1> QED BY <1>1 DEF Accounted

LEMMA TokensKept ==
  ASSUME AccountsTypeOK, KeepsTokens
  PROVE  /\ \A t \in Tokens : t \in Rows(token)' <=> t \in Rows(token)
         /\ \A u, k : LinksOf(u, k)' = LinksOf(u, k)
         /\ \A t \in Rows(token) : token[t].used => token'[t].used
         /\ \A t \in Rows(token) : token'[t].spent = token[t].spent \/ token'[t].used
         /\ \A t \in Tokens : token[t] = Erased => token'[t] = Erased
<1>1. /\ Rows(token) \subseteq Tokens /\ Rows(token)' \subseteq Tokens
      /\ \A t \in Tokens : t \in Rows(token) <=> token[t] \in TokenRow
      /\ \A t \in Tokens : t \in Rows(token)' <=> token'[t] \in TokenRow
  BY TokenRows, RowKinds DEF AccountsTypeOK, KeepsTokens, Rows
<1>2. \A t \in Tokens : t \in Rows(token)' <=> t \in Rows(token)
  BY <1>1 DEF KeepsTokens
<1>3. ASSUME NEW t \in Rows(token)
      PROVE  /\ token'[t].kind = token[t].kind /\ token'[t].user = token[t].user
             /\ token[t].used => token'[t].used
             /\ token'[t].spent = token[t].spent
  BY <1>1 DEF KeepsTokens
<1>4. \A u, k : LinksOf(u, k)' = LinksOf(u, k)
  BY <1>1, <1>2, <1>3 DEF LinksOf
<1>5. \A t \in Tokens : token[t] = Erased => token'[t] = Erased
  BY <1>1, RowKinds DEF KeepsTokens
<1> QED BY <1>2, <1>3, <1>4, <1>5

(* What another request knows stays true.                                    *)
LEMMA KnowsStill ==
  ASSUME AccountsInvariant, KeepsUsers, KeepsTokens, UNCHANGED <<now, asked, crowded, halfReset>>,
         \A u \in Users : Resetting(u) => Resetting(u)',
         NEW q \in Busy \union {Idle, Done}, Knows(q)
  PROVE  Knows(q)'
<1>1. CASE q \in {Idle, Done}
  BY <1>1, Standing DEF Knows, Informed, TurnedAway, Writing
<1>2. CASE q \in Busy
  <2>1. q.user \in Users /\ q.swept \in BOOLEAN
    BY <1>2, Standing
  <2>2. q.pc = "open" => Accounted(q.user, q.password, q.swept)'
    BY <2>1, AccountedStill DEF Knows, Informed
  <2>3. q.pc \in {"open", "linkOnly", "vouch"} => user'[q.user].status # "none"
    BY <2>1, UsersKept DEF Knows, Informed
  <2>4. q.pc \in {"token", "owner", "voidReset", "password"} => q.token \in Tokens
    BY StandsAs DEF ByToken
  <2>5. /\ \A t \in Tokens : t \in Rows(token)' <=> t \in Rows(token)
        /\ \A u, k : LinksOf(u, k)' = LinksOf(u, k)
        /\ \A t \in Rows(token) : token[t].used => token'[t].used
        /\ \A t \in Tokens : token[t] = Erased => token'[t] = Erased
    BY TokensKept DEF AccountsInvariant
  <2>6. q.pc \in {"token", "owner", "voidReset"} =>
          token'[q.token] = Erased \/ q.token \in LinksOf(q.user, q.op)'
    BY <2>4, <2>5 DEF Knows, Informed
  <2>7. q.pc = "password" =>
          token'[q.token] = Erased \/ (q.token \in Rows(token)' /\ token'[q.token].used)
    BY <2>4, <2>5 DEF Knows, Informed
  <2>8. Writing(q) => asked'[q.user] = now'
    BY DEF Knows, Informed
  <2>9. Writing(q) /\ q.pc = "link" => \A t \in LinksOf(q.user, "verify")' : token'[t].used
    BY <2>5 DEF Knows, Informed, LinksOf
  <2>10. TurnedAway(q)'
    BY <2>1, UsersKept DEF Knows, TurnedAway
  <2>11. q.pc = "voidReset" => q.op = "reset"
    BY DEF Knows, Informed
  <2>12. Informed(q)'
    BY <2>2, <2>3, <2>6, <2>7, <2>8, <2>9, <2>11 DEF Informed, Writing
  <2> QED BY <2>10, <2>12 DEF Knows
<1> QED BY <1>1, <1>2

LEMMA OrdinaryStep ==
  ASSUME AccountsInvariant, NEW r \in Requests, NEW q \in Busy \union {Done},
         req' = [req EXCEPT ![r] = q], ~At(r, "sweep"),
         UNCHANGED <<now, asked, halfReset, crowded>>, passwords' \in Nat,
         KeepsSessions, KeepsTokens, KeepsUsers,
         Informed(q)', TurnedAway(q),
         Writing(q) => Writing(req[r]) /\ q.user = req[r].user
  PROVE  AccountsInvariant'
<1> USE DEF AccountsInvariant
<1>1. req' \in [Requests -> Busy \union {Idle, Done}] /\ req'[r] = q
      /\ \A x \in Requests \ {r} : req'[x] = req[x]
  BY DEF AccountsTypeOK
<1>2. AccountsTypeOK'
  BY <1>1 DEF AccountsTypeOK, KeepsSessions, KeepsTokens, KeepsUsers
<1>3. \A u \in Users : Resetting(u) => Resetting(u)'
  BY <1>1 DEF Resetting, At
<1>4. ASSUME NEW x \in Requests \ {r}, NEW z \in {req'[x]} PROVE Knows(z)'
  <2>1. PICK p \in Busy \union {Idle, Done} : p = req[x]
    BY DEF AccountsTypeOK
  <2>2. Knows(p)
    BY <2>1 DEF RequestsFit
  <2>3. Knows(p)'
    BY <1>3, <2>2, KnowsStill
  <2>4. z = p
    BY <1>1, <2>1
  <2> QED BY <2>3, <2>4
<1>5. Knows(q)'
  <2>1. TurnedAway(q)'
    BY UsersKept, Standing DEF TurnedAway
  <2> QED BY <2>1 DEF Knows
<1>6. RequestsFit'
  <2>1. \A x \in Requests : \A z \in {req'[x]} : Knows(z)'
    BY <1>1, <1>4, <1>5
  <2>2. ASSUME NEW x \in Requests, NEW y \in Requests, Writing(req'[x]), Writing(req'[y]),
               req'[x].user = req'[y].user
        PROVE  x = y
    <3>1. \A z \in Requests : Writing(req'[z]) => Writing(req[z]) /\ req'[z].user = req[z].user
      BY <1>1
    <3> QED BY <2>2, <3>1 DEF RequestsFit
  <2> QED BY <2>1, <2>2, Zenon DEF RequestsFit
<1>7. \A s \in Rows(session)' :
        /\ session'[s].user \in Users
        /\ Admitted(session'[s].user, session'[s].password, session'[s].swept)
  <2>1. \A s \in Rows(session)' : s \in Sessions /\ session'[s] \in SessionRow
    <3>1. session' \in [Sessions -> SessionRow \union {NoRow, Erased}]
      BY DEF KeepsSessions
    <3>2. \A s \in Rows(session') : s \in Sessions /\ session'[s] \in SessionRow
      BY <3>1, RowsOfTable, RowKinds
    <3> QED BY <3>2
  <2>2. \A s \in Sessions : session[s] \in SessionRow =>
          Admitted(session[s].user, session[s].password, session[s].swept)
    <3>1. \A s \in Sessions : session[s] \in SessionRow => s \in Rows(session) /\ session[s].user \in Users
      BY SessionRows DEF AccountsTypeOK, SessionRow
    <3> QED BY <3>1 DEF SessionsFit, DeletedIsErased, Deleted, Admitted
  <2>3. \A s \in Sessions : session'[s] \in SessionRow => session'[s].user \in Users
    BY DEF SessionRow
  <2>4. ASSUME NEW s \in Rows(session)'
        PROVE  Admitted(session'[s].user, session'[s].password, session'[s].swept)
    <3>1. s \in Sessions /\ session'[s] \in SessionRow
      BY <2>1
    <3>2. CASE /\ session[s] \in SessionRow /\ session'[s].user = session[s].user
               /\ session'[s].password = session[s].password /\ session'[s].swept = session[s].swept
      BY <2>2, <3>1, <3>2
    <3> QED BY <3>1, <3>2 DEF KeepsSessions
  <2> QED BY <2>1, <2>3, <2>4
<1>8. SessionsFit'
  <2> SUFFICES ASSUME NEW s \in Rows(session)'
               PROVE  /\ Accounted(session[s].user, session[s].password, session[s].swept)'
                      /\ user'[session'[s].user].status # "none"
    BY DEF SessionsFit
  <2>1. PICK u, p, sw : /\ u \in Users /\ u = session'[s].user
                        /\ p = session'[s].password /\ sw = session'[s].swept
    BY <1>7
  <2>2. Accounted(u, p, sw) /\ user[u].status # "none"
    BY <1>7, <2>1 DEF Admitted
  <2>3. Accounted(u, p, sw)' /\ user'[u].status # "none"
    BY <1>3, <2>1, <2>2, AccountedStill, UsersKept
  <2> QED BY <2>1, <2>3
<1>9. LinksFit'
  <2>1. /\ \A t \in Rows(token)' : t \in Rows(token)
        /\ \A u, k : LinksOf(u, k)' = LinksOf(u, k)
        /\ \A t \in Rows(token) : token[t].used => token'[t].used
        /\ \A t \in Rows(token) : token'[t].spent = token[t].spent \/ token'[t].used
    BY <1>2, TokensKept, TokenRows, RowKinds DEF Rows, AccountsTypeOK
  <2>2. \A t \in Rows(token)' : token'[t].spent => token'[t].used
    BY <2>1 DEF LinksFit
  <2>3. \A u \in Users : \A t, x \in LinksOf(u, "verify")' : ~token'[t].used /\ ~token'[x].used => t = x
    <3>1. \A u \in Users : \A t \in LinksOf(u, "verify") : t \in Rows(token)
      BY DEF LinksOf
    <3> QED BY <2>1, <3>1 DEF LinksFit
  <2> QED BY <2>2, <2>3 DEF LinksFit
<1>10. DeletedIsErased'
  <2> SUFFICES ASSUME NEW u \in Users, user'[u].status = "DELETED", u \notin crowded'
               PROVE  /\ user'[u] = [Unregistered EXCEPT !.status = "DELETED"]
                      /\ \A s \in Rows(session)' : session'[s].user # u
                      /\ \A t \in Rows(token)' : token'[t].user # u
    BY DEF DeletedIsErased
  <2>1. Deleted(u) /\ user'[u] = user[u]
    BY UsersKept DEF Deleted
  <2>2. /\ user[u] = [Unregistered EXCEPT !.status = "DELETED"]
        /\ \A s \in Rows(session) : session[s].user # u
        /\ \A t \in Rows(token) : token[t].user # u
    BY <2>1 DEF DeletedIsErased, Deleted
  <2>3. \A t \in Rows(token)' : t \in Rows(token) /\ token'[t].user = token[t].user
    <3>1. token' \in [Tokens -> TokenRow \union {NoRow, Erased}]
      BY DEF KeepsTokens
    <3>2. \A t \in Rows(token') : t \in Tokens /\ token'[t] \in TokenRow
      BY <3>1, RowsOfTable, RowKinds
    <3>3. \A t \in Rows(token)' : t \in Rows(token)
      BY <3>2, TokensKept
    <3> QED BY <3>2, <3>3 DEF KeepsTokens
  <2>4. \A s \in Rows(session)' : session'[s].user # u
    BY <1>7, <2>1 DEF Admitted
  <2> QED BY <2>1, <2>2, <2>3, <2>4
<1> QED BY <1>2, <1>6, <1>8, <1>9, <1>10

-----------------------------------------------------------------------------
(* How a request goes on: it ends, or stands where it has to know nothing,   *)
(* or what it has to know it does.                                           *)
Continues(r, q) ==
  /\ q \in Busy \union {Done} /\ req' = [req EXCEPT ![r] = q]
  /\ Knows(q) /\ ~Writing(q)

Uninformed ==
  {"find", "create", "byEmail", "verification", "forgot", "credentials", "provider",
   "createVerified", "createUnverified", "load", "attach", "profile", "logout", "renew",
   "markVerified", "markOnly", "verify", "sweep", "markReset"} \union Orders

LEMMA OrdinaryRequest ==
  ASSUME AccountsInvariant, NEW r \in Requests, \E q : Continues(r, q), ~At(r, "sweep"),
         UNCHANGED <<now, asked, halfReset, crowded>>, passwords' \in Nat,
         KeepsSessions, KeepsTokens, KeepsUsers
  PROVE  AccountsInvariant'
<1>1. PICK q : Continues(r, q)
  OBVIOUS
<1>2. \A u \in Users : Resetting(u) => Resetting(u)'
  BY <1>1 DEF Resetting, At, Continues, AccountsInvariant, AccountsTypeOK
<1>3. q \in Busy \union {Done} /\ req' = [req EXCEPT ![r] = q] /\ Knows(q) /\ ~Writing(q)
  BY <1>1 DEF Continues
<1>4. Knows(q)'
  BY <1>2, <1>3, KnowsStill
<1> QED BY <1>3, <1>4, OrdinaryStep DEF Knows

LEMMA NothingTouched ==
  ASSUME AccountsTypeOK
  PROVE  /\ session' = session => KeepsSessions
         /\ token' = token => KeepsTokens
         /\ user' = user => KeepsUsers
BY DEF AccountsTypeOK, KeepsSessions, KeepsTokens, KeepsUsers

LEMMA ReadingRequest ==
  ASSUME AccountsInvariant, NEW r \in Requests, \E q : Continues(r, q), ~At(r, "sweep"), Reads
  PROVE  AccountsInvariant'
<1>1. UNCHANGED <<now, asked, halfReset, crowded>> /\ passwords' \in Nat
  BY DEF Reads, history, AccountsInvariant, AccountsTypeOK
<1>2. KeepsSessions /\ KeepsTokens /\ KeepsUsers
  BY NothingTouched DEF Reads, tables, AccountsInvariant
<1> QED BY <1>1, <1>2, OrdinaryRequest

LEMMA UnderWayIsBusy ==
  ASSUME AccountsInvariant, NEW r \in Requests
  PROVE  /\ req[r] \in Busy \union {Idle, Done}
         /\ req[r].pc \notin {"idle", "done"} => req[r] \in Busy /\ req[r].user \in Users
         /\ Knows(req[r])
         /\ req[r].pc \notin FirstPlaces \union {"idle", "done"} => ~Deleted(req[r].user)
<1>1. req[r] \in Busy \union {Idle, Done}
  BY DEF AccountsInvariant, AccountsTypeOK
<1>2. req[r].pc \notin {"idle", "done"} => req[r] \in Busy /\ req[r].user \in Users
  BY <1>1, Standing
<1>3. Knows(req[r])
  BY DEF AccountsInvariant, RequestsFit
<1>4. req[r].pc \notin FirstPlaces \union {"idle", "done"} => ~Deleted(req[r].user)
  BY <1>2, <1>3 DEF Knows, TurnedAway
<1> QED BY <1>1, <1>2, <1>3, <1>4

LEMMA Ending ==
  ASSUME NEW r, Ends(r)
  PROVE  \E q : Continues(r, q)
<1>1. Done \notin Busy /\ Done.pc = "done"
  BY Standing DEF Done
<1>2. Knows(Done) /\ ~Writing(Done)
  BY <1>1 DEF Knows, Informed, TurnedAway, Writing
<1> QED BY <1>2 DEF Continues, Ends, Goes

LEMMA KnowsNothing ==
  ASSUME NEW q \in Busy, q.pc \in Uninformed, ~Deleted(q.user) \/ q.pc \in FirstPlaces
  PROVE  Knows(q) /\ ~Writing(q)
BY DEF Knows, Informed, TurnedAway, Writing, Uninformed, Orders

LEMMA Onward ==
  ASSUME AccountsInvariant, NEW r \in Requests, NEW pc \in Uninformed, To(r, pc),
         req[r] \in Busy, [req[r] EXCEPT !.pc = pc] \in Busy, ~Deleted(req[r].user)
  PROVE  \E q : Continues(r, q)
<1> DEFINE q == [req[r] EXCEPT !.pc = pc]
<1>1. q.pc = pc /\ q.user = req[r].user
  BY OnlyPlace
<1>2. Knows(q) /\ ~Writing(q)
  BY <1>1, KnowsNothing
<1> QED BY <1>2 DEF Continues, To, Goes

-----------------------------------------------------------------------------
(* The invariant holds at the start.                                         *)
LEMMA MinOfTwo ==
  ASSUME NEW a \in Nat, NEW b \in Nat
  PROVE  Min({a, b}) \in Nat
<1>1. \E x \in {a, b} : \A y \in {a, b} : x <= y
  OBVIOUS
<1>2. Min({a, b}) \in {a, b}
  BY <1>1 DEF Min
<1> QED BY <1>2

LEMMA AccountsInitially == AccountsInit => AccountsInvariant
<1> SUFFICES ASSUME AccountsInit PROVE AccountsInvariant
  OBVIOUS
<1>1. user \in [Users -> AccountRow] /\ \A u \in Users : user[u].status \in {"none", "ACTIVE"}
  <2>1. Unregistered \in AccountRow /\ Unregistered.status = "none"
    BY DEF Unregistered, AccountRow, Statuses, NotPaused
  <2>2. PICK row : row = [status |-> "ACTIVE", password |-> 1, verified |-> TRUE, linked |-> FALSE,
                          named |-> TRUE, paused |-> NotPaused]
    OBVIOUS
  <2>3. row \in AccountRow /\ row.status = "ACTIVE"
    BY <2>2 DEF AccountRow, Statuses, NotPaused
  <2>4. user \in [Users -> {Unregistered, row}]
    BY <2>2 DEF AccountsInit
  <2> QED BY <2>1, <2>3, <2>4
<1>2. \A u \in Users : user[u].status = "ACTIVE" => user[u].password = 1
  BY DEF AccountsInit, Unregistered
<1>3. PICK open \in SUBSET Sessions, u \in Users, persistent \in BOOLEAN :
        /\ open # {} => user[u].status = "ACTIVE" /\ Cardinality(open) = 1
        /\ session = [s \in Sessions |->
                       IF s \in open
                       THEN [user |-> u, expires |-> Min({IdleWindow(persistent), MaxAge}),
                             created |-> 0, persistent |-> persistent, password |-> 1,
                             swept |-> FALSE]
                       ELSE NoRow]
  BY DEF AccountsInit
<1>4. Min({IdleWindow(persistent), MaxAge}) \in Nat
  BY MinOfTwo, TimesAssumption DEF IdleWindow
<1>5. session \in [Sessions -> SessionRow \union {NoRow, Erased}]
  BY <1>3, <1>4 DEF SessionRow
<1>6. token \in [Tokens -> TokenRow \union {NoRow, Erased}] /\ Rows(token) = {}
  BY DEF AccountsInit, Rows
<1>7. AccountsTypeOK
  BY <1>1, <1>5, <1>6 DEF AccountsInit, AccountsTypeOK
<1>8. SessionsFit
  <2>1. \A s \in Rows(session) : session[s].user = u /\ session[s].password = 1 /\ open # {}
    BY <1>3 DEF Rows
  <2> QED BY <1>2, <1>3, <2>1 DEF SessionsFit, Accounted
<1>9. LinksFit
  BY <1>6 DEF LinksFit, LinksOf
<1>10. RequestsFit
  <2>1. \A r \in Requests : req[r] = Idle
    BY DEF AccountsInit
  <2>2. Knows(Idle) /\ ~Writing(Idle)
    BY Standing DEF Knows, Informed, TurnedAway, Writing, Idle
  <2> QED BY <2>1, <2>2 DEF RequestsFit
<1>11. DeletedIsErased
  BY <1>1 DEF DeletedIsErased
<1> QED BY <1>7, <1>8, <1>9, <1>10, <1>11 DEF AccountsInvariant

-----------------------------------------------------------------------------
(* A request begins.                                                         *)
LEMMA AfterRequest ==
  ASSUME AccountsInvariant, NEW r \in Requests, Request(r)
  PROVE  AccountsInvariant'
<1>1. Reads /\ ~At(r, "sweep")
  BY DEF Request, Begin, Reads, At, Idle
<1>2. CASE \E u \in Users, op \in Ops, yes \in BOOLEAN :
             Begin(r, [op |-> op, pc |-> Entry[op], user |-> u, persistent |-> yes,
                       swept |-> FALSE, password |-> 0])
  <2>1. PICK u \in Users, op \in Ops, yes \in BOOLEAN :
          Begin(r, [op |-> op, pc |-> Entry[op], user |-> u, persistent |-> yes,
                    swept |-> FALSE, password |-> 0])
    BY <1>2
  <2>2. /\ Entry[op] \in FirstPlaces
        /\ Entry[op] = "forgot" => op = "resetRequest"
        /\ Entry[op] = "load" => op \in Orders
    BY DEF Entry, Ops, FirstPlaces, Orders
  <2> DEFINE q == [op |-> op, pc |-> Entry[op], user |-> u, persistent |-> yes, swept |-> FALSE,
                   password |-> 0]
  <2>3. q \in ByUser /\ q.pc = Entry[op]
    BY <2>2 DEF ByUser, FirstPlaces
  <2> HIDE DEF q
  <2>4. q \in Busy /\ q.pc \in Uninformed /\ q.pc \in FirstPlaces
    BY <2>2, <2>3 DEF Busy, Uninformed, FirstPlaces
  <2>5. Continues(r, q)
    BY <2>1, <2>4, KnowsNothing DEF Continues, Begin, q
  <2> QED BY <1>1, <2>5, ReadingRequest
<1>3. CASE \E s \in Rows(session), op \in {"use", "profile", "logout"} :
             Begin(r, [op |-> op, pc |-> IF op = "logout" THEN "logout" ELSE "attach",
                       user |-> session[s].user, session |-> s, swept |-> FALSE])
  <2>1. PICK s \in Rows(session), op \in {"use", "profile", "logout"} :
          Begin(r, [op |-> op, pc |-> IF op = "logout" THEN "logout" ELSE "attach",
                    user |-> session[s].user, session |-> s, swept |-> FALSE])
    BY <1>3
  <2> DEFINE q == [op |-> op, pc |-> IF op = "logout" THEN "logout" ELSE "attach",
                   user |-> session[s].user, session |-> s, swept |-> FALSE]
  <2>2. s \in Sessions /\ session[s].user \in Users
    BY SessionRows DEF AccountsInvariant, AccountsTypeOK, SessionRow
  <2>3. q \in BySession /\ q.pc \in {"logout", "attach"} /\ q.user = session[s].user
    BY <2>2 DEF BySession
  <2> HIDE DEF q
  <2>4. ~Deleted(q.user)
    BY <2>2, <2>3 DEF AccountsInvariant, DeletedIsErased, Deleted
  <2>5. q \in Busy /\ q.pc \in Uninformed
    BY <2>3 DEF Busy, Uninformed
  <2>6. Continues(r, q)
    BY <2>1, <2>4, <2>5, KnowsNothing DEF Continues, Begin, q
  <2> QED BY <1>1, <2>6, ReadingRequest
<1>4. CASE \E t \in Rows(token) :
             Begin(r, [op |-> token[t].kind, pc |-> "token", user |-> token[t].user,
                       token |-> t, swept |-> FALSE])
  <2>1. PICK t \in Rows(token) :
          Begin(r, [op |-> token[t].kind, pc |-> "token", user |-> token[t].user,
                    token |-> t, swept |-> FALSE])
    BY <1>4
  <2> DEFINE q == [op |-> token[t].kind, pc |-> "token", user |-> token[t].user,
                   token |-> t, swept |-> FALSE]
  <2>2. t \in Tokens /\ token[t].user \in Users /\ token[t].kind \in {"verify", "reset"}
    BY TokenRows DEF AccountsInvariant, AccountsTypeOK, TokenRow
  <2>3. /\ q \in ByToken /\ q.pc = "token" /\ q.user = token[t].user
        /\ q.token = t /\ q.op = token[t].kind
    BY <2>2 DEF ByToken
  <2> HIDE DEF q
  <2>4. ~Deleted(q.user)
    BY <2>2, <2>3 DEF AccountsInvariant, DeletedIsErased, Deleted
  <2>5. q \in Busy
    BY <2>3 DEF Busy
  <2>6. q.token \in LinksOf(q.user, q.op)
    BY <2>3 DEF LinksOf
  <2>7. Knows(q) /\ ~Writing(q)
    BY <2>3, <2>4, <2>6 DEF Knows, Informed, TurnedAway, Writing
  <2>8. Continues(r, q)
    BY <2>1, <2>5, <2>7 DEF Continues, Begin, q
  <2> QED BY <1>1, <2>8, ReadingRequest
<1> QED BY <1>2, <1>3, <1>4, Zenon DEF Request

-----------------------------------------------------------------------------
(* The steps that only read.                                                 *)
LEMMA AfterLooking ==
  ASSUME AccountsInvariant, NEW r \in Requests,
         \/ FindByEmail(r) \/ RequestByEmail(r) \/ Forgot(r) \/ FindToken(r) \/ FindOwner(r)
         \/ CheckCredentials(r) \/ FindProviderAccount(r) \/ Attach(r) \/ LoadTarget(r)
  PROVE  AccountsInvariant'
<1>1. /\ Reads
      /\ req[r].pc \in FirstPlaces \union {"token", "owner", "attach"}
  BY DEF FindByEmail, RequestByEmail, Forgot, FindToken, FindOwner, CheckCredentials,
         FindProviderAccount, Attach, LoadTarget, At, FirstPlaces
<1>2. req[r] \in Busy /\ req[r].user \in Users /\ Knows(req[r]) /\ ~At(r, "sweep")
  BY <1>1, UnderWayIsBusy DEF FirstPlaces, At
<1>3. Row(r).status # "DELETED" => ~Deleted(req[r].user)
  BY DEF Row, Deleted
<1>4. CASE Ends(r)
  BY <1>1, <1>2, <1>4, Ending, ReadingRequest
<1>5. SUFFICES ASSUME ~Ends(r) PROVE \E q : Continues(r, q)
  BY <1>1, <1>2, <1>4, ReadingRequest
<1>6. CASE FindByEmail(r)
  <2>1. Row(r).status = "none" /\ To(r, "create") /\ req[r] \in ByUser
    BY <1>2, <1>5, <1>6, StandsAs DEF FindByEmail, OrEnds, At
  <2>2. [req[r] EXCEPT !.pc = "create"] \in Busy
    BY <2>1, MovesOn DEF Busy
  <2> QED BY <1>2, <1>3, <2>1, <2>2, Onward DEF Uninformed
<1>7. CASE RequestByEmail(r)
  <2>1. Row(r).status = "ACTIVE" /\ To(r, "verification") /\ req[r] \in ByUser
    BY <1>2, <1>5, <1>7, StandsAs DEF RequestByEmail, OrEnds, At, Active
  <2>2. [req[r] EXCEPT !.pc = "verification"] \in Busy
    BY <2>1, MovesOn DEF Busy
  <2> QED BY <1>2, <1>3, <2>1, <2>2, Onward DEF Uninformed
<1>8. CASE Forgot(r)
  <2>1. Row(r).status = "ACTIVE" /\ To(r, "void") /\ req[r] \in ByUser /\ req[r].op = "resetRequest"
    BY <1>2, <1>5, <1>8, StandsAs DEF Forgot, OrEnds, At, Active, ByUser
  <2> DEFINE q == [req[r] EXCEPT !.pc = "void"]
  <2>2. q \in Busy
    BY <2>1, MovesOn DEF Busy
  <2>3. q.pc = "void" /\ q.op = "resetRequest" /\ q.user = req[r].user
    BY <1>2, <2>1, OnlyPlace
  <2>4. Knows(q) /\ ~Writing(q)
    BY <1>3, <2>1, <2>3 DEF Knows, Informed, TurnedAway, Writing
  <2> QED BY <2>1, <2>2, <2>4 DEF Continues, To, Goes
<1>9. CASE FindToken(r)
  <2>1. To(r, "owner") /\ req[r] \in ByToken /\ req[r].pc = "token"
    BY <1>2, <1>5, <1>9, StandsAs DEF FindToken, OrEnds, At
  <2> DEFINE q == [req[r] EXCEPT !.pc = "owner"]
  <2>2. q \in Busy
    BY <2>1, MovesOn DEF Busy
  <2>3. q.pc = "owner" /\ q.op = req[r].op /\ q.user = req[r].user /\ q.token = req[r].token
    BY <1>2, <2>1, OnlyPlace
  <2>4. ~Deleted(req[r].user)
    BY <2>1, UnderWayIsBusy DEF FirstPlaces
  <2>5. Knows(q) /\ ~Writing(q)
    BY <1>2, <2>1, <2>3, <2>4 DEF Knows, Informed, TurnedAway, Writing
  <2> QED BY <2>1, <2>2, <2>5 DEF Continues, To, Goes
<1>10. CASE FindOwner(r)
  <2>1. /\ req[r] \in ByToken /\ req[r].pc = "owner"
        /\ \/ To(r, "voidReset") /\ req[r].op = "reset"
           \/ \E pc \in {"markOnly", "markVerified"} : To(r, pc)
    BY <1>2, <1>5, <1>10, StandsAs DEF FindOwner, OrEnds, At
  <2>2. ~Deleted(req[r].user)
    BY <2>1, UnderWayIsBusy DEF FirstPlaces
  <2>3. CASE To(r, "voidReset") /\ req[r].op = "reset"
    <3> DEFINE q == [req[r] EXCEPT !.pc = "voidReset"]
    <3>1. q \in Busy
      BY <2>1, MovesOn DEF Busy
    <3>2. q.pc = "voidReset" /\ q.op = "reset" /\ q.user = req[r].user /\ q.token = req[r].token
      BY <1>2, <2>1, <2>3, OnlyPlace
    <3>3. Knows(q) /\ ~Writing(q)
      BY <1>2, <2>1, <2>2, <2>3, <3>2 DEF Knows, Informed, TurnedAway, Writing
    <3> QED BY <2>3, <3>1, <3>3 DEF Continues, To, Goes
  <2>4. CASE \E pc \in {"markOnly", "markVerified"} : To(r, pc)
    <3>1. PICK pc \in {"markOnly", "markVerified"} : To(r, pc)
      BY <2>4
    <3>2. [req[r] EXCEPT !.pc = pc] \in Busy
      BY <2>1, MovesOn DEF Busy
    <3>3. pc \in Uninformed
      BY DEF Uninformed
    <3> QED BY <1>2, <2>2, <3>1, <3>2, <3>3, Onward
  <2> QED BY <2>1, <2>3, <2>4
<1>11. CASE CheckCredentials(r)
  <2>1. /\ Row(r).status = "ACTIVE" /\ req[r] \in ByUser
        /\ Goes(r, [req[r] EXCEPT !.pc = "open", !.password = Row(r).password])
    BY <1>2, <1>5, <1>11, StandsAs DEF CheckCredentials, At, Active
  <2> DEFINE q == [req[r] EXCEPT !.pc = "open", !.password = Row(r).password]
  <2>2. Row(r).password \in Nat
    BY <1>2 DEF Row, AccountsInvariant, AccountsTypeOK, AccountRow
  <2>3. q \in ByUser /\ q.pc = "open" /\ q.user = req[r].user /\ q.password = user[q.user].password
    BY <2>1, <2>2 DEF ByUser, Row
  <2>4. Knows(q) /\ ~Writing(q)
    BY <1>3, <2>1, <2>3 DEF Knows, Informed, TurnedAway, Writing, Accounted, Row
  <2> QED BY <2>1, <2>3, <2>4 DEF Continues, Goes, Busy
<1>12. CASE FindProviderAccount(r)
  <2>1. req[r] \in ByUser
    BY <1>2, <1>12, StandsAs DEF FindProviderAccount, At
  <2>2. CASE Row(r).linked
    <3>1. /\ Row(r).status = "ACTIVE"
          /\ Goes(r, [req[r] EXCEPT !.pc = "open", !.password = Row(r).password])
      BY <1>5, <1>12, <2>2 DEF FindProviderAccount, Active
    <3> DEFINE q == [req[r] EXCEPT !.pc = "open", !.password = Row(r).password]
    <3>2. Row(r).password \in Nat
      BY <1>2 DEF Row, AccountsInvariant, AccountsTypeOK, AccountRow
    <3>3. q \in ByUser /\ q.pc = "open" /\ q.user = req[r].user /\ q.password = user[q.user].password
      BY <2>1, <3>2 DEF ByUser, Row
    <3>4. Knows(q) /\ ~Writing(q)
      BY <1>3, <3>1, <3>3 DEF Knows, Informed, TurnedAway, Writing, Accounted, Row
    <3> QED BY <3>1, <3>3, <3>4 DEF Continues, Goes, Busy
  <2>3. CASE ~Row(r).linked
    <3>1. \/ \E pc \in {"createVerified", "createUnverified"} : Row(r).status = "none" /\ To(r, pc)
          \/ Row(r).status = "ACTIVE" /\ \E pc \in {"linkOnly", "vouch"} : To(r, pc)
      BY <1>5, <1>12, <2>3 DEF FindProviderAccount, Active
    <3>2. CASE \E pc \in {"createVerified", "createUnverified"} : Row(r).status = "none" /\ To(r, pc)
      <4>1. PICK pc \in {"createVerified", "createUnverified"} : Row(r).status = "none" /\ To(r, pc)
        BY <3>2
      <4>2. [req[r] EXCEPT !.pc = pc] \in Busy /\ pc \in Uninformed
        BY <2>1, MovesOn DEF Busy, Uninformed
      <4> QED BY <1>2, <1>3, <4>1, <4>2, Onward
    <3>3. CASE Row(r).status = "ACTIVE" /\ \E pc \in {"linkOnly", "vouch"} : To(r, pc)
      <4>1. PICK pc \in {"linkOnly", "vouch"} : To(r, pc)
        BY <3>3
      <4> DEFINE q == [req[r] EXCEPT !.pc = pc]
      <4>2. q \in Busy
        BY <2>1, MovesOn DEF Busy
      <4>3. q.pc = pc /\ q.user = req[r].user
        BY <1>2, OnlyPlace
      <4>4. Knows(q) /\ ~Writing(q)
        BY <1>3, <3>3, <4>3 DEF Knows, Informed, TurnedAway, Writing, Row
      <4> QED BY <4>1, <4>2, <4>4 DEF Continues, To, Goes
    <3> QED BY <3>1, <3>2, <3>3
  <2> QED BY <2>2, <2>3
<1>13. CASE Attach(r)
  <2>1. req[r] \in BySession /\ req[r].pc = "attach"
    BY <1>2, <1>13, StandsAs DEF Attach, At
  <2>2. ~Deleted(req[r].user)
    BY <2>1, UnderWayIsBusy DEF FirstPlaces
  <2>3. CASE To(r, "profile")
    <3>1. [req[r] EXCEPT !.pc = "profile"] \in Busy
      BY <2>1, MovesOn DEF Busy
    <3> QED BY <1>2, <2>2, <2>3, <3>1, Onward DEF Uninformed
  <2>4. CASE ~To(r, "profile")
    <3> DEFINE s == req[r].session
    <3>1. s \in Rows(session)
          /\ Goes(r, [op |-> req[r].op, pc |-> "renew", user |-> req[r].user, session |-> s,
                      read |-> session[s].expires, target |-> RenewalTarget(s),
                      swept |-> req[r].swept])
      BY <1>5, <1>13, <2>4 DEF Attach, OrEnds
    <3>2. s \in Sessions /\ session[s] \in SessionRow /\ now \in Nat
      BY <3>1, SessionRows DEF AccountsInvariant, AccountsTypeOK
    <3>3. session[s].expires \in Nat /\ session[s].created \in Nat
      BY <3>2 DEF SessionRow
    <3>4. RenewalTarget(s) \in Nat
      <4>1. IdleWindow(session[s].persistent) \in Nat /\ MaxAge \in Nat
        BY TimesAssumption DEF IdleWindow
      <4>2. PICK a \in Nat : a = now + IdleWindow(session[s].persistent)
        BY <3>2, <4>1
      <4>3. PICK b \in Nat : b = session[s].created + MaxAge
        BY <3>3, <4>1
      <4>4. RenewalTarget(s) = Min({a, b})
        BY <4>2, <4>3 DEF RenewalTarget
      <4> QED BY <4>4, MinOfTwo
    <3>5. PICK target \in Nat : target = RenewalTarget(s)
      BY <3>4
    <3> DEFINE q == [op |-> req[r].op, pc |-> "renew", user |-> req[r].user, session |-> s,
                     read |-> session[s].expires, target |-> target, swept |-> req[r].swept]
    <3>6. q \in Renewing /\ q.pc = "renew" /\ q.user = req[r].user
      BY <2>1, <3>2, <3>3 DEF Renewing, BySession
    <3>7. req' = [req EXCEPT ![r] = q]
      BY <3>1, <3>5 DEF Goes
    <3> HIDE DEF q
    <3>8. q \in Busy /\ q.pc \in Uninformed
      BY <3>6 DEF Busy, Uninformed
    <3>9. Knows(q) /\ ~Writing(q)
      BY <2>2, <3>6, <3>8, KnowsNothing
    <3> QED BY <3>7, <3>8, <3>9 DEF Continues
  <2> QED BY <2>3, <2>4
<1>14. CASE LoadTarget(r)
  <2>1. /\ Row(r).status # "DELETED" /\ To(r, req[r].op)
        /\ req[r] \in ByUser /\ req[r].op \in Orders
    BY <1>2, <1>5, <1>14, StandsAs DEF LoadTarget, OrEnds, At, ByUser
  <2>2. PICK pc \in Orders : pc = req[r].op
    BY <2>1
  <2>3. [req[r] EXCEPT !.pc = pc] \in Busy /\ pc \in Uninformed /\ To(r, pc)
    BY <2>1, <2>2, MovesOn DEF Busy, Uninformed, Orders
  <2> QED BY <1>2, <1>3, <2>1, <2>3, Onward
<1> QED BY <1>6, <1>7, <1>8, <1>9, <1>10, <1>11, <1>12, <1>13, <1>14

-----------------------------------------------------------------------------
(* A step that changes the user's row, and neither sessions nor links.       *)
LEMMA UserWritten ==
  ASSUME AccountsTypeOK, NEW r \in Requests, req[r].user \in Users, NEW row \in AccountRow,
         Update(r, row), ~Deleted(req[r].user),
         row.status = "none" => Row(r).status = "none",
         row.status = "DELETED" => Row(r).status = "DELETED",
         row.password = Row(r).password \/ Row(r).status = "none"
  PROVE  KeepsUsers
BY DEF AccountsTypeOK, Update, KeepsUsers, Revised, Row

LEMMA AfterUserWrite ==
  ASSUME AccountsInvariant, NEW r \in Requests,
         \/ CreateUser(r) \/ Verify(r) \/ VouchEmail(r) \/ CreateProviderAccount(r)
         \/ WriteProfile(r) \/ Enable(r) \/ PauseAgent(r)
         \/ ResumeAgent(r)
  PROVE  AccountsInvariant'
<1>1. /\ UNCHANGED <<now, asked, halfReset, crowded, session, token>>
      /\ req[r].pc \in {"create", "verify", "vouch", "linkOnly", "profile", "enable", "pause",
                       "resume"}
  BY DEF CreateUser, Verify, VouchEmail, CreateProviderAccount, WriteProfile,
         Enable, PauseAgent, ResumeAgent, At, history
<1>2. /\ req[r] \in Busy /\ req[r].user \in Users /\ Knows(req[r]) /\ ~At(r, "sweep")
      /\ ~Deleted(req[r].user)
  BY <1>1, UnderWayIsBusy DEF FirstPlaces, At
<1>3. /\ AccountsTypeOK /\ KeepsSessions /\ KeepsTokens
      /\ Row(r) \in AccountRow
  BY <1>1, <1>2, NothingTouched DEF AccountsInvariant, AccountsTypeOK, Row
<1>4. SUFFICES passwords' \in Nat /\ KeepsUsers /\ \E q : Continues(r, q)
  BY <1>1, <1>2, <1>3, OrdinaryRequest
<1>5. passwords' \in Nat
  BY <1>3 DEF AccountsTypeOK, CreateUser, Verify, VouchEmail,
              CreateProviderAccount, WriteProfile, Enable, PauseAgent, ResumeAgent, history
<1>6. CASE CreateUser(r)
  <2>1. PICK row : row = [status |-> "ACTIVE", password |-> passwords + 1, verified |-> FALSE,
                          linked |-> FALSE, named |-> TRUE, paused |-> NotPaused]
    OBVIOUS
  <2>2. row \in AccountRow /\ row.status = "ACTIVE"
    BY <1>3, <2>1 DEF AccountRow, Statuses, NotPaused, AccountsTypeOK
  <2>3. Update(r, row) /\ Row(r).status = "none" /\ To(r, "verification")
    BY <1>6, <2>1 DEF CreateUser
  <2>4. KeepsUsers
    BY <1>2, <1>3, <2>2, <2>3, UserWritten
  <2>5. req[r] \in ByUser
    BY <1>2, <1>6, StandsAs DEF CreateUser, At
  <2>6. [req[r] EXCEPT !.pc = "verification"] \in Busy
    BY <2>5, MovesOn DEF Busy
  <2> QED BY <1>2, <1>5, <2>3, <2>4, <2>6, Onward DEF Uninformed
<1>7. CASE Verify(r)
  <2>1. PICK row : row = [Row(r) EXCEPT !.verified = TRUE]
    OBVIOUS
  <2>2. row \in AccountRow /\ row.status = Row(r).status /\ row.password = Row(r).password
    BY <1>3, <2>1 DEF AccountRow
  <2>3. Update(r, row) /\ Ends(r)
    BY <1>7, <2>1 DEF Verify
  <2> QED BY <1>2, <1>3, <1>5, <2>2, <2>3, UserWritten, Ending
<1>8. CASE VouchEmail(r)
  <2>1. PICK row : row = [Row(r) EXCEPT !.verified = TRUE]
    OBVIOUS
  <2>2. row \in AccountRow /\ row.status = Row(r).status /\ row.password = Row(r).password
    BY <1>3, <2>1 DEF AccountRow
  <2>3. Update(r, row) /\ To(r, "linkOnly") /\ req[r].pc = "vouch"
    BY <1>8, <2>1 DEF VouchEmail, At
  <2>4. KeepsUsers
    BY <1>2, <1>3, <2>2, <2>3, UserWritten
  <2> DEFINE q == [req[r] EXCEPT !.pc = "linkOnly"]
  <2>5. q \in Busy /\ q.pc = "linkOnly" /\ q.user = req[r].user
    BY <1>2, <2>3, StandsAs, MovesOn, OnlyPlace DEF Busy
  <2>6. Knows(q) /\ ~Writing(q)
    BY <1>2, <2>3, <2>5 DEF Knows, Informed, TurnedAway, Writing
  <2> QED BY <1>5, <2>3, <2>4, <2>5, <2>6 DEF Continues, To, Goes
<1>9. CASE CreateProviderAccount(r)
  <2>1. PICK row : row = [Row(r) EXCEPT !.linked = TRUE]
    OBVIOUS
  <2>2. row \in AccountRow /\ row.status = Row(r).status /\ row.password = Row(r).password
    BY <1>3, <2>1 DEF AccountRow
  <2> DEFINE q == [req[r] EXCEPT !.pc = "open", !.password = Row(r).password]
  <2>3. Update(r, row) /\ Goes(r, q) /\ req[r].pc = "linkOnly" /\ req[r] \in ByUser
    BY <1>2, <1>9, <2>1, StandsAs DEF CreateProviderAccount, At
  <2>4. KeepsUsers
    BY <1>2, <1>3, <2>2, <2>3, UserWritten
  <2>5. Row(r).password \in Nat
    BY <1>3 DEF AccountRow
  <2>6. q \in ByUser /\ q.pc = "open" /\ q.user = req[r].user /\ q.password = user[q.user].password
    BY <2>3, <2>5 DEF ByUser, Row
  <2>7. Knows(q) /\ ~Writing(q)
    BY <1>2, <2>3, <2>6 DEF Knows, Informed, TurnedAway, Writing, Accounted
  <2> QED BY <1>5, <2>3, <2>4, <2>6, <2>7 DEF Continues, Goes, Busy
<1>10. CASE WriteProfile(r)
  <2>1. PICK row : row = [Row(r) EXCEPT !.named = TRUE]
    OBVIOUS
  <2>2. row \in AccountRow /\ row.status = Row(r).status /\ row.password = Row(r).password
    BY <1>3, <2>1 DEF AccountRow
  <2>3. Update(r, row) /\ Ends(r)
    BY <1>10, <2>1 DEF WriteProfile
  <2> QED BY <1>2, <1>3, <1>5, <2>2, <2>3, UserWritten, Ending
<1>11. CASE Enable(r)
  <2>1. PICK row : row = [Row(r) EXCEPT !.status = "ACTIVE"]
    OBVIOUS
  <2>2. row \in AccountRow /\ row.status = "ACTIVE" /\ row.password = Row(r).password
    BY <1>3, <2>1 DEF AccountRow, Statuses
  <2>3. Update(r, row) /\ Ends(r)
    BY <1>11, <2>1 DEF Enable
  <2> QED BY <1>2, <1>3, <1>5, <2>2, <2>3, UserWritten, Ending
<1>12. CASE PauseAgent(r)
  <2>1. PICK until \in {now + 1, Indefinite} : Update(r, [Row(r) EXCEPT !.paused = until])
    BY <1>12 DEF PauseAgent
  <2>2. until \in Int
    BY <1>3, TimesAssumption DEF Indefinite, AccountsTypeOK
  <2>3. PICK row : row = [Row(r) EXCEPT !.paused = until]
    OBVIOUS
  <2>4. row \in AccountRow /\ row.status = Row(r).status /\ row.password = Row(r).password
    BY <1>3, <2>2, <2>3 DEF AccountRow
  <2>5. Ends(r)
    BY <1>12 DEF PauseAgent
  <2> QED BY <1>2, <1>3, <1>5, <2>1, <2>3, <2>4, <2>5, UserWritten, Ending
<1>13. CASE ResumeAgent(r)
  <2>1. PICK row : row = [Row(r) EXCEPT !.paused = NotPaused]
    OBVIOUS
  <2>2. row \in AccountRow /\ row.status = Row(r).status /\ row.password = Row(r).password
    BY <1>3, <2>1 DEF AccountRow, NotPaused
  <2>3. Update(r, row) /\ Ends(r)
    BY <1>13, <2>1 DEF ResumeAgent
  <2> QED BY <1>2, <1>3, <1>5, <2>2, <2>3, UserWritten, Ending
<1> QED BY <1>6, <1>7, <1>8, <1>9, <1>10, <1>11, <1>12, <1>13

LEMMA AfterOAuthUser ==
  ASSUME AccountsInvariant, NEW r \in Requests, CreateOAuthUser(r)
  PROVE  AccountsInvariant'
<1>1. /\ UNCHANGED <<now, asked, halfReset, crowded, session, token, passwords>>
      /\ req[r].pc \in {"createVerified", "createUnverified"}
      /\ Row(r).status = "none" /\ To(r, "linkOnly")
  BY DEF CreateOAuthUser, At, history
<1>2. /\ req[r] \in Busy /\ req[r].user \in Users /\ ~At(r, "sweep") /\ ~Deleted(req[r].user)
      /\ req[r] \in ByUser
  BY <1>1, UnderWayIsBusy, StandsAs DEF FirstPlaces, At
<1>3. AccountsTypeOK /\ KeepsSessions /\ KeepsTokens /\ passwords' \in Nat
  BY <1>1, NothingTouched DEF AccountsInvariant, AccountsTypeOK
<1>4. PICK row : row = [status |-> "ACTIVE", password |-> 0, verified |-> At(r, "createVerified"),
                        linked |-> FALSE, named |-> TRUE, paused |-> NotPaused]
  OBVIOUS
<1>5. row \in AccountRow /\ row.status = "ACTIVE"
  BY <1>4 DEF AccountRow, Statuses, NotPaused, At
<1>6. Update(r, row)
  BY <1>4 DEF CreateOAuthUser
<1>7. KeepsUsers
  BY <1>1, <1>2, <1>3, <1>5, <1>6, UserWritten
<1>8. PICK q : q = [req[r] EXCEPT !.pc = "linkOnly"]
  OBVIOUS
<1>9. q \in Busy /\ q.pc = "linkOnly" /\ q.user = req[r].user
  BY <1>2, <1>8, MovesOn, OnlyPlace DEF Busy
<1>10. user'[q.user].status = "ACTIVE"
  BY <1>2, <1>3, <1>5, <1>6, <1>9 DEF Update, AccountsTypeOK
<1>11. Informed(q)'
  BY <1>9, <1>10 DEF Informed, Writing
<1>12. TurnedAway(q) /\ ~Writing(q)
  BY <1>2, <1>9 DEF TurnedAway, Writing
<1>13. req' = [req EXCEPT ![r] = q]
  BY <1>1, <1>8 DEF To, Goes
<1> QED BY <1>1, <1>2, <1>3, <1>7, <1>9, <1>11, <1>12, <1>13, OrdinaryStep

-----------------------------------------------------------------------------
(* A step that changes a session, or links.                                  *)
LEMMA AfterSessionWrite ==
  ASSUME AccountsInvariant, NEW r \in Requests,
         CreateSession(r) \/ RenewSession(r) \/ Logout(r)
  PROVE  AccountsInvariant'
<1>1. /\ UNCHANGED <<now, asked, halfReset, crowded, user, token, passwords>>
      /\ req[r].pc \in {"open", "renew", "logout"}
  BY DEF CreateSession, RenewSession, Logout, At, history
<1>2. /\ req[r] \in Busy /\ req[r].user \in Users /\ Knows(req[r]) /\ ~At(r, "sweep")
      /\ ~Deleted(req[r].user)
  BY <1>1, UnderWayIsBusy DEF FirstPlaces, At
<1>3. AccountsTypeOK /\ KeepsUsers /\ KeepsTokens /\ passwords' \in Nat
  BY <1>1, NothingTouched DEF AccountsInvariant, AccountsTypeOK
<1>4. SUFFICES KeepsSessions /\ \E q : Continues(r, q)
  BY <1>1, <1>2, <1>3, OrdinaryRequest
<1>5. CASE CreateSession(r)
  <2>1. req[r] \in ByUser /\ req[r].pc = "open"
    BY <1>2, <1>5, StandsAs DEF CreateSession, At
  <2>2. PICK s \in Sessions :
          session' = [session EXCEPT ![s] =
            [user |-> req[r].user, expires |-> InitialExpiry(req[r].persistent), created |-> now,
             persistent |-> req[r].persistent, password |-> req[r].password,
             swept |-> req[r].swept]]
    BY <1>5 DEF CreateSession
  <2>3. InitialExpiry(req[r].persistent) \in Nat
    <3>1. IdleWindow(req[r].persistent) \in Nat /\ MaxAge \in Nat
      BY TimesAssumption DEF IdleWindow
    <3>2. Min({IdleWindow(req[r].persistent), MaxAge}) \in Nat
      BY <3>1, MinOfTwo
    <3> QED BY <1>3, <3>2 DEF InitialExpiry, AccountsTypeOK
  <2>4. PICK row : row = [user |-> req[r].user, expires |-> InitialExpiry(req[r].persistent),
                          created |-> now, persistent |-> req[r].persistent,
                          password |-> req[r].password, swept |-> req[r].swept]
    OBVIOUS
  <2>5. /\ row \in SessionRow /\ row.user = req[r].user /\ row.password = req[r].password
        /\ row.swept = req[r].swept
    BY <1>3, <2>1, <2>3, <2>4 DEF SessionRow, ByUser, AccountsTypeOK
  <2>6. Admitted(row.user, row.password, row.swept)
    BY <1>2, <2>1, <2>5 DEF Admitted, Knows, Informed
  <2>7. session' = [session EXCEPT ![s] = row]
    BY <2>2, <2>4
  <2>8. KeepsSessions
    BY <1>3, <2>5, <2>6, <2>7 DEF KeepsSessions, AccountsTypeOK
  <2> QED BY <1>5, <2>8, Ending DEF CreateSession
<1>6. CASE RenewSession(r)
  <2>1. req[r] \in Renewing /\ req[r].pc = "renew"
    BY <1>2, <1>6, StandsAs DEF RenewSession, At
  <2> DEFINE s == req[r].session
  <2>2. s \in Sessions /\ req[r].target \in Nat
    BY <2>1 DEF Renewing
  <2>3. KeepsSessions
    <3>1. CASE s \in Rows(session) /\ session[s].expires = req[r].read
      <4>1. session' = [session EXCEPT ![s].expires = req[r].target] /\ session[s] \in SessionRow
        BY <1>3, <1>6, <2>2, <3>1, SessionRows DEF RenewSession, AccountsTypeOK
      <4>2. PICK row : row = [session[s] EXCEPT !.expires = req[r].target]
        OBVIOUS
      <4>3. /\ row \in SessionRow /\ row.user = session[s].user
            /\ row.password = session[s].password /\ row.swept = session[s].swept
        BY <2>2, <4>1, <4>2 DEF SessionRow
      <4>4. session' = [session EXCEPT ![s] = row]
        BY <4>1, <4>2
      <4> QED BY <1>3, <2>2, <4>1, <4>3, <4>4 DEF KeepsSessions, AccountsTypeOK
    <3>2. CASE ~(s \in Rows(session) /\ session[s].expires = req[r].read)
      BY <1>3, <1>6, <3>2, NothingTouched DEF RenewSession
    <3> QED BY <3>1, <3>2
  <2>4. CASE Ends(r)
    BY <2>3, <2>4, Ending
  <2>5. CASE To(r, "profile")
    <3>1. [req[r] EXCEPT !.pc = "profile"] \in Busy
      BY <2>1, MovesOn DEF Busy
    <3> QED BY <1>2, <2>3, <2>5, <3>1, Onward DEF Uninformed
  <2> QED BY <1>6, <2>4, <2>5 DEF RenewSession, OrEnds
<1>7. CASE Logout(r)
  <2>1. req[r] \in BySession
    BY <1>2, <1>7, StandsAs DEF Logout, At
  <2>2. req[r].session \in Sessions
    BY <2>1 DEF BySession
  <2>3. KeepsSessions
    BY <1>3, <1>7, <2>2, RowKinds DEF Logout, KeepsSessions, AccountsTypeOK
  <2> QED BY <1>7, <2>3, Ending DEF Logout
<1> QED BY <1>5, <1>6, <1>7

(* A link that is used stays what it was.                                    *)
LEMMA UsedLink ==
  ASSUME NEW x \in TokenRow, NEW y, y = [x EXCEPT !.used = TRUE]
  PROVE  y \in TokenRow /\ y.kind = x.kind /\ y.user = x.user /\ y.spent = x.spent /\ y.used
BY DEF TokenRow

LEMMA LinksUsed ==
  ASSUME AccountsTypeOK, NEW T \in SUBSET Rows(token),
         token' = [t \in Tokens |-> IF t \in T THEN [token[t] EXCEPT !.used = TRUE] ELSE token[t]]
  PROVE  KeepsTokens /\ \A t \in T : token'[t].used
<1>1. T \subseteq Tokens /\ \A t \in T : token[t] \in TokenRow
  BY TokenRows DEF AccountsTypeOK
<1>2. ASSUME NEW t \in Tokens
      PROVE  \/ token'[t] = token[t] /\ t \notin T
             \/ /\ token[t] \in TokenRow /\ token'[t] \in TokenRow
                /\ token'[t].kind = token[t].kind /\ token'[t].user = token[t].user
                /\ token'[t].spent = token[t].spent /\ token'[t].used
  <2>1. CASE t \in T
    BY <1>1, <2>1, UsedLink
  <2>2. CASE t \notin T
    BY <2>2
  <2> QED BY <2>1, <2>2
<1>3. token' \in [Tokens -> TokenRow \union {NoRow, Erased}]
  <2>1. token' = [t \in Tokens |-> token'[t]]
    OBVIOUS
  <2> QED BY <1>2, <2>1 DEF AccountsTypeOK
<1> QED BY <1>1, <1>2, <1>3 DEF KeepsTokens

LEMMA Voided ==
  ASSUME AccountsTypeOK, NEW kind, NEW u, Void(kind, u)
  PROVE  KeepsTokens /\ \A t \in LinksOf(u, kind) : token'[t].used
<1>1. LinksOf(u, kind) \in SUBSET Rows(token)
  BY DEF LinksOf
<1>2. token' = [t \in Tokens |-> IF t \in LinksOf(u, kind) THEN [token[t] EXCEPT !.used = TRUE]
                                 ELSE token[t]]
  BY DEF Void, LinksOf
<1> QED BY <1>1, <1>2, LinksUsed

LEMMA AfterLinkUse ==
  ASSUME AccountsInvariant, NEW r \in Requests,
         VoidLinks(r) \/ VoidResetLinks(r) \/ MarkVerified(r) \/ MarkReset(r)
  PROVE  AccountsInvariant'
<1>1. /\ UNCHANGED <<now, asked, halfReset, crowded, user, session, passwords>>
      /\ req[r].pc \in {"void", "voidReset", "markVerified", "markOnly", "markReset"}
  BY DEF VoidLinks, VoidResetLinks, MarkVerified, MarkReset, At, history
<1>2. /\ req[r] \in Busy /\ req[r].user \in Users /\ Knows(req[r]) /\ ~At(r, "sweep")
      /\ ~Deleted(req[r].user)
  BY <1>1, UnderWayIsBusy DEF FirstPlaces, At
<1>3. AccountsTypeOK /\ KeepsUsers /\ KeepsSessions /\ passwords' \in Nat
  BY <1>1, NothingTouched DEF AccountsInvariant, AccountsTypeOK
<1>4. CASE VoidLinks(r) \/ VoidResetLinks(r)
  <2>1. PICK kind \in {"verify", "reset"}, pc \in {"link", "password"} :
          /\ Void(kind, req[r].user) /\ To(r, pc)
          /\ pc = "link" => /\ VoidLinks(r) /\ req[r].pc = "void"
                            /\ kind = (IF req[r].op = "resetRequest" THEN "reset" ELSE "verify")
          /\ pc = "password" => req[r].pc = "voidReset" /\ kind = "reset"
    <3>1. CASE VoidLinks(r)
      <4>1. PICK kind : kind = IF req[r].op = "resetRequest" THEN "reset" ELSE "verify"
        OBVIOUS
      <4>2. Void(kind, req[r].user) /\ To(r, "link") /\ req[r].pc = "void"
        BY <3>1, <4>1 DEF VoidLinks, At
      <4> QED BY <3>1, <4>1, <4>2
    <3>2. CASE VoidResetLinks(r)
      <4>1. Void("reset", req[r].user) /\ To(r, "password") /\ req[r].pc = "voidReset"
        BY <3>2 DEF VoidResetLinks, At
      <4> QED BY <4>1
    <3> QED BY <1>4, <3>1, <3>2
  <2>2. KeepsTokens /\ \A t \in LinksOf(req[r].user, kind) : token'[t].used
    BY <1>3, <2>1, Voided
  <2>3. PICK q : q = [req[r] EXCEPT !.pc = pc]
    OBVIOUS
  <2>4. pc = "link" => req[r] \in ByUser
    BY <1>2, <2>1, StandsAs
  <2>5. pc = "password" => req[r] \in ByToken
    BY <1>2, <2>1, StandsAs
  <2>6. q \in Busy
    BY <2>1, <2>3, <2>4, <2>5, MovesOn DEF Busy
  <2>7. /\ q.pc = pc /\ q.user = req[r].user /\ q.op = req[r].op
        /\ pc = "password" => q.token = req[r].token
    BY <1>2, <2>3, <2>5, OnlyPlace
  <2>8. /\ \A u, k : LinksOf(u, k)' = LinksOf(u, k)
        /\ \A t \in Tokens : t \in Rows(token)' <=> t \in Rows(token)
        /\ \A t \in Tokens : token[t] = Erased => token'[t] = Erased
    BY <1>3, <2>2, TokensKept
  <2>9. Writing(q) => Writing(req[r]) /\ kind = "verify" /\ pc = "link"
    BY <2>1, <2>7 DEF Writing
  <2>10. Writing(q) => /\ asked'[q.user] = now'
                       /\ \A t \in LinksOf(q.user, "verify")' : token'[t].used
    BY <1>1, <1>2, <2>2, <2>7, <2>8, <2>9 DEF Knows, Informed
  <2>11. pc = "password" =>
           token'[q.token] = Erased \/ (q.token \in Rows(token)' /\ token'[q.token].used)
    <3> SUFFICES ASSUME pc = "password"
                 PROVE  token'[q.token] = Erased \/ (q.token \in Rows(token)' /\ token'[q.token].used)
      OBVIOUS
    <3>1. q.token \in Tokens
      BY <2>5, <2>7 DEF ByToken
    <3>2. token[q.token] = Erased \/ q.token \in LinksOf(req[r].user, "reset")
      BY <1>2, <2>1, <2>7 DEF Knows, Informed
    <3> QED BY <2>1, <2>2, <2>8, <3>1, <3>2 DEF LinksOf
  <2>12. Informed(q)'
    BY <2>1, <2>7, <2>10, <2>11 DEF Informed, Writing
  <2>13. TurnedAway(q)
    BY <1>2, <2>7 DEF TurnedAway
  <2>14. req' = [req EXCEPT ![r] = q]
    BY <2>1, <2>3 DEF To, Goes
  <2> QED BY <1>1, <1>2, <1>3, <2>2, <2>6, <2>7, <2>9, <2>12, <2>13, <2>14, OrdinaryStep
<1>5. CASE MarkVerified(r) \/ MarkReset(r)
  <2>1. /\ req[r].token \in Rows(token)
        /\ token' = [token EXCEPT ![req[r].token].used = TRUE]
        /\ \/ Ends(r)
           \/ To(r, "verify") /\ req[r].pc = "markVerified"
    BY <1>5 DEF MarkVerified, MarkReset, OrEnds, At
  <2>2. token' = [t \in Tokens |-> IF t \in {req[r].token} THEN [token[t] EXCEPT !.used = TRUE]
                                   ELSE token[t]]
    BY <1>3, <2>1 DEF AccountsTypeOK
  <2>3. {req[r].token} \in SUBSET Rows(token)
    BY <2>1
  <2>4. KeepsTokens
    BY <1>3, <2>2, <2>3, LinksUsed
  <2>5. CASE Ends(r)
    BY <1>1, <1>2, <1>3, <2>4, <2>5, Ending, OrdinaryRequest
  <2>6. CASE To(r, "verify") /\ req[r].pc = "markVerified"
    <3>1. req[r] \in ByToken
      BY <1>2, <2>6, StandsAs
    <3>2. [req[r] EXCEPT !.pc = "verify"] \in Busy
      BY <3>1, MovesOn DEF Busy
    <3>3. \E q : Continues(r, q)
      BY <1>2, <2>6, <3>2, Onward DEF Uninformed
    <3> QED BY <1>1, <1>2, <1>3, <2>4, <3>3, OrdinaryRequest
  <2> QED BY <2>1, <2>5, <2>6
<1> QED BY <1>4, <1>5

-----------------------------------------------------------------------------
(* The other steps, by what they leave true: a request keeps what it knows   *)
(* when passwords stay accounted for, links are used or go, and nobody else  *)
(* opens a verification link of the user it writes one for.                  *)
TokensGoOn ==
  \A t \in Tokens :
    /\ token[t] = Erased => token'[t] = Erased
    /\ t \in Rows(token) =>
         \/ token'[t] = Erased
         \/ /\ t \in Rows(token)' /\ token'[t].kind = token[t].kind
            /\ token'[t].user = token[t].user
            /\ token[t].used => token'[t].used

StaysRegistered(u) == user[u].status # "none" => user'[u].status # "none"

AccountsGoOn(u) ==
  /\ \A p, w : Accounted(u, p, w) => Accounted(u, p, w)'
  /\ StaysRegistered(u)

NoNewLink(q) ==
  asked'[q.user] = now' /\ LinksOf(q.user, "verify")' \subseteq LinksOf(q.user, "verify")

GoesOn(q) ==
  /\ q \in Busy => AccountsGoOn(q.user) \/ (q.swept /\ StaysRegistered(q.user))
  /\ q \in Busy /\ Deleted(q.user)' => Deleted(q.user)
  /\ Writing(q) => NoNewLink(q)

LEMMA StillKnows ==
  ASSUME AccountsInvariant, NEW q \in Busy \union {Idle, Done}, Knows(q), GoesOn(q), TokensGoOn
  PROVE  Knows(q)'
<1>1. CASE q \in {Idle, Done}
  BY <1>1, Standing DEF Knows, Informed, TurnedAway, Writing
<1>2. CASE q \in Busy
  <2>1. q.user \in Users
    BY <1>2, Standing
  <2>2. q.pc = "open" => Accounted(q.user, q.password, q.swept)'
    BY <1>2, <2>1 DEF GoesOn, Knows, Informed, AccountsGoOn, Accounted, StaysRegistered
  <2>3. q.pc \in {"open", "linkOnly", "vouch"} => user'[q.user].status # "none"
    BY <1>2, <2>1 DEF GoesOn, Knows, Informed, AccountsGoOn, StaysRegistered
  <2>4. q.pc \in {"token", "owner", "voidReset", "password"} => q.token \in Tokens
    BY StandsAs DEF ByToken
  <2>5. q.pc \in {"token", "owner", "voidReset"} =>
          token'[q.token] = Erased \/ q.token \in LinksOf(q.user, q.op)'
    BY <2>4 DEF Knows, Informed, TokensGoOn, LinksOf
  <2>6. q.pc = "password" =>
          token'[q.token] = Erased \/ (q.token \in Rows(token)' /\ token'[q.token].used)
    BY <2>4 DEF Knows, Informed, TokensGoOn
  <2>7. Writing(q) => asked'[q.user] = now'
    BY DEF GoesOn, NoNewLink
  <2>8. ASSUME Writing(q), q.pc = "link", NEW t \in LinksOf(q.user, "verify")'
        PROVE  token'[t].used
    <3>1. t \in LinksOf(q.user, "verify") /\ token[t].used
      BY <2>8 DEF GoesOn, Knows, Informed, NoNewLink
    <3>2. t \in Rows(token) /\ t \in Tokens /\ t \in Rows(token)'
      BY <2>8, <3>1, TokenRows DEF LinksOf, AccountsInvariant, AccountsTypeOK
    <3> QED BY <3>1, <3>2 DEF TokensGoOn, Rows
  <2>9. Informed(q)'
    BY <2>2, <2>3, <2>5, <2>6, <2>7, <2>8 DEF Knows, Informed, Writing
  <2>10. TurnedAway(q)'
    BY <1>2, <2>1 DEF GoesOn, Knows, TurnedAway
  <2> QED BY <2>9, <2>10 DEF Knows
<1> QED BY <1>1, <1>2

(* A step that changes at most one request, and no session.                  *)
LEMMA FrameStep ==
  ASSUME AccountsInvariant, AccountsTypeOK', NEW C \in SUBSET Requests,
         \A x, y \in C : x = y, \A x \in Requests \ C : req'[x] = req[x],
         session' = session,
         \A u \in Users : AccountsGoOn(u),
         \A u \in Users : Deleted(u)' => Deleted(u) /\ user'[u] = user[u],
         TokensGoOn,
         \A x \in Requests \ C : \A p \in {req[x]} : Writing(p) => NoNewLink(p),
         \A x \in C : \A p \in {req'[x]} :
           /\ Knows(p)'
           /\ Writing(p) => \A y \in Requests \ C : Writing(req[y]) => req[y].user # p.user,
         LinksFit',
         \A t \in Rows(token)' : \A u \in {token'[t].user} :
           Deleted(u) => t \in Rows(token) /\ token[t].user = u
  PROVE  AccountsInvariant'
<1> USE DEF AccountsInvariant
<1>1. ASSUME NEW x \in Requests \ C, NEW z \in {req'[x]} PROVE Knows(z)'
  <2>1. PICK p \in Busy \union {Idle, Done} : p = req[x]
    BY DEF AccountsTypeOK
  <2>2. Knows(p) /\ (Writing(p) => NoNewLink(p))
    BY <2>1 DEF RequestsFit
  <2>3. Knows(p)'
    <3>1. GoesOn(p)
      BY <2>1, <2>2, Standing DEF GoesOn
    <3> QED BY <2>1, <2>2, <3>1, StillKnows
  <2>4. z = p
    BY <2>1
  <2> QED BY <2>3, <2>4
<1>2. \A x \in Requests : \A z \in {req'[x]} : Knows(z)'
  BY <1>1
<1>3. ASSUME NEW x \in Requests, NEW y \in Requests, Writing(req'[x]), Writing(req'[y]),
             req'[x].user = req'[y].user
      PROVE  x = y
  BY <1>3 DEF RequestsFit
<1>4. RequestsFit'
  BY <1>2, <1>3, Zenon DEF RequestsFit
<1>5. SessionsFit'
  <2> SUFFICES ASSUME NEW s \in Rows(session)'
               PROVE  /\ Accounted(session[s].user, session[s].password, session[s].swept)'
                      /\ user'[session'[s].user].status # "none"
    BY DEF SessionsFit
  <2>1. s \in Rows(session) /\ session[s].user \in Users
    BY SessionRows DEF Rows, AccountsTypeOK, SessionRow
  <2>2. PICK u, p, sw : /\ u \in Users /\ u = session[s].user
                        /\ p = session[s].password /\ sw = session[s].swept
    BY <2>1
  <2>3. Accounted(u, p, sw) /\ user[u].status # "none"
    BY <2>1, <2>2 DEF SessionsFit
  <2>4. Accounted(u, p, sw)' /\ user'[u].status # "none"
    BY <2>2, <2>3 DEF AccountsGoOn, StaysRegistered
  <2> QED BY <2>2, <2>4
<1>6. DeletedIsErased'
  <2> SUFFICES ASSUME NEW u \in Users, user'[u].status = "DELETED", u \notin crowded'
               PROVE  /\ user'[u] = [Unregistered EXCEPT !.status = "DELETED"]
                      /\ \A s \in Rows(session)' : session'[s].user # u
                      /\ \A t \in Rows(token)' : token'[t].user # u
    BY DEF DeletedIsErased
  <2>1. Deleted(u) /\ user'[u] = user[u]
    BY DEF Deleted
  <2>2. /\ user[u] = [Unregistered EXCEPT !.status = "DELETED"]
        /\ \A s \in Rows(session) : session[s].user # u
        /\ \A t \in Rows(token) : token[t].user # u
    BY <2>1 DEF DeletedIsErased, Deleted
  <2>3. \A t \in Rows(token)' : token'[t].user # u
    BY <2>1, <2>2
  <2>4. \A s \in Rows(session)' : session'[s].user # u
    BY <2>2 DEF Rows
  <2> QED BY <2>1, <2>2, <2>3, <2>4
<1> QED BY <1>4, <1>5, <1>6

(* Passwords and accounts that nobody touches.                               *)
LEMMA AccountsUntouched ==
  ASSUME user' = user, \A u \in Users : Resetting(u) => Resetting(u)' \/ u \in halfReset',
         halfReset \subseteq halfReset'
  PROVE  \A u \in Users : AccountsGoOn(u)
BY DEF AccountsGoOn, Accounted, StaysRegistered

LEMMA ResettingStill ==
  ASSUME AccountsTypeOK, NEW r \in Requests, ~At(r, "sweep"), NEW q, req' = [req EXCEPT ![r] = q]
  PROVE  \A u \in Users : Resetting(u) => Resetting(u)'
BY DEF Resetting, At, AccountsTypeOK

LEMMA LinksUntouched ==
  ASSUME AccountsInvariant, token' = token
  PROVE  /\ TokensGoOn /\ LinksFit'
         /\ \A u : LinksOf(u, "verify")' = LinksOf(u, "verify")
         /\ Rows(token)' = Rows(token)
BY DEF AccountsInvariant, LinksFit, LinksOf, Rows, TokensGoOn

LEMMA AfterVerificationRequest ==
  ASSUME AccountsInvariant, NEW r \in Requests, RequestVerification(r)
  PROVE  AccountsInvariant'
<1>1. req[r].pc = "verification" /\ UNCHANGED <<now, tables, history>> /\ AccountsTypeOK
  BY DEF RequestVerification, At, AccountsInvariant
<1>2. /\ req[r] \in Busy /\ req[r].user \in Users /\ ~At(r, "sweep") /\ ~Deleted(req[r].user)
      /\ req[r] \in ByUser
  BY <1>1, UnderWayIsBusy, StandsAs DEF FirstPlaces, At
<1>3. CASE asked' = asked /\ Ends(r)
  BY <1>1, <1>2, <1>3, Ending, ReadingRequest DEF Reads
<1>4. CASE /\ ~CoolingDown(req[r].user) /\ asked' = [asked EXCEPT ![req[r].user] = now]
           /\ To(r, "void")
  <2>1. PICK q : q = [req[r] EXCEPT !.pc = "void"]
    OBVIOUS
  <2>2. q \in Busy /\ q.pc = "void" /\ q.user = req[r].user
    BY <1>2, <2>1, MovesOn, OnlyPlace DEF Busy
  <2>3. req' = [req EXCEPT ![r] = q]
    BY <1>4, <2>1 DEF To, Goes
  <2>4. asked'[q.user] = now' /\ now \in Nat
    BY <1>1, <1>2, <1>4, <2>2 DEF AccountsTypeOK
  <2>5. Knows(q)'
    <3>1. Informed(q)'
      BY <2>2, <2>4 DEF Informed, Writing
    <3>2. ~Deleted(q.user)'
      BY <1>1, <1>2, <2>2 DEF Deleted, tables, history
    <3> QED BY <3>1, <3>2 DEF Knows, TurnedAway
  <2>6. asked[q.user] # now
    BY <1>1, <1>4, <2>2, <2>4, TimesAssumption DEF CoolingDown
  <2>7. ASSUME NEW x \in Requests \ {r}, NEW p \in {req[x]}, Writing(p)
        PROVE  NoNewLink(p) /\ p.user # q.user
    <3>1. Knows(p) /\ p \in Busy \union {Idle, Done}
      BY DEF AccountsInvariant, AccountsTypeOK, RequestsFit
    <3>2. asked[p.user] = now
      BY <2>7, <3>1 DEF Knows, Informed
    <3>3. p.user \in Users
      BY <2>7, <3>1, Standing DEF Writing
    <3>4. p.user # q.user
      BY <2>6, <3>2
    <3>5. asked'[p.user] = now'
      BY <1>1, <1>4, <2>2, <3>2, <3>3, <3>4 DEF AccountsTypeOK
    <3>6. LinksOf(p.user, "verify")' = LinksOf(p.user, "verify")
      BY <1>1, LinksUntouched DEF tables
    <3> QED BY <3>4, <3>5, <3>6 DEF NoNewLink
  <2>8. AccountsTypeOK'
    BY <1>1, <1>2, <1>4, <2>2, <2>3 DEF AccountsTypeOK, tables, history
  <2>9. \A u \in Users : AccountsGoOn(u)
    BY <1>1, <1>2, <2>3, ResettingStill, AccountsUntouched DEF tables, history
  <2>10. \A u \in Users : Deleted(u)' => Deleted(u) /\ user'[u] = user[u]
    BY <1>1 DEF tables, history, Deleted
  <2>11. /\ TokensGoOn /\ LinksFit'
         /\ \A t \in Rows(token)' : \A u \in {token'[t].user} :
              Deleted(u) => t \in Rows(token) /\ token[t].user = u
    BY <1>1, LinksUntouched DEF tables
  <2>12. PICK C \in SUBSET Requests : C = {r}
    OBVIOUS
  <2>13. /\ \A x, y \in C : x = y
         /\ \A x \in Requests \ C : req'[x] = req[x]
         /\ \A x \in C : req'[x] = q
    BY <1>1, <2>3, <2>12 DEF AccountsTypeOK
  <2>14. \A x \in Requests \ C : \A p \in {req[x]} : Writing(p) => NoNewLink(p)
    BY <2>7, <2>12
  <2>15. \A x \in C : \A p \in {req'[x]} :
           /\ Knows(p)'
           /\ Writing(p) => \A y \in Requests \ C : Writing(req[y]) => req[y].user # p.user
    BY <2>5, <2>7, <2>12, <2>13
  <2>16. session' = session
    BY <1>1 DEF tables
  <2> QED BY <2>8, <2>9, <2>10, <2>11, <2>13, <2>14, <2>15, <2>16, FrameStep
<1> QED BY <1>3, <1>4 DEF RequestVerification, OrEnds

(* A new link: the links of its kind and user were voided before.            *)
LEMMA AfterCreateLink ==
  ASSUME AccountsInvariant, NEW r \in Requests, CreateLink(r)
  PROVE  AccountsInvariant'
<1>1. /\ req[r].pc = "link" /\ AccountsTypeOK /\ Ends(r)
      /\ UNCHANGED <<now, asked, halfReset, crowded, user, session, passwords>>
  BY DEF CreateLink, At, AccountsInvariant, history
<1>2. /\ req[r] \in Busy /\ req[r].user \in Users /\ ~At(r, "sweep") /\ ~Deleted(req[r].user)
      /\ Knows(req[r])
  BY <1>1, UnderWayIsBusy DEF FirstPlaces, At
<1>3. PICK t, kind, row :
        /\ t \in Tokens /\ kind \in {"verify", "reset"}
        /\ token[t] = NoRow /\ token' = [token EXCEPT ![t] = row]
        /\ kind = (IF req[r].op = "resetRequest" THEN "reset" ELSE "verify")
        /\ row = [kind |-> kind, user |-> req[r].user, expires |-> now + LinkLife,
                  used |-> FALSE, spent |-> FALSE]
  <2>1. PICK kind \in {"verify", "reset"} :
          kind = (IF req[r].op = "resetRequest" THEN "reset" ELSE "verify")
    OBVIOUS
  <2> QED BY <2>1 DEF CreateLink
<1>4. /\ row \in TokenRow /\ row.user = req[r].user /\ row.kind = kind
      /\ ~row.used /\ ~row.spent
  BY <1>1, <1>2, <1>3, TimesAssumption DEF TokenRow, AccountsTypeOK
<1>5. /\ token' \in [Tokens -> TokenRow \union {NoRow, Erased}] /\ token'[t] = row
      /\ \A x \in Tokens \ {t} : token'[x] = token[x]
  BY <1>1, <1>3, <1>4 DEF AccountsTypeOK
<1>6. /\ t \notin Rows(token) /\ Rows(token) \subseteq Tokens
      /\ \A x \in Rows(token)' : x \in Rows(token) \/ x = t
      /\ \A x \in Rows(token) : x \in Rows(token)' /\ token'[x] = token[x]
  <2>1. t \notin Rows(token) /\ Rows(token) \subseteq Tokens
    BY <1>1, <1>3, TokenRows DEF Rows, AccountsTypeOK
  <2>2. /\ Rows(token') \subseteq Tokens
        /\ \A x \in Tokens : x \in Rows(token') <=> token'[x] \in TokenRow
    BY <1>5, RowsOfTable, RowKinds
  <2>3. \A x \in Tokens : x \in Rows(token) <=> token[x] \in TokenRow
    BY <1>1, TokenRows DEF AccountsTypeOK
  <2>4. \A x \in Rows(token)' : x \in Rows(token) \/ x = t
    BY <1>5, <2>2, <2>3
  <2>5. \A x \in Rows(token) : x \in Rows(token)' /\ token'[x] = token[x]
    BY <1>5, <2>1, <2>2, <2>3
  <2> QED BY <2>1, <2>4, <2>5
<1>7. TokensGoOn
  BY <1>3, <1>5, <1>6, RowKinds DEF TokensGoOn
<1>8. ASSUME NEW u
      PROVE  /\ \A x \in LinksOf(u, "verify")' :
                  x \in LinksOf(u, "verify") \/ (x = t /\ u = req[r].user /\ Writing(req[r]))
             /\ \A x \in LinksOf(u, "verify") : token'[x] = token[x]
  <2>1. kind = "verify" => Writing(req[r])
    BY <1>1, <1>3 DEF Writing
  <2>2. ASSUME NEW x \in LinksOf(u, "verify")'
        PROVE  x \in LinksOf(u, "verify") \/ (x = t /\ u = req[r].user /\ Writing(req[r]))
    <3>1. x \in Rows(token)' /\ token'[x].kind = "verify" /\ token'[x].user = u
      BY <2>2 DEF LinksOf
    <3>2. CASE x \in Rows(token)
      BY <3>1, <3>2, <1>6 DEF LinksOf
    <3>3. CASE x = t
      BY <3>1, <3>3, <2>1, <1>4, <1>5
    <3> QED BY <3>1, <3>2, <3>3, <1>6
  <2>3. \A x \in LinksOf(u, "verify") : token'[x] = token[x]
    BY <1>6 DEF LinksOf
  <2> QED BY <2>2, <2>3
<1>9. LinksFit'
  <2>1. \A x \in Rows(token)' : token'[x].spent => token'[x].used
    BY <1>4, <1>5, <1>6 DEF LinksFit, AccountsInvariant
  <2>2. ASSUME NEW u \in Users, NEW x \in LinksOf(u, "verify")', NEW y \in LinksOf(u, "verify")',
               ~token'[x].used, ~token'[y].used
        PROVE  x = y
    <3>1. Writing(req[r]) => \A z \in LinksOf(req[r].user, "verify") : token[z].used
      BY <1>1, <1>2 DEF Knows, Informed
    <3>2. \A z \in {x, y} : z = t \/ (z \in LinksOf(u, "verify") /\ ~token[z].used)
      BY <1>8, <2>2
    <3>3. x = t \/ y = t => Writing(req[r]) /\ u = req[r].user
      <4>1. t \notin LinksOf(u, "verify")
        BY <1>6 DEF LinksOf
      <4> QED BY <1>8, <4>1
    <3> QED BY <3>1, <3>2, <3>3 DEF LinksFit, AccountsInvariant
  <2> QED BY <2>1, <2>2 DEF LinksFit
<1>10. AccountsTypeOK' /\ req'[r] = Done /\ \A x \in Requests \ {r} : req'[x] = req[x]
  BY <1>1, <1>5 DEF AccountsTypeOK, Ends, Goes
<1>11. \A u \in Users : AccountsGoOn(u)
  <2>1. req' = [req EXCEPT ![r] = Done]
    BY <1>1 DEF Ends, Goes
  <2> QED BY <1>1, <1>2, <2>1, ResettingStill, AccountsUntouched
<1>12. \A u \in Users : Deleted(u)' => Deleted(u) /\ user'[u] = user[u]
  BY <1>1 DEF Deleted
<1>13. \A x \in Rows(token)' : \A u \in {token'[x].user} :
         Deleted(u) => x \in Rows(token) /\ token[x].user = u
  BY <1>2, <1>4, <1>5, <1>6
<1>14. ASSUME NEW x \in Requests \ {r}, NEW p \in {req[x]}, Writing(p)
       PROVE  NoNewLink(p)
  <2>1. Knows(p)
    BY DEF AccountsInvariant, RequestsFit
  <2>2. asked'[p.user] = now'
    BY <1>1, <1>14, <2>1 DEF Knows, Informed
  <2>3. ~(Writing(req[r]) /\ p.user = req[r].user)
    BY <1>14 DEF AccountsInvariant, RequestsFit
  <2>4. LinksOf(p.user, "verify")' \subseteq LinksOf(p.user, "verify")
    BY <1>8, <2>3
  <2> QED BY <2>2, <2>4 DEF NoNewLink
<1>15. Knows(Done)' /\ ~Writing(Done)
  BY Standing DEF Knows, Informed, TurnedAway, Writing, Done
<1>16. PICK C \in SUBSET Requests : C = {r}
  OBVIOUS
<1>17. \A x \in Requests \ C : \A p \in {req[x]} : Writing(p) => NoNewLink(p)
  BY <1>14, <1>16
<1>18. \A x \in C : \A p \in {req'[x]} :
         /\ Knows(p)'
         /\ Writing(p) => \A y \in Requests \ C : Writing(req[y]) => req[y].user # p.user
  <2>1. \A x \in C : \A p \in {req'[x]} : p = Done
    BY <1>10, <1>16
  <2> QED BY <1>15, <2>1
<1>19. (\A x, y \in C : x = y) /\ \A x \in Requests \ C : req'[x] = req[x]
  BY <1>10, <1>16
<1> QED BY <1>1, <1>7, <1>9, <1>10, <1>11, <1>12, <1>13, <1>17, <1>18, <1>19, FrameStep

(* A new password: the sessions of the old one wait for the request that     *)
(* wrote it.                                                                 *)
LEMMA AfterPassword ==
  ASSUME AccountsInvariant, NEW r \in Requests, WritePassword(r)
  PROVE  AccountsInvariant'
<1>1. /\ req[r].pc = "password" /\ AccountsTypeOK /\ To(r, "sweep")
      /\ UNCHANGED <<now, asked, halfReset, crowded, session>> /\ passwords' = passwords + 1
      /\ Update(r, [Row(r) EXCEPT !.password = passwords + 1])
  BY DEF WritePassword, At, AccountsInvariant
<1>2. /\ req[r] \in Busy /\ req[r].user \in Users /\ ~At(r, "sweep") /\ ~Deleted(req[r].user)
      /\ Knows(req[r]) /\ req[r] \in ByToken
  BY <1>1, UnderWayIsBusy, StandsAs DEF FirstPlaces, At
<1>3. PICK q : q = [req[r] EXCEPT !.pc = "sweep"]
  OBVIOUS
<1>4. q \in Busy /\ q.pc = "sweep" /\ q.user = req[r].user
  BY <1>2, <1>3, MovesOn, OnlyPlace DEF Busy
<1>5. /\ req' \in [Requests -> Busy \union {Idle, Done}] /\ req'[r] = q
      /\ \A x \in Requests \ {r} : req'[x] = req[x]
  BY <1>1, <1>3, <1>4 DEF AccountsTypeOK, To, Goes
<1>6. PICK row : row = [Row(r) EXCEPT !.password = passwords + 1]
  OBVIOUS
<1>7. row \in AccountRow /\ row.status = Row(r).status
  BY <1>1, <1>2, <1>6 DEF AccountsTypeOK, Row, AccountRow
<1>8. /\ user' \in [Users -> AccountRow] /\ user'[req[r].user] = row
      /\ \A u \in Users \ {req[r].user} : user'[u] = user[u]
  BY <1>1, <1>2, <1>6, <1>7 DEF AccountsTypeOK, Update
<1>9. PICK z \in Tokens : z = req[r].token
  BY <1>2 DEF ByToken
<1>10. token' = [t \in Tokens |-> IF t = z /\ t \in Rows(token)
                                  THEN [token[t] EXCEPT !.spent = TRUE] ELSE token[t]]
  BY <1>9 DEF WritePassword
<1>11. ASSUME NEW t \in Tokens
       PROVE  \/ token'[t] = token[t]
              \/ /\ t = z /\ token[t] \in TokenRow /\ token'[t] \in TokenRow
                 /\ token'[t].kind = token[t].kind /\ token'[t].user = token[t].user
                 /\ token'[t].used = token[t].used
  <2>1. CASE t = z /\ t \in Rows(token)
    <3>1. token[t] \in TokenRow /\ token'[t] = [token[t] EXCEPT !.spent = TRUE]
      BY <1>1, <1>10, <2>1, TokenRows DEF AccountsTypeOK
    <3> QED BY <2>1, <3>1 DEF TokenRow
  <2>2. CASE ~(t = z /\ t \in Rows(token))
    BY <1>10, <2>2
  <2> QED BY <2>1, <2>2
<1>12. token' \in [Tokens -> TokenRow \union {NoRow, Erased}]
  <2>1. \A t \in Tokens : token'[t] \in TokenRow \union {NoRow, Erased}
    BY <1>1, <1>11 DEF AccountsTypeOK
  <2> QED BY <1>10, <2>1
<1>13. /\ Rows(token) \subseteq Tokens /\ Rows(token)' = Rows(token)
       /\ \A t \in Rows(token) : /\ token'[t].kind = token[t].kind
                                 /\ token'[t].user = token[t].user
                                 /\ token'[t].used = token[t].used
       /\ \A t \in Rows(token) : t = z \/ token'[t] = token[t]
  <2>1. /\ Rows(token) \subseteq Tokens
        /\ \A x \in Tokens : x \in Rows(token) <=> token[x] \in TokenRow
    BY <1>1, TokenRows DEF AccountsTypeOK
  <2>2. /\ Rows(token') \subseteq Tokens
        /\ \A x \in Tokens : x \in Rows(token') <=> token'[x] \in TokenRow
    BY <1>12, RowsOfTable, RowKinds
  <2>3. \A x \in Tokens : x \in Rows(token') <=> x \in Rows(token)
    BY <1>11, <2>1, <2>2
  <2> QED BY <1>11, <2>1, <2>2, <2>3
<1>14. \A u : LinksOf(u, "verify")' = LinksOf(u, "verify")
  BY <1>13 DEF LinksOf
<1>15. TokensGoOn
  BY <1>11, <1>13, RowKinds DEF TokensGoOn
<1>16. LinksFit'
  <2>1. z \in Rows(token) => token[z].used
    BY <1>1, <1>2, <1>9 DEF Knows, Informed, Rows
  <2>2. \A t \in Rows(token)' : token'[t].spent => token'[t].used
    BY <1>13, <2>1 DEF LinksFit, AccountsInvariant
  <2>3. \A u : \A t \in LinksOf(u, "verify") : token'[t].used = token[t].used
    BY <1>13 DEF LinksOf
  <2> QED BY <1>14, <2>2, <2>3 DEF LinksFit, AccountsInvariant
<1>17. AccountsTypeOK'
  BY <1>1, <1>5, <1>8, <1>12 DEF AccountsTypeOK
<1>18. ASSUME NEW u \in Users PROVE AccountsGoOn(u)
  <2>1. CASE u = req[r].user
    <3>1. Resetting(u)'
      BY <1>4, <1>5, <2>1 DEF Resetting, At
    <3>2. user'[u].status = user[u].status
      BY <1>7, <1>8, <2>1 DEF Row
    <3> QED BY <3>1, <3>2 DEF AccountsGoOn, Accounted, StaysRegistered
  <2>2. CASE u # req[r].user
    <3>1. Resetting(u) => Resetting(u)'
      BY <1>2, <1>5 DEF Resetting, At
    <3> QED BY <1>1, <1>8, <2>2, <3>1 DEF AccountsGoOn, Accounted, StaysRegistered
  <2> QED BY <2>1, <2>2
<1>19. \A u \in Users : Deleted(u)' => Deleted(u) /\ user'[u] = user[u]
  BY <1>1, <1>2, <1>7, <1>8 DEF Deleted, Row
<1>20. \A x \in Rows(token)' : \A u \in {token'[x].user} :
         Deleted(u) => x \in Rows(token) /\ token[x].user = u
  BY <1>13
<1>21. Knows(q)' /\ ~Writing(q)
  <2>1. ~Deleted(q.user)'
    BY <1>2, <1>4, <1>19, Standing
  <2> QED BY <1>4, <2>1 DEF Knows, Informed, TurnedAway, Writing
<1>22. ASSUME NEW x \in Requests \ {r}, NEW p \in {req[x]}, Writing(p)
       PROVE  NoNewLink(p)
  <2>1. Knows(p)
    BY DEF AccountsInvariant, RequestsFit
  <2> QED BY <1>1, <1>14, <1>22, <2>1 DEF NoNewLink, Knows, Informed
<1>23. PICK C \in SUBSET Requests : C = {r}
  OBVIOUS
<1>24. \A x \in Requests \ C : \A p \in {req[x]} : Writing(p) => NoNewLink(p)
  BY <1>22, <1>23
<1>25. \A x \in C : \A p \in {req'[x]} :
         /\ Knows(p)'
         /\ Writing(p) => \A y \in Requests \ C : Writing(req[y]) => req[y].user # p.user
  <2>1. \A x \in C : \A p \in {req'[x]} : p = q
    BY <1>5, <1>23
  <2> QED BY <1>21, <2>1
<1>26. (\A x, y \in C : x = y) /\ \A x \in Requests \ C : req'[x] = req[x]
  BY <1>5, <1>23
<1> QED BY <1>1, <1>15, <1>16, <1>17, <1>18, <1>19, <1>20, <1>24, <1>25, <1>26, FrameStep

LEMMA AfterFailure ==
  ASSUME AccountsInvariant, NEW r \in Requests, Fails(r)
  PROVE  AccountsInvariant'
<1>1. /\ r \in UnderWay /\ AccountsTypeOK /\ req' = [req EXCEPT ![r] = Done]
      /\ UNCHANGED <<now, asked, crowded, user, session, token, passwords>>
      /\ halfReset' = halfReset \union {u \in {req[r].user} : At(r, "sweep")}
  BY DEF Fails, AccountsInvariant, tables, Ends, Goes
<1>2. req[r] \in Busy /\ req[r].user \in Users
  BY <1>1, Standing DEF UnderWay, AccountsTypeOK
<1>3. AccountsTypeOK' /\ req'[r] = Done /\ \A x \in Requests \ {r} : req'[x] = req[x]
  BY <1>1, <1>2 DEF AccountsTypeOK
<1>4. \A u \in Users : AccountsGoOn(u)
  <2>1. ASSUME NEW u \in Users, Resetting(u) PROVE Resetting(u)' \/ u \in halfReset'
    <3>1. PICK x \in Requests : At(x, "sweep") /\ req[x].user = u
      BY <2>1 DEF Resetting
    <3>2. CASE x = r
      BY <1>1, <3>1, <3>2
    <3>3. CASE x # r
      BY <1>3, <3>1, <3>3 DEF Resetting, At
    <3> QED BY <3>2, <3>3
  <2> QED BY <1>1, <2>1, AccountsUntouched
<1>5. \A u \in Users : Deleted(u)' => Deleted(u) /\ user'[u] = user[u]
  BY <1>1 DEF Deleted
<1>6. /\ TokensGoOn /\ LinksFit'
      /\ \A u : LinksOf(u, "verify")' = LinksOf(u, "verify")
      /\ \A t \in Rows(token)' : \A u \in {token'[t].user} :
           Deleted(u) => t \in Rows(token) /\ token[t].user = u
  BY <1>1, LinksUntouched
<1>7. ASSUME NEW x \in Requests \ {r}, NEW p \in {req[x]}, Writing(p)
      PROVE  NoNewLink(p)
  <2>1. Knows(p)
    BY DEF AccountsInvariant, RequestsFit
  <2> QED BY <1>1, <1>6, <1>7, <2>1 DEF NoNewLink, Knows, Informed
<1>8. Knows(Done)' /\ ~Writing(Done)
  BY Standing DEF Knows, Informed, TurnedAway, Writing, Done
<1>9. PICK C \in SUBSET Requests : C = {r}
  OBVIOUS
<1>10. \A x \in Requests \ C : \A p \in {req[x]} : Writing(p) => NoNewLink(p)
  BY <1>7, <1>9
<1>11. \A x \in C : \A p \in {req'[x]} :
         /\ Knows(p)'
         /\ Writing(p) => \A y \in Requests \ C : Writing(req[y]) => req[y].user # p.user
  <2>1. \A x \in C : \A p \in {req'[x]} : p = Done
    BY <1>3, <1>9
  <2> QED BY <1>8, <2>1
<1>12. (\A x, y \in C : x = y) /\ \A x \in Requests \ C : req'[x] = req[x]
  BY <1>3, <1>9
<1> QED BY <1>1, <1>3, <1>4, <1>5, <1>6, <1>10, <1>11, <1>12, FrameStep

(* Time passes, and no verification link is about to be written.             *)
LEMMA AfterTick ==
  ASSUME AccountsInvariant, Tick
  PROVE  AccountsInvariant'
<1>1. /\ UNCHANGED <<tables, asked, req, history>> /\ now' = now + 1 /\ AccountsTypeOK
      /\ \A x \in Requests : ~Writing(req[x])
  BY DEF Tick, AccountsInvariant, Writing, At
<1>2. AccountsTypeOK'
  BY <1>1 DEF AccountsTypeOK, tables, history
<1>3. \A u \in Users : AccountsGoOn(u)
  <2>1. \A u \in Users : Resetting(u) => Resetting(u)'
    BY <1>1 DEF Resetting, At
  <2> QED BY <1>1, <2>1, AccountsUntouched DEF tables, history
<1>4. \A u \in Users : Deleted(u)' => Deleted(u) /\ user'[u] = user[u]
  BY <1>1 DEF Deleted, tables, history
<1>5. /\ TokensGoOn /\ LinksFit'
      /\ \A t \in Rows(token)' : \A u \in {token'[t].user} :
           Deleted(u) => t \in Rows(token) /\ token[t].user = u
  BY <1>1, LinksUntouched DEF tables
<1>6. PICK C \in SUBSET Requests : C = {}
  OBVIOUS
<1>7. /\ \A x, y \in C : x = y
      /\ \A x \in Requests \ C : req'[x] = req[x]
      /\ \A x \in Requests \ C : \A p \in {req[x]} : Writing(p) => NoNewLink(p)
      /\ session' = session
  BY <1>1, <1>6 DEF tables
<1>8. \A x \in C : \A p \in {req'[x]} :
        /\ Knows(p)'
        /\ Writing(p) => \A y \in Requests \ C : Writing(req[y]) => req[y].user # p.user
  BY <1>6
<1> QED BY <1>2, <1>3, <1>4, <1>5, <1>7, <1>8, FrameStep

-----------------------------------------------------------------------------
(* A step that deletes the sessions of its user: the requests of that user   *)
(* that are under way are told so.                                           *)
Told(q) == [q EXCEPT !.swept = TRUE]

LEMMA ToldRequest ==
  ASSUME NEW q \in Busy, NEW z, z = Told(q)
  PROVE  /\ z \in Busy /\ z.pc = q.pc /\ z.user = q.user /\ z.op = q.op /\ z.swept
         /\ q \in ByUser => z \in ByUser
         /\ q \in ByToken => z.token = q.token /\ z \in ByToken
<1>1. CASE q \in ByUser
  <2>1. z \in ByUser /\ z.pc = q.pc /\ z.user = q.user /\ z.op = q.op /\ z.swept
    BY <1>1 DEF ByUser, Told
  <2>2. q \notin ByToken
    BY <1>1 DEF ByUser, ByToken
  <2> QED BY <2>1, <2>2 DEF Busy
<1>2. CASE q \in BySession
  <2>1. z \in BySession /\ z.pc = q.pc /\ z.user = q.user /\ z.op = q.op /\ z.swept
    BY <1>2 DEF BySession, Told
  <2>2. q \notin ByToken /\ q \notin ByUser
    BY <1>2 DEF ByUser, ByToken, BySession, Orders
  <2> QED BY <2>1, <2>2 DEF Busy
<1>3. CASE q \in Renewing
  <2>1. z \in Renewing /\ z.pc = q.pc /\ z.user = q.user /\ z.op = q.op /\ z.swept
    BY <1>3 DEF Renewing, Told
  <2>2. q \notin ByToken /\ q \notin ByUser
    BY <1>3 DEF ByUser, ByToken, Renewing, Orders
  <2> QED BY <2>1, <2>2 DEF Busy
<1>4. CASE q \in ByToken
  <2>1. /\ z \in ByToken /\ z.pc = q.pc /\ z.user = q.user /\ z.op = q.op /\ z.swept
        /\ z.token = q.token
    BY <1>4 DEF ByToken, Told
  <2>2. q \notin ByUser
    BY <1>4 DEF ByUser, ByToken, Orders
  <2> QED BY <2>1, <2>2 DEF Busy
<1> QED BY <1>1, <1>2, <1>3, <1>4 DEF Busy

LEMMA ToldKnows ==
  ASSUME NEW q \in Busy, NEW z, z = Told(q), Knows(q)
  PROVE  Knows(z) /\ (Writing(z) <=> Writing(q))
<1>1. /\ z \in Busy /\ z.pc = q.pc /\ z.user = q.user /\ z.op = q.op /\ z.swept
      /\ q \in ByToken => z.token = q.token
  BY ToldRequest
<1>2. q.pc \in {"token", "owner", "voidReset", "password"} => q \in ByToken
  BY StandsAs
<1>3. Informed(z)
  BY <1>1, <1>2 DEF Knows, Informed, Accounted, Writing
<1>4. TurnedAway(z) /\ (Writing(z) <=> Writing(q))
  BY <1>1 DEF Knows, TurnedAway, Writing
<1> QED BY <1>3, <1>4 DEF Knows

LEMMA SweepingStep ==
  ASSUME AccountsInvariant, NEW r \in Requests, req[r] \in Busy, NEW u \in Users, u = req[r].user,
         NEW q \in Busy \union {Done}, req' = [Swept(u) EXCEPT ![r] = q], Knows(q)', ~Writing(q),
         session' = Without(u), UNCHANGED <<now, asked, passwords>>,
         halfReset' \subseteq halfReset, halfReset \ {u} \subseteq halfReset',
         user' \in [Users -> AccountRow], \A v \in Users \ {u} : user'[v] = user[v],
         StaysRegistered(u),
         crowded \subseteq crowded', crowded' \subseteq crowded \union {u},
         token' \in [Tokens -> TokenRow \union {NoRow, Erased}],
         \A t \in Tokens : token'[t] = token[t] \/ (token[t] \in TokenRow /\ token'[t] = Erased),
         Deleted(u)' =>
           /\ user'[u] = [Unregistered EXCEPT !.status = "DELETED"]
           /\ \A x \in Requests \ {r} : req[x] \in Busy => req[x].user # u
           /\ \A t \in Tokens : token'[t] \in TokenRow => token'[t].user # u
  PROVE  AccountsInvariant'
<1> USE DEF AccountsInvariant
<1>1. /\ req' = [x \in Requests |-> IF x = r THEN q ELSE Swept(u)[x]]
      /\ \A x \in Requests \ {r} :
           req'[x] = IF req[x] \in Busy /\ req[x].user = u THEN Told(req[x]) ELSE req[x]
  <2>1. \A x \in Requests : x \in UnderWay <=> req[x] \in Busy
    BY Standing DEF UnderWay, AccountsTypeOK
  <2>2. Swept(u) = [x \in Requests |-> IF req[x] \in Busy /\ req[x].user = u THEN Told(req[x]) ELSE req[x]]
    BY <2>1 DEF Swept, Told
  <2> QED BY <2>2
<1>2. /\ Rows(session)' \subseteq Rows(session)
      /\ \A s \in Rows(session)' : session'[s] = session[s] /\ session[s].user # u
  <2>1. ASSUME NEW s \in Rows(session)'
        PROVE  s \in Rows(session) /\ session'[s] = session[s] /\ session[s].user # u
    <3>1. s \in Sessions /\ session'[s] \notin {NoRow, Erased}
      BY DEF Rows, Without
    <3>2. CASE s \in Rows(session) /\ session[s].user = u
      BY <3>1, <3>2 DEF Without
    <3>3. CASE ~(s \in Rows(session) /\ session[s].user = u)
      <4>1. session'[s] = session[s]
        BY <3>1, <3>3 DEF Without
      <4>2. s \in Rows(session)
        BY <3>1, <4>1 DEF Rows, AccountsTypeOK
      <4> QED BY <3>3, <4>1, <4>2
    <3> QED BY <3>2, <3>3
  <2> QED BY <2>1
<1>3. session' \in [Sessions -> SessionRow \union {NoRow, Erased}]
  BY DEF Without, AccountsTypeOK
<1>4. /\ Rows(token) \subseteq Tokens /\ Rows(token)' \subseteq Rows(token)
      /\ \A t \in Rows(token)' : token'[t] = token[t] /\ token'[t] \in TokenRow
  <2>1. Rows(token) \subseteq Tokens
    BY TokenRows DEF AccountsTypeOK
  <2>2. \A t \in Rows(token') : t \in Tokens /\ token'[t] \in TokenRow
    BY RowsOfTable, RowKinds
  <2>3. \A t \in Tokens : token[t] \in TokenRow => t \in Rows(token)
    BY TokenRows DEF AccountsTypeOK
  <2>4. \A t \in Rows(token)' : token'[t] = token[t]
    BY <2>2, RowKinds
  <2> QED BY <2>1, <2>2, <2>3, <2>4
<1>5. TokensGoOn
  BY <1>4, RowKinds DEF TokensGoOn, Rows
<1>6. \A v, k : LinksOf(v, k)' \subseteq LinksOf(v, k)
  BY <1>4 DEF LinksOf
<1>7. ASSUME NEW v \in Users \ {u}
      PROVE  AccountsGoOn(v) /\ (Deleted(v)' => Deleted(v))
  <2>1. Resetting(v) => Resetting(v)'
    BY <1>1 DEF Resetting, At
  <2>2. user'[v] = user[v] /\ (v \in halfReset => v \in halfReset') /\ (v \in crowded <=> v \in crowded')
    OBVIOUS
  <2> QED BY <2>1, <2>2 DEF AccountsGoOn, Accounted, Deleted, StaysRegistered
<1>8. ASSUME NEW x \in Requests \ {r}, NEW z \in {req'[x]}
      PROVE  /\ z \in Busy \union {Idle, Done} /\ Knows(z)'
             /\ Writing(z) => Writing(req[x]) /\ z.user = req[x].user
  <2>1. PICK p \in Busy \union {Idle, Done} : p = req[x]
    BY DEF AccountsTypeOK
  <2>2. Knows(p)
    BY <2>1 DEF RequestsFit
  <2>3. CASE p \in Busy /\ p.user = u
    <3>1. PICK y : y = Told(p)
      OBVIOUS
    <3>2. z = y
      BY <1>1, <2>1, <2>3, <3>1
    <3>3. /\ y \in Busy /\ y.user = u /\ y.swept
          /\ Knows(y) /\ (Writing(y) <=> Writing(p))
      BY <2>2, <2>3, <3>1, ToldRequest, ToldKnows
    <3>4. ~Deleted(u)'
      BY <2>1, <2>3
    <3>5. Writing(y) => NoNewLink(y)
      BY <1>6, <3>3 DEF NoNewLink, Knows, Informed
    <3>6. GoesOn(y)
      BY <3>3, <3>4, <3>5 DEF GoesOn
    <3>7. Knows(y)'
      BY <1>5, <3>3, <3>6, StillKnows
    <3> QED BY <2>1, <2>3, <3>2, <3>3, <3>7
  <2>4. CASE ~(p \in Busy /\ p.user = u)
    <3>1. z = p
      BY <1>1, <2>1, <2>4
    <3>2. Writing(p) => NoNewLink(p)
      BY <1>6, <2>2 DEF NoNewLink, Knows, Informed
    <3>3. p \in Busy => p.user \in Users \ {u}
      BY <2>4, Standing
    <3>4. GoesOn(p)
      BY <1>7, <3>2, <3>3 DEF GoesOn
    <3>5. Knows(p)'
      BY <1>5, <2>1, <2>2, <3>4, StillKnows
    <3> QED BY <2>1, <3>1, <3>5
  <2> QED BY <2>3, <2>4
<1>9. AccountsTypeOK'
  <2>1. \A x \in Requests : req'[x] \in Busy \union {Idle, Done}
    BY <1>1, <1>8
  <2>2. req' \in [Requests -> Busy \union {Idle, Done}]
    BY <1>1, <2>1
  <2> QED BY <1>3, <2>2 DEF AccountsTypeOK
<1>10. RequestsFit'
  <2>1. req'[r] = q
    BY <1>1
  <2>2. \A x \in Requests : \A z \in {req'[x]} : Knows(z)'
    BY <1>8, <2>1
  <2>3. \A x \in Requests : Writing(req'[x]) => Writing(req[x]) /\ req'[x].user = req[x].user
    BY <1>8, <2>1
  <2>4. ASSUME NEW x \in Requests, NEW y \in Requests, Writing(req'[x]), Writing(req'[y]),
               req'[x].user = req'[y].user
        PROVE  x = y
    BY <2>3, <2>4 DEF RequestsFit
  <2> QED BY <2>2, <2>4, Zenon DEF RequestsFit
<1>11. SessionsFit'
  <2> SUFFICES ASSUME NEW s \in Rows(session)'
               PROVE  /\ Accounted(session[s].user, session[s].password, session[s].swept)'
                      /\ user'[session'[s].user].status # "none"
    BY DEF SessionsFit
  <2>1. s \in Rows(session) /\ session[s].user \in Users \ {u} /\ session'[s] = session[s]
    BY <1>2, SessionRows DEF AccountsTypeOK, SessionRow
  <2>2. PICK v, p, w : /\ v \in Users \ {u} /\ v = session[s].user
                       /\ p = session[s].password /\ w = session[s].swept
    BY <2>1
  <2>3. Accounted(v, p, w)' /\ user'[v].status # "none"
    BY <1>7, <2>1, <2>2 DEF SessionsFit, AccountsGoOn, StaysRegistered
  <2> QED BY <2>1, <2>2, <2>3
<1>12. LinksFit'
  <2>1. \A t \in Rows(token)' : token'[t].spent => token'[t].used
    BY <1>4 DEF LinksFit
  <2>2. \A v : \A t \in LinksOf(v, "verify")' : t \in LinksOf(v, "verify") /\ token'[t] = token[t]
    BY <1>4, <1>6 DEF LinksOf
  <2> QED BY <2>1, <2>2 DEF LinksFit
<1>13. DeletedIsErased'
  <2> SUFFICES ASSUME NEW v \in Users, user'[v].status = "DELETED", v \notin crowded'
               PROVE  /\ user'[v] = [Unregistered EXCEPT !.status = "DELETED"]
                      /\ \A s \in Rows(session)' : session'[s].user # v
                      /\ \A t \in Rows(token)' : token'[t].user # v
    BY DEF DeletedIsErased
  <2>1. CASE v = u
    <3>1. Deleted(u)'
      BY <2>1 DEF Deleted
    <3> QED BY <1>2, <1>4, <2>1, <3>1
  <2>2. CASE v # u
    <3>1. user'[v] = user[v] /\ user[v].status = "DELETED" /\ v \notin crowded
      BY <2>2
    <3> QED BY <1>2, <1>4, <3>1 DEF DeletedIsErased
  <2> QED BY <2>1, <2>2
<1> QED BY <1>9, <1>10, <1>11, <1>12, <1>13

(* A request that ends, after it deleted the sessions of a user who is not   *)
(* deleted.                                                                  *)
LEMMA AfterSignOut ==
  ASSUME AccountsInvariant, NEW r \in Requests, Disable(r) \/ RevokeSessions(r)
  PROVE  AccountsInvariant'
<1>1. /\ req[r].pc \in {"disable", "signOut"} /\ AccountsTypeOK
      /\ UNCHANGED <<now, asked, crowded, halfReset, passwords, token>>
      /\ session' = Without(req[r].user)
      /\ req' = [Swept(req[r].user) EXCEPT ![r] = Done]
  BY DEF Disable, RevokeSessions, At, AccountsInvariant, history
<1>2. /\ req[r] \in Busy /\ req[r].user \in Users /\ ~Deleted(req[r].user)
      /\ user[req[r].user] \in AccountRow
  BY <1>1, UnderWayIsBusy DEF FirstPlaces, AccountsTypeOK
<1>3. PICK u \in Users : u = req[r].user
  BY <1>2
<1>4. /\ user' \in [Users -> AccountRow] /\ \A v \in Users \ {u} : user'[v] = user[v]
      /\ StaysRegistered(u) /\ ~Deleted(u)'
  <2>1. CASE Disable(r)
    <3>1. PICK row : row = [Row(r) EXCEPT !.status = "DISABLED"]
      OBVIOUS
    <3>2. row \in AccountRow /\ row.status = "DISABLED"
      BY <1>2, <3>1 DEF AccountRow, Statuses, Row
    <3>3. user' = [user EXCEPT ![u] = row]
      BY <1>3, <2>1, <3>1 DEF Disable, Update
    <3> QED BY <1>1, <1>3, <3>2, <3>3 DEF AccountsTypeOK, StaysRegistered, Deleted
  <2>2. CASE RevokeSessions(r)
    BY <1>1, <1>2, <1>3, <2>2 DEF RevokeSessions, AccountsTypeOK, StaysRegistered, Deleted
  <2> QED BY <2>1, <2>2
<1>5. Knows(Done)' /\ ~Writing(Done)
  BY Standing DEF Knows, Informed, TurnedAway, Writing, Done
<1>6. token' \in [Tokens -> TokenRow \union {NoRow, Erased}]
  BY <1>1 DEF AccountsTypeOK
<1> QED BY <1>1, <1>2, <1>3, <1>4, <1>5, <1>6, SweepingStep

LEMMA AfterSweep ==
  ASSUME AccountsInvariant, NEW r \in Requests, SweepSessions(r)
  PROVE  AccountsInvariant'
<1>1. /\ req[r].pc = "sweep" /\ AccountsTypeOK
      /\ UNCHANGED <<now, asked, crowded, passwords, token, user>>
      /\ session' = Without(req[r].user) /\ halfReset' = halfReset \ {req[r].user}
      /\ req' = [Swept(req[r].user) EXCEPT ![r].pc = "markReset"]
  BY DEF SweepSessions, At, AccountsInvariant
<1>2. /\ req[r] \in Busy /\ req[r].user \in Users /\ ~Deleted(req[r].user)
      /\ req[r] \in ByToken
  BY <1>1, UnderWayIsBusy, StandsAs DEF FirstPlaces, AccountsTypeOK
<1>3. PICK u \in Users : u = req[r].user
  BY <1>2
<1>4. PICK z : z = Told(req[r])
  OBVIOUS
<1>5. PICK q : q = [z EXCEPT !.pc = "markReset"]
  OBVIOUS
<1>6. Swept(u)[r] = z
  BY <1>2, <1>3, <1>4, Standing DEF Swept, Told, UnderWay
<1>7. req' = [Swept(u) EXCEPT ![r] = q]
  BY <1>1, <1>3, <1>5, <1>6 DEF Swept
<1>8. z \in Busy /\ z \in ByToken /\ z.user = u
  BY <1>2, <1>3, <1>4, ToldRequest
<1>9. q \in Busy /\ q.pc = "markReset" /\ q.user = u
  BY <1>5, <1>8, MovesOn, OnlyPlace DEF Busy
<1>10. ~Deleted(u)'
  BY <1>1, <1>2, <1>3 DEF Deleted
<1>11. Knows(q)' /\ ~Writing(q)
  BY <1>9, <1>10 DEF Knows, Informed, TurnedAway, Writing
<1>12. /\ user' \in [Users -> AccountRow] /\ \A v \in Users \ {u} : user'[v] = user[v]
       /\ StaysRegistered(u) /\ token' \in [Tokens -> TokenRow \union {NoRow, Erased}]
  BY <1>1 DEF AccountsTypeOK, StaysRegistered
<1> QED BY <1>1, <1>2, <1>3, <1>7, <1>9, <1>10, <1>11, <1>12, SweepingStep

LEMMA AfterDeletion ==
  ASSUME AccountsInvariant, NEW r \in Requests, Anonymize(r)
  PROVE  AccountsInvariant'
<1>1. /\ req[r].pc = "delete" /\ AccountsTypeOK
      /\ UNCHANGED <<now, asked, passwords, halfReset>>
      /\ Update(r, [Unregistered EXCEPT !.status = "DELETED"])
      /\ session' = Without(req[r].user)
      /\ req' = [Swept(req[r].user) EXCEPT ![r] = Done]
      /\ crowded' = crowded \union {u \in {req[r].user} : \E x \in UnderWay \ {r} : req[x].user = u}
  BY DEF Anonymize, At, AccountsInvariant
<1>2. req[r] \in Busy /\ req[r].user \in Users
  BY <1>1, UnderWayIsBusy
<1>3. PICK u \in Users : u = req[r].user
  BY <1>2
<1>4. PICK row : row = [Unregistered EXCEPT !.status = "DELETED"]
  OBVIOUS
<1>5. row \in AccountRow /\ row.status = "DELETED"
  <2>1. Unregistered \in AccountRow
    BY DEF AccountRow, Statuses, Unregistered, NotPaused
  <2> QED BY <1>4, <2>1 DEF AccountRow, Statuses
<1>6. user' = [user EXCEPT ![u] = row]
  BY <1>1, <1>3, <1>4 DEF Update
<1>7. /\ user' \in [Users -> AccountRow] /\ user'[u] = row
      /\ \A v \in Users \ {u} : user'[v] = user[v]
      /\ StaysRegistered(u)
  BY <1>1, <1>5, <1>6 DEF AccountsTypeOK, StaysRegistered
<1>8. token' = [t \in Tokens |-> IF t \in Rows(token) /\ token[t].user = u THEN Erased ELSE token[t]]
  BY <1>3 DEF Anonymize
<1>9. \A t \in Tokens : t \in Rows(token) <=> token[t] \in TokenRow
  BY <1>1, TokenRows DEF AccountsTypeOK
<1>10. ASSUME NEW t \in Tokens
       PROVE  /\ token'[t] = token[t] \/ (token[t] \in TokenRow /\ token'[t] = Erased)
              /\ token'[t] \in TokenRow => token'[t].user # u
  <2>1. CASE t \in Rows(token) /\ token[t].user = u
    BY <1>8, <1>9, <2>1, RowKinds
  <2>2. CASE ~(t \in Rows(token) /\ token[t].user = u)
    BY <1>8, <1>9, <2>2
  <2> QED BY <2>1, <2>2
<1>11. token' \in [Tokens -> TokenRow \union {NoRow, Erased}]
  <2>1. \A t \in Tokens : token'[t] \in TokenRow \union {NoRow, Erased}
    BY <1>1, <1>10 DEF AccountsTypeOK
  <2> QED BY <1>8, <2>1
<1>12. Deleted(u)' => \A x \in Requests \ {r} : req[x] \in Busy => req[x].user # u
  <2>1. ASSUME NEW x \in Requests \ {r}, req[x] \in Busy, req[x].user = u PROVE u \in crowded'
    <3>1. x \in UnderWay \ {r}
      BY <2>1, Standing DEF UnderWay
    <3> QED BY <1>1, <1>3, <2>1, <3>1
  <2> QED BY <2>1 DEF Deleted
<1>13. Deleted(u)' =>
         /\ user'[u] = [Unregistered EXCEPT !.status = "DELETED"]
         /\ \A x \in Requests \ {r} : req[x] \in Busy => req[x].user # u
         /\ \A t \in Tokens : token'[t] \in TokenRow => token'[t].user # u
  BY <1>4, <1>7, <1>10, <1>12
<1>14. Knows(Done)' /\ ~Writing(Done)
  BY Standing DEF Knows, Informed, TurnedAway, Writing, Done
<1>15. /\ crowded \subseteq crowded' /\ crowded' \subseteq crowded \union {u}
       /\ halfReset' \subseteq halfReset /\ halfReset \ {u} \subseteq halfReset'
       /\ session' = Without(u) /\ req' = [Swept(u) EXCEPT ![r] = Done]
       /\ UNCHANGED <<now, asked, passwords>>
  BY <1>1, <1>3
<1>16. \A t \in Tokens : token'[t] = token[t] \/ (token[t] \in TokenRow /\ token'[t] = Erased)
  BY <1>10
<1> QED BY <1>2, <1>3, <1>7, <1>11, <1>13, <1>14, <1>15, <1>16, SweepingStep

-----------------------------------------------------------------------------
LEMMA AccountsStep == AccountsInvariant /\ [AccountsNext]_accountVars => AccountsInvariant'
<1> SUFFICES ASSUME AccountsInvariant, [AccountsNext]_accountVars PROVE AccountsInvariant'
  OBVIOUS
<1>1. CASE Tick
  BY <1>1, AfterTick
<1>2. CASE \E r \in Requests : Request(r)
  BY <1>2, AfterRequest
<1>3. CASE \E r \in Requests : Fails(r)
  BY <1>3, AfterFailure
<1>4. ASSUME NEW r \in Requests, Step(r) PROVE AccountsInvariant'
  <2>1. CASE \/ FindByEmail(r) \/ RequestByEmail(r) \/ Forgot(r) \/ FindToken(r) \/ FindOwner(r)
             \/ CheckCredentials(r) \/ FindProviderAccount(r) \/ Attach(r) \/ LoadTarget(r)
    BY <2>1, AfterLooking
  <2>2. CASE \/ CreateUser(r) \/ Verify(r) \/ VouchEmail(r) \/ CreateProviderAccount(r)
             \/ WriteProfile(r) \/ Enable(r) \/ PauseAgent(r) \/ ResumeAgent(r)
    BY <2>2, AfterUserWrite
  <2>3. CASE CreateOAuthUser(r)
    BY <2>3, AfterOAuthUser
  <2>4. CASE CreateSession(r) \/ RenewSession(r) \/ Logout(r)
    BY <2>4, AfterSessionWrite
  <2>5. CASE VoidLinks(r) \/ VoidResetLinks(r) \/ MarkVerified(r) \/ MarkReset(r)
    BY <2>5, AfterLinkUse
  <2>6. CASE RequestVerification(r)
    BY <2>6, AfterVerificationRequest
  <2>7. CASE CreateLink(r)
    BY <2>7, AfterCreateLink
  <2>8. CASE WritePassword(r)
    BY <2>8, AfterPassword
  <2>9. CASE SweepSessions(r)
    BY <2>9, AfterSweep
  <2>10. CASE Disable(r) \/ RevokeSessions(r)
    BY <2>10, AfterSignOut
  <2>11. CASE Anonymize(r)
    BY <2>11, AfterDeletion
  <2> QED BY <1>4, <2>1, <2>2, <2>3, <2>4, <2>5, <2>6, <2>7, <2>8, <2>9, <2>10, <2>11, Zenon DEF Step
<1>5. CASE UNCHANGED accountVars
  <2>1. UNCHANGED <<now, user, session, token, asked, req, passwords, halfReset, crowded>>
    BY <1>5 DEF accountVars
  <2>2. AccountsTypeOK' /\ SessionsFit' /\ LinksFit' /\ DeletedIsErased'
    BY <2>1 DEF AccountsInvariant, AccountsTypeOK, SessionsFit, LinksFit, LinksOf, DeletedIsErased,
                Accounted, Resetting, At, Rows
  <2>3. RequestsFit'
    BY <2>1 DEF AccountsInvariant, RequestsFit, Knows, Informed, TurnedAway, Writing, LinksOf,
                Accounted, Resetting, At, Rows, Deleted
  <2> QED BY <2>2, <2>3 DEF AccountsInvariant
<1> QED BY <1>1, <1>2, <1>3, <1>4, <1>5 DEF AccountsNext

(* Every state of sign-in satisfies the invariant: whatever the requests, in *)
(* whatever order their statements run and whichever of them fail.           *)
THEOREM AccountsInvariantTheorem == AccountsSpec => []AccountsInvariant
<1> QED BY AccountsInitially, AccountsStep, PTL DEF AccountsSpec

(* confirmPasswordReset and signing in beside it: a session of an earlier    *)
(* password is deleted, will be, was missed by a reset that failed, or was   *)
(* opened across the deletion; a link that set a password is used up.        *)
THEOREM ResetTheorem == AccountsSpec => []ResetIsFinal
<1>1. AccountsInvariant => ResetIsFinal
  BY DEF AccountsInvariant, ResetIsFinal, SessionsFit, LinksFit, Accounted
<1> QED BY <1>1, AccountsInvariantTheorem, PTL

(* requestEmailVerification, for requests of one user at the same time: no   *)
(* two verification links of a user work.                                    *)
THEOREM VerificationLinkTheorem == AccountsSpec => []OneVerificationLink
<1>1. AccountsInvariant => OneVerificationLink
  <2> SUFFICES ASSUME AccountsInvariant, NEW t \in Rows(token), NEW x \in Rows(token), t # x,
                      token[t].kind = "verify", token[x].kind = "verify", Usable(t), Usable(x),
                      token[t].user = token[x].user
               PROVE  FALSE
    BY DEF OneVerificationLink
  <2>1. token[t].user \in Users
    BY TokenRows DEF AccountsInvariant, AccountsTypeOK, TokenRow
  <2> QED BY <2>1 DEF AccountsInvariant, LinksFit, LinksOf, Usable
<1> QED BY <1>1, AccountsInvariantTheorem, PTL

(* accountActionRepository's anonymization: a deleted account keeps no       *)
(* password, no name, no session and no link, and nothing that begins later  *)
(* brings one back.                                                          *)
THEOREM ErasureTheorem == AccountsSpec => []DeletedIsErased
<1>1. AccountsInvariant => DeletedIsErased
  BY DEF AccountsInvariant
<1> QED BY <1>1, AccountsInvariantTheorem, PTL

-----------------------------------------------------------------------------
(* Links: what a request under way may still rely on.                        *)
LinkOps == {"revoke", "regenerate", "extend", "view", "comment", "rate"}
LinkRow ==
  [state : {"none", "live", "revoked"}, expires : Nat, ratedAt : Nat, mail : BOOLEAN,
   from : Links \union {NoLink}]

\* A request has a program counter, and an operation until it is over.
Posed(q) == "pc" \in DOMAIN q /\ (q.pc \notin {"idle", "done"} => "op" \in DOMAIN q)

\* What it carries.
Carries(q) ==
  /\ q.pc \in {"read", "write"} /\ q.op \in LinkOps => "link" \in DOMAIN q /\ q.link \in Links
  /\ q.pc = "write" /\ q.op = "create" => q.expires \in Nat /\ q.mail \in BOOLEAN
  /\ q.pc = "read" /\ q.op = "extend" => q.days \in Nat
  /\ q.pc = "write" /\ q.op = "extend" => q.expires \in Nat

\* What it may rely on: the row is there, and an extension that was computed ends after
\* the link's predecessor, and after the link unless it has a rival.
Holds(q) ==
  /\ q.pc \in {"read", "write"} /\ q.op \in LinkOps => link[q.link].state # "none"
  /\ q.pc = "write" /\ q.op = "extend" =>
       /\ link[q.link].from # NoLink => q.expires >= link[link[q.link].from].expires
       /\ link[q.link].state = "live" /\ q.link \notin contended
            => q.expires >= link[q.link].expires

Extends(s, l) == Stage(s, "extend", "write") /\ ask[s].link = l

LinkRows == link \in [Links -> LinkRow] /\ contended \subseteq Links /\ clock \in Nat

LinkInv ==
  /\ LinkRows
  /\ DOMAIN ask = Calls
  /\ \A s \in Calls : Posed(ask[s]) /\ Carries(ask[s]) /\ Holds(ask[s])
  /\ \A s, t \in Calls : \A l \in Links : s # t /\ Extends(s, l) /\ Extends(t, l) => l \in contended
  /\ SuccessorTakesOver

\* What a step does to the rows.
RowsGo ==
  \A l \in Links : link[l].state # "none" =>
    /\ link'[l].state # "none" /\ link'[l].from = link[l].from
    /\ link[l].state = "revoked" => link'[l].state = "revoked" /\ link'[l].expires = link[l].expires
    /\ link'[l].state = "live" => link[l].state = "live"

\* What a step of another request does to a request.
Aside(s) ==
  IF ask[s].pc = "fetch" THEN Posed(ask'[s]) /\ ask'[s].pc = "fetch" ELSE ask'[s] = ask[s]

(* A request that only looks on keeps what it relies on.                     *)
LEMMA AsideHolds ==
  ASSUME LinkInv, RowsGo, contended \subseteq contended', NEW s \in Calls, Aside(s),
         \A l \in Links : Extends(s, l) =>
           link'[l].expires = link[l].expires \/ l \in contended'
  PROVE  Posed(ask'[s]) /\ Carries(ask'[s]) /\ Holds(ask[s])'
<1>1. CASE ask[s].pc = "fetch"
  BY <1>1 DEF Aside, Carries, Holds
<1>2. CASE ask[s].pc # "fetch"
  <2>1. ask'[s] = ask[s]
    BY <1>2 DEF Aside
  <2>2. Posed(ask[s]) /\ Carries(ask[s]) /\ Holds(ask[s])
    BY DEF LinkInv
  <2>3. ASSUME ask[s].pc \in {"read", "write"}, ask[s].op \in LinkOps
        PROVE  link'[ask[s].link].state # "none"
    BY <2>2, <2>3 DEF RowsGo, Carries, Holds
  <2>4. ASSUME ask[s].pc = "write", ask[s].op = "extend"
        PROVE  /\ link'[ask[s].link].from # NoLink
                    => ask[s].expires >= link'[link'[ask[s].link].from].expires
               /\ link'[ask[s].link].state = "live" /\ ask[s].link \notin contended'
                    => ask[s].expires >= link'[ask[s].link].expires
    <3>1. PICK l \in Links : l = ask[s].link
      BY <2>2, <2>4 DEF Carries, LinkOps
    <3>2. link[l].state # "none" /\ link'[l].from = link[l].from
          /\ (link'[l].state = "live" => link[l].state = "live")
      BY <2>2, <2>4, <3>1 DEF RowsGo, Holds, LinkOps
    <3>3. ASSUME link'[l].from # NoLink
          PROVE  ask[s].expires >= link'[link'[l].from].expires
      <4>1. link[l].from \in Links /\ link[link[l].from].state = "revoked"
        BY <3>2, <3>3 DEF LinkInv, LinkRows, LinkRow, SuccessorTakesOver
      <4>2. link'[link[l].from].expires = link[link[l].from].expires
        BY <4>1 DEF RowsGo
      <4> QED BY <2>2, <2>4, <3>1, <3>2, <3>3, <4>2 DEF Holds
    <3>4. ASSUME link'[l].state = "live", l \notin contended'
          PROVE  ask[s].expires >= link'[l].expires
      <4>1. Extends(s, l)
        BY <2>4, <3>1 DEF Extends, Stage
      <4>2. link'[l].expires = link[l].expires /\ l \notin contended
        BY <3>4, <4>1
      <4> QED BY <2>2, <2>4, <3>1, <3>2, <3>4, <4>2 DEF Holds
    <3> QED BY <3>1, <3>3, <3>4
  <2> QED BY <2>1, <2>2, <2>3, <2>4 DEF Holds
<1> QED BY <1>1, <1>2

LEMMA TurnsAside ==
  ASSUME LinkInv, NEW r \in Calls, NEW q, Turns(r, q)
  PROVE  DOMAIN ask' = Calls /\ ask'[r] = q /\ \A s \in Calls \ {r} : Aside(s)
<1>1. DOMAIN ask = Calls /\ \A s \in Calls : Posed(ask[s])
  BY DEF LinkInv
<1> QED BY <1>1 DEF Turns, Aside

LEMMA AnswersAside ==
  ASSUME LinkInv, NEW r \in Calls, NEW t, Answers(r, t)
  PROVE  /\ DOMAIN ask' = Calls /\ ask'[r] = [op |-> ask[r].op, pc |-> "answer"]
         /\ \A s \in Calls \ {r} : Aside(s)
<1>1. DOMAIN ask = Calls /\ \A s \in Calls : Posed(ask[s])
  BY DEF LinkInv
<1>2. ask' = [s \in Calls |->
                IF s = r THEN [op |-> ask[r].op, pc |-> "answer"]
                ELSE IF ask[s].pc = "fetch" THEN [ask[s] EXCEPT !.data = Misses(ask[s].data, r, t)]
                ELSE ask[s]]
  BY DEF Answers, Requested, Filling
<1> QED BY <1>1, <1>2 DEF Aside, Posed

LEMMA AnswerAside ==
  ASSUME LinkInv, NEW r \in Calls, Answer(r)
  PROVE  DOMAIN ask' = Calls /\ ask'[r] = Served /\ \A s \in Calls \ {r} : Aside(s)
<1>1. DOMAIN ask = Calls /\ \A s \in Calls : Posed(ask[s])
  BY DEF LinkInv
<1>2. ask' = [s \in Calls |->
                IF s = r THEN Served
                ELSE IF ask[s].pc = "fetch" THEN [ask[s] EXCEPT !.data = Learns(ask[s].data, r)]
                ELSE ask[s]]
  BY DEF Answer, Requested, Filling
<1> QED BY <1>1, <1>2 DEF Aside, Posed

LEMMA ErrsAside ==
  ASSUME LinkInv, NEW r \in Calls, Errs(r), ask[r].op # "scan"
  PROVE  DOMAIN ask' = Calls /\ ask'[r] = Served /\ \A s \in Calls \ {r} : Aside(s)
<1>1. DOMAIN ask = Calls /\ \A s \in Calls : Posed(ask[s])
  BY DEF LinkInv
<1>2. ask' = [s \in Calls |->
                IF s = r THEN Served
                ELSE IF ask[s].pc = "fetch" THEN [ask[s] EXCEPT !.data = Forgets(ask[s].data, r)]
                ELSE ask[s]]
  BY DEF Errs, Requested, Filling
<1> QED BY <1>1, <1>2 DEF Aside, Posed

\* A record that stands for a request that does not write a link.
Harmless(q) ==
  /\ Posed(q)
  /\ q.pc \in {"read", "write"} /\ q.op \in LinkOps =>
       /\ "link" \in DOMAIN q /\ q.link \in Links
       /\ link[q.link].state # "none"
  /\ q.pc = "write" => q.op # "extend"
  /\ q.pc = "write" /\ q.op = "create" => q.expires \in Nat /\ q.mail \in BOOLEAN
  /\ q.pc = "read" /\ q.op = "extend" => q.days \in Nat

(* A step of r that leaves the rows alone, and r without an extension to     *)
(* write.                                                                    *)
LEMMA LooksOn ==
  ASSUME LinkInv, NEW r \in Calls, UNCHANGED <<link, contended>>, clock' \in Nat,
         DOMAIN ask' = Calls, \A s \in Calls \ {r} : Aside(s), NEW q, Harmless(q), ask'[r] = q
  PROVE  LinkInv'
<1>1. RowsGo /\ LinkRows'
  BY DEF RowsGo, LinkInv, LinkRows
<1>2. ASSUME NEW s \in Calls \ {r} PROVE Posed(ask'[s]) /\ Carries(ask'[s]) /\ Holds(ask[s])'
  BY <1>1, AsideHolds
<1>3. Posed(ask'[r]) /\ Carries(ask'[r]) /\ Holds(ask[r])'
  BY DEF Harmless, Carries, Holds
<1>4. ASSUME NEW s \in Calls, NEW t \in Calls, NEW l \in Links, s # t, Extends(s, l)', Extends(t, l)'
      PROVE  l \in contended'
  <2>1. s # r /\ t # r
    BY <1>4 DEF Extends, Stage, Harmless
  <2>2. Extends(s, l) /\ Extends(t, l)
    BY <1>4, <2>1 DEF Aside, Extends, Stage
  <2> QED BY <1>4, <2>2 DEF LinkInv
<1>5. SuccessorTakesOver'
  BY DEF LinkInv, SuccessorTakesOver
<1> QED BY <1>1, <1>2, <1>3, <1>4, <1>5 DEF LinkInv

LEMMA OverIsHarmless ==
  ASSUME NEW q, q = Served \/ \E op : q = [op |-> op, pc |-> "answer"]
  PROVE  Harmless(q)
BY DEF Harmless, Served, Posed

LEMMA GoesOnHarmless ==
  ASSUME LinkInv, NEW r \in Calls, NEW pc, ask[r].pc \notin {"idle", "done"},
         \/ pc \notin {"read", "write"}
         \/ pc = "write" /\ ask[r].pc = "read" /\ ask[r].op \notin {"extend", "create"}
  PROVE  Harmless([ask[r] EXCEPT !.pc = pc])
<1>1. Posed(ask[r]) /\ Carries(ask[r]) /\ Holds(ask[r])
  BY DEF LinkInv
<1>2. PICK q : q = [ask[r] EXCEPT !.pc = pc]
  OBVIOUS
<1>3. q.pc = pc /\ q.op = ask[r].op /\ DOMAIN q = DOMAIN ask[r]
      /\ ("link" \in DOMAIN q => q.link = ask[r].link)
  BY <1>1, <1>2 DEF Posed
<1>4. CASE pc \notin {"read", "write"}
  BY <1>1, <1>2, <1>3, <1>4 DEF Harmless, Posed
<1>5. CASE pc = "write" /\ ask[r].pc = "read" /\ ask[r].op \notin {"extend", "create"}
  BY <1>1, <1>2, <1>3, <1>5 DEF Harmless, Posed, Carries, Holds
<1> QED BY <1>4, <1>5

LEMMA NewAsks ==
  ASSUME LinkInv, NEW r \in Calls, AgencyAsks(r) \/ ClientAsks(r) \/ HourStrikes(r)
  PROVE  LinkInv'
<1>1. UNCHANGED <<link, contended>> /\ clock' \in Nat
  BY DEF AgencyAsks, ClientAsks, HourStrikes, Still, rows, marks, LinkInv, LinkRows
<1>2. PICK q : Turns(r, q) /\ Harmless(q)
  <2>1. ASSUME NEW e \in {clock + 1, Never},
               Turns(r, [op |-> "create", pc |-> "write", expires |-> e, mail |-> e # Never])
        PROVE  \E q : Turns(r, q) /\ Harmless(q)
    <3>1. e \in Nat
      BY LinkConstants DEF LinkInv, LinkRows, Never
    <3>2. Harmless([op |-> "create", pc |-> "write", expires |-> e, mail |-> e # Never])
      BY <3>1 DEF Harmless, Posed, LinkOps
    <3> QED BY <2>1, <3>2
  <2>2. ASSUME NEW l \in Links, NEW op \in {"revoke", "regenerate", "view", "comment", "rate"},
               link[l].state # "none", Turns(r, [op |-> op, pc |-> "read", link |-> l])
        PROVE  \E q : Turns(r, q) /\ Harmless(q)
    <3>1. Harmless([op |-> op, pc |-> "read", link |-> l])
      BY <2>2 DEF Harmless, Posed
    <3> QED BY <2>2, <3>1
  <2>3. ASSUME NEW l \in Links, NEW d \in ExtendDays, link[l].state # "none",
               Turns(r, [op |-> "extend", pc |-> "read", link |-> l, days |-> d])
        PROVE  \E q : Turns(r, q) /\ Harmless(q)
    <3>1. Harmless([op |-> "extend", pc |-> "read", link |-> l, days |-> d])
      BY <2>3, LinkConstants DEF Harmless, Posed
    <3> QED BY <2>3, <3>1
  <2>4. ASSUME NEW c, Turns(r, [op |-> "reply", pc |-> "write", comment |-> c])
        PROVE  \E q : Turns(r, q) /\ Harmless(q)
    <3>1. Harmless([op |-> "reply", pc |-> "write", comment |-> c])
      BY DEF Harmless, Posed, LinkOps
    <3> QED BY <2>4, <3>1
  <2>5. ASSUME NEW c, NEW k, Turns(r, [op |-> "fill", pc |-> "get", cache |-> c, key |-> k])
        PROVE  \E q : Turns(r, q) /\ Harmless(q)
    <3>1. Harmless([op |-> "fill", pc |-> "get", cache |-> c, key |-> k])
      BY DEF Harmless, Posed
    <3> QED BY <2>5, <3>1
  <2>6. ASSUME NEW op \in {"review", "scan"}, NEW pc \in {"read", "lock"},
               Turns(r, [op |-> op, pc |-> pc])
        PROVE  \E q : Turns(r, q) /\ Harmless(q)
    <3>1. Harmless([op |-> op, pc |-> pc])
      BY DEF Harmless, Posed, LinkOps
    <3> QED BY <2>6, <3>1
  <2>7. CASE AgencyAsks(r)
    BY <2>1, <2>2, <2>3, <2>4, <2>5, <2>7 DEF AgencyAsks
  <2>8. CASE ClientAsks(r)
    BY <2>2, <2>6, <2>8 DEF ClientAsks
  <2>9. CASE HourStrikes(r)
    BY <2>6, <2>9 DEF HourStrikes
  <2> QED BY <2>7, <2>8, <2>9
<1>3. DOMAIN ask' = Calls /\ ask'[r] = q /\ \A s \in Calls \ {r} : Aside(s)
  BY <1>2, TurnsAside
<1> QED BY <1>1, <1>2, <1>3, LooksOn

(* The steps of a request that leave the links alone.                        *)
LEMMA Advancing ==
  ASSUME LinkInv, NEW r \in Calls, UNCHANGED <<link, contended, clock>>,
         ask[r].pc \notin {"idle", "done"},
         \/ Serves(r)
         \/ \E pc : /\ Advances(r, pc)
                    /\ \/ pc \notin {"read", "write"}
                       \/ pc = "write" /\ ask[r].pc = "read" /\ ask[r].op \notin {"extend", "create"}
  PROVE  LinkInv'
<1>1. PICK q : Turns(r, q) /\ Harmless(q)
  BY OverIsHarmless, GoesOnHarmless DEF Serves, Advances
<1>2. DOMAIN ask' = Calls /\ ask'[r] = q /\ \A s \in Calls \ {r} : Aside(s)
  BY <1>1, TurnsAside
<1> QED BY <1>1, <1>2, LooksOn DEF LinkInv, LinkRows

LEMMA FillsLinks ==
  ASSUME LinkInv, NEW r \in Calls, CacheGet(r) \/ Store(r) \/ \E t \in Tables : FetchTable(r, t)
  PROVE  LinkInv'
<1>1. UNCHANGED <<link, contended, clock>>
  BY DEF CacheGet, Store, FetchTable, Still, rows, marks
<1>2. PICK q : Turns(r, q) /\ Harmless(q)
  <2>1. CASE CacheGet(r)
    <3>1. Serves(r) \/ Turns(r, FillBegins(ask[r].cache, ask[r].key))
      BY <2>1 DEF CacheGet
    <3>2. Harmless(FillBegins(ask[r].cache, ask[r].key))
      BY DEF Harmless, Posed, FillBegins
    <3> QED BY <3>1, <3>2, OverIsHarmless DEF Serves
  <2>2. CASE Store(r)
    BY <2>2, OverIsHarmless DEF Store, Serves
  <2>3. ASSUME NEW t \in Tables, FetchTable(r, t) PROVE \E q : Turns(r, q) /\ Harmless(q)
    <3>1. PICK q : q = [ask[r] EXCEPT !.data.read = @ \union {t}]
      OBVIOUS
    <3>2. Posed(ask[r]) /\ ask[r].pc = "fetch"
      BY <2>3 DEF FetchTable, Stage, LinkInv
    <3>3. q.pc = "fetch" /\ DOMAIN q = DOMAIN ask[r]
      BY <3>1, <3>2 DEF Posed
    <3>4. Harmless(q)
      BY <3>2, <3>3 DEF Harmless, Posed
    <3> QED BY <2>3, <3>1, <3>4 DEF FetchTable
  <2> QED BY <2>1, <2>2, <2>3
<1>3. DOMAIN ask' = Calls /\ ask'[r] = q /\ \A s \in Calls \ {r} : Aside(s)
  BY <1>2, TurnsAside
<1> QED BY <1>1, <1>2, <1>3, LooksOn DEF LinkInv, LinkRows

LEMMA AnsweringLooksOn ==
  ASSUME LinkInv, NEW r \in Calls, UNCHANGED <<link, contended, clock>>,
         \/ \E t \in Tables : Answers(r, t)
         \/ Answer(r)
         \/ Errs(r)
  PROVE  LinkInv'
<1>1. ASSUME NEW t \in Tables, Answers(r, t) PROVE LinkInv'
  <2>1. PICK q : q = [op |-> ask[r].op, pc |-> "answer"]
    OBVIOUS
  <2>2. Harmless(q)
    BY <2>1, OverIsHarmless
  <2> QED BY <1>1, <2>1, <2>2, AnswersAside, LooksOn DEF LinkInv, LinkRows
<1>2. CASE Answer(r)
  BY <1>2, AnswerAside, OverIsHarmless, LooksOn DEF LinkInv, LinkRows
<1>3. CASE Errs(r) /\ ask[r].op # "scan"
  BY <1>3, ErrsAside, OverIsHarmless, LooksOn DEF LinkInv, LinkRows
<1>4. CASE Errs(r) /\ ask[r].op = "scan"
  <2>1. Advances(r, "unlock") /\ ask[r].pc \in {"list", "resolve"}
    BY <1>4 DEF Errs
  <2> QED BY <2>1, Advancing
<1> QED BY <1>1, <1>2, <1>3, <1>4

LEMMA Advancers ==
  ASSUME LinkInv, NEW r \in Calls,
         \/ FindForRevoke(r) \/ FindForRegenerate(r) \/ ReadLiveShare(r)
         \/ FindReview(r) \/ CreateReview(r)
         \/ TryAdvisoryLock(r) \/ ListTrips(r) \/ ResolveRecipientEmail(r)
         \/ SendTripReviewEmail(r) \/ CreateLog(r) \/ AdvisoryUnlock(r)
  PROVE  LinkInv'
<1>1. CASE FindForRevoke(r) \/ FindForRegenerate(r)
  <2>1. UNCHANGED <<link, contended, clock>> /\ ask[r].pc = "read"
        /\ ask[r].op \in {"revoke", "regenerate"} /\ (Serves(r) \/ Advances(r, "write"))
    BY <1>1 DEF FindForRevoke, FindForRegenerate, Still, rows, marks, Stage
  <2> QED BY <2>1, Advancing
<1>2. CASE ReadLiveShare(r)
  <2>1. UNCHANGED <<link, contended, clock>> /\ ask[r].pc = "read"
        /\ ask[r].op \in {"view", "comment", "rate"} /\ (Serves(r) \/ Advances(r, "write"))
    BY <1>2 DEF ReadLiveShare, Still, rows, marks
  <2> QED BY <2>1, Advancing
<1>3. CASE FindReview(r)
  <2>1. UNCHANGED <<link, contended, clock>> /\ ask[r].pc = "read" /\ ask[r].op = "review"
        /\ (Serves(r) \/ Advances(r, "write"))
    BY <1>3 DEF FindReview, rows, Stage
  <2> QED BY <2>1, Advancing
<1>4. CASE CreateReview(r)
  <2>1. UNCHANGED <<link, contended, clock>> /\ ask[r].pc = "write" /\ Serves(r)
    BY <1>4 DEF CreateReview, Wrote, marks, Stage
  <2> QED BY <2>1, Advancing
<1>5. CASE TryAdvisoryLock(r)
  <2>1. UNCHANGED <<link, contended, clock>> /\ ask[r].pc = "lock"
        /\ (Serves(r) \/ Advances(r, "list"))
    BY <1>5 DEF TryAdvisoryLock, Quietly, Stage
  <2> QED BY <2>1, Advancing
<1>6. CASE ListTrips(r) \/ ResolveRecipientEmail(r)
  <2>1. UNCHANGED <<link, contended, clock>> /\ ask[r].pc \in {"list", "resolve"}
        /\ \E pc \in {"unlock", "resolve", "send"} : Advances(r, pc)
    BY <1>6 DEF ListTrips, ResolveRecipientEmail, Still, rows, marks, Stage
  <2> QED BY <2>1, Advancing
<1>7. CASE SendTripReviewEmail(r) \/ CreateLog(r)
  <2>1. UNCHANGED <<link, contended, clock>> /\ ask[r].pc \in {"send", "log"}
        /\ \E pc \in {"unlock", "log"} : Advances(r, pc)
    BY <1>7 DEF SendTripReviewEmail, CreateLog, Quietly, Stage
  <2> QED BY <2>1, Advancing
<1>8. CASE AdvisoryUnlock(r)
  <2>1. UNCHANGED <<link, contended, clock>> /\ ask[r].pc = "unlock" /\ Serves(r)
    BY <1>8 DEF AdvisoryUnlock, Quietly, Stage
  <2> QED BY <2>1, Advancing
<1> QED BY <1>1, <1>2, <1>3, <1>4, <1>5, <1>6, <1>7, <1>8

LEMMA Answerers ==
  ASSUME LinkInv, NEW r \in Calls,
         \/ IncrementViewCount(r) \/ AddComment(r) \/ ReplyToComment(r) \/ Answer(r) \/ Errs(r)
  PROVE  LinkInv'
<1>1. UNCHANGED <<link, contended, clock>>
  BY DEF IncrementViewCount, AddComment, ReplyToComment, Answer, Errs, Wrote, rows, marks
<1>2. (\E t \in Tables : Answers(r, t)) \/ Answer(r) \/ Errs(r)
  BY DEF IncrementViewCount, AddComment, ReplyToComment, Tables
<1> QED BY <1>1, <1>2, AnsweringLooksOn

(* A step of r that writes the links, and is then answered.                  *)
LEMMA LinkWriting ==
  ASSUME LinkInv, NEW r \in Calls, RowsGo, LinkRows', contended' = contended,
         Answers(r, "links"), SuccessorTakesOver',
         \A l \in Links : \A s \in Calls \ {r} : Extends(s, l) =>
           link'[l].expires = link[l].expires \/ l \in contended
  PROVE  LinkInv'
<1>1. DOMAIN ask' = Calls /\ ask'[r] = [op |-> ask[r].op, pc |-> "answer"]
      /\ \A s \in Calls \ {r} : Aside(s)
  BY AnswersAside
<1>2. ASSUME NEW s \in Calls \ {r} PROVE Posed(ask'[s]) /\ Carries(ask'[s]) /\ Holds(ask[s])'
  BY <1>1, AsideHolds
<1>3. Posed(ask'[r]) /\ Carries(ask'[r]) /\ Holds(ask[r])'
  BY <1>1 DEF Posed, Carries, Holds
<1>4. ASSUME NEW s \in Calls, NEW t \in Calls, NEW l \in Links, s # t, Extends(s, l)', Extends(t, l)'
      PROVE  l \in contended'
  <2>1. s # r /\ t # r
    BY <1>1, <1>4 DEF Extends, Stage
  <2>2. Extends(s, l) /\ Extends(t, l)
    BY <1>1, <1>4, <2>1 DEF Aside, Extends, Stage
  <2> QED BY <1>4, <2>2 DEF LinkInv
<1> QED BY <1>1, <1>2, <1>3, <1>4 DEF LinkInv


(* LinkRows that go on keep their successors.                                    *)
LEMMA RowsKeepSuccessors ==
  ASSUME LinkInv, RowsGo, LinkRows',
         \A k \in Links : link'[k].from # NoLink =>
           link[k].from = link'[k].from /\ link'[k].expires >= link[link[k].from].expires
  PROVE  SuccessorTakesOver'
<1>1. ASSUME NEW k \in Links, link'[k].from # NoLink
      PROVE  /\ link'[link'[k].from].state = "revoked"
             /\ link'[k].expires >= link'[link'[k].from].expires
             /\ \A j \in Links : link'[j].from = link'[k].from => j = k
  <2>1. PICK f : f = link[k].from
    OBVIOUS
  <2>2. f = link'[k].from /\ link'[k].expires >= link[f].expires
    BY <1>1, <2>1
  <2>3. f \in Links /\ link[f].state = "revoked"
    BY <1>1, <2>1, <2>2 DEF LinkInv, LinkRows, LinkRow, SuccessorTakesOver
  <2>4. link'[f].state = "revoked" /\ link'[f].expires = link[f].expires
    BY <2>3 DEF RowsGo
  <2>5. ASSUME NEW j \in Links, link'[j].from = f PROVE j = k
    <3>1. link[j].from = f
      BY <1>1, <2>2, <2>5
    <3> QED BY <1>1, <2>1, <2>2, <3>1 DEF LinkInv, SuccessorTakesOver
  <2> QED BY <2>2, <2>4, <2>5
<1> QED BY <1>1 DEF SuccessorTakesOver

LEMMA NewLinkIsRow ==
  ASSUME NEW e \in Nat, NEW m \in BOOLEAN, NEW f \in Links \union {NoLink}
  PROVE  NewLink(e, m, f) \in LinkRow
BY LinkConstants DEF NewLink, LinkRow, Unrated

LEMMA CreateShareLinks ==
  ASSUME LinkInv, NEW r \in Calls, CreateShare(r) PROVE LinkInv'
<1>1. PICK l \in Links : /\ link[l].state = "none"
                         /\ link' = [link EXCEPT ![l] = NewLink(ask[r].expires, ask[r].mail, NoLink)]
  BY DEF CreateShare, NewIds, FirstOf
<1>2. Carries(ask[r]) /\ Stage(r, "create", "write") /\ contended' = contended /\ clock' = clock
      /\ Answers(r, "links") /\ link \in [Links -> LinkRow]
  BY DEF CreateShare, Wrote, marks, LinkInv, LinkRows
<1>3. NewLink(ask[r].expires, ask[r].mail, NoLink) \in LinkRow
  BY <1>2, NewLinkIsRow DEF Carries, Stage
<1>4. LinkRows'
  BY <1>1, <1>2, <1>3 DEF LinkRows, LinkInv
<1>5. RowsGo
  BY <1>1, <1>2 DEF RowsGo
<1>6. SuccessorTakesOver'
  <2>1. ASSUME NEW k \in Links, link'[k].from # NoLink
        PROVE  link[k].from = link'[k].from /\ link'[k].expires >= link[link[k].from].expires
    <3>1. k # l /\ link'[k] = link[k]
      BY <1>1, <1>2, <2>1 DEF NewLink
    <3> QED BY <2>1, <3>1 DEF LinkInv, SuccessorTakesOver
  <2> QED BY <1>4, <1>5, <2>1, RowsKeepSuccessors
<1>7. ASSUME NEW k \in Links, NEW s \in Calls \ {r}, Extends(s, k)
      PROVE  link'[k].expires = link[k].expires
  <2>1. link[k].state # "none"
    BY <1>7 DEF LinkInv, Extends, Stage, Holds, LinkOps
  <2> QED BY <1>1, <1>2, <2>1
<1> QED BY <1>2, <1>4, <1>5, <1>6, <1>7, LinkWriting

LEMMA MarkingLinks ==
  ASSUME LinkInv, NEW r \in Calls, RevokeShare(r) \/ RateProposal(r) PROVE LinkInv'
<1>1. PICK l \in Links : l = ask[r].link /\ link[l].state # "none"
  BY DEF RevokeShare, RateProposal, Stage, LinkInv, Carries, Holds, LinkOps
<1>2. contended' = contended /\ clock' = clock /\ Answers(r, "links") /\ link \in [Links -> LinkRow]
      /\ clock \in Nat
  BY DEF RevokeShare, RateProposal, Wrote, marks, LinkInv, LinkRows
<1>3. link' = [link EXCEPT ![l].state = "revoked"] \/ link' = [link EXCEPT ![l].ratedAt = clock]
  BY <1>1 DEF RevokeShare, RateProposal
<1>4. LinkRows'
  BY <1>1, <1>2, <1>3 DEF LinkRows, LinkInv, LinkRow
<1>5. RowsGo /\ \A k \in Links : link'[k].from = link[k].from /\ link'[k].expires = link[k].expires
  BY <1>1, <1>2, <1>3 DEF RowsGo, LinkRow
<1>6. SuccessorTakesOver'
  <2>1. ASSUME NEW k \in Links, link'[k].from # NoLink
        PROVE  link[k].from = link'[k].from /\ link'[k].expires >= link[link[k].from].expires
    BY <1>5, <2>1 DEF LinkInv, SuccessorTakesOver
  <2> QED BY <1>4, <1>5, <2>1, RowsKeepSuccessors
<1> QED BY <1>2, <1>4, <1>5, <1>6, LinkWriting

LEMMA UpdateShareExpiryLinks ==
  ASSUME LinkInv, NEW r \in Calls, UpdateShareExpiry(r) PROVE LinkInv'
<1>1. PICK l \in Links, e \in Nat : l = ask[r].link /\ e = ask[r].expires
  BY DEF UpdateShareExpiry, Stage, LinkInv, Carries, LinkOps
<1>2. contended' = contended /\ clock' = clock /\ link \in [Links -> LinkRow]
      /\ ask[r].pc = "write" /\ ask[r].op = "extend" /\ Extends(r, l) /\ Holds(ask[r])
  BY <1>1 DEF UpdateShareExpiry, Wrote, marks, LinkInv, LinkRows, Stage, Extends
<1>3. CASE Serves(r) /\ UNCHANGED link
  BY <1>2, <1>3, Advancing
<1>4. CASE link[l].state = "live" /\ link' = [link EXCEPT ![l].expires = e] /\ Answers(r, "links")
  <2>1. LinkRows'
    BY <1>1, <1>2, <1>4 DEF LinkRows, LinkInv, LinkRow
  <2>2. RowsGo /\ \A k \in Links : link'[k].from = link[k].from
                                   /\ link'[k].expires = IF k = l THEN e ELSE link[k].expires
    BY <1>1, <1>2, <1>4 DEF RowsGo, LinkRow
  <2>3. ASSUME NEW k \in Links, link'[k].from # NoLink
        PROVE  link[k].from = link'[k].from /\ link'[k].expires >= link[link[k].from].expires
    <3>1. CASE k = l
      BY <1>1, <1>2, <2>2, <2>3, <3>1 DEF Holds
    <3>2. CASE k # l
      BY <2>2, <2>3, <3>2 DEF LinkInv, SuccessorTakesOver
    <3> QED BY <3>1, <3>2
  <2>4. SuccessorTakesOver'
    BY <2>1, <2>2, <2>3, RowsKeepSuccessors
  <2>5. ASSUME NEW k \in Links, NEW s \in Calls \ {r}, Extends(s, k)
        PROVE  link'[k].expires = link[k].expires \/ k \in contended
    BY <1>2, <2>2, <2>5 DEF LinkInv
  <2> QED BY <1>2, <1>4, <2>1, <2>2, <2>4, <2>5, LinkWriting
<1> QED BY <1>1, <1>3, <1>4 DEF UpdateShareExpiry

LEMMA ReplaceShareLinks ==
  ASSUME LinkInv, NEW r \in Calls, ReplaceShare(r) PROVE LinkInv'
<1>1. PICK l \in Links : l = ask[r].link
  BY DEF ReplaceShare, Stage, LinkInv, Carries, LinkOps
<1>2. contended' = contended /\ clock' = clock /\ link \in [Links -> LinkRow]
      /\ ask[r].pc = "write"
  BY DEF ReplaceShare, Wrote, marks, LinkInv, LinkRows, Stage
<1>3. CASE Serves(r) /\ UNCHANGED link
  BY <1>2, <1>3, Advancing
<1>4. ASSUME NEW k \in NewIds, link[l].state = "live", Replaces(l, k), Answers(r, "links")
      PROVE  LinkInv'
  <2>1. k \in Links /\ link[k].state = "none" /\ k # l
    BY <1>4 DEF NewIds, FirstOf
  <2>2. PICK row : row = NewLink(link[l].expires, link[l].mail, l)
    OBVIOUS
  <2>3. link' = [link EXCEPT ![l].state = "revoked", ![k] = row]
    BY <1>4, <2>2 DEF Replaces
  <2>4. row \in LinkRow /\ row.from = l /\ row.expires = link[l].expires /\ row.state = "live"
    <3>1. link[l].expires \in Nat /\ link[l].mail \in BOOLEAN
      BY <1>2 DEF LinkRow
    <3>2. row \in LinkRow
      BY <2>2, <3>1, NewLinkIsRow
    <3> QED BY <2>2, <3>2 DEF NewLink
  <2>5. LinkRows'
    BY <1>2, <2>1, <2>3, <2>4 DEF LinkRows, LinkInv, LinkRow
  <2>6. /\ link'[k] = row /\ link'[l].state = "revoked"
        /\ \A j \in Links \ {k} : link'[j].from = link[j].from /\ link'[j].expires = link[j].expires
        /\ \A j \in Links \ {k, l} : link'[j] = link[j]
    BY <1>2, <2>1, <2>3 DEF LinkRow
  <2>7. RowsGo
    BY <1>2, <1>4, <2>1, <2>6 DEF RowsGo
  <2>8. \A j \in Links : link[j].from # l
    BY <1>4, LinkConstants DEF LinkInv, SuccessorTakesOver
  <2>9. ASSUME NEW j \in Links, link'[j].from # NoLink
        PROVE  /\ link'[link'[j].from].state = "revoked"
               /\ link'[j].expires >= link'[link'[j].from].expires
               /\ \A i \in Links : link'[i].from = link'[j].from => i = j
    <3>1. CASE j = k
      <4>1. link'[j].from = l /\ link'[j].expires = link[l].expires /\ link'[l].expires = link[l].expires
            /\ link[l].expires \in Nat
        BY <1>2, <2>1, <2>4, <2>6, <3>1 DEF LinkRow
      <4>2. ASSUME NEW i \in Links, link'[i].from = l PROVE i = j
        BY <2>6, <2>8, <3>1, <4>2
      <4> QED BY <2>6, <4>1, <4>2
    <3>2. CASE j # k
      <4>1. PICK f : f = link[j].from
        OBVIOUS
      <4>2. f = link'[j].from /\ link'[j].expires = link[j].expires
        BY <2>6, <3>2, <4>1
      <4>3. f \in Links /\ link[f].state = "revoked" /\ link[j].expires >= link[f].expires
        BY <1>2, <2>9, <4>1, <4>2 DEF LinkInv, LinkRow, SuccessorTakesOver
      <4>4. f # k /\ f # l /\ link'[f] = link[f]
        BY <1>4, <2>1, <2>6, <4>3
      <4>5. ASSUME NEW i \in Links, link'[i].from = f PROVE i = j
        <5>1. i # k
          BY <2>4, <2>6, <4>4, <4>5
        <5>2. link[i].from = f
          BY <2>6, <4>5, <5>1
        <5> QED BY <2>9, <4>1, <4>2, <5>2 DEF LinkInv, SuccessorTakesOver
      <4> QED BY <4>2, <4>3, <4>4, <4>5
    <3> QED BY <3>1, <3>2
  <2>10. SuccessorTakesOver'
    BY <2>9 DEF SuccessorTakesOver
  <2>11. ASSUME NEW j \in Links, NEW s \in Calls \ {r}, Extends(s, j)
         PROVE  link'[j].expires = link[j].expires
    <3>1. link[j].state # "none"
      BY <2>11 DEF LinkInv, Extends, Stage, Holds, LinkOps
    <3> QED BY <2>1, <2>6, <3>1
  <2> QED BY <1>2, <1>4, <2>5, <2>7, <2>10, <2>11, LinkWriting
<1> QED BY <1>1, <1>3, <1>4 DEF ReplaceShare

LEMMA FindForExtendLinks ==
  ASSUME LinkInv, NEW r \in Calls, FindForExtend(r) PROVE LinkInv'
<1>1. PICK l \in Links, d \in Nat : l = ask[r].link /\ d = ask[r].days
  BY DEF FindForExtend, Stage, LinkInv, Carries, LinkOps
<1>2. UNCHANGED <<link, clock>> /\ link \in [Links -> LinkRow] /\ clock \in Nat
      /\ ask[r].pc = "read" /\ link[l].state # "none"
  BY <1>1 DEF FindForExtend, rows, Stage, LinkInv, LinkRows, Holds, LinkOps
<1>3. CASE Serves(r) /\ UNCHANGED contended
  BY <1>2, <1>3, Advancing
<1>4. CASE ~(Serves(r) /\ UNCHANGED contended)
  <2>1. PICK e : e = ExtendedExpiry(link[l].expires, d)
    OBVIOUS
  <2>2. PICK q : q = [op |-> "extend", pc |-> "write", link |-> l, expires |-> e]
    OBVIOUS
  <2>3. PICK rivals : rivals = {s \in Doing("extend") \ {r} : ask[s].pc = "write" /\ ask[s].link = l}
    OBVIOUS
  <2>4. /\ link[l].state = "live" /\ Turns(r, q)
        /\ contended' = IF rivals = {} THEN contended ELSE contended \union {l}
    BY <1>1, <1>4, <2>1, <2>2, <2>3 DEF FindForExtend
  <2>5. e \in Nat /\ e >= link[l].expires
    <3>1. link[l].expires \in Nat
      BY <1>2 DEF LinkRow
    <3> QED BY <1>1, <1>2, <2>1, <3>1 DEF ExtendedExpiry
  <2>6. contended \subseteq contended' /\ contended' \subseteq Links
    BY <1>1, <2>4 DEF LinkInv, LinkRows
  <2>7. LinkRows' /\ RowsGo
    BY <1>2, <2>6 DEF LinkRows, RowsGo
  <2>8. DOMAIN ask' = Calls /\ ask'[r] = q /\ \A s \in Calls \ {r} : Aside(s)
    BY <2>4, TurnsAside
  <2>9. ASSUME NEW s \in Calls \ {r}
        PROVE  Posed(ask'[s]) /\ Carries(ask'[s]) /\ Holds(ask[s])'
    BY <1>2, <2>6, <2>7, <2>8, AsideHolds
  <2>10. Posed(q) /\ Carries(q)
    BY <1>1, <2>2, <2>5 DEF Posed, Carries, LinkOps
  <2>11. Holds(ask[r])'
    <3>1. link'[l].from # NoLink => e >= link'[link'[l].from].expires
      <4>1. SUFFICES ASSUME link[l].from # NoLink PROVE e >= link[link[l].from].expires
        BY <1>2
      <4>2. link[l].from \in Links /\ link[l].expires >= link[link[l].from].expires
        BY <1>2, <4>1 DEF LinkRow, LinkInv, SuccessorTakesOver
      <4>3. link[l].expires \in Nat /\ link[link[l].from].expires \in Nat
        BY <1>2, <4>2 DEF LinkRow
      <4> QED BY <2>5, <4>2, <4>3
    <3> QED BY <1>2, <2>2, <2>5, <2>8, <3>1 DEF Holds
  <2>12. ASSUME NEW s \in Calls \ {r}, Extends(s, l) PROVE l \in contended'
    <3>1. s \in rivals
      BY <2>3, <2>12 DEF Extends, Stage, Doing, Serving, NotAsked, Served
    <3> QED BY <2>4, <3>1
  <2>13. ASSUME NEW s \in Calls \ {r}, NEW k, Extends(s, k)' PROVE Extends(s, k)
    BY <2>8, <2>13 DEF Aside, Extends, Stage
  <2>14. ASSUME NEW s \in Calls, NEW t \in Calls, NEW k \in Links, s # t, Extends(s, k)', Extends(t, k)'
         PROVE  k \in contended'
    <3>1. CASE s # r /\ t # r
      BY <2>6, <2>13, <2>14, <3>1 DEF LinkInv
    <3>2. CASE s = r \/ t = r
      <4>1. k = l
        BY <2>2, <2>8, <2>14, <3>2 DEF Extends
      <4> QED BY <2>12, <2>13, <2>14, <3>2, <4>1
    <3> QED BY <3>1, <3>2
  <2>15. SuccessorTakesOver'
    BY <1>2 DEF LinkInv, SuccessorTakesOver
  <2> QED BY <2>7, <2>8, <2>9, <2>10, <2>11, <2>14, <2>15 DEF LinkInv
<1> QED BY <1>3, <1>4

LEMMA TimeAndCrashLinks ==
  ASSUME LinkInv, Crash \/ LinkTick \/ UNCHANGED linkVars PROVE LinkInv'
<1>1. UNCHANGED <<link, contended>> /\ clock' \in Nat
  BY DEF Crash, LinkTick, linkVars, rows, marks, LinkInv, LinkRows
<1>2. DOMAIN ask' = Calls /\ \A s \in Calls : ask'[s] = Served \/ ask'[s] = ask[s]
  BY DEF Crash, LinkTick, linkVars, LinkInv
<1>3. ASSUME NEW s \in Calls PROVE Posed(ask'[s]) /\ Carries(ask'[s]) /\ Holds(ask[s])'
  <2>1. CASE ask'[s] = Served
    BY <2>1 DEF Served, Posed, Carries, Holds
  <2>2. CASE ask'[s] = ask[s]
    BY <1>1, <2>2 DEF LinkInv, Holds
  <2> QED BY <1>2, <2>1, <2>2
<1>4. ASSUME NEW s \in Calls, NEW l, Extends(s, l)' PROVE Extends(s, l)
  BY <1>2, <1>4 DEF Extends, Stage, Served
<1>5. LinkRows' /\ SuccessorTakesOver'
  BY <1>1 DEF LinkInv, LinkRows, SuccessorTakesOver
<1> QED BY <1>1, <1>2, <1>3, <1>4, <1>5 DEF LinkInv

LEMMA LinkStep == LinkInv /\ [LinksNext]_linkVars => LinkInv'
<1> SUFFICES ASSUME LinkInv, [LinksNext]_linkVars PROVE LinkInv'
  OBVIOUS
<1>1. ASSUME NEW r \in Calls, AgencyAsks(r) \/ ClientAsks(r) \/ HourStrikes(r) PROVE LinkInv'
  BY <1>1, NewAsks
<1>2. ASSUME NEW r \in Calls, CacheGet(r) \/ Store(r) \/ \E t \in Tables : FetchTable(r, t)
      PROVE  LinkInv'
  BY <1>2, FillsLinks
<1>3. ASSUME NEW r \in Calls,
             \/ FindForRevoke(r) \/ FindForRegenerate(r) \/ ReadLiveShare(r)
             \/ FindReview(r) \/ CreateReview(r)
             \/ TryAdvisoryLock(r) \/ ListTrips(r) \/ ResolveRecipientEmail(r)
             \/ SendTripReviewEmail(r) \/ CreateLog(r) \/ AdvisoryUnlock(r)
      PROVE  LinkInv'
  BY <1>3, Advancers
<1>4. ASSUME NEW r \in Calls,
             \/ IncrementViewCount(r) \/ AddComment(r) \/ ReplyToComment(r) \/ Answer(r) \/ Errs(r)
      PROVE  LinkInv'
  BY <1>4, Answerers
<1>5. ASSUME NEW r \in Calls,
             CreateShare(r) \/ RevokeShare(r) \/ RateProposal(r) \/ ReplaceShare(r)
      PROVE  LinkInv'
  BY <1>5, CreateShareLinks, MarkingLinks, ReplaceShareLinks
<1>6. ASSUME NEW r \in Calls, FindForExtend(r) \/ UpdateShareExpiry(r) PROVE LinkInv'
  BY <1>6, FindForExtendLinks, UpdateShareExpiryLinks
<1>7. CASE Crash \/ LinkTick \/ UNCHANGED linkVars
  BY <1>7, TimeAndCrashLinks
<1> QED BY <1>1, <1>2, <1>3, <1>4, <1>5, <1>6, <1>7 DEF LinksNext

LEMMA LinksInitially == LinksInit => LinkInv
<1> SUFFICES ASSUME LinksInit PROVE LinkInv
  OBVIOUS
<1> PICK e \in {1, Never} :
      link = [l \in Links |-> IF l = FirstOf(Links) THEN NewLink(e, e = 1, NoLink) ELSE NoLinkRow]
  BY DEF LinksInit
<1> DEFINE m == e = 1
<1> HIDE DEF m
<1>e. e \in Nat
  BY LinkConstants DEF Never
<1>m. m \in BOOLEAN
  BY DEF m
<1>1. link = [l \in Links |-> IF l = FirstOf(Links) THEN NewLink(e, m, NoLink) ELSE NoLinkRow]
  BY DEF m
<1>2. NewLink(e, m, NoLink) \in LinkRow /\ NoLinkRow \in LinkRow
  BY <1>e, <1>m, NewLinkIsRow, LinkConstants DEF NoLinkRow, LinkRow, Never, Unrated
<1>3. LinkRows
  BY <1>1, <1>2 DEF LinksInit, LinkRows
<1>4. \A l \in Links : link[l].from = NoLink
  BY <1>1 DEF NewLink, NoLinkRow
<1>5. DOMAIN ask = Calls /\ \A s \in Calls : ask[s] = NotAsked
  BY DEF LinksInit
<1>6. \A s \in Calls : Posed(ask[s]) /\ Carries(ask[s]) /\ Holds(ask[s])
  BY <1>5 DEF NotAsked, Posed, Carries, Holds
<1>7. \A s \in Calls : \A l : ~Extends(s, l)
  BY <1>5 DEF NotAsked, Extends, Stage
<1> QED BY <1>3, <1>4, <1>5, <1>6, <1>7 DEF LinkInv, SuccessorTakesOver

(* Every state satisfies LinkInv: what each request under way may still rely *)
(* on when it comes to write.                                                *)
THEOREM LinkInvTheorem == LinksSpec => []LinkInv
BY LinksInitially, LinkStep, PTL DEF LinksSpec

(* shareRepository.ts regenerateShare, updateShareExpiry - however requests  *)
(* overlap, fail and are cut off by crashes, a regenerated link is off for   *)
(* good, has one successor, and the successor does not end before it.        *)
THEOREM SuccessorTheorem == LinksSpec => []SuccessorTakesOver
<1>1. LinkInv => SuccessorTakesOver
  BY DEF LinkInv
<1> QED BY <1>1, LinkInvTheorem, PTL

(* shareService.ts extendShare, shareExpiry.ts - the expiry of a live link   *)
(* never moves in, unless two extensions of it overlapped.                   *)
THEOREM ExpiryTheorem == LinksSpec => ExpiryMovesOut
<1>1. ASSUME LinkInv, LinksNext, NEW l \in Links, link[l].state = "live"
      PROVE  link'[l].expires >= link[l].expires \/ l \in contended
  <2>0. link \in [Links -> LinkRow] /\ link[l].expires \in Nat
    BY <1>1 DEF LinkInv, LinkRows, LinkRow
  <2>1. ASSUME NEW r \in Calls, UpdateShareExpiry(r)
        PROVE  link'[l].expires >= link[l].expires \/ l \in contended
    <3>1. CASE UNCHANGED link
      BY <2>0, <3>1
    <3>2. CASE link' = [link EXCEPT ![ask[r].link].expires = ask[r].expires]
      <4>1. CASE l = ask[r].link
        <5>1. link'[l].expires = ask[r].expires
          BY <2>0, <3>2, <4>1 DEF LinkRow
        <5>2. l \notin contended => ask[r].expires >= link[l].expires
          BY <1>1, <2>1, <4>1 DEF UpdateShareExpiry, Stage, LinkInv, Holds
        <5> QED BY <5>1, <5>2
      <4>2. CASE l # ask[r].link
        BY <2>0, <3>2, <4>2
      <4> QED BY <4>1, <4>2
    <3> QED BY <2>1, <3>1, <3>2 DEF UpdateShareExpiry
  <2>2. ASSUME NEW r \in Calls, CreateShare(r) \/ ReplaceShare(r) PROVE link'[l].expires = link[l].expires
    <3>1. ASSUME NEW k \in NewIds PROVE k # l
      BY <1>1, <3>1 DEF NewIds, FirstOf
    <3>2. \/ UNCHANGED link
          \/ \E k \in NewIds : \E row : link' = [link EXCEPT ![k] = row]
          \/ \E k \in NewIds : \E row : link' = [link EXCEPT ![ask[r].link].state = "revoked", ![k] = row]
      BY <2>2 DEF CreateShare, ReplaceShare, Replaces
    <3> QED BY <2>0, <3>1, <3>2 DEF LinkRow
  <2>3. ASSUME NEW r \in Calls, RevokeShare(r) \/ RateProposal(r) PROVE link'[l].expires = link[l].expires
    BY <2>0, <2>3 DEF RevokeShare, RateProposal, LinkRow
  <2>4. ASSUME NEW r \in Calls, AgencyAsks(r) \/ ClientAsks(r) \/ HourStrikes(r) PROVE UNCHANGED link
    BY <2>4 DEF AgencyAsks, ClientAsks, HourStrikes, Still, rows
  <2>5. ASSUME NEW r \in Calls, CacheGet(r) \/ Store(r) \/ \E t \in Tables : FetchTable(r, t)
        PROVE  UNCHANGED link
    BY <2>5 DEF CacheGet, Store, FetchTable, Still, rows
  <2>6. ASSUME NEW r \in Calls,
               \/ FindForRevoke(r) \/ FindForRegenerate(r) \/ ReadLiveShare(r)
               \/ FindReview(r) \/ CreateReview(r) \/ FindForExtend(r)
        PROVE  UNCHANGED link
    BY <2>6 DEF FindForRevoke, FindForRegenerate, ReadLiveShare, FindReview, CreateReview,
                FindForExtend, Still, rows
  <2>7. ASSUME NEW r \in Calls,
               \/ TryAdvisoryLock(r) \/ ListTrips(r) \/ ResolveRecipientEmail(r)
               \/ SendTripReviewEmail(r) \/ CreateLog(r) \/ AdvisoryUnlock(r)
        PROVE  UNCHANGED link
    BY <2>7 DEF TryAdvisoryLock, ListTrips, ResolveRecipientEmail, SendTripReviewEmail,
                CreateLog, AdvisoryUnlock, Still, Quietly, rows
  <2>8. ASSUME NEW r \in Calls,
               \/ IncrementViewCount(r) \/ AddComment(r) \/ ReplyToComment(r) \/ Answer(r) \/ Errs(r)
        PROVE  UNCHANGED link
    BY <2>8 DEF IncrementViewCount, AddComment, ReplyToComment, Answer, Errs, rows
  <2>9. CASE Crash \/ LinkTick
    BY <2>0, <2>9 DEF Crash, LinkTick, rows
  <2> QED BY <1>1, <2>0, <2>1, <2>2, <2>3, <2>4, <2>5, <2>6, <2>7, <2>8, <2>9 DEF LinksNext
<1>2. LinkInv /\ [LinksNext]_linkVars =>
        [\A l \in Links : link[l].state = "live" =>
           link'[l].expires >= link[l].expires \/ l \in contended]_linkVars
  BY <1>1
<1> QED BY <1>2, LinkInvTheorem, PTL DEF LinksSpec, ExpiryMovesOut


-----------------------------------------------------------------------------
(* The review mail: what keeps the client from being asked twice as long as  *)
(* one scan runs at a time, and from reviewing twice.                        *)
InScan(s) == ask[s].pc \in {"list", "resolve", "send", "log", "unlock"} /\ ask[s].op = "scan"
Unlogging(s) == ask[s].pc \in {"resolve", "send", "log"} /\ ask[s].op = "scan"

OneScan == \A s, t \in Calls : InScan(s) /\ InScan(t) => s = t

\* The log row is missing while a scan is about to mail or to log, and the mails that have
\* no log row are those that are counted, and one whose row is about to be written.
MailsCounted ==
  /\ mails \in Nat /\ unlogged \in Nat /\ log \in BOOLEAN
  /\ \A s \in Calls : Unlogging(s) => ~log
  /\ mails <= unlogged + 1
  /\ ~log /\ (\A s \in Calls : ~Stage(s, "scan", "log")) => mails <= unlogged

OneReview ==
  /\ reviews \in {0, 1}
  /\ \A s \in Calls : Stage(s, "review", "write") => reviews = 0
  /\ \A s, t \in Calls : Stage(s, "review", "write") /\ Stage(t, "review", "write") => s = t

MailInv == jammed \in BOOLEAN /\ (~jammed => OneScan /\ MailsCounted /\ OneReview)

\* A record that stands for no scan and no review about to be written.
OffMail(q) ==
  /\ ~(q.op = "scan" /\ q.pc \in {"list", "resolve", "send", "log", "unlock"})
  /\ ~(q.op = "review" /\ q.pc = "write")

LEMMA OthersKeepScanning ==
  ASSUME NEW s, Aside(s)
  PROVE  /\ InScan(s)' <=> InScan(s)
         /\ Unlogging(s)' <=> Unlogging(s)
         /\ Stage(s, "scan", "log")' <=> Stage(s, "scan", "log")
         /\ Stage(s, "review", "write")' <=> Stage(s, "review", "write")
BY DEF Aside, InScan, Unlogging, Stage

(* A step of r that neither mails, logs nor reviews.                         *)
LEMMA MailLooksOn ==
  ASSUME MailInv, NEW r \in Calls, \A s \in Calls \ {r} : Aside(s),
         UNCHANGED <<mails, unlogged, jammed, log, reviews>>,
         ~Stage(r, "scan", "log"), ~Stage(r, "scan", "log")', ~Stage(r, "review", "write")',
         InScan(r)' => InScan(r), Unlogging(r)' => ~log
  PROVE  MailInv'
<1>1. SUFFICES ASSUME ~jammed PROVE OneScan' /\ MailsCounted' /\ OneReview'
  BY DEF MailInv
<1>2. \A s \in Calls : InScan(s)' => InScan(s)
  BY OthersKeepScanning
<1>3. \A s \in Calls : Unlogging(s)' => ~log
  BY <1>1, OthersKeepScanning DEF MailInv, MailsCounted
<1>4. \A s \in Calls : Stage(s, "scan", "log")' <=> Stage(s, "scan", "log")
  BY OthersKeepScanning
<1>5. \A s \in Calls : Stage(s, "review", "write")' => Stage(s, "review", "write")
  BY OthersKeepScanning
<1>6. OneScan'
  BY <1>1, <1>2 DEF MailInv, OneScan
<1>7. MailsCounted'
  BY <1>1, <1>3, <1>4 DEF MailInv, MailsCounted
<1>8. OneReview'
  BY <1>1, <1>5 DEF MailInv, OneReview
<1> QED BY <1>6, <1>7, <1>8

(* The same for a request that goes on as one that has nothing to do with it.*)
LEMMA OffMailLooksOn ==
  ASSUME MailInv, NEW r \in Calls, \A s \in Calls \ {r} : Aside(s),
         UNCHANGED <<mails, unlogged, jammed, log, reviews>>,
         ~Stage(r, "scan", "log"), NEW q, ask'[r] = q, OffMail(q)
  PROVE  MailInv'
<1>1. ~Stage(r, "scan", "log")' /\ ~Stage(r, "review", "write")' /\ ~InScan(r)' /\ ~Unlogging(r)'
  BY DEF OffMail, Stage, InScan, Unlogging
<1> QED BY <1>1, MailLooksOn

LEMMA ScanTakesLock ==
  ASSUME LinkInv, MailInv, NEW r \in Calls, TryAdvisoryLock(r) PROVE MailInv'
<1>1. /\ UNCHANGED <<mails, unlogged, log, reviews>> /\ Stage(r, "scan", "lock")
      /\ Posed(ask[r])
      /\ \/ Serves(r) /\ UNCHANGED jammed
         \/ Advances(r, "list") /\ jammed' = (jammed \/ Scanning # {})
  BY DEF TryAdvisoryLock, Quietly, LinkInv
<1>2. ~InScan(r) /\ ~Stage(r, "scan", "log")
  BY <1>1 DEF InScan, Stage
<1>3. CASE Serves(r) /\ UNCHANGED jammed
  <2>1. ask'[r] = Served /\ \A s \in Calls \ {r} : Aside(s)
    BY <1>3, TurnsAside DEF Serves
  <2> QED BY <1>1, <1>2, <1>3, <2>1, MailLooksOn DEF Served, InScan, Unlogging, Stage
<1>4. CASE Advances(r, "list") /\ jammed' = (jammed \/ Scanning # {})
  <2>1. ask'[r] = [ask[r] EXCEPT !.pc = "list"] /\ \A s \in Calls \ {r} : Aside(s)
    BY <1>4, TurnsAside DEF Advances
  <2>2. ask'[r].pc = "list" /\ ask'[r].op = "scan"
    BY <1>1, <2>1 DEF Posed, Stage
  <2>3. SUFFICES ASSUME ~jammed, Scanning = {} PROVE OneScan' /\ MailsCounted' /\ OneReview'
    BY <1>4 DEF MailInv
  <2>4. \A s \in Calls : ~InScan(s)
    BY <2>3 DEF Scanning, Doing, Serving, NotAsked, Served, InScan
  <2>5. OneScan'
    BY <2>1, <2>4, OthersKeepScanning DEF OneScan
  <2>6. \A s \in Calls : ~Unlogging(s)'
    BY <2>1, <2>2, <2>4, OthersKeepScanning DEF Unlogging, InScan
  <2>7. \A s \in Calls : ~Stage(s, "scan", "log")
    BY <2>4 DEF InScan, Stage
  <2>8. MailsCounted'
    BY <1>1, <2>3, <2>6, <2>7 DEF MailInv, MailsCounted
  <2>9. \A s \in Calls : Stage(s, "review", "write")' => Stage(s, "review", "write")
    BY <2>1, <2>2, OthersKeepScanning DEF Stage
  <2>10. OneReview'
    BY <1>1, <2>3, <2>9 DEF MailInv, OneReview
  <2> QED BY <2>5, <2>8, <2>10
<1> QED BY <1>1, <1>3, <1>4

LEMMA ScanMails ==
  ASSUME LinkInv, MailInv, NEW r \in Calls, SendTripReviewEmail(r) PROVE MailInv'
<1>1. /\ UNCHANGED <<unlogged, log, reviews, jammed>> /\ Stage(r, "scan", "send") /\ Posed(ask[r])
      /\ \/ mails' = mails + 1 /\ Advances(r, "log")
         \/ UNCHANGED mails /\ Advances(r, "unlock")
  BY DEF SendTripReviewEmail, Quietly, LinkInv
<1>2. InScan(r) /\ Unlogging(r) /\ ~Stage(r, "scan", "log")
  BY <1>1 DEF InScan, Unlogging, Stage
<1>3. PICK pc \in {"log", "unlock"} :
        ask'[r] = [ask[r] EXCEPT !.pc = pc] /\ mails' = (IF pc = "log" THEN mails + 1 ELSE mails)
  BY <1>1, TurnsAside DEF Advances
<1>4. \A s \in Calls \ {r} : Aside(s)
  BY <1>1, TurnsAside DEF Advances
<1>5. ask'[r].pc = pc /\ ask'[r].op = "scan"
  BY <1>1, <1>3 DEF Posed, Stage
<1>6. SUFFICES ASSUME ~jammed PROVE OneScan' /\ MailsCounted' /\ OneReview'
  BY <1>1 DEF MailInv
<1>7. \A s \in Calls : InScan(s)' => InScan(s)
  BY <1>2, <1>4, OthersKeepScanning
<1>8. OneScan'
  BY <1>6, <1>7 DEF MailInv, OneScan
<1>9. ~log /\ \A s \in Calls \ {r} : ~InScan(s)
  BY <1>2, <1>6 DEF MailInv, MailsCounted, OneScan
<1>10. \A s \in Calls : ~Stage(s, "scan", "log")
  BY <1>2, <1>9 DEF Stage, InScan
<1>11. mails \in Nat /\ unlogged \in Nat /\ mails <= unlogged
  BY <1>6, <1>9, <1>10 DEF MailInv, MailsCounted
<1>12. MailsCounted'
  <2>1. mails' \in Nat /\ mails' <= unlogged + 1
    BY <1>3, <1>11
  <2>2. pc = "log" => Stage(r, "scan", "log")'
    BY <1>5 DEF Stage
  <2>3. pc # "log" => mails' <= unlogged
    BY <1>3, <1>11
  <2>4. (\A s \in Calls : ~Stage(s, "scan", "log")') => mails' <= unlogged
    BY <2>2, <2>3
  <2>5. \A s \in Calls : Unlogging(s)' => ~log
    BY <1>9
  <2>6. log \in BOOLEAN
    BY <1>6 DEF MailInv, MailsCounted
  <2> QED BY <1>1, <1>9, <1>11, <2>1, <2>4, <2>5, <2>6 DEF MailsCounted
<1>13. \A s \in Calls : Stage(s, "review", "write")' => Stage(s, "review", "write")
  BY <1>4, <1>5, OthersKeepScanning DEF Stage
<1>14. OneReview'
  BY <1>1, <1>6, <1>13 DEF MailInv, OneReview
<1> QED BY <1>8, <1>12, <1>14

LEMMA ScanLogs ==
  ASSUME LinkInv, MailInv, NEW r \in Calls, CreateLog(r) PROVE MailInv'
<1>1. /\ UNCHANGED <<mails, reviews, jammed>> /\ Stage(r, "scan", "log") /\ Posed(ask[r])
      /\ Advances(r, "unlock")
      /\ \/ ~log /\ log' = TRUE /\ UNCHANGED unlogged
         \/ UNCHANGED log /\ unlogged' = unlogged + 1
  BY DEF CreateLog, Quietly, LinkInv
<1>2. InScan(r) /\ Unlogging(r)
  BY <1>1 DEF InScan, Unlogging, Stage
<1>3. ask'[r] = [ask[r] EXCEPT !.pc = "unlock"] /\ \A s \in Calls \ {r} : Aside(s)
  BY <1>1, TurnsAside DEF Advances
<1>4. ask'[r].pc = "unlock" /\ ask'[r].op = "scan"
  BY <1>1, <1>3 DEF Posed, Stage
<1>5. SUFFICES ASSUME ~jammed PROVE OneScan' /\ MailsCounted' /\ OneReview'
  BY <1>1 DEF MailInv
<1>6. \A s \in Calls : InScan(s)' => InScan(s)
  BY <1>2, <1>3, OthersKeepScanning
<1>7. OneScan'
  BY <1>5, <1>6 DEF MailInv, OneScan
<1>8. \A s \in Calls \ {r} : ~InScan(s)
  BY <1>2, <1>5 DEF MailInv, OneScan
<1>9. \A s \in Calls : ~Unlogging(s)'
  BY <1>3, <1>4, <1>8, OthersKeepScanning DEF Unlogging, InScan
<1>10. mails \in Nat /\ unlogged \in Nat /\ mails <= unlogged + 1 /\ log = FALSE
  BY <1>2, <1>5 DEF MailInv, MailsCounted
<1>11. MailsCounted'
  <2>1. /\ unlogged' \in Nat /\ mails <= unlogged' + 1
        /\ log' = TRUE \/ mails <= unlogged'
        /\ log' \in BOOLEAN
    <3>1. CASE log' = TRUE /\ UNCHANGED unlogged
      BY <1>10, <3>1
    <3>2. CASE UNCHANGED log /\ unlogged' = unlogged + 1
      <4>1. unlogged' \in Nat /\ mails <= unlogged'
        BY <1>10, <3>2
      <4>2. log' \in BOOLEAN
        BY <1>10, <3>2
      <4> QED BY <1>10, <3>2, <4>1, <4>2
    <3> QED BY <1>1, <3>1, <3>2
  <2> QED BY <1>1, <1>9, <1>10, <2>1 DEF MailsCounted
<1>12. \A s \in Calls : Stage(s, "review", "write")' => Stage(s, "review", "write")
  BY <1>3, <1>4, OthersKeepScanning DEF Stage
<1>13. OneReview'
  BY <1>1, <1>5, <1>12 DEF MailInv, OneReview
<1> QED BY <1>7, <1>11, <1>13

LEMMA ReviewAsked ==
  ASSUME LinkInv, MailInv, NEW r \in Calls, FindReview(r) PROVE MailInv'
<1>1. /\ UNCHANGED <<mails, unlogged, log, reviews>> /\ Stage(r, "review", "read") /\ Posed(ask[r])
      /\ IF reviews = 0 THEN Advances(r, "write") ELSE Serves(r)
      /\ jammed' = (jammed \/ \E s \in Doing("review") \ {r} : ask[s].pc = "write")
  BY DEF FindReview, rows, LinkInv
<1>2. PICK q : /\ Turns(r, q) /\ q.pc \in {"write", "done"}
               /\ q.pc = "write" => reviews = 0 /\ q.op = "review"
  <2>1. CASE reviews = 0
    <3>1. PICK q : q = [ask[r] EXCEPT !.pc = "write"]
      OBVIOUS
    <3>2. q.pc = "write" /\ q.op = "review"
      BY <1>1, <3>1 DEF Posed, Stage
    <3> QED BY <1>1, <2>1, <3>1, <3>2 DEF Advances
  <2>2. CASE reviews # 0
    BY <1>1, <2>2 DEF Serves, Served
  <2> QED BY <2>1, <2>2
<1>3. ask'[r] = q /\ \A s \in Calls \ {r} : Aside(s)
  BY <1>2, TurnsAside
<1>4. jammed' \in BOOLEAN
  BY <1>1
<1>5. SUFFICES ASSUME ~jammed, ~\E s \in Doing("review") \ {r} : ask[s].pc = "write"
               PROVE OneScan' /\ MailsCounted' /\ OneReview'
  BY <1>1, <1>4 DEF MailInv
<1>6. ~InScan(r)' /\ ~Stage(r, "scan", "log")' /\ ~Stage(r, "scan", "log")
      /\ ~Unlogging(r)'
  BY <1>1, <1>2, <1>3 DEF InScan, Stage, Unlogging
<1>7. \A s \in Calls : (InScan(s)' => InScan(s)) /\ (Unlogging(s)' => Unlogging(s))
                       /\ (Stage(s, "scan", "log")' <=> Stage(s, "scan", "log"))
  BY <1>3, <1>6, OthersKeepScanning
<1>8. OneScan'
  BY <1>5, <1>7 DEF MailInv, OneScan
<1>9. MailsCounted'
  BY <1>1, <1>5, <1>7 DEF MailInv, MailsCounted
<1>10. \A s \in Calls \ {r} : ~Stage(s, "review", "write")
  BY <1>5 DEF Doing, Serving, NotAsked, Served, Stage
<1>11. \A s \in Calls : Stage(s, "review", "write")' => s = r /\ reviews = 0
  BY <1>2, <1>3, <1>10, OthersKeepScanning DEF Stage
<1>12. OneReview'
  BY <1>1, <1>5, <1>11 DEF MailInv, OneReview
<1> QED BY <1>8, <1>9, <1>12

LEMMA ReviewMade ==
  ASSUME LinkInv, MailInv, NEW r \in Calls, CreateReview(r) PROVE MailInv'
<1>1. /\ UNCHANGED <<mails, unlogged, log, jammed>> /\ Stage(r, "review", "write")
      /\ reviews' = reviews + 1 /\ Serves(r)
  BY DEF CreateReview, Wrote, marks
<1>2. ask'[r] = Served /\ \A s \in Calls \ {r} : Aside(s)
  BY <1>1, TurnsAside DEF Serves
<1>3. SUFFICES ASSUME ~jammed PROVE OneScan' /\ MailsCounted' /\ OneReview'
  BY <1>1 DEF MailInv
<1>4. ~InScan(r)' /\ ~Stage(r, "scan", "log")' /\ ~Stage(r, "scan", "log") /\ ~Unlogging(r)'
  BY <1>1, <1>2 DEF InScan, Stage, Unlogging, Served
<1>5. \A s \in Calls : (InScan(s)' => InScan(s)) /\ (Unlogging(s)' => Unlogging(s))
                       /\ (Stage(s, "scan", "log")' <=> Stage(s, "scan", "log"))
  BY <1>2, <1>4, OthersKeepScanning
<1>6. OneScan'
  BY <1>3, <1>5 DEF MailInv, OneScan
<1>7. MailsCounted'
  BY <1>1, <1>3, <1>5 DEF MailInv, MailsCounted
<1>8. reviews = 0 /\ \A s \in Calls \ {r} : ~Stage(s, "review", "write")
  BY <1>1, <1>3 DEF MailInv, OneReview
<1>9. \A s \in Calls : ~Stage(s, "review", "write")'
  BY <1>2, <1>8, OthersKeepScanning DEF Stage, Served
<1>10. OneReview'
  BY <1>1, <1>8, <1>9 DEF OneReview
<1> QED BY <1>6, <1>7, <1>10

LEMMA CrashMails ==
  ASSUME MailInv, Crash PROVE MailInv'
<1>1. /\ ask' = [s \in Calls |-> IF s \in Serving THEN Served ELSE ask[s]]
      /\ UNCHANGED <<mails, log, reviews, jammed>>
  BY DEF Crash, rows
<1>2. PICK L : L = {s \in Doing("scan") : ask[s].pc = "log"} /\ unlogged' = unlogged + Cardinality(L)
  BY DEF Crash
<1>3. SUFFICES ASSUME ~jammed PROVE OneScan' /\ MailsCounted' /\ OneReview'
  BY <1>1 DEF MailInv
<1>4. \A s \in Calls : ~InScan(s)' /\ ~Unlogging(s)' /\ ~Stage(s, "scan", "log")'
                       /\ ~Stage(s, "review", "write")'
  BY <1>1 DEF InScan, Unlogging, Stage, Serving, NotAsked, Served
<1>5. mails \in Nat /\ unlogged \in Nat /\ mails <= unlogged + 1 /\ log \in BOOLEAN
  BY <1>3 DEF MailInv, MailsCounted
<1>6. \A s : s \in L <=> s \in Calls /\ Stage(s, "scan", "log")
  BY <1>2 DEF Doing, Serving, NotAsked, Served, Stage
<1>7. \A s, t \in L : s = t
  BY <1>3, <1>6 DEF MailInv, OneScan, InScan, Stage
<1>8. CASE L = {}
  <2>1. unlogged' = unlogged
    BY <1>2, <1>5, <1>8, FS_EmptySet
  <2>2. ~log => mails <= unlogged
    BY <1>3, <1>6, <1>8 DEF MailInv, MailsCounted
  <2> QED BY <1>1, <1>3, <1>4, <1>5, <2>1, <2>2 DEF MailInv, OneScan, MailsCounted, OneReview
<1>9. CASE L # {}
  <2>1. PICK s : L = {s}
    BY <1>7, <1>9
  <2>2. Cardinality(L) = 1
    BY <2>1, FS_Singleton
  <2>3. unlogged' = unlogged + 1
    BY <1>2, <2>2
  <2> QED BY <1>1, <1>3, <1>4, <1>5, <2>3 DEF MailInv, OneScan, MailsCounted, OneReview
<1> QED BY <1>8, <1>9

LEMMA ScanGoesOn ==
  ASSUME LinkInv, MailInv, NEW r \in Calls,
         ListTrips(r) \/ ResolveRecipientEmail(r) \/ AdvisoryUnlock(r)
  PROVE  MailInv'
<1>1. /\ UNCHANGED <<mails, unlogged, jammed, log, reviews>> /\ Posed(ask[r])
      /\ ask[r].op = "scan" /\ ask[r].pc \in {"list", "resolve", "unlock"}
  BY DEF ListTrips, ResolveRecipientEmail, AdvisoryUnlock, Stage, Still, Quietly, rows, marks, LinkInv
<1>2. InScan(r) /\ ~Stage(r, "scan", "log")
  BY <1>1 DEF InScan, Stage
<1>3. PICK q : /\ Turns(r, q) /\ q.pc \in {"resolve", "send", "unlock", "done"}
               /\ q.pc \in {"resolve", "send"} => ask[r].pc = "resolve" \/ ~log
  <2>1. ASSUME NEW pc \in {"resolve", "send", "unlock"}, Advances(r, pc),
               pc \in {"resolve", "send"} => ask[r].pc = "resolve" \/ ~log
        PROVE  \E q : /\ Turns(r, q) /\ q.pc \in {"resolve", "send", "unlock", "done"}
                      /\ q.pc \in {"resolve", "send"} => ask[r].pc = "resolve" \/ ~log
    <3>1. PICK q : q = [ask[r] EXCEPT !.pc = pc]
      OBVIOUS
    <3>2. q.pc = pc
      BY <1>1, <3>1 DEF Posed
    <3> QED BY <2>1, <3>1, <3>2 DEF Advances
  <2>2. CASE ListTrips(r)
    BY <2>1, <2>2 DEF ListTrips
  <2>3. CASE ResolveRecipientEmail(r)
    BY <2>1, <2>3 DEF ResolveRecipientEmail, Stage
  <2>4. CASE AdvisoryUnlock(r)
    BY <2>4 DEF AdvisoryUnlock, Serves, Served
  <2> QED BY <2>2, <2>3, <2>4
<1>4. ask'[r] = q /\ \A s \in Calls \ {r} : Aside(s)
  BY <1>3, TurnsAside
<1>5. ~Stage(r, "scan", "log")' /\ ~Stage(r, "review", "write")'
  BY <1>3, <1>4 DEF Stage
<1>6. CASE jammed
  BY <1>1, <1>6 DEF MailInv
<1>7. CASE ~jammed
  <2>1. ask[r].pc = "resolve" => ~log
    BY <1>1, <1>7 DEF MailInv, MailsCounted, Unlogging
  <2>2. Unlogging(r)' => ~log
    BY <1>3, <1>4, <2>1 DEF Unlogging
  <2> QED BY <1>1, <1>2, <1>4, <1>5, <2>2, MailLooksOn
<1> QED BY <1>1, <1>6, <1>7 DEF MailInv

LEMMA NewAsksMail ==
  ASSUME LinkInv, MailInv, NEW r \in Calls, AgencyAsks(r) \/ ClientAsks(r) \/ HourStrikes(r)
  PROVE  MailInv'
<1>1. UNCHANGED <<mails, unlogged, jammed, log, reviews>> /\ ask[r] = NotAsked
  BY DEF AgencyAsks, ClientAsks, HourStrikes, Still, rows, marks
<1>2. ASSUME NEW q, Turns(r, q), OffMail(q) PROVE MailInv'
  <2>1. ask'[r] = q /\ \A s \in Calls \ {r} : Aside(s)
    BY <1>2, TurnsAside
  <2>2. ~Stage(r, "scan", "log")
    BY <1>1 DEF NotAsked, Stage
  <2> QED BY <1>1, <1>2, <2>1, <2>2, OffMailLooksOn
<1>3. ASSUME NEW e, NEW m, Turns(r, [op |-> "create", pc |-> "write", expires |-> e, mail |-> m])
      PROVE  MailInv'
  BY <1>2, <1>3 DEF OffMail
<1>4. ASSUME NEW l, NEW op, Turns(r, [op |-> op, pc |-> "read", link |-> l]) PROVE MailInv'
  BY <1>2, <1>4 DEF OffMail
<1>5. ASSUME NEW l, NEW d, Turns(r, [op |-> "extend", pc |-> "read", link |-> l, days |-> d])
      PROVE  MailInv'
  BY <1>2, <1>5 DEF OffMail
<1>6. ASSUME NEW c, Turns(r, [op |-> "reply", pc |-> "write", comment |-> c]) PROVE MailInv'
  BY <1>2, <1>6 DEF OffMail
<1>7. ASSUME NEW c, NEW k, Turns(r, [op |-> "fill", pc |-> "get", cache |-> c, key |-> k])
      PROVE  MailInv'
  BY <1>2, <1>7 DEF OffMail
<1>8. ASSUME NEW op, NEW pc \in {"read", "lock"}, Turns(r, [op |-> op, pc |-> pc]) PROVE MailInv'
  BY <1>2, <1>8 DEF OffMail
<1>9. CASE AgencyAsks(r)
  BY <1>3, <1>4, <1>5, <1>6, <1>7, <1>9 DEF AgencyAsks
<1>10. CASE ClientAsks(r)
  BY <1>4, <1>8, <1>10 DEF ClientAsks
<1>11. CASE HourStrikes(r)
  BY <1>8, <1>11 DEF HourStrikes
<1> QED BY <1>9, <1>10, <1>11

LEMMA FillsMail ==
  ASSUME LinkInv, MailInv, NEW r \in Calls, CacheGet(r) \/ Store(r) \/ \E t \in Tables : FetchTable(r, t)
  PROVE  MailInv'
<1>1. UNCHANGED <<mails, unlogged, jammed, log, reviews>> /\ ask[r].op = "fill" /\ Posed(ask[r])
  BY DEF CacheGet, Store, FetchTable, Still, rows, marks, Stage, LinkInv
<1>2. PICK q : Turns(r, q) /\ q.pc \in {"fetch", "done"}
  <2>1. CASE CacheGet(r)
    BY <2>1 DEF CacheGet, Serves, Served, FillBegins
  <2>2. CASE Store(r)
    BY <2>2 DEF Store, Serves, Served
  <2>3. ASSUME NEW t \in Tables, FetchTable(r, t) PROVE \E q : Turns(r, q) /\ q.pc \in {"fetch", "done"}
    <3>1. PICK q : q = [ask[r] EXCEPT !.data.read = @ \union {t}]
      OBVIOUS
    <3>2. ask[r].pc = "fetch"
      BY <2>3 DEF FetchTable, Stage
    <3>3. q.pc = "fetch"
      BY <1>1, <3>1, <3>2 DEF Posed
    <3> QED BY <2>3, <3>1, <3>3 DEF FetchTable
  <2> QED BY <2>1, <2>2, <2>3
<1>3. ask'[r] = q /\ \A s \in Calls \ {r} : Aside(s)
  BY <1>2, TurnsAside
<1>4. OffMail(q) /\ ~Stage(r, "scan", "log")
  BY <1>1, <1>2 DEF OffMail, Stage
<1> QED BY <1>1, <1>3, <1>4, OffMailLooksOn

LEMMA OthersMail ==
  ASSUME LinkInv, MailInv, NEW r \in Calls, UNCHANGED <<mails, unlogged, jammed, log, reviews>>,
         ask[r].pc \notin {"idle", "done"}, ask[r].op \notin {"scan", "review"},
         \/ Serves(r)
         \/ \E pc : Advances(r, pc)
         \/ \E l, e : Turns(r, [op |-> "extend", pc |-> "write", link |-> l, expires |-> e])
         \/ \E t \in Tables : Answers(r, t)
  PROVE  MailInv'
<1>1. ~Stage(r, "scan", "log") /\ Posed(ask[r])
  BY DEF Stage, LinkInv
<1>2. CASE \E t \in Tables : Answers(r, t)
  <2>1. PICK q : q = [op |-> ask[r].op, pc |-> "answer"]
    OBVIOUS
  <2>2. ask'[r] = q /\ \A s \in Calls \ {r} : Aside(s)
    BY <1>2, <2>1, AnswersAside
  <2>3. OffMail(q)
    BY <2>1 DEF OffMail
  <2> QED BY <1>1, <2>2, <2>3, OffMailLooksOn
<1>3. CASE \E q : Turns(r, q) /\ OffMail(q)
  <2>1. PICK q : Turns(r, q) /\ OffMail(q)
    BY <1>3
  <2>2. ask'[r] = q /\ \A s \in Calls \ {r} : Aside(s)
    BY <2>1, TurnsAside
  <2> QED BY <1>1, <2>1, <2>2, OffMailLooksOn
<1>4. ASSUME NEW pc, Advances(r, pc) PROVE \E q : Turns(r, q) /\ OffMail(q)
  <2>1. PICK q : q = [ask[r] EXCEPT !.pc = pc]
    OBVIOUS
  <2>2. q.op = ask[r].op
    BY <1>1, <2>1 DEF Posed
  <2> QED BY <1>4, <2>1, <2>2 DEF Advances, OffMail
<1>5. ASSUME NEW l, NEW e, Turns(r, [op |-> "extend", pc |-> "write", link |-> l, expires |-> e])
      PROVE  \E q : Turns(r, q) /\ OffMail(q)
  BY <1>5 DEF OffMail
<1>6. ASSUME Serves(r) PROVE \E q : Turns(r, q) /\ OffMail(q)
  BY <1>6 DEF OffMail, Serves, Served
<1> QED BY <1>2, <1>3, <1>4, <1>5, <1>6

LEMMA LinkRequestsMail ==
  ASSUME LinkInv, MailInv, NEW r \in Calls,
         \/ CreateShare(r) \/ FindForRevoke(r) \/ RevokeShare(r)
         \/ FindForRegenerate(r) \/ ReplaceShare(r) \/ FindForExtend(r) \/ UpdateShareExpiry(r)
         \/ ReadLiveShare(r) \/ IncrementViewCount(r) \/ AddComment(r) \/ RateProposal(r)
         \/ ReplyToComment(r)
  PROVE  MailInv'
<1>1. CASE FindForRevoke(r) \/ FindForRegenerate(r) \/ ReadLiveShare(r)
  <2>1. UNCHANGED <<mails, unlogged, jammed, log, reviews>> /\ ask[r].pc = "read"
        /\ ask[r].op \notin {"scan", "review"} /\ (Serves(r) \/ Advances(r, "write"))
    BY <1>1 DEF FindForRevoke, FindForRegenerate, ReadLiveShare, Still, rows, marks, Stage
  <2> QED BY <2>1, OthersMail
<1>2. CASE FindForExtend(r)
  <2>1. UNCHANGED <<mails, unlogged, jammed, log, reviews>> /\ ask[r].pc = "read"
        /\ ask[r].op = "extend"
        /\ \/ Serves(r)
           \/ \E l, e : Turns(r, [op |-> "extend", pc |-> "write", link |-> l, expires |-> e])
    BY <1>2 DEF FindForExtend, rows, Stage
  <2> QED BY <2>1, OthersMail
<1>3. CASE CreateShare(r) \/ RevokeShare(r) \/ RateProposal(r) \/ AddComment(r) \/ ReplyToComment(r)
           \/ IncrementViewCount(r)
  <2>1. UNCHANGED <<mails, unlogged, jammed, log, reviews>> /\ ask[r].pc = "write"
        /\ ask[r].op \notin {"scan", "review"} /\ \E t \in Tables : Answers(r, t)
    BY <1>3 DEF CreateShare, RevokeShare, RateProposal, AddComment, ReplyToComment,
                IncrementViewCount, Wrote, rows, marks, Stage, Tables
  <2> QED BY <2>1, OthersMail
<1>4. CASE ReplaceShare(r) \/ UpdateShareExpiry(r)
  <2>1. UNCHANGED <<mails, unlogged, jammed, log, reviews>> /\ ask[r].pc = "write"
        /\ ask[r].op \notin {"scan", "review"} /\ (Serves(r) \/ \E t \in Tables : Answers(r, t))
    BY <1>4 DEF ReplaceShare, UpdateShareExpiry, Wrote, marks, Stage, Tables
  <2> QED BY <2>1, OthersMail
<1> QED BY <1>1, <1>2, <1>3, <1>4

LEMMA AnswerMail ==
  ASSUME LinkInv, MailInv, NEW r \in Calls, Answer(r) \/ Errs(r) PROVE MailInv'
<1>1. UNCHANGED <<mails, unlogged, jammed, log, reviews>>
  BY DEF Answer, Errs, rows, marks
<1>2. ASSUME ask'[r] = Served, \A s \in Calls \ {r} : Aside(s), ~Stage(r, "scan", "log")
      PROVE  MailInv'
  <2>1. OffMail(Served)
    BY DEF OffMail, Served
  <2> QED BY <1>1, <1>2, <2>1, OffMailLooksOn
<1>3. CASE Answer(r)
  BY <1>2, <1>3, AnswerAside DEF Answer, Stage
<1>4. CASE Errs(r) /\ ask[r].op # "scan"
  BY <1>2, <1>4, ErrsAside DEF Stage
<1>5. CASE Errs(r) /\ ask[r].op = "scan"
  <2>1. Advances(r, "unlock") /\ ask[r].pc \in {"list", "resolve"} /\ Posed(ask[r])
    BY <1>5 DEF Errs, LinkInv
  <2>2. ask'[r] = [ask[r] EXCEPT !.pc = "unlock"] /\ \A s \in Calls \ {r} : Aside(s)
    BY <2>1, TurnsAside DEF Advances
  <2>3. ask'[r].pc = "unlock" /\ ask'[r].op = "scan"
    BY <1>5, <2>1, <2>2 DEF Posed
  <2> QED BY <1>1, <1>5, <2>1, <2>2, <2>3, MailLooksOn DEF InScan, Unlogging, Stage
<1> QED BY <1>3, <1>4, <1>5

LEMMA MailStep == LinkInv /\ MailInv /\ [LinksNext]_linkVars => MailInv'
<1> SUFFICES ASSUME LinkInv, MailInv, [LinksNext]_linkVars PROVE MailInv'
  OBVIOUS
<1>1. ASSUME NEW r \in Calls, AgencyAsks(r) \/ ClientAsks(r) \/ HourStrikes(r) PROVE MailInv'
  BY <1>1, NewAsksMail
<1>2. ASSUME NEW r \in Calls, CacheGet(r) \/ Store(r) \/ \E t \in Tables : FetchTable(r, t)
      PROVE  MailInv'
  BY <1>2, FillsMail
<1>3. ASSUME NEW r \in Calls,
             \/ CreateShare(r) \/ FindForRevoke(r) \/ RevokeShare(r)
             \/ FindForRegenerate(r) \/ ReplaceShare(r) \/ FindForExtend(r) \/ UpdateShareExpiry(r)
             \/ ReadLiveShare(r) \/ IncrementViewCount(r) \/ AddComment(r) \/ RateProposal(r)
             \/ ReplyToComment(r)
      PROVE  MailInv'
  BY <1>3, LinkRequestsMail
<1>4. ASSUME NEW r \in Calls, Answer(r) \/ Errs(r) PROVE MailInv'
  BY <1>4, AnswerMail
<1>5. ASSUME NEW r \in Calls, FindReview(r) \/ CreateReview(r) PROVE MailInv'
  BY <1>5, ReviewAsked, ReviewMade
<1>6. ASSUME NEW r \in Calls,
             \/ TryAdvisoryLock(r) \/ ListTrips(r) \/ ResolveRecipientEmail(r)
             \/ SendTripReviewEmail(r) \/ CreateLog(r) \/ AdvisoryUnlock(r)
      PROVE  MailInv'
  BY <1>6, ScanTakesLock, ScanGoesOn, ScanMails, ScanLogs
<1>7. CASE LinkTick \/ UNCHANGED linkVars
  <2>1. UNCHANGED <<ask, mails, unlogged, jammed, log, reviews>>
    BY <1>7 DEF LinkTick, linkVars, rows, marks
  <2> QED BY <2>1 DEF MailInv, OneScan, MailsCounted, OneReview, InScan, Unlogging, Stage
<1>8. CASE Crash
  BY <1>8, CrashMails
<1> QED BY <1>1, <1>2, <1>3, <1>4, <1>5, <1>6, <1>7, <1>8 DEF LinksNext

(* reviewScheduler.ts runReviewScanOnce, reviewService.ts submitTripReview - *)
(* as long as no two scans got the lock over one connection and no two       *)
(* reviews were sent at once, the client is asked once more only for a mail  *)
(* whose log row was not written, whatever fails or crashes in between, and  *)
(* the trip has one review.                                                  *)
THEOREM AskedTheorem == LinksSpec => []AskedAndAnsweredOnce
<1>1. LinksInit => MailInv
  <2> SUFFICES ASSUME LinksInit PROVE MailInv
    OBVIOUS
  <2>1. \A s \in Calls : ask[s].pc = "idle"
    BY DEF LinksInit, NotAsked
  <2>2. \A s \in Calls : ~InScan(s) /\ ~Unlogging(s) /\ ~Stage(s, "review", "write")
    BY <2>1 DEF InScan, Unlogging, Stage
  <2>3. mails = 0 /\ unlogged = 0 /\ log = FALSE /\ reviews = 0 /\ jammed = FALSE
    BY DEF LinksInit
  <2>4. MailsCounted
    <3>1. mails \in Nat /\ unlogged \in Nat /\ mails <= unlogged + 1 /\ mails <= unlogged
      BY <2>3
    <3>2. log \in BOOLEAN
      BY <2>3
    <3> QED BY <2>2, <3>1, <3>2 DEF MailsCounted
  <2>5. OneScan /\ OneReview
    BY <2>2, <2>3 DEF OneScan, OneReview
  <2> QED BY <2>3, <2>4, <2>5 DEF MailInv
<1>2. MailInv => AskedAndAnsweredOnce
  BY DEF MailInv, MailsCounted, OneReview, AskedAndAnsweredOnce
<1>3. LinksSpec => []MailInv
  BY <1>1, MailStep, LinkInvTheorem, PTL DEF LinksSpec
<1> QED BY <1>2, <1>3, PTL


-----------------------------------------------------------------------------
(* The caches.  First what is left of a sequence.                            *)

(* Every non-empty set of natural numbers has a least element.               *)
LEMMA LeastOf ==
  ASSUME NEW T, T \subseteq Nat, T # {} PROVE \E n \in T : \A m \in T : n <= m
<1>1. PICK n \in T : \A m \in T : <<m, n>> \notin OpToRel(<, Nat)
  BY NatLessThanWellFounded, WFMin
<1>2. ASSUME NEW m \in T PROVE n <= m
  <2>1. m \in Nat /\ n \in Nat
    BY <1>1
  <2>2. ~(m < n)
    BY <1>1, <2>1 DEF OpToRel
  <2> QED BY <2>1, <2>2
<1> QED BY <1>1, <1>2

(* The recursive function of Keeping exists.                                 *)
IsKept(f, s, P, m) ==
  f = [n \in 0..m |-> IF n = 0 THEN <<>>
                      ELSE IF n \in P THEN Append(f[n - 1], s[n]) ELSE f[n - 1]]

LEMMA KeptExists ==
  ASSUME NEW s, NEW P, NEW N \in Nat PROVE \E f : IsKept(f, s, P, N)
<1> USE DEF IsKept
<1> DEFINE Is(f, m) == IsKept(f, s, P, m)
           T == {m \in Nat : ~\E f : Is(f, m)}
<1>1. SUFFICES ASSUME T # {} PROVE FALSE
  OBVIOUS
<1>2. PICK m \in T : \A k \in T : m <= k
  BY <1>1, LeastOf
<1>3. m # 0
  <2>1. Is([n \in 0..0 |-> <<>>], 0)
    OBVIOUS
  <2> QED BY <1>2, <2>1
<1>4. m \in Nat /\ m - 1 \in Nat /\ ~(m <= m - 1)
  BY <1>2, <1>3
<1>5. m - 1 \notin T
  BY <1>2, <1>4
<1>6. PICK f : Is(f, m - 1)
  BY <1>4, <1>5
<1>7. PICK g : g = [n \in 0..m |-> IF n < m THEN f[n]
                                   ELSE IF m \in P THEN Append(f[m - 1], s[m]) ELSE f[m - 1]]
  OBVIOUS
<1>8. DOMAIN g = 0..m /\ g = [n \in 0..m |-> g[n]]
  BY <1>7
<1>9. ASSUME NEW n \in 0..m
      PROVE  g[n] = IF n = 0 THEN <<>> ELSE IF n \in P THEN Append(g[n - 1], s[n]) ELSE g[n - 1]
  <2>1. CASE n < m
    <3>1. n \in 0..(m - 1) /\ g[n] = f[n]
      BY <1>4, <1>7, <1>9, <2>1
    <3>2. n # 0 => n - 1 \in 0..m /\ g[n - 1] = f[n - 1]
      BY <1>4, <1>7, <1>9, <2>1
    <3>3. f[n] = IF n = 0 THEN <<>> ELSE IF n \in P THEN Append(f[n - 1], s[n]) ELSE f[n - 1]
      BY <1>6, <3>1
    <3> QED BY <3>1, <3>2, <3>3
  <2>2. CASE n = m
    <3>1. g[m - 1] = f[m - 1] /\ g[m] = IF m \in P THEN Append(f[m - 1], s[m]) ELSE f[m - 1]
      BY <1>4, <1>7
    <3> QED BY <1>3, <2>2, <3>1
  <2> QED BY <1>4, <1>9, <2>1, <2>2
<1>10. Is(g, m)
  BY <1>8, <1>9
<1> QED BY <1>2, <1>10

(* What is left of a sequence are elements of it, at the positions kept.     *)
LEMMA KeepingIsPart ==
  ASSUME NEW S, NEW s \in Seq(S), NEW P, NEW E, \A j \in DOMAIN s : j \in P => s[j] \in E
  PROVE  Keeping(s, P) \in Seq(E)
<1> DEFINE N == Len(s)
<1>1. N \in Nat /\ DOMAIN s = 1..N
  OBVIOUS
<1> HIDE DEF N
<1>2. PICK f : /\ f = [n \in 0..N |-> IF n = 0 THEN <<>>
                                      ELSE IF n \in P THEN Append(f[n - 1], s[n]) ELSE f[n - 1]]
               /\ Keeping(s, P) = f[N]
  <2>0. \E g : IsKept(g, s, P, N)
    BY <1>1, KeptExists
  <2>1. \E g : g = [n \in 0..N |-> IF n = 0 THEN <<>>
                                   ELSE IF n \in P THEN Append(g[n - 1], s[n]) ELSE g[n - 1]]
    BY <2>0 DEF IsKept
  <2> DEFINE f == CHOOSE f : f = [n \in 0..N |-> IF n = 0 THEN <<>>
                                  ELSE IF n \in P THEN Append(f[n - 1], s[n]) ELSE f[n - 1]]
  <2>2. f = [n \in 0..N |-> IF n = 0 THEN <<>>
                            ELSE IF n \in P THEN Append(f[n - 1], s[n]) ELSE f[n - 1]]
    BY <2>1
  <2>3. Keeping(s, P) = f[N]
    BY DEF Keeping, N
  <2> QED BY <2>2, <2>3
<1> DEFINE T == {n \in 0..N : f[n] \notin Seq(E)}
<1>3. T = {}
  <2>1. SUFFICES ASSUME T # {} PROVE FALSE
    OBVIOUS
  <2>2. T \subseteq Nat
    BY <1>1
  <2>3. PICK n \in T : \A k \in T : n <= k
    BY <2>1, <2>2, LeastOf
  <2>4. n \in 0..N /\ n # 0 /\ n - 1 \in 0..N /\ ~(n <= n - 1) /\ n \in 1..N
    <3>1. f[0] = <<>> /\ <<>> \in Seq(E)
      BY <1>1, <1>2
    <3>2. n # 0
      BY <2>3, <3>1
    <3> QED BY <1>1, <2>3, <3>2
  <2>5. f[n - 1] \in Seq(E)
    BY <2>3, <2>4
  <2>6. f[n] = IF n \in P THEN Append(f[n - 1], s[n]) ELSE f[n - 1]
    BY <1>2, <2>4
  <2>7. n \in P => s[n] \in E
    BY <1>1, <2>4
  <2>8. f[n] \in Seq(E)
    <3>1. CASE n \in P
      <4>1. f[n] = Append(f[n - 1], s[n]) /\ s[n] \in E
        BY <2>6, <2>7, <3>1
      <4> QED BY <2>5, <4>1, AppendProperties
    <3>2. CASE n \notin P
      BY <2>5, <2>6, <3>2
    <3> QED BY <3>1, <3>2
  <2> QED BY <2>3, <2>8
<1>4. N \in 0..N
  BY <1>1
<1> QED BY <1>2, <1>3, <1>4


(* What the caches hold and what fills are about to store.                   *)
Data == [read : SUBSET Tables, missed : SUBSET Calls, stale : BOOLEAN]
CacheEntry == [key : Keys, data : Data, until : Nat]
Fresh == {e \in CacheEntry : e.key \in OwnKeys => ~e.data.stale}
Foreign == {e \in CacheEntry : e.key \notin OwnKeys}
Fill ==
  [op : {"fill"}, pc : {"fetch"}, cache : Caches, key : Keys, generation : Nat, data : Data]

\* A fill that may be stored has missed nothing that was answered.
FillFits(q) ==
  /\ q.pc = "get" => q.cache \in Caches /\ q.key \in Keys
  /\ q.pc = "fetch" =>
       /\ q \in Fill
       /\ q.generation <= generation[q.cache]
       /\ q.data.stale => q.generation < generation[q.cache]

CacheInv ==
  /\ cache \in [Caches -> Seq(Fresh)] /\ generation \in [Caches -> Nat]
  /\ \A s \in Calls : FillFits(ask[s])

LEMMA SetEntryFresh ==
  ASSUME LinkInv, NEW s \in Seq(Fresh), NEW k \in Keys, NEW v \in Data, k \in OwnKeys => ~v.stale
  PROVE  SetEntry(s, k, v) \in Seq(Fresh)
<1>1. PICK e : e = [key |-> k, data |-> v, until |-> clock + Ttl]
  OBVIOUS
<1>2. e \in Fresh
  <2>1. clock + Ttl \in Nat
    BY LinkConstants DEF LinkInv, LinkRows
  <2> QED BY <1>1, <2>1 DEF CacheEntry, Fresh
<1>3. \A j \in DOMAIN s : s[j] \in Fresh
  OBVIOUS
<1>4. \A P : Keeping(s, P) \in Seq(Fresh)
  BY <1>3, KeepingIsPart
<1>5. Dropping(s, {k}) \in Seq(Fresh)
  BY <1>4 DEF Dropping
<1>6. MakeRoom(s) \in Seq(Fresh)
  <2>1. PICK u : u = Keeping(s, {i \in DOMAIN s : s[i].until > clock})
    OBVIOUS
  <2>2. u \in Seq(Fresh)
    BY <1>4, <2>1
  <2>3. PICK n : n = Len(u) - (MaxEntries - 1)
    OBVIOUS
  <2>4. MakeRoom(s) = IF n > 0 THEN SubSeq(u, n + 1, Len(u)) ELSE u
    BY <2>1, <2>3 DEF MakeRoom
  <2>5. ASSUME n > 0 PROVE SubSeq(u, n + 1, Len(u)) \in Seq(Fresh)
    <3>1. Len(u) \in Nat /\ n \in Int /\ DOMAIN u = 1..Len(u)
      BY <2>2, <2>3, LinkConstants
    <3>2. \A i \in (n + 1)..Len(u) : u[i] \in Fresh
      BY <2>2, <2>5, <3>1
    <3> QED BY <2>2, <3>1, <3>2, SubSeqProperties
  <2> QED BY <2>2, <2>4, <2>5
<1>7. PICK room \in Seq(Fresh) : SetEntry(s, k, v) = Append(room, e)
  BY <1>1, <1>5, <1>6 DEF SetEntry
<1> QED BY <1>2, <1>7, AppendProperties

Mapped(s, f) == [i \in DOMAIN s |-> [s[i] EXCEPT !.data = f[s[i].data]]]

LEMMA MappedSeq ==
  ASSUME NEW S, NEW s \in Seq(S), NEW T, NEW f,
         \A e \in S : [e EXCEPT !.data = f[e.data]] \in T
  PROVE  Mapped(s, f) \in Seq(T)
<1>1. PICK n \in Nat : DOMAIN s = 1..n /\ \A i \in 1..n : s[i] \in S
  BY LenProperties, ElementOfSeq
<1>2. PICK m : m = Mapped(s, f)
  OBVIOUS
<1>3. m \in [1..n -> T]
  BY <1>1, <1>2 DEF Mapped
<1>4. m \in Seq(T)
  BY <1>1, <1>3, SeqDef
<1> QED BY <1>2, <1>4

LEMMA MappedFresh ==
  ASSUME NEW s \in Seq(Fresh), NEW f \in [Data -> Data], \A d \in Data : f[d].stale = d.stale
  PROVE  Mapped(s, f) \in Seq(Fresh)
<1>1. ASSUME NEW e \in Fresh PROVE [e EXCEPT !.data = f[e.data]] \in Fresh
  <2>1. e \in CacheEntry /\ e.data \in Data /\ f[e.data] \in Data
    BY DEF Fresh, CacheEntry
  <2>2. PICK x : x = [e EXCEPT !.data = f[e.data]]
    OBVIOUS
  <2>3. x \in CacheEntry /\ x.key = e.key /\ x.data = f[e.data]
    BY <2>1, <2>2 DEF CacheEntry
  <2> QED BY <1>1, <2>1, <2>2, <2>3 DEF Fresh
<1> QED BY <1>1, MappedSeq

LEMMA MappedForeign ==
  ASSUME NEW s \in Seq(Foreign), NEW f \in [Data -> Data]
  PROVE  Mapped(s, f) \in Seq(Fresh)
<1>1. ASSUME NEW e \in Foreign PROVE [e EXCEPT !.data = f[e.data]] \in Fresh
  <2>1. e \in CacheEntry /\ e.data \in Data /\ f[e.data] \in Data
    BY DEF Foreign, CacheEntry
  <2>2. PICK x : x = [e EXCEPT !.data = f[e.data]]
    OBVIOUS
  <2>3. x \in CacheEntry /\ x.key = e.key /\ x.data = f[e.data]
    BY <2>1, <2>2 DEF CacheEntry
  <2> QED BY <1>1, <2>1, <2>2, <2>3 DEF Fresh, Foreign
<1> QED BY <1>1, MappedSeq

(* Another request's change of what a fill has read.                         *)
LEMMA FillMapped ==
  ASSUME NEW q \in Fill, NEW f \in [Data -> Data], NEW p, p = [q EXCEPT !.data = f[q.data]]
  PROVE  /\ p \in Fill /\ p.pc = "fetch" /\ p.cache = q.cache /\ p.generation = q.generation
         /\ p.data = f[q.data]
<1>1. q.data \in Data /\ f[q.data] \in Data
  BY DEF Fill
<1> QED BY <1>1 DEF Fill

(* A step of r that leaves the other requests alone and invalidates nothing. *)
LEMMA CacheTurns ==
  ASSUME LinkInv, CacheInv, NEW r \in Calls, NEW q, Turns(r, q), FillFits(q),
         UNCHANGED generation, cache' \in [Caches -> Seq(Fresh)]
  PROVE  CacheInv'
<1>1. FillFits(q)'
  BY DEF FillFits
<1>2. ask'[r] = q /\ \A s \in Calls \ {r} : ask'[s] = ask[s]
  BY DEF LinkInv, Turns
<1>3. ASSUME NEW s \in Calls PROVE FillFits(ask[s])'
  <2>1. CASE s = r
    BY <1>1, <1>2, <2>1 DEF FillFits
  <2>2. CASE s # r
    BY <1>2, <2>2 DEF CacheInv, FillFits
  <2> QED BY <2>1, <2>2
<1> QED BY <1>3 DEF CacheInv

\* A request that does not fill, or has yet to look.
Unfilled(q) == q.pc \notin {"get", "fetch"}

LEMMA CacheAdvances ==
  ASSUME LinkInv, CacheInv, NEW r \in Calls, UNCHANGED memory, ask[r].pc \notin {"idle", "done"},
         \/ Serves(r)
         \/ \E pc : pc \notin {"get", "fetch"} /\ Advances(r, pc)
  PROVE  CacheInv'
<1>1. PICK q : Turns(r, q) /\ Unfilled(q)
  <2>1. ASSUME NEW pc, pc \notin {"get", "fetch"}, Advances(r, pc)
        PROVE  \E q : Turns(r, q) /\ Unfilled(q)
    <3>1. PICK q : q = [ask[r] EXCEPT !.pc = pc]
      OBVIOUS
    <3>2. q.pc = pc
      BY <3>1 DEF LinkInv, Posed
    <3> QED BY <2>1, <3>1, <3>2 DEF Advances, Unfilled
  <2> QED BY <2>1 DEF Serves, Served, Unfilled
<1>2. FillFits(q)
  BY <1>1 DEF Unfilled, FillFits
<1> QED BY <1>1, <1>2, CacheTurns DEF memory, CacheInv

LEMMA CacheGetKeeps ==
  ASSUME LinkInv, CacheInv, NEW r \in Calls, CacheGet(r) PROVE CacheInv'
<1>1. PICK c \in Caches, k \in Keys : c = ask[r].cache /\ k = ask[r].key
  BY DEF CacheGet, Stage, CacheInv, FillFits
<1>2. cache[c] \in Seq(Fresh) /\ generation[c] \in Nat /\ UNCHANGED generation
  BY DEF CacheInv, CacheGet
<1>3. Dropping(cache[c], {k}) \in Seq(Fresh)
  BY <1>2, KeepingIsPart DEF Dropping
<1>4. PICK v \in Seq(Fresh) : cache' = [cache EXCEPT ![c] = v]
  BY <1>1, <1>2, <1>3 DEF CacheGet
<1>5. cache' \in [Caches -> Seq(Fresh)]
  BY <1>4 DEF CacheInv
<1>6. Serves(r) \/ Turns(r, FillBegins(c, k))
  BY <1>1 DEF CacheGet
<1>7. CASE Serves(r)
  <2>1. FillFits(Served)
    BY DEF FillFits, Served
  <2> QED BY <1>2, <1>5, <1>7, <2>1, CacheTurns DEF Serves
<1>8. CASE Turns(r, FillBegins(c, k))
  <2>1. PICK q : q = FillBegins(c, k)
    OBVIOUS
  <2>2. Nothing \in Data /\ Nothing.stale = FALSE
    BY DEF Nothing, Data
  <2>3. q \in Fill /\ q.pc = "fetch" /\ q.cache = c /\ q.generation = generation[c] /\ q.data = Nothing
    BY <1>2, <2>1, <2>2 DEF FillBegins, Fill
  <2>4. FillFits(q)
    BY <1>2, <2>2, <2>3 DEF FillFits
  <2> QED BY <1>2, <1>5, <1>8, <2>1, <2>4, CacheTurns
<1> QED BY <1>6, <1>7, <1>8

LEMMA FetchKeeps ==
  ASSUME LinkInv, CacheInv, NEW r \in Calls, NEW t \in Tables, FetchTable(r, t) PROVE CacheInv'
<1>1. PICK q : q = [ask[r] EXCEPT !.data.read = @ \union {t}]
  OBVIOUS
<1>2. PICK p \in Fill : p = ask[r]
  BY DEF FetchTable, Stage, CacheInv, FillFits
<1>3. PICK d \in Data : d = [p.data EXCEPT !.read = @ \union {t}] /\ d.stale = p.data.stale
  <2>1. p.data \in Data
    BY DEF Fill
  <2>2. PICK d : d = [p.data EXCEPT !.read = @ \union {t}]
    OBVIOUS
  <2>3. d = [p.data EXCEPT !.read = p.data.read \union {t}] /\ p.data.read \union {t} \in SUBSET Tables
    BY <2>1, <2>2 DEF Data
  <2>4. d \in Data /\ d.stale = p.data.stale
    BY <2>1, <2>3 DEF Data
  <2> QED BY <2>2, <2>4
<1>4. q = [p EXCEPT !.data = d]
  BY <1>1, <1>2, <1>3 DEF Fill
<1>5. q \in Fill /\ q.pc = "fetch" /\ q.cache = p.cache /\ q.generation = p.generation /\ q.data = d
  BY <1>2, <1>4 DEF Fill
<1>6. p.generation <= generation[p.cache] /\ (p.data.stale => p.generation < generation[p.cache])
  BY <1>2 DEF FetchTable, Stage, CacheInv, FillFits
<1>7. FillFits(q)
  BY <1>3, <1>5, <1>6 DEF FillFits
<1>8. UNCHANGED memory /\ Turns(r, q)
  BY <1>1 DEF FetchTable, Still
<1> QED BY <1>7, <1>8, CacheTurns DEF memory, CacheInv

LEMMA StoreKeeps ==
  ASSUME LinkInv, CacheInv, NEW r \in Calls, Store(r) PROVE CacheInv'
<1>1. PICK p \in Fill : p = ask[r]
  BY DEF Store, Stage, CacheInv, FillFits
<1>2. PICK c \in Caches, k \in Keys, g \in Nat, d \in Data :
        c = p.cache /\ k = p.key /\ g = p.generation /\ d = p.data
  BY DEF Fill
<1>3. d.stale => g < generation[c]
  BY <1>1, <1>2 DEF Store, Stage, CacheInv, FillFits
<1>4. cache[c] \in Seq(Fresh) /\ generation[c] \in Nat
  BY DEF CacheInv
<1>5. ASSUME g = generation[c] PROVE SetEntry(cache[c], k, d) \in Seq(Fresh)
  <2>1. ~d.stale
    BY <1>3, <1>4, <1>5
  <2> QED BY <1>4, <2>1, SetEntryFresh
<1>6. PICK v \in Seq(Fresh) : cache' = [cache EXCEPT ![c] = v]
  BY <1>1, <1>2, <1>4, <1>5 DEF Store, SetIfCurrent
<1>7. cache' \in [Caches -> Seq(Fresh)]
  BY <1>6 DEF CacheInv
<1>8. FillFits(Served) /\ Turns(r, Served) /\ UNCHANGED generation
  BY DEF FillFits, Served, Store, Serves
<1> QED BY <1>7, <1>8, CacheTurns

(* A step that changes what fills and entries know of a change.              *)
FillsLearn(r, q, f) ==
  LET fills == {s \in Calls \ {r} : ask[s].pc = "fetch"}
  IN  ask' = [s \in Calls |-> IF s = r THEN q
                              ELSE IF s \in fills THEN [ask[s] EXCEPT !.data = f[ask[s].data]]
                              ELSE ask[s]]
NothingNew(f) == UNCHANGED generation /\ \A d \in Data : f[d].stale = d.stale
Invalidated == \A c \in Caches : generation'[c] = generation[c] + 1

LEMMA CacheLearns ==
  ASSUME CacheInv, NEW r \in Calls, NEW q, Unfilled(q), NEW f \in [Data -> Data],
         FillsLearn(r, q, f), NothingNew(f) \/ Invalidated,
         cache' \in [Caches -> Seq(Fresh)], generation' \in [Caches -> Nat]
  PROVE  CacheInv'
<1>0. PICK fills : /\ fills = {s \in Calls \ {r} : ask[s].pc = "fetch"}
                   /\ ask' = [s \in Calls |->
                                IF s = r THEN q
                                ELSE IF s \in fills THEN [ask[s] EXCEPT !.data = f[ask[s].data]]
                                ELSE ask[s]]
  BY DEF FillsLearn
<1>1. ASSUME NEW s \in Calls PROVE FillFits(ask[s])'
  <2>1. CASE s = r
    BY <1>0, <2>1 DEF FillFits, Unfilled
  <2>2. CASE s # r /\ s \in fills
    <3>1. PICK p \in Fill : p = ask[s]
      BY <1>0, <2>2 DEF CacheInv, FillFits
    <3>2. PICK x : x = [p EXCEPT !.data = f[p.data]]
      OBVIOUS
    <3>3. x \in Fill /\ x.pc = "fetch" /\ x.cache = p.cache /\ x.generation = p.generation
          /\ x.data = f[p.data]
      BY <3>2, FillMapped
    <3>4. ask'[s] = x
      BY <1>0, <2>2, <3>1, <3>2
    <3>5. p.generation <= generation[p.cache] /\ (p.data.stale => p.generation < generation[p.cache])
      BY <1>0, <2>2, <3>1 DEF CacheInv, FillFits
    <3>6. PICK c \in Caches, g \in Nat : c = p.cache /\ g = p.generation
      BY DEF Fill
    <3>7. p.data \in Data /\ generation[c] \in Nat
      BY DEF Fill, CacheInv
    <3>8. g <= generation'[c]
      BY <3>5, <3>6, <3>7 DEF NothingNew, Invalidated
    <3>9. f[p.data].stale => g < generation'[c]
      <4>1. CASE NothingNew(f)
        BY <3>5, <3>6, <3>7, <4>1 DEF NothingNew
      <4>2. CASE Invalidated
        BY <3>5, <3>6, <3>7, <4>2 DEF Invalidated
      <4> QED BY <4>1, <4>2
    <3> QED BY <3>3, <3>4, <3>6, <3>8, <3>9 DEF FillFits
  <2>3. CASE s # r /\ s \notin fills
    <3>1. ask'[s] = ask[s] /\ ask[s].pc # "fetch"
      BY <1>0, <2>3
    <3> QED BY <3>1 DEF CacheInv, FillFits
  <2> QED BY <2>1, <2>2, <2>3
<1> QED BY <1>1 DEF CacheInv

LEMMA AnswersKeep ==
  ASSUME LinkInv, CacheInv, NEW r \in Calls, NEW t \in Tables, Answers(r, t), UNCHANGED generation
  PROVE  CacheInv'
<1>1. PICK f : f = [d \in Data |-> Misses(d, r, t)]
  OBVIOUS
<1>2. f \in [Data -> Data] /\ \A d \in Data : f[d] = Misses(d, r, t) /\ f[d].stale = d.stale
  <2>1. ASSUME NEW d \in Data PROVE Misses(d, r, t) \in Data /\ Misses(d, r, t).stale = d.stale
    <3>1. PICK e : e = [d EXCEPT !.missed = d.missed \union {r}]
      OBVIOUS
    <3>2. e \in Data /\ e.stale = d.stale
      BY <3>1 DEF Data
    <3> QED BY <3>1, <3>2 DEF Misses
  <2> QED BY <1>1, <2>1
<1>3. PICK fills : fills = {s \in Calls \ {r} : ask[s].pc = "fetch"}
  OBVIOUS
<1>4. \A s \in fills : ask[s] \in Fill /\ ask[s].data \in Data
  BY <1>3 DEF CacheInv, FillFits, Fill
<1>5. PICK q : q = [op |-> ask[r].op, pc |-> "answer"]
  OBVIOUS
<1>6. ask' = [s \in Calls |->
                IF s = r THEN q
                ELSE IF ask[s].pc = "fetch" THEN [ask[s] EXCEPT !.data = Misses(ask[s].data, r, t)]
                ELSE ask[s]]
  BY <1>5 DEF Answers, Requested, Filling
<1>7. ask' = [s \in Calls |-> IF s = r THEN q
                              ELSE IF s \in fills THEN [ask[s] EXCEPT !.data = f[ask[s].data]]
                              ELSE ask[s]]
  BY <1>2, <1>3, <1>4, <1>6
<1>8. ASSUME NEW c \in Caches PROVE cache'[c] = Mapped(cache[c], f)
  <2>1. cache'[c] = [i \in DOMAIN cache[c] |->
                       [cache[c][i] EXCEPT !.data = Misses(cache[c][i].data, r, t)]]
    BY <1>8 DEF Answers, Entries
  <2>2. \A i \in DOMAIN cache[c] : cache[c][i].data \in Data
    <3>1. cache[c] \in Seq(Fresh)
      BY <1>8 DEF CacheInv
    <3> QED BY <3>1 DEF Fresh, CacheEntry
  <2> QED BY <1>2, <2>1, <2>2 DEF Mapped
<1>9. cache' \in [Caches -> Seq(Fresh)]
  <2>1. DOMAIN cache' = Caches /\ cache' = [c \in Caches |-> cache'[c]]
    BY DEF Answers
  <2>2. \A c \in Caches : cache'[c] \in Seq(Fresh)
    BY <1>2, <1>8, MappedFresh DEF CacheInv
  <2> QED BY <2>1, <2>2
<1>10. Unfilled(q) /\ generation' \in [Caches -> Nat]
  BY <1>5 DEF Unfilled, CacheInv
<1>11. FillsLearn(r, q, f)
  BY <1>3, <1>7 DEF FillsLearn
<1>12. NothingNew(f)
  BY <1>2 DEF NothingNew
<1> QED BY <1>2, <1>9, <1>10, <1>11, <1>12, CacheLearns

LEMMA ErrsKeep ==
  ASSUME LinkInv, CacheInv, NEW r \in Calls, Errs(r) PROVE CacheInv'
<1>0. CASE ask[r].op = "scan"
  <2>1. Advances(r, "unlock") /\ UNCHANGED memory /\ ask[r].pc \in {"list", "resolve"}
    BY <1>0 DEF Errs, memory
  <2> QED BY <2>1, CacheAdvances
<1>u. CASE ask[r].op # "scan"
  <2>1. PICK f : f = [d \in Data |-> Forgets(d, r)]
    OBVIOUS
  <2>2. f \in [Data -> Data] /\ \A d \in Data : f[d] = Forgets(d, r) /\ f[d].stale = d.stale
    <3>1. ASSUME NEW d \in Data PROVE Forgets(d, r) \in Data /\ Forgets(d, r).stale = d.stale
      <4>1. PICK e : e = [d EXCEPT !.missed = d.missed \ {r}]
        OBVIOUS
      <4>2. e \in Data /\ e.stale = d.stale
        BY <4>1 DEF Data
      <4>3. e = Forgets(d, r)
        BY <4>1 DEF Forgets, Data
      <4> QED BY <4>2, <4>3
    <3> QED BY <2>1, <3>1
  <2>3. PICK fills : fills = {s \in Calls \ {r} : ask[s].pc = "fetch"}
    OBVIOUS
  <2>4. \A s \in fills : ask[s] \in Fill /\ ask[s].data \in Data
    BY <2>3 DEF CacheInv, FillFits, Fill
  <2>5. ask' = [s \in Calls |->
                  IF s = r THEN Served
                  ELSE IF ask[s].pc = "fetch" THEN [ask[s] EXCEPT !.data = Forgets(ask[s].data, r)]
                  ELSE ask[s]]
    BY <1>u DEF Errs, Requested, Filling
  <2>6. ask' = [s \in Calls |-> IF s = r THEN Served
                                ELSE IF s \in fills THEN [ask[s] EXCEPT !.data = f[ask[s].data]]
                                ELSE ask[s]]
    BY <2>2, <2>3, <2>4, <2>5
  <2>7. ASSUME NEW c \in Caches PROVE cache'[c] = Mapped(cache[c], f)
    <3>1. cache'[c] = [i \in DOMAIN cache[c] |->
                         [cache[c][i] EXCEPT !.data = Forgets(cache[c][i].data, r)]]
      BY <1>u, <2>7 DEF Errs, Entries
    <3>2. \A i \in DOMAIN cache[c] : cache[c][i].data \in Data
      <4>1. cache[c] \in Seq(Fresh)
        BY <2>7 DEF CacheInv
      <4> QED BY <4>1 DEF Fresh, CacheEntry
    <3> QED BY <2>2, <3>1, <3>2 DEF Mapped
  <2>8. cache' \in [Caches -> Seq(Fresh)]
    <3>1. DOMAIN cache' = Caches /\ cache' = [c \in Caches |-> cache'[c]]
      BY <1>u DEF Errs
    <3>2. \A c \in Caches : cache'[c] \in Seq(Fresh)
      BY <2>2, <2>7, MappedFresh DEF CacheInv
    <3> QED BY <3>1, <3>2
  <2>9. Unfilled(Served) /\ UNCHANGED generation /\ generation' \in [Caches -> Nat]
    BY DEF Unfilled, Served, CacheInv, Errs
  <2>10. FillsLearn(r, Served, f)
    BY <2>3, <2>6 DEF FillsLearn
  <2>11. NothingNew(f)
    BY <2>2, <2>9 DEF NothingNew
  <2> QED BY <2>2, <2>8, <2>9, <2>10, <2>11, CacheLearns
<1> QED BY <1>0, <1>u

LEMMA AnswerKeeps ==
  ASSUME LinkInv, CacheInv, NEW r \in Calls, Answer(r) PROVE CacheInv'
<1>1. PICK f : f = [d \in Data |-> Learns(d, r)]
  OBVIOUS
<1>2. f \in [Data -> Data] /\ \A d \in Data : f[d] = Learns(d, r)
  <2>1. ASSUME NEW d \in Data PROVE Learns(d, r) \in Data
    <3>1. PICK b \in BOOLEAN : b = (d.stale \/ r \in d.missed)
      BY DEF Data
    <3>2. PICK e : e = [d EXCEPT !.stale = b, !.missed = d.missed \ {r}]
      OBVIOUS
    <3>3. e \in Data
      BY <3>1, <3>2 DEF Data
    <3>4. e = Learns(d, r)
      BY <3>1, <3>2 DEF Learns, Data
    <3> QED BY <3>3, <3>4
  <2> QED BY <1>1, <2>1
<1>3. PICK fills : fills = {s \in Calls \ {r} : ask[s].pc = "fetch"}
  OBVIOUS
<1>4. \A s \in fills : ask[s] \in Fill /\ ask[s].data \in Data
  BY <1>3 DEF CacheInv, FillFits, Fill
<1>5. ask' = [s \in Calls |->
                IF s = r THEN Served
                ELSE IF ask[s].pc = "fetch" THEN [ask[s] EXCEPT !.data = Learns(ask[s].data, r)]
                ELSE ask[s]]
  BY DEF Answer, Requested, Filling
<1>6. ask' = [s \in Calls |-> IF s = r THEN Served
                              ELSE IF s \in fills THEN [ask[s] EXCEPT !.data = f[ask[s].data]]
                              ELSE ask[s]]
  BY <1>2, <1>3, <1>4, <1>5
<1>7. ASSUME NEW c \in Caches PROVE cache'[c] \in Seq(Fresh)
  <2>1. PICK s : s = Dropping(cache[c], OwnKeys)
    OBVIOUS
  <2>2. s \in Seq(Foreign)
    <3>1. PICK old \in Seq(Fresh) : old = cache[c]
      BY <1>7 DEF CacheInv
    <3>2. PICK P : P = {i \in DOMAIN old : old[i].key \notin OwnKeys}
      OBVIOUS
    <3>3. \A j \in DOMAIN old : j \in P => old[j] \in Foreign
      BY <3>2 DEF Foreign, Fresh
    <3>4. Keeping(old, P) \in Seq(Foreign)
      BY <3>3, KeepingIsPart
    <3> QED BY <2>1, <3>1, <3>2, <3>4 DEF Dropping
  <2>3. cache'[c] = [i \in DOMAIN s |-> [s[i] EXCEPT !.data = Learns(s[i].data, r)]]
    BY <1>7, <2>1 DEF Answer, InvalidateAgencyDashboards, Entries
  <2>4. \A i \in DOMAIN s : s[i].data \in Data
    BY <2>2 DEF Foreign, CacheEntry
  <2>5. cache'[c] = Mapped(s, f)
    BY <1>2, <2>3, <2>4 DEF Mapped
  <2> QED BY <1>2, <2>2, <2>5, MappedForeign
<1>8. cache' \in [Caches -> Seq(Fresh)]
  <2>1. cache' = [c \in Caches |-> cache'[c]]
    BY DEF Answer, InvalidateAgencyDashboards
  <2> QED BY <1>7, <2>1
<1>9. generation' \in [Caches -> Nat] /\ \A c \in Caches : generation'[c] = generation[c] + 1
  BY DEF Answer, InvalidateAgencyDashboards, CacheInv
<1>10. Unfilled(Served)
  BY DEF Unfilled, Served
<1>11. FillsLearn(r, Served, f)
  BY <1>3, <1>6 DEF FillsLearn
<1>12. Invalidated
  BY <1>9 DEF Invalidated
<1> QED BY <1>2, <1>8, <1>9, <1>10, <1>11, <1>12, CacheLearns

LEMMA NewAsksKeep ==
  ASSUME LinkInv, CacheInv, NEW r \in Calls, AgencyAsks(r) \/ ClientAsks(r) \/ HourStrikes(r)
  PROVE  CacheInv'
<1>1. UNCHANGED generation /\ cache' \in [Caches -> Seq(Fresh)]
  BY DEF AgencyAsks, ClientAsks, HourStrikes, Still, memory, CacheInv
<1>2. ASSUME NEW q, Turns(r, q), FillFits(q) PROVE CacheInv'
  BY <1>1, <1>2, CacheTurns
<1>3. ASSUME NEW e, NEW m, Turns(r, [op |-> "create", pc |-> "write", expires |-> e, mail |-> m])
      PROVE  CacheInv'
  BY <1>2, <1>3 DEF FillFits
<1>4. ASSUME NEW l, NEW op, Turns(r, [op |-> op, pc |-> "read", link |-> l]) PROVE CacheInv'
  BY <1>2, <1>4 DEF FillFits
<1>5. ASSUME NEW l, NEW d, Turns(r, [op |-> "extend", pc |-> "read", link |-> l, days |-> d])
      PROVE  CacheInv'
  BY <1>2, <1>5 DEF FillFits
<1>6. ASSUME NEW c, Turns(r, [op |-> "reply", pc |-> "write", comment |-> c]) PROVE CacheInv'
  BY <1>2, <1>6 DEF FillFits
<1>7. ASSUME NEW c \in Caches, NEW k \in Keys,
             Turns(r, [op |-> "fill", pc |-> "get", cache |-> c, key |-> k])
      PROVE  CacheInv'
  BY <1>2, <1>7 DEF FillFits
<1>8. ASSUME NEW op, NEW pc \in {"read", "lock"}, Turns(r, [op |-> op, pc |-> pc]) PROVE CacheInv'
  BY <1>2, <1>8 DEF FillFits
<1>9. CASE AgencyAsks(r)
  BY <1>3, <1>4, <1>5, <1>6, <1>7, <1>9 DEF AgencyAsks
<1>10. CASE ClientAsks(r)
  BY <1>4, <1>8, <1>10 DEF ClientAsks
<1>11. CASE HourStrikes(r)
  BY <1>8, <1>11 DEF HourStrikes
<1> QED BY <1>9, <1>10, <1>11

LEMMA WritesKeep ==
  ASSUME LinkInv, CacheInv, NEW r \in Calls,
         \/ CreateShare(r) \/ RevokeShare(r) \/ ReplaceShare(r) \/ UpdateShareExpiry(r)
         \/ IncrementViewCount(r) \/ AddComment(r) \/ RateProposal(r) \/ ReplyToComment(r)
         \/ CreateReview(r)
  PROVE  CacheInv'
<1>1. /\ ask[r].pc = "write" /\ UNCHANGED generation
      /\ (\E t \in Tables : Answers(r, t)) \/ (Serves(r) /\ UNCHANGED cache)
  BY DEF CreateShare, RevokeShare, ReplaceShare, UpdateShareExpiry, IncrementViewCount, AddComment,
         RateProposal, ReplyToComment, CreateReview, Wrote, Stage, Tables
<1> QED BY <1>1, AnswersKeep, CacheAdvances DEF memory

LEMMA ReadsKeep ==
  ASSUME LinkInv, CacheInv, NEW r \in Calls,
         \/ FindForRevoke(r) \/ FindForRegenerate(r) \/ ReadLiveShare(r) \/ FindReview(r)
         \/ TryAdvisoryLock(r) \/ ListTrips(r) \/ ResolveRecipientEmail(r)
         \/ SendTripReviewEmail(r) \/ CreateLog(r) \/ AdvisoryUnlock(r)
  PROVE  CacheInv'
<1>1. CASE FindForRevoke(r) \/ FindForRegenerate(r) \/ ReadLiveShare(r) \/ FindReview(r)
  <2>1. UNCHANGED memory /\ ask[r].pc = "read" /\ (Serves(r) \/ Advances(r, "write"))
    BY <1>1 DEF FindForRevoke, FindForRegenerate, ReadLiveShare, FindReview, Still, Stage
  <2> QED BY <2>1, CacheAdvances
<1>2. CASE TryAdvisoryLock(r) \/ AdvisoryUnlock(r) \/ CreateLog(r)
  <2>1. UNCHANGED memory /\ ask[r].pc \in {"lock", "unlock", "log"}
        /\ (Serves(r) \/ Advances(r, "list") \/ Advances(r, "unlock"))
    BY <1>2 DEF TryAdvisoryLock, AdvisoryUnlock, CreateLog, Quietly, Stage
  <2> QED BY <2>1, CacheAdvances
<1>3. CASE ListTrips(r) \/ ResolveRecipientEmail(r) \/ SendTripReviewEmail(r)
  <2>1. UNCHANGED memory /\ ask[r].pc \in {"list", "resolve", "send"}
        /\ \E pc \in {"unlock", "resolve", "send", "log"} : Advances(r, pc)
    BY <1>3 DEF ListTrips, ResolveRecipientEmail, SendTripReviewEmail, Still, Quietly, Stage
  <2> QED BY <2>1, CacheAdvances
<1> QED BY <1>1, <1>2, <1>3

LEMMA ExtendingKeeps ==
  ASSUME LinkInv, CacheInv, NEW r \in Calls, FindForExtend(r) PROVE CacheInv'
<1>1. UNCHANGED memory /\ ask[r].pc = "read"
      /\ \/ Serves(r)
         \/ \E l, e : Turns(r, [op |-> "extend", pc |-> "write", link |-> l, expires |-> e])
  BY DEF FindForExtend, Stage
<1>2. ASSUME NEW l, NEW e, Turns(r, [op |-> "extend", pc |-> "write", link |-> l, expires |-> e])
      PROVE  CacheInv'
  <2>1. PICK q : q = [op |-> "extend", pc |-> "write", link |-> l, expires |-> e]
    OBVIOUS
  <2>2. FillFits(q)
    BY <2>1 DEF FillFits
  <2> QED BY <1>1, <1>2, <2>1, <2>2, CacheTurns DEF memory, CacheInv
<1> QED BY <1>1, <1>2, CacheAdvances

LEMMA CacheStep == LinkInv /\ CacheInv /\ [LinksNext]_linkVars => CacheInv'
<1> SUFFICES ASSUME LinkInv, CacheInv, [LinksNext]_linkVars PROVE CacheInv'
  OBVIOUS
<1>1. ASSUME NEW r \in Calls, AgencyAsks(r) \/ ClientAsks(r) \/ HourStrikes(r) PROVE CacheInv'
  BY <1>1, NewAsksKeep
<1>2. ASSUME NEW r \in Calls, CacheGet(r) \/ Store(r) \/ \E t \in Tables : FetchTable(r, t)
      PROVE  CacheInv'
  BY <1>2, CacheGetKeeps, StoreKeeps, FetchKeeps
<1>3. ASSUME NEW r \in Calls,
             \/ CreateShare(r) \/ RevokeShare(r) \/ ReplaceShare(r) \/ UpdateShareExpiry(r)
             \/ IncrementViewCount(r) \/ AddComment(r) \/ RateProposal(r) \/ ReplyToComment(r)
             \/ CreateReview(r)
      PROVE  CacheInv'
  BY <1>3, WritesKeep
<1>4. ASSUME NEW r \in Calls,
             \/ FindForRevoke(r) \/ FindForRegenerate(r) \/ ReadLiveShare(r) \/ FindReview(r)
             \/ TryAdvisoryLock(r) \/ ListTrips(r) \/ ResolveRecipientEmail(r)
             \/ SendTripReviewEmail(r) \/ CreateLog(r) \/ AdvisoryUnlock(r)
      PROVE  CacheInv'
  BY <1>4, ReadsKeep
<1>5. ASSUME NEW r \in Calls, Answer(r) \/ Errs(r) \/ FindForExtend(r) PROVE CacheInv'
  BY <1>5, AnswerKeeps, ErrsKeep, ExtendingKeeps
<1>6. CASE LinkTick \/ UNCHANGED linkVars
  BY <1>6 DEF LinkTick, linkVars, memory, CacheInv, FillFits
<1>7. CASE Crash
  <2>1. /\ ask' = [s \in Calls |-> IF s \in Serving THEN Served ELSE ask[s]]
        /\ cache' = [c \in Caches |-> <<>>] /\ generation' = [c \in Caches |-> 0]
    BY <1>7 DEF Crash
  <2>2. \A s \in Calls : Unfilled(ask'[s])
    BY <2>1 DEF Unfilled, Serving, NotAsked, Served
  <2>3. \A s \in Calls : FillFits(ask[s])'
    BY <2>2 DEF Unfilled, FillFits
  <2>4. cache' \in [Caches -> Seq(Fresh)]
    BY <2>1
  <2> QED BY <2>1, <2>3, <2>4 DEF CacheInv
<1> QED BY <1>1, <1>2, <1>3, <1>4, <1>5, <1>6, <1>7 DEF LinksNext

(* dashboard/cache.ts setIfCurrent and invalidatePrefix, and the two         *)
(* services around it - however a fill's queries, the writes and the         *)
(* invalidations interleave, and whatever fails or crashes, no cache holds   *)
(* for the agency a payload that misses a change already answered.           *)
THEOREM CacheTheorem == LinksSpec => []CacheKeepsUp
<1>1. LinksInit => CacheInv
  <2> SUFFICES ASSUME LinksInit PROVE CacheInv
    OBVIOUS
  <2>1. \A s \in Calls : FillFits(ask[s])
    BY DEF LinksInit, NotAsked, FillFits
  <2>2. cache \in [Caches -> Seq(Fresh)] /\ generation \in [Caches -> Nat]
    BY DEF LinksInit
  <2> QED BY <2>1, <2>2 DEF CacheInv
<1>2. CacheInv => CacheKeepsUp
  <2> SUFFICES ASSUME CacheInv, NEW c \in Caches, NEW i \in DOMAIN cache[c]
               PROVE  cache[c][i].key \in OwnKeys => ~cache[c][i].data.stale
    BY DEF CacheKeepsUp
  <2>1. PICK s \in Seq(Fresh) : s = cache[c]
    BY DEF CacheInv
  <2>2. s[i] \in Fresh
    BY <2>1
  <2> QED BY <2>1, <2>2 DEF Fresh
<1>3. LinksSpec => []CacheInv
  BY <1>1, CacheStep, LinkInvTheorem, PTL DEF LinksSpec
<1> QED BY <1>2, <1>3, PTL
=============================================================================
