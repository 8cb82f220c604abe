------------------------- MODULE TeamAndEditsProofs -------------------------
(***************************************************************************)
(* What holds of an agency and its people (Team.tla) for any number of     *)
(* people, requests and invitations, and of the edits of one trip          *)
(* (ItineraryEdits.tla) for any number of edits, days and stops.           *)
(*                                                                         *)
(* Team: two facts are proved, DeletionIsFinal of every step, however      *)
(* requests interleave, and SoundWhenAlone of every state. The first needs *)
(* the shape of the requests only (TeamShape); the second an invariant     *)
(* that says, of the one request under way, what its reads have            *)
(* established and nobody has changed since (KnownSoFar).                  *)
(*                                                                         *)
(* Edits: OverlapIsHarmless is proved, from what every transaction keeps   *)
(* (TxnOk) and what keeps two transactions from each other (Apart).        *)
(* AloneNeverFails, which builds on it, is in LoneEditProofs.              *)
(***************************************************************************)
EXTENDS Team, ItineraryEdits, FiniteSetTheorems, SequenceTheorems, TLAPS

AccountTypes == {"PENDING", "PERSONAL", "AGENCY_USER"}

(* The requests, by what they carry and where they can stand.                *)
OnMember ==
  [op : {"changeRole", "remove"}, pc : {"access", "find", "write"}, actor : People,
   type : AccountTypes, target : People, id : Nat, mine : Nat, role : GrantableRoles]
Inviting ==
  [op : {"invite"}, pc : {"access", "find", "pending", "create"}, actor : People,
   type : AccountTypes, target : People, id : Nat, mine : Nat, role : GrantableRoles]
Transferring ==
  [op : {"transfer"}, pc : {"access", "current", "target", "swap"}, actor : People,
   type : AccountTypes, target : People, id : Nat, mine : Nat, role : GrantableRoles]
Revoking ==
  [op : {"revoke"}, pc : {"access", "find", "revoke"}, actor : People, type : AccountTypes,
   inv : Invites, mine : Nat]
Accepting ==
  [op : {"accept"}, pc : {"judge", "members", "add", "promote", "mark"}, actor : People,
   type : AccountTypes, inv : Invites, role : GrantableRoles]
Applying ==
  [op : {"apply"}, pc : {"apply", "ownerRow", "promote"}, actor : People, type : AccountTypes]
Deciding ==
  [op : DOMAIN Decisions, pc : {"review", "decide"}, actor : {NoUser}]
Closing ==
  [op : {"deleteAgency"}, pc : {"exists", "mine", "drop"}, actor : People]
Typing ==
  [op : {"setType"}, pc : {"readType", "writeType"}, actor : People, type : AccountTypes]
Setting ==
  [op : {"setStatus"}, pc : {"load", "setStatus"}, target : People,
   status : {"ACTIVE", "DISABLED"}]
Deleting ==
  {q \in [op : {"delete"}, pc : {"load", "owned", "anonymize"}, target : People,
          heir : People \union {NoUser}, moves : BOOLEAN] : q.moves => q.pc = "anonymize"}

Requests ==
  {NotYet, Over} \union OnMember \union Inviting \union Transferring \union Revoking
  \union Accepting \union Applying \union Deciding \union Closing \union Typing
  \union Setting \union Deleting

TeamShape == TeamTypeOK /\ doing \in [TeamRequests -> Requests]

-----------------------------------------------------------------------------
(* What a request that runs alone knows.                                     *)
Knows(q) ==
  /\ q.op \in {"changeRole", "remove", "invite", "transfer", "revoke", "accept", "apply"} =>
       account[q.actor].status = "ACTIVE"
  /\ q.op \in {"changeRole", "remove", "invite", "transfer", "revoke"} /\ q.pc # "access" =>
       member[q.actor].role \in {"OWNER", "ADMIN"}
  /\ q.pc = "write" => member[q.target].role # "OWNER"
  /\ q.pc \in {"target", "swap"} => member[q.actor].role = "OWNER" /\ q.actor # q.target
  /\ q.pc = "create" => \A i \in Invites : invite[i].to = q.target /\ Open(i) => invite[i].expired
  /\ q.pc = "revoke" => Open(q.inv)
  /\ q.op = "accept" /\ q.pc # "judge" => Open(q.inv)
  /\ q.pc = "ownerRow" => Members = {} /\ agency.owner = q.actor
  /\ q.pc = "anonymize" =>
       IF q.moves THEN agency.owner = q.target ELSE agency.owner # q.target

KnownSoFar ==
  /\ \A r, s \in Running : r = s
  /\ \A r \in Running : Knows(doing[r])

(* Between requests: nothing is left of an agency that does not exist, and   *)
(* whoever can be invited has somebody to invite him.                        *)
NothingWithoutAgency ==
  /\ ~Exists => agency.owner = NoUser /\ Members = {}
  /\ (\E i \in Invites : Open(i)) => Exists /\ Members # {}

TeamInOrder ==
  OneOwner /\ DeletedLeaveNothing /\ InvitationsSettledOnce /\ NothingWithoutAgency

AloneInvariant == ~overlapped => TeamInOrder /\ KnownSoFar

-----------------------------------------------------------------------------
(* The shape of the requests.                                                *)
LEMMA ShapeInitially == TeamInit => TeamShape
<1> SUFFICES ASSUME TeamInit PROVE TeamShape
  OBVIOUS
<1> USE FounderIsUser DEF TeamInit
<1>1. agency.status \in {"none", "VERIFIED"} /\ agency.owner \in People \union {NoUser}
  OBVIOUS
<1>2. member \in [People -> [id : Nat, role : Roles \union {NoRole}]]
  BY DEF Roles, GrantableRoles, NoRole
<1>3. account \in [People -> Accounts]
  BY DEF Accounts
<1>4. Unsent \in [to : People \union {NoUser}, by : People \union {NoUser},
                  role : {"ADMIN", "STAFF"}, accepted : BOOLEAN, revoked : BOOLEAN,
                  expired : BOOLEAN]
  BY DEF Unsent
<1>5. doing \in [TeamRequests -> Requests]
  BY DEF Requests
<1> QED BY <1>1, <1>2, <1>3, <1>4, <1>5 DEF TeamShape, TeamTypeOK

(* Where a request stands tells what it carries.                             *)
LEMMA StandsAs ==
  ASSUME NEW q \in Requests
  PROVE  /\ q.pc = "access" => q \in OnMember \union Inviting \union Transferring \union Revoking
         /\ q.pc = "find" => q \in OnMember \union Inviting \union Revoking
         /\ q.pc = "write" => q \in OnMember
         /\ q.pc \in {"pending", "create"} => q \in Inviting
         /\ q.pc \in {"current", "target", "swap"} => q \in Transferring
         /\ q.pc = "revoke" => q \in Revoking
         /\ q.pc \in {"judge", "members", "add", "mark"} => q \in Accepting
         /\ q.pc = "promote" => q \in Accepting \union Applying
         /\ q.pc \in {"apply", "ownerRow"} => q \in Applying
         /\ q.pc \in {"review", "decide"} => q \in Deciding
         /\ q.pc \in {"exists", "mine", "drop"} => q \in Closing
         /\ q.pc \in {"readType", "writeType"} => q \in Typing
         /\ q.pc = "load" => q \in Setting \union Deleting
         /\ q.pc = "setStatus" => q \in Setting
         /\ q.pc \in {"owned", "anonymize"} => q \in Deleting
  BY DEF Requests, OnMember, Inviting, Transferring, Revoking, Accepting, Applying, Deciding,
     Closing, Typing, Setting, Deleting, NotYet, Over

(* A request that moves on carries what it carried.                          *)
LEMMA MovesOn ==
  ASSUME NEW q, NEW pc
  PROVE  /\ q \in OnMember /\ pc \in {"find", "write"} => [q EXCEPT !.pc = pc] \in OnMember
         /\ q \in Inviting /\ pc \in {"find", "pending", "create"} =>
              [q EXCEPT !.pc = pc] \in Inviting
         /\ q \in Transferring /\ pc \in {"current", "target", "swap"} =>
              [q EXCEPT !.pc = pc] \in Transferring
         /\ q \in Revoking /\ pc \in {"find", "revoke"} => [q EXCEPT !.pc = pc] \in Revoking
         /\ q \in Accepting /\ pc \in {"members", "add", "promote", "mark"} =>
              [q EXCEPT !.pc = pc] \in Accepting
         /\ q \in Applying /\ pc \in {"ownerRow", "promote"} => [q EXCEPT !.pc = pc] \in Applying
         /\ q \in Deciding /\ pc = "decide" => [q EXCEPT !.pc = pc] \in Deciding
         /\ q \in Closing /\ pc \in {"mine", "drop"} => [q EXCEPT !.pc = pc] \in Closing
         /\ q \in Typing /\ pc = "writeType" => [q EXCEPT !.pc = pc] \in Typing
         /\ q \in Setting /\ pc = "setStatus" => [q EXCEPT !.pc = pc] \in Setting
         /\ q \in Deleting /\ ~q.moves /\ pc \in {"owned", "anonymize"} =>
              [q EXCEPT !.pc = pc] \in Deleting
<1>1. q \in OnMember /\ pc \in {"find", "write"} => [q EXCEPT !.pc = pc] \in OnMember
  BY DEF OnMember
<1>2. q \in Inviting /\ pc \in {"find", "pending", "create"} => [q EXCEPT !.pc = pc] \in Inviting
  BY DEF Inviting
<1>3. q \in Transferring /\ pc \in {"current", "target", "swap"} =>
        [q EXCEPT !.pc = pc] \in Transferring
  BY DEF Transferring
<1>4. q \in Revoking /\ pc \in {"find", "revoke"} => [q EXCEPT !.pc = pc] \in Revoking
  BY DEF Revoking
<1>5. q \in Accepting /\ pc \in {"members", "add", "promote", "mark"} =>
        [q EXCEPT !.pc = pc] \in Accepting
  BY DEF Accepting
<1>6. q \in Applying /\ pc \in {"ownerRow", "promote"} => [q EXCEPT !.pc = pc] \in Applying
  BY DEF Applying
<1>7. q \in Deciding /\ pc = "decide" => [q EXCEPT !.pc = pc] \in Deciding
  BY DEF Deciding
<1>8. q \in Closing /\ pc \in {"mine", "drop"} => [q EXCEPT !.pc = pc] \in Closing
  BY DEF Closing
<1>9. q \in Typing /\ pc = "writeType" => [q EXCEPT !.pc = pc] \in Typing
  BY DEF Typing
<1>10. q \in Setting /\ pc = "setStatus" => [q EXCEPT !.pc = pc] \in Setting
  BY DEF Setting
<1>11. q \in Deleting /\ ~q.moves /\ pc \in {"owned", "anonymize"} =>
         [q EXCEPT !.pc = pc] \in Deleting
  BY DEF Deleting
<1> QED BY <1>1, <1>2, <1>3, <1>4, <1>5, <1>6, <1>7, <1>8, <1>9, <1>10, <1>11

LEMMA KeepsShape ==
  ASSUME TeamShape, NEW r \in TeamRequests, NEW q \in Requests, Becomes(r, q), TeamTypeOK'
  PROVE  TeamShape'
  BY DEF TeamShape, Becomes

LEMMA ReadsKeepTypes ==
  ASSUME TeamTypeOK, UNCHANGED Data, Quiet
  PROVE  TeamTypeOK'
  BY DEF TeamTypeOK, Data, Quiet

LEMMA ShapeAfterRequest ==
  ASSUME TeamShape, NEW r \in TeamRequests, TeamAsks(r)
  PROVE  TeamShape'
<1>1. ASSUME NEW q \in Requests, Starts(r, q) PROVE TeamShape'
  BY <1>1, KeepsShape DEF Starts, Becomes, TeamShape, TeamTypeOK
<1> USE DEF TeamShape, TeamTypeOK, Accounts, Roles, NoRole
<1>2. \A u \in People : member[u].id \in Nat /\ account[u].type \in AccountTypes
  BY DEF AccountTypes
<1>3. CASE TeamRequest(r)
  <2> DEFINE Q(op, u, v, role) ==
        [op |-> op, pc |-> "access", actor |-> u, type |-> account[u].type,
         target |-> v, id |-> member[v].id, mine |-> 0, role |-> role]
  <2>1. \A u, v \in People, op \in {"changeRole", "invite", "remove", "transfer"},
           role \in GrantableRoles : Q(op, u, v, role) \in Requests
    BY <1>2 DEF Requests, OnMember, Inviting, Transferring
  <2>2. PICK u \in People, v \in People :
          \/ \E role \in GrantableRoles, op \in {"changeRole", "invite"} :
               Starts(r, Q(op, u, v, role))
          \/ \E op \in {"remove", "transfer"} : Starts(r, Q(op, u, v, "STAFF"))
    BY <1>3, Zenon DEF TeamRequest
  <2>3. CASE \E role \in GrantableRoles, op \in {"changeRole", "invite"} :
               Starts(r, Q(op, u, v, role))
    <3>1. PICK role \in GrantableRoles, op \in {"changeRole", "invite"} :
            Starts(r, Q(op, u, v, role))
      BY <2>3
    <3> HIDE DEF Q
    <3> QED BY <3>1, <2>1, <1>1
  <2>4. CASE \E op \in {"remove", "transfer"} : Starts(r, Q(op, u, v, "STAFF"))
    <3>1. PICK op \in {"remove", "transfer"} : Starts(r, Q(op, u, v, "STAFF"))
      BY <2>4
    <3>2. "STAFF" \in GrantableRoles
      BY DEF GrantableRoles
    <3> HIDE DEF Q
    <3> QED BY <3>1, <3>2, <2>1, <1>1
  <2> QED BY <2>2, <2>3, <2>4
<1>4. CASE RevokeRequest(r)
  BY <1>4, <1>1, <1>2 DEF RevokeRequest, Requests, Revoking
<1>5. CASE AcceptRequest(r)
  <2>1. \A i \in Invites : invite[i].role \in GrantableRoles
    BY DEF GrantableRoles
  <2> QED BY <1>5, <1>1, <1>2, <2>1 DEF AcceptRequest, Requests, Accepting
<1>6. CASE ApplyRequest(r)
  BY <1>6, <1>1, <1>2 DEF ApplyRequest, Requests, Applying
<1>7. CASE DecisionRequest(r)
  BY <1>7, <1>1 DEF DecisionRequest, Requests, Deciding
<1>8. CASE DeleteAgencyRequest(r)
  BY <1>8, <1>1 DEF DeleteAgencyRequest, Requests, Closing
<1>9. CASE SetTypeRequest(r)
  BY <1>9, <1>1 DEF SetTypeRequest, Requests, Typing, AccountTypes
<1>10. CASE AccountRequest(r)
  BY <1>10, <1>1 DEF AccountRequest, Requests, Setting, Deleting
<1> QED BY <1>3, <1>4, <1>5, <1>6, <1>7, <1>8, <1>9, <1>10 DEF TeamAsks

LEMMA ShapeAfterStep ==
  ASSUME TeamShape, NEW r \in TeamRequests, TeamStep(r)
  PROVE  TeamShape'
<1> DEFINE q == doing[r]
<1>q. q \in Requests
  BY DEF TeamShape
<1>o. Over \in Requests
  BY DEF Requests
<1>p. ASSUME NEW pc, [q EXCEPT !.pc = pc] \in Requests, Proceeds(r, pc), TeamTypeOK'
      PROVE  TeamShape'
  BY <1>p, KeepsShape DEF Proceeds
<1>f. ASSUME Finishes(r), TeamTypeOK' PROVE TeamShape'
  BY <1>f, <1>o, KeepsShape DEF Finishes
<1>t. TeamTypeOK
  BY DEF TeamShape
<1>1. CASE FindMember(r)
  <2>1. q \in OnMember
    BY <1>1, <1>q, StandsAs DEF FindMember, Stands, OnMember, Inviting, Revoking
  <2>2. TeamTypeOK'
    BY <1>1, <1>t, ReadsKeepTypes DEF FindMember
  <2> QED BY <1>1, <2>1, <2>2, <1>p, <1>f, MovesOn DEF FindMember, Requests
<1>2. CASE FindCurrentOwner(r)
  <2>1. q \in Transferring
    BY <1>2, <1>q, StandsAs DEF FindCurrentOwner, Stands
  <2>2. TeamTypeOK'
    BY <1>2, <1>t, ReadsKeepTypes DEF FindCurrentOwner
  <2> QED BY <1>2, <2>1, <2>2, <1>p, <1>f, MovesOn DEF FindCurrentOwner, Requests
<1>3. CASE FindNewOwner(r)
  <2>1. q \in Transferring
    BY <1>3, <1>q, StandsAs DEF FindNewOwner, Stands
  <2>2. TeamTypeOK'
    BY <1>3, <1>t, ReadsKeepTypes DEF FindNewOwner
  <2> QED BY <1>3, <2>1, <2>2, <1>p, <1>f, MovesOn DEF FindNewOwner, Requests
<1>4. CASE CheckNotMember(r)
  <2>1. q \in Inviting
    BY <1>4, <1>q, StandsAs DEF CheckNotMember, Stands, OnMember, Inviting, Revoking
  <2>2. TeamTypeOK'
    BY <1>4, <1>t, ReadsKeepTypes DEF CheckNotMember
  <2> QED BY <1>4, <2>1, <2>2, <1>p, <1>f, MovesOn DEF CheckNotMember, Requests
<1>5. CASE CheckNonePending(r)
  <2>1. q \in Inviting
    BY <1>5, <1>q, StandsAs DEF CheckNonePending, Stands
  <2>2. TeamTypeOK'
    BY <1>5, <1>t, ReadsKeepTypes DEF CheckNonePending
  <2> QED BY <1>5, <2>1, <2>2, <1>p, <1>f, MovesOn DEF CheckNonePending, Requests
<1>6. CASE FindInvitation(r)
  <2>1. q \in Revoking
    BY <1>6, <1>q, StandsAs DEF FindInvitation, Stands, OnMember, Inviting, Revoking
  <2>2. TeamTypeOK'
    BY <1>6, <1>t, ReadsKeepTypes DEF FindInvitation
  <2> QED BY <1>6, <2>1, <2>2, <1>p, <1>f, MovesOn DEF FindInvitation, Requests
<1>7. CASE JudgeInvitation(r)
  <2>1. q \in Accepting
    BY <1>7, <1>q, StandsAs DEF JudgeInvitation, Stands
  <2>2. TeamTypeOK'
    BY <1>7, <1>t, ReadsKeepTypes DEF JudgeInvitation
  <2> QED BY <1>7, <2>1, <2>2, <1>p, <1>f, MovesOn DEF JudgeInvitation, Requests
<1>8. CASE ReadAgency(r)
  <2>1. q \in Deciding
    BY <1>8, <1>q, StandsAs DEF ReadAgency, Stands
  <2>2. TeamTypeOK'
    BY <1>8, <1>t, ReadsKeepTypes DEF ReadAgency
  <2> QED BY <1>8, <2>1, <2>2, <1>p, <1>f, MovesOn DEF ReadAgency, Requests
<1>9. CASE FindAgency(r)
  <2>1. q \in Closing
    BY <1>9, <1>q, StandsAs DEF FindAgency, Stands
  <2>2. TeamTypeOK'
    BY <1>9, <1>t, ReadsKeepTypes DEF FindAgency
  <2> QED BY <1>9, <2>1, <2>2, <1>p, <1>f, MovesOn DEF FindAgency, Requests
<1>10. CASE CheckOwnMembership(r)
  <2>1. q \in Closing
    BY <1>10, <1>q, StandsAs DEF CheckOwnMembership, Stands
  <2>2. TeamTypeOK'
    BY <1>10, <1>t, ReadsKeepTypes DEF CheckOwnMembership
  <2> QED BY <1>10, <2>1, <2>2, <1>p, <1>f, MovesOn DEF CheckOwnMembership, Requests
<1>11. CASE ReadType(r)
  <2>1. q \in Typing
    BY <1>11, <1>q, StandsAs DEF ReadType, Stands
  <2>2. TeamTypeOK'
    BY <1>11, <1>t, ReadsKeepTypes DEF ReadType
  <2> QED BY <1>11, <2>1, <2>2, <1>p, <1>f, MovesOn DEF ReadType, Requests
<1>12. CASE Access(r)
  <2>1. q \in OnMember \union Inviting \union Transferring \union Revoking /\ q.pc = "access"
    BY <1>12, <1>q, StandsAs DEF Access, Stands
  <2>2. TeamTypeOK'
    BY <1>12, <1>t, ReadsKeepTypes DEF Access
  <2>3. CASE ~Allowed(q)
    BY <1>12, <2>2, <2>3, <1>f DEF Access
  <2>4. CASE Allowed(q)
    <3> DEFINE a == [q EXCEPT !.pc = IF q.op = "transfer" THEN "current" ELSE "find",
                              !.mine = member[q.actor].id]
    <3>1. Becomes(r, a)
      BY <1>12, <2>4 DEF Access
    <3>2. member[q.actor].id \in Nat
      BY <2>1, <1>t DEF TeamTypeOK, OnMember, Inviting, Transferring, Revoking
    <3>3. a \in Requests
      BY <2>1, <3>2 DEF Requests, OnMember, Inviting, Transferring, Revoking
    <3> QED BY <2>2, <3>1, <3>3, KeepsShape
  <2> QED BY <2>3, <2>4
<1>13. CASE ListMembers(r)
  <2>1. q \in Accepting
    BY <1>13, <1>q, StandsAs DEF ListMembers, Stands
  <2>2. TeamTypeOK'
    BY <1>13, <1>t, ReadsKeepTypes DEF ListMembers
  <2>3. Promotion(r) \in {"mark", "promote"}
    BY DEF Promotion
  <2> QED BY <1>13, <2>1, <2>2, <2>3, <1>p, MovesOn DEF ListMembers, Requests
<1>14. CASE LoadMember(r)
  <2>1. q \in Setting \union Deleting
    BY <1>14, <1>q, StandsAs DEF LoadMember, Stands
  <2>2. TeamTypeOK'
    BY <1>14, <1>t, ReadsKeepTypes DEF LoadMember
  <2>3. q \in Setting => q.op # "delete"
    BY DEF Setting
  <2>4. q \in Deleting => q.op = "delete" /\ (q.pc = "load" => ~q.moves)
    BY DEF Deleting
  <2>5. \/ Finishes(r)
        \/ q.op = "delete" /\ Proceeds(r, "owned")
        \/ q.op # "delete" /\ Proceeds(r, "setStatus")
    BY <1>14 DEF LoadMember
  <2>6. q.pc = "load"
    BY <1>14 DEF LoadMember, Stands
  <2> QED BY <2>1, <2>2, <2>3, <2>4, <2>5, <2>6, <1>p, <1>f, MovesOn DEF Requests
<1>15. CASE ListOwnedAgencies(r)
  <2>1. q \in Deleting
    BY <1>15, <1>q, StandsAs DEF ListOwnedAgencies, Stands
  <2>2. TeamTypeOK'
    BY <1>15, <1>t, ReadsKeepTypes DEF ListOwnedAgencies
  <2>3. [q EXCEPT !.pc = "anonymize", !.moves = TRUE] \in Requests
    BY <2>1 DEF Requests, Deleting
  <2>4. q.moves = FALSE
    BY <1>15, <2>1 DEF ListOwnedAgencies, Stands, Deleting
  <2>5. [q EXCEPT !.pc = "anonymize"] \in Requests
    BY <2>1, <2>4, MovesOn DEF Requests
  <2> QED BY <1>15, <2>2, <2>3, <2>5, <1>p, <1>f, KeepsShape DEF ListOwnedAgencies
<1>16. CASE ChangeMemberRole(r)
  <2>1. q.role \in GrantableRoles
    BY <1>16, <1>q, StandsAs DEF ChangeMemberRole, Stands, OnMember
  <2>2. TeamTypeOK'
    BY <1>16, <2>1, <1>t DEF ChangeMemberRole, TeamTypeOK, GrantableRoles, Roles, Quiet
  <2> QED BY <1>16, <2>2, <1>f DEF ChangeMemberRole
<1>17. CASE RemoveMember(r)
  <2>2. TeamTypeOK'
    BY <1>17, <1>t DEF RemoveMember, TeamTypeOK, Quiet
  <2> QED BY <1>17, <2>2, <1>f DEF RemoveMember
<1>18. CASE TransferOwnership(r)
  <2>1. q.target \in People
    BY <1>18, <1>q, StandsAs DEF TransferOwnership, Stands, Transferring
  <2>2. member' \in [People -> [id : Nat, role : Roles \union {NoRole}]]
    <3> DEFINE former == [member EXCEPT ![q.actor].role = "ADMIN"]
    <3>1. former \in [People -> [id : Nat, role : Roles \union {NoRole}]]
      BY <1>t DEF TeamTypeOK, Roles
    <3>2. member' = [former EXCEPT ![q.target].role = "OWNER"]
      BY <1>18 DEF TransferOwnership
    <3> HIDE DEF former
    <3> QED BY <3>1, <3>2 DEF Roles
  <2>3. TeamTypeOK'
    BY <1>18, <2>1, <2>2, <1>t DEF TransferOwnership, TeamTypeOK, Quiet
  <2> QED BY <1>18, <2>3, <1>f DEF TransferOwnership
<1>19. CASE CreateInvitation(r)
  <2>1. q.target \in People /\ q.actor \in People /\ q.role \in {"ADMIN", "STAFF"}
    BY <1>19, <1>q, StandsAs DEF CreateInvitation, Stands, Inviting, GrantableRoles
  <2>2. [Unsent EXCEPT !.to = q.target, !.by = q.actor, !.role = q.role]
          \in [to : People \union {NoUser}, by : People \union {NoUser},
               role : {"ADMIN", "STAFF"}, accepted : BOOLEAN, revoked : BOOLEAN,
               expired : BOOLEAN]
    BY <2>1 DEF Unsent
  <2>3. TeamTypeOK'
    BY <1>19, <2>2, <1>t DEF CreateInvitation, TeamTypeOK, Quiet
  <2> QED BY <1>19, <2>3, <1>f DEF CreateInvitation
<1>20. CASE RevokeInvitation(r)
  <2>1. \A i \in Invites : [invite[i] EXCEPT !.revoked = TRUE]
          \in [to : People \union {NoUser}, by : People \union {NoUser},
               role : {"ADMIN", "STAFF"}, accepted : BOOLEAN, revoked : BOOLEAN,
               expired : BOOLEAN]
    BY <1>t DEF TeamTypeOK
  <2>2. invite' \in [Invites -> [to : People \union {NoUser}, by : People \union {NoUser},
                      role : {"ADMIN", "STAFF"}, accepted : BOOLEAN, revoked : BOOLEAN,
                      expired : BOOLEAN]]
    BY <1>20, <2>1, <1>t DEF RevokeInvitation, TeamTypeOK
  <2>3. UNCHANGED <<agency, member, account, overlapped>>
    BY <1>20 DEF RevokeInvitation, Quiet
  <2>4. TeamTypeOK'
    BY <2>2, <2>3, <1>t DEF TeamTypeOK
  <2> QED BY <1>20, <2>4, <1>f DEF RevokeInvitation
<1>21. CASE AddMember(r)
  <2>1. q \in Accepting
    BY <1>21, <1>q, StandsAs DEF AddMember, Stands
  <2>2. q.actor \in People /\ q.role \in GrantableRoles
    BY <2>1 DEF Accepting
  <2>3. member' \in [People -> [id : Nat, role : Roles \union {NoRole}]]
    BY <1>21, <2>2, <1>t DEF AddMember, TeamTypeOK, Roles, GrantableRoles
  <2>4. TeamTypeOK'
    BY <1>21, <2>3, <1>t DEF AddMember, TeamTypeOK, Quiet
  <2>5. Promotion(r) \in {"mark", "promote"}
    BY DEF Promotion
  <2> QED BY <1>21, <2>1, <2>4, <2>5, <1>p, MovesOn DEF AddMember, Requests
<1>22. CASE PromoteAccount(r)
  <2>1. q \in Accepting \union Applying
    BY <1>22, <1>q, StandsAs DEF PromoteAccount, Stands
  <2>2. TeamTypeOK'
    BY <1>22, <1>t DEF PromoteAccount, TeamTypeOK, Quiet, Accounts
  <2>3. q.op = "accept" => q \in Accepting
    BY <2>1 DEF Applying
  <2> QED BY <1>22, <2>1, <2>2, <2>3, <1>p, <1>f, MovesOn DEF PromoteAccount, Requests
<1>23. CASE MarkAccepted(r)
  <2>1. \A i \in Invites : [invite[i] EXCEPT !.accepted = TRUE]
          \in [to : People \union {NoUser}, by : People \union {NoUser},
               role : {"ADMIN", "STAFF"}, accepted : BOOLEAN, revoked : BOOLEAN,
               expired : BOOLEAN]
    BY <1>t DEF TeamTypeOK
  <2>2. invite' \in [Invites -> [to : People \union {NoUser}, by : People \union {NoUser},
                      role : {"ADMIN", "STAFF"}, accepted : BOOLEAN, revoked : BOOLEAN,
                      expired : BOOLEAN]]
    BY <1>23, <2>1, <1>t DEF MarkAccepted, TeamTypeOK
  <2>3. UNCHANGED <<agency, member, account, overlapped>>
    BY <1>23 DEF MarkAccepted, Quiet
  <2>4. TeamTypeOK'
    BY <2>2, <2>3, <1>t DEF TeamTypeOK
  <2> QED BY <1>23, <2>4, <1>f DEF MarkAccepted
<1>24. CASE CreateAgency(r)
  <2>1. q \in Applying
    BY <1>24, <1>q, StandsAs DEF CreateAgency, Stands
  <2>2. TeamTypeOK'
    BY <1>24, <2>1, <1>t DEF CreateAgency, TeamTypeOK, Quiet, Applying
  <2> QED BY <1>24, <2>1, <2>2, <1>p, MovesOn DEF CreateAgency, Requests
<1>25. CASE CreateOwnerMembership(r)
  <2>1. q \in Applying
    BY <1>25, <1>q, StandsAs DEF CreateOwnerMembership, Stands
  <2>2. TeamTypeOK'
    BY <1>25, <2>1, <1>t DEF CreateOwnerMembership, TeamTypeOK, Quiet, Applying, Roles
  <2> QED BY <1>25, <2>1, <2>2, <1>p, <1>f, MovesOn DEF CreateOwnerMembership, Requests
<1>26. CASE DecideAgency(r)
  <2>1. q.op \in DOMAIN Decisions
    BY <1>26, <1>q, StandsAs DEF DecideAgency, Stands, Deciding
  <2>2. Decisions[q.op] \in {"VERIFIED", "REJECTED", "SUSPENDED"}
    BY <2>1 DEF Decisions
  <2>3. TeamTypeOK'
    BY <1>26, <2>2, <1>t DEF DecideAgency, TeamTypeOK, Quiet
  <2> QED BY <1>26, <2>3, <1>f DEF DecideAgency
<1>27. CASE DeleteAgency(r)
  <2>1. Gone \in [to : People \union {NoUser}, by : People \union {NoUser},
                  role : {"ADMIN", "STAFF"}, accepted : BOOLEAN, revoked : BOOLEAN,
                  expired : BOOLEAN]
    BY DEF Gone, Unsent
  <2>2. \A u \in People : [member[u] EXCEPT !.role = NoRole] \in [id : Nat, role : Roles \union {NoRole}]
    BY <1>t DEF TeamTypeOK
  <2>3. TeamTypeOK'
    BY <1>27, <2>1, <2>2, <1>t DEF DeleteAgency, TeamTypeOK, Quiet
  <2> QED BY <1>27, <2>3, <1>f DEF DeleteAgency
<1>28. CASE SetAccountType(r)
  <2>1. q.type \in AccountTypes
    BY <1>28, <1>q, StandsAs DEF SetAccountType, Stands, Typing
  <2>2. TeamTypeOK'
    BY <1>28, <2>1, <1>t DEF SetAccountType, TeamTypeOK, Quiet, Accounts, AccountTypes
  <2> QED BY <1>28, <2>2, <1>f DEF SetAccountType
<1>29. CASE SetAccountStatus(r)
  <2>1. q.status \in {"ACTIVE", "DISABLED"}
    BY <1>29, <1>q, StandsAs DEF SetAccountStatus, Stands, Setting
  <2>2. TeamTypeOK'
    BY <1>29, <2>1, <1>t DEF SetAccountStatus, TeamTypeOK, Quiet, Accounts
  <2> QED BY <1>29, <2>2, <1>f DEF SetAccountStatus
<1>30. CASE AnonymizeMember(r)
  <2>1. q \in Deleting
    BY <1>30, <1>q, StandsAs DEF AnonymizeMember, Stands
  <2>2. agency'.status = agency.status /\ agency'.owner \in People \union {NoUser}
    BY <1>30, <2>1, <1>t DEF AnonymizeMember, TeamTypeOK, Deleting
  <2>3. member' \in [People -> [id : Nat, role : Roles \union {NoRole}]]
    BY <1>30, <1>t DEF AnonymizeMember, TeamTypeOK, Roles
  <2>4. account' \in [People -> Accounts]
    BY <1>30, <1>t DEF AnonymizeMember, TeamTypeOK, Erased, Accounts
  <2>5. \A i \in Invites : [invite[i] EXCEPT !.revoked = TRUE]
          \in [to : People \union {NoUser}, by : People \union {NoUser},
               role : {"ADMIN", "STAFF"}, accepted : BOOLEAN, revoked : BOOLEAN,
               expired : BOOLEAN]
    BY <1>t DEF TeamTypeOK
  <2>6. invite' \in [Invites -> [to : People \union {NoUser}, by : People \union {NoUser},
                     role : {"ADMIN", "STAFF"}, accepted : BOOLEAN, revoked : BOOLEAN,
                     expired : BOOLEAN]]
    BY <1>30, <2>5, <1>t DEF AnonymizeMember, TeamTypeOK, Erased
  <2>7. TeamTypeOK'
    BY <1>30, <2>2, <2>3, <2>4, <2>6, <1>t DEF AnonymizeMember, TeamTypeOK, Quiet
  <2> QED BY <1>30, <2>7, <1>f DEF AnonymizeMember
<1> QED BY <1>1, <1>2, <1>3, <1>4, <1>5, <1>6, <1>7, <1>8, <1>9, <1>10, <1>11, <1>12, <1>13,
           <1>14, <1>15, <1>16, <1>17, <1>18, <1>19, <1>20, <1>21, <1>22, <1>23, <1>24, <1>25,
           <1>26, <1>27, <1>28, <1>29, <1>30 DEF TeamStep

LEMMA ShapeAfterBreak ==
  ASSUME TeamShape, NEW r \in TeamRequests, Breaks(r)
  PROVE  TeamShape'
  BY KeepsShape, ReadsKeepTypes DEF Breaks, Finishes, TeamShape, Requests

LEMMA ShapeAfterExpiry ==
  ASSUME TeamShape, NEW i \in Invites, InvitationExpires(i)
  PROVE  TeamShape'
  BY DEF InvitationExpires, TeamShape, TeamTypeOK, Quiet

(* The members, accounts, invitations and requests stay what their tables    *)
(* and handlers allow: the schema of agencies, memberships, users and        *)
(* invitations, and per request the variables of its handler.                *)
THEOREM TeamShapeTheorem == TeamSpec => []TeamShape
<1>1. TeamShape /\ [TeamNext]_teamVars => TeamShape'
  <2> SUFFICES ASSUME TeamShape, [TeamNext]_teamVars PROVE TeamShape'
    OBVIOUS
  <2>1. CASE \E r \in TeamRequests : TeamAsks(r) \/ TeamStep(r) \/ Breaks(r)
    BY <2>1, ShapeAfterRequest, ShapeAfterStep, ShapeAfterBreak
  <2>2. CASE \E i \in Invites : InvitationExpires(i)
    BY <2>2, ShapeAfterExpiry
  <2>3. CASE UNCHANGED teamVars
    BY <2>3 DEF teamVars, TeamShape, TeamTypeOK
  <2> QED BY <2>1, <2>2, <2>3 DEF TeamNext
<1> QED BY <1>1, ShapeInitially, PTL DEF TeamSpec

-----------------------------------------------------------------------------
(* DeletionIsFinal is a fact about the four steps that write an account.     *)
LEMMA AccountWriters ==
  ASSUME [TeamNext]_teamVars
  PROVE  \/ UNCHANGED account
         \/ \E r \in TeamRequests :
              PromoteAccount(r) \/ SetAccountType(r) \/ SetAccountStatus(r) \/ AnonymizeMember(r)
<1>1. ASSUME NEW r \in TeamRequests, TeamAsks(r) PROVE UNCHANGED account
  BY <1>1, Zenon DEF TeamAsks, TeamRequest, RevokeRequest, AcceptRequest, ApplyRequest, DecisionRequest,
     DeleteAgencyRequest, SetTypeRequest, AccountRequest, Starts
<1>2. ASSUME NEW r \in TeamRequests, TeamStep(r)
      PROVE  UNCHANGED account \/ PromoteAccount(r) \/ SetAccountType(r) \/ SetAccountStatus(r)
             \/ AnonymizeMember(r)
  BY <1>2 DEF TeamStep, Data, Access, FindMember, ChangeMemberRole, RemoveMember, FindCurrentOwner,
     FindNewOwner, TransferOwnership, CheckNotMember, CheckNonePending, CreateInvitation,
     FindInvitation, RevokeInvitation, JudgeInvitation, ListMembers, AddMember, MarkAccepted,
     CreateAgency, CreateOwnerMembership, ReadAgency, DecideAgency, FindAgency,
     CheckOwnMembership, DeleteAgency, ReadType, LoadMember, ListOwnedAgencies
<1>3. ASSUME NEW r \in TeamRequests, Breaks(r) PROVE UNCHANGED account
  BY <1>3 DEF Breaks, Data
<1>4. ASSUME NEW i \in Invites, InvitationExpires(i) PROVE UNCHANGED account
  BY <1>4 DEF InvitationExpires
<1>5. UNCHANGED teamVars => UNCHANGED account
  BY DEF teamVars
<1> QED BY <1>1, <1>2, <1>3, <1>4, <1>5 DEF TeamNext

LEMMA DeletionStep ==
  ASSUME TeamShape, [TeamNext]_teamVars, NEW u \in People
  PROVE  /\ HandsOver(u)
         /\ account[u].status = "DELETED" => account'[u].status = "DELETED"
<1> USE DEF TeamShape, TeamTypeOK, Accounts
<1>1. CASE UNCHANGED account
  BY <1>1 DEF HandsOver
<1>2. ASSUME NEW r \in TeamRequests, PromoteAccount(r) \/ SetAccountType(r)
      PROVE  account'[u].status = account[u].status
  BY <1>2 DEF PromoteAccount, SetAccountType
<1>3. ASSUME NEW r \in TeamRequests, SetAccountStatus(r)
      PROVE  account[u].status = "DELETED" <=> account'[u].status = "DELETED"
  <2>1. doing[r].status \in {"ACTIVE", "DISABLED"}
    BY <1>3, StandsAs DEF SetAccountStatus, Stands, Setting
  <2> QED BY <1>3, <2>1 DEF SetAccountStatus
<1>4. ASSUME NEW r \in TeamRequests, AnonymizeMember(r)
      PROVE  /\ HandsOver(u)
             /\ account[u].status = "DELETED" => account'[u].status = "DELETED"
  <2> DEFINE q == doing[r]
  <2>1. q \in Deleting
    BY <1>4, StandsAs DEF AnonymizeMember, Stands
  <2>2. account' = [account EXCEPT ![q.target].status = "DELETED"]
    BY <1>4 DEF AnonymizeMember, Erased
  <2>3. q.target \in People /\ q.moves \in BOOLEAN
    BY <2>1 DEF Deleting
  <2>4. \A v \in People \ {q.target} : account'[v] = account[v]
    BY <2>2
  <2>5. account[u].status = "DELETED" => account'[u].status = "DELETED"
    BY <2>2
  <2>6. ASSUME agency.owner = u, account[u].status # "DELETED", account'[u].status = "DELETED",
               ~\E s \in TeamRequests : Stands(s, "anonymize") /\ ~doing[s].moves /\ doing'[s] = Over
        PROVE  account'[agency'.owner].status = "ACTIVE" /\ member'[agency'.owner].role = "OWNER"
    <3>1. u = q.target
      BY <2>4, <2>6
    <3>2. Stands(r, "anonymize") /\ doing'[r] = Over
      BY <1>4 DEF AnonymizeMember, Finishes, Becomes
    <3>3. q.moves
      BY <2>6, <3>2
    <3>4. q.heir \in People /\ q.heir # q.target /\ account[q.heir].status = "ACTIVE"
      BY <1>4, <3>3 DEF AnonymizeMember, Successors, Members
    <3>5. agency'.owner = q.heir
      BY <1>4, <3>3 DEF AnonymizeMember
    <3>6. member'[q.heir].role = "OWNER"
      BY <1>4, <3>3, <3>4 DEF AnonymizeMember
    <3> QED BY <2>4, <3>4, <3>5, <3>6
  <2> QED BY <2>5, <2>6 DEF HandsOver
<1> QED BY <1>1, <1>2, <1>3, <1>4, AccountWriters DEF HandsOver

(* However requests interleave, the deletion of an owner's account hands the *)
(* agency over in the same step to an ACTIVE member who gets the OWNER role, *)
(* unless the account came to own it only after its agencies were listed;    *)
(* and a deleted account stays deleted (accountActionRepository.ts           *)
(* anonymize).                                                               *)
THEOREM DeletionTheorem == TeamSpec => DeletionIsFinal
<1>1. TeamShape /\ [TeamNext]_teamVars =>
        [\A u \in People :
           /\ HandsOver(u)
           /\ account[u].status = "DELETED" => account'[u].status = "DELETED"]_teamVars
  BY DeletionStep
<1> QED BY <1>1, TeamShapeTheorem, PTL DEF TeamSpec, DeletionIsFinal

-----------------------------------------------------------------------------
(* The state of the team as long as no two requests overlap.                 *)
LEMMA AloneInitially == TeamInit => AloneInvariant
<1> SUFFICES ASSUME TeamInit PROVE TeamInOrder /\ KnownSoFar
  BY DEF AloneInvariant
<1> USE FounderIsUser DEF TeamInit
<1>1. Running = {}
  BY DEF Running
<1>2. \A i \in Invites : ~Open(i)
  BY DEF Open, Unsent
<1>3. \A u \in People : account[u].status = "ACTIVE"
  OBVIOUS
<1>4. OneOwner /\ NothingWithoutAgency
  <2>1. CASE agency.status = "none"
    BY <1>2, <2>1 DEF OneOwner, NothingWithoutAgency, Exists, Members, NoRole
  <2>2. CASE agency.status = "VERIFIED"
    <3>1. agency.owner = Founder /\ Exists
      BY <2>2 DEF Exists
    <3>2. \A u \in People : member[u].role = "OWNER" <=> u = Founder
      BY <2>2 DEF GrantableRoles, NoRole
    <3>3. Owners = {Founder}
      BY <3>2 DEF Owners
    <3> QED BY <1>2, <3>1, <3>3 DEF OneOwner, NothingWithoutAgency
  <2> QED BY <2>1, <2>2
<1>5. DeletedLeaveNothing
  BY <1>3 DEF DeletedLeaveNothing
<1>6. InvitationsSettledOnce
  BY <1>2 DEF InvitationsSettledOnce, Unsent
<1> QED BY <1>1, <1>4, <1>5, <1>6 DEF TeamInOrder, KnownSoFar

LEMMA ReadsKeepOrder ==
  ASSUME TeamInOrder, UNCHANGED Data
  PROVE  TeamInOrder'
  BY DEF TeamInOrder, Data, OneOwner, DeletedLeaveNothing, InvitationsSettledOnce, NothingWithoutAgency,
     Exists, Members, Owners, Open

LEMMA ReadsKeepKnowledge ==
  ASSUME UNCHANGED Data, NEW q, Knows(q)
  PROVE  Knows(q)'
  BY DEF Data, Knows, Members, Open

(* Only the request that makes a step can be under way after it.             *)
LEMMA StillAlone ==
  ASSUME TeamShape, KnownSoFar, NEW r \in Running, NEW q, Becomes(r, q), q = Over \/ Knows(q)'
  PROVE  KnownSoFar'
<1>1. doing' = [doing EXCEPT ![r] = q] /\ r \in TeamRequests
  BY DEF Becomes, Running
<1>2. \A s \in TeamRequests \ {r} : doing'[s] = doing[s] /\ s \notin Running
  BY <1>1 DEF TeamShape, KnownSoFar
<1>3. doing'[r] = q
  BY <1>1 DEF TeamShape
<1>4. Running' \subseteq {r}
  BY <1>2 DEF Running
<1>5. r \in Running' => q # Over
  BY <1>3 DEF Running
<1> QED BY <1>3, <1>4, <1>5 DEF KnownSoFar

LEMMA StepsAreOfRunning ==
  ASSUME NEW r \in TeamRequests, TeamStep(r)
  PROVE  r \in Running /\ overlapped' = overlapped
<1>1. doing[r].pc \notin {"idle", "done"}
  BY DEF TeamStep, Stands, Access, FindMember, ChangeMemberRole, RemoveMember, FindCurrentOwner,
     FindNewOwner, TransferOwnership, CheckNotMember, CheckNonePending, CreateInvitation,
     FindInvitation, RevokeInvitation, JudgeInvitation, ListMembers, AddMember, PromoteAccount,
     MarkAccepted, CreateAgency, CreateOwnerMembership, ReadAgency, DecideAgency, FindAgency,
     CheckOwnMembership, DeleteAgency, ReadType, SetAccountType, LoadMember, SetAccountStatus,
     ListOwnedAgencies, AnonymizeMember
<1>2. overlapped' = overlapped
  BY DEF TeamStep, Quiet, Access, FindMember, ChangeMemberRole, RemoveMember, FindCurrentOwner,
     FindNewOwner, TransferOwnership, CheckNotMember, CheckNonePending, CreateInvitation,
     FindInvitation, RevokeInvitation, JudgeInvitation, ListMembers, AddMember, PromoteAccount,
     MarkAccepted, CreateAgency, CreateOwnerMembership, ReadAgency, DecideAgency, FindAgency,
     CheckOwnMembership, DeleteAgency, ReadType, SetAccountType, LoadMember, SetAccountStatus,
     ListOwnedAgencies, AnonymizeMember
<1> QED BY <1>1, <1>2 DEF Running, NotYet, Over

LEMMA AloneAfterRequest ==
  ASSUME TeamShape, AloneInvariant, NEW r \in TeamRequests, TeamAsks(r)
  PROVE  AloneInvariant'
<1> SUFFICES ASSUME ~overlapped' PROVE TeamInOrder' /\ KnownSoFar'
  BY DEF AloneInvariant
<1>1. ASSUME NEW q, Starts(r, q), Knows(q) PROVE TeamInOrder' /\ KnownSoFar'
  <2>1. UNCHANGED Data /\ ~overlapped /\ Running = {}
    BY <1>1 DEF Starts, Data
  <2>2. TeamInOrder'
    BY <2>1, ReadsKeepOrder DEF AloneInvariant
  <2>3. Knows(q)'
    BY <1>1, <2>1, ReadsKeepKnowledge
  <2>4. doing' = [doing EXCEPT ![r] = q]
    BY <1>1 DEF Starts
  <2>5. \A s \in TeamRequests \ {r} : s \notin Running'
    BY <2>1, <2>4 DEF TeamShape, Running
  <2>6. doing'[r] = q
    BY <2>4 DEF TeamShape
  <2>7. Running' \subseteq {r}
    BY <2>5 DEF Running
  <2> QED BY <2>2, <2>3, <2>6, <2>7 DEF KnownSoFar
<1> DEFINE Q(op, u, v, role) ==
        [op |-> op, pc |-> "access", actor |-> u, type |-> account[u].type,
         target |-> v, id |-> member[v].id, mine |-> 0, role |-> role]
<1>2. CASE TeamRequest(r)
  <2>1. \A u, v \in People, op \in {"changeRole", "invite", "remove", "transfer"},
           role \in GrantableRoles : SignedIn(u) => Knows(Q(op, u, v, role))
    BY DEF Knows, SignedIn
  <2>2. PICK u \in People, v \in People :
          /\ SignedIn(u)
          /\ \/ \E role \in GrantableRoles, op \in {"changeRole", "invite"} :
                  Starts(r, Q(op, u, v, role))
             \/ \E op \in {"remove", "transfer"} : Starts(r, Q(op, u, v, "STAFF"))
    BY <1>2, Zenon DEF TeamRequest
  <2>3. PICK role \in GrantableRoles, op \in {"changeRole", "invite", "remove", "transfer"} :
          Starts(r, Q(op, u, v, role))
    <3>1. "STAFF" \in GrantableRoles
      BY DEF GrantableRoles
    <3> HIDE DEF Q
    <3> QED BY <2>2, <3>1
  <2> HIDE DEF Q
  <2> QED BY <1>1, <2>1, <2>2, <2>3
<1>3. CASE RevokeRequest(r)
  BY <1>3, <1>1 DEF RevokeRequest, Knows, SignedIn
<1>4. CASE AcceptRequest(r)
  BY <1>4, <1>1 DEF AcceptRequest, Knows, SignedIn
<1>5. CASE ApplyRequest(r)
  BY <1>5, <1>1 DEF ApplyRequest, Knows, SignedIn
<1>6. CASE DecisionRequest(r)
  BY <1>6, <1>1 DEF DecisionRequest, Decisions, Knows
<1>7. CASE DeleteAgencyRequest(r)
  BY <1>7, <1>1 DEF DeleteAgencyRequest, Knows
<1>8. CASE SetTypeRequest(r)
  BY <1>8, <1>1 DEF SetTypeRequest, Knows
<1>9. CASE AccountRequest(r)
  BY <1>9, <1>1 DEF AccountRequest, Knows
<1> QED BY <1>2, <1>3, <1>4, <1>5, <1>6, <1>7, <1>8, <1>9 DEF TeamAsks

LEMMA AloneAfterRead ==
  ASSUME TeamShape, TeamInOrder, KnownSoFar, NEW r \in Running, UNCHANGED Data,
         NEW q, Becomes(r, q), q = Over \/ Knows(q)
  PROVE  TeamInOrder' /\ KnownSoFar'
  BY ReadsKeepOrder, ReadsKeepKnowledge, StillAlone

(* The steps that only read: what each of them establishes.                  *)
LEMMA AloneAfterReadingStep ==
  ASSUME TeamShape, TeamInOrder, KnownSoFar, NEW r \in Running,
         \/ Access(r) \/ FindMember(r) \/ FindCurrentOwner(r) \/ FindNewOwner(r)
         \/ CheckNotMember(r) \/ CheckNonePending(r) \/ FindInvitation(r) \/ JudgeInvitation(r)
         \/ ListMembers(r) \/ ReadAgency(r) \/ FindAgency(r) \/ CheckOwnMembership(r)
         \/ ReadType(r) \/ LoadMember(r) \/ ListOwnedAgencies(r)
  PROVE  TeamInOrder' /\ KnownSoFar'
<1> DEFINE q == doing[r]
<1>q. q \in Requests /\ Knows(q)
  BY DEF TeamShape, KnownSoFar, Running
<1>o. ASSUME UNCHANGED Data, Finishes(r) PROVE TeamInOrder' /\ KnownSoFar'
  BY <1>o, AloneAfterRead DEF Finishes
<1>p. ASSUME UNCHANGED Data, NEW pc, Proceeds(r, pc), Knows([q EXCEPT !.pc = pc])
      PROVE  TeamInOrder' /\ KnownSoFar'
  BY <1>p, AloneAfterRead DEF Proceeds
<1>1. CASE Access(r)
  <2>1. q \in OnMember \union Inviting \union Transferring \union Revoking
    BY <1>1, <1>q, StandsAs DEF Access, Stands
  <2>2. CASE ~Allowed(q)
    BY <1>1, <2>2, <1>o DEF Access
  <2>3. CASE Allowed(q)
    <3> DEFINE a == [q EXCEPT !.pc = IF q.op = "transfer" THEN "current" ELSE "find",
                              !.mine = member[q.actor].id]
    <3>1. Becomes(r, a) /\ UNCHANGED Data
      BY <1>1, <2>3 DEF Access
    <3>2. /\ a.op = q.op /\ a.actor = q.actor /\ a.pc \in {"current", "find"}
          /\ q.op \in {"changeRole", "remove", "invite", "transfer", "revoke"}
      BY <2>1 DEF OnMember, Inviting, Transferring, Revoking
    <3>3. Knows(a)
      BY <1>q, <2>3, <3>2 DEF Knows, Allowed
    <3> HIDE DEF a
    <3> QED BY <3>1, <3>3, AloneAfterRead
  <2> QED BY <2>2, <2>3
<1>2. CASE FindMember(r)
  <2>1. q \in OnMember
    BY <1>2, <1>q, StandsAs DEF FindMember, Stands, OnMember, Inviting, Revoking
  <2>2. q.pc = "find" /\ member[q.target].role # "OWNER" => Knows([q EXCEPT !.pc = "write"])
    BY <1>q, <2>1 DEF Knows, OnMember
  <2> QED BY <1>2, <2>2, <1>o, <1>p DEF FindMember, Stands
<1>3. CASE FindCurrentOwner(r)
  <2>1. q \in Transferring
    BY <1>3, <1>q, StandsAs DEF FindCurrentOwner, Stands
  <2>2. q.pc = "current" /\ member[q.actor].role = "OWNER" /\ q.actor # q.target
          => Knows([q EXCEPT !.pc = "target"])
    BY <1>q, <2>1 DEF Knows, Transferring
  <2> QED BY <1>3, <2>2, <1>o, <1>p DEF FindCurrentOwner, Stands
<1>4. CASE FindNewOwner(r)
  <2>1. q \in Transferring
    BY <1>4, <1>q, StandsAs DEF FindNewOwner, Stands
  <2>2. q.pc = "target" => Knows([q EXCEPT !.pc = "swap"])
    BY <1>q, <2>1 DEF Knows, Transferring
  <2> QED BY <1>4, <2>2, <1>o, <1>p DEF FindNewOwner, Stands
<1>5. CASE CheckNotMember(r)
  <2>1. q \in Inviting
    BY <1>5, <1>q, StandsAs DEF CheckNotMember, Stands, OnMember, Inviting, Revoking
  <2>2. q.pc = "find" => Knows([q EXCEPT !.pc = "pending"])
    BY <1>q, <2>1 DEF Knows, Inviting
  <2> QED BY <1>5, <2>2, <1>o, <1>p DEF CheckNotMember, Stands
<1>6. CASE CheckNonePending(r)
  <2>1. q \in Inviting
    BY <1>6, <1>q, StandsAs DEF CheckNonePending, Stands
  <2>2. /\ q.pc = "pending"
        /\ ~\E i \in Invites : invite[i].to = q.target /\ Open(i) /\ ~invite[i].expired
        => Knows([q EXCEPT !.pc = "create"])
    BY <1>q, <2>1 DEF Knows, Inviting
  <2> QED BY <1>6, <2>2, <1>o, <1>p DEF CheckNonePending, Stands
<1>7. CASE FindInvitation(r)
  <2>1. q \in Revoking
    BY <1>7, <1>q, StandsAs DEF FindInvitation, Stands, OnMember, Inviting, Revoking
  <2>2. q.pc = "find" /\ Open(q.inv) => Knows([q EXCEPT !.pc = "revoke"])
    BY <1>q, <2>1 DEF Knows, Revoking
  <2> QED BY <1>7, <2>2, <1>o, <1>p DEF FindInvitation, Stands
<1>8. CASE JudgeInvitation(r)
  <2>1. q \in Accepting
    BY <1>8, <1>q, StandsAs DEF JudgeInvitation, Stands
  <2>2. Open(q.inv) => Knows([q EXCEPT !.pc = "members"])
    BY <1>q, <2>1 DEF Knows, Accepting
  <2> QED BY <1>8, <2>2, <1>o, <1>p DEF JudgeInvitation
<1>9. CASE ListMembers(r)
  <2>1. q \in Accepting /\ q.pc = "members"
    BY <1>9, <1>q, StandsAs DEF ListMembers, Stands
  <2>2. \A pc \in {"mark", "promote", "add"} : Knows([q EXCEPT !.pc = pc])
    BY <1>q, <2>1 DEF Knows, Accepting
  <2>3. Promotion(r) \in {"mark", "promote"}
    BY DEF Promotion
  <2> QED BY <1>9, <2>2, <2>3, <1>p DEF ListMembers
<1>10. CASE ReadAgency(r)
  <2>1. q \in Deciding
    BY <1>10, <1>q, StandsAs DEF ReadAgency, Stands
  <2>2. Knows([q EXCEPT !.pc = "decide"])
    BY <2>1 DEF Knows, Deciding, Decisions
  <2> QED BY <1>10, <2>2, <1>o, <1>p DEF ReadAgency
<1>11. CASE FindAgency(r)
  <2>1. q \in Closing
    BY <1>11, <1>q, StandsAs DEF FindAgency, Stands
  <2>2. Knows([q EXCEPT !.pc = "mine"])
    BY <2>1 DEF Knows, Closing
  <2> QED BY <1>11, <2>2, <1>o, <1>p DEF FindAgency
<1>12. CASE CheckOwnMembership(r)
  <2>1. q \in Closing
    BY <1>12, <1>q, StandsAs DEF CheckOwnMembership, Stands
  <2>2. Knows([q EXCEPT !.pc = "drop"])
    BY <2>1 DEF Knows, Closing
  <2> QED BY <1>12, <2>2, <1>o, <1>p DEF CheckOwnMembership
<1>13. CASE ReadType(r)
  <2>1. q \in Typing
    BY <1>13, <1>q, StandsAs DEF ReadType, Stands
  <2>2. Knows([q EXCEPT !.pc = "writeType"])
    BY <2>1 DEF Knows, Typing
  <2> QED BY <1>13, <2>2, <1>o, <1>p DEF ReadType
<1>14. CASE LoadMember(r)
  <2>1. q \in Setting \union Deleting
    BY <1>14, <1>q, StandsAs DEF LoadMember, Stands
  <2>2. \A pc \in {"owned", "setStatus"} : Knows([q EXCEPT !.pc = pc])
    BY <2>1 DEF Knows, Setting, Deleting
  <2>3. UNCHANGED Data /\ (Finishes(r) \/ Proceeds(r, "owned") \/ Proceeds(r, "setStatus"))
    BY <1>14 DEF LoadMember
  <2> QED BY <2>2, <2>3, <1>o, <1>p
<1>15. CASE ListOwnedAgencies(r)
  <2>1. q \in Deleting
    BY <1>15, <1>q, StandsAs DEF ListOwnedAgencies, Stands
  <2>2. q.pc = "owned" /\ q.op = "delete" /\ q.moves = FALSE /\ q.target \in People
    BY <1>15, <2>1 DEF ListOwnedAgencies, Stands, Deleting
  <2>3. CASE agency.owner # q.target
    <3>1. Knows([q EXCEPT !.pc = "anonymize"])
      BY <2>1, <2>2, <2>3 DEF Knows, Deleting
    <3> QED BY <1>15, <2>3, <3>1, <1>p DEF ListOwnedAgencies
  <2>4. CASE agency.owner = q.target
    <3>1. Knows([q EXCEPT !.pc = "anonymize", !.moves = TRUE])
      BY <2>1, <2>2, <2>4 DEF Knows, Deleting
    <3>2. CASE q.heir \in Successors(q.target)
      <4>1. UNCHANGED Data /\ Becomes(r, [q EXCEPT !.pc = "anonymize", !.moves = TRUE])
        BY <1>15, <2>4, <3>2 DEF ListOwnedAgencies
      <4> QED BY <3>1, <4>1, AloneAfterRead
    <3>3. CASE q.heir \notin Successors(q.target)
      BY <1>15, <2>4, <3>3, <1>o DEF ListOwnedAgencies
    <3> QED BY <3>2, <3>3
  <2> QED BY <2>3, <2>4
<1> QED BY <1>1, <1>2, <1>3, <1>4, <1>5, <1>6, <1>7, <1>8, <1>9, <1>10, <1>11, <1>12, <1>13,
           <1>14, <1>15

(* Members may come and go as long as the owners stay.                       *)
LEMMA SameOwners ==
  ASSUME TeamInOrder, UNCHANGED <<agency, account, invite>>, Owners' = Owners,
         Members = {} <=> Members' = {},
         \A u \in Members' : u \in Members \/ account[u].status # "DELETED"
  PROVE  TeamInOrder'
<1>1. OneOwner'
  BY DEF TeamInOrder, OneOwner, Exists
<1>2. DeletedLeaveNothing'
  BY DEF TeamInOrder, DeletedLeaveNothing, Open
<1>3. InvitationsSettledOnce'
  BY DEF TeamInOrder, InvitationsSettledOnce, Open
<1>4. NothingWithoutAgency'
  BY DEF TeamInOrder, NothingWithoutAgency, Open, Exists
<1> QED BY <1>1, <1>2, <1>3, <1>4 DEF TeamInOrder

(* The steps that write members or the agency.                               *)
LEMMA AloneAfterMembers ==
  ASSUME TeamShape, TeamInOrder, KnownSoFar, NEW r \in Running,
         \/ ChangeMemberRole(r) \/ RemoveMember(r) \/ TransferOwnership(r) \/ AddMember(r)
         \/ CreateAgency(r) \/ CreateOwnerMembership(r) \/ DecideAgency(r) \/ DeleteAgency(r)
  PROVE  TeamInOrder' /\ KnownSoFar'
<1> DEFINE q == doing[r]
<1>q. q \in Requests /\ Knows(q)
  BY DEF TeamShape, KnownSoFar, Running
<1>f. ASSUME Finishes(r) PROVE KnownSoFar'
  BY <1>f, StillAlone DEF Finishes
<1>m. member \in [People -> [id : Nat, role : Roles \union {NoRole}]]
  BY DEF TeamShape, TeamTypeOK
<1>1. CASE ChangeMemberRole(r)
  <2>1. /\ q.target \in People /\ q.role \in GrantableRoles
        /\ member[q.target].role \notin {NoRole, "OWNER"}
    BY <1>1, <1>q, StandsAs DEF ChangeMemberRole, Stands, OnMember, Knows, RowOf
  <2>2. \A u \in People : /\ member'[u].role = "OWNER" <=> member[u].role = "OWNER"
                          /\ member'[u].role = NoRole <=> member[u].role = NoRole
    BY <1>1, <1>m, <2>1 DEF ChangeMemberRole, GrantableRoles, NoRole
  <2>3. Owners' = Owners /\ Members' = Members
    BY <2>2 DEF Owners, Members
  <2> QED BY <1>1, <2>3, <1>f, SameOwners DEF ChangeMemberRole
<1>2. CASE RemoveMember(r)
  <2>1. /\ q.target \in People /\ member[q.target].role \notin {NoRole, "OWNER"}
    BY <1>2, <1>q, StandsAs DEF RemoveMember, Stands, OnMember, Knows, RowOf
  <2>2. \A u \in People : /\ member'[u].role = "OWNER" <=> member[u].role = "OWNER"
                          /\ member'[u].role # NoRole => member[u].role # NoRole
    BY <1>2, <1>m, <2>1 DEF RemoveMember, NoRole
  <2>3. Owners' = Owners /\ Members' \subseteq Members
    BY <2>2 DEF Owners, Members
  <2>4. q.target \in Members
    BY <2>1 DEF Members
  <2>5. Owners = {agency.owner}
    BY <2>4 DEF TeamInOrder, OneOwner, NothingWithoutAgency
  <2>6. Owners' \subseteq Members'
    BY DEF Owners, Members, NoRole
  <2>7. Members # {} /\ Members' # {}
    BY <2>3, <2>4, <2>5, <2>6
  <2> QED BY <1>2, <2>3, <2>7, <1>f, SameOwners DEF RemoveMember
<1>3. CASE AddMember(r)
  <2>1. q \in Accepting
    BY <1>3, <1>q, StandsAs DEF AddMember, Stands
  <2>2. /\ q.pc = "add" /\ q.actor \in People /\ q.role \in GrantableRoles /\ q.inv \in Invites
        /\ Open(q.inv) /\ account[q.actor].status = "ACTIVE" /\ q.actor \notin Members
    BY <1>3, <1>q, <2>1 DEF AddMember, Stands, Accepting, Knows
  <2>3. member' = [member EXCEPT ![q.actor] = [id |-> @.id + 1, role |-> q.role]]
    BY <1>3 DEF AddMember
  <2>4. /\ \A u \in People \ {q.actor} : member'[u] = member[u]
        /\ member'[q.actor].role = q.role
    BY <1>m, <2>2, <2>3
  <2>5. Owners' = Owners /\ Members' = Members \union {q.actor}
    BY <2>2, <2>4 DEF Owners, Members, GrantableRoles, NoRole
  <2>6. Members # {}
    BY <2>2 DEF TeamInOrder, NothingWithoutAgency
  <2>7. TeamInOrder'
    BY <1>3, <2>2, <2>5, <2>6, SameOwners DEF AddMember
  <2>8. PICK n : n = [q EXCEPT !.pc = Promotion(r)]
    OBVIOUS
  <2>9. Becomes(r, n)
    BY <1>3, <2>8 DEF AddMember, Proceeds
  <2>10. n.op = "accept" /\ n.pc \in {"mark", "promote"} /\ n.actor = q.actor /\ n.inv = q.inv
    BY <2>1, <2>8 DEF Accepting, Promotion
  <2>11. Knows(n)'
    BY <1>3, <2>2, <2>10 DEF AddMember, Knows, Open
  <2> QED BY <2>7, <2>9, <2>11, StillAlone
<1>4. CASE CreateOwnerMembership(r)
  <2>1. q \in Applying
    BY <1>4, <1>q, StandsAs DEF CreateOwnerMembership, Stands
  <2>2. /\ q.actor \in People /\ account[q.actor].status = "ACTIVE"
        /\ Members = {} /\ agency.owner = q.actor
    BY <1>4, <1>q, <2>1 DEF CreateOwnerMembership, Stands, Applying, Knows
  <2>3. member' = [member EXCEPT ![q.actor] = [id |-> @.id + 1, role |-> "OWNER"]]
    BY <1>4 DEF CreateOwnerMembership
  <2>4. /\ \A u \in People \ {q.actor} : member'[u] = member[u]
        /\ member'[q.actor].role = "OWNER"
    BY <1>m, <2>2, <2>3
  <2>5. Owners' = {q.actor} /\ Members' = {q.actor}
    BY <2>2, <2>4 DEF Owners, Members, NoRole
  <2>6. TeamInOrder'
    BY <1>4, <2>2, <2>5 DEF CreateOwnerMembership, TeamInOrder, OneOwner, DeletedLeaveNothing,
       InvitationsSettledOnce, NothingWithoutAgency, Exists, Open
  <2>7. CASE Finishes(r)
    BY <2>6, <2>7, <1>f
  <2>8. CASE Proceeds(r, "promote")
    <3>1. PICK n : n = [q EXCEPT !.pc = "promote"]
      OBVIOUS
    <3>2. Becomes(r, n)
      BY <2>8, <3>1 DEF Proceeds
    <3>3. n.op = "apply" /\ n.pc = "promote" /\ n.actor = q.actor
      BY <2>1, <3>1 DEF Applying
    <3>4. Knows(n)'
      BY <1>4, <2>2, <3>3 DEF CreateOwnerMembership, Knows
    <3> QED BY <2>6, <3>2, <3>4, StillAlone
  <2> QED BY <1>4, <2>7, <2>8 DEF CreateOwnerMembership
<1>5. CASE TransferOwnership(r)
  <2>1. q \in Transferring
    BY <1>5, <1>q, StandsAs DEF TransferOwnership, Stands
  <2>2. /\ q.actor \in People /\ q.target \in People /\ q.actor # q.target
        /\ q.actor \in Owners /\ q.target \in Members /\ q.actor \in Members
    BY <1>5, <1>q, <2>1 DEF TransferOwnership, Stands, Transferring, Knows, Owners
  <2>3. Exists /\ Owners = {agency.owner} /\ agency.owner = q.actor
    BY <2>2 DEF TeamInOrder, OneOwner, NothingWithoutAgency
  <2>4. /\ \A u \in People \ {q.actor, q.target} : member'[u] = member[u]
        /\ member'[q.actor].role = "ADMIN" /\ member'[q.target].role = "OWNER"
    BY <1>5, <1>m, <2>2 DEF TransferOwnership
  <2>5. Owners' = {q.target} /\ Members' = Members
    BY <2>2, <2>3, <2>4 DEF Owners, Members, NoRole
  <2>6. agency'.owner = q.target /\ agency'.status = agency.status
    BY <1>5 DEF TransferOwnership, TeamShape, TeamTypeOK
  <2>7. UNCHANGED <<account, invite>>
    BY <1>5 DEF TransferOwnership
  <2>8. TeamInOrder'
    BY <2>2, <2>3, <2>5, <2>6, <2>7 DEF TeamInOrder, OneOwner, DeletedLeaveNothing,
       InvitationsSettledOnce, NothingWithoutAgency, Exists, Open
  <2> QED BY <1>5, <2>8, <1>f DEF TransferOwnership
<1>6. CASE CreateAgency(r)
  <2>1. q \in Applying
    BY <1>6, <1>q, StandsAs DEF CreateAgency, Stands
  <2>2. q.actor \in People /\ account[q.actor].status = "ACTIVE" /\ q.op = "apply"
    BY <1>q, <2>1 DEF Applying, Knows
  <2>3. agency.status = "none" /\ agency' = [status |-> "PENDING_REVIEW", owner |-> q.actor]
    BY <1>6 DEF CreateAgency
  <2>4. UNCHANGED <<member, account, invite>>
    BY <1>6 DEF CreateAgency
  <2>5. Members = {} /\ Members' = {} /\ ~\E i \in Invites : Open(i)
    BY <2>3, <2>4 DEF TeamInOrder, NothingWithoutAgency, Exists, Members
  <2>6. TeamInOrder'
    BY <2>2, <2>3, <2>4, <2>5 DEF TeamInOrder, OneOwner, DeletedLeaveNothing,
       InvitationsSettledOnce, NothingWithoutAgency, Exists, Open
  <2>7. PICK n : n = [q EXCEPT !.pc = "ownerRow"]
    OBVIOUS
  <2>8. Becomes(r, n)
    BY <1>6, <2>7 DEF CreateAgency, Proceeds
  <2>9. n.op = "apply" /\ n.pc = "ownerRow" /\ n.actor = q.actor
    BY <2>1, <2>7 DEF Applying
  <2>10. Knows(n)'
    BY <2>2, <2>3, <2>4, <2>5, <2>9 DEF Knows
  <2> QED BY <2>6, <2>8, <2>10, StillAlone
<1>7. CASE DecideAgency(r)
  <2>1. q.op \in DOMAIN Decisions
    BY <1>7, <1>q, StandsAs DEF DecideAgency, Stands, Deciding
  <2>2. Decisions[q.op] \in {"VERIFIED", "REJECTED", "SUSPENDED"}
    BY <2>1 DEF Decisions
  <2>3. agency'.owner = agency.owner /\ Exists /\ Exists'
    BY <1>7, <2>2 DEF DecideAgency, Exists
  <2>4. UNCHANGED <<member, account, invite>>
    BY <1>7 DEF DecideAgency
  <2>5. TeamInOrder'
    BY <2>3, <2>4 DEF TeamInOrder, OneOwner, DeletedLeaveNothing, InvitationsSettledOnce,
       NothingWithoutAgency, Members, Owners, Open
  <2> QED BY <1>7, <2>5, <1>f DEF DecideAgency
<1>8. CASE DeleteAgency(r)
  <2>1. agency' = [status |-> "deleted", owner |-> NoUser]
    BY <1>8 DEF DeleteAgency
  <2>2. Members' = {} /\ \A i \in Invites : ~Open(i)' /\ ~invite'[i].accepted
    BY <1>8, <1>m DEF DeleteAgency, Members, Open, Gone, Unsent
  <2>3. ~Exists'
    BY <2>1 DEF Exists
  <2>4. TeamInOrder'
    BY <2>1, <2>2, <2>3, FounderIsUser DEF TeamInOrder, OneOwner, DeletedLeaveNothing,
       InvitationsSettledOnce, NothingWithoutAgency
  <2> QED BY <1>8, <2>4, <1>f DEF DeleteAgency
<1> QED BY <1>1, <1>2, <1>3, <1>4, <1>5, <1>6, <1>7, <1>8

(* The steps that write invitations or accounts.                             *)
LEMMA AloneAfterRecords ==
  ASSUME TeamShape, TeamInOrder, KnownSoFar, NEW r \in Running,
         \/ CreateInvitation(r) \/ RevokeInvitation(r) \/ MarkAccepted(r) \/ PromoteAccount(r)
         \/ SetAccountType(r) \/ SetAccountStatus(r) \/ AnonymizeMember(r)
  PROVE  TeamInOrder' /\ KnownSoFar'
<1> DEFINE q == doing[r]
<1>q. q \in Requests /\ Knows(q)
  BY DEF TeamShape, KnownSoFar, Running
<1>f. ASSUME Finishes(r) PROVE KnownSoFar'
  BY <1>f, StillAlone DEF Finishes
<1>m. /\ member \in [People -> [id : Nat, role : Roles \union {NoRole}]]
      /\ account \in [People -> Accounts]
      /\ invite \in [Invites -> [to : People \union {NoUser}, by : People \union {NoUser},
                     role : {"ADMIN", "STAFF"}, accepted : BOOLEAN, revoked : BOOLEAN,
                     expired : BOOLEAN]]
  BY DEF TeamShape, TeamTypeOK
<1>1. CASE CreateInvitation(r)
  <2>1. q \in Inviting
    BY <1>1, <1>q, StandsAs DEF CreateInvitation, Stands
  <2>2. /\ q.actor \in People /\ q.target \in People
        /\ account[q.actor].status = "ACTIVE" /\ q.actor \in Members
        /\ \A i \in Invites : invite[i].to = q.target /\ Open(i) => invite[i].expired
    BY <1>1, <1>q, <2>1 DEF CreateInvitation, Stands, Inviting, Knows, Members, NoRole
  <2>3. PICK i \in Invites :
          /\ invite[i] = Unsent
          /\ invite' = [invite EXCEPT ![i] = [Unsent EXCEPT !.to = q.target, !.by = q.actor,
                                                            !.role = q.role]]
    BY <1>1 DEF CreateInvitation
  <2>4. /\ \A j \in Invites \ {i} : invite'[j] = invite[j]
        /\ invite'[i].to = q.target /\ invite'[i].by = q.actor /\ ~invite'[i].accepted
    BY <1>m, <2>3 DEF Unsent
  <2>5. /\ UNCHANGED <<agency, member, account>> /\ Exists /\ Members' = Members
        /\ Owners' = Owners /\ Exists'
    BY <1>1 DEF CreateInvitation, Members, Owners, Exists
  <2>6. OneOwner' /\ NothingWithoutAgency'
    BY <2>2, <2>5 DEF TeamInOrder, OneOwner, NothingWithoutAgency
  <2>7. DeletedLeaveNothing'
    BY <2>2, <2>4, <2>5 DEF TeamInOrder, DeletedLeaveNothing, Open
  <2>8. InvitationsSettledOnce'
    BY <2>2, <2>4 DEF TeamInOrder, InvitationsSettledOnce, Open
  <2> QED BY <1>1, <2>6, <2>7, <2>8, <1>f DEF CreateInvitation, TeamInOrder
<1>2. CASE RevokeInvitation(r) \/ MarkAccepted(r)
  <2>1. PICK x \in Invites : x = q.inv /\ Open(x)
    <3>1. CASE RevokeInvitation(r)
      BY <3>1, <1>q, StandsAs DEF RevokeInvitation, Stands, Knows, Revoking
    <3>2. CASE MarkAccepted(r)
      BY <3>2, <1>q, StandsAs DEF MarkAccepted, Stands, Knows, Accepting
    <3> QED BY <1>2, <3>1, <3>2
  <2>2. \/ invite' = [invite EXCEPT ![x].revoked = TRUE]
        \/ invite' = [invite EXCEPT ![x].accepted = TRUE]
    BY <1>2, <2>1 DEF RevokeInvitation, MarkAccepted
  <2>3. /\ \A j \in Invites \ {x} : invite'[j] = invite[j]
        /\ ~Open(x)'
        /\ ~(invite'[x].accepted /\ invite'[x].revoked)
    <3>1. CASE invite' = [invite EXCEPT ![x].revoked = TRUE]
      BY <1>m, <2>1, <3>1 DEF Open
    <3>2. CASE invite' = [invite EXCEPT ![x].accepted = TRUE]
      BY <1>m, <2>1, <3>2 DEF Open
    <3> QED BY <2>2, <3>1, <3>2
  <2>4. /\ UNCHANGED <<agency, member, account>> /\ Members' = Members /\ Owners' = Owners
        /\ Exists' = Exists
    BY <1>2 DEF RevokeInvitation, MarkAccepted, Members, Owners, Exists
  <2>5. \A j \in Invites : Open(j)' => Open(j) /\ j # x
    BY <2>3 DEF Open
  <2>6. OneOwner' /\ NothingWithoutAgency'
    BY <2>4, <2>5 DEF TeamInOrder, OneOwner, NothingWithoutAgency
  <2>7. DeletedLeaveNothing'
    BY <2>3, <2>4, <2>5 DEF TeamInOrder, DeletedLeaveNothing
  <2>8. InvitationsSettledOnce'
    BY <2>3, <2>5 DEF TeamInOrder, InvitationsSettledOnce
  <2> QED BY <1>2, <2>6, <2>7, <2>8, <1>f DEF RevokeInvitation, MarkAccepted, TeamInOrder
<1>3. ASSUME UNCHANGED <<agency, member, invite>>,
             \A u \in People : account'[u].status = "DELETED" => account[u].status = "DELETED"
      PROVE  TeamInOrder'
  BY <1>3 DEF TeamInOrder, OneOwner, DeletedLeaveNothing, InvitationsSettledOnce,
     NothingWithoutAgency, Exists, Members, Owners, Open
<1>4. CASE PromoteAccount(r)
  <2>1. q \in Accepting \union Applying
    BY <1>4, <1>q, StandsAs DEF PromoteAccount, Stands
  <2>2. \A u \in People : account'[u].status = account[u].status
    BY <1>4, <1>m DEF PromoteAccount, Accounts
  <2>3. TeamInOrder'
    BY <1>3, <1>4, <2>2 DEF PromoteAccount
  <2>4. CASE q.op = "accept"
    <3>1. PICK n : n = [q EXCEPT !.pc = "mark"]
      OBVIOUS
    <3>2. Becomes(r, n)
      BY <1>4, <2>4, <3>1 DEF PromoteAccount, Proceeds
    <3>3. /\ n.op = "accept" /\ n.pc = "mark" /\ n.inv = q.inv /\ n.actor \in People
          /\ account[n.actor].status = "ACTIVE" /\ Open(n.inv)
      BY <1>4, <1>q, <2>1, <2>4, <3>1 DEF Accepting, Applying, Knows, PromoteAccount, Stands
    <3>4. Knows(n)'
      BY <1>4, <2>2, <3>3 DEF PromoteAccount, Knows, Open
    <3> QED BY <2>3, <3>2, <3>4, StillAlone
  <2> QED BY <1>4, <2>3, <2>4, <1>f DEF PromoteAccount
<1>5. CASE SetAccountType(r)
  <2>1. \A u \in People : account'[u].status = account[u].status
    BY <1>5, <1>m DEF SetAccountType, Accounts
  <2> QED BY <1>3, <1>5, <2>1, <1>f DEF SetAccountType
<1>6. CASE SetAccountStatus(r)
  <2>1. q.status \in {"ACTIVE", "DISABLED"}
    BY <1>6, <1>q, StandsAs DEF SetAccountStatus, Stands, Setting
  <2>2. \A u \in People : account'[u].status = "DELETED" => account[u].status = "DELETED"
    BY <1>6, <1>m, <2>1 DEF SetAccountStatus, Accounts
  <2> QED BY <1>3, <1>6, <2>2, <1>f DEF SetAccountStatus
<1>7. CASE AnonymizeMember(r)
  <2>1. q \in Deleting
    BY <1>7, <1>q, StandsAs DEF AnonymizeMember, Stands
  <2>2. q.target \in People /\ q.moves \in BOOLEAN /\ account[q.target].status # "DELETED"
    BY <1>7, <2>1 DEF AnonymizeMember, Deleting
  <2>3. \A u \in People \ {q.target} : account'[u].status = account[u].status
    BY <1>7, <1>m DEF AnonymizeMember, Erased, Accounts
  <2>4. \A i \in Invites :
          /\ invite'[i].to = invite[i].to /\ invite'[i].by = invite[i].by
          /\ invite'[i].accepted = invite[i].accepted /\ invite'[i].expired = invite[i].expired
          /\ Open(i)' <=> Open(i) /\ invite[i].by # q.target
          /\ invite'[i].revoked => invite[i].revoked \/ Open(i)
    <3> SUFFICES ASSUME NEW i \in Invites
                 PROVE  /\ invite'[i].to = invite[i].to /\ invite'[i].by = invite[i].by
                        /\ invite'[i].accepted = invite[i].accepted
                        /\ invite'[i].expired = invite[i].expired
                        /\ Open(i)' <=> Open(i) /\ invite[i].by # q.target
                        /\ invite'[i].revoked => invite[i].revoked \/ Open(i)
      OBVIOUS
    <3>1. invite'[i] = IF invite[i].by = q.target /\ Open(i)
                       THEN [invite[i] EXCEPT !.revoked = TRUE] ELSE invite[i]
      BY <1>7 DEF AnonymizeMember, Erased
    <3>2. CASE invite[i].by = q.target /\ Open(i)
      BY <1>m, <3>1, <3>2 DEF Open
    <3>3. CASE ~(invite[i].by = q.target /\ Open(i))
      BY <3>1, <3>3 DEF Open
    <3> QED BY <3>2, <3>3
  <2>5. InvitationsSettledOnce'
    BY <2>4 DEF TeamInOrder, InvitationsSettledOnce, Open
  <2>6. CASE q.moves
    <3>1. /\ agency.owner = q.target /\ q.heir \in Members /\ q.heir # q.target
          /\ account[q.heir].status = "ACTIVE"
      BY <1>7, <2>6 DEF AnonymizeMember, Successors
    <3>2. q.heir \in People /\ Exists /\ Owners = {q.target}
      BY <3>1 DEF TeamInOrder, OneOwner, NothingWithoutAgency, Members
    <3>3. /\ member'[q.target].role = NoRole /\ member'[q.heir].role = "OWNER"
          /\ \A u \in People \ {q.target, q.heir} : member'[u] = member[u]
      BY <1>7, <1>m, <2>2, <2>6, <3>1, <3>2 DEF AnonymizeMember
    <3>4. Owners' = {q.heir} /\ Members' = Members \ {q.target}
      BY <2>2, <3>1, <3>2, <3>3 DEF Owners, Members, NoRole
    <3>5. agency'.owner = q.heir /\ agency'.status = agency.status
      BY <1>7, <2>6 DEF AnonymizeMember, TeamShape, TeamTypeOK
    <3>6. OneOwner' /\ NothingWithoutAgency'
      BY <3>1, <3>2, <3>4, <3>5 DEF OneOwner, NothingWithoutAgency, Exists
    <3>7. DeletedLeaveNothing'
      BY <2>3, <2>4, <3>1, <3>4, <3>5 DEF TeamInOrder, DeletedLeaveNothing
    <3> QED BY <1>7, <2>5, <3>6, <3>7, <1>f DEF AnonymizeMember, TeamInOrder
  <2>7. CASE ~q.moves
    <3>1. agency.owner # q.target /\ agency' = agency
      BY <1>7, <1>q, <2>7 DEF AnonymizeMember, Stands, Knows
    <3>2. /\ member'[q.target].role = NoRole
          /\ \A u \in People \ {q.target} : member'[u] = member[u]
      BY <1>7, <1>m, <2>2, <2>7 DEF AnonymizeMember
    <3>3. Members' = Members \ {q.target} /\ Owners' = Owners \ {q.target}
      BY <3>2 DEF Members, Owners, NoRole
    <3>4. Members # {} => Exists /\ Owners = {agency.owner} /\ Owners' = Owners
      BY <3>1, <3>3 DEF TeamInOrder, OneOwner, NothingWithoutAgency
    <3>5. Members # {} => Members' # {}
      BY <3>1, <3>3, <3>4 DEF Members, Owners, NoRole
    <3>6. OneOwner' /\ NothingWithoutAgency'
      BY <2>4, <3>1, <3>3, <3>4, <3>5 DEF TeamInOrder, OneOwner, NothingWithoutAgency, Exists
    <3>7. DeletedLeaveNothing'
      BY <2>3, <2>4, <3>1, <3>3 DEF TeamInOrder, DeletedLeaveNothing
    <3> QED BY <1>7, <2>5, <3>6, <3>7, <1>f DEF AnonymizeMember, TeamInOrder
  <2> QED BY <2>2, <2>6, <2>7
<1> QED BY <1>1, <1>2, <1>4, <1>5, <1>6, <1>7

LEMMA AloneAfterExpiry ==
  ASSUME TeamShape, TeamInOrder, KnownSoFar, NEW i \in Invites, InvitationExpires(i)
  PROVE  TeamInOrder' /\ KnownSoFar'
<1>1. UNCHANGED <<agency, member, account, doing>>
  BY DEF InvitationExpires
<1>2. \A j \in Invites :
        /\ invite'[j].to = invite[j].to /\ invite'[j].by = invite[j].by
        /\ invite'[j].accepted = invite[j].accepted /\ invite'[j].revoked = invite[j].revoked
        /\ invite[j].expired => invite'[j].expired
  BY DEF InvitationExpires, TeamShape, TeamTypeOK
<1>3. \A j \in Invites : Open(j)' <=> Open(j)
  BY <1>2 DEF Open
<1>4. Members' = Members /\ Owners' = Owners /\ Exists' = Exists /\ Running' = Running
  BY <1>1 DEF Members, Owners, Exists, Running
<1>5. TeamInOrder'
  BY <1>1, <1>2, <1>3, <1>4 DEF TeamInOrder, OneOwner, DeletedLeaveNothing, InvitationsSettledOnce,
     NothingWithoutAgency
<1>6. \A r \in Running : Knows(doing[r]) => Knows(doing[r])'
  <2> SUFFICES ASSUME NEW r \in Running, Knows(doing[r]) PROVE Knows(doing[r])'
    OBVIOUS
  <2>1. PICK q : q = doing[r] /\ q = doing'[r]
    BY <1>1
  <2>2. q.pc = "revoke" \/ (q.op = "accept" /\ q.pc # "judge") => q.inv \in Invites
    <3>1. q \in Requests \ {NotYet, Over}
      BY <2>1 DEF TeamShape, Running
    <3>2. q.op = "accept" => q \in Accepting
      BY <3>1 DEF Requests, OnMember, Inviting, Transferring, Revoking, Applying, Deciding,
         Decisions, Closing, Typing, Setting, Deleting
    <3> QED BY <3>1, <3>2, StandsAs DEF Accepting, Revoking
  <2> QED BY <1>1, <1>2, <1>3, <1>4, <2>1, <2>2 DEF Knows
<1> QED BY <1>1, <1>4, <1>5, <1>6 DEF KnownSoFar

(* As long as no two requests overlap, whatever their order and wherever     *)
(* they fail: one owner, the one the agency's row names; nothing left of a   *)
(* deleted account; every invitation settled once (teamService,              *)
(* invitationService, agencyService, accountActionService).                  *)
THEOREM AloneTheorem == TeamSpec => []SoundWhenAlone
<1>1. TeamShape /\ AloneInvariant /\ [TeamNext]_teamVars => AloneInvariant'
  <2> SUFFICES ASSUME TeamShape, AloneInvariant, [TeamNext]_teamVars PROVE AloneInvariant'
    OBVIOUS
  <2>1. ASSUME NEW r \in TeamRequests, TeamAsks(r) PROVE AloneInvariant'
    BY <2>1, AloneAfterRequest
  <2>2. ASSUME NEW r \in TeamRequests, TeamStep(r) PROVE AloneInvariant'
    <3>1. r \in Running /\ overlapped' = overlapped
      BY <2>2, StepsAreOfRunning
    <3> QED BY <2>2, <3>1, AloneAfterReadingStep, AloneAfterMembers, AloneAfterRecords
            DEF TeamStep, AloneInvariant
  <2>3. ASSUME NEW r \in TeamRequests, Breaks(r) PROVE AloneInvariant'
    BY <2>3, AloneAfterRead DEF Breaks, Finishes, Quiet, AloneInvariant
  <2>4. ASSUME NEW i \in Invites, InvitationExpires(i) PROVE AloneInvariant'
    BY <2>4, AloneAfterExpiry DEF InvitationExpires, Quiet, AloneInvariant
  <2>5. CASE UNCHANGED teamVars
    BY <2>5 DEF teamVars, AloneInvariant, TeamInOrder, OneOwner, DeletedLeaveNothing,
       InvitationsSettledOnce, NothingWithoutAgency, KnownSoFar, Knows, Running, Exists,
       Members, Owners, Open
  <2> QED BY <2>1, <2>2, <2>3, <2>4, <2>5 DEF TeamNext
<1>2. AloneInvariant => SoundWhenAlone
  BY DEF AloneInvariant, TeamInOrder, SoundWhenAlone
<1> QED BY <1>1, <1>2, AloneInitially, TeamShapeTheorem, PTL DEF TeamSpec

(***************************************************************************)
(* Rows in order.                                                          *)
(***************************************************************************)
\* Positions that tell rows apart: what the unique index gives for the rows of
\* one parent.
Spread(v, rows) ==
  /\ IsFiniteSet(rows) /\ \A i \in rows : v[i].at \in Int
  /\ \A i, j \in rows : v[i].at = v[j].at => i = j

LEMMA RankIsOrder ==
  ASSUME NEW v, NEW rows, Spread(v, rows), NEW i \in rows
  PROVE  /\ Rank(v, rows, i) \in 1..Cardinality(rows)
         /\ \A j \in rows : v[j].at < v[i].at => Rank(v, rows, j) < Rank(v, rows, i)
<1> DEFINE Below(x) == {j \in rows : v[j].at < v[x].at}
<1>1. \A x \in rows : IsFiniteSet(Below(x)) /\ Cardinality(Below(x)) \in Nat
  BY FS_Subset, FS_CardinalityType DEF Spread
<1>2. Cardinality(rows) \in Nat
  BY FS_CardinalityType DEF Spread
<1>3. Cardinality(Below(i)) < Cardinality(rows)
  <2>1. i \notin Below(i)
    BY DEF Spread
  <2>2. Below(i) \subseteq rows /\ Below(i) # rows
    BY <2>1
  <2>3. Cardinality(Below(i)) <= Cardinality(rows) /\ Cardinality(Below(i)) # Cardinality(rows)
    BY <2>2, FS_Subset DEF Spread
  <2> QED
    BY <1>1, <1>2, <2>3
<1>4. ASSUME NEW j \in rows, v[j].at < v[i].at
      PROVE  Cardinality(Below(j)) < Cardinality(Below(i))
  <2>1. j \in Below(i) /\ j \notin Below(j)
    BY <1>4 DEF Spread
  <2>2. Below(j) \subseteq Below(i)
    BY <1>4 DEF Spread
  <2>3. Cardinality(Below(j)) <= Cardinality(Below(i)) /\ Cardinality(Below(j)) # Cardinality(Below(i))
    BY <1>1, <2>1, <2>2, FS_Subset
  <2> QED
    BY <1>1, <2>3
<1>5. \A x \in rows : Rank(v, rows, x) = 1 + Cardinality(Below(x))
  BY DEF Rank
<1> HIDE DEF Below
<1> QED
  BY <1>1, <1>2, <1>3, <1>4, <1>5

\* Sorting lists every row exactly once.
LEMMA OrderedLists ==
  ASSUME NEW v, NEW rows, Spread(v, rows)
  PROVE  /\ Cardinality(rows) \in Nat
         /\ Ordered(v, rows) \in Seq(rows)
         /\ Len(Ordered(v, rows)) = Cardinality(rows)
         /\ DOMAIN Ordered(v, rows) = 1..Cardinality(rows)
         /\ \A i \in rows : /\ Rank(v, rows, i) \in 1..Cardinality(rows)
                            /\ Ordered(v, rows)[Rank(v, rows, i)] = i
         /\ \A k \in 1..Cardinality(rows) :
              Ordered(v, rows)[k] \in rows /\ Rank(v, rows, Ordered(v, rows)[k]) = k
<1> DEFINE n == Cardinality(rows)
           rank == [i \in rows |-> Rank(v, rows, i)]
<1>1. n \in Nat
  BY FS_CardinalityType DEF Spread
<1>2. rank \in [rows -> 1..n]
  BY RankIsOrder
<1>3. ASSUME NEW i \in rows, NEW j \in rows, Rank(v, rows, i) = Rank(v, rows, j)
      PROVE  i = j
  <2>1. v[i].at \in Int /\ v[j].at \in Int
    BY DEF Spread
  <2>2. ~ (v[i].at < v[j].at) /\ ~ (v[j].at < v[i].at)
    BY <1>1, <1>3, RankIsOrder
  <2> QED
    BY <2>1, <2>2 DEF Spread
<1>4. rank \in Injection(rows, 1..n)
  BY <1>2, <1>3 DEF Injection, IsInjective
<1>5. IsFiniteSet(1..n) /\ Cardinality(1..n) = n
  BY <1>1, FS_Interval
<1>6. rank \in Surjection(rows, 1..n)
  BY <1>4, <1>5, FS_Injection
<1>7. \A k \in 1..n : \E i \in rows : Rank(v, rows, i) = k
  BY <1>6 DEF Surjection
<1>8. \A k \in 1..n : Ordered(v, rows)[k] \in rows /\ Rank(v, rows, Ordered(v, rows)[k]) = k
  BY <1>7 DEF Ordered
<1>9. \A i \in rows : Rank(v, rows, i) \in 1..n /\ Ordered(v, rows)[Rank(v, rows, i)] = i
  BY <1>2, <1>3, <1>8
<1>10. Ordered(v, rows) \in [1..n -> rows]
  BY <1>8 DEF Ordered
<1>11. Ordered(v, rows) \in Seq(rows) /\ Len(Ordered(v, rows)) = n
  BY <1>1, <1>10, SeqDef
<1> QED
  BY <1>1, <1>8, <1>9, <1>10, <1>11

\* The rows of one parent have a position each.
LEMMA ChildrenSpread ==
  ASSUME NEW v, IsFiniteSet(DOMAIN v), \A id \in PlacesOf(v) : IsRow(v[id]), KeysAreUnique(v),
         NEW parent, NEW rows, rows \subseteq Children(v, parent)
  PROVE  Spread(v, rows) /\ rows \subseteq PlacesOf(v)
<1>1. rows \subseteq PlacesOf(v) /\ \A i \in rows : v[i].in = parent
  BY DEF Children, PlacesOf
<1>2. IsFiniteSet(rows)
  BY <1>1, FS_Subset DEF PlacesOf
<1>3. \A i \in rows : v[i].at \in Int
  BY <1>1 DEF IsRow
<1>4. \A i, j \in rows : v[i].at = v[j].at => i = j
  BY <1>1 DEF KeysAreUnique, Key
<1> QED
  BY <1>1, <1>2, <1>3, <1>4 DEF Spread

(***************************************************************************)
(* Lists of statements.                                                    *)
(***************************************************************************)
\* A statement an edit may come to: it numbers, moves and deletes places, not the
\* trip or the itinerary, and a new row has its final position.
Sound(s) ==
  /\ s.do \in {"setAt", "setDay", "setRoute", "setStatus", "insert", "delete", "deleteDays",
               "shift", "bump", "resequence", "renumber", "place", "clear"}
  /\ s.do = "setAt" => s.at \in Int
  /\ s.do = "insert" => IsRow(s.row) /\ s.row.at >= 0 /\ s.id \notin {Trip, Itin}
  /\ s.do = "delete" => s.id \notin {Trip, Itin}
  /\ s.do = "shift" => s.by \in Nat
  /\ s.do = "place" => s.slot \in Slots

Sinks(s) == s.do = "setAt" /\ s.at < 0
Settles(s, id) == (s.do = "setAt" /\ s.id = id /\ s.at >= 0) \/ (s.do = "place" /\ s.id = id)
Bumps(s) == s.do = "bump"

LEMMA Statements ==
  /\ \A id, at : /\ at \in Int => Sound(SetAt(id, at))
                 /\ Sinks(SetAt(id, at)) <=> at < 0
                 /\ \A x : Settles(SetAt(id, at), x) <=> (id = x /\ at >= 0)
                 /\ SetAt(id, at).id = id /\ ~ Bumps(SetAt(id, at))
  /\ \A id, day : Sound(SetDay(id, day)) /\ ~ Sinks(SetDay(id, day)) /\ ~ Bumps(SetDay(id, day))
  /\ \A id, r : Sound(SetRoute(id, r)) /\ ~ Sinks(SetRoute(id, r)) /\ ~ Bumps(SetRoute(id, r))
  /\ \A id, x : Sound(SetStatus(id, x)) /\ ~ Sinks(SetStatus(id, x)) /\ ~ Bumps(SetStatus(id, x))
  /\ \A id, parent, at :
       /\ at \in Int /\ at >= 0 /\ id \notin {Trip, Itin} => Sound(Insert(id, parent, at))
       /\ ~ Sinks(Insert(id, parent, at)) /\ ~ Bumps(Insert(id, parent, at))
  /\ \A id : /\ id \notin {Trip, Itin} => Sound(Delete(id))
             /\ ~ Sinks(Delete(id)) /\ ~ Bumps(Delete(id))
  /\ Sound(DeleteDays) /\ ~ Sinks(DeleteDays) /\ ~ Bumps(DeleteDays)
  /\ \A day, from, by : /\ by \in Nat => Sound(ShiftItems(day, from, by))
                        /\ ~ Sinks(ShiftItems(day, from, by)) /\ ~ Bumps(ShiftItems(day, from, by))
  /\ Sound(BumpVersion) /\ ~ Sinks(BumpVersion) /\ Bumps(BumpVersion)
  /\ \A day : Sound(Resequence(day)) /\ ~ Sinks(Resequence(day)) /\ ~ Bumps(Resequence(day))
  /\ Sound(RenumberDays) /\ ~ Sinks(RenumberDays) /\ ~ Bumps(RenumberDays)
  /\ \A id, day, slot :
       /\ slot \in Slots => Sound(PlaceItem(id, day, slot))
       /\ ~ Sinks(PlaceItem(id, day, slot)) /\ ~ Bumps(PlaceItem(id, day, slot))
       /\ \A x : Settles(PlaceItem(id, day, slot), x) <=> id = x
  /\ \A days : Sound(ClearRoutes(days)) /\ ~ Sinks(ClearRoutes(days)) /\ ~ Bumps(ClearRoutes(days))
<1> USE DEF Sound, Sinks, Settles, Bumps
<1>1. \A id, at : /\ at \in Int => Sound(SetAt(id, at))
                  /\ Sinks(SetAt(id, at)) <=> at < 0
                  /\ \A x : Settles(SetAt(id, at), x) <=> (id = x /\ at >= 0)
                  /\ SetAt(id, at).id = id /\ ~ Bumps(SetAt(id, at))
  BY DEF SetAt
<1>2. \A id, day : Sound(SetDay(id, day)) /\ ~ Sinks(SetDay(id, day)) /\ ~ Bumps(SetDay(id, day))
  BY DEF SetDay
<1>3. \A id, r : Sound(SetRoute(id, r)) /\ ~ Sinks(SetRoute(id, r)) /\ ~ Bumps(SetRoute(id, r))
  BY DEF SetRoute
<1>4. \A id, x : Sound(SetStatus(id, x)) /\ ~ Sinks(SetStatus(id, x)) /\ ~ Bumps(SetStatus(id, x))
  BY DEF SetStatus
<1>5. \A id, parent, at :
        /\ at \in Int /\ at >= 0 /\ id \notin {Trip, Itin} => Sound(Insert(id, parent, at))
        /\ ~ Sinks(Insert(id, parent, at)) /\ ~ Bumps(Insert(id, parent, at))
  BY DEF Insert, IsRow, Place
<1>6. \A id : /\ id \notin {Trip, Itin} => Sound(Delete(id))
              /\ ~ Sinks(Delete(id)) /\ ~ Bumps(Delete(id))
  BY DEF Delete
<1>7. Sound(DeleteDays) /\ ~ Sinks(DeleteDays) /\ ~ Bumps(DeleteDays)
  BY DEF DeleteDays
<1>8. \A day, from, by : /\ by \in Nat => Sound(ShiftItems(day, from, by))
                         /\ ~ Sinks(ShiftItems(day, from, by)) /\ ~ Bumps(ShiftItems(day, from, by))
  BY DEF ShiftItems
<1>9. Sound(BumpVersion) /\ ~ Sinks(BumpVersion) /\ Bumps(BumpVersion)
  BY DEF BumpVersion
<1>10. \A day : Sound(Resequence(day)) /\ ~ Sinks(Resequence(day)) /\ ~ Bumps(Resequence(day))
  BY DEF Resequence
<1>11. Sound(RenumberDays) /\ ~ Sinks(RenumberDays) /\ ~ Bumps(RenumberDays)
  BY DEF RenumberDays
<1>12. \A id, day, slot :
        /\ slot \in Slots => Sound(PlaceItem(id, day, slot))
        /\ ~ Sinks(PlaceItem(id, day, slot)) /\ ~ Bumps(PlaceItem(id, day, slot))
        /\ \A x : Settles(PlaceItem(id, day, slot), x) <=> id = x
  BY DEF PlaceItem
<1>13. \A days : Sound(ClearRoutes(days)) /\ ~ Sinks(ClearRoutes(days)) /\ ~ Bumps(ClearRoutes(days))
  BY DEF ClearRoutes
<1> QED
  BY <1>1, <1>2, <1>3, <1>4, <1>5, <1>6, <1>7, <1>8, <1>9, <1>10, <1>11, <1>12, <1>13

\* A sequence, whatever it lists.
IsList(t) == t \in Seq({t[k] : k \in DOMAIN t})

LEMMA AnyList ==
  ASSUME NEW S, NEW t \in Seq(S)
  PROVE  IsList(t)
<1>1. t \in [1..Len(t) -> S] /\ Len(t) \in Nat
  BY LenProperties
<1>2. t \in [1..Len(t) -> {t[k] : k \in DOMAIN t}]
  BY <1>1
<1> QED
  BY <1>1, <1>2, SeqDef DEF IsList

LEMMA Numbered ==
  ASSUME NEW n \in Nat, NEW t, t = [k \in 1..n |-> t[k]]
  PROVE  IsList(t) /\ Len(t) = n /\ DOMAIN t = 1..n
<1>1. t \in [1..n -> {t[k] : k \in DOMAIN t}]
  OBVIOUS
<1>2. t \in Seq({t[k] : k \in DOMAIN t}) /\ Len(t) = n
  BY <1>1, SeqDef
<1> QED
  BY <1>1, <1>2, AnyList

LEMMA ListFacts ==
  ASSUME NEW t, IsList(t)
  PROVE  /\ Len(t) \in Nat /\ DOMAIN t = 1..Len(t)
         /\ t # << >> <=> Len(t) > 0
         /\ t # << >> => /\ Head(t) = t[1] /\ IsList(Tail(t)) /\ Len(Tail(t)) = Len(t) - 1
                         /\ \A k \in 1..Len(t) - 1 : Tail(t)[k] = t[k + 1]
<1> DEFINE S == {t[k] : k \in DOMAIN t}
<1>1. t \in Seq(S)
  BY DEF IsList
<1> HIDE DEF S
<1>2. Len(t) \in Nat /\ DOMAIN t = 1..Len(t)
  BY <1>1
<1>3. t # << >> <=> Len(t) > 0
  BY <1>1, EmptySeq
<1>4. ASSUME t # << >>
      PROVE  /\ Head(t) = t[1] /\ Tail(t) \in Seq(S) /\ Len(Tail(t)) = Len(t) - 1
             /\ \A k \in 1..Len(t) - 1 : Tail(t)[k] = t[k + 1]
  BY <1>1, <1>4, HeadTailProperties
<1> QED
  BY <1>2, <1>3, <1>4, AnyList

LEMMA JoinedList ==
  ASSUME NEW a, NEW b, IsList(a), IsList(b)
  PROVE  /\ IsList(a \o b) /\ Len(a \o b) = Len(a) + Len(b)
         /\ \A k \in 1..Len(a) : (a \o b)[k] = a[k]
         /\ \A k \in 1..Len(b) : (a \o b)[Len(a) + k] = b[k]
<1> DEFINE S == {a[k] : k \in DOMAIN a} \union {b[k] : k \in DOMAIN b}
<1>1. a \in Seq(S) /\ b \in Seq(S)
  <2>1. a \in [1..Len(a) -> S] /\ b \in [1..Len(b) -> S] /\ Len(a) \in Nat /\ Len(b) \in Nat
    BY DEF IsList
  <2> QED
    BY <2>1, SeqDef
<1> HIDE DEF S
<1>2. /\ a \o b \in Seq(S) /\ Len(a \o b) = Len(a) + Len(b)
      /\ \A k \in 1..Len(a) : (a \o b)[k] = a[k]
      /\ \A k \in 1..Len(b) : (a \o b)[Len(a) + k] = b[k]
  BY <1>1, ConcatProperties
<1> QED
  BY <1>2, AnyList

\* What keeps a list of statements in order: a row it parks at a scratch position
\* is numbered later on, and it counts the version m times.
Steady(t) ==
  \A k \in DOMAIN t : Sinks(t[k]) => \E j \in DOMAIN t : j > k /\ Settles(t[j], t[k].id)
Counts(t, m) ==
  /\ m \in {0, 1}
  /\ m = 0 => \A k \in DOMAIN t : ~ Bumps(t[k])
  /\ m = 1 => \E p \in DOMAIN t : \A k \in DOMAIN t : Bumps(t[k]) <=> k = p
Legal(t) == IsList(t) /\ \A k \in DOMAIN t : Sound(t[k])
Good(t, m) == Legal(t) /\ Steady(t) /\ Counts(t, m)
Settled(t, id) == \E j \in DOMAIN t : Settles(t[j], id)

LEMMA JoinedIndex ==
  ASSUME NEW a, NEW b, IsList(a), IsList(b), NEW k \in DOMAIN (a \o b)
  PROVE  \/ k \in DOMAIN a /\ (a \o b)[k] = a[k]
         \/ /\ k - Len(a) \in DOMAIN b /\ (a \o b)[k] = b[k - Len(a)] /\ k > Len(a)
            /\ k \in Int
<1>1. Len(a) \in Nat /\ DOMAIN a = 1..Len(a) /\ Len(b) \in Nat /\ DOMAIN b = 1..Len(b)
  BY ListFacts
<1>2. IsList(a \o b) /\ Len(a \o b) = Len(a) + Len(b)
  BY JoinedList
<1>3. k \in 1..(Len(a) + Len(b))
  BY <1>2, ListFacts
<1>4. CASE k <= Len(a)
  <2>1. k \in 1..Len(a)
    BY <1>1, <1>3, <1>4
  <2> QED
    BY <1>1, <2>1, JoinedList
<1>5. CASE k > Len(a)
  <2>1. PICK i \in Int : i = k - Len(a)
    BY <1>1, <1>3
  <2>2. i \in 1..Len(b) /\ k = Len(a) + i
    BY <1>1, <1>3, <1>5, <2>1
  <2>3. (a \o b)[Len(a) + i] = b[i]
    BY <2>2, JoinedList
  <2>4. (a \o b)[k] = b[k - Len(a)] /\ k - Len(a) \in DOMAIN b
    BY <1>1, <2>1, <2>2, <2>3, Zenon
  <2> QED
    BY <1>3, <1>5, <2>4
<1> QED
  BY <1>1, <1>3, <1>4, <1>5

LEMMA JoinedSettles ==
  ASSUME NEW a, NEW b, IsList(a), IsList(b), NEW id
  PROVE  Settled(a, id) \/ Settled(b, id) => Settled(a \o b, id)
<1>1. Len(a) \in Nat /\ DOMAIN a = 1..Len(a) /\ Len(b) \in Nat /\ DOMAIN b = 1..Len(b)
  BY ListFacts
<1>2. IsList(a \o b) /\ Len(a \o b) = Len(a) + Len(b)
  BY JoinedList
<1>3. DOMAIN (a \o b) = 1..(Len(a) + Len(b))
  BY <1>2, ListFacts
<1>4. ASSUME NEW j \in DOMAIN a, Settles(a[j], id)
      PROVE  Settled(a \o b, id)
  <2>1. j \in DOMAIN (a \o b) /\ (a \o b)[j] = a[j]
    BY <1>1, <1>3, JoinedList
  <2> QED
    BY <1>4, <2>1 DEF Settled
<1>5. ASSUME NEW j \in DOMAIN b, Settles(b[j], id)
      PROVE  Settled(a \o b, id)
  <2>1. Len(a) + j \in DOMAIN (a \o b) /\ (a \o b)[Len(a) + j] = b[j]
    BY <1>1, <1>3, JoinedList
  <2> QED
    BY <1>5, <2>1 DEF Settled
<1> QED
  BY <1>4, <1>5 DEF Settled

\* Two lists one after the other: what the first one parks, one of them numbers.
LEMMA JoinedGood ==
  ASSUME NEW a, NEW b, NEW m, NEW n, Legal(a), Legal(b), Steady(b), Counts(a, m), Counts(b, n),
         m = 0 \/ n = 0,
         \A k \in DOMAIN a : Sinks(a[k]) =>
           \/ Settled(b, a[k].id)
           \/ \E j \in DOMAIN a : j > k /\ Settles(a[j], a[k].id)
  PROVE  Good(a \o b, m + n)
<1> DEFINE c == a \o b
<1>1. IsList(a) /\ IsList(b)
  BY DEF Legal
<1>2. /\ Len(a) \in Nat /\ DOMAIN a = 1..Len(a) /\ Len(b) \in Nat /\ DOMAIN b = 1..Len(b)
      /\ IsList(c) /\ DOMAIN c = 1..(Len(a) + Len(b))
      /\ \A k \in 1..Len(a) : c[k] = a[k]
      /\ \A k \in 1..Len(b) : c[Len(a) + k] = b[k]
  <2>1. Len(a) \in Nat /\ DOMAIN a = 1..Len(a) /\ Len(b) \in Nat /\ DOMAIN b = 1..Len(b)
    BY <1>1, ListFacts
  <2>2. /\ IsList(c) /\ Len(c) = Len(a) + Len(b)
        /\ \A k \in 1..Len(a) : c[k] = a[k]
        /\ \A k \in 1..Len(b) : c[Len(a) + k] = b[k]
    BY <1>1, JoinedList
  <2>3. DOMAIN c = 1..(Len(a) + Len(b))
    BY <2>2, ListFacts
  <2> QED
    BY <2>1, <2>2, <2>3
<1>3. \A k \in DOMAIN c : \/ k \in DOMAIN a /\ c[k] = a[k]
                          \/ k - Len(a) \in DOMAIN b /\ c[k] = b[k - Len(a)] /\ k > Len(a) /\ k \in Int
  BY <1>1, JoinedIndex
<1> HIDE DEF c
<1>4. Legal(c)
  BY <1>2, <1>3 DEF Legal
<1>5. Steady(c)
  <2> SUFFICES ASSUME NEW k \in DOMAIN c, Sinks(c[k])
               PROVE  \E j \in DOMAIN c : j > k /\ Settles(c[j], c[k].id)
    BY DEF Steady
  <2>1. ASSUME k \in DOMAIN a, c[k] = a[k]
        PROVE  \E j \in DOMAIN c : j > k /\ Settles(c[j], c[k].id)
    <3>1. \/ Settled(b, a[k].id)
          \/ \E j \in DOMAIN a : j > k /\ Settles(a[j], a[k].id)
      BY <2>1
    <3>2. ASSUME NEW j \in DOMAIN b, Settles(b[j], a[k].id)
          PROVE  \E i \in DOMAIN c : i > k /\ Settles(c[i], c[k].id)
      <4>1. Len(a) + j \in DOMAIN c /\ Len(a) + j > k /\ c[Len(a) + j] = b[j]
        BY <1>2, <2>1
      <4> QED
        BY <2>1, <3>2, <4>1
    <3>3. ASSUME NEW j \in DOMAIN a, j > k, Settles(a[j], a[k].id)
          PROVE  \E i \in DOMAIN c : i > k /\ Settles(c[i], c[k].id)
      <4>1. j \in DOMAIN c /\ c[j] = a[j]
        BY <1>2
      <4> QED
        BY <2>1, <3>3, <4>1
    <3> QED
      BY <3>1, <3>2, <3>3 DEF Settled
  <2>2. ASSUME k - Len(a) \in DOMAIN b, c[k] = b[k - Len(a)], k \in Int
        PROVE  \E j \in DOMAIN c : j > k /\ Settles(c[j], c[k].id)
    <3>1. PICK p \in DOMAIN b : p = k - Len(a)
      BY <2>2
    <3>2. PICK q \in DOMAIN b : q > p /\ Settles(b[q], b[p].id)
      BY <2>2, <3>1 DEF Steady
    <3>3. Len(a) + q \in DOMAIN c /\ Len(a) + q > k /\ c[Len(a) + q] = b[q]
      BY <1>2, <2>2, <3>1, <3>2
    <3> QED
      BY <2>2, <3>1, <3>2, <3>3
  <2> QED
    BY <1>3, <2>1, <2>2
<1>6. Counts(c, m + n)
  <2>1. CASE m = 0 /\ n = 0
    BY <1>3, <2>1 DEF Counts
  <2>2. CASE m = 1 /\ n = 0
    <3>1. PICK p \in DOMAIN a : \A k \in DOMAIN a : Bumps(a[k]) <=> k = p
      BY <2>2 DEF Counts
    <3>2. \A k \in DOMAIN b : ~ Bumps(b[k])
      BY <2>2 DEF Counts
    <3>3. p \in DOMAIN c /\ c[p] = a[p]
      BY <1>2
    <3>4. \A k \in DOMAIN c : Bumps(c[k]) <=> k = p
      BY <1>2, <1>3, <3>1, <3>2, <3>3
    <3> QED
      BY <2>2, <3>3, <3>4 DEF Counts
  <2>3. CASE m = 0 /\ n = 1
    <3>1. PICK p \in DOMAIN b : \A k \in DOMAIN b : Bumps(b[k]) <=> k = p
      BY <2>3 DEF Counts
    <3>2. \A k \in DOMAIN a : ~ Bumps(a[k])
      BY <2>3 DEF Counts
    <3>3. Len(a) + p \in DOMAIN c /\ c[Len(a) + p] = b[p]
      BY <1>2
    <3>4. ASSUME NEW k \in DOMAIN c
          PROVE  Bumps(c[k]) <=> k = Len(a) + p
      <4>1. CASE k \in DOMAIN a /\ c[k] = a[k]
        <5>1. k # Len(a) + p
          BY <1>2, <4>1
        <5> QED
          BY <3>2, <4>1, <5>1
      <4>2. CASE k - Len(a) \in DOMAIN b /\ c[k] = b[k - Len(a)] /\ k \in Int
        <5>1. k = Len(a) + p <=> k - Len(a) = p
          BY <1>2, <4>2
        <5> QED
          BY <3>1, <4>2, <5>1
      <4> QED
        BY <1>3, <4>1, <4>2
    <3> QED
      BY <2>3, <3>3, <3>4 DEF Counts
  <2> QED
    BY <2>1, <2>2, <2>3 DEF Counts
<1> QED
  BY <1>4, <1>5, <1>6 DEF Good, c

LEMMA GoodJoined ==
  ASSUME NEW a, NEW b, NEW m, NEW n, Good(a, m), Good(b, n), m = 0 \/ n = 0
  PROVE  Good(a \o b, m + n)
BY JoinedGood DEF Good, Steady

LEMMA NothingGood == Good(<< >>, 0)
<1>1. << >> \in Seq({}) /\ DOMAIN << >> = {}
  OBVIOUS
<1>2. IsList(<< >>)
  BY <1>1, AnyList
<1> QED
  BY <1>1, <1>2 DEF Good, Legal, Steady, Counts

LEMMA OneGood ==
  ASSUME NEW s, Sound(s), ~ Sinks(s)
  PROVE  /\ IsList(<<s>>) /\ DOMAIN <<s>> = {1} /\ <<s>>[1] = s
         /\ ~ Bumps(s) => Good(<<s>>, 0)
         /\ Bumps(s) => Good(<<s>>, 1)
<1>1. <<s>> \in Seq({s}) /\ DOMAIN <<s>> = {1} /\ <<s>>[1] = s
  OBVIOUS
<1>2. IsList(<<s>>)
  BY <1>1, AnyList
<1>3. Legal(<<s>>) /\ Steady(<<s>>)
  BY <1>1, <1>2 DEF Legal, Steady
<1> QED
  BY <1>1, <1>2, <1>3 DEF Good, Counts

LEMMA TwoGood ==
  ASSUME NEW a, NEW b, Sound(a), ~ Sinks(a), ~ Bumps(a), Sound(b), ~ Sinks(b)
  PROVE  /\ ~ Bumps(b) => Good(<<a, b>>, 0)
         /\ Bumps(b) => Good(<<a, b>>, 1)
<1>1. /\ <<a, b>> \in Seq({a, b}) /\ DOMAIN <<a, b>> = {1, 2}
      /\ <<a, b>>[1] = a /\ <<a, b>>[2] = b
  OBVIOUS
<1>2. IsList(<<a, b>>)
  BY <1>1, AnyList
<1>3. Legal(<<a, b>>) /\ Steady(<<a, b>>)
  BY <1>1, <1>2 DEF Legal, Steady
<1>4. Bumps(b) => \A k \in DOMAIN <<a, b>> : Bumps(<<a, b>>[k]) <=> k = 2
  BY <1>1
<1> QED
  BY <1>1, <1>3, <1>4 DEF Good, Counts

LEMMA ThreeGood ==
  ASSUME NEW a, NEW b, NEW c, Sound(a), ~ Sinks(a), ~ Bumps(a), Sound(b), ~ Sinks(b), ~ Bumps(b),
         Sound(c), ~ Sinks(c)
  PROVE  /\ ~ Bumps(c) => Good(<<a, b, c>>, 0)
         /\ Bumps(c) => Good(<<a, b, c>>, 1)
<1>1. /\ <<a, b, c>> \in Seq({a, b, c}) /\ DOMAIN <<a, b, c>> = {1, 2, 3}
      /\ <<a, b, c>>[1] = a /\ <<a, b, c>>[2] = b /\ <<a, b, c>>[3] = c
  OBVIOUS
<1>2. IsList(<<a, b, c>>)
  BY <1>1, AnyList
<1>3. Legal(<<a, b, c>>) /\ Steady(<<a, b, c>>)
  BY <1>1, <1>2 DEF Legal, Steady
<1>4. Bumps(c) => \A k \in DOMAIN <<a, b, c>> : Bumps(<<a, b, c>>[k]) <=> k = 3
  BY <1>1
<1> QED
  BY <1>1, <1>3, <1>4 DEF Good, Counts

LEMMA FourGood ==
  ASSUME NEW a, NEW b, NEW c, NEW d, Sound(a), ~ Sinks(a), ~ Bumps(a), Sound(b), ~ Sinks(b), Bumps(b),
         Sound(c), ~ Sinks(c), ~ Bumps(c), Sound(d), ~ Sinks(d), ~ Bumps(d)
  PROVE  Good(<<a, b, c, d>>, 1)
<1>1. /\ <<a, b, c, d>> \in Seq({a, b, c, d}) /\ DOMAIN <<a, b, c, d>> = {1, 2, 3, 4}
      /\ <<a, b, c, d>>[1] = a /\ <<a, b, c, d>>[2] = b
      /\ <<a, b, c, d>>[3] = c /\ <<a, b, c, d>>[4] = d
  OBVIOUS
<1>2. IsList(<<a, b, c, d>>)
  BY <1>1, AnyList
<1>3. Legal(<<a, b, c, d>>) /\ Steady(<<a, b, c, d>>)
  BY <1>1, <1>2 DEF Legal, Steady
<1>4. \A k \in DOMAIN <<a, b, c, d>> : Bumps(<<a, b, c, d>>[k]) <=> k = 2
  BY <1>1
<1> QED
  BY <1>1, <1>3, <1>4 DEF Good, Counts

(***************************************************************************)
(* The statements an edit sets out with.                                   *)
(***************************************************************************)
LEMMA ClampRange ==
  ASSUME NEW slot, NEW top \in Nat, top >= 1, slot = top \/ slot \in Slots \ {None}
  PROVE  Clamp(slot, top) \in 1..top
<1>1. CASE slot = top
  BY <1>1 DEF Clamp
<1>2. CASE slot \in Slots \ {None}
  <2>1. slot \in Nat /\ slot >= 1
    BY <1>2, SlotAssumption
  <2> QED
    BY <2>1 DEF Clamp
<1> QED
  BY <1>1, <1>2

\* The rows of a parent in order: places with a position of their own.
LEMMA ChildrenListed ==
  ASSUME NEW v, WellFormed(v), NEW parent, NEW rows, rows \subseteq Children(v, parent)
  PROVE  /\ Spread(v, rows) /\ Cardinality(rows) \in Nat
         /\ DOMAIN Ordered(v, rows) = 1..Cardinality(rows)
         /\ IsList(Ordered(v, rows)) /\ Len(Ordered(v, rows)) = Cardinality(rows)
         /\ \A k \in 1..Cardinality(rows) :
              Ordered(v, rows)[k] \in rows /\ v[Ordered(v, rows)[k]].at \in Nat
<1>1. Spread(v, rows) /\ rows \subseteq PlacesOf(v)
  BY ChildrenSpread DEF WellFormed
<1>2. \A id \in rows : v[id].at \in Nat
  BY <1>1 DEF WellFormed, IsRow
<1> QED
  BY <1>1, <1>2, OrderedLists, AnyList

LEMMA ReversedList ==
  ASSUME NEW d, IsList(d)
  PROVE  /\ IsList(Reverse(d)) /\ Len(Reverse(d)) = Len(d) /\ DOMAIN Reverse(d) = 1..Len(d)
         /\ \A k \in 1..Len(d) : \E j \in 1..Len(d) : Reverse(d)[k] = d[j]
<1>1. Len(d) \in Nat
  BY ListFacts
<1>2. Reverse(d) = [k \in 1..Len(d) |-> Reverse(d)[k]]
  BY DEF Reverse
<1>3. IsList(Reverse(d)) /\ Len(Reverse(d)) = Len(d) /\ DOMAIN Reverse(d) = 1..Len(d)
  BY <1>1, <1>2, Numbered
<1>4. ASSUME NEW k \in 1..Len(d)
      PROVE  \E j \in 1..Len(d) : Reverse(d)[k] = d[j]
  <2>1. (Len(d) - k) + 1 \in 1..Len(d)
    BY <1>1
  <2>2. Reverse(d)[k] = d[(Len(d) - k) + 1]
    BY DEF Reverse
  <2> QED
    BY <2>1, <2>2
<1> QED
  BY <1>3, <1>4

\* Each row one position up, with or without parking them all first.
LEMMA ShiftsGood ==
  ASSUME NEW v, NEW d, NEW n \in Nat, DOMAIN d = 1..n, \A k \in 1..n : v[d[k]].at \in Nat
  PROVE  /\ Good([k \in DOMAIN d |-> SetAt(d[k], v[d[k]].at + 1)], 0)
         /\ Good([k \in DOMAIN d |-> SetAt(d[k], -k)]
                 \o [k \in DOMAIN d |-> SetAt(d[k], v[d[k]].at + 1)], 0)
<1> DEFINE park == [k \in DOMAIN d |-> SetAt(d[k], -k)]
           move == [k \in DOMAIN d |-> SetAt(d[k], v[d[k]].at + 1)]
<1>1. /\ IsList(park) /\ Len(park) = n /\ DOMAIN park = 1..n
      /\ IsList(move) /\ Len(move) = n /\ DOMAIN move = 1..n
  <2>1. park = [k \in 1..n |-> park[k]] /\ move = [k \in 1..n |-> move[k]]
    OBVIOUS
  <2> HIDE DEF park, move
  <2> QED
    BY <2>1, Numbered
<1>2. ASSUME NEW k \in 1..n
      PROVE  /\ Sound(park[k]) /\ ~ Bumps(park[k]) /\ park[k].id = d[k]
             /\ Sound(move[k]) /\ ~ Bumps(move[k]) /\ ~ Sinks(move[k]) /\ Settles(move[k], d[k])
  <2>1. park[k] = SetAt(d[k], -k) /\ move[k] = SetAt(d[k], v[d[k]].at + 1)
    OBVIOUS
  <2>2. PICK p \in Int : p = -k
    OBVIOUS
  <2>3. PICK q \in Nat : q = v[d[k]].at + 1
    OBVIOUS
  <2>4. Sound(SetAt(d[k], p)) /\ ~ Bumps(SetAt(d[k], p)) /\ SetAt(d[k], p).id = d[k]
    BY Statements
  <2>5. /\ Sound(SetAt(d[k], q)) /\ ~ Bumps(SetAt(d[k], q)) /\ ~ Sinks(SetAt(d[k], q))
        /\ Settles(SetAt(d[k], q), d[k])
    BY Statements
  <2> QED
    BY <2>1, <2>2, <2>3, <2>4, <2>5
<1> HIDE DEF park, move
<1>3. Legal(park) /\ Legal(move) /\ Steady(move) /\ Counts(park, 0) /\ Counts(move, 0)
  BY <1>1, <1>2 DEF Legal, Steady, Counts
<1>4. \A k \in DOMAIN park : Settled(move, park[k].id)
  BY <1>1, <1>2 DEF Settled
<1>5. Good(park \o move, 0 + 0)
  BY <1>3, <1>4, JoinedGood
<1> QED
  BY <1>3, <1>5 DEF Good, park, move

LEMMA AddDayGood ==
  ASSUME NEW v, WellFormed(v), NEW e \in Edits, NEW slot \in Slots
  PROVE  Good(AddDayPlan(e, v, slot), 1)
<1>1. PICK last \in Nat : last = Cardinality(Children(v, Itin)) + 1 /\ last >= 1
  BY ChildrenListed
<1>2. PICK target \in Nat : target = Clamp(IF slot = None THEN last ELSE slot, last) /\ target >= 1
  BY <1>1, ClampRange
<1>3. PICK d : d = Ordered(v, {x \in Children(v, Itin) : v[x].at >= target})
  OBVIOUS
<1>4. PICK n \in Nat : DOMAIN d = 1..n /\ \A k \in 1..n : v[d[k]].at \in Nat
  BY <1>3, ChildrenListed
<1>5. PICK shift : shift = [k \in DOMAIN d |-> SetAt(d[k], -k)]
                           \o [k \in DOMAIN d |-> SetAt(d[k], v[d[k]].at + 1)]
  OBVIOUS
<1>6. Good(shift, 0)
  BY <1>4, <1>5, ShiftsGood
<1>7. Good(<<Insert(NewDay(e), Itin, target), BumpVersion>>, 1)
  <2>1. NewDay(e) \notin {Trip, Itin}
    BY IdAssumption
  <2> DEFINE s == Insert(NewDay(e), Itin, target)
  <2>2. Sound(s) /\ ~ Sinks(s) /\ ~ Bumps(s)
    <3>1. target \in Int /\ target >= 0
      BY <1>2
    <3> QED
      BY <2>1, <3>1, Statements
  <2> HIDE DEF s
  <2>3. Good(<<s, BumpVersion>>, 1)
    BY <2>2, TwoGood, Statements
  <2> QED
    BY <2>3 DEF s
<1>8. AddDayPlan(e, v, slot) = shift \o <<Insert(NewDay(e), Itin, target), BumpVersion>>
  BY <1>1, <1>2, <1>3, <1>5 DEF AddDayPlan
<1>9. Good(shift \o <<Insert(NewDay(e), Itin, target), BumpVersion>>, 0 + 1)
  BY <1>6, <1>7, GoodJoined
<1> QED
  BY <1>8, <1>9

LEMMA AddItemGood ==
  ASSUME NEW v, WellFormed(v), NEW e \in Edits, NEW day, NEW slot \in Slots,
         NEW at \in InsertionPoints(v, day, slot)
  PROVE  Good(AddItemPlan(e, v, day, at), 0)
<1>1. at \in Nat
  <2>1. PICK last \in Nat : last = Cardinality(Children(v, day)) + 1 /\ last >= 1
    BY ChildrenListed
  <2>2. Clamp(slot, last) \in Nat \/ slot = None
    BY <2>1, ClampRange
  <2>3. \A i \in Children(v, day) : v[i].at \in Nat
    BY DEF Children, WellFormed, IsRow, PlacesOf
  <2> QED
    BY <2>1, <2>2, <2>3 DEF InsertionPoints
<1>2. PICK s : s = Ordered(v, {i \in Children(v, day) : v[i].at >= at})
  OBVIOUS
<1>3. IsList(s) /\ \A k \in 1..Len(s) : v[s[k]].at \in Nat
  BY <1>2, ChildrenListed
<1>4. PICK d : d = Reverse(s)
  OBVIOUS
<1>5. PICK n \in Nat : DOMAIN d = 1..n /\ \A k \in 1..n : v[d[k]].at \in Nat
  <2>1. Len(s) \in Nat
    BY <1>3, ListFacts
  <2>2. DOMAIN d = 1..Len(s) /\ \A k \in 1..Len(s) : \E j \in 1..Len(s) : d[k] = s[j]
    BY <1>3, <1>4, ReversedList
  <2> QED
    BY <1>3, <2>1, <2>2
<1>6. PICK shift : shift = [k \in DOMAIN d |-> SetAt(d[k], v[d[k]].at + 1)]
  OBVIOUS
<1>7. Good(shift, 0)
  BY <1>5, <1>6, ShiftsGood
<1>8. Good(<<Insert(NewItem(e, 1), day, at), ClearRoutes({day})>>, 0)
  <2>1. NewItem(e, 1) \notin {Trip, Itin}
    BY IdAssumption
  <2>2. at \in Int /\ at >= 0
    BY <1>1
  <2>3. /\ Sound(Insert(NewItem(e, 1), day, at)) /\ ~ Sinks(Insert(NewItem(e, 1), day, at))
        /\ ~ Bumps(Insert(NewItem(e, 1), day, at))
    BY <2>1, <2>2, Statements
  <2>4. Sound(ClearRoutes({day})) /\ ~ Sinks(ClearRoutes({day})) /\ ~ Bumps(ClearRoutes({day}))
    BY Statements
  <2> QED
    BY <2>3, <2>4, TwoGood
<1>9. Good(shift \o <<Insert(NewItem(e, 1), day, at), ClearRoutes({day})>>, 0 + 0)
  BY <1>7, <1>8, GoodJoined
<1>10. AddItemPlan(e, v, day, at) = shift \o <<Insert(NewItem(e, 1), day, at), ClearRoutes({day})>>
  BY <1>2, <1>4, <1>6 DEF AddItemPlan
<1> QED
  BY <1>9, <1>10

LEMMA ReuseDayGood ==
  ASSUME NEW v, WellFormed(v), NEW e \in Edits, NEW index \in Nat
  PROVE  Good(ReuseDayPlan(e, v, index), 1)
<1>1. PICK s : s = Ordered(v, {d \in Children(v, Itin) : v[d].at >= index + 1})
  OBVIOUS
<1>2. IsList(s) /\ \A k \in 1..Len(s) : v[s[k]].at \in Nat
  BY <1>1, ChildrenListed
<1>3. PICK d : d = Reverse(s)
  OBVIOUS
<1>4. PICK n \in Nat : DOMAIN d = 1..n /\ \A k \in 1..n : v[d[k]].at \in Nat
  <2>1. Len(s) \in Nat
    BY <1>2, ListFacts
  <2>2. DOMAIN d = 1..Len(s) /\ \A k \in 1..Len(s) : \E j \in 1..Len(s) : d[k] = s[j]
    BY <1>2, <1>3, ReversedList
  <2> QED
    BY <1>2, <2>1, <2>2
<1>5. PICK shift : shift = [k \in DOMAIN d |-> SetAt(d[k], -k)]
                           \o [k \in DOMAIN d |-> SetAt(d[k], v[d[k]].at + 1)]
  OBVIOUS
<1>6. Good(shift, 0)
  BY <1>4, <1>5, ShiftsGood
<1> DEFINE rest == <<Insert(NewDay(e), Itin, index + 1), Insert(NewItem(e, 1), NewDay(e), 0), BumpVersion>>
<1>7. Good(rest, 1)
  <2>1. NewItem(e, 1) \notin {Trip, Itin} /\ NewDay(e) \notin {Trip, Itin}
    BY IdAssumption
  <2>2. index + 1 \in Int /\ index + 1 >= 0
    OBVIOUS
  <2>3. /\ Sound(Insert(NewDay(e), Itin, index + 1)) /\ ~ Sinks(Insert(NewDay(e), Itin, index + 1))
        /\ ~ Bumps(Insert(NewDay(e), Itin, index + 1))
    BY <2>1, <2>2, Statements
  <2>4. /\ Sound(Insert(NewItem(e, 1), NewDay(e), 0)) /\ ~ Sinks(Insert(NewItem(e, 1), NewDay(e), 0))
        /\ ~ Bumps(Insert(NewItem(e, 1), NewDay(e), 0))
    BY <2>1, Statements
  <2>5. Sound(BumpVersion) /\ ~ Sinks(BumpVersion) /\ Bumps(BumpVersion)
    BY Statements
  <2> QED
    BY <2>3, <2>4, <2>5, ThreeGood
<1> HIDE DEF rest
<1>8. Good(shift \o rest, 0 + 1)
  BY <1>6, <1>7, GoodJoined
<1>9. ReuseDayPlan(e, v, index) = shift \o rest
  BY <1>1, <1>3, <1>5 DEF ReuseDayPlan, rest
<1> QED
  BY <1>8, <1>9

LEMMA ReuseItemGood ==
  ASSUME NEW e \in Edits, NEW day, NEW position \in Nat, NEW copies \in 1..2
  PROVE  Good(ReuseItemPlan(e, day, position, copies), 1)
<1> DEFINE inserts == [k \in 1..copies |-> Insert(NewItem(e, k), day, position + k - 1)]
<1>1. IsList(inserts) /\ DOMAIN inserts = 1..copies
  <2>1. inserts = [k \in 1..copies |-> inserts[k]] /\ copies \in Nat
    OBVIOUS
  <2> HIDE DEF inserts
  <2> QED
    BY <2>1, Numbered
<1>2. ASSUME NEW k \in 1..copies
      PROVE  Sound(inserts[k]) /\ ~ Sinks(inserts[k]) /\ ~ Bumps(inserts[k])
  <2>1. NewItem(e, k) \notin {Trip, Itin}
    <3>1. k = 1 \/ k = 2
      OBVIOUS
    <3> QED
      BY <3>1, IdAssumption
  <2>2. PICK at \in Int : at = position + k - 1 /\ at >= 0
    OBVIOUS
  <2>3. inserts[k] = Insert(NewItem(e, k), day, at)
    BY <2>2
  <2> HIDE DEF inserts
  <2> QED
    BY <2>1, <2>2, <2>3, Statements
<1>3. Good(<<ShiftItems(day, position, copies)>>, 0)
  <2>1. copies \in Nat
    OBVIOUS
  <2> QED
    BY <2>1, Statements, OneGood
<1>4. Good(<<ClearRoutes({day}), BumpVersion>>, 1)
  <2>1. Sound(ClearRoutes({day})) /\ ~ Sinks(ClearRoutes({day})) /\ ~ Bumps(ClearRoutes({day}))
    BY Statements
  <2>2. Sound(BumpVersion) /\ ~ Sinks(BumpVersion) /\ Bumps(BumpVersion)
    BY Statements
  <2> QED
    BY <2>1, <2>2, TwoGood
<1> HIDE DEF inserts
<1>5. Good(inserts, 0)
  BY <1>1, <1>2 DEF Good, Legal, Steady, Counts
<1>6. Good(<<ShiftItems(day, position, copies)>> \o inserts, 0 + 0)
  BY <1>3, <1>5, GoodJoined
<1>7. Good((<<ShiftItems(day, position, copies)>> \o inserts) \o <<ClearRoutes({day}), BumpVersion>>, 0 + 1)
  BY <1>4, <1>6, GoodJoined
<1> QED
  BY <1>7 DEF ReuseItemPlan, inserts

LEMMA MoveItemGood ==
  ASSUME NEW v, NEW item, NEW day, NEW slot \in Slots
  PROVE  Good(MoveItemPlan(v, item, day, slot), 0)
<1> DEFINE from == v[item].in
           A == <<SetAt(item, -1)>>
           B == IF from # day THEN <<SetDay(item, day), Resequence(from)>> ELSE << >>
           C == <<PlaceItem(item, day, slot)>>
           D == IF from # day THEN << >> ELSE <<Resequence(day)>>
           E == <<ClearRoutes({from, day})>>
<1>1. IsList(A) /\ DOMAIN A = {1} /\ Sound(A[1]) /\ ~ Bumps(A[1]) /\ A[1].id = item
  <2>1. PICK s : s = SetAt(item, -1)
    OBVIOUS
  <2>2. -1 \in Int
    OBVIOUS
  <2>3. Sound(s) /\ ~ Bumps(s) /\ s.id = item
    BY <2>1, <2>2, Statements
  <2>4. <<s>> \in Seq({s}) /\ DOMAIN <<s>> = {1} /\ <<s>>[1] = s
    OBVIOUS
  <2>5. IsList(<<s>>)
    BY <2>4, AnyList
  <2> QED
    BY <2>1, <2>3, <2>4, <2>5
<1>2. Legal(B) /\ Counts(B, 0) /\ \A k \in DOMAIN B : ~ Sinks(B[k])
  <2>1. CASE from # day
    <3>1. PICK a, b : a = SetDay(item, day) /\ b = Resequence(from)
      OBVIOUS
    <3>2. Sound(a) /\ ~ Sinks(a) /\ ~ Bumps(a) /\ Sound(b) /\ ~ Sinks(b) /\ ~ Bumps(b)
      BY <3>1, Statements
    <3>3. DOMAIN <<a, b>> = {1, 2} /\ <<a, b>>[1] = a /\ <<a, b>>[2] = b
      OBVIOUS
    <3>4. Good(<<a, b>>, 0) /\ \A k \in DOMAIN <<a, b>> : ~ Sinks(<<a, b>>[k])
      BY <3>2, <3>3, TwoGood
    <3> QED
      BY <2>1, <3>1, <3>4 DEF Good
  <2>2. CASE from = day
    <3>1. DOMAIN << >> = {}
      OBVIOUS
    <3> QED
      BY <2>2, <3>1, NothingGood DEF Good
  <2> QED
    BY <2>1, <2>2
<1>3. Good(C, 0) /\ Settled(C, item)
  <2>1. PICK s : s = PlaceItem(item, day, slot)
    OBVIOUS
  <2>2. Sound(s) /\ ~ Sinks(s) /\ ~ Bumps(s) /\ Settles(s, item)
    BY <2>1, Statements
  <2>3. Good(<<s>>, 0) /\ DOMAIN <<s>> = {1} /\ <<s>>[1] = s
    BY <2>2, OneGood
  <2> QED
    BY <2>1, <2>2, <2>3 DEF Settled
<1>4. Good(D, 0)
  <2>1. Good(<<Resequence(day)>>, 0)
    BY Statements, OneGood
  <2> QED
    BY <2>1, NothingGood
<1>5. Good(E, 0)
  BY Statements, OneGood
<1>6. MoveItemPlan(v, item, day, slot) = (((A \o B) \o C) \o D) \o E
  BY DEF MoveItemPlan
<1> HIDE DEF from, A, B, C, D, E
<1>7. /\ Legal(A \o B) /\ Counts(A \o B, 0)
      /\ \A k \in DOMAIN (A \o B) : Sinks((A \o B)[k]) => (A \o B)[k].id = item
  <2>1. IsList(B)
    BY <1>2 DEF Legal
  <2>2. IsList(A \o B)
    BY <1>1, <2>1, JoinedList
  <2>3. \A k \in DOMAIN (A \o B) :
          \/ k \in DOMAIN A /\ (A \o B)[k] = A[k]
          \/ k - Len(A) \in DOMAIN B /\ (A \o B)[k] = B[k - Len(A)]
    BY <1>1, <2>1, JoinedIndex
  <2>4. \A k \in DOMAIN (A \o B) :
          /\ Sound((A \o B)[k]) /\ ~ Bumps((A \o B)[k])
          /\ Sinks((A \o B)[k]) => (A \o B)[k].id = item
    BY <1>1, <1>2, <2>3 DEF Legal, Counts
  <2> QED
    BY <2>2, <2>4 DEF Legal, Counts
<1>8. Good((A \o B) \o C, 0 + 0)
  BY <1>3, <1>7, JoinedGood DEF Good
<1>9. Good(((A \o B) \o C) \o D, 0 + 0)
  BY <1>4, <1>8, GoodJoined
<1>10. Good((((A \o B) \o C) \o D) \o E, 0 + 0)
  BY <1>5, <1>9, GoodJoined
<1> QED
  BY <1>6, <1>10

\* What a request may carry, by what the one who sent it could see.
RequestOk(op) ==
  /\ op.kind \in HandKinds \union StatusKinds \union ReuseKinds \union {"route"}
  /\ op.kind \in AddKinds \union {"addDay", "moveItem"} => op.slot \in Slots
  /\ op.kind \in {"removeDay", "removeItem", "moveItem"} => op.id \notin {Trip, Itin}
  /\ op.kind = "replace" => op.slot \in Slots \ {None}
  /\ op.kind \in ReuseKinds => op.slot \in Nat
  /\ op.kind = "reuseItem" => op.copies \in 1..2
Due(op) == IF op.kind \in Structural THEN 1 ELSE 0

\* Every edit sets out with a list of statements that numbers what it parks and
\* counts a version exactly if the edit is structural.
LEMMA PlansGood ==
  ASSUME NEW v, WellFormed(v), NEW e \in Edits, NEW op, RequestOk(op), NEW todo \in Plans(e, v, op)
  PROVE  Good(todo, Due(op))
<1> USE DEF Due, Structural, AddKinds, HandKinds, StatusKinds, ReuseKinds
<1>1. CASE op.kind = "addDay"
  <2>1. todo = AddDayPlan(e, v, op.slot)
    BY <1>1 DEF Plans
  <2> QED
    BY <1>1, <2>1, AddDayGood DEF RequestOk
<1>2. CASE op.kind = "removeDay"
  <2>1. todo = <<Delete(op.id), RenumberDays, BumpVersion>>
    BY <1>2 DEF Plans
  <2>2. op.id \notin {Trip, Itin}
    BY <1>2 DEF RequestOk
  <2>3. /\ Sound(Delete(op.id)) /\ ~ Sinks(Delete(op.id)) /\ ~ Bumps(Delete(op.id))
        /\ Sound(RenumberDays) /\ ~ Sinks(RenumberDays) /\ ~ Bumps(RenumberDays)
        /\ Sound(BumpVersion) /\ ~ Sinks(BumpVersion) /\ Bumps(BumpVersion)
    BY <2>2, Statements
  <2>4. Good(<<Delete(op.id), RenumberDays, BumpVersion>>, 1)
    BY <2>3, ThreeGood
  <2> QED
    BY <1>2, <2>1, <2>4
<1>3. CASE op.kind \in AddKinds
  <2>1. PICK at \in InsertionPoints(v, op.day, op.slot) : todo = AddItemPlan(e, v, op.day, at)
    BY <1>3 DEF Plans
  <2>2. op.slot \in Slots
    BY <1>3 DEF RequestOk
  <2>3. Good(AddItemPlan(e, v, op.day, at), 0)
    BY <2>2, AddItemGood
  <2> QED
    BY <1>3, <2>1, <2>3
<1>4. CASE op.kind = "removeItem"
  <2>1. todo = <<Delete(op.id), Resequence(v[op.id].in), ClearRoutes({v[op.id].in})>>
    BY <1>4 DEF Plans
  <2>2. op.id \notin {Trip, Itin}
    BY <1>4 DEF RequestOk
  <2>3. PICK day : day = v[op.id].in
    OBVIOUS
  <2>4. /\ Sound(Delete(op.id)) /\ ~ Sinks(Delete(op.id)) /\ ~ Bumps(Delete(op.id))
        /\ Sound(Resequence(day)) /\ ~ Sinks(Resequence(day)) /\ ~ Bumps(Resequence(day))
        /\ Sound(ClearRoutes({day})) /\ ~ Sinks(ClearRoutes({day})) /\ ~ Bumps(ClearRoutes({day}))
    BY <2>2, Statements
  <2>5. Good(<<Delete(op.id), Resequence(day), ClearRoutes({day})>>, 0)
    BY <2>4, ThreeGood
  <2> QED
    BY <1>4, <2>1, <2>3, <2>5
<1>5. CASE op.kind = "moveItem"
  <2>1. todo = MoveItemPlan(v, op.id, op.day, op.slot)
    BY <1>5 DEF Plans
  <2> QED
    BY <1>5, <2>1, MoveItemGood DEF RequestOk
<1>6. CASE op.kind = "replace"
  <2>1. todo = ReplacePlan(e, op.slot)
    BY <1>6 DEF Plans
  <2>2. op.slot \in Int /\ op.slot >= 0
    <3>1. PICK slot : slot = op.slot
      OBVIOUS
    <3>2. slot \in Slots \ {None}
      BY <1>6, <3>1 DEF RequestOk
    <3>3. slot \in Nat \ {0}
      BY <3>2, SlotAssumption
    <3> QED
      BY <3>1, <3>3
  <2>3. NewItem(e, 1) \notin {Trip, Itin} /\ NewDay(e) \notin {Trip, Itin}
    BY IdAssumption
  <2> DEFINE a == Insert(NewDay(e), Itin, op.slot)
             b == Insert(NewItem(e, 1), NewDay(e), 1)
  <2>4. /\ Sound(a) /\ ~ Sinks(a) /\ ~ Bumps(a)
        /\ Sound(b) /\ ~ Sinks(b) /\ ~ Bumps(b)
    BY <2>2, <2>3, Statements
  <2>5. /\ Sound(DeleteDays) /\ ~ Sinks(DeleteDays) /\ ~ Bumps(DeleteDays)
        /\ Sound(BumpVersion) /\ ~ Sinks(BumpVersion) /\ Bumps(BumpVersion)
    BY Statements
  <2>6. todo = <<DeleteDays, BumpVersion, a, b>>
    BY <2>1 DEF ReplacePlan
  <2> HIDE DEF a, b
  <2>7. Good(<<DeleteDays, BumpVersion, a, b>>, 1)
    BY <2>4, <2>5, FourGood
  <2> QED
    BY <1>6, <2>6, <2>7
<1>7. CASE op.kind = "reuseDay"
  <2>1. todo = ReuseDayPlan(e, v, op.slot)
    BY <1>7 DEF Plans
  <2> QED
    BY <1>7, <2>1, ReuseDayGood DEF RequestOk
<1>8. CASE op.kind = "reuseItem"
  <2>1. todo = ReuseItemPlan(e, op.day, op.slot, op.copies)
    BY <1>8 DEF Plans
  <2> QED
    BY <1>8, <2>1, ReuseItemGood DEF RequestOk
<1>9. CASE op.kind = "route"
  <2>1. todo = <<SetRoute({op.id}, op.slot)>>
    BY <1>9 DEF Plans
  <2>2. Good(<<SetRoute({op.id}, op.slot)>>, 0)
    BY Statements, OneGood
  <2> QED
    BY <1>9, <2>1, <2>2
<1>10. CASE op.kind = "approve"
  <2>1. todo = ApprovePlan(v, op.slot)
    BY <1>10 DEF Plans
  <2>2. Good(<<SetStatus(Trip, Approved)>>, 0) /\ Good(<<SetStatus(Itin, Approved)>>, 0) /\ Good(<< >>, 0)
    BY Statements, OneGood, NothingGood
  <2>3. /\ Good(<<SetStatus(Trip, Approved)>> \o << >>, 0 + 0)
        /\ Good(<<SetStatus(Trip, Approved)>> \o <<SetStatus(Itin, Approved)>>, 0 + 0)
    BY <2>2, GoodJoined
  <2>4. CASE op.slot = Approved /\ v[Itin].status = Approved
    BY <1>10, <2>1, <2>2, <2>4 DEF ApprovePlan
  <2>5. CASE op.slot # Approved /\ v[Itin].status = Approved
    BY <1>10, <2>1, <2>3, <2>5 DEF ApprovePlan
  <2>6. CASE v[Itin].status # Approved
    BY <1>10, <2>1, <2>3, <2>6 DEF ApprovePlan
  <2> QED
    BY <2>4, <2>5, <2>6
<1>11. CASE op.kind = "reopen"
  <2>1. todo = ReopenPlan(v, op.slot)
    BY <1>11 DEF Plans
  <2>2. PICK a, b : /\ a = IF op.slot = Approved THEN <<SetStatus(Trip, "IN_REVIEW")>> ELSE << >>
                    /\ b = IF v[Itin].status = Approved THEN <<SetStatus(Itin, "IN_REVIEW")>> ELSE << >>
    OBVIOUS
  <2>3. Good(a, 0) /\ Good(b, 0)
    BY <2>2, Statements, OneGood, NothingGood
  <2>4. Good(a \o b, 0 + 0)
    BY <2>3, GoodJoined
  <2> QED
    BY <1>11, <2>1, <2>2, <2>4 DEF ReopenPlan
<1> QED
  BY <1>1, <1>2, <1>3, <1>4, <1>5, <1>6, <1>7, <1>8, <1>9, <1>10, <1>11 DEF RequestOk

(***************************************************************************)
(* The statements a reading statement turns into.                          *)
(***************************************************************************)
\* Parking what is out of place and numbering from one.
LEMMA RenumberingGood ==
  ASSUME NEW v, NEW rows, Spread(v, rows), NEW scratch \in Int
  PROVE  Good(ParkOutOfPlace(v, rows, scratch) \o NumberFromOne(Ordered(v, rows)), 0)
<1> DEFINE n == Cardinality(rows)
           bad == {id \in rows : v[id].at # Rank(v, rows, id)}
           wrong == Ordered(v, bad)
           park == [k \in DOMAIN wrong |-> SetAt(wrong[k], scratch - Rank(v, rows, wrong[k]))]
           number == [k \in DOMAIN Ordered(v, rows) |-> SetAt(Ordered(v, rows)[k], k)]
<1>1. /\ n \in Nat /\ DOMAIN Ordered(v, rows) = 1..n
      /\ \A i \in rows : Rank(v, rows, i) \in 1..n /\ Ordered(v, rows)[Rank(v, rows, i)] = i
  BY OrderedLists
<1>2. Spread(v, bad)
  BY FS_Subset DEF Spread
<1>3. PICK m \in Nat : DOMAIN wrong = 1..m /\ \A k \in 1..m : wrong[k] \in bad
  BY <1>2, OrderedLists
<1>4. /\ IsList(park) /\ Len(park) = m /\ DOMAIN park = 1..m
      /\ IsList(number) /\ Len(number) = n /\ DOMAIN number = 1..n
  <2>1. park = [k \in 1..m |-> park[k]] /\ number = [k \in 1..n |-> number[k]]
    BY <1>1, <1>3
  <2> HIDE DEF park, number, n
  <2> QED
    BY <1>1, <2>1, Numbered
<1>5. ASSUME NEW k \in 1..m
      PROVE  Sound(park[k]) /\ ~ Bumps(park[k]) /\ park[k].id \in rows
  <2>1. wrong[k] \in rows /\ Rank(v, rows, wrong[k]) \in Int
    BY <1>1, <1>3
  <2> HIDE DEF wrong
  <2>2. PICK at \in Int : at = scratch - Rank(v, rows, wrong[k])
    <3>1. PICK i \in Int : i = Rank(v, rows, wrong[k])
      BY <2>1
    <3>2. scratch - i \in Int
      OBVIOUS
    <3> QED
      BY <3>1, <3>2
  <2>3. park[k] = SetAt(wrong[k], at)
    BY <1>3, <2>2
  <2> HIDE DEF park, wrong
  <2> QED
    BY <2>1, <2>3, Statements
<1>6. ASSUME NEW k \in 1..n
      PROVE  /\ Sound(number[k]) /\ ~ Bumps(number[k]) /\ ~ Sinks(number[k])
             /\ Settles(number[k], Ordered(v, rows)[k])
  <2>1. number[k] = SetAt(Ordered(v, rows)[k], k) /\ k \in Int /\ k >= 0 /\ ~ (k < 0)
    BY <1>1
  <2> HIDE DEF number
  <2> QED
    BY <2>1, Statements
<1>7. park = ParkOutOfPlace(v, rows, scratch) /\ number = NumberFromOne(Ordered(v, rows))
  BY DEF ParkOutOfPlace, NumberFromOne
<1> HIDE DEF park, number, n, wrong, bad
<1>8. Legal(park) /\ Legal(number) /\ Steady(number) /\ Counts(park, 0) /\ Counts(number, 0)
  BY <1>4, <1>5, <1>6 DEF Legal, Steady, Counts
<1>9. \A k \in DOMAIN park : Settled(number, park[k].id)
  BY <1>1, <1>4, <1>5, <1>6 DEF Settled
<1>10. Good(park \o number, 0 + 0)
  BY <1>8, <1>9, JoinedGood
<1> QED
  BY <1>7, <1>10

LEMMA PlacingGood ==
  ASSUME NEW v, NEW id, NEW day, NEW slot \in Slots, Spread(v, Children(v, day) \ {id})
  PROVE  /\ Good(PlaceAmongPeers(v, id, day, slot), 0)
         /\ Settled(PlaceAmongPeers(v, id, day, slot), id)
<1> DEFINE rows == Children(v, day) \ {id}
<1>1. PICK peers : peers = Ordered(v, rows)
  OBVIOUS
<1>2. PICK n \in Nat : DOMAIN peers = 1..n /\ Len(peers) = n
  BY <1>1, OrderedLists
<1>3. PICK last \in Nat : last = Len(peers) + 1 /\ last >= 1
  BY <1>2
<1>4. PICK desired \in Nat : desired = IF slot = None THEN last ELSE Clamp(slot, last)
  BY <1>3, ClampRange
<1> DEFINE park == [k \in DOMAIN peers |-> SetAt(peers[k], -99 - k)]
           number == [k \in DOMAIN peers |-> SetAt(peers[k], IF k < desired THEN k ELSE k + 1)]
           put == <<SetAt(id, desired)>>
<1>5. /\ IsList(park) /\ DOMAIN park = 1..n /\ IsList(number) /\ DOMAIN number = 1..n
  <2>1. park = [k \in 1..n |-> park[k]] /\ number = [k \in 1..n |-> number[k]]
    BY <1>2
  <2> HIDE DEF park, number
  <2> QED
    BY <2>1, Numbered
<1>6. ASSUME NEW k \in 1..n
      PROVE  /\ Sound(park[k]) /\ ~ Bumps(park[k]) /\ park[k].id = peers[k]
             /\ Sound(number[k]) /\ ~ Bumps(number[k]) /\ ~ Sinks(number[k])
             /\ Settles(number[k], peers[k])
  <2>1. PICK at \in Int : at = -99 - k
    OBVIOUS
  <2>2. PICK to \in Int : to = (IF k < desired THEN k ELSE k + 1) /\ to >= 0
    OBVIOUS
  <2>3. park[k] = SetAt(peers[k], at) /\ number[k] = SetAt(peers[k], to)
    BY <1>2, <2>1, <2>2
  <2> HIDE DEF park, number
  <2> QED
    BY <2>2, <2>3, Statements
<1>7. Good(put, 0) /\ Settled(put, id)
  <2>1. PICK s : s = SetAt(id, desired)
    OBVIOUS
  <2>2. Sound(s) /\ ~ Sinks(s) /\ ~ Bumps(s) /\ Settles(s, id)
    <3>1. desired \in Int /\ desired >= 0
      OBVIOUS
    <3> QED
      BY <2>1, <3>1, Statements
  <2>3. Good(<<s>>, 0) /\ DOMAIN <<s>> = {1} /\ <<s>>[1] = s
    BY <2>2, OneGood
  <2> QED
    BY <2>1, <2>2, <2>3 DEF Settled
<1>8. PlaceAmongPeers(v, id, day, slot) = (park \o number) \o put
  BY <1>1, <1>3, <1>4 DEF PlaceAmongPeers
<1> HIDE DEF park, number, put
<1>9. Legal(park) /\ Legal(number) /\ Steady(number) /\ Counts(park, 0) /\ Counts(number, 0)
  BY <1>5, <1>6 DEF Legal, Steady, Counts
<1>10. \A k \in DOMAIN park : Settled(number, park[k].id)
  BY <1>5, <1>6 DEF Settled
<1>11. Good(park \o number, 0 + 0)
  BY <1>9, <1>10, JoinedGood
<1>12. Good((park \o number) \o put, 0 + 0)
  BY <1>7, <1>11, GoodJoined
<1>13. Settled((park \o number) \o put, id)
  BY <1>7, <1>11, JoinedSettles DEF Good, Legal
<1> QED
  BY <1>8, <1>12, <1>13

LEMMA ExpansionGood ==
  ASSUME NEW e \in Edits, IsFiniteSet(DOMAIN View(e)), KeysAreUnique(View(e)),
         \A id \in PlacesOf(View(e)) : IsRow(View(e)[id]),
         NEW s, Sound(s), s.do \in Reads
  PROVE  /\ Good(Expansion(e, s), 0)
         /\ \A id : Settles(s, id) => Settled(Expansion(e, s), id)
<1> DEFINE v == View(e)
<1>1. \A parent : \A rows \in SUBSET Children(v, parent) : Spread(v, rows)
  BY ChildrenSpread
<1> HIDE DEF v
<1>2. CASE s.do = "resequence"
  <2>1. Expansion(e, s) = ParkOutOfPlace(v, Children(v, s.day), -99) \o NumberFromOne(InOrder(v, s.day))
    BY <1>2 DEF Expansion, v
  <2>2. Spread(v, Children(v, s.day)) /\ -99 \in Int
    BY <1>1
  <2> QED
    BY <1>2, <2>1, <2>2, RenumberingGood DEF InOrder, Settles
<1>3. CASE s.do = "renumber"
  <2>1. Expansion(e, s) = ParkOutOfPlace(v, Children(v, Itin), 0) \o NumberFromOne(InOrder(v, Itin))
    BY <1>3 DEF Expansion, v
  <2>2. Spread(v, Children(v, Itin)) /\ 0 \in Int
    BY <1>1
  <2> QED
    BY <1>3, <2>1, <2>2, RenumberingGood DEF InOrder, Settles
<1>4. CASE s.do = "place"
  <2>1. Expansion(e, s) = PlaceAmongPeers(v, s.id, s.day, s.slot)
    BY <1>4 DEF Expansion, v
  <2>2. Spread(v, Children(v, s.day) \ {s.id})
    BY <1>1
  <2>3. s.slot \in Slots
    BY <1>4 DEF Sound
  <2> QED
    BY <1>4, <2>1, <2>2, <2>3, PlacingGood DEF Settles
<1>5. CASE s.do = "clear"
  <2>1. PICK stale : stale = StaleRoutes(v, s.days, edit[e].before)
    OBVIOUS
  <2>2. Expansion(e, s) = IF stale = {} THEN << >> ELSE <<SetRoute(stale, None)>>
    BY <1>5, <2>1 DEF Expansion, v
  <2>3. Good(<<SetRoute(stale, None)>>, 0)
    BY Statements, OneGood
  <2> QED
    BY <1>5, <2>2, <2>3, NothingGood DEF Settles
<1> QED
  BY <1>2, <1>3, <1>4, <1>5 DEF Reads

(***************************************************************************)
(* What a writing statement does to the rows a transaction sees.           *)
(***************************************************************************)
Typed(rows) ==
  /\ IsFiniteSet(DOMAIN rows)
  /\ \A id \in PlacesOf(rows) : IsRow(rows[id])
  /\ Itin \in DOMAIN rows => IsHeader(rows[Itin])

LEMMA OneRow ==
  ASSUME NEW id, NEW r, id \notin {Trip, Itin} => IsRow(r), id = Itin => IsHeader(r)
  PROVE  /\ DOMAIN Only(id, r) = {id} /\ Only(id, r)[id] = r
         /\ Typed(Only(id, r)) /\ KeysAreUnique(Only(id, r))
         /\ \A x \in PlacesOf(Only(id, r)) : x = id
<1>1. DOMAIN Only(id, r) = {id} /\ Only(id, r)[id] = r /\ IsFiniteSet({id})
  BY FS_Singleton DEF Only
<1> QED
  BY <1>1 DEF Typed, PlacesOf, KeysAreUnique

\* The version a statement leaves the itinerary with.
Step(s) == IF Bumps(s) THEN 1 ELSE 0

LEMMA WrittenRows ==
  ASSUME NEW v, Typed(v), Itin \in DOMAIN v, NEW s, Sound(s), s.do \notin Reads, Needed(s) \subseteq DOMAIN v
  PROVE  /\ Typed(Written(v, s))
         /\ Itin \in DOMAIN Written(v, s) => Written(v, s)[Itin].version = v[Itin].version + Step(s)
         /\ Bumps(s) => Itin \in DOMAIN Written(v, s)
         /\ Itin \notin Deleted(v, s) /\ Trip \notin Deleted(v, s)
         /\ KeysAreUnique(v) => KeysAreUnique(Written(v, s))
         /\ \A id \in PlacesOf(Written(v, s)) : Written(v, s)[id].at < 0 =>
              \/ Sinks(s) /\ s.id = id
              \/ id \in DOMAIN v /\ v[id].at < 0 /\ ~ Settles(s, id)
<1> USE DEF Step, Sinks, Settles, Bumps
<1>1. Written(v, s) = Change(v, s)
  BY DEF Written
<1>2. s.do \in {"setAt", "setDay", "setStatus", "delete", "deleteDays", "insert", "shift", "bump", "setRoute"}
  BY DEF Sound, Reads
<1>4. CASE s.do = "setAt"
  <2>1. PICK q, r, x : q = v[s.id] /\ r = [q EXCEPT !.at = x] /\ x = s.at
    OBVIOUS
  <2>2. Change(v, s) = Only(s.id, r) /\ s.id \in DOMAIN v /\ Deleted(v, s) = {} /\ x \in Int
    BY <1>4, <2>1 DEF Change, Needed, Deleted, Sound
  <2>3. s.id \notin {Trip, Itin} => IsRow(q)
    BY <2>1, <2>2 DEF Typed, PlacesOf
  <2>4. s.id = Itin => IsHeader(q)
    BY <2>1, <2>2 DEF Typed
  <2>5. s.id \notin {Trip, Itin} => IsRow(r) /\ r.at = s.at
    BY <2>1, <2>2, <2>3 DEF IsRow, Place
  <2>6. s.id = Itin => IsHeader(r) /\ r.version = q.version + 0
    BY <2>1, <2>4 DEF IsHeader, Header
  <2>7. PICK w : w = Only(s.id, r)
    OBVIOUS
  <2>8. /\ DOMAIN w = {s.id} /\ w[s.id] = r /\ Typed(w) /\ KeysAreUnique(w)
        /\ \A y \in PlacesOf(w) : y = s.id
    BY <2>5, <2>6, <2>7, OneRow
  <2>9. \A y \in PlacesOf(w) : y \notin {Trip, Itin}
    BY DEF PlacesOf
  <2> QED
    BY <1>1, <1>4, <2>1, <2>2, <2>5, <2>6, <2>7, <2>8, <2>9
<1>5. CASE s.do = "setDay"
  <2>1. PICK q, r, x : q = v[s.id] /\ r = [q EXCEPT !.in = x] /\ x = s.day
    OBVIOUS
  <2>2. Change(v, s) = Only(s.id, r) /\ s.id \in DOMAIN v /\ Deleted(v, s) = {}
    BY <1>5, <2>1 DEF Change, Needed, Deleted, Sound
  <2>3. s.id \notin {Trip, Itin} => IsRow(q)
    BY <2>1, <2>2 DEF Typed, PlacesOf
  <2>4. s.id = Itin => IsHeader(q)
    BY <2>1, <2>2 DEF Typed
  <2>5. s.id \notin {Trip, Itin} => IsRow(r) /\ r.at = q.at
    BY <2>1, <2>2, <2>3 DEF IsRow, Place
  <2>6. s.id = Itin => IsHeader(r) /\ r.version = q.version + 0
    BY <2>1, <2>4 DEF IsHeader, Header
  <2>7. PICK w : w = Only(s.id, r)
    OBVIOUS
  <2>8. /\ DOMAIN w = {s.id} /\ w[s.id] = r /\ Typed(w) /\ KeysAreUnique(w)
        /\ \A y \in PlacesOf(w) : y = s.id
    BY <2>5, <2>6, <2>7, OneRow
  <2>9. \A y \in PlacesOf(w) : y \notin {Trip, Itin}
    BY DEF PlacesOf
  <2> QED
    BY <1>1, <1>5, <2>1, <2>2, <2>5, <2>6, <2>7, <2>8, <2>9
<1>6. CASE s.do = "setStatus"
  <2>1. PICK q, r, x : q = v[s.id] /\ r = [q EXCEPT !.status = x] /\ x = s.status
    OBVIOUS
  <2>2. Change(v, s) = Only(s.id, r) /\ s.id \in DOMAIN v /\ Deleted(v, s) = {}
    BY <1>6, <2>1 DEF Change, Needed, Deleted, Sound
  <2>3. s.id \notin {Trip, Itin} => IsRow(q)
    BY <2>1, <2>2 DEF Typed, PlacesOf
  <2>4. s.id = Itin => IsHeader(q)
    BY <2>1, <2>2 DEF Typed
  <2>5. s.id \notin {Trip, Itin} => IsRow(r) /\ r.at = q.at
    BY <2>1, <2>2, <2>3 DEF IsRow, Place
  <2>6. s.id = Itin => IsHeader(r) /\ r.version = q.version + 0
    BY <2>1, <2>4 DEF IsHeader, Header
  <2>7. PICK w : w = Only(s.id, r)
    OBVIOUS
  <2>8. /\ DOMAIN w = {s.id} /\ w[s.id] = r /\ Typed(w) /\ KeysAreUnique(w)
        /\ \A y \in PlacesOf(w) : y = s.id
    BY <2>5, <2>6, <2>7, OneRow
  <2>9. \A y \in PlacesOf(w) : y \notin {Trip, Itin}
    BY DEF PlacesOf
  <2> QED
    BY <1>1, <1>6, <2>1, <2>2, <2>5, <2>6, <2>7, <2>8, <2>9
<1>7. CASE s.do = "insert"
  <2>1. Change(v, s) = Only(s.id, s.row) /\ Deleted(v, s) = {}
    BY <1>7 DEF Change, Deleted
  <2>2. IsRow(s.row) /\ s.row.at >= 0 /\ s.row.at \in Int /\ s.id \notin {Trip, Itin}
    BY <1>7 DEF Sound, IsRow
  <2>3. PICK w : w = Only(s.id, s.row)
    OBVIOUS
  <2>4. /\ DOMAIN w = {s.id} /\ w[s.id] = s.row /\ Typed(w) /\ KeysAreUnique(w)
        /\ \A y \in PlacesOf(w) : y = s.id
    BY <2>2, <2>3, OneRow
  <2> QED
    BY <1>1, <1>7, <2>1, <2>2, <2>3, <2>4
<1>8. CASE s.do = "bump"
  <2>1. PICK q, r : q = v[Itin] /\ r = [q EXCEPT !.version = @ + 1]
    OBVIOUS
  <2>2. Change(v, s) = Only(Itin, r) /\ Deleted(v, s) = {}
    BY <1>8, <2>1 DEF Change, Deleted
  <2>3. IsHeader(r) /\ r.version = q.version + 1
    <3>1. IsHeader(q)
      BY <2>1 DEF Typed
    <3> QED
      BY <2>1, <3>1 DEF IsHeader, Header
  <2>4. PICK w : w = Only(Itin, r)
    OBVIOUS
  <2>5. /\ DOMAIN w = {Itin} /\ w[Itin] = r /\ Typed(w) /\ KeysAreUnique(w)
        /\ \A y \in PlacesOf(w) : y = Itin
    BY <2>3, <2>4, OneRow
  <2>6. PlacesOf(w) = {}
    BY <2>5 DEF PlacesOf
  <2> QED
    BY <1>1, <1>8, <2>1, <2>2, <2>3, <2>4, <2>5, <2>6
<1>9. CASE s.do = "setRoute"
  <2>1. PICK w, x : w = Change(v, s) /\ x = s.route
    OBVIOUS
  <2>2. /\ DOMAIN w = s.ids \intersect DOMAIN v /\ Deleted(v, s) = {}
        /\ \A id \in DOMAIN w : w[id] = [v[id] EXCEPT !.route = x]
    BY <1>9, <2>1 DEF Change, Deleted
  <2>3. IsFiniteSet(DOMAIN w)
    BY <2>2, FS_Subset DEF Typed
  <2>4. ASSUME NEW id \in PlacesOf(w)
        PROVE  id \in PlacesOf(v) /\ IsRow(w[id]) /\ w[id].at = v[id].at /\ Key(w[id]) = Key(v[id])
    <3>1. id \in PlacesOf(v) /\ IsRow(v[id])
      BY <2>2 DEF Typed, PlacesOf
    <3>2. PICK q : q = v[id]
      OBVIOUS
    <3>3. w[id] = [q EXCEPT !.route = x]
      BY <2>2, <3>2 DEF PlacesOf
    <3> QED
      BY <3>1, <3>2, <3>3 DEF IsRow, Place, Key
  <2>5. Itin \in DOMAIN w => IsHeader(w[Itin]) /\ w[Itin].version = v[Itin].version + 0
    <3>1. PICK q : q = v[Itin]
      OBVIOUS
    <3>2. IsHeader(q)
      BY <3>1 DEF Typed
    <3>3. Itin \in DOMAIN w => w[Itin] = [q EXCEPT !.route = x]
      BY <2>2, <3>1
    <3> QED
      BY <3>1, <3>2, <3>3 DEF IsHeader, Header
  <2>6. KeysAreUnique(v) => KeysAreUnique(w)
    BY <2>4 DEF KeysAreUnique
  <2>7. Typed(w)
    BY <2>3, <2>4, <2>5 DEF Typed
  <2>8. \A id \in PlacesOf(w) : id \in DOMAIN v /\ w[id].at = v[id].at
    BY <2>4 DEF PlacesOf
  <2> QED
    BY <1>1, <1>9, <2>1, <2>2, <2>5, <2>6, <2>7, <2>8
<1>10. CASE s.do = "shift"
  <2>1. PICK w : w = Change(v, s)
    OBVIOUS
  <2>2. /\ DOMAIN w = {i \in Children(v, s.day) : v[i].at >= s.from} /\ Deleted(v, s) = {}
        /\ \A id \in DOMAIN w : w[id] = [v[id] EXCEPT !.at = @ + s.by]
    BY <1>10, <2>1 DEF Change, Deleted
  <2>3. s.by \in Nat
    BY <1>10 DEF Sound
  <2>4. DOMAIN w \subseteq PlacesOf(v) /\ \A id \in DOMAIN w : v[id].in = s.day
    BY <2>2 DEF Children, PlacesOf
  <2>5. IsFiniteSet(DOMAIN w)
    BY <2>4, FS_Subset DEF Typed, PlacesOf
  <2>6. ASSUME NEW id \in DOMAIN w
        PROVE  IsRow(w[id]) /\ w[id].at = v[id].at + s.by /\ w[id].in = s.day /\ v[id].at \in Int
    <3>1. IsRow(v[id]) /\ v[id].at \in Int
      BY <2>4 DEF Typed, IsRow
    <3>2. PICK x \in Int : x = v[id].at + s.by
      BY <2>3, <3>1
    <3>3. PICK q : q = v[id]
      OBVIOUS
    <3>4. w[id] = [q EXCEPT !.at = x]
      BY <2>2, <3>2, <3>3
    <3> QED
      BY <2>4, <3>1, <3>2, <3>3, <3>4 DEF IsRow, Place
  <2>7. Itin \notin DOMAIN w
    BY <2>4 DEF PlacesOf
  <2>8. ASSUME KeysAreUnique(v), NEW i \in DOMAIN w, NEW j \in DOMAIN w, Key(w[i]) = Key(w[j])
        PROVE  i = j
    <3>1. w[i].at = w[j].at
      BY <2>8 DEF Key
    <3>2. v[i].at = v[j].at
      BY <2>3, <2>6, <3>1
    <3>3. Key(v[i]) = Key(v[j])
      BY <2>4, <3>2 DEF Key
    <3> QED
      BY <2>4, <2>8, <3>3 DEF KeysAreUnique
  <2>9. KeysAreUnique(v) => KeysAreUnique(w)
    BY <2>8 DEF KeysAreUnique, PlacesOf
  <2>10. \A id \in PlacesOf(w) : w[id].at < 0 => id \in DOMAIN v /\ v[id].at < 0
    BY <2>3, <2>4, <2>6 DEF PlacesOf
  <2> QED
    BY <1>1, <1>10, <2>1, <2>2, <2>5, <2>6, <2>7, <2>9, <2>10 DEF Typed, PlacesOf
<1>11. CASE s.do \in {"delete", "deleteDays"}
  <2>1. Change(v, s) = << >> /\ DOMAIN << >> = {} /\ IsFiniteSet({})
    BY <1>11, FS_EmptySet DEF Change
  <2>2. Itin \notin Deleted(v, s) /\ Trip \notin Deleted(v, s)
    BY <1>11 DEF Deleted, Sound, Children
  <2> QED
    BY <1>1, <1>11, <2>1, <2>2 DEF Typed, PlacesOf, KeysAreUnique
<1> QED
  BY <1>2, <1>4, <1>5, <1>6, <1>7, <1>8, <1>9, <1>10, <1>11

(***************************************************************************)
(* The inductive invariant. A transaction t over the committed rows:       *)
(*  - it holds rows only while it is open, and its request could be made;  *)
(*  - its own rows have the columns' types, neither header is deleted,     *)
(*    and the keys of the rows it sees are unique;                         *)
(*  - a row it sees at a scratch position is numbered by a statement that  *)
(*    is still to come;                                                    *)
(*  - what it has added to the version and what it is still to add make    *)
(*    what a structural edit adds.                                         *)
(***************************************************************************)
See(t, rows) ==
  [id \in (DOMAIN t.own \union DOMAIN rows) \ t.dropped |->
     IF id \in DOMAIN t.own THEN t.own[id] ELSE rows[id]]
Locks(t) == DOMAIN t.own \union t.dropped
Held(t) == PlacesOf(t.own) \ t.dropped

Added(t, rows) == IF Itin \in DOMAIN t.own THEN t.own[Itin].version - rows[Itin].version ELSE 0

ParkedIsSettled(t, rows) ==
  \A id \in PlacesOf(See(t, rows)) : See(t, rows)[id].at < 0 => Settled(t.todo, id)

TxnOk(t, rows) ==
  /\ t.phase # "open" => t.own = << >> /\ t.dropped = {}
  /\ t.phase \in {"asked", "begun", "open"} => RequestOk(t.op)
  /\ Typed(t.own) /\ Itin \notin t.dropped /\ Trip \notin t.dropped
  /\ KeysAreUnique(See(t, rows))
  /\ t.phase = "open" =>
       /\ Legal(t.todo) /\ Steady(t.todo)
       /\ ParkedIsSettled(t, rows)
       /\ Added(t, rows) \in {0, 1} /\ Counts(t.todo, Due(t.op) - Added(t, rows))

\* Two transactions hold no row and no key together, and neither has a key that the
\* other may free or take back when it ends.
Apart(t, x, rows) ==
  /\ Locks(t) \intersect Locks(x) = {}
  /\ \A i \in Held(t), j \in Held(x) : Key(t.own[i]) # Key(x.own[j])
  /\ \A i \in Held(t), j \in PlacesOf(rows) \intersect Locks(x) : Key(t.own[i]) # Key(rows[j])

Fields == {"phase", "op", "todo", "own", "dropped", "parents", "before", "alone"}
EditsInv ==
  /\ DOMAIN edit = Edits /\ \A e \in Edits : DOMAIN edit[e] = Fields
  /\ WellFormed(table)
  /\ \A e \in Edits : TxnOk(edit[e], table)
  /\ \A e, u \in Edits : e # u => Apart(edit[e], edit[u], table)

LEMMA ViewIsSeen ==
  ASSUME NEW e
  PROVE  View(e) = See(edit[e], table) /\ LockedBy(e) = Locks(edit[e])
BY DEF View, See, LockedBy, Locks

LEMMA SeenTyped ==
  ASSUME NEW t, NEW rows, WellFormed(rows), TxnOk(t, rows)
  PROVE  /\ Typed(See(t, rows)) /\ Itin \in DOMAIN See(t, rows) /\ Trip \in DOMAIN See(t, rows)
         /\ See(t, rows)[Itin].version = rows[Itin].version + Added(t, rows)
         /\ Added(t, rows) \in Int /\ rows[Itin].version \in Int
<1> DEFINE v == See(t, rows)
<1>1. /\ DOMAIN v = (DOMAIN t.own \union DOMAIN rows) \ t.dropped
      /\ \A id \in DOMAIN v : v[id] = IF id \in DOMAIN t.own THEN t.own[id] ELSE rows[id]
  BY DEF See
<1> HIDE DEF v
<1>2. /\ IsFiniteSet(DOMAIN rows) /\ Itin \in DOMAIN rows /\ Trip \in DOMAIN rows /\ IsHeader(rows[Itin])
      /\ \A id \in PlacesOf(rows) : IsRow(rows[id])
  BY DEF WellFormed
<1>3. Typed(t.own) /\ Itin \notin t.dropped /\ Trip \notin t.dropped
  BY DEF TxnOk
<1>4. IsFiniteSet(DOMAIN v)
  <2>1. IsFiniteSet(DOMAIN t.own \union DOMAIN rows)
    BY <1>2, <1>3, FS_Union DEF Typed
  <2> QED
    BY <1>1, <2>1, FS_Subset
<1>5. \A id \in PlacesOf(v) : IsRow(v[id])
  BY <1>1, <1>2, <1>3 DEF Typed, PlacesOf
<1>6. Itin \in DOMAIN v /\ Trip \in DOMAIN v /\ IsHeader(v[Itin])
  BY <1>1, <1>2, <1>3 DEF Typed
<1>7. rows[Itin].version \in Int /\ v[Itin].version \in Int
  BY <1>2, <1>6 DEF IsHeader
<1>8. v[Itin].version = rows[Itin].version + Added(t, rows) /\ Added(t, rows) \in Int
  BY <1>1, <1>6, <1>7 DEF Added
<1> QED
  BY <1>4, <1>5, <1>6, <1>7, <1>8 DEF Typed, v

\* A transaction that holds nothing sees the committed rows.
LEMMA NothingHeld ==
  ASSUME NEW t, NEW rows, WellFormed(rows), t.own = << >>, t.dropped = {}
  PROVE  /\ DOMAIN See(t, rows) = DOMAIN rows
         /\ \A id \in DOMAIN rows : See(t, rows)[id] = rows[id]
         /\ Typed(t.own) /\ Itin \notin t.dropped /\ Trip \notin t.dropped /\ KeysAreUnique(See(t, rows))
         /\ Locks(t) = {} /\ Held(t) = {} /\ Added(t, rows) = 0
         /\ \A id \in PlacesOf(See(t, rows)) : ~ (See(t, rows)[id].at < 0)
<1>1. DOMAIN << >> = {} /\ IsFiniteSet({})
  BY FS_EmptySet
<1>2. DOMAIN See(t, rows) = DOMAIN rows /\ \A id \in DOMAIN rows : See(t, rows)[id] = rows[id]
  BY <1>1 DEF See
<1>3. Typed(t.own) /\ Locks(t) = {} /\ Held(t) = {} /\ Added(t, rows) = 0
  BY <1>1 DEF Typed, PlacesOf, Locks, Held, Added
<1>4. KeysAreUnique(See(t, rows))
  BY <1>2 DEF KeysAreUnique, WellFormed, PlacesOf
<1>5. \A id \in PlacesOf(See(t, rows)) : ~ (See(t, rows)[id].at < 0)
  BY <1>2 DEF PlacesOf, WellFormed, IsRow
<1> QED
  BY <1>2, <1>3, <1>4, <1>5

\* The invariant does not look at what else a transaction records.
SameTxn(t, x) ==
  /\ x.phase = t.phase /\ x.op = t.op /\ x.todo = t.todo /\ x.own = t.own /\ x.dropped = t.dropped

LEMMA SameOk ==
  ASSUME NEW t, NEW x, NEW rows, SameTxn(t, x)
  PROVE  /\ TxnOk(t, rows) => TxnOk(x, rows)
         /\ \A y : Apart(t, y, rows) => Apart(x, y, rows)
         /\ \A y : Apart(y, t, rows) => Apart(y, x, rows)
<1>1. See(x, rows) = See(t, rows) /\ Locks(x) = Locks(t) /\ Held(x) = Held(t) /\ Added(x, rows) = Added(t, rows)
  BY DEF SameTxn, See, Locks, Held, Added
<1>2. ParkedIsSettled(t, rows) => ParkedIsSettled(x, rows)
  BY <1>1 DEF ParkedIsSettled, SameTxn
<1>3. TxnOk(t, rows) => TxnOk(x, rows)
  BY <1>1, <1>2 DEF TxnOk, SameTxn
<1>4. \A y : Apart(t, y, rows) => Apart(x, y, rows)
  BY <1>1 DEF Apart, SameTxn
<1>5. \A y : Apart(y, t, rows) => Apart(y, x, rows)
  BY <1>1 DEF Apart, SameTxn
<1> QED
  BY <1>3, <1>4, <1>5

(***************************************************************************)
(* One transaction moves, and the committed rows stay.                     *)
(***************************************************************************)
LEMMA OneMoves ==
  ASSUME EditsInv, NEW e \in Edits, UNCHANGED table,
         DOMAIN edit' = Edits, DOMAIN edit'[e] = Fields,
         \A u \in Edits \ {e} : DOMAIN edit'[u] = Fields /\ SameTxn(edit[u], edit'[u]),
         TxnOk(edit'[e], table),
         \A u \in Edits \ {e} : Apart(edit'[e], edit[u], table) /\ Apart(edit[u], edit'[e], table)
  PROVE  EditsInv'
<1>1. DOMAIN edit' = Edits /\ \A u \in Edits : DOMAIN edit'[u] = Fields
  OBVIOUS
<1>2. WellFormed(table)'
  BY DEF EditsInv
<1>3. \A u \in Edits : TxnOk(edit'[u], table')
  BY SameOk DEF EditsInv
<1>4. ASSUME NEW u \in Edits, NEW w \in Edits, u # w
      PROVE  Apart(edit'[u], edit'[w], table')
  <2>1. CASE u = e
    BY <1>4, <2>1, SameOk
  <2>2. CASE w = e
    BY <1>4, <2>2, SameOk
  <2>3. CASE u # e /\ w # e
    <3>1. Apart(edit[u], edit[w], table) /\ SameTxn(edit[u], edit'[u]) /\ SameTxn(edit[w], edit'[w])
      BY <1>4, <2>3 DEF EditsInv
    <3>2. Apart(edit'[u], edit[w], table)
      BY <3>1, SameOk
    <3> QED
      BY <3>1, <3>2, SameOk
  <2> QED
    BY <2>1, <2>2, <2>3
<1> QED
  BY <1>1, <1>2, <1>3, <1>4 DEF EditsInv

\* It begins, is refused or is undone: it holds nothing.
LEMMA HoldsNothing ==
  ASSUME EditsInv, NEW e \in Edits, UNCHANGED table,
         DOMAIN edit' = Edits, DOMAIN edit'[e] = Fields,
         \A u \in Edits \ {e} : DOMAIN edit'[u] = Fields /\ SameTxn(edit[u], edit'[u]),
         edit'[e].own = << >>, edit'[e].dropped = {}, edit'[e].phase # "open",
         edit'[e].phase \in {"asked", "begun"} => RequestOk(edit'[e].op)
  PROVE  EditsInv'
<1>1. PICK t : t = edit'[e]
  OBVIOUS
<1>2. WellFormed(table)
  BY DEF EditsInv
<1>3. /\ Typed(t.own) /\ Itin \notin t.dropped /\ Trip \notin t.dropped /\ KeysAreUnique(See(t, table))
      /\ Locks(t) = {} /\ Held(t) = {}
  BY <1>1, <1>2, NothingHeld
<1>4. TxnOk(t, table)
  BY <1>1, <1>3 DEF TxnOk
<1>5. \A x : Apart(t, x, table) /\ Apart(x, t, table)
  BY <1>3 DEF Apart
<1> QED
  BY <1>1, <1>4, <1>5, OneMoves

LEMMA UndoneKeeps ==
  ASSUME EditsInv, NEW e \in Edits, UNCHANGED table, edit' = Undone(e)
  PROVE  EditsInv'
<1>1. DOMAIN edit = Edits /\ \A u \in Edits : DOMAIN edit[u] = Fields
  BY DEF EditsInv
<1>2. DOMAIN edit' = Edits /\ \A u \in Edits \ {e} : edit'[u] = edit[u]
  BY <1>1 DEF Undone
<1>3. /\ DOMAIN edit'[e] = Fields /\ edit'[e].own = << >> /\ edit'[e].dropped = {}
      /\ edit'[e].phase = "failed"
  BY <1>1 DEF Undone, Idle, Fields
<1>4. \A u \in Edits \ {e} : DOMAIN edit'[u] = Fields /\ SameTxn(edit[u], edit'[u])
  BY <1>1, <1>2 DEF SameTxn
<1> QED
  BY <1>2, <1>3, <1>4, HoldsNothing

LEMMA EnterKeeps ==
  ASSUME EditsInv, NEW e \in Edits, UNCHANGED table, NEW phase \in {"asked", "begun"}, NEW op,
         RequestOk(op), Enter(e, phase, op)
  PROVE  EditsInv'
<1>1. DOMAIN edit = Edits /\ \A u \in Edits : DOMAIN edit[u] = Fields
  BY DEF EditsInv
<1>2. PICK alone : alone = \A w \in Edits \ {e} : ~ Active(w)
  OBVIOUS
<1>3. edit' = [u \in Edits |->
         IF u = e THEN [Idle EXCEPT !.phase = phase, !.op = op, !.alone = alone]
         ELSE IF Active(u) THEN [edit[u] EXCEPT !.alone = FALSE] ELSE edit[u]]
  BY <1>2 DEF Enter
<1>4. /\ DOMAIN edit' = Edits /\ edit'[e] = [Idle EXCEPT !.phase = phase, !.op = op, !.alone = alone]
      /\ \A u \in Edits \ {e} : edit'[u] = IF Active(u) THEN [edit[u] EXCEPT !.alone = FALSE] ELSE edit[u]
  BY <1>3
<1>5. /\ DOMAIN edit'[e] = Fields /\ edit'[e].own = << >> /\ edit'[e].dropped = {}
      /\ edit'[e].phase = phase /\ edit'[e].op = op
  BY <1>4 DEF Idle, Fields
<1>6. ASSUME NEW u \in Edits \ {e}
      PROVE  DOMAIN edit'[u] = Fields /\ SameTxn(edit[u], edit'[u])
  <2>1. PICK t : t = edit[u] /\ DOMAIN t = Fields
    BY <1>1
  <2>2. edit'[u] = t \/ edit'[u] = [t EXCEPT !.alone = FALSE]
    BY <1>4, <2>1
  <2>3. /\ DOMAIN [t EXCEPT !.alone = FALSE] = Fields
        /\ SameTxn(t, [t EXCEPT !.alone = FALSE])
    BY <2>1 DEF SameTxn, Fields
  <2> QED
    BY <2>1, <2>2, <2>3 DEF SameTxn
<1> QED
  BY <1>4, <1>5, <1>6, HoldsNothing

(***************************************************************************)
(* Requests.                                                               *)
(***************************************************************************)
LEMMA HandEditKeeps ==
  ASSUME EditsInv, NEW e \in Edits, BeginHandEdit(e)
  PROVE  EditsInv'
<1>1. PICK op \in HandOps : Enter(e, "begun", op)
  BY DEF BeginHandEdit
<1>2. UNCHANGED table
  BY DEF BeginHandEdit
<1> DEFINE days == Children(table, Itin)
           items == UNION {Children(table, d) : d \in days}
<1>3. \A d \in days : d \notin {Trip, Itin}
  BY DEF Children
<1>4. \A i \in items : i \notin {Trip, Itin}
  BY DEF Children
<1>5. op \in {Op("addDay", None, None, s, 0) : s \in Slots}
             \union {Op("removeDay", d, None, None, 0) : d \in days}
             \union {Op(kind, None, d, s, 0) : kind \in AddKinds, d \in days, s \in Slots}
             \union {Op("removeItem", i, None, None, 0) : i \in items}
             \union {Op("moveItem", i, d, s, 0) : i \in items, d \in days, s \in Slots}
             \union {Op("replace", None, None, s, 0) : s \in Slots \ {None}}
  BY DEF HandOps
<1> HIDE DEF days, items
<1> USE DEF AddKinds, HandKinds, StatusKinds, ReuseKinds
<1>6. RequestOk(op)
  <2>1. CASE op \in {Op("addDay", None, None, s, 0) : s \in Slots}
    <3>1. PICK s \in Slots : op = Op("addDay", None, None, s, 0)
      BY <2>1
    <3> QED
      BY <3>1 DEF RequestOk, Op
  <2>2. CASE op \in {Op("removeDay", d, None, None, 0) : d \in days}
    <3>1. PICK d \in days : op = Op("removeDay", d, None, None, 0)
      BY <2>2
    <3> QED
      BY <1>3, <3>1 DEF RequestOk, Op
  <2>3. CASE op \in {Op(kind, None, d, s, 0) : kind \in AddKinds, d \in days, s \in Slots}
    <3>1. PICK kind \in AddKinds, d \in days, s \in Slots : op = Op(kind, None, d, s, 0)
      BY <2>3
    <3> QED
      BY <3>1 DEF RequestOk, Op
  <2>4. CASE op \in {Op("removeItem", i, None, None, 0) : i \in items}
    <3>1. PICK i \in items : op = Op("removeItem", i, None, None, 0)
      BY <2>4
    <3> QED
      BY <1>4, <3>1 DEF RequestOk, Op
  <2>5. CASE op \in {Op("moveItem", i, d, s, 0) : i \in items, d \in days, s \in Slots}
    <3>1. PICK i \in items, d \in days, s \in Slots : op = Op("moveItem", i, d, s, 0)
      BY <2>5
    <3> QED
      BY <1>4, <3>1 DEF RequestOk, Op
  <2>6. CASE op \in {Op("replace", None, None, s, 0) : s \in Slots \ {None}}
    <3>1. PICK s \in Slots \ {None} : op = Op("replace", None, None, s, 0)
      BY <2>6
    <3> QED
      BY <3>1 DEF RequestOk, Op
  <2> QED
    BY <1>5, <2>1, <2>2, <2>3, <2>4, <2>5, <2>6
<1> QED
  BY <1>1, <1>2, <1>6, EnterKeeps

LEMMA StatusEditKeeps ==
  ASSUME EditsInv, NEW e \in Edits, BeginStatusEdit(e)
  PROVE  EditsInv'
<1>1. PICK kind \in StatusKinds : Enter(e, "begun", Op(kind, None, None, table[Trip].status, 0))
  BY DEF BeginStatusEdit
<1>2. PICK op : op = Op(kind, None, None, table[Trip].status, 0)
  OBVIOUS
<1>3. RequestOk(op)
  BY <1>1, <1>2 DEF RequestOk, Op, AddKinds, HandKinds, StatusKinds, ReuseKinds
<1>4. UNCHANGED table
  BY DEF BeginStatusEdit
<1> QED
  BY <1>1, <1>2, <1>3, <1>4, EnterKeeps

LEMMA AskReuseKeeps ==
  ASSUME EditsInv, NEW e \in Edits, AskReuse(e)
  PROVE  EditsInv'
<1>1. WellFormed(table) /\ UNCHANGED table
  BY DEF EditsInv, AskReuse
<1>2. PICK days : days = InOrder(table, Itin)
  OBVIOUS
<1>3. IsList(days) /\ Len(days) \in Nat
  BY <1>1, <1>2, ChildrenListed, ListFacts DEF InOrder
<1> USE DEF AddKinds, HandKinds, StatusKinds, ReuseKinds
<1>4. ASSUME NEW index \in 0..Len(days), Enter(e, "asked", Op("reuseDay", None, None, index, 1))
      PROVE  EditsInv'
  <2>1. PICK op : op = Op("reuseDay", None, None, index, 1)
    OBVIOUS
  <2>2. index \in Nat
    BY <1>3
  <2>3. RequestOk(op)
    BY <2>1, <2>2 DEF RequestOk, Op
  <2> QED
    BY <1>1, <1>4, <2>1, <2>3, EnterKeeps
<1>5. ASSUME NEW position \in Nat, NEW copies \in 1..2, NEW day,
             Enter(e, "asked", Op("reuseItem", None, day, position, copies))
      PROVE  EditsInv'
  <2>1. PICK op : op = Op("reuseItem", None, day, position, copies)
    OBVIOUS
  <2>2. RequestOk(op)
    BY <2>1 DEF RequestOk, Op
  <2> QED
    BY <1>1, <1>5, <2>1, <2>2, EnterKeeps
<1>6. ASSUME NEW k \in DOMAIN days, NEW copies \in 1..2,
             NEW last, last = (IF InOrder(table, days[k]) = << >> THEN 0
                               ELSE table[Last(InOrder(table, days[k]))].at + 1),
             NEW position \in {s - 1 : s \in Slots \ {None}} \union {last}
      PROVE  position \in Nat
  <2>1. last \in Nat
    <3>1. PICK stops, n : stops = InOrder(table, days[k]) /\ n = Len(stops)
      OBVIOUS
    <3>2. IsList(stops) /\ \A j \in 1..n : table[stops[j]].at \in Nat
      BY <1>1, <3>1, ChildrenListed DEF InOrder
    <3>3. stops # << >> => n \in 1..n
      BY <3>1, <3>2, ListFacts
    <3>4. Last(stops) = stops[n]
      BY <3>1 DEF Last
    <3> QED
      BY <1>6, <3>1, <3>2, <3>3, <3>4
  <2>2. \A s \in Slots \ {None} : s \in Nat \ {0}
    BY SlotAssumption
  <2>3. \A s \in Slots \ {None} : s - 1 \in Nat
    BY <2>2
  <2> QED
    BY <2>1, <2>3
<1>7. \/ \E index \in 0..Len(days) : Enter(e, "asked", Op("reuseDay", None, None, index, 1))
      \/ \E k \in DOMAIN days, copies \in 1..2 :
           LET stops == InOrder(table, days[k])
               last == IF stops = << >> THEN 0 ELSE table[Last(stops)].at + 1
           IN \E position \in {s - 1 : s \in Slots \ {None}} \union {last} :
                Enter(e, "asked", Op("reuseItem", None, days[k], position, copies))
  BY <1>2 DEF AskReuse
<1> QED
  BY <1>4, <1>5, <1>6, <1>7

LEMMA BeginAskedKeeps ==
  ASSUME EditsInv, NEW e \in Edits, BeginAsked(e)
  PROVE  EditsInv'
<1>1. PICK t : t = edit[e] /\ DOMAIN t = Fields
  BY DEF EditsInv
<1>2. PICK phase \in {"begun", "failed"} : edit' = [edit EXCEPT ![e].phase = phase]
  BY DEF BeginAsked
<1>3. UNCHANGED table /\ t.phase = "asked"
  BY <1>1 DEF BeginAsked
<1>4. TxnOk(t, table) /\ DOMAIN edit = Edits /\ \A u \in Edits : DOMAIN edit[u] = Fields
  BY <1>1 DEF EditsInv
<1>5. t.own = << >> /\ t.dropped = {} /\ RequestOk(t.op)
  BY <1>3, <1>4 DEF TxnOk
<1>6. edit'[e] = [t EXCEPT !.phase = phase] /\ DOMAIN edit' = Edits
  BY <1>1, <1>2, <1>4
<1>7. /\ DOMAIN edit'[e] = Fields /\ edit'[e].phase = phase /\ edit'[e].own = t.own
      /\ edit'[e].dropped = t.dropped /\ edit'[e].op = t.op
  BY <1>1, <1>6 DEF Fields
<1>8. \A u \in Edits \ {e} : DOMAIN edit'[u] = Fields /\ SameTxn(edit[u], edit'[u])
  BY <1>2, <1>4 DEF SameTxn
<1> QED
  BY <1>3, <1>5, <1>6, <1>7, <1>8, HoldsNothing

LEMMA PlanKeeps ==
  ASSUME EditsInv, NEW e \in Edits, Plan(e)
  PROVE  EditsInv'
<1>1. PICK t : t = edit[e] /\ DOMAIN t = Fields
  BY DEF EditsInv
<1>2. UNCHANGED table /\ t.phase = "begun"
  BY <1>1 DEF Plan
<1>3. TxnOk(t, table) /\ DOMAIN edit = Edits /\ \A u \in Edits : DOMAIN edit[u] = Fields
  BY <1>1 DEF EditsInv
<1>4. WellFormed(table) /\ t.own = << >> /\ t.dropped = {} /\ RequestOk(t.op)
  BY <1>2, <1>3 DEF TxnOk, EditsInv
<1>5. \/ edit' = Undone(e)
      \/ \E todo \in Plans(e, table, t.op) :
           edit' = [edit EXCEPT ![e].phase = "open", ![e].todo = todo,
                                ![e].before = OrdersBefore(table, t.op)]
  BY <1>1 DEF Plan
<1>6. ASSUME NEW todo \in Plans(e, table, t.op), NEW before,
             edit' = [edit EXCEPT ![e].phase = "open", ![e].todo = todo, ![e].before = before]
      PROVE  EditsInv'
  <2>1. PICK r : r = [t EXCEPT !.phase = "open", !.todo = todo, !.before = before]
    OBVIOUS
  <2>2. edit'[e] = r /\ DOMAIN edit' = Edits
    BY <1>1, <1>3, <1>6, <2>1
  <2>3. /\ DOMAIN r = Fields /\ r.phase = "open" /\ r.todo = todo /\ r.own = << >>
        /\ r.dropped = {} /\ r.op = t.op
    BY <1>1, <1>4, <2>1 DEF Fields
  <2>4. \A u \in Edits \ {e} : DOMAIN edit'[u] = Fields /\ SameTxn(edit[u], edit'[u])
    BY <1>3, <1>6 DEF SameTxn
  <2>5. Good(todo, Due(r.op))
    BY <1>4, <2>3, PlansGood
  <2>6. /\ Typed(r.own) /\ Itin \notin r.dropped /\ Trip \notin r.dropped /\ KeysAreUnique(See(r, table))
        /\ Locks(r) = {} /\ Held(r) = {} /\ Added(r, table) = 0
        /\ \A id \in PlacesOf(See(r, table)) : ~ (See(r, table)[id].at < 0)
    BY <1>4, <2>3, NothingHeld
  <2>7. Due(r.op) - 0 = Due(r.op)
    BY DEF Due
  <2>8. TxnOk(r, table)
    BY <1>4, <2>3, <2>5, <2>6, <2>7 DEF TxnOk, Good, ParkedIsSettled
  <2>9. \A x : Apart(r, x, table) /\ Apart(x, r, table)
    BY <2>6 DEF Apart
  <2> QED
    BY <1>2, <2>2, <2>3, <2>4, <2>8, <2>9, OneMoves
<1> QED
  BY <1>2, <1>5, <1>6, UndoneKeeps

(***************************************************************************)
(* The next statement.                                                     *)
(***************************************************************************)
LEMMA TailGood ==
  ASSUME NEW t, NEW m, Legal(t), Steady(t), Counts(t, m), t # << >>
  PROVE  /\ Sound(Head(t)) /\ Good(Tail(t), m - Step(Head(t)))
         /\ \A id : Settled(t, id) => Settles(Head(t), id) \/ Settled(Tail(t), id)
         /\ Sinks(Head(t)) => Settled(Tail(t), Head(t).id)
<1>1. PICK n, tl : n = Len(t) /\ tl = Tail(t)
  OBVIOUS
<1>2. /\ n \in Nat /\ n > 0 /\ DOMAIN t = 1..n /\ Head(t) = t[1] /\ IsList(tl) /\ Len(tl) = n - 1
      /\ \A k \in 1..n - 1 : tl[k] = t[k + 1]
  BY <1>1, ListFacts DEF Legal
<1>3. DOMAIN tl = 1..n - 1
  BY <1>2, ListFacts
<1>4. 1 \in DOMAIN t /\ Sound(t[1])
  BY <1>2 DEF Legal
<1>5. \A k \in DOMAIN tl : k + 1 \in DOMAIN t /\ tl[k] = t[k + 1]
  BY <1>2, <1>3
<1>6. ASSUME NEW k \in DOMAIN t
      PROVE  k = 1 \/ (k - 1 \in DOMAIN tl /\ tl[k - 1] = t[k])
  <2>1. PICK i \in Int : i = k - 1
    BY <1>2
  <2>2. k = 1 \/ (i \in 1..n - 1 /\ i + 1 = k)
    BY <1>2, <2>1
  <2>3. k = 1 \/ (i \in DOMAIN tl /\ tl[i] = t[k])
    BY <1>2, <1>3, <2>2
  <2> QED
    BY <2>1, <2>3
<1>7. Legal(tl)
  BY <1>2, <1>5 DEF Legal
<1>8. ASSUME NEW id, Settled(t, id)
      PROVE  Settles(t[1], id) \/ Settled(tl, id)
  <2>1. PICK j \in DOMAIN t : Settles(t[j], id)
    BY <1>8 DEF Settled
  <2> QED
    BY <1>6, <2>1 DEF Settled
<1>9. ASSUME Sinks(t[1])
      PROVE  Settled(tl, t[1].id)
  <2>1. PICK j \in DOMAIN t : j > 1 /\ Settles(t[j], t[1].id)
    BY <1>4, <1>9 DEF Steady
  <2>2. j # 1
    BY <1>2, <2>1
  <2> QED
    BY <1>6, <2>1, <2>2 DEF Settled
<1>10. Steady(tl)
  <2>1. SUFFICES ASSUME NEW k \in DOMAIN tl, Sinks(tl[k])
                 PROVE  \E j \in DOMAIN tl : j > k /\ Settles(tl[j], tl[k].id)
    BY DEF Steady
  <2>2. k + 1 \in DOMAIN t /\ tl[k] = t[k + 1] /\ k \in Int /\ k >= 1
    BY <1>2, <1>3, <1>5, <2>1
  <2>3. PICK j \in DOMAIN t : j > k + 1 /\ Settles(t[j], t[k + 1].id)
    BY <2>1, <2>2 DEF Steady
  <2>4. j \in Int /\ j # 1 /\ j - 1 > k
    BY <1>2, <2>2, <2>3
  <2>5. j - 1 \in DOMAIN tl /\ tl[j - 1] = t[j]
    BY <1>6, <2>4
  <2> QED
    BY <2>2, <2>3, <2>4, <2>5
<1>11. Counts(tl, m - Step(t[1]))
  <2>1. CASE m = 0
    <3>1. \A k \in DOMAIN tl : ~ Bumps(tl[k])
      BY <1>5, <2>1 DEF Counts
    <3>2. m - Step(t[1]) = 0
      <4>1. ~ Bumps(t[1])
        BY <1>4, <2>1 DEF Counts
      <4>2. Step(t[1]) = 0
        BY <4>1 DEF Step
      <4> QED
        BY <2>1, <4>2
    <3> QED
      BY <3>1, <3>2 DEF Counts
  <2>2. CASE m = 1
    <3>1. PICK p \in DOMAIN t : \A k \in DOMAIN t : Bumps(t[k]) <=> k = p
      BY <2>2 DEF Counts
    <3>2. CASE p = 1
      <4>1. m - Step(t[1]) = 0
        BY <1>4, <2>2, <3>1, <3>2 DEF Step
      <4>2. \A k \in DOMAIN tl : k + 1 # 1
        BY <1>2, <1>3
      <4>3. \A k \in DOMAIN tl : ~ Bumps(tl[k])
        BY <1>5, <3>1, <3>2, <4>2
      <4> QED
        BY <4>1, <4>3 DEF Counts
    <3>3. CASE p # 1
      <4>1. m - Step(t[1]) = 1
        BY <1>4, <2>2, <3>1, <3>3 DEF Step
      <4>2. p - 1 \in DOMAIN tl
        BY <1>6, <3>3
      <4>3. \A k \in DOMAIN tl : k \in Int /\ p \in Int
        BY <1>2, <1>3
      <4>4. \A k \in DOMAIN tl : k + 1 = p <=> k = p - 1
        BY <4>3
      <4>5. \A k \in DOMAIN tl : Bumps(tl[k]) <=> k = p - 1
        BY <1>5, <3>1, <4>4
      <4> QED
        BY <4>1, <4>2, <4>5 DEF Counts
    <3> QED
      BY <3>2, <3>3
  <2> QED
    BY <2>1, <2>2 DEF Counts
<1> QED
  BY <1>1, <1>2, <1>4, <1>7, <1>8, <1>9, <1>10, <1>11 DEF Good

LEMMA ReadKeeps ==
  ASSUME EditsInv, NEW e \in Edits, Read(e)
  PROVE  EditsInv'
<1>1. PICK t : t = edit[e] /\ DOMAIN t = Fields
  BY DEF EditsInv
<1>2. PICK s : s = Head(t.todo)
  OBVIOUS
<1>3. UNCHANGED table /\ t.phase = "open" /\ t.todo # << >> /\ s.do \in Reads
  BY <1>1, <1>2 DEF Read, Pending, Next1
<1>4. /\ WellFormed(table) /\ TxnOk(t, table) /\ DOMAIN edit = Edits
      /\ \A u \in Edits : DOMAIN edit[u] = Fields
  BY <1>1 DEF EditsInv
<1>5. PICK x : x = Expansion(e, s)
  OBVIOUS
<1>6. PICK rest, todo : rest = Tail(t.todo) /\ todo = x \o rest
  OBVIOUS
<1>7. edit' = [edit EXCEPT ![e].todo = todo]
  <2>1. edit' = [edit EXCEPT ![e].todo = Expansion(e, Next1(e)) \o Tail(@)]
    BY DEF Read
  <2>2. edit' = [edit EXCEPT ![e].todo = Expansion(e, Next1(e)) \o Tail(edit[e].todo)]
    BY <1>4, <2>1
  <2> QED
    BY <1>1, <1>2, <1>5, <1>6, <2>2 DEF Next1
<1>8. PICK m : m = Due(t.op) - Added(t, table)
  OBVIOUS
<1>9. Legal(t.todo) /\ Steady(t.todo) /\ Counts(t.todo, m) /\ ParkedIsSettled(t, table)
  BY <1>3, <1>4, <1>8 DEF TxnOk
<1>10. /\ Sound(s) /\ Good(rest, m - Step(s))
       /\ \A id : Settled(t.todo, id) => Settles(s, id) \/ Settled(rest, id)
  BY <1>2, <1>3, <1>6, <1>9, TailGood
<1>11. Step(s) = 0 /\ m - Step(s) = m /\ 0 + m = m
  BY <1>3, <1>9 DEF Reads, Step, Bumps, Counts
<1>12. View(e) = See(t, table)
  BY <1>1, ViewIsSeen
<1>13. Typed(See(t, table)) /\ KeysAreUnique(See(t, table))
  BY <1>4, SeenTyped DEF TxnOk
<1>14. Good(x, 0) /\ \A id : Settles(s, id) => Settled(x, id)
  BY <1>3, <1>5, <1>10, <1>12, <1>13, ExpansionGood DEF Typed
<1>15. Good(todo, m)
  <2>1. Good(rest, m)
    BY <1>10, <1>11
  <2>2. Good(x \o rest, 0 + m)
    BY <1>14, <2>1, GoodJoined
  <2> QED
    BY <1>6, <1>11, <2>2
<1>16. \A id : Settled(t.todo, id) => Settled(todo, id)
  BY <1>6, <1>10, <1>14, JoinedSettles DEF Good, Legal
<1>17. PICK r : r = [t EXCEPT !.todo = todo]
  OBVIOUS
<1>18. edit'[e] = r /\ DOMAIN edit' = Edits
  BY <1>1, <1>4, <1>7, <1>17
<1>19. /\ DOMAIN r = Fields /\ r.phase = t.phase /\ r.todo = todo /\ r.own = t.own
       /\ r.dropped = t.dropped /\ r.op = t.op
  BY <1>1, <1>17 DEF Fields
<1>20. \A u \in Edits \ {e} : DOMAIN edit'[u] = Fields /\ SameTxn(edit[u], edit'[u])
  BY <1>4, <1>7 DEF SameTxn
<1>21. /\ See(r, table) = See(t, table) /\ Locks(r) = Locks(t) /\ Held(r) = Held(t)
       /\ Added(r, table) = Added(t, table)
  BY <1>19 DEF See, Locks, Held, Added
<1>22. ParkedIsSettled(r, table)
  BY <1>9, <1>16, <1>19, <1>21 DEF ParkedIsSettled
<1>23. TxnOk(r, table)
  BY <1>3, <1>4, <1>8, <1>15, <1>19, <1>21, <1>22 DEF TxnOk, Good
<1>24. \A u \in Edits \ {e} : Apart(t, edit[u], table) /\ Apart(edit[u], t, table)
  BY <1>1 DEF EditsInv
<1>25. \A u \in Edits \ {e} : Apart(r, edit[u], table) /\ Apart(edit[u], r, table)
  BY <1>19, <1>21, <1>24 DEF Apart
<1> QED
  BY <1>3, <1>18, <1>19, <1>20, <1>23, <1>25, OneMoves

(***************************************************************************)
(* A writing statement: the rows it writes are nobody else's, their keys   *)
(* are free, and what it parks is numbered later.                          *)
(***************************************************************************)

LEMMA WriteIsOk ==
  ASSUME NEW t, NEW rows, WellFormed(rows), TxnOk(t, rows), t.phase = "open", t.todo # << >>,
         NEW s, s = Head(t.todo), s.do \notin Reads, NEW v, v = See(t, rows),
         Needed(s) \subseteq DOMAIN v,
         \A i \in PlacesOf(Written(v, s)), j \in PlacesOf(v) \ DOMAIN Written(v, s) :
           Key(Written(v, s)[i]) # Key(v[j]),
         NEW r, r.phase = t.phase, r.op = t.op, r.todo = Tail(t.todo),
         r.own = Overlay(Written(v, s), t.own), r.dropped = t.dropped \union Deleted(v, s)
  PROVE  TxnOk(r, rows)
<1>1. PICK m, w, z : m = Due(t.op) - Added(t, rows) /\ w = Written(v, s) /\ z = See(r, rows)
  OBVIOUS
<1>2. /\ RequestOk(t.op) /\ Typed(t.own) /\ Itin \notin t.dropped /\ Trip \notin t.dropped /\ KeysAreUnique(v)
      /\ Legal(t.todo) /\ Steady(t.todo) /\ Counts(t.todo, m) /\ Added(t, rows) \in {0, 1}
      /\ \A id \in PlacesOf(v) : v[id].at < 0 => Settled(t.todo, id)
  BY <1>1 DEF TxnOk, ParkedIsSettled
<1>3. /\ Sound(s) /\ Good(Tail(t.todo), m - Step(s))
      /\ \A id : Settled(t.todo, id) => Settles(s, id) \/ Settled(Tail(t.todo), id)
      /\ Sinks(s) => Settled(Tail(t.todo), s.id)
  BY <1>2, TailGood
<1>4. /\ Typed(v) /\ Itin \in DOMAIN v /\ v[Itin].version = rows[Itin].version + Added(t, rows)
      /\ Added(t, rows) \in Int /\ rows[Itin].version \in Int
  BY SeenTyped
<1>5. /\ Typed(w) /\ Itin \notin Deleted(v, s) /\ Trip \notin Deleted(v, s) /\ KeysAreUnique(w)
      /\ Itin \in DOMAIN w => w[Itin].version = v[Itin].version + Step(s)
      /\ Bumps(s) => Itin \in DOMAIN w
      /\ \A id \in PlacesOf(w) : w[id].at < 0 =>
           \/ Sinks(s) /\ s.id = id
           \/ id \in DOMAIN v /\ v[id].at < 0 /\ ~ Settles(s, id)
  BY <1>1, <1>2, <1>3, <1>4, WrittenRows
<1>6. /\ DOMAIN r.own = DOMAIN w \union DOMAIN t.own
      /\ \A id \in DOMAIN w : r.own[id] = w[id]
      /\ \A id \in DOMAIN t.own \ DOMAIN w : r.own[id] = t.own[id]
      /\ \A id \in DOMAIN z : \/ id \in DOMAIN w /\ z[id] = w[id]
                              \/ id \notin DOMAIN w /\ id \in DOMAIN v /\ z[id] = v[id]
  <2>1. /\ DOMAIN r.own = DOMAIN w \union DOMAIN t.own
        /\ \A id \in DOMAIN r.own : r.own[id] = IF id \in DOMAIN w THEN w[id] ELSE t.own[id]
    BY <1>1 DEF Overlay
  <2>2. /\ DOMAIN v = (DOMAIN t.own \union DOMAIN rows) \ t.dropped
        /\ \A id \in DOMAIN v : v[id] = IF id \in DOMAIN t.own THEN t.own[id] ELSE rows[id]
    BY DEF See
  <2>3. /\ DOMAIN z = (DOMAIN r.own \union DOMAIN rows) \ r.dropped
        /\ \A id \in DOMAIN z : z[id] = IF id \in DOMAIN r.own THEN r.own[id] ELSE rows[id]
    BY <1>1 DEF See
  <2>4. ASSUME NEW id \in DOMAIN z
        PROVE  \/ id \in DOMAIN w /\ z[id] = w[id]
               \/ id \notin DOMAIN w /\ id \in DOMAIN v /\ z[id] = v[id]
    BY <2>1, <2>2, <2>3
  <2> QED
    BY <2>1, <2>4
<1>7. Typed(r.own)
  <2>1. IsFiniteSet(DOMAIN r.own)
    <3>1. IsFiniteSet(DOMAIN w) /\ IsFiniteSet(DOMAIN t.own)
      BY <1>2, <1>5 DEF Typed
    <3>2. IsFiniteSet(DOMAIN w \union DOMAIN t.own)
      BY <3>1, FS_Union
    <3> QED
      BY <1>6, <3>2
  <2>2. \A id \in PlacesOf(r.own) : IsRow(r.own[id])
    BY <1>2, <1>5, <1>6 DEF Typed, PlacesOf
  <2>3. Itin \in DOMAIN r.own => IsHeader(r.own[Itin])
    BY <1>2, <1>5, <1>6 DEF Typed
  <2> QED
    BY <2>1, <2>2, <2>3 DEF Typed
<1>8. Itin \notin r.dropped /\ Trip \notin r.dropped
  BY <1>2, <1>5
<1>9. KeysAreUnique(z)
  <2>1. SUFFICES ASSUME NEW i \in PlacesOf(z), NEW j \in PlacesOf(z), Key(z[i]) = Key(z[j])
                 PROVE  i = j
    BY DEF KeysAreUnique
  <2>2. CASE i \in DOMAIN w /\ j \in DOMAIN w
    BY <1>5, <1>6, <2>1, <2>2 DEF KeysAreUnique, PlacesOf
  <2>3. CASE i \in DOMAIN w /\ j \notin DOMAIN w
    BY <1>1, <1>6, <2>1, <2>3 DEF PlacesOf
  <2>4. CASE i \notin DOMAIN w /\ j \in DOMAIN w
    BY <1>1, <1>6, <2>1, <2>4 DEF PlacesOf
  <2>5. CASE i \notin DOMAIN w /\ j \notin DOMAIN w
    BY <1>2, <1>6, <2>1, <2>5 DEF KeysAreUnique, PlacesOf
  <2> QED
    BY <2>2, <2>3, <2>4, <2>5
<1>10. s.do = "setAt" => s.id \in DOMAIN w
  <2>1. ASSUME s.do = "setAt"
        PROVE  \E q : w = Only(s.id, q)
    BY <1>1, <2>1 DEF Written, Change
  <2> QED
    BY <2>1 DEF Only
<1>11. \A id \in DOMAIN z : id \notin DOMAIN w => ~ Settles(s, id)
  BY <1>10 DEF Settles, Reads
<1>12. ParkedIsSettled(r, rows)
  <2>1. SUFFICES ASSUME NEW id \in PlacesOf(z), z[id].at < 0
                 PROVE  Settled(Tail(t.todo), id)
    BY <1>1 DEF ParkedIsSettled
  <2>2. id \in DOMAIN z /\ id \notin {Trip, Itin}
    BY <2>1 DEF PlacesOf
  <2>3. CASE id \in DOMAIN w
    <3>1. id \in PlacesOf(w) /\ w[id].at < 0
      BY <1>6, <2>1, <2>2, <2>3 DEF PlacesOf
    <3>2. \/ Sinks(s) /\ s.id = id
          \/ id \in DOMAIN v /\ v[id].at < 0 /\ ~ Settles(s, id)
      BY <1>5, <3>1
    <3>3. id \in DOMAIN v => id \in PlacesOf(v)
      BY <2>2 DEF PlacesOf
    <3> QED
      BY <1>2, <1>3, <3>2, <3>3
  <2>4. CASE id \notin DOMAIN w
    <3>1. id \in PlacesOf(v) /\ v[id].at < 0
      BY <1>6, <2>1, <2>2, <2>4 DEF PlacesOf
    <3>2. Settled(t.todo, id) /\ ~ Settles(s, id)
      BY <1>2, <1>11, <2>2, <2>4, <3>1
    <3> QED
      BY <1>3, <3>2
  <2> QED
    BY <2>3, <2>4
<1>13. Step(s) \in {0, 1} /\ (Itin \notin DOMAIN w => Step(s) = 0)
  BY <1>5 DEF Step
<1>14. Added(r, rows) = Added(t, rows) + Step(s)
  <2>1. CASE Itin \in DOMAIN w
    <3>1. Added(r, rows) = w[Itin].version - rows[Itin].version
      BY <1>6, <2>1 DEF Added
    <3> QED
      BY <1>4, <1>5, <1>13, <2>1, <3>1
  <2>2. CASE Itin \notin DOMAIN w
    <3>1. Added(r, rows) = Added(t, rows)
      BY <1>6, <2>2 DEF Added
    <3> QED
      BY <1>4, <1>13, <2>2, <3>1
  <2> QED
    BY <2>1, <2>2
<1>15. Due(t.op) \in {0, 1} /\ m - Step(s) = Due(t.op) - Added(r, rows)
  <2>1. Due(t.op) \in {0, 1}
    BY DEF Due
  <2> QED
    BY <1>1, <1>4, <1>13, <1>14, <2>1
<1>16. m - Step(s) \in {0, 1} /\ m \in {0, 1}
  BY <1>2, <1>3 DEF Good, Counts
<1>17. Added(r, rows) \in {0, 1}
  BY <1>1, <1>2, <1>13, <1>14, <1>15, <1>16
<1> QED
  BY <1>1, <1>2, <1>3, <1>7, <1>8, <1>9, <1>12, <1>15, <1>17 DEF TxnOk, Good

LEMMA WriteStaysApart ==
  ASSUME NEW t, NEW x, NEW rows, NEW s, NEW v, v = See(t, rows), NEW w, w = Written(v, s),
         Apart(t, x, rows), Apart(x, t, rows), KeysAreUnique(See(x, rows)),
         (DOMAIN w \union Deleted(v, s)) \intersect Locks(x) = {},
         \A i \in PlacesOf(w) :
           /\ \A j \in PlacesOf(x.own) : Key(x.own[j]) # Key(w[i])
           /\ \A j \in PlacesOf(rows) \intersect Locks(x) : Key(rows[j]) # Key(w[i]),
         NEW r, r.own = Overlay(w, t.own), r.dropped = t.dropped \union Deleted(v, s)
  PROVE  Apart(r, x, rows) /\ Apart(x, r, rows)
<1>1. /\ DOMAIN r.own = DOMAIN w \union DOMAIN t.own
      /\ \A id \in DOMAIN w : r.own[id] = w[id]
      /\ \A id \in DOMAIN t.own \ DOMAIN w : r.own[id] = t.own[id]
      /\ Locks(r) = Locks(t) \union DOMAIN w \union Deleted(v, s)
  BY DEF Overlay, Locks
<1>2. Locks(r) \intersect Locks(x) = {}
  BY <1>1 DEF Apart
<1>3. ASSUME NEW i \in Held(r)
      PROVE  \/ i \in PlacesOf(w) /\ r.own[i] = w[i]
             \/ i \in Held(t) /\ r.own[i] = t.own[i]
  BY <1>1 DEF Held, PlacesOf
<1>4. ASSUME NEW i \in Held(r), NEW j \in Held(x)
      PROVE  Key(r.own[i]) # Key(x.own[j])
  <2>1. j \in PlacesOf(x.own)
    BY DEF Held
  <2> QED
    BY <1>3, <2>1 DEF Apart
<1>5. ASSUME NEW i \in Held(r), NEW j \in PlacesOf(rows) \intersect Locks(x)
      PROVE  Key(r.own[i]) # Key(rows[j])
  BY <1>3 DEF Apart
<1>6. ASSUME NEW i \in Held(x), NEW j \in PlacesOf(rows) \intersect Locks(r)
      PROVE  Key(x.own[i]) # Key(rows[j])
  <2>1. CASE j \in Locks(t)
    BY <2>1 DEF Apart
  <2>2. CASE j \notin Locks(t)
    <3>1. j \notin Locks(x) /\ j \in DOMAIN rows /\ j \notin {Trip, Itin}
      BY <1>2 DEF PlacesOf
    <3>2. j \in DOMAIN See(x, rows) /\ See(x, rows)[j] = rows[j]
      BY <3>1 DEF See, Locks
    <3>3. i \in DOMAIN See(x, rows) /\ See(x, rows)[i] = x.own[i] /\ i \notin {Trip, Itin} /\ i \in Locks(x)
      BY DEF See, Held, PlacesOf, Locks
    <3>4. i # j
      BY <3>1, <3>3
    <3> QED
      BY <3>1, <3>2, <3>3, <3>4 DEF KeysAreUnique, PlacesOf
  <2> QED
    BY <2>1, <2>2
<1> QED
  BY <1>2, <1>4, <1>5, <1>6 DEF Apart

LEMMA WriteKeeps ==
  ASSUME EditsInv, NEW e \in Edits, Write(e)
  PROVE  EditsInv'
<1>1. PICK t : t = edit[e] /\ DOMAIN t = Fields
  BY DEF EditsInv
<1>2. PICK s, v, w : s = Head(t.todo) /\ v = See(t, table) /\ w = Written(v, s)
  OBVIOUS
<1>3. View(e) = v /\ Next1(e) = s
  BY <1>1, <1>2, ViewIsSeen DEF Next1
<1>4. /\ UNCHANGED table /\ t.phase = "open" /\ t.todo # << >> /\ s.do \notin Reads
      /\ ~ Blocked(e, s) /\ Needed(s) \subseteq DOMAIN v /\ ~ Collides(e, s)
  BY <1>1, <1>3 DEF Write, Pending, Missing
<1>5. /\ WellFormed(table) /\ TxnOk(t, table) /\ DOMAIN edit = Edits
      /\ \A u \in Edits : DOMAIN edit[u] = Fields
  BY <1>1 DEF EditsInv
<1>6. PICK r : r = edit'[e]
  OBVIOUS
<1>7. /\ DOMAIN edit' = Edits /\ \A u \in Edits \ {e} : edit'[u] = edit[u]
      /\ DOMAIN r = Fields /\ r.phase = t.phase /\ r.op = t.op /\ r.todo = Tail(t.todo)
      /\ r.own = Overlay(w, t.own) /\ r.dropped = t.dropped \union Deleted(v, s)
  <2>1. PICK todo, own, dropped, parents :
          /\ todo = Tail(edit[e].todo) /\ own = Overlay(Written(v, s), edit[e].own)
          /\ dropped = edit[e].dropped \union Deleted(v, s)
          /\ parents = edit[e].parents \union Referred(s)
    OBVIOUS
  <2>2. edit' = [edit EXCEPT ![e].todo = Tail(@),
                             ![e].own = Overlay(Written(v, s), @),
                             ![e].dropped = @ \union Deleted(v, s),
                             ![e].parents = @ \union Referred(s)]
    BY <1>3 DEF Write
  <2>3. edit' = [edit EXCEPT ![e] = [t EXCEPT !.todo = todo, !.own = own, !.dropped = dropped,
                                              !.parents = parents]]
    BY <1>1, <1>5, <2>1, <2>2 DEF Fields
  <2>4. r = [t EXCEPT !.todo = todo, !.own = own, !.dropped = dropped, !.parents = parents]
    BY <1>5, <1>6, <2>3
  <2>5. /\ DOMAIN r = Fields /\ r.phase = t.phase /\ r.op = t.op /\ r.todo = todo
        /\ r.own = own /\ r.dropped = dropped
    BY <1>1, <2>4 DEF Fields
  <2> QED
    BY <1>1, <1>2, <1>5, <2>1, <2>3, <2>5
<1>8. \A u \in Edits \ {e} : DOMAIN edit'[u] = Fields /\ SameTxn(edit[u], edit'[u])
  BY <1>5, <1>7 DEF SameTxn
<1>9. \A i \in PlacesOf(w), j \in PlacesOf(v) \ DOMAIN w : Key(w[i]) # Key(v[j])
  BY <1>2, <1>3, <1>4 DEF Collides
<1>10. TxnOk(r, table)
  BY <1>2, <1>4, <1>5, <1>7, <1>9, WriteIsOk
<1>11. ASSUME NEW u \in Edits \ {e}
       PROVE  Apart(r, edit[u], table) /\ Apart(edit[u], r, table)
  <2>1. PICK x : x = edit[u]
    OBVIOUS
  <2>2. Apart(t, x, table) /\ Apart(x, t, table) /\ KeysAreUnique(See(x, table))
    BY <1>1, <2>1 DEF EditsInv, TxnOk
  <2>3. LockedBy(u) = Locks(x)
    BY <2>1, ViewIsSeen
  <2>4. (DOMAIN w \union Deleted(v, s)) \intersect Locks(x) = {}
    BY <1>2, <1>3, <1>4, <2>3 DEF Blocked
  <2>5. \A i \in PlacesOf(w) :
          /\ \A j \in PlacesOf(x.own) : Key(x.own[j]) # Key(w[i])
          /\ \A j \in PlacesOf(table) \intersect Locks(x) : Key(table[j]) # Key(w[i])
    BY <1>2, <1>3, <1>4, <2>1, <2>3 DEF Blocked
  <2>6. Apart(r, x, table) /\ Apart(x, r, table)
    BY <1>2, <1>7, <2>2, <2>4, <2>5, WriteStaysApart
  <2> QED
    BY <2>1, <2>6
<1> QED
  BY <1>4, <1>6, <1>7, <1>8, <1>10, <1>11, OneMoves

LEMMA FailKeeps ==
  ASSUME EditsInv, NEW e \in Edits, Fail(e) \/ Abort(e)
  PROVE  EditsInv'
BY UndoneKeeps DEF Fail, Abort

(***************************************************************************)
(* Commit: what the transaction sees becomes the committed rows, and the   *)
(* others go on beside them.                                               *)
(***************************************************************************)
LEMMA CommittedRows ==
  ASSUME NEW t, NEW rows, WellFormed(rows), TxnOk(t, rows), t.phase = "open", t.todo = << >>
  PROVE  /\ WellFormed(See(t, rows))
         /\ See(t, rows)[Itin].version = rows[Itin].version + Due(t.op)
<1>1. PICK v : v = See(t, rows)
  OBVIOUS
<1>2. /\ Typed(v) /\ Itin \in DOMAIN v /\ Trip \in DOMAIN v
      /\ v[Itin].version = rows[Itin].version + Added(t, rows)
      /\ Added(t, rows) \in Int
  BY <1>1, SeenTyped
<1>3. KeysAreUnique(v) /\ Counts(t.todo, Due(t.op) - Added(t, rows))
  BY <1>1 DEF TxnOk
<1>4. DOMAIN t.todo = {}
  OBVIOUS
<1>5. \A id : ~ Settled(t.todo, id)
  BY <1>4 DEF Settled
<1>6. ASSUME NEW id \in PlacesOf(v)
      PROVE  IsRow(v[id]) /\ v[id].at >= 0
  <2>1. ~ (v[id].at < 0)
    BY <1>1, <1>5 DEF TxnOk, ParkedIsSettled
  <2>2. IsRow(v[id])
    BY <1>2 DEF Typed
  <2> QED
    BY <2>1, <2>2 DEF IsRow
<1>7. WellFormed(v)
  BY <1>2, <1>3, <1>6 DEF WellFormed, Typed
<1>8. Due(t.op) - Added(t, rows) = 0
  BY <1>3, <1>4 DEF Counts
<1>9. Added(t, rows) = Due(t.op)
  BY <1>2, <1>8 DEF Due
<1> QED
  BY <1>1, <1>2, <1>7, <1>9

LEMMA OthersGoOn ==
  ASSUME NEW t, NEW x, NEW rows, WellFormed(rows), TxnOk(t, rows), TxnOk(x, rows),
         Apart(t, x, rows), Apart(x, t, rows), NEW v, v = See(t, rows), WellFormed(v)
  PROVE  TxnOk(x, v)
<1>1. PICK a, b : a = See(x, rows) /\ b = See(x, v)
  OBVIOUS
<1>2. /\ DOMAIN v = (DOMAIN t.own \union DOMAIN rows) \ t.dropped
      /\ \A id \in DOMAIN v : v[id] = IF id \in DOMAIN t.own THEN t.own[id] ELSE rows[id]
  BY DEF See
<1>3. /\ DOMAIN a = (DOMAIN x.own \union DOMAIN rows) \ x.dropped
      /\ \A id \in DOMAIN a : a[id] = IF id \in DOMAIN x.own THEN x.own[id] ELSE rows[id]
  BY <1>1 DEF See
<1>4. /\ DOMAIN b = (DOMAIN x.own \union DOMAIN v) \ x.dropped
      /\ \A id \in DOMAIN b : b[id] = IF id \in DOMAIN x.own THEN x.own[id] ELSE v[id]
  BY <1>1 DEF See
<1>5. ASSUME NEW i \in PlacesOf(b), NEW j \in PlacesOf(b), i \in DOMAIN x.own, j \notin DOMAIN x.own
      PROVE  Key(b[i]) # Key(b[j])
  <2>1. i \in Held(x) /\ b[i] = x.own[i]
    BY <1>4, <1>5 DEF Held, PlacesOf
  <2>2. j \in DOMAIN v /\ b[j] = v[j] /\ j \notin {Trip, Itin} /\ j \notin x.dropped
    BY <1>4, <1>5 DEF PlacesOf
  <2>3. CASE j \in DOMAIN t.own
    <3>1. j \in Held(t) /\ v[j] = t.own[j]
      BY <1>2, <2>2, <2>3 DEF Held, PlacesOf
    <3> QED
      BY <2>1, <2>2, <3>1 DEF Apart
  <2>4. CASE j \notin DOMAIN t.own
    <3>1. j \in DOMAIN rows /\ v[j] = rows[j]
      BY <1>2, <2>2, <2>4
    <3>2. j \in PlacesOf(a) /\ a[j] = rows[j]
      BY <1>3, <1>5, <2>2, <3>1 DEF PlacesOf
    <3>3. i \in PlacesOf(a) /\ a[i] = x.own[i] /\ i # j
      BY <1>3, <1>4, <1>5 DEF PlacesOf
    <3>4. KeysAreUnique(a)
      BY <1>1 DEF TxnOk
    <3> QED
      BY <2>1, <2>2, <3>1, <3>2, <3>3, <3>4 DEF KeysAreUnique
  <2> QED
    BY <2>3, <2>4
<1>6. KeysAreUnique(b)
  <2>1. SUFFICES ASSUME NEW i \in PlacesOf(b), NEW j \in PlacesOf(b), Key(b[i]) = Key(b[j])
                 PROVE  i = j
    BY DEF KeysAreUnique
  <2>2. CASE i \in DOMAIN x.own /\ j \in DOMAIN x.own
    <3>1. i \in PlacesOf(a) /\ j \in PlacesOf(a) /\ a[i] = b[i] /\ a[j] = b[j]
      BY <1>3, <1>4, <2>2 DEF PlacesOf
    <3>2. KeysAreUnique(a)
      BY <1>1 DEF TxnOk
    <3> QED
      BY <2>1, <3>1, <3>2 DEF KeysAreUnique
  <2>3. CASE i \notin DOMAIN x.own /\ j \notin DOMAIN x.own
    <3>1. i \in PlacesOf(v) /\ j \in PlacesOf(v) /\ v[i] = b[i] /\ v[j] = b[j]
      BY <1>4, <2>3 DEF PlacesOf
    <3> QED
      BY <2>1, <3>1 DEF KeysAreUnique, WellFormed
  <2> QED
    BY <1>5, <2>1, <2>2, <2>3
<1>7. Added(x, v) = Added(x, rows)
  <2>1. CASE Itin \in DOMAIN x.own
    <3>1. Itin \notin DOMAIN t.own /\ Itin \in DOMAIN v
      BY <2>1 DEF Apart, Locks, WellFormed
    <3>2. v[Itin] = rows[Itin]
      BY <1>2, <3>1
    <3> QED
      BY <3>2 DEF Added
  <2>2. CASE Itin \notin DOMAIN x.own
    BY <2>2 DEF Added
  <2> QED
    BY <2>1, <2>2
<1>8. ASSUME x.phase = "open"
      PROVE  ParkedIsSettled(x, v)
  <2>1. SUFFICES ASSUME NEW id \in PlacesOf(b), b[id].at < 0
                 PROVE  Settled(x.todo, id)
    BY <1>1 DEF ParkedIsSettled
  <2>2. CASE id \in DOMAIN x.own
    <3>1. id \in PlacesOf(a) /\ a[id] = b[id]
      BY <1>3, <1>4, <2>2 DEF PlacesOf
    <3> QED
      BY <1>1, <1>8, <2>1, <3>1 DEF TxnOk, ParkedIsSettled
  <2>3. CASE id \notin DOMAIN x.own
    <3>1. id \in PlacesOf(v) /\ b[id] = v[id]
      BY <1>4, <2>3 DEF PlacesOf
    <3>2. v[id].at \in Int /\ v[id].at >= 0
      BY <3>1 DEF WellFormed, IsRow
    <3> QED
      BY <2>1, <3>1, <3>2
  <2> QED
    BY <2>2, <2>3
<1> QED
  BY <1>1, <1>6, <1>7, <1>8 DEF TxnOk

LEMMA OthersStayApart ==
  ASSUME NEW t, NEW x, NEW y, NEW rows, Apart(x, y, rows), Apart(t, y, rows), NEW v, v = See(t, rows)
  PROVE  Apart(x, y, v)
<1>1. ASSUME NEW i \in Held(x), NEW j \in PlacesOf(v) \intersect Locks(y)
      PROVE  Key(x.own[i]) # Key(v[j])
  <2>1. j \notin Locks(t)
    BY DEF Apart
  <2>2. j \in PlacesOf(rows) /\ v[j] = rows[j]
    BY <2>1 DEF See, PlacesOf, Locks
  <2> QED
    BY <2>2 DEF Apart
<1> QED
  BY <1>1 DEF Apart

LEMMA CommitKeeps ==
  ASSUME EditsInv, NEW e \in Edits, Commit(e)
  PROVE  /\ EditsInv'
         /\ table'[Itin].version = table[Itin].version + Due(edit[e].op)
<1>1. PICK t, v : t = edit[e] /\ v = See(t, table)
  OBVIOUS
<1>2. table' = v /\ t.phase = "open" /\ t.todo = << >>
  BY <1>1, ViewIsSeen DEF Commit
<1>3. /\ WellFormed(table) /\ TxnOk(t, table) /\ DOMAIN edit = Edits
      /\ \A u \in Edits : DOMAIN edit[u] = Fields
  BY <1>1 DEF EditsInv
<1>4. WellFormed(v) /\ v[Itin].version = table[Itin].version + Due(t.op)
  BY <1>1, <1>2, <1>3, CommittedRows
<1>5. PICK r : r = edit'[e]
  OBVIOUS
<1>6. /\ DOMAIN edit' = Edits /\ \A u \in Edits \ {e} : edit'[u] = edit[u]
      /\ DOMAIN r = Fields /\ r.own = << >> /\ r.dropped = {}
      /\ r.phase = "done" \/ (r.phase = "asked" /\ RequestOk(r.op))
  <2>1. CASE edit' = [edit EXCEPT ![e] = [Idle EXCEPT !.phase = "done"]]
    <3>1. r = [Idle EXCEPT !.phase = "done"]
      BY <1>3, <1>5, <2>1
    <3>2. DOMAIN r = Fields /\ r.own = << >> /\ r.dropped = {} /\ r.phase = "done"
      BY <3>1 DEF Idle, Fields
    <3> QED
      BY <1>3, <2>1, <3>2
  <2>2. ASSUME NEW op \in RouteAfter(e), NEW alone,
               edit' = [edit EXCEPT ![e] = [Idle EXCEPT !.phase = "asked", !.op = op, !.alone = alone]]
        PROVE  /\ DOMAIN edit' = Edits /\ \A u \in Edits \ {e} : edit'[u] = edit[u]
               /\ DOMAIN r = Fields /\ r.own = << >> /\ r.dropped = {}
               /\ r.phase = "asked" /\ RequestOk(r.op)
    <3>1. r = [Idle EXCEPT !.phase = "asked", !.op = op, !.alone = alone]
      BY <1>3, <1>5, <2>2
    <3>2. DOMAIN r = Fields /\ r.own = << >> /\ r.dropped = {} /\ r.phase = "asked" /\ r.op = op
      BY <3>1 DEF Idle, Fields
    <3>3. \E id, day, slot : op = Op("route", id, day, slot, 0)
      BY <2>2 DEF RouteAfter
    <3>4. op.kind = "route"
      BY <3>3 DEF Op
    <3>5. RequestOk(op)
      BY <3>4 DEF RequestOk, AddKinds, HandKinds, StatusKinds, ReuseKinds
    <3> QED
      BY <1>3, <2>2, <3>2, <3>5
  <2>3. \/ edit' = [edit EXCEPT ![e] = [Idle EXCEPT !.phase = "done"]]
        \/ \E op \in RouteAfter(e) :
             edit' = [edit EXCEPT ![e] = [Idle EXCEPT !.phase = "asked", !.op = op,
                                                      !.alone = edit[e].alone]]
    BY DEF Commit
  <2> QED
    BY <2>1, <2>2, <2>3
<1>7. \A u \in Edits : DOMAIN edit'[u] = Fields
  BY <1>3, <1>5, <1>6
<1>8. /\ Typed(r.own) /\ Itin \notin r.dropped /\ Trip \notin r.dropped /\ KeysAreUnique(See(r, v))
      /\ Locks(r) = {} /\ Held(r) = {}
  BY <1>4, <1>6, NothingHeld
<1>9. TxnOk(r, v)
  BY <1>6, <1>8 DEF TxnOk
<1>10. \A u \in Edits \ {e} : /\ TxnOk(edit[u], table) /\ Apart(t, edit[u], table)
                              /\ Apart(edit[u], t, table)
  BY <1>1 DEF EditsInv
<1>11. \A u \in Edits \ {e} : TxnOk(edit[u], v)
  BY <1>1, <1>3, <1>4, <1>10, OthersGoOn
<1>12. \A u \in Edits : TxnOk(edit'[u], v)
  BY <1>5, <1>6, <1>9, <1>11
<1>13. ASSUME NEW u \in Edits, NEW w \in Edits, u # w
       PROVE  Apart(edit'[u], edit'[w], v)
  <2>1. CASE u = e \/ w = e
    BY <1>5, <1>8, <2>1 DEF Apart
  <2>2. CASE u # e /\ w # e
    <3>1. Apart(edit[u], edit[w], table) /\ Apart(t, edit[w], table)
      BY <1>10, <1>13, <2>2 DEF EditsInv
    <3>2. Apart(edit[u], edit[w], v)
      BY <1>1, <3>1, OthersStayApart
    <3> QED
      BY <1>6, <2>2, <3>2
  <2> QED
    BY <2>1, <2>2
<1>14. EditsInv'
  BY <1>2, <1>4, <1>6, <1>7, <1>12, <1>13 DEF EditsInv
<1> QED
  BY <1>1, <1>2, <1>4, <1>14

LEMMA EditsStepKeeps ==
  ASSUME EditsInv, [EditsNext]_editVars
  PROVE  EditsInv'
<1>1. CASE UNCHANGED editVars
  BY <1>1 DEF editVars, EditsInv
<1>2. ASSUME NEW e \in Edits,
             \/ BeginHandEdit(e) \/ BeginStatusEdit(e) \/ AskReuse(e) \/ BeginAsked(e)
             \/ Plan(e) \/ Read(e) \/ Write(e) \/ Fail(e) \/ Commit(e) \/ Abort(e)
      PROVE  EditsInv'
  BY <1>2, HandEditKeeps, StatusEditKeeps, AskReuseKeeps, BeginAskedKeeps, PlanKeeps, ReadKeeps,
     WriteKeeps, FailKeeps, CommitKeeps
<1> QED
  BY <1>1, <1>2 DEF EditsNext

LEMMA EditsStart ==
  ASSUME EditsInit
  PROVE  EditsInv
<1>1. WellFormed(table) /\ edit = [e \in Edits |-> Idle]
  BY StartAssumption DEF EditsInit
<1>2. /\ DOMAIN Idle = Fields /\ Idle.own = << >> /\ Idle.dropped = {} /\ Idle.phase = "idle"
  BY DEF Idle, Fields
<1>3. /\ Typed(Idle.own) /\ Itin \notin Idle.dropped /\ Trip \notin Idle.dropped /\ KeysAreUnique(See(Idle, table))
      /\ Locks(Idle) = {} /\ Held(Idle) = {}
  BY <1>1, <1>2, NothingHeld
<1>4. TxnOk(Idle, table) /\ Apart(Idle, Idle, table)
  BY <1>2, <1>3 DEF TxnOk, Apart
<1>5. DOMAIN edit = Edits /\ \A e \in Edits : edit[e] = Idle
  BY <1>1
<1> QED
  BY <1>1, <1>2, <1>4, <1>5 DEF EditsInv

\* What the itinerary's transactions keep between them, in every state.
THEOREM EditsInvariant == EditsSpec => []EditsInv
BY EditsStart, EditsStepKeeps, PTL DEF EditsSpec

\* The unique indexes hold of the committed rows, no committed dayNumber or sortOrder
\* is negative and the itinerary row is there, however the edits of a trip overlap,
\* fail and are undone (itineraryRepository.ts, insertItemsTransactional).
THEOREM CommittedRowsTheorem == EditsSpec => []WellFormed(table)
<1>1. EditsInv => WellFormed(table)
  BY DEF EditsInv
<1> QED
  BY <1>1, EditsInvariant, PTL

\* A scratch position never outlives its transaction.
THEOREM ScratchTheorem == EditsSpec => []ScratchIsNeverCommitted
<1>1. EditsInv => ScratchIsNeverCommitted
  BY DEF EditsInv, WellFormed, ScratchIsNeverCommitted
<1> QED
  BY <1>1, EditsInvariant, PTL

\* Only Commit commits.
LEMMA OnlyCommitCommits ==
  ASSUME EditsInv, NEW e \in Edits, NEW u \in Edits,
         \/ BeginHandEdit(e) \/ BeginStatusEdit(e) \/ AskReuse(e) \/ BeginAsked(e)
         \/ Plan(e) \/ Read(e) \/ Write(e) \/ Fail(e) \/ Abort(e) \/ (Commit(e) /\ u # e)
  PROVE  ~ Committing(u)
<1>1. DOMAIN edit = Edits /\ \A w \in Edits : DOMAIN edit[w] = Fields
  BY DEF EditsInv
<1>2. ASSUME NEW phase \in {"asked", "begun"}, NEW op, Enter(e, phase, op), edit[e].phase = "idle"
      PROVE  ~ Committing(u)
  <2>1. PICK t, alone : t = edit[u] /\ alone = \A w \in Edits \ {e} : ~ Active(w)
    OBVIOUS
  <2>2. edit'[u] = IF u = e THEN [Idle EXCEPT !.phase = phase, !.op = op, !.alone = alone]
                   ELSE IF Active(u) THEN [t EXCEPT !.alone = FALSE] ELSE t
    BY <1>2, <2>1 DEF Enter
  <2>3. [t EXCEPT !.alone = FALSE].phase = t.phase
    BY <1>1, <2>1 DEF Fields
  <2>4. u # e => edit'[u].phase = t.phase
    BY <2>2, <2>3
  <2> QED
    BY <1>2, <2>1, <2>4 DEF Committing
<1>3. CASE BeginHandEdit(e)
  <2>1. PICK op \in HandOps : Enter(e, "begun", op)
    BY <1>3 DEF BeginHandEdit
  <2> QED
    BY <1>2, <1>3, <2>1 DEF BeginHandEdit
<1>4. CASE BeginStatusEdit(e)
  <2>1. \E op : Enter(e, "begun", op)
    BY <1>4 DEF BeginStatusEdit
  <2> QED
    BY <1>2, <1>4, <2>1 DEF BeginStatusEdit
<1>5. CASE AskReuse(e)
  <2>1. \E op : Enter(e, "asked", op)
    BY <1>5 DEF AskReuse
  <2> QED
    BY <1>2, <1>5, <2>1 DEF AskReuse
<1>7. CASE BeginAsked(e)
  <2>1. PICK phase : edit' = [edit EXCEPT ![e].phase = phase]
    BY <1>7 DEF BeginAsked
  <2>2. u # e => edit'[u] = edit[u]
    BY <1>1, <2>1
  <2> QED
    BY <1>7, <2>2 DEF BeginAsked, Committing
<1>8. CASE Plan(e)
  <2>1. u # e => edit'[u] = edit[u]
    BY <1>1, <1>8 DEF Plan, Undone
  <2> QED
    BY <1>8, <2>1 DEF Plan, Committing
<1>9. CASE Read(e) \/ Write(e)
  <2>1. u # e => edit'[u] = edit[u]
    BY <1>1, <1>9 DEF Read, Write
  <2>2. PICK t : t = edit[e] /\ DOMAIN t = Fields
    BY <1>1
  <2>3. edit'[e].phase = t.phase
    <3>1. CASE Read(e)
      <4>1. PICK todo : edit' = [edit EXCEPT ![e].todo = todo]
        BY <1>1, <3>1 DEF Read
      <4> QED
        BY <1>1, <2>2, <4>1 DEF Fields
    <3>2. CASE Write(e)
      <4>1. PICK todo, own, dropped, parents :
              edit' = [edit EXCEPT ![e].todo = todo, ![e].own = own, ![e].dropped = dropped,
                                   ![e].parents = parents]
        BY <1>1, <3>2 DEF Write
      <4> QED
        BY <1>1, <2>2, <4>1 DEF Fields
    <3> QED
      BY <1>9, <3>1, <3>2
  <2> QED
    BY <2>1, <2>2, <2>3 DEF Committing
<1>10. CASE Fail(e) \/ Abort(e)
  <2>1. edit' = Undone(e)
    BY <1>10 DEF Fail, Abort
  <2>2. edit'[e].phase = "failed" /\ (u # e => edit'[u] = edit[u])
    BY <1>1, <2>1 DEF Undone, Idle
  <2> QED
    BY <2>2 DEF Committing
<1>11. CASE Commit(e) /\ u # e
  <2>1. edit'[u] = edit[u]
    BY <1>1, <1>11 DEF Commit
  <2> QED
    BY <2>1 DEF Committing
<1> QED
  BY <1>3, <1>4, <1>5, <1>7, <1>8, <1>9, <1>10, <1>11

LEMMA StepCounts ==
  ASSUME EditsInv, [EditsNext]_editVars, NEW u \in Edits, Committing(u)
  PROVE  table'[Itin].version = table[Itin].version
                                + IF edit[u].op.kind \in Structural THEN 1 ELSE 0
<1>1. CASE UNCHANGED editVars
  BY <1>1 DEF editVars, Committing
<1>2. ASSUME NEW e \in Edits,
             \/ BeginHandEdit(e) \/ BeginStatusEdit(e) \/ AskReuse(e) \/ BeginAsked(e)
             \/ Plan(e) \/ Read(e) \/ Write(e) \/ Fail(e) \/ Commit(e) \/ Abort(e)
      PROVE  Commit(e) /\ u = e
  BY <1>2, OnlyCommitCommits
<1>3. CASE EditsNext
  <2>1. Commit(u)
    BY <1>2, <1>3 DEF EditsNext
  <2> QED
    BY <2>1, CommitKeeps DEF Due
<1> QED
  BY <1>1, <1>3

\* The version counts the committed structural edits, one each, however they overlap:
\* the second of two that have both read it adds to what the first one committed.
THEOREM VersionTheorem == EditsSpec => VersionCountsEdits
<1>1. EditsInv /\ [EditsNext]_editVars =>
        [\A e \in Edits : Committing(e) =>
           table'[Itin].version = table[Itin].version
                                  + IF edit[e].op.kind \in Structural THEN 1 ELSE 0]_editVars
  BY StepCounts
<1> QED
  BY <1>1, EditsInvariant, PTL DEF EditsSpec, VersionCountsEdits

\* What holds of every committed state, however edits overlap.
THEOREM OverlapTheorem == EditsSpec => OverlapIsHarmless
BY ScratchTheorem, VersionTheorem, PTL DEF OverlapIsHarmless
=============================================================================
