-------------------------------- MODULE Team --------------------------------
(***************************************************************************)
(* One agency and the people in it: application and review, roles,         *)
(* transfer of ownership, invitations, and the administrator's actions on  *)
(* the accounts of its members (agencyService.ts, teamService.ts,          *)
(* invitationService.ts, accountActionService.ts and their repositories).  *)
(* A request runs from await to await; whatever other requests do may come *)
(* in between, and any of its statements may fail.                         *)
(***************************************************************************)
EXTENDS Naturals, FiniteSets

CONSTANTS People, TeamRequests, Invites, NoUser,
          Founder            \* the owner of the agency that exists at the start

ASSUME FounderIsUser == Founder \in People /\ NoUser \notin People

Roles == {"OWNER", "ADMIN", "STAFF"}
GrantableRoles == {"ADMIN", "STAFF"}
Decisions == [approve |-> "VERIFIED", reject |-> "REJECTED", suspend |-> "SUSPENDED",
              unsuspend |-> "VERIFIED"]

VARIABLES
  agency,        \* status ("none" and "deleted": there is no row) and ownerUserId
  member,        \* per user the membership: the row's id (renewed on creation) and role
  account,       \* per user: status and accountType
  invite,        \* the invitation rows
  doing,         \* the requests under way
  overlapped     \* history: two requests have been under way at once

teamVars == <<agency, member, account, invite, doing, overlapped>>

NoRole == "none"
Members == {u \in People : member[u].role # NoRole}
Owners == {u \in People : member[u].role = "OWNER"}
Open(i) == invite[i].to # NoUser /\ ~invite[i].accepted /\ ~invite[i].revoked
Unsent == [to |-> NoUser, by |-> NoUser, role |-> "STAFF",
           accepted |-> FALSE, revoked |-> FALSE, expired |-> FALSE]
Gone == [Unsent EXCEPT !.revoked = TRUE]

\* The agency has one life: a later application creates another agency.
Exists == agency.status \notin {"none", "deleted"}

NotYet == [pc |-> "idle"]
Over == [pc |-> "done"]
Running == {r \in TeamRequests : doing[r] \notin {NotYet, Over}}

(* Either nobody has applied yet, or the founder's agency is verified and    *)
(* has the members it was given.                                             *)
TeamInit ==
  /\ account \in [People -> [status : {"ACTIVE"}, type : {"PENDING", "AGENCY_USER"}]]
  /\ \/ /\ agency = [status |-> "none", owner |-> NoUser]
        /\ member = [u \in People |-> [id |-> 0, role |-> NoRole]]
     \/ /\ agency = [status |-> "VERIFIED", owner |-> Founder]
        /\ \E staff \in [People \ {Founder} -> GrantableRoles \union {NoRole}] :
             member = [u \in People |-> [id |-> 1, role |-> IF u = Founder THEN "OWNER"
                                                            ELSE staff[u]]]
        /\ \A u \in People : member[u].role # NoRole => account[u].type = "AGENCY_USER"
  /\ invite = [i \in Invites |-> Unsent]
  /\ doing = [r \in TeamRequests |-> NotYet]
  /\ overlapped = FALSE

-----------------------------------------------------------------------------
(* Requests.  Each is used once: op and arguments, the user row read when it *)
(* was authenticated, and the reads it goes on with.                         *)
Starts(r, q) ==
  /\ doing[r] = NotYet
  /\ doing' = [doing EXCEPT ![r] = q]
  /\ overlapped' = (overlapped \/ Running # {})
  /\ UNCHANGED <<agency, member, account, invite>>

Stands(r, pc) == doing[r].pc = pc
Becomes(r, q) == doing' = [doing EXCEPT ![r] = q]
Proceeds(r, pc) == Becomes(r, [doing[r] EXCEPT !.pc = pc])
Finishes(r) == Becomes(r, Over)
Data == <<agency, member, account, invite>>
Quiet == UNCHANGED overlapped

\* attachAuthUser and requireAuth: signed in and ACTIVE.
SignedIn(u) == account[u].status = "ACTIVE"

TeamRequest(r) ==
  \E u \in People, v \in People :
    /\ SignedIn(u) /\ agency.status # "none"
    /\ \/ \E role \in GrantableRoles, op \in {"changeRole", "invite"} :
            Starts(r, [op |-> op, pc |-> "access", actor |-> u, type |-> account[u].type,
                       target |-> v, id |-> member[v].id, mine |-> 0, role |-> role])
       \/ \E op \in {"remove", "transfer"} :
            Starts(r, [op |-> op, pc |-> "access", actor |-> u, type |-> account[u].type,
                       target |-> v, id |-> member[v].id, mine |-> 0, role |-> "STAFF"])

RevokeRequest(r) ==
  \E u \in People, i \in Invites :
    /\ SignedIn(u) /\ invite[i].to # NoUser
    /\ Starts(r, [op |-> "revoke", pc |-> "access", actor |-> u, type |-> account[u].type,
                  inv |-> i, mine |-> 0])

(* requireVerifiedAgencyMember, requireAgencyAdmin and requireAgencyOwner.   *)
Allowed(q) ==
  /\ q.type = "AGENCY_USER"
  /\ agency.status = "VERIFIED"
  /\ member[q.actor].role \in (IF q.op = "transfer" THEN {"OWNER"} ELSE {"OWNER", "ADMIN"})

Access(r) ==
  /\ Stands(r, "access") /\ UNCHANGED Data /\ Quiet
  /\ IF Allowed(doing[r])
     THEN Becomes(r, [doing[r] EXCEPT !.pc = IF doing[r].op = "transfer" THEN "current" ELSE "find",
                                      !.mine = member[doing[r].actor].id])
     ELSE Finishes(r)

\* findMembershipById: the row of u that had this id.
RowOf(u, id) == member[u].role # NoRole /\ member[u].id = id

-----------------------------------------------------------------------------
(* teamService.changeMemberRole and removeMember: the row is read, the owner *)
(* protected, and the row written by its id.                                 *)
FindMember(r) ==
  /\ Stands(r, "find") /\ doing[r].op \in {"changeRole", "remove"} /\ UNCHANGED Data /\ Quiet
  /\ LET q == doing[r]
     IN IF RowOf(q.target, q.id) /\ member[q.target].role # "OWNER" THEN Proceeds(r, "write")
        ELSE Finishes(r)

ChangeMemberRole(r) ==
  /\ Stands(r, "write") /\ doing[r].op = "changeRole"
  /\ RowOf(doing[r].target, doing[r].id)
  /\ member' = [member EXCEPT ![doing[r].target].role = doing[r].role]
  /\ Finishes(r) /\ Quiet /\ UNCHANGED <<agency, account, invite>>

RemoveMember(r) ==
  /\ Stands(r, "write") /\ doing[r].op = "remove"
  /\ RowOf(doing[r].target, doing[r].id)
  /\ member' = [member EXCEPT ![doing[r].target].role = NoRole]
  /\ Finishes(r) /\ Quiet /\ UNCHANGED <<agency, account, invite>>

(* teamService.transferOwnership: two reads, then one transaction of three   *)
(* updates by agency and user, which fails when a row is gone.               *)
FindCurrentOwner(r) ==
  /\ Stands(r, "current") /\ UNCHANGED Data /\ Quiet
  /\ LET q == doing[r]
     IN IF RowOf(q.actor, q.mine) /\ member[q.actor].role = "OWNER" /\ q.actor # q.target
        THEN Proceeds(r, "target") ELSE Finishes(r)

FindNewOwner(r) ==
  /\ Stands(r, "target") /\ doing[r].op = "transfer" /\ UNCHANGED Data /\ Quiet
  /\ IF RowOf(doing[r].target, doing[r].id) THEN Proceeds(r, "swap") ELSE Finishes(r)

(* Mutant: the former owner keeps the role.                                  *)
TransferKeepsFormer(r) ==
  /\ Stands(r, "swap") /\ {doing[r].actor, doing[r].target} \subseteq Members
  /\ member' = [member EXCEPT ![doing[r].target].role = "OWNER"]
  /\ agency' = [agency EXCEPT !.owner = doing[r].target]
  /\ Finishes(r) /\ Quiet /\ UNCHANGED <<account, invite>>

TransferOwnership(r) ==
  /\ Stands(r, "swap") /\ {doing[r].actor, doing[r].target} \subseteq Members
  /\ member' = [member EXCEPT ![doing[r].actor].role = "ADMIN", ![doing[r].target].role = "OWNER"]
  /\ agency' = [agency EXCEPT !.owner = doing[r].target]
  /\ Finishes(r) /\ Quiet /\ UNCHANGED <<account, invite>>

-----------------------------------------------------------------------------
(* invitationService.  An e-mail address stands for the user it belongs to.  *)
CheckNotMember(r) ==
  /\ Stands(r, "find") /\ doing[r].op = "invite" /\ UNCHANGED Data /\ Quiet
  /\ IF doing[r].target \in Members THEN Finishes(r) ELSE Proceeds(r, "pending")

CheckNonePending(r) ==
  /\ Stands(r, "pending") /\ UNCHANGED Data /\ Quiet
  /\ IF \E i \in Invites : invite[i].to = doing[r].target /\ Open(i) /\ ~invite[i].expired
     THEN Finishes(r) ELSE Proceeds(r, "create")

CreateInvitation(r) ==
  /\ Stands(r, "create") /\ doing[r].op = "invite" /\ Exists
  /\ \E i \in Invites :
       /\ invite[i] = Unsent
       /\ invite' = [invite EXCEPT ![i] = [Unsent EXCEPT !.to = doing[r].target,
                                                         !.by = doing[r].actor,
                                                         !.role = doing[r].role]]
  /\ Finishes(r) /\ Quiet /\ UNCHANGED <<agency, member, account>>

\* Seven days pass.
InvitationExpires(i) ==
  /\ Open(i) /\ ~invite[i].expired
  /\ invite' = [invite EXCEPT ![i].expired = TRUE]
  /\ Quiet /\ UNCHANGED <<agency, member, account, doing>>

FindInvitation(r) ==
  /\ Stands(r, "find") /\ doing[r].op = "revoke" /\ UNCHANGED Data /\ Quiet
  /\ IF invite[doing[r].inv].to # NoUser /\ Open(doing[r].inv) THEN Proceeds(r, "revoke")
     ELSE Finishes(r)

RevokeInvitation(r) ==
  /\ Stands(r, "revoke") /\ invite[doing[r].inv].to # NoUser
  /\ invite' = [invite EXCEPT ![doing[r].inv].revoked = TRUE]
  /\ Finishes(r) /\ Quiet /\ UNCHANGED <<agency, member, account>>

(* accept: the invitation is judged once; then the membership, the account   *)
(* type and the mark are written one after the other.                        *)
AcceptRequest(r) ==
  \E i \in Invites, u \in People :
    /\ SignedIn(u) /\ invite[i].to # NoUser
    /\ Starts(r, [op |-> "accept", pc |-> "judge", actor |-> u, type |-> account[u].type,
                  inv |-> i, role |-> invite[i].role])

JudgeInvitation(r) ==
  /\ Stands(r, "judge") /\ UNCHANGED Data /\ Quiet
  /\ LET i == doing[r].inv
     IN IF invite[i].to = doing[r].actor /\ Open(i) /\ ~invite[i].expired
        THEN Proceeds(r, "members") ELSE Finishes(r)

Promotion(r) == IF doing[r].type = "AGENCY_USER" THEN "mark" ELSE "promote"

ListMembers(r) ==
  /\ Stands(r, "members") /\ UNCHANGED Data /\ Quiet
  /\ IF doing[r].actor \in Members THEN Proceeds(r, Promotion(r)) ELSE Proceeds(r, "add")

\* One membership per agency and user: a second insert fails.
AddMember(r) ==
  /\ Stands(r, "add") /\ Exists /\ doing[r].actor \notin Members
  /\ member' = [member EXCEPT ![doing[r].actor] = [id |-> @.id + 1, role |-> doing[r].role]]
  /\ Proceeds(r, Promotion(r)) /\ Quiet /\ UNCHANGED <<agency, account, invite>>

PromoteAccount(r) ==
  /\ Stands(r, "promote")
  /\ account' = [account EXCEPT ![doing[r].actor].type = "AGENCY_USER"]
  /\ (IF doing[r].op = "accept" THEN Proceeds(r, "mark") ELSE Finishes(r))
  /\ Quiet /\ UNCHANGED <<agency, member, invite>>

MarkAccepted(r) ==
  /\ Stands(r, "mark") /\ invite[doing[r].inv].to # NoUser
  /\ invite' = [invite EXCEPT ![doing[r].inv].accepted = TRUE]
  /\ Finishes(r) /\ Quiet /\ UNCHANGED <<agency, member, account>>

-----------------------------------------------------------------------------
(* agencyService: an application writes the agency, the owner's membership   *)
(* and the account type in statements of their own.                          *)
ApplyRequest(r) ==
  \E u \in People :
    /\ SignedIn(u) /\ account[u].type # "PERSONAL"
    /\ Starts(r, [op |-> "apply", pc |-> "apply", actor |-> u, type |-> account[u].type])

\* The slug is unique: a second application under the name fails.
CreateAgency(r) ==
  /\ Stands(r, "apply") /\ agency.status = "none"
  /\ agency' = [status |-> "PENDING_REVIEW", owner |-> doing[r].actor]
  /\ Proceeds(r, "ownerRow") /\ Quiet /\ UNCHANGED <<member, account, invite>>

CreateOwnerMembership(r) ==
  /\ Stands(r, "ownerRow") /\ Exists /\ doing[r].actor \notin Members
  /\ member' = [member EXCEPT ![doing[r].actor] = [id |-> @.id + 1, role |-> "OWNER"]]
  /\ (IF doing[r].type = "PENDING" THEN Proceeds(r, "promote") ELSE Finishes(r))
  /\ Quiet /\ UNCHANGED <<agency, account, invite>>

(* A super administrator's decisions: the agency is read, and only           *)
(* unsuspendAgency looks at the status.  Audit rows and mails are left out.  *)
DecisionRequest(r) ==
  \E d \in DOMAIN Decisions :
    agency.status # "none" /\ Starts(r, [op |-> d, pc |-> "review", actor |-> NoUser])

ReadAgency(r) ==
  /\ Stands(r, "review") /\ UNCHANGED Data /\ Quiet
  /\ IF Exists /\ (doing[r].op = "unsuspend" => agency.status = "SUSPENDED")
     THEN Proceeds(r, "decide") ELSE Finishes(r)

DecideAgency(r) ==
  /\ Stands(r, "decide") /\ Exists
  /\ agency' = [agency EXCEPT !.status = Decisions[doing[r].op]]
  /\ Finishes(r) /\ Quiet /\ UNCHANGED <<member, account, invite>>

\* deleteAgency: by its owner; memberships and invitations go with the row.
DeleteAgencyRequest(r) ==
  \E u \in People :
    /\ SignedIn(u) /\ agency.status # "none"
    /\ Starts(r, [op |-> "deleteAgency", pc |-> "exists", actor |-> u])

FindAgency(r) ==
  /\ Stands(r, "exists") /\ UNCHANGED Data /\ Quiet
  /\ IF Exists THEN Proceeds(r, "mine") ELSE Finishes(r)

CheckOwnMembership(r) ==
  /\ Stands(r, "mine") /\ UNCHANGED Data /\ Quiet
  /\ IF member[doing[r].actor].role = "OWNER" THEN Proceeds(r, "drop") ELSE Finishes(r)

DeleteAgency(r) ==
  /\ Stands(r, "drop") /\ Exists
  /\ agency' = [status |-> "deleted", owner |-> NoUser]
  /\ member' = [u \in People |-> [member[u] EXCEPT !.role = NoRole]]
  /\ invite' = [i \in Invites |-> Gone]
  /\ Finishes(r) /\ Quiet /\ UNCHANGED account

-----------------------------------------------------------------------------
(* authService.setAccountType: read, then written by id.                     *)
SetTypeRequest(r) ==
  \E u \in People, type \in {"PERSONAL", "AGENCY_USER"} :
    SignedIn(u) /\ Starts(r, [op |-> "setType", pc |-> "readType", actor |-> u, type |-> type])

ReadType(r) ==
  /\ Stands(r, "readType") /\ UNCHANGED Data /\ Quiet
  /\ IF account[doing[r].actor].type = "PENDING" THEN Proceeds(r, "writeType") ELSE Finishes(r)

SetAccountType(r) ==
  /\ Stands(r, "writeType")
  /\ account' = [account EXCEPT ![doing[r].actor].type = doing[r].type]
  /\ Finishes(r) /\ Quiet /\ UNCHANGED <<agency, member, invite>>

(* accountActionService: disable, enable and deleteAccount by a super        *)
(* administrator who is none of the users.                                   *)
AccountRequest(r) ==
  \E u \in People :
    \/ \E status \in {"ACTIVE", "DISABLED"} :
         Starts(r, [op |-> "setStatus", pc |-> "load", target |-> u, status |-> status])
    \/ \E heir \in People \union {NoUser} :
         Starts(r, [op |-> "delete", pc |-> "load", target |-> u, heir |-> heir, moves |-> FALSE])

LoadMember(r) ==
  /\ Stands(r, "load") /\ UNCHANGED Data /\ Quiet
  /\ LET q == doing[r]
         now == account[q.target].status
     IN CASE now = "DELETED" -> Finishes(r)
          [] q.op = "delete" -> Proceeds(r, "owned")
          [] OTHER -> IF now = q.status THEN Finishes(r) ELSE Proceeds(r, "setStatus")

\* One transaction, guarded on the status.
SetAccountStatus(r) ==
  /\ Stands(r, "setStatus") /\ account[doing[r].target].status # "DELETED"
  /\ account' = [account EXCEPT ![doing[r].target].status = doing[r].status]
  /\ Finishes(r) /\ Quiet /\ UNCHANGED <<agency, member, invite>>

\* findOwnedAgencies: by ownerUserId, with the active members who are ACTIVE users.
Successors(u) == {v \in Members \ {u} : account[v].status = "ACTIVE"}

ListOwnedAgencies(r) ==
  /\ Stands(r, "owned") /\ UNCHANGED Data /\ Quiet
  /\ LET q == doing[r]
     IN IF agency.owner # q.target THEN Proceeds(r, "anonymize")
        ELSE IF q.heir \in Successors(q.target)
             THEN Becomes(r, [q EXCEPT !.pc = "anonymize", !.moves = TRUE]) ELSE Finishes(r)

Erased(u) ==
  /\ account' = [account EXCEPT ![u].status = "DELETED"]
  /\ invite' = [i \in Invites |-> IF invite[i].by = u /\ Open(i)
                                 THEN [invite[i] EXCEPT !.revoked = TRUE] ELSE invite[i]]

(* Mutant: the agency's row changes hands, the successor's role does not.    *)
AnonymizeUnpromoted(r) ==
  LET q == doing[r]
  IN  /\ Stands(r, "anonymize") /\ account[q.target].status # "DELETED"
      /\ q.moves => agency.owner = q.target /\ q.heir \in Successors(q.target)
      /\ member' = [member EXCEPT ![q.target].role = NoRole]
      /\ agency' = IF q.moves THEN [agency EXCEPT !.owner = q.heir] ELSE agency
      /\ Erased(q.target) /\ Finishes(r) /\ Quiet

(* anonymize: one transaction.  It claims the account, looks at owner and    *)
(* successor again when there is a transfer, and rolls back on any failure.  *)
AnonymizeMember(r) ==
  LET q == doing[r]
  IN  /\ Stands(r, "anonymize") /\ account[q.target].status # "DELETED"
      /\ q.moves => agency.owner = q.target /\ q.heir \in Successors(q.target)
      /\ member' = [u \in People |->
                      IF u = q.target THEN [member[u] EXCEPT !.role = NoRole]
                      ELSE IF q.moves /\ u = q.heir THEN [member[u] EXCEPT !.role = "OWNER"]
                      ELSE member[u]]
      /\ agency' = IF q.moves THEN [agency EXCEPT !.owner = q.heir] ELSE agency
      /\ Erased(q.target) /\ Finishes(r) /\ Quiet

(* A statement that finds its row gone or its unique key taken, or a failing *)
(* database, ends the request where it is.                                   *)
Breaks(r) ==
  /\ r \in Running
  /\ Finishes(r) /\ Quiet /\ UNCHANGED Data

-----------------------------------------------------------------------------
TeamAsks(r) ==
  \/ TeamRequest(r) \/ RevokeRequest(r) \/ AcceptRequest(r) \/ ApplyRequest(r)
  \/ DecisionRequest(r) \/ DeleteAgencyRequest(r) \/ SetTypeRequest(r) \/ AccountRequest(r)

TeamStep(r) ==
  \/ Access(r) \/ FindMember(r) \/ ChangeMemberRole(r) \/ RemoveMember(r)
  \/ FindCurrentOwner(r) \/ FindNewOwner(r) \/ TransferOwnership(r)
  \/ CheckNotMember(r) \/ CheckNonePending(r) \/ CreateInvitation(r)
  \/ FindInvitation(r) \/ RevokeInvitation(r)
  \/ JudgeInvitation(r) \/ ListMembers(r) \/ AddMember(r) \/ PromoteAccount(r) \/ MarkAccepted(r)
  \/ CreateAgency(r) \/ CreateOwnerMembership(r) \/ ReadAgency(r) \/ DecideAgency(r)
  \/ FindAgency(r) \/ CheckOwnMembership(r) \/ DeleteAgency(r)
  \/ ReadType(r) \/ SetAccountType(r)
  \/ LoadMember(r) \/ SetAccountStatus(r) \/ ListOwnedAgencies(r) \/ AnonymizeMember(r)

TeamNext ==
  \/ \E r \in TeamRequests : TeamAsks(r) \/ TeamStep(r) \/ Breaks(r)
  \/ \E i \in Invites : InvitationExpires(i)

TeamSpec == TeamInit /\ [][TeamNext]_teamVars

-----------------------------------------------------------------------------
Accounts == [status : {"ACTIVE", "DISABLED", "DELETED"},
             type : {"PENDING", "PERSONAL", "AGENCY_USER"}]

TeamTypeOK ==
  /\ agency.status \in {"none", "PENDING_REVIEW", "VERIFIED", "REJECTED", "SUSPENDED", "deleted"}
  /\ agency.owner \in People \union {NoUser}
  /\ member \in [People -> [id : Nat, role : Roles \union {NoRole}]]
  /\ account \in [People -> Accounts]
  /\ invite \in [Invites -> [to : People \union {NoUser}, by : People \union {NoUser},
                             role : {"ADMIN", "STAFF"}, accepted : BOOLEAN, revoked : BOOLEAN,
                             expired : BOOLEAN]]
  /\ overlapped \in BOOLEAN

(* The roles design says that an agency has exactly one OWNER, recorded in   *)
(* ownerUserId and changed only by Transfer Ownership (and by the deletion   *)
(* of the owner's account).  An application that failed before its second    *)
(* statement leaves an agency without members.                               *)
OneOwner == Exists /\ Members # {} => Owners = {agency.owner}

(* A deleted account owns nothing, belongs to nothing and invites nobody.    *)
DeletedLeaveNothing ==
  \A u \in People : account[u].status = "DELETED" =>
    agency.owner # u /\ u \notin Members /\ \A i \in Invites : ~(invite[i].by = u /\ Open(i))

(* An invitation is settled once, and there is one pending per address.      *)
InvitationsSettledOnce ==
  /\ \A i \in Invites : ~(invite[i].accepted /\ invite[i].revoked)
  /\ \A i, j \in Invites : i # j /\ Open(i) /\ Open(j) /\ invite[i].to = invite[j].to
       => invite[i].expired \/ invite[j].expired

(* As long as no two requests overlap, whatever their order and wherever     *)
(* they fail, the team is in order: one owner, nothing left of a deleted     *)
(* account, every invitation settled once.                                   *)
SoundWhenAlone ==
  ~overlapped => OneOwner /\ DeletedLeaveNothing /\ InvitationsSettledOnce

(* However requests interleave, deleting the account of an owner hands the   *)
(* agency over, in the same step, to a member whose account is ACTIVE and    *)
(* who gets the OWNER role; unless the account came to own the agency only   *)
(* after its agencies were listed.  And a deleted account stays deleted,     *)
(* whatever was under way at its deletion.                                   *)
HandsOver(u) ==
  /\ agency.owner = u /\ account[u].status # "DELETED" /\ account'[u].status = "DELETED"
  /\ ~\E r \in TeamRequests : Stands(r, "anonymize") /\ ~doing[r].moves /\ doing'[r] = Over
  => account'[agency'.owner].status = "ACTIVE" /\ member'[agency'.owner].role = "OWNER"

DeletionIsFinal ==
  [][\A u \in People :
       /\ HandsOver(u)
       /\ account[u].status = "DELETED" => account'[u].status = "DELETED"]_teamVars
=============================================================================
