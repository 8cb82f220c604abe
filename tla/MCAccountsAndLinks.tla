-------------------------- MODULE MCAccountsAndLinks --------------------------
(* Two components that do not touch each other's state are explored by one   *)
(* run: every behaviour is one of one of them, told by part, and the other   *)
(* keeps its initial state.                                                  *)
(*  - accounts: one user, two sessions, two mailed links, three requests; a  *)
(*    session lives for three ticks at most, two when it is idle and kept,   *)
(*    one when it is idle and not;                                           *)
(*  - links: three requests on one link and what is regenerated from it or   *)
(*    created beside it, two caches of one entry and two connections.        *)
EXTENDS Accounts, ClientLinks, TLC

CONSTANTS Parts,
          r1, r2, r3, x1, x2, y1, y2,      \* used by both parts: one symmetry serves both
          u1, l1, l2, l3, none

VARIABLE part

MCUsers == {u1}
MCRequests == {r1, r2, r3}
MCSessions == {x1, x2}
MCTokens == {y1, y2}

ThreeLinks == {l1, l2, l3}
BothCaches == {y1, y2}             \* the dashboards' and the calendar's
AgencyKeys == {"owner"}
AllKeys == {"owner", "other agency"}
TwoConnections == {x1, x2}
Days == {1, 2}

\* A component that is not explored has one initial state.
Init ==
  /\ part \in Parts /\ AccountsInit /\ LinksInit
  /\ part # "accounts" => user = [u \in Users |-> Unregistered]
  /\ part # "links" => \A l \in Links : link[l].expires = Never

Next ==
  /\ UNCHANGED part
  /\ \/ part = "accounts" /\ AccountsNext /\ UNCHANGED linkVars
     \/ part = "links" /\ LinksNext /\ UNCHANGED accountVars

Spec == Init /\ [][Next]_<<part, accountVars, linkVars>>

Symmetry == Permutations({r1, r2, r3}) \union Permutations({x1, x2}) \union Permutations({y1, y2})
=============================================================================
