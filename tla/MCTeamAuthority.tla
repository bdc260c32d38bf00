--------------------------- MODULE MCTeamAuthority --------------------------
(***************************************************************************)
(* TeamAuthority for TLC: small worlds and the requests made in them.      *)
(* User 1 is the system administrator.                                     *)
(***************************************************************************)
EXTENDS TeamAuthority, TLC

CONSTANTS c1, c2

Symmetry == Permutations({c1, c2})

NoAccess == [u \in Users |-> [game |-> 1, status |-> "none"]]

Consistent(w) ==
  [w EXCEPT !.blocked = [g \in Games |-> ~HasActiveSubmitter(w, g)]]

WorldOf(users, members, admins, adjudicators, access) ==
  Consistent([users |-> users, members |-> members,
              roles |-> [r \in Roles |-> IF r = "game_admin" THEN admins ELSE adjudicators],
              access |-> access, blocked |-> [g \in Games |-> TRUE]])

AllActive == [u \in Users |-> "active"]

Nobody == [g \in Games |-> {}]

\* One game.  2 is its submitter and an administrator, 3 plays too or not yet, is
\* an administrator or an adjudicator, or waits for access.
OneGame ==
  {WorldOf(AllActive, [g \in Games |-> [u \in Users |->
              CASE u = 2 -> "submitter" [] u = 3 -> m [] OTHER -> "none"]],
           [g \in Games |-> a], [g \in Games |-> j], NoAccess) :
     m \in {"none", "member"}, a \in {{2}, {2, 3}}, j \in {{}, {3}}}
  \cup
  {WorldOf([AllActive EXCEPT ![3] = "pending"], [g \in Games |-> [u \in Users |->
              IF u = 2 THEN m ELSE "none"]],
           [g \in Games |-> {2}], Nobody, [NoAccess EXCEPT ![3].status = "pending"]) :
     m \in {"member", "submitter"}}

Ask(op, actor, user, from, as, role) ==
  [op |-> op, actor |-> actor, game |-> 1, user |-> user, from |-> from,
   as |-> as, role |-> role]

\* Every operation by whoever the code lets try it, on every account.
EveryRequest ==
  {Ask("edit", a, u, a, "none", "none") : a \in {2, 3}, u \in {2, 3}}
  \cup {Ask(op, a, a, a, "none", "none") : op \in {"submit", "decide"}, a \in {2, 3}}
  \cup {Ask(op, a, u, a, m, "none") :
          op \in {"grant", "change"}, a \in {1, 2}, u \in {2, 3}, m \in Authorities}
  \cup {Ask("remove", a, u, a, "none", "none") : a \in {1, 2}, u \in {2, 3}}
  \cup {Ask("add_role", 1, u, 1, "none", r) : u \in {2, 3}, r \in Roles}
  \cup {Ask("remove_role", a, u, a, "none", r) :
          a \in {1, 2, 3}, u \in {2, 3}, r \in Roles}
  \cup {Ask("replace", a, 3, 2, "none", "none") : a \in {1, 2}}
  \cup {Ask("replace", 1, 2, 3, "none", "none")}
  \cup {Ask("deactivate", 1, u, 1, "none", "none") : u \in {2, 3}}
  \cup {Ask("approve", a, 3, a, m, r) :
          a \in {1, 2}, m \in Authorities \cup {"none"}, r \in {"none", "game_admin"}}
  \cup {Ask("deny", 2, 3, 2, "none", "none")}

\* Two games.  2 has a place in neither or one of them; 3 has been deactivated.
Place(g, m) == [h \in Games |-> [u \in Users |-> IF h = g /\ u = 2 THEN m ELSE "none"]]

TwoGames ==
  {WorldOf([AllActive EXCEPT ![3] = "inactive"], Place(g, m), Nobody, Nobody, NoAccess) :
     g \in Games, m \in {"none", "submitter"}}

\* Memberships come and go in both games while 2 is deactivated.
Churn ==
  {[Ask(op, 1, 2, 1, m, "none") EXCEPT !.game = g] :
     op \in {"grant"}, m \in Authorities, g \in Games}
  \cup {[Ask("remove", 1, 2, 1, "none", "none") EXCEPT !.game = g] : g \in Games}
  \cup {Ask("deactivate", 1, 2, 1, "none", "none")}

EveryWorld == OneGame \cup TwoGames

Requests == EveryRequest \cup Churn

\* Any two requests, or up to MaxRequests of those that come and go.
AnyPairOrChurn ==
  started' > 2 =>
    /\ world.users[3] = "inactive"
    /\ \A c \in Clients : tx'[c].pc # "idle" => tx'[c].req \in Churn

\* An adjudicator who is also the system administrator edits and deactivates.
Crossing ==
  {Ask("edit", 1, 2, 1, "none", "none"), Ask("deactivate", 1, 2, 1, "none", "none"),
   Ask("edit", 2, 2, 2, "none", "none"), Ask("grant", 1, 2, 1, "member", "none")}

Player ==
  {WorldOf(AllActive, [g \in Games |-> [u \in Users |-> IF u = 1 THEN "member" ELSE "none"]],
           Nobody, Nobody, NoAccess)}
=============================================================================
