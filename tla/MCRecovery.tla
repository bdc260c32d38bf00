----------------------------- MODULE MCRecovery ------------------------------
(***************************************************************************)
(* Recovery and Sessions for TLC: four databases to start from.            *)
(***************************************************************************)
EXTENDS Recovery, TLC

CONSTANTS c1, c2, c3, o1, o2, a1, a2

Symmetry == Permutations({c1, c2, c3}) \cup Permutations({o1, o2}) \cup Permutations({a1, a2})

Ask(op, user, token, password) ==
  [op |-> op, user |-> user, token |-> token, password |-> password, source |-> "lan"]

Signed(u, t) == [user |-> u, seen |-> 0, expires |-> Absolute, revoked |-> "no"]

\* ann is the administrator, each of the users in open has a session.
Start(states, open) ==
  [schema |-> TRUE,
   users |-> [u \in Users |-> [state |-> states[u], password |-> 0,
                               admin |-> u = "ann" /\ states[u] # "absent"]],
   sessions |-> [t \in Tokens |-> IF t \in DOMAIN open THEN Signed(open[t], t) ELSE NoRow],
   attempts |-> <<>>]

Both == [ann |-> "active", bob |-> "active"]

\* Sign-ins of one account, right and wrong, around its reset.
Passwording ==
  [db |-> Start(Both, <<"bob">>), issued |-> 1, bound |-> 3, atOnce |-> 2, until |-> 2, archives |-> FALSE,
   requests |-> {Ask("sign_in", "bob", 0, p) : p \in Passwords}
                \cup {Ask("sign_in", "ann", 0, 1), Ask("reset", "bob", 0, 0),
                      Ask("page", "bob", 1, 0)}]

\* An administrator and a player with a session each.
Deactivating ==
  [db |-> Start(Both, <<"ann", "bob">>), issued |-> 2, bound |-> 3, atOnce |-> 3, until |-> 1, archives |-> FALSE,
   requests |-> {Ask("disable_user", u, t, 0) : u \in Users, t \in {1, 2}}
                \cup {Ask("page", "bob", t, 0) : t \in {2, 3}}
                \cup {Ask("sign_in", "bob", 2, 0), Ask("logout", "bob", 2, 0),
                      Ask("add_user", "bob", 1, 0), Ask("create_admin", "bob", 0, 0)}]

\* An empty installation.
Founding ==
  [db |-> Start([ann |-> "absent", bob |-> "absent"], <<>>), issued |-> 0, bound |-> 5, atOnce |-> 2,
   until |-> 0, archives |-> FALSE,
   requests |-> {Ask("create_admin", u, 0, 0) : u \in Users}
                \cup {Ask("sign_in", "ann", 0, 0), Ask("add_user", "bob", 1, 0),
                      Ask("disable_user", "bob", 1, 0), Ask("disable_user", "ann", 1, 0)}]

\* Requests around backups, a loss and restores.
Recovering ==
  [db |-> Start(Both, <<"ann", "bob">>), issued |-> 2, bound |-> 2, atOnce |-> 1, until |-> 0, archives |-> TRUE,
   requests |-> {Ask("sign_in", "bob", 0, 0), Ask("logout", "bob", 2, 0),
                 Ask("page", "bob", 2, 0), Ask("disable_user", "bob", 1, 0),
                 Ask("create_admin", "bob", 0, 0), Ask("reset", "bob", 0, 0)}]

AllScenarios == {Passwording, Deactivating, Founding, Recovering}
==============================================================================
