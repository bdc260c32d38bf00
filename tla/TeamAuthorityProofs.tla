------------------------- MODULE TeamAuthorityProofs ------------------------
(***************************************************************************)
(* Theorems about TeamAuthority for every set of users, games, clients,    *)
(* requests and worlds to start from.                                      *)
(***************************************************************************)
EXTENDS TeamAuthority, FiniteSetTheorems, WellFoundedInduction, TLAPS

-----------------------------------------------------------------------------
(***************************************************************************)
(* What a request writes.                                                  *)
(***************************************************************************)
AuthorityAfter(w, q, g, u) ==
  CASE g # q.game -> w.members[g][u]
    [] g = q.game /\ u = q.from /\ q.op = "replace" -> "member"
    [] g = q.game /\ u = q.user /\ u # q.from /\ q.op = "replace" -> "submitter"
    [] g = q.game /\ u = q.user /\ q.op \in {"grant", "change"} -> q.as
    [] g = q.game /\ u = q.user /\ q.op = "approve" /\ q.as # "none" -> q.as
    [] g = q.game /\ u = q.user /\ q.op = "remove" -> "none"
    [] OTHER -> w.members[g][u]

HoldersAfter(w, q, r, g) ==
  IF g = q.game /\ r = q.role
    THEN IF q.op \in {"add_role", "approve"} THEN w.roles[r][g] \cup {q.user}
         ELSE IF q.op = "remove_role" THEN w.roles[r][g] \ {q.user} ELSE w.roles[r][g]
    ELSE w.roles[r][g]

StatusAfter(w, q, u) ==
  IF u = q.user /\ q.op = "deactivate" THEN "inactive"
  ELSE IF u = q.user /\ q.op = "approve" /\ w.users[u] = "pending" THEN "active"
  ELSE w.users[u]

\* The rows of w2 are those of w with the writes of q.
Rows(w, q, w2) ==
  /\ \A g \in Games, u \in Users : w2.members[g][u] = AuthorityAfter(w, q, g, u)
  /\ \A r \in Roles, g \in Games : w2.roles[r][g] = HoldersAfter(w, q, r, g)
  /\ \A u \in Users : w2.users[u] = StatusAfter(w, q, u)
  /\ \A u \in Users : /\ w2.access[u].game = w.access[u].game
                      /\ u # q.user \/ q.op \notin {"approve", "deny"} =>
                           w2.access[u] = w.access[u]

\* A world, field by field.
LEMMA WorldParts ==
  ASSUME NEW w \in World
  PROVE  /\ w = [users |-> w.users, members |-> w.members, roles |-> w.roles,
                 access |-> w.access, blocked |-> w.blocked]
         /\ w.users \in [Users -> {"active", "pending", "inactive"}]
         /\ w.members \in [Games -> [Users -> Authorities \cup {"none"}]]
         /\ w.roles \in [Roles -> [Games -> SUBSET Users]]
         /\ w.access \in [Users -> [game : Games,
                                    status : {"none", "pending", "approved", "denied"}]]
         /\ w.blocked \in [Games -> BOOLEAN]
BY DEF World

LEMMA WorldFrom ==
  ASSUME NEW us \in [Users -> {"active", "pending", "inactive"}],
         NEW ms \in [Games -> [Users -> Authorities \cup {"none"}]],
         NEW rs \in [Roles -> [Games -> SUBSET Users]],
         NEW as \in [Users -> [game : Games,
                               status : {"none", "pending", "approved", "denied"}]],
         NEW bs \in [Games -> BOOLEAN]
  PROVE  [users |-> us, members |-> ms, roles |-> rs, access |-> as, blocked |-> bs] \in World
BY DEF World

\* f with x at b of a.
Put(f, a, b, x) == [f EXCEPT ![a][b] = x]

Tables(A, B, C) == [A -> [B -> C]]

LEMMA PutFacts ==
  ASSUME NEW A, NEW B, NEW C, NEW f \in Tables(A, B, C), NEW a, NEW b, NEW x \in C
  PROVE  /\ Put(f, a, b, x) \in Tables(A, B, C)
         /\ \A g \in A, u \in B : Put(f, a, b, x)[g][u] = IF g = a /\ u = b THEN x ELSE f[g][u]
<1> DEFINE h == Put(f, a, b, x)
<1>1. \A g \in A : h[g] = IF g = a THEN [f[g] EXCEPT ![b] = x] ELSE f[g]
  BY DEF Put, Tables
<1>2. DOMAIN h = A /\ h = [g \in A |-> h[g]]
  BY DEF Put, Tables
<1> HIDE DEF h
<1>3. ASSUME NEW g \in A
      PROVE  /\ h[g] \in [B -> C]
             /\ \A u \in B : h[g][u] = IF g = a /\ u = b THEN x ELSE f[g][u]
  <2>1. PICK row \in [B -> C] : row = f[g]
    BY DEF Tables
  <2>2. CASE g = a
    <3>1. h[g] = [row EXCEPT ![b] = x]
      BY <1>1, <2>1, <2>2
    <3> QED
      BY <2>1, <2>2, <3>1
  <2>3. CASE g # a
    BY <1>1, <2>1, <2>3
  <2> QED
    BY <2>2, <2>3
<1>4. h \in Tables(A, B, C)
  BY <1>2, <1>3 DEF Tables
<1> QED
  BY <1>3, <1>4 DEF h

LEMMA MemberWritten ==
  ASSUME NEW w \in World, NEW q \in Request, NEW m \in Authorities \cup {"none"}
  PROVE  /\ WithMember(w, q, m) \in World
         /\ WithMember(w, q, m) =
              [users |-> w.users, members |-> WithMember(w, q, m).members,
               roles |-> w.roles, access |-> w.access, blocked |-> w.blocked]
         /\ \A g \in Games, u \in Users : WithMember(w, q, m).members[g][u] =
              IF g = q.game /\ u = q.user THEN m ELSE w.members[g][u]
<1> DEFINE ms == Put(w.members, q.game, q.user, m)
<1>1. w.members \in Tables(Games, Users, Authorities \cup {"none"})
  BY WorldParts DEF Tables
<1>2. /\ ms \in Tables(Games, Users, Authorities \cup {"none"})
      /\ \A g \in Games, u \in Users :
           ms[g][u] = IF g = q.game /\ u = q.user THEN m ELSE w.members[g][u]
  BY <1>1, PutFacts
<1>3. WithMember(w, q, m) = [w EXCEPT !.members = ms]
  BY DEF WithMember, Put
<1> HIDE DEF ms
<1>4. WithMember(w, q, m) = [users |-> w.users, members |-> ms, roles |-> w.roles,
                             access |-> w.access, blocked |-> w.blocked]
  BY <1>3, WorldParts
<1>5. [users |-> w.users, members |-> ms, roles |-> w.roles,
       access |-> w.access, blocked |-> w.blocked] \in World
  BY <1>2, WorldParts, WorldFrom DEF Tables
<1> QED
  BY <1>2, <1>4, <1>5

WithHolders(w, q, us) == [w EXCEPT !.roles[q.role][q.game] = us]

LEMMA RoleWritten ==
  ASSUME NEW w \in World, NEW q \in Request, NEW us \in SUBSET Users, NEW w2,
         w2 = WithHolders(w, q, us)
  PROVE  /\ w2 \in World
         /\ w2 = [users |-> w.users, members |-> w.members, roles |-> w2.roles,
                  access |-> w.access, blocked |-> w.blocked]
         /\ \A r \in Roles, g \in Games : w2.roles[r][g] =
              IF g = q.game /\ r = q.role THEN us ELSE w.roles[r][g]
<1> DEFINE rs == Put(w.roles, q.role, q.game, us)
<1>1. w.roles \in Tables(Roles, Games, SUBSET Users)
  BY WorldParts DEF Tables
<1>2. /\ rs \in Tables(Roles, Games, SUBSET Users)
      /\ \A r \in Roles, g \in Games :
           rs[r][g] = IF r = q.role /\ g = q.game THEN us ELSE w.roles[r][g]
  BY <1>1, PutFacts
<1>3. w2 = [w EXCEPT !.roles = rs]
  BY DEF Put, WithHolders
<1> HIDE DEF rs
<1>4. w2 = [users |-> w.users, members |-> w.members, roles |-> rs,
            access |-> w.access, blocked |-> w.blocked]
  BY <1>3, WorldParts
<1>5. [users |-> w.users, members |-> w.members, roles |-> rs,
       access |-> w.access, blocked |-> w.blocked] \in World
  BY <1>2, WorldParts, WorldFrom DEF Tables
<1>6. w2.roles = rs
  BY <1>4
<1> QED
  BY <1>2, <1>4, <1>5, <1>6

LEMMA AdmittedWritten ==
  ASSUME NEW w \in World, NEW u \in Users
  PROVE  /\ Admitted(w, u) \in World
         /\ Admitted(w, u) =
              [users |-> Admitted(w, u).users, members |-> w.members, roles |-> w.roles,
               access |-> Admitted(w, u).access, blocked |-> w.blocked]
         /\ \A v \in Users : Admitted(w, u).users[v] =
              IF v = u /\ w.users[v] = "pending" THEN "active" ELSE w.users[v]
         /\ \A v \in Users : /\ Admitted(w, u).access[v].game = w.access[v].game
                             /\ v # u => Admitted(w, u).access[v] = w.access[v]
<1> DEFINE us == [w.users EXCEPT ![u] = IF w.users[u] = "pending" THEN "active" ELSE w.users[u]]
           as == [w.access EXCEPT ![u].status = "approved"]
<1>1. /\ us \in [Users -> {"active", "pending", "inactive"}]
      /\ \A v \in Users : us[v] = IF v = u /\ w.users[v] = "pending" THEN "active" ELSE w.users[v]
  BY WorldParts
<1>2. /\ as \in [Users -> [game : Games, status : {"none", "pending", "approved", "denied"}]]
      /\ \A v \in Users : as[v].game = w.access[v].game /\ (v # u => as[v] = w.access[v])
  BY WorldParts
<1>3. Admitted(w, u) = [[w EXCEPT !.users = us] EXCEPT !.access = as]
  BY WorldParts DEF Admitted
<1> HIDE DEF us, as
<1>4. Admitted(w, u) = [users |-> us, members |-> w.members, roles |-> w.roles,
                        access |-> as, blocked |-> w.blocked]
  BY <1>3, WorldParts
<1>5. [users |-> us, members |-> w.members, roles |-> w.roles,
       access |-> as, blocked |-> w.blocked] \in World
  BY <1>1, <1>2, WorldParts, WorldFrom
<1>6. Admitted(w, u).users = us /\ Admitted(w, u).access = as
  BY <1>4
<1> QED
  BY <1>1, <1>2, <1>4, <1>5, <1>6

LEMMA AfterWritten ==
  ASSUME NEW w \in World, NEW q \in Request
  PROVE  After(w, q) \in World /\ Rows(w, q, After(w, q)) /\ After(w, q).blocked = w.blocked
<1>1. /\ q.user \in Users /\ q.from \in Users /\ q.game \in Games /\ q.actor \in Users
      /\ q.as \in Authorities \cup {"none"}
      /\ q.op \in Commands \cup Grants \cup
                    {"deny", "change", "remove", "remove_role", "replace", "deactivate"}
  BY DEF Request
<1>2. CASE q.op \in {"grant", "change", "remove"}
  <2>1. PICK m \in Authorities \cup {"none"} :
          After(w, q) = WithMember(w, q, m) /\ m = IF q.op = "remove" THEN "none" ELSE q.as
    BY <1>1, <1>2 DEF After
  <2>2. /\ After(w, q) \in World
        /\ After(w, q) = [users |-> w.users, members |-> After(w, q).members,
                          roles |-> w.roles, access |-> w.access, blocked |-> w.blocked]
        /\ \A g \in Games, u \in Users : After(w, q).members[g][u] =
             IF g = q.game /\ u = q.user THEN m ELSE w.members[g][u]
    BY <2>1, MemberWritten
  <2>3. /\ After(w, q).users = w.users /\ After(w, q).roles = w.roles
        /\ After(w, q).access = w.access /\ After(w, q).blocked = w.blocked
    BY <2>2
  <2> QED
    BY <1>2, <2>1, <2>2, <2>3
    DEF Rows, AuthorityAfter, HoldersAfter, StatusAfter
<1>3. CASE q.op = "replace"
  <2> DEFINE w1 == WithMember(w, q, "submitter")
             q2 == [q EXCEPT !.user = q.from]
  <2>0. "submitter" \in Authorities \cup {"none"} /\ "member" \in Authorities \cup {"none"}
    BY DEF Authorities
  <2>1. q2 \in Request /\ q2.game = q.game /\ q2.user = q.from
    BY DEF Request
  <2>2. /\ w1 \in World
        /\ w1 = [users |-> w.users, members |-> w1.members,
                 roles |-> w.roles, access |-> w.access, blocked |-> w.blocked]
        /\ \A g \in Games, u \in Users : w1.members[g][u] =
             IF g = q.game /\ u = q.user THEN "submitter" ELSE w.members[g][u]
    BY <2>0, MemberWritten
  <2>3. After(w, q) = WithMember(w1, q2, "member")
    <3>1. After(w, q) = [w1 EXCEPT !.members[q.game][q.from] = "member"]
      BY <1>3 DEF After
    <3> HIDE DEF w1, q2
    <3> QED
      BY <2>1, <3>1 DEF WithMember
  <2> HIDE DEF w1, q2
  <2> DEFINE w2 == WithMember(w1, q2, "member")
  <2>4. /\ w2 \in World
        /\ w2 = [users |-> w1.users, members |-> w2.members,
                 roles |-> w1.roles, access |-> w1.access, blocked |-> w1.blocked]
        /\ \A g \in Games, u \in Users : w2.members[g][u] =
             IF g = q2.game /\ u = q2.user THEN "member" ELSE w1.members[g][u]
    <3>1. q2 \in Request /\ w1 \in World /\ "member" \in Authorities \cup {"none"}
      BY <2>0, <2>1, <2>2
    <3> QED
      BY <3>1, MemberWritten
  <2> HIDE DEF w2
  <2>5. /\ w1.users = w.users /\ w1.roles = w.roles /\ w1.access = w.access /\ w1.blocked = w.blocked
    BY <2>2
  <2>6. /\ w2.users = w.users /\ w2.roles = w.roles
        /\ w2.access = w.access /\ w2.blocked = w.blocked
    BY <2>4, <2>5
  <2>7. After(w, q) = w2
    BY <2>3 DEF w2
  <2> QED
    BY <1>3, <2>1, <2>2, <2>4, <2>6, <2>7 DEF Rows, AuthorityAfter, HoldersAfter, StatusAfter
<1>4. CASE q.op \in {"add_role", "remove_role"}
  <2>1. PICK us : us = IF q.op = "add_role" THEN w.roles[q.role][q.game] \cup {q.user}
                                            ELSE w.roles[q.role][q.game] \ {q.user}
    OBVIOUS
  <2>2. After(w, q) = WithHolders(w, q, us)
    BY <1>4, <2>1 DEF After, WithRole, WithHolders, Commands
  <2>3. CASE q.role \in Roles
    <3>1. us \in SUBSET Users
      BY <1>1, <2>1, <2>3, WorldParts
    <3>2. /\ After(w, q) \in World
          /\ After(w, q) = [users |-> w.users, members |-> w.members,
                            roles |-> After(w, q).roles, access |-> w.access,
                            blocked |-> w.blocked]
          /\ \A r \in Roles, g \in Games : After(w, q).roles[r][g] =
               IF g = q.game /\ r = q.role THEN us ELSE w.roles[r][g]
      BY <2>2, <3>1, RoleWritten
    <3>3. /\ After(w, q).users = w.users /\ After(w, q).members = w.members
          /\ After(w, q).access = w.access /\ After(w, q).blocked = w.blocked
      BY <3>2
    <3>4. \A g \in Games, u \in Users : AuthorityAfter(w, q, g, u) = w.members[g][u]
      BY <1>4 DEF AuthorityAfter
    <3>5. \A r \in Roles, g \in Games : After(w, q).roles[r][g] = HoldersAfter(w, q, r, g)
      BY <1>4, <2>1, <3>2 DEF HoldersAfter
    <3>6. \A u \in Users : StatusAfter(w, q, u) = w.users[u]
      BY <1>4 DEF StatusAfter
    <3> QED
      BY <3>2, <3>3, <3>4, <3>5, <3>6 DEF Rows
  <2>4. CASE q.role \notin Roles
    <3>1. [w.roles EXCEPT ![q.role][q.game] = us] = w.roles
      BY <2>4, WorldParts
    <3>2. After(w, q) = w
      BY <2>2, <3>1, WorldParts DEF WithHolders
    <3> QED
      BY <1>4, <2>4, <3>2 DEF Rows, AuthorityAfter, HoldersAfter, StatusAfter
  <2> QED
    BY <2>3, <2>4
<1>5. CASE q.op = "approve"
  <2> DEFINE w1 == Admitted(w, q.user)
             w2 == IF q.as = "none" THEN w1 ELSE WithMember(w1, q, q.as)
  <2>1. After(w, q) = IF q.role = "none" THEN w2 ELSE WithRole(w2, q)
    BY <1>5 DEF After, Commands
  <2>2. /\ w1 \in World
        /\ w1 = [users |-> w1.users, members |-> w.members, roles |-> w.roles,
                 access |-> w1.access, blocked |-> w.blocked]
        /\ \A v \in Users : w1.users[v] =
             IF v = q.user /\ w.users[v] = "pending" THEN "active" ELSE w.users[v]
        /\ \A v \in Users : /\ w1.access[v].game = w.access[v].game
                            /\ v # q.user => w1.access[v] = w.access[v]
    BY <1>1, AdmittedWritten
  <2> HIDE DEF w1
  <2>3. w1.members = w.members /\ w1.roles = w.roles /\ w1.blocked = w.blocked
    BY <2>2
  <2>4. /\ w2 \in World /\ w2.users = w1.users /\ w2.roles = w.roles
        /\ w2.access = w1.access /\ w2.blocked = w.blocked
        /\ \A g \in Games, u \in Users : w2.members[g][u] =
             IF g = q.game /\ u = q.user /\ q.as # "none" THEN q.as ELSE w.members[g][u]
    <3>1. CASE q.as = "none"
      BY <2>2, <2>3, <3>1
    <3>2. CASE q.as # "none"
      <4>1. w2 = WithMember(w1, q, q.as)
        BY <3>2
      <4> HIDE DEF w2
      <4>2. /\ w2 \in World
            /\ w2 = [users |-> w1.users, members |-> w2.members,
                     roles |-> w1.roles, access |-> w1.access, blocked |-> w1.blocked]
            /\ \A g \in Games, u \in Users : w2.members[g][u] =
                 IF g = q.game /\ u = q.user THEN q.as ELSE w1.members[g][u]
        BY <1>1, <2>2, <4>1, MemberWritten
      <4>3. /\ w2.users = w1.users /\ w2.roles = w1.roles
            /\ w2.access = w1.access /\ w2.blocked = w1.blocked
        BY <4>2
      <4> QED
        BY <2>3, <3>2, <4>2, <4>3
    <3> QED
      BY <3>1, <3>2
  <2> HIDE DEF w2
  <2>5. /\ After(w, q) \in World /\ After(w, q).users = w2.users
        /\ After(w, q).members = w2.members /\ After(w, q).access = w2.access
        /\ After(w, q).blocked = w2.blocked
        /\ \A r \in Roles, g \in Games : After(w, q).roles[r][g] =
             IF g = q.game /\ r = q.role THEN w2.roles[r][g] \cup {q.user} ELSE w2.roles[r][g]
    <3>1. CASE q.role = "none"
      BY <2>1, <2>4, <3>1 DEF Roles
    <3>2. CASE q.role # "none"
      <4>1. q.role \in Roles
        BY <3>2 DEF Request
      <4>2. PICK us : us = w2.roles[q.role][q.game] \cup {q.user}
        OBVIOUS
      <4>3. us \in SUBSET Users
        BY <1>1, <2>4, <4>1, <4>2, WorldParts
      <4>4. After(w, q) = WithHolders(w2, q, us)
        BY <2>1, <3>2, <4>2 DEF WithRole, WithHolders
      <4>5. /\ After(w, q) \in World
            /\ After(w, q) = [users |-> w2.users, members |-> w2.members,
                              roles |-> After(w, q).roles, access |-> w2.access,
                              blocked |-> w2.blocked]
            /\ \A r \in Roles, g \in Games : After(w, q).roles[r][g] =
                 IF g = q.game /\ r = q.role THEN us ELSE w2.roles[r][g]
        BY <2>4, <4>3, <4>4, RoleWritten
      <4>6. /\ After(w, q).users = w2.users /\ After(w, q).members = w2.members
            /\ After(w, q).access = w2.access /\ After(w, q).blocked = w2.blocked
        BY <4>5
      <4> QED
        BY <4>2, <4>5, <4>6
    <3> QED
      BY <3>1, <3>2
  <2> QED
    BY <1>5, <2>2, <2>4, <2>5 DEF Rows, AuthorityAfter, HoldersAfter, StatusAfter
<1>6. CASE q.op = "deny"
  <2> DEFINE as == [w.access EXCEPT ![q.user].status = "denied"]
  <2>1. /\ as \in [Users -> [game : Games, status : {"none", "pending", "approved", "denied"}]]
        /\ \A v \in Users : as[v].game = w.access[v].game /\ (v # q.user => as[v] = w.access[v])
    BY <1>1, WorldParts
  <2>2. After(w, q) = [w EXCEPT !.access = as]
    BY <1>6, WorldParts DEF After, Commands
  <2> HIDE DEF as
  <2>3. After(w, q) = [users |-> w.users, members |-> w.members, roles |-> w.roles,
                       access |-> as, blocked |-> w.blocked]
    BY <2>2, WorldParts
  <2>4. [users |-> w.users, members |-> w.members, roles |-> w.roles,
         access |-> as, blocked |-> w.blocked] \in World
    BY <2>1, WorldParts, WorldFrom
  <2>5. /\ After(w, q).users = w.users /\ After(w, q).members = w.members
        /\ After(w, q).roles = w.roles /\ After(w, q).access = as
        /\ After(w, q).blocked = w.blocked
    BY <2>3
  <2> QED
    BY <1>6, <2>1, <2>3, <2>4, <2>5 DEF Rows, AuthorityAfter, HoldersAfter, StatusAfter
<1>7. CASE q.op = "deactivate"
  <2> DEFINE us == [w.users EXCEPT ![q.user] = "inactive"]
  <2>1. /\ us \in [Users -> {"active", "pending", "inactive"}]
        /\ \A v \in Users : us[v] = IF v = q.user THEN "inactive" ELSE w.users[v]
    BY <1>1, WorldParts
  <2>2. After(w, q) = [w EXCEPT !.users = us]
    BY <1>7, WorldParts DEF After, Commands
  <2> HIDE DEF us
  <2>3. After(w, q) = [users |-> us, members |-> w.members, roles |-> w.roles,
                       access |-> w.access, blocked |-> w.blocked]
    BY <2>2, WorldParts
  <2>4. [users |-> us, members |-> w.members, roles |-> w.roles,
         access |-> w.access, blocked |-> w.blocked] \in World
    BY <2>1, WorldParts, WorldFrom
  <2>5. /\ After(w, q).users = us /\ After(w, q).members = w.members
        /\ After(w, q).roles = w.roles /\ After(w, q).access = w.access
        /\ After(w, q).blocked = w.blocked
    BY <2>3
  <2> QED
    BY <1>7, <2>1, <2>3, <2>4, <2>5 DEF Rows, AuthorityAfter, HoldersAfter, StatusAfter
<1>8. CASE q.op \in Commands
  <2>1. After(w, q) = w
    BY <1>8 DEF After, Commands
  <2> QED
    BY <1>8, <2>1 DEF Rows, AuthorityAfter, HoldersAfter, StatusAfter, Commands
<1> QED
  BY <1>1, <1>2, <1>3, <1>4, <1>5, <1>6, <1>7, <1>8 DEF Grants

-----------------------------------------------------------------------------
(***************************************************************************)
(* The inductive invariant.  What a transaction was checked by is still    *)
(* true when it commits, because no other holds its game or its users.     *)
(***************************************************************************)
\* An account that waits for access has no place in a team yet, and a team has one
\* submitter at most.
Orderly(w) ==
  \A g \in Games :
    /\ \A u \in Users : w.users[u] = "pending" => w.members[g][u] = "none"
    /\ \A u, v \in Submitters(w, g) : u = v

\* The locks transaction t holds, and those it still wants.
Held(t) ==
  /\ t.pc = "discover" => t.req.op = "deactivate"
  /\ t.pc # "discover" =>
       /\ t.games \cup t.wantGames = t.found
       /\ t.update \cup t.wantUsers = UsersToLock(t.req)
       /\ t.req.op # "deactivate" => t.found = {t.req.game}
  /\ t.pc \in {"flush", "commit"} => t.wantGames = {} /\ t.wantUsers = {}

Past(t) == t.pc \in {"flush", "commit"}

\* What an administrative request was checked by, and still needs.
Standing(w, q) ==
  /\ q.op \in {"grant", "change", "replace"} => w.users[q.user] # "pending"
  /\ q.op \in {"change", "replace"} => w.members[q.game][q.user] # "none"
  /\ q.op \in {"grant", "change", "approve"} /\ q.as = "submitter" =>
       Submitters(w, q.game) \subseteq {q.user}
  /\ q.op \in {"approve", "deny"} => w.access[q.user].game = q.game
  /\ q.op = "replace" => Submitters(w, q.game) = {q.from} /\ q.from # q.user /\ Active(w, q.actor)
  /\ q.op = "remove_role" /\ q.role = "game_admin" /\ q.actor \notin SystemAdmins =>
       OtherActiveAdmin(w, q.game, q.user)

Administers(q) == q.op \notin Commands \cup {"deactivate"}

BlocksAre(w, t) == t.blocks = {g \in t.games : ~HasActiveSubmitter(After(w, t.req), g)}

Checked(w, t) ==
  /\ t.req.op \in Commands => t.pc # "flush"
  /\ t.req.op \in Commands /\ t.pc = "commit" => CommandAuthorized(w, t.req)
  /\ t.req.op = "deactivate" /\ Past(t) => GamesOf(w, t.req.user) \subseteq t.games
  /\ Administers(t.req) /\ Past(t) => Standing(w, t.req)
  /\ t.req.op \in Grants /\ t.pc = "flush" => t.req.user \in t.share \cup t.wantShares
  /\ t.req.op \in Grants /\ t.pc = "commit" => t.req.user \in t.share
  /\ t.req.op \notin Commands /\ t.pc = "commit" => BlocksAre(w, t)

\* No two transactions hold the same game, or the same user unless both share it.
Apart(s, t) ==
  /\ s.games \cap t.games = {}
  /\ s.update \cap t.update = {} /\ s.update \cap t.share = {} /\ t.update \cap s.share = {}

IInv ==
  /\ TypeOK /\ BlockedIsTrue /\ Orderly(world)
  /\ \A c \in Clients : Running(c) => Held(tx[c]) /\ Checked(world, tx[c])
  /\ \A c, d \in Clients : c # d /\ Running(c) /\ Running(d) => Apart(tx[c], tx[d])

-----------------------------------------------------------------------------
(***************************************************************************)
(* What another's commit leaves alone.                                     *)
(***************************************************************************)
\* Transaction s commits world w2 over w, while t runs.
Meets(w, s, w2, t) ==
  /\ w \in World /\ w2 \in World /\ Orderly(w) /\ s \in Transaction /\ t \in Transaction
  /\ Held(s) /\ Held(t) /\ Checked(w, s) /\ Checked(w, t) /\ Apart(s, t)
  /\ s.pc = "commit" /\ Rows(w, s.req, w2)

LEMMA RequestParts ==
  ASSUME NEW t \in Transaction
  PROVE  /\ t.req \in Request /\ t.req.user \in Users /\ t.req.from \in Users
         /\ t.req.game \in Games /\ t.req.actor \in Users
         /\ t.games \subseteq Games /\ t.update \subseteq Users /\ t.share \subseteq Users
BY DEF Transaction, Request

\* What a transaction past its locks holds.
LEMMA HoldsAll ==
  ASSUME NEW t \in Transaction, Held(t), Past(t)
  PROVE  /\ t.update = UsersToLock(t.req)
         /\ t.req.op # "deactivate" => t.games = {t.req.game}
BY DEF Held, Past

LEMMA GamesKept ==
  ASSUME NEW w, NEW s, NEW w2, NEW t, Meets(w, s, w2, t)
  PROVE  \A g \in t.games :
           /\ \A u \in Users : w2.members[g][u] = w.members[g][u]
           /\ \A r \in Roles : w2.roles[r][g] = w.roles[r][g]
<1>1. s \in Transaction /\ Held(s) /\ Past(s) /\ t \in Transaction
  BY DEF Meets, Past
<1>2. t.games \subseteq Games /\ s.games \cap t.games = {}
  BY <1>1, RequestParts DEF Meets, Apart
<1>3. s.req.op # "deactivate" => s.games = {s.req.game}
  BY <1>1, HoldsAll
<1>4. ASSUME NEW g \in t.games PROVE g # s.req.game \/ s.req.op = "deactivate"
  BY <1>2, <1>3, <1>4
<1>5. Rows(w, s.req, w2)
  BY DEF Meets
<1>6. ASSUME NEW g \in t.games
      PROVE  /\ \A u \in Users : AuthorityAfter(w, s.req, g, u) = w.members[g][u]
             /\ \A r \in Roles : HoldersAfter(w, s.req, r, g) = w.roles[r][g]
  BY <1>4 DEF AuthorityAfter, HoldersAfter
<1> QED
  BY <1>2, <1>5, <1>6 DEF Rows

\* An account that s deactivates has no place in a game of t, and t does not hold it.
LEMMA DeactivatedElsewhere ==
  ASSUME NEW w, NEW s, NEW w2, NEW t, Meets(w, s, w2, t), s.req.op = "deactivate"
  PROVE  /\ s.req.user \notin t.update \cup t.share
         /\ \A g \in t.games : /\ w.members[g][s.req.user] = "none"
                               /\ \A r \in Roles : s.req.user \notin w.roles[r][g]
<1>1. s \in Transaction /\ Held(s) /\ Past(s) /\ t \in Transaction
  BY DEF Meets, Past
<1>2. s.update = {s.req.user}
  <2>1. UsersToLock(s.req) = {s.req.user}
    BY DEF UsersToLock, Commands
  <2> QED
    BY <1>1, <2>1, HoldsAll
<1>3. GamesOf(w, s.req.user) \subseteq s.games
  BY <1>1 DEF Meets, Checked
<1>4. /\ s.games \cap t.games = {} /\ t.games \subseteq Games
      /\ s.update \cap t.update = {} /\ s.update \cap t.share = {}
  BY <1>1, RequestParts DEF Meets, Apart
<1> QED
  BY <1>2, <1>3, <1>4 DEF GamesOf

\* Whose status a commit changes.
LEMMA StatusKept ==
  ASSUME NEW w, NEW s, NEW w2, NEW t, Meets(w, s, w2, t), NEW u \in Users
  PROVE  \/ w2.users[u] = w.users[u]
         \/ u = s.req.user /\ s.req.op = "deactivate" /\ w2.users[u] = "inactive"
         \/ /\ u = s.req.user /\ s.req.op = "approve"
            /\ w.users[u] = "pending" /\ w2.users[u] = "active"
BY DEF Meets, Rows, StatusAfter

LEMMA HeldStayActive ==
  ASSUME NEW w, NEW s, NEW w2, NEW t, Meets(w, s, w2, t),
         NEW u \in Users, u \in t.update \cup t.share, Active(w, u)
  PROVE  Active(w2, u)
<1>1. \/ w2.users[u] = w.users[u]
      \/ u = s.req.user /\ s.req.op = "deactivate"
      \/ w2.users[u] = "active"
  BY StatusKept
<1>2. ~(u = s.req.user /\ s.req.op = "deactivate")
  BY DeactivatedElsewhere
<1> QED
  BY <1>1, <1>2 DEF Active

LEMMA CommandsKept ==
  ASSUME NEW w, NEW s, NEW w2, NEW t, Meets(w, s, w2, t),
         t.req.op \in Commands, t.pc = "commit"
  PROVE  CommandAuthorized(w2, t.req)
<1>1. t \in Transaction /\ Held(t) /\ Past(t) /\ CommandAuthorized(w, t.req)
  BY DEF Meets, Past, Checked
<1>2. t.req.actor \in t.update /\ t.req.user \in t.update /\ t.games = {t.req.game}
  <2>1. UsersToLock(t.req) = {t.req.actor, t.req.user} /\ t.req.op # "deactivate"
    BY DEF UsersToLock, Commands
  <2> QED
    BY <1>1, <2>1, HoldsAll
<1>3. /\ \A u \in Users : w2.members[t.req.game][u] = w.members[t.req.game][u]
      /\ \A r \in Roles : w2.roles[r][t.req.game] = w.roles[r][t.req.game]
  BY <1>2, GamesKept
<1>4. /\ Active(w, t.req.actor) => Active(w2, t.req.actor)
      /\ Active(w, t.req.user) => Active(w2, t.req.user)
      /\ t.req.actor \in Users /\ t.req.user \in Users
  BY <1>1, <1>2, HeldStayActive, RequestParts
<1> QED
  BY <1>1, <1>3, <1>4 DEF CommandAuthorized, MayEnter, Roles

\* Whose place in a team a request changes.
LEMMA PlacesWritten ==
  ASSUME NEW w, NEW q, NEW g, NEW u
  PROVE  \/ AuthorityAfter(w, q, g, u) = w.members[g][u]
         \/ AuthorityAfter(w, q, g, u) = "none"
         \/ g = q.game /\ u = q.user /\ q.op \in {"grant", "approve", "change", "replace"}
         \/ g = q.game /\ u = q.from /\ q.op = "replace"
BY DEF AuthorityAfter

LEMMA DeactivationsKept ==
  ASSUME NEW w, NEW s, NEW w2, NEW t, Meets(w, s, w2, t),
         t.req.op = "deactivate", Past(t)
  PROVE  GamesOf(w2, t.req.user) \subseteq t.games
<1> DEFINE x == t.req.user
           q == s.req
<1>1. /\ t \in Transaction /\ Held(t) /\ GamesOf(w, x) \subseteq t.games
      /\ s \in Transaction /\ Held(s) /\ Past(s)
  BY DEF Meets, Past, Checked
<1>2. x \in t.update /\ x \in Users
  <2>1. UsersToLock(t.req) = {x}
    BY DEF UsersToLock, Commands
  <2> QED
    BY <1>1, <2>1, HoldsAll, RequestParts
<1>3. ~(q.op \in Grants /\ q.user = x)
  BY <1>2 DEF Meets, Checked, Apart
<1>4. q.op \in {"change", "replace"} =>
        w.members[q.game][q.user] # "none" /\ (q.op = "replace" => w.members[q.game][q.from] # "none")
  <2>1. q.op \in {"change", "replace"} => Standing(w, q)
    BY <1>1 DEF Meets, Checked, Administers, Commands
  <2>2. q.op = "replace" => q.from \in Submitters(w, q.game)
    BY <2>1 DEF Standing
  <2> QED
    BY <2>1, <2>2 DEF Standing, Submitters
<1>5. Rows(w, q, w2) /\ q.game \in Games
  BY <1>1, RequestParts DEF Meets
<1>6. ASSUME NEW g \in Games, w2.members[g][x] # "none" PROVE w.members[g][x] # "none"
  <2>1. AuthorityAfter(w, q, g, x) # "none"
    BY <1>2, <1>5, <1>6 DEF Rows
  <2>2. ~(g = q.game /\ x = q.user /\ q.op \in {"grant", "approve"})
    BY <1>3 DEF Grants
  <2>3. g = q.game /\ x = q.user /\ q.op \in {"change", "replace"} => w.members[g][x] # "none"
    BY <1>4
  <2>4. g = q.game /\ x = q.from /\ q.op = "replace" => w.members[g][x] # "none"
    BY <1>4
  <2>5. \/ AuthorityAfter(w, q, g, x) = w.members[g][x]
        \/ AuthorityAfter(w, q, g, x) = "none"
        \/ g = q.game /\ x = q.user /\ q.op \in {"grant", "approve", "change", "replace"}
        \/ g = q.game /\ x = q.from /\ q.op = "replace"
    BY PlacesWritten
  <2> HIDE DEF x, q
  <2> QED
    BY <2>1, <2>2, <2>3, <2>4, <2>5
<1>7. ASSUME NEW g \in Games, NEW r \in Roles, x \in w2.roles[r][g] PROVE x \in w.roles[r][g]
  <2>1. x \in HoldersAfter(w, q, r, g)
    BY <1>5, <1>7 DEF Rows
  <2>2. ~(q.op \in {"add_role", "approve"} /\ q.user = x)
    BY <1>3 DEF Grants
  <2> HIDE DEF x, q
  <2> QED
    BY <2>1, <2>2 DEF HoldersAfter
<1> QED
  BY <1>1, <1>6, <1>7 DEF GamesOf

LEMMA StandingKept ==
  ASSUME NEW w, NEW s, NEW w2, NEW t, Meets(w, s, w2, t),
         Administers(t.req), Past(t)
  PROVE  Standing(w2, t.req)
<1> DEFINE q == t.req
<1>1. t \in Transaction /\ Held(t) /\ Standing(w, q)
  BY DEF Meets, Checked
<1>2. /\ q.user \in Users /\ q.actor \in Users /\ q.game \in t.games
      /\ q.op = "replace" => q.actor \in t.update
  BY <1>1, HoldsAll, RequestParts DEF Administers, UsersToLock, Commands
<1>3. /\ \A u \in Users : w2.members[q.game][u] = w.members[q.game][u]
      /\ \A r \in Roles : w2.roles[r][q.game] = w.roles[r][q.game]
  BY <1>2, GamesKept
<1>4. Submitters(w2, q.game) = Submitters(w, q.game)
  BY <1>3 DEF Submitters
<1>5. w.users[q.user] # "pending" => w2.users[q.user] # "pending"
  BY <1>2, StatusKept
<1>6. w2.access[q.user].game = w.access[q.user].game
  BY <1>2 DEF Meets, Rows
<1>7. q.op = "replace" => Active(w2, q.actor)
  BY <1>1, <1>2, HeldStayActive DEF Standing
<1>8. OtherActiveAdmin(w, q.game, q.user) => OtherActiveAdmin(w2, q.game, q.user)
  <2>1. SUFFICES ASSUME OtherActiveAdmin(w, q.game, q.user)
                 PROVE  OtherActiveAdmin(w2, q.game, q.user)
    OBVIOUS
  <2>2. PICK v \in w.roles["game_admin"][q.game] \ {q.user} : Active(w, v)
    BY <2>1 DEF OtherActiveAdmin
  <2>3. "game_admin" \in Roles
    BY DEF Roles
  <2>4. v \in Users
    <3>1. w \in World /\ q.game \in Games
      BY <1>1, RequestParts DEF Meets
    <3>2. w.roles["game_admin"][q.game] \in SUBSET Users
      BY <2>3, <3>1, WorldParts
    <3> QED
      BY <2>2, <3>2
  <2>5. ~(v = s.req.user /\ s.req.op = "deactivate")
    BY <1>2, <2>2, <2>3, DeactivatedElsewhere
  <2>6. Active(w2, v)
    BY <2>2, <2>4, <2>5, StatusKept DEF Active
  <2> QED
    BY <1>3, <2>2, <2>3, <2>6 DEF OtherActiveAdmin
<1> QED
  BY <1>1, <1>2, <1>3, <1>4, <1>5, <1>6, <1>7, <1>8 DEF Standing

\* A submitter in the world after a request was one before, or is its user.
LEMMA SubmitterBefore ==
  ASSUME NEW w \in World, NEW q \in Request, NEW g \in Games, NEW u \in Submitters(After(w, q), g)
  PROVE  \/ u \in Submitters(w, g)
         \/ g = q.game /\ u = q.user /\ q.op \in {"grant", "approve", "change", "replace"}
<1>1. u \in Users /\ AuthorityAfter(w, q, g, u) = "submitter"
  BY AfterWritten DEF Submitters, Rows
<1>2. \/ AuthorityAfter(w, q, g, u) = w.members[g][u]
      \/ AuthorityAfter(w, q, g, u) \in {"none", "member"}
      \/ g = q.game /\ u = q.user /\ q.op \in {"grant", "approve", "change", "replace"}
  BY DEF AuthorityAfter
<1> QED
  BY <1>1, <1>2 DEF Submitters

LEMMA BlocksKept ==
  ASSUME NEW w, NEW s, NEW w2, NEW t, Meets(w, s, w2, t),
         t.req.op \notin Commands, t.pc = "commit"
  PROVE  BlocksAre(w2, t)
<1> DEFINE q == t.req
<1>1. /\ t \in Transaction /\ Held(t) /\ Past(t) /\ BlocksAre(w, t)
      /\ w \in World /\ w2 \in World /\ q \in Request /\ q.user \in Users
      /\ s \in Transaction /\ Held(s) /\ Past(s) /\ Orderly(w)
  BY RequestParts DEF Meets, Checked, Past
<1>2. t.games \subseteq Games
  BY <1>1, RequestParts
<1>3. /\ \A g \in Games, u \in Users : After(w, q).members[g][u] = AuthorityAfter(w, q, g, u)
      /\ \A u \in Users : After(w, q).users[u] = StatusAfter(w, q, u)
      /\ \A g \in Games, u \in Users : After(w2, q).members[g][u] = AuthorityAfter(w2, q, g, u)
      /\ \A u \in Users : After(w2, q).users[u] = StatusAfter(w2, q, u)
  BY <1>1, AfterWritten DEF Rows
<1>4. ASSUME NEW g \in t.games
      PROVE  Submitters(After(w2, q), g) = Submitters(After(w, q), g)
  <2>1. \A u \in Users : w2.members[g][u] = w.members[g][u]
    BY GamesKept
  <2>2. \A u \in Users : AuthorityAfter(w2, q, g, u) = AuthorityAfter(w, q, g, u)
    BY <2>1 DEF AuthorityAfter
  <2> QED
    BY <1>2, <1>3, <2>2 DEF Submitters
<1>5. ASSUME NEW g \in t.games, NEW u \in Submitters(After(w, q), g)
      PROVE  Active(After(w2, q), u) <=> Active(After(w, q), u)
  <2>1. u \in Users /\ g \in Games
    BY <1>2 DEF Submitters
  <2>2. \/ u \in Submitters(w, g)
        \/ g = q.game /\ u = q.user /\ q.op \in {"grant", "approve", "change", "replace"}
    BY <1>1, <2>1, SubmitterBefore
  <2>3. CASE w2.users[u] = w.users[u]
    BY <1>3, <2>1, <2>3 DEF Active, StatusAfter
  <2>4. CASE u = s.req.user /\ s.req.op = "deactivate"
    <3>1. u \notin t.share /\ w.members[g][u] = "none"
      BY <2>4, DeactivatedElsewhere
    <3>2. g = q.game /\ u = q.user /\ q.op \in {"grant", "approve", "change", "replace"}
      BY <2>2, <3>1 DEF Submitters
    <3>3. q.op \in {"change", "replace"} => w.members[g][u] # "none"
      BY <1>1, <3>2 DEF Meets, Checked, Administers, Commands, Standing
    <3>4. q.op \in {"grant", "approve"} => u \in t.share
      BY <1>1, <3>2 DEF Meets, Checked, Grants
    <3> QED
      BY <3>1, <3>2, <3>3, <3>4
  <2>5. CASE u = s.req.user /\ s.req.op = "approve" /\ w.users[u] = "pending"
    <3>1. u \notin Submitters(w, g)
      BY <1>1, <2>1, <2>5 DEF Orderly, Submitters
    <3>2. g = q.game /\ u = q.user /\ q.op \in {"grant", "approve", "change", "replace"}
      BY <2>2, <3>1
    <3>3. Standing(w, q) /\ Standing(w, s.req)
      BY <1>1, <2>5, <3>2 DEF Meets, Checked, Administers, Commands
    <3>4. q.op = "approve" /\ q.game = s.req.game
      BY <2>5, <3>2, <3>3 DEF Standing
    <3>5. t.games = {q.game} /\ s.games = {s.req.game}
      BY <1>1, <2>5, <3>4, HoldsAll
    <3> QED
      BY <3>4, <3>5 DEF Meets, Apart
  <2> QED
    BY <2>1, <2>3, <2>4, <2>5, StatusKept
<1>6. \A g \in t.games : HasActiveSubmitter(After(w2, q), g) <=> HasActiveSubmitter(After(w, q), g)
  BY <1>4, <1>5 DEF HasActiveSubmitter
<1> QED
  BY <1>1, <1>6 DEF BlocksAre

\* Whatever commits, what another transaction was checked by stands.
LEMMA Undisturbed ==
  ASSUME NEW w, NEW s, NEW w2, NEW t, Meets(w, s, w2, t)
  PROVE  Checked(w2, t)
<1>1. Checked(w, t)
  BY DEF Meets
<1> QED
  BY <1>1, CommandsKept, DeactivationsKept, StandingKept, BlocksKept DEF Checked

-----------------------------------------------------------------------------
(***************************************************************************)
(* The steps.                                                              *)
(***************************************************************************)
LEMMA LeastIn ==
  ASSUME NEW S \in SUBSET Nat, S # {}
  PROVE  Least(S) \in S
<1> DEFINE R == OpToRel(<, Nat)
<1>1. IsWellFoundedOn(R, Nat)
  BY NatLessThanWellFounded
<1>2. \A a, b \in Nat : a < b => <<a, b>> \in R
  BY DEF OpToRel
<1> HIDE DEF R
<1>3. \E m \in S : \A n \in S : ~(<<n, m>> \in R)
  BY <1>1, WFMin
<1>4. PICK m \in S : \A n \in S : ~(<<n, m>> \in R)
  BY <1>3
<1>5. \A n \in S : m <= n
  <2>1. ASSUME NEW n \in S PROVE m <= n
    <3>1. n \in Nat /\ m \in Nat /\ ~(n < m)
      BY <1>2, <1>4
    <3> QED
      BY <3>1
  <2> QED
    BY <2>1
<1> QED
  BY <1>4, <1>5 DEF Least

\* What an administrative request is checked by is what it still needs.
LEMMA AdminStands ==
  ASSUME NEW w \in World, NEW q \in Request, Orderly(w), Administers(q), AdminAllowed(w, q)
  PROVE  Standing(w, q)
<1>1. q.user \in Users /\ q.game \in Games
  BY DEF Request
<1>2. ASSUME q.op \in {"grant", "change", "replace"} PROVE Active(w, q.user)
  BY <1>2 DEF AdminAllowed, GrantAllowed, ChangeAllowed, Replaceable, Eligible
<1>3. ASSUME q.op = "replace"
      PROVE  /\ Submitters(w, q.game) = {q.from} /\ q.from # q.user
             /\ Active(w, q.actor) /\ w.members[q.game][q.user] # "none"
  <2>1. /\ Submitters(w, q.game) = {q.from}
        /\ w.members[q.game][q.user] = "member" /\ Active(w, q.actor)
    BY <1>3 DEF AdminAllowed, Replaceable
  <2>2. q.user \notin Submitters(w, q.game)
    BY <2>1 DEF Submitters
  <2> QED
    BY <2>1, <2>2
<1>4. ASSUME q.op = "change" PROVE w.members[q.game][q.user] # "none"
  BY <1>4 DEF AdminAllowed, ChangeAllowed
<1>5. ASSUME q.op \in {"grant", "change"}, q.as = "submitter"
      PROVE  Submitters(w, q.game) \subseteq {q.user}
  BY <1>5 DEF AdminAllowed, GrantAllowed, ChangeAllowed, SubmitterTaken
<1>6. ASSUME q.op \in {"approve", "deny"} PROVE Reviewable(w, q)
  BY <1>6 DEF AdminAllowed
<1>7. ASSUME q.op = "approve", q.as = "submitter"
      PROVE  Submitters(w, q.game) \subseteq {q.user}
  <2>1. GrantAllowed(Admitted(w, q.user), q)
    BY <1>6, <1>7 DEF Reviewable
  <2>2. Submitters(Admitted(w, q.user), q.game) \subseteq {q.user}
    BY <1>7, <2>1 DEF GrantAllowed, SubmitterTaken
  <2>3. Admitted(w, q.user).members = w.members
    BY WorldParts DEF Admitted
  <2> QED
    BY <2>2, <2>3 DEF Submitters
<1>8. ASSUME q.op = "remove_role", q.role = "game_admin", q.actor \notin SystemAdmins
      PROVE  OtherActiveAdmin(w, q.game, q.user)
  BY <1>8 DEF AdminAllowed, RoleRemovable
<1>9. q.op \in {"approve", "deny"} => w.access[q.user].game = q.game
  BY <1>6 DEF Reviewable
<1> QED
  BY <1>2, <1>3, <1>4, <1>5, <1>7, <1>8, <1>9 DEF Standing, Active

\* The world that transaction t commits over w.
Committed(w, t) ==
  [After(w, t.req) EXCEPT
     !.blocked = [g \in Games |-> IF g \in t.games THEN g \in t.blocks ELSE @[g]]]

LEMMA CommittedRows ==
  ASSUME NEW w \in World, NEW t \in Transaction
  PROVE  /\ Committed(w, t) \in World
         /\ Rows(w, t.req, Committed(w, t))
         /\ \A g \in Games \cap t.games : Committed(w, t).blocked[g] = (g \in t.blocks)
         /\ \A g \in Games \ t.games : Committed(w, t).blocked[g] = w.blocked[g]
<1> DEFINE a == After(w, t.req)
           bs == [g \in Games |-> IF g \in t.games THEN g \in t.blocks ELSE w.blocked[g]]
           k == Committed(w, t)
<1>1. a \in World /\ Rows(w, t.req, a) /\ a.blocked = w.blocked
  BY AfterWritten, RequestParts
<1> HIDE DEF a
<1>2. bs \in [Games -> BOOLEAN]
  <2>1. ASSUME NEW g \in Games
        PROVE  (IF g \in t.games THEN g \in t.blocks ELSE w.blocked[g]) \in BOOLEAN
    <3>1. w.blocked[g] \in BOOLEAN
      BY WorldParts
    <3>2. (g \in t.blocks) \in BOOLEAN
      OBVIOUS
    <3>3. CASE g \in t.games
      BY <3>2, <3>3
    <3>4. CASE g \notin t.games
      BY <3>1, <3>4
    <3> QED
      BY <3>3, <3>4
  <2> QED
    BY <2>1
<1>3. /\ \A g \in Games \cap t.games : bs[g] = (g \in t.blocks)
      /\ \A g \in Games \ t.games : bs[g] = w.blocked[g]
  OBVIOUS
<1>4. k = [a EXCEPT !.blocked = bs]
  BY <1>1 DEF Committed, a
<1> HIDE DEF bs, k
<1>5. k = [users |-> a.users, members |-> a.members, roles |-> a.roles,
           access |-> a.access, blocked |-> bs]
  BY <1>1, <1>4, WorldParts
<1>6. [users |-> a.users, members |-> a.members, roles |-> a.roles,
       access |-> a.access, blocked |-> bs] \in World
  BY <1>1, <1>2, WorldParts, WorldFrom
<1>7. /\ k.users = a.users /\ k.members = a.members /\ k.roles = a.roles
      /\ k.access = a.access /\ k.blocked = bs
  BY <1>5
<1>8. Rows(w, t.req, k)
  BY <1>1, <1>7 DEF Rows
<1> QED
  BY <1>3, <1>5, <1>6, <1>7, <1>8 DEF k

LEMMA OrderlyAfter ==
  ASSUME NEW w \in World, NEW q \in Request, NEW w2, Orderly(w), Rows(w, q, w2),
         Administers(q) => Standing(w, q)
  PROVE  Orderly(w2)
<1>1. q.op \in {"grant", "change", "replace", "approve"} => Standing(w, q)
  BY DEF Administers, Commands
<1>2. q.op = "replace" => q.from \in Submitters(w, q.game) /\ Submitters(w, q.game) = {q.from}
  BY <1>1 DEF Standing
<1>3. ASSUME NEW g \in Games, NEW u \in Users, w2.users[u] = "pending"
      PROVE  w2.members[g][u] = "none"
  <2>1. w.users[u] = "pending" /\ ~(u = q.user /\ q.op = "approve")
    BY <1>3 DEF Rows, StatusAfter
  <2>2. w.members[g][u] = "none"
    BY <2>1 DEF Orderly
  <2>3. ~(g = q.game /\ u = q.user /\ q.op \in {"grant", "approve", "change", "replace"})
    BY <1>1, <2>1 DEF Standing
  <2>4. ~(g = q.game /\ u = q.from /\ q.op = "replace")
    BY <1>2, <2>2 DEF Submitters
  <2>5. w2.members[g][u] = AuthorityAfter(w, q, g, u)
    BY DEF Rows
  <2> QED
    BY <2>2, <2>3, <2>4, <2>5, PlacesWritten
<1>4. ASSUME NEW g \in Games, NEW u \in Submitters(w2, g)
      PROVE  \/ u \in Submitters(w, g) /\ ~(g = q.game /\ q.op = "replace")
             \/ /\ g = q.game /\ u = q.user
                /\ q.op \in {"grant", "change", "approve"} /\ q.as = "submitter"
             \/ g = q.game /\ u = q.user /\ q.op = "replace"
  <2>1. u \in Users /\ AuthorityAfter(w, q, g, u) = "submitter"
    BY DEF Submitters, Rows
  <2>2. CASE g = q.game /\ q.op = "replace"
    <3>1. u # q.from
      BY <2>1, <2>2 DEF AuthorityAfter
    <3>2. u = q.user \/ u \in Submitters(w, g)
      BY <2>1, <2>2, <3>1 DEF AuthorityAfter, Submitters
    <3> QED
      BY <1>2, <2>2, <3>1, <3>2
  <2>3. CASE ~(g = q.game /\ q.op = "replace")
    BY <2>1, <2>3 DEF AuthorityAfter, Submitters
  <2> QED
    BY <2>2, <2>3
<1>5. ASSUME NEW g \in Games, NEW u \in Submitters(w2, g), NEW v \in Submitters(w2, g)
      PROVE  u = v
  <2>1. \A x, y \in Submitters(w, g) : x = y
    BY DEF Orderly
  <2>2. g = q.game /\ q.op \in {"grant", "change", "approve"} /\ q.as = "submitter" =>
          Submitters(w, g) \subseteq {q.user}
    BY <1>1 DEF Standing
  <2>3. \/ u \in Submitters(w, g) /\ ~(g = q.game /\ q.op = "replace")
        \/ /\ g = q.game /\ u = q.user
           /\ q.op \in {"grant", "change", "approve"} /\ q.as = "submitter"
        \/ g = q.game /\ u = q.user /\ q.op = "replace"
    BY <1>4
  <2>4. \/ v \in Submitters(w, g) /\ ~(g = q.game /\ q.op = "replace")
        \/ /\ g = q.game /\ v = q.user
           /\ q.op \in {"grant", "change", "approve"} /\ q.as = "submitter"
        \/ g = q.game /\ v = q.user /\ q.op = "replace"
    BY <1>4
  <2> QED
    BY <2>1, <2>2, <2>3, <2>4
<1> QED
  BY <1>3, <1>5 DEF Orderly

\* A team whose game a committing request does not hold has the submitters it had,
\* and no status of theirs changes.
LEMMA BlockedAfter ==
  ASSUME NEW w \in World, NEW t \in Transaction, NEW w2, Orderly(w), Held(t), Checked(w, t),
         t.pc = "commit", t.req.op \notin Commands, w2 = Committed(w, t), NEW g \in Games,
         w.blocked[g] <=> ~HasActiveSubmitter(w, g)
  PROVE  w2.blocked[g] <=> ~HasActiveSubmitter(w2, g)
<1> DEFINE q == t.req
           a == After(w, q)
<1>1. /\ q \in Request /\ q.user \in Users /\ t.games \subseteq Games
      /\ Past(t) /\ BlocksAre(w, t)
  BY RequestParts DEF Past, Checked
<1>2. /\ g \in t.games => w2.blocked[g] = (g \in t.blocks)
      /\ g \notin t.games => w2.blocked[g] = w.blocked[g]
      /\ Rows(w, q, w2) /\ Rows(w, q, a)
  BY <1>1, CommittedRows, AfterWritten
<1>3. CASE g \in t.games
  <2>1. w2.blocked[g] <=> ~HasActiveSubmitter(a, g)
    BY <1>1, <1>2, <1>3 DEF BlocksAre
  <2>2. \A u \in Users : w2.members[g][u] = a.members[g][u] /\ w2.users[u] = a.users[u]
    BY <1>2 DEF Rows
  <2> HIDE DEF a
  <2> QED
    BY <2>1, <2>2 DEF HasActiveSubmitter, Submitters, Active
<1>4. CASE g \notin t.games
  <2>1. w2.blocked[g] <=> ~HasActiveSubmitter(w, g)
    BY <1>2, <1>4
  <2>2. q.op # "deactivate" => g # q.game
    BY <1>1, <1>4, HoldsAll
  <2>3. q.op = "deactivate" => q.user \notin Submitters(w, g)
    <3>1. q.op = "deactivate" => GamesOf(w, q.user) \subseteq t.games
      BY <1>1 DEF Checked
    <3> QED
      BY <1>4, <3>1 DEF GamesOf, Submitters
  <2>4. \A u \in Users : w2.members[g][u] = w.members[g][u]
    BY <1>2, <2>2 DEF Rows, AuthorityAfter
  <2>5. Submitters(w2, g) = Submitters(w, g)
    BY <2>4 DEF Submitters
  <2>6. ASSUME NEW u \in Submitters(w, g) PROVE Active(w2, u) <=> Active(w, u)
    <3>1. u \in Users /\ w.users[u] # "pending"
      BY DEF Submitters, Orderly
    <3>2. ~(u = q.user /\ q.op = "deactivate")
      BY <2>3
    <3>3. w2.users[u] = w.users[u]
      BY <1>2, <3>1, <3>2 DEF Rows, StatusAfter
    <3> QED
      BY <3>3 DEF Active
  <2> QED
    BY <2>1, <2>5, <2>6 DEF HasActiveSubmitter
<1> QED
  BY <1>3, <1>4

LEMMA RunningIs ==
  ASSUME TypeOK, NEW c \in Clients
  PROVE  /\ Running(c) <=> tx[c] \in Transaction
         /\ ~Running(c) => tx[c] = Idle
<1>1. tx[c] = Idle \/ tx[c] \in Transaction
  BY DEF TypeOK
<1>2. tx[c] \in Transaction => tx[c].pc # "idle"
  BY DEF Transaction
<1>3. Idle.pc = "idle"
  BY DEF Idle
<1> QED
  BY <1>1, <1>2, <1>3 DEF Running

\* What is known of a running transaction.
LEMMA RunningFacts ==
  ASSUME IInv, NEW c \in Clients, Running(c)
  PROVE  /\ tx[c] \in Transaction /\ Held(tx[c]) /\ Checked(world, tx[c])
         /\ \A d \in Others(c) : /\ tx[d] \in Transaction /\ Held(tx[d])
                                 /\ Checked(world, tx[d]) /\ Apart(tx[c], tx[d])
BY RunningIs DEF IInv, Others

\* c goes on as t, while the world stands.
LEMMA GoesOn ==
  ASSUME IInv, NEW c \in Clients, NEW t \in Transaction, tx' = [tx EXCEPT ![c] = t],
         world' = world, started' \in 0 .. MaxRequests, Held(t), Checked(world, t),
         \A d \in Others(c) : Apart(t, tx[d])
  PROVE  IInv'
<1>1. tx \in [Clients -> {Idle} \cup Transaction]
  BY DEF IInv, TypeOK
<1>2. tx'[c] = t /\ \A d \in Clients \ {c} : tx'[d] = tx[d]
  BY <1>1
<1>3. TypeOK'
  BY <1>1 DEF IInv, TypeOK
<1>4. BlockedIsTrue' /\ Orderly(world')
  BY DEF IInv, BlockedIsTrue
<1>5. ASSUME NEW d \in Clients, Running(d)' PROVE Held(tx'[d]) /\ Checked(world', tx'[d])
  BY <1>2, <1>5 DEF IInv, Running
<1>6. ASSUME NEW d \in Clients, NEW e \in Clients, d # e, Running(d)', Running(e)'
      PROVE  Apart(tx'[d], tx'[e])
  <2>1. \A x \in Clients \ {c} : x = d \/ x = e => Running(x) /\ x \in Others(c)
    BY <1>2, <1>6 DEF Running, Others
  <2>2. CASE d = c
    BY <1>2, <1>6, <2>1, <2>2
  <2>3. CASE e = c
    BY <1>2, <1>6, <2>1, <2>3 DEF Apart
  <2>4. CASE d # c /\ e # c
    BY <1>2, <1>6, <2>1, <2>4 DEF IInv
  <2> QED
    BY <2>2, <2>3, <2>4
<1> QED
  BY <1>3, <1>4, <1>5, <1>6 DEF IInv

\* c is done, while the world stands.
LEMMA Ends ==
  ASSUME IInv, NEW c \in Clients, tx' = [tx EXCEPT ![c] = Idle], UNCHANGED <<world, started>>
  PROVE  IInv'
<1>1. tx \in [Clients -> {Idle} \cup Transaction]
  BY DEF IInv, TypeOK
<1>2. tx'[c] = Idle /\ \A d \in Clients \ {c} : tx'[d] = tx[d]
  BY <1>1
<1>3. TypeOK'
  BY <1>1 DEF IInv, TypeOK
<1>4. BlockedIsTrue' /\ Orderly(world')
  BY DEF IInv, BlockedIsTrue
<1>5. \A d \in Clients : Running(d)' => d # c /\ Running(d)
  BY <1>2 DEF Running, Idle
<1>6. \A d \in Clients : Running(d)' => Held(tx'[d]) /\ Checked(world', tx'[d])
  BY <1>2, <1>5 DEF IInv
<1>7. \A d, e \in Clients : d # e /\ Running(d)' /\ Running(e)' => Apart(tx'[d], tx'[e])
  BY <1>2, <1>5 DEF IInv
<1> QED
  BY <1>3, <1>4, <1>6, <1>7 DEF IInv

LEMMA BeginFacts ==
  ASSUME NEW w, NEW q \in Request, NEW pc \in {"discover", "lock"},
         NEW wanted \in SUBSET Games, NEW n \in 0 .. (Attempts - 1),
         pc = "discover" => q.op = "deactivate", q.op # "deactivate" => wanted = {q.game}
  PROVE  /\ Begin(q, pc, wanted, n) \in Transaction
         /\ Held(Begin(q, pc, wanted, n)) /\ Checked(w, Begin(q, pc, wanted, n))
         /\ \A t : Apart(Begin(q, pc, wanted, n), t)
<1> DEFINE b == Begin(q, pc, wanted, n)
<1>1. UsersToLock(q) \subseteq Users
  BY DEF UsersToLock, Request
<1>2. b \in Transaction
  BY <1>1 DEF Begin, Transaction
<1>3. /\ b.pc = pc /\ b.req = q /\ b.wantGames = wanted /\ b.wantUsers = UsersToLock(q)
      /\ b.games = {} /\ b.update = {} /\ b.share = {} /\ b.found = wanted
  BY DEF Begin
<1> HIDE DEF b
<1>4. Held(b)
  BY <1>3 DEF Held
<1>5. Checked(w, b)
  BY <1>3 DEF Checked, Past
<1>6. \A t : Apart(b, t)
  BY <1>3 DEF Apart
<1> QED
  BY <1>2, <1>4, <1>5, <1>6 DEF b

LEMMA StartKeeps ==
  ASSUME IInv, NEW c \in Clients, Start(c)
  PROVE  IInv'
<1>1. PICK q \in Offered :
        /\ ~Running(c) /\ started < MaxRequests
        /\ tx' = [tx EXCEPT ![c] = IF q.op = "deactivate" THEN Begin(q, "discover", {}, 0)
                                                          ELSE Begin(q, "lock", {q.game}, 0)]
        /\ started' = started + 1 /\ world' = world
  BY DEF Start
<1>2. q \in Request /\ q.game \in Games /\ 0 \in 0 .. (Attempts - 1) /\ started' \in 0 .. MaxRequests
  BY <1>1, AuthorityAssumption DEF IInv, TypeOK, Request
<1>3. CASE q.op = "deactivate"
  <2> DEFINE t == Begin(q, "discover", {}, 0)
  <2>1. t \in Transaction /\ Held(t) /\ Checked(world, t) /\ \A u : Apart(t, u)
    BY <1>2, <1>3, BeginFacts
  <2>2. tx' = [tx EXCEPT ![c] = t]
    BY <1>1, <1>3
  <2> HIDE DEF t
  <2> QED
    BY <1>1, <1>2, <2>1, <2>2, GoesOn
<1>4. CASE q.op # "deactivate"
  <2> DEFINE t == Begin(q, "lock", {q.game}, 0)
  <2>0. {q.game} \in SUBSET Games
    BY <1>2
  <2>1. t \in Transaction /\ Held(t) /\ Checked(world, t) /\ \A u : Apart(t, u)
    BY <1>2, <1>4, <2>0, BeginFacts
  <2>2. tx' = [tx EXCEPT ![c] = t]
    BY <1>1, <1>4
  <2> HIDE DEF t
  <2> QED
    BY <1>1, <1>2, <2>1, <2>2, GoesOn
<1> QED
  BY <1>3, <1>4

\* No game and no user is locked under another's feet.
LEMMA NobodyHolds ==
  ASSUME NEW c \in Clients, Running(c), WaitsFor(c) = {}
  PROVE  /\ tx[c].pc = "lock" /\ tx[c].wantGames # {} =>
              \A d \in Others(c) : Least(tx[c].wantGames) \notin tx[d].games
         /\ tx[c].pc = "lock" /\ tx[c].wantGames = {} /\ tx[c].wantUsers # {} =>
              \A d \in Others(c) : Least(tx[c].wantUsers) \notin tx[d].update \cup tx[d].share
         /\ tx[c].pc \in {"flush", "commit"} /\ tx[c].wantShares # {} =>
              \A d \in Others(c) : Least(tx[c].wantShares) \notin tx[d].update
<1>1. ASSUME tx[c].pc = "lock", tx[c].wantGames # {}
      PROVE  GameHolders(c, Least(tx[c].wantGames)) = {}
  BY <1>1 DEF WaitsFor
<1>2. ASSUME tx[c].pc = "lock", tx[c].wantGames = {}, tx[c].wantUsers # {}
      PROVE  /\ UpdateHolders(c, Least(tx[c].wantUsers)) = {}
             /\ ShareHolders(c, Least(tx[c].wantUsers)) = {}
  BY <1>2 DEF WaitsFor
<1>3. ASSUME tx[c].pc \in {"flush", "commit"}, tx[c].wantShares # {}
      PROVE  UpdateHolders(c, Least(tx[c].wantShares)) = {}
  BY <1>3 DEF WaitsFor
<1> QED
  BY <1>1, <1>2, <1>3 DEF GameHolders, UpdateHolders, ShareHolders

LEMMA LockGameKeeps ==
  ASSUME IInv, NEW c \in Clients, LockGame(c)
  PROVE  IInv'
<1> DEFINE s == tx[c]
           g == Least(s.wantGames)
           t == [s EXCEPT !.games = s.games \cup {g}, !.wantGames = s.wantGames \ {g}]
<1>1. /\ s.pc = "lock" /\ s.wantGames # {} /\ WaitsFor(c) = {}
      /\ tx' = [tx EXCEPT ![c] = t] /\ world' = world /\ started' = started
  BY DEF LockGame, Proceed, Become
<1>2. Running(c)
  BY <1>1 DEF Running
<1>3. /\ s \in Transaction /\ Held(s) /\ Checked(world, s)
      /\ \A d \in Others(c) : tx[d] \in Transaction /\ Apart(s, tx[d])
  BY <1>2, RunningFacts
<1>4. g \in s.wantGames /\ s.wantGames \subseteq Games
  BY <1>1, <1>3, AuthorityAssumption, LeastIn DEF Transaction
<1>5. \A d \in Others(c) : g \notin tx[d].games
  BY <1>1, <1>2, NobodyHolds
<1> HIDE DEF s, g
<1>6. /\ t \in Transaction
      /\ t.pc = "lock" /\ t.req = s.req /\ t.games = s.games \cup {g} /\ t.found = s.found
      /\ t.wantGames = s.wantGames \ {g} /\ t.wantUsers = s.wantUsers
      /\ t.update = s.update /\ t.share = s.share
  BY <1>1, <1>3, <1>4 DEF Transaction
<1> HIDE DEF t
<1>7. Held(t)
  BY <1>1, <1>3, <1>4, <1>6 DEF Held
<1>8. Checked(world, t)
  BY <1>6 DEF Checked, Past
<1>9. \A d \in Others(c) : Apart(t, tx[d])
  BY <1>3, <1>5, <1>6 DEF Apart
<1>10. started' \in 0 .. MaxRequests
  BY <1>1 DEF IInv, TypeOK
<1> QED
  BY <1>1, <1>6, <1>7, <1>8, <1>9, <1>10, GoesOn

LEMMA LockUserKeeps ==
  ASSUME IInv, NEW c \in Clients, LockUser(c)
  PROVE  IInv'
<1> DEFINE s == tx[c]
           u == Least(s.wantUsers)
           t == [s EXCEPT !.update = s.update \cup {u}, !.wantUsers = s.wantUsers \ {u}]
<1>1. /\ s.pc = "lock" /\ s.wantGames = {} /\ s.wantUsers # {} /\ WaitsFor(c) = {}
      /\ tx' = [tx EXCEPT ![c] = t] /\ world' = world /\ started' = started
  BY DEF LockUser, Proceed, Become
<1>2. Running(c)
  BY <1>1 DEF Running
<1>3. /\ s \in Transaction /\ Held(s) /\ Checked(world, s)
      /\ \A d \in Others(c) : tx[d] \in Transaction /\ Apart(s, tx[d])
  BY <1>2, RunningFacts
<1>4. u \in s.wantUsers /\ s.wantUsers \subseteq Users
  BY <1>1, <1>3, AuthorityAssumption, LeastIn DEF Transaction
<1>5. \A d \in Others(c) : u \notin tx[d].update \cup tx[d].share
  BY <1>1, <1>2, NobodyHolds
<1> HIDE DEF s, u
<1>6. /\ t \in Transaction
      /\ t.pc = "lock" /\ t.req = s.req /\ t.games = s.games /\ t.found = s.found
      /\ t.wantGames = s.wantGames /\ t.wantUsers = s.wantUsers \ {u}
      /\ t.update = s.update \cup {u} /\ t.share = s.share
  BY <1>1, <1>3, <1>4 DEF Transaction
<1> HIDE DEF t
<1>7. Held(t)
  BY <1>1, <1>3, <1>4, <1>6 DEF Held
<1>8. Checked(world, t)
  BY <1>6 DEF Checked, Past
<1>9. \A d \in Others(c) : Apart(t, tx[d])
  BY <1>3, <1>5, <1>6 DEF Apart
<1>10. started' \in 0 .. MaxRequests
  BY <1>1 DEF IInv, TypeOK
<1> QED
  BY <1>1, <1>6, <1>7, <1>8, <1>9, <1>10, GoesOn

LEMMA ShareUserKeeps ==
  ASSUME IInv, NEW c \in Clients, ShareUser(c)
  PROVE  IInv'
<1> DEFINE s == tx[c]
           u == Least(s.wantShares)
           t == [s EXCEPT !.share = s.share \cup {u}, !.wantShares = s.wantShares \ {u}]
<1>1. /\ s.pc \in {"flush", "commit"} /\ s.wantShares # {} /\ WaitsFor(c) = {}
      /\ tx' = [tx EXCEPT ![c] = t] /\ world' = world /\ started' = started
  BY DEF ShareUser, Proceed, Become
<1>2. Running(c)
  BY <1>1 DEF Running
<1>3. /\ s \in Transaction /\ Held(s) /\ Checked(world, s)
      /\ \A d \in Others(c) : tx[d] \in Transaction /\ Apart(s, tx[d])
  BY <1>2, RunningFacts
<1>4. u \in s.wantShares /\ s.wantShares \subseteq Users
  BY <1>1, <1>3, AuthorityAssumption, LeastIn DEF Transaction
<1>5. \A d \in Others(c) : u \notin tx[d].update
  BY <1>1, <1>2, NobodyHolds
<1> HIDE DEF s, u
<1>6. /\ t \in Transaction
      /\ t.pc = s.pc /\ t.req = s.req /\ t.games = s.games /\ t.found = s.found
      /\ t.wantGames = s.wantGames /\ t.wantUsers = s.wantUsers /\ t.blocks = s.blocks
      /\ t.wantShares = s.wantShares \ {u}
      /\ t.update = s.update /\ t.share = s.share \cup {u}
  BY <1>1, <1>3, <1>4 DEF Transaction
<1> HIDE DEF t
<1>7. Held(t)
  BY <1>3, <1>6 DEF Held
<1>8. Checked(world, t)
  BY <1>3, <1>4, <1>6 DEF Checked, Past, BlocksAre
<1>9. \A d \in Others(c) : Apart(t, tx[d])
  BY <1>3, <1>5, <1>6 DEF Apart
<1>10. started' \in 0 .. MaxRequests
  BY <1>1 DEF IInv, TypeOK
<1> QED
  BY <1>1, <1>6, <1>7, <1>8, <1>9, <1>10, GoesOn

\* A transaction that keeps its locks stays apart from the others.
LEMMA SameLocks ==
  ASSUME NEW s, NEW t, NEW u, t.games = s.games, t.update = s.update, t.share = s.share,
         Apart(s, u)
  PROVE  Apart(t, u)
BY DEF Apart

\* With nothing left to lock, a transaction holds what it found.
LEMMA LockedHolds ==
  ASSUME IInv, NEW c \in Clients, Locked(c)
  PROVE  /\ Running(c)
         /\ tx[c].games = tx[c].found /\ tx[c].update = UsersToLock(tx[c].req)
         /\ tx[c].req.op # "deactivate" => tx[c].found = {tx[c].req.game}
<1>1. Running(c) /\ tx[c].pc = "lock" /\ tx[c].wantGames = {} /\ tx[c].wantUsers = {}
  BY DEF Locked, Running
<1>2. Held(tx[c])
  BY <1>1, RunningFacts
<1> QED
  BY <1>1, <1>2 DEF Held

LEMMA CheckCommandKeeps ==
  ASSUME IInv, NEW c \in Clients, CheckCommand(c)
  PROVE  IInv'
<1> DEFINE s == tx[c]
           t == [s EXCEPT !.pc = "commit"]
<1>1. CASE ~CommandAllowed(world, s.req)
  BY <1>1, Ends DEF CheckCommand, Refuse, Proceed, Become
<1>2. CASE CommandAllowed(world, s.req)
  <2>1. /\ Locked(c) /\ s.req.op \in Commands /\ CommandAuthorized(world, s.req)
        /\ tx' = [tx EXCEPT ![c] = t] /\ world' = world /\ started' = started
    BY <1>2 DEF CheckCommand, Proceed, Become, CommandAllowed
  <2>2. /\ s \in Transaction /\ Held(s) /\ s.wantGames = {} /\ s.wantUsers = {} /\ s.pc = "lock"
        /\ \A d \in Others(c) : tx[d] \in Transaction /\ Apart(s, tx[d])
    BY <2>1, RunningFacts, LockedHolds DEF Locked
  <2> HIDE DEF s
  <2>3. /\ t \in Transaction
        /\ t.pc = "commit" /\ t.req = s.req /\ t.games = s.games /\ t.found = s.found
        /\ t.wantGames = s.wantGames /\ t.wantUsers = s.wantUsers
        /\ t.update = s.update /\ t.share = s.share
    BY <2>2 DEF Transaction
  <2> HIDE DEF t
  <2>4. Held(t)
    BY <2>2, <2>3 DEF Held
  <2>5. Checked(world, t)
    BY <2>1, <2>3 DEF Checked, Administers, Commands, Grants
  <2>6. \A d \in Others(c) : Apart(t, tx[d])
    BY <2>2, <2>3, SameLocks
  <2>7. started' \in 0 .. MaxRequests
    BY <2>1 DEF IInv, TypeOK
  <2> QED
    BY <2>1, <2>3, <2>4, <2>5, <2>6, <2>7, GoesOn
<1> QED
  BY <1>1, <1>2

LEMMA CheckAdminKeeps ==
  ASSUME IInv, NEW c \in Clients, CheckAdmin(c)
  PROVE  IInv'
<1> DEFINE s == tx[c]
           shares == IF s.req.op \in Grants THEN {s.req.user, s.req.actor} ELSE {}
           t == [s EXCEPT !.pc = "flush", !.wantShares = shares]
<1>1. CASE ~AdminAllowed(world, s.req)
  BY <1>1, Ends DEF CheckAdmin, Refuse, Proceed, Become
<1>2. CASE AdminAllowed(world, s.req)
  <2>1. /\ Locked(c) /\ Administers(s.req)
        /\ tx' = [tx EXCEPT ![c] = t] /\ world' = world /\ started' = started
    BY <1>2 DEF CheckAdmin, Proceed, Become, Administers
  <2>2. /\ s \in Transaction /\ Held(s) /\ s.wantGames = {} /\ s.wantUsers = {} /\ s.pc = "lock"
        /\ \A d \in Others(c) : tx[d] \in Transaction /\ Apart(s, tx[d])
        /\ s.req \in Request /\ s.req.user \in Users /\ s.req.actor \in Users
    BY <2>1, RunningFacts, LockedHolds, RequestParts DEF Locked
  <2>3. Standing(world, s.req)
    BY <1>2, <2>1, <2>2, AdminStands DEF IInv, TypeOK
  <2> HIDE DEF s
  <2>4. shares \subseteq Users /\ (s.req.op \in Grants => s.req.user \in shares)
    BY <2>2
  <2> HIDE DEF shares
  <2>5. /\ t \in Transaction
        /\ t.pc = "flush" /\ t.req = s.req /\ t.games = s.games /\ t.found = s.found
        /\ t.wantGames = s.wantGames /\ t.wantUsers = s.wantUsers
        /\ t.update = s.update /\ t.share = s.share /\ t.wantShares = shares
    BY <2>2, <2>4 DEF Transaction
  <2> HIDE DEF t
  <2>6. Held(t)
    BY <2>2, <2>5 DEF Held
  <2>7. Checked(world, t)
    BY <2>1, <2>3, <2>4, <2>5 DEF Checked, Administers
  <2>8. \A d \in Others(c) : Apart(t, tx[d])
    BY <2>2, <2>5, SameLocks
  <2>9. started' \in 0 .. MaxRequests
    BY <2>1 DEF IInv, TypeOK
  <2> QED
    BY <2>1, <2>5, <2>6, <2>7, <2>8, <2>9, GoesOn
<1> QED
  BY <1>1, <1>2

LEMMA DiscoverKeeps ==
  ASSUME IInv, NEW c \in Clients, Discover(c)
  PROVE  IInv'
<1> DEFINE s == tx[c]
           found == GamesOf(world, s.req.user)
           t == Begin(s.req, "lock", found, s.tries)
<1>1. /\ s.pc = "discover"
      /\ tx' = [tx EXCEPT ![c] = t] /\ world' = world /\ started' = started
  BY DEF Discover, Proceed, Become
<1>2. s \in Transaction /\ Held(s)
  BY <1>1, RunningFacts DEF Running
<1>3. /\ s.req \in Request /\ s.tries \in 0 .. (Attempts - 1) /\ found \in SUBSET Games
      /\ s.req.op = "deactivate"
  BY <1>1, <1>2 DEF Transaction, Held, GamesOf
<1> HIDE DEF s, found
<1>4. t \in Transaction /\ Held(t) /\ Checked(world, t) /\ \A u : Apart(t, u)
  BY <1>3, BeginFacts
<1> HIDE DEF t
<1>5. started' \in 0 .. MaxRequests
  BY <1>1 DEF IInv, TypeOK
<1> QED
  BY <1>1, <1>4, <1>5, GoesOn

LEMMA CheckDeactivationKeeps ==
  ASSUME IInv, NEW c \in Clients, CheckDeactivation(c)
  PROVE  IInv'
<1> DEFINE s == tx[c]
<1>1. Locked(c) /\ s.req.op = "deactivate"
  BY DEF CheckDeactivation
<1>2. /\ s \in Transaction /\ Held(s) /\ s.wantGames = {} /\ s.wantUsers = {} /\ s.pc = "lock"
      /\ \A d \in Others(c) : tx[d] \in Transaction /\ Apart(s, tx[d])
      /\ s.games = s.found
  BY <1>1, RunningFacts, LockedHolds DEF Locked
<1>3. CASE ~GamesMoved(c) /\ Proceed(c, [s EXCEPT !.pc = "flush"])
  <2> DEFINE t == [s EXCEPT !.pc = "flush"]
  <2>1. /\ GamesOf(world, s.req.user) \subseteq s.games
        /\ tx' = [tx EXCEPT ![c] = t] /\ world' = world /\ started' = started
    BY <1>2, <1>3 DEF GamesMoved, Proceed, Become
  <2> HIDE DEF s
  <2>2. /\ t \in Transaction
        /\ t.pc = "flush" /\ t.req = s.req /\ t.games = s.games /\ t.found = s.found
        /\ t.wantGames = s.wantGames /\ t.wantUsers = s.wantUsers
        /\ t.update = s.update /\ t.share = s.share
    BY <1>2 DEF Transaction
  <2> HIDE DEF t
  <2>3. Held(t)
    BY <1>2, <2>2 DEF Held
  <2>4. Checked(world, t)
    BY <1>1, <2>1, <2>2 DEF Checked, Administers, Commands, Grants
  <2>5. \A d \in Others(c) : Apart(t, tx[d])
    BY <1>2, <2>2, SameLocks
  <2>6. started' \in 0 .. MaxRequests
    BY <2>1 DEF IInv, TypeOK
  <2> QED
    BY <2>1, <2>2, <2>3, <2>4, <2>5, <2>6, GoesOn
<1>4. CASE AttemptLeft(c) /\ Proceed(c, Begin(s.req, "discover", {}, s.tries + 1))
  <2> DEFINE t == Begin(s.req, "discover", {}, s.tries + 1)
  <2>1. tx' = [tx EXCEPT ![c] = t] /\ world' = world /\ started' = started
    BY <1>4 DEF Proceed, Become
  <2>2. s.req \in Request /\ s.tries + 1 \in 0 .. (Attempts - 1)
    BY <1>2, <1>4, AuthorityAssumption DEF Transaction, AttemptLeft
  <2> HIDE DEF s
  <2>3. t \in Transaction /\ Held(t) /\ Checked(world, t) /\ \A u : Apart(t, u)
    BY <1>1, <2>2, BeginFacts
  <2> HIDE DEF t
  <2>4. started' \in 0 .. MaxRequests
    BY <2>1 DEF IInv, TypeOK
  <2> QED
    BY <2>1, <2>3, <2>4, GoesOn
<1>5. CASE Refuse(c)
  BY <1>5, Ends DEF Refuse, Proceed, Become
<1> QED
  BY <1>3, <1>4, <1>5 DEF CheckDeactivation

LEMMA ReconcileKeeps ==
  ASSUME IInv, NEW c \in Clients, Reconcile(c)
  PROVE  IInv'
<1> DEFINE s == tx[c]
           w == After(world, s.req)
           blocks == {g \in s.games : ~HasActiveSubmitter(w, g)}
           told == UNION {Recipients(w, g) : g \in {h \in blocks : ~w.blocked[h]}}
           shares == (told \cup {s.req.actor}) \ s.update
           t == [s EXCEPT !.pc = "commit", !.blocks = blocks, !.wantShares = shares]
<1>1. /\ s.pc = "flush" /\ s.wantShares = {}
      /\ tx' = [tx EXCEPT ![c] = t] /\ world' = world /\ started' = started
  BY DEF Reconcile, Proceed, Become
<1>2. /\ s \in Transaction /\ Held(s) /\ Checked(world, s)
      /\ \A d \in Others(c) : tx[d] \in Transaction /\ Apart(s, tx[d])
      /\ s.req \in Request /\ s.req.actor \in Users /\ s.games \subseteq Games
  BY <1>1, RunningFacts, RequestParts DEF Running
<1>3. w \in World
  BY <1>2, AfterWritten DEF IInv, TypeOK
<1>4. blocks \subseteq Games
  BY <1>2
<1>5. shares \subseteq Users
  <2> HIDE DEF w
  <2>1. ASSUME NEW g \in Games PROVE Recipients(w, g) \subseteq Users
    <3>1. w.roles["game_admin"][g] \subseteq Users
      BY <1>3, WorldParts DEF Roles
    <3> QED
      BY <3>1, AuthorityAssumption DEF Recipients
  <2> QED
    BY <1>2, <1>4, <2>1
<1>6. blocks = {g \in s.games : ~HasActiveSubmitter(After(world, s.req), g)}
  OBVIOUS
<1> HIDE DEF s, w, blocks, told, shares
<1>7. /\ t \in Transaction
      /\ t.pc = "commit" /\ t.req = s.req /\ t.games = s.games /\ t.found = s.found
      /\ t.wantGames = s.wantGames /\ t.wantUsers = s.wantUsers /\ t.blocks = blocks
      /\ t.update = s.update /\ t.share = s.share
  BY <1>2, <1>4, <1>5 DEF Transaction
<1> HIDE DEF t
<1>8. Held(t)
  BY <1>1, <1>2, <1>7 DEF Held
<1>9. BlocksAre(world, t)
  BY <1>6, <1>7 DEF BlocksAre
<1>10. Checked(world, t)
  BY <1>1, <1>2, <1>7, <1>9 DEF Checked, Past
<1>11. \A d \in Others(c) : Apart(t, tx[d])
  BY <1>2, <1>7, SameLocks
<1>12. started' \in 0 .. MaxRequests
  BY <1>1 DEF IInv, TypeOK
<1> QED
  BY <1>1, <1>7, <1>8, <1>10, <1>11, <1>12, GoesOn

LEMMA CommitChanges ==
  ASSUME NEW c \in Clients, Commit(c)
  PROVE  /\ tx[c].pc = "commit" /\ Running(c)
         /\ tx' = [tx EXCEPT ![c] = Idle] /\ started' = started
         /\ tx[c].req.op \in Commands => world' = world
         /\ tx[c].req.op \notin Commands => world' = Committed(world, tx[c])
BY DEF Commit, Become, Committed, Running

LEMMA CommitKeeps ==
  ASSUME IInv, NEW c \in Clients, Commit(c)
  PROVE  IInv'
<1> DEFINE s == tx[c]
<1>1. /\ s.pc = "commit" /\ Running(c)
      /\ tx' = [tx EXCEPT ![c] = Idle] /\ started' = started
  BY CommitChanges
<1>2. /\ s \in Transaction /\ Held(s) /\ Checked(world, s) /\ s.req \in Request
      /\ \A d \in Others(c) : /\ tx[d] \in Transaction /\ Held(tx[d])
                              /\ Checked(world, tx[d]) /\ Apart(s, tx[d])
  BY <1>1, RunningFacts, RequestParts
<1>3. CASE s.req.op \in Commands
  BY <1>1, <1>3, CommitChanges, Ends
<1>4. CASE s.req.op \notin Commands
  <2>1. world' = Committed(world, s) /\ world \in World /\ Orderly(world)
    BY <1>4, CommitChanges DEF IInv, TypeOK
  <2> HIDE DEF s
  <2>2. world' \in World /\ Rows(world, s.req, world')
    BY <1>2, <2>1, CommittedRows
  <2>3. Administers(s.req) => Standing(world, s.req)
    BY <1>1, <1>2 DEF Checked, Past
  <2>4. Orderly(world')
    BY <1>2, <2>1, <2>2, <2>3, OrderlyAfter
  <2>5. ASSUME NEW g \in Games PROVE world'.blocked[g] <=> ~HasActiveSubmitter(world', g)
    <3>1. world.blocked[g] <=> ~HasActiveSubmitter(world, g)
      BY DEF IInv, BlockedIsTrue
    <3> QED
      BY <1>1, <1>2, <1>4, <2>1, <3>1, BlockedAfter
  <2>6. BlockedIsTrue'
    BY <2>5 DEF BlockedIsTrue
  <2>7. tx'[c] = Idle /\ \A d \in Clients \ {c} : tx'[d] = tx[d]
    BY <1>1 DEF IInv, TypeOK
  <2>8. TypeOK'
    BY <1>1, <2>2 DEF IInv, TypeOK
  <2>9. \A d \in Clients : Running(d)' => d \in Others(c) /\ tx'[d] = tx[d]
    BY <2>7 DEF Running, Others, Idle
  <2>10. ASSUME NEW d \in Others(c) PROVE Held(tx[d]) /\ Checked(world', tx[d])
    <3>1. Meets(world, s, world', tx[d])
      BY <1>1, <1>2, <2>1, <2>2 DEF Meets
    <3> QED
      BY <1>2, <3>1, Undisturbed
  <2>11. \A d \in Clients : Running(d)' => Held(tx'[d]) /\ Checked(world', tx'[d])
    BY <2>9, <2>10
  <2>12. \A d, e \in Clients : d # e /\ Running(d)' /\ Running(e)' => Apart(tx'[d], tx'[e])
    BY <2>9 DEF IInv, Others
  <2> QED
    BY <2>4, <2>6, <2>8, <2>11, <2>12 DEF IInv
<1> QED
  BY <1>3, <1>4

-----------------------------------------------------------------------------
(***************************************************************************)
(* The theorems.                                                           *)
(***************************************************************************)
LEMMA AtMostOne ==
  ASSUME NEW S, IsFiniteSet(S)
  PROVE  Cardinality(S) <= 1 <=> \A u, v \in S : u = v
<1>1. ASSUME Cardinality(S) <= 1, NEW u \in S, NEW v \in S, u # v PROVE FALSE
  <2>1. Cardinality({u}) = 1 /\ IsFiniteSet({u})
    BY FS_Singleton
  <2>2. Cardinality({u} \cup {v}) = 2
    BY <1>1, <2>1, FS_AddElement
  <2>3. Cardinality({u} \cup {v}) <= Cardinality(S)
    BY <1>1, FS_Subset
  <2> QED
    BY <1>1, <2>2, <2>3, FS_CardinalityType
<1>2. ASSUME \A u, v \in S : u = v PROVE Cardinality(S) <= 1
  <2>1. CASE S = {}
    BY <2>1, FS_EmptySet
  <2>2. CASE S # {}
    <3>1. PICK u : S = {u}
      BY <1>2, <2>2
    <3> QED
      BY <3>1, FS_Singleton
  <2> QED
    BY <2>1, <2>2
<1> QED
  BY <1>1, <1>2

LEMMA SubmittersFinite ==
  ASSUME NEW w, NEW g
  PROVE  IsFiniteSet(Submitters(w, g))
<1>1. IsFiniteSet(Users)
  BY AuthorityAssumption
<1>2. Submitters(w, g) \subseteq Users
  BY DEF Submitters
<1> QED
  BY <1>1, <1>2, FS_Subset

LEMMA InitInvariant == Init => IInv
<1> SUFFICES ASSUME Init PROVE IInv
  OBVIOUS
<1>1. world \in Worlds /\ world \in World /\ started \in 0 .. MaxRequests
  BY AuthorityAssumption DEF Init
<1>2. tx \in [Clients -> {Idle} \cup Transaction] /\ \A c \in Clients : ~Running(c)
  BY DEF Init, Running, Idle
<1>3. BlockedIsTrue
  BY <1>1, AuthorityAssumption DEF BlockedIsTrue
<1>4. ASSUME NEW g \in Games
      PROVE  /\ \A u \in Users : world.users[u] = "pending" => world.members[g][u] = "none"
             /\ \A u, v \in Submitters(world, g) : u = v
  <2>1. /\ Cardinality(Submitters(world, g)) <= 1
        /\ \A u \in Users : world.users[u] = "pending" => world.members[g][u] = "none"
    BY <1>1, AuthorityAssumption
  <2> QED
    BY <2>1, AtMostOne, SubmittersFinite
<1> QED
  BY <1>1, <1>2, <1>3, <1>4 DEF IInv, TypeOK, Orderly

LEMMA NextInvariant == IInv /\ [Next]_vars => IInv'
<1> SUFFICES ASSUME IInv, [Next]_vars PROVE IInv'
  OBVIOUS
<1>1. CASE UNCHANGED vars
  BY <1>1 DEF IInv, TypeOK, BlockedIsTrue, Running, vars
<1>2. ASSUME NEW c \in Clients, Abort(c) PROVE IInv'
  BY <1>2, Ends DEF Abort, Proceed, Become
<1> QED
  BY <1>1, <1>2, StartKeeps, DiscoverKeeps, LockGameKeeps, LockUserKeeps, ShareUserKeeps,
     CheckCommandKeeps, CheckAdminKeeps, CheckDeactivationKeeps, ReconcileKeeps, CommitKeeps
  DEF Next

\* The invariant holds in every reachable state.
THEOREM Invariance == Spec => []IInv
BY InitInvariant, NextInvariant, PTL DEF Spec

\* Every row, every lock set and every count is of its type: the sorted locks of a
\* transaction are of users and games there are, attempts stay within run_retryable's.
THEOREM AuthorityTypes == Spec => []TypeOK
<1>1. IInv => TypeOK
  BY DEF IInv
<1> QED
  BY <1>1, Invariance, PTL

\* A team is shown as blocked exactly while no active account is its submitter:
\* reconcile_team_state computes it before the commit from rows that the locks of the
\* game, of the users and of the flushed references keep as they were.
THEOREM BlockedStaysTrue == Spec => []BlockedIsTrue
<1>1. IInv => BlockedIsTrue
  BY DEF IInv
<1> QED
  BY <1>1, Invariance, PTL

\* A team never has two submitters, whoever grants, approves, changes or replaces.
THEOREM SubmitterIsOne == Spec => []OneSubmitter
<1>1. IInv => OneSubmitter
  BY AtMostOne, SubmittersFinite DEF IInv, Orderly, OneSubmitter
<1> QED
  BY <1>1, Invariance, PTL

\* Whoever commits a command or a replacement has the authority for it at that moment:
\* what was checked under the locks cannot have been taken away before the commit.
THEOREM CommitterAuthorized == Spec => CommitsAuthorized
<1>1. ASSUME IInv, NEW c \in Clients, Commit(c)
      PROVE  /\ tx[c].req.op \in Commands => CommandAuthorized(world, tx[c].req)
             /\ tx[c].req.op = "replace" => Active(world, tx[c].req.actor)
  <2>1. tx[c].pc = "commit" /\ Checked(world, tx[c])
    BY <1>1, CommitChanges, RunningFacts
  <2>2. tx[c].req.op = "replace" => Administers(tx[c].req)
    BY DEF Administers, Commands
  <2> QED
    BY <2>1, <2>2 DEF Checked, Past, Standing
<1>2. IInv => \A c \in Clients : Commit(c) =>
                /\ tx[c].req.op \in Commands => CommandAuthorized(world, tx[c].req)
                /\ tx[c].req.op = "replace" => Active(world, tx[c].req.actor)
  BY <1>1
<1> QED
  BY <1>2, Invariance, PTL DEF CommitsAuthorized

\* A game administrator's removal of one leaves another whose account is active, although
\* the account of that other is not locked: its deactivation would need the game.
THEOREM AdminRemains == Spec => RemovalLeavesAdmin
<1>1. ASSUME IInv, NEW c \in Clients, Commit(c),
             tx[c].req.op = "remove_role", tx[c].req.role = "game_admin",
             tx[c].req.actor \notin SystemAdmins
      PROVE  \E u \in world'.roles["game_admin"][tx[c].req.game] : Active(world', u)
  <2> DEFINE s == tx[c]
             q == s.req
  <2>1. /\ s \in Transaction /\ s.pc = "commit" /\ Checked(world, s) /\ world \in World
        /\ q.game \in Games /\ world' = Committed(world, s)
    BY <1>1, CommitChanges, RunningFacts, RequestParts DEF Commands, IInv, TypeOK
  <2>2. Rows(world, q, world')
    BY <2>1, CommittedRows
  <2>3. OtherActiveAdmin(world, q.game, q.user)
    BY <1>1, <2>1 DEF Checked, Past, Administers, Commands, Standing
  <2> HIDE DEF q
  <2>4. PICK v \in world.roles["game_admin"][q.game] \ {q.user} : Active(world, v)
    BY <2>3 DEF OtherActiveAdmin
  <2>5. "game_admin" \in Roles /\ v \in Users
    BY <2>1, <2>4, WorldParts DEF Roles
  <2>6. world'.roles["game_admin"][q.game] = HoldersAfter(world, q, "game_admin", q.game)
    BY <2>1, <2>2, <2>5 DEF Rows
  <2>7. v \in world'.roles["game_admin"][q.game]
    BY <2>4, <2>6 DEF HoldersAfter
  <2>8. world'.users[v] = StatusAfter(world, q, v)
    BY <2>2, <2>5 DEF Rows
  <2>9. Active(world', v)
    BY <2>4, <2>8 DEF Active, StatusAfter
  <2> QED
    BY <2>7, <2>9 DEF q
<1>2. IInv => \A c \in Clients :
         /\ Commit(c)
         /\ tx[c].req.op = "remove_role" /\ tx[c].req.role = "game_admin"
         /\ tx[c].req.actor \notin SystemAdmins
         => \E u \in world'.roles["game_admin"][tx[c].req.game] : Active(world', u)
  BY <1>1
<1> QED
  BY <1>2, Invariance, PTL DEF RemovalLeavesAdmin
=============================================================================
