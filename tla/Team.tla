-------------------------------- MODULE Team --------------------------------
(***************************************************************************)
(* People, their sessions, and the members of their businesses.            *)
(*                                                                         *)
(* A session is a family of refresh tokens: refreshing replaces a token,   *)
(* and a token that is shown again after it was replaced ends the family.  *)
(* An owner invites people, changes roles and deactivates members; a       *)
(* person who is invited accepts and gets a session.                       *)
(*                                                                         *)
(* No handler holds a lock while it reads and checks: each await is a step *)
(* of its own, and every write is one statement or transaction.  A person  *)
(* and the address that is invited are the same.                           *)
(***************************************************************************)
EXTENDS Integers, FiniteSets

CONSTANTS
  People,      \* users, registered or not
  Businesses,  \* identifiers of businesses
  Rows,        \* identifiers of members
  Tokens,      \* identifiers of refresh tokens
  Staff,       \* the staff members of a business
  NoOne,       \* none of the people, rows, tokens and staff members
  Roles,       \* the roles that owners give
  Observed,    \* people whose sessions are followed; nothing joins the
               \* sessions of two people
  Requests     \* requests that may be in flight together

ASSUME NoOneAssumption ==
  NoOne \notin People \cup Businesses \cup Rows \cup Tokens \cup Staff
ASSUME RolesAssumption ==
  Roles \subseteq {"owner", "receptionist", "professional"}
ASSUME ObservedAssumption == Observed \subseteq People

VARIABLES
  account,   \* who is registered
  token,     \* rows of refresh tokens
  owner,     \* who has created each business
  member,    \* rows of members
  request,   \* what each request in flight has read
  forked     \* families in which one token was replaced twice

sessions == <<token, forked>>
team == <<owner, member>>
vars == <<account, sessions, team, request>>

NoToken ==
  [family |-> NoOne, of |-> NoOne, revoked |-> FALSE, expired |-> FALSE]
NoRow == [at |-> NoOne, person |-> NoOne, joined |-> FALSE, role |-> "none",
          status |-> "none", active |-> FALSE, staff |-> NoOne,
          invite |-> "none"]
Idle == [step |-> "idle"]

Issued(t) == token[t].family # NoOne
Live(t) == Issued(t) /\ ~token[t].revoked
Family(f) == {t \in Tokens : token[t].family = f}
Alive(f) == {t \in Family(f) : Live(t)}

RowsAt(b) == {r \in Rows : member[r].at = b}

\* The rows by which a person is a member; deactivated ones belong to it.
Joined(b, p) == {r \in RowsAt(b) : member[r].joined /\ member[r].person = p}

At(h, step) == request[h].step = step
Set(h, r) == request' = [request EXCEPT ![h] = r]
Session(p) ==
  IF p \in Observed THEN [step |-> "session", person |-> p] ELSE Idle
-----------------------------------------------------------------------------
Init ==
  /\ account = [p \in People |-> FALSE]
  /\ token = [t \in Tokens |-> NoToken]
  /\ owner = [b \in Businesses |-> NoOne]
  /\ member = [r \in Rows |-> NoRow]
  /\ request = [h \in Requests |-> Idle]
  /\ forked = {}
-----------------------------------------------------------------------------
(* Sessions                                                                *)

\* The address is unique: a second registration fails.
Register(h, p) ==
  /\ At(h, "idle") /\ ~account[p]
  /\ account' = [account EXCEPT ![p] = TRUE]
  /\ Set(h, Session(p))
  /\ UNCHANGED <<sessions, team>>

Login(h, p) ==
  /\ At(h, "idle") /\ account[p]
  /\ Set(h, Session(p))
  /\ UNCHANGED <<account, sessions, team>>

New(f, p) == [family |-> f, of |-> p, revoked |-> FALSE, expired |-> FALSE]

CreateSession(h, t) ==
  /\ At(h, "session") /\ ~Issued(t)
  /\ token' = [token EXCEPT ![t] = New(t, request[h].person)]
  /\ Set(h, Idle)
  /\ UNCHANGED <<account, forked, team>>

\* Mutant of Refresh: it is not noticed that a token was replaced.
RefreshAny(h, t) ==
  /\ At(h, "idle") /\ Issued(t) /\ ~token[t].expired
  /\ Set(h, [step |-> "rotate", token |-> t])
  /\ UNCHANGED <<account, sessions, team>>

\* The row of the token is read before anything is written.
Refresh(h, t) ==
  /\ At(h, "idle") /\ Issued(t) /\ ~token[t].expired
  /\ Set(h, [step |-> IF token[t].revoked THEN "reuse" ELSE "rotate",
             token |-> t])
  /\ UNCHANGED <<account, sessions, team>>

RevokeFamily(h) ==
  /\ At(h, "reuse")
  /\ token' = [t \in Tokens |->
       IF token[t].family = token[request[h].token].family
         THEN [token[t] EXCEPT !.revoked = TRUE]
         ELSE token[t]]
  /\ Set(h, Idle)
  /\ UNCHANGED <<account, forked, team>>

\* Mutant of Rotate: the token that is replaced stays valid.
RotateOnly(h, n) ==
  /\ At(h, "rotate") /\ ~Issued(n)
  /\ LET old == token[request[h].token]
     IN  /\ token' = [token EXCEPT ![n] = New(old.family, old.of)]
         /\ forked' = forked \cup (IF old.revoked THEN {old.family} ELSE {})
  /\ Set(h, Idle)
  /\ UNCHANGED <<account, team>>

\* One transaction; the old token is not looked at again.
Rotate(h, n) ==
  /\ At(h, "rotate") /\ ~Issued(n)
  /\ LET old == token[request[h].token]
     IN  /\ token' = [token EXCEPT ![request[h].token].revoked = TRUE,
                                   ![n] = New(old.family, old.of)]
         /\ forked' = forked \cup (IF old.revoked THEN {old.family} ELSE {})
  /\ Set(h, Idle)
  /\ UNCHANGED <<account, team>>

Logout(t) ==
  /\ Live(t)
  /\ token' = [token EXCEPT ![t].revoked = TRUE]
  /\ UNCHANGED <<account, forked, team, request>>

ExpireToken(t) ==
  /\ Issued(t) /\ ~token[t].expired
  /\ token' = [token EXCEPT ![t].expired = TRUE]
  /\ UNCHANGED <<account, forked, team, request>>
-----------------------------------------------------------------------------
(* Businesses and their members                                            *)

Owned(p) == {b \in Businesses : owner[b] = p}
Memberships(p) ==
  {r \in Rows : member[r].joined /\ member[r].person = p /\ member[r].active}

StartCreate(h, p) ==
  /\ At(h, "idle") /\ account[p]
  /\ Owned(p) = {} /\ Memberships(p) = {}
  /\ Set(h, [step |-> "create", person |-> p])
  /\ UNCHANGED <<account, sessions, team>>

Row(b, p, role, staff) ==
  [at |-> b, person |-> p, joined |-> TRUE, role |-> role, status |-> "active",
   active |-> TRUE, staff |-> staff, invite |-> "none"]

\* One transaction: the business and its owner.
CreateBusiness(h, b, r) ==
  /\ At(h, "create") /\ owner[b] = NoOne /\ member[r] = NoRow
  /\ owner' = [owner EXCEPT ![b] = request[h].person]
  /\ member' = [member EXCEPT ![r] = Row(b, request[h].person, "owner", NoOne)]
  /\ Set(h, Idle)
  /\ UNCHANGED <<account, sessions>>

\* The guards of the endpoints for owners: some active membership of the
\* person decides on the business and the role.
Enter(h, r) ==
  /\ At(h, "idle")
  /\ member[r].joined /\ member[r].active /\ member[r].role = "owner"
  /\ Set(h, [step |-> "entered", at |-> member[r].at])
  /\ UNCHANGED <<account, sessions, team>>

\* Invitations that are pending do not count.
Linked(b, s) ==
  \E r \in RowsAt(b) : member[r].staff = s /\ member[r].joined

Pending(b, p) == {r \in RowsAt(b) : member[r].person = p /\ ~member[r].joined}

\* What inviteMember reads; refusals end the request.
ReadInvite(h, p, role, s) ==
  LET b == request[h].at
      Decide(step, r) == Set(h, [step |-> step, at |-> b, person |-> p,
                                 role |-> role, staff |-> s, row |-> r])
  IN  /\ At(h, "entered")
      /\ s # NoOne => ~Linked(b, s)
      /\ \/ /\ account[p] /\ Joined(b, p) = {}
            /\ Decide("add", NoOne)
         \/ \E r \in Joined(b, p) :
              account[p] /\ ~member[r].active /\ Decide("readd", r)
         \/ /\ ~account[p] /\ Pending(b, p) = {}
            /\ Decide("invite", NoOne)
      /\ UNCHANGED <<account, sessions, team>>

\* A person has at most one row of a business (a unique key).
AddMember(h, r) ==
  LET q == request[h]
  IN  /\ At(h, "add") /\ member[r] = NoRow
      /\ Joined(q.at, q.person) = {}
      /\ member' = [member EXCEPT ![r] = Row(q.at, q.person, q.role, q.staff)]
      /\ Set(h, Idle)
      /\ UNCHANGED <<account, sessions, owner>>

\* Mutant of ReAddMember: the status stays that of a deactivated member.
ReAddActive(h) ==
  LET q == request[h]
  IN  /\ At(h, "readd")
      /\ member' = [member EXCEPT ![q.row] =
           [@ EXCEPT !.active = TRUE, !.role = q.role, !.staff = q.staff]]
      /\ Set(h, Idle)
      /\ UNCHANGED <<account, sessions, owner>>

ReAddMember(h) ==
  LET q == request[h]
  IN  /\ At(h, "readd")
      /\ member' = [member EXCEPT ![q.row] =
           [@ EXCEPT !.active = TRUE, !.status = "active", !.role = q.role,
                     !.staff = q.staff]]
      /\ Set(h, Idle)
      /\ UNCHANGED <<account, sessions, owner>>

CreateInvite(h, r) ==
  LET q == request[h]
  IN  /\ At(h, "invite") /\ member[r] = NoRow
      /\ member' = [member EXCEPT ![r] =
           [Row(q.at, q.person, q.role, q.staff) EXCEPT
              !.joined = FALSE, !.active = FALSE, !.status = "pending",
              !.invite = "open"]]
      /\ Set(h, Idle)
      /\ UNCHANGED <<account, sessions, owner>>

ExpireInvite(r) ==
  /\ member[r].invite = "open"
  /\ member' = [member EXCEPT ![r].invite = "expired"]
  /\ UNCHANGED <<account, sessions, owner, request>>

ReadMember(h, r, next) ==
  /\ At(h, "entered") /\ r \in RowsAt(request[h].at)
  /\ Set(h, [step |-> next, row |-> r])
  /\ UNCHANGED <<account, sessions, team>>

\* Mutant of ReadChange: the row of an owner is not refused.
ReadChangeAny(h, r, next) == ReadMember(h, r, next)

\* changeMemberRole and deactivateMember refuse the row of an owner.
ReadChange(h, r, next) ==
  /\ member[r].role # "owner"
  /\ ReadMember(h, r, next)

\* The update looks at the identifier of the row alone.
ChangeRole(h, role) ==
  /\ At(h, "role")
  /\ member' = [member EXCEPT ![request[h].row] = [@ EXCEPT !.role = role]]
  /\ Set(h, Idle)
  /\ UNCHANGED <<account, sessions, owner>>

\* An invitation that is deactivated can still be accepted.
Deactivate(h) ==
  /\ At(h, "deactivate")
  /\ member' = [member EXCEPT ![request[h].row] =
       [@ EXCEPT !.active = FALSE, !.status = "inactive"]]
  /\ Set(h, Idle)
  /\ UNCHANGED <<account, sessions, owner>>

Accept(h, r) ==
  /\ At(h, "idle")
  /\ member[r].invite = "open" /\ ~member[r].joined
  /\ Set(h, [step |-> IF account[member[r].person] THEN "join" ELSE "sign up",
             row |-> r])
  /\ UNCHANGED <<account, sessions, team>>

SignUp(h) ==
  LET p == member[request[h].row].person
  IN  /\ At(h, "sign up") /\ ~account[p]
      /\ account' = [account EXCEPT ![p] = TRUE]
      /\ Set(h, [step |-> "join", row |-> request[h].row])
      /\ UNCHANGED <<sessions, team>>

\* The rows that the unique key sets against joining by a row.
Others(r) == Joined(member[r].at, member[r].person) \ {r}

\* The row may have been accepted, or deactivated, since it was read.
Join(h) ==
  LET r == request[h].row
  IN  /\ At(h, "join") /\ Others(r) = {}
      /\ member' = [member EXCEPT ![r] =
           [@ EXCEPT !.active = TRUE, !.status = "active", !.joined = TRUE,
                     !.invite = "none"]]
      /\ Set(h, Session(member[r].person))
      /\ UNCHANGED <<account, sessions, owner>>
-----------------------------------------------------------------------------
\* A check refuses, a unique key is violated, a query fails or the API dies.
Fail(h) ==
  /\ ~At(h, "idle")
  /\ Set(h, Idle)
  /\ UNCHANGED <<account, sessions, team>>

UseSession ==
  \/ \E h \in Requests, p \in People : Register(h, p) \/ Login(h, p)
  \/ \E h \in Requests, t \in Tokens : CreateSession(h, t) \/ Refresh(h, t)
  \/ \E h \in Requests : RevokeFamily(h)
  \/ \E h \in Requests, t \in Tokens : Rotate(h, t)
  \/ \E t \in Tokens : Logout(t) \/ ExpireToken(t)

ManageTeam ==
  \/ \E h \in Requests, p \in People : StartCreate(h, p)
  \/ \E h \in Requests, b \in Businesses, r \in Rows : CreateBusiness(h, b, r)
  \/ \E h \in Requests, p \in People, role \in Roles,
        s \in Staff \cup {NoOne} : ReadInvite(h, p, role, s)
  \/ \E h \in Requests, r \in Rows : AddMember(h, r) \/ CreateInvite(h, r)
  \/ \E h \in Requests : ReAddMember(h) \/ Deactivate(h)
  \/ \E h \in Requests, r \in Rows :
       \/ Enter(h, r)
       \/ \E next \in {"role", "deactivate"} : ReadChange(h, r, next)
  \/ \E h \in Requests, role \in Roles : ChangeRole(h, role)

Answer ==
  \/ \E h \in Requests, r \in Rows : Accept(h, r)
  \/ \E h \in Requests : SignUp(h) \/ Join(h)
  \/ \E r \in Rows : ExpireInvite(r)

Next ==
  \/ UseSession
  \/ ManageTeam
  \/ Answer
  \/ \E h \in Requests : Fail(h)

Spec == Init /\ [][Next]_vars
-----------------------------------------------------------------------------
(* Properties                                                              *)

\* A session can be refreshed by one token at a time, unless requests that
\* replaced the same token have overlapped.
OneTokenPerSession ==
  \A f \in Tokens \ forked : Cardinality(Alive(f)) <= 1

\* A session ends when its token is given up by logging out, or all of them
\* are because a replaced one was shown again.  Once it has ended and no
\* request that replaces one of its tokens is past its check, that is final:
\* none of its tokens can be replaced or is valid again.
Ended(f) ==
  /\ Family(f) # {} /\ Alive(f) = {}
  /\ ~\E h \in Requests : At(h, "rotate") /\ request[h].token \in Family(f)

EndedStaysEnded == [][\A f \in Tokens : Ended(f) => Ended(f)']_vars

\* Whatever owners do to one another at the same time, the person who has
\* created a business stays an active owner of it.
FounderStays ==
  \A b \in Businesses : owner[b] # NoOne =>
    \E r \in Joined(b, owner[b]) : member[r].active /\ member[r].role = "owner"

\* A person is a member of a business once, by a row that either stands for
\* an open account or is an invitation; and the two marks of a member that is
\* in the team agree, for one of them decides what guards allow and the other
\* what the team's page shows.
MembersAgree ==
  \A r \in Rows : member[r].at # NoOne =>
    /\ member[r].active <=> member[r].status = "active"
    /\ member[r].active => member[r].joined
    /\ member[r].joined => account[member[r].person]
    /\ member[r].joined => Joined(member[r].at, member[r].person) = {r}
=============================================================================
