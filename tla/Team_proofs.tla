----------------------------- MODULE Team_proofs -----------------------------
(***************************************************************************)
(* Proofs about Team, for every set of people, businesses, rows, tokens    *)
(* and requests in flight.  The sessions and the members are independent   *)
(* of one another: each has an invariant of its own.                       *)
(***************************************************************************)
EXTENDS Team, FiniteSetTheorems, TLAPS

Token == [family : Tokens \cup {NoOne}, of : People \cup {NoOne},
          revoked : BOOLEAN, expired : BOOLEAN]

SessionRequest ==
  [step : {"idle"}] \cup [step : {"session"}, person : People]
    \cup [step : {"rotate", "reuse"}, token : Tokens]

Place == Businesses \cup {NoOne}

Member ==
  [at : Place, person : People \cup {NoOne},
   joined : BOOLEAN, role : Roles \cup {"owner", "none"},
   status : {"none", "pending", "active", "inactive"}, active : BOOLEAN,
   staff : Staff \cup {NoOne}, invite : {"none", "open", "expired"}]

TeamRequest ==
  [step : {"create"}, person : People]
    \cup [step : {"entered"}, at : Place]
    \cup [step : {"add", "invite"}, at : Place, person : People,
          role : Roles, staff : Staff \cup {NoOne}, row : {NoOne}]
    \cup [step : {"readd"}, at : Place, person : People,
          role : Roles, staff : Staff \cup {NoOne}, row : Rows]
    \cup [step : {"role", "deactivate", "join", "sign up"}, row : Rows]

\* Every variable that steps look at stays in its set.
Typed ==
  /\ account \in [People -> BOOLEAN]
  /\ token \in [Tokens -> Token]
  /\ owner \in [Businesses -> People \cup {NoOne}]
  /\ member \in [Rows -> Member]
  /\ request \in [Requests -> SessionRequest \cup TeamRequest]

LEMMA SessionFacts ==
  ASSUME Typed, NEW h \in Requests
  PROVE  /\ At(h, "session") => request[h].person \in People
         /\ At(h, "rotate") \/ At(h, "reuse") => request[h].token \in Tokens
BY DEF Typed, SessionRequest, TeamRequest, At

LEMMA TeamFacts ==
  ASSUME Typed, NEW h \in Requests
  PROVE  /\ At(h, "create") => request[h].person \in People
         /\ At(h, "entered") => request[h].at \in Place
         /\ At(h, "add") \/ At(h, "readd") \/ At(h, "invite")
              => /\ request[h].at \in Place
                 /\ request[h].person \in People
                 /\ request[h].role \in Roles
                 /\ request[h].staff \in Staff \cup {NoOne}
         /\ At(h, "readd") \/ At(h, "role") \/ At(h, "deactivate")
              => request[h].row \in Rows
         /\ At(h, "join") \/ At(h, "sign up") => request[h].row \in Rows
BY DEF Typed, SessionRequest, TeamRequest, At

\* What a step does to the request that takes it.
LEMMA SetTyped ==
  ASSUME Typed, NEW h \in Requests, NEW r \in SessionRequest \cup TeamRequest,
         Set(h, r)
  PROVE  /\ request' \in [Requests -> SessionRequest \cup TeamRequest]
         /\ request'[h] = r
         /\ \A g \in Requests \ {h} : request'[g] = request[g]
BY DEF Typed, Set

LEMMA IdleTyped ==
  /\ Idle \in SessionRequest
  /\ \A p \in People : Session(p) \in SessionRequest
BY DEF Idle, Session, SessionRequest

LEMMA InitTyped == Init => Typed
BY DEF Init, Typed, Token, NoToken, Member, NoRow, Place, Idle, SessionRequest

LEMMA UseSessionTyped == ASSUME Typed, UseSession PROVE Typed'
<1>1. ASSUME NEW h \in Requests, NEW p \in People, Register(h, p) \/ Login(h, p)
      PROVE  Typed'
  BY <1>1, SetTyped, IdleTyped
  DEF Register, Login, Typed, sessions, team
<1>2. ASSUME NEW h \in Requests, NEW t \in Tokens, CreateSession(h, t)
      PROVE  Typed'
  <2>1. request[h].person \in People
    BY <1>2, SessionFacts DEF CreateSession
  <2> QED
    BY <1>2, <2>1, SetTyped, IdleTyped
    DEF CreateSession, New, Token, Typed, team
<1>3. ASSUME NEW h \in Requests, NEW t \in Tokens, Refresh(h, t)
      PROVE  Typed'
  <2>1. [step |-> IF token[t].revoked THEN "reuse" ELSE "rotate", token |-> t]
          \in SessionRequest
    BY DEF SessionRequest
  <2> QED
    BY <1>3, <2>1, SetTyped DEF Refresh, Typed, sessions, team
<1>4. ASSUME NEW h \in Requests, RevokeFamily(h) PROVE Typed'
  <2>1. \A t \in Tokens : [token[t] EXCEPT !.revoked = TRUE] \in Token
    BY DEF Typed, Token
  <2> QED
    BY <1>4, <2>1, SetTyped, IdleTyped DEF RevokeFamily, Typed, team
<1>5. ASSUME NEW h \in Requests, NEW n \in Tokens, Rotate(h, n) PROVE Typed'
  <2> DEFINE t == request[h].token
  <2>1. t \in Tokens
    BY <1>5, SessionFacts DEF Rotate
  <2>2. /\ [token[t] EXCEPT !.revoked = TRUE] \in Token
        /\ New(token[t].family, token[t].of) \in Token
    BY <2>1 DEF Typed, Token, New
  <2>3. token' \in [Tokens -> Token]
    BY <1>5, <2>1, <2>2 DEF Rotate, Typed
  <2> QED
    BY <1>5, <2>3, SetTyped, IdleTyped DEF Rotate, Typed, team
<1>6. ASSUME NEW t \in Tokens, Logout(t) \/ ExpireToken(t) PROVE Typed'
  BY <1>6, ZenonT(40) DEF Logout, ExpireToken, Typed, Token, team
<1> QED
  BY <1>1, <1>2, <1>3, <1>4, <1>5, <1>6 DEF UseSession

\* Only a row changes, and a request that goes on as it may.
LEMMA RowTyped ==
  ASSUME Typed, NEW r \in Rows, NEW m \in Member,
         member' = [member EXCEPT ![r] = m], UNCHANGED <<account, token, owner>>,
         request' \in [Requests -> SessionRequest \cup TeamRequest]
  PROVE  Typed'
BY DEF Typed

LEMMA ManageTeamTyped == ASSUME Typed, ManageTeam PROVE Typed'
<1>1. ASSUME NEW h \in Requests, NEW p \in People, StartCreate(h, p)
      PROVE  Typed'
  <2>1. [step |-> "create", person |-> p] \in TeamRequest
    BY DEF TeamRequest
  <2> QED
    BY <1>1, <2>1, SetTyped DEF StartCreate, Typed, sessions, team
<1>2. ASSUME NEW h \in Requests, NEW b \in Businesses, NEW r \in Rows,
             CreateBusiness(h, b, r)
      PROVE  Typed'
  <2>1. request[h].person \in People
    BY <1>2, TeamFacts DEF CreateBusiness
  <2>2. Row(b, request[h].person, "owner", NoOne) \in Member
    BY <2>1 DEF Row, Member, Place
  <2> QED
    BY <1>2, <2>1, <2>2, SetTyped, IdleTyped
    DEF CreateBusiness, Typed, sessions
<1>3. ASSUME NEW h \in Requests, NEW p \in People, NEW role \in Roles,
             NEW s \in Staff \cup {NoOne}, ReadInvite(h, p, role, s)
      PROVE  Typed'
  <2>1. request[h].at \in Place
    BY <1>3, TeamFacts DEF ReadInvite
  <2> DEFINE Asked(step, r) == [step |-> step, at |-> request[h].at,
               person |-> p, role |-> role, staff |-> s, row |-> r]
  <2>2. /\ Asked("add", NoOne) \in TeamRequest
        /\ Asked("invite", NoOne) \in TeamRequest
        /\ \A r \in Rows : Asked("readd", r) \in TeamRequest
    BY <2>1 DEF TeamRequest
  <2>3. \/ Set(h, Asked("add", NoOne)) \/ Set(h, Asked("invite", NoOne))
        \/ \E r \in Rows : Set(h, Asked("readd", r))
    BY <1>3 DEF ReadInvite, Joined, RowsAt
  <2> HIDE DEF Asked
  <2> QED
    BY <1>3, <2>2, <2>3, SetTyped DEF ReadInvite, Typed, sessions, team
<1>4. ASSUME NEW h \in Requests, NEW r \in Rows,
             AddMember(h, r) \/ CreateInvite(h, r)
      PROVE  Typed'
  <2> DEFINE q == request[h]
             m == Row(q.at, q.person, q.role, q.staff)
             i == [m EXCEPT !.joined = FALSE, !.active = FALSE,
                            !.status = "pending", !.invite = "open"]
  <2>1. m \in Member /\ i \in Member
    BY <1>4, TeamFacts DEF AddMember, CreateInvite, Row, Member
  <2>2. PICK n \in {m, i} : member' = [member EXCEPT ![r] = n]
    BY <1>4 DEF AddMember, CreateInvite
  <2> HIDE DEF m, i
  <2> QED
    BY <1>4, <2>1, <2>2, SetTyped, IdleTyped, RowTyped
    DEF AddMember, CreateInvite, sessions
<1>5. ASSUME NEW h \in Requests, ReAddMember(h) PROVE Typed'
  <2> DEFINE q == request[h]
             m == [member[q.row] EXCEPT !.active = TRUE, !.status = "active",
                                        !.role = q.role, !.staff = q.staff]
  <2>1. /\ q.row \in Rows /\ q.role \in Roles
        /\ q.staff \in Staff \cup {NoOne}
    BY <1>5, TeamFacts DEF ReAddMember
  <2>2. m \in Member
    <3>1. member[q.row] \in Member
      BY <2>1 DEF Typed
    <3> QED
      BY <2>1, <3>1 DEF Member
  <2> QED
    BY <1>5, <2>1, <2>2, SetTyped, IdleTyped, RowTyped
    DEF ReAddMember, sessions
<1>6. ASSUME NEW h \in Requests, NEW r \in Rows, Enter(h, r) PROVE Typed'
  <2>1. [step |-> "entered", at |-> member[r].at] \in TeamRequest
    BY DEF TeamRequest, Typed, Member
  <2> QED
    BY <1>6, <2>1, SetTyped DEF Enter, Typed, sessions, team
<1>7. ASSUME NEW h \in Requests, NEW r \in Rows,
             NEW next \in {"role", "deactivate"}, ReadChange(h, r, next)
      PROVE  Typed'
  <2>1. [step |-> next, row |-> r] \in TeamRequest
    BY DEF TeamRequest
  <2> QED
    BY <1>7, <2>1, SetTyped DEF ReadChange, ReadMember, Typed, sessions, team
<1>8. ASSUME NEW h \in Requests, NEW role \in Roles, ChangeRole(h, role)
      PROVE  Typed'
  <2>1. request[h].row \in Rows
    BY <1>8, TeamFacts DEF ChangeRole
  <2>2. [member[request[h].row] EXCEPT !.role = role] \in Member
    BY <2>1 DEF Typed, Member
  <2> QED
    BY <1>8, <2>1, <2>2, SetTyped, IdleTyped, RowTyped
    DEF ChangeRole, sessions
<1>9. ASSUME NEW h \in Requests, Deactivate(h) PROVE Typed'
  <2>1. request[h].row \in Rows
    BY <1>9, TeamFacts DEF Deactivate
  <2>2. [member[request[h].row] EXCEPT !.active = FALSE, !.status = "inactive"]
          \in Member
    <3>1. member[request[h].row] \in Member
      BY <2>1 DEF Typed
    <3> QED
      BY <3>1 DEF Member
  <2> QED
    BY <1>9, <2>1, <2>2, SetTyped, IdleTyped, RowTyped
    DEF Deactivate, sessions
<1> QED
  BY <1>1, <1>2, <1>3, <1>4, <1>5, <1>6, <1>7, <1>8, <1>9
  DEF ManageTeam

LEMMA AnswerTyped == ASSUME Typed, Answer PROVE Typed'
<1>1. ASSUME NEW h \in Requests, NEW r \in Rows, Accept(h, r) PROVE Typed'
  <2>1. [step |-> IF account[member[r].person] THEN "join" ELSE "sign up",
         row |-> r] \in TeamRequest
    BY DEF TeamRequest
  <2> QED
    BY <1>1, <2>1, SetTyped DEF Accept, Typed, sessions, team
<1>2. ASSUME NEW h \in Requests, SignUp(h) PROVE Typed'
  <2>1. request[h].row \in Rows
    BY <1>2, TeamFacts DEF SignUp
  <2>2. [step |-> "join", row |-> request[h].row] \in TeamRequest
    BY <2>1 DEF TeamRequest
  <2> QED
    BY <1>2, <2>2, SetTyped DEF SignUp, Typed, sessions, team
<1>3. ASSUME NEW h \in Requests, Join(h) PROVE Typed'
  <2> DEFINE r == request[h].row
             m == [member[r] EXCEPT !.active = TRUE, !.status = "active",
                                    !.joined = TRUE, !.invite = "none"]
  <2>1. r \in Rows
    BY <1>3, TeamFacts DEF Join
  <2>2. m \in Member
    <3>1. member[r] \in Member
      BY <2>1 DEF Typed
    <3> QED
      BY <3>1 DEF Member
  <2>3. Session(member[r].person) \in SessionRequest
    BY <2>1, ObservedAssumption DEF Session, Idle, SessionRequest
  <2> QED
    BY <1>3, <2>1, <2>2, <2>3, SetTyped, RowTyped DEF Join, sessions
<1>4. ASSUME NEW r \in Rows, ExpireInvite(r) PROVE Typed'
  <2>1. [member[r] EXCEPT !.invite = "expired"] \in Member
    BY DEF Typed, Member
  <2> QED
    BY <1>4, <2>1, RowTyped DEF ExpireInvite, sessions, Typed
<1> QED
  BY <1>1, <1>2, <1>3, <1>4 DEF Answer

LEMMA NextTyped == Typed /\ [Next]_vars => Typed'
<1> SUFFICES ASSUME Typed, [Next]_vars PROVE Typed'
  OBVIOUS
<1>1. ASSUME NEW h \in Requests, Fail(h) PROVE Typed'
  BY <1>1, SetTyped, IdleTyped DEF Fail, Typed, sessions, team
<1>2. CASE UNCHANGED vars
  BY <1>2 DEF vars, sessions, team, Typed
<1> QED
  BY <1>1, <1>2, UseSessionTyped, ManageTeamTyped, AnswerTyped DEF Next
-----------------------------------------------------------------------------
(* Sessions                                                                *)

Replaces(h) == At(h, "rotate") \/ At(h, "reuse")

\* A family is named by the token it began with, and a request that replaces
\* or has found a token used twice holds one that was issued.
Families ==
  /\ \A t \in Tokens : Issued(t) =>
       /\ token[t].family \in Tokens
       /\ token[token[t].family].family = token[t].family
  /\ \A h \in Requests : Replaces(h) => Issued(request[h].token)

\* OneTokenPerSession, without counting.
Single ==
  \A f \in Tokens \ forked : \A t, u \in Alive(f) : t = u

SessionInv == Typed /\ Families /\ Single

\* Steps of the team do not touch the tokens, nor the requests that do.
Elsewhere ==
  /\ UNCHANGED sessions
  /\ \A h \in Requests :
       request'[h] = request[h] \/ ~(Replaces(h) \/ Replaces(h)')

LEMMA TeamIsElsewhere ==
  ASSUME Typed, ManageTeam \/ Answer
  PROVE  Elsewhere
<1>1. ASSUME NEW h \in Requests, NEW r, Set(h, r), UNCHANGED sessions,
             r.step \notin {"rotate", "reuse"},
             request[h].step \notin {"rotate", "reuse"}
      PROVE  Elsewhere
  BY <1>1 DEF Elsewhere, Replaces, At, Set, Typed
<1>2. Idle.step = "idle"
  BY DEF Idle
<1>3. ASSUME NEW h \in Requests, NEW p \in People,
             \/ StartCreate(h, p)
             \/ \E role \in Roles, s \in Staff \cup {NoOne} :
                  ReadInvite(h, p, role, s)
      PROVE  Elsewhere
  BY <1>1, <1>3 DEF StartCreate, ReadInvite, At
<1>4. ASSUME NEW h \in Requests, NEW r \in Rows,
             \/ \E b \in Businesses : CreateBusiness(h, b, r)
             \/ AddMember(h, r) \/ CreateInvite(h, r) \/ Enter(h, r)
             \/ \E next \in {"role", "deactivate"} : ReadChange(h, r, next)
      PROVE  Elsewhere
  BY <1>1, <1>2, <1>4
  DEF CreateBusiness, AddMember, CreateInvite, Enter, ReadChange, ReadMember, At
<1>5. ASSUME NEW h \in Requests,
             \/ ReAddMember(h) \/ Deactivate(h)
             \/ \E role \in Roles : ChangeRole(h, role)
      PROVE  Elsewhere
  BY <1>1, <1>2, <1>5 DEF ReAddMember, Deactivate, ChangeRole, At
<1>6. ASSUME NEW h \in Requests, SignUp(h) \/ Join(h) PROVE Elsewhere
  <2>1. \A p : Session(p).step \in {"idle", "session"}
    BY <1>2 DEF Session
  <2> QED
    BY <1>1, <1>6, <2>1 DEF SignUp, Join, At
<1>7. ASSUME NEW r \in Rows, NEW h \in Requests, Accept(h, r)
      PROVE  Elsewhere
  BY <1>1, <1>7 DEF Accept, At
<1>8. ASSUME NEW r \in Rows, ExpireInvite(r) PROVE Elsewhere
  BY <1>8 DEF ExpireInvite, Elsewhere
<1> QED
  BY <1>3, <1>4, <1>5, <1>6, <1>7, <1>8 DEF ManageTeam, Answer

\* A token that is issued begins a family, or replaces the one it joins.
LEMMA RotateKeeps ==
  ASSUME SessionInv, NEW h \in Requests, NEW n \in Tokens, Rotate(h, n)
  PROVE  Families' /\ Single'
<1> DEFINE o == request[h].token
           f == token[o].family
<1>1. /\ o \in Tokens /\ Issued(o) /\ ~Issued(n) /\ n # o
      /\ f \in Tokens /\ f # NoOne /\ token[f].family = f
  BY SessionFacts DEF SessionInv, Families, Replaces, Rotate, Issued
<1>2. /\ token'[n] = New(f, token[o].of)
      /\ token'[o] = [token[o] EXCEPT !.revoked = TRUE]
      /\ \A t \in Tokens \ {n, o} : token'[t] = token[t]
  BY <1>1 DEF Rotate, SessionInv, Typed
<1>3. /\ token'[n].family = f /\ ~token'[n].revoked
      /\ token'[o].family = f /\ token'[o].revoked
  BY <1>1, <1>2 DEF New, SessionInv, Typed, Token
<1>4. request' = [request EXCEPT ![h] = Idle]
  BY DEF Rotate, Set
<1>5. Families'
  <2>1. \A t \in Tokens : Issued(t) => token'[t].family = token[t].family
    BY <1>1, <1>2, <1>3
  <2>2. \A t \in Tokens : Issued(t)' => t = n \/ Issued(t)
    BY <1>2, <1>3, <1>1 DEF Issued
  <2>3. \A g \in Requests : Replaces(g)' => Replaces(g) /\ request'[g] = request[g]
    BY <1>4 DEF Replaces, At, Idle, SessionInv, Typed
  <2>4. \A t \in Tokens : Issued(t) => Issued(t)'
    BY <2>1 DEF Issued
  <2>5. ASSUME NEW t \in Tokens, Issued(t)'
        PROVE  /\ token'[t].family \in Tokens
               /\ token'[token'[t].family].family = token'[t].family
    <3>1. token'[t].family \in Tokens
          /\ token[token'[t].family].family = token'[t].family
      BY <1>1, <1>3, <2>1, <2>2, <2>5 DEF SessionInv, Families
    <3>2. Issued(token'[t].family)
      BY <3>1, NoOneAssumption DEF Issued
    <3> QED
      BY <2>1, <3>1, <3>2
  <2>6. \A g \in Requests : Replaces(g)' => Issued(request[g].token)'
    BY <2>3, <2>4, SessionFacts DEF SessionInv, Families, Replaces
  <2> QED
    BY <2>5, <2>6 DEF Families
<1>6. Single'
  <2> SUFFICES ASSUME NEW g \in Tokens \ forked', NEW t \in Alive(g)',
                      NEW u \in Alive(g)'
               PROVE  t = u
    BY DEF Single
  <2>1. g \notin forked /\ (g = f => ~token[o].revoked)
    BY DEF Rotate
  <2>2. \A x \in Alive(g)' : x \in Tokens /\ x # o /\ (x = n \/ x \in Alive(g))
    BY <1>2, <1>3 DEF Alive, Family, Live, Issued
  <2>3. n \in Alive(g)' => g = f
    BY <1>3 DEF Alive, Family
  <2>4. g = f => o \in Alive(g)
    BY <1>1, <2>1 DEF Alive, Family, Live
  <2> QED
    BY <2>1, <2>2, <2>3, <2>4 DEF SessionInv, Single
<1> QED
  BY <1>5, <1>6

\* Tokens are only revoked, or expire, and a request takes up a valid token
\* to replace it.
Quiet ==
  /\ UNCHANGED forked
  /\ \A t \in Tokens : /\ token'[t].family = token[t].family
                       /\ token[t].revoked => token'[t].revoked
  /\ \A h \in Requests : Replaces(h)' =>
       \/ Replaces(h) /\ request'[h] = request[h]
       \/ /\ request'[h].token \in Tokens
          /\ Issued(request'[h].token)
          /\ At(h, "rotate")' => Live(request'[h].token)

LEMMA QuietKeeps ==
  ASSUME SessionInv, Quiet
  PROVE  Families' /\ Single'
<1>1. \A t \in Tokens : Issued(t)' <=> Issued(t)
  BY DEF Issued, Quiet
<1>2. Families'
  <2>1. \A h \in Requests : Replaces(h)' => Issued(request[h].token)'
    BY <1>1, SessionFacts DEF SessionInv, Families, Replaces, Quiet
  <2>2. ASSUME NEW t \in Tokens, Issued(t)'
        PROVE  /\ token'[t].family \in Tokens
               /\ token'[token'[t].family].family = token'[t].family
    BY <1>1, <2>2 DEF SessionInv, Families, Quiet
  <2> QED
    BY <2>1, <2>2 DEF Families
<1>3. \A f \in Tokens : Alive(f)' \subseteq Alive(f)
  BY <1>1 DEF Alive, Family, Live, Quiet
<1>4. Single'
  BY <1>3 DEF SessionInv, Single, Quiet
<1> QED
  BY <1>2, <1>4

LEMMA CreateKeeps ==
  ASSUME SessionInv, NEW h \in Requests, NEW n \in Tokens, CreateSession(h, n)
  PROVE  Families' /\ Single'
<1>1. /\ token' = [token EXCEPT ![n] = New(n, request[h].person)]
      /\ request' = [request EXCEPT ![h] = Idle]
      /\ UNCHANGED forked /\ ~Issued(n)
  BY DEF CreateSession, Set
<1>2. /\ token'[n].family = n /\ n # NoOne
      /\ \A t \in Tokens \ {n} : token'[t] = token[t]
  BY <1>1, NoOneAssumption DEF New, SessionInv, Typed
<1>3. Family(n) = {}
  BY <1>1, NoOneAssumption DEF SessionInv, Families, Family, Issued
<1>4. Families'
  <2>1. ASSUME NEW g \in Requests, Replaces(g)'
        PROVE  Replaces(g) /\ request'[g] = request[g]
    BY <1>1, <2>1 DEF Replaces, At, Idle, SessionInv, Typed
  <2>2. ASSUME NEW g \in Requests, Replaces(g)'
        PROVE  Issued(request[g].token)'
    BY <1>1, <1>2, <2>1, <2>2, SessionFacts
    DEF SessionInv, Families, Replaces, Issued
  <2>3. ASSUME NEW t \in Tokens, Issued(t)'
        PROVE  /\ token'[t].family \in Tokens
               /\ token'[token'[t].family].family = token'[t].family
    <3>1. CASE t = n
      BY <1>2, <3>1
    <3>2. CASE t # n
      <4>1. token'[t] = token[t] /\ Issued(t)
        BY <1>2, <2>3, <3>2 DEF Issued
      <4>2. token[t].family \in Tokens /\ token[t].family # n
        BY <1>3, <4>1 DEF SessionInv, Families, Family
      <4> QED
        BY <1>2, <4>1, <4>2 DEF SessionInv, Families
    <3> QED
      BY <3>1, <3>2
  <2> QED
    BY <2>2, <2>3 DEF Families
<1>5. Single'
  <2> SUFFICES ASSUME NEW f \in Tokens \ forked, NEW t \in Alive(f)',
                      NEW u \in Alive(f)'
               PROVE  t = u
    BY <1>1 DEF Single
  <2>1. CASE f = n
    BY <1>2, <1>3, <2>1 DEF Alive, Family
  <2>2. CASE f # n
    BY <1>1, <1>2, <2>2 DEF SessionInv, Single, Alive, Family, Live, Issued
  <2> QED
    BY <2>1, <2>2
<1> QED
  BY <1>4, <1>5

LEMMA InitSessions == Init => SessionInv
BY InitTyped, NoOneAssumption
DEF Init, SessionInv, Families, Single, Replaces, At, Idle, Issued, NoToken,
    Alive, Family, Live

\* Every step begins a session, replaces a token, or is quiet.
LEMMA SessionSteps ==
  ASSUME SessionInv, [Next]_vars
  PROVE  \/ \E h \in Requests, n \in Tokens : CreateSession(h, n) \/ Rotate(h, n)
         \/ Quiet
<1>1. ASSUME NEW h \in Requests, NEW r, Set(h, r),
             r.step \notin {"rotate", "reuse"}, UNCHANGED forked,
             \A t \in Tokens : /\ token'[t].family = token[t].family
                               /\ token[t].revoked => token'[t].revoked
      PROVE  Quiet
  <2>1. \A g \in Requests : Replaces(g)' =>
          Replaces(g) /\ request'[g] = request[g]
    BY <1>1 DEF Replaces, At, Set, SessionInv, Typed
  <2> QED
    BY <1>1, <2>1 DEF Quiet
<1>2. Idle.step = "idle" /\ \A p : Session(p).step \in {"idle", "session"}
  BY DEF Idle, Session
<1>3. ASSUME NEW h \in Requests, NEW p \in People, Register(h, p) \/ Login(h, p)
      PROVE  Quiet
  BY <1>1, <1>2, <1>3 DEF Register, Login, sessions
<1>4. ASSUME NEW h \in Requests, RevokeFamily(h) \/ Fail(h)
      PROVE  Quiet
  <2>1. \A t \in Tokens : /\ token'[t].family = token[t].family
                          /\ token[t].revoked => token'[t].revoked
    BY <1>4 DEF RevokeFamily, Fail, sessions, SessionInv, Typed, Token
  <2> QED
    BY <1>1, <1>2, <1>4, <2>1 DEF RevokeFamily, Fail, sessions
<1>5. ASSUME NEW h \in Requests, NEW t \in Tokens, Refresh(h, t)
      PROVE  Quiet
  BY <1>5
  DEF Refresh, Set, Quiet, Replaces, At, Live, sessions, SessionInv, Typed
<1>6. ASSUME NEW t \in Tokens, Logout(t) \/ ExpireToken(t)
      PROVE  Quiet
  <2>1. \A u \in Tokens : /\ token'[u].family = token[u].family
                          /\ token[u].revoked => token'[u].revoked
    BY <1>6 DEF Logout, ExpireToken, SessionInv, Typed, Token
  <2> QED
    BY <1>6, <2>1 DEF Logout, ExpireToken, Quiet, Replaces, At
<1>7. ASSUME Elsewhere PROVE Quiet
  BY <1>7 DEF Elsewhere, Quiet, sessions, Replaces, At
<1>8. CASE UNCHANGED vars
  BY <1>7, <1>8 DEF vars, Elsewhere
<1>9. CASE UseSession
  BY <1>3, <1>4, <1>5, <1>6, <1>9 DEF UseSession
<1> QED
  BY <1>4, <1>7, <1>8, <1>9, TeamIsElsewhere DEF Next, SessionInv

LEMMA NextSessions == SessionInv /\ [Next]_vars => SessionInv'
BY NextTyped, SessionSteps, CreateKeeps, RotateKeeps, QuietKeeps DEF SessionInv

LEMMA AlwaysSessions == Spec => []SessionInv
BY InitSessions, NextSessions, PTL DEF Spec

\* A session can be refreshed by one token at a time, for any number of
\* people, sessions and requests, unless replacements of one token overlapped.
THEOREM SessionsHaveOneToken == Spec => []OneTokenPerSession
<1>1. ASSUME SessionInv, NEW f \in Tokens \ forked
      PROVE  Cardinality(Alive(f)) <= 1
  <2>1. Alive(f) = {} \/ \E t \in Alive(f) : Alive(f) = {t}
    BY <1>1 DEF SessionInv, Single
  <2> QED
    BY <2>1, FS_EmptySet, FS_Singleton
<1>2. SessionInv => OneTokenPerSession
  BY <1>1 DEF OneTokenPerSession
<1> QED
  BY <1>2, AlwaysSessions, PTL

\* An ended session gains no token, and none of its tokens is valid again.
LEMMA EndedStays ==
  ASSUME SessionInv, [Next]_vars, NEW f \in Tokens, Ended(f)
  PROVE  Ended(f)'
<1>1. f # NoOne /\ Issued(f) /\ \A t \in Family(f) : token[t].revoked
  BY NoOneAssumption
  DEF Ended, SessionInv, Families, Family, Alive, Live, Issued
<1>2. ASSUME Quiet PROVE Ended(f)'
  <2>1. Family(f)' = Family(f) /\ Alive(f)' = {}
    BY <1>1, <1>2 DEF Quiet, Family, Alive, Live
  <2>2. ASSUME NEW h \in Requests, At(h, "rotate")',
               request'[h].token \in Family(f)
        PROVE  FALSE
    BY <1>1, <1>2, <2>2 DEF Quiet, Ended, Replaces, Live, At
  <2> QED
    BY <2>1, <2>2 DEF Ended, Family
<1>3. ASSUME NEW h \in Requests, NEW n \in Tokens,
             CreateSession(h, n) \/ Rotate(h, n)
      PROVE  Ended(f)'
  <2>1. /\ ~Issued(n)
        /\ token'[n].family # f
        /\ \A t \in Tokens \ {n} : /\ token'[t].family = token[t].family
                                   /\ token[t].revoked => token'[t].revoked
    <3>1. CASE CreateSession(h, n)
      BY <1>1, <3>1 DEF CreateSession, New, SessionInv, Typed
    <3>2. CASE Rotate(h, n)
      <4> DEFINE o == request[h].token
      <4>1. o \in Tokens /\ o \notin Family(f)
        BY <3>2, SessionFacts DEF Rotate, Ended, SessionInv
      <4>2. token[o].family # f
        BY <4>1 DEF Family
      <4>3. token' = [token EXCEPT ![o].revoked = TRUE,
                                   ![n] = New(token[o].family, token[o].of)]
        BY <3>2 DEF Rotate
      <4>4. \A t \in Tokens : token[t] \in Token
        BY DEF SessionInv, Typed
      <4> HIDE DEF o
      <4> QED
        BY <3>2, <4>1, <4>2, <4>3, <4>4
        DEF Rotate, New, Token, SessionInv, Typed
    <3> QED
      BY <1>3, <3>1, <3>2
  <2>2. Family(f)' = Family(f) /\ Alive(f)' = {}
    BY <1>1, <2>1, NoOneAssumption DEF Family, Alive, Live, Issued
  <2>3. \A g \in Requests : At(g, "rotate")' =>
          At(g, "rotate") /\ request'[g] = request[g]
    BY <1>3 DEF CreateSession, Rotate, Set, Idle, At, SessionInv, Typed
  <2> QED
    BY <2>2, <2>3 DEF Ended, Family
<1> QED
  BY <1>2, <1>3, SessionSteps

\* A session that has ended, with no refresh of it past its check, stays so,
\* whoever logs out, refreshes or signs in afterwards.
THEOREM SessionsEndForGood == Spec => EndedStaysEnded
<1>1. SessionInv /\ [Next]_vars => [\A f \in Tokens : Ended(f) => Ended(f)']_vars
  BY EndedStays
<1> QED
  BY <1>1, AlwaysSessions, PTL DEF Spec, EndedStaysEnded
-----------------------------------------------------------------------------
(* Members                                                                 *)

\* The row by which the person who created a business is its member.
Founds(r) ==
  /\ member[r].at # NoOne /\ member[r].joined
  /\ owner[member[r].at] = member[r].person

Rooted ==
  \A r \in Rows :
    /\ member[r].joined \/ member[r].invite # "none" => member[r].at # NoOne
    /\ member[r].at # NoOne => /\ owner[member[r].at] # NoOne
                               /\ member[r].person # NoOne

Founders ==
  /\ \A b \in Businesses : owner[b] # NoOne =>
       \E r \in Rows : member[r].at = b /\ Founds(r)
  /\ \A r \in Rows : Founds(r) => member[r].active /\ member[r].role = "owner"

Changing == {"readd", "role", "deactivate", "join", "sign up"}
Informed == {"create", "entered", "add", "invite"} \cup Changing

\* What a request has read stays true as far as its write relies on it; above
\* all, no request is about to change the row of a founder.
Aims(h) ==
  /\ request[h].step \in {"create", "add"} => account[request[h].person]
  /\ request[h].step \in {"entered", "add", "invite"}
       => request[h].at # NoOne /\ owner[request[h].at] # NoOne
  /\ request[h].step \in Changing
       => member[request[h].row].at # NoOne /\ ~Founds(request[h].row)
  /\ request[h].step = "readd" => member[request[h].row].joined
  /\ request[h].step = "join" => account[member[request[h].row].person]

TeamInv ==
  /\ Typed
  /\ Rooted
  /\ MembersAgree
  /\ Founders
  /\ \A h \in Requests : Aims(h)

LEMMA ChangesRows ==
  ASSUME Typed, NEW h \in Requests, request[h].step \in Changing
  PROVE  request[h].row \in Rows
BY TeamFacts DEF At, Changing

\* Accounts and businesses stay, and rows keep their business and person.
Grows ==
  /\ \A p \in People : account[p] => account'[p]
  /\ \A b \in Businesses : owner[b] # NoOne => owner'[b] = owner[b]
  /\ \A r \in Rows : member[r].at # NoOne =>
       /\ member'[r].at = member[r].at /\ member'[r].person = member[r].person
       /\ member[r].joined => member'[r].joined
       /\ Founds(r)' => Founds(r)

LEMMA AimsKept ==
  ASSUME TeamInv, Grows, NEW h \in Requests, request'[h] = request[h]
  PROVE  Aims(h)'
<1>1. Aims(h)
  BY DEF TeamInv
<1>2. request[h].step \in {"create", "add"} => account'[request[h].person]
  BY <1>1, TeamFacts DEF TeamInv, Aims, Grows, At
<1>3. request[h].step \in {"entered", "add", "invite"}
        => request[h].at # NoOne /\ owner'[request[h].at] # NoOne
  BY <1>1, TeamFacts DEF TeamInv, Aims, Grows, At, Place
<1>4. ASSUME request[h].step \in Changing
      PROVE  /\ member'[request[h].row].at # NoOne
             /\ member'[request[h].row].person = member[request[h].row].person
             /\ ~Founds(request[h].row)'
  BY <1>1, <1>4, ChangesRows DEF TeamInv, Aims, Grows
<1>5. request[h].step = "readd" => member'[request[h].row].joined
  BY <1>1, ChangesRows DEF TeamInv, Aims, Grows, Changing
<1>6. request[h].step = "join" => account'[member'[request[h].row].person]
  BY <1>1, <1>4, ChangesRows, ZenonT(60)
  DEF TeamInv, Aims, Grows, Changing, Rooted, Typed, Member
<1> QED
  BY <1>2, <1>3, <1>4, <1>5, <1>6 DEF Aims

\* An existing row is changed, and it is no founder's, or stays as it was for
\* its founder.
LEMMA RowEdited ==
  ASSUME TeamInv, NEW r \in Rows, NEW m \in Member, member[r].at # NoOne,
         member' = [member EXCEPT ![r] = m], UNCHANGED <<account, owner>>,
         m.at = member[r].at, m.person = member[r].person,
         m.joined = member[r].joined,
         m.active <=> m.status = "active", m.active => m.joined,
         Founds(r) => m.active /\ m.role = "owner"
  PROVE  Grows /\ Rooted' /\ MembersAgree' /\ Founders'
<1>1. member'[r] = m /\ \A q \in Rows \ {r} : member'[q] = member[q]
  BY DEF TeamInv, Typed
<1>2. \A q \in Rows : /\ member'[q].at = member[q].at
                      /\ member'[q].person = member[q].person
                      /\ member'[q].joined = member[q].joined
                      /\ Founds(q)' = Founds(q)
  BY <1>1 DEF Founds
<1>3. Grows
  BY <1>2 DEF Grows
<1>4. Rooted'
  BY <1>1, <1>2 DEF TeamInv, Rooted
<1>5. \A b, p : Joined(b, p)' = Joined(b, p)
  BY <1>2 DEF Joined, RowsAt
<1>6. MembersAgree'
  BY <1>1, <1>2, <1>5 DEF TeamInv, MembersAgree
<1>7. Founders'
  BY <1>1, <1>2 DEF TeamInv, Founders
<1> QED
  BY <1>3, <1>4, <1>6, <1>7

\* A row joins its business, new or as an invitation that was accepted, when
\* no other row of the person has.
LEMMA RowJoins ==
  ASSUME TeamInv, NEW r \in Rows, NEW m \in Member,
         member' = [member EXCEPT ![r] = m], UNCHANGED <<account, owner>>,
         member[r].at # NoOne =>
           m.at = member[r].at /\ m.person = member[r].person,
         ~Founds(r), m.at # NoOne, owner[m.at] # NoOne, m.person # NoOne,
         m.joined => /\ account[m.person]
                     /\ Joined(m.at, m.person) \subseteq {r},
         member[r].joined => m.joined,
         m.active <=> m.status = "active", m.active => m.joined
  PROVE  Grows /\ Rooted' /\ MembersAgree' /\ Founders'
<1>1. member'[r] = m /\ \A q \in Rows \ {r} : member'[q] = member[q]
  BY DEF TeamInv, Typed
<1>2. m.at \in Businesses
  BY DEF Member, Place
<1>3. PICK f \in Rows : member[f].at = m.at /\ Founds(f)
  BY <1>2 DEF TeamInv, Founders
<1>4. f # r /\ f \in Joined(m.at, owner[m.at])
  BY <1>3 DEF Founds, Joined, RowsAt
<1>5. ~Founds(r)'
  BY <1>1, <1>4 DEF Founds
<1>6. \A q \in Rows \ {r} : Founds(q)' = Founds(q)
  BY <1>1 DEF Founds
<1>7. Grows
  BY <1>1, <1>5, <1>6 DEF Grows
<1>8. Rooted'
  BY <1>1 DEF TeamInv, Rooted
<1>9. \A b, p : Joined(b, p)' \ {r} = Joined(b, p) \ {r}
  BY <1>1 DEF Joined, RowsAt
<1>10. ASSUME NEW q \in Rows, member'[q].at # NoOne, member'[q].joined
       PROVE  Joined(member[q].at, member[q].person)' = {q}
  <2>1. q \in Joined(member[q].at, member[q].person)'
    BY <1>10 DEF Joined, RowsAt
  <2>2. CASE q = r
    BY <1>1, <1>9, <1>10, <2>1, <2>2
  <2>3. CASE q # r
    <3>1. Joined(member[q].at, member[q].person) = {q}
      BY <1>1, <1>10, <2>3 DEF TeamInv, MembersAgree
    <3>2. r \notin Joined(member[q].at, member[q].person)'
      <4>1. ASSUME m.joined, m.at = member[q].at, m.person = member[q].person
            PROVE  FALSE
        BY <2>3, <3>1, <4>1
      <4>2. member'[r] = m /\ member'[q] = member[q]
        BY <1>1, <2>3
      <4>3. r \in Joined(member[q].at, member[q].person)' =>
              /\ member'[r].at = member'[q].at /\ member'[r].joined
              /\ member'[r].person = member'[q].person
        BY DEF Joined, RowsAt
      <4> QED
        BY <4>1, <4>2, <4>3
    <3> QED
      BY <1>1, <1>9, <2>1, <2>3, <3>1, <3>2
  <2> QED
    BY <2>2, <2>3
<1>11. MembersAgree'
  <2> SUFFICES ASSUME NEW q \in Rows, member'[q].at # NoOne
               PROVE  /\ member'[q].active <=> member'[q].status = "active"
                      /\ member'[q].active => member'[q].joined
                      /\ member'[q].joined => account'[member'[q].person]
    BY <1>10 DEF MembersAgree
  <2> QED
    BY <1>1 DEF TeamInv, MembersAgree
<1>12. Founders'
  <2>1. \A b \in Businesses : owner[b] # NoOne =>
          \E q \in Rows \ {r} : member[q].at = b /\ Founds(q)
    BY DEF TeamInv, Founders
  <2>2. \A b \in Businesses : owner'[b] # NoOne =>
          \E q \in Rows : member'[q].at = b /\ Founds(q)'
    BY <1>1, <1>6, <2>1
  <2>3. \A q \in Rows : Founds(q)' => member'[q].active /\ member'[q].role = "owner"
    BY <1>1, <1>5, <1>6 DEF TeamInv, Founders
  <2> QED
    BY <2>2, <2>3 DEF Founders
<1> QED
  BY <1>7, <1>8, <1>11, <1>12

LEMMA CreateBusinessKeeps ==
  ASSUME TeamInv, NEW h \in Requests, NEW b \in Businesses, NEW r \in Rows,
         CreateBusiness(h, b, r)
  PROVE  Grows /\ Rooted' /\ MembersAgree' /\ Founders'
<1>1. PICK p \in People : p = request[h].person /\ p # NoOne /\ account[p]
  BY TeamFacts, NoOneAssumption DEF CreateBusiness, TeamInv, Aims, At
<1> DEFINE m == Row(b, p, "owner", NoOne)
<1>2. /\ member'[r] = m /\ \A q \in Rows \ {r} : member'[q] = member[q]
      /\ owner'[b] = p /\ \A c \in Businesses \ {b} : owner'[c] = owner[c]
      /\ owner[b] = NoOne /\ member[r].at = NoOne /\ UNCHANGED account
      /\ ~member[r].joined
  BY <1>1 DEF CreateBusiness, TeamInv, Typed, NoRow
<1>3. /\ m.at = b /\ m.person = p /\ m.joined /\ m.active /\ b # NoOne
      /\ m.role = "owner" /\ m.status = "active" /\ m.invite = "none"
  BY NoOneAssumption DEF Row
<1>4. \A q \in Rows : member[q].at # NoOne =>
        member[q].at \in Businesses \ {b} /\ q # r
  BY <1>2 DEF TeamInv, Rooted, Typed, Member, Place
<1> HIDE DEF m
<1>5. \A q \in Rows : member[q].at # NoOne => Founds(q)' = Founds(q)
  BY <1>2, <1>4 DEF Founds
<1>6. Founds(r)'
  BY <1>2, <1>3 DEF Founds
<1>7. Grows
  BY <1>2, <1>4, <1>5 DEF Grows
<1>8. Rooted'
  BY <1>1, <1>2, <1>3, <1>4 DEF TeamInv, Rooted
<1>9. Joined(b, p)' = {r}
  BY <1>2, <1>3, <1>4 DEF Joined, RowsAt
<1>10. \A c \in Businesses \ {b} : \A x : Joined(c, x)' = Joined(c, x)
  BY <1>2, <1>3 DEF Joined, RowsAt
<1>11. MembersAgree'
  BY <1>1, <1>2, <1>3, <1>4, <1>9, <1>10 DEF TeamInv, MembersAgree
<1>12. Founders'
  <2>1. \A q \in Rows : Founds(q)' => q = r \/ Founds(q)
    BY <1>2, <1>5 DEF Founds
  <2>2. ASSUME NEW c \in Businesses, owner'[c] # NoOne, c # b
        PROVE  \E q \in Rows : member'[q].at = c /\ Founds(q)'
    <3>1. PICK q \in Rows : member[q].at = c /\ Founds(q)
      BY <1>2, <2>2 DEF TeamInv, Founders
    <3> QED
      BY <1>2, <1>4, <1>5, <3>1 DEF Founds
  <2> QED
    BY <1>2, <1>3, <1>6, <2>1, <2>2 DEF TeamInv, Founders
<1> QED
  BY <1>7, <1>8, <1>11, <1>12

LEMMA InitTeam == Init => TeamInv
<1> SUFFICES ASSUME Init PROVE TeamInv
  OBVIOUS
<1>1. \A r \in Rows : member[r] = NoRow /\ ~Founds(r)
  BY DEF Init, Founds, NoRow
<1>2. \A b \in Businesses : owner[b] = NoOne
  BY DEF Init
<1>3. Rooted /\ MembersAgree /\ Founders
  BY <1>1, <1>2 DEF Rooted, MembersAgree, Founders, NoRow
<1>4. \A h \in Requests : Aims(h)
  BY DEF Init, Aims, Idle, Changing
<1> QED
  BY <1>3, <1>4, InitTyped DEF TeamInv

\* The request that takes a step.
LEMMA OthersAim ==
  ASSUME TeamInv, Grows, NEW h \in Requests, NEW r, Set(h, r),
         request'[h] = r => Aims(h)'
  PROVE  \A g \in Requests : Aims(g)'
<1>1. request'[h] = r /\ \A g \in Requests \ {h} : request'[g] = request[g]
  BY DEF Set, TeamInv, Typed
<1> QED
  BY <1>1, AimsKept

LEMMA Rests ==
  ASSUME NEW h \in Requests, request'[h].step \in {"idle", "session"}
  PROVE  Aims(h)'
BY DEF Aims, Changing

\* Steps that change no row and no business.
LEMMA RowsStay ==
  ASSUME TeamInv, UNCHANGED team, \A p \in People : account[p] => account'[p]
  PROVE  Grows /\ Rooted' /\ MembersAgree' /\ Founders'
<1>1. Grows
  BY DEF Grows, team, Founds
<1>2. Rooted' /\ Founders'
  BY DEF TeamInv, Rooted, Founders, Founds, team
<1>3. MembersAgree'
  <2>1. \A b, p : Joined(b, p)' = Joined(b, p)
    BY DEF Joined, RowsAt, team
  <2>2. \A r \in Rows : member[r].at # NoOne => member[r].person \in People
    BY DEF TeamInv, Rooted, Typed, Member
  <2> QED
    BY <2>1, <2>2 DEF TeamInv, MembersAgree, team
<1> QED
  BY <1>1, <1>2, <1>3

\* What a step of the team has to keep, besides types.
Agreement == Rooted' /\ MembersAgree' /\ Founders' /\ \A h \in Requests : Aims(h)'

LEMMA SessionsAgree ==
  ASSUME TeamInv, UseSession \/ (\E h \in Requests : Fail(h)) \/ UNCHANGED vars
  PROVE  Agreement
<1>1. UNCHANGED team /\ \A p \in People : account[p] => account'[p]
  BY DEF UseSession, Register, Login, CreateSession, Refresh, RevokeFamily,
         Rotate, Logout, ExpireToken, Fail, vars, TeamInv, Typed
<1>2. Grows /\ Rooted' /\ MembersAgree' /\ Founders'
  BY <1>1, RowsStay
<1>3. \A h \in Requests : \/ request'[h] = request[h]
                          \/ request'[h].step \notin Informed
  <2>1. ASSUME NEW h \in Requests, NEW r, Set(h, r), r.step \notin Informed
        PROVE  \A g \in Requests : \/ request'[g] = request[g]
                                   \/ request'[g].step \notin Informed
    BY <2>1 DEF Set, TeamInv, Typed
  <2>2. Idle.step \notin Informed /\ \A p : Session(p).step \notin Informed
    BY DEF Idle, Session, Informed, Changing
  <2>3. ASSUME NEW h \in Requests,
               \/ \E p \in People : Register(h, p) \/ Login(h, p)
               \/ \E t \in Tokens : CreateSession(h, t) \/ Rotate(h, t)
               \/ RevokeFamily(h) \/ Fail(h)
        PROVE  \E r : Set(h, r) /\ r.step \notin Informed
    BY <2>2, <2>3 DEF Register, Login, CreateSession, Rotate, RevokeFamily, Fail
  <2>4. ASSUME NEW h \in Requests, NEW t \in Tokens, Refresh(h, t)
        PROVE  \E r : Set(h, r) /\ r.step \notin Informed
    <3> DEFINE q == [step |-> IF token[t].revoked THEN "reuse" ELSE "rotate",
                     token |-> t]
    <3>1. Set(h, q)
      BY <2>4 DEF Refresh
    <3>2. q.step \notin Informed
      BY DEF Informed, Changing
    <3> QED
      BY <3>1, <3>2
  <2>5. ASSUME UNCHANGED request
        PROVE  \A g \in Requests : request'[g] = request[g]
    BY <2>5
  <2>6. \/ UNCHANGED request
        \/ \E h \in Requests : \E r : Set(h, r) /\ r.step \notin Informed
    BY <2>3, <2>4 DEF UseSession, Logout, ExpireToken, vars
  <2> QED
    BY <2>1, <2>5, <2>6
<1>4. \A h \in Requests : Aims(h)'
  <2>1. \A h \in Requests : request'[h].step \notin Informed => Aims(h)'
    BY DEF Aims, Informed, Changing
  <2> QED
    BY <1>2, <1>3, <2>1, AimsKept
<1> QED
  BY <1>2, <1>4 DEF Agreement

LEMMA ManageAgrees == ASSUME TeamInv, ManageTeam PROVE Agreement
<1>1. ASSUME NEW h \in Requests, NEW r, Set(h, r), UNCHANGED <<account, team>>,
             request'[h] = r => Aims(h)'
      PROVE  Agreement
  BY <1>1, RowsStay, OthersAim DEF Agreement
<1>2. ASSUME NEW h \in Requests, Set(h, Idle),
             Grows /\ Rooted' /\ MembersAgree' /\ Founders'
      PROVE  Agreement
  <2>1. request'[h] = Idle => Aims(h)'
    BY Rests DEF Idle
  <2> QED
    BY <1>2, <2>1, OthersAim DEF Agreement
<1>3. ASSUME NEW h \in Requests, NEW p \in People, StartCreate(h, p)
      PROVE  Agreement
  <2>1. request'[h] = [step |-> "create", person |-> p] => Aims(h)'
    BY <1>3 DEF StartCreate, Aims, Changing
  <2> QED
    BY <1>1, <1>3, <2>1 DEF StartCreate
<1>4. ASSUME NEW h \in Requests, NEW b \in Businesses, NEW r \in Rows,
             CreateBusiness(h, b, r)
      PROVE  Agreement
  BY <1>2, <1>4, CreateBusinessKeeps DEF CreateBusiness
<1>5. ASSUME NEW h \in Requests, NEW r \in Rows, Enter(h, r)
      PROVE  Agreement
  <2>1. member[r].at # NoOne /\ owner[member[r].at] # NoOne
    BY <1>5 DEF Enter, TeamInv, Rooted
  <2>2. request'[h] = [step |-> "entered", at |-> member[r].at] => Aims(h)'
    BY <1>5, <2>1 DEF Enter, Aims, Changing, team
  <2> QED
    BY <1>1, <1>5, <2>2 DEF Enter
<1>6. ASSUME NEW h \in Requests, NEW p \in People, NEW role \in Roles,
             NEW s \in Staff \cup {NoOne}, ReadInvite(h, p, role, s)
      PROVE  Agreement
  <2> DEFINE Asked(step, r) == [step |-> step, at |-> request[h].at,
               person |-> p, role |-> role, staff |-> s, row |-> r]
  <2>1. request[h].at # NoOne /\ owner[request[h].at] # NoOne
    BY <1>6 DEF ReadInvite, At, TeamInv, Aims
  <2>2. UNCHANGED <<account, team>>
    BY <1>6 DEF ReadInvite
  <2>3. account[p] =>
          (request'[h] = Asked("add", NoOne) => Aims(h)')
    BY <2>1, <2>2 DEF Aims, Changing, team
  <2>4. request'[h] = Asked("invite", NoOne) => Aims(h)'
    BY <2>1, <2>2 DEF Aims, Changing, team
  <2>5. ASSUME NEW r \in Joined(request[h].at, p), ~member[r].active
        PROVE  request'[h] = Asked("readd", r) => Aims(h)'
    <3>1. r \in Rows /\ member[r].joined /\ member[r].at # NoOne /\ ~Founds(r)
      BY <2>1, <2>5 DEF Joined, RowsAt, TeamInv, Founders
    <3> QED
      BY <2>2, <3>1 DEF Aims, Changing, Founds, team
  <2>6. \/ Set(h, Asked("add", NoOne)) /\ account[p]
        \/ Set(h, Asked("invite", NoOne))
        \/ \E r \in Joined(request[h].at, p) :
             ~member[r].active /\ Set(h, Asked("readd", r))
    BY <1>6 DEF ReadInvite
  <2> HIDE DEF Asked
  <2> QED
    BY <1>1, <2>2, <2>3, <2>4, <2>5, <2>6
<1>7. ASSUME NEW h \in Requests, NEW r \in Rows,
             AddMember(h, r) \/ CreateInvite(h, r)
      PROVE  Agreement
  <2> DEFINE q == request[h]
             m == Row(q.at, q.person, q.role, q.staff)
             i == [m EXCEPT !.joined = FALSE, !.active = FALSE,
                            !.status = "pending", !.invite = "open"]
  <2>1. /\ q.at # NoOne /\ owner[q.at] # NoOne
        /\ At(h, "add") => account[q.person]
        /\ q.person # NoOne /\ m \in Member /\ i \in Member
    BY <1>7, TeamFacts, NoOneAssumption
    DEF AddMember, CreateInvite, At, TeamInv, Aims, Row, Member, Place
  <2>2. member[r].at = NoOne /\ ~member[r].joined /\ ~Founds(r)
    BY <1>7 DEF AddMember, CreateInvite, NoRow, Founds
  <2>3. CASE AddMember(h, r)
    <3>1. /\ m.at = q.at /\ m.person = q.person /\ m.joined /\ m.active
          /\ m.status = "active"
      BY DEF Row
    <3>2. /\ member' = [member EXCEPT ![r] = m]
          /\ Joined(m.at, m.person) = {} /\ account[m.person]
          /\ UNCHANGED <<account, owner>> /\ Set(h, Idle)
      BY <2>1, <2>3, <3>1 DEF AddMember
    <3> HIDE DEF m, q
    <3> QED
      BY <1>2, <2>1, <2>2, <3>1, <3>2, RowJoins
  <2>4. CASE CreateInvite(h, r)
    <3>1. /\ i.at = q.at /\ i.person = q.person /\ ~i.joined /\ ~i.active
          /\ i.status # "active"
      BY DEF Row
    <3>2. /\ member' = [member EXCEPT ![r] = i]
          /\ UNCHANGED <<account, owner>> /\ Set(h, Idle)
      BY <2>4 DEF CreateInvite
    <3> HIDE DEF i, q
    <3> QED
      BY <1>2, <2>1, <2>2, <3>1, <3>2, RowJoins
  <2> QED
    BY <1>7, <2>3, <2>4
<1>8. ASSUME NEW h \in Requests, NEW r \in Rows,
             NEW next \in {"role", "deactivate"}, ReadChange(h, r, next)
      PROVE  Agreement
  <2>1. member[r].at # NoOne /\ ~Founds(r)
    BY <1>8, NoOneAssumption
    DEF ReadChange, ReadMember, RowsAt, At, TeamInv, Aims, Founders
  <2>2. ASSUME request'[h] = [step |-> next, row |-> r] PROVE Aims(h)'
    <3>1. request'[h].step \in {"role", "deactivate"} /\ request'[h].row = r
      BY <2>2
    <3>2. member'[r].at # NoOne /\ ~Founds(r)'
      BY <1>8, <2>1 DEF ReadChange, ReadMember, Founds, team
    <3> QED
      BY <3>1, <3>2 DEF Aims
  <2> QED
    BY <1>1, <1>8, <2>2 DEF ReadChange, ReadMember
<1>9. ASSUME NEW h \in Requests,
             \/ ReAddMember(h) \/ Deactivate(h)
             \/ \E role \in Roles : ChangeRole(h, role)
      PROVE  Agreement
  <2> DEFINE q == request[h]
             r == q.row
  <2>1. /\ r \in Rows /\ member[r].at # NoOne /\ ~Founds(r)
        /\ At(h, "readd") => /\ member[r].joined /\ q.role \in Roles
                             /\ q.staff \in Staff \cup {NoOne}
    BY <1>9, TeamFacts
    DEF ReAddMember, Deactivate, ChangeRole, At, TeamInv, Aims, Changing
  <2>2. /\ member[r] \in Member
        /\ member[r].active <=> member[r].status = "active"
        /\ member[r].active => member[r].joined
    BY <2>1 DEF TeamInv, Typed, MembersAgree
  <2>3. PICK m \in Member :
          /\ member' = [member EXCEPT ![r] = m]
          /\ m.at = member[r].at /\ m.person = member[r].person
          /\ m.joined = member[r].joined
          /\ m.active <=> m.status = "active"
          /\ m.active => m.joined
    <3>1. CASE ReAddMember(h)
      <4> DEFINE m == [member[r] EXCEPT !.active = TRUE, !.status = "active",
                                        !.role = q.role, !.staff = q.staff]
      <4>1. /\ m \in Member /\ m.at = member[r].at /\ m.active /\ m.joined
            /\ m.person = member[r].person /\ m.status = "active"
        BY <2>1, <2>2, <3>1 DEF ReAddMember, Member
      <4>2. member' = [member EXCEPT ![r] = m]
        BY <3>1 DEF ReAddMember
      <4> HIDE DEF m, r
      <4> QED
        BY <2>1, <3>1, <4>1, <4>2 DEF ReAddMember
    <3>2. CASE Deactivate(h)
      <4> DEFINE m == [member[r] EXCEPT !.active = FALSE, !.status = "inactive"]
      <4>1. /\ m \in Member /\ m.at = member[r].at /\ ~m.active
            /\ m.joined = member[r].joined
            /\ m.person = member[r].person /\ m.status # "active"
        BY <2>2 DEF Member
      <4>2. member' = [member EXCEPT ![r] = m]
        BY <3>2 DEF Deactivate
      <4> HIDE DEF m, r
      <4> QED
        BY <4>1, <4>2
    <3>3. ASSUME NEW role \in Roles, ChangeRole(h, role)
          PROVE  \E m \in Member :
                   /\ member' = [member EXCEPT ![r] = m]
                   /\ m.at = member[r].at /\ m.person = member[r].person
                   /\ m.joined = member[r].joined
                   /\ m.active <=> m.status = "active"
                   /\ m.active => m.joined
      <4> DEFINE m == [member[r] EXCEPT !.role = role]
      <4>1. /\ m \in Member /\ m.at = member[r].at
            /\ m.joined = member[r].joined /\ m.active = member[r].active
            /\ m.person = member[r].person /\ m.status = member[r].status
        BY <2>2 DEF Member
      <4>2. member' = [member EXCEPT ![r] = m]
        BY <3>3 DEF ChangeRole
      <4> HIDE DEF m, r
      <4> QED
        BY <2>2, <4>1, <4>2
    <3> QED
      BY <1>9, <3>1, <3>2, <3>3
  <2>4. Set(h, Idle) /\ UNCHANGED <<account, owner>>
    BY <1>9 DEF ReAddMember, Deactivate, ChangeRole
  <2> HIDE DEF r
  <2> QED
    BY <1>2, <2>1, <2>3, <2>4, RowEdited
<1> QED
  BY <1>3, <1>4, <1>5, <1>6, <1>7, <1>8, <1>9 DEF ManageTeam

LEMMA AnswerAgrees == ASSUME TeamInv, Answer PROVE Agreement
<1>1. ASSUME NEW h \in Requests, NEW r \in Rows, Accept(h, r)
      PROVE  Agreement
  <2> DEFINE q == [step |-> IF account[member[r].person] THEN "join"
                            ELSE "sign up", row |-> r]
  <2>1. member[r].at # NoOne /\ ~Founds(r)
    BY <1>1 DEF Accept, TeamInv, Rooted, Founds
  <2>2. ASSUME request'[h] = q PROVE Aims(h)'
    <3>1. /\ request'[h].step \in {"join", "sign up"} /\ request'[h].row = r
          /\ request'[h].step = "join" => account[member[r].person]
      <4>1. CASE account[member[r].person]
        BY <2>2, <4>1
      <4>2. CASE ~account[member[r].person]
        <5>1. q.step = "sign up" /\ q.row = r
          BY <4>2
        <5> QED
          BY <2>2, <5>1
      <4> QED
        BY <4>1, <4>2
    <3>2. /\ member'[r].at # NoOne /\ ~Founds(r)' /\ member' = member
          /\ account' = account
      BY <1>1, <2>1 DEF Accept, Founds, team
    <3> QED
      BY <3>1, <3>2 DEF Aims
  <2>3. Set(h, q) /\ UNCHANGED <<account, team>>
    BY <1>1 DEF Accept
  <2> HIDE DEF q
  <2> QED
    BY <2>2, <2>3, RowsStay, OthersAim DEF Agreement
<1>2. ASSUME NEW h \in Requests, SignUp(h) PROVE Agreement
  <2> DEFINE r == request[h].row
             q == [step |-> "join", row |-> r]
  <2>1. /\ r \in Rows /\ member[r].at # NoOne /\ ~Founds(r)
        /\ member[r].person \in People
    BY <1>2, TeamFacts, ZenonT(30)
    DEF SignUp, At, TeamInv, Aims, Changing, Rooted, Typed, Member
  <2>2. /\ account' = [account EXCEPT ![member[r].person] = TRUE]
        /\ UNCHANGED team /\ Set(h, q)
    BY <1>2 DEF SignUp
  <2>3. /\ \A p \in People : account[p] => account'[p]
        /\ account'[member[r].person]
    BY <2>1, <2>2 DEF TeamInv, Typed
  <2>4. ASSUME request'[h] = q PROVE Aims(h)'
    <3>1. request'[h].step = "join" /\ request'[h].row = r
      BY <2>4
    <3>2. member'[r].at # NoOne /\ ~Founds(request[h].row)' /\ member' = member
      BY <2>1, <2>2, <3>1 DEF Founds, team
    <3> QED
      BY <2>3, <3>1, <3>2 DEF Aims
  <2> HIDE DEF q, r
  <2> QED
    BY <2>2, <2>3, <2>4, RowsStay, OthersAim DEF Agreement
<1>3. ASSUME NEW h \in Requests, Join(h) PROVE Agreement
  <2> DEFINE r == request[h].row
             m == [member[r] EXCEPT !.active = TRUE, !.status = "active",
                                    !.joined = TRUE, !.invite = "none"]
  <2>1. /\ r \in Rows /\ member[r].at # NoOne /\ ~Founds(r)
        /\ account[member[r].person]
    BY <1>3, TeamFacts DEF Join, At, TeamInv, Aims, Changing
  <2>2. member[r] \in Member /\ owner[member[r].at] # NoOne
        /\ member[r].person # NoOne
    BY <2>1 DEF TeamInv, Typed, Rooted
  <2>3. /\ m \in Member /\ m.at = member[r].at /\ m.person = member[r].person
        /\ m.joined /\ m.active /\ m.status = "active"
    BY <2>2 DEF Member
  <2>4. /\ member' = [member EXCEPT ![r] = m]
        /\ Joined(m.at, m.person) \subseteq {r}
        /\ UNCHANGED <<account, owner>>
        /\ Set(h, Session(member[r].person))
    BY <1>3, <2>3 DEF Join, Others
  <2> HIDE DEF m, r
  <2>5. Grows /\ Rooted' /\ MembersAgree' /\ Founders'
    BY <2>1, <2>2, <2>3, <2>4, RowJoins
  <2>6. Session(member[r].person).step \in {"idle", "session"}
    BY DEF Session, Idle
  <2> QED
    BY <2>4, <2>5, <2>6, Rests, OthersAim DEF Agreement
<1>4. ASSUME NEW r \in Rows, ExpireInvite(r) PROVE Agreement
  <2> DEFINE m == [member[r] EXCEPT !.invite = "expired"]
  <2>1. member[r].at # NoOne /\ member[r] \in Member
    BY <1>4 DEF ExpireInvite, TeamInv, Rooted, Typed
  <2>2. /\ m \in Member /\ m.at = member[r].at /\ m.person = member[r].person
        /\ m.joined = member[r].joined /\ m.active = member[r].active
        /\ m.status = member[r].status /\ m.role = member[r].role
    BY <2>1 DEF Member
  <2>3. /\ member' = [member EXCEPT ![r] = m]
        /\ UNCHANGED <<account, owner, request>>
    BY <1>4 DEF ExpireInvite
  <2>4. /\ member[r].active <=> member[r].status = "active"
        /\ member[r].active => member[r].joined
        /\ Founds(r) => member[r].active /\ member[r].role = "owner"
    BY <2>1 DEF TeamInv, MembersAgree, Founders
  <2> HIDE DEF m
  <2>5. Grows /\ Rooted' /\ MembersAgree' /\ Founders'
    BY <2>1, <2>2, <2>3, <2>4, RowEdited
  <2> QED
    BY <2>3, <2>5, AimsKept DEF Agreement
<1> QED
  BY <1>1, <1>2, <1>3, <1>4 DEF Answer

LEMMA NextTeam == TeamInv /\ [Next]_vars => TeamInv'
<1> SUFFICES ASSUME TeamInv, [Next]_vars PROVE Typed' /\ Agreement
  BY DEF TeamInv, Agreement
<1>1. Typed'
  BY NextTyped DEF TeamInv
<1>2. Agreement
  BY SessionsAgree, ManageAgrees, AnswerAgrees DEF Next
<1> QED
  BY <1>1, <1>2

LEMMA AlwaysTeam == Spec => []TeamInv
BY InitTeam, NextTeam, PTL DEF Spec

\* Whatever owners do to one another at the same time, the person who created
\* a business stays an active owner of it.
THEOREM FoundersStay == Spec => []FounderStays
<1>1. TeamInv => FounderStays
  <2> SUFFICES ASSUME TeamInv, NEW b \in Businesses, owner[b] # NoOne
               PROVE  \E r \in Joined(b, owner[b]) :
                        member[r].active /\ member[r].role = "owner"
    BY DEF FounderStays
  <2>1. PICK r \in Rows : member[r].at = b /\ Founds(r)
    BY DEF TeamInv, Founders
  <2> QED
    BY <2>1 DEF TeamInv, Founders, Founds, Joined, RowsAt
<1> QED
  BY <1>1, AlwaysTeam, PTL

\* A person is in the team of a business by one row, whose marks agree, for any
\* number of owners at work.
THEOREM MembersStayInAgreement == Spec => []MembersAgree
<1>1. TeamInv => MembersAgree
  BY DEF TeamInv
<1> QED
  BY <1>1, AlwaysTeam, PTL
=============================================================================
