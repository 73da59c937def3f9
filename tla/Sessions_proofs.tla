-------------------------- MODULE Sessions_proofs --------------------------
(***************************************************************************)
(* Proofs about Sessions, for any number of users, browsers, requests and  *)
(* tokens, and for any lengths of the grace period, a token's life, the    *)
(* retention and a request.                                                *)
(***************************************************************************)
EXTENDS Sessions, TLAPS

USE DEF accounts, jars, history

-----------------------------------------------------------------------------
(* Type correctness.                                                       *)

LEMMA ClockFacts ==
  ASSUME TypeOK, NEW r \in Requests, NEW now \in Readings(r)
  PROVE  now \in Times /\ now \in Nat /\ now + Ttl \in Expiries
                       /\ request[r].at <= now /\ now <= clock
BY TimeAssumption DEF TypeOK, Readings, Times, Expiries, RequestState

LEMMA IdleType == IdleRequest \in RequestState
BY TimeAssumption DEF IdleRequest, RequestState, Times

LEMMA TypeInit == Init => TypeOK
<1> SUFFICES ASSUME Init PROVE TypeOK
  OBVIOUS
<1>1. 0 \in Times
  BY TimeAssumption DEF Times
<1>. QED
  BY <1>1, IdleType DEF Init, TypeOK

(* A request begins or moves on within its type.                           *)
LEMMA TypeBegin ==
  ASSUME TypeOK, NEW r \in Requests, NEW next \in RequestState, Begin(r, next)
  PROVE  request' \in [Requests -> RequestState]
BY DEF TypeOK, Begin

LEMMA TypeMove ==
  ASSUME TypeOK, NEW r \in Requests, NEW next \in RequestState
  PROVE  [request EXCEPT ![r] = next] \in [Requests -> RequestState]
BY DEF TypeOK

LEMMA TypeRevokeAll ==
  ASSUME TypeOK, NEW u \in Users, NEW now \in Times, RevokeAll(u, now)
  PROVE  token' \in [Tokens -> Rows \union {NoRow}]
<1> SUFFICES ASSUME NEW t \in Tokens
             PROVE  (IF token[t].owner = u THEN Revoked(token[t], now)
                                           ELSE token[t]) \in Rows \union {NoRow}
  BY DEF RevokeAll
<1>1. token[t] \in Rows \union {NoRow}
  BY DEF TypeOK
<1>2. CASE token[t] \in Rows
  BY <1>2 DEF Rows, Revoked
<1>3. CASE token[t] = NoRow
  BY <1>3, NoneAssumption DEF NoRow
<1>. QED
  BY <1>1, <1>2, <1>3

LEMMA TypeStart ==
  ASSUME TypeOK, NEW r \in Requests, NEW b \in Browsers, Start(r, b)
  PROVE  TypeOK'
<1> USE DEF TypeOK, Begin, IdleRequest, RequestState
<1>1. ASSUME NEW u \in Users, NEW p \in Passwords, Signup(r, b, u, p)
      PROVE  TypeOK'
  BY <1>1 DEF Signup
<1>2. ASSUME NEW u \in Users, Login(r, b, u)
      PROVE  TypeOK'
  BY <1>2 DEF Login
<1>3. ASSUME Refresh(r, b)
      PROVE  TypeOK'
  <2> DEFINE t == cookie[b]
             q == [IdleRequest EXCEPT
                     !.pc = "rotate", !.browser = b, !.token = t, !.at = clock,
                     !.live = Live(t),
                     !.late = account[born[t].owner] = "deleted"]
  <2>1. Live(t) \in BOOLEAN /\ (account[born[t].owner] = "deleted") \in BOOLEAN
    BY DEF Live, Exists
  <2>2. q \in RequestState
    BY <2>1
  <2>3. request' = [request EXCEPT ![r] = q]
    BY <1>3 DEF Refresh
  <2>4. request' \in [Requests -> RequestState]
    BY <2>2, <2>3
  <2>. QED
    BY <1>3, <2>4 DEF Refresh, accounts, jars, history
<1>4. ASSUME Logout(r, b)
      PROVE  TypeOK'
  BY <1>4 DEF Logout
<1>5. ASSUME NEW u \in Users, NEW p \in Passwords, ChangePassword(r, b, u, p)
      PROVE  TypeOK'
  BY <1>5 DEF ChangePassword
<1>6. ASSUME NEW u \in Users, DeleteAccount(r, b, u)
      PROVE  TypeOK'
  BY <1>6 DEF DeleteAccount
<1>. QED
  BY <1>1, <1>2, <1>3, <1>4, <1>5, <1>6 DEF Start

LEMMA NewRowType ==
  ASSUME NEW r \in Requests, NEW u \in Users, NEW now \in Times,
         NEW parent \in Tokens \union {None}, NEW p \in Passwords \union {None}
  PROVE  NewRow(u, now) \in Rows /\ Birth(u, parent, now, p) \in Births
BY TimeAssumption DEF NewRow, Rows, Birth, Births, Times, Expiries

LEMMA TypeServe ==
  ASSUME TypeOK, RequestsSound, NEW r \in Requests, Serve(r)
  PROVE  TypeOK'
<1>1. request[r] \in RequestState /\ RequestSound(request[r])
  BY DEF TypeOK, RequestsSound
<1>2. CASE Rehash(r)
  <2>1. request' \in [Requests -> RequestState]
    BY <1>1, <1>2 DEF Rehash, ToIssue, TypeOK, RequestState
  <2>2. /\ password' \in [Users -> Passwords \union {None}] /\ stale' \subseteq Users
        /\ UNCHANGED <<clock, account, token, cookie, access, born, chosen>>
    <3>1. request[r].password \in Passwords \union {None}
      BY <1>1 DEF RequestState
    <3>. QED
      BY <1>2, <3>1 DEF Rehash, TypeOK
  <2>. QED
    BY <2>1, <2>2 DEF TypeOK
<1>3. CASE RehashFails(r)
  <2>1. request' \in [Requests -> RequestState]
    BY <1>1, <1>3 DEF RehashFails, ToIssue, TypeOK, RequestState
  <2>. QED
    BY <1>3, <2>1 DEF RehashFails, accounts, jars, history, TypeOK
<1>4. CASE RotateUnknown(r) \/ RotateExpired(r)
  <2>1. PICK v \in {"unknown", "expired"} : Verdict(r, v)
    BY <1>4 DEF RotateUnknown, RotateExpired
  <2>2. request \in [Requests -> RequestState]
    BY DEF TypeOK
  <2>3. [request[r] EXCEPT !.pc = "refuse", !.verdict = v] \in RequestState
    BY <1>1 DEF RequestState
  <2>4. request' = [request EXCEPT
                      ![r] = [request[r] EXCEPT !.pc = "refuse", !.verdict = v]]
    BY <2>1, <2>2 DEF Verdict, RequestState
  <2>5. request' \in [Requests -> RequestState]
    BY <2>2, <2>3, <2>4
  <2>. QED
    BY <1>4, <2>5 DEF RotateUnknown, RotateExpired, TypeOK
<1>5. CASE FindUser(r) \/ FindUserFails(r)
  <2>1. PICK pc \in {"answer", "refuse"} : request' = [request EXCEPT ![r].pc = pc]
    BY <1>5 DEF FindUser, FindUserFails
  <2>2. request' \in [Requests -> RequestState]
    BY <1>1, <2>1 DEF TypeOK, RequestState
  <2>. QED
    BY <1>5, <2>2 DEF FindUser, FindUserFails, TypeOK
<1>6. CASE Refuse(r)
  BY <1>6, IdleType DEF Refuse, TypeOK
<1>7. CASE Abandon(r)
  BY <1>7, IdleType DEF Abandon, TypeOK
<1>8. CASE Answer(r)
  <2>1. request[r].token \in Tokens /\ request[r].user \in Users
    BY <1>1, <1>8 DEF Answer, RequestState, RequestSound
  <2>. QED
    BY <1>8, <2>1, IdleType DEF Answer, TypeOK
<1>9. CASE Issue(r)
  <2>1. request[r].user \in Users
    BY <1>1, <1>9 DEF Issue, RequestState, RequestSound
  <2>2. PICK t \in Tokens, now \in Readings(r) :
          /\ token' = [token EXCEPT ![t] = NewRow(request[r].user, now)]
          /\ born' = [born EXCEPT
               ![t] = Birth(request[r].user, None, now, chosen[request[r].user])]
          /\ request' = [request EXCEPT ![r].pc = "answer", ![r].token = t]
    BY <1>9 DEF Issue
  <2>3. now \in Times
    BY ClockFacts
  <2>4. chosen[request[r].user] \in Passwords \union {None}
    BY <2>1 DEF TypeOK
  <2>5. /\ NewRow(request[r].user, now) \in Rows
        /\ Birth(request[r].user, None, now, chosen[request[r].user]) \in Births
    BY <2>1, <2>3, <2>4, NewRowType
  <2>6. request' \in [Requests -> RequestState]
    BY <1>1, <2>2 DEF TypeOK, RequestState
  <2>. QED
    BY <1>9, <2>2, <2>5, <2>6 DEF Issue, TypeOK
<1>10. CASE RotateReused(r)
  <2>1. token[request[r].token].owner \in Users
    BY <1>1, <1>10, NoneAssumption
    DEF RotateReused, RequestSound, RequestState, TypeOK, Rows, NoRow
  <2>2. token' \in [Tokens -> Rows \union {NoRow}]
    BY <1>10, <2>1, ClockFacts, TypeRevokeAll DEF RotateReused
  <2>3. request' \in [Requests -> RequestState]
    BY <1>1, <1>10 DEF RotateReused, Verdict, TypeOK, RequestState
  <2>. QED
    BY <1>10, <2>2, <2>3 DEF RotateReused, TypeOK
<1>11. CASE RotateReplace(r)
  <2> DEFINE old == request[r].token
             row == token[old]
  <2>1. old \in Tokens /\ row \in Rows /\ row.owner \in Users
    BY <1>1, <1>11 DEF RotateReplace, RequestSound, RequestState, TypeOK, Rows, NoRow
  <2>2. PICK t \in Tokens, now \in Readings(r) :
          /\ Exchange(r, t, row, now)
          /\ token' = [token EXCEPT ![t] = NewRow(row.owner, now),
                                   ![old].revoked = now, ![old].successor = t]
    BY <1>11 DEF RotateReplace
  <2>3. now \in Times /\ born[old].password \in Passwords \union {None}
    BY <2>1, ClockFacts DEF TypeOK, Births, Unborn
  <2>4. /\ NewRow(row.owner, now) \in Rows
        /\ Birth(row.owner, old, now, born[old].password) \in Births
    BY <2>1, <2>3, NewRowType
  <2>5. token' \in [Tokens -> Rows \union {NoRow}]
    BY <2>1, <2>2, <2>3, <2>4 DEF TypeOK, Rows
  <2>6. born' \in [Tokens -> Births \union {Unborn}]
    BY <2>2, <2>4 DEF Exchange, TypeOK
  <2>7. request' \in [Requests -> RequestState]
    BY <1>1, <2>1, <2>2 DEF Exchange, TypeOK, RequestState
  <2>. QED
    BY <1>11, <2>5, <2>6, <2>7 DEF RotateReplace, TypeOK
<1>12. CASE RotateSibling(r)
  <2> DEFINE old == request[r].token
             row == token[old]
  <2>1. old \in Tokens /\ row \in Rows /\ row.owner \in Users
    BY <1>1, <1>12 DEF RotateSibling, RequestSound, RequestState, TypeOK, Rows, NoRow
  <2>2. PICK t \in Tokens, now \in Readings(r) :
          /\ Exchange(r, t, row, now)
          /\ token' = [token EXCEPT ![t] = NewRow(row.owner, now)]
    BY <1>12 DEF RotateSibling
  <2>3. now \in Times /\ born[old].password \in Passwords \union {None}
    BY <2>1, ClockFacts DEF TypeOK, Births, Unborn
  <2>4. /\ NewRow(row.owner, now) \in Rows
        /\ Birth(row.owner, old, now, born[old].password) \in Births
    BY <2>1, <2>3, NewRowType
  <2>5. token' \in [Tokens -> Rows \union {NoRow}]
    BY <2>1, <2>2, <2>3, <2>4 DEF TypeOK, Rows
  <2>6. born' \in [Tokens -> Births \union {Unborn}]
    BY <2>2, <2>4 DEF Exchange, TypeOK
  <2>7. request' \in [Requests -> RequestState]
    BY <1>1, <2>1, <2>2 DEF Exchange, TypeOK, RequestState
  <2>. QED
    BY <1>12, <2>5, <2>6, <2>7 DEF RotateSibling, TypeOK
<1>13. CASE EndSession(r)
  <2>1. request' \in [Requests -> RequestState]
    BY <1>1, <1>13 DEF EndSession, TypeOK, RequestState
  <2>2. PICK now \in Readings(r) :
          token' = IF Exists(request[r].token)
                   THEN [token EXCEPT
                           ![request[r].token] = Revoked(token[request[r].token], now)]
                   ELSE token
    BY <1>13 DEF EndSession
  <2>3. ASSUME request[r].token \in Tokens, Exists(request[r].token)
        PROVE  Revoked(token[request[r].token], now) \in Rows
    BY <2>3, ClockFacts DEF Exists, TypeOK, Rows, NoRow, Revoked
  <2>4. token' \in [Tokens -> Rows \union {NoRow}]
    BY <1>1, <1>13, <2>2, <2>3 DEF EndSession, TypeOK, RequestSound, RequestState
  <2>. QED
    BY <1>13, <2>1, <2>4 DEF EndSession, TypeOK
<1>14. CASE ChangeCommit(r)
  <2>1. request[r].user \in Users
    BY <1>1, <1>14 DEF ChangeCommit, RequestSound, RequestState
  <2>2. token' \in [Tokens -> Rows \union {NoRow}]
    BY <1>14, <2>1, ClockFacts, TypeRevokeAll DEF ChangeCommit
  <2>3. request' \in [Requests -> RequestState]
    BY <1>1, <1>14 DEF ChangeCommit, TypeOK, RequestState
  <2>. QED
    BY <1>1, <1>14, <2>1, <2>2, <2>3 DEF ChangeCommit, TypeOK, RequestState
<1>15. CASE LeaveCommit(r)
  <2>1. request[r].user \in Users
    BY <1>1, <1>15 DEF LeaveCommit, RequestSound, RequestState
  <2>2. token' \in [Tokens -> Rows \union {NoRow}]
    BY <1>15, <2>1, ClockFacts, TypeRevokeAll DEF LeaveCommit
  <2>3. request' \in [Requests -> RequestState]
    BY <1>1, <1>15 DEF LeaveCommit, TypeOK, RequestState
  <2>. QED
    BY <1>1, <1>15, <2>1, <2>2, <2>3 DEF LeaveCommit, TypeOK, RequestState
<1>. QED
  BY <1>2, <1>3, <1>4, <1>5, <1>6, <1>7, <1>8, <1>9, <1>10, <1>11, <1>12, <1>13,
     <1>14, <1>15 DEF Serve, Rotate

LEMMA TypeStep ==
  ASSUME TypeOK, RequestsSound, [Next]_vars
  PROVE  TypeOK'
<1>1. CASE \E r \in Requests, b \in Browsers : Start(r, b)
  BY <1>1, TypeStart
<1>2. CASE \E r \in Requests : Serve(r)
  BY <1>2, TypeServe
<1>3. CASE \E b, c \in Browsers : CopyCookie(b, c)
  BY <1>3 DEF CopyCookie, TypeOK
<1>4. CASE Clean
  <2>1. PICK gone \in SUBSET Tokens :
          token' = [t \in Tokens |->
            IF t \in gone THEN NoRow
            ELSE IF token[t].successor \in gone
                 THEN [token[t] EXCEPT !.successor = None]
                 ELSE token[t]]
    BY <1>4 DEF Clean, Deletable
  <2>2. ASSUME NEW t \in Tokens, token[t].successor \in gone
        PROVE  [token[t] EXCEPT !.successor = None] \in Rows
    BY <2>1, <2>2, NoneAssumption DEF TypeOK, Rows, NoRow
  <2>. QED
    BY <1>4, <2>1, <2>2 DEF Clean, TypeOK
<1>5. CASE Tick
  BY <1>5, TimeAssumption DEF Tick, TypeOK, Times
<1>6. CASE UNCHANGED vars
  BY <1>6 DEF vars, TypeOK
<1>. QED
  BY <1>1, <1>2, <1>3, <1>4, <1>5, <1>6 DEF Next

-----------------------------------------------------------------------------
(* What a step can do to the row and the birth of a token.                 *)

Issuing(t) ==
  LET p == born'[t].parent
  IN  /\ Fresh(t)
      /\ token'[t].owner # None
      /\ token'[t].owner = born'[t].owner
      /\ token'[t].expires = born'[t].expires
      /\ token'[t].expires <= clock + Ttl
      /\ token'[t].revoked = None /\ token'[t].successor = None
      /\ p # None => /\ p \in Tokens /\ ~ Fresh(p)
                     /\ token'[p].revoked # None /\ token'[p].successor # None

SameLife(t) ==
  token'[t].owner = token[t].owner /\ token'[t].expires = token[t].expires

Revoking(t) ==
  /\ Exists(t) /\ token[t].revoked = None
  /\ SameLife(t)
  /\ token'[t].revoked \in Nat /\ clock <= token'[t].revoked + MaxDelay
  /\ LET s == token'[t].successor
     IN  \/ s = token[t].successor
         \/ /\ s \in Tokens /\ Issuing(s)
            /\ token'[s].owner = token[t].owner
            /\ token'[s].expires >= token[t].expires

RowStep(t) ==
  /\ token'[t] = token[t] \/ Issuing(t) \/ Revoking(t)
  /\ born'[t] = born[t] \/ Issuing(t)

(* The janitor's step.                                                     *)
Deleting(t) ==
  /\ Exists(t) /\ token[t].expires + Retention < clock
  /\ token'[t] = NoRow

Forgetting(t) ==
  /\ token[t].successor \in Tokens /\ Deleting(token[t].successor)
  /\ SameLife(t) /\ token'[t].revoked = token[t].revoked
  /\ token'[t].successor = None

Staying(t) ==
  /\ token'[t] = token[t]
  /\ token[t].successor # None => SameLife(token[t].successor)

CleanStep(t) ==
  /\ Deleting(t) \/ Forgetting(t) \/ Staying(t)
  /\ born'[t] = born[t]

LEMMA RowFacts ==
  ASSUME TypeOK, NEW t \in Tokens
  PROVE  /\ Exists(t) => token[t] \in Rows
         /\ ~ Exists(t) => token[t] = NoRow
         /\ token[t].expires \in Nat
         /\ token[t].revoked \in Nat \union {None}
         /\ token[t].successor \in Tokens \union {None}
         /\ born[t].expires \in Nat
         /\ born[t].owner \in Users \union {None}
         /\ born[t].parent \in Tokens \union {None}
<1>1. (\A x \in Times : x \in Nat) /\ (\A x \in Expiries : x \in Nat)
  BY TimeAssumption DEF Times, Expiries
<1>2. token[t] \in Rows \union {NoRow} /\ born[t] \in Births \union {Unborn}
  BY DEF TypeOK
<1>3. /\ born[t].expires \in Nat
      /\ born[t].owner \in Users \union {None}
      /\ born[t].parent \in Tokens \union {None}
  BY <1>1, <1>2 DEF Births, Unborn
<1>4. CASE token[t] \in Rows
  BY <1>1, <1>3, <1>4, NoneAssumption DEF Exists, Rows
<1>5. CASE token[t] = NoRow
  BY <1>3, <1>5 DEF Exists, NoRow
<1>. QED
  BY <1>2, <1>4, <1>5

LEMMA ReadingFacts ==
  ASSUME IInv, NEW r \in Requests, request[r].pc # "idle", NEW now \in Readings(r)
  PROVE  /\ now \in Nat /\ clock \in Nat /\ request[r].at \in Nat
         /\ request[r].at <= now /\ now <= clock /\ clock <= now + MaxDelay
BY TimeAssumption, ClockFacts
DEF IInv, TypeOK, Times, RequestState, RequestsSound, RequestSound

LEMMA FreshFacts ==
  ASSUME IInv, NEW t \in Tokens, Fresh(t)
  PROVE  /\ ~ Exists(t)
         /\ \A s \in Tokens : token[s].successor # t
<1>1. ~ Exists(t)
  BY DEF IInv, RowsSound, Fresh, Exists
<1>2. ASSUME NEW s \in Tokens, token[s].successor = t PROVE FALSE
  BY <1>1, <1>2, NoneAssumption DEF IInv, SuccessorsOutlive
<1>. QED
  BY <1>1, <1>2

LEMMA RevokeAllRows ==
  ASSUME IInv, NEW r \in Requests, request[r].pc # "idle", NEW u \in Users,
         NEW now \in Readings(r), RevokeAll(u, now), UNCHANGED born,
         NEW t \in Tokens
  PROVE  RowStep(t)
<1>1. token'[t] = IF token[t].owner = u THEN Revoked(token[t], now) ELSE token[t]
  BY DEF RevokeAll
<1>2. CASE token[t].owner = u /\ token[t].revoked = None
  <2>1. token[t] \in Rows /\ Exists(t)
    BY <1>2, RowFacts, NoneAssumption DEF Exists, IInv
  <2>2. token'[t] = [token[t] EXCEPT !.revoked = now]
    BY <1>1, <1>2 DEF Revoked
  <2>3. Revoking(t)
    BY <1>2, <2>1, <2>2, ReadingFacts DEF Revoking, SameLife, Rows
  <2>. QED
    BY <2>3 DEF RowStep
<1>3. CASE ~ (token[t].owner = u /\ token[t].revoked = None)
  BY <1>1, <1>3 DEF Revoked, RowStep
<1>. QED
  BY <1>2, <1>3

LEMMA IssueRows ==
  ASSUME IInv, NEW r \in Requests, Issue(r), NEW t \in Tokens
  PROVE  RowStep(t)
<1>1. PICK s \in Tokens, now \in Readings(r) :
        /\ Fresh(s)
        /\ token' = [token EXCEPT ![s] = NewRow(request[r].user, now)]
        /\ born' = [born EXCEPT
             ![s] = Birth(request[r].user, None, now, chosen[request[r].user])]
  BY DEF Issue
<1>2. request[r].user \in Users
  BY DEF Issue, IInv, TypeOK, RequestsSound, RequestSound, RequestState
<1>3. now \in Nat /\ clock \in Nat /\ now <= clock
  BY ReadingFacts DEF Issue
<1>4. CASE t = s
  BY <1>1, <1>2, <1>3, <1>4, TimeAssumption, NoneAssumption
  DEF RowStep, Issuing, NewRow, Birth, IInv, TypeOK
<1>5. CASE t # s
  BY <1>1, <1>5 DEF RowStep, IInv, TypeOK
<1>. QED
  BY <1>4, <1>5

LEMMA SiblingRows ==
  ASSUME IInv, NEW r \in Requests, RotateSibling(r), NEW t \in Tokens
  PROVE  RowStep(t)
<1> DEFINE old == request[r].token
           row == token[old]
<1>1. PICK s \in Tokens, now \in Readings(r) :
        /\ WithinGrace(row, now)
        /\ Exchange(r, s, row, now)
        /\ token' = [token EXCEPT ![s] = NewRow(row.owner, now)]
  BY DEF RotateSibling
<1>2. old \in Tokens /\ ~ Fresh(old) /\ row.owner # None /\ row.revoked # None
  BY DEF RotateSibling, IInv, TypeOK, RequestsSound, RequestSound, RequestState
<1>3. now \in Nat /\ clock \in Nat /\ now <= clock
  BY ReadingFacts DEF RotateSibling
<1>4. old # s /\ Fresh(s)
  BY <1>1, <1>2 DEF Exchange
<1>5. CASE t = s
  BY <1>1, <1>2, <1>3, <1>4, <1>5, TimeAssumption
  DEF RowStep, Issuing, NewRow, Birth, Exchange, WithinGrace, IInv, TypeOK
<1>6. CASE t # s
  BY <1>1, <1>6 DEF RowStep, Exchange, IInv, TypeOK
<1>. QED
  BY <1>5, <1>6

LEMMA ReplaceRows ==
  ASSUME IInv, NEW r \in Requests, RotateReplace(r), NEW t \in Tokens
  PROVE  RowStep(t)
<1> DEFINE old == request[r].token
           row == token[old]
<1>1. PICK s \in Tokens, now \in Readings(r) :
        /\ Exchange(r, s, row, now)
        /\ token' = [token EXCEPT ![s] = NewRow(row.owner, now),
                                  ![old].revoked = now, ![old].successor = s]
  BY DEF RotateReplace
<1>2. old \in Tokens /\ ~ Fresh(old) /\ Exists(old) /\ row.revoked = None
  BY DEF RotateReplace, IInv, TypeOK, RequestsSound, RequestSound, RequestState,
         Exists
<1>3. /\ now \in Nat /\ clock \in Nat /\ request[r].at \in Nat
      /\ request[r].at <= now /\ now <= clock /\ clock <= now + MaxDelay
  BY ReadingFacts DEF RotateReplace
<1>4. old # s /\ Fresh(s)
  BY <1>1, <1>2 DEF Exchange
<1>5. row \in Rows /\ row.expires \in Nat
  BY <1>2, RowFacts DEF IInv
<1>6. row.expires <= now + Ttl
  <2>1. born[old].expires <= request[r].at + Ttl
    BY DEF RotateReplace, IInv, RequestsSound, RequestSound
  <2>2. row.expires = born[old].expires
    BY <1>2 DEF IInv, RowsSound
  <2>. QED
    BY <1>3, <1>5, <2>1, <2>2, TimeAssumption
<1>7. /\ token'[s] = NewRow(row.owner, now)
      /\ SameLife(old)
      /\ token'[old].revoked = now /\ token'[old].successor = s
  BY <1>1, <1>2, <1>4, <1>5 DEF SameLife, IInv, TypeOK, Rows
<1>8. Issuing(s)
  <2>1. born'[s] = Birth(row.owner, old, now, born[old].password)
    BY <1>1 DEF Exchange, IInv, TypeOK
  <2>2. row.owner # None /\ now # None /\ s # None
    BY <1>2, <1>3, NoneAssumption DEF Exists
  <2>3. now + Ttl <= clock + Ttl
    BY <1>3, TimeAssumption
  <2>. QED
    BY <1>2, <1>4, <1>7, <2>1, <2>2, <2>3 DEF Issuing, NewRow, Birth
<1>9. Revoking(old)
  <2>1. token'[s].expires >= row.expires /\ token'[s].owner = row.owner
    BY <1>3, <1>5, <1>6, <1>7, TimeAssumption DEF NewRow
  <2>. QED
    BY <1>2, <1>3, <1>7, <1>8, <2>1 DEF Revoking
<1>10. born'[old] = born[old]
  BY <1>1, <1>2, <1>4 DEF Exchange, IInv, TypeOK
<1>11. CASE t \notin {s, old}
  BY <1>1, <1>11 DEF RowStep, Exchange, IInv, TypeOK
<1>. QED
  BY <1>8, <1>9, <1>10, <1>11 DEF RowStep

LEMMA LogoutRows ==
  ASSUME IInv, NEW r \in Requests, EndSession(r), NEW t \in Tokens
  PROVE  RowStep(t)
<1>1. PICK now \in Readings(r) :
        token' = IF Exists(request[r].token)
                 THEN [token EXCEPT
                         ![request[r].token] = Revoked(token[request[r].token], now)]
                 ELSE token
  BY DEF EndSession
<1>2. CASE t = request[r].token /\ Exists(t) /\ token[t].revoked = None
  <2>1. token[t] \in Rows
    BY <1>2, RowFacts DEF IInv
  <2>2. token'[t] = [token[t] EXCEPT !.revoked = now]
    BY <1>1, <1>2 DEF Revoked, IInv, TypeOK
  <2>3. Revoking(t)
    BY <1>2, <2>1, <2>2, ReadingFacts DEF Revoking, SameLife, Rows, EndSession
  <2>. QED
    BY <2>3 DEF RowStep, EndSession
<1>3. CASE ~ (t = request[r].token /\ Exists(t) /\ token[t].revoked = None)
  BY <1>1, <1>3 DEF Revoked, RowStep, IInv, TypeOK, EndSession
<1>. QED
  BY <1>2, <1>3

LEMMA CleanRows ==
  ASSUME IInv, Clean, NEW t \in Tokens
  PROVE  CleanStep(t)
<1>1. PICK gone \in SUBSET Deletable :
        token' = [s \in Tokens |->
          IF s \in gone THEN NoRow
          ELSE IF token[s].successor \in gone
               THEN [token[s] EXCEPT !.successor = None]
               ELSE token[s]]
  BY DEF Clean
<1>2. \A s \in gone : s \in Tokens /\ Deleting(s)
  BY <1>1 DEF Deletable, Deleting
<1>3. ASSUME NEW s \in Tokens, s \notin gone, token[s].successor \in gone
      PROVE  SameLife(s) /\ Forgetting(s)
  <2>1. token[s] \in Rows
    BY <1>2, <1>3, RowFacts, NoneAssumption DEF IInv, NoRow
  <2>2. token'[s] = [token[s] EXCEPT !.successor = None]
    BY <1>1, <1>3
  <2>. QED
    BY <1>2, <1>3, <2>1, <2>2 DEF Forgetting, SameLife, Rows
<1>4. ASSUME NEW s \in Tokens, s \notin gone PROVE SameLife(s)
  BY <1>1, <1>3, <1>4 DEF SameLife
<1>5. ASSUME t \notin gone, token[t].successor \notin gone PROVE Staying(t)
  BY <1>1, <1>4, <1>5, RowFacts DEF Staying, IInv
<1>. QED
  BY <1>2, <1>3, <1>5 DEF CleanStep, Clean

(* Every step changes all tokens in one of these two ways, and time does   *)
(* not go back.                                                            *)
LEMMA RowsMove ==
  ASSUME IInv, [Next]_vars
  PROVE  /\ (\A t \in Tokens : RowStep(t)) \/ (\A t \in Tokens : CleanStep(t))
         /\ clock \in Nat /\ clock' \in Nat /\ clock <= clock'
<1>0. clock \in Nat
  BY DEF IInv, TypeOK, Times
<1> DEFINE Goal == /\ \/ \A t \in Tokens : RowStep(t)
                      \/ \A t \in Tokens : CleanStep(t)
                   /\ clock' \in Nat /\ clock <= clock'
<1>. SUFFICES Goal
  BY <1>0
<1>1. ASSUME UNCHANGED <<token, born>>, clock' \in {clock, clock + 1} PROVE Goal
  BY <1>0, <1>1 DEF RowStep
<1>2. ASSUME NEW r \in Requests, NEW b \in Browsers, Start(r, b) PROVE Goal
  BY <1>1, <1>2 DEF Start, Refresh, Logout, Login, DeleteAccount, Signup, ChangePassword
<1>3. ASSUME NEW r \in Requests, Serve(r) PROVE Goal
  <2>1. CASE Issue(r)
    <3>1. clock' = clock
      BY <2>1 DEF Issue
    <3>. QED
      BY <1>0, <2>1, <3>1, IssueRows
  <2>2. CASE RotateReused(r)
    <3>1. token[request[r].token].owner \in Users
      BY <2>2, RowFacts DEF RotateReused, IInv, TypeOK, RequestsSound,
         RequestSound, RequestState, Rows, Exists
    <3>. QED
      BY <1>0, <2>2, <3>1, RevokeAllRows DEF RotateReused
  <2>3. CASE RotateReplace(r)
    <3>1. clock' = clock
      BY <2>3 DEF RotateReplace
    <3>. QED
      BY <1>0, <2>3, <3>1, ReplaceRows
  <2>4. CASE RotateSibling(r)
    <3>1. clock' = clock
      BY <2>4 DEF RotateSibling
    <3>. QED
      BY <1>0, <2>4, <3>1, SiblingRows
  <2>5. CASE EndSession(r)
    <3>1. clock' = clock
      BY <2>5 DEF EndSession
    <3>. QED
      BY <1>0, <2>5, <3>1, LogoutRows
  <2>6. CASE ChangeCommit(r) \/ LeaveCommit(r)
    <3>1. request[r].user \in Users
      BY <2>6 DEF ChangeCommit, LeaveCommit, IInv, TypeOK, RequestsSound,
         RequestSound, RequestState
    <3>. QED
      BY <1>0, <2>6, <3>1, RevokeAllRows DEF ChangeCommit, LeaveCommit
  <2>7. CASE \/ Rehash(r) \/ RehashFails(r) \/ RotateUnknown(r) \/ RotateExpired(r)
             \/ FindUser(r) \/ FindUserFails(r)
             \/ Answer(r) \/ Refuse(r) \/ Abandon(r)
    BY <1>1, <2>7 DEF Rehash, RehashFails, RotateUnknown, RotateExpired, FindUser,
       FindUserFails, Answer, Refuse, Abandon
  <2>. QED
    BY <1>3, <2>1, <2>2, <2>3, <2>4, <2>5, <2>6, <2>7 DEF Serve, Rotate
<1>4. CASE \E b, c \in Browsers : CopyCookie(b, c)
  BY <1>1, <1>4 DEF CopyCookie
<1>5. CASE Clean
  BY <1>0, <1>5, CleanRows DEF Clean
<1>6. CASE Tick
  BY <1>1, <1>6 DEF Tick
<1>7. CASE UNCHANGED vars
  BY <1>1, <1>7 DEF vars
<1>. QED
  <2>1. Next \/ UNCHANGED vars
    OBVIOUS
  <2>. QED
    BY <1>0, <1>2, <1>3, <1>4, <1>5, <1>6, <1>7, <2>1 DEF Next

-----------------------------------------------------------------------------
(* The parts of the invariant that are about tokens alone.                 *)

LEMMA BornStays ==
  ASSUME IInv, [Next]_vars, NEW t \in Tokens, ~ Fresh(t)
  PROVE  born'[t] = born[t] /\ ~ Fresh(t)' /\ (~ Exists(t) => token'[t] = NoRow)
<1>1. ~ Exists(t) => token[t] = NoRow /\ token[t].successor = None
  BY RowFacts DEF IInv, NoRow
<1>2. CASE RowStep(t)
  BY <1>1, <1>2 DEF RowStep, Issuing, Revoking, Fresh
<1>3. CASE CleanStep(t)
  BY <1>1, <1>3, NoneAssumption DEF CleanStep, Deleting, Forgetting, Staying, Fresh
<1>. QED
  BY <1>2, <1>3, RowsMove

(* What a step leaves of a row that was there.                             *)
LEMMA RowStays ==
  ASSUME IInv, [Next]_vars, NEW t \in Tokens, Exists(t)
  PROVE  /\ Deleting(t) \/ SameLife(t)
         /\ ~ Fresh(t)
<1>1. ~ Fresh(t)
  BY FreshFacts
<1>2. CASE RowStep(t)
  BY <1>1, <1>2 DEF RowStep, Issuing, Revoking, SameLife
<1>3. CASE CleanStep(t)
  BY <1>1, <1>3 DEF CleanStep, Forgetting, Staying, SameLife
<1>. QED
  BY <1>1, <1>2, <1>3, RowsMove

LEMMA RowsStep ==
  ASSUME IInv, [Next]_vars
  PROVE  RowsSound' /\ BirthsSound'
<1>0. clock \in Nat /\ clock' \in Nat /\ clock <= clock'
  BY RowsMove
<1>1. ASSUME NEW t \in Tokens
      PROVE  /\ (Exists(t) => /\ token[t].owner = born[t].owner
                              /\ token[t].expires = born[t].expires)'
             /\ (~ Fresh(t) /\ ~ Exists(t) => born[t].expires + Retention < clock)'
             /\ (born[t].expires <= clock + Ttl)'
             /\ (born[t].parent # None => ~ Fresh(born[t].parent))'
  <2>1. CASE Fresh(t) /\ Issuing(t)
    <3>1. (born[t].parent # None => ~ Fresh(born[t].parent))'
      BY <2>1, BornStays DEF Issuing
    <3>2. born'[t].expires <= clock + Ttl
      BY <2>1 DEF Issuing
    <3>3. born'[t].expires <= clock' + Ttl
      <4>1. born'[t].expires \in Nat
        <5>1. born'[t] \in Births \union {Unborn}
          BY TypeStep DEF IInv, TypeOK
        <5>. QED
          BY <5>1, TimeAssumption DEF Births, Unborn, Expiries
      <4>. QED
        BY <1>0, <3>2, <4>1, TimeAssumption
    <3>. QED
      BY <2>1, <3>1, <3>3 DEF Issuing, Exists
  <2>2. CASE ~ (Fresh(t) /\ Issuing(t))
    <3>1. born'[t] = born[t]
      BY <2>2, RowsMove DEF RowStep, CleanStep, Issuing
    <3>2. (born[t].parent # None => ~ Fresh(born[t].parent))'
      BY <3>1, BornStays, RowFacts DEF IInv, BirthsSound
    <3>3. born'[t].expires <= clock' + Ttl
      BY <1>0, <3>1, RowFacts, TimeAssumption DEF IInv, BirthsSound
    <3>4. CASE Fresh(t)
      <4>1. ~ Exists(t) /\ token[t] = NoRow
        BY <3>4, FreshFacts, RowFacts DEF IInv
      <4>2. token'[t] = NoRow
        <5>1. CASE RowStep(t)
          BY <2>2, <3>4, <4>1, <5>1 DEF RowStep, Revoking
        <5>2. CASE CleanStep(t)
          BY <4>1, <5>2, NoneAssumption
          DEF CleanStep, Deleting, Forgetting, Staying, NoRow
        <5>. QED
          BY <5>1, <5>2, RowsMove
      <4>. QED
        BY <3>1, <3>2, <3>3, <3>4, <4>2 DEF Fresh, Exists, NoRow
    <3>5. CASE ~ Fresh(t) /\ Exists(t)
      <4>1. Deleting(t) \/ SameLife(t)
        BY <3>5, RowStays
      <4>2. token[t].expires = born[t].expires /\ token[t].owner = born[t].owner
        BY <3>5 DEF IInv, RowsSound
      <4>3. CASE Deleting(t)
        BY <1>0, <3>1, <3>2, <3>3, <4>2, <4>3, RowFacts, TimeAssumption
        DEF Deleting, Exists, NoRow, IInv
      <4>4. CASE SameLife(t)
        BY <3>1, <3>2, <3>3, <3>5, <4>2, <4>4 DEF SameLife, Exists
      <4>. QED
        BY <4>1, <4>3, <4>4
    <3>6. CASE ~ Fresh(t) /\ ~ Exists(t)
      <4>1. token'[t] = NoRow
        BY <3>6, BornStays
      <4>2. born[t].expires + Retention < clock'
        BY <1>0, <3>6, RowFacts, TimeAssumption DEF IInv, RowsSound
      <4>. QED
        BY <3>1, <3>2, <3>3, <4>1, <4>2 DEF Exists, NoRow
    <3>. QED
      BY <3>4, <3>5, <3>6
  <2>. QED
    BY <2>1, <2>2
<1>. QED
  BY <1>1 DEF RowsSound, BirthsSound

LEMMA SuccessorsStep ==
  ASSUME IInv, [Next]_vars
  PROVE  SuccessorsOutlive'
<1>1. SUFFICES ASSUME NEW t \in Tokens, token'[t].successor # None
               PROVE  LET s == token'[t].successor
                      IN  /\ token'[s].owner # None
                          /\ token'[s].owner = token'[t].owner
                          /\ token'[s].expires >= token'[t].expires
  BY DEF SuccessorsOutlive, Exists
<1> DEFINE s == token'[t].successor
<1>2. CASE s = token[t].successor /\ SameLife(t) /\ SameLife(s)
  BY <1>1, <1>2 DEF IInv, SuccessorsOutlive, SameLife, Exists
<1>3. CASE \A x \in Tokens : RowStep(x)
  <2>1. CASE s = token[t].successor /\ ~ Issuing(t)
    <3>1. s \in Tokens /\ Exists(s)
      BY <1>1, <2>1, RowFacts DEF IInv, SuccessorsOutlive
    <3>2. SameLife(t)
      BY <1>3, <2>1 DEF RowStep, Revoking, SameLife
    <3>3. SameLife(s)
      BY <1>3, <3>1, FreshFacts DEF RowStep, Issuing, Revoking, SameLife
    <3>. QED
      BY <1>2, <2>1, <3>2, <3>3
  <2>2. CASE Issuing(t)
    BY <1>1, <2>2 DEF Issuing
  <2>3. CASE s # token[t].successor /\ ~ Issuing(t)
    <3>1. Revoking(t)
      BY <1>3, <2>3 DEF RowStep
    <3>2. /\ s \in Tokens /\ Issuing(s)
          /\ token'[s].owner = token[t].owner
          /\ token'[s].expires >= token[t].expires
      BY <2>3, <3>1 DEF Revoking
    <3>3. token'[s].owner # None
      BY <3>2 DEF Issuing
    <3>. QED
      BY <3>1, <3>2, <3>3 DEF Revoking, SameLife
  <2>. QED
    BY <2>1, <2>2, <2>3
<1>4. CASE \A x \in Tokens : CleanStep(x)
  <2>1. Staying(t)
    BY <1>1, <1>4 DEF CleanStep, Deleting, Forgetting, NoRow
  <2>. QED
    BY <1>1, <1>2, <2>1 DEF Staying, SameLife
<1>. QED
  BY <1>3, <1>4, RowsMove

LEMMA SpentStays ==
  ASSUME IInv, [Next]_vars, NEW t \in Tokens, ~ Fresh(t), Spent(t)
  PROVE  Spent(t)'
<1>0. clock \in Nat /\ clock' \in Nat /\ clock <= clock' /\ token[t].expires \in Nat
  BY RowsMove, RowFacts DEF IInv
<1>1. CASE ~ Exists(t)
  BY <1>1, BornStays DEF Spent, Exists, NoRow
<1>2. CASE Exists(t) /\ token[t].expires <= clock
  BY <1>0, <1>2, RowStays DEF Spent, Exists, Deleting, SameLife, NoRow
<1>3. CASE Exists(t) /\ token[t].revoked # None /\ token[t].successor # None
  <2>1. CASE RowStep(t)
    BY <1>3, <2>1 DEF RowStep, Issuing, Revoking, Spent
  <2>2. CASE Deleting(t) \/ Staying(t)
    BY <1>3, <2>2 DEF Deleting, Staying, Spent, Exists, NoRow
  <2>3. CASE Forgetting(t)
    <3>1. LET s == token[t].successor
          IN  /\ token[s].expires \in Nat /\ token[s].expires + Retention < clock
              /\ token[t].expires <= token[s].expires
      BY <1>3, <2>3, RowFacts DEF Forgetting, Deleting, IInv, SuccessorsOutlive
    <3>2. token[t].expires <= clock
      BY <1>0, <3>1, TimeAssumption
    <3>. QED
      BY <1>2, <1>3, <3>2
  <2>. QED
    BY <2>1, <2>2, <2>3, RowsMove DEF CleanStep
<1>. QED
  BY <1>1, <1>2, <1>3 DEF Spent

LEMMA ParentsStep ==
  ASSUME IInv, [Next]_vars
  PROVE  ParentsSpent'
<1>1. SUFFICES ASSUME NEW s \in Tokens, born'[s].parent # None
               PROVE  Spent(born[s].parent)'
  BY DEF ParentsSpent
<1>2. CASE born'[s] = born[s]
  <2>1. born[s].parent \in Tokens /\ ~ Fresh(born[s].parent)
    BY <1>1, <1>2, RowFacts DEF IInv, BirthsSound
  <2>2. Spent(born[s].parent)
    BY <1>1, <1>2 DEF IInv, ParentsSpent
  <2>3. ASSUME NEW p \in Tokens, p = born[s].parent PROVE Spent(p)'
    BY <2>1, <2>2, <2>3, SpentStays
  <2>. QED
    BY <1>2, <2>1, <2>3 DEF Spent, Exists
<1>3. CASE Issuing(s)
  BY <1>1, <1>3 DEF Issuing, Spent
<1>. QED
  BY <1>2, <1>3, RowsMove DEF RowStep, CleanStep

-----------------------------------------------------------------------------
(* The parts that are about browsers and requests.                         *)

LEMMA CookiesStep ==
  ASSUME IInv, [Next]_vars
  PROVE  CookiesSound'
<1>1. SUFFICES ASSUME NEW b \in Browsers, cookie'[b] # None
               PROVE  ~ Fresh(cookie[b])'
  BY DEF CookiesSound
<1>2. ASSUME NEW t \in Tokens, ~ Fresh(t) PROVE ~ Fresh(t)'
  BY <1>2, BornStays
<1>3. SUFFICES cookie'[b] \in Tokens /\ ~ Fresh(cookie'[b])
  BY <1>2 DEF Fresh
<1>4. \A c \in Browsers : cookie[c] # None => cookie[c] \in Tokens /\ ~ Fresh(cookie[c])
  BY DEF IInv, TypeOK, CookiesSound
<1>5. CASE cookie' = cookie
  BY <1>1, <1>4, <1>5
<1>6. ASSUME NEW r \in Requests, Answer(r) PROVE cookie'[b] \in Tokens /\ ~ Fresh(cookie'[b])
  <2>1. request[r].token \in Tokens /\ ~ Fresh(request[r].token)
    BY <1>6 DEF Answer, IInv, TypeOK, RequestsSound, RequestSound, RequestState
  <2>. QED
    BY <1>1, <1>4, <1>6, <2>1 DEF Answer, IInv, TypeOK
<1>7. ASSUME NEW r \in Requests, Refuse(r) PROVE cookie'[b] \in Tokens /\ ~ Fresh(cookie'[b])
  BY <1>1, <1>4, <1>7 DEF Refuse, IInv, TypeOK
<1>8. ASSUME NEW c \in Browsers, NEW d \in Browsers, CopyCookie(c, d)
      PROVE  cookie'[b] \in Tokens /\ ~ Fresh(cookie'[b])
  BY <1>1, <1>4, <1>8 DEF CopyCookie, IInv, TypeOK
<1>9. CASE \E r \in Requests, c \in Browsers : Start(r, c)
  BY <1>5, <1>9 DEF Start, Refresh, Logout, Login, DeleteAccount, Signup, ChangePassword
<1>10. ASSUME NEW r \in Requests, Serve(r), ~ Answer(r), ~ Refuse(r) PROVE cookie' = cookie
  BY <1>10 DEF Serve, Rehash, RehashFails, Issue, Rotate, RotateUnknown, RotateExpired,
     RotateReused, RotateReplace, RotateSibling, FindUser, FindUserFails, EndSession,
     ChangeCommit, LeaveCommit, Abandon
<1>11. CASE Clean \/ Tick \/ UNCHANGED vars
  BY <1>5, <1>11 DEF Clean, Tick, vars
<1>. QED
  BY <1>5, <1>6, <1>7, <1>8, <1>9, <1>10, <1>11 DEF Next

(* A request that does not move stays sound.                               *)
LEMMA RequestStays ==
  ASSUME IInv, [Next]_vars, NEW q \in RequestState, RequestSound(q),
         q.pc # "idle" => clock' <= q.at + MaxDelay
  PROVE  RequestSound(q)'
<1>1. q.token # None => q.token \in Tokens /\ ~ Fresh(q.token)
  BY DEF RequestSound, RequestState
<1>2. q.token # None => born'[q.token] = born[q.token] /\ ~ Fresh(q.token)'
  BY <1>1, BornStays
<1>3. clock \in Nat /\ clock' \in Nat /\ clock <= clock' /\ q.at \in Nat
  BY RowsMove, TimeAssumption DEF RequestState, Times
<1>4. q.pc # "idle" => q.at <= clock' /\ clock' <= q.at + MaxDelay
  BY <1>3 DEF RequestSound
<1>. QED
  BY <1>1, <1>2, <1>4 DEF RequestSound

(* Time passes only while every request can still answer in time.          *)
LEMMA TimelyRequests ==
  ASSUME IInv, [Next]_vars, NEW r \in Requests, request[r].pc # "idle"
  PROVE  clock' <= request[r].at + MaxDelay
<1>1. /\ clock \in Nat /\ request[r].at \in Nat
      /\ clock <= request[r].at + MaxDelay
  BY RowsMove DEF IInv, TypeOK, RequestsSound, RequestSound, RequestState, Times
<1>2. CASE Tick
  BY <1>1, <1>2, TimeAssumption DEF Tick
<1>3. CASE clock' = clock
  BY <1>1, <1>3
<1>4. CASE \E x \in Requests, b \in Browsers : Start(x, b)
  BY <1>3, <1>4 DEF Start, Refresh, Logout, Login, DeleteAccount, Signup, ChangePassword
<1>5. CASE \E x \in Requests : Serve(x)
  BY <1>3, <1>5 DEF Serve, Rehash, RehashFails, Issue, Rotate, RotateUnknown,
     RotateExpired, RotateReused, RotateReplace, RotateSibling, FindUser,
     FindUserFails, EndSession, ChangeCommit, LeaveCommit, Answer, Refuse, Abandon
<1>6. CASE (\E b, c \in Browsers : CopyCookie(b, c)) \/ Clean \/ UNCHANGED vars
  BY <1>3, <1>6 DEF CopyCookie, Clean, vars
<1>. QED
  BY <1>2, <1>4, <1>5, <1>6 DEF Next

(* A request that begins.                                                  *)
LEMMA RequestBegins ==
  ASSUME IInv, NEW r \in Requests, NEW b \in Browsers, Start(r, b)
  PROVE  /\ request'[r] \in RequestState /\ RequestSound(request'[r])
         /\ \A x \in Requests \ {r} : request'[x] = request[x]
<1>1. clock \in Nat /\ clock <= clock + MaxDelay
  BY TimeAssumption DEF IInv, TypeOK, Times
<1>2. request' \in [Requests -> RequestState]
  BY TypeStart DEF IInv, TypeOK
<1>3. cookie[b] # None => /\ cookie[b] \in Tokens /\ ~ Fresh(cookie[b])
                         /\ born[cookie[b]].expires <= clock + Ttl
  BY DEF IInv, TypeOK, CookiesSound, BirthsSound
<1>4. request \in [Requests -> RequestState]
  BY DEF IInv, TypeOK
<1> DEFINE Result == /\ RequestSound(request'[r])
                     /\ \A x \in Requests \ {r} : request'[x] = request[x]
<1>. SUFFICES Result
  BY <1>2
<1>5. CASE Refresh(r, b)
  BY <1>1, <1>3, <1>4, <1>5 DEF Refresh, IdleRequest, RequestSound, Begin
<1>6. CASE Logout(r, b)
  BY <1>1, <1>3, <1>4, <1>6 DEF Logout, IdleRequest, RequestSound, Begin
<1>7. ASSUME NEW u \in Users, Login(r, b, u) PROVE Result
  BY <1>1, <1>4, <1>7, NoneAssumption DEF Login, IdleRequest, RequestSound, Begin
<1>8. ASSUME NEW u \in Users, DeleteAccount(r, b, u) PROVE Result
  BY <1>1, <1>4, <1>8, NoneAssumption DEF DeleteAccount, IdleRequest, RequestSound, Begin
<1>9. ASSUME NEW u \in Users, NEW p \in Passwords, Signup(r, b, u, p) PROVE Result
  BY <1>1, <1>4, <1>9, NoneAssumption DEF Signup, IdleRequest, RequestSound, Begin
<1>10. ASSUME NEW u \in Users, NEW p \in Passwords, ChangePassword(r, b, u, p)
       PROVE  Result
  BY <1>1, <1>4, <1>10, NoneAssumption DEF ChangePassword, IdleRequest, RequestSound, Begin
<1>. QED
  BY <1>2, <1>5, <1>6, <1>7, <1>8, <1>9, <1>10 DEF Start

(* A request that goes on.                                                 *)
LEMMA RequestGoes ==
  ASSUME IInv, NEW r \in Requests, Serve(r)
  PROVE  /\ RequestSound(request[r])'
         /\ \A x \in Requests \ {r} : request'[x] = request[x]
<1>1. Next
  BY DEF Next
<1>2. request[r] \in RequestState /\ RequestSound(request[r])
  BY DEF IInv, TypeOK, RequestsSound
<1>3. IdleRequest \in RequestState /\ RequestSound(IdleRequest)
  BY IdleType DEF IdleRequest, RequestSound
<1>4. \A x \in Requests \ {r} : request'[x] = request[x]
  BY DEF Serve, Rehash, RehashFails, Issue, Rotate, RotateUnknown, RotateExpired,
     RotateReused, RotateReplace, RotateSibling, FindUser, FindUserFails, EndSession,
     ChangeCommit, LeaveCommit, Answer, Refuse, Abandon, ToIssue, Verdict, Exchange,
     IInv, TypeOK
<1>5. request'[r] \in RequestState
  BY TypeServe DEF IInv, TypeOK
<1>6. ASSUME request'[r].pc # "idle" => request'[r].at = request[r].at,
             request[r].pc # "idle", RequestSound(request'[r])
      PROVE  RequestSound(request[r])'
  <2>1. request'[r].pc # "idle" => clock' <= request'[r].at + MaxDelay
    BY <1>1, <1>6, TimelyRequests
  <2>2. ASSUME NEW q \in RequestState, q = request'[r] PROVE RequestSound(q)'
    BY <1>1, <1>6, <2>1, <2>2, RequestStays
  <2>. QED
    BY <1>5, <2>2 DEF RequestSound, Fresh
<1>7. CASE Rehash(r) \/ RehashFails(r)
  <2>1. request[r].pc = "rehash" /\ request'[r] = [request[r] EXCEPT !.pc = "issue"]
    BY <1>7 DEF Rehash, RehashFails, ToIssue, IInv, TypeOK
  <2>. QED
    BY <1>2, <1>4, <1>6, <2>1 DEF RequestSound, RequestState
<1>8. CASE RotateUnknown(r) \/ RotateExpired(r) \/ RotateReused(r)
  BY <1>2, <1>6, <1>8 DEF RotateUnknown, RotateExpired, RotateReused, Verdict,
     RequestSound, RequestState, IInv, TypeOK
<1>9. CASE FindUser(r) \/ FindUserFails(r)
  BY <1>2, <1>6, <1>9 DEF FindUser, FindUserFails, RequestSound, RequestState,
     IInv, TypeOK
<1>10. CASE EndSession(r) \/ ChangeCommit(r) \/ LeaveCommit(r)
  BY <1>2, <1>6, <1>10 DEF EndSession, ChangeCommit, LeaveCommit, RequestSound,
     RequestState, IInv, TypeOK
<1>11. CASE Answer(r) \/ Refuse(r) \/ Abandon(r)
  <2>1. request'[r] = IdleRequest
    BY <1>11 DEF Answer, Refuse, Abandon, IInv, TypeOK
  <2>2. request[r].pc # "idle"
    BY <1>11 DEF Answer, Refuse, Abandon
  <2>. QED
    BY <1>3, <1>4, <1>6, <2>1, <2>2 DEF IdleRequest
<1>12. CASE Issue(r)
  <2>1. PICK t \in Tokens, now \in Readings(r) :
          /\ born' = [born EXCEPT
               ![t] = Birth(request[r].user, None, now, chosen[request[r].user])]
          /\ request' = [request EXCEPT ![r].pc = "answer", ![r].token = t]
    BY <1>12 DEF Issue
  <2>2. request[r].user # None /\ ~ Fresh(t)'
    BY <1>2, <1>12, <2>1 DEF Issue, RequestSound, Birth, Fresh, IInv, TypeOK
  <2>3. /\ request'[r].pc = "answer" /\ request'[r].token = t
        /\ request'[r].user = request[r].user /\ request'[r].at = request[r].at
        /\ request'[r].verdict = request[r].verdict
    BY <1>2, <2>1 DEF IInv, TypeOK, RequestState
  <2>4. clock' = clock
    BY <1>12 DEF Issue
  <2>. QED
    BY <1>2, <1>4, <1>12, <2>2, <2>3, <2>4, NoneAssumption DEF Issue, RequestSound, Fresh
<1>13. CASE RotateReplace(r) \/ RotateSibling(r)
  <2> DEFINE row == token[request[r].token]
  <2>1. PICK t \in Tokens, now \in Readings(r) : Exchange(r, t, row, now)
    BY <1>13 DEF RotateReplace, RotateSibling
  <2>2. row.owner # None /\ clock' = clock /\ request[r].pc = "rotate"
    BY <1>13 DEF RotateReplace, RotateSibling
  <2>3. born'[t].owner = row.owner
    BY <2>1 DEF Exchange, Birth, IInv, TypeOK
  <2>4. /\ request'[r].pc = "lookup" /\ request'[r].token = t
        /\ request'[r].user = row.owner /\ request'[r].at = request[r].at
        /\ request'[r].verdict = request[r].verdict
    BY <1>2, <2>1 DEF Exchange, IInv, TypeOK, RequestState
  <2>. QED
    BY <1>2, <1>4, <2>2, <2>3, <2>4, NoneAssumption DEF RequestSound, Fresh
<1>. QED
  BY <1>4, <1>7, <1>8, <1>9, <1>10, <1>11, <1>12, <1>13 DEF Serve, Rotate

LEMMA RequestsStep ==
  ASSUME IInv, [Next]_vars
  PROVE  RequestsSound'
<1>1. SUFFICES ASSUME NEW x \in Requests PROVE RequestSound(request[x])'
  BY DEF RequestsSound
<1>2. request[x] \in RequestState /\ RequestSound(request[x])
  BY DEF IInv, TypeOK, RequestsSound
<1>3. request'[x] \in RequestState
  BY TypeStep DEF IInv, TypeOK
<1>4. ASSUME request'[x] = request[x] PROVE RequestSound(request[x])'
  <2>1. ASSUME NEW q \in RequestState, q = request[x] PROVE RequestSound(q)'
    BY <1>2, <2>1, RequestStays, TimelyRequests
  <2>. QED
    BY <1>2, <1>4, <2>1 DEF RequestSound, Fresh
<1>5. ASSUME NEW r \in Requests, NEW b \in Browsers, Start(r, b)
      PROVE  RequestSound(request[x])'
  <2>1. CASE x = r
    <3>1. clock' = clock
      BY <1>5 DEF Start, Refresh, Logout, Login, DeleteAccount, Signup, ChangePassword
    <3>2. ASSUME NEW q \in RequestState, q = request'[x] PROVE RequestSound(q)'
      <4>1. RequestSound(q)
        BY <1>5, <2>1, <3>2, RequestBegins
      <4>2. q.pc # "idle" => clock' <= q.at + MaxDelay
        BY <3>1, <4>1 DEF RequestSound
      <4>. QED
        BY <4>1, <4>2, RequestStays
    <3>. QED
      BY <1>3, <3>2 DEF RequestSound, Fresh
  <2>2. CASE x # r
    BY <1>4, <1>5, <2>2, RequestBegins
  <2>. QED
    BY <2>1, <2>2
<1>6. ASSUME NEW r \in Requests, Serve(r) PROVE RequestSound(request[x])'
  BY <1>4, <1>6, RequestGoes
<1>7. CASE (\E b, c \in Browsers : CopyCookie(b, c)) \/ Clean \/ Tick \/ UNCHANGED vars
  BY <1>4, <1>7 DEF CopyCookie, Clean, Tick, vars
<1>. QED
  BY <1>5, <1>6, <1>7 DEF Next

(* What a step leaves of the record of a revocation.                       *)
LEMMA RevokedStays ==
  ASSUME IInv, [Next]_vars, NEW t \in Tokens, ~ Fresh(t)
  PROVE  \/ token'[t] = NoRow
         \/ token[t].revoked = None /\ Revoking(t)
         \/ /\ token'[t].revoked = token[t].revoked
            /\ \/ token'[t].successor = token[t].successor
               \/ Forgetting(t)
<1>1. CASE RowStep(t)
  <2>1. Revoking(t) => token[t].revoked = None
    BY DEF Revoking
  <2>. QED
    BY <1>1, <2>1 DEF RowStep, Issuing
<1>2. CASE CleanStep(t)
  BY <1>2 DEF CleanStep, Deleting, Staying, Forgetting
<1>. QED
  BY <1>1, <1>2, RowsMove

(* What a request is when it begins.                                       *)
LEMMA BeginResult ==
  ASSUME IInv, NEW r \in Requests, NEW b \in Browsers, Start(r, b)
  PROVE  LET n == request'[r]
         IN  /\ n.verdict = "none"
             /\ n.pc = "rotate" /\ n.live => Live(n.token)
             /\ n.late => /\ n.pc = "rotate" /\ n.token = cookie[b] /\ cookie[b] # None
                          /\ account[born[n.token].owner] = "deleted"
<1>1. request \in [Requests -> RequestState]
  BY DEF IInv, TypeOK
<1>2. CASE Refresh(r, b)
  BY <1>1, <1>2 DEF Refresh, Begin, IdleRequest
<1> DEFINE Result == /\ request'[r].verdict = "none" /\ request'[r].pc # "rotate"
                     /\ ~ request'[r].late
<1>3. Logout(r, b) => Result
  BY <1>1 DEF Logout, Begin, IdleRequest
<1>4. ASSUME NEW u \in Users, Login(r, b, u) PROVE Result
  BY <1>1, <1>4 DEF Login, Begin, IdleRequest
<1>5. ASSUME NEW u \in Users, DeleteAccount(r, b, u) PROVE Result
  BY <1>1, <1>5 DEF DeleteAccount, Begin, IdleRequest
<1>6. ASSUME NEW u \in Users, NEW p \in Passwords, Signup(r, b, u, p) PROVE Result
  BY <1>1, <1>6 DEF Signup, Begin, IdleRequest
<1>7. ASSUME NEW u \in Users, NEW p \in Passwords, ChangePassword(r, b, u, p)
      PROVE  Result
  BY <1>1, <1>7 DEF ChangePassword, Begin, IdleRequest
<1>. QED
  BY <1>2, <1>3, <1>4, <1>5, <1>6, <1>7 DEF Start

(* What a handler's step makes of its request.                             *)
LEMMA ServeResult ==
  ASSUME IInv, NEW r \in Requests, Serve(r)
  PROVE  LET q == request[r]
             n == request'[r]
         IN  /\ n.pc # "rotate"
             /\ n.verdict # "none" =>
                  /\ \/ n.verdict = "unknown" /\ RotateUnknown(r)
                     \/ n.verdict = "expired" /\ RotateExpired(r)
                     \/ n.verdict = "reused" /\ RotateReused(r)
                  /\ n.token = q.token /\ n.at = q.at /\ n.live = q.live
             /\ n.late => q.late
<1>1. request[r] \in RequestState /\ RequestSound(request[r])
  BY DEF IInv, TypeOK, RequestsSound
<1>2. request \in [Requests -> RequestState]
  BY DEF IInv, TypeOK
<1>3. CASE RotateUnknown(r) \/ RotateExpired(r) \/ RotateReused(r)
  BY <1>1, <1>2, <1>3 DEF RotateUnknown, RotateExpired, RotateReused, Verdict, RequestState
<1>4. CASE Answer(r) \/ Refuse(r) \/ Abandon(r)
  BY <1>2, <1>4 DEF Answer, Refuse, Abandon, IdleRequest
<1>5. CASE RotateReplace(r) \/ RotateSibling(r)
  <2>1. PICK t, row, now : Exchange(r, t, row, now)
    BY <1>5 DEF RotateReplace, RotateSibling
  <2>2. request[r].verdict = "none"
    BY <1>1, <1>5 DEF RotateReplace, RotateSibling, RequestSound
  <2>. QED
    BY <1>1, <1>2, <2>1, <2>2 DEF Exchange, RequestState
<1>6. CASE Rehash(r) \/ RehashFails(r) \/ Issue(r)
  BY <1>1, <1>2, <1>6 DEF Rehash, RehashFails, ToIssue, Issue, RequestState, RequestSound
<1>7. CASE FindUser(r) \/ FindUserFails(r)
  BY <1>1, <1>2, <1>7 DEF FindUser, FindUserFails, RequestState, RequestSound
<1>8. CASE EndSession(r) \/ ChangeCommit(r) \/ LeaveCommit(r)
  BY <1>1, <1>2, <1>8 DEF EndSession, ChangeCommit, LeaveCommit, RequestState, RequestSound
<1>. QED
  BY <1>3, <1>4, <1>5, <1>6, <1>7, <1>8 DEF Serve, Rotate

(* A step changes at most one request: one that begins, or one that goes   *)
(* on.                                                                     *)
LEMMA RequestCases ==
  ASSUME IInv, [Next]_vars, NEW x \in Requests
  PROVE  \/ request'[x] = request[x]
         \/ \E b \in Browsers : Start(x, b)
         \/ Serve(x)
<1>1. ASSUME NEW r \in Requests, NEW b \in Browsers, Start(r, b), x # r
      PROVE  request'[x] = request[x]
  BY <1>1, RequestBegins
<1>2. ASSUME NEW r \in Requests, Serve(r), x # r PROVE request'[x] = request[x]
  BY <1>2, RequestGoes
<1>3. ASSUME (\E b, c \in Browsers : CopyCookie(b, c)) \/ Clean \/ Tick \/ UNCHANGED vars
      PROVE  request'[x] = request[x]
  BY <1>3 DEF CopyCookie, Clean, Tick, vars
<1>. QED
  BY <1>1, <1>2, <1>3 DEF Next

LEMMA PresentedStep ==
  ASSUME IInv, [Next]_vars
  PROVE  PresentedSound'
<1>1. SUFFICES ASSUME NEW x \in Requests
               PROVE  LET q == request'[x]
                      IN  /\ q.pc = "rotate" /\ q.live /\ token'[q.token].revoked # None =>
                               q.at <= token'[q.token].revoked + MaxDelay
                          /\ q.verdict = "reused" =>
                               token'[q.token].owner = None
                               \/ token'[q.token].revoked # None
  BY DEF PresentedSound, Exists
<1>2. RequestSound(request[x]) /\ request[x] \in RequestState
  BY DEF IInv, TypeOK, RequestsSound
<1>3. request[x].token # None => request[x].token \in Tokens /\ ~ Fresh(request[x].token)
  BY <1>2 DEF RequestSound, RequestState
<1>4. ASSUME NEW t \in Tokens, ~ Fresh(t), ~ Exists(t) \/ token[t].revoked # None
      PROVE  token'[t].owner = None \/ token'[t].revoked # None
  BY <1>4, BornStays, RevokedStays DEF NoRow
<1>5. CASE request'[x] = request[x]
  <2> DEFINE q == request[x]
             t == q.token
  <2>1. ASSUME q.verdict = "reused"
        PROVE  token'[t].owner = None \/ token'[t].revoked # None
    BY <1>2, <1>3, <1>4, <2>1 DEF RequestSound, IInv, PresentedSound
  <2>2. ASSUME q.pc = "rotate", q.live, token'[t].revoked # None
        PROVE  q.at <= token'[t].revoked + MaxDelay
    <3>1. t \in Tokens /\ ~ Fresh(t) /\ q.at <= clock /\ q.at \in Nat /\ clock \in Nat
      BY <1>2, <1>3, <2>2, RowsMove, TimeAssumption
      DEF RequestSound, RequestState, Times
    <3>2. CASE token[t].revoked = None /\ Revoking(t)
      BY <3>1, <3>2, TimeAssumption DEF Revoking
    <3>3. CASE token'[t].revoked = token[t].revoked
      BY <2>2, <3>3 DEF IInv, PresentedSound
    <3>. QED
      BY <2>2, <3>1, <3>2, <3>3, RevokedStays DEF NoRow
  <2>. QED
    BY <1>5, <2>1, <2>2
<1>6. ASSUME NEW b \in Browsers, Start(x, b)
      PROVE  /\ request'[x].verdict = "none"
             /\ request'[x].pc = "rotate" /\ request'[x].live =>
                  token'[request'[x].token].revoked = None
  <2>1. token' = token
    BY <1>6 DEF Start, Refresh, Logout, Login, DeleteAccount, Signup, ChangePassword
  <2>. QED
    BY <1>6, <2>1, BeginResult DEF Live
<1>7. ASSUME Serve(x), request'[x].verdict = "reused"
      PROVE  token'[request'[x].token].owner = None
             \/ token'[request'[x].token].revoked # None
  <2>1. request'[x].token = request[x].token /\ RotateReused(x)
    BY <1>7, ServeResult
  <2>2. /\ request[x].token \in Tokens /\ ~ Fresh(request[x].token)
        /\ token[request[x].token].revoked # None
    BY <1>2, <1>3, <2>1 DEF RotateReused, RequestSound
  <2>. QED
    BY <1>4, <2>1, <2>2
<1>8. Serve(x) => request'[x].pc # "rotate"
  BY ServeResult
<1>. QED
  BY <1>5, <1>6, <1>7, <1>8, RequestCases

(* Leaving is final.                                                       *)
LEMMA DeletedStays ==
  ASSUME IInv, [Next]_vars, NEW u \in Users, account[u] = "deleted"
  PROVE  account'[u] = "deleted"
<1>1. account \in [Users -> {"none", "active", "deleted"}]
  BY DEF IInv, TypeOK
<1>2. ASSUME NEW r \in Requests, NEW b \in Browsers, Start(r, b)
      PROVE  account'[u] = "deleted"
  BY <1>1, <1>2 DEF Start, Refresh, Logout, Login, DeleteAccount, Signup, ChangePassword
<1>3. ASSUME NEW r \in Requests, Serve(r) PROVE account'[u] = "deleted"
  <2>1. CASE LeaveCommit(r)
    BY <1>1, <2>1 DEF LeaveCommit
  <2>2. CASE ~ LeaveCommit(r)
    BY <1>3, <2>2 DEF Serve, Rehash, RehashFails, Issue, Rotate, RotateUnknown,
       RotateExpired, RotateReused, RotateReplace, RotateSibling, FindUser,
       FindUserFails, EndSession, ChangeCommit, Answer, Refuse, Abandon
  <2>. QED
    BY <2>1, <2>2
<1>4. CASE (\E b, c \in Browsers : CopyCookie(b, c)) \/ Clean \/ Tick \/ UNCHANGED vars
  BY <1>4 DEF CopyCookie, Clean, Tick, vars
<1>. QED
  BY <1>2, <1>3, <1>4 DEF Next

LEMMA LateStep ==
  ASSUME IInv, [Next]_vars
  PROVE  LateSound'
<1> DEFINE Late(q) == /\ q.pc \in {"rotate", "lookup", "refuse"}
                      /\ q.token \in Tokens /\ ~ Fresh(q.token)
                      /\ account[born[q.token].owner] = "deleted"
<1>1. SUFFICES ASSUME NEW x \in Requests, request'[x].late
               PROVE  LET n == request'[x]
                      IN  /\ n.pc \in {"rotate", "lookup", "refuse"}
                          /\ n.token # None
                          /\ account'[born'[n.token].owner] = "deleted"
  BY DEF LateSound
<1>2. \A r \in Requests : request[r].late => Late(request[r])
  BY DEF IInv, TypeOK, LateSound, RequestsSound, RequestSound, RequestState
<1>3. ASSUME NEW t \in Tokens, ~ Fresh(t), account[born[t].owner] = "deleted"
      PROVE  t # None /\ account'[born'[t].owner] = "deleted"
  <2>1. born'[t] = born[t]
    BY <1>3, BornStays
  <2>2. born[t].owner \in Users
    BY <1>3, RowFacts DEF Fresh, IInv
  <2>. QED
    BY <1>3, <2>1, <2>2, DeletedStays, NoneAssumption
<1>4. ASSUME request'[x].token = request[x].token, request[x].late,
             request'[x].pc \in {"rotate", "lookup", "refuse"}
      PROVE  /\ request'[x].token # None
             /\ account'[born'[request'[x].token].owner] = "deleted"
  BY <1>2, <1>3, <1>4
<1>5. CASE request'[x] = request[x]
  BY <1>1, <1>2, <1>4, <1>5
<1>6. ASSUME NEW b \in Browsers, Start(x, b)
      PROVE  LET n == request'[x]
             IN  /\ n.pc = "rotate" /\ n.token # None
                 /\ account'[born'[n.token].owner] = "deleted"
  <2>1. /\ request'[x].pc = "rotate" /\ request'[x].token = cookie[b] /\ cookie[b] # None
        /\ account[born[cookie[b]].owner] = "deleted"
    BY <1>1, <1>6, BeginResult
  <2>2. cookie[b] \in Tokens /\ ~ Fresh(cookie[b])
    BY <2>1 DEF IInv, TypeOK, CookiesSound
  <2>. QED
    BY <1>3, <2>1, <2>2
<1>7. ASSUME Serve(x)
      PROVE  LET n == request'[x]
             IN  /\ n.pc \in {"rotate", "lookup", "refuse"}
                 /\ n.token # None
                 /\ account'[born'[n.token].owner] = "deleted"
  <2>1. request[x].late /\ Late(request[x])
    BY <1>1, <1>2, <1>7, ServeResult
  <2>2. request \in [Requests -> RequestState] /\ RequestSound(request[x])
    BY DEF IInv, TypeOK, RequestsSound
  <2>3. CASE RotateUnknown(x) \/ RotateExpired(x) \/ RotateReused(x)
    <3>1. request'[x].pc = "refuse" /\ request'[x].token = request[x].token
      BY <2>2, <2>3 DEF RotateUnknown, RotateExpired, RotateReused, Verdict, RequestState
    <3>. QED
      BY <1>4, <2>1, <3>1
  <2>4. CASE RotateReplace(x) \/ RotateSibling(x)
    <3>1. PICK t \in Tokens, now \in Readings(x) : Exchange(x, t, token[request[x].token], now)
      BY <2>4 DEF RotateReplace, RotateSibling
    <3>2. request'[x].pc = "lookup" /\ request'[x].token = t
      BY <2>2, <3>1 DEF Exchange, RequestState
    <3>3. born'[t].owner = token[request[x].token].owner
      BY <3>1 DEF Exchange, Birth, IInv, TypeOK
    <3>4. born'[t].owner = born[request[x].token].owner /\ born'[t].owner \in Users
      BY <2>1, <2>4, <3>3, RowFacts
      DEF RotateReplace, RotateSibling, IInv, RowsSound, Exists, Fresh
    <3>. QED
      BY <2>1, <3>2, <3>4, DeletedStays, NoneAssumption
  <2>5. CASE FindUser(x) \/ FindUserFails(x)
    <3>1. account[request[x].user] = "deleted"
      BY <2>1, <2>2, <2>5 DEF FindUser, FindUserFails, RequestSound
    <3>2. request'[x].pc = "refuse" /\ request'[x].token = request[x].token
      BY <2>2, <2>5, <3>1 DEF FindUser, FindUserFails, RequestState
    <3>. QED
      BY <1>4, <2>1, <3>2
  <2>6. CASE Answer(x) \/ Refuse(x) \/ Abandon(x)
    BY <1>1, <2>2, <2>6 DEF Answer, Refuse, Abandon, IdleRequest
  <2>7. request[x].pc \in {"rotate", "lookup", "refuse"}
    BY <2>1
  <2>8. ~ (Rehash(x) \/ RehashFails(x) \/ Issue(x) \/ EndSession(x)
             \/ ChangeCommit(x) \/ LeaveCommit(x))
    BY <2>7 DEF Rehash, RehashFails, Issue, EndSession, ChangeCommit, LeaveCommit
  <2>. QED
    BY <1>7, <2>3, <2>4, <2>5, <2>6, <2>8 DEF Serve, Rotate
<1>. QED
  BY <1>5, <1>6, <1>7, RequestCases

-----------------------------------------------------------------------------
(* The invariant, and what follows from it.                                *)

LEMMA IInvInit == Init => IInv
<1> SUFFICES ASSUME Init PROVE IInv
  OBVIOUS
<1>1. TypeOK
  BY TypeInit
<1>2. clock \in Nat /\ clock + Ttl \in Nat /\ 0 <= clock + Ttl
  BY TimeAssumption DEF Init
<1>3. \A t \in Tokens : token[t] = NoRow /\ born[t] = Unborn
  BY DEF Init
<1>4. RowsSound /\ BirthsSound /\ SuccessorsOutlive /\ ParentsSpent
  BY <1>2, <1>3 DEF RowsSound, BirthsSound, SuccessorsOutlive, ParentsSpent, Exists,
     Fresh, NoRow, Unborn
<1>5. CookiesSound /\ RequestsSound /\ PresentedSound /\ LateSound
  BY DEF Init, CookiesSound, RequestsSound, RequestSound, PresentedSound, LateSound,
     IdleRequest
<1>. QED
  BY <1>1, <1>4, <1>5 DEF IInv

LEMMA IInvStep == IInv /\ [Next]_vars => IInv'
<1> SUFFICES ASSUME IInv, [Next]_vars PROVE IInv'
  OBVIOUS
<1>1. TypeOK'
  BY TypeStep DEF IInv
<1>. QED
  BY <1>1, RowsStep, SuccessorsStep, ParentsStep, CookiesStep, RequestsStep,
     PresentedStep, LateStep DEF IInv

LEMMA Inductive == Spec => []IInv
BY IInvInit, IInvStep, PTL DEF Spec

(* Every variable keeps its type.                                          *)
THEOREM TypeCorrect == Spec => []TypeOK
BY Inductive, PTL DEF IInv

(* The row that replaced_by names is there, belongs to the same user and   *)
(* lives as long (CreateRefreshToken's expiry against the foreign key's    *)
(* ON DELETE SET NULL).                                                    *)
THEOREM SuccessorsLast == Spec => []SuccessorsOutlive
BY Inductive, PTL DEF IInv

(* A token that was revoked without being replaced is never exchanged      *)
(* (RotateRefreshToken), however long the grace period.                    *)
THEOREM CutStaysCut == Spec => []CutMeansCut
<1>1. IInv => CutMeansCut
  <2> SUFFICES ASSUME IInv, NEW t \in Tokens, NEW s \in Tokens, Exists(t),
                      token[t].revoked # None, token[t].successor = None,
                      token[t].expires > clock, born[s].parent = t
               PROVE  FALSE
    BY DEF CutMeansCut
  <2>1. Spent(t)
    BY NoneAssumption DEF IInv, ParentsSpent
  <2>2. token[t].expires \in Nat /\ clock \in Nat
    BY RowFacts, TimeAssumption DEF IInv, TypeOK, Times
  <2>. QED
    BY <2>1, <2>2 DEF Spent
<1>. QED
  BY <1>1, Inductive, PTL

(* No request that comes after its user has left is answered with a        *)
(* session (Refresh looks the user up after the exchange).                 *)
THEOREM LeaversStayOut == Spec => []DeletedStayOut
<1>1. IInv => DeletedStayOut
  BY DEF IInv, LateSound, DeletedStayOut
<1>. QED
  BY <1>1, Inductive, PTL

(* What a rotation has recorded is not rewritten, until the successor is   *)
(* deleted.                                                                *)
THEOREM RotationsStay == Spec => HistoryStays
<1>1. ASSUME IInv, [Next]_vars, NEW t \in Tokens, Exists(t), token[t].revoked # None,
             Exists(t)'
      PROVE  /\ token'[t].revoked = token[t].revoked
             /\ token'[t].successor # token[t].successor =>
                  /\ token'[t].successor = None
                  /\ token[t].successor # None
                  /\ token'[token[t].successor].owner = None
  <2>1. ~ Fresh(t) /\ token'[t] # NoRow
    BY <1>1, RowStays DEF Exists, NoRow
  <2>2. /\ token'[t].revoked = token[t].revoked
        /\ token'[t].successor = token[t].successor \/ Forgetting(t)
    BY <1>1, <2>1, RevokedStays
  <2>. QED
    BY <2>2, NoneAssumption DEF Forgetting, Deleting, NoRow
<1>2. IInv /\ [Next]_vars =>
        [\A t \in Tokens : Exists(t) /\ token[t].revoked # None /\ Exists(t)' =>
           /\ token'[t].revoked = token[t].revoked
           /\ token'[t].successor # token[t].successor =>
                /\ token'[t].successor = None
                /\ token[t].successor # None
                /\ token'[token[t].successor].owner = None]_token
  BY <1>1
<1>. QED
  BY <1>2, Inductive, PTL DEF Spec, HistoryStays

(* If the grace period is twice as long as a request may take, a token     *)
(* that was good when the request began is taken for stolen only when it   *)
(* was revoked without being replaced (RefreshGracePeriod).                *)
THEOREM TabsAreSpared ==
  ASSUME Grace >= 2 * MaxDelay
  PROVE  Spec => []TabsAreNotReuse
<1>1. Init => TabsAreNotReuse
  BY DEF Init, TabsAreNotReuse, IdleRequest
<1>2. ASSUME IInv, TabsAreNotReuse, [Next]_vars PROVE TabsAreNotReuse'
  <2>1. SUFFICES ASSUME NEW x \in Requests, request'[x].verdict = "reused",
                        request'[x].live
                 PROVE  token'[request'[x].token].successor = None
    BY DEF TabsAreNotReuse
  <2>2. ASSUME NEW t \in Tokens, ~ Fresh(t), token[t].successor = None,
               ~ Exists(t) \/ token[t].revoked # None
        PROVE  token'[t].successor = None
    BY <1>2, <2>2, RevokedStays DEF NoRow, Revoking, Forgetting
  <2>3. request[x] \in RequestState /\ RequestSound(request[x])
    BY <1>2 DEF IInv, TypeOK, RequestsSound
  <2>4. CASE request'[x] = request[x]
    <3>1. request[x].token \in Tokens /\ ~ Fresh(request[x].token)
      BY <2>1, <2>3, <2>4 DEF RequestSound, RequestState
    <3>2. ~ Exists(request[x].token) \/ token[request[x].token].revoked # None
      BY <1>2, <2>1, <2>4 DEF IInv, PresentedSound
    <3>3. token[request[x].token].successor = None
      BY <1>2, <2>1, <2>4 DEF TabsAreNotReuse
    <3>. QED
      BY <2>2, <2>4, <3>1, <3>2, <3>3
  <2>5. CASE Serve(x)
    <3> DEFINE t == request[x].token
    <3>1. RotateReused(x) /\ request'[x].token = t /\ request[x].live
      BY <1>2, <2>1, <2>5, ServeResult
    <3>2. /\ request[x].pc = "rotate" /\ t \in Tokens /\ ~ Fresh(t)
          /\ token[t].revoked # None
      BY <2>3, <3>1 DEF RotateReused, RequestSound, RequestState
    <3>3. PICK now \in Readings(x) : ~ WithinGrace(token[t], now)
      BY <3>1 DEF RotateReused
    <3>4. /\ now \in Nat /\ clock \in Nat /\ request[x].at \in Nat /\ now <= clock
          /\ token[t].revoked \in Nat
      BY <1>2, <3>2, ReadingFacts, RowFacts DEF IInv
    <3>5. clock <= request[x].at + MaxDelay
      BY <2>3, <3>2 DEF RequestSound
    <3>6. request[x].at <= token[t].revoked + MaxDelay
      BY <1>2, <3>1, <3>2 DEF IInv, PresentedSound
    <3>7. now <= token[t].revoked + Grace
      BY <3>4, <3>5, <3>6, TimeAssumption
    <3>8. token[t].successor = None
      BY <3>3, <3>7 DEF WithinGrace
    <3>. QED
      BY <2>2, <3>1, <3>2, <3>8
  <2>6. ~ \E b \in Browsers : Start(x, b)
    BY <1>2, <2>1, BeginResult
  <2>. QED
    BY <1>2, <2>4, <2>5, <2>6, RequestCases
<1>. QED
  BY <1>1, <1>2, Inductive, PTL DEF Spec

(* If the janitor keeps expired rows for as long as a request may take, a  *)
(* token that had not expired when it was sent is found, so that its reuse *)
(* is seen (TokenRetention).                                               *)
THEOREM ReuseIsSeen ==
  ASSUME MaxDelay <= Retention + 1
  PROVE  Spec => []ReuseStaysVisible
<1>1. Init => ReuseStaysVisible
  BY DEF Init, ReuseStaysVisible, IdleRequest
<1>2. ASSUME IInv, ReuseStaysVisible, [Next]_vars PROVE ReuseStaysVisible'
  <2>1. SUFFICES ASSUME NEW x \in Requests, request'[x].verdict = "unknown"
                 PROVE  born'[request'[x].token].expires <= request'[x].at
    BY DEF ReuseStaysVisible
  <2>2. request[x] \in RequestState /\ RequestSound(request[x])
    BY <1>2 DEF IInv, TypeOK, RequestsSound
  <2>3. CASE request'[x] = request[x]
    <3>1. request[x].token \in Tokens /\ ~ Fresh(request[x].token)
      BY <2>1, <2>2, <2>3 DEF RequestSound, RequestState
    <3>2. born'[request[x].token] = born[request[x].token]
      BY <1>2, <3>1, BornStays
    <3>. QED
      BY <1>2, <2>1, <2>3, <3>2 DEF ReuseStaysVisible
  <2>4. CASE Serve(x)
    <3> DEFINE t == request[x].token
    <3>1. /\ RotateUnknown(x) /\ request'[x].token = t
          /\ request'[x].at = request[x].at
      BY <1>2, <2>1, <2>4, ServeResult
    <3>2. t \in Tokens /\ ~ Fresh(t) /\ ~ Exists(t) /\ clock <= request[x].at + MaxDelay
      BY <2>2, <3>1 DEF RotateUnknown, RequestSound, RequestState
    <3>3. born[t].expires + Retention < clock
      BY <1>2, <3>2 DEF IInv, RowsSound
    <3>4. born[t].expires \in Nat /\ clock \in Nat /\ request[x].at \in Nat
      BY <1>2, <2>2, <3>2, RowFacts, TimeAssumption
      DEF IInv, TypeOK, Times, RequestState
    <3>5. born[t].expires <= request[x].at
      BY <3>2, <3>3, <3>4, TimeAssumption
    <3>6. born'[t] = born[t]
      BY <1>2, <3>2, BornStays
    <3>. QED
      BY <3>1, <3>5, <3>6
  <2>5. ~ \E b \in Browsers : Start(x, b)
    BY <1>2, <2>1, BeginResult
  <2>. QED
    BY <1>2, <2>3, <2>4, <2>5, RequestCases
<1>. QED
  BY <1>1, <1>2, Inductive, PTL DEF Spec
=============================================================================
