------------------------------ MODULE Sessions ------------------------------
(***************************************************************************)
(* Sessions and passwords: refresh tokens that are rotated whenever they   *)
(* are used, the reuse check, and the operations that are meant to end     *)
(* sessions (logout, a change of password, leaving).                       *)
(*                                                                         *)
(* A refresh token and the row that holds its hash have one identifier,    *)
(* which is never used again.  A transaction is one step; a handler that   *)
(* makes several is several steps, and so is its answer, which the browser *)
(* receives or does not.  Time is a small counter: what matters is how the *)
(* grace period, the life of a token and the janitor's retention compare.  *)
(***************************************************************************)
EXTENDS Naturals, FiniteSets

CONSTANTS
  Users,        \* rows of users
  Browsers,     \* cookie jars; the tabs of a browser share one
  Requests,     \* concurrent API requests
  Tokens,       \* refresh tokens, never reused
  Passwords,
  None,         \* SQL NULL / no such thing
  Grace,        \* config.Auth.RefreshGracePeriod
  Ttl,          \* config.Auth.RefreshTokenTTL
  Retention,    \* janitor.Config.TokenRetention
  BatchLimit,   \* janitor.Config.BatchLimit
  MaxDelay,     \* bound: how long a request may take, from the browser that
                \* sends it to its answer
  MaxClock      \* bound: when the model's time ends

ASSUME TimeAssumption ==
  /\ Grace \in Nat /\ Ttl \in Nat \ {0} /\ Retention \in Nat
  /\ MaxDelay \in Nat /\ MaxClock \in Nat /\ BatchLimit \in Nat \ {0}
ASSUME NoneAssumption ==
  None \notin Users \union Browsers \union Tokens \union Passwords \union Nat

VARIABLES
  clock,
  account,    \* "none" before the signup, "active", "deleted"
  password,   \* the password users.password_hash was made from
  stale,      \* users whose hash was made at a former bcrypt cost
  token,      \* refresh_tokens
  cookie,     \* the refresh token in each browser's jar
  access,     \* users for whom some tab of a browser has an access token
  request,    \* what each request is doing
  born,       \* history: how each token came to be, also without its row
  chosen      \* history: the password each user has last decided on

accounts == <<account, password, stale>>
jars == <<cookie, access>>
history == <<born, chosen>>
vars == <<clock, accounts, token, jars, request, history>>

Times == 0 .. MaxClock
Expiries == 0 .. MaxClock + Ttl

NoRow == [owner |-> None, expires |-> 0, revoked |-> None, successor |-> None]
Rows == [owner : Users, expires : Expiries, revoked : Times \union {None},
         successor : Tokens \union {None}]

(* A birth also records the password the user had when the session began.  *)
Unborn == [owner |-> None, parent |-> None, expires |-> 0, password |-> None]
Births == [owner : Users, parent : Tokens \union {None}, expires : Expiries,
           password : Passwords \union {None}]

(* The last three fields are history: the verdict on the token presented,  *)
(* whether that token was good, and its user gone, when the request began. *)
IdleRequest ==
  [pc |-> "idle", browser |-> None, user |-> None, token |-> None,
   password |-> None, at |-> 0,
   verdict |-> "none", live |-> FALSE, late |-> FALSE]
RequestState ==
  [pc : {"idle", "rehash", "issue", "rotate", "lookup", "logout", "change",
         "leave", "answer", "refuse"},
   browser : Browsers \union {None}, user : Users \union {None},
   token : Tokens \union {None}, password : Passwords \union {None},
   at : Times,
   verdict : {"none", "unknown", "expired", "reused"},
   live : BOOLEAN, late : BOOLEAN]

TypeOK ==
  /\ clock \in Times
  /\ account \in [Users -> {"none", "active", "deleted"}]
  /\ password \in [Users -> Passwords \union {None}]
  /\ stale \subseteq Users
  /\ token \in [Tokens -> Rows \union {NoRow}]
  /\ cookie \in [Browsers -> Tokens \union {None}]
  /\ access \in [Browsers -> SUBSET Users]
  /\ request \in [Requests -> RequestState]
  /\ born \in [Tokens -> Births \union {Unborn}]
  /\ chosen \in [Users -> Passwords \union {None}]

(* Users are new, or have signed up before the bcrypt cost was changed.    *)
Init ==
  /\ clock = 0
  /\ account \in [Users -> {"none", "active"}]
  /\ stale = {u \in Users : account[u] = "active"}
  /\ password \in [Users -> Passwords \union {None}]
  /\ \A u \in Users : password[u] = None <=> account[u] = "none"
  /\ token = [t \in Tokens |-> NoRow]
  /\ cookie = [b \in Browsers |-> None]
  /\ access = [b \in Browsers |-> {}]
  /\ request = [r \in Requests |-> IdleRequest]
  /\ born = [t \in Tokens |-> Unborn]
  /\ chosen = password

-----------------------------------------------------------------------------
(* Rows of refresh_tokens.                                                 *)

Exists(t) == token[t].owner # None
Live(t) == Exists(t) /\ token[t].revoked = None /\ token[t].expires > clock
Fresh(t) == born[t].owner = None

(* Fault: the grace period is added to the life of a token. *)
NewRowWithGrace(u, now) ==
  [owner |-> u, expires |-> now + Ttl + Grace, revoked |-> None,
   successor |-> None]

(* The row CreateRefreshToken inserts for a token that expires Ttl after   *)
(* now, and its history.                                                   *)
NewRow(u, now) ==
  [owner |-> u, expires |-> now + Ttl, revoked |-> None, successor |-> None]
Birth(u, parent, now, p) ==
  [owner |-> u, parent |-> parent, expires |-> now + Ttl, password |-> p]

(* Fault: WHERE revoked_at IS NULL forgotten. *)
RevokedAgain(row, now) == [row EXCEPT !.revoked = now]

Revoked(row, now) ==
  IF row.revoked = None THEN [row EXCEPT !.revoked = now] ELSE row

(* RevokeAllRefreshTokensForUser *)
RevokeAll(u, now) ==
  token' = [t \in Tokens |-> IF token[t].owner = u THEN Revoked(token[t], now)
                                                   ELSE token[t]]

(* The handlers read the clock somewhere between their start and their     *)
(* transaction.                                                            *)
Readings(r) == request[r].at .. clock

Begin(r, next) ==
  /\ request[r].pc = "idle"
  /\ request' = [request EXCEPT ![r] = next]

-----------------------------------------------------------------------------
(* Signing up and logging in.                                              *)

(* CreateUser: one INSERT, which two requests can not both win.            *)
Signup(r, b, u, p) ==
  /\ account[u] = "none"
  /\ Begin(r, [IdleRequest EXCEPT !.pc = "issue", !.browser = b, !.user = u,
                                  !.at = clock])
  /\ account' = [account EXCEPT ![u] = "active"]
  /\ password' = [password EXCEPT ![u] = p]
  /\ chosen' = [chosen EXCEPT ![u] = p]
  /\ UNCHANGED <<clock, stale, token, jars, born>>

(* FindCredentialsByEmail and the comparison with the password that was    *)
(* typed.  A wrong password, and a user who has left, change nothing.      *)
Login(r, b, u) ==
  /\ account[u] = "active"
  /\ Begin(r, [IdleRequest EXCEPT
                 !.pc = IF u \in stale THEN "rehash" ELSE "issue",
                 !.browser = b, !.user = u, !.password = password[u],
                 !.at = clock])
  /\ UNCHANGED <<clock, accounts, token, jars, history>>

ToIssue(r) == request' = [request EXCEPT ![r].pc = "issue"]

(* rehashIfStale: UPDATE users ... WHERE id = ? AND deleted_at IS NULL,    *)
(* with the password that was verified.                                    *)
Rehash(r) ==
  /\ request[r].pc = "rehash"
  /\ LET u == request[r].user
     IN  IF account[u] = "active"
         THEN /\ password' = [password EXCEPT ![u] = request[r].password]
              /\ stale' = stale \ {u}
         ELSE UNCHANGED <<password, stale>>
  /\ ToIssue(r)
  /\ UNCHANGED <<clock, account, token, jars, history>>

(* The UPDATE fails: the error is logged and the login goes on.            *)
RehashFails(r) ==
  /\ request[r].pc = "rehash"
  /\ ToIssue(r)
  /\ UNCHANGED <<clock, accounts, token, jars, history>>

(* respondWithSession: nothing asks for the user or the password again.    *)
Issue(r) ==
  /\ request[r].pc = "issue"
  /\ \E t \in Tokens, now \in Readings(r) :
       /\ Fresh(t)
       /\ token' = [token EXCEPT ![t] = NewRow(request[r].user, now)]
       /\ born' = [born EXCEPT
            ![t] = Birth(request[r].user, None, now, chosen[request[r].user])]
       /\ request' = [request EXCEPT ![r].pc = "answer", ![r].token = t]
  /\ UNCHANGED <<clock, accounts, jars, chosen>>

-----------------------------------------------------------------------------
(* Refreshing.                                                             *)

(* The token is read from the cookie when the request begins.              *)
Refresh(r, b) ==
  /\ cookie[b] # None
  /\ LET t == cookie[b]
     IN  Begin(r, [IdleRequest EXCEPT
                     !.pc = "rotate", !.browser = b, !.token = t, !.at = clock,
                     !.live = Live(t),
                     !.late = account[born[t].owner] = "deleted"])
  /\ UNCHANGED <<clock, accounts, token, jars, history>>

(* Fault: every token that was revoked lately may still be exchanged. *)
AnyWithinGrace(row, now) == now <= row.revoked + Grace

(* Fault: without a grace period. *)
NeverWithinGrace(row, now) == FALSE

(* The outcomes of RotateRefreshToken.  FOR UPDATE makes it one step.      *)
WithinGrace(row, now) ==
  /\ row.successor # None
  /\ now <= row.revoked + Grace

Verdict(r, v) ==
  request' = [request EXCEPT ![r].pc = "refuse", ![r].verdict = v]

RotateUnknown(r) ==
  /\ request[r].pc = "rotate"
  /\ ~ Exists(request[r].token)
  /\ Verdict(r, "unknown")
  /\ UNCHANGED <<clock, accounts, token, jars, history>>

RotateExpired(r) ==
  /\ request[r].pc = "rotate"
  /\ Exists(request[r].token)
  /\ \E now \in Readings(r) : token[request[r].token].expires <= now
  /\ Verdict(r, "expired")
  /\ UNCHANGED <<clock, accounts, token, jars, history>>

(* A token that was revoked and not replaced just now: taken for stolen.   *)
RotateReused(r) ==
  /\ request[r].pc = "rotate"
  /\ LET row == token[request[r].token]
     IN  /\ row.owner # None
         /\ row.revoked # None
         /\ \E now \in Readings(r) :
              /\ row.expires > now
              /\ ~ WithinGrace(row, now)
              /\ RevokeAll(row.owner, now)
  /\ Verdict(r, "reused")
  /\ UNCHANGED <<clock, accounts, jars, history>>

(* Both remaining outcomes insert a token; only the first exchange revokes *)
(* the old one and records the new one as its successor.                   *)
Exchange(r, t, row, now) ==
  /\ Fresh(t)
  /\ born' = [born EXCEPT ![t] = Birth(row.owner, request[r].token, now,
                                       born[request[r].token].password)]
  /\ request' = [request EXCEPT ![r].pc = "lookup", ![r].token = t,
                                ![r].user = row.owner]

RotateReplace(r) ==
  /\ request[r].pc = "rotate"
  /\ LET old == request[r].token
         row == token[old]
     IN  /\ row.owner # None
         /\ row.revoked = None
         /\ \E t \in Tokens, now \in Readings(r) :
              /\ row.expires > now
              /\ Exchange(r, t, row, now)
              /\ token' = [token EXCEPT
                             ![t] = NewRow(row.owner, now),
                             ![old].revoked = now,
                             ![old].successor = t]
  /\ UNCHANGED <<clock, accounts, jars, chosen>>

RotateSibling(r) ==
  /\ request[r].pc = "rotate"
  /\ LET row == token[request[r].token]
     IN  /\ row.owner # None
         /\ row.revoked # None
         /\ \E t \in Tokens, now \in Readings(r) :
              /\ row.expires > now
              /\ WithinGrace(row, now)
              /\ Exchange(r, t, row, now)
              /\ token' = [token EXCEPT ![t] = NewRow(row.owner, now)]
  /\ UNCHANGED <<clock, accounts, jars, chosen>>

(* Any error of that query counts as not found: 401, and the cookie that   *)
(* has just been exchanged is cleared.                                     *)
FindUserFails(r) ==
  /\ request[r].pc = "lookup"
  /\ request' = [request EXCEPT ![r].pc = "refuse"]
  /\ UNCHANGED <<clock, accounts, token, jars, history>>

(* Fault: the user is not looked up. *)
TrustToken(r) ==
  /\ request[r].pc = "lookup"
  /\ request' = [request EXCEPT ![r].pc = "answer"]
  /\ UNCHANGED <<clock, accounts, token, jars, history>>

(* FindUserByID, which does not find users who have left.                  *)
FindUser(r) ==
  /\ request[r].pc = "lookup"
  /\ request' = [request EXCEPT ![r].pc =
       IF account[request[r].user] = "active" THEN "answer" ELSE "refuse"]
  /\ UNCHANGED <<clock, accounts, token, jars, history>>

-----------------------------------------------------------------------------
(* Ending sessions.                                                        *)

Logout(r, b) ==
  /\ cookie[b] # None
  /\ Begin(r, [IdleRequest EXCEPT !.pc = "logout", !.browser = b,
                                  !.token = cookie[b], !.at = clock])
  /\ UNCHANGED <<clock, accounts, token, jars, history>>

(* RevokeRefreshTokenByHash                                                *)
EndSession(r) ==
  /\ request[r].pc = "logout"
  /\ LET t == request[r].token
     IN  \E now \in Readings(r) :
           token' = IF Exists(t)
                    THEN [token EXCEPT ![t] = Revoked(token[t], now)]
                    ELSE token
  /\ request' = [request EXCEPT ![r].pc = "refuse"]
  /\ UNCHANGED <<clock, accounts, jars, history>>

(* verifyCurrentPassword: a read of its own, before the transaction.       *)
ChangePassword(r, b, u, p) ==
  /\ u \in access[b]
  /\ account[u] = "active"
  /\ Begin(r, [IdleRequest EXCEPT !.pc = "change", !.browser = b, !.user = u,
                                  !.password = p, !.at = clock])
  /\ UNCHANGED <<clock, accounts, token, jars, history>>

(* UpdatePassword and RevokeAllRefreshTokensForUser in one transaction.    *)
ChangeCommit(r) ==
  /\ request[r].pc = "change"
  /\ LET u == request[r].user
         p == request[r].password
     IN  /\ IF account[u] = "active"
            THEN /\ password' = [password EXCEPT ![u] = p]
                 /\ chosen' = [chosen EXCEPT ![u] = p]
                 /\ stale' = stale \ {u}
            ELSE UNCHANGED <<password, chosen, stale>>
         /\ \E now \in Readings(r) : RevokeAll(u, now)
  /\ request' = [request EXCEPT ![r].pc = "refuse"]
  /\ UNCHANGED <<clock, account, jars, born>>

DeleteAccount(r, b, u) ==
  /\ u \in access[b]
  /\ account[u] = "active"
  /\ Begin(r, [IdleRequest EXCEPT !.pc = "leave", !.browser = b, !.user = u,
                                  !.at = clock])
  /\ UNCHANGED <<clock, accounts, token, jars, history>>

(* The session part of AccountStore.DeleteAccount: SoftDeleteUser replaces *)
(* the address and the hash, then every token is revoked.                  *)
LeaveCommit(r) ==
  /\ request[r].pc = "leave"
  /\ LET u == request[r].user
     IN  /\ account' = [account EXCEPT ![u] = "deleted"]
         /\ password' = [password EXCEPT ![u] = None]
         /\ chosen' = [chosen EXCEPT ![u] = None]
         /\ stale' = stale \ {u}
         /\ \E now \in Readings(r) : RevokeAll(u, now)
  /\ request' = [request EXCEPT ![r].pc = "refuse"]
  /\ UNCHANGED <<clock, jars, born>>

-----------------------------------------------------------------------------
(* Answers and browsers.                                                   *)

(* A session arrives: a Set-Cookie, and an access token for the tab.       *)
Answer(r) ==
  /\ request[r].pc = "answer"
  /\ LET b == request[r].browser
     IN  /\ cookie' = [cookie EXCEPT ![b] = request[r].token]
         /\ access' = [access EXCEPT ![b] = @ \union {request[r].user}]
  /\ request' = [request EXCEPT ![r] = IdleRequest]
  /\ UNCHANGED <<clock, accounts, token, history>>

(* An answer that clears the cookie: 401, and 204 after an end.            *)
Refuse(r) ==
  /\ request[r].pc = "refuse"
  /\ cookie' = [cookie EXCEPT ![request[r].browser] = None]
  /\ request' = [request EXCEPT ![r] = IdleRequest]
  /\ UNCHANGED <<clock, accounts, token, access, history>>

(* The process stops, the database fails (500, which leaves the cookie) or *)
(* the answer is lost.                                                     *)
Abandon(r) ==
  /\ request[r].pc # "idle"
  /\ request' = [request EXCEPT ![r] = IdleRequest]
  /\ UNCHANGED <<clock, accounts, token, jars, history>>

(* A cookie gets into another jar, which is what the reuse check is for.   *)
CopyCookie(b, c) ==
  /\ cookie[b] # None /\ cookie[c] # cookie[b]
  /\ cookie' = [cookie EXCEPT ![c] = cookie[b]]
  /\ UNCHANGED <<clock, accounts, token, access, request, history>>

-----------------------------------------------------------------------------
(* Fault: revoked rows are of no use any more. *)
DeletableIfRevoked ==
  {t \in Tokens : Exists(t) /\ (token[t].revoked # None
                                \/ token[t].expires + Retention < clock)}

(* DeleteExpiredRefreshTokens: at most BatchLimit rows, in no given order; *)
(* the foreign key sets replaced_by to NULL where it pointed to them.      *)
Deletable == {t \in Tokens : Exists(t) /\ token[t].expires + Retention < clock}

(* Fault: nothing clears replaced_by. *)
CleanDangling ==
  /\ \E gone \in SUBSET Deletable :
       /\ gone # {}
       /\ Cardinality(gone) <= BatchLimit
       /\ Cardinality(gone) < BatchLimit => gone = Deletable
       /\ token' = [t \in Tokens |-> IF t \in gone THEN NoRow ELSE token[t]]
  /\ UNCHANGED <<clock, accounts, jars, request, history>>

Clean ==
  /\ \E gone \in SUBSET Deletable :
       /\ gone # {}
       /\ Cardinality(gone) <= BatchLimit
       /\ Cardinality(gone) < BatchLimit => gone = Deletable
       /\ token' = [t \in Tokens |->
            IF t \in gone THEN NoRow
            ELSE IF token[t].successor \in gone
                 THEN [token[t] EXCEPT !.successor = None]
                 ELSE token[t]]
  /\ UNCHANGED <<clock, accounts, jars, request, history>>

(* Time passes, but no request takes longer than MaxDelay.                 *)
Tick ==
  /\ clock < MaxClock
  /\ \A r \in Requests : request[r].pc # "idle" =>
       clock < request[r].at + MaxDelay
  /\ clock' = clock + 1
  /\ UNCHANGED <<accounts, token, jars, request, history>>

Rotate(r) ==
  \/ RotateUnknown(r) \/ RotateExpired(r) \/ RotateReused(r)
  \/ RotateReplace(r) \/ RotateSibling(r)

Start(r, b) ==
  \/ Refresh(r, b)
  \/ Logout(r, b)
  \/ \E u \in Users : Login(r, b, u) \/ DeleteAccount(r, b, u)
  \/ \E u \in Users, p \in Passwords : Signup(r, b, u, p)
  \/ \E u \in Users, p \in Passwords : ChangePassword(r, b, u, p)

Serve(r) ==
  \/ Rehash(r) \/ RehashFails(r) \/ Issue(r)
  \/ Rotate(r) \/ FindUser(r) \/ FindUserFails(r)
  \/ EndSession(r) \/ ChangeCommit(r) \/ LeaveCommit(r)
  \/ Answer(r) \/ Refuse(r) \/ Abandon(r)

Next ==
  \/ \E r \in Requests, b \in Browsers : Start(r, b)
  \/ \E r \in Requests : Serve(r)
  \/ \E b, c \in Browsers : CopyCookie(b, c)
  \/ Clean
  \/ Tick

Spec == Init /\ [][Next]_vars

-----------------------------------------------------------------------------
(* Properties.                                                             *)

(* The row replaced_by names belongs to the same user and expires no       *)
(* earlier, although the two requests that issued them read the clock on   *)
(* their own: so ON DELETE SET NULL forgets a successor only when the old  *)
(* token is past use.                                                      *)
SuccessorsOutlive ==
  \A t \in Tokens : token[t].successor # None =>
    LET s == token[t].successor
    IN  /\ Exists(s)
        /\ token[s].owner = token[t].owner
        /\ token[s].expires >= token[t].expires

(* A token that logout, a change of password, leaving or the reuse check   *)
(* has revoked, rather than a rotation, is never exchanged again: nothing  *)
(* was issued in exchange for it, now or ever.                             *)
CutMeansCut ==
  \A t \in Tokens :
    Exists(t) /\ token[t].revoked # None /\ token[t].successor = None
              /\ token[t].expires > clock
      => \A s \in Tokens : born[s].parent # t

(* A token that was good when the request began, say in two tabs at once,  *)
(* is taken for stolen only if something has ended its session meanwhile   *)
(* (RotateRefreshToken's grace period).                                    *)
TabsAreNotReuse ==
  \A r \in Requests : request[r].verdict = "reused" /\ request[r].live =>
    token[request[r].token].successor = None

(* A token we have issued and that had not expired when the request began  *)
(* is never unknown to us: its reuse stays visible                         *)
(* (DeleteExpiredRefreshTokens keeps revoked rows).                        *)
ReuseStaysVisible ==
  \A r \in Requests : request[r].verdict = "unknown" =>
    born[request[r].token].expires <= request[r].at

(* A request that comes after its user has left is not answered with a     *)
(* session, whatever tokens were still exchangeable.                       *)
DeletedStayOut ==
  \A r \in Requests : request[r].late => request[r].pc # "answer"

(* What is recorded of a rotation is not rewritten: neither the time, on   *)
(* which the end of the grace period depends, nor the first successor,     *)
(* unless that has been deleted.                                           *)
HistoryStays ==
  [][\A t \in Tokens : Exists(t) /\ token[t].revoked # None /\ Exists(t)' =>
       /\ token'[t].revoked = token[t].revoked
       /\ token'[t].successor # token[t].successor =>
            /\ token'[t].successor = None
            /\ token[t].successor # None
            /\ token'[token[t].successor].owner = None]_token

-----------------------------------------------------------------------------
(* The inductive invariant behind them.                                    *)

(* A token's row agrees with its birth, and is missing only when it is     *)
(* past its life and the retention.                                        *)
RowsSound ==
  \A t \in Tokens :
    /\ Exists(t) => /\ token[t].owner = born[t].owner
                    /\ token[t].expires = born[t].expires
    /\ ~ Fresh(t) /\ ~ Exists(t) => born[t].expires + Retention < clock

BirthsSound ==
  \A t \in Tokens :
    /\ born[t].expires <= clock + Ttl
    /\ born[t].parent # None => ~ Fresh(born[t].parent)

(* What was exchanged has a successor, or has expired.                     *)
Spent(t) ==
  \/ ~ Exists(t)
  \/ token[t].revoked # None /\ token[t].successor # None
  \/ token[t].expires <= clock

ParentsSpent ==
  \A s \in Tokens : born[s].parent # None => Spent(born[s].parent)

CookiesSound == \A b \in Browsers : cookie[b] # None => ~ Fresh(cookie[b])

(* What a request knows at each of its steps.                              *)
RequestSound(q) ==
  /\ q.pc # "idle" => q.at <= clock /\ clock <= q.at + MaxDelay
  /\ q.token # None => ~ Fresh(q.token)
  /\ q.pc \in {"rotate", "lookup", "logout", "answer"} => q.token # None
  /\ q.pc \in {"rehash", "issue", "lookup", "change", "leave", "answer"}
       => q.user # None
  /\ q.pc = "lookup" => q.user = born[q.token].owner
  /\ q.pc = "rotate" => born[q.token].expires <= q.at + Ttl
  /\ q.verdict # "none" => q.pc = "refuse" /\ q.token # None

RequestsSound == \A r \in Requests : RequestSound(request[r])

(* A token that was good when the request began has not been revoked long  *)
(* before it; a token that was judged reused stays revoked.                *)
PresentedSound ==
  \A r \in Requests :
    LET q == request[r]
    IN  /\ q.pc = "rotate" /\ q.live /\ token[q.token].revoked # None =>
             q.at <= token[q.token].revoked + MaxDelay
        /\ q.verdict = "reused" =>
             ~ Exists(q.token) \/ token[q.token].revoked # None

LateSound ==
  \A r \in Requests : request[r].late =>
    /\ request[r].pc \in {"rotate", "lookup", "refuse"}
    /\ request[r].token # None
    /\ account[born[request[r].token].owner] = "deleted"

IInv ==
  /\ TypeOK
  /\ RowsSound
  /\ BirthsSound
  /\ SuccessorsOutlive
  /\ ParentsSpent
  /\ CookiesSound
  /\ RequestsSound
  /\ PresentedSound
  /\ LateSound

-----------------------------------------------------------------------------
(* A statement of the documentation that does not hold.                    *)

(* A change of password revokes all refresh tokens of the user, so that no *)
(* old session survives it (AccountStore.ChangePassword, features.md 1.4). *)
PasswordEndsSessions ==
  \A t \in Tokens : Live(t) /\ account[token[t].owner] = "active" =>
    born[t].password = chosen[token[t].owner]
=============================================================================
