----------------------------- MODULE ClientSession -----------------------------
(***************************************************************************)
(* A tab of the browser: the access token in its memory, the user it       *)
(* shows, its calls and the one refresh they share (client.ts and          *)
(* session.svelte.ts), with the cookies that all tabs share and the parts  *)
(* of the server that answer: the check of access tokens, login, refresh   *)
(* and logout.  What the server does with refresh tokens is the module     *)
(* Sessions; here a token is accepted or not.                              *)
(*                                                                         *)
(* JavaScript runs to completion: what follows an await is one step, and   *)
(* so is waking the calls that wait for a refresh.                         *)
(***************************************************************************)
EXTENDS Naturals, FiniteSets

CONSTANTS
  Users,
  Calls,    \* concurrent calls of request()
  Tokens,   \* refresh tokens
  Keys,     \* SigningKey.ID: NewJWTService is given one
  None

ASSUME NoneAssumption == None \notin Users \union Calls \union Tokens \union Keys

VARIABLES
  owner,     \* refresh_tokens.user_id
  accepted,  \* tokens that a refresh may present: not revoked, or in their grace
  key,       \* the key of this deployment
  cookies,   \* the refresh token, and the hint that there is one
  access,    \* client.ts: accessToken
  shown,     \* session.svelte.ts: currentUser
  restored,  \* session.svelte.ts: restored
  refresh,   \* client.ts: refreshInFlight
  call,      \* the calls under way
  served,    \* history: how often the server has carried out each call
  troubled,  \* history: calls that have seen a refresh fail, or whose renewed
             \* access token went bad
  out        \* history: logged out, and nothing under way that would log in

server == <<owner, accepted, key>>
memory == <<access, shown, restored>>
history == <<served, troubled, out>>
vars == <<server, cookies, memory, refresh, call, history>>

AccessTokens == [user : Users, key : Keys, expired : BOOLEAN]
NoCookies == [token |-> None, hint |-> FALSE]
With(t) == [token |-> t, hint |-> TRUE]

(* Of a refresh: what it presents, and the two tokens it brings.            *)
NoRefresh == [pc |-> "none", presents |-> None, sets |-> None, access |-> None]
NoCall == [pc |-> "idle", kind |-> "api", user |-> None, bearer |-> None,
           token |-> None, again |-> FALSE]

InUse == accepted \union {cookies.token, refresh.presents, refresh.sets}
           \union {call[c].token : c \in Calls}
Free(c) == call[c].pc \in {"idle", "unauthorized"}

-----------------------------------------------------------------------------
(* JWTService.Verify: the key is looked up by its id, and only the active   *)
(* key of the deployment is there.                                          *)
Verify(a) == a # None /\ a.key = key /\ ~a.expired

(* JWTService.Issue *)
Issue(u) == [user |-> u, key |-> key, expired |-> FALSE]

(* A new refresh token of user u.  The one it replaces is in its grace      *)
(* period for a while (TokenEnds).                                          *)
Opened(u, t) ==
  /\ t \notin InUse
  /\ owner' = [owner EXCEPT ![t] = u]
  /\ accepted' = accepted \union {t}

Init ==
  /\ owner \in [Tokens -> Users]
  /\ key \in Keys
  /\ \/ cookies = NoCookies /\ accepted = {}
     \/ \E t \in Tokens : cookies = With(t) /\ accepted \in {{}, {t}}
     \/ cookies = [token |-> None, hint |-> TRUE] /\ accepted = {}
  /\ access = None /\ shown = None /\ restored = FALSE
  /\ refresh = NoRefresh
  /\ call = [c \in Calls |-> NoCall]
  /\ served = [c \in Calls |-> 0] /\ troubled = {} /\ out = FALSE

-----------------------------------------------------------------------------
(* The tab sends. *)

Sending(c, kind, u) ==
  /\ Free(c)
  /\ call' = [call EXCEPT ![c] =
       [pc |-> "sent", kind |-> kind, user |-> u, bearer |-> access,
        token |-> IF kind = "logout" THEN cookies.token ELSE None, again |-> FALSE]]
  /\ served' = [served EXCEPT ![c] = 0]
  /\ troubled' = {d \in troubled \ {c} : call[d].pc # "idle"}

(* A screen calls the API. *)
Call(c) ==
  /\ restored
  /\ Sending(c, "api", None)
  /\ UNCHANGED <<server, cookies, memory, refresh, out>>

(* Its answer replaces the user that is shown. *)
UpdateProfile(c) ==
  /\ shown # None
  /\ Sending(c, "profile", shown)
  /\ UNCHANGED <<server, cookies, memory, refresh, out>>

Login(c, u) ==
  /\ restored \/ refresh.pc # "none"
  /\ Sending(c, "login", u)
  /\ out' = FALSE
  /\ UNCHANGED <<server, cookies, memory, refresh>>

Logout(c) ==
  /\ shown # None
  /\ Sending(c, "logout", shown)
  /\ UNCHANGED <<server, cookies, memory, refresh, out>>

Presenting == [NoRefresh EXCEPT !.pc = "sent", !.presents = cookies.token]

(* refreshAccessToken: the refresh under way is shared. *)
Shared == IF refresh.pc = "none" THEN Presenting ELSE refresh

(* restoreSession, when the tab has been opened. *)
Restore ==
  /\ ~restored /\ refresh.pc = "none"
  /\ IF cookies.hint THEN refresh' = Shared /\ UNCHANGED restored
                     ELSE restored' = TRUE /\ UNCHANGED refresh
  /\ UNCHANGED <<server, cookies, access, shown, call, history>>

(* The page is loaded again: what was under way is dropped. *)
Reload ==
  /\ restored
  /\ access' = None /\ shown' = None /\ restored' = FALSE
  /\ refresh' = NoRefresh
  /\ call' = [c \in Calls |-> NoCall]
  /\ UNCHANGED <<server, cookies, history>>

-----------------------------------------------------------------------------
(* The server.  An answer is on its way until the tab receives it. *)

Answering(c, pc) == call' = [call EXCEPT ![c].pc = pc]
Carried(c) == served' = [served EXCEPT ![c] = @ + 1]

(* WithAuthentication, and the handler behind it. *)
Serve(c) ==
  /\ call[c].pc = "sent" /\ call[c].kind \in {"api", "profile"}
  /\ IF Verify(call[c].bearer)
     THEN Answering(c, "answered") /\ Carried(c)
     ELSE Answering(c, "denied") /\ UNCHANGED served
  /\ UNCHANGED <<server, cookies, memory, refresh, troubled, out>>

(* The password is right, or the answer is 401 as well. *)
ServeLogin(c) ==
  /\ call[c].pc = "sent" /\ call[c].kind = "login"
  /\ \/ /\ \E t \in Tokens :
             /\ Opened(call[c].user, t)
             /\ call' = [call EXCEPT ![c].pc = "answered", ![c].token = t,
                                     ![c].bearer = Issue(call[c].user)]
        /\ Carried(c)
     \/ Answering(c, "denied") /\ UNCHANGED <<owner, accepted, served>>
  /\ UNCHANGED <<key, cookies, memory, refresh, troubled, out>>

ServeLogout(c) ==
  /\ call[c].pc = "sent" /\ call[c].kind = "logout"
  /\ accepted' = accepted \ {call[c].token}
  /\ Answering(c, "answered") /\ Carried(c)
  /\ UNCHANGED <<owner, key, cookies, memory, refresh, troubled, out>>

(* Another refusal, an error of the server, a request that is lost with its *)
(* answer or without it.                                                    *)
CallFails(c) ==
  /\ call[c].pc \in {"sent", "answered", "denied"}
  /\ call' = [call EXCEPT ![c] = 
       [NoCall EXCEPT !.pc = "failed", !.kind = call[c].kind, !.user = call[c].user]]
  /\ UNCHANGED <<server, cookies, memory, refresh, history>>

ServeRefresh ==
  /\ refresh.pc = "sent"
  /\ \/ /\ refresh.presents \in accepted
        /\ \E t \in Tokens :
             /\ Opened(owner[refresh.presents], t)
             /\ refresh' = [refresh EXCEPT !.pc = "answered", !.sets = t,
                              !.access = Issue(owner[refresh.presents])]
     \/ /\ refresh.presents \notin accepted
        /\ refresh' = [refresh EXCEPT
             !.pc = IF refresh.presents = None THEN "nothing" ELSE "refused"]
        /\ UNCHANGED <<owner, accepted>>
  /\ UNCHANGED <<key, cookies, memory, call, history>>

RefreshFails ==
  /\ refresh.pc \notin {"none", "failed"}
  /\ refresh' = [refresh EXCEPT !.pc = "failed"]
  /\ UNCHANGED <<server, cookies, memory, call, history>>

-----------------------------------------------------------------------------
(* The tab receives. *)

(* Nothing is under way that will put a user back into the tab. *)
Quiet(c) ==
  /\ refresh.pc = "none"
  /\ \A d \in Calls \ {c} : Free(d) \/ call[d].kind \in {"api", "logout"}

Forget == access' = None /\ shown' = None

(* Fault: "restored" is left as it was. *)
LogInOnly(u, t, a) ==
  /\ cookies' = With(t) /\ access' = a /\ shown' = u /\ UNCHANGED restored

(* applySession, with the cookies of the answer *)
LogIn(u, t, a) ==
  /\ cookies' = With(t) /\ access' = a /\ shown' = u /\ restored' = TRUE

(* Fault: the answer to a logout leaves the cookies. *)
CookiesKept == cookies
CookiesAfterLogout == NoCookies

Answered(c) ==
  /\ call[c].pc = "answered"
  /\ call' = [call EXCEPT ![c] = NoCall]
  /\ CASE call[c].kind = "api" ->
            UNCHANGED <<cookies, memory, out>>
       [] call[c].kind = "profile" ->
            shown' = call[c].user /\ UNCHANGED <<cookies, access, restored, out>>
       [] call[c].kind = "login" ->
            LogIn(call[c].user, call[c].token, call[c].bearer) /\ UNCHANGED out
       [] call[c].kind = "logout" ->
            /\ cookies' = CookiesAfterLogout /\ Forget /\ UNCHANGED restored
            /\ out' = Quiet(c)
  /\ UNCHANGED <<server, refresh, served, troubled>>

(* logout() forgets the user also when it could not reach the server. *)
Failed(c) ==
  /\ call[c].pc = "failed"
  /\ call' = [call EXCEPT ![c] = NoCall]
  /\ IF call[c].kind = "logout" THEN Forget ELSE UNCHANGED <<access, shown>>
  /\ UNCHANGED <<server, cookies, restored, refresh, history>>

(* Fault: whatever went wrong is tried again. *)
RetriesAnything(c) == call[c].pc \in {"denied", "failed"} /\ ~call[c].again

(* Only a 401 is tried again, and only once. *)
Retries(c) == call[c].pc = "denied" /\ ~call[c].again

(* request: on a 401, wait for a refresh. *)
Denied(c) ==
  /\ Retries(c)
  /\ Answering(c, "waiting")
  /\ refresh' = Shared
  /\ UNCHANGED <<server, cookies, memory, history>>

(* request() throws the 401. *)
Unauthorized(c) == [NoCall EXCEPT !.pc = "unauthorized", !.kind = call[c].kind]

DeniedAgain(c) ==
  /\ call[c].pc = "denied" /\ call[c].again
  /\ call' = [call EXCEPT ![c] = Unauthorized(c)]
  /\ UNCHANGED <<server, cookies, memory, refresh, history>>

Waiting == {c \in Calls : call[c].pc = "waiting"}

(* Faults: a call is sent again as it was, or one of them only. *)
SentAsBefore(c) == [call[c] EXCEPT !.pc = "sent", !.again = TRUE]
SentOnce(c) ==
  IF c = CHOOSE d \in Waiting : TRUE
  THEN [call[c] EXCEPT !.pc = "sent", !.again = TRUE, !.bearer = refresh.access]
  ELSE call[c]

SentAgain(c) ==
  [call[c] EXCEPT !.pc = "sent", !.again = TRUE, !.bearer = refresh.access]

Refreshed ==
  /\ refresh.pc = "answered"
  /\ LogIn(refresh.access.user, refresh.sets, refresh.access)
  /\ call' = [c \in Calls |-> IF c \in Waiting THEN SentAgain(c) ELSE call[c]]
  /\ troubled' = IF Verify(refresh.access) THEN troubled ELSE troubled \union Waiting
  /\ refresh' = NoRefresh
  /\ UNCHANGED <<server, served, out>>

(* performRefresh forgets the user whatever the failure was. *)
NotRefreshed ==
  /\ refresh.pc \in {"refused", "nothing", "failed"}
  /\ cookies' = CASE refresh.pc = "refused" -> NoCookies
                  [] refresh.pc = "nothing" -> [cookies EXCEPT !.hint = FALSE]
                  [] refresh.pc = "failed" -> cookies
  /\ Forget
  /\ restored' = TRUE
  /\ call' = [c \in Calls |-> IF c \in Waiting THEN Unauthorized(c) ELSE call[c]]
  /\ troubled' = troubled \union Waiting
  /\ refresh' = NoRefresh
  /\ UNCHANGED <<server, served, out>>

-----------------------------------------------------------------------------
(* Time, deployments, and the other tabs, which share the cookies. *)

(* Calls that carry the renewed token, or will. *)
Renewed == {c \in Calls : call[c].again /\ ~Free(c)}

Expired(a) == IF a = access THEN [a EXCEPT !.expired = TRUE] ELSE a

Expire ==
  /\ access # None /\ ~access.expired
  /\ access' = [access EXCEPT !.expired = TRUE]
  /\ call' = [c \in Calls |-> [call[c] EXCEPT !.bearer = Expired(@)]]
  /\ troubled' = troubled \union Renewed
  /\ UNCHANGED <<server, cookies, shown, restored, refresh, served, out>>

Deploy ==
  /\ \E k \in Keys \ {key} : key' = k
  /\ troubled' = troubled \union Renewed
  /\ UNCHANGED <<owner, accepted, cookies, memory, refresh, call, served, out>>

(* Revoked, expired, deleted, or the grace period is over. *)
TokenEnds(t) ==
  /\ t \in accepted
  /\ accepted' = accepted \ {t}
  /\ UNCHANGED <<owner, key, cookies, memory, refresh, call, history>>

LoginElsewhere(u, t) ==
  /\ Opened(u, t) /\ cookies' = With(t)
  /\ out' = FALSE
  /\ UNCHANGED <<key, memory, refresh, call, served, troubled>>

RefreshElsewhere(t) ==
  /\ cookies.token \in accepted
  /\ Opened(owner[cookies.token], t) /\ cookies' = With(t)
  /\ UNCHANGED <<key, memory, refresh, call, history>>

LogoutElsewhere ==
  /\ cookies.token # None
  /\ accepted' = accepted \ {cookies.token}
  /\ cookies' = NoCookies
  /\ UNCHANGED <<owner, key, memory, refresh, call, history>>

(* ChangePassword and DeleteAccount: the cookie of the token goes, the hint *)
(* stays.                                                                   *)
SessionsEnd ==
  /\ cookies.token # None
  /\ accepted' = {t \in accepted : owner[t] # owner[cookies.token]}
  /\ cookies' = [cookies EXCEPT !.token = None]
  /\ UNCHANGED <<owner, key, memory, refresh, call, history>>

CallStep(c) ==
  \/ Serve(c) \/ ServeLogin(c) \/ ServeLogout(c) \/ CallFails(c)
  \/ Answered(c) \/ Failed(c) \/ Denied(c) \/ DeniedAgain(c)
RefreshStep == ServeRefresh \/ RefreshFails \/ Refreshed \/ NotRefreshed

Next ==
  \/ \E c \in Calls : \/ Call(c) \/ UpdateProfile(c) \/ Logout(c)
                      \/ \E u \in Users : Login(c, u)
                      \/ CallStep(c)
  \/ RefreshStep \/ Restore \/ Reload
  \/ Expire \/ Deploy \/ LogoutElsewhere \/ SessionsEnd
  \/ \E t \in Tokens : \/ TokenEnds(t) \/ RefreshElsewhere(t)
                       \/ \E u \in Users : LoginElsewhere(u, t)

Spec == Init /\ [][Next]_vars

-----------------------------------------------------------------------------
RefreshType ==
  [pc : {"none", "sent", "answered", "refused", "nothing", "failed"},
   presents : Tokens \union {None}, sets : Tokens \union {None},
   access : AccessTokens \union {None}]
CallType ==
  [pc : {"idle", "sent", "answered", "denied", "waiting", "failed", "unauthorized"},
   kind : {"api", "profile", "login", "logout"}, user : Users \union {None},
   bearer : AccessTokens \union {None}, token : Tokens \union {None},
   again : BOOLEAN]

TypeOK ==
  /\ owner \in [Tokens -> Users] /\ accepted \subseteq Tokens /\ key \in Keys
  /\ cookies \in [token : Tokens \union {None}, hint : BOOLEAN]
  /\ access \in AccessTokens \union {None}
  /\ shown \in Users \union {None} /\ restored \in BOOLEAN
  /\ ~restored => access = None /\ shown = None
  /\ refresh \in RefreshType /\ call \in [Calls -> CallType]
  /\ served \in [Calls -> Nat] /\ troubled \subseteq Calls /\ out \in BOOLEAN

(* No request is carried out twice: the server has done nothing for a call  *)
(* that is sent again (client.ts: request tries once more after a 401, and  *)
(* never after a lost answer).                                              *)
PerformedOnce == \A c \in Calls : served[c] <= 1

(* Calls that wait for a refresh are woken by it: none is left behind when  *)
(* several share one, or when one comes while it ends.                      *)
NobodyLeftWaiting == Waiting # {} => refresh.pc # "none"

(* A screen is told that nobody is logged in only if a refresh has failed   *)
(* while its call waited, or the renewed access token went bad at once: the *)
(* expiry of access tokens, a deployment with another signing key, the      *)
(* refreshes of other calls and of other tabs are never noticed.            *)
OnlyWithoutSession ==
  \A c \in Calls :
    call[c].pc = "unauthorized" /\ call[c].kind \in {"api", "profile"} => c \in troubled

(* After a logout that found nothing else under way the tab stays logged    *)
(* out, whatever late answers, retries and reloads follow, until somebody   *)
(* logs in (session.svelte.ts: logout always forgets the user).             *)
LogoutSticks == out => shown = None /\ access = None

-----------------------------------------------------------------------------
(* What has to be known besides, for the five to be inductive.              *)

(* A refresh that succeeded brings both tokens. *)
RefreshSound ==
  refresh.pc = "answered" => refresh.sets \in Tokens /\ refresh.access \in AccessTokens

(* A login is for a user; a profile is changed by a tab that has one.       *)
CallsSound ==
  \A c \in Calls : ~Free(c) =>
    /\ call[c].kind = "login" => call[c].user \in Users
    /\ call[c].kind = "profile" => restored

(* A call that may still be served, or sent again, has not been served.     *)
ServedSound ==
  \A c \in Calls :
    /\ served[c] <= 1
    /\ call[c].pc \in {"sent", "denied", "waiting"} => served[c] = 0

(* A call that was sent again is good, or its trouble is known.             *)
TroubleSound ==
  \A c \in Calls : call[c].kind \in {"api", "profile"} =>
    /\ call[c].pc = "unauthorized" => c \in troubled
    /\ call[c].pc = "denied" /\ call[c].again => c \in troubled
    /\ call[c].pc = "sent" /\ call[c].again => Verify(call[c].bearer) \/ c \in troubled

(* After a quiet logout nothing holds a user or a token of the session.     *)
OutSound ==
  out => /\ shown = None /\ access = None /\ cookies.token = None
         /\ refresh.pc # "none" => refresh.presents = None /\ refresh.pc # "answered"
         /\ \A c \in Calls : Free(c) \/ call[c].kind \in {"api", "logout"}

IInv ==
  /\ TypeOK /\ RefreshSound /\ CallsSound /\ ServedSound /\ NobodyLeftWaiting
  /\ TroubleSound /\ OutSound
=============================================================================
