-------------------------- MODULE ClientSession_proofs --------------------------
(***************************************************************************)
(* Proofs about ClientSession, for any sets of users, calls, refresh       *)
(* tokens and signing keys.                                                *)
(***************************************************************************)
EXTENDS ClientSession, TLAPS

USE DEF server, memory, history

-----------------------------------------------------------------------------
(* Records that the steps make of a call and of the refresh. *)

LEMMA CallMade ==
  ASSUME NEW c \in Calls, NEW x \in CallType, TypeOK, call' = [call EXCEPT ![c] = x]
  PROVE  call' \in [Calls -> CallType]
BY DEF TypeOK

LEMMA CarriedType ==
  ASSUME NEW c \in Calls, TypeOK, Carried(c)
  PROVE  served' \in [Calls -> Nat]
BY DEF Carried, TypeOK

LEMMA CallSet ==
  ASSUME NEW x \in CallType,
         NEW pc \in {"idle", "sent", "answered", "denied", "waiting", "failed", "unauthorized"},
         NEW bearer \in AccessTokens \union {None}, NEW token \in Tokens \union {None},
         NEW again \in BOOLEAN
  PROVE  /\ [x EXCEPT !.pc = pc] \in CallType
         /\ [x EXCEPT !.pc = pc, !.token = token, !.bearer = bearer] \in CallType
         /\ [x EXCEPT !.pc = pc, !.again = again, !.bearer = bearer] \in CallType
         /\ [x EXCEPT !.bearer = bearer] \in CallType
BY DEF CallType

LEMMA CallNew ==
  ASSUME NEW x \in CallType, NEW pc \in {"failed", "unauthorized"}
  PROVE  /\ NoCall \in CallType
         /\ [NoCall EXCEPT !.pc = pc, !.kind = x.kind] \in CallType
         /\ [NoCall EXCEPT !.pc = pc, !.kind = x.kind, !.user = x.user] \in CallType
BY DEF CallType, NoCall

LEMMA RefreshSet ==
  ASSUME NEW x \in RefreshType, NEW pc \in {"sent", "answered", "refused", "nothing", "failed"},
         NEW t \in Tokens \union {None}, NEW a \in AccessTokens \union {None}
  PROVE  /\ NoRefresh \in RefreshType
         /\ [x EXCEPT !.pc = pc] \in RefreshType
         /\ [NoRefresh EXCEPT !.pc = pc, !.presents = t] \in RefreshType
         /\ [x EXCEPT !.pc = pc, !.sets = t, !.access = a] \in RefreshType
BY DEF RefreshType, NoRefresh
-----------------------------------------------------------------------------
(* Type correctness. *)

LEMMA TypeInit == Init => TypeOK
<1> SUFFICES ASSUME Init PROVE TypeOK
  OBVIOUS
<1>1. cookies \in [token : Tokens \union {None}, hint : BOOLEAN] /\ accepted \subseteq Tokens
  <2>1. CASE cookies = NoCookies /\ accepted = {}
    BY <2>1 DEF NoCookies
  <2>2. CASE \E t \in Tokens : cookies = With(t) /\ accepted \in {{}, {t}}
    BY <2>2 DEF With
  <2>3. CASE cookies = [token |-> None, hint |-> TRUE] /\ accepted = {}
    BY <2>3
  <2>. QED
    BY <2>1, <2>2, <2>3 DEF Init
<1>2. refresh \in RefreshType
  BY DEF Init, RefreshType, NoRefresh
<1>3. NoCall \in CallType
  BY DEF CallType, NoCall
<1>. QED
  BY <1>1, <1>2, <1>3 DEF Init, TypeOK

LEMMA TypeStep ==
  ASSUME TypeOK, RefreshSound, CallsSound, Next
  PROVE  TypeOK'
<1>. DEFINE CookieType == [token : Tokens \union {None}, hint : BOOLEAN]
<1>0. /\ NoCookies \in CookieType
      /\ \A t \in Tokens \union {None} : With(t) \in CookieType
      /\ [cookies EXCEPT !.hint = FALSE] \in CookieType
      /\ [cookies EXCEPT !.token = None] \in CookieType
  BY DEF TypeOK, NoCookies, With
<1>1. \A c \in Calls : call[c] \in CallType /\ call[c].token \in Tokens \union {None}
                        /\ call[c].user \in Users \union {None}
                        /\ call[c].bearer \in AccessTokens \union {None}
  BY DEF TypeOK, CallType
<1>2. ASSUME NEW c \in Calls, NEW kind \in {"api", "profile", "login", "logout"},
             NEW u \in Users \union {None}, Sending(c, kind, u),
             UNCHANGED <<server, cookies, memory, refresh>>, out' \in BOOLEAN
      PROVE  TypeOK'
  <2>. DEFINE x == [pc |-> "sent", kind |-> kind, user |-> u, bearer |-> access,
                    token |-> IF kind = "logout" THEN cookies.token ELSE None,
                    again |-> FALSE]
  <2>1. x \in CallType
    BY DEF TypeOK, CallType
  <2>2. call' = [call EXCEPT ![c] = x]
    BY <1>2 DEF Sending
  <2>. HIDE DEF x
  <2>3. call' \in [Calls -> CallType]
    BY <2>1, <2>2, CallMade
  <2>. QED
    BY <1>2, <2>3 DEF Sending, TypeOK
<1>3. ASSUME NEW c \in Calls, Call(c) \/ UpdateProfile(c) \/ Logout(c) PROVE TypeOK'
  BY <1>2, <1>3 DEF Call, UpdateProfile, Logout, TypeOK
<1>4. ASSUME NEW c \in Calls, NEW u \in Users, Login(c, u) PROVE TypeOK'
  BY <1>2, <1>4 DEF Login, TypeOK
<1>5. ASSUME NEW c \in Calls, CallStep(c) PROVE TypeOK'
  <2>1. ASSUME Serve(c) PROVE TypeOK'
    <3>1. call' \in [Calls -> CallType]
      BY <1>1, <2>1, CallMade, CallSet DEF Serve, Answering
    <3>2. served' \in [Calls -> Nat]
      BY <2>1, CarriedType DEF Serve, TypeOK
    <3>. QED
      BY <2>1, <3>1, <3>2 DEF Serve, TypeOK
  <2>2. ASSUME ServeLogin(c) PROVE TypeOK'
    <3>1. ASSUME NEW t \in Tokens, Opened(call[c].user, t),
                 call' = [call EXCEPT ![c].pc = "answered", ![c].token = t,
                                      ![c].bearer = Issue(call[c].user)]
          PROVE  /\ call' \in [Calls -> CallType] /\ owner' \in [Tokens -> Users]
                 /\ accepted' \subseteq Tokens
      <4>1. call[c].user \in Users
        BY <2>2 DEF ServeLogin, CallsSound, Free
      <4>2. Issue(call[c].user) \in AccessTokens
        BY <4>1 DEF Issue, AccessTokens, TypeOK
      <4>. QED
        BY <1>1, <3>1, <4>1, <4>2, CallMade, CallSet DEF Opened, TypeOK
    <3>2. ASSUME Answering(c, "denied") PROVE call' \in [Calls -> CallType]
      BY <1>1, <3>2, CallMade, CallSet DEF Answering
    <3>. QED
      BY <2>2, <3>1, <3>2, CarriedType DEF ServeLogin, TypeOK
  <2>3. ASSUME ServeLogout(c) PROVE TypeOK'
    <3>1. call' \in [Calls -> CallType]
      BY <1>1, <2>3, CallMade, CallSet DEF ServeLogout, Answering
    <3>. QED
      BY <2>3, <3>1, CarriedType DEF ServeLogout, TypeOK
  <2>4. ASSUME CallFails(c) PROVE TypeOK'
    <3>1. call' \in [Calls -> CallType]
      BY <1>1, <2>4, CallMade, CallNew DEF CallFails
    <3>. QED
      BY <2>4, <3>1 DEF CallFails, TypeOK
  <2>5. ASSUME Answered(c) PROVE TypeOK'
    <3>1. call' \in [Calls -> CallType]
      BY <1>1, <2>5, CallMade, CallNew DEF Answered
    <3>2. CASE call[c].kind = "api"
      BY <2>5, <3>1, <3>2 DEF Answered, TypeOK
    <3>3. CASE call[c].kind = "profile"
      BY <1>1, <2>5, <3>1, <3>3 DEF Answered, TypeOK, CallsSound, Free
    <3>4. CASE call[c].kind = "login"
      BY <1>0, <1>1, <2>5, <3>1, <3>4 DEF Answered, LogIn, TypeOK
    <3>5. CASE call[c].kind = "logout"
      <4>1. out' \in BOOLEAN
        BY <2>5, <3>5 DEF Answered, Quiet
      <4>. QED
        BY <1>0, <2>5, <3>1, <3>5, <4>1 DEF Answered, Forget, CookiesAfterLogout, TypeOK
    <3>. QED
      BY <1>1, <3>2, <3>3, <3>4, <3>5 DEF CallType
  <2>6. ASSUME Failed(c) PROVE TypeOK'
    <3>1. call' \in [Calls -> CallType]
      BY <1>1, <2>6, CallMade, CallNew DEF Failed
    <3>. QED
      BY <2>6, <3>1 DEF Failed, Forget, TypeOK
  <2>7. ASSUME Denied(c) PROVE TypeOK'
    <3>1. Presenting \in RefreshType
      BY RefreshSet DEF Presenting, TypeOK
    <3>. QED
      BY <1>1, <2>7, <3>1, CallMade, CallSet DEF Denied, Answering, Shared, TypeOK
  <2>8. ASSUME DeniedAgain(c) PROVE TypeOK'
    <3>1. call' \in [Calls -> CallType]
      BY <1>1, <2>8, CallMade, CallNew DEF DeniedAgain, Unauthorized
    <3>. QED
      BY <2>8, <3>1 DEF DeniedAgain, TypeOK
  <2>. QED
    BY <1>5, <2>1, <2>2, <2>3, <2>4, <2>5, <2>6, <2>7, <2>8 DEF CallStep
<1>6. ASSUME RefreshStep PROVE TypeOK'
  <2>1. ASSUME ServeRefresh PROVE TypeOK'
    <3>1. CASE refresh.presents \in accepted
      <4>1. PICK t \in Tokens :
              /\ Opened(owner[refresh.presents], t)
              /\ refresh' = [refresh EXCEPT !.pc = "answered", !.sets = t,
                               !.access = Issue(owner[refresh.presents])]
        BY <2>1, <3>1 DEF ServeRefresh
      <4>2. owner[refresh.presents] \in Users
        BY <3>1 DEF TypeOK
      <4>3. Issue(owner[refresh.presents]) \in AccessTokens
        BY <4>2 DEF Issue, AccessTokens, TypeOK
      <4>4. refresh' \in RefreshType
        BY <4>1, <4>3, RefreshSet DEF TypeOK
      <4>. QED
        BY <2>1, <4>1, <4>2, <4>4 DEF ServeRefresh, Opened, TypeOK
    <3>2. CASE refresh.presents \notin accepted
      <4>1. refresh' \in RefreshType
        BY <2>1, <3>2, RefreshSet DEF ServeRefresh, TypeOK
      <4>. QED
        BY <2>1, <3>2, <4>1 DEF ServeRefresh, TypeOK
    <3>. QED
      BY <3>1, <3>2
  <2>2. ASSUME RefreshFails PROVE TypeOK'
    BY <2>2, RefreshSet DEF RefreshFails, TypeOK
  <2>3. ASSUME Refreshed PROVE TypeOK'
    <3>1. refresh.sets \in Tokens /\ refresh.access \in AccessTokens
      BY <2>3 DEF Refreshed, RefreshSound
    <3>2. refresh.access.user \in Users
      BY <3>1 DEF AccessTokens
    <3>3. \A c \in Calls : SentAgain(c) \in CallType
      BY <1>1, <3>1, CallSet DEF SentAgain
    <3>4. call' \in [Calls -> CallType]
      BY <1>1, <2>3, <3>3 DEF Refreshed
    <3>5. troubled' \subseteq Calls
      BY <2>3 DEF Refreshed, Waiting, TypeOK
    <3>. QED
      BY <1>0, <2>3, <3>1, <3>2, <3>4, <3>5, RefreshSet DEF Refreshed, LogIn, TypeOK
  <2>4. ASSUME NotRefreshed PROVE TypeOK'
    <3>1. call' \in [Calls -> CallType]
      BY <1>1, <2>4, CallNew DEF NotRefreshed, Unauthorized
    <3>2. cookies' \in CookieType
      BY <1>0, <2>4 DEF NotRefreshed, TypeOK
    <3>3. troubled' \subseteq Calls
      BY <2>4 DEF NotRefreshed, Waiting, TypeOK
    <3>. QED
      BY <2>4, <3>1, <3>2, <3>3, RefreshSet DEF NotRefreshed, Forget, TypeOK
  <2>. QED
    BY <1>6, <2>1, <2>2, <2>3, <2>4 DEF RefreshStep
<1>7. ASSUME Restore \/ Reload PROVE TypeOK'
  <2>1. Presenting \in RefreshType /\ NoRefresh \in RefreshType
    BY RefreshSet DEF Presenting, TypeOK
  <2>2. ASSUME Restore PROVE TypeOK'
    BY <2>1, <2>2 DEF Restore, Shared, TypeOK
  <2>3. ASSUME Reload PROVE TypeOK'
    BY <2>1, <2>3, CallNew DEF Reload, TypeOK
  <2>. QED
    BY <1>7, <2>2, <2>3
<1>8. ASSUME Expire PROVE TypeOK'
  <2>1. [access EXCEPT !.expired = TRUE] \in AccessTokens
    BY <1>8 DEF Expire, AccessTokens, TypeOK
  <2>2. \A c \in Calls : Expired(call[c].bearer) \in AccessTokens \union {None}
    BY <1>1, <2>1 DEF Expired
  <2>3. call' \in [Calls -> CallType]
    BY <1>1, <1>8, <2>2, CallSet DEF Expire
  <2>. QED
    BY <1>8, <2>1, <2>3 DEF Expire, Renewed, TypeOK
<1>9. ASSUME Deploy \/ LogoutElsewhere \/ SessionsEnd PROVE TypeOK'
  BY <1>0, <1>9 DEF Deploy, Renewed, LogoutElsewhere, SessionsEnd, TypeOK
<1>10. ASSUME NEW t \in Tokens, TokenEnds(t) \/ RefreshElsewhere(t) PROVE TypeOK'
  BY <1>0, <1>10 DEF TokenEnds, RefreshElsewhere, Opened, TypeOK
<1>11. ASSUME NEW t \in Tokens, NEW u \in Users, LoginElsewhere(u, t) PROVE TypeOK'
  BY <1>0, <1>11 DEF LoginElsewhere, Opened, TypeOK
<1>. QED
  BY <1>3, <1>4, <1>5, <1>6, <1>7, <1>8, <1>9, <1>10, <1>11 DEF Next

-----------------------------------------------------------------------------
(* The parts of the inductive invariant. *)

(* What becomes of the calls when something is sent ... *)
LEMMA SendingMoves ==
  ASSUME TypeOK, NEW c \in Calls, NEW kind, NEW u, Sending(c, kind, u)
  PROVE  /\ \A d \in Calls \ {c} : call'[d] = call[d]
         /\ Free(c)
         /\ call'[c].pc = "sent" /\ call'[c].kind = kind /\ call'[c].user = u
         /\ call'[c].again = FALSE
         /\ served'[c] = 0 /\ \A d \in Calls \ {c} : served'[d] = served[d]
BY DEF Sending, TypeOK

(* ... when it is served, answered, lost or refused ...                     *)
SameCall(c) == call'[c].kind = call[c].kind /\ call'[c].user = call[c].user
                 /\ call'[c].again = call[c].again
Goes(c, from, to) == call[c].pc = from /\ call'[c].pc = to

LEMMA CallMoves ==
  ASSUME TypeOK, NEW c \in Calls, CallStep(c)
  PROVE  /\ \A d \in Calls \ {c} : call'[d] = call[d]
         /\ \/ call'[c] = NoCall /\ UNCHANGED served
            \/ Goes(c, "sent", "answered") /\ SameCall(c)
                 /\ served' = [served EXCEPT ![c] = @ + 1]
            \/ Goes(c, "sent", "denied") /\ SameCall(c) /\ UNCHANGED served
                 /\ (call[c].kind \in {"api", "profile"} => ~Verify(call[c].bearer))
            \/ Goes(c, "denied", "waiting") /\ SameCall(c) /\ UNCHANGED served
                 /\ Denied(c)
            \/ call'[c].pc = "failed" /\ call'[c].kind = call[c].kind /\ UNCHANGED served
                 /\ call'[c].user = call[c].user /\ ~Free(c)
            \/ Goes(c, "denied", "unauthorized") /\ call'[c].kind = call[c].kind
                 /\ call[c].again /\ UNCHANGED served
<1>. USE DEF SameCall, Goes
<1>0. call[c] \in CallType /\ call \in [Calls -> CallType]
  BY DEF TypeOK
<1>1. CASE Serve(c)
  BY <1>0, <1>1 DEF Serve, Answering, Carried, CallType
<1>2. CASE ServeLogin(c)
  <2>1. ASSUME NEW t \in Tokens, Carried(c),
               call' = [call EXCEPT ![c].pc = "answered", ![c].token = t,
                                    ![c].bearer = Issue(call[c].user)]
        PROVE  /\ \A d \in Calls \ {c} : call'[d] = call[d]
               /\ call'[c].pc = "answered" /\ SameCall(c)
               /\ served' = [served EXCEPT ![c] = @ + 1]
    BY <1>0, <2>1 DEF Carried, CallType
  <2>2. CASE Answering(c, "denied") /\ UNCHANGED <<owner, accepted, served>>
    BY <1>0, <1>2, <2>2 DEF ServeLogin, Answering, CallType
  <2>. QED
    BY <1>2, <2>1, <2>2 DEF ServeLogin
<1>3. CASE ServeLogout(c)
  BY <1>0, <1>3 DEF ServeLogout, Answering, Carried, CallType
<1>4. CASE CallFails(c)
  <2>. DEFINE x == [NoCall EXCEPT !.pc = "failed", !.kind = call[c].kind, !.user = call[c].user]
  <2>1. x.pc = "failed" /\ x.kind = call[c].kind /\ x.user = call[c].user
    BY DEF NoCall
  <2>2. call' = [call EXCEPT ![c] = x] /\ ~Free(c) /\ UNCHANGED served
    BY <1>4 DEF CallFails, Free
  <2>. HIDE DEF x
  <2>. QED
    BY <1>0, <2>1, <2>2
<1>5. CASE Answered(c) \/ Failed(c)
  <2>1. call' = [call EXCEPT ![c] = NoCall] /\ UNCHANGED served
    BY <1>5 DEF Answered, Failed
  <2>. QED
    BY <1>0, <2>1
<1>6. CASE Denied(c)
  BY <1>0, <1>6 DEF Denied, Retries, Answering, CallType
<1>7. CASE DeniedAgain(c)
  <2>1. Unauthorized(c).pc = "unauthorized" /\ Unauthorized(c).kind = call[c].kind
    BY DEF Unauthorized, NoCall
  <2>. QED
    BY <1>0, <1>7, <2>1 DEF DeniedAgain
<1>. QED
  BY <1>1, <1>2, <1>3, <1>4, <1>5, <1>6, <1>7 DEF CallStep

(* ... and when a refresh ends.                                             *)
LEMMA RefreshMoves ==
  ASSUME TypeOK, RefreshStep, NEW c \in Calls
  PROVE  \/ call'[c] = call[c] /\ (call[c].pc = "waiting" => UNCHANGED troubled)
         \/ /\ Refreshed /\ Goes(c, "waiting", "sent")
            /\ call'[c].kind = call[c].kind /\ call'[c].user = call[c].user
            /\ call'[c].bearer = refresh.access
         \/ NotRefreshed /\ Goes(c, "waiting", "unauthorized")
              /\ call'[c].kind = call[c].kind
<1>. USE DEF Goes
<1>1. CASE ServeRefresh \/ RefreshFails
  BY <1>1 DEF ServeRefresh, RefreshFails
<1>2. CASE Refreshed
  <2>1. /\ SentAgain(c).pc = "sent" /\ SentAgain(c).kind = call[c].kind
        /\ SentAgain(c).user = call[c].user /\ SentAgain(c).bearer = refresh.access
    BY DEF SentAgain, TypeOK, CallType
  <2>. QED
    BY <1>2, <2>1 DEF Refreshed, Waiting
<1>3. CASE NotRefreshed
  <2>1. Unauthorized(c).pc = "unauthorized" /\ Unauthorized(c).kind = call[c].kind
    BY DEF Unauthorized, NoCall
  <2>. QED
    BY <1>3, <2>1 DEF NotRefreshed, Waiting
<1>. QED
  BY <1>1, <1>2, <1>3 DEF RefreshStep

LEMMA RefreshSoundStep ==
  ASSUME TypeOK, RefreshSound, Next
  PROVE  RefreshSound'
<1>1. ASSUME UNCHANGED refresh PROVE RefreshSound'
  BY <1>1 DEF RefreshSound
<1>2. ASSUME refresh' = Shared PROVE RefreshSound'
  BY <1>2 DEF RefreshSound, Shared, Presenting, NoRefresh
<1>3. ASSUME refresh'.pc # "answered" PROVE RefreshSound'
  BY <1>3 DEF RefreshSound
<1>4. ASSUME NEW c \in Calls, CallStep(c) PROVE RefreshSound'
  BY <1>1, <1>2, <1>4 DEF CallStep, Serve, ServeLogin, ServeLogout, CallFails, Answered,
                          Failed, Denied, DeniedAgain
<1>5. ASSUME RefreshStep PROVE RefreshSound'
  <2>1. CASE ServeRefresh
    <3>1. CASE refresh.presents \in accepted
      <4>1. PICK t \in Tokens :
              refresh' = [refresh EXCEPT !.pc = "answered", !.sets = t,
                           !.access = Issue(owner[refresh.presents])]
        BY <2>1, <3>1 DEF ServeRefresh
      <4>2. Issue(owner[refresh.presents]) \in AccessTokens
        BY <3>1 DEF Issue, AccessTokens, TypeOK
      <4>. QED
        BY <4>1, <4>2 DEF RefreshSound, TypeOK, RefreshType
    <3>2. CASE refresh.presents \notin accepted
      BY <1>3, <2>1, <3>2 DEF ServeRefresh, TypeOK, RefreshType
    <3>. QED
      BY <3>1, <3>2
  <2>2. CASE RefreshFails
    BY <1>3, <2>2 DEF RefreshFails, TypeOK, RefreshType
  <2>3. CASE Refreshed \/ NotRefreshed
    BY <1>3, <2>3 DEF Refreshed, NotRefreshed, NoRefresh
  <2>. QED
    BY <1>5, <2>1, <2>2, <2>3 DEF RefreshStep
<1>6. ASSUME Restore \/ Reload PROVE RefreshSound'
  BY <1>1, <1>2, <1>3, <1>6 DEF Restore, Reload, NoRefresh
<1>. QED
  BY <1>1, <1>4, <1>5, <1>6 DEF Next, Call, UpdateProfile, Logout, Login, Expire, Deploy,
     LogoutElsewhere, SessionsEnd, TokenEnds, RefreshElsewhere, LoginElsewhere

(* NobodyLeftWaiting is inductive on its own: a call begins to wait in the  *)
(* step that makes sure of a refresh, and the end of a refresh wakes all.   *)
LEMMA WaitingStep ==
  ASSUME TypeOK, NobodyLeftWaiting, Next
  PROVE  NobodyLeftWaiting'
<1>1. ASSUME refresh'.pc # "none" PROVE NobodyLeftWaiting'
  BY <1>1 DEF NobodyLeftWaiting
<1>2. ASSUME Waiting' = {} PROVE NobodyLeftWaiting'
  BY <1>2 DEF NobodyLeftWaiting
<1>3. ASSUME UNCHANGED refresh, \A c \in Calls : call'[c].pc = "waiting" => call[c].pc = "waiting"
      PROVE  NobodyLeftWaiting'
  BY <1>3 DEF NobodyLeftWaiting, Waiting
<1>4. ASSUME NEW c \in Calls, NEW kind, NEW u, Sending(c, kind, u), UNCHANGED refresh
      PROVE  NobodyLeftWaiting'
  BY <1>3, <1>4 DEF Sending, TypeOK
<1>5. ASSUME NEW c \in Calls, CallStep(c) PROVE NobodyLeftWaiting'
  <2>1. CASE Denied(c)
    BY <1>1, <2>1 DEF Denied, Shared, Presenting, NoRefresh
  <2>2. CASE ~Denied(c)
    <3>1. call'[c].pc # "waiting"
      BY <1>5, <2>2, CallMoves DEF Goes, NoCall
    <3>2. UNCHANGED refresh
      BY <1>5, <2>2 DEF CallStep, Serve, ServeLogin, ServeLogout, CallFails, Answered, Failed,
                        DeniedAgain
    <3>. QED
      BY <1>3, <1>5, <3>1, <3>2, CallMoves
  <2>. QED
    BY <2>1, <2>2
<1>6. ASSUME RefreshStep PROVE NobodyLeftWaiting'
  <2>1. CASE ServeRefresh
    BY <1>1, <2>1 DEF ServeRefresh, TypeOK, RefreshType
  <2>2. CASE RefreshFails
    BY <1>1, <2>2 DEF RefreshFails, TypeOK, RefreshType
  <2>3. CASE Refreshed
    <3>1. \A c \in Calls : SentAgain(c).pc = "sent"
      BY DEF SentAgain, TypeOK, CallType
    <3>. QED
      BY <1>2, <2>3, <3>1 DEF Refreshed, Waiting
  <2>4. CASE NotRefreshed
    BY <1>2, <2>4 DEF NotRefreshed, Waiting, Unauthorized, NoCall
  <2>. QED
    BY <1>6, <2>1, <2>2, <2>3, <2>4 DEF RefreshStep
<1>7. ASSUME Restore \/ Reload PROVE NobodyLeftWaiting'
  BY <1>2, <1>3, <1>7 DEF Restore, Reload, Waiting, NoCall, NobodyLeftWaiting, Shared, Presenting,
                          NoRefresh
<1>8. ASSUME Expire PROVE NobodyLeftWaiting'
  <2>1. \A c \in Calls : call'[c].pc = call[c].pc
    BY <1>8 DEF Expire, TypeOK, CallType
  <2>. QED
    BY <1>3, <1>8, <2>1 DEF Expire
<1>9. ASSUME UNCHANGED <<call, refresh>> PROVE NobodyLeftWaiting'
  BY <1>3, <1>9
<1>. QED
  BY <1>4, <1>5, <1>6, <1>7, <1>8, <1>9 DEF Next, Call, UpdateProfile, Logout, Login,
     Deploy, LogoutElsewhere, SessionsEnd, TokenEnds, RefreshElsewhere, LoginElsewhere

LEMMA CallsSoundStep ==
  ASSUME TypeOK, CallsSound, Next
  PROVE  CallsSound'
<1>1. ASSUME NEW c \in Calls, NEW kind, NEW u, Sending(c, kind, u), UNCHANGED restored,
             kind = "login" => u \in Users, kind = "profile" => restored
      PROVE  CallsSound'
  <2>1. /\ \A d \in Calls \ {c} : call'[d] = call[d]
        /\ call'[c].kind = kind /\ call'[c].user = u
    BY <1>1, SendingMoves
  <2>2. ASSUME NEW d \in Calls, ~Free(d)'
        PROVE  /\ call'[d].kind = "login" => call'[d].user \in Users
               /\ call'[d].kind = "profile" => restored'
    <3>1. CASE d = c
      BY <1>1, <2>1, <3>1
    <3>2. CASE d # c
      <4>1. call'[d] = call[d] /\ ~Free(d)
        BY <2>1, <2>2, <3>2 DEF Free
      <4>. QED
        BY <1>1, <4>1 DEF CallsSound
    <3>. QED
      BY <3>1, <3>2
  <2>. QED
    BY <2>2 DEF CallsSound
<1>2. ASSUME NEW c \in Calls, Call(c) PROVE CallsSound'
  BY <1>1, <1>2 DEF Call
<1>3. ASSUME NEW c \in Calls, UpdateProfile(c) PROVE CallsSound'
  BY <1>1, <1>3 DEF UpdateProfile, TypeOK
<1>4. ASSUME NEW c \in Calls, Logout(c) PROVE CallsSound'
  BY <1>1, <1>4 DEF Logout
<1>5. ASSUME NEW c \in Calls, NEW u \in Users, Login(c, u) PROVE CallsSound'
  BY <1>1, <1>5 DEF Login
<1>6. ASSUME NEW c \in Calls, CallStep(c) PROVE CallsSound'
  <2>1. restored => restored'
    BY <1>6 DEF CallStep, Serve, ServeLogin, ServeLogout, CallFails, Answered, LogIn, Failed,
                Denied, DeniedAgain, TypeOK, CallType
  <2>2. ~Free(c)' => /\ ~Free(c) /\ call'[c].kind = call[c].kind
                     /\ call'[c].user = call[c].user
    BY <1>6, CallMoves DEF Goes, SameCall, Free, NoCall
  <2>3. \A d \in Calls \ {c} : call'[d] = call[d]
    BY <1>6, CallMoves
  <2>. QED
    BY <2>1, <2>2, <2>3 DEF CallsSound, Free
<1>7. ASSUME RefreshStep PROVE CallsSound'
  <2>1. restored => restored'
    BY <1>7 DEF RefreshStep, ServeRefresh, RefreshFails, Refreshed, LogIn, NotRefreshed
  <2>2. \A c \in Calls : ~Free(c)' => /\ ~Free(c) /\ call'[c].kind = call[c].kind
                                      /\ call'[c].user = call[c].user
    BY <1>7, RefreshMoves DEF Goes, Free
  <2>. QED
    BY <2>1, <2>2 DEF CallsSound
<1>8. ASSUME Restore \/ Reload PROVE CallsSound'
  BY <1>8 DEF Restore, Reload, CallsSound, Free, NoCall
<1>9. ASSUME Expire PROVE CallsSound'
  <2>1. \A c \in Calls : call'[c].pc = call[c].pc /\ call'[c].kind = call[c].kind
                          /\ call'[c].user = call[c].user
    BY <1>9 DEF Expire, TypeOK, CallType
  <2>. QED
    BY <1>9, <2>1 DEF Expire, CallsSound, Free
<1>10. ASSUME UNCHANGED <<call, restored>> PROVE CallsSound'
  BY <1>10 DEF CallsSound, Free
<1>. QED
  BY <1>2, <1>3, <1>4, <1>5, <1>6, <1>7, <1>8, <1>9, <1>10 DEF Next, Deploy, LogoutElsewhere,
     SessionsEnd, TokenEnds, RefreshElsewhere, LoginElsewhere

LEMMA ServedSoundStep ==
  ASSUME TypeOK, ServedSound, Next
  PROVE  ServedSound'
<1>1. ASSUME NEW c \in Calls, NEW kind, NEW u, Sending(c, kind, u) PROVE ServedSound'
  <2>1. /\ served'[c] = 0
        /\ \A d \in Calls \ {c} : call'[d] = call[d] /\ served'[d] = served[d]
    BY <1>1, SendingMoves
  <2>. QED
    BY <2>1 DEF ServedSound
<1>2. ASSUME NEW c \in Calls, CallStep(c) PROVE ServedSound'
  <2>1. \A d \in Calls \ {c} : call'[d] = call[d] /\ served'[d] = served[d]
    BY <1>2, CallMoves DEF TypeOK
  <2>2. served[c] \in Nat /\ served \in [Calls -> Nat]
    BY DEF TypeOK
  <2>3. /\ served'[c] <= 1
        /\ call'[c].pc \in {"sent", "denied", "waiting"} => served'[c] = 0
    BY <1>2, <2>2, CallMoves DEF ServedSound, Goes, NoCall
  <2>. QED
    BY <2>1, <2>3 DEF ServedSound
<1>3. ASSUME RefreshStep PROVE ServedSound'
  <2>1. UNCHANGED served
    BY <1>3 DEF RefreshStep, ServeRefresh, RefreshFails, Refreshed, NotRefreshed
  <2>. QED
    BY <1>3, <2>1, RefreshMoves DEF ServedSound, Goes
<1>4. ASSUME Restore \/ Reload PROVE ServedSound'
  BY <1>4 DEF Restore, Reload, ServedSound, NoCall
<1>5. ASSUME Expire PROVE ServedSound'
  <2>1. \A c \in Calls : call'[c].pc = call[c].pc
    BY <1>5 DEF Expire, TypeOK, CallType
  <2>. QED
    BY <1>5, <2>1 DEF Expire, ServedSound
<1>6. ASSUME UNCHANGED <<call, served>> PROVE ServedSound'
  BY <1>6 DEF ServedSound
<1>. QED
  BY <1>1, <1>2, <1>3, <1>4, <1>5, <1>6 DEF Next, Call, UpdateProfile, Logout, Login, Deploy,
     LogoutElsewhere, SessionsEnd, TokenEnds, RefreshElsewhere, LoginElsewhere

LEMMA TroubleSoundStep ==
  ASSUME TypeOK, TroubleSound, Next
  PROVE  TroubleSound'
<1>. DEFINE Fine(c) ==
       call[c].kind \in {"api", "profile"} =>
         /\ call[c].pc = "unauthorized" => c \in troubled
         /\ call[c].pc = "denied" /\ call[c].again => c \in troubled
         /\ call[c].pc = "sent" /\ call[c].again => Verify(call[c].bearer) \/ c \in troubled
<1>0. \A c \in Calls : Fine(c)
  BY DEF TroubleSound
<1>1. ASSUME NEW c \in Calls, NEW kind, NEW u, Sending(c, kind, u), UNCHANGED key
      PROVE  TroubleSound'
  <2>1. /\ call'[c].pc = "sent" /\ call'[c].again = FALSE
        /\ \A d \in Calls \ {c} : call'[d] = call[d]
    BY <1>1, SendingMoves
  <2>2. \A d \in Calls \ {c} : d \in troubled /\ call[d].pc # "idle" => d \in troubled'
    BY <1>1 DEF Sending
  <2>. QED
    BY <1>0, <1>1, <2>1, <2>2 DEF TroubleSound, Verify
<1>2. ASSUME NEW c \in Calls, CallStep(c) PROVE TroubleSound'
  <2>1. UNCHANGED <<troubled, key>>
    BY <1>2 DEF CallStep, Serve, ServeLogin, ServeLogout, CallFails, Answered, Failed, Denied,
                DeniedAgain
  <2>2. \A d \in Calls \ {c} : call'[d] = call[d]
    BY <1>2, CallMoves
  <2>3. Fine(c)'
    BY <1>0, <1>2, <2>1, CallMoves DEF Goes, SameCall, NoCall
  <2>. QED
    BY <1>0, <2>1, <2>2, <2>3 DEF TroubleSound, Verify
<1>3. ASSUME RefreshStep, NEW c \in Calls PROVE Fine(c)'
  <2>1. UNCHANGED key /\ troubled \subseteq troubled'
    BY <1>3 DEF RefreshStep, ServeRefresh, RefreshFails, Refreshed, NotRefreshed
  <2>2. CASE call'[c] = call[c]
    BY <1>0, <2>1, <2>2 DEF Verify
  <2>3. CASE Refreshed /\ Goes(c, "waiting", "sent") /\ call'[c].bearer = refresh.access
    <3>1. Verify(refresh.access) \/ c \in troubled'
      BY <2>3 DEF Refreshed, Goes, Waiting
    <3>. QED
      BY <2>1, <2>3, <3>1 DEF Goes, Verify
  <2>4. CASE NotRefreshed /\ Goes(c, "waiting", "unauthorized")
    BY <2>4 DEF NotRefreshed, Goes, Waiting
  <2>. QED
    BY <1>3, <2>2, <2>3, <2>4, RefreshMoves
<1>4. ASSUME Restore \/ Reload PROVE TroubleSound'
  BY <1>4 DEF Restore, Reload, TroubleSound, NoCall, Verify
<1>5. ASSUME Expire PROVE TroubleSound'
  <2>1. ASSUME NEW c \in Calls PROVE Fine(c)'
    <3>1. /\ call'[c].pc = call[c].pc /\ call'[c].kind = call[c].kind
          /\ call'[c].again = call[c].again
      BY <1>5 DEF Expire, TypeOK, CallType
    <3>2. call[c].pc = "sent" /\ call[c].again => c \in troubled'
      BY <1>5 DEF Expire, Renewed, Free
    <3>. QED
      BY <1>0, <1>5, <3>1, <3>2 DEF Expire
  <2>. QED
    BY <2>1 DEF TroubleSound
<1>6. ASSUME Deploy PROVE TroubleSound'
  <2>1. \A c \in Calls : call[c].pc = "sent" /\ call[c].again => c \in troubled'
    BY <1>6 DEF Deploy, Renewed, Free
  <2>. QED
    BY <1>6, <2>1 DEF Deploy, TroubleSound
<1>7. ASSUME UNCHANGED <<call, troubled, key>> PROVE TroubleSound'
  BY <1>7 DEF TroubleSound, Verify
<1>8. RefreshStep => TroubleSound'
  BY <1>3 DEF TroubleSound
<1>. QED
  BY <1>1, <1>2, <1>4, <1>5, <1>6, <1>7, <1>8 DEF Next, Call, UpdateProfile, Logout, Login,
     LogoutElsewhere, SessionsEnd, TokenEnds, RefreshElsewhere, LoginElsewhere

LEMMA OutSoundStep ==
  ASSUME TypeOK, OutSound, Next
  PROVE  OutSound'
<1>. SUFFICES ASSUME out' PROVE OutSound'
  BY DEF OutSound
<1>0. None \notin accepted
  BY NoneAssumption DEF TypeOK
<1>1. out => Shared.presents = None /\ Shared.pc # "answered"
  BY DEF OutSound, Shared, Presenting, NoRefresh
<1>2. ASSUME NEW c \in Calls, Call(c) PROVE OutSound'
  <2>1. /\ call'[c].kind = "api" /\ \A d \in Calls \ {c} : call'[d] = call[d]
    BY <1>2, SendingMoves DEF Call
  <2>. QED
    BY <1>2, <2>1 DEF Call, OutSound, Free
<1>3. ASSUME NEW c \in Calls, UpdateProfile(c) \/ Logout(c) PROVE FALSE
  BY <1>3 DEF UpdateProfile, Logout, OutSound
<1>4. ASSUME NEW c \in Calls, NEW u \in Users, Login(c, u) PROVE FALSE
  BY <1>4 DEF Login
<1>5. ASSUME NEW c \in Calls, CallStep(c) PROVE OutSound'
  <2>1. /\ \A d \in Calls \ {c} : call'[d] = call[d]
        /\ call'[c].kind = call[c].kind \/ call'[c] = NoCall
    BY <1>5, CallMoves DEF SameCall
  <2>2. CASE Answered(c) /\ call[c].kind = "logout"
    <3>1. Quiet(c) /\ Forget /\ cookies' = NoCookies /\ refresh' = refresh
      BY <2>2 DEF Answered, CookiesAfterLogout
    <3>2. Free(c)'
      BY <2>2 DEF Answered, Free, NoCall, TypeOK
    <3>. QED
      BY <2>1, <3>1, <3>2 DEF OutSound, Quiet, Forget, NoCookies, Free
  <2>3. CASE ~(Answered(c) /\ call[c].kind = "logout")
    <3>1. UNCHANGED out
      BY <1>5, <2>3 DEF CallStep, Serve, ServeLogin, ServeLogout, CallFails, Answered, Failed,
                        Denied, DeniedAgain, TypeOK, CallType
    <3>2. Free(c) \/ call[c].kind \in {"api", "logout"}
      BY <3>1 DEF OutSound
    <3>3. shown' = None /\ access' = None /\ cookies' = cookies
      BY <1>5, <2>3, <3>1, <3>2 DEF CallStep, Serve, ServeLogin, ServeLogout, CallFails, Answered,
                        Failed, Forget, Denied, DeniedAgain, OutSound, Free
    <3>4. refresh' \in {refresh, Shared}
      BY <1>5 DEF CallStep, Serve, ServeLogin, ServeLogout, CallFails, Answered,
                        Failed, Denied, DeniedAgain
    <3>5. \A d \in Calls : Free(d)' \/ call'[d].kind \in {"api", "logout"}
      <4>1. ~Free(c)' => ~Free(c) \/ call'[c] = NoCall
        BY <1>5, CallMoves DEF Goes, Free
      <4>. QED
        BY <2>1, <3>1, <4>1 DEF OutSound, Free, NoCall
    <3>. QED
      BY <1>1, <3>1, <3>3, <3>4, <3>5 DEF OutSound
  <2>. QED
    BY <2>2, <2>3
<1>6. ASSUME RefreshStep PROVE OutSound'
  <2>1. UNCHANGED out
    BY <1>6 DEF RefreshStep, ServeRefresh, RefreshFails, Refreshed, NotRefreshed
  <2>2. \A c \in Calls : Free(c)' \/ call'[c].kind \in {"api", "logout"}
    BY <1>6, <2>1, RefreshMoves DEF OutSound, Free, Goes
  <2>3. CASE ServeRefresh
    <3>1. /\ refresh'.presents = None /\ refresh'.pc # "answered"
          /\ UNCHANGED <<cookies, access, shown>>
      <4>1. refresh.presents = None /\ refresh.presents \notin accepted
        <5>1. refresh.pc = "sent"
          BY <2>3 DEF ServeRefresh
        <5>2. out
          BY <2>1
        <5>3. refresh.presents = None
          BY <5>1, <5>2 DEF OutSound
        <5>. QED
          BY <1>0, <5>3
      <4>2. refresh' = [refresh EXCEPT !.pc = "nothing"] /\ UNCHANGED <<cookies, access, shown>>
        BY <2>3, <4>1 DEF ServeRefresh
      <4>. QED
        BY <4>1, <4>2 DEF TypeOK, RefreshType
    <3>. QED
      BY <2>1, <2>2, <3>1 DEF OutSound
  <2>4. CASE RefreshFails
    <3>1. refresh'.presents = refresh.presents /\ refresh'.pc = "failed" /\ refresh.pc # "none"
      BY <2>4 DEF RefreshFails, TypeOK, RefreshType
    <3>. QED
      BY <2>1, <2>2, <2>4, <3>1 DEF OutSound, RefreshFails
  <2>5. CASE Refreshed
    BY <2>1, <2>5 DEF OutSound, Refreshed
  <2>6. CASE NotRefreshed
    <3>1. cookies'.token = None
      BY <2>1, <2>6 DEF NotRefreshed, NoCookies, OutSound, TypeOK
    <3>. QED
      BY <2>1, <2>2, <2>6, <3>1 DEF OutSound, NotRefreshed, Forget, NoRefresh
  <2>. QED
    BY <1>6, <2>3, <2>4, <2>5, <2>6 DEF RefreshStep
<1>7. ASSUME Restore \/ Reload PROVE OutSound'
  <2>1. CASE Restore
    <3>1. UNCHANGED <<out, cookies, access, shown, call>> /\ refresh' \in {refresh, Shared}
      BY <2>1 DEF Restore
    <3>. QED
      BY <1>1, <3>1 DEF OutSound, Free
  <2>2. CASE Reload
    BY <2>2 DEF Reload, OutSound, Free, NoCall, NoRefresh
  <2>. QED
    BY <1>7, <2>1, <2>2
<1>8. ASSUME Expire \/ Deploy \/ LogoutElsewhere \/ SessionsEnd PROVE OutSound'
  BY <1>8 DEF Expire, Deploy, LogoutElsewhere, SessionsEnd, OutSound, Free
<1>9. ASSUME NEW t \in Tokens, TokenEnds(t) \/ RefreshElsewhere(t) PROVE OutSound'
  BY <1>0, <1>9 DEF TokenEnds, RefreshElsewhere, OutSound, Free
<1>10. ASSUME NEW t \in Tokens, NEW u \in Users, LoginElsewhere(u, t) PROVE FALSE
  BY <1>10 DEF LoginElsewhere
<1>. QED
  BY <1>2, <1>3, <1>4, <1>5, <1>6, <1>7, <1>8, <1>9, <1>10 DEF Next

-----------------------------------------------------------------------------
LEMMA IInvInit == Init => IInv
<1> SUFFICES ASSUME Init PROVE IInv
  OBVIOUS
<1>1. RefreshSound /\ CallsSound /\ ServedSound /\ NobodyLeftWaiting /\ TroubleSound /\ OutSound
  BY DEF Init, RefreshSound, CallsSound, ServedSound, NobodyLeftWaiting, Waiting,
         TroubleSound, OutSound, NoRefresh, NoCall, Free
<1>. QED
  BY <1>1, TypeInit DEF IInv

LEMMA IInvStep == IInv /\ [Next]_vars => IInv'
<1> SUFFICES ASSUME IInv, [Next]_vars PROVE IInv'
  OBVIOUS
<1>1. CASE Next
  BY <1>1, TypeStep, RefreshSoundStep, CallsSoundStep, ServedSoundStep, WaitingStep,
     TroubleSoundStep, OutSoundStep DEF IInv
<1>2. CASE UNCHANGED vars
  BY <1>2 DEF vars, IInv, TypeOK, RefreshSound, CallsSound, ServedSound, NobodyLeftWaiting,
              Waiting, TroubleSound, Verify, OutSound, Free
<1>. QED
  BY <1>1, <1>2

THEOREM Inductive == Spec => []IInv
BY IInvInit, IInvStep, PTL DEF Spec

(* The tab, its calls and its refresh are always of their types: no answer  *)
(* leaves a user half logged in (applySession, performRefresh).             *)
THEOREM TypeCorrect == Spec => []TypeOK
<1>1. IInv => TypeOK
  BY DEF IInv
<1>. QED
  BY Inductive, <1>1, PTL

(* The retry of request() never repeats what the server has carried out.    *)
THEOREM NothingTwice == Spec => []PerformedOnce
<1>1. IInv => PerformedOnce
  BY DEF IInv, ServedSound, PerformedOnce
<1>. QED
  BY Inductive, <1>1, PTL

(* The shared refresh wakes whoever waits for it (refreshInFlight).         *)
THEOREM AllAreWoken == Spec => []NobodyLeftWaiting
<1>1. IInv => NobodyLeftWaiting
  BY DEF IInv
<1>. QED
  BY Inductive, <1>1, PTL

(* A 401 gets through request() only when the session has failed or the     *)
(* renewed access token has.                                                *)
THEOREM DeniedForCause == Spec => []OnlyWithoutSession
<1>1. IInv => OnlyWithoutSession
  BY DEF IInv, TroubleSound, OnlyWithoutSession
<1>. QED
  BY Inductive, <1>1, PTL

(* A logout that found nothing else under way lasts until the next login.   *)
THEOREM LogoutLasts == Spec => []LogoutSticks
<1>1. IInv => LogoutSticks
  BY DEF IInv, OutSound, LogoutSticks
<1>. QED
  BY Inductive, <1>1, PTL
=============================================================================
