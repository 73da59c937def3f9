-------------------------------- MODULE Limits --------------------------------
(***************************************************************************)
(* The limits on attempts: fixed windows in the memory of every API        *)
(* process, counted by origin and by account for logins, by origin for     *)
(* signups and by user for posts, comments and uploads.                    *)
(*                                                                         *)
(* Allow and Reset hold the limiter's mutex and are single steps.  A login *)
(* takes several: it counts the origin, then the account, compares the     *)
(* password for hundreds of milliseconds and clears the account's count    *)
(* when the password was right.  Time is a small counter.                  *)
(***************************************************************************)
EXTENDS Naturals, Sequences, FiniteSets

CONSTANTS
  Servers,      \* API processes; every one counts for itself
  Requests,     \* concurrent logins
  Accounts,     \* users, and the addresses they log in with
  Spellings,    \* ways to write an address: lower case or not
  Origins,      \* addresses of clients
  Claims,       \* what clients write into X-Forwarded-For themselves
  Edge, Balancer, \* addresses of CloudFront and of the load balancer
  Writes,       \* limiters of writes: posts, comments, uploads
  Limit,        \* LoginAttemptLimit, PostCreateLimit and so on
  Period,       \* LoginAttemptWindow, WriteLimitWindow
  Hops,         \* AuthOptions.TrustedProxyHops
  Production,   \* APP_ENV
  None,
  MaxClock      \* bound: when the model's time ends

ASSUME LimitAssumption == Limit \in Nat \ {0}
ASSUME TimeAssumption == Period \in Nat \ {0} /\ MaxClock \in Nat
ASSUME ClaimAssumption == \A c \in Claims : c \in Seq(Origins)
ASSUME LoginAssumption == {"byIP", "byEmail"} \intersect Writes = {}
ASSUME ServedAssumption == Production /\ Hops = 1
ASSUME NoneAssumption == None \notin Nat

VARIABLES
  clock,
  trust,     \* AuthOptions.TrustProxyHeaders of each process
  attempts,  \* RateLimiter.attempts: the window of every key that is kept
  lastSweep, \* RateLimiter.lastSweep
  request,   \* the logins under way
  passed,    \* history: the attempts that were let through within the last
             \* period, since the process was started and, on an account,
             \* since the last success: <<when, which, by whom>>
  last       \* history: the last verdict

vars == <<clock, trust, attempts, lastSweep, request, passed, last>>

Times == 0 .. MaxClock
Limiters == {"byIP", "byEmail"} \union Writes
Addresses == Accounts \X Spellings
Keys == ({"login", "signup"} \X (Origins \union {Edge, Balancer}))
          \union ({"login"} \X Accounts)
          \union ({"write"} \X Accounts)
Windows == [count : Nat, expires : 0 .. MaxClock + Period]

(* What is meant to be limited, whatever key is computed for it: the        *)
(* attempts of an origin, the attempts on an account, whoever makes them,   *)
(* and the writes of a user.                                                *)
Subjects == ({"byIP"} \X {"login", "signup"} \X Origins)
            \union ({"byEmail"} \X {"login"} \X Accounts)
            \union (Writes \X {"write"} \X Accounts)

Callers == Origins \union Accounts

Logins == [pc : {"idle", "account", "compare"}, server : Servers \union {None},
           origin : Origins \union {None}, address : Addresses \union {None}]

Idle == [pc |-> "idle", server |-> None, origin |-> None, address |-> None]
Empty == [k \in {} |-> [count |-> 0, expires |-> 0]]

-----------------------------------------------------------------------------
(* forwardedHop: counted from the end, and never further than there is.     *)
ForwardedHop(h) == IF Hops < Len(h) THEN h[Len(h) - Hops] ELSE h[Len(h)]

(* CloudFront and the load balancer each append the address that called.    *)
Header(origin, claim) == claim \o <<origin, Edge>>

ClientIP(s, h) == IF trust[s] /\ h # <<>> THEN ForwardedHop(h) ELSE Balancer

(* Fault: the address is used as it was typed. *)
KeyAsTyped(address) == <<"login", address>>

(* strings.ToLower *)
EmailKey(address) == <<"login", address[1]>>

(* Fault: what was typed is cleared. *)
ResetKeyAsTyped(address) == <<"login", address>>
ResetKey(address) == EmailKey(address)

-----------------------------------------------------------------------------
Open(s, l, k, now) ==
  k \in DOMAIN attempts[s][l] /\ now <= attempts[s][l][k].expires

SweepDue(s, l, now) == lastSweep[s][l] = None \/ now >= lastSweep[s][l] + Period

(* Fault: nothing is swept. *)
SweptNot(s, l, now) == DOMAIN attempts[s][l]

(* The keys that sweepLocked leaves. *)
Swept(s, l, now) ==
  IF SweepDue(s, l, now) THEN {k \in DOMAIN attempts[s][l] : Open(s, l, k, now)}
  ELSE DOMAIN attempts[s][l]

Counted(s, l, k, now) ==
  IF Open(s, l, k, now) THEN [attempts[s][l][k] EXCEPT !.count = @ + 1]
  ELSE [count |-> 1, expires |-> now + Period]

(* Fault: one attempt too many. *)
AllowsOneMore(s, l, k, now) ==
  Open(s, l, k, now) => attempts[s][l][k].count < Limit + 1

Allows(s, l, k, now) == Open(s, l, k, now) => attempts[s][l][k].count < Limit

(* One more pass: the passes of one instant are numbered. *)
Pass(p, who) == <<clock, Cardinality({x \in p : x[1] = clock}), who>>

(* RateLimiter.Allow of limiter l in process s, for key k, which was        *)
(* computed for subject a, when who calls.                                  *)
Allow(s, l, k, a, who) ==
  /\ attempts' = [attempts EXCEPT ![s][l] =
       [j \in Swept(s, l, clock) \union {k} |->
          IF j = k THEN Counted(s, l, k, clock) ELSE attempts[s][l][j]]]
  /\ lastSweep' =
       [lastSweep EXCEPT ![s][l] = IF SweepDue(s, l, clock) THEN clock ELSE @]
  /\ last' = [server |-> s, subject |-> a, by |-> who, allowed |-> Allows(s, l, k, clock)]
  /\ passed' = IF Allows(s, l, k, clock)
               THEN [passed EXCEPT ![s][a] = @ \union {Pass(@, who)}] ELSE passed
  /\ UNCHANGED <<clock, trust>>

-----------------------------------------------------------------------------
(* checkProduction *)
Accepts(t) == Production => t

Init ==
  /\ clock = 0
  /\ trust \in [Servers -> {t \in BOOLEAN : Accepts(t)}]
  /\ attempts = [s \in Servers |-> [l \in Limiters |-> Empty]]
  /\ lastSweep = [s \in Servers |-> [l \in Limiters |-> None]]
  /\ request = [q \in Requests |-> Idle]
  /\ passed = [s \in Servers |-> [a \in Subjects |-> {}]]
  /\ last = None

(* Login: the origin is counted first; the account is not counted for an    *)
(* origin that has had its share.                                           *)
LoginByIP(q, s, o, claim, address) ==
  LET ip == ClientIP(s, Header(o, claim)) IN
  /\ request[q].pc = "idle"
  /\ Allow(s, "byIP", <<"login", ip>>, <<"byIP", "login", o>>, o)
  /\ request' = IF Allows(s, "byIP", <<"login", ip>>, clock)
                THEN [request EXCEPT ![q] = [pc |-> "account", server |-> s,
                                             origin |-> o, address |-> address]]
                ELSE request

LoginByEmail(q) ==
  LET s == request[q].server
      address == request[q].address IN
  /\ request[q].pc = "account"
  /\ Allow(s, "byEmail", EmailKey(address), <<"byEmail", "login", address[1]>>,
           request[q].origin)
  /\ request' = IF Allows(s, "byEmail", EmailKey(address), clock)
                THEN [request EXCEPT ![q].pc = "compare"]
                ELSE [request EXCEPT ![q] = Idle]

(* Wrong, unknown, or the database fails. *)
LoginFails(q) ==
  /\ request[q].pc = "compare"
  /\ request' = [request EXCEPT ![q] = Idle]
  /\ last' = None
  /\ UNCHANGED <<clock, trust, attempts, lastSweep, passed>>

LoginSucceeds(q) ==
  LET s == request[q].server
      address == request[q].address IN
  /\ request[q].pc = "compare"
  /\ attempts' = [attempts EXCEPT ![s].byEmail =
       [k \in DOMAIN @ \ {ResetKey(address)} |-> @[k]]]
  /\ passed' = [passed EXCEPT ![s][<<"byEmail", "login", address[1]>>] = {}]
  /\ request' = [request EXCEPT ![q] = Idle]
  /\ last' = None
  /\ UNCHANGED <<clock, trust, lastSweep>>

Signup(s, o, claim) ==
  /\ Allow(s, "byIP", <<"signup", ClientIP(s, Header(o, claim))>>,
           <<"byIP", "signup", o>>, o)
  /\ UNCHANGED request

(* writeLimiter.allow: PresignMediaUpload, CreatePost, CreateComment. *)
Write(s, l, u) ==
  /\ Allow(s, l, <<"write", u>>, <<l, "write", u>>, u)
  /\ UNCHANGED request

(* A process is replaced: it starts with empty maps, and its requests end.  *)
Start(s) ==
  /\ attempts' = [attempts EXCEPT ![s] = [l \in Limiters |-> Empty]]
  /\ lastSweep' = [lastSweep EXCEPT ![s] = [l \in Limiters |-> None]]
  /\ \E t \in BOOLEAN : Accepts(t) /\ trust' = [trust EXCEPT ![s] = t]
  /\ request' = [q \in Requests |-> IF request[q].server = s THEN Idle ELSE request[q]]
  /\ passed' = [passed EXCEPT ![s] = [a \in Subjects |-> {}]]
  /\ last' = None
  /\ UNCHANGED clock

(* Passes older than the period are forgotten. *)
Tick ==
  /\ clock < MaxClock
  /\ clock' = clock + 1
  /\ passed' = [s \in Servers |-> [a \in Subjects |->
       {x \in passed[s][a] : x[1] + Period >= clock + 1}]]
  /\ last' = None
  /\ UNCHANGED <<trust, attempts, lastSweep, request>>

Next ==
  \/ \E q \in Requests :
       \/ \E s \in Servers, o \in Origins, c \in Claims, a \in Addresses :
            LoginByIP(q, s, o, c, a)
       \/ LoginByEmail(q) \/ LoginFails(q) \/ LoginSucceeds(q)
  \/ \E s \in Servers :
       \/ \E o \in Origins, c \in Claims : Signup(s, o, c)
       \/ \E l \in Writes, u \in Accounts : Write(s, l, u)
       \/ Start(s)
  \/ Tick

Spec == Init /\ [][Next]_vars

-----------------------------------------------------------------------------
TypeOK ==
  /\ clock \in Times
  /\ trust \in [Servers -> BOOLEAN]
  /\ DOMAIN attempts = Servers
  /\ \A s \in Servers : DOMAIN attempts[s] = Limiters
  /\ lastSweep \in [Servers -> [Limiters -> Times \union {None}]]
  /\ \A s \in Servers, l \in Limiters :
       /\ DOMAIN attempts[s][l] \subseteq Keys
       /\ \A k \in DOMAIN attempts[s][l] : attempts[s][l][k] \in Windows
  /\ request \in [Requests -> Logins]
  /\ passed \in [Servers -> [Subjects -> SUBSET (Times \X Nat \X Callers)]]
  /\ last \in [server : Servers, subject : Subjects, by : Callers, allowed : BOOLEAN]
                \union {None}

(* A fixed window lets up to twice the limit through around its end, and    *)
(* never more: whatever header or spelling is used, and while other         *)
(* requests count, reset and sweep, one process lets through at most twice  *)
(* the limit in a stretch of time as long as the period: attempts of an     *)
(* origin or writes of a user, since the process was started; attempts on   *)
(* an account, since the last success, which clears the account's count.    *)
AtMostTwice == \A s \in Servers, a \in Subjects : Cardinality(passed[s][a]) <= 2 * Limit

(* An attempt is refused only for attempts on the same count, and only for  *)
(* recent ones: an origin and a user for at least as many passes of their   *)
(* own, within the last period, as the limit says; a login at an account    *)
(* for as many passes on that account, within the last period and since the *)
(* last success.  The latter may be anybody's: who logs in does answer for  *)
(* what others tried on the account (OneOriginLocksNobodyOut below).        *)
RefusedForCause ==
  last # None /\ ~last.allowed =>
    Cardinality(passed[last.server][last.subject]) >= Limit

(* What is kept in memory after an attempt was begun within the last two    *)
(* periods: the map does not grow with every key that was ever tried.       *)
StoredAreRecent ==
  last # None =>
    LET l == last.subject[1] IN
    \A k \in DOMAIN attempts[last.server][l] :
      attempts[last.server][l][k].expires + Period > clock

-----------------------------------------------------------------------------
(* What comments say and the code does not keep.                            *)

(* Login counts the origin and the account independently, so that neither   *)
(* form of attack works, among them the one that sends somebody else's      *)
(* address over and over until its owner cannot log in (auth.go:244-247).   *)
(* So one other origin, held to its own limit, would not be enough to have  *)
(* a login refused at the account.  Both limits are the same number, and it *)
(* is enough.                                                               *)
OneOriginLocksNobodyOut ==
  last # None /\ ~last.allowed /\ last.subject[1] = "byEmail" =>
    ~ \E o \in Origins \ {last.by} :
        \A x \in passed[last.server][last.subject] : x[3] = o
=============================================================================
