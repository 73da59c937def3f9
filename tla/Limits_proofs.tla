----------------------------- MODULE Limits_proofs -----------------------------
(***************************************************************************)
(* Theorems about Limits, for any numbers of processes, logins, accounts,  *)
(* spellings, origins and headers, any limit and any period.               *)
(*                                                                         *)
(* What a subject has passed is compared with the window that is kept for  *)
(* its key.                                                                *)
(***************************************************************************)
EXTENDS Limits, FiniteSetTheorems, TLAPS

KeyOf(a) == <<a[2], a[3]>>

(* The passes of the window that ends at e, and the earlier ones.           *)
Within(p, e) == {x \in p : x[1] + Period >= e}
Before(p, e) == {x \in p : x[1] + Period < e}

(* Passes lie in the last period; those of this instant are numbered.       *)
PassesSound(p, now) ==
  /\ p \subseteq Nat \X Nat \X Callers /\ IsFiniteSet(p)
  /\ \A x \in p : x[1] <= now /\ now <= x[1] + Period
  /\ \A x \in p : x[1] = now => x[2] < Cardinality({y \in p : y[1] = now})

(* With no window, at most one window's passes are left, all of them earlier.*)
Closed(p, now) ==
  /\ Cardinality(p) <= Limit
  /\ \A x \in p : x[1] < now

(* With a window: at most the limit in it and before it.  As long as it is  *)
(* open none of its passes is forgotten.                                    *)
Fits(p, w, now) ==
  /\ w \in [count : Nat \ {0}, expires : Nat] /\ w.expires <= now + Period
  /\ \A x \in p : x[1] <= w.expires
  /\ Cardinality(Within(p, w.expires)) <= Limit
  /\ Cardinality(Before(p, w.expires)) <= Limit
  /\ now <= w.expires =>
       Cardinality(Within(p, w.expires)) = IF w.count < Limit THEN w.count ELSE Limit

(* What is known of a subject, by what the limiter keeps under its key.    *)
SubjectSound(p, m, k, now) ==
  /\ PassesSound(p, now)
  /\ IF k \in DOMAIN m THEN Fits(p, m[k], now) ELSE Closed(p, now)

SubjectsSound ==
  \A s \in Servers, a \in Subjects :
    SubjectSound(passed[s][a], attempts[s][a[1]], KeyOf(a), clock)

(* A login that has been counted knows its process, origin and address.     *)
RequestsSound ==
  \A q \in Requests : request[q].pc # "idle" =>
    /\ request[q].server \in Servers /\ request[q].origin \in Origins
    /\ request[q].address \in Addresses

(* Every window that is kept was open at the last sweep, or came later.     *)
SweepsSound ==
  \A s \in Servers, l \in Limiters :
    /\ lastSweep[s][l] # None => lastSweep[s][l] <= clock
    /\ \A k \in DOMAIN attempts[s][l] :
         lastSweep[s][l] # None /\ lastSweep[s][l] <= attempts[s][l][k].expires

Trusting == \A s \in Servers : trust[s]

IInv ==
  /\ TypeOK /\ SubjectsSound /\ RequestsSound /\ SweepsSound /\ Trusting
  /\ RefusedForCause /\ StoredAreRecent

-----------------------------------------------------------------------------
(* One more pass.                                                           *)

LEMMA Constants ==
  Limit \in Nat /\ Limit > 0 /\ Period \in Nat /\ Period > 0 /\ MaxClock \in Nat /\ None \notin Nat
BY LimitAssumption, TimeAssumption, NoneAssumption

LEMMA OneMore ==
  ASSUME NEW p, NEW x, IsFiniteSet(p), x \notin p
  PROVE  /\ IsFiniteSet(p \union {x})
         /\ Cardinality(p) \in Nat
         /\ Cardinality(p \union {x}) = Cardinality(p) + 1
BY FS_AddElement, FS_CardinalityType

LEMMA PassIsNew ==
  ASSUME NEW p, NEW who \in Callers, clock \in Nat, PassesSound(p, clock)
  PROVE  /\ Pass(p, who) \in Nat \X Nat \X Callers
         /\ Pass(p, who)[1] = clock /\ Pass(p, who) \notin p
         /\ PassesSound(p \union {Pass(p, who)}, clock)
<1> DEFINE now(q) == {y \in q : y[1] = clock}
           n == Cardinality(now(p))
           x == Pass(p, who)
<1>1. IsFiniteSet(now(p)) /\ n \in Nat
  <2>1. IsFiniteSet(p) BY DEF PassesSound
  <2> QED BY <2>1, FS_Subset, FS_CardinalityType
<1>2. x = <<clock, n, who>> /\ x[1] = clock /\ x[2] = n /\ x \in Nat \X Nat \X Callers
  BY <1>1 DEF Pass
<1>3. x \notin p BY <1>1, <1>2 DEF PassesSound
<1>4. now(p \union {x}) = now(p) \union {x} BY <1>2
<1>5. Cardinality(now(p) \union {x}) = n + 1
  <2>1. x \notin now(p) BY <1>3
  <2> QED BY <1>1, <2>1, OneMore
<1>6. IsFiniteSet(p \union {x}) BY <1>3, OneMore DEF PassesSound
<1>7. \A y \in p \union {x} : y[1] = clock => y[2] < n + 1
  <2>1. \A y \in p : y[1] = clock => y[2] < n /\ y[2] \in Nat BY DEF PassesSound
  <2> QED BY <2>1, <1>1, <1>2
<1>8. \A y \in p \union {x} : y[1] = clock => y[2] < Cardinality(now(p \union {x}))
  BY <1>4, <1>5, <1>7
<1>9. \A y \in p \union {x} : y[1] <= clock /\ clock <= y[1] + Period
  BY <1>2, Constants DEF PassesSound
<1>10. p \union {x} \subseteq Nat \X Nat \X Callers BY <1>2 DEF PassesSound
<1> QED BY <1>2, <1>3, <1>6, <1>8, <1>9, <1>10 DEF PassesSound

(* The parts of a set of passes.                                            *)
LEMMA Parts ==
  ASSUME NEW p, IsFiniteSet(p), p \subseteq Nat \X Nat \X Callers, NEW e \in Nat
  PROVE  /\ IsFiniteSet(Within(p, e)) /\ IsFiniteSet(Before(p, e))
         /\ Cardinality(Within(p, e)) \in Nat /\ Cardinality(Before(p, e)) \in Nat
         /\ Cardinality(p) \in Nat
         /\ Cardinality(p) = Cardinality(Within(p, e)) + Cardinality(Before(p, e))
<1>1. IsFiniteSet(Within(p, e)) /\ IsFiniteSet(Before(p, e)) BY FS_Subset DEF Within, Before
<1>2. Within(p, e) \intersect Before(p, e) = {} BY Constants DEF Within, Before
<1>3. p = Within(p, e) \union Before(p, e) BY Constants DEF Within, Before
<1>4. Cardinality(Within(p, e) \intersect Before(p, e)) = 0 BY <1>2, FS_EmptySet
<1>5. Cardinality(p) = Cardinality(Within(p, e)) + Cardinality(Before(p, e))
                        - Cardinality(Within(p, e) \intersect Before(p, e))
  BY <1>1, <1>3, FS_Union
<1>6. /\ Cardinality(Within(p, e)) \in Nat /\ Cardinality(Before(p, e)) \in Nat
      /\ Cardinality(p) \in Nat
  BY <1>1, FS_CardinalityType
<1> QED BY <1>1, <1>4, <1>5, <1>6

LEMMA Smaller ==
  ASSUME NEW p, IsFiniteSet(p), NEW q, q \subseteq p
  PROVE  /\ IsFiniteSet(q) /\ Cardinality(q) \in Nat /\ Cardinality(p) \in Nat
         /\ Cardinality(q) <= Cardinality(p)
BY FS_Subset, FS_CardinalityType

(* A window that has ended counts for nothing any more.                     *)
LEMMA Ended ==
  ASSUME NEW p, NEW w, NEW now \in Nat, PassesSound(p, now), Fits(p, w, now), ~(now <= w.expires)
  PROVE  Closed(p, now)
<1> DEFINE e == w.expires
<1>1. e \in Nat /\ e < now BY DEF Fits
<1>2. p = Within(p, e)
  BY <1>1, Constants DEF PassesSound, Within
<1>3. \A x \in p : x[1] < now BY <1>1 DEF Fits, PassesSound
<1>4. Cardinality(p) <= Limit BY <1>2 DEF Fits
<1> QED BY <1>3, <1>4 DEF Closed

(* The first pass of a window.                                              *)
LEMMA Opens ==
  ASSUME NEW p, NEW who \in Callers, clock \in Nat, PassesSound(p, clock), Closed(p, clock)
  PROVE  Fits(p \union {Pass(p, who)}, [count |-> 1, expires |-> clock + Period], clock)
<1> DEFINE x == Pass(p, who)
           q == p \union {x}
           e == clock + Period
           w == [count |-> 1, expires |-> e]
<1>1. x \in Nat \X Nat \X Callers /\ x[1] = clock /\ x \notin p BY PassIsNew
<1>2. Within(q, e) = {x} BY <1>1, Constants DEF Within, Closed, PassesSound
<1>3. Before(q, e) = p BY <1>1, Constants DEF Before, Closed, PassesSound
<1>4. Cardinality({x}) = 1 BY FS_Singleton
<1>5. w \in [count : Nat \ {0}, expires : Nat] /\ w.expires = e /\ w.count = 1
  BY Constants
<1>6. \A y \in q : y[1] <= e BY <1>1, Constants DEF Closed, PassesSound
<1>7. e \in Nat /\ e <= clock + Period BY Constants
<1> HIDE DEF x, q, e, w
<1>8. Cardinality(Within(q, w.expires)) = 1 BY <1>2, <1>4, <1>5
<1>9. Cardinality(Before(q, w.expires)) <= Limit BY <1>3, <1>5 DEF Closed
<1>10. 1 <= Limit /\ (IF w.count < Limit THEN w.count ELSE Limit) = 1 BY <1>5, Constants
<1>11. Fits(q, w, clock) BY <1>5, <1>6, <1>7, <1>8, <1>9, <1>10 DEF Fits
<1> QED BY <1>11 DEF q, x, w, e

(* Another pass of a window that is open.                                   *)
LEMMA GoesOn ==
  ASSUME NEW p, NEW w, NEW who \in Callers, clock \in Nat, PassesSound(p, clock),
         Fits(p, w, clock), clock <= w.expires, w.count < Limit
  PROVE  Fits(p \union {Pass(p, who)}, [w EXCEPT !.count = @ + 1], clock)
<1> DEFINE x == Pass(p, who)
           q == p \union {x}
           e == w.expires
           v == [w EXCEPT !.count = @ + 1]
<1>1. x \in Nat \X Nat \X Callers /\ x[1] = clock /\ x \notin p BY PassIsNew
<1>2. /\ e \in Nat /\ e <= clock + Period /\ w.count \in Nat
      /\ v.expires = e /\ v.count = w.count + 1
      /\ v \in [count : Nat \ {0}, expires : Nat]
  BY DEF Fits
<1>3. Within(q, e) = Within(p, e) \union {x} BY <1>1, <1>2, Constants DEF Within
<1>4. Before(q, e) = Before(p, e) BY <1>1, <1>2, Constants DEF Before
<1>5. Cardinality(Within(p, e)) = w.count /\ IsFiniteSet(Within(p, e))
  BY <1>2, Parts DEF Fits, PassesSound
<1>6. Cardinality(Within(q, e)) = w.count + 1
  <2>1. x \notin Within(p, e) BY <1>1 DEF Within
  <2> QED BY <1>3, <1>5, <2>1, OneMore
<1>7. \A y \in q : y[1] <= e BY <1>1, <1>2 DEF Fits
<1> HIDE DEF x, q, e, v
<1>8. Cardinality(Before(q, v.expires)) <= Limit BY <1>2, <1>4 DEF Fits, e
<1>9. /\ Cardinality(Within(q, v.expires)) = (IF v.count < Limit THEN v.count ELSE Limit)
      /\ Cardinality(Within(q, v.expires)) <= Limit
  BY <1>2, <1>6, Constants
<1>10. \A y \in q : y[1] <= v.expires BY <1>2, <1>7
<1>11. v.expires <= clock + Period BY <1>2
<1>12. Fits(q, v, clock) BY <1>2, <1>8, <1>9, <1>10, <1>11 DEF Fits
<1> QED BY <1>12 DEF q, x, v

(* An attempt that is refused: the limit was reached within the period.     *)
LEMMA IsFull ==
  ASSUME NEW p, NEW w, clock \in Nat, PassesSound(p, clock), Fits(p, w, clock),
         clock <= w.expires, ~(w.count < Limit)
  PROVE  /\ Fits(p, [w EXCEPT !.count = @ + 1], clock)
         /\ Cardinality(p) >= Limit
<1> DEFINE e == w.expires
           v == [w EXCEPT !.count = @ + 1]
<1>1. /\ e \in Nat /\ w.count \in Nat
      /\ v.expires = e /\ v.count = w.count + 1
      /\ v \in [count : Nat \ {0}, expires : Nat]
  BY DEF Fits
<1>2. Cardinality(Within(p, e)) = Limit BY <1>1 DEF Fits
<1>3. Cardinality(p) >= Limit
  <2>1. Cardinality(Within(p, e)) <= Cardinality(p) /\ Cardinality(p) \in Nat
    BY Smaller DEF Within, PassesSound
  <2> QED BY <1>2, <2>1, Constants
<1> HIDE DEF v
<1>4. Fits(p, v, clock) BY <1>1, <1>2, Constants DEF Fits
<1> QED BY <1>3, <1>4 DEF v

-----------------------------------------------------------------------------
(* Time.                                                                    *)
Later(p, now) == {x \in p : x[1] + Period >= now}

LEMMA PassesLater ==
  ASSUME NEW p, NEW now \in Nat, PassesSound(p, now)
  PROVE  PassesSound(Later(p, now + 1), now + 1)
<1> DEFINE q == Later(p, now + 1)
<1>1. q \subseteq p /\ IsFiniteSet(q) BY Smaller DEF Later, PassesSound
<1>2. \A x \in q : x[1] <= now + 1 /\ now + 1 <= x[1] + Period /\ x[1] # now + 1
  BY Constants DEF Later, PassesSound
<1>3. q \subseteq Nat \X Nat \X Callers BY <1>1 DEF PassesSound
<1> HIDE DEF q
<1>4. PassesSound(q, now + 1) BY <1>1, <1>2, <1>3 DEF PassesSound
<1> QED BY <1>4 DEF q

LEMMA ClosedLater ==
  ASSUME NEW p, NEW now \in Nat, PassesSound(p, now), Closed(p, now)
  PROVE  Closed(Later(p, now + 1), now + 1)
<1> DEFINE q == Later(p, now + 1)
<1>1. q \subseteq p BY DEF Later
<1>2. Cardinality(q) <= Cardinality(p) /\ Cardinality(q) \in Nat /\ Cardinality(p) \in Nat
  BY <1>1, Smaller DEF PassesSound
<1>3. \A x \in q : x[1] < now + 1 BY <1>1 DEF PassesSound
<1> HIDE DEF q
<1>4. Closed(q, now + 1) BY <1>2, <1>3, Constants DEF Closed
<1> QED BY <1>4 DEF q

LEMMA FitsLater ==
  ASSUME NEW p, NEW w, NEW now \in Nat, PassesSound(p, now), Fits(p, w, now)
  PROVE  Fits(Later(p, now + 1), w, now + 1)
<1> DEFINE q == Later(p, now + 1)
           e == w.expires
<1>1. q \subseteq p /\ e \in Nat /\ e <= now + Period BY DEF Later, Fits
<1>2. Within(q, e) \subseteq Within(p, e) /\ Before(q, e) \subseteq Before(p, e)
  BY <1>1 DEF Within, Before
<1>3. IsFiniteSet(Within(p, e)) /\ IsFiniteSet(Before(p, e)) BY <1>1, Parts DEF PassesSound
<1>4. /\ Cardinality(Within(q, e)) <= Limit
      /\ Cardinality(Before(q, e)) <= Limit
  <2>1. /\ Cardinality(Within(q, e)) <= Cardinality(Within(p, e))
        /\ Cardinality(Within(q, e)) \in Nat /\ Cardinality(Within(p, e)) \in Nat
    BY <1>2, <1>3, Smaller
  <2>2. /\ Cardinality(Before(q, e)) <= Cardinality(Before(p, e))
        /\ Cardinality(Before(q, e)) \in Nat /\ Cardinality(Before(p, e)) \in Nat
    BY <1>2, <1>3, Smaller
  <2>3. Cardinality(Within(p, e)) <= Limit /\ Cardinality(Before(p, e)) <= Limit BY DEF Fits
  <2> QED BY <2>1, <2>2, <2>3, Constants
<1>5. now + 1 <= e => Within(q, e) = Within(p, e)
  BY <1>1, Constants DEF Within, Later, PassesSound
<1>6. now + 1 <= e =>
        Cardinality(Within(q, e)) = IF w.count < Limit THEN w.count ELSE Limit
  BY <1>1, <1>5 DEF Fits
<1>7. \A x \in q : x[1] <= e BY <1>1 DEF Fits
<1>8. e <= (now + 1) + Period BY <1>1, Constants
<1> HIDE DEF q
<1>9. Fits(q, w, now + 1) BY <1>4, <1>6, <1>7, <1>8 DEF Fits
<1> QED BY <1>9 DEF q

-----------------------------------------------------------------------------
(* Keys and subjects.                                                       *)

(* Whoever calls is known by the address CloudFront saw, whatever header    *)
(* they send.                                                               *)
LEMMA OriginIs ==
  ASSUME Trusting, NEW s \in Servers, NEW o \in Origins, NEW c \in Claims
  PROVE  ClientIP(s, Header(o, c)) = o
<1>1. Len(c) \in Nat /\ c \in Seq(Origins) BY ClaimAssumption
<1> DEFINE h == Header(o, c)
<1>2. h \in Seq(Origins \union {o, Edge}) /\ Len(h) = Len(c) + 2 /\ h[Len(c) + 1] = o
  BY <1>1 DEF Header
<1>3. h # <<>> /\ Hops < Len(h) /\ h[Len(h) - Hops] = o
  BY <1>1, <1>2, ServedAssumption
<1> QED BY <1>3 DEF ClientIP, ForwardedHop, Trusting

LEMMA SubjectIs ==
  /\ \A o \in Origins, what \in {"login", "signup"} :
       /\ <<"byIP", what, o>> \in Subjects /\ "byIP" \in Limiters /\ <<what, o>> \in Keys
       /\ KeyOf(<<"byIP", what, o>>) = <<what, o>>
  /\ \A u \in Accounts :
       /\ <<"byEmail", "login", u>> \in Subjects /\ "byEmail" \in Limiters
       /\ <<"login", u>> \in Keys /\ KeyOf(<<"byEmail", "login", u>>) = <<"login", u>>
  /\ \A u \in Accounts, l \in Writes :
       /\ <<l, "write", u>> \in Subjects /\ l \in Limiters
       /\ <<"write", u>> \in Keys /\ KeyOf(<<l, "write", u>>) = <<"write", u>>
BY DEF Subjects, Limiters, Keys, KeyOf

LEMMA SubjectParts ==
  ASSUME NEW a \in Subjects, NEW b \in Subjects, a[1] = b[1], KeyOf(a) = KeyOf(b)
  PROVE  a = b /\ a[1] \in Limiters
<1>1. a = <<a[1], a[2], a[3]>> /\ b = <<b[1], b[2], b[3]>> /\ a[1] \in Limiters
  BY DEF Subjects, Limiters
<1>2. a[2] = b[2] /\ a[3] = b[3] BY DEF KeyOf
<1> QED BY <1>1, <1>2

LEMMA LimiterOf == ASSUME NEW a \in Subjects PROVE a[1] \in Limiters
BY SubjectParts

-----------------------------------------------------------------------------
(* Allow: what an attempt makes of each variable.                           *)

Counts(s, l, k) ==
  [j \in Swept(s, l, clock) \union {k} |->
     IF j = k THEN Counted(s, l, k, clock) ELSE attempts[s][l][j]]

(* An attempt of subject a, as all callers make it. *)
Tries(s, a, who) == Allow(s, a[1], KeyOf(a), a, who)
Allowed(s, a) == Allows(s, a[1], KeyOf(a), clock)
More(p, who) == p \union {Pass(p, who)}

LEMMA AllowVerdict ==
  ASSUME NEW s \in Servers, NEW a \in Subjects, NEW who \in Callers, Tries(s, a, who)
  PROVE  /\ clock' = clock /\ trust' = trust
         /\ last'.server = s /\ last'.subject = a /\ (last'.allowed <=> Allowed(s, a))
         /\ last' \in [server : Servers, subject : Subjects, by : Callers, allowed : BOOLEAN]
<1>1. last' = [server |-> s, subject |-> a, by |-> who, allowed |-> Allowed(s, a)]
  BY DEF Allow, Tries, Allowed
<1>2. Allowed(s, a) \in BOOLEAN BY DEF Allows, Allowed
<1>3. last'.allowed = Allowed(s, a) BY <1>1
<1>4. last'.server = s /\ last'.subject = a BY <1>1
<1>5. last' \in [server : Servers, subject : Subjects, by : Callers, allowed : BOOLEAN] BY <1>1, <1>2
<1>6. clock' = clock /\ trust' = trust BY DEF Allow, Tries
<1> QED BY <1>3, <1>4, <1>5, <1>6

LEMMA AllowAttempts ==
  ASSUME TypeOK, NEW s \in Servers, NEW a \in Subjects, NEW who \in Callers, Tries(s, a, who)
  PROVE  /\ DOMAIN attempts' = Servers /\ \A r \in Servers : DOMAIN attempts'[r] = Limiters
         /\ attempts'[s][a[1]] = Counts(s, a[1], KeyOf(a))
         /\ \A r \in Servers, m \in Limiters :
              ~(r = s /\ m = a[1]) => attempts'[r][m] = attempts[r][m]
<1> DEFINE c == Counts(s, a[1], KeyOf(a))
<1>1. attempts' = [attempts EXCEPT ![s][a[1]] = c] BY DEF Allow, Tries, Counts
<1>2. DOMAIN attempts = Servers /\ \A r \in Servers : DOMAIN attempts[r] = Limiters BY DEF TypeOK
<1>3. a[1] \in Limiters BY LimiterOf
<1> HIDE DEF c
<1>4. /\ DOMAIN attempts' = Servers /\ \A r \in Servers : DOMAIN attempts'[r] = Limiters
      /\ attempts'[s][a[1]] = c
      /\ \A r \in Servers, m \in Limiters :
           ~(r = s /\ m = a[1]) => attempts'[r][m] = attempts[r][m]
  BY <1>1, <1>2, <1>3
<1> QED BY <1>4 DEF c

LEMMA AllowSweep ==
  ASSUME TypeOK, NEW s \in Servers, NEW a \in Subjects, NEW who \in Callers, Tries(s, a, who)
  PROVE  /\ lastSweep' \in [Servers -> [Limiters -> Times \union {None}]]
         /\ SweepDue(s, a[1], clock) => lastSweep'[s][a[1]] = clock
         /\ ~SweepDue(s, a[1], clock) => lastSweep'[s][a[1]] = lastSweep[s][a[1]]
         /\ \A r \in Servers, m \in Limiters :
              ~(r = s /\ m = a[1]) => lastSweep'[r][m] = lastSweep[r][m]
<1>1. /\ lastSweep \in [Servers -> [Limiters -> Times \union {None}]] /\ clock \in Times
      /\ a[1] \in Limiters
  BY LimiterOf DEF TypeOK
<1>2. CASE SweepDue(s, a[1], clock)
  <2>1. lastSweep' = [lastSweep EXCEPT ![s][a[1]] = clock] BY <1>2 DEF Allow, Tries
  <2> QED BY <1>1, <1>2, <2>1
<1>3. CASE ~SweepDue(s, a[1], clock)
  <2>1. lastSweep' = [lastSweep EXCEPT ![s][a[1]] = lastSweep[s][a[1]]]
    BY <1>3 DEF Allow, Tries
  <2> QED BY <1>1, <1>3, <2>1
<1> QED BY <1>2, <1>3

LEMMA AllowPasses ==
  ASSUME TypeOK, NEW s \in Servers, NEW a \in Subjects, NEW who \in Callers, Tries(s, a, who)
  PROVE  /\ Allowed(s, a) => passed'[s][a] = More(passed[s][a], who)
         /\ ~Allowed(s, a) => passed'[s][a] = passed[s][a]
         /\ \A r \in Servers, b \in Subjects :
              ~(r = s /\ b = a) => passed'[r][b] = passed[r][b]
         /\ (More(passed[s][a], who) \in SUBSET (Times \X Nat \X Callers)) =>
              passed' \in [Servers -> [Subjects -> SUBSET (Times \X Nat \X Callers)]]
<1>1. passed \in [Servers -> [Subjects -> SUBSET (Times \X Nat \X Callers)]] BY DEF TypeOK
<1> DEFINE m == More(passed[s][a], who)
<1>2. CASE Allowed(s, a)
  <2>1. passed' = [passed EXCEPT ![s][a] = m] BY <1>2 DEF Allow, Tries, Allowed, More
  <2> HIDE DEF m
  <2>2. /\ passed'[s][a] = m
        /\ \A r \in Servers, b \in Subjects :
             ~(r = s /\ b = a) => passed'[r][b] = passed[r][b]
    BY <2>1, <1>1
  <2>3. m \in SUBSET (Times \X Nat \X Callers) =>
          passed' \in [Servers -> [Subjects -> SUBSET (Times \X Nat \X Callers)]]
    BY <2>1, <1>1
  <2> QED BY <2>2, <2>3, <1>2 DEF m
<1>3. CASE ~Allowed(s, a)
  BY <1>1, <1>3 DEF Allow, Tries, Allowed
<1> QED BY <1>2, <1>3

(* The windows that are kept.                                               *)
LEMMA CountsIs ==
  ASSUME TypeOK, SweepsSound, NEW s \in Servers, NEW l \in Limiters, NEW k \in Keys
  PROVE  /\ k \in DOMAIN Counts(s, l, k)
         /\ Counts(s, l, k)[k] = Counted(s, l, k, clock)
         /\ Counted(s, l, k, clock) \in Windows
         /\ DOMAIN Counts(s, l, k) \subseteq (DOMAIN attempts[s][l] \union {k})
         /\ \A j \in DOMAIN Counts(s, l, k) : j # k =>
              Counts(s, l, k)[j] = attempts[s][l][j]
         /\ \A j \in DOMAIN attempts[s][l] :
              j \in DOMAIN Counts(s, l, k) \/ ~(clock <= attempts[s][l][j].expires)
         /\ SweepDue(s, l, clock) =>
              \A j \in DOMAIN Counts(s, l, k) : clock <= Counts(s, l, k)[j].expires
         /\ clock <= Counted(s, l, k, clock).expires
<1>1. /\ clock \in Nat /\ clock \in Times
      /\ \A j \in DOMAIN attempts[s][l] : attempts[s][l][j] \in Windows
  BY Constants DEF TypeOK, Times
<1>2. Counted(s, l, k, clock) \in Windows /\ clock <= Counted(s, l, k, clock).expires
  <2>1. CASE Open(s, l, k, clock)
    <3>1. attempts[s][l][k] \in Windows /\ clock <= attempts[s][l][k].expires
      BY <2>1, <1>1 DEF Open
    <3> QED BY <3>1, <2>1 DEF Counted, Windows
  <2>2. CASE ~Open(s, l, k, clock)
    BY <2>2, <1>1, Constants DEF Counted, Windows, Times
  <2> QED BY <2>1, <2>2
<1>3. Swept(s, l, clock) \subseteq DOMAIN attempts[s][l] BY DEF Swept
<1>4. \A j \in DOMAIN attempts[s][l] :
        j \in Swept(s, l, clock) \/ ~(clock <= attempts[s][l][j].expires)
  BY DEF Swept, Open
<1>5. SweepDue(s, l, clock) =>
        \A j \in Swept(s, l, clock) : clock <= attempts[s][l][j].expires
  BY DEF Swept, Open
<1> HIDE DEF Counts
<1>6. /\ DOMAIN Counts(s, l, k) = Swept(s, l, clock) \union {k}
      /\ Counts(s, l, k)[k] = Counted(s, l, k, clock)
      /\ \A j \in Swept(s, l, clock) : j # k => Counts(s, l, k)[j] = attempts[s][l][j]
  BY DEF Counts
<1> QED BY <1>2, <1>3, <1>4, <1>5, <1>6

-----------------------------------------------------------------------------
(* Allow keeps every part of the invariant.                                 *)

LEMMA AllowTypes ==
  ASSUME TypeOK, SweepsSound, SubjectsSound, NEW s \in Servers, NEW a \in Subjects,
         NEW who \in Callers, KeyOf(a) \in Keys, Tries(s, a, who)
  PROVE  /\ clock' \in Times /\ trust' \in [Servers -> BOOLEAN]
         /\ DOMAIN attempts' = Servers /\ \A r \in Servers : DOMAIN attempts'[r] = Limiters
         /\ lastSweep' \in [Servers -> [Limiters -> Times \union {None}]]
         /\ \A r \in Servers, m \in Limiters :
              /\ DOMAIN attempts'[r][m] \subseteq Keys
              /\ \A j \in DOMAIN attempts'[r][m] : attempts'[r][m][j] \in Windows
         /\ passed' \in [Servers -> [Subjects -> SUBSET (Times \X Nat \X Callers)]]
         /\ last' \in [server : Servers, subject : Subjects, by : Callers, allowed : BOOLEAN]
                        \union {None}
<1> DEFINE l == a[1]  k == KeyOf(a)
<1>1. l \in Limiters BY LimiterOf
<1>2. \A r \in Servers, m \in Limiters :
        /\ DOMAIN attempts'[r][m] \subseteq Keys
        /\ \A j \in DOMAIN attempts'[r][m] : attempts'[r][m][j] \in Windows
  <2> SUFFICES ASSUME NEW r \in Servers, NEW m \in Limiters
               PROVE  /\ DOMAIN attempts'[r][m] \subseteq Keys
                      /\ \A j \in DOMAIN attempts'[r][m] : attempts'[r][m][j] \in Windows
    OBVIOUS
  <2>1. CASE r = s /\ m = l
    <3>1. attempts'[r][m] = Counts(s, l, k) BY <2>1, AllowAttempts
    <3>2. /\ DOMAIN Counts(s, l, k) \subseteq (DOMAIN attempts[s][l] \union {k})
          /\ Counts(s, l, k)[k] \in Windows
          /\ \A j \in DOMAIN Counts(s, l, k) : j # k =>
               Counts(s, l, k)[j] = attempts[s][l][j] /\ j \in DOMAIN attempts[s][l]
      BY <1>1, CountsIs
    <3> QED BY <3>1, <3>2, <1>1 DEF TypeOK
  <2>2. CASE ~(r = s /\ m = l)
    <3>1. attempts'[r][m] = attempts[r][m] BY <2>2, AllowAttempts
    <3> QED BY <3>1 DEF TypeOK
  <2> QED BY <2>1, <2>2
<1>3. passed' \in [Servers -> [Subjects -> SUBSET (Times \X Nat \X Callers)]]
  <2>1. PassesSound(passed[s][a], clock) BY DEF SubjectsSound, SubjectSound
  <2>2. clock \in Nat /\ clock \in Times BY Constants DEF TypeOK, Times
  <2>3. Pass(passed[s][a], who) = <<clock, Pass(passed[s][a], who)[2], who>>
       /\ Pass(passed[s][a], who)[2] \in Nat
    BY <2>1, <2>2, PassIsNew DEF Pass
  <2>4. passed[s][a] \subseteq Times \X Nat \X Callers BY DEF TypeOK
  <2>5. More(passed[s][a], who) \in SUBSET (Times \X Nat \X Callers) BY <2>2, <2>3, <2>4 DEF More
  <2> QED BY <2>5, AllowPasses
<1>4. last' \in [server : Servers, subject : Subjects, by : Callers, allowed : BOOLEAN] BY AllowVerdict
<1>5. clock' \in Times /\ trust' \in [Servers -> BOOLEAN] BY AllowVerdict DEF TypeOK
<1> QED BY <1>2, <1>3, <1>4, <1>5, AllowAttempts, AllowSweep

LEMMA AllowSweeps ==
  ASSUME TypeOK, SweepsSound, NEW s \in Servers, NEW a \in Subjects,
         NEW who \in Callers, KeyOf(a) \in Keys, Tries(s, a, who)
  PROVE  SweepsSound' /\ StoredAreRecent'
<1> DEFINE l == a[1]  k == KeyOf(a)  f == Counts(s, l, k)
<1>1. l \in Limiters BY LimiterOf
<1>2. /\ clock \in Nat /\ clock' = clock /\ clock # None
      /\ lastSweep[s][l] \in Nat \union {None}
  BY <1>1, AllowVerdict, Constants DEF TypeOK, Times
<1>3. /\ attempts'[s][l] = f
      /\ SweepDue(s, l, clock) => lastSweep'[s][l] = clock
      /\ ~SweepDue(s, l, clock) => lastSweep'[s][l] = lastSweep[s][l]
  BY AllowAttempts, AllowSweep
<1>4. \A j \in DOMAIN f : f[j].expires \in Nat
  <2>1. \A j \in DOMAIN f : f[j] \in Windows
    <3>1. attempts'[s][l] = f /\ \A j \in DOMAIN attempts[s][l] : attempts[s][l][j] \in Windows
      BY <1>1, <1>3 DEF TypeOK
    <3> QED BY <1>1, <3>1, CountsIs
  <2> QED BY <2>1, Constants DEF Windows
<1>5. lastSweep'[s][l] # None /\ \A j \in DOMAIN f :
        lastSweep'[s][l] <= f[j].expires /\ f[j].expires + Period > clock
  <2>1. CASE SweepDue(s, l, clock)
    <3>1. \A j \in DOMAIN f : clock <= f[j].expires BY <1>1, <2>1, CountsIs
    <3> QED BY <3>1, <1>2, <1>3, <1>4, <2>1, Constants
  <2>2. CASE ~SweepDue(s, l, clock)
    <3>1. lastSweep[s][l] \in Nat /\ clock < lastSweep[s][l] + Period
      BY <1>2, <2>2, Constants DEF SweepDue
    <3>2. lastSweep[s][l] <= clock BY <1>1, <3>1, Constants DEF SweepsSound
    <3>3. \A j \in DOMAIN f : lastSweep[s][l] <= f[j].expires \/ clock <= f[j].expires
      <4>1. \A j \in DOMAIN f :
              IF j = k THEN clock <= f[j].expires
              ELSE f[j] = attempts[s][l][j] /\ j \in DOMAIN attempts[s][l]
        BY <1>1, CountsIs
      <4> QED BY <4>1, <1>1 DEF SweepsSound
    <3>4. \A j \in DOMAIN f : lastSweep[s][l] <= f[j].expires
      BY <3>1, <3>2, <3>3, <1>2, <1>4
    <3>5. \A j \in DOMAIN f : f[j].expires + Period > clock
      BY <3>1, <3>4, <1>2, <1>4, Constants
    <3> QED BY <3>1, <3>4, <3>5, <1>3, <2>2, Constants
  <2> QED BY <2>1, <2>2
<1> HIDE DEF f
<1>6. SweepsSound'
  <2> SUFFICES ASSUME NEW r \in Servers, NEW m \in Limiters
               PROVE  /\ lastSweep'[r][m] # None => lastSweep'[r][m] <= clock'
                      /\ \A j \in DOMAIN attempts'[r][m] : lastSweep'[r][m] # None
                           /\ lastSweep'[r][m] <= attempts'[r][m][j].expires
    BY DEF SweepsSound
  <2>1. CASE r = s /\ m = l
    <3>1. lastSweep'[s][l] # None => lastSweep'[s][l] <= clock
      BY <1>1, <1>2, <1>3 DEF SweepsSound
    <3> QED BY <3>1, <2>1, <1>2, <1>3, <1>5
  <2>2. CASE ~(r = s /\ m = l)
    <3>1. attempts'[r][m] = attempts[r][m] /\ lastSweep'[r][m] = lastSweep[r][m]
      BY <2>2, AllowAttempts, AllowSweep
    <3> QED BY <3>1, <1>2 DEF SweepsSound
  <2> QED BY <2>1, <2>2
<1>7. StoredAreRecent'
  <2>1. last'.server = s /\ last'.subject = a BY AllowVerdict
  <2> QED BY <2>1, <1>2, <1>3, <1>5 DEF StoredAreRecent
<1> QED BY <1>6, <1>7

LEMMA AllowSubjects ==
  ASSUME TypeOK, SweepsSound, SubjectsSound, NEW s \in Servers, NEW a \in Subjects,
         NEW who \in Callers, KeyOf(a) \in Keys, Tries(s, a, who)
  PROVE  SubjectsSound' /\ RefusedForCause'
<1> DEFINE l == a[1]  k == KeyOf(a)  f == Counts(s, l, k)
           p == passed[s][a]  w == attempts[s][l][k]
<1>1. l \in Limiters BY LimiterOf
<1>2. clock \in Nat /\ clock' = clock BY AllowVerdict, Constants DEF TypeOK, Times
<1>3. /\ attempts'[s][l] = f /\ k \in DOMAIN f /\ f[k] = Counted(s, l, k, clock)
      /\ Allowed(s, a) => passed'[s][a] = More(p, who)
      /\ ~Allowed(s, a) => passed'[s][a] = p
  BY <1>1, AllowAttempts, AllowPasses, CountsIs
<1>4. /\ PassesSound(p, clock)
      /\ IF k \in DOMAIN attempts[s][l] THEN Fits(p, w, clock) ELSE Closed(p, clock)
  BY DEF SubjectsSound, SubjectSound
<1>5. PassesSound(More(p, who), clock) BY <1>2, <1>4, PassIsNew DEF More
<1>6. /\ Allowed(s, a) => Fits(More(p, who), f[k], clock)
      /\ ~Allowed(s, a) => Fits(p, f[k], clock) /\ Cardinality(p) >= Limit
  <2>1. CASE Open(s, l, k, clock) /\ w.count < Limit
    <3>1. k \in DOMAIN attempts[s][l] /\ clock <= w.expires BY <2>1 DEF Open
    <3>2. f[k] = [w EXCEPT !.count = @ + 1] BY <1>3, <2>1 DEF Counted
    <3>3. Allowed(s, a) BY <2>1 DEF Allows, Allowed
    <3>4. Fits(More(p, who), f[k], clock) BY <3>1, <3>2, <1>2, <1>4, <2>1, GoesOn DEF More
    <3> QED BY <3>3, <3>4
  <2>2. CASE Open(s, l, k, clock) /\ ~(w.count < Limit)
    <3>1. k \in DOMAIN attempts[s][l] /\ clock <= w.expires BY <2>2 DEF Open
    <3>2. f[k] = [w EXCEPT !.count = @ + 1] BY <1>3, <2>2 DEF Counted
    <3>3. ~Allowed(s, a) BY <2>2 DEF Allows, Allowed
    <3>4. Fits(p, f[k], clock) /\ Cardinality(p) >= Limit
      BY <3>1, <3>2, <1>2, <1>4, <2>2, IsFull
    <3> QED BY <3>3, <3>4
  <2>3. CASE ~Open(s, l, k, clock)
    <3>1. Closed(p, clock) BY <1>2, <1>4, <2>3, Ended DEF Open
    <3>2. f[k] = [count |-> 1, expires |-> clock + Period] BY <1>3, <2>3 DEF Counted
    <3>3. Allowed(s, a) BY <2>3 DEF Allows, Allowed
    <3>4. Fits(More(p, who), f[k], clock) BY <3>1, <3>2, <1>2, <1>4, Opens DEF More
    <3> QED BY <3>3, <3>4
  <2> QED BY <2>1, <2>2, <2>3
<1> HIDE DEF f, p, w
<1>10. SubjectSound(passed'[s][a], f, k, clock)
  BY <1>3, <1>4, <1>5, <1>6 DEF SubjectSound
<1>11. ASSUME NEW b \in Subjects, b # a, b[1] = l
       PROVE  SubjectSound(passed[s][b], f, KeyOf(b), clock)
  <2> DEFINE j == KeyOf(b)  v == attempts[s][l][j]
  <2>1. j # k BY <1>11, SubjectParts
  <2>2. /\ PassesSound(passed[s][b], clock)
        /\ IF j \in DOMAIN attempts[s][l] THEN Fits(passed[s][b], v, clock)
           ELSE Closed(passed[s][b], clock)
    BY <1>11 DEF SubjectsSound, SubjectSound
  <2>3. CASE j \in DOMAIN f
    <3>1. f[j] = v /\ j \in DOMAIN attempts[s][l] BY <2>1, <2>3, <1>1, CountsIs DEF f
    <3> QED BY <3>1, <2>2, <2>3 DEF SubjectSound
  <2>4. CASE j \notin DOMAIN f
    <3>1. j \notin DOMAIN attempts[s][l] \/ ~(clock <= v.expires) BY <2>4, <1>1, CountsIs DEF f
    <3>2. Closed(passed[s][b], clock) BY <3>1, <2>2, <1>2, Ended
    <3> QED BY <3>2, <2>2, <2>4 DEF SubjectSound
  <2> QED BY <2>3, <2>4
<1>12. SubjectsSound'
  <2> SUFFICES ASSUME NEW r \in Servers, NEW b \in Subjects
               PROVE  SubjectSound(passed'[r][b], attempts'[r][b[1]], KeyOf(b), clock)
    BY <1>2 DEF SubjectsSound
  <2>1. b[1] \in Limiters BY LimiterOf
  <2>2. CASE r = s /\ b = a BY <2>2, <1>3, <1>10
  <2>3. CASE ~(r = s /\ b = a)
    <3>1. passed'[r][b] = passed[r][b] BY <2>3, AllowPasses
    <3>2. CASE r = s /\ b[1] = l
      BY <3>1, <3>2, <2>3, <1>3, <1>11
    <3>3. CASE ~(r = s /\ b[1] = l)
      <4>1. attempts'[r][b[1]] = attempts[r][b[1]] BY <3>3, <2>1, AllowAttempts
      <4> QED BY <4>1, <3>1 DEF SubjectsSound
    <3> QED BY <3>2, <3>3
  <2> QED BY <2>2, <2>3
<1>13. RefusedForCause'
  <2>1. last'.server = s /\ last'.subject = a /\ (last'.allowed <=> Allowed(s, a))
    BY AllowVerdict
  <2> QED BY <2>1, <1>3, <1>6 DEF RefusedForCause, p
<1> QED BY <1>12, <1>13

-----------------------------------------------------------------------------
(* The operations.                                                          *)

LEMMA TriesKeep ==
  ASSUME IInv, NEW s \in Servers, NEW a \in Subjects, NEW who \in Callers,
         KeyOf(a) \in Keys, Tries(s, a, who),
         request' \in [Requests -> Logins],
         RequestsSound'
  PROVE  IInv'
<1>1. TypeOK' BY AllowTypes DEF IInv, TypeOK
<1>2. SweepsSound' /\ StoredAreRecent' BY AllowSweeps DEF IInv
<1>3. SubjectsSound' /\ RefusedForCause' BY AllowSubjects DEF IInv
<1>4. Trusting' BY AllowVerdict DEF IInv, Trusting
<1> QED BY <1>1, <1>2, <1>3, <1>4 DEF IInv

LEMMA RequestTypes ==
  ASSUME IInv
  PROVE  /\ request \in [Requests -> Logins]
         /\ Idle \in Logins
         /\ Idle.pc = "idle" /\ RequestsSound
         /\ \A q \in Requests : request[q].pc # "idle" => request[q].address[1] \in Accounts
BY DEF IInv, TypeOK, Idle, Logins, RequestsSound, Addresses

LEMMA ByIPKeeps ==
  ASSUME IInv, NEW q \in Requests, NEW s \in Servers, NEW o \in Origins, NEW c \in Claims,
         NEW d \in Addresses, LoginByIP(q, s, o, c, d)
  PROVE  IInv'
<1>0. o \in Callers BY DEF Callers
<1> DEFINE a == <<"byIP", "login", o>>
           r == [pc |-> "account", server |-> s, origin |-> o, address |-> d]
<1>1. ClientIP(s, Header(o, c)) = o BY OriginIs DEF IInv
<1>2. a \in Subjects /\ KeyOf(a) \in Keys /\ KeyOf(a) = <<"login", o>> BY SubjectIs
<1>3. Tries(s, a, o) BY <1>1, <1>2 DEF LoginByIP, Tries
<1>4. request' = [request EXCEPT ![q] = r] \/ request' = request BY DEF LoginByIP
<1>5. r \in Logins /\ r.server = s /\ r.origin = o /\ r.address = d
  BY DEF Logins
<1> HIDE DEF r, a
<1>6. /\ request' \in [Requests -> Logins]
      /\ RequestsSound'
  BY <1>4, <1>5, RequestTypes DEF RequestsSound
<1> QED BY <1>0, <1>2, <1>3, <1>6, TriesKeep

LEMMA ByEmailKeeps ==
  ASSUME IInv, NEW q \in Requests, LoginByEmail(q)
  PROVE  IInv'
<1> DEFINE s == request[q].server
           d == request[q].address
           o == request[q].origin
           a == <<"byEmail", "login", d[1]>>
<1>1. /\ s \in Servers /\ d \in Addresses /\ d[1] \in Accounts
      /\ o \in Origins /\ o \in Callers
  BY RequestTypes DEF LoginByEmail, RequestsSound, Callers
<1>2. a \in Subjects /\ KeyOf(a) \in Keys /\ KeyOf(a) = EmailKey(d) BY <1>1, SubjectIs DEF EmailKey
<1>3. Tries(s, a, o) BY <1>2 DEF LoginByEmail, Tries
<1>4. request' = [request EXCEPT ![q].pc = "compare"] \/ request' = [request EXCEPT ![q] = Idle]
  BY DEF LoginByEmail
<1>5. /\ request' \in [Requests -> Logins]
      /\ RequestsSound'
  <2>1. CASE request' = [request EXCEPT ![q].pc = "compare"]
    BY <2>1, <1>1, RequestTypes DEF RequestsSound, Logins
  <2>2. CASE request' = [request EXCEPT ![q] = Idle]
    BY <2>2, RequestTypes DEF RequestsSound
  <2> QED BY <1>4, <2>1, <2>2
<1> HIDE DEF s, d, o, a
<1> QED BY <1>1, <1>2, <1>3, <1>5, TriesKeep

LEMMA SignupKeeps ==
  ASSUME IInv, NEW s \in Servers, NEW o \in Origins, NEW c \in Claims, Signup(s, o, c)
  PROVE  IInv'
<1> DEFINE a == <<"byIP", "signup", o>>
<1>1. ClientIP(s, Header(o, c)) = o BY OriginIs DEF IInv
<1>2. a \in Subjects /\ KeyOf(a) \in Keys /\ KeyOf(a) = <<"signup", o>> BY SubjectIs
<1>3. Tries(s, a, o) BY <1>1, <1>2 DEF Signup, Tries
<1>5. o \in Callers BY DEF Callers
<1>4. RequestsSound' BY RequestTypes DEF Signup, RequestsSound
<1> HIDE DEF a
<1> QED BY <1>2, <1>3, <1>4, <1>5, TriesKeep, RequestTypes DEF Signup

LEMMA WriteKeeps ==
  ASSUME IInv, NEW s \in Servers, NEW l \in Writes, NEW u \in Accounts, Write(s, l, u)
  PROVE  IInv'
<1> DEFINE a == <<l, "write", u>>
<1>1. a \in Subjects /\ KeyOf(a) \in Keys /\ KeyOf(a) = <<"write", u>> /\ a[1] = l BY SubjectIs
<1>2. Tries(s, a, u) BY <1>1 DEF Write, Tries
<1>4. u \in Callers BY DEF Callers
<1>3. RequestsSound' BY RequestTypes DEF Write, RequestsSound
<1> HIDE DEF a
<1> QED BY <1>1, <1>2, <1>3, <1>4, TriesKeep, RequestTypes DEF Write

LEMMA FailsKeeps ==
  ASSUME IInv, NEW q \in Requests, LoginFails(q)
  PROVE  IInv'
<1>1. /\ request' \in [Requests -> Logins]
      /\ RequestsSound'
  BY RequestTypes DEF LoginFails, RequestsSound
<1>2. /\ clock' = clock /\ trust' = trust /\ attempts' = attempts
      /\ lastSweep' = lastSweep /\ passed' = passed /\ last' = None
  BY DEF LoginFails
<1>3. TypeOK' BY <1>1, <1>2 DEF IInv, TypeOK
<1>4. SubjectsSound' BY <1>2 DEF IInv, SubjectsSound, SubjectSound
<1>5. SweepsSound' /\ Trusting' BY <1>2 DEF IInv, SweepsSound, Trusting
<1>6. RefusedForCause' /\ StoredAreRecent' BY <1>2 DEF RefusedForCause, StoredAreRecent
<1> QED BY <1>1, <1>3, <1>4, <1>5, <1>6 DEF IInv

LEMMA NoPasses == \A now : PassesSound({}, now) /\ Closed({}, now)
<1>1. IsFiniteSet({}) /\ Cardinality({}) = 0 BY FS_EmptySet
<1> QED BY <1>1, Constants DEF PassesSound, Closed

LEMMA SucceedsKeeps ==
  ASSUME IInv, NEW q \in Requests, LoginSucceeds(q)
  PROVE  IInv'
<1> DEFINE s == request[q].server
           d == request[q].address
           a == <<"byEmail", "login", d[1]>>
           m == attempts[s].byEmail
           n == [k \in DOMAIN m \ {ResetKey(d)} |-> m[k]]
<1>1. s \in Servers /\ d \in Addresses /\ d[1] \in Accounts
  BY RequestTypes DEF LoginSucceeds, RequestsSound
<1>2. /\ a \in Subjects /\ KeyOf(a) = ResetKey(d) /\ "byEmail" \in Limiters /\ a[1] = "byEmail"
  BY <1>1, SubjectIs DEF EmailKey, ResetKey
<1>3. /\ attempts' = [attempts EXCEPT ![s]["byEmail"] = n]
      /\ passed' = [passed EXCEPT ![s][a] = {}]
      /\ request' = [request EXCEPT ![q] = Idle]
      /\ last' = None /\ clock' = clock /\ trust' = trust /\ lastSweep' = lastSweep
  <2>1. attempts' = [attempts EXCEPT ![s].byEmail = n] BY DEF LoginSucceeds
  <2> QED BY <2>1 DEF LoginSucceeds
<1>4. /\ request' \in [Requests -> Logins]
      /\ RequestsSound'
  BY <1>3, RequestTypes DEF RequestsSound
<1>5. /\ DOMAIN n = DOMAIN m \ {KeyOf(a)} /\ \A k \in DOMAIN n : n[k] = m[k]
      /\ m = attempts[s]["byEmail"]
  BY <1>2
<1> HIDE DEF s, d, a, m, n
<1>6. /\ DOMAIN attempts' = Servers /\ \A r \in Servers : DOMAIN attempts'[r] = Limiters
      /\ attempts'[s]["byEmail"] = n
      /\ \A r \in Servers, l \in Limiters :
           ~(r = s /\ l = "byEmail") => attempts'[r][l] = attempts[r][l]
  <2>1. DOMAIN attempts = Servers /\ \A r \in Servers : DOMAIN attempts[r] = Limiters
    BY DEF IInv, TypeOK
  <2> QED BY <2>1, <1>1, <1>2, <1>3
<1>7. /\ passed' \in [Servers -> [Subjects -> SUBSET (Times \X Nat \X Callers)]]
      /\ passed'[s][a] = {}
      /\ \A r \in Servers, b \in Subjects : ~(r = s /\ b = a) => passed'[r][b] = passed[r][b]
  <2>1. passed \in [Servers -> [Subjects -> SUBSET (Times \X Nat \X Callers)]] BY DEF IInv, TypeOK
  <2> QED BY <2>1, <1>1, <1>2, <1>3
(* Whatever map is kept has no window that was not kept before.             *)
<1>8. \A r \in Servers, l \in Limiters :
        /\ DOMAIN attempts'[r][l] \subseteq DOMAIN attempts[r][l]
        /\ \A k \in DOMAIN attempts'[r][l] : attempts'[r][l][k] = attempts[r][l][k]
  BY <1>5, <1>6
<1>9. TypeOK'
  <2>1. \A r \in Servers, l \in Limiters :
          /\ DOMAIN attempts'[r][l] \subseteq Keys
          /\ \A k \in DOMAIN attempts'[r][l] : attempts'[r][l][k] \in Windows
    BY <1>8 DEF IInv, TypeOK
  <2> QED BY <2>1, <1>3, <1>4, <1>6, <1>7 DEF IInv, TypeOK
<1>10. SweepsSound' BY <1>3, <1>8 DEF IInv, SweepsSound
<1>11. Trusting' BY <1>3 DEF IInv, Trusting
<1>12. RefusedForCause' /\ StoredAreRecent' BY <1>3 DEF RefusedForCause, StoredAreRecent
<1>13. SubjectsSound'
  <2> SUFFICES ASSUME NEW r \in Servers, NEW b \in Subjects
               PROVE  SubjectSound(passed'[r][b], attempts'[r][b[1]], KeyOf(b), clock)
    BY <1>3 DEF SubjectsSound
  <2>1. b[1] \in Limiters BY LimiterOf
  <2>2. SubjectSound(passed[r][b], attempts[r][b[1]], KeyOf(b), clock) BY DEF IInv, SubjectsSound
  <2>3. CASE r = s /\ b = a
    <3>1. KeyOf(b) \notin DOMAIN attempts'[r][b[1]] BY <2>3, <1>2, <1>5, <1>6
    <3>2. passed'[r][b] = {} BY <2>3, <1>7
    <3> QED BY <3>1, <3>2, NoPasses DEF SubjectSound
  <2>4. CASE ~(r = s /\ b = a)
    <3>1. passed'[r][b] = passed[r][b] BY <2>4, <1>7
    <3>2. CASE r = s /\ b[1] = "byEmail"
      <4>1. KeyOf(b) # KeyOf(a) BY <2>4, <3>2, <1>2, SubjectParts
      <4>2. /\ (KeyOf(b) \in DOMAIN attempts'[r][b[1]]) <=> (KeyOf(b) \in DOMAIN attempts[r][b[1]])
            /\ KeyOf(b) \in DOMAIN attempts[r][b[1]] =>
                 attempts'[r][b[1]][KeyOf(b)] = attempts[r][b[1]][KeyOf(b)]
        BY <4>1, <3>2, <1>5, <1>6
      <4> QED BY <4>2, <3>1, <2>2 DEF SubjectSound
    <3>3. CASE ~(r = s /\ b[1] = "byEmail")
      BY <3>1, <3>3, <2>1, <2>2, <1>6
    <3> QED BY <3>2, <3>3
  <2> QED BY <2>3, <2>4
<1> QED BY <1>4, <1>9, <1>10, <1>11, <1>12, <1>13 DEF IInv

LEMMA TrustIs == \A t \in BOOLEAN : Accepts(t) => t
BY ServedAssumption DEF Accepts

LEMMA EmptyIs == DOMAIN Empty = {}
BY DEF Empty

LEMMA StartKeeps ==
  ASSUME IInv, NEW s \in Servers, Start(s)
  PROVE  IInv'
<1>1. /\ attempts' = [attempts EXCEPT ![s] = [l \in Limiters |-> Empty]]
      /\ lastSweep' = [lastSweep EXCEPT ![s] = [l \in Limiters |-> None]]
      /\ request' = [q \in Requests |-> IF request[q].server = s THEN Idle ELSE request[q]]
      /\ passed' = [passed EXCEPT ![s] = [a \in Subjects |-> {}]]
      /\ last' = None /\ clock' = clock
  BY DEF Start
<1>2. PICK t \in BOOLEAN : Accepts(t) /\ trust' = [trust EXCEPT ![s] = t] BY DEF Start
<1>3. trust' \in [Servers -> BOOLEAN] /\ Trusting'
  BY <1>2, TrustIs DEF IInv, TypeOK, Trusting
<1>4. /\ request' \in [Requests -> Logins]
      /\ RequestsSound'
  BY <1>1, RequestTypes DEF RequestsSound
<1>5. /\ DOMAIN attempts' = Servers /\ \A r \in Servers : DOMAIN attempts'[r] = Limiters
      /\ \A l \in Limiters : DOMAIN attempts'[s][l] = {}
      /\ \A r \in Servers \ {s} : attempts'[r] = attempts[r]
  <2>1. DOMAIN attempts = Servers /\ \A r \in Servers : DOMAIN attempts[r] = Limiters
    BY DEF IInv, TypeOK
  <2>2. /\ DOMAIN attempts' = Servers /\ attempts'[s] = [l \in Limiters |-> Empty]
        /\ \A r \in Servers \ {s} : attempts'[r] = attempts[r]
    BY <2>1, <1>1
  <2> QED BY <2>1, <2>2, EmptyIs
<1>6. /\ lastSweep' \in [Servers -> [Limiters -> Times \union {None}]]
      /\ \A l \in Limiters : lastSweep'[s][l] = None
      /\ \A r \in Servers \ {s} : lastSweep'[r] = lastSweep[r]
  BY <1>1 DEF IInv, TypeOK
<1>7. /\ passed' \in [Servers -> [Subjects -> SUBSET (Times \X Nat \X Callers)]]
      /\ \A a \in Subjects : passed'[s][a] = {}
      /\ \A r \in Servers \ {s} : passed'[r] = passed[r]
  BY <1>1 DEF IInv, TypeOK
<1>8. TypeOK'
  <2>1. \A r \in Servers, l \in Limiters :
          /\ DOMAIN attempts'[r][l] \subseteq Keys
          /\ \A k \in DOMAIN attempts'[r][l] : attempts'[r][l][k] \in Windows
    BY <1>5 DEF IInv, TypeOK
  <2> QED BY <2>1, <1>1, <1>3, <1>4, <1>5, <1>6, <1>7 DEF IInv, TypeOK
<1>9. SweepsSound'
  <2> SUFFICES ASSUME NEW r \in Servers, NEW l \in Limiters
               PROVE  /\ lastSweep'[r][l] # None => lastSweep'[r][l] <= clock
                      /\ \A k \in DOMAIN attempts'[r][l] : lastSweep'[r][l] # None
                           /\ lastSweep'[r][l] <= attempts'[r][l][k].expires
    BY <1>1 DEF SweepsSound
  <2>1. CASE r = s BY <2>1, <1>5, <1>6
  <2>2. CASE r # s BY <2>2, <1>5, <1>6 DEF IInv, SweepsSound
  <2> QED BY <2>1, <2>2
<1>10. RefusedForCause' /\ StoredAreRecent' BY <1>1 DEF RefusedForCause, StoredAreRecent
<1>11. SubjectsSound'
  <2> SUFFICES ASSUME NEW r \in Servers, NEW b \in Subjects
               PROVE  SubjectSound(passed'[r][b], attempts'[r][b[1]], KeyOf(b), clock)
    BY <1>1 DEF SubjectsSound
  <2>1. b[1] \in Limiters BY LimiterOf
  <2>2. CASE r = s
    <3>1. passed'[r][b] = {} /\ KeyOf(b) \notin DOMAIN attempts'[r][b[1]]
      BY <2>1, <2>2, <1>5, <1>7
    <3> QED BY <3>1, NoPasses DEF SubjectSound
  <2>3. CASE r # s BY <2>3, <1>5, <1>7 DEF IInv, SubjectsSound
  <2> QED BY <2>2, <2>3
<1> QED BY <1>3, <1>4, <1>8, <1>9, <1>10, <1>11 DEF IInv

LEMMA TickKeeps ==
  ASSUME IInv, Tick
  PROVE  IInv'
<1>1. /\ clock \in Nat /\ clock' = clock + 1 /\ clock' \in Times
      /\ last' = None /\ trust' = trust /\ attempts' = attempts
      /\ lastSweep' = lastSweep /\ request' = request
  BY Constants DEF IInv, TypeOK, Tick, Times
<1>2. passed' = [s \in Servers |-> [a \in Subjects |-> Later(passed[s][a], clock + 1)]]
  BY DEF Tick, Later
<1>3. \A s \in Servers, a \in Subjects :
        /\ passed'[s][a] = Later(passed[s][a], clock + 1)
        /\ passed'[s][a] \subseteq Times \X Nat \X Callers
  BY <1>2 DEF IInv, TypeOK, Later
<1>4. passed' \in [Servers -> [Subjects -> SUBSET (Times \X Nat \X Callers)]]
  <2>1. \A s \in Servers : passed'[s] \in [Subjects -> SUBSET (Times \X Nat \X Callers)] BY <1>2, <1>3
  <2> QED BY <1>2, <2>1
<1>5. TypeOK' BY <1>1, <1>4 DEF IInv, TypeOK
<1>6. SubjectsSound'
  <2> SUFFICES ASSUME NEW s \in Servers, NEW a \in Subjects
               PROVE  SubjectSound(Later(passed[s][a], clock + 1), attempts[s][a[1]], KeyOf(a),
                                 clock + 1)
    BY <1>1, <1>3 DEF SubjectsSound
  <2>1. SubjectSound(passed[s][a], attempts[s][a[1]], KeyOf(a), clock) BY DEF IInv, SubjectsSound
  <2> QED BY <2>1, <1>1, PassesLater, ClosedLater, FitsLater DEF SubjectSound
<1>7. SweepsSound'
  <2> SUFFICES ASSUME NEW s \in Servers, NEW l \in Limiters
               PROVE  lastSweep[s][l] # None => lastSweep[s][l] <= clock + 1
    BY <1>1 DEF IInv, SweepsSound
  <2>1. lastSweep[s][l] \in Nat \union {None} BY Constants DEF IInv, TypeOK, Times
  <2> QED BY <2>1, <1>1, Constants DEF IInv, SweepsSound
<1>8. RequestsSound' /\ Trusting' BY <1>1 DEF IInv, RequestsSound, Trusting
<1>9. RefusedForCause' /\ StoredAreRecent' BY <1>1 DEF RefusedForCause, StoredAreRecent
<1> QED BY <1>5, <1>6, <1>7, <1>8, <1>9 DEF IInv

-----------------------------------------------------------------------------
LEMMA InitHolds == Init => IInv
<1> SUFFICES ASSUME Init PROVE IInv OBVIOUS
<1>1. clock = 0 /\ 0 \in Times /\ last = None BY Constants DEF Init, Times
<1>2. trust \in [Servers -> BOOLEAN] /\ Trusting
  BY TrustIs DEF Init, Trusting
<1>3. /\ DOMAIN attempts = Servers /\ \A s \in Servers : DOMAIN attempts[s] = Limiters
      /\ \A s \in Servers, l \in Limiters : DOMAIN attempts[s][l] = {}
  BY EmptyIs DEF Init
<1>4. /\ lastSweep \in [Servers -> [Limiters -> Times \union {None}]]
      /\ \A s \in Servers, l \in Limiters : lastSweep[s][l] = None
  BY DEF Init
<1>5. /\ request \in [Requests -> Logins]
      /\ RequestsSound
  BY DEF Init, Idle, Logins, RequestsSound
<1>6. /\ passed \in [Servers -> [Subjects -> SUBSET (Times \X Nat \X Callers)]]
      /\ \A s \in Servers, a \in Subjects : passed[s][a] = {}
  BY DEF Init
<1>7. TypeOK BY <1>1, <1>2, <1>3, <1>4, <1>5, <1>6 DEF TypeOK
<1>8. SubjectsSound
  <2> SUFFICES ASSUME NEW s \in Servers, NEW a \in Subjects
               PROVE  SubjectSound(passed[s][a], attempts[s][a[1]], KeyOf(a), clock)
    BY DEF SubjectsSound
  <2>1. passed[s][a] = {} /\ KeyOf(a) \notin DOMAIN attempts[s][a[1]] BY <1>3, <1>6, LimiterOf
  <2> QED BY <2>1, NoPasses DEF SubjectSound
<1>9. SweepsSound BY <1>3, <1>4 DEF SweepsSound
<1>10. RefusedForCause /\ StoredAreRecent BY <1>1 DEF RefusedForCause, StoredAreRecent
<1> QED BY <1>2, <1>5, <1>7, <1>8, <1>9, <1>10 DEF IInv

LEMMA NextHolds == IInv /\ [Next]_vars => IInv'
<1> SUFFICES ASSUME IInv, [Next]_vars PROVE IInv' OBVIOUS
<1>1. CASE \E q \in Requests, s \in Servers, o \in Origins, c \in Claims, d \in Addresses :
             LoginByIP(q, s, o, c, d)
  BY <1>1, ByIPKeeps
<1>2. CASE \E q \in Requests : LoginByEmail(q) \/ LoginFails(q) \/ LoginSucceeds(q)
  BY <1>2, ByEmailKeeps, FailsKeeps, SucceedsKeeps
<1>3. CASE \E s \in Servers, o \in Origins, c \in Claims : Signup(s, o, c)
  BY <1>3, SignupKeeps
<1>4. CASE \E s \in Servers, l \in Writes, u \in Accounts : Write(s, l, u)
  BY <1>4, WriteKeeps
<1>5. CASE \E s \in Servers : Start(s) BY <1>5, StartKeeps
<1>6. CASE Tick BY <1>6, TickKeeps
<1>7. CASE UNCHANGED vars
  <2>1. /\ clock' = clock /\ trust' = trust /\ attempts' = attempts /\ last' = last
        /\ lastSweep' = lastSweep /\ request' = request /\ passed' = passed
    BY <1>7 DEF vars
  <2>2. TypeOK' BY <2>1 DEF IInv, TypeOK
  <2>3. SubjectsSound' BY <2>1 DEF IInv, SubjectsSound
  <2>4. SweepsSound' /\ Trusting' /\ RequestsSound'
    BY <2>1 DEF IInv, SweepsSound, Trusting, RequestsSound
  <2>5. RefusedForCause' /\ StoredAreRecent'
    BY <2>1 DEF IInv, RefusedForCause, StoredAreRecent
  <2> QED BY <2>2, <2>3, <2>4, <2>5 DEF IInv
<1> QED BY <1>1, <1>2, <1>3, <1>4, <1>5, <1>6, <1>7 DEF Next

(* The windows and what was passed fit each other in every reachable state. *)
THEOREM Inductive == Spec => []IInv
<1>1. Init => IInv BY InitHolds
<1>2. IInv /\ [Next]_vars => IInv' BY NextHolds
<1> QED BY <1>1, <1>2, PTL DEF Spec

(* Every variable keeps its type.                                           *)
THEOREM TypeCorrect == Spec => []TypeOK
<1>1. IInv => TypeOK BY DEF IInv
<1> QED BY <1>1, Inductive, PTL

(* In a stretch as long as the period a process lets through at most twice  *)
(* the limit: it meets only the window that is kept and the one before it.  *)
(* On an account the passes since its last success are meant, and all of    *)
(* them since the process was started.                                      *)
THEOREM TwiceAtMost == Spec => []AtMostTwice
<1>1. IInv => AtMostTwice
  <2> SUFFICES ASSUME IInv, NEW s \in Servers, NEW a \in Subjects
               PROVE  Cardinality(passed[s][a]) <= 2 * Limit
    BY DEF AtMostTwice
  <2> DEFINE p == passed[s][a]  m == attempts[s][a[1]]  e == m[KeyOf(a)].expires
  <2>1. SubjectSound(p, m, KeyOf(a), clock) BY DEF IInv, SubjectsSound
  <2>2. IsFiniteSet(p) /\ p \subseteq Nat \X Nat \X Callers BY <2>1 DEF SubjectSound, PassesSound
  <2>3. CASE KeyOf(a) \in DOMAIN m
    <3>1. /\ e \in Nat /\ Cardinality(Within(p, e)) <= Limit
          /\ Cardinality(Before(p, e)) <= Limit
      BY <2>1, <2>3 DEF SubjectSound, Fits
    <3> HIDE DEF p, e
    <3>2. Cardinality(p) <= 2 * Limit BY <3>1, <2>2, Parts, Constants
    <3> QED BY <3>2 DEF p
  <2>4. CASE KeyOf(a) \notin DOMAIN m
    <3>1. Cardinality(p) <= Limit BY <2>1, <2>4 DEF SubjectSound, Closed
    <3>2. Cardinality(p) \in Nat BY <2>2, FS_CardinalityType
    <3> HIDE DEF p
    <3>3. Cardinality(p) <= 2 * Limit BY <3>1, <3>2, Constants
    <3> QED BY <3>3 DEF p
  <2> QED BY <2>3, <2>4
<1> QED BY <1>1, Inductive, PTL

(* Allow refuses only where it has let through Limit attempts within the    *)
(* period: of that origin, of that user, or on that account, and there by   *)
(* whomever they were made.                                                 *)
THEOREM RefusalsDeserved == Spec => []RefusedForCause
<1>1. IInv => RefusedForCause BY DEF IInv
<1> QED BY <1>1, Inductive, PTL

(* After Allow the map holds nothing that ended a period ago or earlier.    *)
THEOREM OldOnesSwept == Spec => []StoredAreRecent
<1>1. IInv => StoredAreRecent BY DEF IInv
<1> QED BY <1>1, Inductive, PTL
=============================================================================
