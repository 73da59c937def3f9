----------------------------- MODULE Paging_proofs -----------------------------
(***************************************************************************)
(* Theorems about Paging, for any lists, ids, ranks and any length of a    *)
(* page.                                                                   *)
(*                                                                         *)
(* The cursor divides the rows that have kept their place: those the       *)
(* screen has are before it, and a page under way lies between the cursor  *)
(* it was asked with and the one it brings.                                *)
(***************************************************************************)
EXTENDS Paging, FiniteSetTheorems, SequenceTheorems, WellFoundedInduction, TLAPS

(* Place, Earlier and Start, of the list l with ranks k.                    *)
Pos(l, k, r) == <<IF l \in ByRank THEN k[r] ELSE 0, r>>
Ahead(l, p, q) ==
  IF l \in Ascending THEN p[2] < q[2]
  ELSE p[1] > q[1] \/ (p[1] = q[1] /\ p[2] > q[2])
First(l) == IF l \in Ascending THEN <<0, 0>> ELSE <<Top, Top>>
Spots(l) == (IF l \in ByRank THEN Ranks ELSE {0}) \X Ids

(* The pages up to cursor c are past the place of r.                        *)
Past(l, k, c, r) == c = NoMore \/ ~Ahead(l, c, Pos(l, k, r))

(* The rows of s are in order, but for those in out, which have moved or    *)
(* were put at the end by the screen.                                       *)
Ordered(s, out, l, k) ==
  \A i, j \in DOMAIN s : i < j /\ s[i] \notin out /\ s[j] \notin out =>
    Ahead(l, Pos(l, k, s[i]), Pos(l, k, s[j]))

ShownOK(s, c, out, l, k) ==
  /\ Ordered(s, out, l, k)
  /\ \A i \in DOMAIN s : s[i] \notin out => Past(l, k, c, s[i])

(* A page under way lies between two cursors, and has all of st there.      *)
LoadOK(ld, c, out, st, l, k) ==
  ld.state # "idle" =>
    /\ c # NoMore
    /\ ld.next # NoMore => Ahead(l, c, ld.next)
    /\ Ordered(ld.rows, out, l, k)
    /\ \A i \in DOMAIN ld.rows : ld.rows[i] \notin out =>
         Ahead(l, c, Pos(l, k, ld.rows[i])) /\ Past(l, k, ld.next, ld.rows[i])
    /\ \A r \in st :
         Ahead(l, c, Pos(l, k, r)) /\ Past(l, k, ld.next, r) => r \in Range(ld.rows)

StayedOK(s, c, st, l, k) ==
  \A r \in st : c # First(l) /\ Past(l, k, c, r) => r \in Range(s)

CursorsSound ==
  /\ cursor \in {NoMore, First(list)} \union Spots(list)
  /\ load.next \in {NoMore} \union Spots(list)
  /\ cursor = First(list) => shown = <<>> /\ sent = NoComment

IInv ==
  /\ TypeOK /\ CursorsSound
  /\ ShownOK(shown, cursor, moved \union added, list, rank)
  /\ LoadOK(load, cursor, moved \union added, stayed, list, rank)
  /\ StayedOK(shown, cursor, stayed, list, rank)
  /\ \A r \in stayed : row[r] = "listed"

(* The same as in Paging.                                                   *)
LEMMA SameOrder ==
  /\ \A r : Place(r) = Pos(list, rank, r)
  /\ \A p, q : Earlier(p, q) <=> Ahead(list, p, q)
  /\ Start = First(list)
  /\ \A c, r : Past(list, rank, c, r) <=> c = NoMore \/ ~Earlier(c, Place(r))
BY DEF Place, Earlier, Start, Pos, Ahead, First, Past

-----------------------------------------------------------------------------
(* Numbers.                                                                 *)

LEMMA Constants ==
  /\ Limit \in Nat /\ Limit > 0 /\ Top \in Nat /\ Top > 0 /\ 0 \in Ranks /\ Ranks \subseteq Nat
  /\ \A r \in Ids : r \in Nat /\ 0 < r /\ r < Top
  /\ \A k \in Ranks : k \in Nat /\ k < Top
  /\ NoComment \notin Ids
BY LimitAssumption, TopAssumption, RankAssumption, IdAssumption, NoCommentAssumption

LEMMA Smallest ==
  ASSUME NEW S, S \subseteq Nat, S # {}
  PROVE  \E n \in S : \A m \in S : n <= m
<1> DEFINE R == {x \in Nat \X Nat : x[1] < x[2]}
<1>1. OpToRel(<, Nat) = R BY DEF OpToRel
<1>2. IsWellFoundedOn(R, Nat) BY <1>1, NatLessThanWellFounded
<1> HIDE DEF R
<1>3. \E n \in S : \A m \in S : ~(<<m, n>> \in R) BY <1>2, WFMin
<1>4. PICK n \in S : \A m \in S : ~(<<m, n>> \in R) BY <1>3
<1>5. \A m \in S : n <= m
  <2> SUFFICES ASSUME NEW m \in S PROVE n <= m OBVIOUS
  <2>1. m \in Nat /\ n \in Nat /\ ~(<<m, n>> \in R) BY <1>4
  <2>2. ~(m < n) BY <2>1 DEF R
  <2> QED BY <2>1, <2>2
<1> QED BY <1>5

(* One after the other up to n: what holds at first and is handed on holds  *)
(* throughout.                                                              *)
LEMMA Climb ==
  ASSUME NEW n \in Nat, NEW S, 0 \in S, \A m \in 0 .. n - 1 : m \in S => m + 1 \in S
  PROVE  \A m \in 0 .. n : m \in S
<1> DEFINE bad == {m \in 0 .. n : m \notin S}
<1> SUFFICES ASSUME bad # {} PROVE FALSE OBVIOUS
<1>1. bad \subseteq Nat OBVIOUS
<1>2. PICK b \in bad : \A m \in bad : b <= m BY <1>1, Smallest
<1>3. b \in Nat /\ b # 0 /\ b <= n /\ b \notin S OBVIOUS
<1>4. b - 1 \in 0 .. n - 1 /\ b - 1 \notin bad BY <1>2, <1>3
<1>5. b - 1 \in S BY <1>3, <1>4
<1>6. (b - 1) + 1 \in S BY <1>4, <1>5
<1> QED BY <1>3, <1>6

LEMMA Largest ==
  ASSUME NEW S, S \subseteq Nat, S # {}, NEW b \in Nat, \A n \in S : n <= b
  PROVE  \E n \in S : \A m \in S : m <= n
<1> DEFINE T == {b - m : m \in S}
<1>0. \A m \in S : m \in Nat /\ m <= b /\ b - m \in Nat OBVIOUS
<1>1. T \subseteq Nat /\ T # {} BY <1>0
<1> HIDE DEF T
<1>2. PICK t \in T : \A u \in T : t <= u BY <1>1, Smallest
<1>3. PICK n \in S : t = b - n BY <1>2 DEF T
<1>4. \A m \in S : b - m \in T BY DEF T
<1>5. \A m \in S : m <= n
  <2> SUFFICES ASSUME NEW m \in S PROVE m <= n OBVIOUS
  <2>1. b - n <= b - m BY <1>2, <1>3, <1>4
  <2> QED BY <2>1
<1> QED BY <1>5

LEMMA IsSeq ==
  ASSUME NEW S, NEW n \in Nat, NEW f \in [1 .. n -> S]
  PROVE  f \in Seq(S) /\ Len(f) = n /\ DOMAIN f = 1 .. n
<1>1. f \in Seq(S) BY SeqDef
<1>2. DOMAIN f = 1 .. Len(f) /\ Len(f) \in Nat BY <1>1, LenProperties
<1> QED BY <1>1, <1>2

-----------------------------------------------------------------------------
(* Rows picked from a sequence.                                             *)

LEMMA CountUp ==
  ASSUME NEW K, NEW n \in Nat, K \subseteq 1 .. n
  PROVE  /\ IsFiniteSet(K) /\ Cardinality(K) \in Nat
         /\ \A m \in Nat : /\ IsFiniteSet({h \in K : h <= m})
                           /\ Cardinality({h \in K : h <= m}) \in Nat
         /\ Cardinality({h \in K : h <= 0}) = 0
         /\ Cardinality({h \in K : h <= n}) = Cardinality(K)
         /\ \A m \in Nat : m + 1 \in K =>
              Cardinality({h \in K : h <= m + 1}) = Cardinality({h \in K : h <= m}) + 1
         /\ \A m \in Nat : m + 1 \notin K =>
              Cardinality({h \in K : h <= m + 1}) = Cardinality({h \in K : h <= m})
<1> DEFINE U(m) == {h \in K : h <= m}
<1>1. IsFiniteSet(1 .. n) BY FS_Interval
<1>2. IsFiniteSet(K) BY <1>1, FS_Subset
<1>3. \A m \in Nat : IsFiniteSet(U(m)) BY <1>2, FS_Subset
<1>4. Cardinality(K) \in Nat /\ \A m \in Nat : Cardinality(U(m)) \in Nat
  BY <1>2, <1>3, FS_CardinalityType
<1>0. \A h \in K : h \in Nat /\ 0 < h /\ h <= n OBVIOUS
<1>5. U(0) = {} /\ U(n) = K
  <2>1. \A h \in K : h <= n /\ ~(h <= 0) BY <1>0
  <2>2. U(0) = {} BY <2>1
  <2>3. U(n) = K BY <2>1
  <2> QED BY <2>2, <2>3
<1>6. Cardinality(U(0)) = 0 /\ Cardinality(U(n)) = Cardinality(K)
  <2>1. Cardinality({}) = 0 BY FS_EmptySet
  <2> HIDE DEF U
  <2> QED BY <2>1, <1>5
<1>7. ASSUME NEW m \in Nat, m + 1 \in K
      PROVE  Cardinality(U(m + 1)) = Cardinality(U(m)) + 1
  <2>0. \A h \in K : h <= m + 1 <=> h <= m \/ h = m + 1 BY <1>0
  <2>1. U(m + 1) = U(m) \union {m + 1} /\ m + 1 \notin U(m)
    <3>1. ~(m + 1 <= m) /\ m + 1 <= m + 1 OBVIOUS
    <3>2. m + 1 \notin U(m) BY <3>1
    <3>3. U(m + 1) = U(m) \union {m + 1} BY <2>0, <1>7
    <3> QED BY <3>2, <3>3
  <2> HIDE DEF U
  <2> QED BY <2>1, <1>3, FS_AddElement
<1>8. ASSUME NEW m \in Nat, m + 1 \notin K
      PROVE  Cardinality(U(m + 1)) = Cardinality(U(m))
  <2>1. U(m + 1) = U(m)
    <3>1. \A h \in K : h <= m + 1 <=> h <= m BY <1>0, <1>8
    <3> QED BY <3>1
  <2> HIDE DEF U
  <2> QED BY <2>1
<1> QED BY <1>2, <1>3, <1>4, <1>6, <1>7, <1>8

(* Every number up to the cardinality is the number of some element.        *)
LEMMA Numbered ==
  ASSUME NEW K, NEW n \in Nat, K \subseteq 1 .. n
  PROVE  \A c \in 1 .. Cardinality(K) : \E i \in K : Cardinality({h \in K : h <= i}) = c
<1> DEFINE U(m) == Cardinality({h \in K : h <= m})
           S == {m \in 0 .. n : \A c \in 1 .. U(m) : \E i \in K : U(i) = c}
<1>1. /\ U(0) = 0 /\ U(n) = Cardinality(K) /\ \A m \in Nat : U(m) \in Nat
      /\ \A m \in Nat : m + 1 \in K => U(m + 1) = U(m) + 1
      /\ \A m \in Nat : m + 1 \notin K => U(m + 1) = U(m)
  BY CountUp
<1> HIDE DEF U
<1>2. 0 \in S BY <1>1
<1>3. \A m \in 0 .. n - 1 : m \in S => m + 1 \in S
  <2> SUFFICES ASSUME NEW m \in 0 .. n - 1, m \in S, NEW c \in 1 .. U(m + 1)
               PROVE  \E i \in K : U(i) = c
    OBVIOUS
  <2>1. U(m) \in Nat /\ m \in Nat BY <1>1
  <2>2. CASE m + 1 \in K
    <3>1. U(m + 1) = U(m) + 1 BY <2>2, <1>1
    <3>2. c \in 1 .. U(m) \/ c = U(m + 1) BY <2>1, <3>1
    <3> QED BY <3>2, <2>2
  <2>3. CASE m + 1 \notin K
    <3>1. U(m + 1) = U(m) BY <2>1, <2>3, <1>1
    <3> QED BY <3>1
  <2> QED BY <2>2, <2>3
<1> HIDE DEF S
<1>4. n \in S BY <1>2, <1>3, Climb
<1> QED BY <1>1, <1>4 DEF S, U

(* What Only leaves: the members of S, as they followed each other.         *)
LEMMA OnlyIs ==
  ASSUME NEW s \in Seq(Ids), NEW S
  PROVE  /\ Only(s, S) \in Seq(Ids) /\ Len(Only(s, S)) <= Len(s)
         /\ Range(Only(s, S)) = Range(s) \intersect S
         /\ \A a, b \in DOMAIN Only(s, S) : a < b =>
              \E i, j \in DOMAIN s : i < j /\ s[i] = Only(s, S)[a] /\ s[j] = Only(s, S)[b]
<1> DEFINE n == Len(s)
           K == {i \in DOMAIN s : s[i] \in S}
           U(i) == Cardinality({h \in K : h <= i})
           Nth(c) == CHOOSE i \in K : U(i) = c
           t == [c \in 1 .. Cardinality(K) |-> s[Nth(c)]]
<1>1. Only(s, S) = t BY DEF Only
<1>2. n \in Nat /\ DOMAIN s = 1 .. n /\ K \subseteq 1 .. n /\ \A i \in 1 .. n : s[i] \in Ids
  OBVIOUS
<1>3. \A c \in 1 .. Cardinality(K) : \E i \in K : U(i) = c BY <1>2, Numbered
<1>4. /\ IsFiniteSet(K) /\ Cardinality(K) \in Nat /\ \A m \in Nat : U(m) \in Nat
      /\ \A m \in Nat : IsFiniteSet({h \in K : h <= m})
  BY <1>2, CountUp
<1>5. Cardinality(K) <= n
  <2>1. IsFiniteSet(1 .. n) /\ Cardinality(1 .. n) = n BY <1>2, FS_Interval
  <2>2. K \subseteq 1 .. n BY <1>2
  <2> HIDE DEF K, n
  <2>3. Cardinality(K) <= Cardinality(1 .. n) BY <2>1, <2>2, FS_Subset
  <2> QED BY <2>1, <2>3
<1>6. \A i, j \in K : i <= j => U(i) <= U(j)
  <2> SUFFICES ASSUME NEW i \in K, NEW j \in K, i <= j PROVE U(i) <= U(j) OBVIOUS
  <2>1. {h \in K : h <= i} \subseteq {h \in K : h <= j} BY <1>2
  <2>2. i \in Nat /\ j \in Nat BY <1>2
  <2> QED BY <2>1, <2>2, <1>4, FS_Subset
<1>7. \A i \in K : U(i) \in 1 .. Cardinality(K)
  <2> SUFFICES ASSUME NEW i \in K PROVE U(i) \in 1 .. Cardinality(K) OBVIOUS
  <2>1. i \in Nat BY <1>2
  <2>2. {h \in K : h <= i} \subseteq K OBVIOUS
  <2>3. U(i) <= Cardinality(K) BY <2>2, <1>4, FS_Subset
  <2>4. U(i) # 0
    <3>1. i \in {h \in K : h <= i} BY <2>1
    <3> QED BY <3>1, <2>1, <1>4, FS_EmptySet
  <2> QED BY <2>1, <2>3, <2>4, <1>4
<1>8. \A i, j \in K : i # j => U(i) # U(j)
  <2>0. \A i \in K : i \in Nat BY <1>2
  <2> HIDE DEF K, U
  <2> SUFFICES ASSUME NEW i \in K, NEW j \in K, i < j PROVE U(i) # U(j)
    BY <2>0
  <2> USE DEF K, U
  <2>1. i \in Nat /\ j \in Nat BY <1>2
  <2>2. {h \in K : h <= i} \subseteq {h \in K : h <= j}
    BY <2>1, <1>2
  <2>3. j \in {h \in K : h <= j} /\ j \notin {h \in K : h <= i} BY <2>1
  <2>4. {h \in K : h <= i} # {h \in K : h <= j} BY <2>3
  <2> QED BY <2>1, <2>2, <2>4, <1>4, FS_Subset
<1> HIDE DEF K, U
<1>9. \A c \in 1 .. Cardinality(K) : Nth(c) \in K /\ U(Nth(c)) = c BY <1>3
<1>10. \A i \in K : Nth(U(i)) = i BY <1>7, <1>8, <1>9
<1> HIDE DEF Nth
<1>11. t \in [1 .. Cardinality(K) -> Ids] BY <1>2, <1>9
<1>12. t \in Seq(Ids) /\ Len(t) = Cardinality(K) /\ DOMAIN t = 1 .. Cardinality(K)
  BY <1>4, <1>11, IsSeq
<1>13. Range(t) = Range(s) \intersect S
  <2>1. \A c \in DOMAIN t : t[c] \in Range(s) /\ t[c] \in S
    BY <1>9, <1>12 DEF K, Range
  <2>2. \A i \in DOMAIN s : s[i] \in S => s[i] \in Range(t)
    <3> SUFFICES ASSUME NEW i \in DOMAIN s, s[i] \in S PROVE s[i] \in Range(t) OBVIOUS
    <3>1. i \in K BY DEF K
    <3>2. U(i) \in DOMAIN t /\ t[U(i)] = s[i] BY <3>1, <1>7, <1>10, <1>12
    <3> HIDE DEF t
    <3> QED BY <3>2 DEF Range
  <2> HIDE DEF t
  <2> QED BY <2>1, <2>2 DEF Range
<1>14. \A a, b \in DOMAIN t : a < b =>
         \E i, j \in DOMAIN s : i < j /\ s[i] = t[a] /\ s[j] = t[b]
  <2> SUFFICES ASSUME NEW a \in DOMAIN t, NEW b \in DOMAIN t, a < b
               PROVE  \E i, j \in DOMAIN s : i < j /\ s[i] = t[a] /\ s[j] = t[b]
    OBVIOUS
  <2>1. Nth(a) \in K /\ Nth(b) \in K /\ U(Nth(a)) = a /\ U(Nth(b)) = b BY <1>9, <1>12
  <2>2. Nth(a) \in Nat /\ Nth(b) \in Nat
    <3> HIDE DEF t
    <3>1. \A i \in K : i \in Nat BY <1>2
    <3> QED BY <2>1, <3>1
  <2>5. a \in Nat /\ b \in Nat
    <3>1. a \in 1 .. Cardinality(K) /\ b \in 1 .. Cardinality(K) BY <1>12
    <3> QED BY <3>1, <1>4
  <2>3. Nth(a) < Nth(b) BY <2>1, <2>2, <2>5, <1>6
  <2>4. s[Nth(a)] = t[a] /\ s[Nth(b)] = t[b] BY <1>12
  <2> QED BY <2>1, <2>3, <2>4 DEF K
<1> HIDE DEF t
<1> QED BY <1>1, <1>2, <1>4, <1>5, <1>12, <1>13, <1>14

-----------------------------------------------------------------------------
(* The order of a list.                                                     *)

LEMMA ThreeAreNotTwo == \A x \in Nat \X Nat : x # NoMore
<1> SUFFICES ASSUME NEW a \in Nat, NEW b \in Nat, <<a, b>> = NoMore PROVE FALSE OBVIOUS
<1>1. DOMAIN <<a, b>> = 1 .. 2 /\ DOMAIN NoMore = 1 .. 3 BY DEF NoMore
<1>2. 3 \in 1 .. 3 /\ 3 \notin 1 .. 2 OBVIOUS
<1> QED BY <1>1, <1>2

LEMMA PlaceIs ==
  ASSUME rank \in [Ids -> Ranks]
  PROVE  /\ \A r \in Ids : Place(r) \in Spots(list) /\ Place(r) \in Nat \X Nat /\ Place(r)[2] = r
         /\ Spots(list) \subseteq Nat \X Nat /\ NoMore \notin Spots(list)
         /\ Start \in Nat \X Nat /\ Start \notin Spots(list) /\ Start # NoMore
         /\ \A p \in Spots(list) : Earlier(Start, p)
<1>1. \A r \in Ids : Place(r) \in Spots(list) /\ Place(r) \in Nat \X Nat /\ Place(r)[2] = r
  BY Constants DEF Place, Spots
<1>2. Spots(list) \subseteq Nat \X Nat BY Constants DEF Spots
<1>3. Start \in Nat \X Nat BY Constants DEF Start
<1>4. NoMore \notin Spots(list) /\ Start # NoMore BY <1>2, <1>3, ThreeAreNotTwo
<1>5. \A p \in Spots(list) : Earlier(Start, p)
  <2> SUFFICES ASSUME NEW p \in Spots(list) PROVE Earlier(Start, p) OBVIOUS
  <2>1. /\ p[1] \in Nat /\ p[1] < Top /\ p[2] \in Nat /\ 0 < p[2] /\ p[2] < Top
    BY Constants DEF Spots
  <2> QED BY <2>1, Constants DEF Earlier, Start
<1>6. Start \notin Spots(list)
  <2> SUFFICES ASSUME NEW p \in Spots(list) PROVE p # Start OBVIOUS
  <2>1. 0 < p[2] /\ p[2] < Top BY Constants DEF Spots
  <2>2. Start[2] = 0 \/ Start[2] = Top BY DEF Start
  <2> QED BY <2>1, <2>2, Constants
<1> QED BY <1>1, <1>2, <1>3, <1>4, <1>5, <1>6

LEMMA EarlierOrder ==
  \A x, y, z \in Nat \X Nat :
    /\ ~Earlier(x, x)
    /\ Earlier(x, y) => ~Earlier(y, x)
    /\ Earlier(x, y) /\ Earlier(y, z) => Earlier(x, z)
    /\ ~Earlier(y, x) /\ Earlier(y, z) => Earlier(x, z)
<1> SUFFICES ASSUME NEW x \in Nat \X Nat, NEW y \in Nat \X Nat, NEW z \in Nat \X Nat
             PROVE  /\ ~Earlier(x, x)
                    /\ Earlier(x, y) => ~Earlier(y, x)
                    /\ Earlier(x, y) /\ Earlier(y, z) => Earlier(x, z)
                    /\ ~Earlier(y, x) /\ Earlier(y, z) => Earlier(x, z)
  OBVIOUS
<1>1. /\ x[1] \in Nat /\ x[2] \in Nat /\ y[1] \in Nat /\ y[2] \in Nat
      /\ z[1] \in Nat /\ z[2] \in Nat
  OBVIOUS
<1> QED BY <1>1 DEF Earlier

(* Rows are never level, since ids differ.                                  *)
LEMMA OneIsEarlier ==
  ASSUME rank \in [Ids -> Ranks], NEW q \in Ids, NEW r \in Ids, q # r
  PROVE  Earlier(Place(q), Place(r)) \/ Earlier(Place(r), Place(q))
<1>1. /\ Place(q)[1] \in Nat /\ Place(q)[2] = q /\ q \in Nat
      /\ Place(r)[1] \in Nat /\ Place(r)[2] = r /\ r \in Nat
  BY PlaceIs, Constants
<1> QED BY <1>1 DEF Earlier

(* Among any rows there is a first one.                                     *)
LEMMA FirstOf ==
  ASSUME rank \in [Ids -> Ranks], NEW M, M \subseteq Ids, M # {}
  PROVE  \E r \in M : \A q \in M \ {r} : Earlier(Place(r), Place(q))
<1>1. \A r \in M : r \in Nat /\ r <= Top /\ Place(r)[2] = r
  BY PlaceIs, Constants
<1>2. \A r \in M : Place(r)[1] \in Nat /\ Place(r)[1] <= Top
  <2>1. \A r \in Ids : Place(r) \in Nat \X Nat BY PlaceIs
  <2>2. \A r \in Ids : Place(r)[1] <= Top
    <3>1. \A r \in Ids : rank[r] \in Nat /\ rank[r] < Top BY Constants
    <3> QED BY <3>1, Constants DEF Place
  <2> QED BY <2>1, <2>2
<1>3. CASE list \in Ascending
  <2>1. PICK r \in M : \A q \in M : r <= q BY <1>1, Smallest
  <2>2. \A q \in M \ {r} : r < q BY <2>1, <1>1
  <2> QED BY <2>1, <2>2, <1>1, <1>3 DEF Earlier
<1>4. CASE list \notin Ascending
  <2> DEFINE S == {Place(r)[1] : r \in M}
  <2>1. S \subseteq Nat /\ S # {} /\ \A n \in S : n <= Top BY <1>2
  <2> HIDE DEF S
  <2>2. PICK n \in S : \A m \in S : m <= n BY <2>1, Constants, Largest
  <2> DEFINE T == {r \in M : Place(r)[1] = n}
  <2>3. T # {} /\ T \subseteq Nat /\ \A r \in T : r <= Top BY <2>2, <1>1 DEF S
  <2>4. \A q \in M : Place(q)[1] <= n BY <2>2 DEF S
  <2>5. T \subseteq M /\ \A q \in M : q \in T <=> Place(q)[1] = n OBVIOUS
  <2> HIDE DEF T
  <2>6. PICK r \in T : \A q \in T : q <= r BY <2>3, Constants, Largest
  <2>7. r \in M /\ Place(r)[1] = n BY <2>5, <2>6
  <2>8. ASSUME NEW q \in M \ {r} PROVE Earlier(Place(r), Place(q))
    <3>1. Place(q)[1] \in Nat /\ Place(r)[1] \in Nat /\ q \in Nat /\ r \in Nat
          /\ Place(q)[2] = q /\ Place(r)[2] = r /\ q # r
      BY <2>7, <2>8, <1>1, <1>2
    <3>2. Place(q)[1] < n \/ (Place(q)[1] = n /\ q <= r)
      BY <3>1, <2>4, <2>5, <2>6, <2>7, <2>8
    <3> QED BY <3>1, <3>2, <2>7, <1>4 DEF Earlier
  <2> QED BY <2>7, <2>8
<1> QED BY <1>3, <1>4

-----------------------------------------------------------------------------
(* Every question has its page.                                             *)

LEMMA PageExists ==
  ASSUME rank \in [Ids -> Ranks], NEW M, M \subseteq Ids
  PROVE  \E p \in Pages : IsPage(p, M)
<1> DEFINE Fits(p, m, n) ==
             /\ m <= n /\ Range(p) \subseteq M /\ Sorted(p)
             /\ \A r \in M \ Range(p) :
                  m = n /\ (n # 0 => Earlier(Place(p[n]), Place(r)))
           S == {n \in 0 .. Limit : \E m \in Nat : \E p \in [1 .. m -> Ids] : Fits(p, m, n)}
<1>1. 0 \in S
  <2>1. <<>> \in [1 .. 0 -> Ids] /\ DOMAIN <<>> = {} OBVIOUS
  <2>2. Fits(<<>>, 0, 0) BY <2>1 DEF Range, Sorted
  <2> HIDE DEF Fits
  <2>3. \E m \in Nat : \E p \in [1 .. m -> Ids] : Fits(p, m, 0) BY <2>1, <2>2
  <2>4. 0 \in 0 .. Limit BY Constants
  <2> QED BY <2>3, <2>4
<1>2. \A n \in 0 .. Limit - 1 : n \in S => n + 1 \in S
  <2> HIDE DEF Fits
  <2>3. \A n \in 0 .. Limit - 1 : n + 1 \in 0 .. Limit BY Constants
  <2> SUFFICES ASSUME NEW n \in 0 .. Limit - 1, NEW m \in Nat, NEW p \in [1 .. m -> Ids],
                      Fits(p, m, n)
               PROVE  \E l \in Nat : \E q \in [1 .. l -> Ids] : Fits(q, l, n + 1)
    BY <2>3
  <2> USE DEF Fits
  <2>0. n \in Nat /\ n + 1 \in Nat BY Constants
  <2>1. CASE M \ Range(p) = {}
    <3>1. Fits(p, m, n + 1) BY <2>0, <2>1
    <3> QED BY <3>1
  <2>2. CASE M \ Range(p) # {}
    <3>1. PICK r \in M \ Range(p) :
            \A q \in (M \ Range(p)) \ {r} : Earlier(Place(r), Place(q))
      BY <2>2, FirstOf
    <3>2. m = n /\ r \in Ids /\ r \in M /\ r \notin Range(p) BY <3>1
    <3> DEFINE q == [i \in 1 .. n + 1 |-> IF i <= n THEN p[i] ELSE r]
    <3>3. /\ q \in [1 .. n + 1 -> Ids] /\ DOMAIN q = 1 .. n + 1 /\ q[n + 1] = r
          /\ \A i \in 1 .. n : q[i] = p[i]
          /\ DOMAIN p = 1 .. n /\ \A i \in 1 .. n : p[i] \in Ids
      BY <3>2, <2>0
    <3>4. \A i \in 1 .. n + 1 : i \in 1 .. n \/ i = n + 1 BY <2>0
    <3> HIDE DEF q
    <3>5. Range(q) = Range(p) \union {r} BY <2>0, <3>3, <3>4 DEF Range
    <3>6. Sorted(q)
      <4> SUFFICES ASSUME NEW i \in 1 .. n + 1, NEW j \in 1 .. n + 1, i < j
                   PROVE  Earlier(Place(q[i]), Place(q[j]))
        BY <3>3 DEF Sorted
      <4>1. i \in 1 .. n BY <2>0
      <4>2. CASE j \in 1 .. n
        <5>1. Earlier(Place(p[i]), Place(p[j])) BY <4>1, <4>2, <3>3 DEF Sorted
        <5> QED BY <5>1, <4>1, <4>2, <3>3
      <4>3. CASE j = n + 1
        <5>1. n # 0 /\ n \in 1 .. n BY <4>1, <2>0
        <5>2. Earlier(Place(p[n]), Place(r)) BY <5>1, <3>2
        <5>3. i = n \/ Earlier(Place(p[i]), Place(p[n]))
          <6>1. i = n \/ i < n BY <4>1, <2>0
          <6> QED BY <6>1, <4>1, <5>1, <3>3 DEF Sorted
        <5>4. /\ Place(p[i]) \in Nat \X Nat /\ Place(p[n]) \in Nat \X Nat
              /\ Place(r) \in Nat \X Nat
          BY <4>1, <5>1, <3>2, <3>3, PlaceIs
        <5>5. Earlier(Place(p[i]), Place(r)) BY <5>2, <5>3, <5>4, EarlierOrder
        <5> QED BY <5>5, <4>1, <4>3, <3>3
      <4> QED BY <3>4, <4>2, <4>3
    <3>7. \A x \in M \ Range(q) : Earlier(Place(q[n + 1]), Place(x)) BY <3>1, <3>3, <3>5
    <3>8. Range(q) \subseteq M BY <3>2, <3>5
    <3>9. Fits(q, n + 1, n + 1) BY <3>6, <3>7, <3>8, <2>0
    <3> QED BY <3>3, <3>9, <2>0
  <2> QED BY <2>1, <2>2
<1> HIDE DEF S
<1>3. Limit \in S BY <1>1, <1>2, Constants, Climb
<1>4. PICK m \in Nat : \E p \in [1 .. m -> Ids] : Fits(p, m, Limit) BY <1>3 DEF S
<1>5. PICK p \in [1 .. m -> Ids] : Fits(p, m, Limit) BY <1>4
<1>6. Len(p) = m /\ DOMAIN p = 1 .. m BY IsSeq
<1>7. p \in Pages
  <2>1. m \in 0 .. Limit + 1 BY <1>5, Constants
  <2> QED BY <2>1 DEF Pages
<1>8. IsPage(p, M) BY <1>5, <1>6, Constants DEF IsPage
<1> QED BY <1>7, <1>8

(* What a page is, and how its cursor divides the rows.                     *)
LEMMA PageIs ==
  ASSUME rank \in [Ids -> Ranks], NEW M, M \subseteq Ids
  PROVE  LET rows == Page(M).rows  next == Page(M).next IN
         /\ rows \in Seq(Ids) /\ Len(rows) <= Limit /\ Range(rows) \subseteq M
         /\ \A i, j \in DOMAIN rows : i < j => Earlier(Place(rows[i]), Place(rows[j]))
         /\ next \in {NoMore} \union Spots(list)
         /\ next # NoMore => \E r \in M : next = Place(r)
         /\ \A i \in DOMAIN rows : Past(list, rank, next, rows[i])
         /\ \A r \in M : Past(list, rank, next, r) => r \in Range(rows)
<1> DEFINE p == CHOOSE p \in Pages : IsPage(p, M)
           next == NextCursor(p, M)
<1>1. p \in Pages /\ IsPage(p, M) BY PageExists
<1>2. Page(M) = [rows |-> p, next |-> next] BY DEF Page
<1> HIDE DEF p
<1>3. PICK n \in 0 .. Limit + 1 : p \in [1 .. n -> Ids] BY <1>1 DEF Pages
<1>4. n \in Nat /\ p \in Seq(Ids) /\ Len(p) = n /\ DOMAIN p = 1 .. n BY <1>3, IsSeq, Constants
<1>5. n <= Limit /\ Range(p) \subseteq M /\ Sorted(p) BY <1>1, <1>4 DEF IsPage
<1>6. \A r \in M \ Range(p) : n = Limit /\ Earlier(Place(p[Limit]), Place(r))
  BY <1>1, <1>4 DEF IsPage
<1>7. \A i \in 1 .. n : p[i] \in M /\ p[i] \in Ids /\ Place(p[i]) \in Nat \X Nat
  BY <1>3, <1>4, <1>5, PlaceIs DEF Range
<1>8. CASE M = Range(p)
  <2>1. next = NoMore BY <1>8 DEF NextCursor
  <2> HIDE DEF next
  <2>2. \A i \in DOMAIN p : Past(list, rank, next, p[i]) BY <2>1, SameOrder
  <2> QED BY <2>1, <2>2, <1>2, <1>4, <1>5, <1>8 DEF Sorted
<1>9. CASE M # Range(p)
  <2>1. next = Place(p[Limit]) BY <1>9 DEF NextCursor
  <2>0. M \ Range(p) # {} BY <1>5, <1>9
  <2>2. n = Limit /\ Limit \in 1 .. n BY <2>0, <1>6, Constants
  <2>3. next \in Spots(list) /\ next # NoMore /\ p[Limit] \in M BY <2>1, <2>2, <1>7, PlaceIs
  <2> HIDE DEF next
  <2>4. \A i \in DOMAIN p : Past(list, rank, next, p[i])
    <3> SUFFICES ASSUME NEW i \in 1 .. n PROVE ~Earlier(Place(p[Limit]), Place(p[i]))
      BY <1>4, <2>1, SameOrder
    <3>1. i = Limit \/ i < Limit BY <2>2, Constants
    <3>2. i < Limit => Earlier(Place(p[i]), Place(p[Limit])) BY <2>2, <1>4, <1>5 DEF Sorted
    <3> QED BY <3>1, <3>2, <2>2, <1>7, EarlierOrder
  <2>5. \A r \in M : Past(list, rank, next, r) => r \in Range(p)
    BY <2>1, <2>3, <1>6, SameOrder
  <2> QED BY <2>1, <2>3, <2>4, <2>5, <1>2, <1>4, <1>5 DEF Sorted
<1> QED BY <1>8, <1>9

-----------------------------------------------------------------------------
(* What the parts of the invariant rest on.                                 *)

LEMMA Order ==
  /\ \A x, y, z \in Nat \X Nat :
       /\ ~Ahead(list, x, x)
       /\ Ahead(list, x, y) /\ Ahead(list, y, z) => Ahead(list, x, z)
       /\ ~Ahead(list, y, x) /\ Ahead(list, y, z) => Ahead(list, x, z)
  /\ rank \in [Ids -> Ranks] =>
       /\ \A r \in Ids : Pos(list, rank, r) \in Nat \X Nat /\ Pos(list, rank, r) \in Spots(list)
       /\ \A r \in Ids : Ahead(list, First(list), Pos(list, rank, r))
       /\ First(list) \in Nat \X Nat /\ First(list) # NoMore /\ First(list) \notin Spots(list)
       /\ Spots(list) \subseteq Nat \X Nat /\ NoMore \notin Spots(list)
BY EarlierOrder, PlaceIs, SameOrder

LEMMA CursorsAre ==
  ASSUME TypeOK, CursorsSound
  PROVE  /\ cursor # NoMore => cursor \in Nat \X Nat
         /\ load.next # NoMore => load.next \in Nat \X Nat
BY Order DEF TypeOK, CursorsSound

LEMMA CursorsFit == {NoMore, First(list)} \union Spots(list) \subseteq Cursors
<1>1. First(list) \in Cursors BY DEF First, Cursors
<1>2. Spots(list) \subseteq Cursors BY DEF Spots, Cursors
<1> QED BY <1>1, <1>2 DEF Cursors

(* Nothing is lost when more rows are excepted, fewer are still in place,   *)
(* and those that are keep their ranks.                                     *)
LEMMA Undisturbed ==
  ASSUME TypeOK,
         NEW out, NEW out2, out \subseteq out2,
         NEW st, NEW st2, st2 \subseteq st, st2 \subseteq Ids,
         NEW k2,
         \A r \in Ids : (r \in Range(shown) \union Range(load.rows) /\ r \notin out2) \/ r \in st2
                         => k2[r] = rank[r],
         ShownOK(shown, cursor, out, list, rank),
         LoadOK(load, cursor, out, st, list, rank),
         StayedOK(shown, cursor, st, list, rank)
  PROVE  /\ ShownOK(shown, cursor, out2, list, k2)
         /\ LoadOK(load, cursor, out2, st2, list, k2)
         /\ StayedOK(shown, cursor, st2, list, k2)
<1> DEFINE Kept(r) == (r \in Range(shown) \union Range(load.rows) /\ r \notin out2) \/ r \in st2
<1>1. \A r \in Ids : Kept(r) => Pos(list, k2, r) = Pos(list, rank, r)
  BY DEF Pos
<1>2. \A r \in Ids : Kept(r) => \A c : Past(list, k2, c, r) <=> Past(list, rank, c, r)
  BY <1>1 DEF Past
<1>3. shown \in Seq(Ids) /\ load.rows \in Seq(Ids) BY DEF TypeOK
<1>4. /\ \A i \in DOMAIN shown : shown[i] \in Ids /\ (shown[i] \notin out2 => Kept(shown[i]))
      /\ \A i \in DOMAIN load.rows :
           load.rows[i] \in Ids /\ (load.rows[i] \notin out2 => Kept(load.rows[i]))
      /\ \A r \in st2 : r \in Ids /\ Kept(r)
  BY <1>3 DEF Range
<1> HIDE DEF Kept
<1>5. ASSUME NEW s, \A i \in DOMAIN s : s[i] \in Ids /\ (s[i] \notin out2 => Kept(s[i])),
             Ordered(s, out, list, rank)
      PROVE  Ordered(s, out2, list, k2)
  <2> SUFFICES ASSUME NEW i \in DOMAIN s, NEW j \in DOMAIN s, i < j,
                      s[i] \notin out2, s[j] \notin out2
               PROVE  Ahead(list, Pos(list, k2, s[i]), Pos(list, k2, s[j]))
    BY DEF Ordered
  <2>1. Ahead(list, Pos(list, rank, s[i]), Pos(list, rank, s[j])) BY <1>5 DEF Ordered
  <2> QED BY <2>1, <1>1, <1>5
<1>6. ShownOK(shown, cursor, out2, list, k2)
  <2>1. Ordered(shown, out2, list, k2) BY <1>4, <1>5 DEF ShownOK
  <2>2. \A i \in DOMAIN shown : shown[i] \notin out2 => Past(list, k2, cursor, shown[i])
    BY <1>2, <1>4 DEF ShownOK
  <2> QED BY <2>1, <2>2 DEF ShownOK
<1>7. LoadOK(load, cursor, out2, st2, list, k2)
  <2> SUFFICES ASSUME load.state # "idle"
               PROVE  /\ cursor # NoMore
                      /\ load.next # NoMore => Ahead(list, cursor, load.next)
                      /\ Ordered(load.rows, out2, list, k2)
                      /\ \A i \in DOMAIN load.rows : load.rows[i] \notin out2 =>
                           /\ Ahead(list, cursor, Pos(list, k2, load.rows[i]))
                           /\ Past(list, k2, load.next, load.rows[i])
                      /\ \A r \in st2 :
                           Ahead(list, cursor, Pos(list, k2, r)) /\ Past(list, k2, load.next, r)
                             => r \in Range(load.rows)
    BY DEF LoadOK
  <2>1. cursor # NoMore /\ (load.next # NoMore => Ahead(list, cursor, load.next))
    BY DEF LoadOK
  <2>2. Ordered(load.rows, out2, list, k2) BY <1>4, <1>5 DEF LoadOK
  <2>3. ASSUME NEW i \in DOMAIN load.rows, load.rows[i] \notin out2
        PROVE  /\ Ahead(list, cursor, Pos(list, k2, load.rows[i]))
               /\ Past(list, k2, load.next, load.rows[i])
    <3>1. load.rows[i] \in Ids /\ load.rows[i] \notin out BY <1>4, <2>3
    <3>2. /\ Ahead(list, cursor, Pos(list, rank, load.rows[i]))
          /\ Past(list, rank, load.next, load.rows[i])
      BY <3>1 DEF LoadOK
    <3> QED BY <3>1, <3>2, <2>3, <1>1, <1>2, <1>4
  <2>4. ASSUME NEW r \in st2, Ahead(list, cursor, Pos(list, k2, r)),
               Past(list, k2, load.next, r)
        PROVE  r \in Range(load.rows)
    <3>1. Ahead(list, cursor, Pos(list, rank, r)) /\ Past(list, rank, load.next, r)
      BY <2>4, <1>1, <1>2, <1>4
    <3> QED BY <3>1 DEF LoadOK
  <2> QED BY <2>1, <2>2, <2>3, <2>4
<1>8. StayedOK(shown, cursor, st2, list, k2) BY <1>2, <1>4 DEF StayedOK
<1> QED BY <1>6, <1>7, <1>8

-----------------------------------------------------------------------------
(* The queries ask for what is beyond the cursor, and for all of it.        *)

Beyond(c) == {r \in Ids : Earlier(c, Place(r))}

LEMMA QueriesAre ==
  ASSUME rank \in [Ids -> Ranks], NEW c \in {Start} \union Spots(list)
  PROVE  /\ \A r \in Ids : list \in Ascending => (After(c, r) <=> r \in Beyond(c))
         /\ \A r \in Ids : list \in ByRank => (BeforeByRank(c, r) <=> r \in Beyond(c))
         /\ \A r \in Ids : list \notin Ascending \union ByRank =>
                             (Before(c, r) <=> r \in Beyond(c))
<1> SUFFICES ASSUME NEW r \in Ids
             PROVE  /\ list \in Ascending => (After(c, r) <=> Earlier(c, Place(r)))
                    /\ list \in ByRank => (BeforeByRank(c, r) <=> Earlier(c, Place(r)))
                    /\ list \notin Ascending \union ByRank =>
                         (Before(c, r) <=> Earlier(c, Place(r)))
  BY DEF Beyond
<1>1. /\ r \in Nat /\ r < Top /\ rank[r] \in Nat /\ rank[r] < Top /\ Top \in Nat
  BY Constants
<1>2. c[1] \in Nat /\ c[2] \in Nat BY PlaceIs
<1>3. CASE list \in Ascending
  <2>1. list \notin ByRank BY <1>3 DEF Ascending, ByRank
  <2> QED BY <2>1, <1>1, <1>2, <1>3 DEF After, Earlier, Place
<1>4. CASE list \in ByRank
  <2>1. list \notin Ascending BY <1>4 DEF Ascending, ByRank
  <2> QED BY <2>1, <1>1, <1>2, <1>4 DEF BeforeByRank, Earlier, Place
<1>5. CASE list \notin Ascending \union ByRank
  <2>1. c[1] = 0 \/ c = Start
    BY <1>5 DEF Spots
  <2>2. Earlier(c, Place(r)) <=> c[1] > 0 \/ (c[1] = 0 /\ c[2] > r)
    BY <1>5 DEF Earlier, Place
  <2>3. c = Start => c[1] = Top /\ c[2] = Top BY <1>5 DEF Start
  <2>4. Before(c, r) <=> r < c[2] BY DEF Before
  <2>5. c[1] > 0 \/ (c[1] = 0 /\ c[2] > r) <=> r < c[2]
    <3>1. CASE c = Start BY <3>1, <2>3, <1>1
    <3>2. CASE c[1] = 0 BY <3>2, <1>1, <1>2
    <3> QED BY <2>1, <3>1, <3>2
  <2> QED BY <2>2, <2>4, <2>5, <1>5
<1> QED BY <1>3, <1>4, <1>5

-----------------------------------------------------------------------------
(* The steps of the others.                                                 *)

(* A row changes its state and stays in the list or leaves stayed.          *)
LEMMA RowChanges ==
  ASSUME IInv, NEW r \in Ids, NEW k \in Ranks,
         NEW state \in {"unborn", "inserted", "listed", "hidden", "deleted"},
         row' = [row EXCEPT ![r] = state], SetRank(r, k),
         r \notin stayed' \/ (state = "listed" /\ k = rank[r]),
         stayed' \subseteq stayed,
         UNCHANGED <<list, shown, cursor, load, added>>,
         sent' \in Ids \union {NoComment}, cursor = First(list) => sent' = NoComment
  PROVE  IInv'
<1> DEFINE out == moved \union added
           out2 == moved' \union added
           onScreen == Range(shown) \union Range(load.rows)
<1>0. /\ row \in [Ids -> {"unborn", "inserted", "listed", "hidden", "deleted"}]
      /\ rank \in [Ids -> Ranks] /\ stayed \subseteq Ids /\ moved \subseteq Ids /\ TypeOK
  BY DEF IInv, TypeOK
<1>1. /\ rank' \in [Ids -> Ranks] /\ rank'[r] = k
      /\ \A q \in Ids : q # r => rank'[q] = rank[q]
      /\ moved \subseteq moved' /\ moved' \subseteq Ids
      /\ k # rank[r] /\ r \in onScreen => r \in moved'
  BY <1>0 DEF SetRank
<1>2. TypeOK'
  <2>1. row' \in [Ids -> {"unborn", "inserted", "listed", "hidden", "deleted"}] BY <1>0
  <2> QED BY <2>1, <1>0, <1>1 DEF TypeOK, Cursors
<1>3. CursorsSound' BY DEF IInv, CursorsSound
<1>4. /\ ShownOK(shown, cursor, out2, list, rank')
      /\ LoadOK(load, cursor, out2, stayed', list, rank')
      /\ StayedOK(shown, cursor, stayed', list, rank')
  <2>1. out \subseteq out2 /\ stayed' \subseteq Ids BY <1>0, <1>1
  <2>2. \A q \in Ids : (q \in onScreen /\ q \notin out2) \/ q \in stayed' => rank'[q] = rank[q]
    BY <1>1
  <2>3. /\ ShownOK(shown, cursor, out, list, rank)
        /\ LoadOK(load, cursor, out, stayed, list, rank)
        /\ StayedOK(shown, cursor, stayed, list, rank)
    BY DEF IInv
  <2> HIDE DEF out, out2
  <2> QED BY <2>1, <2>2, <2>3, <1>0, Undisturbed DEF onScreen
<1>5. /\ ShownOK(shown, cursor, moved \union added, list, rank)'
      /\ LoadOK(load, cursor, moved \union added, stayed, list, rank)'
      /\ StayedOK(shown, cursor, stayed, list, rank)'
  BY <1>4
<1>6. \A q \in stayed' : row'[q] = "listed" BY <1>0 DEF IInv
<1> QED BY <1>2, <1>3, <1>5, <1>6 DEF IInv

(* Nothing happens to a rank.                                               *)
LEMMA RanksRemain ==
  ASSUME IInv, NEW r \in Ids, UNCHANGED <<rank, moved>>
  PROVE  rank[r] \in Ranks /\ SetRank(r, rank[r])
BY DEF IInv, TypeOK, SetRank

LEMMA OthersKeep == ASSUME IInv, Others PROVE IInv'
<1>0. /\ sent \in Ids \union {NoComment} /\ (cursor = First(list) => sent = NoComment)
      /\ \A r \in stayed : row[r] = "listed"
  BY DEF IInv, TypeOK, CursorsSound
<1>1. ASSUME NEW r \in Ids, Insert(r) PROVE IInv'
  <2>1. row' = [row EXCEPT ![r] = "inserted"] /\ r \notin stayed BY <1>0, <1>1 DEF Insert
  <2>2. PICK k \in Ranks : SetRank(r, k) BY <1>1 DEF Insert, Days, IInv, TypeOK
  <2> QED BY <2>1, <2>2, <1>0, <1>1, RowChanges DEF Insert, screen
<1>2. ASSUME NEW r \in Ids, CommitInsert(r) PROVE IInv'
  <2>1. r \notin stayed BY <1>0, <1>2 DEF CommitInsert
  <2>2. PICK state \in {"listed", "hidden", "deleted"} : row' = [row EXCEPT ![r] = state]
    BY <1>2 DEF CommitInsert
  <2>3. UNCHANGED <<list, rank, shown, cursor, load, sent, stayed, moved, added>>
    BY <1>2 DEF CommitInsert, screen, history
  <2> QED BY <2>1, <2>2, <2>3, <1>0, RanksRemain, RowChanges
<1>3. ASSUME NEW r \in Ids, Show(r) PROVE IInv'
  <2>1. row' = [row EXCEPT ![r] = "listed"] /\ r \notin stayed BY <1>0, <1>3 DEF Show
  <2>2. PICK k \in Ranks : SetRank(r, k) BY <1>3 DEF Show, Days, IInv, TypeOK
  <2> QED BY <2>1, <2>2, <1>0, <1>3, RowChanges DEF Show, screen
<1>4. ASSUME NEW r \in Ids, Hide(r) PROVE IInv'
  BY <1>0, <1>4, RanksRemain, RowChanges DEF Hide, screen
<1>5. ASSUME NEW r \in Ids, Delete(r) PROVE IInv'
  BY <1>0, <1>5, RanksRemain, RowChanges DEF Delete, screen
<1>6. ASSUME NEW r \in Ids, NEW k \in Ranks, Move(r, k) PROVE IInv'
  <2>1. row[r] \in {"unborn", "inserted", "listed", "hidden", "deleted"}
        /\ row' = [row EXCEPT ![r] = row[r]]
    BY <1>6 DEF Move, IInv, TypeOK
  <2>2. /\ SetRank(r, k) /\ stayed' = stayed \ {r}
        /\ UNCHANGED <<list, shown, cursor, load, sent, added>>
    BY <1>6 DEF Move, screen
  <2> QED BY <2>1, <2>2, <1>0, RowChanges
<1> QED BY <1>1, <1>2, <1>3, <1>4, <1>5, <1>6 DEF Others

-----------------------------------------------------------------------------
(* The handlers.                                                            *)

LEMMA AnswersKeep ==
  ASSUME IInv, NEW M, M \subseteq Beyond(cursor), Listed \intersect Beyond(cursor) \subseteq M,
         NEW state \in {"found", "answered"}, Answers(Page(M), state)
  PROVE  IInv'
<1> DEFINE rows == Page(M).rows
           next == Page(M).next
<1>1. /\ load.state = "idle" /\ cursor # NoMore
      /\ load' = [state |-> state, rows |-> rows, next |-> next]
      /\ UNCHANGED <<list, row, rank, shown, cursor, sent, added>>
      /\ stayed' = (IF cursor # First(list) THEN stayed ELSE Listed)
      /\ moved' = (IF cursor # First(list) THEN moved ELSE {})
  BY SameOrder DEF Answers, Ready, table
<1>2. M \subseteq Ids /\ rank \in [Ids -> Ranks] BY DEF Beyond, IInv, TypeOK
<1>3. /\ rows \in Seq(Ids) /\ Len(rows) <= Limit /\ Range(rows) \subseteq M
      /\ \A i, j \in DOMAIN rows : i < j => Earlier(Place(rows[i]), Place(rows[j]))
      /\ next \in {NoMore} \union Spots(list)
      /\ next # NoMore => \E r \in M : next = Place(r)
      /\ \A i \in DOMAIN rows : Past(list, rank, next, rows[i])
      /\ \A r \in M : Past(list, rank, next, r) => r \in Range(rows)
  BY <1>2, PageIs
<1> HIDE DEF rows, next
<1>4. \A r \in M : Ahead(list, cursor, Pos(list, rank, r)) BY SameOrder DEF Beyond
<1>5. /\ stayed' \subseteq Ids /\ moved' \subseteq Ids
      /\ \A r \in stayed' : row[r] = "listed" /\ r \in Listed
  <2>1. Listed \subseteq Ids /\ \A r \in Listed : row[r] = "listed" BY DEF Listed, There
  <2>2. \A r \in stayed : r \in Listed BY DEF IInv, TypeOK, Listed, There
  <2> QED BY <2>1, <2>2, <1>1 DEF IInv, TypeOK
<1>6. TypeOK'
  <2>1. next \in Cursors BY <1>3, CursorsFit
  <2>2. load' \in [state : {"idle", "found", "answered"}, rows : Seq(Ids), next : Cursors]
    BY <2>1, <1>1, <1>3
  <2>3. Len(load'.rows) <= Limit BY <1>1, <1>3
  <2> QED BY <2>2, <2>3, <1>1, <1>5 DEF IInv, TypeOK, Cursors
<1>7. CursorsSound' BY <1>1, <1>3 DEF IInv, CursorsSound
<1>8. ShownOK(shown, cursor, moved' \union added, list, rank)
  <2>1. CASE cursor # First(list) BY <2>1, <1>1 DEF IInv
  <2>2. CASE cursor = First(list)
    <3>1. shown = <<>> BY <2>2 DEF IInv, CursorsSound
    <3>2. DOMAIN shown = {} BY <3>1
    <3> QED BY <3>2 DEF ShownOK, Ordered
  <2> QED BY <2>1, <2>2
<1>9. LoadOK(load', cursor, moved' \union added, stayed', list, rank)
  <2>1. load'.rows = rows /\ load'.next = next BY <1>1
  <2>2. next # NoMore => Ahead(list, cursor, next) BY <1>3, <1>4, SameOrder
  <2>3. Ordered(rows, moved' \union added, list, rank) BY <1>3, SameOrder DEF Ordered
  <2>4. \A i \in DOMAIN rows : Ahead(list, cursor, Pos(list, rank, rows[i]))
    BY <1>3, <1>4 DEF Range
  <2>5. \A r \in stayed' : Ahead(list, cursor, Pos(list, rank, r)) => r \in M
    BY <1>5, SameOrder DEF Beyond, Listed, There
  <2> QED BY <2>1, <2>2, <2>3, <2>4, <2>5, <1>1, <1>3 DEF LoadOK
<1>10. StayedOK(shown, cursor, stayed', list, rank)
  BY <1>1 DEF StayedOK, IInv
<1> QED BY <1>1, <1>5, <1>6, <1>7, <1>8, <1>9, <1>10 DEF IInv

LEMMA HandlersKeep == ASSUME IInv, Handlers PROVE IInv'
<1>1. /\ rank \in [Ids -> Ranks] /\ There \subseteq Ids /\ Listed \subseteq There
      /\ list \in Kinds
  BY ListAssumption DEF IInv, TypeOK, There, Listed
<1>2. ASSUME cursor # NoMore
      PROVE  /\ \A r \in Ids : list \in Ascending => (After(cursor, r) <=> r \in Beyond(cursor))
             /\ \A r \in Ids : list \in ByRank =>
                                 (BeforeByRank(cursor, r) <=> r \in Beyond(cursor))
             /\ \A r \in Ids : list \notin Ascending \union ByRank =>
                                 (Before(cursor, r) <=> r \in Beyond(cursor))
  <2>1. cursor \in {Start} \union Spots(list)
    BY <1>2, SameOrder DEF IInv, CursorsSound
  <2> QED BY <2>1, <1>1, QueriesAre
<1> DEFINE Fit(M) == M \subseteq Beyond(cursor) /\ Listed \intersect Beyond(cursor) \subseteq M
<1>3. Beyond(cursor) \subseteq Ids BY DEF Beyond
<1>4. ASSUME NEW M, Fit(M), NEW state \in {"found", "answered"}, Answers(Page(M), state)
      PROVE  IInv'
  BY <1>4, AnswersKeep
<1>5. ASSUME cursor # NoMore
      PROVE  /\ list = "feed" => Fit(ListPostsBefore(cursor))
             /\ list = "userPosts" => Fit(ListPostsByUserBefore(cursor))
             /\ list = "followingFeed" => Fit(ListFollowingFeedBefore(cursor))
             /\ list = "journeys" => Fit(ListTravelsByUserBefore(cursor))
             /\ list = "comments" => Fit(ListCommentsAfter(cursor))
             /\ list = "notifications" => Fit(ListNotificationsBefore(cursor))
             /\ list = "followers" => Fit(ListFollowersAfter(cursor))
             /\ list = "following" => Fit(ListFollowingAfter(cursor))
             /\ list = "userSearch" => Fit(UserHits(cursor))
             /\ list \in {"popular", "latest"} => Fit(PostHits(cursor))
  <2> HIDE DEF Fit
  <2>1. /\ list \in {"comments", "followers", "following", "userSearch"} =>
             Fit({r \in Listed : After(cursor, r)})
        /\ list \in {"popular", "journeys"} => Fit({r \in Listed : BeforeByRank(cursor, r)})
        /\ list \in {"userPosts", "followingFeed", "notifications", "latest"} =>
             Fit({r \in Listed : Before(cursor, r)})
        /\ list = "feed" => Fit({r \in There : Before(cursor, r)})
    BY <1>1, <1>2, <1>5 DEF Fit, Ascending, ByRank
  <2>2. list = "popular" => PostHits(cursor) = {r \in Listed : BeforeByRank(cursor, r)}
    BY DEF PostHits
  <2>3. list = "latest" => PostHits(cursor) = {r \in Listed : Before(cursor, r)}
    BY DEF PostHits
  <2> QED BY <2>1, <2>2, <2>3
       DEF ListPostsBefore, ListPostsByUserBefore, ListFollowingFeedBefore,
           ListTravelsByUserBefore, ListCommentsAfter, ListNotificationsBefore,
           ListFollowersAfter, ListFollowingAfter, UserHits
<1>6. ASSUME NEW page, NEW state, Answers(page, state) PROVE cursor # NoMore
  BY <1>6 DEF Answers
<1> HIDE DEF Fit
<1>7. CASE ListPosts BY <1>7, <1>4, <1>5, <1>6 DEF ListPosts, FeedPage
<1>8. CASE ListUserPosts BY <1>8, <1>4, <1>5, <1>6 DEF ListUserPosts, UserPostsPage
<1>9. CASE ListFollowingFeed
  BY <1>9, <1>4, <1>5, <1>6 DEF ListFollowingFeed, FollowingFeedPage
<1>10. CASE ListUserTravels BY <1>10, <1>4, <1>5, <1>6 DEF ListUserTravels, TravelsPage
<1>11. CASE ListComments BY <1>11, <1>4, <1>5, <1>6 DEF ListComments, CommentsPage
<1>12. CASE ListNotifications
  BY <1>12, <1>4, <1>5, <1>6 DEF ListNotifications, NotificationsPage
<1>13. CASE ListFollowers BY <1>13, <1>4, <1>5, <1>6 DEF ListFollowers, FollowersPage
<1>14. CASE ListFollowing BY <1>14, <1>4, <1>5, <1>6 DEF ListFollowing, FollowingPage
<1>15. CASE SearchUsers BY <1>15, <1>4, <1>5, <1>6 DEF SearchUsers, UsersFound
<1>16. CASE SearchPosts BY <1>16, <1>4, <1>5, <1>6 DEF SearchPosts, PostsFound
<1>17. CASE ReadFound
  <2> DEFINE rows == Only(load.rows, There)
  <2>1. /\ load.state # "idle" /\ load'.rows = rows /\ load'.next = load.next
        /\ load' \in [state : {"answered"}, rows : {rows}, next : {load.next}]
        /\ UNCHANGED <<list, row, rank, shown, cursor, sent, stayed, moved, added>>
    BY <1>17 DEF ReadFound, ListPostsByIDs, table, history, IInv, TypeOK
  <2>2. load.rows \in Seq(Ids) /\ Len(load.rows) \in Nat /\ Len(load.rows) <= Limit
    BY DEF IInv, TypeOK
  <2>3. /\ rows \in Seq(Ids) /\ Len(rows) <= Len(load.rows)
        /\ Range(rows) = Range(load.rows) \intersect There
        /\ \A a, b \in DOMAIN rows : a < b =>
             \E i, j \in DOMAIN load.rows :
               i < j /\ load.rows[i] = rows[a] /\ load.rows[j] = rows[b]
    BY <2>2, OnlyIs
  <2> HIDE DEF rows
  <2>4. TypeOK'
    <3>1. Len(rows) <= Limit /\ rows \in Seq(Ids)
      <4>1. Len(rows) \in Nat BY <2>3
      <4> QED BY <4>1, <2>2, <2>3, Constants
    <3>2. load' \in [state : {"idle", "found", "answered"}, rows : Seq(Ids), next : Cursors]
      BY <3>1, <2>1 DEF IInv, TypeOK
    <3> QED BY <3>1, <3>2, <2>1 DEF IInv, TypeOK, Cursors
  <2>5. CursorsSound' BY <2>1 DEF IInv, CursorsSound
  <2>6. LoadOK(load', cursor, moved \union added, stayed, list, rank)
    <3>1. LoadOK(load, cursor, moved \union added, stayed, list, rank) BY DEF IInv
    <3>2. Ordered(rows, moved \union added, list, rank)
      BY <3>1, <2>1, <2>3 DEF LoadOK, Ordered
    <3>3. \A a \in DOMAIN rows : \E i \in DOMAIN load.rows : load.rows[i] = rows[a]
      BY <2>3 DEF Range
    <3>4. stayed \subseteq There BY DEF IInv, TypeOK, There
    <3> QED BY <3>1, <3>2, <3>3, <3>4, <2>1, <2>3 DEF LoadOK
  <2> QED BY <2>1, <2>4, <2>5, <2>6 DEF IInv
<1> QED BY <1>7, <1>8, <1>9, <1>10, <1>11, <1>12, <1>13, <1>14, <1>15, <1>16, <1>17
     DEF Handlers

-----------------------------------------------------------------------------
(* The steps of the reader.                                                 *)

(* The rows that come continue those that are there.                        *)
LEMMA ReceiveKeeps == ASSUME IInv, Receive PROVE IInv'
<1> DEFINE s == shown
           p == load.rows
           t == s \o p
           out == moved \union added
<1>1. /\ load.state = "answered" /\ shown' = t /\ cursor' = load.next /\ load' = Idle
      /\ UNCHANGED <<list, row, rank, sent, stayed, moved, added>>
  BY DEF Receive, table, history
<1>2. /\ s \in Seq(Ids) /\ p \in Seq(Ids) /\ Len(s) \in Nat /\ Len(p) \in Nat
      /\ rank \in [Ids -> Ranks]
      /\ DOMAIN s = 1 .. Len(s) /\ DOMAIN p = 1 .. Len(p)
  BY DEF IInv, TypeOK
<1>3. /\ t \in Seq(Ids) /\ DOMAIN t = 1 .. Len(s) + Len(p)
      /\ \A i \in 1 .. Len(s) : t[i] = s[i]
      /\ \A i \in 1 .. Len(s) + Len(p) : i \notin 1 .. Len(s) =>
           i - Len(s) \in 1 .. Len(p) /\ t[i] = p[i - Len(s)]
      /\ \A i \in 1 .. Len(p) : i + Len(s) \in 1 .. Len(s) + Len(p) /\ t[i + Len(s)] = p[i]
  BY <1>2
<1>4. /\ \A i \in 1 .. Len(s) : s[i] \in Ids
      /\ \A i \in 1 .. Len(p) : p[i] \in Ids
  BY <1>2
<1> HIDE DEF t
<1>5. Range(s) \subseteq Range(t) /\ Range(p) \subseteq Range(t)
  <2>1. \A i \in 1 .. Len(s) : i \in DOMAIN t /\ t[i] = s[i] BY <1>2, <1>3
  <2>2. \A i \in 1 .. Len(p) : i + Len(s) \in DOMAIN t /\ t[i + Len(s)] = p[i]
    BY <1>3
  <2> HIDE DEF s, p
  <2>3. Range(s) \subseteq Range(t) BY <2>1, <1>2 DEF Range
  <2>4. Range(p) \subseteq Range(t) BY <2>2, <1>2 DEF Range
  <2> QED BY <2>3, <2>4
<1>6. /\ cursor # NoMore
      /\ load.next # NoMore => Ahead(list, cursor, load.next)
      /\ Ordered(p, out, list, rank)
      /\ \A i \in 1 .. Len(p) : p[i] \notin out =>
           Ahead(list, cursor, Pos(list, rank, p[i])) /\ Past(list, rank, load.next, p[i])
      /\ \A r \in stayed :
           Ahead(list, cursor, Pos(list, rank, r)) /\ Past(list, rank, load.next, r)
             => r \in Range(p)
  BY <1>1, <1>2 DEF IInv, LoadOK
<1>7. /\ cursor \in Nat \X Nat
      /\ load.next # NoMore => load.next \in Nat \X Nat
      /\ \A r \in Ids : Pos(list, rank, r) \in Nat \X Nat
  BY <1>2, <1>6, CursorsAre, Order DEF IInv
<1>8. /\ Ordered(s, out, list, rank)
      /\ \A i \in 1 .. Len(s) : s[i] \notin out => ~Ahead(list, cursor, Pos(list, rank, s[i]))
  BY <1>2, <1>6 DEF IInv, ShownOK, Past
<1> HIDE DEF s, p, out
<1>9. Ordered(t, out, list, rank)
  <2> SUFFICES ASSUME NEW i \in DOMAIN t, NEW j \in DOMAIN t, i < j,
                      t[i] \notin out, t[j] \notin out
               PROVE  Ahead(list, Pos(list, rank, t[i]), Pos(list, rank, t[j]))
    BY DEF Ordered
  <2>1. i \in 1 .. Len(s) + Len(p) /\ j \in 1 .. Len(s) + Len(p) BY <1>3
  <2>2. CASE j \in 1 .. Len(s)
    <3>1. i \in 1 .. Len(s) BY <2>1, <2>2, <1>2
    <3>2. t[i] = s[i] /\ t[j] = s[j] BY <3>1, <2>2, <1>3
    <3> QED BY <3>1, <3>2, <2>2, <1>2, <1>8 DEF Ordered
  <2>3. CASE i \in 1 .. Len(s) /\ j \notin 1 .. Len(s)
    <3>1. t[i] = s[i] /\ t[j] = p[j - Len(s)] /\ j - Len(s) \in 1 .. Len(p)
      BY <2>1, <2>3, <1>3
    <3>2. ~Ahead(list, cursor, Pos(list, rank, t[i])) BY <3>1, <2>3, <1>8
    <3>3. Ahead(list, cursor, Pos(list, rank, t[j])) BY <3>1, <1>6
    <3>4. t[i] \in Ids /\ t[j] \in Ids BY <3>1, <2>3, <1>4
    <3> QED BY <3>2, <3>3, <3>4, <1>7, Order
  <2>4. CASE i \notin 1 .. Len(s)
    <3>0. j \notin 1 .. Len(s) BY <2>1, <2>4, <1>2
    <3>1. /\ t[i] = p[i - Len(s)] /\ i - Len(s) \in 1 .. Len(p)
          /\ t[j] = p[j - Len(s)] /\ j - Len(s) \in 1 .. Len(p)
      BY <2>1, <2>4, <3>0, <1>3
    <3>2. i - Len(s) < j - Len(s) BY <2>1, <1>2
    <3> QED BY <3>1, <3>2, <1>2, <1>6 DEF Ordered
  <2> QED BY <2>2, <2>3, <2>4
<1>10. \A i \in DOMAIN t : t[i] \notin out => Past(list, rank, load.next, t[i])
  <2> SUFFICES ASSUME NEW i \in 1 .. Len(s) + Len(p), t[i] \notin out
               PROVE  Past(list, rank, load.next, t[i])
    BY <1>3
  <2>1. CASE i \in 1 .. Len(s)
    <3>1. t[i] = s[i] /\ t[i] \in Ids /\ ~Ahead(list, cursor, Pos(list, rank, t[i]))
      BY <2>1, <1>3, <1>4, <1>8
    <3>2. load.next # NoMore => ~Ahead(list, load.next, Pos(list, rank, t[i]))
      BY <3>1, <1>6, <1>7, Order
    <3> QED BY <3>2 DEF Past
  <2>2. CASE i \notin 1 .. Len(s)
    BY <2>2, <1>3, <1>6
  <2> QED BY <2>1, <2>2
<1>11. ShownOK(t, load.next, out, list, rank) BY <1>9, <1>10 DEF ShownOK
<1>12. StayedOK(t, load.next, stayed, list, rank)
  <2> SUFFICES ASSUME NEW r \in stayed, Past(list, rank, load.next, r)
               PROVE  r \in Range(t)
    BY DEF StayedOK
  <2>1. CASE Ahead(list, cursor, Pos(list, rank, r)) BY <2>1, <1>5, <1>6
  <2>2. CASE ~Ahead(list, cursor, Pos(list, rank, r))
    <3>1. r \in Ids BY DEF IInv, TypeOK
    <3>2. cursor # First(list) /\ Past(list, rank, cursor, r)
      BY <3>1, <2>2, <1>2, Order DEF Past
    <3>3. r \in Range(s) BY <3>2 DEF s, IInv, StayedOK
    <3> QED BY <3>3, <1>5
  <2> QED BY <2>1, <2>2
<1>13. TypeOK'
  <2>1. load.next \in Cursors /\ NoMore \in Cursors BY DEF IInv, TypeOK, Cursors
  <2>2. <<>> \in Seq(Ids) /\ Len(<<>>) = 0 OBVIOUS
  <2>3. /\ load' \in [state : {"idle", "found", "answered"}, rows : Seq(Ids), next : Cursors]
        /\ Len(load'.rows) <= Limit
    BY <2>1, <2>2, <1>1, Constants DEF Idle
  <2> QED BY <2>1, <2>3, <1>1, <1>3 DEF IInv, TypeOK, Cursors
<1>14. CursorsSound'
  <2>1. First(list) # load.next BY <1>2, Order DEF IInv, CursorsSound
  <2> QED BY <2>1, <1>1 DEF IInv, CursorsSound, Idle
<1>15. LoadOK(load, cursor, moved \union added, stayed, list, rank)' BY <1>1 DEF LoadOK, Idle
<1> QED BY <1>1, <1>11, <1>12, <1>13, <1>14, <1>15 DEF out, IInv

LEMMA LoadFailsKeeps == ASSUME IInv, LoadFails PROVE IInv'
<1>1. load' = Idle /\ UNCHANGED <<list, row, rank, shown, cursor, sent, stayed, moved, added>>
  BY DEF LoadFails, table, history
<1>2. TypeOK'
  <2>1. NoMore \in Cursors /\ <<>> \in Seq(Ids) /\ Len(<<>>) = 0 BY DEF Cursors
  <2>2. /\ load' \in [state : {"idle", "found", "answered"}, rows : Seq(Ids), next : Cursors]
        /\ Len(load'.rows) <= Limit
    BY <2>1, <1>1, Constants DEF Idle
  <2> QED BY <2>2, <1>1 DEF IInv, TypeOK, Cursors
<1>3. CursorsSound' BY <1>1 DEF IInv, CursorsSound, Idle
<1>4. LoadOK(load, cursor, moved \union added, stayed, list, rank)' BY <1>1 DEF LoadOK, Idle
<1> QED BY <1>1, <1>2, <1>3, <1>4 DEF IInv

LEMMA ReloadKeeps == ASSUME IInv, Reload PROVE IInv'
<1>1. /\ load.state = "idle" /\ sent = NoComment
      /\ shown' = <<>> /\ cursor' = First(list)
      /\ stayed' = {} /\ moved' = {} /\ added' = {}
      /\ UNCHANGED <<list, row, rank, load, sent>>
  BY SameOrder DEF Reload, table
<1>2. <<>> \in Seq(Ids) /\ DOMAIN <<>> = {} OBVIOUS
<1>3. TypeOK'
  <2>1. First(list) \in Cursors BY CursorsFit
  <2> QED BY <2>1, <1>1, <1>2 DEF IInv, TypeOK, Cursors
<1>4. CursorsSound' BY <1>1 DEF IInv, CursorsSound
<1>5. DOMAIN shown' = {} BY <1>1, <1>2
<1>6. ShownOK(shown, cursor, moved \union added, list, rank)' BY <1>5 DEF ShownOK, Ordered
<1>7. LoadOK(load, cursor, moved \union added, stayed, list, rank)' BY <1>1 DEF LoadOK
<1>8. StayedOK(shown, cursor, stayed, list, rank)' BY <1>1 DEF StayedOK
<1> QED BY <1>1, <1>3, <1>4, <1>6, <1>7, <1>8 DEF IInv

LEMMA SubmittedKeeps == ASSUME IInv, Submitted PROVE IInv'
<1> DEFINE t == Append(shown, sent)
           out == moved \union added'
<1>1. /\ sent \in Ids /\ shown' = t /\ added' = added \union {sent} /\ sent' = NoComment
      /\ UNCHANGED <<list, row, rank, cursor, load, stayed, moved>>
  BY DEF Submitted, table, IInv, TypeOK
<1>2. shown \in Seq(Ids) /\ Len(shown) \in Nat /\ DOMAIN shown = 1 .. Len(shown)
  BY DEF IInv, TypeOK
<1>3. /\ t \in Seq(Ids) /\ DOMAIN t = 1 .. Len(shown) + 1 /\ t[Len(shown) + 1] = sent
      /\ \A i \in 1 .. Len(shown) : t[i] = shown[i]
  BY <1>1, <1>2
<1>4. \A i \in DOMAIN t : t[i] \notin out => i \in DOMAIN shown /\ t[i] = shown[i]
  <2>1. \A i \in 1 .. Len(shown) + 1 : i \in 1 .. Len(shown) \/ i = Len(shown) + 1 BY <1>2
  <2> HIDE DEF t
  <2>2. sent \in out BY <1>1
  <2> QED BY <2>1, <2>2, <1>2, <1>3
<1>5. Range(shown) \subseteq Range(t)
  <2>1. \A i \in 1 .. Len(shown) : i \in 1 .. Len(shown) + 1 BY <1>2
  <2> HIDE DEF t
  <2> QED BY <2>1, <1>2, <1>3 DEF Range
<1> HIDE DEF t
<1>6. /\ ShownOK(shown, cursor, out, list, rank)
      /\ LoadOK(load, cursor, out, stayed, list, rank)
      /\ StayedOK(shown, cursor, stayed, list, rank)
  <2>1. moved \union added \subseteq out /\ TypeOK /\ stayed \subseteq Ids
    BY <1>1 DEF IInv, TypeOK
  <2> HIDE DEF out
  <2> QED BY <2>1, Undisturbed DEF IInv
<1> HIDE DEF out
<1>7. ShownOK(t, cursor, out, list, rank) BY <1>4, <1>6 DEF ShownOK, Ordered
<1>8. StayedOK(t, cursor, stayed, list, rank) BY <1>5, <1>6 DEF StayedOK
<1>9. TypeOK' BY <1>1, <1>3 DEF IInv, TypeOK, Cursors
<1>10. CursorsSound'
  <2>1. sent # NoComment BY DEF Submitted
  <2> QED BY <2>1, <1>1 DEF IInv, CursorsSound
<1> QED BY <1>1, <1>6, <1>7, <1>8, <1>9, <1>10 DEF out, IInv

LEMMA SubmitFailsKeeps == ASSUME IInv, SubmitFails PROVE IInv'
<1>1. sent' = NoComment /\ UNCHANGED <<list, row, rank, shown, cursor, load, stayed, moved, added>>
  BY DEF SubmitFails, table, history
<1>2. TypeOK' BY <1>1 DEF IInv, TypeOK, Cursors
<1>3. CursorsSound' BY <1>1 DEF IInv, CursorsSound
<1> QED BY <1>1, <1>2, <1>3 DEF IInv

LEMMA SubmitKeeps == ASSUME IInv, NEW r \in Ids, Submit(r) PROVE IInv'
<1>1. r \notin stayed BY DEF IInv, Submit
<1>2. /\ row' = [row EXCEPT ![r] = "listed"] /\ sent' = r
      /\ UNCHANGED <<list, rank, shown, cursor, load, stayed, moved, added>>
      /\ cursor # First(list)
  BY SameOrder DEF Submit, Ready, history
<1> QED BY <1>1, <1>2, RanksRemain, RowChanges

LEMMA RemovedKeeps == ASSUME IInv, NEW r \in Ids, Removed(r) PROVE IInv'
<1> DEFINE t == Only(shown, Ids \ {r})
<1>1. /\ r \in Range(shown) /\ row[r] = "deleted" /\ shown' = t
      /\ UNCHANGED <<list, row, rank, cursor, load, sent, stayed, moved, added>>
  BY DEF Removed, table, history
<1>2. shown \in Seq(Ids) BY DEF IInv, TypeOK
<1>3. /\ t \in Seq(Ids) /\ Range(t) = Range(shown) \intersect (Ids \ {r})
      /\ \A a, b \in DOMAIN t : a < b =>
           \E i, j \in DOMAIN shown : i < j /\ shown[i] = t[a] /\ shown[j] = t[b]
  BY <1>2, OnlyIs
<1> HIDE DEF t
<1>4. \A a \in DOMAIN t : \E i \in DOMAIN shown : shown[i] = t[a] BY <1>3 DEF Range
<1>5. ShownOK(t, cursor, moved \union added, list, rank)
  <2>1. ShownOK(shown, cursor, moved \union added, list, rank) BY DEF IInv
  <2>2. Ordered(t, moved \union added, list, rank) BY <2>1, <1>3 DEF ShownOK, Ordered
  <2> QED BY <2>1, <2>2, <1>4 DEF ShownOK
<1>6. StayedOK(t, cursor, stayed, list, rank)
  <2>1. r \notin stayed /\ stayed \subseteq Ids BY <1>1 DEF IInv, TypeOK
  <2> QED BY <2>1, <1>3 DEF IInv, StayedOK
<1>7. TypeOK' BY <1>1, <1>3 DEF IInv, TypeOK, Cursors
<1>8. CursorsSound'
  <2>1. shown # <<>>
    <3>1. Range(<<>>) = {} BY DEF Range
    <3> QED BY <3>1, <1>1
  <2> QED BY <2>1, <1>1 DEF IInv, CursorsSound
<1> QED BY <1>1, <1>5, <1>6, <1>7, <1>8 DEF IInv

-----------------------------------------------------------------------------
(* The theorems.                                                            *)

LEMMA Begins == ASSUME Init PROVE IInv
<1>1. /\ list \in Lists /\ rank \in [Ids -> Ranks]
      /\ shown = <<>> /\ cursor = First(list) /\ load = Idle /\ sent = NoComment
      /\ stayed = {} /\ moved = {} /\ added = {}
  BY SameOrder DEF Init
<1>2. <<>> \in Seq(Ids) /\ DOMAIN <<>> = {} /\ Len(<<>>) = 0 OBVIOUS
<1>3. TypeOK
  <2>1. cursor \in Cursors /\ NoMore \in Cursors BY <1>1, CursorsFit
  <2>2. /\ load \in [state : {"idle", "found", "answered"}, rows : Seq(Ids), next : Cursors]
        /\ Len(load.rows) <= Limit
    BY <2>1, <1>1, <1>2, Constants DEF Idle
  <2>3. row \in [Ids -> {"unborn", "inserted", "listed", "hidden", "deleted"}] BY DEF Init
  <2> QED BY <2>1, <2>2, <2>3, <1>1, <1>2 DEF TypeOK
<1>4. CursorsSound BY <1>1 DEF CursorsSound, Idle
<1>5. DOMAIN shown = {} BY <1>1, <1>2
<1>6. ShownOK(shown, cursor, moved \union added, list, rank) BY <1>5 DEF ShownOK, Ordered
<1>7. LoadOK(load, cursor, moved \union added, stayed, list, rank) BY <1>1 DEF LoadOK, Idle
<1>8. StayedOK(shown, cursor, stayed, list, rank) BY <1>1 DEF StayedOK
<1> QED BY <1>1, <1>3, <1>4, <1>6, <1>7, <1>8 DEF IInv

LEMMA Stutters == ASSUME IInv, UNCHANGED vars PROVE IInv'
<1>1. UNCHANGED <<list, row, rank, shown, cursor, load, sent, stayed, moved, added>>
  BY DEF vars, table, screen, history
<1>2. TypeOK' BY <1>1 DEF IInv, TypeOK, Cursors
<1>3. CursorsSound' BY <1>1 DEF IInv, CursorsSound
<1> QED BY <1>1, <1>2, <1>3 DEF IInv

(* The invariant holds in every state: what is shown is before the cursor,  *)
(* a page under way lies between its two cursors, and neither leaves out a  *)
(* row that has stayed in its place.                                        *)
THEOREM Inductive == Spec => []IInv
<1>1. Init => IInv BY Begins
<1>2. IInv /\ [Next]_vars => IInv'
  <2> SUFFICES ASSUME IInv, [Next]_vars PROVE IInv' OBVIOUS
  <2>1. CASE Others BY <2>1, OthersKeep
  <2>2. CASE Handlers BY <2>2, HandlersKeep
  <2>3. CASE Reader
    BY <2>3, ReceiveKeeps, LoadFailsKeeps, ReloadKeeps, SubmittedKeeps, SubmitFailsKeeps,
       SubmitKeeps, RemovedKeeps DEF Reader
  <2>4. CASE UNCHANGED vars BY <2>4, Stutters
  <2> QED BY <2>1, <2>2, <2>3, <2>4 DEF Next
<1> QED BY <1>1, <1>2, PTL DEF Spec

(* Rows, cursors and pages are what their types say, and no page is longer  *)
(* than the limit.                                                          *)
THEOREM TypeCorrect == Spec => []TypeOK
<1>1. IInv => TypeOK BY DEF IInv
<1> QED BY <1>1, Inductive, PTL

(* Rows are on the screen in the order of the list and none twice, while    *)
(* others insert, delete, hide, show or move rows between two pages: all    *)
(* but the rows whose rank changes after they have come (cursors of the     *)
(* stores and of search.go).                                                *)
THEOREM PagesInOrder == Spec => []InOrder
<1>1. IInv => InOrder
  BY SameOrder DEF IInv, InOrder, ShownOK, Ordered
<1> QED BY <1>1, Inductive, PTL

(* A row that has been in the list and in its place since the first page    *)
(* was read is on the screen once the cursor is past it.                    *)
THEOREM NoneSkipped == Spec => []NothingSkipped
<1>1. IInv => NothingSkipped
  BY SameOrder DEF IInv, NothingSkipped, StayedOK, Ready
<1> QED BY <1>1, Inductive, PTL

(* A page moves the cursor on in the order of the list or ends the list,    *)
(* also while rows keep changing their ranks.                               *)
THEOREM Advances == Spec => CursorAdvances
<1> DEFINE Moves == cursor' # cursor => cursor' \in {NoMore, Start'} \/ Earlier(cursor, cursor')
<1>1. IInv /\ [Next]_vars => Moves
  <2> SUFFICES ASSUME IInv, [Next]_vars, cursor' # cursor
               PROVE  cursor' \in {NoMore, Start'} \/ Earlier(cursor, cursor')
    OBVIOUS
  <2>1. Receive \/ Reload
    BY DEF Next, vars, Others, Handlers, Reader, Insert, CommitInsert, Show, Hide, Delete, Move,
           Answers, ListPosts, ListUserPosts, ListFollowingFeed, ListUserTravels, ListComments,
           ListNotifications, ListFollowers, ListFollowing, SearchUsers, SearchPosts, ReadFound,
           LoadFails, Submit, Submitted, SubmitFails, Removed, screen
  <2>2. CASE Receive
    <3>1. cursor' = load.next /\ (load.next # NoMore => Ahead(list, cursor, load.next))
      BY <2>2 DEF Receive, IInv, LoadOK
    <3> QED BY <3>1, SameOrder
  <2>3. CASE Reload
    <3>1. cursor' = Start /\ list' = list BY <2>3 DEF Reload
    <3> QED BY <3>1 DEF Start
  <2> QED BY <2>1, <2>2, <2>3
<1>2. Spec => [][Moves]_vars BY <1>1, Inductive, PTL DEF Spec
<1> QED BY <1>2, PTL DEF CursorAdvances, Moves
=============================================================================
