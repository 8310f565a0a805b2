-------------------------- MODULE MatchStatsProofs ---------------------------
(***************************************************************************)
(* Proofs about MatchStats and ProfileHttp for any number of players and   *)
(* any health, capacity of the log and size of a page: types, that the     *)
(* leaderboard is the ranking, that every death is one duel, what becomes  *)
(* of the rating points, and that the pages of the router are heads of the *)
(* ranking.                                                                *)
(***************************************************************************)
EXTENDS ProfileHttp, FiniteSetTheorems, SequenceTheorems, TLAPS

(* Both players of a duel are among those whose totals the result lists.   *)
DuelsAreListed ==
    \A i \in DOMAIN completed :
        /\ completed[i].winner \in DOMAIN completed[i].stats
        /\ completed[i].loser \in DOMAIN completed[i].stats

StatsInv == TypeOK /\ DuelsAreListed /\ LeaderboardIsRanking

-----------------------------------------------------------------------------
(* The leaderboard on its own.                                             *)

(* scores_ and ordered_ say the same, and ordered_ has no empty set.       *)
Agree(b) ==
    /\ b.scores = [p \in DOMAIN b.scores |-> b.scores[p]]
    /\ DOMAIN b.ordered = {b.scores[p] : p \in DOMAIN b.scores}
    /\ \A s \in DOMAIN b.ordered : b.ordered[s] = {p \in DOMAIN b.scores : b.scores[p] = s}

(* Upsert keeps the two indices in agreement and ranks the player alone    *)
(* anew.                                                                   *)
LEMMA PlaceAgrees ==
    ASSUME NEW b, Agree(b), NEW p, NEW score
    PROVE  LET c == Place(b, p, score)
           IN  /\ Agree(c)
               /\ DOMAIN c.scores = DOMAIN b.scores \cup {p}
               /\ c.scores[p] = score
               /\ \A q \in DOMAIN b.scores \ {p} : c.scores[q] = b.scores[q]
PROOF
<1> DEFINE known == p \in DOMAIN b.scores
           freed == IF known THEN RemoveFromOrdered(b.ordered, p, b.scores[p])
                             ELSE b.ordered
           scores == Score(b.scores, p, score)
           ordered == Insert(freed, p, score)
<1>1. CASE known /\ b.scores[p] = score
  <2>1. Place(b, p, score) = b BY <1>1 DEF Place
  <2> QED BY <1>1, <2>1
<1>2. CASE ~(known /\ b.scores[p] = score)
  <2>1. Place(b, p, score) = [scores |-> scores, ordered |-> ordered]
    BY <1>2 DEF Place
  <2>2. /\ DOMAIN scores = DOMAIN b.scores \cup {p}
        /\ scores[p] = score
        /\ \A q \in DOMAIN b.scores \ {p} : scores[q] = b.scores[q]
    BY DEF Score
  (* Without its former entry ordered_ is right for everybody else.        *)
  <2>3. /\ DOMAIN freed = {b.scores[q] : q \in DOMAIN b.scores \ {p}}
        /\ \A s \in DOMAIN freed :
              freed[s] = {q \in DOMAIN b.scores \ {p} : b.scores[q] = s}
    <3>1. CASE known
      <4> DEFINE others == b.ordered[b.scores[p]] \ {p}
      <4>1. others = {q \in DOMAIN b.scores \ {p} : b.scores[q] = b.scores[p]}
        BY <3>1 DEF Agree
      <4>2. freed = [s \in {r \in DOMAIN b.ordered : r # b.scores[p] \/ others # {}} |->
                        IF s = b.scores[p] THEN others ELSE b.ordered[s]]
        BY <3>1 DEF RemoveFromOrdered
      <4>3. DOMAIN freed = {r \in DOMAIN b.ordered : r # b.scores[p] \/ others # {}}
        BY <4>2
      <4>4. \A s \in DOMAIN freed :
               freed[s] = IF s = b.scores[p] THEN others ELSE b.ordered[s]
        BY <4>2
      <4> HIDE DEF freed, others
      <4>5. ASSUME NEW s \in DOMAIN freed
            PROVE  freed[s] = {q \in DOMAIN b.scores \ {p} : b.scores[q] = s}
        <5>1. CASE s = b.scores[p] BY <4>1, <4>4, <5>1
        <5>2. CASE s # b.scores[p]
          <6>1. freed[s] = b.ordered[s] /\ s \in DOMAIN b.ordered BY <4>3, <4>4, <5>2
          <6>2. b.ordered[s] = {q \in DOMAIN b.scores : b.scores[q] = s}
            BY <6>1 DEF Agree
          <6> QED BY <5>2, <6>1, <6>2
        <5> QED BY <5>1, <5>2
      <4>6. DOMAIN freed = {b.scores[q] : q \in DOMAIN b.scores \ {p}}
        BY <3>1, <4>1, <4>3 DEF Agree
      <4> QED BY <4>5, <4>6
    <3>2. CASE ~known BY <3>2 DEF Agree
    <3> QED BY <3>1, <3>2
  <2>4. /\ DOMAIN ordered = DOMAIN freed \cup {score}
        /\ \A s \in DOMAIN ordered :
              ordered[s] = IF s # score THEN freed[s]
                           ELSE IF s \in DOMAIN freed THEN freed[s] \cup {p} ELSE {p}
    BY DEF Insert
  <2>7. scores = [q \in DOMAIN scores |-> scores[q]] BY DEF Score
  <2> HIDE DEF freed, scores, ordered
  <2>5. DOMAIN ordered = {scores[q] : q \in DOMAIN scores} BY <2>2, <2>3, <2>4
  <2>6. ASSUME NEW s \in DOMAIN ordered
        PROVE  ordered[s] = {q \in DOMAIN scores : scores[q] = s}
    <3> DEFINE others == {q \in DOMAIN b.scores \ {p} : b.scores[q] = s}
    <3>1. s \in DOMAIN freed => freed[s] = others BY <2>3
    <3>2. s \notin DOMAIN freed => others = {} BY <2>3
    <3>3. {q \in DOMAIN scores : scores[q] = s}
              = IF s = score THEN others \cup {p} ELSE others
      BY <2>2
    <3>4. ordered[s] = IF s = score THEN others \cup {p} ELSE others
      <4> HIDE DEF others
      <4> QED BY <2>4, <2>6, <3>1, <3>2
    <3> QED BY <3>3, <3>4
  <2> QED BY <2>1, <2>2, <2>5, <2>6, <2>7 DEF Agree
<1> QED BY <1>1, <1>2

-----------------------------------------------------------------------------
(* Sums over a finite set.  The library states induction for an operator,  *)
(* so the lemmas below argue from a least counterexample instead.          *)

(* The element the fold of a sum takes next.                               *)
Pick(s) == CHOOSE x \in s : TRUE

(* g gives every subset of S the sum of f over it, one element at a time.  *)
Adds(g, f, S) ==
    g = [s \in SUBSET S |-> IF s = {} THEN 0 ELSE f[Pick(s)] + g[s \ {Pick(s)}]]

IsTotal(g, f, S) == g \in [SUBSET S -> Int] /\ Adds(g, f, S)

(* The sum of all values of f.                                             *)
Total(f) == (CHOOSE g : IsTotal(g, f, DOMAIN f))[DOMAIN f]

(* A set of naturals that is not empty has a least element.                *)
LEMMA LeastNat ==
    ASSUME NEW T, T \subseteq Nat, T # {}
    PROVE  \E n \in T : \A m \in T : n <= m
PROOF
<1> DEFINE R == {ss \in Nat \X Nat : ss[1] < ss[2]}
<1>1. IsWellFoundedOn(R, Nat) BY NatLessThanWellFounded DEF OpToRel
<1>2. \E x \in T : \A y \in T : ~ (<<y, x>> \in R)
  <2> HIDE DEF R
  <2> QED BY <1>1, WFMin
<1>3. PICK x \in T : \A y \in T : ~ (<<y, x>> \in R) BY <1>2
<1>4. \A y \in T : y \in Nat /\ x \in Nat /\ (<<y, x>> \in R <=> y < x) OBVIOUS
<1> HIDE DEF R
<1>5. ASSUME NEW y \in T PROVE x <= y
  <2>1. <<y, x>> \notin R BY <1>3
  <2> QED BY <1>4, <2>1
<1> QED BY <1>5

(* Every finite set has a table of the sums over its subsets.              *)
LEMMA TotalExists ==
    ASSUME NEW S, IsFiniteSet(S), NEW f \in [S -> Int]
    PROVE  \E g : IsTotal(g, f, S)
PROOF
<1> DEFINE upTo(n) == {s \in SUBSET S : Cardinality(s) <= n}
           term(g, s) == IF s = {} THEN 0 ELSE f[Pick(s)] + g[s \ {Pick(s)}]
           isTotal(g, n) == /\ g \in [upTo(n) -> Int]
                            /\ \A s \in upTo(n) : g[s] = term(g, s)
<1>1. \A s \in SUBSET S : /\ IsFiniteSet(s) /\ Cardinality(s) \in Nat
                          /\ Cardinality(s) = 0 <=> s = {}
  BY FS_Subset, FS_CardinalityType, FS_EmptySet
<1>2. \A s \in SUBSET S : s # {} => /\ Pick(s) \in s
                                    /\ s \ {Pick(s)} \in SUBSET S
                                    /\ Cardinality(s \ {Pick(s)}) = Cardinality(s) - 1
  BY <1>1, FS_RemoveElement DEF Pick
<1>3. \A n \in Nat : \E g : isTotal(g, n)
  <2> DEFINE T == {n \in Nat : ~ \E g : isTotal(g, n)}
  <2>1. SUFFICES ASSUME T # {} PROVE FALSE OBVIOUS
  <2>2. PICK n \in T : \A m \in T : n <= m
    <3> HIDE DEF isTotal
    <3> QED BY <2>1, LeastNat
  <2>3. CASE n = 0
    <3> DEFINE g == [s \in upTo(0) |-> 0]
    <3>1. \A s \in upTo(0) : s = {} BY <1>1
    <3>2. isTotal(g, 0) BY <3>1
    <3> QED BY <2>3, <3>2
  <2>4. CASE n # 0
    <3>1. n \in Nat /\ n - 1 \in Nat BY <2>4
    <3>2. n - 1 \notin T
      <4> HIDE DEF T
      <4> QED BY <2>2, <3>1
    <3>3. PICK g : isTotal(g, n - 1)
      <4> HIDE DEF isTotal
      <4> QED BY <3>1, <3>2
    <3> DEFINE h == [s \in upTo(n) |-> term(g, s)]
    <3>4. ASSUME NEW s \in upTo(n), s # {}
          PROVE  s \ {Pick(s)} \in upTo(n - 1) /\ s \ {Pick(s)} \in upTo(n)
      BY <1>1, <1>2, <3>1, <3>4
    <3>5. \A s \in upTo(n - 1) : s \in upTo(n) /\ h[s] = g[s]
      BY <1>1, <3>1, <3>3
    <3>6. \A s \in upTo(n) : h[s] = term(h, s)
      <4> TAKE s \in upTo(n)
      <4>1. h[s] = term(g, s) OBVIOUS
      <4> HIDE DEF h
      <4>2. CASE s = {} BY <4>1, <4>2
      <4>3. CASE s # {} BY <3>4, <3>5, <4>1, <4>3
      <4> QED BY <4>2, <4>3
    <3>7. h \in [upTo(n) -> Int]
      <4>1. ASSUME NEW s \in upTo(n) PROVE term(g, s) \in Int
        <5>1. CASE s = {} BY <5>1
        <5>2. CASE s # {}
          <6>1. f[Pick(s)] \in Int BY <1>2, <5>2
          <6>2. g[s \ {Pick(s)}] \in Int BY <3>3, <3>4, <5>2
          <6> QED BY <5>2, <6>1, <6>2
        <5> QED BY <5>1, <5>2
      <4> HIDE DEF upTo, term
      <4> QED BY <4>1
    <3>8. isTotal(h, n)
      <4> HIDE DEF h
      <4> QED BY <3>6, <3>7
    <3> HIDE DEF isTotal
    <3> QED BY <3>8
  <2> QED BY <2>3, <2>4
<1>4. Cardinality(S) \in Nat BY FS_CardinalityType
<1>5. upTo(Cardinality(S)) = SUBSET S BY FS_Subset
<1>6. PICK g : isTotal(g, Cardinality(S))
  <2> HIDE DEF isTotal
  <2> QED BY <1>3, <1>4
<1>7. g \in [SUBSET S -> Int] /\ \A s \in SUBSET S : g[s] = term(g, s)
  BY <1>5, <1>6
<1>8. IsTotal(g, f, S) BY <1>7 DEF IsTotal, Adds
<1> QED BY <1>7, <1>8

(* Two functions that add up the same numbers give the same total.         *)
LEMMA TotalsAgree ==
    ASSUME NEW S, NEW T, NEW f, NEW k, NEW g, NEW h,
           Adds(g, f, S), Adds(h, k, T),
           NEW U, IsFiniteSet(U), U \subseteq S, U \subseteq T,
           \A x \in U : f[x] = k[x]
    PROVE  g[U] = h[U]
PROOF
<1> DEFINE bad == {n \in Nat : \E s \in SUBSET U : Cardinality(s) = n /\ g[s] # h[s]}
<1>1. \A s \in SUBSET U : IsFiniteSet(s) /\ Cardinality(s) \in Nat
  BY FS_Subset, FS_CardinalityType
<1>2. SUFFICES ASSUME bad # {} PROVE FALSE BY <1>1
<1>3. PICK n \in bad : \A m \in bad : n <= m
  <2> HIDE DEF bad
  <2>1. bad \subseteq Nat BY DEF bad
  <2> QED BY <1>2, <2>1, LeastNat
<1>4. PICK s \in SUBSET U : Cardinality(s) = n /\ g[s] # h[s] OBVIOUS
<1>5. /\ g[s] = IF s = {} THEN 0 ELSE f[Pick(s)] + g[s \ {Pick(s)}]
      /\ h[s] = IF s = {} THEN 0 ELSE k[Pick(s)] + h[s \ {Pick(s)}]
  BY DEF Adds
<1>6. s # {} BY <1>4, <1>5
<1>7. Pick(s) \in s /\ f[Pick(s)] = k[Pick(s)] BY <1>6 DEF Pick
<1>8. g[s \ {Pick(s)}] # h[s \ {Pick(s)}] BY <1>4, <1>5, <1>6, <1>7
<1>9. Cardinality(s \ {Pick(s)}) = n - 1 /\ n - 1 \in Nat
  <2>1. IsFiniteSet(s) BY <1>1
  <2>2. Cardinality(s \ {Pick(s)}) = Cardinality(s) - 1
    BY <1>7, <2>1, FS_RemoveElement
  <2>3. Cardinality(s \ {Pick(s)}) \in Nat BY <1>1
  <2> QED BY <1>4, <2>2, <2>3
<1>10. n - 1 \in bad BY <1>8, <1>9
<1> QED BY <1>3, <1>9, <1>10

(* Any element of a set can be the one its total is split at.              *)
LEMMA TotalSplits ==
    ASSUME NEW U, IsFiniteSet(U), NEW f \in [U -> Int],
           NEW g, IsTotal(g, f, U)
    PROVE  \A x \in U : g[U] = f[x] + g[U \ {x}]
PROOF
<1> DEFINE bad == {n \in Nat : \E s \in SUBSET U, y \in U :
                      y \in s /\ Cardinality(s) = n /\ g[s] # f[y] + g[s \ {y}]}
<1>1. \A s \in SUBSET U : IsFiniteSet(s) /\ Cardinality(s) \in Nat
  BY FS_Subset, FS_CardinalityType
<1>2. SUFFICES ASSUME bad # {} PROVE FALSE
  <2>1. SUFFICES ASSUME NEW x \in U, g[U] # f[x] + g[U \ {x}] PROVE bad # {}
    OBVIOUS
  <2>2. U \in SUBSET U BY Zenon
  <2>3. Cardinality(U) \in bad BY <1>1, <2>1, <2>2
  <2> QED BY <2>3
<1>3. PICK n \in bad : \A m \in bad : n <= m
  <2> HIDE DEF bad
  <2>1. bad \subseteq Nat BY DEF bad
  <2> QED BY <1>2, <2>1, LeastNat
<1>4. PICK s \in SUBSET U, y \in U :
         y \in s /\ Cardinality(s) = n /\ g[s] # f[y] + g[s \ {y}]
  OBVIOUS
<1> DEFINE z == Pick(s)
           rest == (s \ {y}) \ {z}
<1>5. z \in s BY <1>4 DEF Pick
<1>6. g[s] = f[z] + g[s \ {z}] BY <1>1, <1>4 DEF IsTotal, Adds
<1> HIDE DEF z
<1>7. y # z BY <1>4, <1>6
<1>8. ASSUME NEW e \in s
      PROVE  /\ Cardinality(s \ {e}) = n - 1 /\ n - 1 \in Nat
             /\ s \ {e} \in SUBSET U
  <2>1. IsFiniteSet(s) BY <1>1
  <2>2. Cardinality(s \ {e}) = Cardinality(s) - 1 BY <2>1, FS_RemoveElement
  <2>3. Cardinality(s \ {e}) \in Nat BY <1>1
  <2> QED BY <1>4, <2>2, <2>3
<1>9. n - 1 \notin bad
  <2> HIDE DEF bad
  <2>1. n - 1 \in Nat BY <1>5, <1>8
  <2>2. n \in Nat BY DEF bad
  <2> QED BY <1>3, <2>1, <2>2
<1>10. \A e \in s, d \in s : d # e => g[s \ {e}] = f[d] + g[(s \ {e}) \ {d}]
  <2> TAKE e \in s, d \in s
  <2>1. d # e => d \in s \ {e} /\ d \in U OBVIOUS
  <2> QED BY <1>8, <1>9, <2>1
<1>11. g[s \ {z}] = f[y] + g[(s \ {z}) \ {y}] /\ g[s \ {y}] = f[z] + g[rest]
  BY <1>4, <1>5, <1>7, <1>10
<1>12. (s \ {z}) \ {y} = rest OBVIOUS
<1>13. f[y] \in Int /\ f[z] \in Int /\ g[rest] \in Int
  BY <1>1, <1>4, <1>5 DEF IsTotal
<1>14. g[s] = f[z] + (f[y] + g[rest]) /\ f[y] + g[s \ {y}] = f[y] + (f[z] + g[rest])
  BY <1>6, <1>11, <1>12
<1> HIDE DEF rest
<1> QED BY <1>4, <1>13, <1>14

-----------------------------------------------------------------------------
(* What Total is good for.                                                 *)

(* So Total is what such a table says of the whole set.                    *)
LEMMA TotalIsTotal ==
    ASSUME NEW D, IsFiniteSet(D), NEW f \in [D -> Int]
    PROVE  \E g : IsTotal(g, f, D) /\ Total(f) = g[D]
PROOF
<1>1. PICK g : IsTotal(g, f, D) BY TotalExists
<1> DEFINE h == CHOOSE h : IsTotal(h, f, D)
<1>2. IsTotal(h, f, D) BY <1>1
<1> HIDE DEF h
<1>3. h[D] = g[D] BY <1>1, <1>2, TotalsAgree DEF IsTotal
<1>4. Total(f) = h[D] BY DEF Total, h
<1> QED BY <1>1, <1>3, <1>4

(* A total is a number, and any one summand can be taken out of it.        *)
LEMMA TotalTake ==
    ASSUME NEW D, IsFiniteSet(D), NEW f \in [D -> Int]
    PROVE  /\ Total(f) \in Int
           /\ D = {} => Total(f) = 0
           /\ \A x \in D : Total(f) = f[x] + Total([y \in D \ {x} |-> f[y]])
PROOF
<1>1. PICK g : IsTotal(g, f, D) /\ Total(f) = g[D] BY TotalIsTotal
<1>2. Total(f) \in Int BY <1>1 DEF IsTotal
<1>3. D = {} => Total(f) = 0 BY <1>1 DEF IsTotal, Adds
<1>4. ASSUME NEW x \in D
      PROVE  Total(f) = f[x] + Total([y \in D \ {x} |-> f[y]])
  <2> DEFINE E == D \ {x}
             k == [y \in E |-> f[y]]
  <2>1. IsFiniteSet(E) BY FS_Subset
  <2>2. k \in [E -> Int] OBVIOUS
  <2>3. \A y \in E : k[y] = f[y] OBVIOUS
  <2>4. E \in SUBSET D OBVIOUS
  <2>5. g[D] = f[x] + g[E]
    <3>1. \A y \in D : g[D] = f[y] + g[D \ {y}] BY <1>1, TotalSplits
    <3> QED BY <3>1
  <2> HIDE DEF k, E
  <2>6. PICK h : IsTotal(h, k, E) /\ Total(k) = h[E]
    BY <2>1, <2>2, TotalIsTotal
  <2>7. h[E] = g[E] BY <1>1, <2>1, <2>3, <2>4, <2>6, TotalsAgree DEF IsTotal
  <2> QED BY <1>1, <2>5, <2>6, <2>7 DEF k, E
<1> QED BY <1>2, <1>3, <1>4

(* Changing one summand changes the total by the difference.               *)
LEMMA TotalChange ==
    ASSUME NEW D, IsFiniteSet(D), NEW f \in [D -> Int], NEW k \in [D -> Int],
           NEW x \in D, \A y \in D \ {x} : k[y] = f[y]
    PROVE  Total(k) = Total(f) + k[x] - f[x]
PROOF
<1> DEFINE rest == [y \in D \ {x} |-> f[y]]
<1>1. [y \in D \ {x} |-> k[y]] = rest OBVIOUS
<1>2. IsFiniteSet(D \ {x}) /\ rest \in [D \ {x} -> Int] BY FS_Subset
<1>3. Total(f) = f[x] + Total(rest) /\ Total(k) = k[x] + Total(rest)
  BY <1>1, TotalTake
<1>4. Total(rest) \in Int
  <2> HIDE DEF rest
  <2> QED BY <1>2, TotalTake
<1> HIDE DEF rest
<1> QED BY <1>3, <1>4

(* k is f with new summands, all of them c.                                *)
GrownBy(f, D, k, E, c) ==
    /\ D \subseteq E /\ f \in [D -> Int] /\ k \in [E -> Int]
    /\ \A y \in D : k[y] = f[y]
    /\ \A y \in E \ D : k[y] = c

(* They add c each to the total.                                           *)
LEMMA TotalGrows ==
    ASSUME NEW D, NEW E, NEW f, NEW k, NEW c \in Int,
           IsFiniteSet(E), GrownBy(f, D, k, E, c)
    PROVE  Total(k) = Total(f) + c * Cardinality(E \ D)
PROOF
<1>0. /\ D \subseteq E /\ f \in [D -> Int] /\ k \in [E -> Int]
      /\ \A y \in D : k[y] = f[y]
      /\ \A y \in E \ D : k[y] = c
  BY DEF GrownBy
<1> DEFINE on(F) == [y \in F |-> k[y]]
           right(F) == Total(on(F)) = Total(f) + c * Cardinality(F \ D)
           bad == {n \in Nat : \E F \in SUBSET E :
                     D \subseteq F /\ Cardinality(F \ D) = n /\ ~right(F)}
<1>1. \A F \in SUBSET E : IsFiniteSet(F \ D) /\ Cardinality(F \ D) \in Nat /\ IsFiniteSet(F)
  BY FS_Subset, FS_CardinalityType
<1>2. ASSUME bad # {} PROVE FALSE
  <2>1. PICK n \in bad : \A m \in bad : n <= m
    <3> HIDE DEF bad
    <3>1. bad \subseteq Nat BY DEF bad
    <3> QED BY <1>2, <3>1, LeastNat
  <2>2. PICK F \in SUBSET E : D \subseteq F /\ Cardinality(F \ D) = n /\ ~right(F)
    OBVIOUS
  <2>3. CASE F = D
    <3>1. on(F) = f BY <1>0, <2>3
    <3>2. IsFiniteSet(D) BY <1>1, <2>3
    <3>3. Total(f) \in Int BY <1>0, <3>2, TotalTake
    <3>4. Cardinality(F \ D) = 0
      <4>1. F \ D = {} BY <2>3
      <4> QED BY <4>1, FS_EmptySet
    <3>5. Total(f) + c * 0 = Total(f) BY <3>3
    <3> HIDE DEF on
    <3>6. right(F) BY <3>1, <3>4, <3>5
    <3> QED BY <2>2, <3>6
  <2>4. CASE F # D
    <3>1. PICK x \in F : x \notin D BY <2>2, <2>4
    <3> DEFINE G == F \ {x}
    <3>2. G \in SUBSET E /\ D \subseteq G /\ G \ D = (F \ D) \ {x} BY <2>2, <3>1
    <3>3. Cardinality(G \ D) = n - 1 /\ n - 1 \in Nat
      <4>1. Cardinality((F \ D) \ {x}) = Cardinality(F \ D) - 1
        BY <1>1, <3>1, FS_RemoveElement
      <4>2. Cardinality(G \ D) \in Nat BY <1>1, <3>2
      <4> HIDE DEF G
      <4> QED BY <2>2, <3>2, <4>1, <4>2
    <3>4. right(G)
      <4> HIDE DEF G, right
      <4>1. n - 1 \notin bad
        <5> HIDE DEF bad
        <5>1. n \in Nat BY DEF bad
        <5> QED BY <2>1, <3>3, <5>1
      <4> QED BY <3>2, <3>3, <4>1
    <3>5. Total(on(F)) = k[x] + Total(on(G))
      <4>1. on(F) \in [F -> Int] BY <1>0, <2>2
      <4>2. [y \in F \ {x} |-> on(F)[y]] = on(G) OBVIOUS
      <4>3. on(F)[x] = k[x] OBVIOUS
      <4> HIDE DEF on, G
      <4>4. \A e \in F : Total(on(F)) = on(F)[e] + Total([y \in F \ {e} |-> on(F)[y]])
        BY <1>1, <4>1, TotalTake
      <4> QED BY <4>2, <4>3, <4>4
    <3>6. k[x] = c BY <1>0, <3>1
    <3>7. Total(f) \in Int
      <4>1. IsFiniteSet(D) BY <1>0, FS_Subset
      <4> QED BY <1>0, <4>1, TotalTake
    <3> DEFINE m == n - 1
    <3>8. c * n = c + c * m
      <4>1. m \in Nat /\ n = m + 1 BY <3>3
      <4> HIDE DEF m
      <4> QED BY <4>1
    <3>9. c * m \in Int BY <3>3
    <3> HIDE DEF on, G
    <3> QED BY <2>2, <3>3, <3>4, <3>5, <3>6, <3>7, <3>8, <3>9
  <2> QED BY <2>3, <2>4
<1>3. right(E)
  <2> HIDE DEF right
  <2> QED BY <1>0, <1>1, <1>2
<1>4. on(E) = k BY <1>0
<1> QED BY <1>3, <1>4

(* A duel changes two values of a column, among newcomers that count as c. *)
LEMMA TotalOfDuel ==
    ASSUME NEW D, NEW E, IsFiniteSet(E), D \subseteq E,
           NEW f \in [D -> Int], NEW k \in [E -> Int], NEW c \in Int,
           NEW w \in E, NEW l \in E, w # l,
           NEW x \in Int, x = (IF w \in D THEN f[w] ELSE c),
           NEW y \in Int, y = (IF l \in D THEN f[l] ELSE c),
           \A p \in E \ {w, l} : k[p] = IF p \in D THEN f[p] ELSE c
    PROVE  Total(k) = Total(f) + c * Cardinality(E \ D) + (k[w] - x) + (k[l] - y)
PROOF
<1> DEFINE k0 == [p \in E |-> IF p \in D THEN f[p] ELSE c]
           k1 == [p \in E |-> IF p = w THEN k[w] ELSE k0[p]]
<1>1. k0 \in [E -> Int] /\ \A p \in D : k0[p] = f[p] OBVIOUS
<1>2. \A p \in E \ D : k0[p] = c OBVIOUS
<1>3. k0[w] = x /\ k0[l] = y OBVIOUS
<1>4. k1 \in [E -> Int] /\ k1[w] = k[w] /\ k1[l] = k0[l] OBVIOUS
<1>5. \A p \in E \ {w} : k1[p] = k0[p] OBVIOUS
<1>6. \A p \in E \ {l} : k[p] = k1[p] OBVIOUS
<1> HIDE DEF k0, k1
<1>7. Total(k0) = Total(f) + c * Cardinality(E \ D)
  <2>1. GrownBy(f, D, k0, E, c) BY <1>1, <1>2 DEF GrownBy
  <2> QED BY <2>1, TotalGrows
<1>8. Total(k1) = Total(k0) + k1[w] - k0[w] BY <1>1, <1>4, <1>5, TotalChange
<1>9. Total(k) = Total(k1) + k[l] - k1[l] BY <1>4, <1>6, TotalChange
<1>10. Total(k0) \in Int BY <1>1, TotalTake
<1> DEFINE grown == Total(f) + c * Cardinality(E \ D)
<1>11. Total(k0) = grown BY <1>7
<1> HIDE DEF grown
<1>12. k[w] \in Int /\ k[l] \in Int OBVIOUS
<1>13. Total(k) = grown + (k[w] - x) + (k[l] - y)
  BY <1>3, <1>4, <1>8, <1>9, <1>10, <1>11, <1>12
<1> QED BY <1>13 DEF grown

(* The fold the model adds up a column of the profiles with.               *)
Column(F, field) == MapThenSumSet(LAMBDA p : F[p][field], DOMAIN F)

LEMMA ColumnIsTotal ==
    ASSUME NEW F, NEW field, IsFiniteSet(DOMAIN F),
           \A p \in DOMAIN F : F[p][field] \in Int
    PROVE  Column(F, field) = Total([p \in DOMAIN F |-> F[p][field]])
PROOF
<1> DEFINE D == DOMAIN F
           f == [p \in D |-> F[p][field]]
           body(g, s) == IF s = {} THEN 0
                         ELSE F[CHOOSE x \in s : TRUE][field]
                                + g[s \ {CHOOSE x \in s : TRUE}]
           h == CHOOSE g : g = [s \in SUBSET D |-> body(g, s)]
<1>1. Column(F, field) = h[D] BY DEF Column, MapThenSumSet, MapThenFoldSet
<1>2. f \in [D -> Int] OBVIOUS
<1>3. PICK g : IsTotal(g, f, D) /\ Total(f) = g[D]
  <2> HIDE DEF f, D
  <2> QED BY <1>2, TotalIsTotal DEF D
<1>4. ASSUME NEW k PROVE Adds(k, f, D) <=> k = [s \in SUBSET D |-> body(k, s)]
  <2>1. \A s \in SUBSET D :
           body(k, s) = IF s = {} THEN 0 ELSE f[Pick(s)] + k[s \ {Pick(s)}]
    BY DEF Pick
  <2> HIDE DEF body, f, D
  <2> QED BY <2>1 DEF Adds
<1>5. Adds(h, f, D)
  <2>1. g = [s \in SUBSET D |-> body(g, s)]
    <3> HIDE DEF body, f, D
    <3> QED BY <1>3, <1>4 DEF IsTotal
  <2>2. h = [s \in SUBSET D |-> body(h, s)]
    <3> HIDE DEF body, f, D
    <3> QED BY <2>1
  <2> HIDE DEF body, f, D, h
  <2> QED BY <1>4, <2>2
<1>6. h[D] = g[D]
  <2> HIDE DEF f, D, h
  <2> QED BY <1>3, <1>5, TotalsAgree DEF IsTotal, D
<1> HIDE DEF h
<1> QED BY <1>1, <1>3, <1>6

-----------------------------------------------------------------------------
(* Types of what the collector and the rating compute.                     *)

LEMMA PointsType == \A d : Points(d) \in Nat
PROOF
<1>0. 1 \in Int /\ 25 \in Int OBVIOUS
<1>1. IsFiniteSet(1 .. 25) BY <1>0, FS_Interval
<1>2. \A d : {n \in 1 .. 25 : d <= PointsUpTo[n]} \subseteq 1 .. 25 OBVIOUS
<1>3. \A d : IsFiniteSet({n \in 1 .. 25 : d <= PointsUpTo[n]})
  BY <1>1, <1>2, FS_Subset
<1> QED BY <1>3, FS_CardinalityType DEF Points

LEMMA UpdateType ==
    ASSUME NEW w \in Int, NEW l \in Int
    PROVE  Update(w, l).winner \in Int /\ Update(w, l).loser \in Int
PROOF
<1>1. \A d : Points(d) \in Nat BY PointsType
<1>2. \A h \in Int : Rounded(h) \in Int BY DEF Rounded
<1>3. 2 * w + 25 \in Int /\ 2 * l - 25 \in Int OBVIOUS
<1>4. Points(w - l) \in Nat BY <1>1
<1>5. CASE w - l = 0 BY <1>2, <1>3, <1>5 DEF Update
<1>6. CASE w - l # 0 BY <1>4, <1>6 DEF Update
<1> QED BY <1>5, <1>6

LEMMA LoggedFinite ==
    ASSUME log \in Seq(Event)
    PROVE  \A type, p : /\ Cardinality(LoggedBy(type, p)) \in Nat
                        /\ Cardinality(LoggedOn(type, p)) \in Nat
PROOF
<1>1. Len(log) \in Nat /\ DOMAIN log = 1 .. Len(log) OBVIOUS
<1>2. IsFiniteSet(DOMAIN log) BY <1>1, FS_Interval
<1>3. \A type, p : LoggedBy(type, p) \subseteq DOMAIN log /\ LoggedOn(type, p) \subseteq DOMAIN log
  BY DEF LoggedBy, LoggedOn
<1> QED BY <1>2, <1>3, FS_Subset, FS_CardinalityType

LEMMA CollectType ==
    ASSUME TypeOK, NEW death \in Event
    PROVE  /\ Collect(death) \in MatchResult
           /\ Collect(death).winner \in DOMAIN Collect(death).stats
           /\ Collect(death).loser \in DOMAIN Collect(death).stats
PROOF
<1>1. /\ players \subseteq Player /\ died \in [Player -> Nat] /\ log \in Seq(Event)
      /\ death.shooter \in Player /\ death.target \in Player
  BY DEF TypeOK, Event
<1>2. /\ Participants(death) \in SUBSET Player
      /\ death.shooter \in Participants(death) /\ death.target \in Participants(death)
  BY <1>1 DEF Participants
<1>3. \A n \in Nat : AtLeastOne(n) \in Nat BY DEF AtLeastOne
<1>4. ASSUME NEW p \in Player PROVE TotalsOf(death, p) \in Totals
  <2>1. \A type : /\ Cardinality(LoggedBy(type, p)) \in Nat
                  /\ Cardinality(LoggedOn(type, p)) \in Nat
    BY <1>1, LoggedFinite
  <2>2. died[p] \in Nat BY <1>1, <1>4
  <2> QED BY <1>3, <2>1, <2>2 DEF TotalsOf, Totals
<1> DEFINE stats == [p \in Participants(death) |-> TotalsOf(death, p)]
<1>5. stats \in [Participants(death) -> Totals] BY <1>2, <1>4
<1>6. stats \in UNION {[P -> Totals] : P \in SUBSET Player} BY <1>2, <1>5
<1>7. DOMAIN stats = Participants(death) OBVIOUS
<1>8. Collect(death) = [winner |-> death.shooter, loser |-> death.target, stats |-> stats]
  BY DEF Collect
<1> HIDE DEF stats
<1>9. Collect(death) \in MatchResult BY <1>1, <1>6, <1>8 DEF MatchResult
<1> QED BY <1>2, <1>7, <1>8, <1>9

-----------------------------------------------------------------------------
LEMMA StatsInitInvariant == ASSUME Init PROVE StatsInv
PROOF
<1>1. /\ DOMAIN <<>> = {} /\ <<>> \in Seq(Event) /\ <<>> \in Seq(MatchResult)
      /\ Len(<<>>) = 0
  OBVIOUS
<1>2. players \in SUBSET Player /\ ticking \in BOOLEAN BY DEF Init
<1>3. health \in [Player -> 0 .. Health] /\ died \in [Player -> Nat]
  BY StatsAssumption DEF Init
<1>4. /\ log \in Seq(Event) /\ Len(log) <= LogCapacity
      /\ pending \in Seq(Event) /\ completed \in Seq(MatchResult)
  BY <1>1, StatsAssumption DEF Init
<1>5. DOMAIN profiles = {} /\ DOMAIN board.scores = {} /\ DOMAIN board.ordered = {}
  BY <1>1 DEF Init, EmptyBoard
<1>6. profiles = [p \in {} |-> NewProfile] /\ board.scores = [p \in {} |-> 0]
  BY <1>1 DEF Init, EmptyBoard
<1>7. /\ profiles \in [DOMAIN profiles -> Profile]
      /\ board.scores \in [DOMAIN board.scores -> Int]
  BY <1>5, <1>6
<1>8. TypeOK BY <1>2, <1>3, <1>4, <1>5, <1>7 DEF TypeOK, Init
<1>9. DuelsAreListed BY <1>1 DEF DuelsAreListed, Init
<1>10. LeaderboardIsRanking BY <1>5 DEF LeaderboardIsRanking
<1> QED BY <1>8, <1>9, <1>10 DEF StatsInv

LEMMA JoinSessionInvariant ==
    ASSUME StatsInv, NEW p \in Player, JoinSession(p)
    PROVE  StatsInv'
BY DEF StatsInv, JoinSession, service, TypeOK, DuelsAreListed, LeaderboardIsRanking

LEMMA LeaveSessionInvariant ==
    ASSUME StatsInv, NEW p \in Player, LeaveSession(p)
    PROVE  StatsInv'
PROOF
<1>1. TypeOK /\ DuelsAreListed /\ LeaderboardIsRanking BY DEF StatsInv
<1>2. /\ players' = players \ {p}
      /\ health' = [health EXCEPT ![p] = Health] /\ died' = [died EXCEPT ![p] = 0]
      /\ UNCHANGED <<ticking, log, pending, hits, deadTotal, completed, profiles,
                     board, recorded, updates>>
  BY DEF LeaveSession, service
<1>3. health' \in [Player -> 0 .. Health] /\ died' \in [Player -> Nat]
  BY <1>1, <1>2, StatsAssumption DEF TypeOK
<1>4. TypeOK' BY <1>1, <1>2, <1>3 DEF TypeOK
<1> QED BY <1>1, <1>2, <1>4 DEF StatsInv, DuelsAreListed, LeaderboardIsRanking

(* The log stays within its capacity.                                      *)
LEMMA AddType ==
    ASSUME NEW events \in Seq(Event), Len(events) <= LogCapacity, NEW e \in Event
    PROVE  Add(events, e) \in Seq(Event) /\ Len(Add(events, e)) <= LogCapacity
PROOF
<1>1. CASE Len(events) < LogCapacity
  <2>1. Add(events, e) = Append(events, e) BY <1>1 DEF Add
  <2> QED BY <1>1, <2>1, StatsAssumption
<1>2. CASE ~(Len(events) < LogCapacity)
  <2>1. Add(events, e) = Append(Tail(events), e) BY <1>2 DEF Add
  <2>2. events # <<>> BY <1>2, StatsAssumption
  <2>3. Tail(events) \in Seq(Event) /\ Len(Tail(events)) = Len(events) - 1 BY <2>2
  <2> QED BY <1>2, <2>1, <2>3, StatsAssumption
<1> QED BY <1>1, <1>2

LEMMA HitInvariant ==
    ASSUME StatsInv, NEW s \in Player, NEW t \in Player, Hit(s, t)
    PROVE  StatsInv'
PROOF
<1> DEFINE hit    == [type |-> "hit", shooter |-> s, target |-> t]
           death  == [hit EXCEPT !.type = "death"]
           struck == Add(log, hit)
<1>1. TypeOK /\ DuelsAreListed /\ LeaderboardIsRanking BY DEF StatsInv
<1>2. hit \in Event /\ death \in Event BY DEF Event
<1>3. /\ log \in Seq(Event) /\ Len(log) <= LogCapacity /\ pending \in Seq(Event)
      /\ health \in [Player -> 0 .. Health] /\ died \in [Player -> Nat]
      /\ hits \in Nat /\ deadTotal \in Nat
  BY <1>1 DEF TypeOK
<1>4. struck \in Seq(Event) /\ Len(struck) <= LogCapacity BY <1>2, <1>3, AddType
<1>5. /\ Add(struck, death) \in Seq(Event) /\ Len(Add(struck, death)) <= LogCapacity
      /\ Append(pending, death) \in Seq(Event)
  BY <1>2, <1>3, <1>4, AddType
<1>6. /\ ticking' = TRUE /\ hits' = hits + 1
      /\ health' = [health EXCEPT ![t] = @ - 1] /\ health[t] > 0
      /\ IF health[t] = 1
         THEN /\ log' = Add(struck, death) /\ pending' = Append(pending, death)
              /\ deadTotal' = deadTotal + 1 /\ died' = [died EXCEPT ![t] = @ + 1]
         ELSE log' = struck /\ UNCHANGED <<pending, deadTotal, died>>
      /\ UNCHANGED <<players, completed, profiles, board, recorded, updates>>
  BY DEF Hit, service
<1> HIDE DEF hit, death, struck
<1>7. health' \in [Player -> 0 .. Health] BY <1>3, <1>6, StatsAssumption
<1>8. died' \in [Player -> Nat] BY <1>3, <1>6
<1>9. /\ log' \in Seq(Event) /\ Len(log') <= LogCapacity /\ pending' \in Seq(Event)
      /\ hits' \in Nat /\ deadTotal' \in Nat
  <2>1. CASE health[t] = 1
    <3>1. /\ log' = Add(struck, death) /\ pending' = Append(pending, death)
          /\ deadTotal' = deadTotal + 1 /\ hits' = hits + 1
      BY <1>6, <2>1
    <3> QED BY <1>3, <1>5, <3>1
  <2>2. CASE health[t] # 1 BY <1>3, <1>4, <1>6, <2>2
  <2> QED BY <2>1, <2>2
<1>10. TypeOK' BY <1>1, <1>6, <1>7, <1>8, <1>9 DEF TypeOK
<1> QED BY <1>1, <1>6, <1>10 DEF StatsInv, DuelsAreListed, LeaderboardIsRanking

LEMMA EndTickInvariant ==
    ASSUME StatsInv, EndTick
    PROVE  StatsInv'
PROOF
<1>1. TypeOK /\ DuelsAreListed /\ LeaderboardIsRanking /\ pending \in Seq(Event)
  BY DEF StatsInv, TypeOK
<1>2. /\ ticking' = FALSE /\ pending' = <<>>
      /\ completed' = [i \in DOMAIN pending |-> Collect(pending[i])]
      /\ UNCHANGED <<players, health, died, log, hits, deadTotal, profiles, board,
                     recorded, updates>>
  BY DEF EndTick, service
<1>3. \A i \in DOMAIN pending :
         /\ Collect(pending[i]) \in MatchResult
         /\ Collect(pending[i]).winner \in DOMAIN Collect(pending[i]).stats
         /\ Collect(pending[i]).loser \in DOMAIN Collect(pending[i]).stats
  BY <1>1, CollectType
<1>4. completed' \in Seq(MatchResult)
  <2>1. DOMAIN pending = 1 .. Len(pending) /\ Len(pending) \in Nat BY <1>1
  <2> QED BY <1>2, <1>3, <2>1
<1>5. TypeOK'
  <2>1. pending' \in Seq(Event) BY <1>2
  <2> QED BY <1>1, <1>2, <1>4, <2>1 DEF TypeOK
<1>6. DuelsAreListed' BY <1>2, <1>3 DEF DuelsAreListed
<1>7. LeaderboardIsRanking' BY <1>1, <1>2 DEF LeaderboardIsRanking
<1> QED BY <1>5, <1>6, <1>7 DEF StatsInv

-----------------------------------------------------------------------------
(* Adding a result's totals, and then its rating, to profiles.             *)

WithCounts(b, m, k, d, x, y) ==
    [b EXCEPT !.matches = m, !.kills = k, !.deaths = d, !.dealt = x, !.taken = y]

WithTotals(b, t) ==
    WithCounts(b, b.matches + 1, b.kills + t.kills, b.deaths + t.deaths,
               b.dealt + t.dealt, b.taken + t.taken)

WithDuel(f, w, l, x, y) ==
    [f EXCEPT ![w].wins = @ + 1, ![w].rating = x, ![l].losses = @ + 1, ![l].rating = y]

LEMMA CountsType ==
    ASSUME NEW b \in Profile, NEW m \in Nat, NEW k \in Nat, NEW d \in Nat,
           NEW x \in Nat, NEW y \in Nat
    PROVE  LET c == WithCounts(b, m, k, d, x, y)
           IN  /\ c \in Profile
               /\ c.rating = b.rating /\ c.wins = b.wins /\ c.losses = b.losses
PROOF
<1> DEFINE c == WithCounts(b, m, k, d, x, y)
<1>1. c \in Profile BY DEF Profile, WithCounts
<1>2. c.rating = b.rating BY DEF Profile, WithCounts
<1>3. c.wins = b.wins BY DEF Profile, WithCounts
<1>4. c.losses = b.losses BY DEF Profile, WithCounts
<1> QED BY <1>1, <1>2, <1>3, <1>4

LEMMA SummedType ==
    ASSUME NEW b \in Profile, NEW t \in Totals
    PROVE  LET c == WithTotals(b, t)
           IN  /\ c \in Profile
               /\ c.rating = b.rating /\ c.wins = b.wins /\ c.losses = b.losses
PROOF
<1>1. /\ t.kills \in Nat /\ t.deaths \in Nat /\ t.dealt \in Nat /\ t.taken \in Nat
  BY DEF Totals
<1>2. /\ b.matches + 1 \in Nat /\ b.kills + t.kills \in Nat
      /\ b.deaths + t.deaths \in Nat /\ b.dealt + t.dealt \in Nat
      /\ b.taken + t.taken \in Nat
  BY <1>1 DEF Profile
<1> DEFINE m == b.matches + 1
           k == b.kills + t.kills
           d == b.deaths + t.deaths
           x == b.dealt + t.dealt
           y == b.taken + t.taken
<1>3. WithTotals(b, t) = WithCounts(b, m, k, d, x, y) BY DEF WithTotals
<1>4. m \in Nat /\ k \in Nat /\ d \in Nat /\ x \in Nat /\ y \in Nat BY <1>2
<1> HIDE DEF m, k, d, x, y
<1>5. LET c == WithCounts(b, m, k, d, x, y)
      IN  /\ c \in Profile
          /\ c.rating = b.rating /\ c.wins = b.wins /\ c.losses = b.losses
  BY ONLY b \in Profile, <1>4, CountsType
<1> QED BY <1>3, <1>5

(* One of the two profiles of a duel: a count and the rating.              *)
LEMMA RatedField ==
    ASSUME NEW D, NEW f \in [D -> Profile], NEW w \in D, NEW x \in Int
    PROVE  /\ [f EXCEPT ![w].wins = @ + 1] \in [D -> Profile]
           /\ [f EXCEPT ![w].losses = @ + 1] \in [D -> Profile]
           /\ [f EXCEPT ![w].rating = x] \in [D -> Profile]
PROOF
<1>1. [f EXCEPT ![w].wins = @ + 1] \in [D -> Profile] BY DEF Profile
<1>2. [f EXCEPT ![w].losses = @ + 1] \in [D -> Profile] BY DEF Profile
<1>3. [f EXCEPT ![w].rating = x] \in [D -> Profile] BY DEF Profile
<1> QED BY <1>1, <1>2, <1>3

LEMMA RatedFacts ==
    ASSUME NEW D, NEW f \in [D -> Profile], NEW w \in D, NEW l \in D,
           NEW x \in Int, NEW y \in Int
    PROVE  LET g == WithDuel(f, w, l, x, y)
           IN  /\ g \in [D -> Profile]
               /\ g[l].rating = y /\ (w # l => g[w].rating = x)
               /\ g[w].wins + g[w].losses > 0 /\ g[l].wins + g[l].losses > 0
               /\ \A p \in D \ {w, l} : g[p] = f[p]
               /\ w # l => /\ g[w].wins = f[w].wins + 1 /\ g[w].losses = f[w].losses
                           /\ g[l].losses = f[l].losses + 1 /\ g[l].wins = f[l].wins
PROOF
<1> DEFINE f1 == [f EXCEPT ![w].wins = @ + 1]
           f2 == [f1 EXCEPT ![w].rating = x]
           f3 == [f2 EXCEPT ![l].losses = @ + 1]
           g  == [f3 EXCEPT ![l].rating = y]
<1>1. /\ f1 \in [D -> Profile]
      /\ f1[w].wins = f[w].wins + 1 /\ f1[w].losses = f[w].losses
      /\ \A p \in D \ {w} : f1[p] = f[p]
  BY RatedField DEF Profile
<1> HIDE DEF f1
<1>2. /\ f2 \in [D -> Profile]
      /\ f2[w].wins = f1[w].wins /\ f2[w].losses = f1[w].losses /\ f2[w].rating = x
      /\ \A p \in D \ {w} : f2[p] = f1[p]
  <2>1. f2 \in [D -> Profile] BY <1>1, RatedField
  <2>2. f2[w].wins = f1[w].wins /\ f2[w].losses = f1[w].losses /\ f2[w].rating = x
    BY <1>1 DEF Profile
  <2>3. \A p \in D \ {w} : f2[p] = f1[p] BY <1>1
  <2> QED BY <2>1, <2>2, <2>3
<1> HIDE DEF f2
<1>3. /\ f3 \in [D -> Profile]
      /\ f3[l].losses = f2[l].losses + 1 /\ f3[l].wins = f2[l].wins
      /\ \A p \in D \ {l} : f3[p] = f2[p]
  <2>1. f3 \in [D -> Profile] BY <1>2, RatedField
  <2>2. f3[l].losses = f2[l].losses + 1 /\ f3[l].wins = f2[l].wins
    BY <1>2 DEF Profile
  <2>3. \A p \in D \ {l} : f3[p] = f2[p] BY <1>2
  <2> QED BY <2>1, <2>2, <2>3
<1> HIDE DEF f3
<1>4. /\ g \in [D -> Profile]
      /\ g[l].rating = y /\ g[l].losses = f3[l].losses /\ g[l].wins = f3[l].wins
      /\ \A p \in D \ {l} : g[p] = f3[p]
  <2>1. g \in [D -> Profile] BY <1>3, RatedField
  <2>2. g[l].rating = y /\ g[l].losses = f3[l].losses /\ g[l].wins = f3[l].wins
    BY <1>3 DEF Profile
  <2>3. \A p \in D \ {l} : g[p] = f3[p] BY <1>3
  <2> QED BY <2>1, <2>2, <2>3
<1> HIDE DEF g
<1>5. \A p \in D : /\ f[p].wins \in Nat /\ f2[p].losses \in Nat /\ f2[p].wins \in Nat
                   /\ g[p].losses \in Nat /\ g[p].wins \in Nat
  BY <1>2, <1>4 DEF Profile
<1>6. g[l].wins + g[l].losses > 0 BY <1>3, <1>4, <1>5
<1>7. g[w].wins + g[w].losses > 0
  <2>1. CASE w = l BY <1>6, <2>1
  <2>2. CASE w # l
    <3>1. g[w] = f2[w] BY <1>3, <1>4, <2>2
    <3>2. g[w].wins = f[w].wins + 1 BY <1>1, <1>2, <3>1
    <3> QED BY <1>5, <3>2
  <2> QED BY <2>1, <2>2
<1>8. w # l => g[w].rating = x BY <1>2, <1>3, <1>4
<1>9. \A p \in D \ {w, l} : g[p] = f[p] BY <1>1, <1>2, <1>3, <1>4
<1>10. w # l => /\ g[w].wins = f[w].wins + 1 /\ g[w].losses = f[w].losses
                /\ g[l].losses = f[l].losses + 1 /\ g[l].wins = f[l].wins
  BY <1>1, <1>2, <1>3, <1>4
<1>11. g = WithDuel(f, w, l, x, y) BY DEF f1, f2, f3, g, WithDuel
<1> QED BY <1>4, <1>6, <1>7, <1>8, <1>9, <1>10, <1>11

(* The profile a match finds of p, and those it leaves behind.             *)
Before(p) == IF p \in DOMAIN profiles THEN profiles[p] ELSE NewProfile

Known(r) == DOMAIN profiles \cup DOMAIN r.stats

Rated(r) == Update(RatingOf(r.winner), RatingOf(r.loser))

(* What recording a match does to profiles and leaderboard, read from the  *)
(* nested updates of RecordMatch once and for all.                         *)
LEMMA RecordMatchEffect ==
    ASSUME TypeOK, DuelsAreListed, RecordMatch
    PROVE  LET r == Head(completed) IN
           /\ r.winner \in Known(r) /\ r.loser \in Known(r) /\ Known(r) \in SUBSET Player
           /\ Rated(r).winner \in Int /\ Rated(r).loser \in Int
           /\ \E summed \in [Known(r) -> Profile] :
                 /\ \A p \in Known(r) : /\ summed[p].rating = RatingOf(p)
                                        /\ summed[p].wins = Before(p).wins
                                        /\ summed[p].losses = Before(p).losses
                 /\ profiles' = WithDuel(summed, r.winner, r.loser,
                                         Rated(r).winner, Rated(r).loser)
           /\ board' = Place(Place(board, r.winner, Rated(r).winner),
                             r.loser, Rated(r).loser)
           /\ completed' \in Seq(MatchResult)
           /\ \A i \in DOMAIN completed' :
                 i + 1 \in DOMAIN completed /\ completed'[i] = completed[i + 1]
           /\ Len(completed') = Len(completed) - 1
PROOF
<1> DEFINE r == Head(completed)
           before == [p \in DOMAIN profiles \cup DOMAIN r.stats |->
                        IF p \in DOMAIN profiles THEN profiles[p] ELSE NewProfile]
           summed == [p \in DOMAIN before |->
                        IF p \notin DOMAIN r.stats THEN before[p]
                        ELSE WithTotals(before[p], r.stats[p])]
           rated  == Update(before[r.winner].rating, before[r.loser].rating)
           known  == Known(r)
<1>1. completed \in Seq(MatchResult) /\ completed # <<>>
  BY DEF TypeOK, RecordMatch
<1>2. /\ completed' = Tail(completed)
      /\ profiles' = WithDuel(summed, r.winner, r.loser, rated.winner, rated.loser)
      /\ board' = Place(Place(board, r.winner, rated.winner), r.loser, rated.loser)
  BY DEF RecordMatch, WithCounts, WithTotals, WithDuel
(* The result at the head, and the results behind it.                      *)
<1>3. /\ r \in MatchResult
      /\ r.winner \in DOMAIN r.stats /\ r.loser \in DOMAIN r.stats
  <2>1. 1 \in DOMAIN completed /\ r = completed[1] BY <1>1
  <2> QED BY <1>1, <2>1 DEF DuelsAreListed
<1>4. /\ Tail(completed) \in Seq(MatchResult)
      /\ \A i \in DOMAIN Tail(completed) :
            i + 1 \in DOMAIN completed /\ Tail(completed)[i] = completed[i + 1]
      /\ Len(Tail(completed)) = Len(completed) - 1
  BY <1>1
<1>5. /\ r.winner \in Player /\ r.loser \in Player
      /\ DOMAIN r.stats \in SUBSET Player
      /\ \A p \in DOMAIN r.stats : r.stats[p] \in Totals
  BY <1>3 DEF MatchResult
<1> HIDE DEF r
(* The profiles before rating.                                             *)
<1>6. known \in SUBSET Player /\ r.winner \in known /\ r.loser \in known
  BY <1>3, <1>5 DEF TypeOK, Known
<1>7. before \in [known -> Profile]
  <2>1. NewProfile \in Profile BY DEF NewProfile, Profile
  <2>2. profiles \in [DOMAIN profiles -> Profile] BY DEF TypeOK
  <2> QED BY <2>1, <2>2 DEF Known
<1>8. \A p \in known : before[p] = Before(p) BY DEF Before, Known
<1>9. \A p \in known : Before(p).rating = RatingOf(p)
  BY DEF Before, RatingOf, NewProfile
<1> HIDE DEF before, known
<1>10. ASSUME NEW p \in known
       PROVE  /\ summed[p] \in Profile
              /\ summed[p].rating = before[p].rating
              /\ summed[p].wins = before[p].wins
              /\ summed[p].losses = before[p].losses
  <2>1. before[p] \in Profile /\ p \in DOMAIN before BY <1>7, <1>10
  <2>2. CASE p \in DOMAIN r.stats
    <3>1. r.stats[p] \in Totals BY <1>5, <2>2
    <3>2. summed[p] = WithTotals(before[p], r.stats[p]) BY <2>1, <2>2
    <3> HIDE DEF summed
    <3> QED BY <2>1, <3>1, <3>2, SummedType
  <2>3. CASE p \notin DOMAIN r.stats BY <2>1, <2>3
  <2> QED BY <2>2, <2>3
<1>11. summed \in [known -> Profile]
  <2>1. DOMAIN summed = known BY <1>7
  <2>2. summed = [p \in DOMAIN summed |-> summed[p]] OBVIOUS
  <2> HIDE DEF summed
  <2> QED BY <1>10, <2>1, <2>2
<1>12. rated = Rated(r) BY <1>6, <1>8, <1>9 DEF Rated
<1>13. Rated(r).winner \in Int /\ Rated(r).loser \in Int
  <2>1. before[r.winner].rating \in Int /\ before[r.loser].rating \in Int
    BY <1>6, <1>7 DEF Profile
  <2> QED BY <1>12, <2>1, UpdateType
<1> HIDE DEF summed, rated
<1>14. \A p \in known : /\ summed[p].rating = RatingOf(p)
                        /\ summed[p].wins = Before(p).wins
                        /\ summed[p].losses = Before(p).losses
  BY <1>8, <1>9, <1>10
<1> QED BY <1>2, <1>4, <1>6, <1>11, <1>12, <1>13, <1>14 DEF known, r

(* A recorded match keeps the leaderboard the ranking of the ratings.      *)
LEMMA RecordMatchInvariant ==
    ASSUME StatsInv, RecordMatch
    PROVE  StatsInv'
PROOF
<1> DEFINE r     == Head(completed)
           rated == Rated(r)
           first == Place(board, r.winner, rated.winner)
           known == Known(r)
<1>1. TypeOK /\ DuelsAreListed /\ LeaderboardIsRanking BY DEF StatsInv
<1>2. /\ r.winner \in known /\ r.loser \in known /\ known \in SUBSET Player
      /\ rated.winner \in Int /\ rated.loser \in Int
      /\ \E summed \in [known -> Profile] :
            /\ \A p \in known : /\ summed[p].rating = RatingOf(p)
                                /\ summed[p].wins = Before(p).wins
                                /\ summed[p].losses = Before(p).losses
            /\ profiles' = WithDuel(summed, r.winner, r.loser, rated.winner, rated.loser)
      /\ board' = Place(first, r.loser, rated.loser)
      /\ completed' \in Seq(MatchResult)
      /\ \A i \in DOMAIN completed' :
            i + 1 \in DOMAIN completed /\ completed'[i] = completed[i + 1]
  BY <1>1, RecordMatchEffect
<1>3. /\ recorded' = recorded + 1 /\ updates' = updates + 2
      /\ UNCHANGED <<players, health, died, ticking, log, pending, hits, deadTotal>>
  BY DEF RecordMatch, session
<1> HIDE DEF r, rated, known, first
<1>4. DuelsAreListed' BY <1>1, <1>2 DEF DuelsAreListed
<1>5. PICK summed \in [known -> Profile] :
         /\ \A p \in known : /\ summed[p].rating = RatingOf(p)
                             /\ summed[p].wins = Before(p).wins
                             /\ summed[p].losses = Before(p).losses
         /\ profiles' = WithDuel(summed, r.winner, r.loser, rated.winner, rated.loser)
  BY <1>2
(* The profiles after rating.                                              *)
<1>13. /\ profiles' \in [known -> Profile]
       /\ profiles'[r.loser].rating = rated.loser
       /\ r.winner # r.loser => profiles'[r.winner].rating = rated.winner
       /\ \A p \in known \ {r.winner, r.loser} : profiles'[p] = summed[p]
       /\ profiles'[r.winner].wins + profiles'[r.winner].losses > 0
       /\ profiles'[r.loser].wins + profiles'[r.loser].losses > 0
  <2> DEFINE rerated == WithDuel(summed, r.winner, r.loser, rated.winner, rated.loser)
  <2>1. profiles' = rerated BY <1>5
  <2>2. /\ rerated \in [known -> Profile]
        /\ rerated[r.loser].rating = rated.loser
        /\ r.winner # r.loser => rerated[r.winner].rating = rated.winner
        /\ rerated[r.winner].wins + rerated[r.winner].losses > 0
        /\ rerated[r.loser].wins + rerated[r.loser].losses > 0
        /\ \A p \in known \ {r.winner, r.loser} : rerated[p] = summed[p]
    BY <1>2, RatedFacts
  <2> HIDE DEF rerated
  <2> QED BY <2>1, <2>2
<1>14. DOMAIN profiles' = known BY <1>13
(* Who was not there before has neither won nor lost.                      *)
<1>15. ASSUME NEW p \in known \ {r.winner, r.loser}
       PROVE  /\ profiles'[p].wins + profiles'[p].losses > 0
                     <=> p \in DOMAIN board.scores
              /\ p \in DOMAIN board.scores => board.scores[p] = profiles'[p].rating
  <2>1. /\ profiles'[p].wins = Before(p).wins /\ profiles'[p].losses = Before(p).losses
        /\ profiles'[p].rating = RatingOf(p)
    BY <1>5, <1>13, <1>15
  <2>2. CASE p \in DOMAIN profiles
    BY <1>1, <2>1, <2>2 DEF LeaderboardIsRanking, Before, RatingOf
  <2>3. CASE p \notin DOMAIN profiles
    <3>1. Before(p) = NewProfile BY <2>3 DEF Before
    <3>2. p \notin DOMAIN board.scores BY <1>1, <2>3 DEF LeaderboardIsRanking
    <3> QED BY <2>1, <3>1, <3>2 DEF NewProfile
  <2> QED BY <2>2, <2>3
(* The leaderboard after both were placed.                                 *)
<1>16. Agree(board) BY <1>1 DEF LeaderboardIsRanking, TypeOK, Agree
<1>17. /\ Agree(first)
       /\ DOMAIN first.scores = DOMAIN board.scores \cup {r.winner}
       /\ first.scores[r.winner] = rated.winner
       /\ \A q \in DOMAIN board.scores \ {r.winner} : first.scores[q] = board.scores[q]
  BY <1>16, PlaceAgrees DEF first
<1>18. /\ Agree(board')
       /\ DOMAIN board'.scores = DOMAIN first.scores \cup {r.loser}
       /\ board'.scores[r.loser] = rated.loser
       /\ \A q \in DOMAIN first.scores \ {r.loser} : board'.scores[q] = first.scores[q]
  BY <1>2, <1>17, PlaceAgrees
<1>19. DOMAIN board.scores \subseteq known
  BY <1>1 DEF LeaderboardIsRanking, known, Known
<1>20. DOMAIN board'.scores
          = {p \in DOMAIN profiles' : profiles'[p].wins + profiles'[p].losses > 0}
  <2>1. DOMAIN board'.scores = DOMAIN board.scores \cup {r.winner, r.loser}
    BY <1>17, <1>18
  <2> QED BY <1>2, <1>13, <1>14, <1>15, <1>19, <2>1
<1>21. ASSUME NEW p \in DOMAIN board'.scores
       PROVE  board'.scores[p] = profiles'[p].rating
  <2>1. CASE p = r.loser BY <1>13, <1>18, <2>1
  <2>2. CASE p # r.loser /\ p = r.winner BY <1>13, <1>17, <1>18, <2>2
  <2>3. CASE p # r.loser /\ p # r.winner
    <3>1. p \in DOMAIN board.scores BY <1>17, <1>18, <1>21, <2>3
    <3>2. board'.scores[p] = board.scores[p] BY <1>17, <1>18, <2>3, <3>1
    <3> QED BY <1>15, <1>19, <2>3, <3>1, <3>2
  <2> QED BY <2>1, <2>2, <2>3
<1>22. LeaderboardIsRanking' BY <1>18, <1>20, <1>21 DEF LeaderboardIsRanking, Agree
(* Types.                                                                  *)
<1>23. \A p \in DOMAIN board'.scores : board'.scores[p] \in Int
  BY <1>13, <1>14, <1>20, <1>21 DEF Profile
<1>24. board'.scores \in [DOMAIN board'.scores -> Int]
  <2>1. board'.scores = [p \in DOMAIN board'.scores |-> board'.scores[p]]
    BY <1>18 DEF Agree
  <2> QED BY <1>23, <2>1
<1>25. DOMAIN board'.ordered \in SUBSET Int BY <1>18, <1>23 DEF Agree
<1>26. /\ DOMAIN profiles' \in SUBSET Player /\ profiles' \in [DOMAIN profiles' -> Profile]
  BY <1>2, <1>13, <1>14
<1>27. completed' \in Seq(MatchResult) /\ recorded' \in Nat /\ updates' \in Nat
  <2>1. completed' \in Seq(MatchResult) BY <1>2
  <2>2. recorded \in Nat /\ updates \in Nat BY <1>1 DEF TypeOK
  <2> QED BY <1>3, <2>1, <2>2
<1>28. TypeOK' BY <1>1, <1>3, <1>24, <1>25, <1>26, <1>27 DEF TypeOK
<1> QED BY <1>4, <1>22, <1>28 DEF StatsInv

LEMMA StatsNextInvariant == ASSUME StatsInv, [Next]_vars PROVE StatsInv'
PROOF
<1>1. CASE \E p \in Player : JoinSession(p) \/ LeaveSession(p)
  BY <1>1, JoinSessionInvariant, LeaveSessionInvariant
<1>2. CASE \E s, t \in Player : Hit(s, t) BY <1>2, HitInvariant
<1>3. CASE EndTick BY <1>3, EndTickInvariant
<1>4. CASE RecordMatch BY <1>4, RecordMatchInvariant
<1>5. CASE UNCHANGED vars
  <2>1. UNCHANGED <<players, health, died, ticking, log, pending, hits, deadTotal,
                    completed, profiles, board, recorded, updates>>
    BY <1>5 DEF vars, session, service
  <2>2. TypeOK' BY <2>1 DEF StatsInv, TypeOK
  <2>3. DuelsAreListed' /\ LeaderboardIsRanking'
    BY <2>1 DEF StatsInv, DuelsAreListed, LeaderboardIsRanking
  <2> QED BY <2>2, <2>3 DEF StatsInv
<1> QED BY <1>1, <1>2, <1>3, <1>4, <1>5 DEF Next

(* The strengthened invariant holds in every reachable state.              *)
THEOREM StatsInvariance == Spec => []StatsInv
PROOF
<1>1. Init => StatsInv BY StatsInitInvariant
<1>2. StatsInv /\ [Next]_vars => StatsInv' BY StatsNextInvariant
<1> QED BY <1>1, <1>2, PTL DEF Spec

(* Session, results, profiles and leaderboard keep their types; the log    *)
(* stays within its capacity.                                              *)
THEOREM TypeCorrect == Spec => []TypeOK
PROOF
<1>1. StatsInv => TypeOK BY DEF StatsInv
<1> QED BY <1>1, StatsInvariance, PTL

(* scores_, ordered_ and the ratings of the profiles agree, whoever duels  *)
(* and however many duels one tick decides.                                *)
THEOREM RankingHolds == Spec => []LeaderboardIsRanking
PROOF
<1>1. StatsInv => LeaderboardIsRanking BY DEF StatsInv
<1> QED BY <1>1, StatsInvariance, PTL

-----------------------------------------------------------------------------
(* Deaths, duels and points.                                               *)

(* Nobody is killed by themselves, on any stretch of the way from a tick's *)
(* deaths to their recording; and the results of a tick are all recorded   *)
(* before the next.                                                        *)
DuelsOnTheirWay ==
    /\ ticking => completed = <<>>
    /\ \A i \in DOMAIN pending : pending[i].shooter # pending[i].target
    /\ \A i \in DOMAIN completed : completed[i].winner # completed[i].loser

DuelInv == DuelsOnTheirWay /\ EveryDeathIsOneDuel

(* The sums of the model, before and after a step.                         *)
LEMMA SumsAreColumns ==
    /\ \A field : Sum(field) = Column(profiles, field)
    /\ \A field : Sum(field)' = Column(profiles', field)
BY DEF Sum, Column, MapThenSumSet, MapThenFoldSet

(* The columns of a match's two players.                                   *)
LEMMA RecordMatchColumns ==
    ASSUME StatsInv, DuelsOnTheirWay, RecordMatch
    PROVE  LET r == Head(completed)
           IN  /\ Column(profiles', "wins") = Column(profiles, "wins") + 1
               /\ Column(profiles', "losses") = Column(profiles, "losses") + 1
               /\ Column(profiles', "rating")
                     = Column(profiles, "rating")
                         + 1200 * Cardinality(Known(r) \ DOMAIN profiles)
                         + (Rated(r).winner - RatingOf(r.winner))
                         + (Rated(r).loser - RatingOf(r.loser))
               /\ DOMAIN profiles' = Known(r)
               /\ RatingOf(r.winner) \in Int /\ RatingOf(r.loser) \in Int
PROOF
<1> DEFINE r     == Head(completed)
           known == Known(r)
           D     == DOMAIN profiles
           w     == r.winner
           l     == r.loser
<1>1. TypeOK /\ DuelsAreListed BY DEF StatsInv
<1>2. w # l
  <2>1. completed \in Seq(MatchResult) /\ completed # <<>>
    BY <1>1 DEF TypeOK, RecordMatch
  <2>2. 1 \in DOMAIN completed /\ r = completed[1] BY <2>1
  <2> QED BY <2>2 DEF DuelsOnTheirWay
<1>3. /\ w \in known /\ l \in known /\ known \in SUBSET Player
      /\ Rated(r).winner \in Int /\ Rated(r).loser \in Int
  BY <1>1, RecordMatchEffect
<1>4. PICK summed \in [known -> Profile] :
         /\ \A p \in known : /\ summed[p].rating = RatingOf(p)
                             /\ summed[p].wins = Before(p).wins
                             /\ summed[p].losses = Before(p).losses
         /\ profiles' = WithDuel(summed, w, l, Rated(r).winner, Rated(r).loser)
  BY <1>1, RecordMatchEffect
<1>5. D \subseteq known BY DEF Known
<1> HIDE DEF r, known, w, l
<1>6. /\ profiles' \in [known -> Profile]
      /\ profiles'[l].rating = Rated(r).loser /\ profiles'[w].rating = Rated(r).winner
      /\ profiles'[w].wins = summed[w].wins + 1 /\ profiles'[w].losses = summed[w].losses
      /\ profiles'[l].losses = summed[l].losses + 1 /\ profiles'[l].wins = summed[l].wins
      /\ \A p \in known \ {w, l} : profiles'[p] = summed[p]
  <2> DEFINE g == WithDuel(summed, w, l, Rated(r).winner, Rated(r).loser)
  <2>1. /\ g \in [known -> Profile]
        /\ g[l].rating = Rated(r).loser /\ g[w].rating = Rated(r).winner
        /\ g[w].wins = summed[w].wins + 1 /\ g[w].losses = summed[w].losses
        /\ g[l].losses = summed[l].losses + 1 /\ g[l].wins = summed[l].wins
        /\ \A p \in known \ {w, l} : g[p] = summed[p]
    BY <1>2, <1>3, RatedFacts
  <2> HIDE DEF g
  <2> QED BY <1>4, <2>1 DEF g
<1>7. /\ IsFiniteSet(known) /\ IsFiniteSet(D) /\ DOMAIN profiles' = known
  BY <1>3, <1>5, <1>6, FS_Subset, StatsAssumption
<1>8. /\ \A p \in D : /\ profiles[p].wins \in Int /\ profiles[p].losses \in Int
                      /\ profiles[p].rating \in Int
      /\ \A p \in known : /\ profiles'[p].wins \in Int /\ profiles'[p].losses \in Int
                          /\ profiles'[p].rating \in Int
                          /\ summed[p].wins \in Int /\ summed[p].losses \in Int
                          /\ summed[p].rating \in Int
  <2>1. ASSUME NEW q \in Profile
        PROVE  q.wins \in Int /\ q.losses \in Int /\ q.rating \in Int
    BY DEF Profile
  <2>2. \A p \in D : profiles[p] \in Profile BY <1>1 DEF TypeOK
  <2>3. \A p \in known : profiles'[p] \in Profile /\ summed[p] \in Profile
    BY <1>6
  <2> HIDE DEF D
  <2> QED BY <2>1, <2>2, <2>3
<1>9. \A p \in known :
         /\ summed[p].wins = IF p \in D THEN profiles[p].wins ELSE 0
         /\ summed[p].losses = IF p \in D THEN profiles[p].losses ELSE 0
         /\ summed[p].rating = IF p \in D THEN profiles[p].rating ELSE 1200
  BY <1>4 DEF Before, NewProfile, RatingOf
<1> DEFINE before(field) == [p \in D |-> profiles[p][field]]
           after(field)  == [p \in known |-> profiles'[p][field]]
<1>10. ASSUME NEW field \in {"wins", "losses", "rating"}
       PROVE  /\ Column(profiles, field) = Total(before(field))
              /\ Column(profiles', field) = Total(after(field))
              /\ before(field) \in [D -> Int] /\ after(field) \in [known -> Int]
              /\ Total(before(field)) \in Int
  <2>1. \A p \in D : profiles[p][field] \in Int BY <1>8
  <2>2. \A p \in DOMAIN profiles' : profiles'[p][field] \in Int BY <1>7, <1>8
  <2>3. Column(profiles, field) = Total(before(field)) BY <1>7, <2>1, ColumnIsTotal
  <2>4. Column(profiles', field) = Total(after(field)) BY <1>7, <2>2, ColumnIsTotal
  <2>5. before(field) \in [D -> Int] /\ after(field) \in [known -> Int]
    BY <1>7, <2>1, <2>2
  <2> HIDE DEF before
  <2>6. Total(before(field)) \in Int BY <1>7, <2>5, TotalTake
  <2> QED BY <2>3, <2>4, <2>5, <2>6 DEF before
<1> DEFINE new == Cardinality(known \ D)
<1>11. new \in Nat BY <1>7, FS_Subset, FS_CardinalityType
<1>12. Column(profiles', "wins") = Column(profiles, "wins") + 1
  <2> DEFINE f == before("wins")
             k == after("wins")
  <2>1. /\ f \in [D -> Int] /\ k \in [known -> Int] /\ Total(f) \in Int
        /\ Column(profiles, "wins") = Total(f) /\ Column(profiles', "wins") = Total(k)
    BY <1>10
  <2>2. \A p \in known \ {w, l} : k[p] = IF p \in D THEN f[p] ELSE 0 BY <1>6, <1>9
  <2>3. /\ summed[w].wins = (IF w \in D THEN f[w] ELSE 0)
        /\ summed[l].wins = (IF l \in D THEN f[l] ELSE 0)
    BY <1>3, <1>9
  <2>4. k[w] = summed[w].wins + 1 /\ k[l] = summed[l].wins BY <1>3, <1>6
  <2>5. summed[w].wins \in Int /\ summed[l].wins \in Int BY <1>3, <1>8
  <2> HIDE DEF f, k, D
  <2>6. Total(k) = Total(f) + 0 * new + (k[w] - summed[w].wins) + (k[l] - summed[l].wins)
    BY <1>2, <1>3, <1>5, <1>7, <2>1, <2>2, <2>3, <2>5, TotalOfDuel
  <2> HIDE DEF new
  <2> QED BY <1>11, <2>1, <2>4, <2>5, <2>6
<1>13. Column(profiles', "losses") = Column(profiles, "losses") + 1
  <2> DEFINE f == before("losses")
             k == after("losses")
  <2>1. /\ f \in [D -> Int] /\ k \in [known -> Int] /\ Total(f) \in Int
        /\ Column(profiles, "losses") = Total(f) /\ Column(profiles', "losses") = Total(k)
    BY <1>10
  <2>2. \A p \in known \ {w, l} : k[p] = IF p \in D THEN f[p] ELSE 0 BY <1>6, <1>9
  <2>3. /\ summed[w].losses = (IF w \in D THEN f[w] ELSE 0)
        /\ summed[l].losses = (IF l \in D THEN f[l] ELSE 0)
    BY <1>3, <1>9
  <2>4. k[w] = summed[w].losses /\ k[l] = summed[l].losses + 1 BY <1>3, <1>6
  <2>5. summed[w].losses \in Int /\ summed[l].losses \in Int BY <1>3, <1>8
  <2> HIDE DEF f, k, D
  <2>6. Total(k) = Total(f) + 0 * new + (k[w] - summed[w].losses)
                     + (k[l] - summed[l].losses)
    BY <1>2, <1>3, <1>5, <1>7, <2>1, <2>2, <2>3, <2>5, TotalOfDuel
  <2> HIDE DEF new
  <2> QED BY <1>11, <2>1, <2>4, <2>5, <2>6
<1>14. Column(profiles', "rating")
          = Column(profiles, "rating") + 1200 * new
              + (Rated(r).winner - RatingOf(w)) + (Rated(r).loser - RatingOf(l))
  <2> DEFINE f == before("rating")
             k == after("rating")
  <2>1. /\ f \in [D -> Int] /\ k \in [known -> Int] /\ Total(f) \in Int
        /\ Column(profiles, "rating") = Total(f) /\ Column(profiles', "rating") = Total(k)
    BY <1>10
  <2>2. \A p \in known \ {w, l} : k[p] = IF p \in D THEN f[p] ELSE 1200 BY <1>6, <1>9
  <2>3. /\ summed[w].rating = (IF w \in D THEN f[w] ELSE 1200)
        /\ summed[l].rating = (IF l \in D THEN f[l] ELSE 1200)
    BY <1>3, <1>9
  <2>4. k[w] = Rated(r).winner /\ k[l] = Rated(r).loser BY <1>3, <1>6
  <2>5. summed[w].rating \in Int /\ summed[l].rating \in Int BY <1>3, <1>8
  <2>6. summed[w].rating = RatingOf(w) /\ summed[l].rating = RatingOf(l) BY <1>3, <1>4
  <2> HIDE DEF f, k, D
  <2>7. Total(k) = Total(f) + 1200 * new + (k[w] - summed[w].rating)
                     + (k[l] - summed[l].rating)
    BY <1>2, <1>3, <1>5, <1>7, <2>1, <2>2, <2>3, <2>5, TotalOfDuel
  <2> QED BY <2>1, <2>4, <2>6, <2>7
<1>15. RatingOf(w) \in Int /\ RatingOf(l) \in Int BY <1>3, <1>4, <1>8
<1> QED BY <1>7, <1>12, <1>13, <1>14, <1>15 DEF r, known, w, l

(* A match between players of different ratings moves points and keeps     *)
(* them all; between equals the two roundings make a point, take one far   *)
(* below zero, and keep all near zero.                                     *)
LEMMA UpdateMovesPoints ==
    ASSUME NEW w \in Int, NEW l \in Int
    PROVE  Update(w, l).winner + Update(w, l).loser
              = w + l + (IF w # l THEN 0
                         ELSE IF w > 12 THEN 1 ELSE IF w > -13 THEN 0 ELSE -1)
PROOF
<1>1. CASE w # l
  <2>1. Points(w - l) \in Nat BY PointsType
  <2>2. /\ Update(w, l).winner = w + Points(w - l)
        /\ Update(w, l).loser = l - Points(w - l)
    BY <1>1 DEF Update
  <2> QED BY <1>1, <2>1, <2>2
<1>2. CASE w = l
  <2>1. /\ Update(w, l).winner = Rounded(2 * w + 25)
        /\ Update(w, l).loser = Rounded(2 * w - 25)
    BY <1>2 DEF Update
  <2>2. Rounded(2 * w + 25) = IF w > -13 THEN w + 13 ELSE w + 12 BY DEF Rounded
  <2>3. Rounded(2 * w - 25) = IF w > 12 THEN w - 12 ELSE w - 13 BY DEF Rounded
  <2> QED BY <1>2, <2>1, <2>2, <2>3
<1> QED BY <1>1, <1>2

LEMMA DuelInitInvariant == ASSUME Init PROVE DuelInv
PROOF
<1>1. DOMAIN profiles = {} /\ IsFiniteSet(DOMAIN profiles)
  BY FS_EmptySet DEF Init
<1>2. ASSUME NEW field PROVE Sum(field) = 0
  <2> DEFINE f == [p \in DOMAIN profiles |-> profiles[p][field]]
  <2>1. Sum(field) = Total(f) BY <1>1, SumsAreColumns, ColumnIsTotal
  <2>2. f \in [{} -> Int] BY <1>1
  <2> HIDE DEF f
  <2>3. Total(f) = 0 BY <1>1, <2>2, TotalTake
  <2> QED BY <2>1, <2>3
<1>3. Len(completed) = 0 /\ Len(pending) = 0 /\ deadTotal = 0 /\ recorded = 0
  BY DEF Init
<1>4. EveryDeathIsOneDuel BY <1>2, <1>3 DEF EveryDeathIsOneDuel
<1>5. DuelsOnTheirWay BY DEF Init, DuelsOnTheirWay
<1> QED BY <1>4, <1>5 DEF DuelInv

(* As long as no match is recorded the sums stay.                          *)
LEMMA SumsStay ==
    ASSUME UNCHANGED profiles
    PROVE  \A field : Sum(field)' = Sum(field)
PROOF
<1>1. \A field : Column(profiles', field) = Column(profiles, field)
  <2>1. profiles' = profiles OBVIOUS
  <2> QED BY <2>1, Zenon
<1> QED BY <1>1, SumsAreColumns, Zenon

LEMMA DuelNextInvariant == ASSUME StatsInv, DuelInv, [Next]_vars PROVE DuelInv'
PROOF
<1>0. /\ pending \in Seq(Event) /\ completed \in Seq(MatchResult)
      /\ deadTotal \in Nat /\ recorded \in Nat
      /\ DuelsOnTheirWay /\ EveryDeathIsOneDuel
  BY DEF StatsInv, TypeOK, DuelInv
<1>1. CASE \E p \in Player : JoinSession(p) \/ LeaveSession(p)
  <2>1. UNCHANGED <<ticking, pending, completed, deadTotal, profiles, recorded>>
    BY <1>1 DEF JoinSession, LeaveSession, service
  <2> QED BY <1>0, <2>1, SumsStay DEF DuelInv, DuelsOnTheirWay, EveryDeathIsOneDuel
<1>2. ASSUME NEW s \in Player, NEW t \in Player, Hit(s, t)
      PROVE  DuelInv'
  <2> DEFINE hit   == [type |-> "hit", shooter |-> s, target |-> t]
             death == [hit EXCEPT !.type = "death"]
  <2>1. /\ completed = <<>> /\ t # s
        /\ UNCHANGED <<completed, profiles, recorded>>
        /\ \/ pending' = Append(pending, death) /\ deadTotal' = deadTotal + 1
           \/ UNCHANGED <<pending, deadTotal>>
    BY <1>2 DEF Hit, service
  <2>2. death.shooter = s /\ death.target = t OBVIOUS
  <2> HIDE DEF death
  <2>3. \A i \in DOMAIN pending' : pending'[i].shooter # pending'[i].target
    <3>1. CASE UNCHANGED pending BY <1>0, <3>1 DEF DuelsOnTheirWay
    <3>2. CASE pending' = Append(pending, death)
      BY <1>0, <2>1, <2>2, <3>2 DEF DuelsOnTheirWay
    <3> QED BY <2>1, <3>1, <3>2
  <2>4. DuelsOnTheirWay' BY <1>0, <2>1, <2>3 DEF DuelsOnTheirWay
  <2>5. deadTotal' - Len(pending') = deadTotal - Len(pending)
        /\ deadTotal' \in Nat /\ Len(pending') \in Nat
    <3>1. CASE UNCHANGED <<pending, deadTotal>> BY <1>0, <3>1
    <3>2. CASE pending' = Append(pending, death) /\ deadTotal' = deadTotal + 1
      <4>1. Len(Append(pending, death)) = Len(pending) + 1 /\ Len(pending) \in Nat
        BY <1>0
      <4> QED BY <1>0, <3>2, <4>1
    <3> QED BY <2>1, <3>1, <3>2
  <2>6. deadTotal' = recorded' + Len(completed') + Len(pending')
    <3>1. Len(pending) \in Nat /\ Len(completed) \in Nat BY <1>0
    <3> QED BY <1>0, <2>1, <2>5, <3>1 DEF EveryDeathIsOneDuel
  <2> QED BY <1>0, <2>1, <2>4, <2>6, SumsStay DEF DuelInv, EveryDeathIsOneDuel
<1>3. CASE EndTick
  <2>1. /\ completed = <<>> /\ ticking' = FALSE /\ pending' = <<>>
        /\ completed' = [i \in DOMAIN pending |-> Collect(pending[i])]
        /\ UNCHANGED <<deadTotal, profiles, recorded>>
    BY <1>0, <1>3 DEF EndTick, service, DuelsOnTheirWay
  <2>2. \A i \in DOMAIN completed' : completed'[i].winner # completed'[i].loser
    BY <1>0, <2>1 DEF DuelsOnTheirWay, Collect
  <2>3. \A i \in DOMAIN pending' : pending'[i].shooter # pending'[i].target BY <2>1
  <2>4. DuelsOnTheirWay' BY <2>1, <2>2, <2>3 DEF DuelsOnTheirWay
  <2>5. Len(completed') = Len(pending) /\ Len(pending') = 0 /\ Len(completed) = 0
    <3>1. DOMAIN pending = 1 .. Len(pending) /\ Len(pending) \in Nat BY <1>0
    <3>2. completed' \in Seq(MatchResult) BY EndTickInvariant, <1>3 DEF StatsInv, TypeOK
    <3>3. DOMAIN completed' = DOMAIN pending BY <2>1
    <3>4. DOMAIN completed' = 1 .. Len(completed') /\ Len(completed') \in Nat BY <3>2
    <3>5. Len(completed') = Len(pending) BY <3>1, <3>3, <3>4
    <3> QED BY <2>1, <3>5
  <2>6. deadTotal' = recorded' + Len(completed') + Len(pending')
    <3>1. Len(pending) \in Nat BY <1>0
    <3> QED BY <1>0, <2>1, <2>5, <3>1 DEF EveryDeathIsOneDuel
  <2> QED BY <1>0, <2>1, <2>4, <2>6, SumsStay DEF DuelInv, EveryDeathIsOneDuel
<1>4. CASE RecordMatch
  <2>1. /\ completed # <<>> /\ recorded' = recorded + 1
        /\ UNCHANGED <<ticking, pending, deadTotal>>
    BY <1>4 DEF RecordMatch, session
  <2>2. /\ Len(completed') = Len(completed) - 1
        /\ \A i \in DOMAIN completed' :
              i + 1 \in DOMAIN completed /\ completed'[i] = completed[i + 1]
    BY <1>4, RecordMatchEffect DEF StatsInv
  <2>3. DuelsOnTheirWay' BY <1>0, <2>1, <2>2 DEF DuelsOnTheirWay
  <2>4. /\ Sum("wins")' = Sum("wins") + 1 /\ Sum("losses")' = Sum("losses") + 1
    BY <1>0, <1>4, RecordMatchColumns, SumsAreColumns
  <2>5. deadTotal' = recorded' + Len(completed') + Len(pending')
    <3>1. Len(pending) \in Nat /\ Len(completed) \in Nat BY <1>0
    <3> QED BY <1>0, <2>1, <2>2, <3>1 DEF EveryDeathIsOneDuel
  <2> QED BY <1>0, <2>1, <2>3, <2>4, <2>5 DEF DuelInv, EveryDeathIsOneDuel
<1>5. CASE UNCHANGED vars
  <2>1. UNCHANGED <<ticking, pending, completed, deadTotal, profiles, recorded>>
    BY <1>5 DEF vars, session, service
  <2> QED BY <1>0, <2>1, SumsStay DEF DuelInv, DuelsOnTheirWay, EveryDeathIsOneDuel
<1> QED BY <1>1, <1>2, <1>3, <1>4, <1>5 DEF Next

(* Every death announced is on its way to, or has been, one win and one    *)
(* loss of two different players: none is dropped between the tick, the    *)
(* collector and the profiles, and none is counted twice.                  *)
THEOREM DeathsAreDuels == Spec => []EveryDeathIsOneDuel
PROOF
<1>1. Init => DuelInv BY DuelInitInvariant
<1>2. StatsInv /\ DuelInv /\ [Next]_vars => DuelInv' BY DuelNextInvariant
<1>3. DuelInv => EveryDeathIsOneDuel BY DEF DuelInv
<1> QED BY <1>1, <1>2, <1>3, StatsInvariance, PTL DEF Spec

(* What a recorded match makes of the points.                              *)
LEMMA RecordMatchPoints ==
    ASSUME StatsInv, DuelsOnTheirWay, RecordMatch
    PROVE  LET r == Head(completed)
           IN  /\ Gained' = Gained + (Rated(r).winner + Rated(r).loser)
                                   - (RatingOf(r.winner) + RatingOf(r.loser))
               /\ Gained \in Int
               /\ RatingOf(r.winner) \in Int /\ RatingOf(r.loser) \in Int
PROOF
<1> DEFINE r     == Head(completed)
           known == Known(r)
           D     == DOMAIN profiles
           new   == Cardinality(known \ D)
<1>1. /\ Column(profiles', "rating")
            = Column(profiles, "rating") + 1200 * new
                + (Rated(r).winner - RatingOf(r.winner))
                + (Rated(r).loser - RatingOf(r.loser))
      /\ DOMAIN profiles' = known
      /\ RatingOf(r.winner) \in Int /\ RatingOf(r.loser) \in Int
  BY RecordMatchColumns
<1>2. /\ D \subseteq known /\ known \in SUBSET Player
      /\ Rated(r).winner \in Int /\ Rated(r).loser \in Int
  BY RecordMatchEffect DEF StatsInv, Known
<1> HIDE DEF r, known
<1>3. /\ IsFiniteSet(known) /\ IsFiniteSet(D)
      /\ Cardinality(known) \in Nat /\ Cardinality(D) \in Nat
  BY <1>2, FS_Subset, FS_CardinalityType, StatsAssumption
<1>4. new = Cardinality(known) - Cardinality(D)
  <2>1. known \cap D = D BY <1>2
  <2>2. Cardinality(known \ D) = Cardinality(known) - Cardinality(known \cap D)
    BY <1>3, FS_Difference
  <2> QED BY <2>1, <2>2
<1>5. Column(profiles, "rating") \in Int
  <2> DEFINE f == [p \in D |-> profiles[p]["rating"]]
  <2>1. \A p \in D : profiles[p]["rating"] \in Int BY DEF StatsInv, TypeOK, Profile
  <2>2. f \in [D -> Int] BY <2>1
  <2>3. Column(profiles, "rating") = Total(f) BY <1>3, <2>1, ColumnIsTotal
  <2> HIDE DEF f
  <2> QED BY <1>3, <2>2, <2>3, TotalTake
<1>6. /\ Gained = Column(profiles, "rating") - 1200 * Cardinality(D)
      /\ Gained' = Column(profiles', "rating") - 1200 * Cardinality(known)
  BY <1>1, SumsAreColumns DEF Gained
<1> HIDE DEF D, new
<1>7. Gained' = Gained + (Rated(r).winner + Rated(r).loser)
                       - (RatingOf(r.winner) + RatingOf(r.loser))
  BY <1>1, <1>2, <1>3, <1>4, <1>5, <1>6
<1>8. Gained \in Int BY <1>3, <1>5, <1>6
<1> QED BY <1>1, <1>7, <1>8 DEF r

(* No point is made or taken but by the rounding of a match between        *)
(* equals: one made above -13, one taken at or below.                      *)
THEOREM PointsAreConserved == Spec => RatingsAreConserved
PROOF
<1>1. ASSUME StatsInv, DuelInv, [Next]_vars, Gained' # Gained
      PROVE  /\ completed # <<>>
             /\ LET r == Head(completed)
                IN /\ RatingOf(r.winner) = RatingOf(r.loser)
                   /\ Gained' = Gained + (IF RatingOf(r.winner) > -13 THEN 1 ELSE -1)
  <2>1. CASE RecordMatch
    <3> DEFINE r == Head(completed)
               a == RatingOf(r.winner)
               b == RatingOf(r.loser)
    <3>1. completed # <<>> BY <2>1 DEF RecordMatch
    <3>2. /\ Gained' = Gained + (Rated(r).winner + Rated(r).loser) - (a + b)
          /\ Gained \in Int /\ a \in Int /\ b \in Int
      BY <1>1, <2>1, RecordMatchPoints DEF DuelInv
    <3>3. Rated(r) = Update(a, b) BY DEF Rated
    <3> HIDE DEF a, b, r
    <3>4. Rated(r).winner + Rated(r).loser
             = a + b + (IF a # b THEN 0 ELSE IF a > 12 THEN 1 ELSE IF a > -13 THEN 0 ELSE -1)
      <4>1. Update(a, b).winner + Update(a, b).loser
               = a + b + (IF a # b THEN 0
                          ELSE IF a > 12 THEN 1 ELSE IF a > -13 THEN 0 ELSE -1)
        <5>1. a \in Int /\ b \in Int BY <3>2
        <5> QED BY ONLY <5>1, UpdateMovesPoints
      <4> QED BY <3>3, <4>1
    <3>5. a = b /\ Gained' = Gained + (IF a > -13 THEN 1 ELSE -1)
      BY <1>1, <3>2, <3>4
    <3> QED BY <3>1, <3>5 DEF a, b, r
  <2>2. CASE ~RecordMatch
    <3>1. profiles' = profiles
      BY <1>1, <2>2
      DEF Next, JoinSession, LeaveSession, Hit, EndTick, vars, session, service
    <3>2. Sum("rating")' = Sum("rating") BY <3>1, SumsStay
    <3>3. Gained' = Gained BY <3>1, <3>2 DEF Gained
    <3> QED BY <1>1, <3>3
  <2> QED BY <2>1, <2>2
<1>2. Init => DuelInv BY DuelInitInvariant
<1>3. StatsInv /\ DuelInv /\ [Next]_vars => DuelInv' BY DuelNextInvariant
<1>4. Spec => [][StatsInv /\ DuelInv /\ [Next]_vars]_vars
  BY <1>2, <1>3, StatsInvariance, PTL DEF Spec
<1> QED BY <1>1, <1>4, PTL DEF RatingsAreConserved

-----------------------------------------------------------------------------
(* The pages of the router                                                 *)

Entry == [player : Player, score : Int]

(* The order of the leaderboard is strict and total for any order of ids.  *)
LEMMA OutranksIsOrder ==
    ASSUME NEW id \in IdOrders, NEW a \in Entry, NEW b \in Entry, NEW c \in Entry
    PROVE  /\ ~Outranks(a, a, id)
           /\ Outranks(a, b, id) /\ Outranks(b, c, id) => Outranks(a, c, id)
           /\ a # b => Outranks(a, b, id) \/ Outranks(b, a, id)
PROOF
<1>1. /\ a.score \in Int /\ b.score \in Int /\ c.score \in Int
      /\ a.player \in Player /\ b.player \in Player /\ c.player \in Player
  BY DEF Entry
<1>2. /\ \A p \in Player : id[p] \in Nat
      /\ \A p, q \in Player : id[p] = id[q] => p = q
  BY DEF IdOrders
<1>3. a = b <=> a.player = b.player /\ a.score = b.score BY DEF Entry
<1> DEFINE x == id[a.player]
           y == id[b.player]
           z == id[c.player]
<1>4. x \in Nat /\ y \in Nat /\ z \in Nat /\ (x = y => a.player = b.player)
  BY <1>1, <1>2
<1>5. \A e, f \in {a, b, c} :
         Outranks(e, f, id) <=> \/ e.score > f.score
                                \/ e.score = f.score /\ id[e.player] < id[f.player]
  BY DEF Outranks
<1> HIDE DEF x, y, z
<1>6. /\ Outranks(a, a, id) <=> a.score > a.score \/ (a.score = a.score /\ x < x)
      /\ Outranks(a, b, id) <=> a.score > b.score \/ (a.score = b.score /\ x < y)
      /\ Outranks(b, a, id) <=> b.score > a.score \/ (b.score = a.score /\ y < x)
      /\ Outranks(b, c, id) <=> b.score > c.score \/ (b.score = c.score /\ y < z)
      /\ Outranks(a, c, id) <=> a.score > c.score \/ (a.score = c.score /\ x < z)
  BY <1>5 DEF x, y, z
<1> QED BY <1>1, <1>3, <1>4, <1>6

(* s goes through S in the order of the leaderboard.                       *)
Ranks(s, S, id) ==
    /\ s \in [1 .. Cardinality(S) -> S]
    /\ \A i, j \in 1 .. Cardinality(S) : i < j => Outranks(s[i], s[j], id)

(* One more entry has its place in the order.                              *)
LEMMA RankInsert ==
    ASSUME NEW id \in IdOrders, NEW S \in SUBSET Entry, IsFiniteSet(S),
           NEW x \in Entry, x \notin S, NEW s, Ranks(s, S, id)
    PROVE  \E t : Ranks(t, S \cup {x}, id)
PROOF
<1> DEFINE n == Cardinality(S)
           late == {i \in 1 .. n : ~Outranks(s[i], x, id)} \cup {n + 1}
<1>1. n \in Nat /\ Cardinality(S \cup {x}) = n + 1
  BY FS_CardinalityType, FS_AddElement
<1>2. \A i \in 1 .. n : s[i] \in S /\ s[i] \in Entry BY DEF Ranks
<1>3. \A i, j \in 1 .. n : i < j => Outranks(s[i], s[j], id) BY DEF Ranks
<1>4. late \in SUBSET Nat /\ late # {} BY <1>1
<1>5. PICK k \in late : \A m \in late : k <= m
  <2> HIDE DEF late
  <2> QED BY <1>4, LeastNat
<1>6. k \in 1 .. n + 1 /\ \A i \in 1 .. n : i < k => Outranks(s[i], x, id)
  BY <1>1, <1>5
<1>7. \A i \in 1 .. n : i >= k => Outranks(x, s[i], id)
  <2> SUFFICES ASSUME NEW i \in 1 .. n, i >= k PROVE Outranks(x, s[i], id) OBVIOUS
  <2>1. k \in 1 .. n /\ ~Outranks(s[k], x, id) BY <1>1, <1>5, <1>6
  <2>2. Outranks(x, s[k], id)
    <3>1. s[k] # x /\ s[k] \in Entry BY <1>2, <2>1
    <3> QED BY <2>1, <3>1, OutranksIsOrder
  <2>3. CASE i = k BY <2>2, <2>3
  <2>4. CASE i > k
    <3>1. Outranks(s[k], s[i], id) BY <1>3, <2>1, <2>4
    <3> QED BY <1>2, <2>1, <2>2, <3>1, OutranksIsOrder
  <2> QED BY <1>6, <2>3, <2>4
<1> DEFINE t == [i \in 1 .. n + 1 |-> IF i < k THEN s[i] ELSE IF i = k THEN x ELSE s[i - 1]]
<1> HIDE DEF n, late
<1>8. t \in [1 .. n + 1 -> S \cup {x}]
  <2>1. ASSUME NEW i \in 1 .. n + 1 PROVE t[i] \in S \cup {x}
    <3>1. CASE i < k BY <1>1, <1>2, <1>6, <3>1
    <3>2. CASE i = k BY <3>2
    <3>3. CASE i > k
      <4>1. i - 1 \in 1 .. n BY <1>1, <1>6, <3>3
      <4> QED BY <1>2, <1>6, <3>3, <4>1
    <3> QED BY <1>1, <1>6, <3>1, <3>2, <3>3
  <2> QED BY <2>1
<1>9. ASSUME NEW i \in 1 .. n + 1, NEW j \in 1 .. n + 1, i < j
      PROVE  Outranks(t[i], t[j], id)
  <2>0. n \in Nat /\ k \in Nat /\ k >= 1 BY <1>1, <1>6
  <2>1. CASE j < k
    <3>1. i \in 1 .. n /\ j \in 1 .. n /\ t[i] = s[i] /\ t[j] = s[j]
      BY <1>6, <1>9, <2>0, <2>1
    <3> QED BY <1>3, <1>9, <3>1
  <2>2. CASE j = k
    <3>1. i \in 1 .. n /\ t[i] = s[i] /\ t[j] = x BY <1>6, <1>9, <2>0, <2>2
    <3> QED BY <1>6, <1>9, <2>2, <3>1
  <2>3. CASE j > k /\ i < k
    <3>1. i \in 1 .. n /\ j - 1 \in 1 .. n /\ t[i] = s[i] /\ t[j] = s[j - 1] /\ i < j - 1
      BY <1>6, <1>9, <2>0, <2>3
    <3> QED BY <1>3, <3>1
  <2>4. CASE j > k /\ i = k
    <3>1. j - 1 \in 1 .. n /\ t[i] = x /\ t[j] = s[j - 1] /\ j - 1 >= k
      BY <1>6, <1>9, <2>0, <2>4
    <3> QED BY <1>7, <3>1
  <2>5. CASE i > k
    <3>1. /\ i - 1 \in 1 .. n /\ j - 1 \in 1 .. n /\ i - 1 < j - 1
          /\ t[i] = s[i - 1] /\ t[j] = s[j - 1]
      BY <1>6, <1>9, <2>0, <2>5
    <3> QED BY <1>3, <3>1
  <2> QED BY <1>9, <2>0, <2>1, <2>2, <2>3, <2>4, <2>5
<1> HIDE DEF t
<1> QED BY <1>1, <1>8, <1>9 DEF Ranks, n

(* Finitely many entries can be ranked.                                    *)
LEMMA RankExists ==
    ASSUME NEW id \in IdOrders, NEW R \in SUBSET Entry, IsFiniteSet(R)
    PROVE  \E s : Ranks(s, R, id)
PROOF
<1> DEFINE bad == {S \in SUBSET R : ~\E s : Ranks(s, S, id)}
           sizes == {Cardinality(S) : S \in bad}
<1>1. \A S \in SUBSET R : IsFiniteSet(S) /\ Cardinality(S) \in Nat
  BY FS_Subset, FS_CardinalityType
<1>2. SUFFICES ASSUME ~\E s : Ranks(s, R, id) PROVE FALSE OBVIOUS
<1>3. R \in bad BY <1>2
<1>4. sizes \in SUBSET Nat /\ sizes # {} BY <1>1, <1>3
<1>5. PICK n \in sizes : \A m \in sizes : n <= m
  <2> HIDE DEF sizes
  <2> QED BY <1>4, LeastNat
<1>6. PICK S \in bad : n = Cardinality(S) BY <1>5
<1>7. S # {}
  <2>1. Ranks([i \in 1 .. 0 |-> 0], {}, id) BY FS_EmptySet DEF Ranks
  <2> QED BY <1>6, <2>1
<1>8. PICK x \in S : TRUE BY <1>7
<1> DEFINE T == S \ {x}
<1>9. Cardinality(T) = n - 1 /\ n \in Nat /\ IsFiniteSet(T)
  BY <1>1, <1>6, <1>8, FS_RemoveElement
<1>10. T \in SUBSET R /\ T \notin bad
  <2>1. T \in SUBSET R BY <1>6
  <2>2. T \in bad => Cardinality(T) \in sizes OBVIOUS
  <2> QED BY <1>5, <1>9, <2>1, <2>2
<1>11. PICK s : Ranks(s, T, id) BY <1>10
<1>12. \E t : Ranks(t, T \cup {x}, id)
  <2>1. T \in SUBSET Entry /\ x \in Entry /\ x \notin T BY <1>6, <1>8
  <2> HIDE DEF T
  <2> QED BY <1>9, <1>11, <2>1, RankInsert
<1>13. T \cup {x} = S BY <1>8
<1> QED BY <1>6, <1>12, <1>13

(* Ranking lists each entry once, the highest first.                       *)
LEMMA RankingRanks ==
    ASSUME NEW id \in IdOrders, NEW R \in SUBSET Entry, IsFiniteSet(R)
    PROVE  LET s == Ranking(R, id)
           IN /\ s \in Seq(Entry) /\ Len(s) = Cardinality(R) /\ DOMAIN s = 1 .. Len(s)
              /\ {s[i] : i \in 1 .. Len(s)} = R
              /\ \A i, j \in 1 .. Len(s) : i < j => Outranks(s[i], s[j], id)
PROOF
<1> DEFINE n == Cardinality(R)
           s == Ranking(R, id)
           all == {f \in [1 .. n -> R] : \A i, j \in 1 .. n : i # j => f[i] # f[j]}
<1>1. n \in Nat BY FS_CardinalityType
<1>2. PICK t : Ranks(t, R, id) BY RankExists
<1>3. t \in [1 .. n -> R] /\ \A i, j \in 1 .. n : i < j => Outranks(t[i], t[j], id)
  BY <1>2 DEF Ranks
<1>4. Seqs!SetToSeqs(R) = all
  BY DEF Seqs!SetToSeqs, Seqs!Cardinality, Cardinality
<1> HIDE DEF n
<1>5. t \in all /\ DOMAIN t = 1 .. n
  <2>1. ASSUME NEW i \in 1 .. n, NEW j \in 1 .. n, i # j PROVE t[i] # t[j]
    <3>1. t[i] \in Entry /\ t[j] \in Entry BY <1>1, <1>3
    <3>2. Outranks(t[i], t[j], id) \/ Outranks(t[j], t[i], id) BY <1>1, <1>3, <2>1
    <3> QED BY <3>1, <3>2, OutranksIsOrder
  <2> QED BY <1>3, <2>1
<1>6. s = CHOOSE f \in all : \A i, j \in DOMAIN f : i < j => Outranks(f[i], f[j], id)
  BY <1>4 DEF Ranking
<1>7. s \in all /\ \A i, j \in DOMAIN s : i < j => Outranks(s[i], s[j], id)
  <2>1. \E f \in all : \A i, j \in DOMAIN f : i < j => Outranks(f[i], f[j], id)
    BY <1>3, <1>5
  <2> HIDE DEF s, all
  <2> QED BY <1>6, <2>1
<1> HIDE DEF s
<1>8. s \in Seq(R) /\ s \in Seq(Entry) /\ Len(s) = n /\ DOMAIN s = 1 .. n
  <2>1. s \in [1 .. n -> R] BY <1>7
  <2>2. s \in Seq(R) BY <1>1, <2>1, SeqDef
  <2>3. s \in Seq(Entry) BY <1>1, <2>1, SeqDef
  <2>4. DOMAIN s = 1 .. n /\ DOMAIN s = 1 .. Len(s) /\ Len(s) \in Nat
    BY <2>1, <2>2, LenProperties
  <2> QED BY <1>1, <2>2, <2>3, <2>4
<1>9. {s[i] : i \in 1 .. n} = R
  <2>1. s \in Injection(1 .. n, R)
    BY <1>7 DEF Injection, IsInjective
  <2>2. Cardinality(1 .. n) = n BY <1>1, FS_Interval
  <2>3. s \in Surjection(1 .. n, R) BY <1>1, <2>1, <2>2, FS_Injection DEF n
  <2> QED BY <2>3 DEF Surjection
<1> QED BY <1>7, <1>8, <1>9 DEF n, s

Top(R, L, id) == FirstOf(Ranking(R, id), L)

TopSet(R, L, id) == {Top(R, L, id)[k] : k \in DOMAIN Top(R, L, id)}

TopRanked(R, L, id) == Ranking(TopSet(R, L, id), id)

(* A ranking cut off after L places, and ranked again, is its head.        *)
LEMMA HeadOfRanking ==
    ASSUME NEW id \in IdOrders, NEW R \in SUBSET Entry, IsFiniteSet(R), NEW L \in Nat
    PROVE  LET n     == Cardinality(R)
               m     == IF n < L THEN n ELSE L
               known == TopRanked(R, L, id)
           IN /\ n \in Nat /\ TopSet(R, L, id) \in SUBSET R
              /\ DOMAIN known = 1 .. m /\ \A k \in 1 .. m : known[k] \in R
              /\ \A j, k \in 1 .. m : j < k => Outranks(known[j], known[k], id)
              /\ \A k \in 1 .. m, e \in R :
                    (\A j \in 1 .. m : e # known[j]) => Outranks(known[k], e, id)
PROOF
<1> DEFINE n     == Cardinality(R)
           m     == IF n < L THEN n ELSE L
           s     == Ranking(R, id)
           top   == FirstOf(s, L)
           T     == {top[k] : k \in DOMAIN top}
           known == Ranking(T, id)
<1>1. /\ s \in Seq(Entry) /\ Len(s) = n /\ {s[i] : i \in 1 .. n} = R
      /\ \A i, j \in 1 .. n : i < j => Outranks(s[i], s[j], id)
  BY RankingRanks
<1>2. n \in Nat /\ m \in Nat /\ m <= n BY FS_CardinalityType
<1> HIDE DEF s
<1>3. \A i \in 1 .. n : s[i] \in R /\ s[i] \in Entry BY <1>1
<1>4. top \in Seq(R) /\ DOMAIN top = 1 .. m /\ \A i \in 1 .. m : top[i] = s[i]
  <2>1. top = SubSeq(s, 1, m) BY <1>1 DEF FirstOf
  <2>2. \A i \in 1 .. m : s[i] \in R BY <1>2, <1>3
  <2>3. /\ SubSeq(s, 1, m) \in Seq(R)
        /\ Len(SubSeq(s, 1, m)) = IF 1 <= m THEN m - 1 + 1 ELSE 0
        /\ \A i \in 1 .. m - 1 + 1 : SubSeq(s, 1, m)[i] = s[1 + i - 1]
    BY <1>2, <2>2, SubSeqProperties
  <2> HIDE DEF top
  <2>4. Len(top) = m BY <1>2, <2>1, <2>3
  <2> QED BY <1>2, <2>1, <2>3, <2>4, LenProperties
<1> HIDE DEF top
<1>5. T = {s[i] : i \in 1 .. m} /\ T \in SUBSET R BY <1>2, <1>3, <1>4
<1>6. IsFiniteSet(T) /\ Cardinality(T) = m
  <2> DEFINE f == [i \in 1 .. m |-> s[i]]
  <2>1. ASSUME NEW i \in 1 .. m, NEW j \in 1 .. m, i # j PROVE s[i] # s[j]
    <3>1. Outranks(s[i], s[j], id) \/ Outranks(s[j], s[i], id) BY <1>1, <1>2, <2>1
    <3>2. s[i] \in Entry /\ s[j] \in Entry BY <1>2, <1>3
    <3> QED BY <3>1, <3>2, OutranksIsOrder
  <2>2. f \in Bijection(1 .. m, T)
    BY <1>5, <2>1 DEF Bijection, Injection, Surjection, IsInjective
  <2>3. IsFiniteSet(1 .. m) /\ Cardinality(1 .. m) = m
    <3> HIDE DEF m
    <3> QED BY <1>2, FS_Interval
  <2> QED BY <2>2, <2>3, FS_Bijection DEF ExistsBijection
<1> HIDE DEF T
<1>7. T \in SUBSET Entry BY <1>5
<1>8. /\ Len(known) = m /\ DOMAIN known = 1 .. m
      /\ {known[i] : i \in 1 .. m} = T
      /\ \A i, j \in 1 .. m : i < j => Outranks(known[i], known[j], id)
  BY <1>6, <1>7, RankingRanks
<1> HIDE DEF known
<1>9. ASSUME NEW k \in 1 .. m, NEW e \in R, \A j \in 1 .. m : e # known[j]
      PROVE  Outranks(known[k], e, id)
  <2>1. known[k] \in T /\ e \notin T BY <1>8, <1>9
  <2>2. PICK i \in 1 .. m : known[k] = s[i] BY <1>5, <2>1
  <2>3. PICK j \in 1 .. n : e = s[j] BY <1>1
  <2>4. j \notin 1 .. m BY <1>5, <2>1, <2>3
  <2>5. i < j /\ i \in 1 .. n BY <1>2, <2>2, <2>3, <2>4
  <2> QED BY <1>1, <2>2, <2>3, <2>5
<1> QED BY <1>2, <1>5, <1>8, <1>9 DEF n, m, s, top, T, known, Top, TopSet, TopRanked

(* What the board has of a player.                                         *)
EntryOf(p) == [player |-> p, score |-> profiles[p].rating]

Listed == {q \in DOMAIN profiles : profiles[q].wins + profiles[q].losses > 0}

(* The board has one entry of each player who has won or lost.             *)
LEMMA EntriesOfListed ==
    ASSUME TypeOK, LeaderboardIsRanking
    PROVE  /\ Entries = {EntryOf(p) : p \in Listed}
           /\ Entries \in SUBSET Entry /\ IsFiniteSet(Entries)
           /\ IsFiniteSet({BuildProfile(p) : p \in Listed})
           /\ Cardinality({BuildProfile(p) : p \in Listed}) = Cardinality(Entries)
PROOF
<1> DEFINE E == {EntryOf(p) : p \in Listed}
           B == {BuildProfile(p) : p \in Listed}
<1>1. /\ DOMAIN board.scores = Listed
      /\ \A p \in Listed : board.scores[p] = profiles[p].rating
      /\ DOMAIN board.ordered = {board.scores[p] : p \in Listed}
      /\ \A s \in DOMAIN board.ordered :
            board.ordered[s] = {p \in Listed : board.scores[p] = s}
  BY DEF LeaderboardIsRanking, Listed
<1>2. Listed \in SUBSET Player /\ \A p \in Listed : profiles[p].rating \in Int
  BY DEF TypeOK, Listed, Profile
<1>3. IsFiniteSet(Listed) BY <1>2, FS_Subset, StatsAssumption
<1> HIDE DEF Listed
<1>4. Entries = E
  <2>1. ASSUME NEW s \in DOMAIN board.ordered, NEW p \in board.ordered[s]
        PROVE  p \in Listed /\ s = profiles[p].rating
    BY <1>1, <2>1
  <2>2. ASSUME NEW p \in Listed
        PROVE  /\ profiles[p].rating \in DOMAIN board.ordered
               /\ p \in board.ordered[profiles[p].rating]
    BY <1>1
  <2> QED BY <2>1, <2>2 DEF Entries, EntryOf
<1>5. E \in SUBSET Entry BY <1>2 DEF Entry, EntryOf
<1>6. IsFiniteSet(E) /\ Cardinality(E) = Cardinality(Listed)
  <2>1. [p \in Listed |-> EntryOf(p)] \in Bijection(Listed, E)
    <3>1. \A p, q \in Listed : EntryOf(p) = EntryOf(q) => p = q BY DEF EntryOf
    <3> QED BY <3>1 DEF Bijection, Injection, Surjection, IsInjective
  <2> QED BY <1>3, <2>1, FS_Bijection DEF ExistsBijection
<1>7. IsFiniteSet(B) /\ Cardinality(B) = Cardinality(Listed)
  <2>1. [p \in Listed |-> BuildProfile(p)] \in Bijection(Listed, B)
    <3>1. \A p, q \in Listed : BuildProfile(p) = BuildProfile(q) => p = q
      BY DEF BuildProfile
    <3> QED BY <3>1 DEF Bijection, Injection, Surjection, IsInjective
  <2> QED BY <1>3, <2>1, FS_Bijection DEF ExistsBijection
<1> QED BY <1>4, <1>5, <1>6, <1>7

(* A page of L rows: the players, in the order of the board.               *)
LEMMA PageOfPlayers ==
    ASSUME TypeOK, LeaderboardIsRanking, NEW id \in IdOrders, NEW L \in Nat
    PROVE  \E who, m :
              /\ m = IF Cardinality(Entries) < L THEN Cardinality(Entries) ELSE L
              /\ m \in Nat /\ Cardinality(Entries) \in Nat
              /\ who \in [1 .. m -> Listed]
              /\ TopProfiles(L, id) = [k \in 1 .. m |-> BuildProfile(who[k])]
              /\ \A j, k \in 1 .. m :
                    j < k => Outranks(EntryOf(who[j]), EntryOf(who[k]), id)
              /\ \A k \in 1 .. m, p \in Listed :
                    (\A j \in 1 .. m : p # who[j])
                       => Outranks(EntryOf(who[k]), EntryOf(p), id)
PROOF
<1> DEFINE n     == Cardinality(Entries)
           m     == IF n < L THEN n ELSE L
           top   == Top(Entries, L, id)
           known == TopRanked(Entries, L, id)
           who   == [k \in 1 .. m |-> known[k].player]
<1>1. /\ Entries = {EntryOf(p) : p \in Listed}
      /\ Entries \in SUBSET Entry /\ IsFiniteSet(Entries)
  BY EntriesOfListed
<1>2. /\ n \in Nat /\ TopSet(Entries, L, id) \in SUBSET Entries
      /\ DOMAIN known = 1 .. m /\ \A k \in 1 .. m : known[k] \in Entries
      /\ \A j, k \in 1 .. m : j < k => Outranks(known[j], known[k], id)
      /\ \A k \in 1 .. m, e \in Entries :
            (\A j \in 1 .. m : e # known[j]) => Outranks(known[k], e, id)
  BY <1>1, HeadOfRanking
<1>3. \A p : EntryOf(p).player = p BY DEF EntryOf
<1>4. Listed \in SUBSET DOMAIN profiles BY DEF Listed
<1>5. \A k \in 1 .. m : who[k] \in Listed /\ known[k] = EntryOf(who[k])
  <2> HIDE DEF known, m
  <2> QED BY <1>1, <1>2, <1>3
<1>6. TopProfiles(L, id) = [k \in 1 .. m |-> BuildProfile(who[k])]
  <2>1. {top[k] : k \in {j \in DOMAIN top : top[j].player \in DOMAIN profiles}}
           = {top[k] : k \in DOMAIN top}
    <3>1. \A j \in DOMAIN top : top[j].player \in DOMAIN profiles
      <4>1. \A j \in DOMAIN top : top[j] \in Entries BY <1>2 DEF TopSet
      <4> HIDE DEF top
      <4> QED BY <1>1, <1>3, <1>4, <4>1
    <3> QED BY <3>1
  <2>2. TopN(L, id) = top BY DEF TopN, Top
  <2> HIDE DEF top, m, who, known
  <2>3. TopProfiles(L, id) = [k \in DOMAIN known |-> BuildProfile(known[k].player)]
    BY <2>1, <2>2 DEF TopProfiles, known, top, TopRanked, TopSet
  <2>4. \A k \in 1 .. m : known[k].player = who[k] BY DEF who
  <2> QED BY <1>2, <2>3, <2>4
<1> HIDE DEF who
<1>7. ASSUME NEW j \in 1 .. m, NEW k \in 1 .. m, j < k
      PROVE  Outranks(EntryOf(who[j]), EntryOf(who[k]), id)
  <2>1. Outranks(known[j], known[k], id) BY <1>2, <1>7
  <2> QED BY <1>5, <2>1
<1>8. ASSUME NEW k \in 1 .. m, NEW p \in Listed, \A j \in 1 .. m : p # who[j]
      PROVE  Outranks(EntryOf(who[k]), EntryOf(p), id)
  <2>1. EntryOf(p) \in Entries BY <1>1
  <2>2. \A j \in 1 .. m : EntryOf(p) # known[j] BY <1>3, <1>5, <1>8
  <2>3. Outranks(known[k], EntryOf(p), id) BY <1>2, <2>1, <2>2
  <2> QED BY <1>5, <2>3
<1>9. who \in [1 .. m -> Listed] BY <1>5 DEF who
<1>10. m \in Nat BY <1>2
<1> HIDE DEF m, n
<1> QED BY <1>2, <1>6, <1>7, <1>8, <1>9, <1>10 DEF m, n

(* The smaller of two numbers.                                             *)
LEMMA MinOfTwo ==
    ASSUME NEW a \in Nat, NEW b \in Nat
    PROVE  Min({a, b}) = IF b < a THEN b ELSE a
PROOF
<1> DEFINE least == IF b < a THEN b ELSE a
<1>1. least \in {a, b} /\ \A y \in {a, b} : least <= y OBVIOUS
<1>2. \A x \in {a, b} : (\A y \in {a, b} : x <= y) => x = least OBVIOUS
<1> HIDE DEF least
<1>3. Min({a, b}) = least BY <1>1, <1>2 DEF Min
<1> QED BY <1>3 DEF least

(* The larger of one and a number.                                         *)
LEMMA MaxWithOne ==
    ASSUME NEW a \in Nat
    PROVE  Max({1, a}) = IF a = 0 THEN 1 ELSE a
PROOF
<1> DEFINE most == IF a = 0 THEN 1 ELSE a
<1>1. most \in {1, a} /\ \A y \in {1, a} : most >= y OBVIOUS
<1>2. \A x \in {1, a} : (\A y \in {1, a} : x >= y) => x = most OBVIOUS
<1> HIDE DEF most
<1>3. Max({1, a}) = most BY <1>1, <1>2 DEF Max
<1> QED BY <1>3 DEF most

(* The router parses a limit to what it asks for, within 1 to 50.          *)
LEMMA LimitOfPage ==
    ASSUME NEW limit \in {NoLimit} \cup 0 .. MaxUlong + 1
    PROVE  ParseLimit(limit) = Asked(limit) /\ ParseLimit(limit) \in 1 .. MaxPage
PROOF
<1>1. CASE limit \in 0 .. MaxUlong
  <2>1. limit \in Nat /\ MaxPage \in Nat /\ MaxPage > 0 BY <1>1, HttpAssumption
  <2>2. Min({limit, MaxPage}) = IF MaxPage < limit THEN MaxPage ELSE limit
    BY <2>1, MinOfTwo
  <2>3. Asked(limit) = IF Min({limit, MaxPage}) = 0 THEN 1 ELSE Min({limit, MaxPage})
    <3>1. Min({limit, MaxPage}) \in Nat BY <2>1, <2>2
    <3> QED BY <1>1, <3>1, MaxWithOne DEF Asked
  <2> QED BY <1>1, <2>1, <2>2, <2>3, HttpAssumption DEF ParseLimit, NoLimit
<1>2. CASE limit \notin 0 .. MaxUlong
  BY <1>2, HttpAssumption DEF ParseLimit, NoLimit, Asked
<1> QED BY <1>1, <1>2

(* What the router answers to the two requests that the pages are about.   *)
LEMMA RouterAnswers ==
    ASSUME NEW id, NEW limit, NEW p, p \in DOMAIN profiles
    PROVE  /\ Handle(Get("leaderboard", NoId, limit), id)
                 = Answer(200, TopProfiles(ParseLimit(limit), id))
           /\ Handle(Get("profile", p, NoLimit), id) = Answer(200, <<BuildProfile(p)>>)
PROOF
<1>1. Handle(Get("leaderboard", NoId, limit), id)
         = Answer(200, TopProfiles(ParseLimit(limit), id))
  BY DEF Handle, Get
<1>2. Handle(Get("profile", p, NoLimit), id) = HandleProfile(p)
  BY DEF Handle, Get
<1>3. HandleProfile(p) = Answer(200, <<BuildProfile(p)>>) BY DEF HandleProfile
<1> QED BY <1>1, <1>2, <1>3

(* The pages are right whenever the leaderboard is.                        *)
LEMMA PagesOfRanking == ASSUME TypeOK, LeaderboardIsRanking PROVE PagesAreRankings
PROOF
<1> SUFFICES ASSUME NEW id \in IdOrders, NEW limit \in {NoLimit} \cup 0 .. MaxUlong + 1
    PROVE  LET page   == Handle(Get("leaderboard", NoId, limit), id).body
               rows   == {page[k] : k \in DOMAIN page}
               ranked == {BuildProfile(p) : p \in Listed}
           IN  /\ rows \subseteq ranked
               /\ Len(page) = Min({Asked(limit), Cardinality(ranked)})
               /\ \A j, k \in DOMAIN page : j < k => Ahead(page[j], page[k], id)
               /\ \A k \in DOMAIN page, r \in ranked \ rows : Ahead(page[k], r, id)
               /\ \A k \in DOMAIN page :
                     Handle(Get("profile", page[k].id, NoLimit), id)
                        = Answer(200, <<page[k]>>)
  BY DEF PagesAreRankings, Listed
<1> DEFINE page   == Handle(Get("leaderboard", NoId, limit), id).body
           rows   == {page[k] : k \in DOMAIN page}
           ranked == {BuildProfile(p) : p \in Listed}
           L      == ParseLimit(limit)
           n      == Cardinality(Entries)
<1>1. L \in 1 .. MaxPage /\ L \in Nat /\ MaxPage \in Nat /\ L <= MaxPage
      /\ L = Asked(limit)
  BY LimitOfPage, HttpAssumption
<1>2. page = TopProfiles(L, id)
  <2>1. Handle(Get("leaderboard", NoId, limit), id) = Answer(200, TopProfiles(L, id))
    BY DEF Handle, Get
  <2> QED BY <2>1 DEF Answer
<1>3. Cardinality(ranked) = n BY EntriesOfListed
<1> HIDE DEF L
<1>4. PICK who, m :
         /\ m = IF n < L THEN n ELSE L
         /\ m \in Nat /\ n \in Nat
         /\ who \in [1 .. m -> Listed]
         /\ TopProfiles(L, id) = [k \in 1 .. m |-> BuildProfile(who[k])]
         /\ \A j, k \in 1 .. m : j < k => Outranks(EntryOf(who[j]), EntryOf(who[k]), id)
         /\ \A k \in 1 .. m, p \in Listed :
               (\A j \in 1 .. m : p # who[j]) => Outranks(EntryOf(who[k]), EntryOf(p), id)
  BY <1>1, PageOfPlayers
<1>5. \A p, q : Outranks(EntryOf(p), EntryOf(q), id)
                   => Ahead(BuildProfile(p), BuildProfile(q), id)
  BY DEF Outranks, EntryOf, Ahead, BuildProfile
<1>6. DOMAIN page = 1 .. m /\ \A k \in 1 .. m : /\ page[k] = BuildProfile(who[k])
                                               /\ who[k] \in Listed
  BY <1>2, <1>4
<1> HIDE DEF page
<1>7. Len(page) = m /\ page \in Seq(ranked)
  <2>1. page \in [1 .. m -> ranked]
    <3>1. page = [k \in 1 .. m |-> BuildProfile(who[k])] BY <1>2, <1>4
    <3> QED BY <1>6, <3>1
  <2> HIDE DEF ranked
  <2>2. page \in Seq(ranked) BY <1>4, <2>1, SeqDef
  <2>3. Len(page) \in Nat /\ DOMAIN page = 1 .. Len(page) BY <2>2, LenProperties
  <2> QED BY <1>4, <1>6, <2>2, <2>3
<1>8. rows \subseteq ranked BY <1>6
<1>9. Len(page) = Min({Asked(limit), Cardinality(ranked)})
  <2> HIDE DEF n, ranked
  <2>1. Min({L, n}) = IF n < L THEN n ELSE L BY <1>1, <1>4, MinOfTwo
  <2> QED BY <1>1, <1>3, <1>4, <1>7, <2>1
<1>10. ASSUME NEW j \in DOMAIN page, NEW k \in DOMAIN page, j < k
       PROVE  Ahead(page[j], page[k], id)
  BY <1>4, <1>5, <1>6, <1>10
<1>11. ASSUME NEW k \in DOMAIN page, NEW r \in ranked \ rows
       PROVE  Ahead(page[k], r, id)
  <2>1. PICK p \in Listed : r = BuildProfile(p) BY <1>11
  <2>2. \A j \in 1 .. m : p # who[j] BY <1>6, <1>11, <2>1
  <2>3. Outranks(EntryOf(who[k]), EntryOf(p), id) BY <1>4, <1>6, <2>2
  <2> QED BY <1>5, <1>6, <2>1, <2>3
<1>12. ASSUME NEW k \in DOMAIN page
       PROVE  Handle(Get("profile", page[k].id, NoLimit), id) = Answer(200, <<page[k]>>)
  <2>1. page[k] = BuildProfile(who[k]) /\ who[k] \in DOMAIN profiles
    BY <1>6, <1>12 DEF Listed
  <2>2. page[k].id = who[k] BY <2>1 DEF BuildProfile
  <2> QED BY <2>1, <2>2, RouterAnswers
<1> QED BY <1>8, <1>9, <1>10, <1>11, <1>12 DEF page

(* Pages of the router are heads of the ranking by the ratings, for any    *)
(* number of players, any size of a page and any order of the ids.         *)
THEOREM PagesRank == Spec => []PagesAreRankings
PROOF
<1>1. StatsInv => PagesAreRankings BY PagesOfRanking DEF StatsInv
<1> QED BY <1>1, StatsInvariance, PTL
=============================================================================
