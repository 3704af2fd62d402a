--------------------------- MODULE ClubRankingProofs ---------------------------
(***************************************************************************)
(* The one pass over the clubs finds the clubs whose stake grew most, and  *)
(* among them those with the largest stake, for any number of clubs in any *)
(* order and for any stakes.                                               *)
(***************************************************************************)
EXTENDS ClubRanking, Sums

\* The clubs that win: those whose stake grew most, and that no earlier club of
\* the same increase exceeds in stake.
Before(d, c) ==
    \E i, j \in DOMAIN Order : i < j /\ Order[i] = d /\ Order[j] = c
Unexceeded == {c \in Fastest : \A d \in Fastest : Before(d, c) => total[d] <= total[c]}

\* Clubs have stakes within the bound, now and when they were ranked last.
StakesBounded ==
    total \in [Clubs -> 0..MaxTotal] /\ snapshot \in [Clubs -> 0..MaxTotal]

LEMMA StakesAreNat ==
    ASSUME StakesBounded
    PROVE  \A d \in Clubs : /\ total[d] \in Nat /\ snapshot[d] \in Nat
                            /\ Increase(d) \in Int /\ Increase(d) >= -MAX_UFURY_COUNT
<1> TAKE d \in Clubs
<1>1. MaxTotal \in Nat /\ MAX_UFURY_COUNT \in Nat /\ MaxTotal <= MAX_UFURY_COUNT
  BY RankingAssumption, SupplyAssumption
<1>2. total[d] \in 0..MaxTotal /\ snapshot[d] \in 0..MaxTotal
  BY DEF StakesBounded
<1> HIDE DEF Clubs
<1> QED
  BY <1>1, <1>2 DEF Increase

LEMMA OrderNamed == Names(Order, Clubs)
<1> DEFINE n == Len(Order)
<1>1. Order \in Seq(Clubs) /\ IsInjective(Order) /\ DOMAIN Order = 1..n
  BY RankingAssumption, LenProperties
<1>2. \A i, j \in 1..n : Order[i] = Order[j] => i = j
  BY <1>1 DEF IsInjective
<1>3. \A d \in Clubs : \E i \in 1..n : Order[i] = d
  BY <1>1 DEF Clubs, ToSet
<1> HIDE DEF Clubs
<1> QED
  BY <1>1, <1>2, <1>3 DEF Names

-----------------------------------------------------------------------------
(***************************************************************************)
(* The pass as a sequence of results.                                      *)
(***************************************************************************)
RankState == [maxIncrease : Int, maxTotal : Nat, winners : Seq(Clubs),
              clubs : Nat, stake : Nat]

\* What ranking one club does.
Replaced(acc, next, club, t, increase) ==
    /\ increase > acc.maxIncrease
    /\ next.maxIncrease = increase /\ next.maxTotal = t /\ next.winners = <<club>>
Joined(acc, next, club, t, increase) ==
    /\ increase = acc.maxIncrease /\ t >= acc.maxTotal
    /\ next.maxIncrease = increase /\ next.maxTotal = t
    /\ next.winners = Append(acc.winners, club)
Passed(acc, next, t, increase) ==
    /\ \/ increase < acc.maxIncrease
       \/ increase = acc.maxIncrease /\ t < acc.maxTotal
    /\ next.maxIncrease = acc.maxIncrease /\ next.maxTotal = acc.maxTotal
    /\ next.winners = acc.winners

LEMMA RankTyped ==
    ASSUME NEW acc \in RankState, NEW club \in Clubs, NEW t \in Nat,
           NEW previous \in Nat
    PROVE  LET next == RankClub(acc, club, t, previous)
           IN  /\ next \in RankState
               /\ next.clubs = acc.clubs + 1 /\ next.stake = acc.stake + t
               /\ \/ Replaced(acc, next, club, t, t - previous)
                  \/ Joined(acc, next, club, t, t - previous)
                  \/ Passed(acc, next, t, t - previous)
<1> DEFINE next == RankClub(acc, club, t, previous)
           increase == t - previous
           clubs == acc.clubs + 1
           stake == acc.stake + t
           one == <<club>>
           more == Append(acc.winners, club)
<1>1. /\ acc.maxIncrease \in Int /\ acc.maxTotal \in Nat /\ acc.winners \in Seq(Clubs)
      /\ acc.clubs \in Nat /\ acc.stake \in Nat
  BY DEF RankState
<1>2. clubs \in Nat /\ stake \in Nat /\ increase \in Int
  <2>1. increase \in Int
    OBVIOUS
  <2> HIDE DEF next, increase, Clubs
  <2>2. clubs \in Nat
    BY <1>1
  <2>3. stake \in Nat
    BY <1>1
  <2> QED
    BY <2>1, <2>2, <2>3
<1>3. one \in Seq(Clubs) /\ more \in Seq(Clubs)
  <2> HIDE DEF Clubs
  <2> QED
    BY <1>1, AppendProperties
<1> DEFINE counted == [acc EXCEPT !.clubs = clubs, !.stake = stake]
<1> HIDE DEF increase, clubs, stake, one, more
<1>4. /\ counted \in RankState
      /\ counted.clubs = clubs /\ counted.stake = stake
      /\ counted.maxIncrease = acc.maxIncrease /\ counted.maxTotal = acc.maxTotal
      /\ counted.winners = acc.winners
  BY <1>2 DEF RankState
<1> HIDE DEF counted
<1>5. CASE increase > acc.maxIncrease
  <2>1. next = [counted EXCEPT !.maxIncrease = increase, !.maxTotal = t, !.winners = one]
    BY <1>5 DEF RankClub, counted, clubs, stake, one, increase
  <2> HIDE DEF next
  <2>2. /\ next \in RankState /\ next.clubs = clubs /\ next.stake = stake
        /\ next.maxIncrease = increase /\ next.maxTotal = t /\ next.winners = one
    BY <1>2, <1>3, <1>4, <2>1 DEF RankState
  <2> QED
    BY <1>5, <2>2 DEF Replaced, next, increase, clubs, stake, one
<1>6. CASE ~(increase > acc.maxIncrease) /\ Joins(acc, increase, t)
  <2>1. next = [counted EXCEPT !.maxTotal = t, !.winners = Append(@, club)]
    BY <1>6 DEF RankClub, counted, clubs, stake, increase
  <2> HIDE DEF next
  <2>2. /\ next \in RankState /\ next.clubs = clubs /\ next.stake = stake
        /\ next.maxIncrease = acc.maxIncrease /\ next.maxTotal = t /\ next.winners = more
    BY <1>2, <1>3, <1>4, <2>1 DEF RankState, more
  <2> QED
    BY <1>6, <2>2 DEF Joined, Joins, next, increase, clubs, stake, more
<1>7. CASE ~(increase > acc.maxIncrease) /\ ~Joins(acc, increase, t)
  <2>1. next = counted
    BY <1>7 DEF RankClub, counted, clubs, stake, increase
  <2> HIDE DEF next
  <2>2. increase < acc.maxIncrease \/ (increase = acc.maxIncrease /\ t < acc.maxTotal)
    BY <1>1, <1>2, <1>7 DEF Joins
  <2>3. Passed(acc, next, t, increase)
    BY <1>4, <2>1, <2>2 DEF Passed
  <2> QED
    BY <1>4, <2>1, <2>3 DEF next, increase, clubs, stake
<1> QED
  BY <1>5, <1>6, <1>7

LEMMA NoneRankedTyped == NoneRanked \in RankState
<1>1. << >> \in Seq(Clubs)
  BY EmptySeq
<1> QED
  BY <1>1, SupplyAssumption DEF NoneRanked, RankState

\* The results of the pass, club by club.
RankedFrom(c) ==
    /\ c[{}] = NoneRanked
    /\ \A k \in 1..Len(Order) :
          c[1..k] = RankClub(c[1..(k - 1)], Order[k], total[Order[k]], snapshot[Order[k]])

LEMMA RankingUnfolds ==
    ASSUME StakesBounded
    PROVE  \E c : RankedClubs(Order, total, snapshot) = c[1..Len(Order)] /\ RankedFrom(c)
<1> DEFINE list == Order
           n == Len(list)
           D == 1..n
           Folds(g) == g = [s \in SUBSET D |->
                              IF s = {} THEN NoneRanked
                              ELSE LET i == Max(s) IN RankClub(g[s \ {i}], list[i], total[list[i]], snapshot[list[i]])]
           step == [x \in RankState \X D |-> RankClub(x[1], list[x[2]], total[list[x[2]]], snapshot[list[x[2]]])]
           c == CHOOSE g : Folds(g)
<1>1. n \in Nat /\ DOMAIN list = D /\ \A i \in D : list[i] \in Clubs
  BY RankingAssumption, LenProperties, ElementOfSeq
<1>2. RankedClubs(list, total, snapshot) = c[D]
  BY <1>1 DEF FoldLeft, MapThenFoldSet, RankedClubs
<1> HIDE DEF c, n
<1>3. \A x \in RankState \X D : step[x] \in RankState
  <2> HIDE DEF RankState
  <2>1. \A x \in RankState \X D : x[1] \in RankState /\ list[x[2]] \in Clubs
    BY <1>1
  <2>2. \A d \in Clubs : total[d] \in Nat /\ snapshot[d] \in Nat
    BY StakesAreNat
  <2> HIDE DEF list, Clubs
  <2> QED
    BY <2>1, <2>2, RankTyped
<1>4. PICK g : ResultsOf(g, RankState, NoneRanked, step, D)
  <2> HIDE DEF step, RankState
  <2>1. NoneRanked \in RankState /\ n \in Nat /\ \A x \in RankState \X (1..n) : step[x] \in RankState
    BY <1>1, <1>3, NoneRankedTyped
  <2> QED
    BY <2>1, ResultsExist
<1>5. ASSUME NEW s \in SUBSET D
      PROVE  g[s] = IF s = {} THEN NoneRanked
                    ELSE LET i == Max(s) IN RankClub(g[s \ {i}], list[i], total[list[i]], snapshot[list[i]])
  <2>1. CASE s = {}
    BY <1>4, <2>1 DEF ResultsOf
  <2>2. CASE s # {}
    <3> DEFINE i == Max(s)
    <3>1. i \in D /\ g[s \ {i}] \in RankState /\ g[s] = step[<<g[s \ {i}], i>>]
      BY <1>4, <2>2 DEF ResultsOf
    <3> HIDE DEF i, D
    <3>2. g[s] = RankClub(g[s \ {i}], list[i], total[list[i]], snapshot[list[i]])
      BY <3>1
    <3> QED
      BY <2>2, <3>2 DEF i
  <2> QED
    BY <2>1, <2>2
<1>6. Folds(g)
  <2> DEFINE rhs(s) == IF s = {} THEN NoneRanked
                       ELSE LET i == Max(s) IN RankClub(g[s \ {i}], list[i], total[list[i]], snapshot[list[i]])
  <2>1. \A s \in SUBSET D : g[s] = rhs(s)
    BY <1>5
  <2> HIDE DEF rhs
  <2>2. g = [s \in SUBSET D |-> rhs(s)]
    BY <1>4, <2>1 DEF ResultsOf
  <2> QED
    BY <2>2 DEF rhs
<1>7. Folds(c)
  BY <1>6 DEF c
<1>8. c[{}] = NoneRanked
  BY <1>7
<1>9. ASSUME NEW k \in 1..n
      PROVE  c[1..k] = RankClub(c[1..(k - 1)], list[k], total[list[k]], snapshot[list[k]])
  <2>1. Max(1..k) = k /\ (1..k) \ {k} = 1..(k - 1)
    BY <1>1, LastIsMax
  <2>2. 1..k \in SUBSET D /\ 1..k # {}
    <3>1. k \in Nat /\ 1 <= k /\ k <= n
      BY <1>1
    <3>2. k \in 1..k /\ \A i \in 1..k : i \in 1..n
      BY <1>1, <3>1
    <3> QED
      BY <3>2
  <2> HIDE DEF D
  <2> QED
    BY <1>7, <2>1, <2>2
<1> QED
  BY <1>2, <1>8, <1>9 DEF RankedFrom, n

-----------------------------------------------------------------------------
(***************************************************************************)
(* What the pass has found of the first clubs.  The clubs of one increase  *)
(* are told by their places, as the order decides between them.            *)
(***************************************************************************)
Equals(m, k) == {i \in 1..k : Increase(Order[i]) = m}
Best(m, k) ==
    {i \in Equals(m, k) : \A j \in Equals(m, k) :
        j < i => total[Order[j]] <= total[Order[i]]}
ClubsAt(I) == {Order[i] : i \in I}

FoundOf(m, t, k) ==
    /\ \A i \in 1..k : Increase(Order[i]) <= m
    /\ \A i \in Equals(m, k) : total[Order[i]] <= t
    /\ k = 0 => m = -MAX_UFURY_COUNT /\ t = 0
    /\ k # 0 => \E i \in Best(m, k) : total[Order[i]] = t

RankedTo(acc, k) ==
    /\ acc \in RankState
    /\ FoundOf(acc.maxIncrease, acc.maxTotal, k)
    /\ Names(acc.winners, ClubsAt(Best(acc.maxIncrease, k)))
    /\ acc.clubs = k
    /\ acc.stake = SumFunctionOnSet(total, ClubsAt(1..k))

\* What one more place changes of the best ones, by its increase and stake.
LEMMA OneMorePlace ==
    ASSUME NEW k \in Nat, NEW m \in Int, NEW t \in Nat, FoundOf(m, t, k),
           \A i \in 1..(k + 1) : /\ total[Order[i]] \in Nat
                                  /\ Increase(Order[i]) \in Int
                                  /\ Increase(Order[i]) >= -MAX_UFURY_COUNT
    PROVE  LET n == k + 1
               more == Increase(Order[n])
               stake == total[Order[n]]
           IN  /\ more > m => FoundOf(more, stake, n) /\ Best(more, n) = {n}
               /\ more = m /\ stake >= t =>
                     FoundOf(m, stake, n) /\ Best(m, n) = Best(m, k) \cup {n}
               /\ more < m \/ (more = m /\ stake < t) =>
                     FoundOf(m, t, n) /\ Best(m, n) = Best(m, k)
<1> DEFINE n == k + 1
           more == Increase(Order[n])
           stake == total[Order[n]]
           inc(i) == Increase(Order[i])
           tot(i) == total[Order[i]]
<1>1. /\ \A i \in 1..n : i \in 1..k \/ i = n
      /\ \A i \in 1..k : i \in 1..n /\ i < n /\ i # n
      /\ n \in 1..n /\ n # 0 /\ n \in Nat
  OBVIOUS
<1>2. /\ \A i \in 1..n : tot(i) \in Nat /\ inc(i) \in Int /\ inc(i) >= -MAX_UFURY_COUNT
      /\ more = inc(n) /\ stake = tot(n) /\ stake \in Nat /\ more \in Int
      /\ more >= -MAX_UFURY_COUNT
  BY <1>1
<1>3. /\ \A i \in 1..k : inc(i) <= m
      /\ \A i \in Equals(m, k) : tot(i) <= t
      /\ k = 0 => m = -MAX_UFURY_COUNT /\ t = 0
      /\ k # 0 => \E i \in Best(m, k) : tot(i) = t
  BY DEF FoundOf
<1>4. /\ \A i, q, r : i \in Equals(q, r) <=> i \in 1..r /\ inc(i) = q
      /\ \A i, q, r : i \in Best(q, r) <=>
            i \in Equals(q, r) /\ \A j \in Equals(q, r) : j < i => tot(j) <= tot(i)
      /\ \A q, r, u : FoundOf(q, u, r) <=>
            /\ \A i \in 1..r : inc(i) <= q
            /\ \A i \in Equals(q, r) : tot(i) <= u
            /\ r = 0 => q = -MAX_UFURY_COUNT /\ u = 0
            /\ r # 0 => \E i \in Best(q, r) : tot(i) = u
  BY DEF Equals, Best, FoundOf
<1> HIDE DEF n, more, stake, inc, tot
<1>5. ASSUME more > m PROVE FoundOf(more, stake, n) /\ Best(more, n) = {n}
  <2>1. \A i \in 1..n : inc(i) <= more
    BY <1>1, <1>2, <1>3, <1>5
  <2>2. Equals(more, n) = {n}
    <3>1. \A i \in 1..k : inc(i) # more
      BY <1>1, <1>2, <1>3, <1>5
    <3> QED
      BY <1>1, <1>2, <1>4, <3>1
  <2>3. Best(more, n) = {n}
    <3>1. ~(n < n)
      BY <1>1
    <3> QED
      BY <1>4, <2>2, <3>1
  <2>4. stake <= stake
    BY <1>2
  <2> QED
    BY <1>1, <1>2, <1>4, <2>1, <2>2, <2>3, <2>4
<1>6. ASSUME more <= m
      PROVE  /\ \A i \in 1..n : inc(i) <= m
             /\ \A i \in Equals(m, n) : i \in Equals(m, k) \/ (i = n /\ more = m)
             /\ \A i \in Equals(m, k) : i \in Equals(m, n) /\ i < n /\ tot(i) <= t
             /\ more = m => n \in Equals(m, n)
  BY <1>1, <1>2, <1>3, <1>4, <1>6
<1>7. ASSUME more <= m, NEW i \in Equals(m, k)
      PROVE  i \in Best(m, n) <=> i \in Best(m, k)
  <2>1. \A j \in Equals(m, n) : j < i => j \in Equals(m, k)
    <3>1. ~(n < i)
      BY <1>1, <1>6, <1>7, <1>4
    <3> QED
      BY <1>6, <1>7, <3>1
  <2> QED
    BY <1>4, <1>6, <1>7, <2>1
<1>8. ASSUME more = m, stake >= t
      PROVE  FoundOf(m, stake, n) /\ Best(m, n) = Best(m, k) \cup {n}
  <2>0. more <= m
    BY <1>2, <1>8
  <2>1. \A i \in Equals(m, k) : tot(i) <= stake
    <3> TAKE i \in Equals(m, k)
    <3>1. tot(i) <= t /\ tot(i) \in Nat
      BY <1>1, <1>2, <1>4, <2>0, <1>6
    <3> QED
      BY <1>2, <1>8, <3>1
  <2>2. n \in Best(m, n)
    <3>1. \A j \in Equals(m, n) : j < n => tot(j) <= tot(n)
      <4>1. ~(n < n)
        BY <1>1
      <4> QED
        BY <1>2, <1>6, <2>0, <2>1, <4>1
    <3> QED
      BY <1>4, <1>6, <1>8, <2>0, <3>1
  <2>3. Best(m, n) = Best(m, k) \cup {n}
    <3>1. \A i : i \in Best(m, n) => i \in Equals(m, k) \/ i = n
      BY <1>4, <1>6, <2>0
    <3>2. \A i : i \in Best(m, k) => i \in Equals(m, k)
      BY <1>4
    <3> QED
      BY <1>7, <2>0, <2>2, <3>1, <3>2
  <2>4. stake <= stake
    BY <1>2
  <2>5. \A i \in Equals(m, n) : tot(i) <= stake
    BY <1>2, <1>6, <2>0, <2>1, <2>4
  <2> QED
    BY <1>1, <1>2, <1>4, <1>6, <2>0, <2>2, <2>3, <2>5
<1>9. ASSUME more < m \/ (more = m /\ stake < t)
      PROVE  FoundOf(m, t, n) /\ Best(m, n) = Best(m, k)
  <2>0. more <= m
    BY <1>2, <1>9
  <2>1. k # 0
    <3> SUFFICES ASSUME k = 0 PROVE FALSE
      OBVIOUS
    <3>1. m = -MAX_UFURY_COUNT /\ t = 0
      BY <1>3
    <3> QED
      BY <1>2, <1>9, <3>1, SupplyAssumption
  <2>2. PICK best \in Best(m, k) : tot(best) = t
    BY <1>3, <2>1
  <2>3. best \in Equals(m, k) /\ best < n
    BY <1>4, <1>6, <2>0, <2>2
  <2>4. n \notin Best(m, n)
    <3> SUFFICES ASSUME n \in Best(m, n) PROVE FALSE
      OBVIOUS
    <3>1. more = m
      BY <1>2, <1>4
    <3>2. tot(best) <= tot(n)
      BY <1>4, <1>6, <2>0, <2>3
    <3> QED
      BY <1>2, <1>9, <2>2, <3>1, <3>2
  <2>5. Best(m, n) = Best(m, k)
    <3>1. \A i : i \in Best(m, n) => i \in Equals(m, k)
      BY <1>4, <1>6, <2>0, <2>4
    <3>2. \A i : i \in Best(m, k) => i \in Equals(m, k)
      BY <1>4
    <3> QED
      BY <1>7, <2>0, <3>1, <3>2
  <2>6. \A i \in Equals(m, n) : tot(i) <= t
    <3>1. more = m => stake <= t
      BY <1>2, <1>9
    <3> QED
      BY <1>2, <1>6, <2>0, <3>1
  <2> QED
    BY <1>1, <1>4, <1>6, <2>0, <2>2, <2>5, <2>6
<1> QED
  BY <1>5, <1>8, <1>9 DEF more, stake, n

\* Ranking one more club.
LEMMA OneMoreRanked ==
    ASSUME StakesBounded, NEW k \in Nat, k + 1 <= Len(Order), NEW acc, RankedTo(acc, k)
    PROVE  LET x == Order[k + 1]
           IN  RankedTo(RankClub(acc, x, total[x], snapshot[x]), k + 1)
<1> DEFINE n == k + 1
           x == Order[n]
           t == total[x]
           more == Increase(x)
           next == RankClub(acc, x, t, snapshot[x])
           m == acc.maxIncrease
           best == Best(m, k)
           first(j) == {Order[i] : i \in 1..j}
           S == ClubsAt(1..k)
           V == ClubsAt(1..n)
<1>1. Names(Order, Clubs)
  BY OrderNamed
<1>2. /\ n \in 1..Len(Order) /\ n - 1 = k /\ x \in Clubs /\ x \notin first(k)
      /\ first(k) \subseteq Clubs /\ IsFiniteSet(first(k))
      /\ first(n) = first(k) \cup {x}
  <2> HIDE DEF Clubs
  <2> QED
    BY <1>1, FirstOfList
<1>3. S = first(k) /\ V = first(n)
  BY DEF ClubsAt
<1>4. /\ t \in Nat /\ snapshot[x] \in Nat /\ more = t - snapshot[x] /\ more \in Int
      /\ \A i \in 1..n : /\ total[Order[i]] \in Nat /\ Increase(Order[i]) \in Int
                         /\ Increase(Order[i]) >= -MAX_UFURY_COUNT
  <2>1. Len(Order) \in Nat /\ \A i \in 1..Len(Order) : Order[i] \in Clubs
    BY <1>1, NamesCounted
  <2>2. \A i \in 1..n : Order[i] \in Clubs
    <3> HIDE DEF Clubs
    <3> QED
      BY <2>1
  <2> HIDE DEF Clubs
  <2>3. more = t - snapshot[x]
    BY DEF Increase
  <2> QED
    BY <1>2, <2>2, <2>3, StakesAreNat
<1>5. /\ acc \in RankState /\ m \in Int /\ acc.maxTotal \in Nat /\ acc.stake \in Nat
      /\ FoundOf(m, acc.maxTotal, k)
      /\ Names(acc.winners, ClubsAt(best))
      /\ acc.clubs = k /\ acc.stake = SumFunctionOnSet(total, S)
  BY DEF RankedTo, RankState
<1>6. /\ next \in RankState /\ next.clubs = acc.clubs + 1 /\ next.stake = acc.stake + t
      /\ \/ Replaced(acc, next, x, t, more)
         \/ Joined(acc, next, x, t, more)
         \/ Passed(acc, next, t, more)
  <2> DEFINE p == snapshot[x]
             ranked == RankClub(acc, x, t, p)
  <2>1. /\ acc \in RankState /\ x \in Clubs /\ t \in Nat /\ p \in Nat
        /\ next = ranked /\ more = t - p
    BY <1>2, <1>4, <1>5
  <2> HIDE DEF RankState, Clubs, x, t, next, more, p
  <2>2. /\ ranked \in RankState
        /\ ranked.clubs = acc.clubs + 1 /\ ranked.stake = acc.stake + t
        /\ \/ Replaced(acc, ranked, x, t, t - p)
           \/ Joined(acc, ranked, x, t, t - p)
           \/ Passed(acc, ranked, t, t - p)
    BY <2>1, RankTyped
  <2> HIDE DEF ranked
  <2> QED
    BY <2>1, <2>2
<1>7. /\ more > m => FoundOf(more, t, n) /\ Best(more, n) = {n}
      /\ more = m /\ t >= acc.maxTotal =>
            FoundOf(m, t, n) /\ Best(m, n) = best \cup {n}
      /\ more < m \/ (more = m /\ t < acc.maxTotal) =>
            FoundOf(m, acc.maxTotal, n) /\ Best(m, n) = best
  <2> HIDE DEF m
  <2> QED
    BY <1>4, <1>5, OneMorePlace
<1>8. x \notin ClubsAt(best) /\ ClubsAt(best \cup {n}) = ClubsAt(best) \cup {x}
      /\ ClubsAt({n}) = {x}
  <2>1. best \subseteq 1..k
    BY DEF Best, Equals
  <2> HIDE DEF best
  <2> QED
    BY <1>2, <2>1 DEF ClubsAt
<1>9. next.stake = SumFunctionOnSet(total, V)
  <2>1. /\ IsFiniteSet(V) /\ x \in V /\ V \ {x} = S
        /\ \A w \in V : total[w] \in Int
    <3>1. V \subseteq Clubs /\ IsFiniteSet(V)
      <4>1. IsFiniteSet(S \cup {x})
        <5> HIDE DEF S, x
        <5> QED
          BY <1>2, <1>3, FS_AddElement
      <4> QED
        BY <1>2, <1>3, <4>1
    <3> HIDE DEF V, Clubs, S, x, first
    <3> QED
      BY <1>2, <1>3, <3>1, StakesAreNat
  <2> DEFINE all == SumFunctionOnSet(total, V)
             rest == SumFunctionOnSet(total, S)
  <2> HIDE DEF V, S, x
  <2>2. all = total[x] + SumFunctionOnSet(total, V \ {x})
    BY <2>1, SumWithout
  <2>3. all = t + rest
    BY <2>1, <2>2
  <2>4. acc.stake = rest /\ next.stake = acc.stake + t
    BY <1>5, <1>6
  <2> HIDE DEF all, rest, t, next
  <2>5. next.stake = all
    BY <1>4, <1>5, <2>3, <2>4
  <2> QED
    BY <2>5 DEF all
<1>10. next.clubs = n
  BY <1>5, <1>6
<1> HIDE DEF next, x, t, more, m, best, V, S, n
<1>11. CASE Replaced(acc, next, x, t, more)
  <2>1. more > m /\ next.maxIncrease = more /\ next.maxTotal = t /\ next.winners = <<x>>
    BY <1>11 DEF Replaced, m
  <2>2. Names(Append(<< >>, x), {} \cup {x})
    BY NamesOfNone, OneMoreName
  <2>3. Append(<< >>, x) = <<x>> /\ {} \cup {x} = {x}
    OBVIOUS
  <2>4. Names(next.winners, ClubsAt(Best(next.maxIncrease, n)))
    BY <1>7, <1>8, <2>1, <2>2, <2>3
  <2> QED
    BY <1>6, <1>7, <1>9, <1>10, <2>1, <2>4 DEF RankedTo, V, next, x, t, n
<1>12. CASE Joined(acc, next, x, t, more)
  <2>1. /\ more = m /\ t >= acc.maxTotal /\ next.maxIncrease = m /\ next.maxTotal = t
        /\ next.winners = Append(acc.winners, x)
    BY <1>12 DEF Joined, m
  <2>2. Names(next.winners, ClubsAt(best) \cup {x})
    BY <1>5, <1>8, <2>1, OneMoreName
  <2>3. Names(next.winners, ClubsAt(Best(next.maxIncrease, n)))
    BY <1>7, <1>8, <2>1, <2>2
  <2> QED
    BY <1>6, <1>7, <1>9, <1>10, <2>1, <2>3 DEF RankedTo, V, next, x, t, n
<1>13. CASE Passed(acc, next, t, more)
  <2>1. /\ more < m \/ (more = m /\ t < acc.maxTotal)
        /\ next.maxIncrease = m /\ next.maxTotal = acc.maxTotal
        /\ next.winners = acc.winners
    BY <1>13 DEF Passed, m
  <2>2. Names(next.winners, ClubsAt(Best(next.maxIncrease, n)))
    BY <1>5, <1>7, <2>1
  <2> QED
    BY <1>6, <1>7, <1>9, <1>10, <2>1, <2>2 DEF RankedTo, V, next, x, t, n
<1> QED
  BY <1>6, <1>11, <1>12, <1>13 DEF next, x, t, n

LEMMA NoneRankedYet == StakesBounded => RankedTo(NoneRanked, 0)
<1> SUFFICES ASSUME StakesBounded PROVE RankedTo(NoneRanked, 0)
  OBVIOUS
<1>1. 1..0 = {} /\ \A m : Equals(m, 0) = {} /\ Best(m, 0) = {}
  BY DEF Equals, Best
<1>2. ClubsAt({}) = {}
  BY DEF ClubsAt
<1>3. /\ NoneRanked.maxIncrease = -MAX_UFURY_COUNT /\ NoneRanked.maxTotal = 0
      /\ NoneRanked.winners = << >> /\ NoneRanked.clubs = 0 /\ NoneRanked.stake = 0
  BY DEF NoneRanked
<1>4. SumFunctionOnSet(total, {}) = 0
  BY SumOfNone
<1>5. FoundOf(NoneRanked.maxIncrease, NoneRanked.maxTotal, 0)
  BY <1>1, <1>3 DEF FoundOf
<1> QED
  BY <1>1, <1>2, <1>3, <1>4, <1>5, NoneRankedTyped, NamesOfNone DEF RankedTo

LEMMA AllRanked ==
    ASSUME StakesBounded
    PROVE  RankedTo(RankedClubs(Order, total, snapshot), Len(Order))
<1> DEFINE n == Len(Order)
<1>1. n \in Nat
  BY OrderNamed, NamesCounted
<1>2. PICK c : RankedClubs(Order, total, snapshot) = c[1..n] /\ RankedFrom(c)
  BY RankingUnfolds
<1> DEFINE Q == {k \in Nat : k <= n => RankedTo(c[1..k], k)}
<1>3. 0 \in Q
  <2>1. 1..0 = {} /\ c[{}] = NoneRanked
    BY <1>2 DEF RankedFrom
  <2> QED
    BY <2>1, NoneRankedYet
<1>4. ASSUME NEW k \in Nat, k \in Q
      PROVE  k + 1 \in Q
  <2> SUFFICES ASSUME k + 1 <= n
               PROVE  RankedTo(c[1..(k + 1)], k + 1)
    OBVIOUS
  <2>1. RankedTo(c[1..k], k)
    BY <1>1, <1>4
  <2> DEFINE x == Order[k + 1]
             next == RankClub(c[1..k], x, total[x], snapshot[x])
  <2>2. RankedTo(next, k + 1)
    BY <2>1, OneMoreRanked
  <2>3. c[1..(k + 1)] = next
    <3>1. k + 1 \in 1..n /\ (k + 1) - 1 = k
      BY <1>1
    <3> QED
      BY <1>2, <3>1 DEF RankedFrom
  <2> QED
    BY <2>2, <2>3
<1> HIDE DEF Q
<1>5. n \in Q
  BY <1>1, <1>3, <1>4, NatSetInduction
<1>6. RankedTo(c[1..n], n)
  <2>1. n <= n
    BY <1>1
  <2> QED
    BY <1>5, <2>1 DEF Q
<1> QED
  BY <1>2, <1>6

-----------------------------------------------------------------------------
(***************************************************************************)
(* What was found of all places are the clubs that no earlier one exceeds. *)
(***************************************************************************)
LEMMA BestAreUnexceeded ==
    ASSUME StakesBounded, NEW m \in Int, NEW t \in Nat, FoundOf(m, t, Len(Order))
    PROVE  ClubsAt(Best(m, Len(Order))) = Unexceeded
<1> DEFINE n == Len(Order)
           best == Best(m, n)
<1>1. /\ n \in Nat /\ DOMAIN Order = 1..n
      /\ \A i \in 1..n : Order[i] \in Clubs
      /\ \A d \in Clubs : \E i \in 1..n : Order[i] = d
      /\ \A i, j \in 1..n : Order[i] = Order[j] => i = j
  <2>1. Names(Order, Clubs) /\ Order \in Seq(Clubs)
    BY OrderNamed DEF Names
  <2> QED
    BY <2>1, NamesCounted, LenProperties DEF Names
<1> HIDE DEF Clubs, n
<1>2. \A d \in Clubs : Increase(d) \in Int
  BY StakesAreNat
<1>3. \A i \in 1..n : Increase(Order[i]) <= m
  BY DEF FoundOf, n
<1>4. n # 0 => \E i \in 1..n : Increase(Order[i]) = m
  <2>1. \A i \in Best(m, n) : i \in 1..n /\ Increase(Order[i]) = m
    BY DEF Best, Equals
  <2> QED
    BY <2>1 DEF FoundOf, n
<1>5. \A i \in 1..n : Order[i] \in Fastest <=> i \in Equals(m, n)
  <2> TAKE i \in 1..n
  <2>1. ASSUME i \in Equals(m, n) PROVE Order[i] \in Fastest
    <3>1. Increase(Order[i]) = m
      BY <2>1 DEF Equals
    <3>2. \A d \in Clubs : Increase(d) <= m
      BY <1>1, <1>3
    <3> QED
      BY <1>1, <3>1, <3>2 DEF Fastest
  <2>2. ASSUME Order[i] \in Fastest PROVE i \in Equals(m, n)
    <3>1. n # 0
      BY <1>1
    <3>2. PICK j \in 1..n : Increase(Order[j]) = m
      BY <1>4, <3>1
    <3>3. m <= Increase(Order[i]) /\ Increase(Order[i]) <= m
      BY <1>1, <1>3, <2>2, <3>2 DEF Fastest
    <3>4. Increase(Order[i]) = m
      BY <1>1, <1>2, <3>3
    <3> QED
      BY <3>4 DEF Equals
  <2> QED
    BY <2>1, <2>2
<1>6. \A i, j \in 1..n : Before(Order[i], Order[j]) <=> i < j
  BY <1>1 DEF Before
<1>7. \A i \in 1..n : Order[i] \in Unexceeded <=> i \in best
  <2> TAKE i \in 1..n
  <2>1. \A j : j \in Equals(m, n) => j \in 1..n
    BY DEF Equals
  <2>2. Order[i] \in Unexceeded <=>
          /\ Order[i] \in Fastest
          /\ \A d \in Fastest : Before(d, Order[i]) => total[d] <= total[Order[i]]
    BY DEF Unexceeded
  <2>3. i \in best <=>
          /\ i \in Equals(m, n)
          /\ \A j \in Equals(m, n) : j < i => total[Order[j]] <= total[Order[i]]
    BY DEF Best
  <2>4. \A d \in Fastest : \E j \in Equals(m, n) : Order[j] = d
    <3>1. \A d \in Fastest : d \in Clubs
      BY DEF Fastest
    <3> QED
      BY <1>1, <1>5, <3>1
  <2> HIDE DEF best
  <2> QED
    BY <1>5, <1>6, <2>1, <2>2, <2>3, <2>4
<1>8. best \subseteq 1..n /\ Unexceeded \subseteq Clubs
  BY DEF Best, Equals, Unexceeded, Fastest
<1> HIDE DEF best
<1>9. ClubsAt(best) = Unexceeded
  BY <1>1, <1>7, <1>8 DEF ClubsAt
<1> QED
  BY <1>9 DEF best, n

LEMMA WinnersAreUnexceeded ==
    ASSUME StakesBounded
    PROVE  /\ ToSet(Ranked.winners) = Unexceeded
           /\ Len(Ranked.winners) = Cardinality(Unexceeded)
           /\ Ranked.winnerStake \in Nat
           /\ Order # << >> => \E c \in Unexceeded : Ranked.winnerStake = total[c]
           /\ \A c \in Unexceeded : Ranked.winnerStake >= total[c]
           /\ Ranked.clubs = Len(Order)
           /\ Ranked.stake = SumFunction(total)
<1> DEFINE n == Len(Order)
           ranked == RankedClubs(Order, total, snapshot)
           m == ranked.maxIncrease
           best == Best(m, n)
<1>1. /\ Ranked.clubs = ranked.clubs /\ Ranked.stake = ranked.stake
      /\ Ranked.winnerStake = ranked.maxTotal /\ Ranked.winners = ranked.winners
  BY DEF Ranked, WinningClubs
<1>2. RankedTo(ranked, n)
  BY AllRanked
<1> HIDE DEF ranked
<1>3. /\ m \in Int /\ ranked.maxTotal \in Nat /\ FoundOf(m, ranked.maxTotal, n)
      /\ Names(ranked.winners, ClubsAt(best))
      /\ ranked.clubs = n /\ ranked.stake = SumFunctionOnSet(total, ClubsAt(1..n))
  BY <1>2 DEF RankedTo, RankState
<1>4. ClubsAt(best) = Unexceeded
  <2> HIDE DEF m
  <2> QED
    BY <1>3, BestAreUnexceeded
<1>5. ToSet(ranked.winners) = Unexceeded /\ Len(ranked.winners) = Cardinality(Unexceeded)
  BY <1>3, <1>4, NamesCounted
<1>6. /\ n \in Nat /\ ClubsAt(1..n) = Clubs /\ \A i \in 1..n : total[Order[i]] \in Nat
      /\ n = 0 => Order = << >>
  <2>1. /\ n \in Nat /\ \A i \in 1..n : Order[i] \in Clubs
        /\ \A d \in Clubs : \E i \in 1..n : Order[i] = d
    BY OrderNamed, NamesCounted DEF Names
  <2>2. n = 0 => Order = << >>
    BY RankingAssumption, EmptySeq
  <2> HIDE DEF Clubs, n
  <2>3. ClubsAt(1..n) = Clubs
    BY <2>1 DEF ClubsAt
  <2> QED
    BY <2>1, <2>2, <2>3, StakesAreNat
<1>7. SumFunction(total) = SumFunctionOnSet(total, Clubs)
  BY DEF SumFunction, StakesBounded
<1>8. \A c \in Unexceeded : \E i \in Equals(m, n) : Order[i] = c
  BY <1>4 DEF ClubsAt, Best
<1>9. \A c \in Unexceeded : ranked.maxTotal >= total[c]
  <2>1. \A i \in Equals(m, n) : total[Order[i]] <= ranked.maxTotal
    BY <1>3 DEF FoundOf
  <2>2. Equals(m, n) \subseteq 1..n
    BY DEF Equals
  <2> HIDE DEF m, n
  <2> QED
    BY <1>3, <1>6, <1>8, <2>1, <2>2
<1>10. n # 0 => \E c \in Unexceeded : ranked.maxTotal = total[c]
  <2>1. n # 0 => \E i \in best : total[Order[i]] = ranked.maxTotal
    BY <1>3 DEF FoundOf
  <2>2. \A i \in best : Order[i] \in Unexceeded
    BY <1>4 DEF ClubsAt
  <2> QED
    BY <2>1, <2>2
<1> HIDE DEF m, n, best
<1> QED
  BY <1>1, <1>3, <1>5, <1>6, <1>7, <1>9, <1>10 DEF n

LEMMA WinnersAreFound == StakesBounded => WinnersGrewMost
<1> SUFFICES ASSUME StakesBounded PROVE WinnersGrewMost
  OBVIOUS
<1>1. \A d \in Clubs : total[d] \in Nat
  BY StakesAreNat
<1>2. Leaders \subseteq Unexceeded /\ Unexceeded \subseteq Fastest /\ Fastest \subseteq Clubs
  BY DEF Leaders, Unexceeded, Fastest
<1>3. \A c \in Leaders, d \in Fastest : total[d] <= total[c]
  BY DEF Leaders
<1>4. Clubs # {} => Order # << >>
  <2>1. Order = << >> => DOMAIN Order = {}
    OBVIOUS
  <2>2. Clubs = {Order[i] : i \in DOMAIN Order}
    BY DEF Clubs, ToSet
  <2> QED
    BY <2>1, <2>2, Zenon
<1> HIDE DEF Clubs
<1>5. \A c \in Leaders : Ranked.winnerStake = total[c]
  <2> TAKE c \in Leaders
  <2>1. PICK d \in Unexceeded : Ranked.winnerStake = total[d]
    BY <1>2, <1>4, WinnersAreUnexceeded
  <2>2. total[d] <= total[c] /\ total[c] <= Ranked.winnerStake
    BY <1>1, <1>2, <1>3, WinnersAreUnexceeded
  <2>3. total[c] \in Nat /\ total[d] \in Nat
    BY <1>1, <1>2
  <2> QED
    BY <2>1, <2>2, <2>3
<1> QED
  BY <1>2, <1>5, WinnersAreUnexceeded DEF WinnersGrewMost

\* However stakes move between two rankings, the pass of the code names only
\* clubs whose stake grew most, and all of the largest of those, and counts every
\* club and every stake once.
THEOREM WinnersGrewMostHolds == RankSpec => []WinnersGrewMost
<1>1. RankInit => StakesBounded
  BY RankingAssumption, SupplyAssumption DEF RankInit, StakesBounded
<1>2. StakesBounded /\ [RankNext]_<<total, snapshot>> => StakesBounded'
  BY DEF StakesBounded, RankNext, Rank, Restake
<1> QED
  BY <1>1, <1>2, WinnersAreFound, PTL DEF RankSpec

===============================================================================
