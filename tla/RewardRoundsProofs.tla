-------------------------- MODULE RewardRoundsProofs --------------------------
(***************************************************************************)
(* Proofs about the rounds of rewards: the types of their records, that no *)
(* stake vanishes and every record stays within reach, that the totals of  *)
(* the clubs count staked tokens only, that a round gives each staker the  *)
(* share at its start and no more than the reward in sum, and that what is *)
(* owed is backed.  A batch is the sum of what each of its stakers gets,   *)
(* whatever their order; a message between batches concerns one club,      *)
(* keeps the start of every stake and owes what it brings in.  The ranking *)
(* counts each club that was sold once, so that the shares of clubs and    *)
(* stakers add up to no more than what is divided.                         *)
(***************************************************************************)
EXTENDS RewardRounds, ClubStakingProofs

\* The list of a set of stakers names each of them once, and nobody else.
LEMMA ListOfStakers ==
    ASSUME NEW S \in SUBSET Users
    PROVE  /\ IsFiniteSet(S) /\ Cardinality(S) \in Nat
           /\ SetToSeq(S) \in Seq(Users) /\ Len(SetToSeq(S)) = Cardinality(S)
           /\ \A i \in 1..Cardinality(S) : SetToSeq(S)[i] \in S
           /\ \A i, j \in 1..Cardinality(S) : SetToSeq(S)[i] = SetToSeq(S)[j] => i = j
           /\ \A u \in S : \E i \in 1..Cardinality(S) : SetToSeq(S)[i] = u
<1> DEFINE n == Cardinality(S)
           list == SetToSeq(S)
<1>1. IsFiniteSet(S)
  BY ConfigAssumption, FS_Subset
<1>2. n \in Nat /\ ExistsBijection(1..n, S)
  BY <1>1, FS_CardinalityType
<1>3. PICK f : f \in Bijection(1..n, S)
  BY <1>2 DEF ExistsBijection
<1>4. f \in [1..n -> S] /\ IsInjective(f)
  BY <1>3 DEF Bijection, Injection
<1>5. list \in [1..n -> S] /\ IsInjective(list)
  BY <1>4 DEF SetToSeq
<1> HIDE DEF list, n
<1>6. list \in Seq(Users) /\ Len(list) = n
  <2>1. list \in [1..n -> Users]
    BY <1>5
  <2>2. list \in Seq(Users)
    BY <1>2, <2>1
  <2> QED
    BY <1>2, <2>1, <2>2, LenProperties
<1>7. list \in Surjection(1..n, S)
  <2>1. list \in Injection(1..n, S)
    BY <1>5 DEF Injection
  <2>2. Cardinality(1..n) = n
    BY <1>2, FS_Interval
  <2>3. Cardinality(S) = n
    BY DEF n
  <2> QED
    BY <1>1, <2>1, <2>2, <2>3, FS_Injection
<1>8. \A u \in S : \E i \in 1..n : list[i] = u
  BY <1>7 DEF Surjection
<1>9. \A i \in 1..n : list[i] \in S
  BY <1>5
<1>10. \A i, j \in 1..n : list[i] = list[j] => i = j
  BY <1>5 DEF IsInjective
<1> QED
  BY <1>1, <1>2, <1>6, <1>8, <1>9, <1>10 DEF n, list

(***************************************************************************)
(* A batch that visits stakers once each, all with a stake that has begun: *)
(* what everybody gets depends on the own stake alone.                     *)
(***************************************************************************)
Gain(c, u, ranking) == RewardFor(c, u, Staked(c, u), ranking)
Gains(c, ranking) == [u \in Users |-> Gain(c, u, ranking)]
StakedGains(c, ranking) ==
    [u \in Users |-> AddedToTotal(stakes[c][u][1], Gain(c, u, ranking))]
Rewarded(c, u, ranking) == <<Credited(stakes[c][u][1], Gain(c, u, ranking))>>

Begun(c, u) == HasStake(c, u) /\ stakes[c][u][1].start <= now

BatchSoFar(acc, U, c, ranking) ==
    /\ acc \in BatchState
    /\ \A u \in Users : acc.row[u] = IF u \in U THEN Rewarded(c, u, ranking)
                                     ELSE stakes[c][u]
    /\ acc.given = SumFunctionOnSet(Gains(c, ranking), U)
    /\ acc.staked = SumFunctionOnSet(StakedGains(c, ranking), U)

LEMMA BegunStake ==
    ASSUME TypeOK, NEW c \in Clubs, NEW u \in Users, HasStake(c, u)
    PROVE  /\ stakes[c][u][1] \in Stake
           /\ stakes[c][u] = <<stakes[c][u][1]>>
           /\ Staked(c, u) = stakes[c][u][1].staked
           /\ Staked(c, u) \in Nat
           /\ PendingReward(c, u) = stakes[c][u][1].reward
<1>1. stakes[c][u] \in StakeVec /\ stakes[c][u] # << >>
  BY DEF TypeOK, HasStake
<1>2. stakes[c][u][1] \in Stake /\ stakes[c][u] = <<stakes[c][u][1]>>
  BY <1>1, StakeVecs
<1> QED
  BY <1>1, <1>2, StakeFields DEF Staked, PendingReward, HasStake

LEMMA StakedTyped ==
    ASSUME TypeOK, NEW c \in Clubs, NEW u \in Users
    PROVE  Staked(c, u) \in Nat /\ PendingReward(c, u) \in Nat
<1>1. CASE HasStake(c, u)
  BY <1>1, BegunStake, StakeFields
<1>2. CASE ~HasStake(c, u)
  BY <1>2 DEF Staked, PendingReward
<1> QED
  BY <1>1, <1>2

LEMMA GainTyped ==
    ASSUME TypeOK, NEW c \in Clubs, NEW u \in Users,
           NEW ranking \in WinningClubDetails, LosingClubs(ranking) >= 0
    PROVE  Gain(c, u, ranking) \in Nat /\ Gains(c, ranking)[u] = Gain(c, u, ranking)
<1>1. reward \in Nat /\ Staked(c, u) \in Nat
  BY StakedTyped DEF TypeOK
<1>2. RewardFor(c, u, Staked(c, u), ranking) \in Nat
  BY <1>1, RewardTyped
<1> QED
  BY <1>2 DEF Gain, Gains

LEMMA StakedGainTyped ==
    ASSUME TypeOK, NEW c \in Clubs, NEW u \in Users,
           NEW ranking \in WinningClubDetails, LosingClubs(ranking) >= 0
    PROVE  /\ StakedGains(c, ranking)[u] \in Nat
           /\ StakedGains(c, ranking)[u] =
                AddedToTotal(stakes[c][u][1], Gain(c, u, ranking))
BY GainTyped DEF StakedGains, AddedToTotal

LEMMA OneMoreStaker ==
    ASSUME TypeOK, NEW c \in Clubs, NEW U \in SUBSET Users, NEW u \in Users, u \notin U,
           NEW ranking \in WinningClubDetails, LosingClubs(ranking) >= 0,
           Begun(c, u), NEW acc, BatchSoFar(acc, U, c, ranking)
    PROVE  BatchSoFar(CreditStaker(acc, u, c, ranking), U \cup {u}, c, ranking)
<1> DEFINE s == stakes[c][u][1]
           gain == Gain(c, u, ranking)
           more == AddedToTotal(s, gain)
           vec == Rewarded(c, u, ranking)
           next == CreditStaker(acc, u, c, ranking)
           V == U \cup {u}
<1>1. /\ acc \in BatchState /\ acc.row \in StakeRow /\ acc.given \in Nat /\ acc.staked \in Nat
      /\ \A w \in Users : acc.row[w] = IF w \in U THEN Rewarded(c, w, ranking)
                                       ELSE stakes[c][w]
      /\ acc.given = SumFunctionOnSet(Gains(c, ranking), U)
      /\ acc.staked = SumFunctionOnSet(StakedGains(c, ranking), U)
  BY DEF BatchSoFar, BatchState
<1>2. HasStake(c, u) /\ s \in Stake /\ s.start <= now /\ s.staked = Staked(c, u)
      /\ now \in Nat /\ s.start \in Nat
  BY BegunStake, StakeFields DEF Begun, TypeOK
<1>3. acc.row[u] = stakes[c][u] /\ stakes[c][u] # << >>
  BY <1>1, <1>2 DEF HasStake
<1>4. ~(s.start > now)
  BY <1>2
<1>5. next = [row |-> [acc.row EXCEPT ![u] = vec], given |-> acc.given + gain,
              staked |-> acc.staked + more]
  BY <1>2, <1>3, <1>4 DEF CreditStaker, Rewarded, Gain
<1>6. next \in BatchState
  <2>1. now \in Nat /\ nextReward \in Nat /\ reward \in Nat
    BY DEF TypeOK
  <2> QED
    BY <1>1, <2>1, CreditTyped
<1> HIDE DEF s, gain, more, vec
<1>7. next.row = [acc.row EXCEPT ![u] = vec] /\ next.given = acc.given + gain
      /\ next.staked = acc.staked + more
  BY <1>5
<1> HIDE DEF next
<1>8. \A w \in Users : next.row[w] = IF w \in V THEN Rewarded(c, w, ranking)
                                     ELSE stakes[c][w]
  <2> TAKE w \in Users
  <2>1. acc.row \in [Users -> StakeVec]
    BY <1>1 DEF StakeRow
  <2>2. CASE w = u
    BY <1>7, <2>1, <2>2 DEF vec
  <2>3. CASE w # u
    BY <1>1, <1>7, <2>1, <2>3
  <2> QED
    BY <2>2, <2>3
<1>9. /\ IsFiniteSet(V) /\ u \in V /\ V \ {u} = U
      /\ V \in SUBSET Users
  BY ConfigAssumption, FS_Subset
<1> HIDE DEF V
<1>10. next.given = SumFunctionOnSet(Gains(c, ranking), V)
  <2> DEFINE f == Gains(c, ranking)
  <2>1. \A w \in V : f[w] \in Int
    BY <1>9, GainTyped
  <2>2. f[u] = gain /\ gain \in Nat
    BY GainTyped DEF gain
  <2> HIDE DEF f
  <2>3. SumFunctionOnSet(f, V) = f[u] + SumFunctionOnSet(f, V \ {u})
    BY <1>9, <2>1, SumWithout
  <2>4. SumFunctionOnSet(f, V \ {u}) = acc.given /\ acc.given \in Nat
    BY <1>1, <1>9 DEF f
  <2>5. next.given = SumFunctionOnSet(f, V)
    BY <1>7, <2>2, <2>3, <2>4
  <2> QED
    BY <2>5 DEF f
<1>11. next.staked = SumFunctionOnSet(StakedGains(c, ranking), V)
  <2> DEFINE f == StakedGains(c, ranking)
  <2>1. \A w \in V : f[w] \in Int
    BY <1>9, StakedGainTyped
  <2>2. f[u] = more /\ more \in Nat
    BY StakedGainTyped DEF more, gain, s
  <2> HIDE DEF f
  <2>3. SumFunctionOnSet(f, V) = f[u] + SumFunctionOnSet(f, V \ {u})
    BY <1>9, <2>1, SumWithout
  <2>4. SumFunctionOnSet(f, V \ {u}) = acc.staked /\ acc.staked \in Nat
    BY <1>1, <1>9 DEF f
  <2>5. next.staked = SumFunctionOnSet(f, V)
    BY <1>7, <2>2, <2>3, <2>4
  <2> QED
    BY <2>5 DEF f
<1> QED
  BY <1>6, <1>8, <1>10, <1>11 DEF BatchSoFar, V, next

LEMMA BatchIsEach ==
    ASSUME TypeOK, NEW c \in Clubs, NEW S \in SUBSET Users,
           NEW ranking \in WinningClubDetails, LosingClubs(ranking) >= 0,
           \A u \in S : Begun(c, u)
    PROVE  BatchSoFar(DistributeBatch(SetToSeq(S), c, ranking), S, c, ranking)
<1> DEFINE list == SetToSeq(S)
           n == Cardinality(S)
           first(k) == {list[i] : i \in 1..k}
<1>1. /\ n \in Nat /\ list \in Seq(Users) /\ Len(list) = n
      /\ \A i \in 1..n : list[i] \in S
      /\ \A i, j \in 1..n : list[i] = list[j] => i = j
      /\ \A u \in S : \E i \in 1..n : list[i] = u
  BY ListOfStakers
<1>2. /\ now \in Nat /\ nextReward \in Nat /\ reward \in Nat /\ stakes[c] \in StakeRow
  BY DEF TypeOK, StakeRow
<1> HIDE DEF list, n
<1>3. PICK d : /\ DistributeBatch(list, c, ranking) = d[1..n]
               /\ CreditedFrom(d, list, c, ranking)
  BY <1>1, <1>2, CreditingUnfolds
<1>4. /\ d[{}] = NoneCredited(c)
      /\ \A k \in 1..n : d[1..k] = CreditStaker(d[1..(k - 1)], list[k], c, ranking)
  BY <1>1, <1>3 DEF CreditedFrom
<1> DEFINE Q == {k \in Nat : k <= n => BatchSoFar(d[1..k], first(k), c, ranking)}
<1>5. 0 \in Q
  <2>1. 1..0 = {} /\ first(0) = {}
    OBVIOUS
  <2>2. BatchSoFar(NoneCredited(c), {}, c, ranking)
    <3>1. NoneCredited(c) \in BatchState
      BY <1>2, NothingCredited
    <3>2. /\ SumFunctionOnSet(Gains(c, ranking), {}) = 0
          /\ SumFunctionOnSet(StakedGains(c, ranking), {}) = 0
      BY SumOfNone
    <3> QED
      BY <3>1, <3>2 DEF BatchSoFar, NoneCredited
  <2> QED
    BY <1>4, <2>1, <2>2
<1>6. ASSUME NEW k \in Nat, k \in Q
      PROVE  k + 1 \in Q
  <2> SUFFICES ASSUME k + 1 <= n
               PROVE  BatchSoFar(d[1..(k + 1)], first(k + 1), c, ranking)
    OBVIOUS
  <2>0. k + 1 \in 1..n /\ (k + 1) - 1 = k /\ \A i \in 1..k : i \in 1..n /\ i # k + 1
    BY <1>1
  <2>1. BatchSoFar(d[1..k], first(k), c, ranking)
    BY <1>1, <1>6
  <2> DEFINE u == list[k + 1]
  <2>2. u \in S /\ u \in Users /\ Begun(c, u)
    BY <1>1, <2>0
  <2>3. first(k) \in SUBSET Users /\ u \notin first(k)
    BY <1>1, <2>0
  <2>4. first(k + 1) = first(k) \cup {u}
    <3>1. 1..(k + 1) = (1..k) \cup {k + 1}
      OBVIOUS
    <3> QED
      BY <3>1
  <2>5. d[1..(k + 1)] = CreditStaker(d[1..k], u, c, ranking)
    BY <1>4, <2>0
  <2> HIDE DEF first, u
  <2>6. BatchSoFar(CreditStaker(d[1..k], u, c, ranking), first(k) \cup {u}, c, ranking)
    BY <2>1, <2>2, <2>3, OneMoreStaker
  <2> QED
    BY <2>4, <2>5, <2>6
<1> HIDE DEF Q
<1>7. Nat \subseteq Q
  BY <1>5, <1>6, NatSetInduction
<1>8. n \in Q
  BY <1>1, <1>7
<1>9. BatchSoFar(d[1..n], first(n), c, ranking)
  BY <1>1, <1>8 DEF Q
<1>10. first(n) = S
  BY <1>1
<1> QED
  BY <1>3, <1>9, <1>10 DEF list

-----------------------------------------------------------------------------
(***************************************************************************)
(* What the stakes of a club amount to.                                    *)
(***************************************************************************)
StakedIn(vec) == IF vec # << >> THEN vec[1].staked ELSE 0
PendingIn(vec) == IF vec # << >> THEN vec[1].reward ELSE 0
StakedOf(row) == [u \in Users |-> StakedIn(row[u])]
PendingOf(row) == [u \in Users |-> PendingIn(row[u])]
RowStaked(row) == SumFunctionOnSet(StakedOf(row), Users)
RowPending(row) == SumFunctionOnSet(PendingOf(row), Users)

LEMMA VecTyped ==
    ASSUME NEW vec \in StakeVec
    PROVE  StakedIn(vec) \in Nat /\ PendingIn(vec) \in Nat
<1>1. CASE vec = << >>
  BY <1>1 DEF StakedIn, PendingIn
<1>2. CASE vec # << >>
  BY <1>2, StakeVecs, StakeFields DEF StakedIn, PendingIn
<1> QED
  BY <1>1, <1>2

LEMMA RowTyped ==
    ASSUME NEW row \in StakeRow
    PROVE  /\ \A u \in Users : /\ StakedOf(row)[u] = StakedIn(row[u])
                               /\ PendingOf(row)[u] = PendingIn(row[u])
                               /\ StakedOf(row)[u] \in Nat /\ PendingOf(row)[u] \in Nat
                               /\ row[u] \in StakeVec
           /\ RowStaked(row) \in Nat /\ RowPending(row) \in Nat
<1>1. \A u \in Users : row[u] \in StakeVec
  BY DEF StakeRow
<1>2. \A u \in Users : /\ StakedOf(row)[u] = StakedIn(row[u])
                       /\ PendingOf(row)[u] = PendingIn(row[u])
                       /\ StakedOf(row)[u] \in Nat /\ PendingOf(row)[u] \in Nat
  BY <1>1, VecTyped DEF StakedOf, PendingOf
<1>3. IsFiniteSet(Users)
  BY ConfigAssumption
<1>4. RowStaked(row) \in Nat /\ RowPending(row) \in Nat
  BY <1>2, <1>3, SumIsNatural DEF RowStaked, RowPending
<1> QED
  BY <1>1, <1>2, <1>4

LEMMA ClubSums ==
    ASSUME TypeOK, NEW c \in Clubs
    PROVE  /\ ClubStake(c) = RowStaked(stakes[c]) /\ ClubPending(c) = RowPending(stakes[c])
           /\ stakes[c] \in StakeRow
           /\ ClubStake(c) \in Nat /\ ClubPending(c) \in Nat
<1>1. /\ [u \in Users |-> Staked(c, u)] = StakedOf(stakes[c])
      /\ [u \in Users |-> PendingReward(c, u)] = PendingOf(stakes[c])
  BY DEF Staked, PendingReward, HasStake, StakedOf, PendingOf, StakedIn, PendingIn
<1>2. /\ ClubStake(c) = RowStaked(stakes[c])
      /\ ClubPending(c) = RowPending(stakes[c])
  BY <1>1 DEF ClubStake, ClubPending, SumFunction, RowStaked, RowPending,
              StakedOf, PendingOf
<1>3. stakes[c] \in StakeRow
  BY DEF TypeOK, StakeRow
<1> QED
  BY <1>2, <1>3, RowTyped

\* A row in which one Vec is replaced.
LEMMA RowChanged ==
    ASSUME NEW row \in StakeRow, NEW u \in Users, NEW vec \in StakeVec
    PROVE  LET later == [row EXCEPT ![u] = vec]
           IN  /\ later \in StakeRow
               /\ later[u] = vec /\ \A w \in Users \ {u} : later[w] = row[w]
               /\ RowStaked(later) = RowStaked(row) - StakedIn(row[u]) + StakedIn(vec)
               /\ RowPending(later) = RowPending(row) - PendingIn(row[u]) + PendingIn(vec)
<1> DEFINE later == [row EXCEPT ![u] = vec]
<1>1. /\ later \in StakeRow
      /\ later[u] = vec /\ \A w \in Users \ {u} : later[w] = row[w]
  BY DEF StakeRow
<1> HIDE DEF later
<1>2. IsFiniteSet(Users)
  BY ConfigAssumption
<1>3. \A w \in Users : /\ StakedOf(row)[w] \in Int /\ StakedOf(later)[w] \in Int
                       /\ PendingOf(row)[w] \in Int /\ PendingOf(later)[w] \in Int
  BY <1>1, RowTyped
<1>4. \A w \in Users \ {u} : /\ StakedOf(later)[w] = StakedOf(row)[w]
                             /\ PendingOf(later)[w] = PendingOf(row)[w]
  BY <1>1, RowTyped
<1>5. RowStaked(later) = RowStaked(row) - StakedOf(row)[u] + StakedOf(later)[u]
  BY <1>2, <1>3, <1>4, SumChanges DEF RowStaked
<1>6. RowPending(later) = RowPending(row) - PendingOf(row)[u] + PendingOf(later)[u]
  BY <1>2, <1>3, <1>4, SumChanges DEF RowPending
<1> QED
  BY <1>1, <1>5, <1>6, RowTyped DEF later

(***************************************************************************)
(* What adding to a stake does to it: it keeps its start, or starts now.   *)
(***************************************************************************)
KeepsStart(vec, later) ==
    \/ later = vec
    \/ later # << >> /\ later[1].start = IF vec # << >> THEN vec[1].start ELSE now

LEMMA IncreasedVec ==
    ASSUME now \in Nat, NEW vec \in StakeVec, NEW amount \in Nat, NEW auto \in BOOLEAN
    PROVE  LET later == Increased(vec, amount, auto)
           IN  /\ later \in StakeVec /\ later # << >>
               /\ later[1].start = IF vec # << >> THEN vec[1].start ELSE now
               /\ StakedIn(later) >= StakedIn(vec) + amount
               /\ StakedIn(later) + PendingIn(later) =
                    StakedIn(vec) + PendingIn(vec) + amount
<1> DEFINE later == Increased(vec, amount, auto)
<1>0. later \in StakeVec /\ later # << >>
  BY IncreasedTyped
<1>1. CASE vec = << >>
  <2> DEFINE s == [start |-> now, staked |-> amount, reward |-> 0, auto |-> auto]
  <2>1. later = <<s>>
    BY <1>1 DEF Increased
  <2>2. later[1] = s
    BY <2>1
  <2>3. later[1].start = now /\ StakedIn(later) = amount /\ PendingIn(later) = 0
    BY <1>0, <2>2 DEF StakedIn, PendingIn
  <2>4. StakedIn(vec) = 0 /\ PendingIn(vec) = 0
    BY <1>1 DEF StakedIn, PendingIn
  <2> QED
    BY <1>0, <1>1, <2>3, <2>4
<1>2. CASE vec # << >>
  <2> DEFINE s == vec[1]
             folded == IF auto THEN s.reward ELSE 0
             staked == s.staked + amount + folded
             rest == s.reward - folded
             t == [s EXCEPT !.staked = staked, !.reward = rest, !.auto = auto]
  <2>1. s \in Stake
    BY <1>2, StakeVecs
  <2>2. later = <<t>>
    BY <1>2 DEF Increased
  <2>3. StakedIn(vec) = s.staked /\ PendingIn(vec) = s.reward
    BY <1>2 DEF StakedIn, PendingIn
  <2> HIDE DEF s
  <2>4. folded \in Nat /\ s.staked \in Nat /\ s.reward \in Nat
    BY <2>1, StakeFields
  <2> HIDE DEF folded
  <2>5. staked >= s.staked + amount /\ staked + rest = s.staked + s.reward + amount
    BY <2>4
  <2>6. t.start = s.start /\ t.staked = staked /\ t.reward = rest
    <3> HIDE DEF staked, rest
    <3> QED
      BY <2>1 DEF Stake
  <2> HIDE DEF t, staked, rest
  <2>7. later[1] = t
    BY <2>2
  <2>8. later[1].start = s.start /\ StakedIn(later) = staked /\ PendingIn(later) = rest
    BY <1>0, <2>6, <2>7 DEF StakedIn, PendingIn
  <2> QED
    BY <1>0, <1>2, <2>3, <2>5, <2>8 DEF s
<1> QED
  BY <1>1, <1>2

LEMMA AssignOneRow ==
    ASSUME now \in Nat, NEW row \in StakeRow, NEW e \in StakeAssignment
    PROVE  LET later == AssignOne(row, e)
           IN  /\ later \in StakeRow
               /\ \A u \in Users : KeepsStart(row[u], later[u])
               /\ RowStaked(later) >= RowStaked(row) + e.amount
               /\ RowStaked(later) + RowPending(later) =
                    RowStaked(row) + RowPending(row) + e.amount
<1> DEFINE w == e.staker
           vec == Increased(row[w], e.amount, e.auto)
           later == [row EXCEPT ![w] = vec]
<1>1. w \in Users /\ e.amount \in Nat /\ e.auto \in BOOLEAN
  BY DEF StakeAssignment
<1>2. row[w] \in StakeVec
  BY <1>1 DEF StakeRow
<1>3. /\ vec \in StakeVec /\ vec # << >>
      /\ vec[1].start = IF row[w] # << >> THEN row[w][1].start ELSE now
      /\ StakedIn(vec) >= StakedIn(row[w]) + e.amount
      /\ StakedIn(vec) + PendingIn(vec) =
           StakedIn(row[w]) + PendingIn(row[w]) + e.amount
  BY <1>1, <1>2, IncreasedVec
<1>4. AssignOne(row, e) = later
  BY DEF AssignOne
<1> HIDE DEF vec
<1>5. /\ later \in StakeRow
      /\ later[w] = vec /\ \A u \in Users \ {w} : later[u] = row[u]
      /\ RowStaked(later) = RowStaked(row) - StakedIn(row[w]) + StakedIn(vec)
      /\ RowPending(later) = RowPending(row) - PendingIn(row[w]) + PendingIn(vec)
  BY <1>1, <1>3, RowChanged
<1> HIDE DEF later
<1>6. \A u \in Users : KeepsStart(row[u], later[u])
  BY <1>3, <1>5 DEF KeepsStart
<1>7. /\ RowStaked(row) \in Nat /\ RowPending(row) \in Nat
      /\ StakedIn(row[w]) \in Nat /\ PendingIn(row[w]) \in Nat
      /\ StakedIn(vec) \in Nat /\ PendingIn(vec) \in Nat
  BY <1>2, <1>3, RowTyped, VecTyped
<1>8. /\ RowStaked(later) >= RowStaked(row) + e.amount
      /\ RowStaked(later) + RowPending(later) = RowStaked(row) + RowPending(row) + e.amount
  <2> DEFINE a == RowStaked(row)
             b == RowPending(row)
             x == StakedIn(row[w])
             y == PendingIn(row[w])
  <2>1. /\ StakedIn(vec) >= x + e.amount
        /\ StakedIn(vec) + PendingIn(vec) = x + y + e.amount
    BY <1>3
  <2>2. /\ RowStaked(later) = a - x + StakedIn(vec)
        /\ RowPending(later) = b - y + PendingIn(vec)
    BY <1>5
  <2>3. /\ a \in Nat /\ b \in Nat /\ x \in Nat /\ y \in Nat
        /\ StakedIn(vec) \in Nat /\ PendingIn(vec) \in Nat /\ e.amount \in Nat
    BY <1>1, <1>7
  <2> HIDE DEF a, b, x, y
  <2>4. /\ RowStaked(later) >= a + e.amount
        /\ RowStaked(later) + RowPending(later) = a + b + e.amount
    BY <2>1, <2>2, <2>3
  <2> QED
    BY <2>4 DEF a, b
<1> QED
  BY <1>4, <1>5, <1>6, <1>8

AmountsOf(list) == [i \in DOMAIN list |-> list[i].amount]

LEMMA AssignedRow ==
    ASSUME now \in Nat, NEW row \in StakeRow, NEW list \in Seq(StakeAssignment)
    PROVE  LET later == FoldLeft(AssignOne, row, list)
           IN  /\ later \in StakeRow
               /\ \A u \in Users : KeepsStart(row[u], later[u])
               /\ RowStaked(later) >= RowStaked(row) + AmountAssigned(list)
               /\ RowStaked(later) + RowPending(later) =
                    RowStaked(row) + RowPending(row) + AmountAssigned(list)
<1> DEFINE n == Len(list)
           sum(k) == SumFunctionOnSet(AmountsOf(list), 1..k)
           After(r, k) ==
              /\ sum(k) \in Nat
              /\ r \in StakeRow
              /\ \A u \in Users : KeepsStart(row[u], r[u])
              /\ RowStaked(r) >= RowStaked(row) + sum(k)
              /\ RowStaked(r) + RowPending(r) = RowStaked(row) + RowPending(row) + sum(k)
<1>1. PICK c : /\ FoldLeft(AssignOne, row, list) = c[1..n]
               /\ AssignedFrom(c, row, list)
  BY AssignmentUnfolds
<1>2. c[{}] = row /\ \A k \in 1..n : c[1..k] = AssignOne(c[1..(k - 1)], list[k])
  BY <1>1 DEF AssignedFrom
<1>3. n \in Nat /\ DOMAIN list = 1..n /\ \A i \in 1..n : list[i] \in StakeAssignment
  BY LenProperties, ElementOfSeq
<1>4. \A i \in 1..n : AmountsOf(list)[i] = list[i].amount /\ list[i].amount \in Nat
  BY <1>3 DEF AmountsOf, StakeAssignment
<1>5. AmountAssigned(list) = sum(n)
  BY <1>3 DEF AmountAssigned, AmountsOf, SumFunction
<1> HIDE DEF n
<1> DEFINE Q == {k \in Nat : k <= n => After(c[1..k], k)}
<1>6. 0 \in Q
  <2>1. 1..0 = {}
    OBVIOUS
  <2>2. sum(0) = 0
    BY <2>1, SumOfNone
  <2>3. RowStaked(row) \in Nat /\ RowPending(row) \in Nat
    BY RowTyped
  <2>4. After(row, 0)
    <3> HIDE DEF sum
    <3> QED
      BY <2>2, <2>3 DEF KeepsStart
  <2>5. c[1..0] = row
    BY <1>2, <2>1
  <2> HIDE DEF After
  <2> QED
    BY <2>4, <2>5
<1>7. ASSUME NEW k \in Nat, k \in Q
      PROVE  k + 1 \in Q
  <2> SUFFICES ASSUME k + 1 <= n PROVE After(c[1..(k + 1)], k + 1)
    OBVIOUS
  <2>0. k + 1 \in 1..n /\ (k + 1) - 1 = k /\ k <= n /\ \A i \in 1..(k + 1) : i \in 1..n
    BY <1>3
  <2> DEFINE r == c[1..k]
             e == list[k + 1]
             later == AssignOne(r, e)
  <2>1. After(r, k)
    BY <1>7, <2>0
  <2>2. e \in StakeAssignment /\ c[1..(k + 1)] = later
        /\ e.amount \in Nat /\ AmountsOf(list)[k + 1] = e.amount
    BY <1>2, <1>3, <1>4, <2>0
  <2>3. sum(k + 1) = sum(k) + e.amount
    <3>1. \A i \in 1..(k + 1) : AmountsOf(list)[i] \in Int
      <4> TAKE i \in 1..(k + 1)
      <4>1. i \in 1..n
        BY <2>0
      <4> QED
        BY <1>4, <4>1
    <3>2. sum(k + 1) = sum(k) + AmountsOf(list)[k + 1]
      BY <3>1, SumOfOneMore
    <3> QED
      BY <2>2, <3>2
  <2> HIDE DEF r, e, sum
  <2>4. /\ later \in StakeRow
        /\ \A u \in Users : KeepsStart(r[u], later[u])
        /\ RowStaked(later) >= RowStaked(r) + e.amount
        /\ RowStaked(later) + RowPending(later) = RowStaked(r) + RowPending(r) + e.amount
    BY <2>1, <2>2, AssignOneRow
  <2> HIDE DEF later
  <2>5. \A u \in Users : KeepsStart(row[u], later[u])
    BY <2>1, <2>4 DEF KeepsStart
  <2>6. /\ RowStaked(row) \in Nat /\ RowPending(row) \in Nat
        /\ RowStaked(r) \in Nat /\ RowPending(r) \in Nat
        /\ RowStaked(later) \in Nat /\ RowPending(later) \in Nat
    BY <2>1, <2>4, RowTyped
  <2>7. /\ RowStaked(later) >= RowStaked(row) + sum(k + 1)
        /\ RowStaked(later) + RowPending(later) =
             RowStaked(row) + RowPending(row) + sum(k + 1)
        /\ sum(k + 1) \in Nat
    <3> DEFINE a == RowStaked(row)
               b == RowPending(row)
               x == RowStaked(r)
               y == RowPending(r)
               before == sum(k)
               after == sum(k + 1)
               amount == e.amount
    <3>1. x >= a + before /\ x + y = a + b + before /\ before \in Nat
      BY <2>1
    <3>2. /\ RowStaked(later) >= x + amount
          /\ RowStaked(later) + RowPending(later) = x + y + amount
      BY <2>4
    <3>3. /\ a \in Nat /\ b \in Nat /\ x \in Nat /\ y \in Nat /\ amount \in Nat
          /\ after = before + amount
      BY <2>2, <2>3, <2>6
    <3> HIDE DEF a, b, x, y, before, after, amount, After
    <3>4. after \in Nat
      BY <3>1, <3>3
    <3>5. RowStaked(later) >= a + after
      BY <2>6, <3>1, <3>2, <3>3
    <3>6. RowStaked(later) + RowPending(later) = a + b + after
      BY <2>6, <3>1, <3>2, <3>3
    <3> QED
      BY <3>4, <3>5, <3>6 DEF a, b, after
  <2> QED
    BY <2>2, <2>4, <2>5, <2>7
<1> HIDE DEF Q
<1>8. Nat \subseteq Q
  BY <1>6, <1>7, NatSetInduction
<1>9. After(c[1..n], n)
  BY <1>3, <1>8 DEF Q
<1> QED
  BY <1>1, <1>5, <1>9 DEF n

(***************************************************************************)
(* What the bonds of a club amount to.                                     *)
(***************************************************************************)
BondRow == [Users -> Seq(Bond)]
BondedOf(row) == [u \in Users |-> BondSum(row[u])]
RowBonds(row) == SumFunctionOnSet(BondedOf(row), Users)

LEMMA BondRowTyped ==
    ASSUME NEW row \in BondRow
    PROVE  /\ \A u \in Users : /\ BondedOf(row)[u] = BondSum(row[u])
                               /\ BondedOf(row)[u] \in Nat
           /\ RowBonds(row) \in Nat
<1>1. \A u \in Users : row[u] \in Seq(Bond)
  <2> HIDE DEF Bond
  <2> QED
    BY DEF BondRow
<1>2. \A u \in Users : BondedOf(row)[u] = BondSum(row[u]) /\ BondedOf(row)[u] \in Nat
  BY <1>1, BondsInVec DEF BondedOf
<1>3. RowBonds(row) \in Nat
  BY <1>2, ConfigAssumption, SumIsNatural DEF RowBonds
<1> QED
  BY <1>2, <1>3

LEMMA ClubBondsSum ==
    ASSUME TypeOK, NEW c \in Clubs
    PROVE  /\ ClubBonds(c) = RowBonds(bonds[c]) /\ ClubBonds(c) \in Nat
           /\ bonds[c] \in BondRow
<1>1. bonds[c] \in BondRow
  <2> HIDE DEF Bond
  <2> QED
    BY DEF TypeOK, BondRow
<1>2. ClubBonds(c) = RowBonds(bonds[c])
  BY DEF ClubBonds, SumFunction, RowBonds, BondedOf
<1> QED
  BY <1>1, <1>2, BondRowTyped

\* One Vec of bonds, or of stakes, is replaced.
LEMMA BondsReplaced ==
    ASSUME NEW row \in BondRow, NEW later \in BondRow,
           NEW u \in Users, \A w \in Users \ {u} : later[w] = row[w]
    PROVE  RowBonds(later) = RowBonds(row) - BondSum(row[u]) + BondSum(later[u])
<1>1. IsFiniteSet(Users)
  BY ConfigAssumption
<1>2. \A w \in Users : BondedOf(row)[w] \in Int /\ BondedOf(later)[w] \in Int
  <2>1. \A w \in Users : BondedOf(row)[w] \in Nat /\ BondedOf(later)[w] \in Nat
    BY BondRowTyped
  <2> QED
    BY <2>1
<1>3. \A w \in Users \ {u} : BondedOf(later)[w] = BondedOf(row)[w]
  <2>1. \A w \in Users : /\ BondedOf(row)[w] = BondSum(row[w])
                         /\ BondedOf(later)[w] = BondSum(later[w])
    BY BondRowTyped
  <2> QED
    BY <2>1
<1>4. RowBonds(later) = RowBonds(row) - BondedOf(row)[u] + BondedOf(later)[u]
  BY <1>1, <1>2, <1>3, SumChanges DEF RowBonds
<1> QED
  BY <1>4, BondRowTyped

LEMMA StakesReplaced ==
    ASSUME NEW row \in StakeRow, NEW later \in StakeRow,
           NEW u \in Users, \A w \in Users \ {u} : later[w] = row[w]
    PROVE  /\ RowStaked(later) = RowStaked(row) - StakedIn(row[u]) + StakedIn(later[u])
           /\ RowPending(later) = RowPending(row) - PendingIn(row[u]) + PendingIn(later[u])
<1>1. IsFiniteSet(Users)
  BY ConfigAssumption
<1>2. \A w \in Users : /\ StakedOf(row)[w] \in Int /\ StakedOf(later)[w] \in Int
                       /\ PendingOf(row)[w] \in Int /\ PendingOf(later)[w] \in Int
  BY RowTyped
<1>3. \A w \in Users \ {u} : /\ StakedOf(later)[w] = StakedOf(row)[w]
                             /\ PendingOf(later)[w] = PendingOf(row)[w]
  BY RowTyped
<1>4. RowStaked(later) = RowStaked(row) - StakedOf(row)[u] + StakedOf(later)[u]
  BY <1>1, <1>2, <1>3, SumChanges DEF RowStaked
<1>5. RowPending(later) = RowPending(row) - PendingOf(row)[u] + PendingOf(later)[u]
  BY <1>1, <1>2, <1>3, SumChanges DEF RowPending
<1> QED
  BY <1>4, <1>5, RowTyped

-----------------------------------------------------------------------------
(***************************************************************************)
(* What a message of a staker, an owner or the administrator does: it      *)
(* concerns one club, keeps the start of every stake or starts a new one,  *)
(* raises the total of the club by no more than what is staked, and adds   *)
(* to what the club owes exactly the tokens that come in.                  *)
(***************************************************************************)
RowOwed(row, brow) == RowStaked(row) + RowPending(row) + RowBonds(brow)

MessageOn(c, tokens) ==
    /\ \A d \in Clubs \ {c} : /\ stakes'[d] = stakes[d] /\ bonds'[d] = bonds[d]
                              /\ ownership'[d].total = ownership[d].total
    /\ \A u \in Users : KeepsStart(stakes[c][u], stakes'[c][u])
    /\ ownership'[c].total + RowStaked(stakes[c]) <=
         ownership[c].total + RowStaked(stakes'[c])
    /\ RowOwed(stakes'[c], bonds'[c]) = RowOwed(stakes[c], bonds[c]) + tokens
    /\ fury'["contract"] = fury["contract"] + tokens
    /\ UNCHANGED <<now, rewardVars>>

LEMMA SumsTyped ==
    ASSUME TypeOK, NEW c \in Clubs
    PROVE  /\ RowStaked(stakes[c]) \in Nat /\ RowPending(stakes[c]) \in Nat
           /\ RowBonds(bonds[c]) \in Nat
           /\ RowOwed(stakes[c], bonds[c]) \in Nat
           /\ ownership[c].total \in Nat /\ fury["contract"] \in Nat
<1>1. /\ RowStaked(stakes[c]) \in Nat /\ RowPending(stakes[c]) \in Nat
      /\ RowBonds(bonds[c]) \in Nat
  BY ClubSums, ClubBondsSum
<1>2. ownership[c].total \in Nat /\ fury["contract"] \in Nat
  BY TotalIsNat DEF TypeOK, Wallets
<1> QED
  BY <1>1, <1>2 DEF RowOwed

\* Only the balances of the two wallets change.
LEMMA ContractPaid ==
    ASSUME TypeOK, NEW from \in Wallets, NEW to \in Wallets, NEW amount \in Nat,
           from # to, Pay(from, to, amount)
    PROVE  fury'["contract"] =
             fury["contract"] + (IF to = "contract" THEN amount
                                 ELSE IF from = "contract" THEN -amount ELSE 0)
<1>1. fury \in [Wallets -> Nat] /\ "contract" \in Wallets
  BY DEF TypeOK, Wallets
<1>2. fury' = [fury EXCEPT ![from] = @ - amount, ![to] = @ + amount]
  BY DEF Pay
<1>3. fury["contract"] \in Nat
  BY <1>1
<1>4. CASE to = "contract"
  BY <1>1, <1>2, <1>4
<1>5. CASE from = "contract"
  BY <1>1, <1>2, <1>5
<1>6. CASE to # "contract" /\ from # "contract"
  BY <1>1, <1>2, <1>6
<1> QED
  BY <1>4, <1>5, <1>6

LEMMA NotUsers ==
    /\ \A u \in Users : u # "contract" /\ u # "collector" /\ u # "admin" /\ u \in Wallets
    /\ "contract" \in Wallets /\ "admin" \in Wallets /\ "collector" \in Wallets
BY ConfigAssumption DEF Wallets

LEMMA NothingChanged ==
    ASSUME TypeOK, NEW c \in Clubs, stakes'[c] = stakes[c], bonds'[c] = bonds[c],
           ownership'[c].total = ownership[c].total, fury'["contract"] = fury["contract"],
           \A d \in Clubs \ {c} : /\ stakes'[d] = stakes[d] /\ bonds'[d] = bonds[d]
                                  /\ ownership'[d].total = ownership[d].total,
           UNCHANGED <<now, rewardVars>>
    PROVE  MessageOn(c, 0)
<1>1. \A u \in Users : KeepsStart(stakes[c][u], stakes'[c][u])
  BY DEF KeepsStart
<1>2. RowOwed(stakes'[c], bonds'[c]) = RowOwed(stakes[c], bonds[c]) + 0
      /\ fury'["contract"] = fury["contract"] + 0
  BY SumsTyped
<1>3. ownership'[c].total + RowStaked(stakes[c]) <= ownership[c].total + RowStaked(stakes'[c])
  BY SumsTyped
<1> QED
  BY <1>1, <1>2, <1>3 DEF MessageOn

\* An amount, or nothing, is added to a stake.
LEMMA AddedToStake ==
    ASSUME TypeOK, NEW c \in Clubs, NEW u \in Users, NEW amount \in Nat,
           NEW auto \in BOOLEAN,
           stakes' = [stakes EXCEPT ![c][u] = Increased(@, amount, auto)],
           ownership'[c].total = ownership[c].total + amount,
           \A d \in Clubs \ {c} : ownership'[d].total = ownership[d].total,
           fury'["contract"] = fury["contract"] + amount,
           UNCHANGED <<now, bonds, rewardVars>>
    PROVE  MessageOn(c, amount)
<1> DEFINE vec == stakes[c][u]
           later == Increased(vec, amount, auto)
<1>1. now \in Nat /\ vec \in StakeVec
  BY DEF TypeOK
<1>2. /\ later \in StakeVec /\ later # << >>
      /\ later[1].start = IF vec # << >> THEN vec[1].start ELSE now
      /\ StakedIn(later) >= StakedIn(vec) + amount
      /\ StakedIn(later) + PendingIn(later) = StakedIn(vec) + PendingIn(vec) + amount
  BY <1>1, IncreasedVec
<1>3. stakes' = [stakes EXCEPT ![c][u] = later]
  OBVIOUS
<1> HIDE DEF later
<1>4. /\ \A d \in Clubs \ {c} : stakes'[d] = stakes[d]
      /\ stakes'[c][u] = later /\ \A w \in Users \ {u} : stakes'[c][w] = stakes[c][w]
      /\ RowStaked(stakes'[c]) = RowStaked(stakes[c]) - StakedIn(vec) + StakedIn(later)
      /\ RowPending(stakes'[c]) = RowPending(stakes[c]) - PendingIn(vec) + PendingIn(later)
  <2>1. /\ \A d \in Clubs \ {c} : stakes'[d] = stakes[d]
        /\ stakes'[c] \in StakeRow /\ stakes[c] \in StakeRow
        /\ stakes'[c][u] = later /\ \A w \in Users \ {u} : stakes'[c][w] = stakes[c][w]
    BY <1>2, <1>3 DEF TypeOK, StakeRow
  <2> DEFINE row == stakes[c]
             new == stakes'[c]
  <2>2. /\ row \in StakeRow /\ new \in StakeRow
        /\ \A w \in Users \ {u} : new[w] = row[w]
    BY <2>1
  <2> HIDE DEF row, new
  <2>3. /\ RowStaked(new) = RowStaked(row) - StakedIn(row[u]) + StakedIn(new[u])
        /\ RowPending(new) = RowPending(row) - PendingIn(row[u]) + PendingIn(new[u])
    BY <2>2, StakesReplaced
  <2> QED
    BY <2>1, <2>3 DEF row, new
<1>5. \A w \in Users : KeepsStart(stakes[c][w], stakes'[c][w])
  BY <1>2, <1>4 DEF KeepsStart
<1>6. /\ RowStaked(stakes[c]) \in Nat /\ RowPending(stakes[c]) \in Nat
      /\ RowBonds(bonds[c]) \in Nat /\ ownership[c].total \in Nat
  BY SumsTyped
<1>7. /\ StakedIn(vec) \in Nat /\ PendingIn(vec) \in Nat
      /\ StakedIn(later) \in Nat /\ PendingIn(later) \in Nat
  BY <1>1, <1>2, VecTyped
<1> DEFINE x == StakedIn(vec)
           y == PendingIn(vec)
           xx == StakedIn(later)
           yy == PendingIn(later)
           a == RowStaked(stakes[c])
           b == RowPending(stakes[c])
           aa == RowStaked(stakes'[c])
           bb == RowPending(stakes'[c])
           t == ownership[c].total
           z == RowBonds(bonds[c])
<1>8. /\ xx >= x + amount /\ xx + yy = x + y + amount
      /\ aa = a - x + xx /\ bb = b - y + yy
      /\ ownership'[c].total = t + amount /\ RowBonds(bonds'[c]) = z
  BY <1>2, <1>4
<1>9. x \in Nat /\ y \in Nat /\ xx \in Nat /\ yy \in Nat /\ a \in Nat /\ b \in Nat
      /\ t \in Nat /\ z \in Nat
  BY <1>6, <1>7
<1> HIDE DEF vec, x, y, xx, yy, a, b, aa, bb, t, z
<1>10. ownership'[c].total + a <= t + aa
  BY <1>8, <1>9
<1>11. aa + bb + RowBonds(bonds'[c]) = a + b + z + amount
  BY <1>8, <1>9
<1> QED
  BY <1>4, <1>5, <1>10, <1>11 DEF MessageOn, RowOwed, a, b, aa, bb, t, z

LEMMA TakeOverOn ==
    ASSUME TypeOK, NEW u \in Users, NEW c \in Clubs, NEW seller, NEW auto \in BOOLEAN,
           NEW price, TakeOver(u, c, seller, auto, price),
           fury'["contract"] = fury["contract"]
    PROVE  MessageOn(c, 0)
<1>1. /\ ownership'[c].total = ownership[c].total
      /\ \A d \in Clubs \ {c} : ownership'[d].total = ownership[d].total
  BY DEF TakeOver, TypeOK
<1>2. UNCHANGED <<now, bonds, rewardVars>>
  BY DEF TakeOver
<1>3. CASE HasStake(c, u)
  BY <1>1, <1>2, <1>3, NothingChanged DEF TakeOver
<1>4. CASE ~HasStake(c, u)
  <2>1. stakes' = [stakes EXCEPT ![c][u] = Increased(@, 0, auto)]
    BY <1>4 DEF TakeOver
  <2>2. ownership'[c].total = ownership[c].total + 0 /\ fury'["contract"] = fury["contract"] + 0
    BY <1>1, SumsTyped
  <2> QED
    BY <1>1, <1>2, <2>1, <2>2, AddedToStake
<1> QED
  BY <1>3, <1>4

LEMMA BuyingOn ==
    ASSUME TypeOK, NEW u \in Users, NEW c \in Clubs, NEW seller, NEW auto \in BOOLEAN,
           BuyAClub(u, c, seller, auto) \/ AssignAClub(u, c, seller, auto)
    PROVE  MessageOn(c, 0)
<1>1. CASE BuyAClub(u, c, seller, auto)
  <2>1. Pay(u, "collector", ClubPrice) /\ ClubPrice \in Nat
    BY <1>1, InputsTyped DEF BuyAClub
  <2>2. fury'["contract"] = fury["contract"] + 0
    BY <2>1, NotUsers, ContractPaid
  <2>3. fury'["contract"] = fury["contract"]
    BY <2>2, SumsTyped
  <2> QED
    BY <1>1, <2>3, TakeOverOn DEF BuyAClub
<1>2. CASE AssignAClub(u, c, seller, auto)
  BY <1>2, TakeOverOn DEF AssignAClub
<1> QED
  BY <1>1, <1>2

LEMMA ReleaseOn ==
    ASSUME TypeOK, NEW u \in Users, NEW c \in Clubs, ReleaseClub(u, c)
    PROVE  MessageOn(c, 0)
<1>1. ownership' = [ownership EXCEPT ![c] =
                      [ownership[c] EXCEPT !.start = now, !.released = TRUE]]
  BY DEF ReleaseClub, TypeOK
<1>2. \A d \in Clubs : ownership'[d].total = ownership[d].total
  BY <1>1 DEF TypeOK, Ownership
<1> QED
  BY <1>2, NothingChanged DEF ReleaseClub, stakeVars

LEMMA TotalsReplaced ==
    ASSUME TypeOK, NEW c \in Clubs, NEW total \in Nat, ownership' = WithTotal(c, total)
    PROVE  /\ ownership'[c].total = total
           /\ \A d \in Clubs \ {c} : ownership'[d] = ownership[d]
           /\ \A d \in Clubs : ownership'[d].owner = ownership[d].owner
<1> DEFINE record == [ownership[c] EXCEPT !.total = total]
<1>1. record.total = total /\ record.owner = ownership[c].owner
  BY DEF TypeOK, Ownership
<1>2. ownership' = [ownership EXCEPT ![c] = record]
  BY DEF WithTotal
<1> HIDE DEF record
<1> QED
  BY <1>1, <1>2 DEF TypeOK

LEMMA StakingOn ==
    ASSUME TypeOK, NEW u \in Users, NEW c \in Clubs, NEW amount \in Nat,
           NEW auto \in BOOLEAN, StakeOnAClub(u, c, amount, auto)
    PROVE  MessageOn(c, amount)
<1>1. fury'["contract"] = fury["contract"] + amount
  BY NotUsers, ContractPaid DEF StakeOnAClub
<1>2. ownership[c].total + amount \in Nat
  BY SumsTyped
<1>3. /\ ownership'[c].total = ownership[c].total + amount
      /\ \A d \in Clubs \ {c} : ownership'[d].total = ownership[d].total
  BY <1>2, TotalsReplaced DEF StakeOnAClub
<1> QED
  BY <1>1, <1>3, AddedToStake DEF StakeOnAClub

LEMMA AssigningOn ==
    ASSUME TypeOK, NEW c \in Clubs, NEW list \in Seq(StakeAssignment),
           AssignStakesToAClub(list, c)
    PROVE  MessageOn(c, AmountAssigned(list))
<1> DEFINE amount == AmountAssigned(list)
           row == stakes[c]
           later == FoldLeft(AssignOne, row, list)
<1>1. /\ stakes' = [stakes EXCEPT ![c] = later]
      /\ ownership' = WithTotal(c, ownership[c].total + amount)
      /\ Pay("admin", "contract", amount)
      /\ UNCHANGED <<now, prevOwner, bonds, rewardVars>>
  BY DEF AssignStakesToAClub, AmountAssigned
<1>2. amount \in Nat /\ now \in Nat /\ row \in StakeRow
  BY AssignedAmounts DEF TypeOK, StakeRow
<1>3. /\ later \in StakeRow
      /\ \A u \in Users : KeepsStart(row[u], later[u])
      /\ RowStaked(later) >= RowStaked(row) + amount
      /\ RowStaked(later) + RowPending(later) = RowStaked(row) + RowPending(row) + amount
  BY <1>2, AssignedRow
<1> HIDE DEF amount, later
<1>4. stakes'[c] = later /\ \A d \in Clubs \ {c} : stakes'[d] = stakes[d]
  BY <1>1 DEF TypeOK
<1>5. fury'["contract"] = fury["contract"] + amount
  BY <1>1, <1>2, NotUsers, ContractPaid
<1>6. ownership[c].total + amount \in Nat
  BY <1>2, SumsTyped
<1>7. /\ ownership'[c].total = ownership[c].total + amount
      /\ \A d \in Clubs \ {c} : ownership'[d].total = ownership[d].total
  BY <1>1, <1>6, TotalsReplaced
<1> DEFINE a == RowStaked(row)
           b == RowPending(row)
           aa == RowStaked(later)
           bb == RowPending(later)
           t == ownership[c].total
           z == RowBonds(bonds[c])
<1>8. /\ aa >= a + amount /\ aa + bb = a + b + amount
      /\ ownership'[c].total = t + amount /\ RowBonds(bonds'[c]) = z
  BY <1>1, <1>3, <1>7
<1>9. a \in Nat /\ b \in Nat /\ t \in Nat /\ z \in Nat
  BY SumsTyped
<1>10. aa \in Nat /\ bb \in Nat
  BY <1>3, RowTyped
<1> HIDE DEF a, b, aa, bb, t, z
<1>11. ownership'[c].total + a <= t + aa
  BY <1>2, <1>8, <1>9, <1>10
<1>12. aa + bb + RowBonds(bonds'[c]) = a + b + z + amount
  BY <1>2, <1>8, <1>9, <1>10
<1>13. MessageOn(c, amount)
  BY <1>1, <1>3, <1>4, <1>5, <1>7, <1>11, <1>12
  DEF MessageOn, RowOwed, a, b, aa, bb, t, z
<1> QED
  BY <1>13 DEF amount

LEMMA BondingOn ==
    ASSUME TypeOK, NEW u \in Users, NEW c \in Clubs, NEW amount \in Nat,
           BondStake(u, c, amount)
    PROVE  MessageOn(c, 0)
<1> DEFINE s == stakes[c][u][1]
           vec == stakes[c][u]
           low == Lowered(s, amount)
           later == <<low>>
           row == stakes[c]
           new == stakes'[c]
           brow == bonds[c]
           bnew == bonds'[c]
<1>1. /\ s \in Stake /\ s.staked >= amount /\ vec = <<s>>
      /\ stakes' = [stakes EXCEPT ![c][u] = later]
  BY BondStakeRecords
<1>2. /\ low \in Stake /\ low.start = s.start /\ low.staked = s.staked - amount
      /\ low.reward = s.reward
  BY <1>1, LoweredTyped
<1>3. /\ StakedIn(vec) = s.staked /\ PendingIn(vec) = s.reward /\ vec[1].start = s.start
      /\ vec # << >>
  BY <1>1 DEF StakedIn, PendingIn
<1>4. /\ StakedIn(later) = low.staked /\ PendingIn(later) = low.reward
      /\ later[1].start = low.start /\ later # << >> /\ later \in StakeVec
  <2> HIDE DEF low
  <2>1. later \in StakeVec /\ later # << >>
    BY <1>2, StakeVecs
  <2>2. later[1] = low
    OBVIOUS
  <2> HIDE DEF later
  <2> QED
    BY <2>1, <2>2 DEF StakedIn, PendingIn
<1> HIDE DEF later, low, s
<1>5. /\ \A d \in Clubs \ {c} : stakes'[d] = stakes[d]
      /\ row \in StakeRow /\ new \in StakeRow
      /\ new[u] = later /\ \A w \in Users \ {u} : new[w] = row[w]
  BY <1>1, <1>4 DEF TypeOK, StakeRow
<1> HIDE DEF row, new
<1>6. /\ RowStaked(new) = RowStaked(row) - StakedIn(row[u]) + StakedIn(new[u])
      /\ RowPending(new) = RowPending(row) - PendingIn(row[u]) + PendingIn(new[u])
  BY <1>5, StakesReplaced
<1>7. row[u] = vec
  BY DEF row
<1> HIDE DEF vec
<1>8. /\ \A d \in Clubs, w \in Users : <<d, w>> # <<c, u>> => bonds'[d][w] = bonds[d][w]
      /\ BondSum(bonds'[c][u]) = BondSum(bonds[c][u]) + amount
  BY BondingBonds
<1>9. TypeOK'
  BY BondingTyped
<1>10. /\ \A d \in Clubs \ {c} : bonds'[d] = bonds[d]
       /\ brow \in BondRow /\ bnew \in BondRow
       /\ \A w \in Users \ {u} : bnew[w] = brow[w]
  <2> HIDE DEF Bond
  <2>1. bonds \in [Clubs -> [Users -> Seq(Bond)]] /\ bonds' \in [Clubs -> [Users -> Seq(Bond)]]
    BY <1>9 DEF TypeOK
  <2> QED
    BY <1>8, <2>1 DEF BondRow
<1>11. BondSum(bnew[u]) = BondSum(brow[u]) + amount
  BY <1>8
<1> HIDE DEF brow, bnew
<1>12. RowBonds(bnew) = RowBonds(brow) - BondSum(brow[u]) + BondSum(bnew[u])
  BY <1>10, BondsReplaced
<1>13. /\ RowBonds(brow) \in Nat /\ BondSum(brow[u]) \in Nat
  BY <1>10, BondRowTyped
<1>14. /\ RowStaked(row) \in Nat /\ RowPending(row) \in Nat
       /\ s.staked \in Nat /\ s.reward \in Nat
  BY <1>1, <1>5, RowTyped, StakeFields
<1>15. /\ ownership[c].total \in Nat /\ ownership[c].total >= amount
       /\ ownership' = WithTotal(c, ownership[c].total - amount)
  BY TotalIsNat DEF BondStake
<1>16. /\ ownership'[c].total = ownership[c].total - amount
       /\ \A d \in Clubs \ {c} : ownership'[d].total = ownership[d].total
  BY <1>15, TotalsReplaced
<1>17. \A w \in Users : KeepsStart(row[w], new[w])
  BY <1>2, <1>3, <1>4, <1>5, <1>7 DEF KeepsStart
<1>18. RowStaked(new) = RowStaked(row) - amount /\ RowPending(new) = RowPending(row)
  <2> DEFINE x == s.staked
             y == s.reward
             a == RowStaked(row)
             b == RowPending(row)
  <2>1. /\ RowStaked(new) = a - x + (x - amount) /\ RowPending(new) = b - y + y
    BY <1>2, <1>3, <1>4, <1>5, <1>6, <1>7
  <2>2. x \in Nat /\ y \in Nat /\ a \in Nat /\ b \in Nat
    BY <1>14
  <2> HIDE DEF x, y, a, b
  <2>3. RowStaked(new) = a - amount /\ RowPending(new) = b
    BY <2>1, <2>2
  <2> QED
    BY <2>3 DEF a, b
<1>19. RowBonds(bnew) = RowBonds(brow) + amount
  <2> DEFINE x == BondSum(brow[u])
             a == RowBonds(brow)
  <2>1. RowBonds(bnew) = a - x + (x + amount) /\ x \in Nat /\ a \in Nat
    BY <1>11, <1>12, <1>13
  <2> HIDE DEF x, a
  <2>2. RowBonds(bnew) = a + amount
    BY <2>1
  <2> QED
    BY <2>2 DEF a
<1>20. RowOwed(new, bnew) = RowOwed(row, brow) + 0
  BY <1>13, <1>14, <1>18, <1>19 DEF RowOwed
<1>21. ownership'[c].total + RowStaked(row) <= ownership[c].total + RowStaked(new)
  <2> DEFINE t == ownership[c].total
             a == RowStaked(row)
  <2>1. /\ ownership'[c].total = t - amount /\ RowStaked(new) = a - amount
        /\ t \in Nat /\ a \in Nat
    BY <1>14, <1>15, <1>16, <1>18
  <2> HIDE DEF t, a
  <2>2. ownership'[c].total + a <= t + RowStaked(new)
    BY <2>1
  <2> QED
    BY <2>2 DEF t, a
<1>22. fury'["contract"] = fury["contract"] + 0 /\ UNCHANGED <<now, rewardVars>>
  BY SumsTyped DEF BondStake
<1> QED
  BY <1>5, <1>10, <1>16, <1>17, <1>20, <1>21, <1>22 DEF MessageOn, row, new, brow, bnew

LEMMA PayingOn ==
    ASSUME TypeOK, NEW u \in Users, NEW c \in Clubs, NEW amount \in Nat,
           WithdrawMatured(u, c, amount)
    PROVE  MessageOn(c, -amount)
<1> DEFINE brow == bonds[c]
           bnew == bonds'[c]
           row == stakes[c]
<1>1. /\ \A d \in Clubs, w \in Users : <<d, w>> # <<c, u>> => bonds'[d][w] = bonds[d][w]
      /\ BondSum(bonds[c][u]) - BondSum(bonds'[c][u]) = amount
  BY PayingBonds
<1>2. TypeOK'
  BY WithdrawalTyped
<1>3. /\ \A d \in Clubs \ {c} : bonds'[d] = bonds[d]
      /\ brow \in BondRow /\ bnew \in BondRow
      /\ \A w \in Users \ {u} : bnew[w] = brow[w]
  <2> HIDE DEF Bond
  <2>1. bonds \in [Clubs -> [Users -> Seq(Bond)]] /\ bonds' \in [Clubs -> [Users -> Seq(Bond)]]
    BY <1>2 DEF TypeOK
  <2> QED
    BY <1>1, <2>1 DEF BondRow
<1>4. UNCHANGED <<now, ownership, stakes, rewardVars>> /\ PayOut(u, amount)
  BY DEF WithdrawMatured, clubVars
<1>5. fury'["contract"] = fury["contract"] - amount
  <2>1. fury'["contract"] = fury["contract"] + (-amount)
    BY <1>4, NotUsers, ContractPaid DEF PayOut
  <2> QED
    BY <2>1, SumsTyped
<1>6. row \in StakeRow /\ RowStaked(row) \in Nat /\ RowPending(row) \in Nat
      /\ ownership[c].total \in Nat
  BY ClubSums, SumsTyped
<1>7. BondSum(brow[u]) - BondSum(bnew[u]) = amount
  BY <1>1
<1>8. stakes'[c] = row
  BY <1>4
<1> HIDE DEF brow, bnew, row
<1>9. RowBonds(bnew) = RowBonds(brow) - BondSum(brow[u]) + BondSum(bnew[u])
  BY <1>3, BondsReplaced
<1>10. /\ RowBonds(brow) \in Nat /\ BondSum(brow[u]) \in Nat /\ BondSum(bnew[u]) \in Nat
       /\ RowBonds(bnew) \in Nat
  BY <1>3, BondRowTyped
<1>11. RowBonds(bnew) = RowBonds(brow) - amount
  <2> DEFINE x == BondSum(brow[u])
             y == BondSum(bnew[u])
             a == RowBonds(brow)
  <2>1. RowBonds(bnew) = a - x + y /\ x - y = amount /\ x \in Nat /\ y \in Nat /\ a \in Nat
    BY <1>7, <1>9, <1>10
  <2> HIDE DEF x, y, a
  <2>2. RowBonds(bnew) = a - amount
    BY <2>1
  <2> QED
    BY <2>2 DEF a
<1>12. RowOwed(row, bnew) = RowOwed(row, brow) + (-amount)
  <2> DEFINE a == RowStaked(row)
             b == RowPending(row)
             z == RowBonds(brow)
  <2>1. a + b + RowBonds(bnew) = a + b + z + (-amount)
    BY <1>6, <1>10, <1>11
  <2> QED
    BY <2>1 DEF RowOwed
<1>13. \A w \in Users : KeepsStart(row[w], row[w])
  BY DEF KeepsStart
<1>14. ownership'[c].total + RowStaked(row) <= ownership[c].total + RowStaked(row)
  BY <1>4, <1>6
<1>15. fury'["contract"] = fury["contract"] + (-amount)
  BY <1>5, SumsTyped
<1> QED
  BY <1>3, <1>4, <1>8, <1>12, <1>13, <1>14, <1>15 DEF MessageOn, row, brow, bnew

Message == \E c \in Clubs, tokens \in Int : MessageOn(c, tokens)
Funding == \E amount \in Nat : IncreaseRewardAmount(amount)

LEMMA MessageKinds ==
    ASSUME TypeOK, UserNext \/ AdminNext \/ Tick
    PROVE  Message \/ Funding \/ Tick
<1>0. 0 \in Int /\ \A amount \in Nat : amount \in Int /\ -amount \in Int
  OBVIOUS
<1>1. CASE UserNext
  <2>1. PICK u \in Users, c \in Clubs :
           \/ \E seller \in Users \cup {NoUser}, auto \in AutoChoices :
                 BuyAClub(u, c, seller, auto)
           \/ ReleaseClub(u, c)
           \/ \E amount \in StakeAmounts, auto \in AutoChoices :
                 StakeOnAClub(u, c, amount, auto)
           \/ \E amount \in WithdrawAmounts :
                 BondStake(u, c, amount) \/ WithdrawMatured(u, c, amount)
    BY <1>1 DEF UserNext
  <2>2. ASSUME NEW seller, NEW auto \in AutoChoices, BuyAClub(u, c, seller, auto)
        PROVE  MessageOn(c, 0)
    BY <2>2, InputsTyped, BuyingOn
  <2>3. ASSUME ReleaseClub(u, c) PROVE MessageOn(c, 0)
    BY <2>3, ReleaseOn
  <2>4. ASSUME NEW amount \in StakeAmounts, NEW auto \in AutoChoices,
               StakeOnAClub(u, c, amount, auto)
        PROVE  MessageOn(c, amount) /\ amount \in Nat
    BY <2>4, InputsTyped, StakingOn
  <2>5. ASSUME NEW amount \in WithdrawAmounts, BondStake(u, c, amount)
        PROVE  MessageOn(c, 0)
    BY <2>5, InputsTyped, BondingOn
  <2>6. ASSUME NEW amount \in WithdrawAmounts, WithdrawMatured(u, c, amount)
        PROVE  MessageOn(c, -amount) /\ amount \in Nat
    BY <2>6, InputsTyped, PayingOn
  <2> HIDE DEF MessageOn
  <2>7. Message
    BY <1>0, <2>1, <2>2, <2>3, <2>4, <2>5, <2>6 DEF Message
  <2> QED
    BY <2>7
<1>2. CASE AdminNext
  <2>1. ASSUME NEW u \in Users, NEW c \in Clubs, NEW seller, NEW auto \in AutoChoices,
               AssignAClub(u, c, seller, auto)
        PROVE  Message
    <3>1. MessageOn(c, 0)
      BY <2>1, InputsTyped, BuyingOn
    <3> QED
      BY <1>0, <3>1 DEF Message
  <2>2. ASSUME NEW c \in Clubs, NEW list \in AssignLists, AssignStakesToAClub(list, c)
        PROVE  Message
    <3>1. list \in Seq(StakeAssignment)
      BY <2>2, InputsTyped
    <3>2. MessageOn(c, AmountAssigned(list)) /\ AmountAssigned(list) \in Nat
      BY <2>2, <3>1, AssigningOn, AssignedAmounts
    <3> QED
      BY <1>0, <3>2 DEF Message
  <2>3. ASSUME NEW amount \in RewardAmounts, IncreaseRewardAmount(amount)
        PROVE  Funding
    BY <2>3, InputsTyped DEF Funding
  <2> QED
    BY <1>2, <2>1, <2>2, <2>3 DEF AdminNext
<1> QED
  BY <1>1, <1>2

-----------------------------------------------------------------------------
(***************************************************************************)
(* Type correctness.                                                       *)
(***************************************************************************)
LEMMA SharesTyped ==
    ASSUME TypeOK
    PROVE  /\ Shares \in [Pairs -> Nat]
           /\ \A c \in Clubs, u \in Users : Shares[<<c, u>>] = Gain(c, u, Ranking)
<1>1. Ranking \in WinningClubDetails /\ LosingClubs(Ranking) >= 0
  BY RankingOfTyped DEF RankingOf
<1>2. \A c \in Clubs, u \in Users : Gain(c, u, Ranking) \in Nat
  BY <1>1, GainTyped
<1>3. Shares = [p \in Pairs |-> Gain(p[1], p[2], Ranking)]
  BY DEF Shares, Gain
<1> QED
  BY <1>2, <1>3 DEF Pairs

\* The credited amount of a batch is a natural number.
LEMMA BatchGivenTyped ==
    ASSUME TypeOK, NEW c \in Clubs, NEW stakers \in SUBSET Users, NEW first
    PROVE  /\ DistributeBatch(SetToSeq(stakers), c, RankingOf(first)) \in BatchState
           /\ DistributeBatch(SetToSeq(stakers), c, RankingOf(first)).given \in Nat
<1>1. RankingOf(first) \in WinningClubDetails /\ LosingClubs(RankingOf(first)) >= 0
  BY RankingOfTyped
<1>2. SetToSeq(stakers) \in Seq(Users)
  BY ListOfStakers
<1>3. now \in Nat /\ nextReward \in Nat /\ reward \in Nat /\ stakes[c] \in StakeRow
  BY DEF TypeOK, StakeRow
<1>4. DistributeBatch(SetToSeq(stakers), c, RankingOf(first)) \in BatchState
  BY <1>1, <1>2, <1>3, BatchTyped
<1> QED
  BY <1>4 DEF BatchState

LEMMA ClaimPays ==
    ASSUME TypeOK, ClaimNext
    PROVE  \E c \in Clubs, u \in Users :
              /\ PendingReward(c, u) \in Nat /\ PendingReward(c, u) > 0
              /\ fury'["contract"] = fury["contract"] - PendingReward(c, u)
              /\ UNCHANGED <<now, clubVars, stakeVars, rewardVars>>
<1>1. PICK u \in Users, c \in Clubs : ClaimStakerRewards(u, c)
  BY DEF ClaimNext
<1> DEFINE amount == PendingReward(c, u)
<1>2. amount \in Nat
  BY StakedTyped
<1>3. /\ Pay("contract", u, amount) /\ amount > 0
      /\ UNCHANGED <<now, clubVars, stakeVars, rewardVars>>
  BY <1>1 DEF ClaimStakerRewards, PayOut
<1> HIDE DEF amount
<1>4. fury'["contract"] = fury["contract"] + (-amount)
  BY <1>2, <1>3, NotUsers, ContractPaid
<1>5. fury'["contract"] = fury["contract"] - amount
  BY <1>2, <1>4, SumsTyped
<1> QED
  BY <1>2, <1>3, <1>5 DEF amount

LEMMA RoundInitTyped == RoundInit => RoundTypeOK
<1> SUFFICES ASSUME RoundInit PROVE RoundTypeOK
  OBVIOUS
<1>1. TypeOK
  BY InitTyped DEF RoundInit
<1>2. NoShares \in [Pairs -> Nat]
  BY DEF NoShares
<1> QED
  BY <1>1, <1>2 DEF RoundInit, RoundTypeOK

LEMMA BatchRoundTyped ==
    ASSUME RoundTypeOK, NEW c \in Clubs, NEW stakers \in SUBSET Users, Batch(c, stakers)
    PROVE  RoundTypeOK'
<1> DEFINE first == due = {}
           left == (IF first THEN Roster ELSE due) \ ({c} \X stakers)
           last == left = {}
           gain == DistributeBatch(SetToSeq(stakers), c, RankingOf(first)).given
<1>1. TypeOK
  BY DEF RoundTypeOK
<1>2. /\ CalculateAndDistributeRewards(SetToSeq(stakers), c, first, last)
      /\ due' = left
      /\ share' = IF last THEN NoShares ELSE IF first THEN Shares ELSE share
      /\ touched' = IF first \/ last THEN {} ELSE touched
      /\ funded' = IF first THEN reward ELSE funded
      /\ granted' = gain + (IF first THEN 0 ELSE granted)
      /\ sound' = (sound /\ (first =>
           \A d \in Clubs : ClubStake(d) <= ownership[d].total))
      /\ claimed' = claimed
  BY DEF Batch
<1>3. gain \in Nat
  BY <1>1, BatchGivenTyped
<1>4. SetToSeq(stakers) \in Seq(Users)
  BY ListOfStakers
<1>5. left \subseteq Pairs
  BY DEF RoundTypeOK, Roster
<1>6. first \in BOOLEAN /\ last \in BOOLEAN
  OBVIOUS
<1> HIDE DEF gain, first, last, left
<1>7. TypeOK'
  BY <1>1, <1>2, <1>4, <1>6, DistributionTyped
<1>8. share' \in [Pairs -> Nat]
  <2>1. NoShares \in [Pairs -> Nat]
    BY DEF NoShares
  <2>2. Shares \in [Pairs -> Nat]
    BY <1>1, SharesTyped
  <2>3. share \in [Pairs -> Nat]
    BY DEF RoundTypeOK
  <2> QED
    BY <1>2, <2>1, <2>2, <2>3
<1>9. touched' \subseteq Pairs /\ due' \subseteq Pairs
  BY <1>2, <1>5 DEF RoundTypeOK
<1>10. funded' \in Nat /\ granted' \in Nat /\ claimed' \in Nat
  <2>1. reward \in Nat /\ funded \in Nat /\ granted \in Nat /\ claimed \in Nat
    BY <1>1 DEF RoundTypeOK, TypeOK
  <2> QED
    BY <1>2, <1>3, <2>1
<1>11. sound' \in BOOLEAN
  BY <1>2 DEF RoundTypeOK
<1> QED
  BY <1>7, <1>8, <1>9, <1>10, <1>11 DEF RoundTypeOK

LEMMA EmptyRoundTyped ==
    ASSUME RoundTypeOK, NEW c \in Clubs, EmptyRound(c)
    PROVE  RoundTypeOK'
<1>1. TypeOK
  BY DEF RoundTypeOK
<1>2. << >> \in Seq(Users) /\ TRUE \in BOOLEAN
  BY EmptySeq
<1>3. CalculateAndDistributeRewards(<< >>, c, TRUE, TRUE) /\ UNCHANGED <<due, history>>
  BY DEF EmptyRound
<1>4. TypeOK'
  BY <1>1, <1>2, <1>3, DistributionTyped
<1> QED
  BY <1>3, <1>4 DEF RoundTypeOK, history

LEMMA BetweenTyped == RoundTypeOK /\ Between => RoundTypeOK'
<1> SUFFICES ASSUME RoundTypeOK, Between PROVE RoundTypeOK'
  OBVIOUS
<1>1. TypeOK'
  BY UserStepTyped, AdminStepTyped, TickTyped DEF Between, RoundTypeOK
<1>2. touched' \subseteq Pairs
  BY DEF Between, RoundTypeOK
<1>3. sound' \in BOOLEAN
  BY DEF Between, RoundTypeOK
<1>4. UNCHANGED <<due, share, funded, granted, claimed>>
  BY DEF Between
<1> QED
  BY <1>1, <1>2, <1>3, <1>4 DEF RoundTypeOK

LEMMA ClaimRoundTyped == RoundTypeOK /\ Claim => RoundTypeOK'
<1> SUFFICES ASSUME RoundTypeOK, Claim PROVE RoundTypeOK'
  OBVIOUS
<1>1. TypeOK /\ TypeOK'
  BY ClaimStepTyped DEF Claim, RoundTypeOK
<1>2. PICK c \in Clubs, u \in Users :
         /\ PendingReward(c, u) \in Nat
         /\ fury'["contract"] = fury["contract"] - PendingReward(c, u)
  BY <1>1, ClaimPays DEF Claim
<1>3. claimed \in Nat /\ fury["contract"] \in Nat
  BY <1>1, SumsTyped DEF RoundTypeOK
<1> DEFINE amount == PendingReward(c, u)
<1> HIDE DEF amount
<1>4. claimed' = claimed + fury["contract"] - (fury["contract"] - amount) /\ amount \in Nat
  BY <1>2 DEF Claim, amount
<1>5. claimed' \in Nat
  BY <1>3, <1>4
<1> QED
  BY <1>1, <1>5 DEF RoundTypeOK, Claim

LEMMA RoundStutterTyped == RoundTypeOK /\ UNCHANGED roundVars => RoundTypeOK'
<1> SUFFICES ASSUME RoundTypeOK, UNCHANGED roundVars PROVE RoundTypeOK'
  OBVIOUS
<1>1. TypeOK'
  BY StutterTyped DEF RoundTypeOK, roundVars
<1> QED
  BY <1>1 DEF RoundTypeOK, roundVars, history

\* Every record of a round has its type, whatever is sent between the batches.
THEOREM RoundTypeOKHolds == RoundSpec => []RoundTypeOK
<1>1. RoundTypeOK /\ [RoundNext]_roundVars => RoundTypeOK'
  BY BatchRoundTyped, EmptyRoundTyped, BetweenTyped, ClaimRoundTyped,
     RoundStutterTyped DEF RoundNext, SomeBatch
<1> QED
  BY <1>1, RoundInitTyped, PTL DEF RoundSpec

-----------------------------------------------------------------------------
(***************************************************************************)
(* When stakes start.  No round meets a stake that starts in the future:   *)
(* the stakes that do start when the clock of the rewards next stands, and *)
(* during a round only those it has paid already.                          *)
(***************************************************************************)
StartOf(c, u) == stakes[c][u][1].start
StartInTime(c, u) ==
    \/ StartOf(c, u) <= now
    \/ due = {} /\ StartOf(c, u) <= nextReward
    \/ /\ due # {} /\ <<c, u>> \notin due
       /\ nextReward < now /\ StartOf(c, u) <= nextReward + Periodicity
StartInv ==
    /\ due # {} => now >= nextReward /\ reward > 0
    /\ \A p \in due : HasStake(p[1], p[2])
    /\ \A c \in Clubs, u \in Users : HasStake(c, u) => StartInTime(c, u)

\* What a batch does to the records.
BatchEffect(c, stakers) ==
    LET first == due = {}
        left == (IF first THEN Roster ELSE due) \ ({c} \X stakers)
        last == left = {}
        ranking == RankingOf(first)
    IN  /\ stakers # {} /\ {c} \X stakers \subseteq (IF first THEN Roster ELSE due)
        /\ \A u \in stakers : Begun(c, u)
        /\ Listed(c) /\ now >= nextReward /\ reward > 0
        /\ \A d \in Clubs \ {c} : stakes'[d] = stakes[d]
        /\ \A u \in Users : stakes'[c][u] = IF u \in stakers THEN Rewarded(c, u, ranking)
                                            ELSE stakes[c][u]
        /\ \A d \in Clubs \ {c} : ownership'[d].total = ownership[d].total
        /\ ownership'[c].total = ownership[c].total +
                                   SumFunctionOnSet(StakedGains(c, ranking), stakers)
        /\ \A d \in Clubs : ownership'[d].owner = ownership[d].owner
        /\ given' = given + SumFunctionOnSet(Gains(c, ranking), stakers)
        /\ granted' = SumFunctionOnSet(Gains(c, ranking), stakers) +
                        (IF first THEN 0 ELSE granted)
        /\ nextReward' = NextRewardTime(last)
        /\ reward' = RewardLeft(last, given')
        /\ winning' = ranking
        /\ due' = left
        /\ UNCHANGED <<now, bonds, fury, claimed>>

LEMMA BatchBegun ==
    ASSUME RoundTypeOK, StartInv, NEW c \in Clubs, NEW stakers \in SUBSET Users,
           Batch(c, stakers)
    PROVE  \A u \in stakers : Begun(c, u)
<1> TAKE u \in stakers
<1>1. <<c, u>> \in (IF due = {} THEN Roster ELSE due)
  BY DEF Batch
<1>2. now >= nextReward
  BY DEF Batch, CalculateAndDistributeRewards
<1>3. HasStake(c, u)
  <2>1. CASE due = {}
    BY <1>1, <2>1 DEF Roster
  <2>2. CASE due # {}
    BY <1>1, <2>2 DEF StartInv
  <2> QED
    BY <2>1, <2>2
<1>4. StartInTime(c, u)
  BY <1>3 DEF StartInv
<1>5. now \in Nat /\ nextReward \in Nat /\ StartOf(c, u) \in Nat
  BY <1>3, BegunStake, StakeFields DEF RoundTypeOK, TypeOK, StartOf
<1>6. StartOf(c, u) <= now
  <2>1. due # {} => <<c, u>> \in due
    BY <1>1
  <2> QED
    BY <1>2, <1>4, <1>5, <2>1 DEF StartInTime
<1> QED
  BY <1>3, <1>6 DEF Begun, StartOf

LEMMA BatchDoes ==
    ASSUME RoundTypeOK, StartInv, NEW c \in Clubs, NEW stakers \in SUBSET Users,
           Batch(c, stakers)
    PROVE  BatchEffect(c, stakers)
<1> DEFINE first == due = {}
           roster == IF first THEN Roster ELSE due
           left == roster \ ({c} \X stakers)
           last == left = {}
           ranking == RankingOf(first)
           batch == DistributeBatch(SetToSeq(stakers), c, ranking)
           allGiven == given + batch.given
<1>1. TypeOK
  BY DEF RoundTypeOK
<1>2. \A u \in stakers : Begun(c, u)
  BY BatchBegun
<1>3. /\ stakers # {} /\ {c} \X stakers \subseteq roster
      /\ first => reward > 0
      /\ CalculateAndDistributeRewards(SetToSeq(stakers), c, first, last)
      /\ due' = left
      /\ granted' = batch.given + (IF first THEN 0 ELSE granted)
      /\ claimed' = claimed
  BY DEF Batch
<1>4. ~first => reward > 0
  BY DEF StartInv
<1>5. reward \in Nat /\ reward > 0
  BY <1>1, <1>3, <1>4 DEF TypeOK
<1>6. reward # 0
  BY <1>5
<1>7. /\ now >= nextReward /\ nextReward' = NextRewardTime(last) /\ Listed(c)
      /\ winning' = ranking
      /\ stakes' = [stakes EXCEPT ![c] = batch.row]
      /\ ownership' = [ownership EXCEPT ![c].total = @ + batch.staked]
      /\ given' = allGiven
      /\ reward' = RewardLeft(last, allGiven)
      /\ UNCHANGED <<now, bonds, fury>>
  BY <1>3, <1>6 DEF CalculateAndDistributeRewards
<1>8. ranking \in WinningClubDetails /\ LosingClubs(ranking) >= 0
  BY <1>1, RankingOfTyped
<1> HIDE DEF first, roster, left, last, ranking
<1>9. BatchSoFar(batch, stakers, c, ranking)
  BY <1>1, <1>2, <1>8, BatchIsEach
<1> HIDE DEF batch
<1>10. /\ batch.row \in StakeRow /\ batch.given \in Nat /\ batch.staked \in Nat
       /\ \A u \in Users : batch.row[u] = IF u \in stakers THEN Rewarded(c, u, ranking)
                                          ELSE stakes[c][u]
       /\ batch.given = SumFunctionOnSet(Gains(c, ranking), stakers)
       /\ batch.staked = SumFunctionOnSet(StakedGains(c, ranking), stakers)
  BY <1>9 DEF BatchSoFar, BatchState
<1>11. stakes'[c] = batch.row /\ \A d \in Clubs \ {c} : stakes'[d] = stakes[d]
  BY <1>1, <1>7 DEF TypeOK
<1>12. /\ ownership'[c].total = ownership[c].total + batch.staked
       /\ \A d \in Clubs \ {c} : ownership'[d].total = ownership[d].total
       /\ \A d \in Clubs : ownership'[d].owner = ownership[d].owner
  <2> DEFINE total == ownership[c].total + batch.staked
  <2>1. total \in Nat
    BY <1>1, <1>10, TotalIsNat
  <2>2. ownership' = WithTotal(c, total)
    BY <1>1, <1>7 DEF WithTotal, TypeOK
  <2> HIDE DEF total
  <2>3. /\ ownership'[c].total = total
        /\ \A d \in Clubs \ {c} : ownership'[d] = ownership[d]
        /\ \A d \in Clubs : ownership'[d].owner = ownership[d].owner
    BY <1>1, <2>1, <2>2, TotalsReplaced
  <2> QED
    BY <2>3 DEF total
<1>13. \A u \in Users : stakes'[c][u] = IF u \in stakers THEN Rewarded(c, u, ranking)
                                        ELSE stakes[c][u]
  BY <1>10, <1>11
<1> QED
  BY <1>2, <1>3, <1>5, <1>7, <1>10, <1>11, <1>12, <1>13
  DEF BatchEffect, first, roster, left, last, ranking

\* A stake that was rewarded.
LEMMA RewardedStake ==
    ASSUME TypeOK, NEW c \in Clubs, NEW u \in Users, HasStake(c, u),
           NEW ranking \in WinningClubDetails, LosingClubs(ranking) >= 0
    PROVE  LET later == Rewarded(c, u, ranking)
           IN  /\ later \in StakeVec /\ later # << >>
               /\ later[1].start = NextStart
               /\ StakedIn(later) >= Staked(c, u) + StakedGains(c, ranking)[u]
               /\ StakedIn(later) + PendingIn(later) =
                    Staked(c, u) + PendingReward(c, u) + Gain(c, u, ranking)
<1> DEFINE s == stakes[c][u][1]
           gain == Gain(c, u, ranking)
           next == Credited(s, gain)
           later == <<next>>
           more == AddedToTotal(s, gain)
<1>1. s \in Stake /\ Staked(c, u) = s.staked /\ PendingReward(c, u) = s.reward
  BY BegunStake
<1>2. gain \in Nat /\ StakedGains(c, ranking)[u] = more
  BY GainTyped, StakedGainTyped
<1>3. Rewarded(c, u, ranking) = later
  BY DEF Rewarded
<1> HIDE DEF gain, s
<1>4. next \in Stake
  BY <1>1, <1>2, CreditedTyped DEF TypeOK
<1>5. /\ next.start = NextStart
      /\ next.staked = IF s.auto THEN s.staked + gain + s.reward ELSE s.staked
      /\ next.reward = IF s.auto THEN 0 ELSE s.reward + gain
  <2> DEFINE start == NextStart
             staked == s.staked + gain + s.reward
             pending == s.reward + gain
             begun == [s EXCEPT !.start = start]
             auto == [begun EXCEPT !.staked = staked, !.reward = 0]
             kept == [begun EXCEPT !.reward = pending]
  <2>1. next = IF s.auto THEN auto ELSE kept
    BY <1>1 DEF Credited, Stake
  <2> HIDE DEF start, staked, pending
  <2>2. /\ auto.start = start /\ auto.staked = staked /\ auto.reward = 0
        /\ kept.start = start /\ kept.staked = s.staked /\ kept.reward = pending
    BY <1>1 DEF Stake
  <2> HIDE DEF auto, kept, next
  <2> QED
    BY <2>1, <2>2 DEF start, staked, pending
<1>6. s.staked \in Nat /\ s.reward \in Nat /\ s.auto \in BOOLEAN
  BY <1>1, StakeFields
<1>7. more = IF s.auto THEN gain ELSE 0
  BY DEF AddedToTotal
<1> HIDE DEF next
<1>8. later \in StakeVec /\ later # << >> /\ later[1] = next
  BY <1>4, StakeVecs
<1> HIDE DEF later
<1>9. StakedIn(later) = next.staked /\ PendingIn(later) = next.reward
  BY <1>8 DEF StakedIn, PendingIn
<1> HIDE DEF more
<1>10. next.staked >= s.staked + more /\ next.staked + next.reward = s.staked + s.reward + gain
  BY <1>2, <1>5, <1>6, <1>7
<1> QED
  BY <1>1, <1>2, <1>3, <1>5, <1>8, <1>9, <1>10 DEF gain

LEMMA TimesTyped ==
    ASSUME RoundTypeOK
    PROVE  /\ TypeOK /\ now \in Nat /\ nextReward \in Nat /\ Periodicity \in Nat
           /\ reward \in Nat /\ due \subseteq Pairs
           /\ \A c \in Clubs, u \in Users : HasStake(c, u) => StartOf(c, u) \in Nat
BY ConfigAssumption, BegunStake, StakeFields DEF RoundTypeOK, TypeOK, StartOf

LEMMA BatchStarts ==
    ASSUME RoundTypeOK, StartInv, NEW c \in Clubs, NEW stakers \in SUBSET Users,
           Batch(c, stakers)
    PROVE  StartInv'
<1> DEFINE first == due = {}
           roster == IF first THEN Roster ELSE due
           left == roster \ ({c} \X stakers)
           last == left = {}
           ranking == RankingOf(first)
<1>1. /\ BatchEffect(c, stakers) /\ RoundTypeOK'
  BY BatchDoes, BatchRoundTyped
<1>2. /\ TypeOK /\ now \in Nat /\ nextReward \in Nat /\ Periodicity \in Nat
      /\ nextReward' \in Nat /\ reward \in Nat
  BY <1>1, TimesTyped DEF RoundTypeOK, TypeOK
<1>3. /\ now >= nextReward /\ reward > 0 /\ now' = now
      /\ {c} \X stakers \subseteq roster /\ due' = left
      /\ \A u \in stakers : Begun(c, u)
      /\ \A d \in Clubs \ {c} : stakes'[d] = stakes[d]
      /\ \A u \in Users : stakes'[c][u] = IF u \in stakers THEN Rewarded(c, u, ranking)
                                          ELSE stakes[c][u]
      /\ nextReward' = NextRewardTime(last)
      /\ reward' = RewardLeft(last, given')
  BY <1>1 DEF BatchEffect
<1>4. ranking \in WinningClubDetails /\ LosingClubs(ranking) >= 0
  BY <1>2, RankingOfTyped
<1>5. roster \subseteq Pairs /\ \A p \in roster : HasStake(p[1], p[2])
  BY DEF Roster, StartInv, RoundTypeOK
<1> HIDE DEF roster, ranking, last
<1>6. ASSUME NEW u \in stakers
      PROVE  HasStake(c, u)' /\ StartOf(c, u)' = NextStart
  <2>1. HasStake(c, u)
    BY <1>3 DEF Begun
  <2>2. Rewarded(c, u, ranking) # << >> /\ Rewarded(c, u, ranking)[1].start = NextStart
    BY <1>2, <1>4, <2>1, RewardedStake
  <2> QED
    BY <1>3, <2>2 DEF HasStake, StartOf
<1>7. ASSUME NEW d \in Clubs, NEW u \in Users, <<d, u>> \notin {c} \X stakers
      PROVE  stakes'[d][u] = stakes[d][u]
  BY <1>3, <1>7
<1>8. \A d \in Clubs, u \in Users : HasStake(d, u) => HasStake(d, u)'
  <2> SUFFICES ASSUME NEW d \in Clubs, NEW u \in Users, HasStake(d, u)
               PROVE  HasStake(d, u)'
    OBVIOUS
  <2> QED
    BY <1>6, <1>7 DEF HasStake
<1>9. due' # {} => now' >= nextReward' /\ reward' > 0
  <2> SUFFICES ASSUME due' # {} PROVE now' >= nextReward' /\ reward' > 0
    OBVIOUS
  <2>1. ~last
    BY <1>3 DEF last
  <2> QED
    BY <1>3, <2>1 DEF NextRewardTime, RewardLeft
<1>10. \A p \in due' : HasStake(p[1], p[2])'
  <2> TAKE p \in due'
  <2>1. p \in roster
    BY <1>3
  <2> QED
    BY <1>5, <1>8, <2>1 DEF Pairs
<1>11. ASSUME NEW d \in Clubs, NEW u \in Users, HasStake(d, u)'
       PROVE  StartInTime(d, u)'
  <2> DEFINE start == StartOf(d, u)
             later == StartOf(d, u)'
  <2>0. NextStart = IF nextReward < now THEN nextReward + Periodicity ELSE nextReward
    BY DEF NextStart
  <2>1. /\ last => due' = {} /\ nextReward' = NextStart
        /\ ~last => due' # {} /\ nextReward' = nextReward
    BY <1>3, <2>0 DEF NextRewardTime, last
  <2>2. CASE <<d, u>> \in {c} \X stakers
    <3>1. later = NextStart /\ <<d, u>> \notin due'
      BY <1>3, <1>6, <2>2
    <3> QED
      BY <1>2, <1>3, <2>0, <2>1, <3>1 DEF StartInTime
  <2>3. CASE <<d, u>> \notin {c} \X stakers
    <3>1. HasStake(d, u) /\ later = start
      BY <1>7, <1>11, <2>3 DEF HasStake, StartOf
    <3>2. StartInTime(d, u) /\ start \in Nat
      BY <1>2, <3>1, TimesTyped DEF StartInv
    <3>3. CASE start <= now
      BY <1>3, <3>1, <3>3 DEF StartInTime
    <3>4. CASE ~(start <= now)
      <4>1. due # {} /\ <<d, u>> \notin due /\ nextReward < now
            /\ start <= nextReward + Periodicity
        BY <1>2, <1>3, <3>2, <3>4 DEF StartInTime
      <4>2. <<d, u>> \notin due'
        BY <1>3, <4>1 DEF roster
      <4> QED
        BY <1>2, <1>3, <2>0, <2>1, <3>1, <4>1, <4>2 DEF StartInTime
    <3> QED
      BY <3>3, <3>4
  <2> QED
    BY <2>2, <2>3
<1> QED
  BY <1>9, <1>10, <1>11 DEF StartInv

LEMMA EmptyRoundSteps ==
    ASSUME RoundTypeOK, NEW c \in Clubs, EmptyRound(c)
    PROVE  /\ due = {} /\ due' = {}
           /\ UNCHANGED <<now, ownership, stakes, bonds, reward, given, fury, snapshot,
                          winning, history>>
           /\ nextReward' \in Nat /\ nextReward <= nextReward'
<1>1. /\ due = {} /\ reward = 0 /\ UNCHANGED <<due, history>>
      /\ CalculateAndDistributeRewards(<< >>, c, TRUE, TRUE)
  BY DEF EmptyRound
<1>2. ~(reward > 0)
  BY <1>1
<1>3. /\ nextReward' = NextRewardTime(TRUE)
      /\ UNCHANGED <<now, ownership, stakes, reward, given, snapshot, winning, bonds, fury>>
  BY <1>1, <1>2 DEF CalculateAndDistributeRewards
<1>4. nextReward' \in Nat /\ nextReward <= nextReward'
  BY <1>3, TimesTyped DEF NextRewardTime
<1> QED
  BY <1>1, <1>3, <1>4

LEMMA EmptyRoundStarts ==
    ASSUME RoundTypeOK, StartInv, NEW c \in Clubs, EmptyRound(c)
    PROVE  StartInv'
<1>1. /\ due = {} /\ due' = {} /\ now' = now /\ stakes' = stakes
      /\ nextReward' \in Nat /\ nextReward <= nextReward'
  BY EmptyRoundSteps
<1>2. ASSUME NEW d \in Clubs, NEW u \in Users, HasStake(d, u)'
      PROVE  StartInTime(d, u)'
  <2>1. HasStake(d, u) /\ StartOf(d, u)' = StartOf(d, u)
    BY <1>1, <1>2 DEF HasStake, StartOf
  <2>2. StartInTime(d, u) /\ StartOf(d, u) \in Nat /\ now \in Nat /\ nextReward \in Nat
    BY <2>1, TimesTyped DEF StartInv
  <2> QED
    BY <1>1, <2>1, <2>2 DEF StartInTime
<1> QED
  BY <1>1, <1>2 DEF StartInv

\* The stakes after a message.
LEMMA MessageStakes ==
    ASSUME NEW c \in Clubs, NEW tokens, MessageOn(c, tokens)
    PROVE  \A d \in Clubs, u \in Users :
              /\ HasStake(d, u) => HasStake(d, u)' /\ StartOf(d, u)' = StartOf(d, u)
              /\ HasStake(d, u)' /\ ~HasStake(d, u) => StartOf(d, u)' = now
<1> TAKE d \in Clubs, u \in Users
<1>1. KeepsStart(stakes[d][u], stakes'[d][u])
  BY DEF MessageOn, KeepsStart
<1> QED
  BY <1>1 DEF KeepsStart, HasStake, StartOf

\* Steps between two batches that keep stakes and starts as messages do, and
\* the time and the clock of the rewards, or let time pass.
LEMMA OtherStarts ==
    ASSUME RoundTypeOK, StartInv, due' = due, nextReward' = nextReward,
           now' \in Nat, now' >= now, reward' \in Nat, reward' >= reward,
           \A d \in Clubs, u \in Users :
              /\ HasStake(d, u) => HasStake(d, u)' /\ StartOf(d, u)' = StartOf(d, u)
              /\ HasStake(d, u)' /\ ~HasStake(d, u) => StartOf(d, u)' = now
    PROVE  StartInv'
<1>1. due' # {} => now' >= nextReward' /\ reward' > 0
  BY TimesTyped DEF StartInv
<1>2. \A p \in due' : HasStake(p[1], p[2])'
  <2> TAKE p \in due'
  <2>1. p[1] \in Clubs /\ p[2] \in Users /\ HasStake(p[1], p[2])
    BY DEF StartInv, RoundTypeOK, Pairs
  <2> QED
    BY <2>1
<1>3. ASSUME NEW d \in Clubs, NEW u \in Users, HasStake(d, u)'
      PROVE  StartInTime(d, u)'
  <2>1. CASE HasStake(d, u)
    <3>1. StartOf(d, u)' = StartOf(d, u) /\ StartInTime(d, u)
      BY <2>1 DEF StartInv
    <3>2. StartOf(d, u) \in Nat /\ now \in Nat /\ nextReward \in Nat /\ Periodicity \in Nat
      BY <2>1, TimesTyped
    <3> QED
      BY <3>1, <3>2 DEF StartInTime
  <2>2. CASE ~HasStake(d, u)
    <3>1. StartOf(d, u)' = now /\ now \in Nat
      BY <1>3, <2>2, TimesTyped
    <3> QED
      BY <3>1 DEF StartInTime
  <2> QED
    BY <2>1, <2>2
<1> QED
  BY <1>1, <1>2, <1>3 DEF StartInv

LEMMA SameStakes ==
    ASSUME stakes' = stakes
    PROVE  \A d \in Clubs, u \in Users :
              /\ HasStake(d, u)' = HasStake(d, u)
              /\ StartOf(d, u)' = StartOf(d, u)
BY DEF HasStake, StartOf

LEMMA BetweenStarts == RoundTypeOK /\ StartInv /\ Between => StartInv'
<1> SUFFICES ASSUME RoundTypeOK, StartInv, Between PROVE StartInv'
  OBVIOUS
<1>1. Message \/ Funding \/ Tick
  BY MessageKinds DEF Between, RoundTypeOK
<1>2. due' = due /\ now \in Nat /\ reward \in Nat
  BY TimesTyped DEF Between
<1>3. CASE Message
  <2>1. PICK c \in Clubs, tokens \in Int : MessageOn(c, tokens)
    BY <1>3 DEF Message
  <2>2. now' = now /\ nextReward' = nextReward /\ reward' = reward
    BY <2>1 DEF MessageOn, rewardVars
  <2>3. now' \in Nat /\ now' >= now /\ reward' \in Nat /\ reward' >= reward
    BY <1>2, <2>2
  <2> QED
    BY <1>2, <2>1, <2>2, <2>3, MessageStakes, OtherStarts
<1>4. CASE Funding
  <2>1. PICK amount \in Nat : IncreaseRewardAmount(amount)
    BY <1>4 DEF Funding
  <2>2. now' = now /\ nextReward' = nextReward /\ reward' = reward + amount
        /\ stakes' = stakes
    BY <2>1 DEF IncreaseRewardAmount, stakeVars
  <2>3. now' \in Nat /\ now' >= now /\ reward' \in Nat /\ reward' >= reward
    BY <1>2, <2>2
  <2> QED
    BY <1>2, <2>2, <2>3, SameStakes, OtherStarts
<1>5. CASE Tick
  <2>1. now' = now + 1 /\ nextReward' = nextReward /\ reward' = reward /\ stakes' = stakes
    BY <1>5 DEF Tick, stakeVars, rewardVars
  <2>2. now' \in Nat /\ now' >= now /\ reward' \in Nat /\ reward' >= reward
    BY <1>2, <2>1
  <2> QED
    BY <1>2, <2>1, <2>2, SameStakes, OtherStarts
<1> QED
  BY <1>1, <1>3, <1>4, <1>5

LEMMA ClaimOrStutterStarts ==
    RoundTypeOK /\ StartInv /\ (Claim \/ UNCHANGED roundVars) => StartInv'
<1> SUFFICES ASSUME RoundTypeOK, StartInv, Claim \/ UNCHANGED roundVars PROVE StartInv'
  OBVIOUS
<1>1. due' = due /\ UNCHANGED <<now, stakes, reward, nextReward>>
  <2>1. CASE Claim
    <3>1. UNCHANGED <<now, clubVars, stakeVars, rewardVars>>
      BY <2>1, ClaimPays DEF Claim, RoundTypeOK
    <3> QED
      BY <2>1, <3>1 DEF Claim, stakeVars, rewardVars
  <2>2. CASE UNCHANGED roundVars
    BY <2>2 DEF roundVars, vars, stakeVars, rewardVars
  <2> QED
    BY <2>1, <2>2
<1>2. now' \in Nat /\ now' >= now /\ reward' \in Nat /\ reward' >= reward
  BY <1>1, TimesTyped
<1> QED
  BY <1>1, <1>2, SameStakes, OtherStarts

LEMMA InitStarts == RoundInit => StartInv
<1> SUFFICES ASSUME RoundInit PROVE StartInv
  OBVIOUS
<1>1. due = {} /\ \A c \in Clubs, u \in Users : stakes[c][u] = << >>
  BY DEF RoundInit, Init
<1> QED
  BY <1>1 DEF StartInv, HasStake

LEMMA RoundStarts == RoundTypeOK /\ StartInv /\ [RoundNext]_roundVars => StartInv'
BY BatchStarts, EmptyRoundStarts, BetweenStarts, ClaimOrStutterStarts
DEF RoundNext, SomeBatch

\* The invariant of the starts of stakes.
THEOREM StartsInTime == RoundSpec => []StartInv
BY RoundStarts, InitStarts, RoundTypeOKHolds, PTL DEF RoundSpec

\* No step of a round, or between rounds, makes a stake record vanish.
NoneDropped ==
    \A c \in Clubs, u \in Users : HasStake(c, u) => HasStake(c, u)'

LEMMA StepDropsNone == RoundTypeOK /\ StartInv /\ [RoundNext]_roundVars => NoneDropped
<1> SUFFICES ASSUME RoundTypeOK, StartInv, [RoundNext]_roundVars PROVE NoneDropped
  OBVIOUS
<1>1. ASSUME NEW c \in Clubs, NEW stakers \in SUBSET Users, Batch(c, stakers)
      PROVE  NoneDropped
  <2> SUFFICES ASSUME NEW d \in Clubs, NEW u \in Users, HasStake(d, u)
               PROVE  HasStake(d, u)'
    BY DEF NoneDropped
  <2>1. BatchEffect(c, stakers)
    BY <1>1, BatchDoes
  <2>2. CASE d = c /\ u \in stakers
    <3>1. stakes'[c][u] = <<Credited(stakes[c][u][1], Gain(c, u, RankingOf(due = {})))>>
      BY <2>1, <2>2 DEF BatchEffect, Rewarded
    <3> QED
      BY <2>2, <3>1 DEF HasStake
  <2>3. CASE ~(d = c /\ u \in stakers)
    <3>1. stakes'[d][u] = stakes[d][u]
      BY <2>1, <2>3 DEF BatchEffect
    <3> QED
      BY <3>1 DEF HasStake
  <2> QED
    BY <2>2, <2>3
<1>2. ASSUME NEW c \in Clubs, EmptyRound(c) PROVE NoneDropped
  BY <1>2, EmptyRoundSteps, SameStakes DEF NoneDropped
<1>3. ASSUME Between PROVE NoneDropped
  <2>1. Message \/ Funding \/ Tick
    BY <1>3, MessageKinds DEF Between, RoundTypeOK
  <2>2. CASE Message
    BY <2>2, MessageStakes DEF Message, NoneDropped
  <2>3. CASE Funding \/ Tick
    <3>1. stakes' = stakes
      BY <2>3 DEF Funding, Tick, IncreaseRewardAmount, stakeVars
    <3> QED
      BY <3>1, SameStakes DEF NoneDropped
  <2> QED
    BY <2>1, <2>2, <2>3
<1>4. ASSUME Claim \/ UNCHANGED roundVars PROVE NoneDropped
  <2>1. stakes' = stakes
    <3>1. CASE Claim
      <4>1. UNCHANGED <<now, clubVars, stakeVars, rewardVars>>
        BY <3>1, ClaimPays DEF Claim, RoundTypeOK
      <4> QED
        BY <4>1 DEF stakeVars
    <3>2. CASE UNCHANGED roundVars
      BY <3>2 DEF roundVars, vars, stakeVars
    <3> QED
      BY <1>4, <3>1, <3>2
  <2> QED
    BY <2>1, SameStakes DEF NoneDropped
<1> QED
  BY <1>1, <1>2, <1>3, <1>4 DEF RoundNext, SomeBatch

\* A message of anybody, at any moment of a round or between rounds, never
\* makes a stake record vanish.
THEOREM StakesNeverDroppedHolds == RoundSpec => StakesNeverDropped
<1>1. RoundTypeOK /\ StartInv /\ [RoundNext]_roundVars => [NoneDropped]_roundVars
  BY StepDropsNone
<1> QED
  BY <1>1, StartsInTime, RoundTypeOKHolds, PTL
  DEF RoundSpec, StakesNeverDropped, NoneDropped

-----------------------------------------------------------------------------
(***************************************************************************)
(* The totals of the clubs and what is owed.                               *)
(***************************************************************************)

\* The sums of a club, after a step.
LEMMA ClubSumsNext ==
    ASSUME TypeOK', NEW c \in Clubs
    PROVE  /\ ClubStake(c)' = RowStaked(stakes'[c]) /\ ClubPending(c)' = RowPending(stakes'[c])
           /\ ClubBonds(c)' = RowBonds(bonds'[c])
           /\ RowStaked(stakes'[c]) \in Nat /\ RowPending(stakes'[c]) \in Nat
           /\ RowBonds(bonds'[c]) \in Nat
           /\ stakes'[c] \in StakeRow /\ bonds'[c] \in BondRow
           /\ ownership'[c].total \in Nat
<1>1. /\ [u \in Users |-> Staked(c, u)'] = StakedOf(stakes'[c])
      /\ [u \in Users |-> PendingReward(c, u)'] = PendingOf(stakes'[c])
  BY DEF Staked, PendingReward, HasStake, StakedOf, PendingOf, StakedIn, PendingIn
<1>2. /\ ClubStake(c)' = RowStaked(stakes'[c])
      /\ ClubPending(c)' = RowPending(stakes'[c])
  BY <1>1 DEF ClubStake, ClubPending, SumFunction, RowStaked, RowPending,
              StakedOf, PendingOf
<1>3. ClubBonds(c)' = RowBonds(bonds'[c])
  BY DEF ClubBonds, SumFunction, RowBonds, BondedOf
<1>4. stakes'[c] \in StakeRow /\ bonds'[c] \in BondRow
  <2> HIDE DEF Bond
  <2> QED
    BY DEF TypeOK, StakeRow, BondRow
<1>5. ownership'[c].total \in Nat
  BY DEF TypeOK, Ownership
<1> QED
  BY <1>2, <1>3, <1>4, <1>5, RowTyped, BondRowTyped

\* What a batch adds to the stakes and to all that is owed.
LEMMA BatchAdds ==
    ASSUME TypeOK, NEW c \in Clubs, NEW stakers \in SUBSET Users,
           NEW ranking \in WinningClubDetails, LosingClubs(ranking) >= 0,
           \A u \in stakers : Begun(c, u), NEW later \in StakeRow,
           \A u \in Users : later[u] = IF u \in stakers THEN Rewarded(c, u, ranking)
                                       ELSE stakes[c][u]
    PROVE  LET gained == SumFunctionOnSet(Gains(c, ranking), stakers)
               added == SumFunctionOnSet(StakedGains(c, ranking), stakers)
           IN  /\ gained \in Nat /\ added \in Nat
               /\ RowStaked(later) >= RowStaked(stakes[c]) + added
               /\ RowStaked(later) + RowPending(later) =
                    RowStaked(stakes[c]) + RowPending(stakes[c]) + gained
<1> DEFINE row == stakes[c]
           gains == Gains(c, ranking)
           more == StakedGains(c, ranking)
           gained == SumFunctionOnSet(gains, stakers)
           added == SumFunctionOnSet(more, stakers)
           worth(r) == [u \in Users |-> StakedOf(r)[u] + PendingOf(r)[u]]
<1>1. row \in StakeRow /\ IsFiniteSet(Users) /\ IsFiniteSet(stakers)
  BY ConfigAssumption, FS_Subset DEF TypeOK, StakeRow
<1>2. \A u \in stakers : /\ gains[u] \in Nat /\ more[u] \in Nat
                         /\ gains[u] = Gain(c, u, ranking)
  BY GainTyped, StakedGainTyped
<1>3. \A u \in Users : /\ StakedOf(row)[u] \in Nat /\ PendingOf(row)[u] \in Nat
                       /\ StakedOf(later)[u] \in Nat /\ PendingOf(later)[u] \in Nat
                       /\ StakedOf(row)[u] = StakedIn(row[u])
                       /\ PendingOf(row)[u] = PendingIn(row[u])
                       /\ StakedOf(later)[u] = StakedIn(later[u])
                       /\ PendingOf(later)[u] = PendingIn(later[u])
  BY <1>1, RowTyped
<1>4. ASSUME NEW u \in stakers
      PROVE  /\ StakedOf(later)[u] >= StakedOf(row)[u] + more[u]
             /\ StakedOf(later)[u] + PendingOf(later)[u] =
                  StakedOf(row)[u] + PendingOf(row)[u] + gains[u]
  <2>1. HasStake(c, u)
    BY DEF Begun
  <2>2. /\ StakedIn(later[u]) >= Staked(c, u) + more[u]
        /\ StakedIn(later[u]) + PendingIn(later[u]) =
             Staked(c, u) + PendingReward(c, u) + Gain(c, u, ranking)
    BY <2>1, RewardedStake
  <2>3. Staked(c, u) = StakedIn(row[u]) /\ PendingReward(c, u) = PendingIn(row[u])
    BY DEF Staked, PendingReward, HasStake, StakedIn, PendingIn
  <2> QED
    BY <1>2, <1>3, <2>2, <2>3
<1>5. \A u \in Users \ stakers : /\ StakedOf(later)[u] = StakedOf(row)[u]
                                 /\ PendingOf(later)[u] = PendingOf(row)[u]
  BY <1>3
<1>6. gained \in Nat /\ added \in Nat
  BY <1>1, <1>2, SumIsNatural
<1> HIDE DEF row, gains, more
<1>7. RowStaked(later) >= RowStaked(row) + added
  <2> DEFINE f == StakedOf(row)
             h == StakedOf(later)
  <2>1. /\ \A u \in Users : f[u] \in Int /\ h[u] \in Int
        /\ \A u \in stakers : more[u] \in Int
        /\ \A u \in Users : h[u] >= IF u \in stakers THEN f[u] + more[u] ELSE f[u]
    BY <1>2, <1>3, <1>4, <1>5
  <2> HIDE DEF f, h
  <2>2. SumFunctionOnSet(h, Users) >= SumFunctionOnSet(f, Users) + added
    BY <1>1, <2>1, SumGrowsBy
  <2> QED
    BY <2>2 DEF RowStaked, f, h
<1>8. RowStaked(later) + RowPending(later) = RowStaked(row) + RowPending(row) + gained
  <2> DEFINE f == StakedOf(row)
             g == PendingOf(row)
             ff == StakedOf(later)
             gg == PendingOf(later)
             w == worth(row)
             ww == worth(later)
             sum(x) == SumFunctionOnSet(x, Users)
  <2>1. /\ \A u \in Users : f[u] \in Int /\ g[u] \in Int /\ ff[u] \in Int /\ gg[u] \in Int
        /\ \A u \in Users : w[u] = f[u] + g[u] /\ ww[u] = ff[u] + gg[u]
        /\ \A u \in stakers : gains[u] \in Int
        /\ \A u \in Users : ff[u] + gg[u] = IF u \in stakers THEN f[u] + g[u] + gains[u]
                                            ELSE f[u] + g[u]
    BY <1>2, <1>3, <1>4, <1>5
  <2> HIDE DEF f, g, ff, gg, w, ww
  <2>2. \A u \in Users : w[u] \in Int /\ ww[u] \in Int
    BY <2>1
  <2>3. sum(w) = sum(f) + sum(g)
    BY <1>1, <2>1, <2>2, SumOfAdded
  <2>4. sum(ww) = sum(ff) + sum(gg)
    BY <1>1, <2>1, <2>2, SumOfAdded
  <2>5. sum(ww) = sum(w) + gained
    <3>1. \A u \in Users : ww[u] = IF u \in stakers THEN w[u] + gains[u] ELSE w[u]
      BY <2>1
    <3> QED
      BY <1>1, <2>1, <2>2, <3>1, SumOfAdded
  <2>6. sum(f) \in Int /\ sum(g) \in Int /\ sum(ff) \in Int /\ sum(gg) \in Int
    BY <1>1, <2>1, SumIsInteger
  <2> HIDE DEF sum
  <2>7. sum(ff) + sum(gg) = sum(f) + sum(g) + gained
    BY <1>6, <2>3, <2>4, <2>5, <2>6
  <2> QED
    BY <2>7 DEF RowStaked, RowPending, f, g, ff, gg, sum
<1> QED
  BY <1>6, <1>7, <1>8 DEF row, gains, more

LEMMA BatchOfClubAdds ==
    ASSUME RoundTypeOK, StartInv, NEW c \in Clubs, NEW stakers \in SUBSET Users,
           Batch(c, stakers)
    PROVE  LET ranking == RankingOf(due = {})
               gained == SumFunctionOnSet(Gains(c, ranking), stakers)
               added == SumFunctionOnSet(StakedGains(c, ranking), stakers)
           IN  /\ gained \in Nat /\ added \in Nat
               /\ RowStaked(stakes'[c]) >= RowStaked(stakes[c]) + added
               /\ RowStaked(stakes'[c]) + RowPending(stakes'[c]) =
                    RowStaked(stakes[c]) + RowPending(stakes[c]) + gained
<1> DEFINE ranking == RankingOf(due = {})
           later == stakes'[c]
<1>1. BatchEffect(c, stakers) /\ TypeOK /\ TypeOK'
  BY BatchDoes, BatchRoundTyped DEF RoundTypeOK
<1>2. ranking \in WinningClubDetails /\ LosingClubs(ranking) >= 0
  BY <1>1, RankingOfTyped
<1>3. later \in StakeRow
  BY <1>1, ClubSumsNext
<1>4. /\ \A u \in stakers : Begun(c, u)
      /\ \A u \in Users : later[u] = IF u \in stakers THEN Rewarded(c, u, ranking)
                                     ELSE stakes[c][u]
  BY <1>1 DEF BatchEffect
<1> HIDE DEF ranking, later
<1>5. /\ SumFunctionOnSet(Gains(c, ranking), stakers) \in Nat
      /\ SumFunctionOnSet(StakedGains(c, ranking), stakers) \in Nat
      /\ RowStaked(later) >=
           RowStaked(stakes[c]) + SumFunctionOnSet(StakedGains(c, ranking), stakers)
      /\ RowStaked(later) + RowPending(later) =
           RowStaked(stakes[c]) + RowPending(stakes[c]) +
             SumFunctionOnSet(Gains(c, ranking), stakers)
  BY <1>1, <1>2, <1>3, <1>4, BatchAdds
<1> QED
  BY <1>5 DEF ranking, later

\* The total of a club grows by no more than what is staked on it.
LEMMA TotalsKept ==
    ASSUME TypeOK, TypeOK', TotalsAreStaked, NEW c \in Clubs,
           ownership'[c].total + RowStaked(stakes[c]) <=
             ownership[c].total + RowStaked(stakes'[c])
    PROVE  ownership'[c].total <= ClubStake(c)'
<1> DEFINE t == ownership[c].total
           tt == ownership'[c].total
           a == RowStaked(stakes[c])
           aa == RowStaked(stakes'[c])
<1>1. t <= a /\ tt + a <= t + aa
  BY ClubSums DEF TotalsAreStaked
<1>2. t \in Nat /\ tt \in Nat /\ a \in Nat /\ aa \in Nat /\ ClubStake(c)' = aa
  BY SumsTyped, ClubSumsNext
<1> HIDE DEF t, tt, a, aa
<1>3. tt <= aa
  BY <1>1, <1>2
<1> QED
  BY <1>2, <1>3 DEF tt

LEMMA SameTotals ==
    ASSUME TypeOK, NEW c \in Clubs, stakes'[c] = stakes[c],
           ownership'[c].total = ownership[c].total
    PROVE  ownership'[c].total + RowStaked(stakes[c]) <=
             ownership[c].total + RowStaked(stakes'[c])
BY SumsTyped

LEMMA StepKeepsTotals ==
    RoundTypeOK /\ StartInv /\ TotalsAreStaked /\ [RoundNext]_roundVars => TotalsAreStaked'
<1> SUFFICES ASSUME RoundTypeOK, StartInv, TotalsAreStaked, [RoundNext]_roundVars,
                    NEW d \in Clubs
             PROVE  ownership'[d].total <= ClubStake(d)'
  BY DEF TotalsAreStaked
<1>1. TypeOK /\ TypeOK'
  BY BatchRoundTyped, EmptyRoundTyped, BetweenTyped, ClaimRoundTyped,
     RoundStutterTyped DEF RoundNext, SomeBatch, RoundTypeOK
<1> DEFINE Goal == ownership'[d].total + RowStaked(stakes[d]) <=
                     ownership[d].total + RowStaked(stakes'[d])
<1>2. ASSUME NEW c \in Clubs, NEW stakers \in SUBSET Users, Batch(c, stakers)
      PROVE  Goal
  <2> DEFINE ranking == RankingOf(due = {})
             added == SumFunctionOnSet(StakedGains(c, ranking), stakers)
  <2>1. BatchEffect(c, stakers)
    BY <1>2, BatchDoes
  <2>2. CASE d = c
    <3> DEFINE t == ownership[c].total
               a == RowStaked(stakes[c])
               aa == RowStaked(stakes'[c])
    <3>1. added \in Nat /\ aa >= a + added
      BY <1>2, BatchOfClubAdds
    <3>2. ownership'[c].total = t + added
      BY <2>1 DEF BatchEffect
    <3>3. t \in Nat /\ a \in Nat /\ aa \in Nat
      BY <1>1, SumsTyped, ClubSumsNext
    <3> HIDE DEF added, t, a, aa
    <3>4. ownership'[c].total + a <= t + aa
      BY <3>1, <3>2, <3>3
    <3> QED
      BY <2>2, <3>4 DEF t, a, aa
  <2>3. CASE d # c
    <3>1. stakes'[d] = stakes[d] /\ ownership'[d].total = ownership[d].total
      BY <2>1, <2>3 DEF BatchEffect
    <3> QED
      BY <1>1, <3>1, SameTotals
  <2> QED
    BY <2>2, <2>3
<1>3. ASSUME UNCHANGED <<stakes, ownership>> PROVE Goal
  BY <1>1, <1>3, SameTotals
<1>4. ASSUME NEW c \in Clubs, EmptyRound(c) PROVE Goal
  BY <1>3, <1>4, EmptyRoundSteps
<1>5. ASSUME Between PROVE Goal
  <2>1. Message \/ Funding \/ Tick
    BY <1>1, <1>5, MessageKinds DEF Between
  <2>2. ASSUME NEW c \in Clubs, NEW tokens \in Int, MessageOn(c, tokens) PROVE Goal
    <3>1. CASE d = c
      BY <2>2, <3>1 DEF MessageOn
    <3>2. CASE d # c
      <4>1. stakes'[d] = stakes[d] /\ ownership'[d].total = ownership[d].total
        BY <2>2, <3>2 DEF MessageOn
      <4> QED
        BY <1>1, <4>1, SameTotals
    <3> QED
      BY <3>1, <3>2
  <2>3. CASE Funding \/ Tick
    BY <1>3, <2>3 DEF Funding, Tick, IncreaseRewardAmount, stakeVars, clubVars
  <2> HIDE DEF Goal
  <2> QED
    BY <2>1, <2>2, <2>3 DEF Message
<1>6. ASSUME Claim PROVE Goal
  <2>1. UNCHANGED <<now, clubVars, stakeVars, rewardVars>>
    BY <1>1, <1>6, ClaimPays DEF Claim
  <2> QED
    BY <1>3, <2>1 DEF clubVars, stakeVars
<1>7. ASSUME UNCHANGED roundVars PROVE Goal
  BY <1>3, <1>7 DEF roundVars, vars, clubVars, stakeVars
<1>8. Goal
  <2> HIDE DEF Goal
  <2> QED
    BY <1>2, <1>4, <1>5, <1>6, <1>7 DEF RoundNext, SomeBatch
<1> QED
  BY <1>1, <1>8, TotalsKept

LEMMA InitTotals == RoundInit => TotalsAreStaked
<1> SUFFICES ASSUME RoundInit, NEW c \in Clubs PROVE ownership[c].total <= ClubStake(c)
  BY DEF TotalsAreStaked
<1>1. TypeOK
  BY RoundInitTyped DEF RoundTypeOK
<1>2. ownership[c].total = 0
  BY DEF RoundInit, Init, Unsold
<1>3. ClubStake(c) \in Nat
  BY <1>1, ClubSums
<1> QED
  BY <1>2, <1>3

\* The totals of the clubs, which rank them and divide the reward, never count
\* a token that is not staked.
THEOREM TotalsAreStakedHolds == RoundSpec => []TotalsAreStaked
BY StepKeepsTotals, InitTotals, StartsInTime, RoundTypeOKHolds, PTL DEF RoundSpec

-----------------------------------------------------------------------------
(***************************************************************************)
(* What a staker gains.  The ranking of the first batch serves the whole   *)
(* round, so what a stake is worth to its staker is settled then, unless   *)
(* it, the pool or the owner of the club changes.                          *)
(***************************************************************************)
Gained(p) == Gain(p[1], p[2], winning)
GainInv == \A p \in due \ touched : share[p] = Gained(p)

\* The reward of a pair depends on the pool, the stake and the owner alone.
LEMMA SameGain ==
    ASSUME NEW c \in Clubs, NEW u \in Users, reward' = reward,
           ownership'[c].owner = ownership[c].owner, Staked(c, u)' = Staked(c, u),
           winning' = winning
    PROVE  Gained(<<c, u>>)' = Gained(<<c, u>>)
BY DEF Gained, Gain, RewardFor, OwnerShare, WinnersReward, Won, LosingClubs

LEMMA BatchGains ==
    ASSUME RoundTypeOK, StartInv, GainInv, NEW c \in Clubs,
           NEW stakers \in SUBSET Users, Batch(c, stakers)
    PROVE  GainInv'
<1> DEFINE first == due = {}
           roster == IF first THEN Roster ELSE due
           left == roster \ ({c} \X stakers)
           last == left = {}
           ranking == RankingOf(first)
<1>1. BatchEffect(c, stakers) /\ TypeOK
  BY BatchDoes DEF RoundTypeOK
<1>2. /\ share' = IF last THEN NoShares ELSE IF first THEN Shares ELSE share
      /\ touched' = IF first \/ last THEN {} ELSE touched
      /\ due' = left
  BY DEF Batch
<1>3. /\ winning' = ranking /\ reward' = RewardLeft(last, given')
      /\ \A d \in Clubs : ownership'[d].owner = ownership[d].owner
      /\ \A d \in Clubs \ {c} : stakes'[d] = stakes[d]
      /\ \A u \in Users : u \notin stakers => stakes'[c][u] = stakes[c][u]
  BY <1>1 DEF BatchEffect
<1> SUFFICES ASSUME NEW d \in Clubs, NEW u \in Users, <<d, u>> \in left \ touched', ~last
             PROVE  share'[<<d, u>>] = Gained(<<d, u>>)'
  <2>1. left \subseteq Pairs
    BY DEF Roster, RoundTypeOK
  <2> QED
    BY <1>2, <2>1 DEF GainInv, Pairs
<1>4. reward' = reward
  BY <1>3 DEF RewardLeft
<1>5. Staked(d, u)' = Staked(d, u)
  <2>1. stakes'[d][u] = stakes[d][u]
    BY <1>3
  <2> QED
    BY <2>1 DEF Staked, HasStake
<1>6. Gained(<<d, u>>)' = Gain(d, u, ranking)
  BY <1>3, <1>4, <1>5 DEF Gained, Gain, RewardFor, OwnerShare, WinnersReward, Won,
                          LosingClubs
<1>7. CASE first
  <2>1. share' = Shares /\ ranking = Ranking
    BY <1>2, <1>7 DEF RankingOf
  <2> QED
    BY <1>1, <1>6, <2>1, SharesTyped
<1>8. CASE ~first
  <2>1. share' = share /\ touched' = touched /\ <<d, u>> \in due /\ ranking = winning
    BY <1>2, <1>8 DEF RankingOf
  <2>2. share[<<d, u>>] = Gained(<<d, u>>)
    BY <2>1 DEF GainInv
  <2> QED
    BY <1>6, <2>1, <2>2 DEF Gained
<1> QED
  BY <1>7, <1>8

LEMMA BetweenKeepsRanking ==
    ASSUME RoundTypeOK, Between
    PROVE  winning' = winning
<1>1. Message \/ Funding \/ Tick
  BY MessageKinds DEF Between, RoundTypeOK
<1> QED
  BY <1>1 DEF Message, MessageOn, Funding, IncreaseRewardAmount, Tick, rewardVars

LEMMA BetweenGains == RoundTypeOK /\ GainInv /\ Between => GainInv'
<1> SUFFICES ASSUME RoundTypeOK, GainInv, Between, NEW p \in due' \ touched'
             PROVE  share'[p] = Gained(p)'
  BY DEF GainInv
<1>1. /\ due' = due /\ share' = share
      /\ touched' = IF due = {} THEN {}
                    ELSE IF OwnersOrPoolChange THEN Pairs
                    ELSE touched \cup
                         {q \in Pairs : Staked(q[1], q[2])' # Staked(q[1], q[2])}
  BY DEF Between
<1>2. p \in due /\ p \in Pairs
  BY <1>1 DEF RoundTypeOK
<1>3. /\ ~OwnersOrPoolChange /\ p \notin touched
      /\ Staked(p[1], p[2])' = Staked(p[1], p[2])
  BY <1>1, <1>2
<1>4. p[1] \in Clubs /\ p[2] \in Users /\ p = <<p[1], p[2]>>
  BY <1>2 DEF Pairs
<1>5. reward' = reward /\ ownership'[p[1]].owner = ownership[p[1]].owner
  BY <1>3, <1>4 DEF OwnersOrPoolChange
<1>6. winning' = winning
  BY BetweenKeepsRanking
<1>7. Gained(p)' = Gained(p)
  BY <1>3, <1>4, <1>5, <1>6, SameGain
<1> QED
  BY <1>1, <1>2, <1>3, <1>7 DEF GainInv

LEMMA OtherGains ==
    RoundTypeOK /\ GainInv /\ (Claim \/ UNCHANGED roundVars) => GainInv'
<1> SUFFICES ASSUME RoundTypeOK, GainInv, Claim \/ UNCHANGED roundVars,
                    NEW p \in due' \ touched'
             PROVE  share'[p] = Gained(p)'
  BY DEF GainInv
<1>1. UNCHANGED <<due, share, touched, ownership, stakes, reward, winning>>
  <2>1. CASE Claim
    <3>1. UNCHANGED <<now, clubVars, stakeVars, rewardVars>>
      BY <2>1, ClaimPays DEF Claim, RoundTypeOK
    <3> QED
      BY <2>1, <3>1 DEF Claim, clubVars, stakeVars, rewardVars
  <2>2. CASE UNCHANGED roundVars
    BY <2>2 DEF roundVars, vars, history, clubVars, stakeVars, rewardVars
  <2> QED
    BY <2>1, <2>2
<1>2. p[1] \in Clubs /\ p[2] \in Users /\ p = <<p[1], p[2]>>
  BY <1>1 DEF RoundTypeOK, Pairs
<1>3. Staked(p[1], p[2])' = Staked(p[1], p[2])
  BY <1>1 DEF Staked, HasStake
<1>4. Gained(p)' = Gained(p)
  BY <1>1, <1>2, <1>3, SameGain
<1> QED
  BY <1>1, <1>4 DEF GainInv

LEMMA StepKeepsGains ==
    RoundTypeOK /\ StartInv /\ GainInv /\ [RoundNext]_roundVars => GainInv'
<1>1. ASSUME RoundTypeOK, NEW c \in Clubs, EmptyRound(c) PROVE GainInv'
  BY <1>1, EmptyRoundSteps DEF GainInv
<1> QED
  BY <1>1, BatchGains, BetweenGains, OtherGains DEF RoundNext, SomeBatch

\* What the latest roster promised to a stake nothing touched is what it is
\* worth now.
THEOREM GainsAsPromised == RoundSpec => []GainInv
<1>1. RoundInit => GainInv
  BY DEF RoundInit, GainInv
<1> QED
  BY <1>1, StepKeepsGains, StartsInTime, RoundTypeOKHolds, PTL DEF RoundSpec

GainIsShare ==
    SomeBatch =>
       LET first == due = {}
           promised == IF first THEN Shares ELSE share
       IN  \A p \in (IF first THEN Roster ELSE due) \ (due' \cup touched) :
              Worth(p[1], p[2])' = Worth(p[1], p[2]) + promised[p]

LEMMA BatchPaysShares == RoundTypeOK /\ StartInv /\ GainInv => GainIsShare
<1> SUFFICES ASSUME RoundTypeOK, StartInv, GainInv PROVE GainIsShare
  OBVIOUS
<1>0. Roster \subseteq Pairs /\ due \subseteq Pairs
  BY DEF RoundTypeOK, Roster
<1> SUFFICES ASSUME NEW c \in Clubs, NEW stakers \in SUBSET Users, Batch(c, stakers),
                    NEW d \in Clubs, NEW u \in Users,
                    <<d, u>> \in (IF due = {} THEN Roster ELSE due) \ (due' \cup touched)
             PROVE  Worth(d, u)' = Worth(d, u) +
                      (IF due = {} THEN Shares ELSE share)[<<d, u>>]
  BY <1>0 DEF GainIsShare, SomeBatch, Pairs
<1> DEFINE ranking == RankingOf(due = {})
           later == Rewarded(c, u, ranking)
<1>1. BatchEffect(c, stakers) /\ TypeOK
  BY BatchDoes DEF RoundTypeOK
<1>2. d = c /\ u \in stakers
  BY <1>1 DEF BatchEffect
<1>3. stakes'[c][u] = later /\ HasStake(c, u)
  BY <1>1, <1>2 DEF BatchEffect, Begun
<1>4. ranking \in WinningClubDetails /\ LosingClubs(ranking) >= 0
  BY <1>1, RankingOfTyped
<1> HIDE DEF ranking
<1>5. /\ later # << >>
      /\ StakedIn(later) + PendingIn(later) =
           Staked(c, u) + PendingReward(c, u) + Gain(c, u, ranking)
  BY <1>1, <1>3, <1>4, RewardedStake
<1> HIDE DEF later
<1>6. Staked(c, u)' = StakedIn(later) /\ PendingReward(c, u)' = PendingIn(later)
  BY <1>3, <1>5 DEF Staked, PendingReward, HasStake, StakedIn, PendingIn
<1>7. (IF due = {} THEN Shares ELSE share)[<<c, u>>] = Gain(c, u, ranking)
  <2>1. CASE due = {}
    BY <1>1, <2>1, SharesTyped DEF ranking, RankingOf
  <2>2. CASE due # {}
    <3>1. <<c, u>> \in due \ touched /\ ranking = winning
      BY <1>2, <2>2 DEF ranking, RankingOf
    <3>2. share[<<c, u>>] = Gained(<<c, u>>)
      BY <3>1 DEF GainInv
    <3> QED
      BY <2>2, <3>1, <3>2 DEF Gained
  <2> QED
    BY <2>1, <2>2
<1> QED
  BY <1>2, <1>5, <1>6, <1>7 DEF Worth

\* A staker whose own stake is untouched gains in a round exactly the share
\* that the stakes at the start of the round gave.
THEOREM GainIsShareAtStartHolds == RoundSpec => GainIsShareAtStart
<1>1. RoundTypeOK /\ StartInv /\ GainInv /\ [RoundNext]_roundVars
        => [GainIsShare]_roundVars
  BY BatchPaysShares
<1> QED
  BY <1>1, GainsAsPromised, StartsInTime, RoundTypeOKHolds, PTL
  DEF RoundSpec, GainIsShareAtStart, GainIsShare

-----------------------------------------------------------------------------
(***************************************************************************)
(* The ranking counts every club that was sold once, adds up their totals, *)
(* and none of the winners has a greater total than it says.               *)
(***************************************************************************)
LEMMA ClubsFinite == IsFiniteSet(Clubs) /\ Names(ClubOrder, Clubs)
<1> DEFINE n == Len(ClubOrder)
<1>1. /\ ClubOrder \in Seq(Clubs) /\ DOMAIN ClubOrder = 1..n
      /\ \A i, j \in 1..n : ClubOrder[i] = ClubOrder[j] => i = j
  <2>1. ClubOrder \in Seq(Clubs) /\ IsInjective(ClubOrder)
    BY ConfigAssumption
  <2> QED
    BY <2>1, LenProperties DEF IsInjective
<1>2. /\ \A i \in 1..n : ClubOrder[i] \in Clubs
      /\ \A d \in Clubs : \E i \in 1..n : ClubOrder[i] = d
  BY <1>1 DEF Clubs, ToSet
<1> HIDE DEF Clubs
<1>3. Names(ClubOrder, Clubs)
  BY <1>1, <1>2 DEF Names
<1> QED
  BY <1>3, NamesCounted

\* The clubs that were sold.
Sold == {c \in Clubs : Listed(c)}

LEMMA ListedClubsNamed == Names(ListedClubs, Sold)
<1> DEFINE list == ClubOrder
           n == Len(list)
           first(m) == {list[i] : i \in 1..m}
<1>1. /\ list \in Seq(Clubs) /\ n \in Nat /\ << >> \in Seq(Clubs)
      /\ \A i, j \in 1..n : list[i] = list[j] => i = j
      /\ \A i \in 1..n : list[i] \in Clubs
      /\ \A d \in Clubs : \E i \in 1..n : list[i] = d
      /\ Names(list, Clubs)
  BY ClubsFinite, NamesCounted, EmptySeq DEF Names
<1>2. first(n) = Clubs
  BY <1>1
<1> HIDE DEF list, n, Clubs
<1>3. PICK c : FoldLeft(AddListed, << >>, list) = c[1..n] /\ ListedFrom(c, << >>, list)
  BY <1>1, ListingUnfolds DEF n
<1>4. c[{}] = << >> /\ \A k \in 1..n : c[1..k] = AddListed(c[1..(k - 1)], list[k])
  BY <1>3 DEF ListedFrom, n
<1> DEFINE soFar(k) == {d \in first(k) : Listed(d)}
           Q == {k \in Nat : k <= n => Names(c[1..k], soFar(k))}
<1>5. 0 \in Q
  <2>1. 1..0 = {} /\ soFar(0) = {}
    OBVIOUS
  <2> QED
    BY <1>4, <2>1, NamesOfNone
<1>6. ASSUME NEW k \in Nat, k \in Q
      PROVE  k + 1 \in Q
  <2> SUFFICES ASSUME k + 1 <= n
               PROVE  Names(c[1..(k + 1)], soFar(k + 1))
    OBVIOUS
  <2> DEFINE x == list[k + 1]
             found == soFar(k)
  <2>0. Names(c[1..k], found)
    <3> HIDE DEF soFar
    <3> QED
      BY <1>1, <1>6
  <2>1. /\ k + 1 \in 1..n /\ (k + 1) - 1 = k /\ x \in Clubs /\ x \notin first(k)
        /\ first(k + 1) = first(k) \cup {x}
    BY <1>1, FirstOfList DEF n
  <2>3. c[1..(k + 1)] = AddListed(c[1..k], x)
    BY <1>4, <2>1
  <2> HIDE DEF x, first
  <2>4. CASE Listed(x)
    <3>1. soFar(k + 1) = found \cup {x} /\ x \notin found
      BY <2>1, <2>4
    <3>2. c[1..(k + 1)] = Append(c[1..k], x)
      BY <2>3, <2>4 DEF AddListed
    <3> HIDE DEF found
    <3> QED
      BY <2>0, <2>1, <3>1, <3>2, OneMoreName
  <2>5. CASE ~Listed(x)
    <3>1. soFar(k + 1) = found
      BY <2>1, <2>5
    <3>2. c[1..(k + 1)] = c[1..k]
      BY <2>3, <2>5 DEF AddListed
    <3> QED
      BY <2>0, <3>1, <3>2
  <2> QED
    BY <2>4, <2>5
<1> HIDE DEF Q
<1>7. n \in Q
  BY <1>1, <1>5, <1>6, NatSetInduction
<1>8. Names(c[1..n], soFar(n))
  <2> HIDE DEF soFar
  <2> QED
    BY <1>1, <1>7 DEF Q
<1> QED
  BY <1>2, <1>3, <1>8 DEF ListedClubs, Sold, list

(***************************************************************************)
(* What the pass over the clubs has found of a set of them.                *)
(***************************************************************************)
Ranked(acc, S, total) ==
    /\ acc \in RankState
    /\ acc.clubs = Cardinality(S)
    /\ acc.stake = SumFunctionOnSet(total, S)
    /\ \E W \in SUBSET S : /\ Names(acc.winners, W)
                           /\ \A w \in W : total[w] <= acc.maxTotal

LEMMA NoneRankedYet ==
    ASSUME NEW total
    PROVE  Ranked(NoneRanked, {}, total)
<1>1. /\ NoneRanked.clubs = 0 /\ NoneRanked.stake = 0 /\ NoneRanked.winners = << >>
  BY DEF NoneRanked
<1>2. Cardinality({}) = 0 /\ SumFunctionOnSet(total, {}) = 0
  BY FS_EmptySet, SumOfNone
<1> QED
  BY <1>1, <1>2, NoneRankedTyped, NamesOfNone DEF Ranked

LEMMA OneMoreRanked ==
    ASSUME NEW total \in [Clubs -> Nat], NEW S \in SUBSET Clubs, NEW acc,
           Ranked(acc, S, total), NEW x \in Clubs, x \notin S, NEW previous \in Nat
    PROVE  Ranked(RankClub(acc, x, total[x], previous), S \cup {x}, total)
<1> DEFINE next == RankClub(acc, x, total[x], previous)
           increase == total[x] - previous
           V == S \cup {x}
           t == total[x]
           sum(T) == SumFunctionOnSet(total, T)
<1>1. /\ acc \in RankState /\ acc.clubs = Cardinality(S) /\ acc.stake = sum(S)
      /\ acc.maxTotal \in Nat /\ t \in Nat /\ increase \in Int
      /\ \A w \in Clubs : total[w] \in Nat
  BY DEF Ranked, RankState
<1>2. next \in RankState
  BY <1>1, RankTyped
<1>3. PICK W \in SUBSET S : Names(acc.winners, W) /\ \A w \in W : total[w] <= acc.maxTotal
  BY DEF Ranked
<1>4. /\ IsFiniteSet(S) /\ IsFiniteSet(V) /\ V \in SUBSET Clubs
      /\ Cardinality(V) = Cardinality(S) + 1
  <2> HIDE DEF Clubs
  <2> QED
    BY ClubsFinite, FS_Subset, FS_AddElement
<1>5. sum(V) = sum(S) + t
  <2>1. \A w \in V : total[w] \in Int
    BY <1>1, <1>4
  <2>2. x \in V /\ V \ {x} = S
    OBVIOUS
  <2> HIDE DEF V
  <2>3. sum(V) = t + sum(V \ {x})
    BY <1>4, <2>1, <2>2, SumWithout
  <2>4. sum(S) \in Int
    BY <1>1, <1>4, SumIsInteger
  <2> HIDE DEF t, sum
  <2>5. sum(V) = t + sum(S)
    BY <2>2, <2>3
  <2>6. t \in Int
    BY <1>1
  <2> QED
    BY <2>4, <2>5, <2>6
<1> DEFINE clubs == acc.clubs + 1
           stake == acc.stake + t
           counted == [acc EXCEPT !.clubs = clubs, !.stake = stake]
<1>6. /\ counted.clubs = clubs /\ counted.stake = stake
      /\ counted.winners = acc.winners /\ counted.maxTotal = acc.maxTotal
      /\ counted \in [maxIncrease : Int, maxTotal : Nat, winners : Seq(Clubs),
                      clubs : Nat, stake : Nat]
  <2>1. acc \in [maxIncrease : Int, maxTotal : Nat, winners : Seq(Clubs),
                  clubs : Nat, stake : Nat]
    BY <1>1 DEF RankState
  <2>2. clubs \in Nat /\ stake \in Nat
    BY <1>1, <2>1
  <2> HIDE DEF t, clubs, stake
  <2> QED
    BY <2>1, <2>2
<1>7. /\ next.clubs = clubs /\ next.stake = stake
      /\ \/ next.winners = <<x>> /\ next.maxTotal = t
         \/ /\ next.winners = Append(acc.winners, x) /\ next.maxTotal = t
            /\ t >= acc.maxTotal
         \/ next.winners = acc.winners /\ next.maxTotal = acc.maxTotal
  <2> HIDE DEF counted, clubs, stake
  <2>1. CASE increase > acc.maxIncrease
    <3>1. next = [counted EXCEPT !.maxIncrease = increase, !.maxTotal = t,
                                 !.winners = <<x>>]
      BY <2>1 DEF RankClub, counted, clubs, stake
    <3> QED
      BY <1>6, <3>1
  <2>2. CASE ~(increase > acc.maxIncrease) /\ Joins(acc, increase, t)
    <3>1. next = [counted EXCEPT !.maxTotal = t, !.winners = Append(@, x)]
      BY <2>2 DEF RankClub, counted, clubs, stake
    <3>2. t >= acc.maxTotal
      BY <2>2 DEF Joins
    <3> QED
      BY <1>6, <3>1, <3>2
  <2>3. CASE ~(increase > acc.maxIncrease) /\ ~Joins(acc, increase, t)
    <3>1. next = counted
      BY <2>3 DEF RankClub, counted, clubs, stake
    <3> QED
      BY <1>6, <3>1
  <2> QED
    BY <2>1, <2>2, <2>3
<1> HIDE DEF next, counted, increase, clubs, stake
<1>8. \E U \in SUBSET V : Names(next.winners, U) /\ \A w \in U : total[w] <= next.maxTotal
  <2>1. CASE next.winners = <<x>> /\ next.maxTotal = t
    <3>1. Names(Append(<< >>, x), {} \cup {x})
      BY NamesOfNone, OneMoreName
    <3>2. Append(<< >>, x) = <<x>> /\ {} \cup {x} = {x}
      OBVIOUS
    <3>3. Names(next.winners, {x})
      BY <2>1, <3>1, <3>2
    <3>4. {x} \in SUBSET V /\ \A w \in {x} : total[w] <= next.maxTotal
      BY <1>1, <2>1
    <3> QED
      BY <3>3, <3>4
  <2>2. CASE next.winners = Append(acc.winners, x) /\ next.maxTotal = t /\ t >= acc.maxTotal
    <3> DEFINE U == W \cup {x}
    <3>1. Names(next.winners, U)
      BY <1>3, <2>2, OneMoreName
    <3>2. U \in SUBSET V
      OBVIOUS
    <3>3. \A w \in U : total[w] <= next.maxTotal
      <4> TAKE w \in U
      <4>1. CASE w = x
        BY <1>1, <2>2, <4>1
      <4>2. CASE w \in W
        <5>1. total[w] <= acc.maxTotal /\ total[w] \in Nat
          BY <1>1, <1>3, <4>2
        <5> HIDE DEF t
        <5> QED
          BY <1>1, <2>2, <5>1
      <4> QED
        BY <4>1, <4>2
    <3> HIDE DEF U
    <3> QED
      BY <3>1, <3>2, <3>3
  <2>3. CASE next.winners = acc.winners /\ next.maxTotal = acc.maxTotal
    <3>1. W \in SUBSET V
      OBVIOUS
    <3> QED
      BY <1>3, <2>3, <3>1
  <2> QED
    BY <1>7, <2>1, <2>2, <2>3
<1> HIDE DEF V, sum, t
<1> QED
  BY <1>1, <1>2, <1>4, <1>5, <1>7, <1>8 DEF Ranked, next, V, sum, t, clubs, stake

LEMMA ClubsRanked ==
    ASSUME NEW total \in [Clubs -> Nat], NEW previous \in [Clubs -> Nat],
           NEW list, NEW S \in SUBSET Clubs, Names(list, S)
    PROVE  Ranked(RankedClubs(list, total, previous), S, total)
<1> DEFINE n == Len(list)
           first(m) == {list[i] : i \in 1..m}
<1>1. list \in Seq(Clubs) /\ n \in Nat /\ first(n) = S
  <2> HIDE DEF Clubs
  <2>1. /\ \A i \in 1..n : list[i] \in S
        /\ \A w \in S : \E i \in 1..n : list[i] = w
        /\ n \in Nat /\ list \in Seq(S)
    BY NamesCounted DEF Names
  <2>2. list \in Seq(Clubs)
    BY <2>1
  <2>3. first(n) = S
    BY <2>1
  <2> QED
    BY <2>1, <2>2, <2>3
<1>2. PICK c : RankedClubs(list, total, previous) = c[1..n] /\ RankedFrom(c, list, total, previous)
  BY <1>1, RankingUnfolds
<1>3. /\ c[{}] = NoneRanked
      /\ \A k \in 1..n : c[1..k] = RankClub(c[1..(k - 1)], list[k], total[list[k]],
                                            previous[list[k]])
  BY <1>2 DEF RankedFrom
<1> DEFINE Q == {k \in Nat : k <= n => Ranked(c[1..k], first(k), total)}
<1> HIDE DEF n
<1>4. 0 \in Q
  <2>1. 1..0 = {} /\ first(0) = {}
    OBVIOUS
  <2> QED
    BY <1>3, <2>1, NoneRankedYet
<1>5. ASSUME NEW k \in Nat, k \in Q
      PROVE  k + 1 \in Q
  <2> SUFFICES ASSUME k + 1 <= n
               PROVE  Ranked(c[1..(k + 1)], first(k + 1), total)
    OBVIOUS
  <2> DEFINE x == list[k + 1]
  <2>1. /\ k + 1 \in 1..n /\ (k + 1) - 1 = k /\ x \in Clubs /\ x \notin first(k)
        /\ first(k) \in SUBSET Clubs /\ first(k + 1) = first(k) \cup {x}
    <3>1. /\ k + 1 \in 1..n /\ (k + 1) - 1 = k /\ x \in S /\ x \notin first(k)
          /\ first(k) \subseteq S /\ first(k + 1) = first(k) \cup {x}
      BY FirstOfList DEF n
    <3> HIDE DEF first, x, Clubs
    <3> QED
      BY <3>1
  <2>2. Ranked(c[1..k], first(k), total)
    BY <1>1, <1>5
  <2>3. c[1..(k + 1)] = RankClub(c[1..k], x, total[x], previous[x]) /\ previous[x] \in Nat
    BY <1>3, <2>1
  <2> HIDE DEF first, x
  <2>4. Ranked(RankClub(c[1..k], x, total[x], previous[x]), first(k) \cup {x}, total)
    BY <2>1, <2>2, <2>3, OneMoreRanked
  <2> QED
    BY <2>1, <2>3, <2>4
<1> HIDE DEF Q
<1>6. n \in Q
  BY <1>1, <1>4, <1>5, NatSetInduction
<1>7. Ranked(c[1..n], first(n), total)
  <2> HIDE DEF first
  <2> QED
    BY <1>1, <1>6 DEF Q
<1> QED
  BY <1>1, <1>2, <1>7

\* The ranking of the clubs that were sold.
Totals == [c \in Clubs |-> ownership[c].total]
Winners(ranking) == ToSet(ranking.winners)

LEMMA RankingCounts ==
    ASSUME TypeOK
    PROVE  /\ Totals \in [Clubs -> Nat]
           /\ Ranking \in WinningClubDetails /\ LosingClubs(Ranking) >= 0
           /\ IsFiniteSet(Sold) /\ Winners(Ranking) \subseteq Sold
           /\ Ranking.stake = SumFunctionOnSet(Totals, Sold)
           /\ Len(Ranking.winners) = Cardinality(Winners(Ranking))
           /\ LosingClubs(Ranking) = Cardinality(Sold \ Winners(Ranking))
           /\ \A w \in Winners(Ranking) : ownership[w].total <= Ranking.winnerStake
<1> DEFINE ranked == RankedClubs(ListedClubs, Totals, snapshot)
<1>1. Totals \in [Clubs -> Nat] /\ snapshot \in [Clubs -> Nat]
  BY DEF TypeOK, Totals, Ownership
<1>2. Ranking \in WinningClubDetails /\ LosingClubs(Ranking) >= 0
  BY RankingOfTyped DEF RankingOf
<1>3. Ranked(ranked, Sold, Totals)
  BY <1>1, ListedClubsNamed, ClubsRanked DEF Sold
<1>4. /\ Ranking.clubs = ranked.clubs /\ Ranking.stake = ranked.stake
      /\ Ranking.winnerStake = ranked.maxTotal /\ Ranking.winners = ranked.winners
  BY DEF Ranking, WinningClubs, Totals
<1> HIDE DEF ranked
<1>5. PICK W \in SUBSET Sold : /\ Names(ranked.winners, W)
                              /\ \A w \in W : Totals[w] <= ranked.maxTotal
  BY <1>3 DEF Ranked
<1>6. IsFiniteSet(Sold)
  BY ClubsFinite, FS_Subset DEF Sold
<1>7. W = Winners(Ranking) /\ Len(Ranking.winners) = Cardinality(W)
  BY <1>4, <1>5, NamesCounted DEF Winners
<1>8. LosingClubs(Ranking) = Cardinality(Sold \ W)
  <2>1. /\ Cardinality(Sold \ W) = Cardinality(Sold) - Cardinality(Sold \cap W)
        /\ Sold \cap W = W
    BY <1>6, FS_Difference
  <2>2. Ranking.clubs = Cardinality(Sold)
    BY <1>3, <1>4 DEF Ranked
  <2> QED
    BY <1>7, <2>1, <2>2 DEF LosingClubs
<1>9. \A w \in W : ownership[w].total <= Ranking.winnerStake
  BY <1>4, <1>5 DEF Totals, Sold
<1> QED
  BY <1>1, <1>2, <1>3, <1>4, <1>6, <1>7, <1>8, <1>9 DEF Ranked

-----------------------------------------------------------------------------
(***************************************************************************)
(* What a round owes to all stakers together is no more than the reward:   *)
(* 78% is divided by all stakes, 19% by the winning clubs and in each by   *)
(* its stakes, 3% by the owners, and every share is rounded down.          *)
(***************************************************************************)
Percent(percent) == (reward * percent) \div 100

ForAll(c, u, ranking) == DivOrZero(Percent(78) * Staked(c, u), ranking.stake)
ForWinners(c, u, ranking) ==
    IF Won(c, ranking)
    THEN DivOrZero(WinnersReward(ranking) * Staked(c, u), ranking.winnerStake)
    ELSE 0
ForOwner(c, u, ranking) ==
    IF u = ownership[c].owner THEN OwnerShare(c, ranking) ELSE 0

OfClubForAll(c, ranking) == SumFunctionOnSet([u \in Users |-> ForAll(c, u, ranking)], Users)
OfClubForWinners(c, ranking) ==
    SumFunctionOnSet([u \in Users |-> ForWinners(c, u, ranking)], Users)
OfClubForOwner(c, ranking) ==
    SumFunctionOnSet([u \in Users |-> ForOwner(c, u, ranking)], Users)
OfClub(c, ranking) == SumFunctionOnSet(Gains(c, ranking), Users)

LEMMA ShareDivided ==
    ASSUME NEW a \in Nat, NEW b \in Nat
    PROVE  /\ DivOrZero(a, b) \in Nat /\ b * DivOrZero(a, b) <= a
           /\ b = 0 => DivOrZero(a, b) = 0
<1>1. CASE b = 0
  <2>1. 0 * 0 <= a
    OBVIOUS
  <2> QED
    BY <1>1, <2>1 DEF DivOrZero
<1>2. CASE b # 0
  <2>1. b > 0
    BY <1>2
  <2>2. a \div b \in Nat /\ b * (a \div b) <= a
    BY <2>1, Quotient
  <2> QED
    BY <1>2, <2>2 DEF DivOrZero
<1> QED
  BY <1>1, <1>2

LEMMA RankingFields ==
    ASSUME NEW ranking \in WinningClubDetails, LosingClubs(ranking) >= 0
    PROVE  /\ ranking.stake \in Nat /\ ranking.winnerStake \in Nat
           /\ LosingClubs(ranking) \in Nat /\ Len(ranking.winners) \in Nat
<1>1. /\ ranking.clubs \in Nat /\ ranking.stake \in Nat
      /\ ranking.winnerStake \in Nat /\ ranking.winners \in Seq(Clubs)
  BY DEF WinningClubDetails
<1>2. Len(ranking.winners) \in Nat
  BY <1>1, LenProperties
<1>3. LosingClubs(ranking) \in Int
  BY <1>1, <1>2 DEF LosingClubs
<1> QED
  BY <1>1, <1>2, <1>3

\* The parts of the reward, and their shares.
OwnersPercent(c, ranking) ==
    IF ~Won(c, ranking) THEN 2 ELSE IF LosingClubs(ranking) > 0 THEN 1 ELSE 3
OwnersSharing(c, ranking) ==
    IF Won(c, ranking) THEN Len(ranking.winners) ELSE LosingClubs(ranking)

LEMMA PartsTyped ==
    ASSUME TypeOK, NEW c \in Clubs,
           NEW ranking \in WinningClubDetails, LosingClubs(ranking) >= 0
    PROVE  /\ \A percent \in Nat : Percent(percent) \in Nat
           /\ WinnersReward(ranking) \in Nat
           /\ Len(ranking.winners) * WinnersReward(ranking) <= Percent(19)
           /\ OwnerShare(c, ranking) \in Nat
           /\ OwnersSharing(c, ranking) * OwnerShare(c, ranking)
                <= Percent(OwnersPercent(c, ranking))
<1>1. reward \in Nat
  BY DEF TypeOK
<1>2. \A percent \in Nat : Percent(percent) \in Nat
  BY <1>1, ShareOfReward DEF Percent
<1>3. LosingClubs(ranking) \in Nat /\ Len(ranking.winners) \in Nat
  BY RankingFields
<1>4. OwnersPercent(c, ranking) \in Nat /\ OwnersSharing(c, ranking) \in Nat
  BY <1>3 DEF OwnersPercent, OwnersSharing
<1>5. /\ OwnerShare(c, ranking) =
           DivOrZero(Percent(OwnersPercent(c, ranking)), OwnersSharing(c, ranking))
      /\ WinnersReward(ranking) = DivOrZero(Percent(19), Len(ranking.winners))
  BY DEF OwnerShare, OwnersPercent, OwnersSharing, WinnersReward, Percent
<1>6. Percent(19) \in Nat /\ Percent(OwnersPercent(c, ranking)) \in Nat
  BY <1>2, <1>4
<1> QED
  BY <1>2, <1>3, <1>4, <1>5, <1>6, ShareDivided

LEMMA GainInParts ==
    ASSUME TypeOK, NEW c \in Clubs, NEW u \in Users,
           NEW ranking \in WinningClubDetails, LosingClubs(ranking) >= 0
    PROVE  /\ Gain(c, u, ranking) =
                ForAll(c, u, ranking) + ForWinners(c, u, ranking) + ForOwner(c, u, ranking)
           /\ ForAll(c, u, ranking) \in Nat
           /\ ranking.stake * ForAll(c, u, ranking) <= Percent(78) * Staked(c, u)
           /\ ForWinners(c, u, ranking) \in Nat
           /\ ranking.winnerStake * ForWinners(c, u, ranking)
                <= WinnersReward(ranking) * Staked(c, u)
           /\ ForOwner(c, u, ranking) \in Nat
           /\ ranking.stake = 0 => ForAll(c, u, ranking) = 0
           /\ ranking.winnerStake = 0 => ForWinners(c, u, ranking) = 0
<1>1. /\ Percent(78) \in Nat /\ WinnersReward(ranking) \in Nat
      /\ OwnerShare(c, ranking) \in Nat /\ Staked(c, u) \in Nat
      /\ ranking.stake \in Nat /\ ranking.winnerStake \in Nat
  BY PartsTyped, RankingFields, StakedTyped
<1>2. /\ Percent(78) * Staked(c, u) \in Nat
      /\ WinnersReward(ranking) * Staked(c, u) \in Nat
  BY <1>1, ProductNat
<1>3. Gain(c, u, ranking) =
        ForAll(c, u, ranking) + ForWinners(c, u, ranking) + ForOwner(c, u, ranking)
  BY DEF Gain, RewardFor, ForAll, ForWinners, ForOwner, Percent
<1>4. /\ ForAll(c, u, ranking) \in Nat
      /\ ranking.stake * ForAll(c, u, ranking) <= Percent(78) * Staked(c, u)
      /\ ranking.stake = 0 => ForAll(c, u, ranking) = 0
  BY <1>1, <1>2, ShareDivided DEF ForAll
<1>5. /\ ForWinners(c, u, ranking) \in Nat
      /\ ranking.winnerStake * ForWinners(c, u, ranking)
           <= WinnersReward(ranking) * Staked(c, u)
      /\ ranking.winnerStake = 0 => ForWinners(c, u, ranking) = 0
  <2>1. CASE Won(c, ranking)
    BY <1>1, <1>2, <2>1, ShareDivided DEF ForWinners
  <2>2. CASE ~Won(c, ranking)
    <3>1. ForWinners(c, u, ranking) = 0
      BY <2>2 DEF ForWinners
    <3>2. ranking.winnerStake * 0 = 0
      BY <1>1
    <3> QED
      BY <1>2, <3>1, <3>2
  <2> QED
    BY <2>1, <2>2
<1>6. ForOwner(c, u, ranking) \in Nat
  BY <1>1 DEF ForOwner
<1> QED
  BY <1>3, <1>4, <1>5, <1>6

\* What one club is given.
LEMMA ClubShares ==
    ASSUME TypeOK, NEW c \in Clubs,
           NEW ranking \in WinningClubDetails, LosingClubs(ranking) >= 0,
           Won(c, ranking) => ClubStake(c) <= ranking.winnerStake
    PROVE  /\ OfClub(c, ranking) = OfClubForAll(c, ranking) +
                OfClubForWinners(c, ranking) + OfClubForOwner(c, ranking)
           /\ OfClub(c, ranking) \in Nat
           /\ OfClubForAll(c, ranking) \in Nat
           /\ ranking.stake * OfClubForAll(c, ranking) <= Percent(78) * ClubStake(c)
           /\ ranking.stake = 0 => OfClubForAll(c, ranking) = 0
           /\ OfClubForWinners(c, ranking) \in Nat
           /\ OfClubForWinners(c, ranking) <=
                IF Won(c, ranking) THEN WinnersReward(ranking) ELSE 0
           /\ OfClubForOwner(c, ranking) \in Nat
           /\ OfClubForOwner(c, ranking) <= OwnerShare(c, ranking)
<1> DEFINE st == [u \in Users |-> Staked(c, u)]
           fa == [u \in Users |-> ForAll(c, u, ranking)]
           fw == [u \in Users |-> ForWinners(c, u, ranking)]
           fo == [u \in Users |-> ForOwner(c, u, ranking)]
           aw == [u \in Users |-> ForAll(c, u, ranking) + ForWinners(c, u, ranking)]
           sum(f) == SumFunctionOnSet(f, Users)
           W == WinnersReward(ranking)
           p == Percent(78)
           o == OwnerShare(c, ranking)
<1>0. IsFiniteSet(Users) /\ Users \in SUBSET Users
  BY ConfigAssumption
<1>1. \A u \in Users :
         /\ fa[u] \in Nat /\ fw[u] \in Nat /\ fo[u] \in Nat /\ aw[u] \in Nat
         /\ st[u] = Staked(c, u) /\ st[u] \in Nat
         /\ fa[u] = ForAll(c, u, ranking) /\ fw[u] = ForWinners(c, u, ranking)
         /\ fo[u] = ForOwner(c, u, ranking)
         /\ aw[u] = fa[u] + fw[u]
         /\ Gains(c, ranking)[u] = aw[u] + fo[u] /\ Gains(c, ranking)[u] \in Nat
         /\ ranking.stake * fa[u] <= p * st[u]
         /\ ranking.winnerStake * fw[u] <= W * st[u]
         /\ ranking.stake = 0 => fa[u] = 0
         /\ ranking.winnerStake = 0 => fw[u] = 0
  <2> TAKE u \in Users
  <2>1. Staked(c, u) \in Nat
    BY StakedTyped
  <2>2. Gains(c, ranking)[u] = Gain(c, u, ranking) /\ Gain(c, u, ranking) \in Nat
    BY GainTyped
  <2> QED
    BY <2>1, <2>2, GainInParts
<1>2. /\ OfClub(c, ranking) = sum(Gains(c, ranking)) /\ OfClubForAll(c, ranking) = sum(fa)
      /\ OfClubForWinners(c, ranking) = sum(fw) /\ OfClubForOwner(c, ranking) = sum(fo)
      /\ ClubStake(c) = sum(st)
  BY DEF OfClub, OfClubForAll, OfClubForWinners, OfClubForOwner, ClubStake, SumFunction
<1>3. /\ W \in Nat /\ p \in Nat /\ o \in Nat
      /\ ranking.stake \in Nat /\ ranking.winnerStake \in Nat
  BY PartsTyped, RankingFields
<1>4. \A u \in Users : fo[u] = IF u = ownership[c].owner THEN o ELSE 0
  BY DEF ForOwner
<1>5. ~Won(c, ranking) => \A u \in Users : fw[u] = 0
  BY DEF ForWinners
<1> DEFINE g == Gains(c, ranking)
<1>6. \A u \in Users : g[u] = aw[u] + fo[u] /\ g[u] \in Nat
  BY <1>1
<1> HIDE DEF st, fa, fw, fo, aw, W, p, o, g
<1>7. /\ sum(st) \in Nat /\ sum(fa) \in Nat /\ sum(fw) \in Nat /\ sum(fo) \in Nat
      /\ sum(aw) \in Nat /\ sum(g) \in Nat
  BY <1>0, <1>1, <1>6, SumIsNatural
<1>8. sum(aw) = sum(fa) + sum(fw)
  <2>1. \A u \in Users : fa[u] \in Int /\ fw[u] \in Int /\ aw[u] = fa[u] + fw[u]
    BY <1>1
  <2> QED
    BY <1>0, <2>1, SumOfBoth
<1>9. sum(g) = sum(aw) + sum(fo)
  <2>1. \A u \in Users : aw[u] \in Int /\ fo[u] \in Int /\ g[u] = aw[u] + fo[u]
    BY <1>1, <1>6
  <2> QED
    BY <1>0, <2>1, SumOfBoth
<1>10. ranking.stake * sum(fa) <= p * sum(st)
  BY <1>0, <1>1, <1>3, SumOfShares
<1>11. ranking.stake = 0 => sum(fa) = 0
  BY <1>0, <1>1, SumOfZeros
<1>12. sum(fw) <= IF Won(c, ranking) THEN W ELSE 0
  <2>1. CASE ~Won(c, ranking)
    <3>1. sum(fw) = 0
      BY <1>0, <1>5, <2>1, SumOfZeros
    <3> QED
      BY <2>1, <3>1
  <2>2. CASE Won(c, ranking) /\ ranking.winnerStake = 0
    <3>1. sum(fw) = 0
      BY <1>0, <1>1, <2>2, SumOfZeros
    <3> QED
      BY <1>3, <2>2, <3>1
  <2>3. CASE Won(c, ranking) /\ ranking.winnerStake # 0
    <3>1. ranking.winnerStake > 0 /\ sum(st) <= ranking.winnerStake
      BY <1>2, <1>3, <2>3
    <3>2. sum(fw) <= W
      BY <1>0, <1>1, <1>3, <3>1, SharesWithin
    <3> QED
      BY <2>3, <3>2
  <2> QED
    BY <2>1, <2>2, <2>3
<1>13. sum(fo) <= o
  <2>1. CASE ownership[c].owner \in Users
    <3>1. sum(fo) = fo[ownership[c].owner]
      BY <1>0, <1>3, <1>4, <2>1, SumOfSingle
    <3> QED
      BY <1>3, <1>4, <2>1, <3>1
  <2>2. CASE ownership[c].owner \notin Users
    <3>1. sum(fo) = 0
      BY <1>0, <1>4, <2>2, SumOfZeros
    <3> QED
      BY <1>3, <3>1
  <2> QED
    BY <2>1, <2>2
<1>14. /\ OfClub(c, ranking) = sum(g) /\ sum(g) = sum(fa) + sum(fw) + sum(fo)
  <2> HIDE DEF sum
  <2>1. OfClub(c, ranking) = sum(g)
    BY <1>2 DEF g
  <2> QED
    BY <1>7, <1>8, <1>9, <2>1
<1> HIDE DEF sum
<1> QED
  BY <1>2, <1>7, <1>10, <1>11, <1>12, <1>13, <1>14 DEF W, p, o

LEMMA PercentsWithin ==
    ASSUME TypeOK
    PROVE  /\ \A percent \in Nat : Percent(percent) \in Nat
           /\ Percent(78) + Percent(19) + Percent(1) + Percent(2) <= reward
           /\ Percent(78) + Percent(19) + Percent(3) <= reward
<1>1. reward \in Nat
  BY DEF TypeOK
<1>2. \A percent \in Nat : Percent(percent) \in Nat
  BY <1>1, ShareOfReward DEF Percent
<1>3. ASSUME NEW percent \in Nat PROVE 100 * Percent(percent) <= reward * percent
  <2> DEFINE n == reward * percent
  <2>1. n \in Nat
    BY <1>1, ProductNat
  <2> HIDE DEF n
  <2>2. 100 * (n \div 100) <= n
    BY <2>1, Quotient
  <2> QED
    BY <2>2 DEF n, Percent
<1> DEFINE a == Percent(78)
           b == Percent(19)
           c == Percent(1)
           d == Percent(2)
           e == Percent(3)
<1>4. /\ 100 * a <= reward * 78 /\ 100 * b <= reward * 19 /\ 100 * c <= reward * 1
      /\ 100 * d <= reward * 2 /\ 100 * e <= reward * 3
  BY <1>3
<1>5. a \in Nat /\ b \in Nat /\ c \in Nat /\ d \in Nat /\ e \in Nat
  BY <1>2
<1> HIDE DEF a, b, c, d, e
<1>6. a + b + c + d <= reward /\ a + b + e <= reward
  BY <1>1, <1>4, <1>5
<1> QED
  BY <1>2, <1>6 DEF a, b, c, d, e

\* The stakes of all clubs together, as the ranking finds them.
LEMMA RoundOwesReward ==
    ASSUME TypeOK, \A d \in Clubs : ClubStake(d) <= ownership[d].total
    PROVE  /\ \A c \in Clubs : OfClub(c, Ranking) \in Nat
           /\ SumFunctionOnSet([c \in Clubs |-> OfClub(c, Ranking)], Sold) <= reward
<1> DEFINE R == Ranking
           W == Winners(R)
           L == Sold \ W
           sum(f, S) == SumFunctionOnSet(f, S)
           wr == WinnersReward(R)
           losing == LosingClubs(R)
           pw == Percent(IF losing > 0 THEN 1 ELSE 3)
           pl == Percent(2)
           ow == DivOrZero(pw, Len(R.winners))
           ol == DivOrZero(pl, losing)
           all == [c \in Clubs |-> OfClub(c, R)]
           fa == [c \in Clubs |-> OfClubForAll(c, R)]
           fr == [c \in Clubs |-> OfClubForWinners(c, R) + OfClubForOwner(c, R)]
           cap == [c \in Clubs |-> IF c \in W THEN wr + ow ELSE ol]
<1>1. /\ Totals \in [Clubs -> Nat]
      /\ R \in WinningClubDetails /\ losing >= 0
      /\ IsFiniteSet(Sold) /\ W \subseteq Sold
      /\ R.stake = sum(Totals, Sold)
      /\ Len(R.winners) = Cardinality(W)
      /\ losing = Cardinality(L)
      /\ \A w \in W : ownership[w].total <= R.winnerStake
  BY RankingCounts
<1>2. /\ R.stake \in Nat /\ R.winnerStake \in Nat /\ losing \in Nat
      /\ Len(R.winners) \in Nat
  BY <1>1, RankingFields
<1>3. Sold \subseteq Clubs /\ \A c \in Clubs : Won(c, R) <=> c \in W
  BY DEF Sold, Won, Winners
<1>4. \A c \in Clubs : /\ ClubStake(c) \in Nat /\ ownership[c].total \in Nat
                       /\ ClubStake(c) <= ownership[c].total
                       /\ Totals[c] = ownership[c].total
  BY ClubSums, TotalIsNat DEF Totals
<1>5. ASSUME NEW c \in Clubs
      PROVE  /\ OfClub(c, R) = OfClubForAll(c, R) + OfClubForWinners(c, R)
                                 + OfClubForOwner(c, R)
             /\ OfClub(c, R) \in Nat /\ OfClubForAll(c, R) \in Nat
             /\ R.stake * OfClubForAll(c, R) <= Percent(78) * ClubStake(c)
             /\ R.stake = 0 => OfClubForAll(c, R) = 0
             /\ OfClubForWinners(c, R) \in Nat
             /\ OfClubForWinners(c, R) <= IF c \in W THEN wr ELSE 0
             /\ OfClubForOwner(c, R) \in Nat
             /\ OfClubForOwner(c, R) <= OwnerShare(c, R)
  <2>1. Won(c, R) => ClubStake(c) <= R.winnerStake
    <3> SUFFICES ASSUME c \in W PROVE ClubStake(c) <= R.winnerStake
      BY <1>3
    <3>1. ownership[c].total <= R.winnerStake
      BY <1>1
    <3> DEFINE s == ClubStake(c)
               t == ownership[c].total
               v == R.winnerStake
    <3>2. s \in Nat /\ t \in Nat /\ v \in Nat /\ s <= t /\ t <= v
      BY <1>2, <1>4, <3>1
    <3> HIDE DEF s, t, v
    <3>3. s <= v
      BY <3>2
    <3> QED
      BY <3>3 DEF s, v
  <2> HIDE DEF R, W
  <2> QED
    BY <1>1, <1>3, <2>1, ClubShares DEF W
<1>6. /\ \A percent \in Nat : Percent(percent) \in Nat
      /\ wr \in Nat /\ Len(R.winners) * wr <= Percent(19)
  <2>1. PICK c \in Clubs : TRUE
    BY ConfigAssumption
  <2> QED
    BY <1>1, <2>1, PartsTyped
<1>7. /\ pw \in Nat /\ pl \in Nat /\ Percent(78) \in Nat /\ Percent(19) \in Nat
      /\ reward \in Nat
  BY <1>6 DEF TypeOK
<1>8. /\ ow \in Nat /\ Len(R.winners) * ow <= pw
      /\ ol \in Nat /\ losing * ol <= pl
  <2> HIDE DEF pw, pl, losing, R
  <2> QED
    BY <1>2, <1>7, ShareDivided
<1>9. ASSUME NEW c \in Clubs
      PROVE  OwnerShare(c, R) = IF c \in W THEN ow ELSE ol
  BY <1>3 DEF OwnerShare, Percent
<1>10. Percent(78) + Percent(19) + pw + (IF losing > 0 THEN pl ELSE 0) <= reward
  <2>1. CASE losing > 0
    <3>1. pw = Percent(1)
      BY <2>1
    <3> HIDE DEF losing
    <3> QED
      BY <2>1, <3>1, PercentsWithin
  <2>2. CASE ~(losing > 0)
    <3>1. pw = Percent(3)
      BY <2>2
    <3> DEFINE rest == IF losing > 0 THEN pl ELSE 0
    <3>2. rest = 0
      BY <2>2
    <3> HIDE DEF losing, pw, rest
    <3>3. Percent(78) + Percent(19) + pw <= reward
      BY <3>1, PercentsWithin
    <3>4. Percent(78) + Percent(19) + pw + rest <= reward
      BY <1>7, <3>2, <3>3
    <3> QED
      BY <3>4 DEF rest
  <2> QED
    BY <2>1, <2>2
<1> DEFINE p == Percent(78)
           q == Percent(19)
<1>11. \A c \in Sold : /\ all[c] \in Int /\ fa[c] \in Nat /\ fr[c] \in Int /\ cap[c] \in Int
                       /\ all[c] = fa[c] + fr[c]
                       /\ R.stake * fa[c] <= p * Totals[c]
                       /\ Totals[c] \in Nat
                       /\ R.stake = 0 => fa[c] = 0
                       /\ fr[c] <= cap[c]
                       /\ cap[c] = IF c \in W THEN wr + ow ELSE ol
  <2> TAKE c \in Sold
  <2>0. c \in Clubs
    BY <1>3
  <2> DEFINE x == OfClubForAll(c, R)
             y == OfClubForWinners(c, R)
             z == OfClubForOwner(c, R)
             s == ClubStake(c)
             t == Totals[c]
             o == OwnerShare(c, R)
             a == OfClub(c, R)
             e == cap[c]
  <2>1. /\ a = x + y + z /\ a \in Nat /\ x \in Nat /\ y \in Nat /\ z \in Nat
        /\ R.stake * x <= p * s
        /\ R.stake = 0 => x = 0
        /\ y <= (IF c \in W THEN wr ELSE 0)
        /\ z <= o
    BY <1>5, <2>0
  <2>2. s \in Nat /\ t \in Nat /\ s <= t
    BY <1>4, <2>0
  <2>3. o = IF c \in W THEN ow ELSE ol
    BY <1>9, <2>0
  <2>4. e = IF c \in W THEN wr + ow ELSE ol
    BY <2>0
  <2>5. all[c] = a /\ fa[c] = x /\ fr[c] = y + z
    BY <2>0
  <2> HIDE DEF x, y, z, s, t, o, a, e, all, fa, fr, cap, p, q, W, R, wr, ow, ol
  <2>6. p * s <= p * t /\ p * s \in Nat /\ p * t \in Nat /\ R.stake * x \in Nat
    <3>1. p \in Nat /\ p <= p /\ R.stake \in Nat /\ x \in Nat
      BY <1>2, <1>7, <2>1 DEF p
    <3>2. p * s <= p * t
      BY <2>2, <3>1, ProductsOrdered
    <3> QED
      BY <2>2, <3>1, <3>2, ProductNat
  <2>7. R.stake * x <= p * t
    BY <2>1, <2>6
  <2>8. y + z <= e /\ e \in Int
    BY <1>6, <1>8, <2>1, <2>3, <2>4
  <2> QED
    BY <2>1, <2>2, <2>4, <2>5, <2>7, <2>8 DEF t, e
<1>12. p \in Nat /\ q \in Nat
  BY <1>7
<1> HIDE DEF all, fa, fr, cap, p, q, wr, ow, ol, pw, pl, L, W, losing, R
<1>13. sum(all, Sold) = sum(fa, Sold) + sum(fr, Sold)
  <2>1. \A c \in Sold : fa[c] \in Int /\ fr[c] \in Int /\ all[c] = fa[c] + fr[c]
    BY <1>11
  <2> QED
    BY <1>1, <2>1, SumOfBoth
<1>14. sum(fa, Sold) <= p /\ sum(fa, Sold) \in Nat
  <2>1. CASE R.stake = 0
    <3>1. sum(fa, Sold) = 0
      BY <1>1, <1>11, <2>1, SumOfZeros
    <3> QED
      BY <1>12, <3>1
  <2>2. CASE R.stake # 0
    <3>1. R.stake > 0 /\ sum(Totals, Sold) <= R.stake
      BY <1>1, <1>2, <2>2
    <3>2. \A c \in Sold : Totals[c] \in Nat /\ fa[c] \in Nat
      BY <1>11
    <3>3. sum(fa, Sold) <= p
      BY <1>1, <1>2, <1>11, <1>12, <3>1, <3>2, SharesWithin
    <3> QED
      BY <1>1, <3>2, <3>3, SumIsNatural
  <2> QED
    BY <2>1, <2>2
<1>15. sum(fr, Sold) <= sum(cap, Sold) /\ sum(fr, Sold) \in Int
  BY <1>1, <1>11, SumKeepsOrder, SumIsInteger
<1>16. sum(cap, Sold) = sum(cap, W) + sum(cap, L)
  <2>1. IsFiniteSet(W) /\ IsFiniteSet(L) /\ W \cap L = {} /\ Sold = W \cup L
    BY <1>1, FS_Subset DEF L
  <2>2. \A c \in W \cup L : cap[c] \in Int
    BY <1>11, <2>1
  <2>3. sum(cap, W \cup L) = sum(cap, W) + sum(cap, L)
    BY <2>1, <2>2, SumOfParts
  <2> QED
    BY <2>1, <2>3
<1>17. sum(cap, W) = Len(R.winners) * (wr + ow)
  <2>1. IsFiniteSet(W) /\ \A c \in W : cap[c] = wr + ow
    BY <1>1, <1>11, FS_Subset
  <2>2. wr + ow \in Int
    BY <1>6, <1>8
  <2> QED
    BY <1>1, <2>1, <2>2, SumOfConstant
<1>18. sum(cap, L) = losing * ol
  <2>1. IsFiniteSet(L) /\ \A c \in L : cap[c] = ol
    BY <1>1, <1>11, FS_Subset DEF L
  <2>2. ol \in Int
    BY <1>8
  <2> QED
    BY <1>1, <2>1, <2>2, SumOfConstant
<1> DEFINE n == Len(R.winners)
           sa == sum(all, Sold)
           sf == sum(fa, Sold)
           sr == sum(fr, Sold)
           sc == sum(cap, Sold)
           rest == IF losing > 0 THEN pl ELSE 0
           lost == losing * ol
           won == n * wr
           owned == n * ow
<1>19. n * (wr + ow) = won + owned
  <2>1. n \in Nat /\ wr \in Nat /\ ow \in Nat
    BY <1>2, <1>6, <1>8
  <2> HIDE DEF n
  <2> QED
    BY <2>1
<1>20. won \in Nat /\ owned \in Nat /\ lost \in Nat
  BY <1>2, <1>6, <1>8, ProductNat
<1>21. won <= q /\ owned <= pw /\ lost <= rest /\ rest \in Nat
  <2>1. won <= q
    BY <1>6 DEF q
  <2>2. owned <= pw
    BY <1>8
  <2>3. CASE losing > 0
    BY <1>7, <1>8, <2>1, <2>2, <2>3
  <2>4. CASE ~(losing > 0)
    <3>1. losing = 0
      BY <1>2, <2>4
    <3>2. lost = 0 /\ rest = 0
      BY <1>8, <3>1
    <3> QED
      BY <2>1, <2>2, <3>2
  <2> QED
    BY <2>3, <2>4
<1>22. p + q + pw + rest <= reward
  BY <1>10 DEF p, q
<1>23. /\ sa = sf + sr /\ sf <= p /\ sr <= sc /\ sf \in Nat /\ sr \in Int
       /\ sc = (won + owned) + lost /\ pw \in Nat /\ reward \in Nat
  BY <1>7, <1>13, <1>14, <1>15, <1>16, <1>17, <1>18, <1>19
<1> HIDE DEF n, sa, sf, sr, sc, rest, lost, won, owned
<1>24. sa <= reward
  BY <1>12, <1>20, <1>21, <1>22, <1>23
<1> QED
  BY <1>5, <1>24 DEF sa, all, R

(***************************************************************************)
(* What a round credited and what it still owes are together within the    *)
(* reward it began with.                                                   *)
(***************************************************************************)
GainedBy(ranking) == [p \in Pairs |-> Gain(p[1], p[2], ranking)]
StillOwed == SumFunctionOnSet([p \in Pairs |-> Gained(p)], due)
WithinInv ==
    sound => /\ granted + StillOwed <= funded
             /\ due # {} => reward = funded /\ granted <= given

LEMMA PairsFinite ==
    /\ IsFiniteSet(Pairs) /\ \A S \in SUBSET Pairs : IsFiniteSet(S)
    /\ \A p \in Pairs : p[1] \in Clubs /\ p[2] \in Users /\ p = <<p[1], p[2]>>
<1>1. IsFiniteSet(Pairs)
  <2> HIDE DEF Clubs
  <2> QED
    BY ClubsFinite, ConfigAssumption, FS_Product DEF Pairs
<1> QED
  BY <1>1, FS_Subset DEF Pairs

LEMMA GainedTyped ==
    ASSUME TypeOK, NEW ranking \in WinningClubDetails, LosingClubs(ranking) >= 0
    PROVE  /\ \A p \in Pairs : GainedBy(ranking)[p] \in Nat
           /\ \A c \in Clubs, u \in Users :
                 GainedBy(ranking)[<<c, u>>] = Gain(c, u, ranking)
<1>1. \A c \in Clubs, u \in Users : Gain(c, u, ranking) \in Nat
  BY GainTyped
<1> QED
  BY <1>1, PairsFinite DEF GainedBy, Pairs

\* What the stakers of a batch gain is a part of what their round owes.
LEMMA BatchIsPart ==
    ASSUME TypeOK, NEW ranking \in WinningClubDetails, LosingClubs(ranking) >= 0,
           NEW c \in Clubs, NEW stakers \in SUBSET Users,
           NEW roster \in SUBSET Pairs, {c} \X stakers \subseteq roster
    PROVE  LET left == roster \ ({c} \X stakers)
               gains == GainedBy(ranking)
           IN  /\ SumFunctionOnSet(gains, roster) =
                    SumFunctionOnSet(Gains(c, ranking), stakers) +
                    SumFunctionOnSet(gains, left)
               /\ SumFunctionOnSet(Gains(c, ranking), stakers) \in Nat
               /\ SumFunctionOnSet(gains, left) \in Nat
<1> DEFINE paid == {c} \X stakers
           left == roster \ paid
           f == GainedBy(ranking)
           g == Gains(c, ranking)
           second == [p \in paid |-> p[2]]
<1>1. /\ IsFiniteSet(paid) /\ IsFiniteSet(left) /\ IsFiniteSet(stakers)
      /\ paid \cap left = {} /\ roster = paid \cup left
      /\ paid \in SUBSET Pairs /\ left \in SUBSET Pairs
  <2>1. paid \in SUBSET Pairs /\ left \in SUBSET Pairs
    OBVIOUS
  <2>2. IsFiniteSet(stakers)
    BY ConfigAssumption, FS_Subset
  <2>3. paid \subseteq roster
    OBVIOUS
  <2> HIDE DEF paid
  <2> QED
    BY <2>1, <2>2, <2>3, PairsFinite
<1>2. /\ \A p \in Pairs : f[p] \in Nat
      /\ \A u \in Users : f[<<c, u>>] = Gain(c, u, ranking)
      /\ \A u \in Users : g[u] = Gain(c, u, ranking) /\ g[u] \in Nat
  BY GainedTyped, GainTyped
<1>3. second \in Bijection(paid, stakers)
  <2>1. second \in [paid -> stakers]
    OBVIOUS
  <2>2. \A p, q \in paid : second[p] = second[q] => p = q
    <3>1. \A p \in paid : p = <<c, p[2]>>
      OBVIOUS
    <3> QED
      BY <3>1
  <2>3. \A u \in stakers : \E p \in paid : second[p] = u
    <3> TAKE u \in stakers
    <3>1. <<c, u>> \in paid /\ second[<<c, u>>] = u
      OBVIOUS
    <3> QED
      BY <3>1
  <2>4. DOMAIN second = paid
    OBVIOUS
  <2> HIDE DEF second, paid
  <2> QED
    BY <2>1, <2>2, <2>3, <2>4 DEF Bijection, Injection, Surjection, IsInjective
<1>4. \A p \in paid : f[p] = g[second[p]]
  <2> TAKE p \in paid
  <2>1. p = <<c, p[2]>> /\ p[2] \in stakers /\ second[p] = p[2]
    OBVIOUS
  <2> HIDE DEF f, g, second, paid
  <2> QED
    BY <1>2, <2>1
<1> HIDE DEF f, g, second, left, paid
<1>5. SumFunctionOnSet(f, paid) = SumFunctionOnSet(g, stakers)
  <2>1. \A u \in stakers : g[u] \in Int
    BY <1>2
  <2> QED
    BY <1>1, <1>3, <1>4, <2>1, SumOfRenamed
<1>6. SumFunctionOnSet(f, paid \cup left) =
        SumFunctionOnSet(f, paid) + SumFunctionOnSet(f, left)
  <2>1. \A p \in paid \cup left : f[p] \in Int
    BY <1>1, <1>2
  <2> QED
    BY <1>1, <2>1, SumOfParts
<1>7. SumFunctionOnSet(g, stakers) \in Nat /\ SumFunctionOnSet(f, left) \in Nat
  <2>1. \A u \in stakers : g[u] \in Nat
    BY <1>2
  <2>2. \A p \in left : f[p] \in Nat
    BY <1>1, <1>2
  <2> QED
    BY <1>1, <2>1, <2>2, SumIsNatural
<1> QED
  BY <1>1, <1>5, <1>6, <1>7 DEF f, g, left, paid

\* The first batch owes no more than the reward, to whoever is on the roster.
LEMMA RosterWithin ==
    ASSUME TypeOK, \A d \in Clubs : ClubStake(d) <= ownership[d].total
    PROVE  /\ Roster \in SUBSET Pairs
           /\ SumFunctionOnSet(GainedBy(Ranking), Roster) <= reward
<1> DEFINE R == Ranking
           f == GainedBy(R)
           S == Sold \X Users
           rest == S \ Roster
           sum(T) == SumFunctionOnSet(f, T)
           of == [c \in Clubs |-> OfClub(c, R)]
<1>1. R \in WinningClubDetails /\ LosingClubs(R) >= 0 /\ IsFiniteSet(Sold)
  BY RankingCounts
<1>2. S \in SUBSET Pairs /\ Roster \subseteq S /\ Sold \in SUBSET Clubs
  BY DEF Sold, Roster, Pairs
<1>3. /\ \A p \in Pairs : f[p] \in Nat
      /\ \A c \in Clubs, u \in Users : f[<<c, u>>] = Gain(c, u, R)
  BY <1>1, GainedTyped
<1>4. sum(S) = SumFunctionOnSet(SumsOfSeconds(f, Sold, Users), Sold)
  <2>1. IsFiniteSet(Users) /\ \A p \in Sold \X Users : f[p] \in Int
    BY <1>2, <1>3, ConfigAssumption
  <2> HIDE DEF f
  <2> QED
    BY <1>1, <2>1, SumOverPairs
<1>5. \A c \in Sold : SumsOfSeconds(f, Sold, Users)[c] = of[c]
  <2> TAKE c \in Sold
  <2>0. c \in Clubs
    BY <1>2
  <2>1. SumsOfSeconds(f, Sold, Users)[c] = SumFunctionOnSet(SecondsOf(f, c, Users), Users)
    BY DEF SumsOfSeconds
  <2>2. \A u \in Users : SecondsOf(f, c, Users)[u] = Gains(c, R)[u]
    BY <1>3, <2>0 DEF SecondsOf, Gains
  <2>3. SumFunctionOnSet(SecondsOf(f, c, Users), Users) = SumFunctionOnSet(Gains(c, R), Users)
    BY <2>2, ConfigAssumption, SumOfEquals
  <2> HIDE DEF f, R
  <2> QED
    BY <2>0, <2>1, <2>3 DEF OfClub
<1>6. sum(S) <= reward
  <2>1. SumFunctionOnSet(of, Sold) <= reward
    BY RoundOwesReward
  <2> HIDE DEF of, f, S, Sold
  <2>2. SumFunctionOnSet(SumsOfSeconds(f, Sold, Users), Sold) = SumFunctionOnSet(of, Sold)
    BY <1>1, <1>5, SumOfEquals
  <2> QED
    BY <1>4, <2>1, <2>2
<1>7. /\ IsFiniteSet(Roster) /\ IsFiniteSet(rest) /\ Roster \cap rest = {}
      /\ S = Roster \cup rest /\ Roster \in SUBSET Pairs /\ rest \in SUBSET Pairs
  <2>1. Roster \in SUBSET Pairs /\ rest \in SUBSET Pairs
    BY <1>2
  <2> HIDE DEF S
  <2> QED
    BY <1>2, <2>1, PairsFinite
<1> HIDE DEF S, rest, f
<1>8. sum(S) = sum(Roster) + sum(rest)
  <2>1. \A p \in Roster \cup rest : f[p] \in Int
    BY <1>3, <1>7
  <2> QED
    BY <1>7, <2>1, SumOfParts
<1>9. sum(Roster) \in Nat /\ sum(rest) \in Nat
  <2>1. /\ \A p \in Roster : f[p] \in Nat
        /\ \A p \in rest : f[p] \in Nat
    BY <1>3, <1>7
  <2> QED
    BY <1>7, <2>1, SumIsNatural
<1>10. reward \in Nat
  BY DEF TypeOK
<1> HIDE DEF sum
<1>11. sum(Roster) <= reward
  BY <1>6, <1>8, <1>9, <1>10
<1> QED
  BY <1>7, <1>11 DEF sum, f

\* A smaller stake gains no more.
LEMMA GainOrdered ==
    ASSUME TypeOK, NEW c \in Clubs, NEW u \in Users,
           NEW ranking \in WinningClubDetails, LosingClubs(ranking) >= 0,
           NEW less \in Nat, NEW more \in Nat, less <= more
    PROVE  RewardFor(c, u, less, ranking) <= RewardFor(c, u, more, ranking)
<1> DEFINE w == WinnersReward(ranking)
           p == (reward * 78) \div 100
           all(s) == DivOrZero(p * s, ranking.stake)
           won(s) == DivOrZero(w * s, ranking.winnerStake)
           wins(s) == IF Won(c, ranking) THEN won(s) ELSE 0
           own == IF u = ownership[c].owner THEN OwnerShare(c, ranking) ELSE 0
<1>1. /\ w \in Nat /\ p \in Nat /\ OwnerShare(c, ranking) \in Nat
      /\ ranking.stake \in Nat /\ ranking.winnerStake \in Nat
  BY PartsTyped, RankingFields DEF Percent
<1>2. ASSUME NEW a \in Nat, NEW b \in Nat
      PROVE  /\ DivOrZero(a * less, b) <= DivOrZero(a * more, b)
             /\ DivOrZero(a * less, b) \in Nat /\ DivOrZero(a * more, b) \in Nat
  <2> DEFINE m == a * less
             n == a * more
  <2>1. m \in Nat /\ n \in Nat /\ m <= n
    <3>1. a <= a
      OBVIOUS
    <3> QED
      BY <3>1, ProductNat, ProductsOrdered
  <2> HIDE DEF m, n
  <2>2. CASE b = 0
    BY <2>1, <2>2 DEF DivOrZero, m, n
  <2>3. CASE b # 0
    <3>1. b > 0
      BY <2>3
    <3>2. m \div b <= n \div b
      BY <2>1, <3>1, QuotientsOrdered
    <3>3. m \div b \in Nat /\ n \div b \in Nat
      BY <2>1, <3>1, Quotient
    <3> QED
      BY <2>3, <3>2, <3>3 DEF DivOrZero, m, n
  <2> QED
    BY <2>2, <2>3
<1>3. /\ RewardFor(c, u, less, ranking) = all(less) + wins(less) + own
      /\ RewardFor(c, u, more, ranking) = all(more) + wins(more) + own
  BY DEF RewardFor
<1>4. all(less) <= all(more) /\ all(less) \in Nat /\ all(more) \in Nat
  <2> HIDE DEF p
  <2> QED
    BY <1>1, <1>2
<1>5. won(less) <= won(more) /\ won(less) \in Nat /\ won(more) \in Nat
  <2> HIDE DEF w
  <2> QED
    BY <1>1, <1>2
<1>6. own \in Nat
  BY <1>1
<1> HIDE DEF all, won, own
<1>7. wins(less) <= wins(more) /\ wins(less) \in Nat /\ wins(more) \in Nat
  BY <1>5
<1> HIDE DEF wins
<1> QED
  BY <1>3, <1>4, <1>6, <1>7

LEMMA OwedTyped ==
    ASSUME RoundTypeOK
    PROVE  StillOwed \in Nat /\ granted \in Nat /\ funded \in Nat /\ reward \in Nat
           /\ given \in Nat
<1>1. winning \in WinningClubDetails /\ LosingClubs(winning) >= 0 /\ TypeOK
  BY DEF RoundTypeOK, TypeOK
<1> DEFINE f == [p \in Pairs |-> Gained(p)]
<1>2. f = GainedBy(winning)
  BY DEF Gained, GainedBy
<1>3. \A p \in due : f[p] \in Nat
  BY <1>1, <1>2, GainedTyped DEF RoundTypeOK
<1>4. IsFiniteSet(due)
  BY PairsFinite DEF RoundTypeOK
<1> HIDE DEF f
<1>5. SumFunctionOnSet(f, due) \in Nat
  BY <1>3, <1>4, SumIsNatural
<1> QED
  BY <1>5 DEF f, StillOwed, RoundTypeOK, TypeOK

LEMMA BatchWithin ==
    ASSUME RoundTypeOK, StartInv, WithinInv, NEW c \in Clubs,
           NEW stakers \in SUBSET Users, Batch(c, stakers)
    PROVE  WithinInv'
<1> SUFFICES ASSUME sound'
             PROVE  /\ granted' + StillOwed' <= funded'
                    /\ due' # {} => reward' = funded' /\ granted' <= given'
  BY DEF WithinInv
<1> DEFINE first == due = {}
           roster == IF first THEN Roster ELSE due
           left == roster \ ({c} \X stakers)
           last == left = {}
           ranking == RankingOf(first)
           f == GainedBy(ranking)
           sum(T) == SumFunctionOnSet(f, T)
           before == IF first THEN 0 ELSE granted
           gain == SumFunctionOnSet(Gains(c, ranking), stakers)
<1>1. BatchEffect(c, stakers) /\ TypeOK
  BY BatchDoes DEF RoundTypeOK
<1>2. /\ funded' = IF first THEN reward ELSE funded
      /\ sound /\ (first => \A d \in Clubs : ClubStake(d) <= ownership[d].total)
  BY DEF Batch
<1>3. /\ {c} \X stakers \subseteq roster
      /\ granted' = gain + before /\ given' = given + gain
      /\ due' = left /\ winning' = ranking /\ reward' = RewardLeft(last, given')
      /\ \A d \in Clubs : ownership'[d].owner = ownership[d].owner
      /\ \A d \in Clubs \ {c} : stakes'[d] = stakes[d]
      /\ \A u \in Users : u \notin stakers => stakes'[c][u] = stakes[c][u]
  BY <1>1 DEF BatchEffect
<1>4. ranking \in WinningClubDetails /\ LosingClubs(ranking) >= 0
  BY <1>1, RankingOfTyped
<1>5. /\ granted + StillOwed <= funded
      /\ ~first => reward = funded /\ granted <= given
      /\ StillOwed \in Nat /\ granted \in Nat /\ funded \in Nat /\ reward \in Nat
      /\ given \in Nat
  BY <1>2, OwedTyped DEF WithinInv
<1>6. roster \in SUBSET Pairs /\ before + sum(roster) <= funded' /\ funded' \in Nat
  <2>1. CASE first
    <3>1. ranking = Ranking
      BY <2>1 DEF RankingOf
    <3>2. Roster \in SUBSET Pairs /\ SumFunctionOnSet(GainedBy(Ranking), Roster) <= reward
      BY <1>1, <1>2, <2>1, RosterWithin
    <3>3. IsFiniteSet(Roster) /\ \A p \in Roster : f[p] \in Nat
      BY <1>1, <1>4, <3>2, PairsFinite, GainedTyped
    <3>4. SumFunctionOnSet(f, Roster) \in Nat
      BY <3>3, SumIsNatural
    <3> DEFINE s == sum(Roster)
    <3>5. s <= reward /\ s \in Nat /\ sum(roster) = s /\ before = 0 /\ funded' = reward
      BY <1>2, <2>1, <3>1, <3>2, <3>4
    <3> HIDE DEF s, sum, before
    <3>6. before + sum(roster) <= funded'
      BY <3>5
    <3> QED
      BY <1>5, <2>1, <3>2, <3>5, <3>6
  <2>2. CASE ~first
    <3>1. f = [p \in Pairs |-> Gained(p)] /\ roster = due
      BY <2>2 DEF RankingOf, Gained, GainedBy
    <3>2. sum(roster) = StillOwed
      BY <3>1 DEF StillOwed
    <3>3. due \in SUBSET Pairs /\ before = granted /\ funded' = funded
      BY <1>2, <2>2 DEF RoundTypeOK
    <3> QED
      BY <1>5, <3>1, <3>2, <3>3
  <2> QED
    BY <2>1, <2>2
<1>7. sum(roster) = gain + sum(left) /\ gain \in Nat /\ sum(left) \in Nat
  <2> HIDE DEF ranking, roster
  <2> QED
    BY <1>1, <1>3, <1>4, <1>6, BatchIsPart
<1>8. ~last => reward' = reward
  BY <1>3 DEF RewardLeft
<1>9. StillOwed' = sum(left)
  <2> DEFINE h == [p \in Pairs |-> Gained(p)']
  <2>1. StillOwed' = SumFunctionOnSet(h, left)
    BY <1>3 DEF StillOwed
  <2>2. CASE last
    <3>1. SumFunctionOnSet(h, left) = 0 /\ sum(left) = 0
      BY <2>2, SumOfNone
    <3> QED
      BY <2>1, <3>1
  <2>3. CASE ~last
    <3>1. ASSUME NEW p \in left PROVE h[p] = f[p]
      <4>1. p \in Pairs /\ p[1] \in Clubs /\ p[2] \in Users /\ p = <<p[1], p[2]>>
        BY <1>6, PairsFinite
      <4>2. stakes'[p[1]][p[2]] = stakes[p[1]][p[2]]
        <5>1. p[1] = c => p[2] \notin stakers
          BY <4>1
        <5> QED
          BY <1>3, <4>1, <5>1
      <4>3. Staked(p[1], p[2])' = Staked(p[1], p[2])
        BY <4>2 DEF Staked, HasStake
      <4>4. Gained(p)' = Gain(p[1], p[2], ranking)
        <5>1. /\ ownership'[p[1]].owner = ownership[p[1]].owner
              /\ winning' = ranking /\ reward' = reward
          BY <1>3, <1>8, <2>3, <4>1
        <5> HIDE DEF ranking
        <5> QED
          BY <4>3, <5>1
          DEF Gained, Gain, RewardFor, OwnerShare, WinnersReward, Won, LosingClubs
      <4> QED
        BY <4>1, <4>4 DEF GainedBy
    <3>2. IsFiniteSet(left)
      BY <1>6, PairsFinite
    <3> HIDE DEF h, f, left
    <3>3. SumFunctionOnSet(h, left) = SumFunctionOnSet(f, left)
      BY <3>1, <3>2, SumOfEquals
    <3> QED
      BY <2>1, <3>3
  <2> QED
    BY <2>2, <2>3
<1>10. due' # {} => reward' = funded' /\ granted' <= given'
  <2> SUFFICES ASSUME ~last PROVE reward' = funded' /\ granted' <= given'
    BY <1>3
  <2>1. reward' = funded'
    BY <1>2, <1>5, <1>8
  <2>2. before <= given /\ before \in Nat
    BY <1>5
  <2> HIDE DEF before, gain, first
  <2>3. granted' <= given'
    BY <1>3, <1>5, <1>7, <2>2
  <2> QED
    BY <2>1, <2>3
<1>11. before \in Nat
  BY <1>5
<1> DEFINE sr == sum(roster)
           sl == sum(left)
<1>12. /\ sr = gain + sl /\ gain \in Nat /\ sl \in Nat /\ before + sr <= funded'
       /\ StillOwed' = sl /\ granted' = gain + before
  BY <1>3, <1>6, <1>7, <1>9
<1> HIDE DEF sr, sl, gain, before
<1>13. granted' + StillOwed' <= funded'
  BY <1>6, <1>11, <1>12
<1> QED
  BY <1>10, <1>13

LEMMA BetweenWithin == RoundTypeOK /\ WithinInv /\ Between => WithinInv'
<1> SUFFICES ASSUME RoundTypeOK, WithinInv, Between, sound'
             PROVE  /\ granted' + StillOwed' <= funded'
                    /\ due' # {} => reward' = funded' /\ granted' <= given'
  BY DEF WithinInv
<1>1. /\ due' = due /\ granted' = granted /\ funded' = funded
      /\ sound /\ (due # {} => ~Disturbed)
  BY DEF Between
<1>2. winning' = winning
  BY BetweenKeepsRanking
<1>3. /\ granted + StillOwed <= funded
      /\ due # {} => reward = funded /\ granted <= given
      /\ StillOwed \in Nat /\ granted \in Nat /\ funded \in Nat
  BY <1>1, OwedTyped DEF WithinInv
<1> DEFINE h == [p \in Pairs |-> Gained(p)']
           f == [p \in Pairs |-> Gained(p)]
<1>4. /\ StillOwed' = SumFunctionOnSet(h, due) /\ StillOwed = SumFunctionOnSet(f, due)
  BY <1>1 DEF StillOwed
<1>5. TypeOK /\ winning \in WinningClubDetails /\ LosingClubs(winning) >= 0
      /\ due \in SUBSET Pairs /\ TypeOK'
  BY BetweenTyped DEF RoundTypeOK, TypeOK
<1>6. CASE due = {}
  <2>1. StillOwed' = 0
    BY <1>4, <1>6, SumOfNone
  <2> QED
    BY <1>1, <1>3, <1>6, <2>1
<1>7. CASE due # {}
  <2>1. /\ reward' = reward /\ given' = given
        /\ \A d \in Clubs : ownership'[d].owner = ownership[d].owner
        /\ \A p \in Pairs : ~(Staked(p[1], p[2])' > Staked(p[1], p[2]))
    BY <1>1, <1>7 DEF Disturbed, OwnersOrPoolChange
  <2>2. ASSUME NEW p \in due PROVE h[p] \in Int /\ f[p] \in Int /\ h[p] <= f[p]
    <3>1. p \in Pairs /\ p[1] \in Clubs /\ p[2] \in Users /\ p = <<p[1], p[2]>>
      BY <1>5, PairsFinite
    <3> DEFINE less == Staked(p[1], p[2])'
               more == Staked(p[1], p[2])
    <3>2. less \in Nat /\ more \in Nat
      <4>1. more \in Nat
        BY <1>5, <3>1, StakedTyped
      <4>2. less = StakedOf(stakes'[p[1]])[p[2]] /\ stakes'[p[1]] \in StakeRow
        BY <1>5, <3>1 DEF Staked, HasStake, StakedOf, StakedIn, TypeOK, StakeRow
      <4>3. less \in Nat
        BY <3>1, <4>2, RowTyped
      <4> QED
        BY <4>1, <4>3
    <3>3. ~(less > more)
      BY <2>1, <3>1
    <3>4. h[p] = RewardFor(p[1], p[2], less, winning)
      BY <1>2, <2>1, <3>1
      DEF Gained, Gain, RewardFor, OwnerShare, WinnersReward, Won, LosingClubs
    <3>5. f[p] = RewardFor(p[1], p[2], more, winning)
      BY <3>1 DEF Gained, Gain
    <3> HIDE DEF less, more, h, f
    <3>6. less <= more
      BY <3>2, <3>3
    <3>7. RewardFor(p[1], p[2], less, winning) <= RewardFor(p[1], p[2], more, winning)
      BY <1>5, <3>1, <3>2, <3>6, GainOrdered
    <3>8. /\ RewardFor(p[1], p[2], less, winning) \in Nat
          /\ RewardFor(p[1], p[2], more, winning) \in Nat
      BY <1>5, <3>2, RewardTyped DEF TypeOK
    <3> QED
      BY <3>4, <3>5, <3>7, <3>8
  <2>3. IsFiniteSet(due)
    BY <1>5, PairsFinite
  <2> HIDE DEF h, f
  <2>4. SumFunctionOnSet(h, due) <= SumFunctionOnSet(f, due)
        /\ SumFunctionOnSet(h, due) \in Int
    BY <2>2, <2>3, SumKeepsOrder, SumIsInteger
  <2>5. granted' + StillOwed' <= funded'
    BY <1>1, <1>3, <1>4, <2>4
  <2> QED
    BY <1>1, <1>3, <1>7, <2>1, <2>5
<1> QED
  BY <1>6, <1>7

LEMMA OtherWithin ==
    ASSUME RoundTypeOK, WithinInv,
           Claim \/ UNCHANGED roundVars \/ \E c \in Clubs : EmptyRound(c)
    PROVE  WithinInv'
<1>1. UNCHANGED <<due, granted, funded, sound, ownership, stakes, reward, given, winning>>
  <2>1. CASE Claim
    <3>1. UNCHANGED <<now, clubVars, stakeVars, rewardVars>>
      BY <2>1, ClaimPays DEF Claim, RoundTypeOK
    <3> QED
      BY <2>1, <3>1 DEF Claim, clubVars, stakeVars, rewardVars
  <2>2. CASE UNCHANGED roundVars
    BY <2>2 DEF roundVars, vars, history, clubVars, stakeVars, rewardVars
  <2>3. CASE \E c \in Clubs : EmptyRound(c)
    BY <2>3, EmptyRoundSteps DEF history
  <2> QED
    BY <2>1, <2>2, <2>3
<1>2. \A p \in Pairs : Gained(p)' = Gained(p)
  <2> TAKE p \in Pairs
  <2>1. p[1] \in Clubs /\ p[2] \in Users /\ p = <<p[1], p[2]>>
    BY PairsFinite
  <2>2. Staked(p[1], p[2])' = Staked(p[1], p[2])
    BY <1>1 DEF Staked, HasStake
  <2> QED
    BY <1>1, <2>1, <2>2, SameGain
<1>3. StillOwed' = StillOwed
  BY <1>1, <1>2 DEF StillOwed
<1> QED
  BY <1>1, <1>3 DEF WithinInv

LEMMA StepStaysWithin ==
    RoundTypeOK /\ StartInv /\ WithinInv /\ [RoundNext]_roundVars => WithinInv'
BY BatchWithin, BetweenWithin, OtherWithin DEF RoundNext, SomeBatch

LEMMA InitWithin == RoundInit => WithinInv
<1> SUFFICES ASSUME RoundInit PROVE WithinInv
  OBVIOUS
<1>1. due = {} /\ granted = 0 /\ funded = 0
  BY DEF RoundInit
<1>2. StillOwed = 0
  BY <1>1, SumOfNone DEF StillOwed
<1> QED
  BY <1>1, <1>2 DEF WithinInv

\* What a round that nobody disturbed credited, and will still credit to the
\* stakers it has yet to pay, is within the reward it began with.
THEOREM RoundStaysWithin == RoundSpec => []WithinInv
BY InitWithin, StepStaysWithin, StartsInTime, RoundTypeOKHolds, PTL DEF RoundSpec

\* A round that was not disturbed, and found in the totals of the clubs all
\* that is staked, credits no more than the pool held when it began: however
\* the stakers are split into batches and whatever is withdrawn, bonded or
\* claimed meanwhile.
THEOREM RoundWithinRewardHolds == RoundSpec => []RoundWithinReward
<1>1. RoundTypeOK /\ WithinInv => RoundWithinReward
  <2> SUFFICES ASSUME RoundTypeOK, WithinInv, sound PROVE granted <= funded
    BY DEF RoundWithinReward
  <2>1. /\ granted + StillOwed <= funded
        /\ StillOwed \in Nat /\ granted \in Nat /\ funded \in Nat
    BY OwedTyped DEF WithinInv
  <2> QED
    BY <2>1
<1> QED
  BY <1>1, RoundStaysWithin, RoundTypeOKHolds, PTL

-----------------------------------------------------------------------------
(***************************************************************************)
(* The tokens behind what is owed.  A batch turns some of the pool into    *)
(* what stakers are owed; it has to take from the pool, at the end of the  *)
(* round, at least what the round credited.                                *)
(***************************************************************************)
AllOwed == SumFunctionOnSet([c \in Clubs |-> RowOwed(stakes[c], bonds[c])], Clubs)
PoolLeft == reward - (IF due = {} THEN 0 ELSE granted)

LEMMA AllOwedTyped ==
    ASSUME TypeOK
    PROVE  /\ AllOwed \in Nat
           /\ SumFunction([c \in Clubs |-> ClubStake(c) + ClubBonds(c) + ClubPending(c)])
                = AllOwed
<1> DEFINE f == [c \in Clubs |-> ClubStake(c) + ClubBonds(c) + ClubPending(c)]
           g == [c \in Clubs |-> RowOwed(stakes[c], bonds[c])]
<1>1. \A c \in Clubs : f[c] = g[c] /\ g[c] \in Nat
  <2> TAKE c \in Clubs
  <2> DEFINE a == ClubStake(c)
             b == ClubBonds(c)
             d == ClubPending(c)
  <2>1. /\ a \in Nat /\ b \in Nat /\ d \in Nat
        /\ RowOwed(stakes[c], bonds[c]) = a + d + b /\ f[c] = a + b + d
    BY ClubSums, ClubBondsSum DEF RowOwed
  <2> HIDE DEF a, b, d, f
  <2> QED
    BY <2>1
<1>2. DOMAIN f = Clubs
  OBVIOUS
<1> HIDE DEF f, g
<1>3. SumFunctionOnSet(f, Clubs) = SumFunctionOnSet(g, Clubs)
      /\ SumFunctionOnSet(g, Clubs) \in Nat
  BY <1>1, ClubsFinite, SumOfEquals, SumIsNatural
<1> QED
  BY <1>2, <1>3 DEF AllOwed, SumFunction, f, g

LEMMA AllOwedNext ==
    ASSUME TypeOK'
    PROVE  /\ AllOwed' = SumFunctionOnSet([c \in Clubs |-> RowOwed(stakes'[c], bonds'[c])],
                                          Clubs)
           /\ AllOwed' \in Nat
           /\ SumFunction([c \in Clubs |-> ClubStake(c) + ClubBonds(c) + ClubPending(c)])'
                = AllOwed'
<1> DEFINE f == [c \in Clubs |-> ClubStake(c)' + ClubBonds(c)' + ClubPending(c)']
           g == [c \in Clubs |-> RowOwed(stakes'[c], bonds'[c])]
<1>1. \A c \in Clubs : f[c] = g[c] /\ g[c] \in Nat
  <2> TAKE c \in Clubs
  <2> DEFINE a == RowStaked(stakes'[c])
             b == RowBonds(bonds'[c])
             d == RowPending(stakes'[c])
  <2>1. /\ a \in Nat /\ b \in Nat /\ d \in Nat
        /\ RowOwed(stakes'[c], bonds'[c]) = a + d + b /\ f[c] = a + b + d
    BY ClubSumsNext DEF RowOwed
  <2> HIDE DEF a, b, d, f
  <2> QED
    BY <2>1
<1>2. DOMAIN f = Clubs
  OBVIOUS
<1>3. SumFunction([c \in Clubs |-> ClubStake(c) + ClubBonds(c) + ClubPending(c)])' =
        SumFunctionOnSet(f, Clubs)
  BY DEF SumFunction
<1>4. AllOwed' = SumFunctionOnSet(g, Clubs)
  BY DEF AllOwed
<1> HIDE DEF f, g
<1>5. SumFunctionOnSet(f, Clubs) = SumFunctionOnSet(g, Clubs)
      /\ SumFunctionOnSet(g, Clubs) \in Nat
  BY <1>1, ClubsFinite, SumOfEquals, SumIsNatural
<1> QED
  BY <1>3, <1>4, <1>5 DEF g

LEMMA OwedOfClubChanges ==
    ASSUME TypeOK, TypeOK', NEW c \in Clubs, NEW n \in Int,
           \A d \in Clubs \ {c} : stakes'[d] = stakes[d] /\ bonds'[d] = bonds[d],
           RowOwed(stakes'[c], bonds'[c]) = RowOwed(stakes[c], bonds[c]) + n
    PROVE  AllOwed' = AllOwed + n
<1> DEFINE f == [d \in Clubs |-> RowOwed(stakes[d], bonds[d])]
           g == [d \in Clubs |-> RowOwed(stakes'[d], bonds'[d])]
<1>1. \A d \in Clubs : f[d] \in Int /\ g[d] \in Int
  <2> TAKE d \in Clubs
  <2>1. RowOwed(stakes[d], bonds[d]) \in Nat
    BY SumsTyped
  <2>2. RowOwed(stakes'[d], bonds'[d]) \in Nat
    BY ClubSumsNext DEF RowOwed
  <2> QED
    BY <2>1, <2>2
<1>2. \A d \in Clubs \ {c} : g[d] = f[d]
  OBVIOUS
<1>3. g[c] = f[c] + n
  OBVIOUS
<1>4. AllOwed = SumFunctionOnSet(f, Clubs) /\ AllOwed' = SumFunctionOnSet(g, Clubs)
  BY AllOwedNext DEF AllOwed
<1>5. AllOwed \in Nat
  BY AllOwedTyped
<1> HIDE DEF f, g
<1>6. AllOwed' = AllOwed - f[c] + g[c]
  <2>1. SumFunctionOnSet(g, Clubs) = SumFunctionOnSet(f, Clubs) - f[c] + g[c]
    <3> DEFINE a == f[c]
               b == g[c]
    <3>1. IsFiniteSet(Clubs) /\ c \in Clubs
      BY ClubsFinite
    <3>2. /\ \A d \in Clubs : f[d] \in Int /\ g[d] \in Int
          /\ \A d \in Clubs \ {c} : g[d] = f[d]
      BY <1>1, <1>2
    <3> HIDE DEF Clubs
    <3>3. SumFunctionOnSet(f, Clubs) = f[c] + SumFunctionOnSet(f, Clubs \ {c})
      BY <3>1, <3>2, SumWithout
    <3>8. SumFunctionOnSet(g, Clubs) = g[c] + SumFunctionOnSet(g, Clubs \ {c})
      BY <3>1, <3>2, SumWithout
    <3>4. IsFiniteSet(Clubs \ {c})
      BY <3>1, FS_RemoveElement
    <3>5. SumFunctionOnSet(g, Clubs \ {c}) = SumFunctionOnSet(f, Clubs \ {c})
          /\ SumFunctionOnSet(f, Clubs \ {c}) \in Int
      BY <3>2, <3>4, SumOfEquals, SumIsInteger
    <3> DEFINE r == SumFunctionOnSet(f, Clubs \ {c})
    <3>6. /\ SumFunctionOnSet(f, Clubs) = r + a /\ SumFunctionOnSet(g, Clubs) = r + b
          /\ a \in Int /\ b \in Int /\ r \in Int
      BY <3>1, <3>2, <3>3, <3>5, <3>8
    <3> HIDE DEF a, b, r
    <3>7. SumFunctionOnSet(g, Clubs) = SumFunctionOnSet(f, Clubs) - a + b
      BY <3>6
    <3> QED
      BY <3>7 DEF a, b
  <2> HIDE DEF AllOwed
  <2> QED
    BY <1>4, <2>1
<1> HIDE DEF AllOwed
<1> QED
  BY <1>1, <1>3, <1>5, <1>6

\* What is owed and what is left of the pool grow by no more than what the
\* contract holds and has paid to claims.
Covered == fury'["contract"] + claimed' - (fury["contract"] + claimed) >=
             AllOwed' + PoolLeft' - (AllOwed + PoolLeft)

LEMMA SameOwed ==
    ASSUME UNCHANGED <<stakes, bonds>>
    PROVE  AllOwed' = AllOwed
BY DEF AllOwed

LEMMA BatchCovered ==
    ASSUME RoundTypeOK, RoundTypeOK', StartInv, WithinInv, WithinInv', sound, sound',
           NEW c \in Clubs, NEW stakers \in SUBSET Users, Batch(c, stakers)
    PROVE  Covered
<1> DEFINE first == due = {}
           left == (IF first THEN Roster ELSE due) \ ({c} \X stakers)
           last == left = {}
           ranking == RankingOf(first)
           gain == SumFunctionOnSet(Gains(c, ranking), stakers)
           before == IF first THEN 0 ELSE granted
<1>1. BatchEffect(c, stakers) /\ TypeOK /\ TypeOK'
  BY BatchDoes DEF RoundTypeOK
<1>2. /\ granted' = gain + before /\ given' = given + gain
      /\ due' = left /\ reward' = RewardLeft(last, given')
      /\ \A d \in Clubs \ {c} : stakes'[d] = stakes[d]
      /\ bonds' = bonds /\ fury' = fury /\ claimed' = claimed
  BY <1>1 DEF BatchEffect
<1>3. funded' = IF first THEN reward ELSE funded
  BY DEF Batch
<1>4. /\ gain \in Nat
      /\ RowStaked(stakes'[c]) + RowPending(stakes'[c]) =
           RowStaked(stakes[c]) + RowPending(stakes[c]) + gain
  BY BatchOfClubAdds
<1>5. /\ ~first => reward = funded /\ granted <= given
      /\ granted \in Nat /\ funded \in Nat /\ reward \in Nat /\ given \in Nat
  BY OwedTyped DEF WithinInv
<1>6. before \in Nat /\ before <= given /\ reward = funded'
  BY <1>3, <1>5
<1>7. last => granted' <= reward
  <2> SUFFICES ASSUME last PROVE granted' <= reward
    OBVIOUS
  <2>1. granted' + StillOwed' <= funded'
    BY DEF WithinInv
  <2> DEFINE h == [p \in Pairs |-> Gained(p)']
  <2>2. StillOwed' = SumFunctionOnSet(h, {})
    BY <1>2 DEF StillOwed
  <2>3. StillOwed' = 0
    BY <2>2, SumOfNone
  <2>4. granted' \in Nat
    BY DEF RoundTypeOK
  <2> QED
    BY <1>6, <2>1, <2>3, <2>4
<1>8. RowOwed(stakes'[c], bonds'[c]) = RowOwed(stakes[c], bonds[c]) + gain
  <2> DEFINE a == RowStaked(stakes[c])
             b == RowPending(stakes[c])
             z == RowBonds(bonds[c])
             aa == RowStaked(stakes'[c])
             bb == RowPending(stakes'[c])
  <2>1. /\ aa + bb = a + b + gain
        /\ a \in Nat /\ b \in Nat /\ z \in Nat /\ aa \in Nat /\ bb \in Nat
    BY <1>1, <1>4, SumsTyped, ClubSumsNext
  <2>2. RowBonds(bonds'[c]) = z
    BY <1>2
  <2> HIDE DEF a, b, z, aa, bb, gain
  <2>3. aa + bb + z = a + b + z + gain
    BY <1>4, <2>1
  <2> QED
    BY <2>2, <2>3 DEF a, b, z, aa, bb, RowOwed
<1>9. AllOwed' = AllOwed + gain
  <2>1. gain \in Int
    BY <1>4
  <2> HIDE DEF gain
  <2> QED
    BY <1>1, <1>2, <1>8, <2>1, OwedOfClubChanges
<1>10. PoolLeft' + gain <= PoolLeft
  <2>1. PoolLeft = reward - before
    BY DEF PoolLeft
  <2>2. PoolLeft' = reward' - (IF last THEN 0 ELSE granted')
    BY <1>2 DEF PoolLeft
  <2> HIDE DEF gain, before, left, first
  <2>3. CASE last
    <3>1. PoolLeft' = IF reward > given' THEN reward - given' ELSE 0
      <4>1. reward' = IF reward > given' THEN reward - given' ELSE 0
        BY <1>2, <2>3 DEF RewardLeft
      <4>2. reward' \in Nat
        BY <1>1 DEF TypeOK
      <4> QED
        BY <2>2, <2>3, <4>1, <4>2
    <3>2. given' = given + gain /\ given' \in Nat
      BY <1>2, <1>4, <1>5
    <3>3. granted' <= reward /\ granted' = gain + before
      BY <1>2, <1>7, <2>3
    <3> DEFINE later == PoolLeft'
               total == given'
               credited == granted'
               pool == PoolLeft
    <3>4. /\ later = IF reward > total THEN reward - total ELSE 0
          /\ total = given + gain /\ total \in Nat
          /\ credited <= reward /\ credited = gain + before /\ pool = reward - before
          /\ gain \in Nat /\ before \in Nat /\ before <= given /\ given \in Nat
          /\ reward \in Nat
      BY <1>4, <1>5, <1>6, <2>1, <3>1, <3>2, <3>3
    <3> HIDE DEF later, total, credited, pool
    <3>5. ASSUME reward > total PROVE later + gain <= pool
      <4>1. later = reward - total
        BY <3>4, <3>5
      <4> QED
        BY <3>4, <4>1
    <3>6. ASSUME ~(reward > total) PROVE later + gain <= pool
      <4>1. later = 0
        BY <3>4, <3>6
      <4> QED
        BY <3>4, <4>1
    <3>7. later + gain <= pool
      BY <3>5, <3>6
    <3> QED
      BY <3>7 DEF later, pool
  <2>4. CASE ~last
    <3>1. reward' = reward
      BY <1>2, <2>4 DEF RewardLeft
    <3> DEFINE later == PoolLeft'
               pool == PoolLeft
    <3>2. /\ later = reward - (gain + before) /\ pool = reward - before
          /\ gain \in Nat /\ before \in Nat /\ reward \in Nat
      BY <1>2, <1>4, <1>5, <1>6, <2>1, <2>2, <2>4, <3>1
    <3> HIDE DEF later, pool
    <3>3. later + gain <= pool
      BY <3>2
    <3> QED
      BY <3>3 DEF later, pool
  <2> QED
    BY <2>3, <2>4
<1>11. AllOwed \in Nat /\ PoolLeft \in Int /\ PoolLeft' \in Int
  <2>1. PoolLeft' = reward' - (IF due' = {} THEN 0 ELSE granted')
    BY DEF PoolLeft
  <2>2. reward' \in Nat /\ granted' \in Nat
    BY DEF RoundTypeOK, TypeOK
  <2>3. AllOwed \in Nat
    BY <1>1, AllOwedTyped
  <2> QED
    BY <1>5, <2>1, <2>2, <2>3 DEF PoolLeft
<1>12. fury["contract"] \in Nat /\ claimed \in Nat
  BY <1>1, SumsTyped DEF RoundTypeOK
<1> HIDE DEF gain
<1>13. AllOwed' + PoolLeft' - (AllOwed + PoolLeft) <= 0
  BY <1>4, <1>9, <1>10, <1>11
<1>14. fury'["contract"] + claimed' - (fury["contract"] + claimed) = 0
  BY <1>2, <1>12
<1>15. AllOwed' + PoolLeft' - (AllOwed + PoolLeft) \in Int
  BY <1>4, <1>9, <1>11
<1> QED
  BY <1>13, <1>14, <1>15 DEF Covered

LEMMA OtherCovered ==
    ASSUME RoundTypeOK, RoundTypeOK',
           Between \/ Claim \/ UNCHANGED roundVars \/ \E c \in Clubs : EmptyRound(c)
    PROVE  Covered
<1> DEFINE owed == AllOwed
           pool == PoolLeft
           held == fury["contract"]
           paid == claimed
           owed2 == AllOwed'
           pool2 == PoolLeft'
           held2 == fury'["contract"]
           paid2 == claimed'
<1>1. TypeOK /\ TypeOK' /\ claimed \in Nat /\ claimed' \in Nat
      /\ fury'["contract"] \in Nat
      /\ reward \in Nat /\ granted \in Nat /\ reward' \in Nat /\ granted' \in Nat
  BY NotUsers DEF RoundTypeOK, TypeOK
<1>2. /\ owed \in Nat /\ pool \in Int /\ held \in Nat /\ paid \in Nat
      /\ held2 \in Nat /\ paid2 \in Nat
      /\ pool = reward - (IF due = {} THEN 0 ELSE granted)
      /\ pool2 = reward' - (IF due' = {} THEN 0 ELSE granted')
      /\ held2 = fury'["contract"] /\ paid2 = claimed'
  <2>1. fury["contract"] \in Nat
    BY <1>1, SumsTyped, ConfigAssumption
  <2>2. PoolLeft' = reward' - (IF due' = {} THEN 0 ELSE granted')
    BY DEF PoolLeft
  <2> QED
    BY <1>1, <2>1, <2>2, AllOwedTyped DEF PoolLeft
<1>3. held2 + paid2 - (held + paid) >= owed2 + pool2 - (owed + pool) => Covered
  BY DEF Covered
<1>4. ASSUME UNCHANGED <<stakes, bonds, reward, due, granted>>,
             held2 + paid2 = held + paid
      PROVE  Covered
  <2>1. owed2 = owed /\ pool2 = pool
    BY <1>2, <1>4, SameOwed
  <2> HIDE DEF owed, pool, held, paid, owed2, pool2, held2, paid2
  <2> QED
    BY <1>2, <1>3, <1>4, <2>1
<1>5. CASE Between
  <2>1. /\ due' = due /\ granted' = granted /\ claimed' = claimed
        /\ Message \/ Funding \/ Tick
    BY <1>1, <1>5, MessageKinds DEF Between
  <2>2. CASE Message
    <3>1. PICK c \in Clubs, tokens \in Int : MessageOn(c, tokens)
      BY <2>2 DEF Message
    <3>2. /\ owed2 = owed + tokens /\ held2 = held + tokens /\ reward' = reward
      BY <1>1, <3>1, OwedOfClubChanges DEF MessageOn, rewardVars
    <3>3. pool2 = pool /\ paid2 = paid
      BY <1>2, <2>1, <3>2
    <3> HIDE DEF owed, pool, held, paid, owed2, pool2, held2, paid2
    <3> QED
      BY <1>2, <1>3, <3>1, <3>2, <3>3
  <2>3. CASE Funding
    <3>1. PICK amount \in Nat : IncreaseRewardAmount(amount)
      BY <2>3 DEF Funding
    <3>2. /\ Pay("admin", "contract", amount) /\ reward' = reward + amount
          /\ UNCHANGED <<stakes, bonds>>
      BY <3>1 DEF IncreaseRewardAmount, stakeVars
    <3>3. held2 = held + amount
      BY <1>1, <3>2, NotUsers, ContractPaid
    <3>4. owed2 = owed /\ pool2 = pool + amount /\ paid2 = paid
      BY <1>1, <1>2, <2>1, <3>2, SameOwed
    <3> HIDE DEF owed, pool, held, paid, owed2, pool2, held2, paid2
    <3> QED
      BY <1>2, <1>3, <3>1, <3>3, <3>4
  <2>4. CASE Tick
    <3>1. UNCHANGED <<stakes, bonds, reward, fury>>
      BY <2>4 DEF Tick, stakeVars, rewardVars
    <3> QED
      BY <1>4, <2>1, <3>1
  <2> QED
    BY <2>1, <2>2, <2>3, <2>4
<1>6. CASE Claim
  <2>1. PICK c \in Clubs, u \in Users :
          /\ PendingReward(c, u) \in Nat
          /\ fury'["contract"] = fury["contract"] - PendingReward(c, u)
          /\ UNCHANGED <<now, clubVars, stakeVars, rewardVars>>
    BY <1>1, <1>6, ClaimPays DEF Claim
  <2>2. /\ claimed' = claimed + fury["contract"] - fury'["contract"]
        /\ due' = due /\ granted' = granted
    BY <1>6 DEF Claim
  <2> DEFINE amount == PendingReward(c, u)
  <2>3. held2 = held - amount /\ paid2 = paid + held - held2 /\ amount \in Nat
    BY <2>1, <2>2
  <2>4. held2 + paid2 = held + paid
    <3> HIDE DEF held, paid, held2, paid2, amount
    <3> QED
      BY <1>2, <2>3
  <2> QED
    BY <1>4, <2>1, <2>2, <2>4 DEF stakeVars, rewardVars
<1>7. CASE UNCHANGED roundVars
  <2>1. UNCHANGED <<stakes, bonds, reward, due, granted, fury, claimed>>
    BY <1>7 DEF roundVars, vars, history, stakeVars, rewardVars
  <2> QED
    BY <1>4, <2>1
<1>8. CASE \E c \in Clubs : EmptyRound(c)
  <2>1. UNCHANGED <<stakes, bonds, reward, due, granted, fury, claimed>>
    BY <1>8, EmptyRoundSteps DEF history
  <2> QED
    BY <1>4, <2>1
<1> QED
  BY <1>5, <1>6, <1>7, <1>8

StaysBacked == sound => fury["contract"] + claimed >= AllOwed + PoolLeft

LEMMA StepStaysBacked ==
    ASSUME RoundTypeOK, RoundTypeOK', StartInv, WithinInv, WithinInv', StaysBacked,
           [RoundNext]_roundVars
    PROVE  StaysBacked'
<1> SUFFICES ASSUME sound'
             PROVE  fury'["contract"] + claimed' >= AllOwed' + PoolLeft'
  BY DEF StaysBacked
<1>1. sound
  <2>1. \/ \E c \in Clubs, stakers \in SUBSET Users : Batch(c, stakers)
        \/ \E c \in Clubs : EmptyRound(c)
        \/ Between \/ Claim \/ UNCHANGED roundVars
    BY DEF RoundNext, SomeBatch
  <2> QED
    BY <2>1 DEF Batch, EmptyRound, Between, Claim, roundVars, history
<1>2. Covered
  BY <1>1, BatchCovered, OtherCovered DEF RoundNext, SomeBatch
<1> DEFINE owed == AllOwed
           pool == PoolLeft
           held == fury["contract"]
           paid == claimed
           owed2 == AllOwed'
           pool2 == PoolLeft'
           held2 == fury'["contract"]
           paid2 == claimed'
<1>3. /\ TypeOK /\ TypeOK' /\ claimed \in Nat /\ claimed' \in Nat
      /\ reward \in Nat /\ granted \in Nat /\ reward' \in Nat /\ granted' \in Nat
  BY DEF RoundTypeOK, TypeOK
<1>4. /\ owed \in Nat /\ owed2 \in Nat /\ pool \in Int /\ pool2 \in Int
      /\ held \in Nat /\ held2 \in Nat /\ paid \in Nat /\ paid2 \in Nat
  <2>1. fury["contract"] \in Nat /\ fury'["contract"] \in Nat
    BY <1>3, NotUsers DEF TypeOK
  <2>2. PoolLeft' = reward' - (IF due' = {} THEN 0 ELSE granted')
    BY DEF PoolLeft
  <2> QED
    BY <1>3, <2>1, <2>2, AllOwedTyped, AllOwedNext DEF PoolLeft
<1>5. /\ held + paid >= owed + pool
      /\ held2 + paid2 - (held + paid) >= owed2 + pool2 - (owed + pool)
  BY <1>1, <1>2 DEF StaysBacked, Covered
<1>6. held2 + paid2 >= owed2 + pool2
  <2> HIDE DEF owed, pool, held, paid, owed2, pool2, held2, paid2
  <2> QED
    BY <1>4, <1>5
<1> QED
  BY <1>6

LEMMA InitBacked == RoundInit => StaysBacked
<1> SUFFICES ASSUME RoundInit PROVE fury["contract"] + claimed >= AllOwed + PoolLeft
  BY DEF StaysBacked
<1>1. TypeOK
  BY RoundInitTyped DEF RoundTypeOK
<1>2. \A c \in Clubs : RowOwed(stakes[c], bonds[c]) = 0
  <2> TAKE c \in Clubs
  <2>1. stakes[c] \in StakeRow /\ bonds[c] \in BondRow
    BY <1>1, ClubSums, ClubBondsSum
  <2>2. \A u \in Users : stakes[c][u] = << >> /\ bonds[c][u] = << >>
    BY DEF RoundInit, Init
  <2>3. \A u \in Users : /\ StakedOf(stakes[c])[u] = 0 /\ PendingOf(stakes[c])[u] = 0
                         /\ BondedOf(bonds[c])[u] = 0
    <3> TAKE u \in Users
    <3>1. /\ StakedOf(stakes[c])[u] = StakedIn(<< >>)
          /\ PendingOf(stakes[c])[u] = PendingIn(<< >>)
          /\ BondedOf(bonds[c])[u] = BondSum(<< >>)
      BY <2>1, <2>2, RowTyped, BondRowTyped
    <3>2. BondSum(<< >>) = 0
      <4> DEFINE h == [i \in DOMAIN << >> |-> << >>[i].amount]
      <4>1. DOMAIN h = {}
        OBVIOUS
      <4> HIDE DEF h
      <4>2. SumFunctionOnSet(h, DOMAIN h) = 0
        BY <4>1, SumOfNone
      <4> QED
        BY <4>2 DEF h, BondSum, SumFunction
    <3> QED
      BY <3>1, <3>2 DEF StakedIn, PendingIn
  <2>4. RowStaked(stakes[c]) = 0 /\ RowPending(stakes[c]) = 0 /\ RowBonds(bonds[c]) = 0
    BY <2>3, ConfigAssumption, SumOfZeros DEF RowStaked, RowPending, RowBonds
  <2> QED
    BY <2>4 DEF RowOwed
<1>3. AllOwed = 0
  <2> DEFINE g == [c \in Clubs |-> RowOwed(stakes[c], bonds[c])]
  <2>1. \A c \in Clubs : g[c] = 0
    BY <1>2
  <2> HIDE DEF g
  <2>2. SumFunctionOnSet(g, Clubs) = 0
    BY <2>1, ClubsFinite, SumOfZeros
  <2> QED
    BY <2>2 DEF g, AllOwed
<1>4. PoolLeft = 0 /\ claimed = 0
  BY DEF PoolLeft, RoundInit, Init
<1>5. fury["contract"] \in Nat
  BY <1>1, NotUsers DEF TypeOK
<1> QED
  BY <1>3, <1>4, <1>5

\* As long as no round was disturbed, all that stakers are owed and the pool
\* of rewards that is left are backed by tokens, apart from what claims paid.
THEOREM OwedIsBackedHolds == RoundSpec => []OwedIsBacked
<1>1. RoundTypeOK /\ StaysBacked => OwedIsBacked
  <2> SUFFICES ASSUME RoundTypeOK, StaysBacked, sound
               PROVE  fury["contract"] + claimed >=
                        SumFunction([c \in Clubs |-> ClubStake(c) + ClubBonds(c)
                                                       + ClubPending(c)])
                        + reward - (IF due = {} THEN 0 ELSE granted)
    BY DEF OwedIsBacked
  <2> DEFINE all == SumFunction([c \in Clubs |-> ClubStake(c) + ClubBonds(c)
                                                   + ClubPending(c)])
             g == IF due = {} THEN 0 ELSE granted
  <2>1. TypeOK /\ reward \in Nat /\ g \in Nat
    BY DEF RoundTypeOK, TypeOK
  <2>2. all = AllOwed /\ AllOwed \in Nat
    BY <2>1, AllOwedTyped
  <2>3. fury["contract"] + claimed >= AllOwed + (reward - g)
    BY DEF StaysBacked, PoolLeft
  <2>4. fury["contract"] + claimed \in Int
    BY <2>1, NotUsers DEF TypeOK, RoundTypeOK
  <2> HIDE DEF all, g
  <2>5. fury["contract"] + claimed >= all + reward - g
    BY <2>1, <2>2, <2>3, <2>4
  <2> QED
    BY <2>5 DEF all, g
<1>2. RoundTypeOK /\ RoundTypeOK' /\ StartInv /\ WithinInv /\ WithinInv' /\ StaysBacked
        /\ [RoundNext]_roundVars => StaysBacked'
  BY StepStaysBacked
<1> QED
  BY <1>1, <1>2, InitBacked, RoundStaysWithin, StartsInTime, RoundTypeOKHolds, PTL
  DEF RoundSpec

-----------------------------------------------------------------------------
(***************************************************************************)
(* The reach of records.  A club with a stake was sold, and a staker with  *)
(* a bond has a stake; so the queries, which visit the clubs that were     *)
(* sold, find everything.                                                  *)
(***************************************************************************)
ReachInv ==
    \A c \in Clubs, u \in Users : /\ HasStake(c, u) => Listed(c)
                                  /\ bonds[c][u] # << >> => HasStake(c, u)

\* No step takes a club off the list; stakes begin in clubs that are listed,
\* and bonds out of stakes.
ReachStep ==
    \A c \in Clubs :
       /\ Listed(c) => Listed(c)'
       /\ \A u \in Users :
             /\ HasStake(c, u)' => HasStake(c, u) \/ Listed(c)'
             /\ bonds'[c][u] # << >> => bonds[c][u] # << >> \/ HasStake(c, u)

LEMMA SameReach ==
    ASSUME UNCHANGED <<ownership, stakes, bonds>>
    PROVE  ReachStep
BY DEF ReachStep, Listed, HasStake

\* A message that keeps the owners, and changes stakes of one listed club.
LEMMA StakesReach ==
    ASSUME NEW c \in Clubs, Listed(c),
           \A d \in Clubs : ownership'[d].owner = ownership[d].owner,
           \A d \in Clubs \ {c} : stakes'[d] = stakes[d],
           \A d \in Clubs, u \in Users :
              bonds'[d][u] = bonds[d][u] \/ HasStake(d, u)
    PROVE  ReachStep
BY DEF ReachStep, Listed, HasStake

LEMMA TakeOverReaches ==
    ASSUME TypeOK, NEW u \in Users, NEW c \in Clubs, NEW seller, NEW auto \in BOOLEAN,
           NEW price, TakeOver(u, c, seller, auto, price)
    PROVE  ReachStep
<1>1. /\ ownership'[c].owner = u
      /\ \A d \in Clubs \ {c} : ownership'[d] = ownership[d]
  BY DEF TakeOver, TypeOK
<1>2. u # NoUser
  BY ConfigAssumption
<1>3. \A d \in Clubs \ {c} : stakes'[d] = stakes[d]
  <2> DEFINE later == Increased(stakes[c][u], 0, auto)
  <2>1. stakes' = stakes \/ stakes' = [stakes EXCEPT ![c][u] = later]
    BY DEF TakeOver
  <2> HIDE DEF later
  <2> QED
    BY <2>1 DEF TypeOK
<1>4. bonds' = bonds
  BY DEF TakeOver
<1> QED
  BY <1>1, <1>2, <1>3, <1>4 DEF ReachStep, Listed, HasStake

LEMMA ReleaseReaches ==
    ASSUME TypeOK, NEW u \in Users, NEW c \in Clubs, ReleaseClub(u, c)
    PROVE  ReachStep
<1> DEFINE record == [ownership[c] EXCEPT !.start = now, !.released = TRUE]
<1>1. ownership' = [ownership EXCEPT ![c] = record]
  BY DEF ReleaseClub, TypeOK
<1>2. record.owner = ownership[c].owner
  BY DEF TypeOK, Ownership
<1> HIDE DEF record
<1>3. \A d \in Clubs : ownership'[d].owner = ownership[d].owner
  BY <1>1, <1>2 DEF TypeOK
<1> QED
  BY <1>3 DEF ReachStep, Listed, HasStake, ReleaseClub, stakeVars

LEMMA StakingReaches ==
    ASSUME TypeOK, NEW u \in Users, NEW c \in Clubs, NEW amount \in Nat,
           NEW auto \in BOOLEAN, StakeOnAClub(u, c, amount, auto)
    PROVE  ReachStep
<1> DEFINE later == Increased(stakes[c][u], amount, auto)
<1>1. /\ stakes' = [stakes EXCEPT ![c][u] = later] /\ Listed(c) /\ bonds' = bonds
      /\ ownership' = WithTotal(c, ownership[c].total + amount)
  BY DEF StakeOnAClub
<1> HIDE DEF later
<1>2. \A d \in Clubs \ {c} : stakes'[d] = stakes[d]
  BY <1>1 DEF TypeOK
<1>3. ownership[c].total + amount \in Nat
  BY SumsTyped
<1>4. \A d \in Clubs : ownership'[d].owner = ownership[d].owner
  BY <1>1, <1>3, TotalsReplaced
<1> QED
  BY <1>1, <1>2, <1>4, StakesReach

LEMMA AssigningReaches ==
    ASSUME TypeOK, NEW c \in Clubs, NEW list \in Seq(StakeAssignment),
           AssignStakesToAClub(list, c)
    PROVE  ReachStep
<1> DEFINE amount == AmountAssigned(list)
           later == FoldLeft(AssignOne, stakes[c], list)
<1>1. /\ stakes' = [stakes EXCEPT ![c] = later] /\ Listed(c) /\ bonds' = bonds
      /\ ownership' = WithTotal(c, ownership[c].total + amount)
  BY DEF AssignStakesToAClub, AmountAssigned
<1>2. amount \in Nat
  BY AssignedAmounts
<1> HIDE DEF later, amount
<1>3. \A d \in Clubs \ {c} : stakes'[d] = stakes[d]
  BY <1>1 DEF TypeOK
<1>4. ownership[c].total + amount \in Nat
  BY <1>2, SumsTyped
<1>5. \A d \in Clubs : ownership'[d].owner = ownership[d].owner
  BY <1>1, <1>4, TotalsReplaced
<1> QED
  BY <1>1, <1>3, <1>5, StakesReach

LEMMA BondingReaches ==
    ASSUME TypeOK, NEW u \in Users, NEW c \in Clubs, NEW amount \in Nat,
           BondStake(u, c, amount)
    PROVE  ReachStep
<1>1. Listed(c) /\ HasStake(c, u)
  BY DEF BondStake, Withdrawable
<1>2. \A d \in Clubs \ {c} : stakes'[d] = stakes[d]
  <2> DEFINE later == <<Lowered(stakes[c][u][1], amount)>>
  <2>1. stakes' = [stakes EXCEPT ![c][u] = later]
    BY BondStakeRecords
  <2> HIDE DEF later
  <2> QED
    BY <2>1 DEF TypeOK
<1>3. \A d \in Clubs, w \in Users : <<d, w>> # <<c, u>> => bonds'[d][w] = bonds[d][w]
  BY BondingBonds
<1>4. /\ ownership[c].total \in Nat /\ ownership[c].total >= amount
      /\ ownership' = WithTotal(c, ownership[c].total - amount)
  BY TotalIsNat DEF BondStake
<1>5. \A d \in Clubs : ownership'[d].owner = ownership[d].owner
  BY <1>4, TotalsReplaced
<1> QED
  BY <1>1, <1>2, <1>3, <1>5, StakesReach

LEMMA PayingReaches ==
    ASSUME TypeOK, NEW u \in Users, NEW c \in Clubs, NEW amount \in Nat,
           WithdrawMatured(u, c, amount)
    PROVE  ReachStep
<1>1. Listed(c) /\ HasStake(c, u) /\ UNCHANGED <<ownership, stakes>>
  BY DEF WithdrawMatured, Withdrawable, clubVars
<1>2. \A d \in Clubs, w \in Users : <<d, w>> # <<c, u>> => bonds'[d][w] = bonds[d][w]
  BY PayingBonds
<1> QED
  BY <1>1, <1>2, StakesReach

LEMMA MessagesReach ==
    ASSUME TypeOK, UserNext \/ AdminNext \/ Tick
    PROVE  ReachStep
<1>1. CASE UserNext
  <2>1. PICK u \in Users, c \in Clubs :
           \/ \E seller \in Users \cup {NoUser}, auto \in AutoChoices :
                 BuyAClub(u, c, seller, auto)
           \/ ReleaseClub(u, c)
           \/ \E amount \in StakeAmounts, auto \in AutoChoices :
                 StakeOnAClub(u, c, amount, auto)
           \/ \E amount \in WithdrawAmounts :
                 BondStake(u, c, amount) \/ WithdrawMatured(u, c, amount)
    BY <1>1 DEF UserNext
  <2>2. ASSUME NEW seller, NEW auto \in AutoChoices, BuyAClub(u, c, seller, auto)
        PROVE  ReachStep
    BY <2>2, InputsTyped, TakeOverReaches DEF BuyAClub
  <2>3. ASSUME ReleaseClub(u, c) PROVE ReachStep
    BY <2>3, ReleaseReaches
  <2>4. ASSUME NEW amount \in StakeAmounts, NEW auto \in AutoChoices,
               StakeOnAClub(u, c, amount, auto)
        PROVE  ReachStep
    BY <2>4, InputsTyped, StakingReaches
  <2>5. ASSUME NEW amount \in WithdrawAmounts,
               BondStake(u, c, amount) \/ WithdrawMatured(u, c, amount)
        PROVE  ReachStep
    BY <2>5, InputsTyped, BondingReaches, PayingReaches
  <2> QED
    BY <2>1, <2>2, <2>3, <2>4, <2>5
<1>2. CASE AdminNext
  <2>1. ASSUME NEW u \in Users, NEW c \in Clubs, NEW seller, NEW auto \in AutoChoices,
               AssignAClub(u, c, seller, auto)
        PROVE  ReachStep
    BY <2>1, InputsTyped, TakeOverReaches DEF AssignAClub
  <2>2. ASSUME NEW c \in Clubs, NEW list \in AssignLists, AssignStakesToAClub(list, c)
        PROVE  ReachStep
    BY <2>2, InputsTyped, AssigningReaches
  <2>3. ASSUME NEW amount \in RewardAmounts, IncreaseRewardAmount(amount)
        PROVE  ReachStep
    BY <2>3, SameReach DEF IncreaseRewardAmount, clubVars, stakeVars
  <2> QED
    BY <1>2, <2>1, <2>2, <2>3 DEF AdminNext
<1>3. CASE Tick
  BY <1>3, SameReach DEF Tick, clubVars, stakeVars
<1> QED
  BY <1>1, <1>2, <1>3

LEMMA RoundReaches ==
    ASSUME RoundTypeOK, StartInv, [RoundNext]_roundVars
    PROVE  ReachStep
<1>0. TypeOK
  BY DEF RoundTypeOK
<1>1. ASSUME NEW c \in Clubs, NEW stakers \in SUBSET Users, Batch(c, stakers)
      PROVE  ReachStep
  <2>1. BatchEffect(c, stakers)
    BY <1>1, BatchDoes
  <2>2. /\ Listed(c) /\ \A d \in Clubs \ {c} : stakes'[d] = stakes[d]
        /\ \A d \in Clubs : ownership'[d].owner = ownership[d].owner
        /\ bonds' = bonds
    BY <2>1 DEF BatchEffect
  <2> QED
    BY <2>2, StakesReach
<1>2. ASSUME NEW c \in Clubs, EmptyRound(c) PROVE ReachStep
  <2>1. UNCHANGED <<ownership, stakes, bonds>>
    BY <1>0, <1>2, EmptyRoundSteps
  <2> QED
    BY <2>1, SameReach
<1>3. ASSUME Between PROVE ReachStep
  BY <1>0, <1>3, MessagesReach DEF Between
<1>4. ASSUME Claim PROVE ReachStep
  <2>1. UNCHANGED <<now, clubVars, stakeVars, rewardVars>>
    BY <1>0, <1>4, ClaimPays DEF Claim
  <2> QED
    BY <2>1, SameReach DEF clubVars, stakeVars
<1>5. ASSUME UNCHANGED roundVars PROVE ReachStep
  BY <1>5, SameReach DEF roundVars, vars, clubVars, stakeVars
<1> QED
  BY <1>1, <1>2, <1>3, <1>4, <1>5 DEF RoundNext, SomeBatch

\* Whatever is sold, staked, bonded or credited, stakes and bonds are kept of
\* clubs that were sold, and bonds of stakers: an inductive invariant.
THEOREM RecordsStayInReach == RoundSpec => []ReachInv
<1>1. RoundInit => ReachInv
  BY DEF RoundInit, Init, ReachInv, HasStake
<1>2. RoundTypeOK /\ StartInv /\ ReachInv /\ [RoundNext]_roundVars => ReachInv'
  <2> SUFFICES ASSUME RoundTypeOK, StartInv, ReachInv, [RoundNext]_roundVars
               PROVE  ReachInv'
    OBVIOUS
  <2>1. ReachStep /\ NoneDropped
    BY RoundReaches, StepDropsNone
  <2>2. ASSUME NEW c \in Clubs, NEW u \in Users
        PROVE  /\ HasStake(c, u)' => Listed(c)'
               /\ bonds'[c][u] # << >> => HasStake(c, u)'
    <3>1. HasStake(c, u)' => HasStake(c, u) \/ Listed(c)'
      BY <2>1 DEF ReachStep
    <3>2. bonds'[c][u] # << >> => bonds[c][u] # << >> \/ HasStake(c, u)
      BY <2>1 DEF ReachStep
    <3>3. HasStake(c, u) => Listed(c)
      BY DEF ReachInv
    <3>4. bonds[c][u] # << >> => HasStake(c, u)
      BY DEF ReachInv
    <3>5. HasStake(c, u) => HasStake(c, u)'
      BY <2>1 DEF NoneDropped
    <3>6. Listed(c) => Listed(c)'
      BY <2>1 DEF ReachStep
    <3> QED
      BY <3>1, <3>2, <3>3, <3>4, <3>5, <3>6
  <2> QED
    BY <2>2 DEF ReachInv
<1> QED
  BY <1>1, <1>2, StartsInTime, RoundTypeOKHolds, PTL DEF RoundSpec

\* The sequence names each member of the set once.
LEMMA NamesAreKeys ==
    ASSUME NEW W, NEW list \in Seq(W),
           \A i, j \in 1..Len(list) : list[i] = list[j] => i = j,
           NEW V \in SUBSET W, \A i \in 1..Len(list) : list[i] \in V,
           \A w \in V : \E i \in 1..Len(list) : list[i] = w
    PROVE  /\ Len(list) \in Nat /\ DOMAIN list = 1..Len(list) /\ IsFiniteSet(1..Len(list))
           /\ list \in Bijection(1..Len(list), V)
<1> DEFINE n == Len(list)
<1>1. n \in Nat /\ DOMAIN list = 1..n /\ list \in [1..n -> W]
  BY LenProperties
<1>2. IsFiniteSet(1..n)
  BY <1>1, FS_Interval
<1> HIDE DEF n
<1>3. list \in Bijection(1..n, V)
  <2>1. /\ \A i, j \in 1..n : list[i] = list[j] => i = j
        /\ \A i \in 1..n : list[i] \in V
        /\ \A w \in V : \E i \in 1..n : list[i] = w
    BY DEF n
  <2>2. list \in [1..n -> V]
    BY <1>1, <2>1
  <2> QED
    BY <2>1, <2>2 DEF Bijection, Injection, Surjection, IsInjective
<1> QED
  BY <1>1, <1>2, <1>3 DEF n

\* What the records of a sequence of wallets, or clubs, are worth: `seqs` lists
\* the records of each.
LEMMA WorthOfEach ==
    ASSUME NEW S, NEW worth \in [S -> Int], NEW V, NEW seqs \in Seq(Seq(S)),
           NEW list \in Bijection(1..Len(seqs), V), NEW f,
           \A v \in V : f[v] \in Int,
           \A i \in 1..Len(seqs) : f[list[i]] = WorthOf(seqs[i], worth)
    PROVE  /\ FlattenSeq(seqs) \in Seq(S)
           /\ WorthOf(FlattenSeq(seqs), worth) = SumFunctionOnSet(f, V)
<1> DEFINE D == 1..Len(seqs)
           g == [i \in D |-> WorthOf(seqs[i], worth)]
<1>1. \A i \in D : g[i] = WorthOf(seqs[i], worth) /\ g[i] = f[list[i]]
  OBVIOUS
<1>2. IsFiniteSet(D)
  <2>1. Len(seqs) \in Int /\ 1 \in Int
    BY LenProperties
  <2> QED
    BY <2>1, FS_Interval
<1> HIDE DEF g
<1>3. /\ FlattenSeq(seqs) \in Seq(S)
      /\ WorthOf(FlattenSeq(seqs), worth) = SumFunctionOnSet(g, D)
  BY <1>1, WorthOfAll
<1> HIDE DEF D
<1>4. SumFunctionOnSet(g, D) = SumFunctionOnSet(f, V)
  <2>1. list \in Bijection(D, V)
    BY DEF D
  <2> QED
    BY <1>1, <1>2, <2>1, SumOfRenamed
<1> QED
  BY <1>3, <1>4

\* The same, of the records that `vecs` gives for each.
LEMMA WorthOfListed ==
    ASSUME NEW S, NEW worth \in [S -> Int], NEW V, NEW n \in Nat,
           NEW list \in Bijection(1..n, V), NEW vecs, \A v \in V : vecs[v] \in Seq(S),
           NEW f, \A v \in V : f[v] = WorthOf(vecs[v], worth)
    PROVE  LET seqs == [i \in 1..n |-> vecs[list[i]]]
           IN  /\ FlattenSeq(seqs) \in Seq(S)
               /\ WorthOf(FlattenSeq(seqs), worth) = SumFunctionOnSet(f, V)
<1> DEFINE seqs == [i \in 1..n |-> vecs[list[i]]]
<1>1. \A i \in 1..n : list[i] \in V
  BY DEF Bijection, Injection
<1>2. \A i \in 1..n : seqs[i] \in Seq(S) /\ f[list[i]] = WorthOf(seqs[i], worth)
  BY <1>1
<1>3. seqs \in Seq(Seq(S)) /\ Len(seqs) = n
  <2>1. seqs \in [1..n -> Seq(S)]
    BY <1>2
  <2> QED
    BY <2>1
<1>4. \A v \in V : f[v] \in Int
  BY WorthTyped
<1> HIDE DEF seqs
<1>5. /\ seqs \in Seq(Seq(S)) /\ list \in Bijection(1..Len(seqs), V)
      /\ \A i \in 1..Len(seqs) : f[list[i]] = WorthOf(seqs[i], worth)
  BY <1>2, <1>3
<1>6. /\ FlattenSeq(seqs) \in Seq(S)
      /\ WorthOf(FlattenSeq(seqs), worth) = SumFunctionOnSet(f, V)
  BY <1>4, <1>5, WorthOfEach
<1> QED
  BY <1>6 DEF seqs

\* The records of one club for all wallets.
WorthInRow(row, worth) ==
    SumFunctionOnSet([u \in Users |-> WorthOf(row[u], worth)], Users)

LEMMA WorthOfRow ==
    ASSUME NEW S, NEW worth \in [S -> Int], NEW row, \A u \in Users : row[u] \in Seq(S)
    PROVE  LET list == SetToSeq(Users)
               all == FlattenSeq([i \in DOMAIN list |-> row[list[i]]])
           IN  all \in Seq(S) /\ WorthOf(all, worth) = WorthInRow(row, worth)
<1> DEFINE list == SetToSeq(Users)
           n == Len(list)
           seqs == [i \in DOMAIN list |-> row[list[i]]]
           f == [u \in Users |-> WorthOf(row[u], worth)]
<1>1. /\ list \in Seq(Users)
      /\ \A i, j \in 1..n : list[i] = list[j] => i = j
      /\ \A i \in 1..n : list[i] \in Users
      /\ \A u \in Users : \E i \in 1..n : list[i] = u
  BY ListOfStakers
<1> HIDE DEF list
<1>2. n \in Nat /\ DOMAIN list = 1..n /\ IsFiniteSet(1..n) /\ list \in Bijection(1..n, Users)
  BY <1>1, NamesAreKeys
<1> HIDE DEF n
<1>3. seqs = [i \in 1..n |-> row[list[i]]] /\ \A u \in Users : f[u] = WorthOf(row[u], worth)
  BY <1>2
<1> HIDE DEF f
<1>4. FlattenSeq(seqs) \in Seq(S) /\ WorthOf(FlattenSeq(seqs), worth) = SumFunctionOnSet(f, Users)
  <2> DEFINE joined == [i \in 1..n |-> row[list[i]]]
  <2>1. FlattenSeq(joined) \in Seq(S) /\ WorthOf(FlattenSeq(joined), worth) = SumFunctionOnSet(f, Users)
    BY <1>2, <1>3, WorthOfListed
  <2> QED
    BY <1>3, <2>1
<1> QED
  BY <1>4 DEF WorthInRow, f, seqs, list

\* The records of all clubs for all wallets: those of a club that was never
\* sold are not visited, and are worth nothing when there are none.
LEMMA WorthOfRecords ==
    ASSUME NEW S, NEW worth \in [S -> Int], NEW records,
           \A c \in Clubs, u \in Users : records[c][u] \in Seq(S),
           \A c \in Clubs \ Sold, u \in Users : records[c][u] = << >>
    PROVE  LET all == AllRecords(records, SetToSeq(Users))
           IN  /\ all \in Seq(S)
               /\ WorthOf(all, worth) =
                    SumFunctionOnSet([c \in Clubs |-> WorthInRow(records[c], worth)], Clubs)
<1> DEFINE list == SetToSeq(Users)
           order == ListedClubs
           n == Len(order)
           vecs == [c \in Clubs |-> FlattenSeq([i \in DOMAIN list |-> records[c][list[i]]])]
           seqs == [k \in DOMAIN order |-> vecs[order[k]]]
           f == [c \in Clubs |-> WorthInRow(records[c], worth)]
<1>1. /\ order \in Seq(Clubs) /\ Sold \subseteq Clubs
      /\ \A i, j \in 1..n : order[i] = order[j] => i = j
      /\ \A i \in 1..n : order[i] \in Sold
      /\ \A c \in Sold : \E i \in 1..n : order[i] = c
  BY ListedClubsNamed DEF Names, Sold
<1>2. n \in Nat /\ DOMAIN order = 1..n /\ IsFiniteSet(1..n) /\ order \in Bijection(1..n, Sold)
  <2> HIDE DEF order, Clubs, Sold
  <2> QED
    BY <1>1, NamesAreKeys
<1>3. \A c \in Clubs : vecs[c] \in Seq(S) /\ f[c] = WorthOf(vecs[c], worth)
  <2> TAKE c \in Clubs
  <2> DEFINE row == records[c]
  <2>1. \A u \in Users : row[u] \in Seq(S)
    OBVIOUS
  <2>2. vecs[c] = FlattenSeq([i \in DOMAIN list |-> row[list[i]]]) /\ f[c] = WorthInRow(row, worth)
    OBVIOUS
  <2> HIDE DEF row, vecs, f
  <2> QED
    BY <2>1, <2>2, WorthOfRow
<1>4. AllRecords(records, list) = FlattenSeq(seqs)
  <2>1. \A k \in DOMAIN order : order[k] \in Clubs
    BY <1>1, <1>2
  <2>2. seqs = [k \in DOMAIN order |->
                  FlattenSeq([i \in DOMAIN list |-> records[order[k]][list[i]]])]
    <3> HIDE DEF order, list
    <3> QED
      BY <2>1
  <2> QED
    BY <2>2 DEF AllRecords
<1>5. \A c \in Sold : vecs[c] \in Seq(S) /\ f[c] = WorthOf(vecs[c], worth)
  BY <1>1, <1>3
<1>6. seqs = [k \in 1..n |-> vecs[order[k]]]
  BY <1>2
<1>7. \A c \in Clubs \ Sold : f[c] = 0
  <2> TAKE c \in Clubs \ Sold
  <2> DEFINE g == [u \in Users |-> WorthOf(records[c][u], worth)]
  <2>1. \A u \in Users : g[u] = 0
    BY WorthOfNothing
  <2> HIDE DEF g
  <2>2. SumFunctionOnSet(g, Users) = 0
    BY <2>1, ConfigAssumption, SumOfZeros
  <2> QED
    BY <2>2 DEF WorthInRow, g
<1>8. \A c \in Clubs : f[c] \in Int
  <2> TAKE c \in Clubs
  <2> DEFINE vec == vecs[c]
  <2>1. vec \in Seq(S) /\ f[c] = WorthOf(vec, worth)
    BY <1>3
  <2> HIDE DEF vec, f
  <2>2. WorthOf(vec, worth) \in Int
    BY <2>1, WorthTyped
  <2> QED
    BY <2>1, <2>2
<1>9. IsFiniteSet(Sold) /\ IsFiniteSet(Clubs \ Sold) /\ Sold \cap (Clubs \ Sold) = {}
      /\ Clubs = Sold \cup (Clubs \ Sold)
  <2> HIDE DEF Clubs, Sold
  <2> QED
    BY <1>1, ClubsFinite, FS_Subset
<1> HIDE DEF f, vecs, order, n, Clubs, Sold, list
<1>10. FlattenSeq(seqs) \in Seq(S) /\ WorthOf(FlattenSeq(seqs), worth) = SumFunctionOnSet(f, Sold)
  <2> DEFINE joined == [k \in 1..n |-> vecs[order[k]]]
  <2>1. FlattenSeq(joined) \in Seq(S) /\ WorthOf(FlattenSeq(joined), worth) = SumFunctionOnSet(f, Sold)
    BY <1>2, <1>5, WorthOfListed
  <2> QED
    BY <1>6, <2>1
<1>11. SumFunctionOnSet(f, Clubs) = SumFunctionOnSet(f, Sold)
  <2> DEFINE rest == Clubs \ Sold
  <2>1. /\ \A c \in Sold \cup rest : f[c] \in Int
        /\ IsFiniteSet(Sold) /\ IsFiniteSet(rest) /\ Sold \cap rest = {}
        /\ Clubs = Sold \cup rest /\ \A c \in rest : f[c] = 0
    BY <1>7, <1>8, <1>9
  <2> HIDE DEF rest
  <2>2. SumFunctionOnSet(f, Sold \cup rest) = SumFunctionOnSet(f, Sold) + SumFunctionOnSet(f, rest)
    BY <2>1, SumOfParts
  <2>3. SumFunctionOnSet(f, rest) = 0 /\ SumFunctionOnSet(f, Sold) \in Int
    BY <2>1, SumOfZeros, SumIsInteger
  <2> QED
    BY <2>1, <2>2, <2>3
<1> QED
  BY <1>4, <1>10, <1>11 DEF f, list

\* What is staked and pending, and what is bonded, in a list of records.
StakeWorth == [s \in Stake |-> s.staked + s.reward]
BondWorth == [b \in Bond |-> b.amount]

LEMMA SumsAreWorth ==
    /\ \A vec \in Seq(Stake) : StakeSum(vec) = WorthOf(vec, StakeWorth)
    /\ \A vec \in Seq(Bond) : BondSum(vec) = WorthOf(vec, BondWorth)
    /\ StakeWorth \in [Stake -> Int] /\ BondWorth \in [Bond -> Int]
<1>1. ASSUME NEW vec \in Seq(Stake) PROVE StakeSum(vec) = WorthOf(vec, StakeWorth)
  <2>1. \A i \in DOMAIN vec : vec[i] \in Stake
    <3> HIDE DEF Stake
    <3> QED
      BY LenProperties, ElementOfSeq
  <2>2. [i \in DOMAIN vec |-> vec[i].staked + vec[i].reward] =
          [i \in DOMAIN vec |-> StakeWorth[vec[i]]]
    <3> HIDE DEF Stake
    <3> QED
      BY <2>1 DEF StakeWorth
  <2>3. DOMAIN [i \in DOMAIN vec |-> StakeWorth[vec[i]]] = DOMAIN vec
    OBVIOUS
  <2> QED
    BY <2>2, <2>3 DEF StakeSum, SumFunction, WorthOf
<1>2. ASSUME NEW vec \in Seq(Bond) PROVE BondSum(vec) = WorthOf(vec, BondWorth)
  <2>1. \A i \in DOMAIN vec : vec[i] \in Bond
    <3> HIDE DEF Bond
    <3> QED
      BY LenProperties, ElementOfSeq
  <2>2. [i \in DOMAIN vec |-> vec[i].amount] = [i \in DOMAIN vec |-> BondWorth[vec[i]]]
    <3> HIDE DEF Bond
    <3> QED
      BY <2>1 DEF BondWorth
  <2>3. DOMAIN [i \in DOMAIN vec |-> BondWorth[vec[i]]] = DOMAIN vec
    OBVIOUS
  <2> QED
    BY <2>2, <2>3 DEF BondSum, SumFunction, WorthOf
<1>3. StakeWorth \in [Stake -> Int]
  BY DEF StakeWorth, Stake
<1>4. BondWorth \in [Bond -> Int]
  BY DEF BondWorth, Bond
<1> QED
  BY <1>1, <1>2, <1>3, <1>4

LEMMA VecWorth ==
    ASSUME NEW vec \in StakeVec
    PROVE  /\ vec \in Seq(Stake)
           /\ WorthOf(vec, StakeWorth) = StakedIn(vec) + PendingIn(vec)
<1>1. vec \in Seq(Stake)
  BY DEF StakeVec
<1>2. CASE vec = << >>
  BY <1>1, <1>2, WorthOfNothing DEF StakedIn, PendingIn
<1>3. CASE vec # << >>
  <2> DEFINE s == vec[1]
             f == [i \in DOMAIN vec |-> StakeWorth[vec[i]]]
  <2>1. s \in Stake /\ vec = <<s>>
    BY <1>3, StakeVecs
  <2>2. DOMAIN vec = {1} /\ f[1] = s.staked + s.reward /\ f[1] \in Int
    <3>1. DOMAIN vec = {1}
      BY <2>1
    <3>2. StakeWorth[s] = s.staked + s.reward /\ StakeWorth[s] \in Int
      BY <2>1, StakeFields DEF StakeWorth
    <3> HIDE DEF s
    <3> QED
      BY <3>1, <3>2 DEF s
  <2> HIDE DEF f
  <2>3. SumFunctionOnSet(f, {1}) = f[1]
    BY <2>2, SumOfSingle, FS_Singleton
  <2> QED
    BY <1>1, <1>3, <2>2, <2>3 DEF WorthOf, f, StakedIn, PendingIn
<1> QED
  BY <1>2, <1>3

\* The query of all stakes shows all that is staked and pending.
LEMMA StakesShown ==
    ASSUME TypeOK, ReachInv
    PROVE  StakeSum(AllStakes(SetToSeq(Users))) =
             SumFunction([c \in Clubs |-> ClubStake(c) + ClubPending(c)])
<1> DEFINE all == AllRecords(stakes, SetToSeq(Users))
           f == [c \in Clubs |-> WorthInRow(stakes[c], StakeWorth)]
           g == [c \in Clubs |-> ClubStake(c) + ClubPending(c)]
<1>1. \A c \in Clubs, u \in Users : stakes[c][u] \in StakeVec
  BY DEF TypeOK
<1>2. \A c \in Clubs, u \in Users : stakes[c][u] \in Seq(Stake)
  BY <1>1, VecWorth
<1>3. \A c \in Clubs \ Sold, u \in Users : stakes[c][u] = << >>
  BY DEF ReachInv, Sold, HasStake
<1>4. all \in Seq(Stake) /\ WorthOf(all, StakeWorth) = SumFunctionOnSet(f, Clubs)
  <2> HIDE DEF Stake, Clubs, Sold
  <2> QED
    BY <1>2, <1>3, SumsAreWorth, WorthOfRecords
<1>5. \A c \in Clubs : f[c] = g[c]
  <2> TAKE c \in Clubs
  <2> DEFINE row == stakes[c]
             h == [u \in Users |-> WorthOf(row[u], StakeWorth)]
  <2>1. /\ row \in StakeRow /\ ClubStake(c) = RowStaked(row) /\ ClubPending(c) = RowPending(row)
    BY ClubSums
  <2>2. \A u \in Users : /\ StakedOf(row)[u] \in Int /\ PendingOf(row)[u] \in Int
                         /\ h[u] = StakedOf(row)[u] + PendingOf(row)[u]
    <3> TAKE u \in Users
    <3>1. /\ row[u] \in StakeVec /\ StakedOf(row)[u] = StakedIn(row[u])
          /\ PendingOf(row)[u] = PendingIn(row[u])
          /\ StakedOf(row)[u] \in Nat /\ PendingOf(row)[u] \in Nat
      BY <2>1, RowTyped
    <3>2. WorthOf(row[u], StakeWorth) = StakedIn(row[u]) + PendingIn(row[u])
      BY <3>1, VecWorth
    <3> QED
      BY <3>1, <3>2
  <2> HIDE DEF row, h
  <2>3. SumFunctionOnSet(h, Users) = RowStaked(row) + RowPending(row)
    BY <2>2, ConfigAssumption, SumOfBoth DEF RowStaked, RowPending
  <2> QED
    BY <2>1, <2>3 DEF WorthInRow, h, row
<1>6. \A c \in Clubs : g[c] \in Int
  BY ClubSums
<1>7. DOMAIN g = Clubs
  OBVIOUS
<1> HIDE DEF f, g, all
<1>8. SumFunctionOnSet(f, Clubs) = SumFunctionOnSet(g, Clubs)
  BY <1>5, <1>6, ClubsFinite, SumOfEquals
<1>9. StakeSum(all) = WorthOf(all, StakeWorth)
  BY <1>4, SumsAreWorth
<1> QED
  BY <1>4, <1>7, <1>8, <1>9 DEF AllStakes, SumFunction, g, all

\* The query of all bonds shows all that is bonded.
LEMMA BondsShown ==
    ASSUME TypeOK, ReachInv
    PROVE  BondSum(AllBonds(SetToSeq(Users))) =
             SumFunction([c \in Clubs |-> ClubBonds(c)])
<1> DEFINE all == AllRecords(bonds, SetToSeq(Users))
           f == [c \in Clubs |-> WorthInRow(bonds[c], BondWorth)]
           g == [c \in Clubs |-> ClubBonds(c)]
<1>1. \A c \in Clubs, u \in Users : bonds[c][u] \in Seq(Bond)
  <2> HIDE DEF Bond
  <2> QED
    BY DEF TypeOK
<1>2. \A c \in Clubs \ Sold, u \in Users : bonds[c][u] = << >>
  BY DEF ReachInv, Sold
<1>3. all \in Seq(Bond) /\ WorthOf(all, BondWorth) = SumFunctionOnSet(f, Clubs)
  <2> HIDE DEF Bond, Clubs, Sold
  <2> QED
    BY <1>1, <1>2, SumsAreWorth, WorthOfRecords
<1>4. \A c \in Clubs : f[c] = g[c]
  <2> TAKE c \in Clubs
  <2> DEFINE row == bonds[c]
             h == [u \in Users |-> WorthOf(row[u], BondWorth)]
  <2>1. row \in BondRow /\ ClubBonds(c) = RowBonds(row)
    BY ClubBondsSum
  <2>2. \A u \in Users : h[u] = BondedOf(row)[u] /\ BondedOf(row)[u] \in Int
    <3> TAKE u \in Users
    <3>1. row[u] \in Seq(Bond) /\ BondedOf(row)[u] = BondSum(row[u]) /\ BondedOf(row)[u] \in Nat
      BY <1>1, <2>1, BondRowTyped
    <3>2. BondSum(row[u]) = WorthOf(row[u], BondWorth)
      BY <3>1, SumsAreWorth
    <3> QED
      BY <3>1, <3>2
  <2> HIDE DEF row, h
  <2>3. SumFunctionOnSet(h, Users) = RowBonds(row)
    BY <2>2, ConfigAssumption, SumOfEquals DEF RowBonds
  <2> QED
    BY <2>1, <2>3 DEF WorthInRow, h, row
<1>5. \A c \in Clubs : g[c] \in Int
  BY ClubBondsSum
<1>6. DOMAIN g = Clubs
  OBVIOUS
<1> HIDE DEF f, g, all
<1>7. SumFunctionOnSet(f, Clubs) = SumFunctionOnSet(g, Clubs)
  BY <1>4, <1>5, ClubsFinite, SumOfEquals
<1>8. BondSum(all) = WorthOf(all, BondWorth)
  BY <1>3, SumsAreWorth
<1> QED
  BY <1>3, <1>6, <1>7, <1>8 DEF AllBonds, SumFunction, g, all

\* Whatever was staked, bonded, withdrawn and distributed, everything a staker
\* has stays within reach of the queries and of withdrawals.
THEOREM RecordsReachableHolds == RoundSpec => []RecordsReachable
<1>1. RoundTypeOK /\ ReachInv => RecordsReachable
  <2> SUFFICES ASSUME RoundTypeOK, ReachInv PROVE RecordsReachable
    OBVIOUS
  <2>1. TypeOK
    BY DEF RoundTypeOK
  <2>2. \A c \in Clubs, u \in Users : bonds[c][u] # << >> => Withdrawable(u, c)
    BY DEF ReachInv, Withdrawable
  <2> QED
    BY <2>1, <2>2, StakesShown, BondsShown DEF RecordsReachable
<1> QED
  BY <1>1, RecordsStayInReach, RoundTypeOKHolds, PTL DEF RoundSpec

===============================================================================
