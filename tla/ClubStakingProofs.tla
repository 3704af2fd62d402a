-------------------------- MODULE ClubStakingProofs --------------------------
(***************************************************************************)
(* What holds of the clubstaking contract for any clubs, wallets, prices   *)
(* and periods: who owns which club, that the contract implements the      *)
(* abstract market of clubs, when the next reward is due, the types of all *)
(* records, and what withdrawals make of bonds.                            *)
(*                                                                         *)
(* The first part does not depend on amounts of stakes, so its inductive   *)
(* invariant says nothing of them: stakes may be anything.                 *)
(***************************************************************************)
EXTENDS ClubStaking, Sums

(***************************************************************************)
(* The invariant.  OwnerRecord is the type of an entry of the ownership    *)
(* map, but for the fields that hold amounts of FURY.                      *)
(***************************************************************************)
OwnerRecord(r) ==
    /\ r = [owner |-> r.owner, start |-> r.start, released |-> r.released,
            price |-> r.price, reward |-> r.reward, total |-> r.total]
    /\ r.owner \in Users \cup {NoUser}
    /\ r.start \in Nat
    /\ r.released \in BOOLEAN

OwnersTyped ==
    /\ now \in Nat
    /\ ownership = [c \in Clubs |-> ownership[c]]
    /\ \A c \in Clubs : OwnerRecord(ownership[c])

ClockInv == nextReward \in Nat /\ NextRewardWithinOnePeriod

OwnersInv == OwnersTyped /\ OneClubPerOwner

(***************************************************************************)
(* All a message can do to the ownership map: a sale, a release, or a      *)
(* change of totals alone.                                                 *)
(***************************************************************************)
OwnersKept ==
    /\ ownership' = [c \in Clubs |-> ownership'[c]]
    /\ \A c \in Clubs : /\ OwnerRecord(ownership'[c])
                        /\ ownership'[c].owner = ownership[c].owner
                        /\ ownership'[c].start = ownership[c].start
                        /\ ownership'[c].released = ownership[c].released
                        /\ ownership'[c].reward = ownership[c].reward
    /\ prevOwner' = prevOwner

\* A change of one club's total keeps the owners.
LEMMA TotalKeepsOwners ==
    ASSUME OwnersTyped, NEW c \in Clubs, NEW t,
           ownership' = [ownership EXCEPT ![c].total = t],
           prevOwner' = prevOwner
    PROVE  OwnersKept
<1>1. ASSUME NEW d \in Clubs, d # c
      PROVE  ownership'[d] = ownership[d]
  BY <1>1 DEF OwnersTyped
<1>2. ownership'[c] = [ownership[c] EXCEPT !.total = t]
  BY DEF OwnersTyped
<1>3. ownership'[c] = [owner |-> ownership[c].owner, start |-> ownership[c].start,
                       released |-> ownership[c].released,
                       price |-> ownership[c].price,
                       reward |-> ownership[c].reward, total |-> t]
  BY <1>2 DEF OwnersTyped, OwnerRecord
<1>4. ownership' = [d \in Clubs |-> ownership'[d]]
  BY DEF OwnersTyped
<1> QED
  BY <1>1, <1>3, <1>4 DEF OwnersKept, OwnersTyped, OwnerRecord

\* So does a message that leaves the map as it is.
LEMMA SameMapKeepsOwners ==
    ASSUME OwnersTyped, ownership' = ownership, prevOwner' = prevOwner
    PROVE  OwnersKept
BY DEF OwnersKept, OwnersTyped

-----------------------------------------------------------------------------
(***************************************************************************)
(* One lemma per kind of message.                                          *)
(***************************************************************************)
LEMMA StakingKeepsOwners ==
    ASSUME OwnersTyped, NEW u \in Users, NEW c \in Clubs, NEW amount, NEW auto,
           \/ StakeOnAClub(u, c, amount, auto)
           \/ BondStake(u, c, amount)
           \/ WithdrawMatured(u, c, amount)
           \/ ClaimStakerRewards(u, c)
    PROVE  OwnersKept /\ now' = now /\ nextReward' = nextReward
<1>1. CASE StakeOnAClub(u, c, amount, auto)
  BY <1>1, TotalKeepsOwners DEF StakeOnAClub, WithTotal, rewardVars
<1>2. CASE BondStake(u, c, amount)
  BY <1>2, TotalKeepsOwners DEF BondStake, WithTotal, rewardVars
<1>3. CASE WithdrawMatured(u, c, amount)
  BY <1>3, SameMapKeepsOwners DEF WithdrawMatured, clubVars, rewardVars
<1>4. CASE ClaimStakerRewards(u, c)
  BY <1>4, SameMapKeepsOwners DEF ClaimStakerRewards, clubVars, rewardVars
<1> QED
  BY <1>1, <1>2, <1>3, <1>4

LEMMA AssigningKeepsOwners ==
    ASSUME OwnersTyped, NEW c \in Clubs, NEW list, AssignStakesToAClub(list, c)
    PROVE  OwnersKept /\ now' = now /\ nextReward' = nextReward
BY TotalKeepsOwners DEF AssignStakesToAClub, WithTotal, rewardVars

LEMMA FundingKeepsOwners ==
    ASSUME OwnersTyped, NEW amount, IncreaseRewardAmount(amount)
    PROVE  OwnersKept /\ now' = now /\ nextReward' = nextReward
BY SameMapKeepsOwners DEF IncreaseRewardAmount, clubVars

LEMMA DistributionKeepsOwners ==
    ASSUME OwnersTyped, NEW c \in Clubs, NEW list, NEW first, NEW last,
           CalculateAndDistributeRewards(list, c, first, last)
    PROVE  /\ OwnersKept
           /\ now' = now
           /\ \/ nextReward' = nextReward
              \/ nextReward < now /\ nextReward' = nextReward + Periodicity
<1>1. OwnersKept
  <2>1. CASE ownership' = ownership
    BY <2>1, SameMapKeepsOwners DEF CalculateAndDistributeRewards
  <2>2. CASE ownership' # ownership
    <3>1. PICK t : ownership' = [ownership EXCEPT ![c].total = t]
      BY <2>2 DEF CalculateAndDistributeRewards
    <3> QED
      BY <3>1, TotalKeepsOwners DEF CalculateAndDistributeRewards
  <2> QED
    BY <2>1, <2>2
<1> QED
  BY <1>1 DEF CalculateAndDistributeRewards, NextRewardTime

LEMMA TickKeepsOwners ==
    ASSUME OwnersTyped, Tick
    PROVE  OwnersKept /\ now' = now + 1 /\ nextReward' = nextReward
BY SameMapKeepsOwners DEF Tick, clubVars, rewardVars

(***************************************************************************)
(* Every step is a sale, a release, a message that keeps the owners, or    *)
(* the passing of a second.                                                *)
(***************************************************************************)
Sale ==
    \E u \in Users, c \in Clubs, seller \in Users \cup {NoUser},
       auto \in AutoChoices, price \in {0, ClubPrice} :
          TakeOver(u, c, seller, auto, price)
Release == \E u \in Users, c \in Clubs : ReleaseClub(u, c)
Other ==
    /\ OwnersKept
    /\ \/ now' = now /\ nextReward' = nextReward
       \/ now' = now + 1 /\ nextReward' = nextReward
       \/ now' = now /\ nextReward < now /\ nextReward' = nextReward + Periodicity

LEMMA StepKinds ==
    ASSUME OwnersTyped, [Next]_vars
    PROVE  Sale \/ Release \/ Other
<1>1. CASE UserNext
  <2>1. PICK u \in Users, c \in Clubs :
           \/ \E seller \in Users \cup {NoUser}, auto \in AutoChoices :
                 BuyAClub(u, c, seller, auto)
           \/ ReleaseClub(u, c)
           \/ \E amount \in StakeAmounts, auto \in AutoChoices :
                 StakeOnAClub(u, c, amount, auto)
           \/ \E amount \in WithdrawAmounts :
                 BondStake(u, c, amount) \/ WithdrawMatured(u, c, amount)
    BY <1>1 DEF UserNext
  <2>2. ASSUME NEW seller \in Users \cup {NoUser}, NEW auto \in AutoChoices,
               BuyAClub(u, c, seller, auto)
        PROVE  Sale
    BY <2>2 DEF BuyAClub, Sale
  <2>3. ASSUME NEW amount, NEW auto,
               \/ StakeOnAClub(u, c, amount, auto)
               \/ BondStake(u, c, amount)
               \/ WithdrawMatured(u, c, amount)
        PROVE  Other
    BY <2>3, StakingKeepsOwners DEF Other
  <2>4. CASE ReleaseClub(u, c)
    BY <2>4 DEF Release
  <2> QED
    BY <2>1, <2>2, <2>3, <2>4
<1>2. CASE ClaimNext
  BY <1>2, StakingKeepsOwners DEF ClaimNext, Other
<1>3. CASE AdminNext
  <2>1. ASSUME NEW u \in Users, NEW c \in Clubs, NEW seller \in Users \cup {NoUser},
               NEW auto \in AutoChoices, AssignAClub(u, c, seller, auto)
        PROVE  Sale
    BY <2>1 DEF AssignAClub, Sale
  <2>2. ASSUME NEW c \in Clubs, NEW list, AssignStakesToAClub(list, c)
        PROVE  Other
    BY <2>2, AssigningKeepsOwners DEF Other
  <2>3. ASSUME NEW amount, IncreaseRewardAmount(amount)
        PROVE  Other
    BY <2>3, FundingKeepsOwners DEF Other
  <2> QED
    BY <1>3, <2>1, <2>2, <2>3 DEF AdminNext
<1>4. CASE BatchNext
  <2>1. PICK c \in Clubs, list \in StakerLists, first \in BOOLEAN, last \in BOOLEAN :
           CalculateAndDistributeRewards(list, c, first, last)
    BY <1>4 DEF BatchNext
  <2> QED
    BY <2>1, DistributionKeepsOwners DEF Other
<1>5. CASE Tick
  BY <1>5, TickKeepsOwners DEF Other
<1>6. CASE UNCHANGED vars
  BY <1>6, SameMapKeepsOwners DEF vars, clubVars, rewardVars, Other
<1> QED
  BY <1>1, <1>2, <1>3, <1>4, <1>5, <1>6 DEF Next

\* What a sale and a release do to the records of the ownership map.
LEMMA SaleRecords ==
    ASSUME OwnersTyped, NEW u \in Users, NEW c \in Clubs, NEW seller, NEW auto,
           NEW price, TakeOver(u, c, seller, auto, price)
    PROVE  /\ ownership' = [d \in Clubs |-> ownership'[d]]
           /\ \A d \in Clubs : d # c => ownership'[d] = ownership[d]
           /\ OwnerRecord(ownership'[c])
           /\ ownership'[c].owner = u /\ ownership'[c].reward = 0
           /\ ownership'[c].start = now /\ ownership'[c].released = FALSE
BY DEF TakeOver, OwnersTyped, OwnerRecord, CLUB_BUYING_REWARD_AMOUNT

LEMMA ReleaseRecords ==
    ASSUME OwnersTyped, NEW u \in Users, NEW c \in Clubs, ReleaseClub(u, c)
    PROVE  /\ ownership' = [d \in Clubs |-> ownership'[d]]
           /\ \A d \in Clubs : d # c => ownership'[d] = ownership[d]
           /\ OwnerRecord(ownership'[c])
           /\ ownership'[c].owner = ownership[c].owner
           /\ ownership'[c].reward = ownership[c].reward
           /\ ownership'[c].start = now /\ ownership'[c].released = TRUE
<1>1. ownership' = [ownership EXCEPT ![c] =
                      [ownership[c] EXCEPT !.start = now, !.released = TRUE]]
  BY DEF ReleaseClub, OwnersTyped
<1>2. ownership'[c] = [ownership[c] EXCEPT !.start = now, !.released = TRUE]
  BY <1>1 DEF OwnersTyped
<1>3. ownership'[c] = [owner |-> ownership[c].owner, start |-> now,
                       released |-> TRUE, price |-> ownership[c].price,
                       reward |-> ownership[c].reward, total |-> ownership[c].total]
  BY <1>2 DEF OwnersTyped, OwnerRecord
<1>4. \A d \in Clubs : d # c => ownership'[d] = ownership[d]
  BY <1>1 DEF OwnersTyped
<1>5. ownership' = [d \in Clubs |-> ownership'[d]]
  BY <1>1 DEF OwnersTyped
<1> QED
  BY <1>3, <1>4, <1>5 DEF OwnersTyped, OwnerRecord

-----------------------------------------------------------------------------
(***************************************************************************)
(* The inductive invariant.                                                *)
(***************************************************************************)
LEMMA InitOwnersInv == Init => OwnersInv
<1> SUFFICES ASSUME Init PROVE OwnersInv
  OBVIOUS
<1>1. \A c \in Clubs : ownership[c] = Unsold
  BY DEF Init
<1>2. OwnersTyped
  BY <1>1 DEF Init, OwnersTyped, OwnerRecord, Unsold
<1>3. OneClubPerOwner
  BY <1>1 DEF Init, OneClubPerOwner, Listed, Unsold
<1> QED
  BY <1>2, <1>3 DEF OwnersInv

LEMMA NextOwnersInv == OwnersInv /\ [Next]_vars => OwnersInv'
<1> SUFFICES ASSUME OwnersInv, [Next]_vars PROVE OwnersInv'
  OBVIOUS
<1>0. OwnersTyped /\ OneClubPerOwner
  BY DEF OwnersInv
<1>1. CASE Sale
  <2>1. PICK u \in Users, c \in Clubs, seller \in Users \cup {NoUser},
             auto \in AutoChoices, price \in {0, ClubPrice} :
               TakeOver(u, c, seller, auto, price)
    BY <1>1 DEF Sale
  <2>2. /\ ownership' = [d \in Clubs |-> ownership'[d]]
        /\ \A d \in Clubs : d # c => ownership'[d] = ownership[d]
        /\ OwnerRecord(ownership'[c])
        /\ ownership'[c].owner = u /\ ownership'[c].reward = 0
    BY <1>0, <2>1, SaleRecords
  <2>3. OwnersTyped'
    BY <1>0, <2>1, <2>2 DEF OwnersTyped, OwnerRecord, TakeOver
  \* The buyer owned no club before, so c is its only one.
  <2>4. OneClubPerOwner'
    BY <1>0, <2>1, <2>2 DEF OneClubPerOwner, Listed, TakeOver, OwnsNoClub
  <2> QED
    BY <2>3, <2>4 DEF OwnersInv
<1>2. CASE Release
  <2>1. PICK u \in Users, c \in Clubs : ReleaseClub(u, c)
    BY <1>2 DEF Release
  <2>2. /\ ownership' = [d \in Clubs |-> ownership'[d]]
        /\ \A d \in Clubs : /\ OwnerRecord(ownership'[d])
                            /\ ownership'[d].owner = ownership[d].owner
                            /\ ownership'[d].reward = ownership[d].reward
    BY <1>0, <2>1, ReleaseRecords DEF OwnersTyped
  <2>3. now' = now /\ prevOwner' = prevOwner
    BY <2>1 DEF ReleaseClub
  <2> QED
    BY <1>0, <2>2, <2>3
    DEF OwnersInv, OwnersTyped, OneClubPerOwner, Listed
<1>3. CASE Other
  BY <1>0, <1>3 DEF Other, OwnersKept, OwnersInv, OwnersTyped, OneClubPerOwner, Listed
<1> QED
  BY <1>0, <1>1, <1>2, <1>3, StepKinds

\* The ownership map keeps its type, and the invariant holds.
THEOREM OwnersCorrect == Spec => []OwnersInv
<1> QED
  BY InitOwnersInv, NextOwnersInv, PTL DEF Spec

\* No wallet ever owns two clubs.
THEOREM OneClubPerOwnerHolds == Spec => []OneClubPerOwner
<1>1. OwnersInv => OneClubPerOwner
  BY DEF OwnersInv
<1> QED
  BY <1>1, OwnersCorrect, PTL

-----------------------------------------------------------------------------
(***************************************************************************)
(* The clock of the rewards.                                               *)
(***************************************************************************)

\* However batches are sent, the next distribution is never put off by more
\* than a period.
THEOREM NextRewardWithinOnePeriodHolds == Spec => []NextRewardWithinOnePeriod
<1>1. Init => ClockInv
  BY ConfigAssumption DEF Init, ClockInv, NextRewardWithinOnePeriod
<1>2. OwnersInv /\ ClockInv /\ [Next]_vars => ClockInv'
  <2> SUFFICES ASSUME OwnersInv, ClockInv, [Next]_vars PROVE ClockInv'
    OBVIOUS
  <2>1. now \in Nat /\ FirstReward \in Nat /\ Periodicity \in Nat
    BY ConfigAssumption DEF OwnersInv, OwnersTyped
  <2>2. CASE Sale
    BY <2>1, <2>2 DEF Sale, TakeOver, rewardVars, ClockInv, NextRewardWithinOnePeriod
  <2>3. CASE Release
    BY <2>1, <2>3 DEF Release, ReleaseClub, rewardVars, ClockInv,
                      NextRewardWithinOnePeriod
  <2>4. CASE Other
    BY <2>1, <2>4 DEF Other, ClockInv, NextRewardWithinOnePeriod
  <2> QED
    BY <2>2, <2>3, <2>4, StepKinds DEF OwnersInv
<1>3. ClockInv => NextRewardWithinOnePeriod
  BY DEF ClockInv
<1> QED
  BY <1>1, <1>2, <1>3, OwnersCorrect, PTL DEF Spec

-----------------------------------------------------------------------------
(***************************************************************************)
(* The contract implements the abstract market of clubs: a sale is a Take, *)
(* a release an Offer, a tick a Pass, and every other message a stutter.   *)
(***************************************************************************)
MarketHolder == [c \in Clubs |-> ownership[c].owner]
MarketOffer == [c \in Clubs |-> IF ownership[c].released
                                THEN ownership[c].start + ReleaseLock ELSE -1]

LEMMA SaleIsTake == OwnersInv /\ Sale => Market!MarketNext
<1> SUFFICES ASSUME OwnersInv, Sale PROVE Market!MarketNext
  OBVIOUS
<1>1. PICK u \in Users, c \in Clubs, seller \in Users \cup {NoUser},
           auto \in AutoChoices, price \in {0, ClubPrice} :
             TakeOver(u, c, seller, auto, price)
  BY DEF Sale
<1>2. /\ ownership' = [d \in Clubs |-> ownership'[d]]
      /\ \A d \in Clubs : d # c => ownership'[d] = ownership[d]
      /\ ownership'[c].owner = u /\ ownership'[c].released = FALSE
  BY <1>1, SaleRecords DEF OwnersInv
<1>3. MarketHolder[c] = NoUser \/ now <= MarketOffer[c]
  BY <1>1 DEF TakeOver, OnSale, Listed, MarketHolder, MarketOffer
<1>4. \A d \in Clubs : MarketHolder[d] # u
  BY <1>1 DEF TakeOver, OwnsNoClub, MarketHolder
<1>5. MarketHolder' = [MarketHolder EXCEPT ![c] = u]
  BY <1>2 DEF MarketHolder
<1>6. MarketOffer' = [MarketOffer EXCEPT ![c] = -1]
  BY <1>2 DEF MarketOffer
<1>7. Market!Take(u, c)
  BY <1>1, <1>3, <1>4, <1>5, <1>6
  DEF Market!Take, Market!NotOffered, MarketHolder, MarketOffer, TakeOver
<1> QED
  BY <1>7 DEF Market!MarketNext

LEMMA ReleaseIsOffer == OwnersInv /\ Release => Market!MarketNext
<1> SUFFICES ASSUME OwnersInv, Release PROVE Market!MarketNext
  OBVIOUS
<1>1. PICK u \in Users, c \in Clubs : ReleaseClub(u, c)
  BY DEF Release
<1>2. /\ ownership' = [d \in Clubs |-> ownership'[d]]
      /\ \A d \in Clubs : d # c => ownership'[d] = ownership[d]
      /\ ownership'[c].owner = ownership[c].owner
      /\ ownership'[c].start = now /\ ownership'[c].released = TRUE
  BY <1>1, ReleaseRecords DEF OwnersInv
<1>3. MarketHolder[c] # NoUser
  BY <1>1, ConfigAssumption DEF ReleaseClub, MarketHolder
<1>4. MarketHolder' = MarketHolder
  BY <1>2 DEF MarketHolder
<1>5. MarketOffer' = [MarketOffer EXCEPT ![c] = now + ReleaseLock]
  BY <1>2 DEF MarketOffer
<1>6. Market!Offer(c)
  BY <1>1, <1>3, <1>4, <1>5 DEF Market!Offer, MarketHolder, MarketOffer, ReleaseClub
<1> QED
  BY <1>6 DEF Market!MarketNext

LEMMA OtherIsPassOrStutter ==
    OwnersInv /\ Other => [Market!MarketNext]_(Market!marketVars)
<1> SUFFICES ASSUME OwnersInv, Other PROVE [Market!MarketNext]_(Market!marketVars)
  OBVIOUS
<1>1. MarketHolder' = MarketHolder
  BY DEF Other, OwnersKept, MarketHolder
<1>2. MarketOffer' = MarketOffer
  BY DEF Other, OwnersKept, MarketOffer
<1>3. now' = now \/ now' = now + 1
  BY DEF Other
<1> QED
  BY <1>1, <1>2, <1>3
  DEF Market!MarketNext, Market!Pass, Market!marketVars, MarketHolder, MarketOffer

\* The ownership part of the contract implements the abstract market: a sale
\* takes an offer in time, a release makes one, and nothing else moves a club.
THEOREM MarketImplementedHolds == Spec => MarketImplemented
<1>1. Init => Market!MarketInit
  BY DEF Init, Unsold, Market!MarketInit, Market!NotOffered
<1>2. OwnersInv /\ [Next]_vars => [Market!MarketNext]_(Market!marketVars)
  BY SaleIsTake, ReleaseIsOffer, OtherIsPassOrStutter, StepKinds DEF OwnersInv
<1> QED
  BY <1>1, <1>2, OwnersCorrect, PTL DEF Spec, MarketImplemented, Market!MarketSpec

-----------------------------------------------------------------------------
(***************************************************************************)
(* Payment out of bonds.  The folds of the contract's loops are shown to   *)
(* unfold step by step (...Unfolds): c[1..k] is the result of the first k  *)
(* steps.                                                                  *)
(***************************************************************************)
Payment == [left : Nat, kept : Seq(Bond)]

LEMMA VisitTyped ==
    ASSUME NEW acc \in Payment, NEW bond \in Bond
    PROVE  VisitBond(acc, bond) \in Payment
<1>1. acc.left \in Nat /\ acc.kept \in Seq(Bond) /\ bond.start \in Nat /\ bond.amount \in Nat
      /\ acc = [left |-> acc.left, kept |-> acc.kept]
  BY DEF Payment, Bond
<1>2. CASE ~Mature(bond) \/ acc.left = 0
  <2>1. VisitBond(acc, bond) = [left |-> acc.left, kept |-> Append(acc.kept, bond)]
    BY <1>1, <1>2 DEF VisitBond
  <2> HIDE DEF Bond
  <2> QED
    BY <1>1, <2>1, AppendProperties DEF Payment
<1>3. CASE ~(~Mature(bond) \/ acc.left = 0) /\ bond.amount > acc.left
  <2> DEFINE rest == [bond EXCEPT !.amount = @ - acc.left]
  <2>1. rest \in Bond
    BY <1>1, <1>3 DEF Bond
  <2>2. VisitBond(acc, bond) = [left |-> 0, kept |-> Append(acc.kept, rest)]
    BY <1>3 DEF VisitBond
  <2> HIDE DEF Bond, rest
  <2> QED
    BY <1>1, <2>1, <2>2, AppendProperties DEF Payment
<1>4. CASE ~(~Mature(bond) \/ acc.left = 0) /\ ~(bond.amount > acc.left)
  <2>1. VisitBond(acc, bond) = [left |-> acc.left - bond.amount, kept |-> acc.kept]
    BY <1>1, <1>4 DEF VisitBond
  <2> QED
    BY <1>1, <1>4, <2>1 DEF Payment
<1> QED
  BY <1>2, <1>3, <1>4

VisitedFrom(c, base, list) ==
    /\ c[{}] = base
    /\ \A k \in 1..Len(list) : c[1..k] = VisitBond(c[1..(k - 1)], list[k])

LEMMA PaymentUnfolds ==
    ASSUME NEW list \in Seq(Bond), NEW base \in Payment
    PROVE  \E c : /\ FoldLeft(VisitBond, base, list) = c[1..Len(list)]
                  /\ VisitedFrom(c, base, list)
                  /\ \A k \in 0..Len(list) : c[1..k] \in Payment
<1> DEFINE n == Len(list)
           D == 1..n
           Folds(g) == g = [s \in SUBSET D |->
                              IF s = {} THEN base
                              ELSE LET i == Max(s) IN VisitBond(g[s \ {i}], list[i])]
           step == [x \in Payment \X D |-> VisitBond(x[1], list[x[2]])]
           c == CHOOSE g : Folds(g)
<1>1. n \in Nat /\ DOMAIN list = D /\ \A i \in D : list[i] \in Bond
  BY LenProperties, ElementOfSeq
<1>2. FoldLeft(VisitBond, base, list) = c[D]
  BY <1>1 DEF FoldLeft, MapThenFoldSet
<1> HIDE DEF c, n
<1>3. \A x \in Payment \X D : step[x] \in Payment
  <2> HIDE DEF Payment
  <2>1. \A x \in Payment \X D : x[1] \in Payment /\ list[x[2]] \in Bond
    BY <1>1
  <2> QED
    BY <2>1, VisitTyped
<1>4. PICK g : ResultsOf(g, Payment, base, step, D)
  <2> HIDE DEF step, Payment
  <2>1. base \in Payment /\ n \in Nat /\ \A x \in Payment \X (1..n) : step[x] \in Payment
    BY <1>1, <1>3
  <2> QED
    BY <2>1, ResultsExist
<1>5. ASSUME NEW s \in SUBSET D
      PROVE  g[s] = IF s = {} THEN base
                    ELSE LET i == Max(s) IN VisitBond(g[s \ {i}], list[i])
  <2>1. CASE s = {}
    BY <1>4, <2>1 DEF ResultsOf
  <2>2. CASE s # {}
    <3> DEFINE i == Max(s)
    <3>1. i \in D /\ g[s \ {i}] \in Payment /\ g[s] = step[<<g[s \ {i}], i>>]
      BY <1>4, <2>2 DEF ResultsOf
    <3> HIDE DEF i, D
    <3>2. g[s] = VisitBond(g[s \ {i}], list[i])
      BY <3>1
    <3> QED
      BY <2>2, <3>2 DEF i
  <2> QED
    BY <2>1, <2>2
<1>6. Folds(g)
  <2> DEFINE rhs(s) == IF s = {} THEN base
                       ELSE LET i == Max(s) IN VisitBond(g[s \ {i}], list[i])
  <2>1. \A s \in SUBSET D : g[s] = rhs(s)
    BY <1>5
  <2> HIDE DEF rhs
  <2>2. g = [s \in SUBSET D |-> rhs(s)]
    BY <1>4, <2>1 DEF ResultsOf
  <2> QED
    BY <2>2 DEF rhs
<1>7. Folds(c)
  BY <1>6 DEF c
<1>8. c[{}] = base
  BY <1>7
<1>9. ASSUME NEW k \in 1..n
      PROVE  c[1..k] = VisitBond(c[1..(k - 1)], list[k])
  <2>1. Max(1..k) = k /\ (1..k) \ {k} = 1..(k - 1)
    BY <1>1, LastIsMax
  <2>2. 1..k \in SUBSET D /\ 1..k # {}
    <3>1. k \in Nat /\ 1 <= k /\ k <= n
      BY <1>1
    <3>2. k \in 1..k /\ \A i \in 1..k : i \in 1..n
      BY <1>1, <3>1
    <3> QED
      BY <3>2
  <2> HIDE DEF D
  <2> QED
    BY <1>7, <2>1, <2>2
<1>10. \A k \in 0..n : c[1..k] \in Payment
  <2>1. ASSUME NEW k \in 1..n, c[1..(k - 1)] \in Payment
        PROVE  c[1..k] \in Payment
    <3> HIDE DEF Payment
    <3> QED
      BY <1>1, <1>9, <2>1, VisitTyped
  <2> HIDE DEF c, Payment
  <2> QED
    BY <1>1, <1>8, <2>1, PrefixesStayIn
<1> QED
  BY <1>2, <1>8, <1>9, <1>10 DEF VisitedFrom, n

-----------------------------------------------------------------------------
(***************************************************************************)
(* Lists of bonds: what they amount to, and how often a bond is in them.   *)
(***************************************************************************)
AmountsIn(vec) == [i \in DOMAIN vec |-> vec[i].amount]

LEMMA BondsInVec ==
    ASSUME NEW vec \in Seq(Bond)
    PROVE  /\ Len(vec) \in Nat
           /\ DOMAIN vec = 1..Len(vec)
           /\ IsFiniteSet(1..Len(vec))
           /\ \A i \in 1..Len(vec) : /\ vec[i] \in Bond
                                     /\ vec[i].amount \in Nat
                                     /\ vec[i].start \in Nat
                                     /\ AmountsIn(vec)[i] = vec[i].amount
           /\ BondSum(vec) = SumFunctionOnSet(AmountsIn(vec), 1..Len(vec))
           /\ BondSum(vec) \in Nat
<1> DEFINE n == Len(vec)
<1>1. n \in Nat /\ DOMAIN vec = 1..n
  BY LenProperties
<1>2. IsFiniteSet(1..n)
  BY <1>1, FS_Interval
<1>3. \A i \in 1..n : vec[i] \in Bond
  BY ElementOfSeq
<1>4. \A i \in 1..n : /\ vec[i].amount \in Nat /\ vec[i].start \in Nat
                      /\ AmountsIn(vec)[i] = vec[i].amount
  BY <1>1, <1>3 DEF Bond, AmountsIn
<1>5. BondSum(vec) = SumFunctionOnSet(AmountsIn(vec), 1..n)
  BY <1>1 DEF BondSum, SumFunction, AmountsIn
<1> HIDE DEF n
<1>6. \A i \in 1..n : AmountsIn(vec)[i] \in Nat
  BY <1>4
<1>7. BondSum(vec) \in Nat
  BY <1>2, <1>5, <1>6, SumIsNatural
<1> QED
  BY <1>1, <1>2, <1>3, <1>4, <1>5, <1>7 DEF n

LEMMA BondsAppend ==
    ASSUME NEW vec \in Seq(Bond), NEW bond \in Bond
    PROVE  /\ Append(vec, bond) \in Seq(Bond)
           /\ Len(Append(vec, bond)) = Len(vec) + 1
           /\ BondSum(Append(vec, bond)) = BondSum(vec) + bond.amount
           /\ \A b : Copies(Append(vec, bond), b) =
                        Copies(vec, b) + (IF b = bond THEN 1 ELSE 0)
<1> DEFINE new == Append(vec, bond)
           n == Len(vec)
<1>1. /\ new \in Seq(Bond) /\ Len(new) = n + 1
      /\ \A i \in 1..n : new[i] = vec[i]
      /\ new[n + 1] = bond
  <2> HIDE DEF Bond
  <2> QED
    BY AppendProperties
<1>2. n \in Nat /\ IsFiniteSet(1..n) /\ DOMAIN vec = 1..n
  BY BondsInVec
<1> HIDE DEF new
<1>3. /\ \A i \in 1..(n + 1) : /\ AmountsIn(new)[i] = new[i].amount
                               /\ AmountsIn(new)[i] \in Int
      /\ BondSum(new) = SumFunctionOnSet(AmountsIn(new), 1..(n + 1))
      /\ DOMAIN new = 1..(n + 1)
  BY <1>1, BondsInVec
<1>4. /\ \A i \in 1..n : AmountsIn(vec)[i] = vec[i].amount
      /\ BondSum(vec) = SumFunctionOnSet(AmountsIn(vec), 1..n)
  BY BondsInVec
<1> HIDE DEF n
<1>5. BondSum(new) = BondSum(vec) + bond.amount
  <2>1. \A i \in 1..n : i \in 1..(n + 1)
    BY <1>2
  <2>2. n + 1 \in 1..(n + 1)
    BY <1>2
  <2>3. AmountsIn(new)[n + 1] = bond.amount
    BY <1>1, <1>3, <2>2
  <2>4. \A i \in 1..n : AmountsIn(vec)[i] = AmountsIn(new)[i]
    BY <1>1, <1>3, <1>4, <2>1
  <2>5. SumFunctionOnSet(AmountsIn(new), 1..(n + 1)) =
          SumFunctionOnSet(AmountsIn(vec), 1..n) + AmountsIn(new)[n + 1]
    BY <1>2, <1>3, <2>4, SumOfOneMore
  <2> QED
    BY <1>3, <1>4, <2>3, <2>5
<1>6. ASSUME NEW b
      PROVE  Copies(new, b) = Copies(vec, b) + (IF b = bond THEN 1 ELSE 0)
  <2> DEFINE S == {i \in 1..n : vec[i] = b}
             T == {i \in 1..(n + 1) : new[i] = b}
  <2>1. IsFiniteSet(S) /\ n + 1 \notin S
    BY <1>2, FS_Subset
  <2>2. T = IF b = bond THEN S \cup {n + 1} ELSE S
    BY <1>1, <1>2
  <2>3. Copies(new, b) = Cardinality(T) /\ Copies(vec, b) = Cardinality(S)
    BY <1>2, <1>3 DEF Copies
  <2> HIDE DEF S, T
  <2>4. Cardinality(S) \in Nat /\ Cardinality(S \cup {n + 1}) = Cardinality(S) + 1
    BY <2>1, FS_AddElement, FS_CardinalityType
  <2> QED
    BY <2>2, <2>3, <2>4
<1> QED
  BY <1>1, <1>5, <1>6 DEF new, n

\* What a payment leaves: what was not paid is left in the bonds, there are no
\* more of them, and the ones that are not mature are all there.
LeftAfter(acc, amount, sum, length) ==
    /\ acc \in Payment
    /\ acc.left <= amount
    /\ Len(acc.kept) <= length
    /\ BondSum(acc.kept) + amount = sum + acc.left

LEMMA VisitLeaves ==
    ASSUME NEW acc, NEW amount \in Nat, NEW sum \in Nat, NEW length \in Nat,
           LeftAfter(acc, amount, sum, length), NEW bond \in Bond
    PROVE  LET next == VisitBond(acc, bond)
           IN  /\ LeftAfter(next, amount, sum + bond.amount, length + 1)
               /\ \A b \in Bond : ~Mature(b) =>
                     Copies(next.kept, b) =
                        Copies(acc.kept, b) + (IF b = bond THEN 1 ELSE 0)
<1> DEFINE next == VisitBond(acc, bond)
           kept == acc.kept
<1>1. /\ acc.left \in Nat /\ kept \in Seq(Bond) /\ bond.amount \in Nat
      /\ acc = [left |-> acc.left, kept |-> kept]
      /\ Len(kept) \in Nat /\ BondSum(kept) \in Nat
      /\ acc.left <= amount /\ Len(kept) <= length
      /\ BondSum(kept) + amount = sum + acc.left
  BY BondsInVec DEF LeftAfter, Payment, Bond
<1>2. next \in Payment
  BY VisitTyped DEF LeftAfter
<1>3. \A b : Copies(kept, b) \in Nat
  <2> SUFFICES ASSUME NEW b PROVE Copies(kept, b) \in Nat
    OBVIOUS
  <2>1. IsFiniteSet({i \in 1..Len(kept) : kept[i] = b})
    BY <1>1, BondsInVec, FS_Subset
  <2> QED
    BY <1>1, <2>1, BondsInVec, FS_CardinalityType DEF Copies
<1>4. CASE ~Mature(bond) \/ acc.left = 0
  <2>1. next = [left |-> acc.left, kept |-> Append(kept, bond)]
    BY <1>1, <1>4 DEF VisitBond
  <2>2. next.left = acc.left /\ next.kept = Append(kept, bond)
    BY <2>1
  <2>3. /\ Len(next.kept) = Len(kept) + 1
        /\ BondSum(next.kept) = BondSum(kept) + bond.amount
        /\ \A b : Copies(next.kept, b) = Copies(kept, b) + (IF b = bond THEN 1 ELSE 0)
    BY <1>1, <2>2, BondsAppend
  <2> HIDE DEF next, kept
  <2>4. LeftAfter(next, amount, sum + bond.amount, length + 1)
    <3>1. /\ Len(next.kept) = Len(kept) + 1
          /\ BondSum(next.kept) = BondSum(kept) + bond.amount
      BY <2>3
    <3>2. next.left <= amount
      BY <1>1, <2>2
    <3>3. Len(next.kept) <= length + 1
      BY <1>1, <3>1
    <3>4. BondSum(next.kept) + amount = (sum + bond.amount) + next.left
      <4>1. BondSum(kept) + amount = sum + acc.left
        BY <1>1
      <4>2. /\ BondSum(kept) \in Nat /\ acc.left \in Nat /\ bond.amount \in Nat
            /\ next.left = acc.left /\ BondSum(next.kept) = BondSum(kept) + bond.amount
        BY <1>1, <2>2, <3>1
      <4> QED
        BY <4>1, <4>2
    <3> QED
      BY <1>2, <3>2, <3>3, <3>4 DEF LeftAfter
  <2> QED
    BY <2>3, <2>4 DEF next, kept
<1>5. CASE ~(~Mature(bond) \/ acc.left = 0) /\ bond.amount > acc.left
  <2> DEFINE rest == [bond EXCEPT !.amount = @ - acc.left]
  <2>1. rest \in Bond /\ rest.amount = bond.amount - acc.left /\ rest.start = bond.start
    BY <1>1, <1>5 DEF Bond
  <2>2. next.left = 0 /\ next.kept = Append(kept, rest)
    BY <1>5 DEF VisitBond
  <2>3. Mature(rest) /\ Mature(bond)
    BY <1>5, <2>1 DEF Mature
  <2> HIDE DEF rest
  <2>4. /\ Len(next.kept) = Len(kept) + 1
        /\ BondSum(next.kept) = BondSum(kept) + rest.amount
        /\ \A b : Copies(next.kept, b) = Copies(kept, b) + (IF b = rest THEN 1 ELSE 0)
    BY <1>1, <2>1, <2>2, BondsAppend
  <2> HIDE DEF next, kept
  <2>5. LeftAfter(next, amount, sum + bond.amount, length + 1)
    <3>1. /\ Len(next.kept) = Len(kept) + 1
          /\ BondSum(next.kept) = BondSum(kept) + (bond.amount - acc.left)
      BY <2>1, <2>4
    <3>2. next.left <= amount
      BY <1>1, <2>2
    <3>3. Len(next.kept) <= length + 1
      BY <1>1, <3>1
    <3>4. BondSum(next.kept) + amount = (sum + bond.amount) + next.left
      BY <1>1, <2>2, <3>1
    <3> QED
      BY <1>2, <3>2, <3>3, <3>4 DEF LeftAfter
  <2>6. \A b : ~Mature(b) => Copies(next.kept, b) =
                                Copies(kept, b) + (IF b = bond THEN 1 ELSE 0)
    BY <1>3, <2>3, <2>4
  <2> QED
    BY <2>5, <2>6 DEF next, kept
<1>6. CASE ~(~Mature(bond) \/ acc.left = 0) /\ ~(bond.amount > acc.left)
  <2>1. next = [left |-> acc.left - bond.amount, kept |-> kept]
    BY <1>1, <1>6 DEF VisitBond
  <2>2. next.left = acc.left - bond.amount /\ next.kept = kept
    BY <2>1
  <2> HIDE DEF next, kept
  <2>3. LeftAfter(next, amount, sum + bond.amount, length + 1)
    BY <1>1, <1>2, <1>6, <2>2 DEF LeftAfter
  <2>4. \A b : ~Mature(b) => Copies(next.kept, b) =
                                Copies(kept, b) + (IF b = bond THEN 1 ELSE 0)
    BY <1>3, <1>6, <2>2
  <2> QED
    BY <2>3, <2>4 DEF next, kept
<1> QED
  BY <1>4, <1>5, <1>6

LEMMA PaymentLeaves ==
    ASSUME NEW list \in Seq(Bond), NEW amount \in Nat
    PROVE  LET paid == FoldLeft(VisitBond, [left |-> amount, kept |-> << >>], list)
           IN  /\ LeftAfter(paid, amount, BondSum(list), Len(list))
               /\ \A b \in Bond : ~Mature(b) => Copies(paid.kept, b) = Copies(list, b)
<1> DEFINE base == [left |-> amount, kept |-> << >>]
           n == Len(list)
           sum(k) == SumFunctionOnSet(AmountsIn(list), 1..k)
           count(k, b) == Cardinality({i \in 1..k : list[i] = b})
<1>0. << >> \in Seq(Bond) /\ Len(<< >>) = 0
  BY EmptySeq
<1>1. base \in Payment /\ base.left = amount /\ base.kept = << >>
  BY <1>0 DEF Payment
<1>2. PICK c : /\ FoldLeft(VisitBond, base, list) = c[1..n]
               /\ VisitedFrom(c, base, list)
  <2> HIDE DEF base
  <2> QED
    BY <1>1, PaymentUnfolds
<1>3. /\ n \in Nat /\ DOMAIN list = 1..n
      /\ \A i \in 1..n : /\ list[i] \in Bond /\ list[i].amount \in Nat
                         /\ AmountsIn(list)[i] = list[i].amount
      /\ BondSum(list) = sum(n)
  BY BondsInVec
<1>4. c[{}] = base /\ \A k \in 1..n : c[1..k] = VisitBond(c[1..(k - 1)], list[k])
  BY <1>2 DEF VisitedFrom
<1>5. \A b : Copies(list, b) = count(n, b)
  BY <1>3 DEF Copies
<1> HIDE DEF n, base
<1> DEFINE Q == {k \in Nat : k <= n =>
                   /\ sum(k) \in Nat
                   /\ LeftAfter(c[1..k], amount, sum(k), k)
                   /\ \A b \in Bond : ~Mature(b) => Copies(c[1..k].kept, b) = count(k, b)}
<1>6. 0 \in Q
  <2>1. 1..0 = {}
    OBVIOUS
  <2>2. sum(0) = 0
    BY <2>1, SumOfNone
  <2>3. BondSum(<< >>) = 0
    <3>1. DOMAIN << >> = {}
      OBVIOUS
    <3> QED
      BY <3>1, SumOfNone DEF BondSum, SumFunction
  <2>4. \A b : count(0, b) = 0 /\ Copies(<< >>, b) = 0
    <3> TAKE b
    <3>1. {i \in 1..0 : list[i] = b} = {} /\ {i \in DOMAIN << >> : << >>[i] = b} = {}
      BY <2>1
    <3> QED
      BY <3>1, FS_EmptySet DEF Copies
  <2>5. c[1..0] = base
    BY <1>4, <2>1
  <2>6. LeftAfter(base, amount, 0, 0)
    BY <1>0, <1>1, <2>3 DEF LeftAfter
  <2> QED
    BY <1>1, <2>2, <2>4, <2>5, <2>6
<1>7. ASSUME NEW k \in Nat, k \in Q
      PROVE  k + 1 \in Q
  <2> SUFFICES ASSUME k + 1 <= n
               PROVE  /\ sum(k + 1) \in Nat
                      /\ LeftAfter(c[1..(k + 1)], amount, sum(k + 1), k + 1)
                      /\ \A b \in Bond : ~Mature(b) =>
                            Copies(c[1..(k + 1)].kept, b) = count(k + 1, b)
    OBVIOUS
  <2> DEFINE old == c[1..k]
             new == c[1..(k + 1)]
             bond == list[k + 1]
  <2>1. /\ sum(k) \in Nat /\ LeftAfter(old, amount, sum(k), k)
        /\ \A b \in Bond : ~Mature(b) => Copies(old.kept, b) = count(k, b)
    BY <1>3, <1>7
  <2>2. /\ k + 1 \in 1..n /\ (k + 1) - 1 = k
        /\ \A i \in 1..(k + 1) : i \in 1..n
        /\ \A i \in 1..k : i \in 1..(k + 1)
    BY <1>3
  <2>3. new = VisitBond(old, bond) /\ bond \in Bond /\ bond.amount \in Nat
    BY <1>3, <1>4, <2>2
  <2>4. sum(k + 1) = sum(k) + bond.amount
    <3>1. \A i \in 1..(k + 1) : AmountsIn(list)[i] \in Int
      BY <1>3, <2>2
    <3>2. \A i \in 1..k : AmountsIn(list)[i] = AmountsIn(list)[i]
      OBVIOUS
    <3>3. AmountsIn(list)[k + 1] = bond.amount
      BY <1>3, <2>2
    <3>4. sum(k + 1) = sum(k) + AmountsIn(list)[k + 1]
      BY <3>1, <3>2, SumOfOneMore
    <3> QED
      BY <3>3, <3>4
  <2>5. \A b : count(k + 1, b) = count(k, b) + (IF b = bond THEN 1 ELSE 0)
    <3> TAKE b
    <3> DEFINE S == {i \in 1..k : list[i] = b}
               T == {i \in 1..(k + 1) : list[i] = b}
    <3>1. IsFiniteSet(S) /\ k + 1 \notin S
      <4>1. IsFiniteSet(1..k)
        BY FS_Interval
      <4>2. k + 1 \notin 1..k
        OBVIOUS
      <4> QED
        BY <4>1, <4>2, FS_Subset
    <3>2. 1..(k + 1) = (1..k) \cup {k + 1}
      OBVIOUS
    <3>3. T = IF b = bond THEN S \cup {k + 1} ELSE S
      BY <3>2
    <3> HIDE DEF S, T
    <3>4. Cardinality(S) \in Nat /\ Cardinality(S \cup {k + 1}) = Cardinality(S) + 1
      BY <3>1, FS_AddElement, FS_CardinalityType
    <3>5. Cardinality(T) = Cardinality(S) + (IF b = bond THEN 1 ELSE 0)
      BY <3>3, <3>4
    <3> QED
      BY <3>5 DEF S, T
  <2> HIDE DEF sum, count, old, bond, new
  <2>6. /\ LeftAfter(new, amount, sum(k) + bond.amount, k + 1)
        /\ \A b \in Bond : ~Mature(b) =>
              Copies(new.kept, b) = Copies(old.kept, b) + (IF b = bond THEN 1 ELSE 0)
    BY <2>1, <2>3, VisitLeaves
  <2>7. \A b \in Bond : ~Mature(b) => Copies(new.kept, b) = count(k + 1, b)
    BY <2>1, <2>5, <2>6
  <2>8. sum(k + 1) \in Nat
    BY <2>1, <2>3, <2>4
  <2> QED
    BY <2>4, <2>6, <2>7, <2>8 DEF new
<1> HIDE DEF Q
<1>8. n \in Q
  BY <1>3, <1>6, <1>7, NatSetInduction
<1>9. /\ LeftAfter(c[1..n], amount, sum(n), n)
      /\ \A b \in Bond : ~Mature(b) => Copies(c[1..n].kept, b) = count(n, b)
  BY <1>3, <1>8 DEF Q
<1> QED
  BY <1>2, <1>3, <1>5, <1>9 DEF n, base

-----------------------------------------------------------------------------
(***************************************************************************)
(* Sorting renames the bonds: every bond has a place of its own.           *)
(***************************************************************************)
LEMMA PlacesDiffer ==
    ASSUME NEW vec \in Seq(Bond), NEW i \in 1..Len(vec), NEW k \in 1..Len(vec),
           i # k, NotAfter(vec, i, k)
    PROVE  Place(vec, i) < Place(vec, k)
<1> DEFINE n == Len(vec)
           S == {j \in 1..n : NotAfter(vec, j, i)}
           T == {j \in 1..n : NotAfter(vec, j, k)}
<1>1. n \in Nat /\ DOMAIN vec = 1..n /\ IsFiniteSet(1..n)
      /\ \A j \in 1..n : vec[j].start \in Nat
  BY BondsInVec
<1>2. i \in Nat /\ k \in Nat
  BY <1>1
<1>3. \A j \in S : j \in T
  <2> SUFFICES ASSUME NEW j \in 1..n, NotAfter(vec, j, i)
               PROVE  NotAfter(vec, j, k)
    OBVIOUS
  <2>1. /\ vec[j].start \in Nat /\ vec[i].start \in Nat /\ vec[k].start \in Nat
        /\ j \in Nat
    BY <1>1
  <2> QED
    BY <1>2, <2>1 DEF NotAfter
<1>4. k \in T /\ k \notin S
  <2>1. vec[i].start \in Nat /\ vec[k].start \in Nat
    BY <1>1
  <2> QED
    BY <1>2, <2>1 DEF NotAfter
<1>5. IsFiniteSet(T) /\ S \in SUBSET T /\ S # T
  BY <1>1, <1>3, <1>4, FS_Subset
<1>6. Place(vec, i) = Cardinality(S) /\ Place(vec, k) = Cardinality(T)
  BY <1>1 DEF Place
<1> HIDE DEF S, T
<1>7. /\ Cardinality(S) <= Cardinality(T) /\ Cardinality(S) # Cardinality(T)
      /\ Cardinality(S) \in Nat /\ Cardinality(T) \in Nat
  BY <1>5, FS_Subset, FS_CardinalityType
<1> QED
  BY <1>6, <1>7

PlacesOf(vec) == [i \in 1..Len(vec) |-> Place(vec, i)]
OrderOf(vec) ==
    [p \in 1..Len(vec) |-> CHOOSE i \in DOMAIN vec : Place(vec, i) = p]

LEMMA PlacesAreTaken ==
    ASSUME NEW vec \in Seq(Bond)
    PROVE  /\ \A i \in 1..Len(vec) : Place(vec, i) \in 1..Len(vec)
           /\ \A i, k \in 1..Len(vec) : Place(vec, i) = Place(vec, k) => i = k
           /\ \A p \in 1..Len(vec) : \E i \in 1..Len(vec) : Place(vec, i) = p
<1> DEFINE n == Len(vec)
           place == PlacesOf(vec)
<1>1. n \in Nat /\ DOMAIN vec = 1..n /\ IsFiniteSet(1..n)
      /\ \A j \in 1..n : vec[j].start \in Nat
  BY BondsInVec
<1>2. ASSUME NEW i \in 1..n
      PROVE  Place(vec, i) \in 1..n
  <2> DEFINE S == {j \in 1..n : NotAfter(vec, j, i)}
  <2>1. i \in S
    <3>1. i \in Nat
      BY <1>1
    <3> QED
      BY <3>1 DEF NotAfter
  <2>2. IsFiniteSet(S) /\ S \in SUBSET (1..n) /\ S # {}
    BY <1>1, <2>1, FS_Subset
  <2>3. Place(vec, i) = Cardinality(S)
    BY <1>1 DEF Place
  <2> HIDE DEF S
  <2>4. Cardinality(S) <= Cardinality(1..n) /\ Cardinality(1..n) = n
    <3>1. Cardinality(1..n) = n
      BY <1>1, FS_Interval
    <3>2. Cardinality(S) <= Cardinality(1..n)
      BY <1>1, <2>2, FS_Subset
    <3> QED
      BY <3>1, <3>2
  <2>5. Cardinality(S) \in Nat /\ Cardinality(S) # 0
    BY <2>2, FS_CardinalityType, FS_EmptySet
  <2> QED
    BY <1>1, <2>3, <2>4, <2>5
<1>3. ASSUME NEW i \in 1..n, NEW k \in 1..n, Place(vec, i) = Place(vec, k)
      PROVE  i = k
  <2> SUFFICES ASSUME i # k PROVE FALSE
    OBVIOUS
  <2>1. Place(vec, i) \in Int /\ Place(vec, k) \in Int
    BY <1>1, <1>2
  <2>2. NotAfter(vec, i, k) \/ NotAfter(vec, k, i)
    <3>1. /\ vec[i].start \in Nat /\ vec[k].start \in Nat /\ i \in Nat /\ k \in Nat
      BY <1>1
    <3> QED
      BY <3>1 DEF NotAfter
  <2>3. CASE NotAfter(vec, i, k)
    <3>1. Place(vec, i) < Place(vec, k)
      BY <2>3, PlacesDiffer
    <3> QED
      BY <1>3, <2>1, <3>1
  <2>4. CASE NotAfter(vec, k, i)
    <3>1. Place(vec, k) < Place(vec, i)
      BY <2>4, PlacesDiffer
    <3> QED
      BY <1>3, <2>1, <3>1
  <2> QED
    BY <2>2, <2>3, <2>4
<1> HIDE DEF n
<1>4. \A i \in 1..n : place[i] = Place(vec, i)
  BY DEF PlacesOf, n
<1>5. place \in Injection(1..n, 1..n)
  <2>1. place \in [1..n -> 1..n]
    BY <1>2 DEF PlacesOf, n
  <2> QED
    BY <1>3, <1>4, <2>1 DEF Injection, IsInjective
<1>6. place \in Surjection(1..n, 1..n)
  BY <1>1, <1>5, FS_Injection
<1>7. \A p \in 1..n : \E i \in 1..n : place[i] = p
  BY <1>6 DEF Surjection
<1> QED
  BY <1>2, <1>3, <1>4, <1>7 DEF n

LEMMA OrderIsBijection ==
    ASSUME NEW vec \in Seq(Bond)
    PROVE  OrderOf(vec) \in Bijection(1..Len(vec), 1..Len(vec))
<1> DEFINE n == Len(vec)
           order == OrderOf(vec)
<1>1. DOMAIN vec = 1..n
  BY BondsInVec
<1> HIDE DEF n
<1>2. \A p \in 1..n : order[p] \in 1..n /\ Place(vec, order[p]) = p
  <2> TAKE p \in 1..n
  <2>1. \E i \in 1..n : Place(vec, i) = p
    BY PlacesAreTaken DEF n
  <2>2. order[p] = CHOOSE i \in 1..n : Place(vec, i) = p
    BY <1>1 DEF OrderOf, n
  <2> QED
    BY <2>1, <2>2
<1>3. order \in [1..n -> 1..n]
  BY <1>2 DEF OrderOf, n
<1>4. \A p, q \in 1..n : order[p] = order[q] => p = q
  BY <1>2
<1>5. ASSUME NEW i \in 1..n PROVE \E p \in 1..n : order[p] = i
  <2> DEFINE p == Place(vec, i)
  <2>1. p \in 1..n
    BY PlacesAreTaken DEF n
  <2>2. Place(vec, order[p]) = p /\ order[p] \in 1..n
    BY <1>2, <2>1
  <2>3. order[p] = i
    BY <2>2, PlacesAreTaken DEF n
  <2> QED
    BY <2>1, <2>3
<1> QED
  BY <1>3, <1>4, <1>5 DEF Bijection, Injection, Surjection, IsInjective, n

\* The sorted list has the same bonds.
LEMMA SortedIsSame ==
    ASSUME NEW vec \in Seq(Bond)
    PROVE  /\ YoungestFirst(vec) \in Seq(Bond)
           /\ Len(YoungestFirst(vec)) = Len(vec)
           /\ BondSum(YoungestFirst(vec)) = BondSum(vec)
           /\ \A b : Copies(YoungestFirst(vec), b) = Copies(vec, b)
<1> DEFINE n == Len(vec)
           order == OrderOf(vec)
           sorted == YoungestFirst(vec)
<1>1. /\ n \in Nat /\ DOMAIN vec = 1..n /\ IsFiniteSet(1..n)
      /\ \A i \in 1..n : /\ vec[i] \in Bond
                         /\ AmountsIn(vec)[i] = vec[i].amount
                         /\ AmountsIn(vec)[i] \in Int
      /\ BondSum(vec) = SumFunctionOnSet(AmountsIn(vec), 1..n)
  BY BondsInVec
<1>2. order \in Bijection(1..n, 1..n)
  BY OrderIsBijection
<1>3. /\ order \in [1..n -> 1..n]
      /\ \A p, q \in 1..n : order[p] = order[q] => p = q
      /\ \A i \in 1..n : \E p \in 1..n : order[p] = i
  BY <1>2 DEF Bijection, Injection, Surjection, IsInjective
<1>4. \A p \in 1..n : sorted[p] = vec[order[p]]
  BY <1>1 DEF YoungestFirst, OrderOf
<1>5. sorted \in [1..n -> Bond]
  <2>1. \A p \in 1..n : sorted[p] \in Bond
    BY <1>1, <1>3, <1>4
  <2>2. sorted = [p \in 1..n |-> sorted[p]]
    BY <1>1 DEF YoungestFirst
  <2> HIDE DEF sorted, n, Bond
  <2> QED
    BY <2>1, <2>2
<1> HIDE DEF n, order, sorted
<1>6. sorted \in Seq(Bond) /\ Len(sorted) = n
  <2> HIDE DEF Bond
  <2>1. sorted \in Seq(Bond)
    BY <1>1, <1>5
  <2> QED
    BY <1>1, <1>5, <2>1, LenProperties
<1>7. BondSum(sorted) = BondSum(vec)
  <2>1. /\ \A p \in 1..n : AmountsIn(sorted)[p] = sorted[p].amount
        /\ BondSum(sorted) = SumFunctionOnSet(AmountsIn(sorted), 1..n)
    BY <1>6, BondsInVec
  <2>2. \A p \in 1..n : AmountsIn(sorted)[p] = AmountsIn(vec)[order[p]]
    <3> TAKE p \in 1..n
    <3>1. order[p] \in 1..n
      BY <1>3
    <3>2. AmountsIn(vec)[order[p]] = vec[order[p]].amount
      BY <1>1, <3>1
    <3> QED
      BY <1>4, <2>1, <3>2
  <2>3. SumFunctionOnSet(AmountsIn(sorted), 1..n) = SumFunctionOnSet(AmountsIn(vec), 1..n)
    BY <1>1, <1>2, <2>2, SumOfRenamed
  <2> QED
    BY <1>1, <2>1, <2>3
<1>8. ASSUME NEW b PROVE Copies(sorted, b) = Copies(vec, b)
  <2> DEFINE S == {p \in 1..n : sorted[p] = b}
             T == {i \in 1..n : vec[i] = b}
             part == [p \in S |-> order[p]]
  <2>1. IsFiniteSet(S)
    BY <1>1, FS_Subset
  <2>2. part \in Bijection(S, T)
    <3>1. part \in [S -> T]
      BY <1>3, <1>4
    <3>2. \A p, q \in S : part[p] = part[q] => p = q
      BY <1>3
    <3>3. \A i \in T : \E p \in S : part[p] = i
      <4> TAKE i \in T
      <4>1. PICK p \in 1..n : order[p] = i
        BY <1>3
      <4>2. p \in S
        BY <1>4, <4>1
      <4> QED
        BY <4>1, <4>2
    <3> HIDE DEF S, T, part
    <3> QED
      BY <3>1, <3>2, <3>3 DEF Bijection, Injection, Surjection, IsInjective
  <2>3. Copies(sorted, b) = Cardinality(S) /\ Copies(vec, b) = Cardinality(T)
    BY <1>1, <1>5 DEF Copies
  <2> HIDE DEF S, T, part
  <2>4. ExistsBijection(S, T)
    BY <2>2 DEF ExistsBijection
  <2>5. Cardinality(S) = Cardinality(T)
    BY <2>1, <2>4, FS_Bijection
  <2> QED
    BY <2>3, <2>5
<1> QED
  BY <1>6, <1>7, <1>8 DEF n, sorted

\* Payment out of the bonds of a staker.
LEMMA PaidFromBonds ==
    ASSUME NEW vec \in Seq(Bond), NEW amount \in Nat
    PROVE  LET paid == PayFromBonds(vec, amount)
           IN  /\ LeftAfter(paid, amount, BondSum(vec), Len(vec))
               /\ \A b \in Bond : ~Mature(b) => Copies(paid.kept, b) = Copies(vec, b)
<1> DEFINE sorted == YoungestFirst(vec)
<1>1. /\ sorted \in Seq(Bond) /\ Len(sorted) = Len(vec)
      /\ BondSum(sorted) = BondSum(vec)
      /\ \A b : Copies(sorted, b) = Copies(vec, b)
  BY SortedIsSame
<1>2. PayFromBonds(vec, amount)
        = FoldLeft(VisitBond, [left |-> amount, kept |-> << >>], sorted)
  BY DEF PayFromBonds
<1> HIDE DEF sorted
<1> QED
  BY <1>1, <1>2, PaymentLeaves

-----------------------------------------------------------------------------
(***************************************************************************)
(* Stakes: the Vec of a club and a staker, and what messages make of it.   *)
(***************************************************************************)
LEMMA StakeVecs ==
    /\ << >> \in StakeVec
    /\ \A s \in Stake : <<s>> \in StakeVec
    /\ \A vec \in StakeVec : vec # << >> => vec = <<vec[1]>> /\ vec[1] \in Stake
<1>1. << >> \in StakeVec
  BY EmptySeq DEF StakeVec
<1>2. ASSUME NEW s \in Stake PROVE <<s>> \in StakeVec
  <2> HIDE DEF Stake
  <2>1. <<s>> \in Seq(Stake) /\ Len(<<s>>) = 1
    OBVIOUS
  <2> QED
    BY <2>1 DEF StakeVec
<1>3. ASSUME NEW vec \in StakeVec, vec # << >>
      PROVE  vec = <<vec[1]>> /\ vec[1] \in Stake
  <2> HIDE DEF Stake
  <2>1. vec \in Seq(Stake) /\ Len(vec) = 1
    <3>1. vec \in Seq(Stake) /\ Len(vec) <= 1
      BY DEF StakeVec
    <3>2. Len(vec) \in Nat \ {0}
      BY <1>3, <3>1, EmptySeq
    <3> DEFINE length == Len(vec)
    <3>3. length \in Nat \ {0} /\ length <= 1
      BY <3>1, <3>2
    <3> HIDE DEF length
    <3>4. length = 1
      BY <3>3
    <3> QED
      BY <3>1, <3>4 DEF length
  <2>2. vec[1] \in Stake
    BY <2>1, ElementOfSeq
  <2>3. /\ <<vec[1]>> \in Seq(Stake) /\ Len(<<vec[1]>>) = 1
        /\ \A i \in 1..Len(vec) : vec[i] = <<vec[1]>>[i]
    BY <2>1, <2>2
  <2>4. vec = <<vec[1]>>
    BY <2>1, <2>3, SeqEqual
  <2> QED
    BY <2>2, <2>4
<1> QED
  BY <1>1, <1>2, <1>3

LEMMA StakeFields ==
    ASSUME NEW s \in Stake
    PROVE  /\ s.start \in Nat /\ s.staked \in Nat /\ s.reward \in Nat
           /\ s.auto \in BOOLEAN
           /\ s = [start |-> s.start, staked |-> s.staked,
                   reward |-> s.reward, auto |-> s.auto]
BY DEF Stake

LEMMA IncreasedTyped ==
    ASSUME now \in Nat, NEW vec \in StakeVec, NEW amount \in Nat, NEW auto \in BOOLEAN
    PROVE  /\ Increased(vec, amount, auto) \in StakeVec
           /\ Increased(vec, amount, auto) # << >>
<1>1. CASE vec = << >>
  <2> DEFINE s == [start |-> now, staked |-> amount, reward |-> 0, auto |-> auto]
  <2>1. Increased(vec, amount, auto) = <<s>> /\ s \in Stake
    BY <1>1 DEF Increased, Stake
  <2> HIDE DEF s
  <2>2. <<s>> # << >>
    OBVIOUS
  <2> QED
    BY <2>1, <2>2, StakeVecs
<1>2. CASE vec # << >>
  <2> DEFINE s == vec[1]
             folded == IF auto THEN s.reward ELSE 0
             t == [s EXCEPT !.staked = @ + amount + folded,
                            !.reward = @ - folded, !.auto = auto]
  <2>1. s \in Stake
    BY <1>2, StakeVecs
  <2>2. Increased(vec, amount, auto) = <<t>>
    BY <1>2 DEF Increased
  <2> HIDE DEF s
  <2>3. folded \in Nat /\ folded <= s.reward
    BY <2>1, StakeFields
  <2> HIDE DEF folded
  <2> DEFINE staked == s.staked + amount + folded
             rest == s.reward - folded
  <2>4. staked \in Nat /\ rest \in Nat
    BY <2>1, <2>3, StakeFields
  <2>5. t \in Stake
    <3>1. t = [s EXCEPT !.staked = staked, !.reward = rest, !.auto = auto]
      OBVIOUS
    <3> HIDE DEF t, staked, rest, folded
    <3> QED
      BY <2>1, <2>4, <3>1 DEF Stake
  <2> HIDE DEF t
  <2>6. <<t>> # << >>
    OBVIOUS
  <2> QED
    BY <2>2, <2>5, <2>6, StakeVecs
<1> QED
  BY <1>1, <1>2

StakeRow == [Users -> StakeVec]

LEMMA AssignTyped ==
    ASSUME now \in Nat, NEW row \in StakeRow, NEW e \in StakeAssignment
    PROVE  AssignOne(row, e) \in StakeRow
<1>1. e.staker \in Users /\ e.amount \in Nat /\ e.auto \in BOOLEAN
  BY DEF StakeAssignment
<1>2. row[e.staker] \in StakeVec
  BY <1>1 DEF StakeRow
<1>3. Increased(row[e.staker], e.amount, e.auto) \in StakeVec
  BY <1>1, <1>2, IncreasedTyped
<1> QED
  BY <1>1, <1>3 DEF AssignOne, StakeRow

AssignedFrom(c, base, list) ==
    /\ c[{}] = base
    /\ \A k \in 1..Len(list) : c[1..k] = AssignOne(c[1..(k - 1)], list[k])

LEMMA AssignmentUnfolds ==
    ASSUME now \in Nat, NEW list \in Seq(StakeAssignment), NEW base \in StakeRow
    PROVE  \E c : /\ FoldLeft(AssignOne, base, list) = c[1..Len(list)]
                  /\ AssignedFrom(c, base, list)
                  /\ \A k \in 0..Len(list) : c[1..k] \in StakeRow
<1> DEFINE n == Len(list)
           D == 1..n
           Folds(g) == g = [s \in SUBSET D |->
                              IF s = {} THEN base
                              ELSE LET i == Max(s) IN AssignOne(g[s \ {i}], list[i])]
           step == [x \in StakeRow \X D |-> AssignOne(x[1], list[x[2]])]
           c == CHOOSE g : Folds(g)
<1>1. n \in Nat /\ DOMAIN list = D /\ \A i \in D : list[i] \in StakeAssignment
  BY LenProperties, ElementOfSeq
<1>2. FoldLeft(AssignOne, base, list) = c[D]
  BY <1>1 DEF FoldLeft, MapThenFoldSet
<1> HIDE DEF c, n
<1>3. \A x \in StakeRow \X D : step[x] \in StakeRow
  <2> HIDE DEF StakeRow
  <2>1. \A x \in StakeRow \X D : x[1] \in StakeRow /\ list[x[2]] \in StakeAssignment
    BY <1>1
  <2> QED
    BY <2>1, AssignTyped
<1>4. PICK g : ResultsOf(g, StakeRow, base, step, D)
  <2> HIDE DEF step, StakeRow
  <2>1. base \in StakeRow /\ n \in Nat /\ \A x \in StakeRow \X (1..n) : step[x] \in StakeRow
    BY <1>1, <1>3
  <2> QED
    BY <2>1, ResultsExist
<1>5. ASSUME NEW s \in SUBSET D
      PROVE  g[s] = IF s = {} THEN base
                    ELSE LET i == Max(s) IN AssignOne(g[s \ {i}], list[i])
  <2>1. CASE s = {}
    BY <1>4, <2>1 DEF ResultsOf
  <2>2. CASE s # {}
    <3> DEFINE i == Max(s)
    <3>1. i \in D /\ g[s \ {i}] \in StakeRow /\ g[s] = step[<<g[s \ {i}], i>>]
      BY <1>4, <2>2 DEF ResultsOf
    <3> HIDE DEF i, D
    <3>2. g[s] = AssignOne(g[s \ {i}], list[i])
      BY <3>1
    <3> QED
      BY <2>2, <3>2 DEF i
  <2> QED
    BY <2>1, <2>2
<1>6. Folds(g)
  <2> DEFINE rhs(s) == IF s = {} THEN base
                       ELSE LET i == Max(s) IN AssignOne(g[s \ {i}], list[i])
  <2>1. \A s \in SUBSET D : g[s] = rhs(s)
    BY <1>5
  <2> HIDE DEF rhs
  <2>2. g = [s \in SUBSET D |-> rhs(s)]
    BY <1>4, <2>1 DEF ResultsOf
  <2> QED
    BY <2>2 DEF rhs
<1>7. Folds(c)
  BY <1>6 DEF c
<1>8. c[{}] = base
  BY <1>7
<1>9. ASSUME NEW k \in 1..n
      PROVE  c[1..k] = AssignOne(c[1..(k - 1)], list[k])
  <2>1. Max(1..k) = k /\ (1..k) \ {k} = 1..(k - 1)
    BY <1>1, LastIsMax
  <2>2. 1..k \in SUBSET D /\ 1..k # {}
    <3>1. k \in Nat /\ 1 <= k /\ k <= n
      BY <1>1
    <3>2. k \in 1..k /\ \A i \in 1..k : i \in 1..n
      BY <1>1, <3>1
    <3> QED
      BY <3>2
  <2> HIDE DEF D
  <2> QED
    BY <1>7, <2>1, <2>2
<1>10. \A k \in 0..n : c[1..k] \in StakeRow
  <2>1. ASSUME NEW k \in 1..n, c[1..(k - 1)] \in StakeRow
        PROVE  c[1..k] \in StakeRow
    <3> HIDE DEF StakeRow
    <3> QED
      BY <1>1, <1>9, <2>1, AssignTyped
  <2> HIDE DEF c, StakeRow
  <2> QED
    BY <1>1, <1>8, <2>1, PrefixesStayIn
<1> QED
  BY <1>2, <1>8, <1>9, <1>10 DEF AssignedFrom, n

-----------------------------------------------------------------------------
(***************************************************************************)
(* The clubs that were ever sold.                                          *)
(***************************************************************************)
LEMMA AddListedTyped ==
    ASSUME NEW found \in Seq(Clubs), NEW c \in Clubs
    PROVE  AddListed(found, c) \in Seq(Clubs)
<1> HIDE DEF Clubs
<1> QED
  BY AppendProperties DEF AddListed

ListedFrom(c, base, list) ==
    /\ c[{}] = base
    /\ \A k \in 1..Len(list) : c[1..k] = AddListed(c[1..(k - 1)], list[k])

LEMMA ListingUnfolds ==
    ASSUME NEW list \in Seq(Clubs), NEW base \in Seq(Clubs)
    PROVE  \E c : /\ FoldLeft(AddListed, base, list) = c[1..Len(list)]
                  /\ ListedFrom(c, base, list)
                  /\ \A k \in 0..Len(list) : c[1..k] \in Seq(Clubs)
<1> DEFINE n == Len(list)
           D == 1..n
           Folds(g) == g = [s \in SUBSET D |->
                              IF s = {} THEN base
                              ELSE LET i == Max(s) IN AddListed(g[s \ {i}], list[i])]
           step == [x \in Seq(Clubs) \X D |-> AddListed(x[1], list[x[2]])]
           c == CHOOSE g : Folds(g)
<1>1. n \in Nat /\ DOMAIN list = D /\ \A i \in D : list[i] \in Clubs
  BY LenProperties, ElementOfSeq
<1>2. FoldLeft(AddListed, base, list) = c[D]
  BY <1>1 DEF FoldLeft, MapThenFoldSet
<1> HIDE DEF c, n
<1>3. \A x \in Seq(Clubs) \X D : step[x] \in Seq(Clubs)
  <2> HIDE DEF Clubs
  <2>1. \A x \in Seq(Clubs) \X D : x[1] \in Seq(Clubs) /\ list[x[2]] \in Clubs
    BY <1>1
  <2> QED
    BY <2>1, AddListedTyped
<1>4. PICK g : ResultsOf(g, Seq(Clubs), base, step, D)
  <2> HIDE DEF step, Clubs
  <2>1. base \in Seq(Clubs) /\ n \in Nat /\ \A x \in Seq(Clubs) \X (1..n) : step[x] \in Seq(Clubs)
    BY <1>1, <1>3
  <2> QED
    BY <2>1, ResultsExist
<1>5. ASSUME NEW s \in SUBSET D
      PROVE  g[s] = IF s = {} THEN base
                    ELSE LET i == Max(s) IN AddListed(g[s \ {i}], list[i])
  <2>1. CASE s = {}
    BY <1>4, <2>1 DEF ResultsOf
  <2>2. CASE s # {}
    <3> DEFINE i == Max(s)
    <3>1. i \in D /\ g[s \ {i}] \in Seq(Clubs) /\ g[s] = step[<<g[s \ {i}], i>>]
      BY <1>4, <2>2 DEF ResultsOf
    <3> HIDE DEF i, D
    <3>2. g[s] = AddListed(g[s \ {i}], list[i])
      BY <3>1
    <3> QED
      BY <2>2, <3>2 DEF i
  <2> QED
    BY <2>1, <2>2
<1>6. Folds(g)
  <2> DEFINE rhs(s) == IF s = {} THEN base
                       ELSE LET i == Max(s) IN AddListed(g[s \ {i}], list[i])
  <2>1. \A s \in SUBSET D : g[s] = rhs(s)
    BY <1>5
  <2> HIDE DEF rhs
  <2>2. g = [s \in SUBSET D |-> rhs(s)]
    BY <1>4, <2>1 DEF ResultsOf
  <2> QED
    BY <2>2 DEF rhs
<1>7. Folds(c)
  BY <1>6 DEF c
<1>8. c[{}] = base
  BY <1>7
<1>9. ASSUME NEW k \in 1..n
      PROVE  c[1..k] = AddListed(c[1..(k - 1)], list[k])
  <2>1. Max(1..k) = k /\ (1..k) \ {k} = 1..(k - 1)
    BY <1>1, LastIsMax
  <2>2. 1..k \in SUBSET D /\ 1..k # {}
    <3>1. k \in Nat /\ 1 <= k /\ k <= n
      BY <1>1
    <3>2. k \in 1..k /\ \A i \in 1..k : i \in 1..n
      BY <1>1, <3>1
    <3> QED
      BY <3>2
  <2> HIDE DEF D
  <2> QED
    BY <1>7, <2>1, <2>2
<1>10. \A k \in 0..n : c[1..k] \in Seq(Clubs)
  <2>1. ASSUME NEW k \in 1..n, c[1..(k - 1)] \in Seq(Clubs)
        PROVE  c[1..k] \in Seq(Clubs)
    <3> HIDE DEF Clubs
    <3> QED
      BY <1>1, <1>9, <2>1, AddListedTyped
  <2> HIDE DEF c, Clubs
  <2> QED
    BY <1>1, <1>8, <2>1, PrefixesStayIn
<1> QED
  BY <1>2, <1>8, <1>9, <1>10 DEF ListedFrom, n

LEMMA ListedClubsTyped == ListedClubs \in Seq(Clubs)
<1>1. ClubOrder \in Seq(Clubs) /\ << >> \in Seq(Clubs)
  BY ConfigAssumption, EmptySeq
<1> HIDE DEF Clubs
<1>2. PICK c : /\ FoldLeft(AddListed, << >>, ClubOrder) = c[1..Len(ClubOrder)]
               /\ \A k \in 0..Len(ClubOrder) : c[1..k] \in Seq(Clubs)
  BY <1>1, ListingUnfolds
<1>3. Len(ClubOrder) \in 0..Len(ClubOrder)
  BY <1>1, LenProperties
<1> QED
  BY <1>2, <1>3 DEF ListedClubs

(***************************************************************************)
(* The ranking of the clubs.                                               *)
(***************************************************************************)
RankState ==
    {acc \in [maxIncrease : Int, maxTotal : Nat, winners : Seq(Clubs),
              clubs : Nat, stake : Nat] : Len(acc.winners) <= acc.clubs}

LEMMA RankTyped ==
    ASSUME NEW acc \in RankState, NEW club \in Clubs, NEW total \in Nat,
           NEW previous \in Nat
    PROVE  RankClub(acc, club, total, previous) \in RankState
<1> DEFINE increase == total - previous
           clubs == acc.clubs + 1
           stake == acc.stake + total
           one == <<club>>
           more == Append(acc.winners, club)
<1>1. /\ acc.maxIncrease \in Int /\ acc.maxTotal \in Nat /\ acc.winners \in Seq(Clubs)
      /\ acc.clubs \in Nat /\ acc.stake \in Nat /\ Len(acc.winners) <= acc.clubs
      /\ acc \in [maxIncrease : Int, maxTotal : Nat, winners : Seq(Clubs),
                   clubs : Nat, stake : Nat]
  BY DEF RankState
<1>2. clubs \in Nat /\ stake \in Nat /\ increase \in Int
  BY <1>1
<1>3. /\ one \in Seq(Clubs) /\ Len(one) = 1 /\ more \in Seq(Clubs)
      /\ Len(more) = Len(acc.winners) + 1 /\ Len(acc.winners) \in Nat
  <2> HIDE DEF Clubs
  <2> QED
    BY <1>1, AppendProperties, LenProperties
<1>4. Len(one) <= clubs /\ Len(more) <= clubs /\ Len(acc.winners) <= clubs
  BY <1>1, <1>3
<1> DEFINE counted == [acc EXCEPT !.clubs = clubs, !.stake = stake]
           first == [counted EXCEPT !.maxIncrease = increase, !.maxTotal = total,
                                    !.winners = one]
           joined == [counted EXCEPT !.maxTotal = total, !.winners = more]
<1>5. \/ RankClub(acc, club, total, previous) = first
      \/ RankClub(acc, club, total, previous) = joined
      \/ RankClub(acc, club, total, previous) = counted
  BY DEF RankClub
<1> HIDE DEF increase, clubs, stake, one, more
<1>6. /\ counted \in [maxIncrease : Int, maxTotal : Nat, winners : Seq(Clubs),
                      clubs : Nat, stake : Nat]
      /\ counted.clubs = clubs /\ counted.winners = acc.winners
  BY <1>1, <1>2
<1> HIDE DEF counted
<1>7. first \in RankState
  BY <1>2, <1>3, <1>4, <1>6 DEF RankState
<1>8. joined \in RankState
  BY <1>2, <1>3, <1>4, <1>6 DEF RankState
<1>9. counted \in RankState
  BY <1>2, <1>4, <1>6 DEF RankState
<1> QED
  BY <1>5, <1>7, <1>8, <1>9

LEMMA NoneRankedTyped == NoneRanked \in RankState
<1>1. << >> \in Seq(Clubs) /\ Len(<< >>) = 0
  BY EmptySeq
<1> QED
  BY <1>1, SupplyAssumption DEF NoneRanked, RankState

RankedFrom(c, list, total, previous) ==
    /\ c[{}] = NoneRanked
    /\ \A k \in 1..Len(list) :
          c[1..k] = RankClub(c[1..(k - 1)], list[k], total[list[k]], previous[list[k]])

LEMMA RankingUnfolds ==
    ASSUME NEW total \in [Clubs -> Nat], NEW previous \in [Clubs -> Nat],
           NEW list \in Seq(Clubs)
    PROVE  \E c : /\ RankedClubs(list, total, previous) = c[1..Len(list)]
                  /\ RankedFrom(c, list, total, previous)
                  /\ \A k \in 0..Len(list) : c[1..k] \in RankState
<1> DEFINE n == Len(list)
           D == 1..n
           Folds(g) == g = [s \in SUBSET D |->
                              IF s = {} THEN NoneRanked
                              ELSE LET i == Max(s) IN RankClub(g[s \ {i}], list[i], total[list[i]], previous[list[i]])]
           step == [x \in RankState \X D |-> RankClub(x[1], list[x[2]], total[list[x[2]]], previous[list[x[2]]])]
           c == CHOOSE g : Folds(g)
<1>1. n \in Nat /\ DOMAIN list = D /\ \A i \in D : list[i] \in Clubs
  BY LenProperties, ElementOfSeq
<1>2. RankedClubs(list, total, previous) = c[D]
  BY <1>1 DEF FoldLeft, MapThenFoldSet, RankedClubs
<1> HIDE DEF c, n
<1>3. \A x \in RankState \X D : step[x] \in RankState
  <2> HIDE DEF RankState
  <2>1. \A x \in RankState \X D : x[1] \in RankState /\ list[x[2]] \in Clubs
    BY <1>1
  <2> QED
    BY <2>1, RankTyped
<1>4. PICK g : ResultsOf(g, RankState, NoneRanked, step, D)
  <2> HIDE DEF step, RankState
  <2>1. NoneRanked \in RankState /\ n \in Nat /\ \A x \in RankState \X (1..n) : step[x] \in RankState
    BY <1>1, <1>3, NoneRankedTyped
  <2> QED
    BY <2>1, ResultsExist
<1>5. ASSUME NEW s \in SUBSET D
      PROVE  g[s] = IF s = {} THEN NoneRanked
                    ELSE LET i == Max(s) IN RankClub(g[s \ {i}], list[i], total[list[i]], previous[list[i]])
  <2>1. CASE s = {}
    BY <1>4, <2>1 DEF ResultsOf
  <2>2. CASE s # {}
    <3> DEFINE i == Max(s)
    <3>1. i \in D /\ g[s \ {i}] \in RankState /\ g[s] = step[<<g[s \ {i}], i>>]
      BY <1>4, <2>2 DEF ResultsOf
    <3> HIDE DEF i, D
    <3>2. g[s] = RankClub(g[s \ {i}], list[i], total[list[i]], previous[list[i]])
      BY <3>1
    <3> QED
      BY <2>2, <3>2 DEF i
  <2> QED
    BY <2>1, <2>2
<1>6. Folds(g)
  <2> DEFINE rhs(s) == IF s = {} THEN NoneRanked
                       ELSE LET i == Max(s) IN RankClub(g[s \ {i}], list[i], total[list[i]], previous[list[i]])
  <2>1. \A s \in SUBSET D : g[s] = rhs(s)
    BY <1>5
  <2> HIDE DEF rhs
  <2>2. g = [s \in SUBSET D |-> rhs(s)]
    BY <1>4, <2>1 DEF ResultsOf
  <2> QED
    BY <2>2 DEF rhs
<1>7. Folds(c)
  BY <1>6 DEF c
<1>8. c[{}] = NoneRanked
  BY <1>7
<1>9. ASSUME NEW k \in 1..n
      PROVE  c[1..k] = RankClub(c[1..(k - 1)], list[k], total[list[k]], previous[list[k]])
  <2>1. Max(1..k) = k /\ (1..k) \ {k} = 1..(k - 1)
    BY <1>1, LastIsMax
  <2>2. 1..k \in SUBSET D /\ 1..k # {}
    <3>1. k \in Nat /\ 1 <= k /\ k <= n
      BY <1>1
    <3>2. k \in 1..k /\ \A i \in 1..k : i \in 1..n
      BY <1>1, <3>1
    <3> QED
      BY <3>2
  <2> HIDE DEF D
  <2> QED
    BY <1>7, <2>1, <2>2
<1>10. \A k \in 0..n : c[1..k] \in RankState
  <2>1. ASSUME NEW k \in 1..n, c[1..(k - 1)] \in RankState
        PROVE  c[1..k] \in RankState
    <3>1. c[1..k] = RankClub(c[1..(k - 1)], list[k], total[list[k]], previous[list[k]])
      BY <1>9
    <3>2. list[k] \in Clubs
      BY <1>1
    <3>3. total[list[k]] \in Nat /\ previous[list[k]] \in Nat
      BY <3>2
    <3> HIDE DEF RankState
    <3> QED
      BY <2>1, <3>1, <3>2, <3>3, RankTyped
  <2> HIDE DEF c, RankState
  <2> QED
    BY <1>1, <1>8, <2>1, NoneRankedTyped, PrefixesStayIn
<1> QED
  BY <1>2, <1>8, <1>9, <1>10 DEF RankedFrom, n

LEMMA RankingTyped ==
    ASSUME NEW order \in Seq(Clubs), NEW total \in [Clubs -> Nat],
           NEW previous \in [Clubs -> Nat]
    PROVE  LET ranking == WinningClubs(order, total, previous)
           IN  ranking \in WinningClubDetails /\ LosingClubs(ranking) >= 0
<1> DEFINE ranked == RankedClubs(order, total, previous)
<1>1. ranked \in RankState
  <2>1. PICK c : /\ ranked = c[1..Len(order)]
                 /\ \A k \in 0..Len(order) : c[1..k] \in RankState
    BY RankingUnfolds
  <2>2. Len(order) \in 0..Len(order)
    BY LenProperties
  <2> QED
    BY <2>1, <2>2
<1>2. WinningClubs(order, total, previous) =
        [clubs |-> ranked.clubs, stake |-> ranked.stake,
         winnerStake |-> ranked.maxTotal, winners |-> ranked.winners]
  BY DEF WinningClubs
<1> HIDE DEF ranked
<1>3. /\ ranked.maxTotal \in Nat /\ ranked.winners \in Seq(Clubs)
      /\ ranked.clubs \in Nat /\ ranked.stake \in Nat
      /\ Len(ranked.winners) <= ranked.clubs /\ Len(ranked.winners) \in Nat
  BY <1>1, LenProperties DEF RankState
<1> QED
  BY <1>2, <1>3 DEF WinningClubDetails, LosingClubs

-----------------------------------------------------------------------------
(***************************************************************************)
(* A batch of rewards.                                                     *)
(***************************************************************************)
LEMMA QuotientOfNats ==
    ASSUME NEW a \in Nat, NEW b \in Nat
    PROVE  DivOrZero(a, b) \in Nat
<1>1. CASE b = 0
  BY <1>1 DEF DivOrZero
<1>2. CASE b # 0
  <2>1. a \div b \in Nat
    BY <1>2
  <2> QED
    BY <1>2, <2>1 DEF DivOrZero
<1> QED
  BY <1>1, <1>2

LEMMA ShareOfReward ==
    ASSUME reward \in Nat, NEW percent \in Nat
    PROVE  (reward * percent) \div 100 \in Nat
<1>1. reward * percent \in Nat
  BY ProductNat
<1> DEFINE part == reward * percent
<1> HIDE DEF part
<1>2. part \in Nat
  BY <1>1 DEF part
<1>3. part \div 100 \in Nat
  BY <1>2
<1> QED
  BY <1>3 DEF part

LEMMA RewardTyped ==
    ASSUME reward \in Nat, NEW c, NEW u, NEW staked \in Nat,
           NEW ranking \in WinningClubDetails, LosingClubs(ranking) >= 0
    PROVE  RewardFor(c, u, staked, ranking) \in Nat
<1>1. /\ ranking.stake \in Nat /\ ranking.winnerStake \in Nat
      /\ LosingClubs(ranking) \in Nat /\ Len(ranking.winners) \in Nat
  <2>1. /\ ranking.clubs \in Nat /\ ranking.stake \in Nat
        /\ ranking.winnerStake \in Nat /\ ranking.winners \in Seq(Clubs)
    BY DEF WinningClubDetails
  <2>2. Len(ranking.winners) \in Nat
    BY <2>1, LenProperties
  <2>3. LosingClubs(ranking) \in Int
    BY <2>1, <2>2 DEF LosingClubs
  <2> QED
    BY <2>1, <2>2, <2>3
<1>2. OwnerShare(c, ranking) \in Nat
  <2> DEFINE percent == IF ~Won(c, ranking) THEN 2
                        ELSE IF LosingClubs(ranking) > 0 THEN 1 ELSE 3
             sharers == IF Won(c, ranking) THEN Len(ranking.winners)
                        ELSE LosingClubs(ranking)
             part == (reward * percent) \div 100
  <2>1. OwnerShare(c, ranking) = DivOrZero(part, sharers)
    BY DEF OwnerShare
  <2>2. percent \in Nat /\ sharers \in Nat
    BY <1>1
  <2> HIDE DEF percent, sharers
  <2>3. part \in Nat
    BY <2>2, ShareOfReward
  <2> HIDE DEF part
  <2> QED
    BY <2>1, <2>2, <2>3, QuotientOfNats
<1>3. WinnersReward(ranking) \in Nat
  <2>1. (reward * 19) \div 100 \in Nat
    BY ShareOfReward
  <2> QED
    BY <1>1, <2>1, QuotientOfNats DEF WinnersReward
<1> DEFINE part == (reward * 78) \div 100
           whole == part * staked
           won == WinnersReward(ranking) * staked
           forAll == DivOrZero(whole, ranking.stake)
           forWinners == IF Won(c, ranking) THEN DivOrZero(won, ranking.winnerStake) ELSE 0
           forOwner == IF u = ownership[c].owner THEN OwnerShare(c, ranking) ELSE 0
<1>4. RewardFor(c, u, staked, ranking) = forAll + forWinners + forOwner
  BY DEF RewardFor
<1>5. part \in Nat
  BY ShareOfReward
<1> HIDE DEF part
<1>6. whole \in Nat /\ won \in Nat
  BY <1>3, <1>5, ProductNat
<1> HIDE DEF whole, won
<1>7. forAll \in Nat /\ DivOrZero(won, ranking.winnerStake) \in Nat
  BY <1>1, <1>6, QuotientOfNats
<1>8. forWinners \in Nat /\ forOwner \in Nat
  BY <1>2, <1>7
<1> HIDE DEF forAll, forWinners, forOwner
<1> QED
  BY <1>4, <1>7, <1>8

LEMMA NextStartTyped ==
    ASSUME now \in Nat, nextReward \in Nat
    PROVE  NextStart \in Nat
BY ConfigAssumption DEF NextStart

LEMMA CreditedTyped ==
    ASSUME now \in Nat, nextReward \in Nat, NEW s \in Stake, NEW gain \in Nat
    PROVE  Credited(s, gain) \in Stake
<1> DEFINE start == NextStart
           staked == s.staked + gain + s.reward
           pending == s.reward + gain
           begun == [s EXCEPT !.start = start]
           auto == [begun EXCEPT !.staked = staked, !.reward = 0]
           kept == [begun EXCEPT !.reward = pending]
<1>1. start \in Nat /\ staked \in Nat /\ pending \in Nat
  BY StakeFields, NextStartTyped
<1>2. Credited(s, gain) = auto \/ Credited(s, gain) = kept
  BY DEF Credited, Stake
<1> HIDE DEF start, staked, pending
<1>3. begun \in Stake
  BY <1>1 DEF Stake
<1> HIDE DEF begun
<1>4. auto \in Stake /\ kept \in Stake
  BY <1>1, <1>3 DEF Stake
<1> QED
  BY <1>2, <1>4

BatchState == [row : StakeRow, given : Nat, staked : Nat]

LEMMA CreditTyped ==
    ASSUME now \in Nat, nextReward \in Nat, reward \in Nat,
           NEW acc \in BatchState, NEW u \in Users, NEW c \in Clubs,
           NEW ranking \in WinningClubDetails, LosingClubs(ranking) >= 0
    PROVE  CreditStaker(acc, u, c, ranking) \in BatchState
<1>1. acc.row \in StakeRow /\ acc.given \in Nat /\ acc.staked \in Nat
      /\ acc.row[u] \in StakeVec
  BY DEF BatchState, StakeRow
<1>2. CASE acc.row[u] = << >>
  BY <1>2 DEF CreditStaker
<1>3. CASE acc.row[u] # << >>
  <2> DEFINE s == acc.row[u][1]
             gain == RewardFor(c, u, s.staked, ranking)
             vec == <<Credited(s, gain)>>
             more == AddedToTotal(s, gain)
             emptied == [acc.row EXCEPT ![u] = << >>]
             credited == [acc.row EXCEPT ![u] = vec]
  <2>1. s \in Stake
    BY <1>1, <1>3, StakeVecs
  <2>2. gain \in Nat
    BY <2>1, StakeFields, RewardTyped
  <2>3. vec \in StakeVec /\ << >> \in StakeVec
    BY <2>1, <2>2, CreditedTyped, StakeVecs
  <2>4. more \in Nat
    BY <2>2 DEF AddedToTotal
  <2>5. \/ CreditStaker(acc, u, c, ranking) = [acc EXCEPT !.row = emptied]
        \/ CreditStaker(acc, u, c, ranking) =
             [row |-> credited, given |-> acc.given + gain, staked |-> acc.staked + more]
    BY <1>1, <1>3 DEF CreditStaker, BatchState
  <2> HIDE DEF vec, gain, more
  <2>6. emptied \in StakeRow /\ credited \in StakeRow
    BY <1>1, <2>3 DEF StakeRow
  <2>7. acc.given + gain \in Nat /\ acc.staked + more \in Nat
    BY <1>1, <2>2, <2>4
  <2> HIDE DEF emptied, credited, StakeRow
  <2> QED
    BY <1>1, <2>5, <2>6, <2>7 DEF BatchState
<1> QED
  BY <1>2, <1>3

NoneCredited(d) == [row |-> stakes[d], given |-> 0, staked |-> 0]

LEMMA NothingCredited ==
    ASSUME NEW d, stakes[d] \in StakeRow
    PROVE  NoneCredited(d) \in BatchState
BY DEF NoneCredited, BatchState

CreditedFrom(c, list, d, ranking) ==
    /\ c[{}] = NoneCredited(d)
    /\ \A k \in 1..Len(list) :
          c[1..k] = CreditStaker(c[1..(k - 1)], list[k], d, ranking)

LEMMA CreditingUnfolds ==
    ASSUME now \in Nat, nextReward \in Nat, reward \in Nat,
           NEW d \in Clubs, stakes[d] \in StakeRow,
           NEW ranking \in WinningClubDetails, LosingClubs(ranking) >= 0,
           NEW list \in Seq(Users)
    PROVE  \E c : /\ DistributeBatch(list, d, ranking) = c[1..Len(list)]
                  /\ CreditedFrom(c, list, d, ranking)
                  /\ \A k \in 0..Len(list) : c[1..k] \in BatchState
<1> DEFINE n == Len(list)
           D == 1..n
           Folds(g) == g = [s \in SUBSET D |->
                              IF s = {} THEN NoneCredited(d)
                              ELSE LET i == Max(s) IN CreditStaker(g[s \ {i}], list[i], d, ranking)]
           step == [x \in BatchState \X D |-> CreditStaker(x[1], list[x[2]], d, ranking)]
           c == CHOOSE g : Folds(g)
<1>1. n \in Nat /\ DOMAIN list = D /\ \A i \in D : list[i] \in Users
  BY LenProperties, ElementOfSeq
<1>2. DistributeBatch(list, d, ranking) = c[D]
  BY <1>1 DEF FoldLeft, MapThenFoldSet, DistributeBatch, NoneCredited
<1> HIDE DEF c, n
<1>3. \A x \in BatchState \X D : step[x] \in BatchState
  <2> HIDE DEF BatchState
  <2>1. \A x \in BatchState \X D : x[1] \in BatchState /\ list[x[2]] \in Users
    BY <1>1
  <2> QED
    BY <2>1, CreditTyped
<1>4. PICK g : ResultsOf(g, BatchState, NoneCredited(d), step, D)
  <2> HIDE DEF step, BatchState
  <2>1. NoneCredited(d) \in BatchState /\ n \in Nat /\ \A x \in BatchState \X (1..n) : step[x] \in BatchState
    BY <1>1, <1>3, NothingCredited
  <2> QED
    BY <2>1, ResultsExist
<1>5. ASSUME NEW s \in SUBSET D
      PROVE  g[s] = IF s = {} THEN NoneCredited(d)
                    ELSE LET i == Max(s) IN CreditStaker(g[s \ {i}], list[i], d, ranking)
  <2>1. CASE s = {}
    BY <1>4, <2>1 DEF ResultsOf
  <2>2. CASE s # {}
    <3> DEFINE i == Max(s)
    <3>1. i \in D /\ g[s \ {i}] \in BatchState /\ g[s] = step[<<g[s \ {i}], i>>]
      BY <1>4, <2>2 DEF ResultsOf
    <3> HIDE DEF i, D
    <3>2. g[s] = CreditStaker(g[s \ {i}], list[i], d, ranking)
      BY <3>1
    <3> QED
      BY <2>2, <3>2 DEF i
  <2> QED
    BY <2>1, <2>2
<1>6. Folds(g)
  <2> DEFINE rhs(s) == IF s = {} THEN NoneCredited(d)
                       ELSE LET i == Max(s) IN CreditStaker(g[s \ {i}], list[i], d, ranking)
  <2>1. \A s \in SUBSET D : g[s] = rhs(s)
    BY <1>5
  <2> HIDE DEF rhs
  <2>2. g = [s \in SUBSET D |-> rhs(s)]
    BY <1>4, <2>1 DEF ResultsOf
  <2> QED
    BY <2>2 DEF rhs
<1>7. Folds(c)
  BY <1>6 DEF c
<1>8. c[{}] = NoneCredited(d)
  BY <1>7
<1>9. ASSUME NEW k \in 1..n
      PROVE  c[1..k] = CreditStaker(c[1..(k - 1)], list[k], d, ranking)
  <2>1. Max(1..k) = k /\ (1..k) \ {k} = 1..(k - 1)
    BY <1>1, LastIsMax
  <2>2. 1..k \in SUBSET D /\ 1..k # {}
    <3>1. k \in Nat /\ 1 <= k /\ k <= n
      BY <1>1
    <3>2. k \in 1..k /\ \A i \in 1..k : i \in 1..n
      BY <1>1, <3>1
    <3> QED
      BY <3>2
  <2> HIDE DEF D
  <2> QED
    BY <1>7, <2>1, <2>2
<1>10. \A k \in 0..n : c[1..k] \in BatchState
  <2>1. ASSUME NEW k \in 1..n, c[1..(k - 1)] \in BatchState
        PROVE  c[1..k] \in BatchState
    <3>1. c[1..k] = CreditStaker(c[1..(k - 1)], list[k], d, ranking)
      BY <1>9
    <3>2. list[k] \in Users
      BY <1>1
    <3> HIDE DEF BatchState
    <3> QED
      BY <2>1, <3>1, <3>2, CreditTyped
  <2> HIDE DEF c, BatchState
  <2> QED
    BY <1>1, <1>8, <2>1, NothingCredited, PrefixesStayIn
<1> QED
  BY <1>2, <1>8, <1>9, <1>10 DEF CreditedFrom, n

LEMMA BatchTyped ==
    ASSUME now \in Nat, nextReward \in Nat, reward \in Nat,
           NEW d \in Clubs, stakes[d] \in StakeRow,
           NEW ranking \in WinningClubDetails, LosingClubs(ranking) >= 0,
           NEW list \in Seq(Users)
    PROVE  DistributeBatch(list, d, ranking) \in BatchState
<1>1. PICK c : /\ DistributeBatch(list, d, ranking) = c[1..Len(list)]
               /\ \A k \in 0..Len(list) : c[1..k] \in BatchState
  BY CreditingUnfolds
<1>2. Len(list) \in 0..Len(list)
  BY LenProperties
<1> QED
  BY <1>1, <1>2

-----------------------------------------------------------------------------
(***************************************************************************)
(* Every message keeps the types of the records.                           *)
(***************************************************************************)
LEMMA PayTyped ==
    ASSUME fury \in [Wallets -> Nat], NEW from \in Wallets, NEW to \in Wallets,
           NEW amount \in Nat, Pay(from, to, amount)
    PROVE  fury' \in [Wallets -> Nat]
<1>1. fury[from] \in Nat /\ fury[from] >= amount
  BY DEF Pay
<1>2. fury[from] - amount \in Nat /\ fury[from] - amount + amount \in Nat
      /\ fury[to] + amount \in Nat
  BY <1>1
<1>3. fury' = [fury EXCEPT ![from] = @ - amount, ![to] = @ + amount]
  BY DEF Pay
<1>4. fury' = [w \in Wallets |-> fury'[w]]
  BY <1>3
<1>5. \A w \in Wallets : fury'[w] \in Nat
  BY <1>2, <1>3
<1> QED
  BY <1>4, <1>5

\* A row of stakes of a club, and one stake in it.
LEMMA StakesTyped ==
    ASSUME TypeOK, NEW c \in Clubs, NEW u \in Users, NEW vec \in StakeVec
    PROVE  [stakes EXCEPT ![c][u] = vec] \in [Clubs -> [Users -> StakeVec]]
BY DEF TypeOK

LEMMA TotalTyped ==
    ASSUME TypeOK, NEW c \in Clubs, NEW total \in Nat
    PROVE  WithTotal(c, total) \in [Clubs -> Ownership]
<1> DEFINE record == [ownership[c] EXCEPT !.total = total]
<1>1. ownership \in [Clubs -> Ownership] /\ ownership[c] \in Ownership
  BY DEF TypeOK
<1>2. record \in Ownership
  BY <1>1 DEF Ownership
<1>3. WithTotal(c, total) = [ownership EXCEPT ![c] = record]
  BY DEF WithTotal
<1> HIDE DEF record
<1> QED
  BY <1>1, <1>2, <1>3

LEMMA TotalIsNat ==
    ASSUME TypeOK, NEW c \in Clubs
    PROVE  ownership[c].total \in Nat /\ ownership[c].reward \in Nat
BY DEF TypeOK, Ownership

LEMMA TakeOverTyped ==
    ASSUME TypeOK, NEW u \in Users, NEW c \in Clubs, NEW seller \in Users \cup {NoUser},
           NEW auto \in BOOLEAN, NEW price \in Nat, TakeOver(u, c, seller, auto, price),
           fury' \in [Wallets -> Nat]
    PROVE  TypeOK'
<1>0. now \in Nat /\ ownership \in [Clubs -> Ownership] /\ prevOwner \in [Users -> Nat]
      /\ ownership[c].total \in Nat /\ ownership[c].reward \in Nat
  BY TotalIsNat DEF TypeOK
<1>1. ownership' \in [Clubs -> Ownership]
  <2> DEFINE record == [owner |-> u, start |-> now, released |-> FALSE, price |-> price,
                        reward |-> CLUB_BUYING_REWARD_AMOUNT, total |-> ownership[c].total]
  <2>1. record \in Ownership
    BY <1>0 DEF Ownership, CLUB_BUYING_REWARD_AMOUNT
  <2>2. ownership' = [ownership EXCEPT ![c] = record]
    BY <1>0 DEF TakeOver
  <2> HIDE DEF record
  <2> QED
    BY <1>0, <2>1, <2>2
<1>2. prevOwner' \in [Users -> Nat]
  <2>1. CASE seller \in Users
    <3> DEFINE more == prevOwner[seller] + ownership[c].reward
    <3>1. more \in Nat
      BY <1>0, <2>1
    <3>2. prevOwner' = prevOwner \/ prevOwner' = [prevOwner EXCEPT ![seller] = more]
      BY DEF TakeOver
    <3> HIDE DEF more
    <3> QED
      BY <1>0, <3>1, <3>2
  <2>2. CASE seller \notin Users
    BY <1>0, <2>2 DEF TakeOver
  <2> QED
    BY <2>1, <2>2
<1>3. stakes' \in [Clubs -> [Users -> StakeVec]]
  <2>1. CASE HasStake(c, u)
    BY <2>1 DEF TakeOver, TypeOK
  <2>2. CASE ~HasStake(c, u)
    <3> DEFINE vec == Increased(stakes[c][u], 0, auto)
    <3>1. stakes[c][u] \in StakeVec
      BY DEF TypeOK
    <3>2. vec \in StakeVec
      BY <1>0, <3>1, IncreasedTyped
    <3>3. stakes' = [stakes EXCEPT ![c][u] = vec]
      BY <2>2 DEF TakeOver
    <3> HIDE DEF vec
    <3> QED
      BY <3>2, <3>3, StakesTyped
  <2> QED
    BY <2>1, <2>2
<1>4. UNCHANGED <<now, bonds, reward, given, nextReward, snapshot, winning>>
  BY DEF TakeOver, rewardVars
<1>5. LosingClubs(winning)' = LosingClubs(winning)
  BY <1>4 DEF LosingClubs
<1> QED
  BY <1>1, <1>2, <1>3, <1>4, <1>5 DEF TypeOK

LEMMA ReleaseTyped ==
    ASSUME TypeOK, NEW u \in Users, NEW c \in Clubs, ReleaseClub(u, c)
    PROVE  TypeOK'
<1>0. now \in Nat /\ ownership \in [Clubs -> Ownership] /\ ownership[c] \in Ownership
  BY DEF TypeOK
<1>1. ownership' \in [Clubs -> Ownership]
  <2> DEFINE record == [ownership[c] EXCEPT !.start = now, !.released = TRUE]
  <2>1. record \in Ownership
    BY <1>0 DEF Ownership
  <2>2. ownership' = [ownership EXCEPT ![c] = record]
    BY <1>0 DEF ReleaseClub
  <2> HIDE DEF record
  <2> QED
    BY <1>0, <2>1, <2>2
<1>2. UNCHANGED <<now, prevOwner, stakes, bonds, reward, given, nextReward, snapshot,
                  winning, fury>>
  BY DEF ReleaseClub, stakeVars, rewardVars
<1>3. LosingClubs(winning)' = LosingClubs(winning)
  BY <1>2 DEF LosingClubs
<1> QED
  BY <1>1, <1>2, <1>3 DEF TypeOK

LEMMA StakingTyped ==
    ASSUME TypeOK, NEW u \in Users, NEW c \in Clubs, NEW amount \in Nat,
           NEW auto \in BOOLEAN, StakeOnAClub(u, c, amount, auto)
    PROVE  TypeOK'
<1>0. now \in Nat /\ ownership[c].total \in Nat /\ stakes[c][u] \in StakeVec
  BY TotalIsNat DEF TypeOK
<1>1. stakes' \in [Clubs -> [Users -> StakeVec]]
  <2> DEFINE vec == Increased(stakes[c][u], amount, auto)
  <2>1. vec \in StakeVec
    BY <1>0, IncreasedTyped
  <2>2. stakes' = [stakes EXCEPT ![c][u] = vec]
    BY DEF StakeOnAClub
  <2> HIDE DEF vec
  <2> QED
    BY <2>1, <2>2, StakesTyped
<1>2. ownership' \in [Clubs -> Ownership]
  <2>1. ownership[c].total + amount \in Nat
    BY <1>0
  <2> QED
    BY <2>1, TotalTyped DEF StakeOnAClub
<1>3. fury' \in [Wallets -> Nat]
  <2>1. fury \in [Wallets -> Nat] /\ u \in Wallets /\ "contract" \in Wallets
    BY DEF TypeOK, Wallets
  <2> QED
    BY <2>1, PayTyped DEF StakeOnAClub
<1>4. UNCHANGED <<now, prevOwner, bonds, reward, given, nextReward, snapshot, winning>>
  BY DEF StakeOnAClub, rewardVars
<1>5. LosingClubs(winning)' = LosingClubs(winning)
  BY <1>4 DEF LosingClubs
<1> QED
  BY <1>1, <1>2, <1>3, <1>4, <1>5 DEF TypeOK

LEMMA AssignedTyped ==
    ASSUME now \in Nat, NEW row \in StakeRow, NEW list \in Seq(StakeAssignment)
    PROVE  FoldLeft(AssignOne, row, list) \in StakeRow
<1>1. PICK c : /\ FoldLeft(AssignOne, row, list) = c[1..Len(list)]
               /\ \A k \in 0..Len(list) : c[1..k] \in StakeRow
  BY AssignmentUnfolds
<1>2. Len(list) \in 0..Len(list)
  BY LenProperties
<1> QED
  BY <1>1, <1>2

AmountAssigned(list) == SumFunction([i \in DOMAIN list |-> list[i].amount])

LEMMA AssignedAmounts ==
    ASSUME NEW list \in Seq(StakeAssignment)
    PROVE  AmountAssigned(list) \in Nat
<1> DEFINE n == Len(list)
           f == [i \in 1..n |-> list[i].amount]
<1>1. n \in Nat /\ DOMAIN list = 1..n /\ IsFiniteSet(1..n)
      /\ \A i \in 1..n : list[i] \in StakeAssignment
  BY LenProperties, ElementOfSeq, FS_Interval
<1>2. \A i \in 1..n : f[i] \in Nat
  BY <1>1 DEF StakeAssignment
<1>3. AmountAssigned(list) = SumFunctionOnSet(f, 1..n)
  BY <1>1 DEF AmountAssigned, SumFunction
<1> HIDE DEF f, n
<1> QED
  BY <1>1, <1>2, <1>3, SumIsNatural

LEMMA AssigningTyped ==
    ASSUME TypeOK, NEW c \in Clubs, NEW list \in Seq(StakeAssignment),
           AssignStakesToAClub(list, c)
    PROVE  TypeOK'
<1> DEFINE amount == AmountAssigned(list)
           row == FoldLeft(AssignOne, stakes[c], list)
<1>0. now \in Nat /\ ownership[c].total \in Nat /\ stakes[c] \in StakeRow
      /\ stakes \in [Clubs -> StakeRow]
  BY TotalIsNat DEF TypeOK, StakeRow
<1>1. /\ stakes' = [stakes EXCEPT ![c] = row]
      /\ ownership' = WithTotal(c, ownership[c].total + amount)
      /\ Pay("admin", "contract", amount)
      /\ UNCHANGED <<now, prevOwner, bonds, reward, given, nextReward, snapshot, winning>>
  BY DEF AssignStakesToAClub, AmountAssigned, rewardVars
<1>2. row \in StakeRow
  BY <1>0, AssignedTyped
<1>3. amount \in Nat
  BY AssignedAmounts
<1> HIDE DEF amount, row
<1>4. stakes' \in [Clubs -> [Users -> StakeVec]]
  <2>1. stakes' \in [Clubs -> StakeRow]
    BY <1>0, <1>1, <1>2
  <2> QED
    BY <2>1 DEF StakeRow
<1>5. ownership' \in [Clubs -> Ownership]
  <2>1. ownership[c].total + amount \in Nat
    BY <1>0, <1>3
  <2> QED
    BY <1>1, <2>1, TotalTyped
<1>6. fury' \in [Wallets -> Nat]
  <2>1. fury \in [Wallets -> Nat] /\ "admin" \in Wallets /\ "contract" \in Wallets
    BY DEF TypeOK, Wallets
  <2> QED
    BY <1>1, <1>3, <2>1, PayTyped
<1>7. LosingClubs(winning)' = LosingClubs(winning)
  BY <1>1 DEF LosingClubs
<1> QED
  BY <1>1, <1>4, <1>5, <1>6, <1>7 DEF TypeOK

\* What bonding leaves of a stake.
Lowered(s, amount) == [s EXCEPT !.staked = @ - amount]

LEMMA LoweredTyped ==
    ASSUME NEW s \in Stake, NEW amount \in Nat, s.staked >= amount
    PROVE  /\ Lowered(s, amount) \in Stake
           /\ Lowered(s, amount).start = s.start
           /\ Lowered(s, amount).staked = s.staked - amount
           /\ Lowered(s, amount).reward = s.reward
           /\ Lowered(s, amount).auto = s.auto
<1> DEFINE rest == s.staked - amount
<1>1. rest \in Nat
  BY StakeFields
<1>2. Lowered(s, amount) = [s EXCEPT !.staked = rest]
  BY DEF Lowered
<1> HIDE DEF rest
<1>3. Lowered(s, amount) \in Stake /\ Lowered(s, amount).staked = rest
      /\ Lowered(s, amount).start = s.start /\ Lowered(s, amount).reward = s.reward
      /\ Lowered(s, amount).auto = s.auto
  BY <1>1, <1>2 DEF Stake
<1> QED
  BY <1>3 DEF rest

LEMMA BondStakeRecords ==
    ASSUME TypeOK, NEW u \in Users, NEW c \in Clubs, NEW amount \in Nat,
           BondStake(u, c, amount)
    PROVE  LET s == stakes[c][u][1]
           IN  /\ s \in Stake /\ s.staked >= amount /\ stakes[c][u] = <<s>>
               /\ stakes' = [stakes EXCEPT ![c][u] = <<Lowered(s, amount)>>]
<1> DEFINE vec == stakes[c][u]
           s == vec[1]
           low == Lowered(s, amount)
<1>1. vec \in StakeVec /\ vec # << >>
  BY DEF TypeOK, BondStake, Withdrawable, HasStake
<1>2. s \in Stake /\ vec = <<s>>
  BY <1>1, StakeVecs
<1>3. s.staked >= amount
  BY DEF BondStake
<1>4. [vec EXCEPT ![1].staked = @ - amount] = [vec EXCEPT ![1] = low]
  BY DEF Lowered
<1>5. stakes' = [stakes EXCEPT ![c][u] = [vec EXCEPT ![1].staked = @ - amount]]
  BY DEF BondStake, TypeOK
<1> HIDE DEF low, s
<1>6. [<<s>> EXCEPT ![1] = low] = <<low>>
  OBVIOUS
<1>7. [vec EXCEPT ![1] = low] = <<low>>
  BY <1>2, <1>6
<1>8. stakes' = [stakes EXCEPT ![c][u] = <<low>>]
  BY <1>4, <1>5, <1>7
<1> QED
  BY <1>2, <1>3, <1>8 DEF low, s

LEMMA BondsTyped ==
    ASSUME TypeOK, NEW c \in Clubs, NEW u \in Users, NEW vec \in Seq(Bond)
    PROVE  [bonds EXCEPT ![c][u] = vec] \in [Clubs -> [Users -> Seq(Bond)]]
<1> HIDE DEF Bond
<1> QED
  BY DEF TypeOK

LEMMA BondingTyped ==
    ASSUME TypeOK, NEW u \in Users, NEW c \in Clubs, NEW amount \in Nat,
           BondStake(u, c, amount)
    PROVE  TypeOK'
<1>0. now \in Nat /\ ownership[c].total \in Nat /\ bonds[c][u] \in Seq(Bond)
  BY TotalIsNat DEF TypeOK
<1>1. stakes' \in [Clubs -> [Users -> StakeVec]]
  <2> DEFINE vec == <<Lowered(stakes[c][u][1], amount)>>
  <2>1. vec \in StakeVec /\ stakes' = [stakes EXCEPT ![c][u] = vec]
    BY BondStakeRecords, LoweredTyped, StakeVecs
  <2> HIDE DEF vec
  <2> QED
    BY <2>1, StakesTyped
<1>2. ownership' \in [Clubs -> Ownership]
  <2>1. ownership[c].total - amount \in Nat
    BY <1>0 DEF BondStake
  <2> QED
    BY <2>1, TotalTyped DEF BondStake
<1>3. bonds' \in [Clubs -> [Users -> Seq(Bond)]]
  <2> DEFINE vec == Bonded(bonds[c][u], amount)
  <2>1. [start |-> now, amount |-> amount] \in Bond
    BY <1>0 DEF Bond
  <2>2. vec \in Seq(Bond)
    BY <1>0, <2>1, BondsAppend DEF Bonded
  <2>3. bonds' = [bonds EXCEPT ![c][u] = vec]
    BY DEF BondStake
  <2> HIDE DEF vec
  <2> QED
    BY <2>2, <2>3, BondsTyped
<1>4. UNCHANGED <<now, prevOwner, reward, given, nextReward, snapshot, winning, fury>>
  BY DEF BondStake, rewardVars
<1>5. LosingClubs(winning)' = LosingClubs(winning)
  BY <1>4 DEF LosingClubs
<1> QED
  BY <1>1, <1>2, <1>3, <1>4, <1>5 DEF TypeOK

LEMMA PayOutTyped ==
    ASSUME TypeOK, NEW u \in Users, NEW amount \in Nat, PayOut(u, amount)
    PROVE  fury' \in [Wallets -> Nat]
<1>1. fury \in [Wallets -> Nat] /\ u \in Wallets /\ "contract" \in Wallets
  BY DEF TypeOK, Wallets
<1> QED
  BY <1>1, PayTyped DEF PayOut

LEMMA WithdrawalTyped ==
    ASSUME TypeOK, NEW u \in Users, NEW c \in Clubs, NEW amount \in Nat,
           WithdrawMatured(u, c, amount)
    PROVE  TypeOK'
<1> DEFINE kept == PayFromBonds(bonds[c][u], amount).kept
<1>1. bonds[c][u] \in Seq(Bond)
  BY DEF TypeOK
<1>2. kept \in Seq(Bond)
  BY <1>1, PaidFromBonds DEF LeftAfter, Payment
<1>3. bonds' = [bonds EXCEPT ![c][u] = kept]
  BY DEF WithdrawMatured
<1> HIDE DEF kept
<1>4. bonds' \in [Clubs -> [Users -> Seq(Bond)]]
  BY <1>2, <1>3, BondsTyped
<1>5. fury' \in [Wallets -> Nat]
  BY PayOutTyped DEF WithdrawMatured
<1>6. UNCHANGED <<now, ownership, prevOwner, stakes, reward, given, nextReward,
                  snapshot, winning>>
  BY DEF WithdrawMatured, clubVars, rewardVars
<1>7. LosingClubs(winning)' = LosingClubs(winning)
  BY <1>6 DEF LosingClubs
<1> QED
  BY <1>4, <1>5, <1>6, <1>7 DEF TypeOK

LEMMA ClaimTyped ==
    ASSUME TypeOK, NEW u \in Users, NEW c \in Clubs, ClaimStakerRewards(u, c)
    PROVE  TypeOK'
<1>1. PendingReward(c, u) \in Nat
  <2>1. stakes[c][u] \in StakeVec /\ stakes[c][u] # << >>
    BY DEF TypeOK, ClaimStakerRewards, HasStake
  <2>2. stakes[c][u][1] \in Stake
    BY <2>1, StakeVecs
  <2> QED
    BY <2>1, <2>2, StakeFields DEF PendingReward, HasStake
<1>2. fury' \in [Wallets -> Nat]
  BY <1>1, PayOutTyped DEF ClaimStakerRewards
<1>3. UNCHANGED <<now, ownership, prevOwner, stakes, bonds, reward, given, nextReward,
                  snapshot, winning>>
  BY DEF ClaimStakerRewards, clubVars, stakeVars, rewardVars
<1>4. LosingClubs(winning)' = LosingClubs(winning)
  BY <1>3 DEF LosingClubs
<1> QED
  BY <1>2, <1>3, <1>4 DEF TypeOK

LEMMA FundingTyped ==
    ASSUME TypeOK, NEW amount \in Nat, IncreaseRewardAmount(amount)
    PROVE  TypeOK'
<1>1. fury' \in [Wallets -> Nat]
  <2>1. fury \in [Wallets -> Nat] /\ "admin" \in Wallets /\ "contract" \in Wallets
    BY DEF TypeOK, Wallets
  <2> QED
    BY <2>1, PayTyped DEF IncreaseRewardAmount
<1>2. reward' \in Nat /\ given' \in Nat
  BY DEF IncreaseRewardAmount, TypeOK
<1>3. UNCHANGED <<now, ownership, prevOwner, stakes, bonds, nextReward, snapshot, winning>>
  BY DEF IncreaseRewardAmount, clubVars, stakeVars
<1>4. LosingClubs(winning)' = LosingClubs(winning)
  BY <1>3 DEF LosingClubs
<1> QED
  BY <1>1, <1>2, <1>3, <1>4 DEF TypeOK

LEMMA RankingOfTyped ==
    ASSUME TypeOK, NEW first
    PROVE  /\ RankingOf(first) \in WinningClubDetails
           /\ LosingClubs(RankingOf(first)) >= 0
<1> DEFINE total == [c \in Clubs |-> ownership[c].total]
<1>1. total \in [Clubs -> Nat] /\ snapshot \in [Clubs -> Nat]
  BY TotalIsNat DEF TypeOK
<1>2. Ranking = WinningClubs(ListedClubs, total, snapshot)
  BY DEF Ranking
<1> HIDE DEF total, Clubs
<1>3. Ranking \in WinningClubDetails /\ LosingClubs(Ranking) >= 0
  BY <1>1, <1>2, ListedClubsTyped, RankingTyped
<1> QED
  BY <1>3 DEF RankingOf, TypeOK

LEMMA DistributionTyped ==
    ASSUME TypeOK, NEW c \in Clubs, NEW list \in Seq(Users),
           NEW first \in BOOLEAN, NEW last \in BOOLEAN,
           CalculateAndDistributeRewards(list, c, first, last)
    PROVE  TypeOK'
<1> DEFINE ranking == RankingOf(first)
           batch == DistributeBatch(list, c, ranking)
           allGiven == given + batch.given
<1>0. /\ now \in Nat /\ nextReward \in Nat /\ reward \in Nat /\ given \in Nat
      /\ ownership[c].total \in Nat /\ stakes[c] \in StakeRow
      /\ stakes \in [Clubs -> StakeRow]
  BY TotalIsNat DEF TypeOK, StakeRow
<1>1. ranking \in WinningClubDetails /\ LosingClubs(ranking) >= 0
  BY RankingOfTyped
<1>2. /\ nextReward' = NextRewardTime(last)
      /\ UNCHANGED <<now, prevOwner, bonds, fury>>
      /\ \/ UNCHANGED <<ownership, stakes, reward, given, snapshot, winning>>
         \/ /\ winning' = ranking
            /\ snapshot' = [d \in Clubs |-> IF first /\ Listed(d)
                                            THEN ownership[d].total ELSE snapshot[d]]
            /\ stakes' = [stakes EXCEPT ![c] = batch.row]
            /\ ownership' = [ownership EXCEPT ![c].total = @ + batch.staked]
            /\ given' = allGiven
            /\ reward' = RewardLeft(last, allGiven)
  BY DEF CalculateAndDistributeRewards
<1> HIDE DEF ranking
<1>3. batch \in BatchState
  BY <1>0, <1>1, BatchTyped
<1> HIDE DEF batch
<1>4. batch.row \in StakeRow /\ batch.given \in Nat /\ batch.staked \in Nat
  BY <1>3 DEF BatchState
<1>5. nextReward' \in Nat
  BY <1>0, <1>2, ConfigAssumption DEF NextRewardTime
<1>6. CASE UNCHANGED <<ownership, stakes, reward, given, snapshot, winning>>
  <2>1. LosingClubs(winning)' = LosingClubs(winning)
    BY <1>6 DEF LosingClubs
  <2> QED
    BY <1>2, <1>5, <1>6, <2>1 DEF TypeOK
<1>7. CASE ~UNCHANGED <<ownership, stakes, reward, given, snapshot, winning>>
  <2>1. winning' \in WinningClubDetails /\ LosingClubs(winning') >= 0
    BY <1>1, <1>2, <1>7
  <2>2. snapshot' \in [Clubs -> Nat]
    <3>1. snapshot' = [d \in Clubs |-> IF first /\ Listed(d)
                                       THEN ownership[d].total ELSE snapshot[d]]
      BY <1>2, <1>7
    <3>2. \A d \in Clubs : ownership[d].total \in Nat /\ snapshot[d] \in Nat
      BY TotalIsNat DEF TypeOK
    <3> QED
      BY <3>1, <3>2
  <2>3. stakes' \in [Clubs -> [Users -> StakeVec]]
    <3>1. stakes' = [stakes EXCEPT ![c] = batch.row]
      BY <1>2, <1>7
    <3>2. stakes' \in [Clubs -> StakeRow]
      BY <1>0, <1>4, <3>1
    <3> QED
      BY <3>2 DEF StakeRow
  <2>4. ownership' \in [Clubs -> Ownership]
    <3> DEFINE total == ownership[c].total + batch.staked
    <3>1. total \in Nat
      BY <1>0, <1>4
    <3>2. ownership' = WithTotal(c, total)
      BY <1>2, <1>7 DEF WithTotal, TypeOK
    <3> HIDE DEF total
    <3> QED
      BY <3>1, <3>2, TotalTyped
  <2>5. given' \in Nat /\ reward' \in Nat
    <3>1. allGiven \in Nat
      BY <1>0, <1>4
    <3> HIDE DEF allGiven
    <3>2. RewardLeft(last, allGiven) \in Nat
      BY <1>0, <3>1 DEF RewardLeft
    <3> QED
      BY <1>2, <1>7, <3>1, <3>2
  <2>6. LosingClubs(winning)' = LosingClubs(winning')
    BY DEF LosingClubs
  <2> QED
    BY <1>2, <1>5, <2>1, <2>2, <2>3, <2>4, <2>5, <2>6 DEF TypeOK
<1> QED
  BY <1>6, <1>7

\* The inputs that are enumerated.
LEMMA InputsTyped ==
    /\ AutoChoices \subseteq BOOLEAN /\ ClubPrice \in Nat
    /\ StakeAmounts \subseteq Nat /\ WithdrawAmounts \subseteq Nat /\ RewardAmounts \subseteq Nat
    /\ AssignLists \subseteq Seq(StakeAssignment) /\ StakerLists \subseteq Seq(Users)
BY ConfigAssumption DEF StakeAssignment

LEMMA BuyingTyped ==
    ASSUME TypeOK, NEW u \in Users, NEW c \in Clubs, NEW seller \in Users \cup {NoUser},
           NEW auto \in BOOLEAN,
           BuyAClub(u, c, seller, auto) \/ AssignAClub(u, c, seller, auto)
    PROVE  TypeOK'
<1>1. CASE BuyAClub(u, c, seller, auto)
  <2>1. fury \in [Wallets -> Nat] /\ u \in Wallets /\ "collector" \in Wallets
    BY DEF TypeOK, Wallets
  <2>2. fury' \in [Wallets -> Nat]
    BY <1>1, <2>1, InputsTyped, PayTyped DEF BuyAClub
  <2> QED
    BY <1>1, <2>2, InputsTyped, TakeOverTyped DEF BuyAClub
<1>2. CASE AssignAClub(u, c, seller, auto)
  <2>1. fury' \in [Wallets -> Nat] /\ 0 \in Nat
    BY <1>2 DEF AssignAClub, TypeOK
  <2> QED
    BY <1>2, <2>1, TakeOverTyped DEF AssignAClub
<1> QED
  BY <1>1, <1>2

LEMMA InitTyped == Init => TypeOK
<1> SUFFICES ASSUME Init PROVE TypeOK
  OBVIOUS
<1>1. now \in Nat /\ reward \in Nat /\ given \in Nat /\ nextReward \in Nat
  BY ConfigAssumption DEF Init
<1>2. ownership \in [Clubs -> Ownership]
  BY DEF Init, Unsold, Ownership
<1>3. prevOwner \in [Users -> Nat] /\ snapshot \in [Clubs -> Nat]
  BY DEF Init
<1>4. stakes \in [Clubs -> [Users -> StakeVec]]
  BY StakeVecs DEF Init
<1>5. bonds \in [Clubs -> [Users -> Seq(Bond)]]
  <2>1. << >> \in Seq(Bond)
    BY EmptySeq
  <2> HIDE DEF Bond
  <2> QED
    BY <2>1 DEF Init
<1>6. winning \in WinningClubDetails /\ LosingClubs(winning) >= 0
  <2>1. << >> \in Seq(Clubs) /\ Len(<< >>) = 0
    BY EmptySeq
  <2> QED
    BY <2>1 DEF Init, NoRanking, WinningClubDetails, LosingClubs
<1>7. fury \in [Wallets -> Nat]
  BY ConfigAssumption DEF Init, Wallets
<1> QED
  BY <1>1, <1>2, <1>3, <1>4, <1>5, <1>6, <1>7 DEF TypeOK

LEMMA UserStepTyped == TypeOK /\ UserNext => TypeOK'
<1> SUFFICES ASSUME TypeOK, UserNext PROVE TypeOK'
  OBVIOUS
<1>1. PICK u \in Users, c \in Clubs :
         \/ \E seller \in Users \cup {NoUser}, auto \in AutoChoices :
               BuyAClub(u, c, seller, auto)
         \/ ReleaseClub(u, c)
         \/ \E amount \in StakeAmounts, auto \in AutoChoices :
               StakeOnAClub(u, c, amount, auto)
         \/ \E amount \in WithdrawAmounts :
               BondStake(u, c, amount) \/ WithdrawMatured(u, c, amount)
  BY DEF UserNext
<1>2. ASSUME NEW seller \in Users \cup {NoUser}, NEW auto \in AutoChoices,
             BuyAClub(u, c, seller, auto)
      PROVE  TypeOK'
  BY <1>2, InputsTyped, BuyingTyped
<1>3. ASSUME ReleaseClub(u, c) PROVE TypeOK'
  BY <1>3, ReleaseTyped
<1>4. ASSUME NEW amount \in StakeAmounts, NEW auto \in AutoChoices,
             StakeOnAClub(u, c, amount, auto)
      PROVE  TypeOK'
  BY <1>4, InputsTyped, StakingTyped
<1>5. ASSUME NEW amount \in WithdrawAmounts,
             BondStake(u, c, amount) \/ WithdrawMatured(u, c, amount)
      PROVE  TypeOK'
  BY <1>5, InputsTyped, BondingTyped, WithdrawalTyped
<1> QED
  BY <1>1, <1>2, <1>3, <1>4, <1>5

LEMMA AdminStepTyped == TypeOK /\ AdminNext => TypeOK'
<1> SUFFICES ASSUME TypeOK, AdminNext PROVE TypeOK'
  OBVIOUS
<1>1. ASSUME NEW u \in Users, NEW c \in Clubs, NEW seller \in Users \cup {NoUser},
             NEW auto \in AutoChoices, AssignAClub(u, c, seller, auto)
      PROVE  TypeOK'
  BY <1>1, InputsTyped, BuyingTyped
<1>2. ASSUME NEW c \in Clubs, NEW list \in AssignLists, AssignStakesToAClub(list, c)
      PROVE  TypeOK'
  BY <1>2, InputsTyped, AssigningTyped
<1>3. ASSUME NEW amount \in RewardAmounts, IncreaseRewardAmount(amount)
      PROVE  TypeOK'
  BY <1>3, InputsTyped, FundingTyped
<1> QED
  BY <1>1, <1>2, <1>3 DEF AdminNext

LEMMA ClaimStepTyped == TypeOK /\ ClaimNext => TypeOK'
BY ClaimTyped DEF ClaimNext

LEMMA BatchStepTyped == TypeOK /\ BatchNext => TypeOK'
<1> SUFFICES ASSUME TypeOK, BatchNext PROVE TypeOK'
  OBVIOUS
<1>1. PICK c \in Clubs, list \in StakerLists, first \in BOOLEAN, last \in BOOLEAN :
         CalculateAndDistributeRewards(list, c, first, last)
  BY DEF BatchNext
<1> QED
  BY <1>1, InputsTyped, DistributionTyped

LEMMA TickTyped == TypeOK /\ Tick => TypeOK'
<1> SUFFICES ASSUME TypeOK, Tick PROVE TypeOK'
  OBVIOUS
<1>1. now' \in Nat
  BY DEF Tick, TypeOK
<1>2. UNCHANGED <<ownership, prevOwner, stakes, bonds, reward, given, nextReward,
                  snapshot, winning, fury>>
  BY DEF Tick, clubVars, stakeVars, rewardVars
<1>3. LosingClubs(winning)' = LosingClubs(winning)
  BY <1>2 DEF LosingClubs
<1> QED
  BY <1>1, <1>2, <1>3 DEF TypeOK

LEMMA StutterTyped == TypeOK /\ UNCHANGED vars => TypeOK'
<1> SUFFICES ASSUME TypeOK, UNCHANGED vars PROVE TypeOK'
  OBVIOUS
<1>1. UNCHANGED <<now, ownership, prevOwner, stakes, bonds, reward, given, nextReward,
                  snapshot, winning, fury>>
  BY DEF vars, clubVars, stakeVars, rewardVars
<1>2. LosingClubs(winning)' = LosingClubs(winning)
  BY <1>1 DEF LosingClubs
<1> QED
  BY <1>1, <1>2 DEF TypeOK

\* Every record keeps its type: no balance, stake, bond, total, reward or count
\* of losing clubs is ever negative, and no Vec of stakes has a second element.
THEOREM TypeOKHolds == Spec => []TypeOK
<1>1. TypeOK /\ [Next]_vars => TypeOK'
  BY UserStepTyped, AdminStepTyped, ClaimStepTyped, BatchStepTyped, TickTyped,
     StutterTyped DEF Next
<1> QED
  BY <1>1, InitTyped, PTL DEF Spec

-----------------------------------------------------------------------------
(***************************************************************************)
(* Every step but a withdrawal leaves the bonds alone.                     *)
(***************************************************************************)
Bonding == \E u \in Users, c \in Clubs, amount \in Nat : BondStake(u, c, amount)
Paying == \E u \in Users, c \in Clubs, amount \in Nat : WithdrawMatured(u, c, amount)

LEMMA BondSteps ==
    ASSUME [Next]_vars
    PROVE  Bonding \/ Paying \/ bonds' = bonds
<1>1. CASE UserNext
  <2>1. PICK u \in Users, c \in Clubs :
           \/ \E seller \in Users \cup {NoUser}, auto \in AutoChoices :
                 BuyAClub(u, c, seller, auto)
           \/ ReleaseClub(u, c)
           \/ \E amount \in StakeAmounts, auto \in AutoChoices :
                 StakeOnAClub(u, c, amount, auto)
           \/ \E amount \in WithdrawAmounts :
                 BondStake(u, c, amount) \/ WithdrawMatured(u, c, amount)
    BY <1>1 DEF UserNext
  <2>2. ASSUME NEW amount \in WithdrawAmounts,
               BondStake(u, c, amount) \/ WithdrawMatured(u, c, amount)
        PROVE  Bonding \/ Paying
    BY <2>2, InputsTyped DEF Bonding, Paying
  <2> QED
    BY <2>1, <2>2 DEF BuyAClub, TakeOver, ReleaseClub, StakeOnAClub, stakeVars
<1>2. CASE ClaimNext
  BY <1>2 DEF ClaimNext, ClaimStakerRewards, stakeVars
<1>3. CASE AdminNext
  BY <1>3 DEF AdminNext, AssignAClub, TakeOver, AssignStakesToAClub,
              IncreaseRewardAmount, stakeVars
<1>4. CASE BatchNext
  BY <1>4 DEF BatchNext, CalculateAndDistributeRewards
<1>5. CASE Tick
  BY <1>5 DEF Tick, stakeVars
<1>6. CASE UNCHANGED vars
  BY <1>6 DEF vars, stakeVars
<1> QED
  BY <1>1, <1>2, <1>3, <1>4, <1>5, <1>6 DEF Next

\* What the two kinds of withdrawals do to the bonds.
LEMMA BondingBonds ==
    ASSUME TypeOK, NEW u \in Users, NEW c \in Clubs, NEW amount \in Nat,
           BondStake(u, c, amount)
    PROVE  /\ \A d \in Clubs, w \in Users :
                 <<d, w>> # <<c, u>> => bonds'[d][w] = bonds[d][w]
           /\ Len(bonds'[c][u]) = Len(bonds[c][u]) + 1
           /\ Len(bonds[c][u]) < MaxBonds
           /\ BondSum(bonds'[c][u]) = BondSum(bonds[c][u]) + amount
<1> DEFINE bond == [start |-> now, amount |-> amount]
           vec == bonds[c][u]
<1>1. bond \in Bond /\ bond.amount = amount /\ vec \in Seq(Bond)
  BY DEF TypeOK, Bond
<1>2. bonds' = [bonds EXCEPT ![c][u] = Append(vec, bond)]
  BY DEF BondStake, Bonded
<1> HIDE DEF bond
<1>3. \A d \in Clubs, w \in Users : <<d, w>> # <<c, u>> => bonds'[d][w] = bonds[d][w]
  BY <1>2 DEF TypeOK
<1>4. bonds'[c][u] = Append(vec, bond)
  BY <1>2 DEF TypeOK
<1> HIDE DEF vec
<1>5. Len(Append(vec, bond)) = Len(vec) + 1 /\ BondSum(Append(vec, bond)) = BondSum(vec) + amount
  BY <1>1, BondsAppend
<1>6. Len(bonds[c][u]) < MaxBonds
  BY DEF BondStake, RoomForBond
<1> QED
  BY <1>3, <1>4, <1>5, <1>6 DEF vec

LEMMA PayingBonds ==
    ASSUME TypeOK, NEW u \in Users, NEW c \in Clubs, NEW amount \in Nat,
           WithdrawMatured(u, c, amount)
    PROVE  /\ \A d \in Clubs, w \in Users :
                 <<d, w>> # <<c, u>> => bonds'[d][w] = bonds[d][w]
           /\ Len(bonds'[c][u]) <= Len(bonds[c][u])
           /\ BondSum(bonds[c][u]) - BondSum(bonds'[c][u]) = amount
           /\ SameYoungBonds(bonds[c][u], bonds'[c][u])
           /\ fury'[u] = fury[u] + amount
<1> DEFINE vec == bonds[c][u]
           paid == PayFromBonds(vec, amount)
           kept == paid.kept
<1>1. vec \in Seq(Bond) /\ now \in Nat
  BY DEF TypeOK
<1>2. bonds' = [bonds EXCEPT ![c][u] = kept] /\ paid.left = 0
  BY DEF WithdrawMatured
<1>3. /\ LeftAfter(paid, amount, BondSum(vec), Len(vec))
      /\ \A b \in Bond : ~Mature(b) => Copies(kept, b) = Copies(vec, b)
  BY <1>1, PaidFromBonds
<1>4. /\ kept \in Seq(Bond) /\ Len(kept) <= Len(vec)
      /\ BondSum(kept) + amount = BondSum(vec) + 0
  BY <1>2, <1>3 DEF LeftAfter, Payment
<1> HIDE DEF kept, paid
<1>5. \A d \in Clubs, w \in Users : <<d, w>> # <<c, u>> => bonds'[d][w] = bonds[d][w]
  BY <1>2 DEF TypeOK
<1>6. bonds'[c][u] = kept
  BY <1>2 DEF TypeOK
<1> HIDE DEF vec
<1>7. BondSum(vec) - BondSum(kept) = amount
  <2>1. BondSum(vec) \in Nat /\ BondSum(kept) \in Nat
    BY <1>1, <1>4, BondsInVec
  <2> QED
    BY <1>4, <2>1
<1>8. SameYoungBonds(vec, kept)
  <2> SUFFICES ASSUME NEW bond \in ToSet(vec) \cup ToSet(kept),
                      now - bond.start <= BondingDuration
               PROVE  Copies(vec, bond) = Copies(kept, bond)
    BY DEF SameYoungBonds
  <2>1. bond \in Bond
    <3>1. ToSet(vec) \subseteq Bond /\ ToSet(kept) \subseteq Bond
      BY <1>1, <1>4, BondsInVec DEF ToSet
    <3> QED
      BY <3>1
  <2>2. ~Mature(bond)
    <3>1. bond.start \in Nat /\ BondingDuration \in Nat
      BY <2>1, ConfigAssumption DEF Bond
    <3> QED
      BY <1>1, <3>1 DEF Mature
  <2> QED
    BY <1>3, <2>1, <2>2
<1>9. fury'[u] = fury[u] + amount
  <2>1. u # "contract" /\ u \in Wallets /\ "contract" \in Wallets
    BY ConfigAssumption DEF Wallets
  <2> QED
    BY <2>1 DEF WithdrawMatured, PayOut, Pay, TypeOK
<1> QED
  BY <1>4, <1>5, <1>6, <1>7, <1>8, <1>9 DEF vec

\* No staker ever has more bonds in a club than the limit.
THEOREM BondsWithinLimitHolds == Spec => []BondsWithinLimit
<1>1. Init => BondsWithinLimit
  <2>1. Len(<< >>) = 0 /\ MaxBonds \in Nat
    BY EmptySeq, ConfigAssumption
  <2> QED
    BY <2>1 DEF Init, BondsWithinLimit
<1>2. TypeOK /\ BondsWithinLimit /\ [Next]_vars => BondsWithinLimit'
  <2> SUFFICES ASSUME TypeOK, BondsWithinLimit, [Next]_vars,
                      NEW c \in Clubs, NEW u \in Users
               PROVE  Len(bonds'[c][u]) <= MaxBonds
    BY DEF BondsWithinLimit
  <2> DEFINE len == Len(bonds[c][u])
             later == Len(bonds'[c][u])
  <2>1. len \in Nat /\ len <= MaxBonds /\ MaxBonds \in Nat
    BY BondsInVec, ConfigAssumption DEF TypeOK, BondsWithinLimit
  <2>2. CASE Bonding
    <3>1. PICK w \in Users, d \in Clubs, amount \in Nat : BondStake(w, d, amount)
      BY <2>2 DEF Bonding
    <3>2. CASE <<c, u>> = <<d, w>>
      <4>1. later = len + 1 /\ len < MaxBonds
        BY <3>1, <3>2, BondingBonds
      <4> HIDE DEF len, later
      <4>2. later <= MaxBonds
        BY <2>1, <4>1
      <4> QED
        BY <4>2 DEF later
    <3>3. CASE <<c, u>> # <<d, w>>
      <4>1. bonds'[c][u] = bonds[c][u]
        BY <3>1, <3>3, BondingBonds
      <4> QED
        BY <2>1, <4>1
    <3> QED
      BY <3>2, <3>3
  <2>3. CASE Paying
    <3>1. PICK w \in Users, d \in Clubs, amount \in Nat : WithdrawMatured(w, d, amount)
      BY <2>3 DEF Paying
    <3>2. CASE <<c, u>> = <<d, w>>
      <4>1. later <= len /\ later \in Nat
        <5>1. TypeOK'
          BY <3>1, WithdrawalTyped
        <5>2. bonds'[c][u] \in Seq(Bond)
          BY <5>1 DEF TypeOK
        <5>3. later \in Nat
          BY <5>2, BondsInVec
        <5> QED
          BY <3>1, <3>2, <5>3, PayingBonds
      <4> HIDE DEF len, later
      <4>2. later <= MaxBonds
        BY <2>1, <4>1
      <4> QED
        BY <4>2 DEF later
    <3>3. CASE <<c, u>> # <<d, w>>
      <4>1. bonds'[c][u] = bonds[c][u]
        BY <3>1, <3>3, PayingBonds
      <4> QED
        BY <2>1, <4>1
    <3> QED
      BY <3>2, <3>3
  <2>4. CASE bonds' = bonds
    BY <2>1, <2>4
  <2> QED
    BY <2>2, <2>3, <2>4, BondSteps
<1> QED
  BY <1>1, <1>2, TypeOKHolds, PTL DEF Spec

\* Tokens leave the bonds of a staker only into its own wallet, and only out
\* of bonds that are mature.
PayoutIsMatured ==
    \A c \in Clubs, u \in Users :
       LET paid == BondSum(bonds[c][u]) - BondSum(bonds'[c][u])
       IN  paid > 0 => /\ fury'[u] = fury[u] + paid
                       /\ SameYoungBonds(bonds[c][u], bonds'[c][u])

LEMMA StepPaysMatured == TypeOK /\ [Next]_vars => PayoutIsMatured
<1> SUFFICES ASSUME TypeOK, [Next]_vars, NEW c \in Clubs, NEW u \in Users,
                    BondSum(bonds[c][u]) - BondSum(bonds'[c][u]) > 0
             PROVE  /\ fury'[u] = fury[u] + (BondSum(bonds[c][u]) - BondSum(bonds'[c][u]))
                    /\ SameYoungBonds(bonds[c][u], bonds'[c][u])
  BY DEF PayoutIsMatured
<1> DEFINE sum == BondSum(bonds[c][u])
           later == BondSum(bonds'[c][u])
<1>1. sum \in Nat
  BY BondsInVec DEF TypeOK
<1>2. bonds'[c][u] # bonds[c][u]
  <2> SUFFICES ASSUME bonds'[c][u] = bonds[c][u] PROVE FALSE
    OBVIOUS
  <2>1. later = sum /\ sum - later > 0
    OBVIOUS
  <2> HIDE DEF sum, later
  <2> QED
    BY <1>1, <2>1
<1>3. ~Bonding
  <2> SUFFICES ASSUME NEW w \in Users, NEW d \in Clubs, NEW amount \in Nat,
                      BondStake(w, d, amount)
               PROVE  FALSE
    BY DEF Bonding
  <2>1. <<c, u>> = <<d, w>>
    BY <1>2, BondingBonds
  <2>2. later = sum + amount /\ sum - later > 0
    BY <2>1, BondingBonds
  <2> HIDE DEF sum, later
  <2> QED
    BY <1>1, <2>2
<1>4. Paying
  BY <1>2, <1>3, BondSteps
<1>5. PICK w \in Users, d \in Clubs, amount \in Nat : WithdrawMatured(w, d, amount)
  BY <1>4 DEF Paying
<1>6. <<c, u>> = <<d, w>>
  BY <1>2, <1>5, PayingBonds
<1> QED
  BY <1>5, <1>6, PayingBonds

\* Whatever the splits and earlier withdrawals, tokens leave the bonds of a
\* staker only into its wallet and only out of mature bonds.
THEOREM PayoutsAreMaturedHolds == Spec => PayoutsAreMatured
<1>1. TypeOK /\ [Next]_vars => [PayoutIsMatured]_vars
  BY StepPaysMatured
<1> QED
  BY <1>1, TypeOKHolds, PTL DEF Spec, PayoutsAreMatured, PayoutIsMatured

==============================================================================
