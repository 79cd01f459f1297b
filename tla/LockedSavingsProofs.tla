------------------------- MODULE LockedSavingsProofs -------------------------
(***************************************************************************)
(* What TLC checks for three savers holds for any number of them, any      *)
(* durations and amounts, and any times: the vault of LockedSavings is     *)
(* solvent, its penalties stay with savers of their term, no claim of a    *)
(* matured cohort can revert, savers of one cohort are treated alike, and  *)
(* the vault implements what SavingsPromise promises a saver.              *)
(***************************************************************************)
EXTENDS LockedSavings, LedgerSumTheorems

-----------------------------------------------------------------------------
(* Arithmetic.                                                             *)

\* A share rounds down.
LEMMA QuotientBound ==
    ASSUME NEW a \in Nat, NEW b \in Nat, b # 0
    PROVE  a \div b \in Nat /\ (a \div b) * b <= a
OBVIOUS

LEMMA ProductNat ==
    ASSUME NEW a \in Nat, NEW b \in Nat
    PROVE  a * b \in Nat
OBVIOUS

\* A share of basis points is at most the whole.
LEMMA ShareNat ==
    ASSUME NEW n \in Nat
    PROVE  /\ Share(n, EARLY_EXIT_PENALTY_BPS) \in Nat /\ Share(n, EARLY_EXIT_PENALTY_BPS) <= n
           /\ Share(n, MAXIMUM_REWARD_BPS) \in Nat
BY DEF Share, EARLY_EXIT_PENALTY_BPS, MAXIMUM_REWARD_BPS, BPS

\* The next cohort starts later than now.
LEMMA NextIsLater ==
    ASSUME NEW n \in Nat, NEW m \in Nat \ {0}
    PROVE  (n \div m + 1) * m > n
OBVIOUS

\* What was paid and the next reward fit the final pool, in shares of what was saved.
LEMMA PaidFits ==
    ASSUME NEW paid \in Nat, NEW reward \in Nat, NEW pool \in Nat, NEW final \in Nat, NEW left \in Nat,
           NEW p \in Nat, p <= left, left <= final, final # 0,
           paid * final <= pool * (final - left), reward * final <= pool * p
    PROVE  /\ (paid + reward) * final <= pool * (final - (left - p))
           /\ paid + reward <= pool
<1>1. (paid + reward) * final = paid * final + reward * final
  OBVIOUS
<1>2. pool * (final - (left - p)) = pool * (final - left) + pool * p
  OBVIOUS
<1>3. (paid + reward) * final <= pool * (final - (left - p))
  <2> DEFINE A == paid * final  B == reward * final  C == pool * (final - left)  D == pool * p
  <2>1. A \in Int /\ B \in Int /\ C \in Int /\ D \in Int
    OBVIOUS
  <2>2. A + B <= C + D
    <3> HIDE DEF A, B, C, D
    <3>1. A <= C /\ B <= D
      BY DEF A, B, C, D
    <3> QED BY <2>1, <3>1
  <2> QED BY <1>1, <1>2, <2>2
<1>4. pool * (final - (left - p)) <= pool * final
  OBVIOUS
<1>5. paid + reward <= pool
  <2> SUFFICES ASSUME paid + reward > pool PROVE FALSE
    OBVIOUS
  <2>1. (paid + reward) * final >= (pool + 1) * final
    OBVIOUS
  <2>2. (pool + 1) * final > pool * final
    OBVIOUS
  <2> QED BY <1>3, <1>4, <2>1, <2>2
<1> QED BY <1>3, <1>5

-----------------------------------------------------------------------------
(* Cohorts and sums.                                                       *)

LEMMA CohortTypes ==
    ASSUME NEW c \in Cohorts
    PROVE  StartsAt(c) \in Nat /\ Duration(c) \in Durations /\ MaturesAt(c) \in Nat
           /\ StartsAt(c) < MaturesAt(c)
<1>1. PICK n \in 1 .. LastCohort, d \in Durations : c = <<n * CohortInterval, d>>
  BY DEF Cohorts
<1>2. n \in Nat /\ CohortInterval \in Nat /\ d \in Nat \ {0}
  BY LockedSavingsAssumption
<1>3. n * CohortInterval \in Nat
  BY <1>2, ProductNat
<1>4. StartsAt(c) = n * CohortInterval /\ Duration(c) = d
  BY <1>1 DEF StartsAt, Duration
<1> QED BY <1>2, <1>3, <1>4 DEF MaturesAt

LEMMA CohortsFinite == IsFiniteSet(Cohorts)
<1> DEFINE Starts == {n * CohortInterval : n \in 1 .. LastCohort}
           F == [n \in 1 .. LastCohort |-> n * CohortInterval]
<1>1. F \in Surjection(1 .. LastCohort, Starts)
  BY Fun_IsSurj
<1>2. IsFiniteSet(1 .. LastCohort)
  BY LockedSavingsAssumption, FS_Interval
<1>3. IsFiniteSet(Starts)
  <2> HIDE DEF F, Starts
  <2> QED BY <1>1, <1>2, FS_Surjection
<1>4. IsFiniteSet(Starts \X Durations)
  <2> HIDE DEF Starts
  <2> QED BY <1>3, LockedSavingsAssumption, FS_Product
<1> QED BY <1>4 DEF Cohorts

\* A ledger of which one entry changes.
LEMMA OneEntry ==
    ASSUME NEW S, IsFiniteSet(S), NEW f \in [S -> Nat], NEW g \in [S -> Nat],
           NEW x \in S, \A y \in S \ {x} : g[y] = f[y]
    PROVE  Total(f) \in Nat /\ Total(g) \in Nat /\ Total(g) - Total(f) = g[x] - f[x]
<1>1. DOMAIN f = S /\ DOMAIN g = S /\ DOMAIN g = DOMAIN f \cup {x}
  OBVIOUS
<1>2. f[x] \in Nat /\ g[x] \in Nat
  OBVIOUS
<1>3. Total(f) \in Nat /\ Total(g) \in Nat
  BY <1>1, TotalNat
<1>4. Total(g) = Total(f) - (IF x \in DOMAIN f THEN f[x] ELSE 0) + g[x]
  BY <1>1, TotalUpdate
<1>5. Total(g) = Total(f) - f[x] + g[x]
  BY <1>1, <1>4
<1> HIDE DEF Total
<1> QED BY <1>2, <1>3, <1>5

\* One cohort's books and its duration's carry, when nothing else changes.
Book(c) == cohorts[c].totalPrincipal + cohorts[c].rewardPool + termRewardCarry[Duration(c)]
KeptBook(c) == cohorts[c].rewardPool + cohorts[c].rewardsPaid + termRewardCarry[Duration(c)]
OnlyCohort(c) ==
    /\ \A b \in Cohorts \ {c} : cohorts'[b] = cohorts[b]
    /\ \A d \in Durations \ {Duration(c)} : termRewardCarry'[d] = termRewardCarry[d]

\* The vault stays solvent if a step moves as much in one cohort's books as it adds to
\* or takes from what the vault manages and holds.
LEMMA SolventStep ==
    ASSUME TypeOK, TypeOK', Solvent, NEW c \in Cohorts, OnlyCohort(c),
           Book(c)' - Book(c) = totalManaged' - totalManaged,
           held' - held = totalManaged' - totalManaged
    PROVE  Solvent'
<1> DEFINE d == Duration(c)
<1>0. d \in Durations /\ IsFiniteSet(Durations) /\ IsFiniteSet(Cohorts)
  BY CohortTypes, CohortsFinite, LockedSavingsAssumption
<1>1. /\ Total(Principals) \in Nat /\ Total(Principals') \in Nat
      /\ Total(Principals') - Total(Principals) = cohorts'[c].totalPrincipal - cohorts[c].totalPrincipal
  <2>1. Principals \in [Cohorts -> Nat] /\ Principals' \in [Cohorts -> Nat]
    BY DEF TypeOK, CohortRecords, Principals
  <2>2. \A b \in Cohorts \ {c} : Principals'[b] = Principals[b]
    BY DEF Principals, OnlyCohort
  <2>3. Principals[c] = cohorts[c].totalPrincipal /\ Principals'[c] = cohorts'[c].totalPrincipal
    BY DEF Principals
  <2> QED BY <1>0, <2>1, <2>2, <2>3, OneEntry
<1>2. /\ Total(Pools) \in Nat /\ Total(Pools') \in Nat
      /\ Total(Pools') - Total(Pools) = cohorts'[c].rewardPool - cohorts[c].rewardPool
  <2>1. Pools \in [Cohorts -> Nat] /\ Pools' \in [Cohorts -> Nat]
    BY DEF TypeOK, CohortRecords, Pools
  <2>2. \A b \in Cohorts \ {c} : Pools'[b] = Pools[b]
    BY DEF Pools, OnlyCohort
  <2>3. Pools[c] = cohorts[c].rewardPool /\ Pools'[c] = cohorts'[c].rewardPool
    BY DEF Pools
  <2> QED BY <1>0, <2>1, <2>2, <2>3, OneEntry
<1>3. /\ Total(termRewardCarry) \in Nat /\ Total(termRewardCarry') \in Nat
      /\ Total(termRewardCarry') - Total(termRewardCarry) = termRewardCarry'[d] - termRewardCarry[d]
  <2>1. termRewardCarry \in [Durations -> Nat] /\ termRewardCarry' \in [Durations -> Nat]
    BY DEF TypeOK
  <2>2. \A e \in Durations \ {d} : termRewardCarry'[e] = termRewardCarry[e]
    BY DEF OnlyCohort
  <2> HIDE DEF d
  <2> QED BY <1>0, <2>1, <2>2, OneEntry
<1>4. /\ cohorts[c].totalPrincipal \in Nat /\ cohorts'[c].totalPrincipal \in Nat
      /\ cohorts[c].rewardPool \in Nat /\ cohorts'[c].rewardPool \in Nat
      /\ termRewardCarry[d] \in Nat /\ termRewardCarry'[d] \in Nat
      /\ totalManaged \in Nat /\ totalManaged' \in Nat /\ held \in Nat /\ held' \in Nat
  BY <1>0 DEF TypeOK, CohortRecords
<1>5. /\ Book(c) = cohorts[c].totalPrincipal + cohorts[c].rewardPool + termRewardCarry[d]
      /\ Book(c)' = cohorts'[c].totalPrincipal + cohorts'[c].rewardPool + termRewardCarry'[d]
  BY DEF Book
<1> HIDE DEF d
<1>6. /\ Total(Principals) + Total(Pools) + Total(termRewardCarry) = totalManaged
      /\ totalManaged <= held
  BY DEF Solvent
<1>7. /\ Total(Principals') + Total(Pools') + Total(termRewardCarry') = totalManaged'
      /\ totalManaged' <= held'
  <2>1. /\ Book(c)' - Book(c) \in Int
        /\ Book(c)' - Book(c) = (cohorts'[c].totalPrincipal - cohorts[c].totalPrincipal)
              + (cohorts'[c].rewardPool - cohorts[c].rewardPool) + (termRewardCarry'[d] - termRewardCarry[d])
    BY <1>4, <1>5
  <2>2. Book(c)' - Book(c) = (Total(Principals') - Total(Principals))
              + (Total(Pools') - Total(Pools)) + (Total(termRewardCarry') - Total(termRewardCarry))
    BY <1>1, <1>2, <1>3, <2>1
  <2>3. Total(Principals') + Total(Pools') + Total(termRewardCarry') = totalManaged'
    <3> DEFINE p == Total(Principals)  p1 == Total(Principals')
               q == Total(Pools)  q1 == Total(Pools')
               r == Total(termRewardCarry)  r1 == Total(termRewardCarry')
               m == totalManaged  m1 == totalManaged'
    <3>1. /\ p \in Nat /\ p1 \in Nat /\ q \in Nat /\ q1 \in Nat /\ r \in Nat /\ r1 \in Nat
          /\ m \in Nat /\ m1 \in Nat
      BY <1>1, <1>2, <1>3, <1>4
    <3>2. m1 - m = (p1 - p) + (q1 - q) + (r1 - r)
      BY <2>2
    <3>3. p + q + r = m
      BY <1>6
    <3>4. p1 + q1 + r1 = m1
      <4> HIDE DEF p, p1, q, q1, r, r1, m, m1
      <4> QED BY <3>1, <3>2, <3>3
    <3> QED BY <3>4
  <2>4. totalManaged' <= held'
    <3>1. totalManaged \in Nat /\ totalManaged' \in Nat /\ held \in Nat /\ held' \in Nat
      BY <1>4
    <3>2. totalManaged <= held /\ held' - held = totalManaged' - totalManaged
      BY <1>6
    <3> QED BY <3>1, <3>2
  <2> QED BY <2>3, <2>4
<1> QED BY <1>7 DEF Solvent, Principals, Pools, Total, Units

\* Penalties stay in their term if a step moves in the pool, the rewards and the carry of
\* one cohort together what it takes in penalties, and leaves no pool to nobody.
LEMMA PenaltiesStep ==
    ASSUME TypeOK, TypeOK', PenaltiesStayInTheirTerm, NEW c \in Cohorts, OnlyCohort(c),
           \A d \in Durations \ {Duration(c)} : penalties'[d] = penalties[d],
           KeptBook(c)' - KeptBook(c) = penalties'[Duration(c)] - penalties[Duration(c)],
           cohorts'[c].activePositions = 0 => cohorts'[c].rewardPool = 0
    PROVE  PenaltiesStayInTheirTerm'
<1>1. ASSUME NEW d \in Durations
      PROVE  penalties'[d] = termRewardCarry'[d] + Total(Kept(d)')
  <2>1. Kept(d) \in [Cohorts -> Nat] /\ Kept(d)' \in [Cohorts -> Nat]
    BY DEF TypeOK, CohortRecords, Kept
  <2>2. \A b \in Cohorts \ {c} : Kept(d)'[b] = Kept(d)[b]
    BY DEF Kept, OnlyCohort
  <2>3. /\ Total(Kept(d)) \in Nat /\ Total(Kept(d)') \in Nat
        /\ Total(Kept(d)') - Total(Kept(d)) = Kept(d)'[c] - Kept(d)[c]
    BY <2>1, <2>2, CohortsFinite, OneEntry
  <2>4. penalties[d] = termRewardCarry[d] + Total(Kept(d))
    BY DEF PenaltiesStayInTheirTerm
  <2>5. /\ penalties[d] \in Nat /\ penalties'[d] \in Nat
        /\ termRewardCarry[d] \in Nat /\ termRewardCarry'[d] \in Nat
    BY DEF TypeOK
  <2>6. CASE d = Duration(c)
    <3>1. /\ Kept(d)[c] = cohorts[c].rewardPool + cohorts[c].rewardsPaid
          /\ Kept(d)'[c] = cohorts'[c].rewardPool + cohorts'[c].rewardsPaid
      BY <2>6 DEF Kept
    <3>2. /\ KeptBook(c) = Kept(d)[c] + termRewardCarry[d]
          /\ KeptBook(c)' = Kept(d)'[c] + termRewardCarry'[d]
      BY <2>6, <3>1 DEF KeptBook
    <3>3. Kept(d)[c] \in Nat /\ Kept(d)'[c] \in Nat
      BY <2>1
    <3>4. KeptBook(c)' - KeptBook(c) = penalties'[d] - penalties[d]
      BY <2>6
    <3> QED BY <2>3, <2>4, <2>5, <3>2, <3>3, <3>4
  <2>7. CASE d # Duration(c)
    <3>1. Kept(d)[c] = 0 /\ Kept(d)'[c] = 0
      BY <2>7 DEF Kept
    <3>2. penalties'[d] = penalties[d] /\ termRewardCarry'[d] = termRewardCarry[d]
      BY <2>7 DEF OnlyCohort
    <3> QED BY <2>3, <2>4, <2>5, <3>1, <3>2
  <2> QED BY <2>6, <2>7
<1>2. \A b \in Cohorts : cohorts'[b].activePositions = 0 => cohorts'[b].rewardPool = 0
  BY DEF PenaltiesStayInTheirTerm, OnlyCohort
<1> QED BY <1>1, <1>2 DEF PenaltiesStayInTheirTerm, Kept, Total, Units

-----------------------------------------------------------------------------
(* The invariant: what a cohort knows of its savers, and of its rewards.    *)

Saved(c) == [o \in Owners |-> positions[c][o].principal]
OpenOwners(c) == {o \in Owners : Open(c, o)}

Counted(c) ==
    /\ cohorts[c].totalPrincipal = Total(Saved(c))
    /\ cohorts[c].activePositions = Cardinality(OpenOwners(c))

\* Nothing is in a pool before the term; from the first claim on the pool and what was
\* paid from it are what was fixed, and what was paid is at most the share of it that
\* the savers who are gone had.
Rewarded(c) ==
    /\ now < StartsAt(c) => cohorts[c].rewardPool = 0
    /\ ~ Fixed(c) => cohorts[c].rewardsPaid = 0
    /\ Fixed(c) =>
        /\ MaturesAt(c) <= now
        /\ cohorts[c].remainingClaims = cohorts[c].activePositions
        /\ cohorts[c].totalPrincipal <= cohorts[c].finalPrincipal
        /\ cohorts[c].activePositions # 0 =>
            cohorts[c].rewardPool + cohorts[c].rewardsPaid = cohorts[c].finalRewardPool
        /\ cohorts[c].rewardsPaid * cohorts[c].finalPrincipal
            <= cohorts[c].finalRewardPool * (cohorts[c].finalPrincipal - cohorts[c].totalPrincipal)

Books == \A c \in Cohorts : Counted(c) /\ Rewarded(c)

IInv == TypeOK /\ Solvent /\ PenaltiesStayInTheirTerm /\ Books

\* An open position is part of its cohort's totals.
LEMMA OpenCounts ==
    ASSUME TypeOK, Books, NEW c \in Cohorts, NEW o \in Owners, Open(c, o)
    PROVE  CanLeave(c, o)
<1>1. Counted(c)
  BY DEF Books
<1>2. Saved(c) \in [Owners -> Nat] /\ IsFiniteSet(Owners)
  BY LockedSavingsAssumption DEF TypeOK, PositionRecords, Saved
<1>3. Saved(c)[o] <= Total(Saved(c))
  BY <1>2, EntryAtMostTotal
<1>4. IsFiniteSet(OpenOwners(c)) /\ o \in OpenOwners(c)
  BY <1>2, FS_Subset DEF OpenOwners
<1>5. Cardinality(OpenOwners(c)) \in Nat /\ Cardinality(OpenOwners(c)) # 0
  BY <1>4, FS_CardinalityType, FS_EmptySet
<1>6. Saved(c)[o] = positions[c][o].principal
  BY DEF Saved
<1> HIDE DEF Total
<1>7. cohorts[c].totalPrincipal >= positions[c][o].principal
  BY <1>1, <1>3, <1>6 DEF Counted
<1>8. cohorts[c].activePositions >= 1
  BY <1>1, <1>5 DEF Counted
<1> QED BY <1>7, <1>8 DEF CanLeave

\* A changed position changes the count of one cohort.
LEMMA CountedStep ==
    ASSUME TypeOK, TypeOK', Books, NEW c \in Cohorts, NEW o \in Owners,
           \A b \in Cohorts \ {c} : positions'[b] = positions[b] /\ cohorts'[b] = cohorts[b],
           \A p \in Owners \ {o} : positions'[c][p] = positions[c][p],
           cohorts'[c].totalPrincipal - cohorts[c].totalPrincipal
               = positions'[c][o].principal - positions[c][o].principal,
           cohorts'[c].activePositions - cohorts[c].activePositions
               = (IF Open(c, o)' THEN 1 ELSE 0) - (IF Open(c, o) THEN 1 ELSE 0)
    PROVE  \A b \in Cohorts : Counted(b)'
<1>1. ASSUME NEW b \in Cohorts, b # c
      PROVE  Counted(b)'
  <2>1. Saved(b)' = Saved(b) /\ OpenOwners(b)' = OpenOwners(b)
    BY <1>1 DEF Saved, OpenOwners, Open
  <2>2. Total(Saved(b))' = Total(Saved(b)) /\ Cardinality(OpenOwners(b))' = Cardinality(OpenOwners(b))
    BY <2>1 DEF Total, Units
  <2> QED BY <1>1, <2>2 DEF Counted, Books
<1>2. Counted(c)'
  <2>0. Counted(c) /\ IsFiniteSet(Owners)
    BY LockedSavingsAssumption DEF Books
  <2>1. cohorts'[c].totalPrincipal = Total(Saved(c)')
    <3>1. Saved(c) \in [Owners -> Nat] /\ Saved(c)' \in [Owners -> Nat]
      BY DEF TypeOK, PositionRecords, Saved
    <3>2. \A p \in Owners \ {o} : Saved(c)'[p] = Saved(c)[p]
      BY DEF Saved
    <3>3. Saved(c)[o] = positions[c][o].principal /\ Saved(c)'[o] = positions'[c][o].principal
      BY DEF Saved
    <3>4. /\ Total(Saved(c)) \in Nat /\ Total(Saved(c)') \in Nat
          /\ Total(Saved(c)') - Total(Saved(c)) = Saved(c)'[o] - Saved(c)[o]
      BY <2>0, <3>1, <3>2, OneEntry
    <3>5. /\ cohorts[c].totalPrincipal \in Nat /\ cohorts'[c].totalPrincipal \in Nat
          /\ positions[c][o].principal \in Nat /\ positions'[c][o].principal \in Nat
      BY DEF TypeOK, CohortRecords, PositionRecords
    <3>6. cohorts[c].totalPrincipal = Total(Saved(c))
      BY <2>0 DEF Counted
    <3> QED BY <3>3, <3>4, <3>5, <3>6
  <2>2. cohorts'[c].activePositions = Cardinality(OpenOwners(c)')
    <3>1. OpenOwners(c) \in SUBSET Owners /\ IsFiniteSet(OpenOwners(c))
      BY <2>0, FS_Subset DEF OpenOwners
    <3>2. OpenOwners(c)' \ {o} = OpenOwners(c) \ {o}
      BY DEF OpenOwners, Open
    <3>3. (o \in OpenOwners(c) <=> Open(c, o)) /\ (o \in OpenOwners(c)' <=> Open(c, o)')
      BY DEF OpenOwners
    <3>4. /\ Cardinality(OpenOwners(c)) \in Nat
          /\ cohorts[c].activePositions = Cardinality(OpenOwners(c))
          /\ cohorts'[c].activePositions \in Nat
      BY <2>0, <3>1, FS_CardinalityType DEF Counted, TypeOK, CohortRecords
    <3>5. CASE Open(c, o) /\ ~ Open(c, o)'
      <4>1. OpenOwners(c)' = OpenOwners(c) \ {o}
        BY <3>2, <3>3, <3>5
      <4>2. Cardinality(OpenOwners(c)') = Cardinality(OpenOwners(c)) - 1
        BY <3>1, <3>3, <3>5, <4>1, FS_RemoveElement
      <4> QED BY <3>4, <3>5, <4>2
    <3>6. CASE ~ Open(c, o) /\ Open(c, o)'
      <4>1. OpenOwners(c)' = OpenOwners(c) \cup {o}
        BY <3>2, <3>3, <3>6
      <4>2. o \notin OpenOwners(c)
        BY <3>3, <3>6
      <4>3. Cardinality(OpenOwners(c) \cup {o}) = Cardinality(OpenOwners(c)) + 1
        BY <3>1, <4>2, FS_AddElement
      <4> QED BY <3>4, <3>6, <4>1, <4>3
    <3>7. CASE Open(c, o) <=> Open(c, o)'
      <4>1. OpenOwners(c)' = OpenOwners(c)
        BY <3>2, <3>3, <3>7
      <4> QED BY <3>4, <3>7, <4>1
    <3> QED BY <3>5, <3>6, <3>7
  <2> QED BY <2>1, <2>2 DEF Counted, Total, Units
<1> QED BY <1>1, <1>2

\* Time and other cohorts' business do not disturb a cohort's rewards.
LEMMA RewardedKept ==
    ASSUME NEW c \in Cohorts, Rewarded(c), cohorts'[c] = cohorts[c],
           now \in Nat, now' \in Nat, now <= now'
    PROVE  Rewarded(c)'
BY CohortTypes DEF Rewarded, Fixed

-----------------------------------------------------------------------------
(* The steps.                                                              *)

LEMMA DepositKeeps ==
    ASSUME IInv, NEW o \in Owners, NEW d \in Durations, NEW amount \in Amounts,
           deposit(o, d, amount)
    PROVE  IInv'
<1>0. PICK c \in Cohorts : c = <<nextStart, d>>
  BY DEF deposit
<1>1. Duration(c) = d /\ StartsAt(c) = nextStart /\ amount \in Nat \ {0}
  BY <1>0, LockedSavingsAssumption DEF deposit, Duration, StartsAt
<1>2. now < StartsAt(c)
  BY <1>1, NextIsLater, LockedSavingsAssumption DEF nextStart, IInv, TypeOK
<1> DEFINE entry == [cohorts[c] EXCEPT
                !.activePositions = IF Open(c, o) THEN @ ELSE @ + 1,
                !.totalPrincipal = @ + amount]
           position == [positions[c][o] EXCEPT !.principal = @ + amount]
<1>3. /\ cohorts' = [cohorts EXCEPT ![c] = entry]
      /\ positions' = [positions EXCEPT ![c][o] = position]
      /\ totalManaged' = totalManaged + amount /\ held' = held + amount
      /\ UNCHANGED <<termRewardCarry, now, penalties, rewarded>>
  BY <1>0 DEF deposit, IInv, TypeOK
<1>4. /\ cohorts[c] \in CohortRecords /\ positions[c] \in [Owners -> PositionRecords]
      /\ positions[c][o] \in PositionRecords
      /\ cohorts \in [Cohorts -> CohortRecords] /\ positions \in [Cohorts -> [Owners -> PositionRecords]]
      /\ totalManaged \in Nat /\ held \in Nat /\ now \in Nat /\ now' \in Nat
      /\ termRewardCarry[d] \in Nat
  BY <1>1, <1>3 DEF IInv, TypeOK
<1>5. entry \in CohortRecords /\ position \in PositionRecords
  <2>1. /\ cohorts[c].activePositions \in Nat /\ cohorts[c].totalPrincipal + amount \in Nat
        /\ (IF Open(c, o) THEN cohorts[c].activePositions ELSE cohorts[c].activePositions + 1) \in Nat
        /\ positions[c][o].principal + amount \in Nat
    BY <1>1, <1>4 DEF CohortRecords, PositionRecords
  <2>2. entry \in CohortRecords
    BY <1>4, <2>1 DEF CohortRecords
  <2>3. position \in PositionRecords
    BY <1>4, <2>1 DEF PositionRecords
  <2> QED BY <2>2, <2>3
<1>6. /\ entry.totalPrincipal = cohorts[c].totalPrincipal + amount
      /\ entry.activePositions = cohorts[c].activePositions + (IF Open(c, o) THEN 0 ELSE 1)
      /\ entry.remainingClaims = cohorts[c].remainingClaims
      /\ entry.finalPrincipal = cohorts[c].finalPrincipal
      /\ entry.rewardPool = cohorts[c].rewardPool
      /\ entry.finalRewardPool = cohorts[c].finalRewardPool
      /\ entry.rewardsPaid = cohorts[c].rewardsPaid
      /\ position.principal = positions[c][o].principal + amount
  BY <1>4 DEF CohortRecords, PositionRecords
<1>7. /\ cohorts'[c] = entry /\ positions'[c][o] = position
      /\ \A b \in Cohorts \ {c} : cohorts'[b] = cohorts[b] /\ positions'[b] = positions[b]
      /\ \A p \in Owners \ {o} : positions'[c][p] = positions[c][p]
  BY <1>1, <1>3, <1>4
<1> HIDE DEF entry, position
<1>8. TypeOK'
  <2>1. cohorts' \in [Cohorts -> CohortRecords]
    BY <1>3, <1>4, <1>5
  <2>2. positions' \in [Cohorts -> [Owners -> PositionRecords]]
    BY <1>1, <1>3, <1>4, <1>5
  <2> QED BY <1>1, <1>3, <1>4, <2>1, <2>2 DEF IInv, TypeOK
<1>9. OnlyCohort(c)
  BY <1>3, <1>7 DEF OnlyCohort
<1>10. /\ cohorts[c].totalPrincipal \in Nat /\ cohorts[c].rewardPool \in Nat
       /\ cohorts[c].rewardsPaid \in Nat /\ cohorts[c].activePositions \in Nat
       /\ positions[c][o].principal \in Nat
  BY <1>4 DEF CohortRecords, PositionRecords
<1>11. Solvent'
  <2>1. Book(c)' - Book(c) = totalManaged' - totalManaged
    BY <1>1, <1>3, <1>4, <1>6, <1>7, <1>10 DEF Book
  <2>2. held' - held = totalManaged' - totalManaged
    BY <1>1, <1>3, <1>4
  <2> QED BY <1>1, <1>8, <1>9, <2>1, <2>2, SolventStep DEF IInv
<1>12. PenaltiesStayInTheirTerm'
  <2>1. KeptBook(c)' - KeptBook(c) = penalties'[Duration(c)] - penalties[Duration(c)]
    BY <1>1, <1>3, <1>4, <1>6, <1>7, <1>10 DEF KeptBook, IInv, TypeOK
  <2>2. cohorts'[c].activePositions = 0 => cohorts'[c].rewardPool = 0
    BY <1>1, <1>6, <1>7, <1>10 DEF IInv, PenaltiesStayInTheirTerm
  <2>3. \A e \in Durations \ {Duration(c)} : penalties'[e] = penalties[e]
    BY <1>3
  <2> QED BY <1>1, <1>8, <1>9, <2>1, <2>2, <2>3, PenaltiesStep DEF IInv
<1>13. \A b \in Cohorts : Counted(b)'
  <2>1. Open(c, o)'
    BY <1>1, <1>6, <1>7, <1>10 DEF Open
  <2>2. cohorts'[c].totalPrincipal - cohorts[c].totalPrincipal
            = positions'[c][o].principal - positions[c][o].principal
    BY <1>1, <1>6, <1>7, <1>10
  <2>3. cohorts'[c].activePositions - cohorts[c].activePositions
            = (IF Open(c, o)' THEN 1 ELSE 0) - (IF Open(c, o) THEN 1 ELSE 0)
    BY <1>6, <1>7, <1>10, <2>1
  <2> QED BY <1>1, <1>7, <1>8, <2>2, <2>3, CountedStep DEF IInv
<1>14. \A b \in Cohorts : Rewarded(b)'
  <2>1. ASSUME NEW b \in Cohorts, b # c PROVE Rewarded(b)'
    BY <1>3, <1>4, <1>7, <2>1, RewardedKept DEF IInv, Books
  <2>2. Rewarded(c)'
    <3>1. ~ Fixed(c)
      BY <1>1, <1>2, <1>4, CohortTypes DEF IInv, Books, Rewarded
    <3> QED BY <1>1, <1>3, <1>6, <1>7, <3>1 DEF Rewarded, Fixed, IInv, Books
  <2> QED BY <2>1, <2>2
<1> QED BY <1>8, <1>11, <1>12, <1>13, <1>14 DEF IInv, Books

\* What cancelling, leaving early and claiming have in common.
LEMMA LeaveKeeps ==
    ASSUME IInv, NEW c \in Cohorts, NEW o \in Owners, NEW state \in {"exited", "claimed"},
           NEW amount \in Nat,
           CanLeave(c, o), Leave(c, o, state), PayOut(amount), now' = now, OnlyCohort(c),
           cohorts' \in [Cohorts -> CohortRecords],
           termRewardCarry' \in [Durations -> Nat],
           penalties' \in [Durations -> Nat],
           \A d \in Durations \ {Duration(c)} : penalties'[d] = penalties[d],
           cohorts'[c].totalPrincipal = cohorts[c].totalPrincipal - positions[c][o].principal,
           cohorts'[c].activePositions = cohorts[c].activePositions - 1,
           Book(c)' = Book(c) - amount,
           KeptBook(c)' - KeptBook(c) = penalties'[Duration(c)] - penalties[Duration(c)],
           cohorts'[c].activePositions = 0 => cohorts'[c].rewardPool = 0,
           Rewarded(c)'
    PROVE  IInv'
<1>1. /\ cohorts \in [Cohorts -> CohortRecords] /\ positions \in [Cohorts -> [Owners -> PositionRecords]]
      /\ totalManaged \in Nat /\ held \in Nat /\ now \in Nat
      /\ cohorts[c].totalPrincipal \in Nat /\ cohorts[c].activePositions \in Nat
      /\ cohorts[c].rewardPool \in Nat /\ termRewardCarry[Duration(c)] \in Nat
      /\ positions[c][o].principal \in Nat
  BY CohortTypes DEF IInv, TypeOK, CohortRecords, PositionRecords
<1>2. [principal |-> 0, state |-> state] \in PositionRecords
  BY DEF PositionRecords
<1>3. positions' = [positions EXCEPT ![c][o] = [principal |-> 0, state |-> state]]
  BY DEF Leave
<1>4. /\ positions' \in [Cohorts -> [Owners -> PositionRecords]]
      /\ positions'[c][o].principal = 0
      /\ \A b \in Cohorts \ {c} : positions'[b] = positions[b]
      /\ \A p \in Owners \ {o} : positions'[c][p] = positions[c][p]
  BY <1>1, <1>2, <1>3
<1>5. /\ totalManaged' \in Nat /\ totalManaged' = totalManaged - amount
      /\ held' \in Nat /\ held' = held - amount
  BY <1>1 DEF PayOut
<1>6. TypeOK'
  BY <1>1, <1>4, <1>5 DEF TypeOK
<1>7. Solvent'
  <2>1. Book(c) \in Nat
    BY <1>1 DEF Book
  <2>2. Book(c)' - Book(c) = totalManaged' - totalManaged
    BY <1>1, <1>5, <2>1
  <2>3. held' - held = totalManaged' - totalManaged
    BY <1>1, <1>5
  <2> QED BY <1>6, <2>2, <2>3, SolventStep DEF IInv
<1>8. PenaltiesStayInTheirTerm'
  BY <1>6, PenaltiesStep DEF IInv
<1>9. \A b \in Cohorts : Counted(b)'
  <2>1. Open(c, o) /\ ~ Open(c, o)'
    BY <1>4 DEF CanLeave, Open
  <2>2. cohorts'[c].totalPrincipal - cohorts[c].totalPrincipal
            = positions'[c][o].principal - positions[c][o].principal
    BY <1>1, <1>4
  <2>3. cohorts'[c].activePositions - cohorts[c].activePositions
            = (IF Open(c, o)' THEN 1 ELSE 0) - (IF Open(c, o) THEN 1 ELSE 0)
    BY <1>1, <2>1
  <2>4. \A b \in Cohorts \ {c} : positions'[b] = positions[b] /\ cohorts'[b] = cohorts[b]
    BY <1>4 DEF OnlyCohort
  <2> QED BY <1>4, <1>6, <2>2, <2>3, <2>4, CountedStep DEF IInv
<1>10. \A b \in Cohorts : Rewarded(b)'
  BY <1>1, RewardedKept DEF IInv, Books, OnlyCohort
<1> QED BY <1>6, <1>7, <1>8, <1>9, <1>10 DEF IInv, Books

LEMMA CancelKeeps ==
    ASSUME IInv, NEW c \in Cohorts, NEW o \in Owners, cancelBeforeStart(c, o)
    PROVE  IInv'
<1> DEFINE principal == positions[c][o].principal
           entry == [cohorts[c] EXCEPT !.totalPrincipal = @ - principal, !.activePositions = @ - 1]
<1>1. /\ now < StartsAt(c) /\ CanLeave(c, o) /\ Leave(c, o, "exited") /\ PayOut(principal)
      /\ cohorts' = [cohorts EXCEPT ![c] = entry]
      /\ UNCHANGED <<termRewardCarry, now, penalties, rewarded>>
  BY DEF cancelBeforeStart, IInv, TypeOK
<1>2. /\ cohorts \in [Cohorts -> CohortRecords] /\ cohorts[c] \in CohortRecords
      /\ principal \in Nat /\ now \in Nat
      /\ Duration(c) \in Durations
      /\ termRewardCarry \in [Durations -> Nat] /\ penalties \in [Durations -> Nat]
  BY CohortTypes DEF IInv, TypeOK, PositionRecords
<1>3. /\ cohorts[c].totalPrincipal \in Nat /\ cohorts[c].rewardPool \in Nat
      /\ cohorts[c].rewardsPaid \in Nat /\ cohorts[c].activePositions \in Nat
      /\ termRewardCarry[Duration(c)] \in Nat /\ penalties[Duration(c)] \in Nat
  BY <1>2 DEF CohortRecords
<1>4. cohorts[c].totalPrincipal - principal \in Nat /\ cohorts[c].activePositions - 1 \in Nat
  BY <1>1, <1>2, <1>3 DEF CanLeave
<1>5. entry \in CohortRecords
  BY <1>2, <1>4 DEF CohortRecords
<1>6. /\ entry.totalPrincipal = cohorts[c].totalPrincipal - principal
      /\ entry.activePositions = cohorts[c].activePositions - 1
      /\ entry.finalPrincipal = cohorts[c].finalPrincipal
      /\ entry.rewardPool = cohorts[c].rewardPool
      /\ entry.rewardsPaid = cohorts[c].rewardsPaid
  BY <1>2 DEF CohortRecords
<1> HIDE DEF entry
<1>7. cohorts' \in [Cohorts -> CohortRecords] /\ cohorts'[c] = entry /\ OnlyCohort(c)
  BY <1>1, <1>2, <1>5 DEF OnlyCohort
<1>8. cohorts[c].rewardPool = 0 /\ ~ Fixed(c) /\ cohorts[c].rewardsPaid = 0
  BY <1>1, <1>2, CohortTypes DEF IInv, Books, Rewarded
<1>9. Book(c)' = Book(c) - principal
  BY <1>1, <1>2, <1>3, <1>6, <1>7 DEF Book
<1>10. KeptBook(c)' - KeptBook(c) = penalties'[Duration(c)] - penalties[Duration(c)]
  BY <1>1, <1>3, <1>6, <1>7 DEF KeptBook
<1>11. Rewarded(c)'
  BY <1>1, <1>6, <1>7, <1>8 DEF Rewarded, Fixed
<1>12. /\ \A d \in Durations \ {Duration(c)} : penalties'[d] = penalties[d]
       /\ termRewardCarry' \in [Durations -> Nat] /\ penalties' \in [Durations -> Nat]
       /\ cohorts'[c].activePositions = 0 => cohorts'[c].rewardPool = 0
  BY <1>1, <1>2, <1>6, <1>7, <1>8
<1> QED BY <1>1, <1>2, <1>6, <1>7, <1>9, <1>10, <1>11, <1>12, LeaveKeeps

LEMMA ExitKeeps ==
    ASSUME IInv, NEW c \in Cohorts, NEW o \in Owners, exitEarly(c, o)
    PROVE  IInv'
<1> DEFINE principal == positions[c][o].principal
           penalty == Share(principal, EARLY_EXIT_PENALTY_BPS)
           pool == cohorts[c].rewardPool + penalty
           carried == CarriedOnExit(c, pool)
           entry == [cohorts[c] EXCEPT !.totalPrincipal = @ - principal,
                                       !.activePositions = @ - 1,
                                       !.rewardPool = pool - carried]
           d == Duration(c)
<1>1. /\ StartsAt(c) <= now /\ now < MaturesAt(c)
      /\ CanLeave(c, o) /\ Leave(c, o, "exited") /\ PayOut(principal - penalty)
      /\ cohorts' = [cohorts EXCEPT ![c] = entry]
      /\ termRewardCarry' = [termRewardCarry EXCEPT ![d] = @ + carried]
      /\ penalties' = [penalties EXCEPT ![d] = @ + penalty]
      /\ UNCHANGED <<now, rewarded>>
  BY DEF exitEarly, IInv, TypeOK
<1>2. /\ cohorts \in [Cohorts -> CohortRecords] /\ cohorts[c] \in CohortRecords
      /\ principal \in Nat /\ now \in Nat /\ d \in Durations
      /\ termRewardCarry \in [Durations -> Nat] /\ penalties \in [Durations -> Nat]
  BY CohortTypes DEF IInv, TypeOK, PositionRecords
<1>3. /\ cohorts[c].totalPrincipal \in Nat /\ cohorts[c].rewardPool \in Nat
      /\ cohorts[c].rewardsPaid \in Nat /\ cohorts[c].activePositions \in Nat
      /\ termRewardCarry[d] \in Nat /\ penalties[d] \in Nat
  BY <1>2 DEF CohortRecords
<1>4. penalty \in Nat /\ penalty <= principal
  <2> HIDE DEF principal
  <2> QED BY <1>2, ShareNat
<1> HIDE DEF penalty
<1>5. pool \in Nat /\ carried \in Nat /\ carried = (IF cohorts[c].activePositions = 1 THEN pool ELSE 0)
  BY <1>3, <1>4 DEF CarriedOnExit
<1>6. /\ cohorts[c].totalPrincipal - principal \in Nat /\ cohorts[c].activePositions - 1 \in Nat
      /\ pool - carried \in Nat /\ principal - penalty \in Nat
  BY <1>1, <1>2, <1>3, <1>4, <1>5 DEF CanLeave
<1> HIDE DEF carried
<1>7. entry \in CohortRecords
  <2> HIDE DEF principal, pool
  <2> QED BY <1>2, <1>6 DEF CohortRecords
<1>8. /\ entry.totalPrincipal = cohorts[c].totalPrincipal - principal
      /\ entry.activePositions = cohorts[c].activePositions - 1
      /\ entry.finalPrincipal = cohorts[c].finalPrincipal
      /\ entry.rewardPool = pool - carried
      /\ entry.rewardsPaid = cohorts[c].rewardsPaid
  BY <1>2 DEF CohortRecords
<1> HIDE DEF entry
<1>9. cohorts' \in [Cohorts -> CohortRecords] /\ cohorts'[c] = entry
      /\ \A b \in Cohorts \ {c} : cohorts'[b] = cohorts[b]
  BY <1>1, <1>2, <1>7
<1>10. /\ termRewardCarry' \in [Durations -> Nat] /\ termRewardCarry'[d] = termRewardCarry[d] + carried
       /\ \A e \in Durations \ {d} : termRewardCarry'[e] = termRewardCarry[e]
  BY <1>1, <1>2, <1>3, <1>5
<1>11. /\ penalties' \in [Durations -> Nat] /\ penalties'[d] = penalties[d] + penalty
       /\ \A e \in Durations \ {d} : penalties'[e] = penalties[e]
  BY <1>1, <1>2, <1>3, <1>4
<1>12. OnlyCohort(c)
  BY <1>9, <1>10 DEF OnlyCohort
<1>13. Book(c)' = Book(c) - (principal - penalty)
  <2>1. /\ Book(c) = cohorts[c].totalPrincipal + cohorts[c].rewardPool + termRewardCarry[d]
        /\ Book(c)' = (cohorts[c].totalPrincipal - principal) + (pool - carried)
                           + (termRewardCarry[d] + carried)
    BY <1>8, <1>9, <1>10 DEF Book
  <2>2. pool = cohorts[c].rewardPool + penalty
    OBVIOUS
  <2> HIDE DEF principal, pool, d
  <2> QED BY <1>2, <1>3, <1>4, <1>5, <2>1, <2>2
<1>14. KeptBook(c)' - KeptBook(c) = penalties'[d] - penalties[d]
  <2>1. /\ KeptBook(c) = cohorts[c].rewardPool + cohorts[c].rewardsPaid + termRewardCarry[d]
        /\ KeptBook(c)' = (pool - carried) + cohorts[c].rewardsPaid + (termRewardCarry[d] + carried)
    BY <1>8, <1>9, <1>10 DEF KeptBook
  <2>2. pool = cohorts[c].rewardPool + penalty
    OBVIOUS
  <2>3. KeptBook(c)' - KeptBook(c) = penalty
    <3> HIDE DEF principal, pool, d
    <3> QED BY <1>2, <1>3, <1>4, <1>5, <2>1, <2>2
  <2>4. penalties'[d] - penalties[d] = penalty
    <3> HIDE DEF d
    <3> QED BY <1>3, <1>4, <1>11
  <2> QED BY <2>3, <2>4
<1>15. cohorts'[c].activePositions = 0 => cohorts'[c].rewardPool = 0
  BY <1>3, <1>5, <1>6, <1>8, <1>9
<1>16. Rewarded(c)'
  <2>1. ~ Fixed(c) /\ cohorts[c].rewardsPaid = 0
    BY <1>1, <1>2, CohortTypes DEF IInv, Books, Rewarded
  <2> QED BY <1>1, <1>2, <1>8, <1>9, <2>1, CohortTypes DEF Rewarded, Fixed
<1> QED BY <1>1, <1>6, <1>8, <1>9, <1>10, <1>11, <1>12, <1>13, <1>14, <1>15, <1>16, LeaveKeeps

\* What a claim starts from: the first one fixes the rewards, and its own reward is a
\* rounded share of them.
LEMMA SettledFacts ==
    ASSUME IInv, NEW c \in Cohorts, NEW o \in Owners, MaturesAt(c) <= now, CanLeave(c, o)
    PROVE  /\ Settled(c) \in CohortRecords
           /\ SettledCarry(c) \in Nat
           /\ Settled(c).rewardPool + SettledCarry(c)
                  = cohorts[c].rewardPool + termRewardCarry[Duration(c)]
           /\ Settled(c).totalPrincipal = cohorts[c].totalPrincipal
           /\ Settled(c).activePositions = cohorts[c].activePositions
           /\ Settled(c).rewardsPaid = cohorts[c].rewardsPaid
           /\ Settled(c).finalPrincipal # 0
           /\ Settled(c).totalPrincipal <= Settled(c).finalPrincipal
           /\ Settled(c).remainingClaims = cohorts[c].activePositions
           /\ Settled(c).rewardPool + Settled(c).rewardsPaid = Settled(c).finalRewardPool
           /\ Settled(c).rewardsPaid * Settled(c).finalPrincipal
                  <= Settled(c).finalRewardPool * (Settled(c).finalPrincipal - Settled(c).totalPrincipal)
<1> DEFINE carry == termRewardCarry[Duration(c)]
           fixed == FixedPool(c)
<1>1. /\ cohorts[c] \in CohortRecords /\ carry \in Nat /\ positions[c][o].principal \in Nat
      /\ Rewarded(c)
  BY CohortTypes DEF IInv, TypeOK, PositionRecords, Books
<1>2. /\ cohorts[c].totalPrincipal \in Nat /\ cohorts[c].rewardPool \in Nat
      /\ cohorts[c].rewardsPaid \in Nat /\ cohorts[c].activePositions \in Nat
      /\ cohorts[c].finalPrincipal \in Nat
  BY <1>1 DEF CohortRecords
<1>3. cohorts[c].totalPrincipal # 0 /\ cohorts[c].activePositions # 0
  BY <1>1, <1>2 DEF CanLeave, Open
<1>4. fixed \in Nat /\ fixed <= cohorts[c].rewardPool + carry
  <2>1. MaximumCohortReward(c) \in Nat
    BY <1>2, ShareNat DEF MaximumCohortReward
  <2> QED BY <1>1, <1>2, <2>1 DEF FixedPool, Smaller
<1>5. CASE Fixed(c)
  <2>1. Settled(c) = cohorts[c] /\ SettledCarry(c) = carry
    BY <1>5 DEF Settled, SettledCarry
  <2> QED BY <1>1, <1>2, <1>3, <1>5, <2>1 DEF Rewarded, Fixed
<1>6. CASE ~ Fixed(c)
  <2>1. /\ Settled(c) = [cohorts[c] EXCEPT !.finalPrincipal = cohorts[c].totalPrincipal,
                                            !.remainingClaims = cohorts[c].activePositions,
                                            !.rewardPool = fixed, !.finalRewardPool = fixed]
        /\ SettledCarry(c) = carry + cohorts[c].rewardPool - fixed
    BY <1>6 DEF Settled, SettledCarry
  <2> HIDE DEF fixed
  <2>2. Settled(c) \in CohortRecords
    BY <1>1, <1>2, <1>4, <2>1 DEF CohortRecords
  <2>3. /\ Settled(c).totalPrincipal = cohorts[c].totalPrincipal
        /\ Settled(c).activePositions = cohorts[c].activePositions
        /\ Settled(c).rewardsPaid = cohorts[c].rewardsPaid
        /\ Settled(c).finalPrincipal = cohorts[c].totalPrincipal
        /\ Settled(c).remainingClaims = cohorts[c].activePositions
        /\ Settled(c).rewardPool = fixed /\ Settled(c).finalRewardPool = fixed
    BY <1>1, <2>1 DEF CohortRecords
  <2>4. SettledCarry(c) \in Nat /\ fixed + SettledCarry(c) = cohorts[c].rewardPool + carry
    BY <1>1, <1>2, <1>4, <2>1
  <2>5. cohorts[c].rewardsPaid = 0
    BY <1>1, <1>6 DEF Rewarded
  <2>6. /\ 0 * cohorts[c].totalPrincipal = 0
        /\ fixed * (cohorts[c].totalPrincipal - cohorts[c].totalPrincipal) = 0
    BY <1>2, <1>4
  <2> QED BY <1>2, <1>3, <1>4, <2>2, <2>3, <2>4, <2>5, <2>6
<1> QED BY <1>5, <1>6

\* The reward of an open position is in the pool, whoever claimed before.
LEMMA RewardFacts ==
    ASSUME IInv, NEW c \in Cohorts, NEW o \in Owners, MaturesAt(c) <= now, CanLeave(c, o)
    PROVE  /\ Reward(c, o) \in Nat /\ Reward(c, o) <= Settled(c).rewardPool
           /\ (Settled(c).rewardsPaid + Reward(c, o)) * Settled(c).finalPrincipal
                <= Settled(c).finalRewardPool
                       * (Settled(c).finalPrincipal - (Settled(c).totalPrincipal - positions[c][o].principal))
<1> DEFINE p == positions[c][o].principal
           pool == Settled(c).finalRewardPool
           final == Settled(c).finalPrincipal
           paid == Settled(c).rewardsPaid
           left == Settled(c).totalPrincipal
           reward == Reward(c, o)
<1>1. p \in Nat /\ pool \in Nat /\ final \in Nat /\ paid \in Nat /\ left \in Nat
      /\ Settled(c).rewardPool \in Nat
  BY SettledFacts DEF IInv, TypeOK, PositionRecords, CohortRecords
<1>2. /\ final # 0 /\ p <= left /\ left <= final
      /\ Settled(c).rewardPool + paid = pool
      /\ paid * final <= pool * (final - left)
  BY SettledFacts DEF CanLeave
<1>3. reward = Smaller((pool * p) \div final, Share(p, MAXIMUM_REWARD_BPS))
  BY DEF Reward
<1> HIDE DEF p, pool, final, paid, left, reward
<1>4. pool * p \in Nat
  BY <1>1, ProductNat
<1>5. (pool * p) \div final \in Nat /\ ((pool * p) \div final) * final <= pool * p
  BY <1>1, <1>2, <1>4, QuotientBound
<1>6. reward \in Nat /\ reward <= (pool * p) \div final
  BY <1>1, <1>3, <1>5, ShareNat DEF Smaller
<1>7. reward * final <= pool * p
  <2> DEFINE q == (pool * p) \div final
  <2>1. q \in Nat /\ reward <= q /\ q * final <= pool * p
    BY <1>5, <1>6
  <2> HIDE DEF q
  <2>2. reward * final <= q * final
    BY <1>1, <1>6, <2>1
  <2>3. reward * final \in Nat /\ q * final \in Nat
    BY <1>1, <1>6, <2>1, ProductNat
  <2> QED BY <1>4, <2>1, <2>2, <2>3
<1>8. (paid + reward) * final <= pool * (final - (left - p)) /\ paid + reward <= pool
  BY <1>1, <1>2, <1>6, <1>7, PaidFits
<1>9. reward <= Settled(c).rewardPool
  BY <1>1, <1>2, <1>6, <1>8
<1> QED BY <1>6, <1>8, <1>9 DEF p, pool, final, paid, left, reward

LEMMA ClaimKeeps ==
    ASSUME IInv, NEW c \in Cohorts, NEW o \in Owners, claim(c, o)
    PROVE  IInv'
<1> DEFINE principal == positions[c][o].principal
           reward == Reward(c, o)
           settled == Settled(c)
           carry == SettledCarry(c)
           rest == settled.rewardPool - reward
           last == settled.remainingClaims = 1
           entry == [settled EXCEPT !.totalPrincipal = @ - principal,
                                    !.activePositions = @ - 1,
                                    !.remainingClaims = @ - 1,
                                    !.rewardsPaid = @ + reward,
                                    !.rewardPool = IF last THEN 0 ELSE rest]
           left == IF last THEN rest ELSE 0
           d == Duration(c)
<1>1. /\ MaturesAt(c) <= now /\ CanLeave(c, o) /\ Leave(c, o, "claimed") /\ PayOut(principal + reward)
      /\ cohorts' = [cohorts EXCEPT ![c] = entry]
      /\ termRewardCarry' = [termRewardCarry EXCEPT ![d] = carry + left]
      /\ UNCHANGED <<now, penalties>>
  BY DEF claim, Covered
<1>2. /\ settled \in CohortRecords /\ carry \in Nat /\ reward \in Nat
      /\ settled.rewardPool + carry = cohorts[c].rewardPool + termRewardCarry[d]
      /\ settled.totalPrincipal = cohorts[c].totalPrincipal
      /\ settled.activePositions = cohorts[c].activePositions
      /\ settled.rewardsPaid = cohorts[c].rewardsPaid
      /\ settled.finalPrincipal # 0
      /\ settled.totalPrincipal <= settled.finalPrincipal
      /\ settled.remainingClaims = cohorts[c].activePositions
      /\ settled.rewardPool + settled.rewardsPaid = settled.finalRewardPool
      /\ reward <= settled.rewardPool
      /\ (settled.rewardsPaid + reward) * settled.finalPrincipal
            <= settled.finalRewardPool * (settled.finalPrincipal - (settled.totalPrincipal - principal))
  BY <1>1, SettledFacts, RewardFacts
<1> HIDE DEF reward, settled, carry
<1>3. /\ cohorts \in [Cohorts -> CohortRecords] /\ principal \in Nat /\ now \in Nat /\ d \in Durations
      /\ termRewardCarry \in [Durations -> Nat] /\ penalties \in [Durations -> Nat]
      /\ termRewardCarry[d] \in Nat /\ cohorts[c].rewardPool \in Nat
      /\ cohorts[c].totalPrincipal \in Nat /\ cohorts[c].activePositions \in Nat
      /\ cohorts[c].rewardsPaid \in Nat
  BY CohortTypes DEF IInv, TypeOK, PositionRecords, CohortRecords
<1>4. /\ settled.rewardPool \in Nat /\ settled.finalPrincipal \in Nat /\ settled.finalRewardPool \in Nat
  BY <1>2 DEF CohortRecords
<1>pool. /\ carry \in Nat /\ reward \in Nat
         /\ settled.rewardPool + carry = cohorts[c].rewardPool + termRewardCarry[d]
         /\ settled.rewardPool + cohorts[c].rewardsPaid = settled.finalRewardPool
  BY <1>2
<1>5. /\ principal <= cohorts[c].totalPrincipal /\ cohorts[c].activePositions >= 1
  BY <1>1 DEF CanLeave
<1> HIDE DEF principal
<1>6. /\ settled.totalPrincipal - principal \in Nat /\ settled.activePositions - 1 \in Nat
      /\ settled.remainingClaims - 1 \in Nat /\ settled.rewardsPaid + reward \in Nat
      /\ rest \in Nat /\ left \in Nat /\ (IF last THEN 0 ELSE rest) = rest - left
      /\ (last <=> cohorts[c].activePositions = 1)
  BY <1>2, <1>3, <1>4, <1>5
<1>7. rest = settled.rewardPool - reward
  OBVIOUS
<1> HIDE DEF rest, left, last
<1>8. rest \in Nat /\ left \in Nat /\ rest - left \in Nat
  BY <1>6 DEF left
<1>9. entry \in CohortRecords
  BY <1>2, <1>6, <1>8 DEF CohortRecords
<1>10. /\ entry.totalPrincipal = cohorts[c].totalPrincipal - principal
       /\ entry.activePositions = cohorts[c].activePositions - 1
       /\ entry.remainingClaims = cohorts[c].activePositions - 1
       /\ entry.finalPrincipal = settled.finalPrincipal
       /\ entry.rewardPool = rest - left
       /\ entry.finalRewardPool = settled.finalRewardPool
       /\ entry.rewardsPaid = cohorts[c].rewardsPaid + reward
  BY <1>2, <1>6 DEF CohortRecords
<1> HIDE DEF entry
<1>11. cohorts' \in [Cohorts -> CohortRecords] /\ cohorts'[c] = entry
       /\ \A b \in Cohorts \ {c} : cohorts'[b] = cohorts[b]
  BY <1>1, <1>3, <1>9
<1>12. /\ carry + left \in Nat
       /\ termRewardCarry' \in [Durations -> Nat] /\ termRewardCarry'[d] = carry + left
       /\ \A e \in Durations \ {d} : termRewardCarry'[e] = termRewardCarry[e]
  BY <1>1, <1>2, <1>3, <1>6
<1>13. OnlyCohort(c)
  BY <1>11, <1>12 DEF OnlyCohort
<1>14. Book(c)' = Book(c) - (principal + reward)
  <2>1. /\ Book(c) = cohorts[c].totalPrincipal + cohorts[c].rewardPool + termRewardCarry[d]
        /\ Book(c)' = (cohorts[c].totalPrincipal - principal) + (rest - left) + (carry + left)
    BY <1>10, <1>11, <1>12 DEF Book
  <2> HIDE DEF d
  <2> QED BY <1>3, <1>4, <1>pool, <1>7, <1>8, <2>1
<1>15. KeptBook(c)' - KeptBook(c) = penalties'[d] - penalties[d]
  <2>1. /\ KeptBook(c) = cohorts[c].rewardPool + cohorts[c].rewardsPaid + termRewardCarry[d]
        /\ KeptBook(c)' = (rest - left) + (cohorts[c].rewardsPaid + reward) + (carry + left)
    BY <1>10, <1>11, <1>12 DEF KeptBook
  <2>2. penalties'[d] - penalties[d] = 0
    BY <1>1, <1>3
  <2>3. KeptBook(c)' - KeptBook(c) = 0
    <3> HIDE DEF d
    <3> QED BY <1>3, <1>4, <1>pool, <1>7, <1>8, <2>1
  <2> QED BY <2>2, <2>3
<1>16. cohorts'[c].activePositions = 0 => cohorts'[c].rewardPool = 0
  BY <1>3, <1>6, <1>10, <1>11 DEF left
<1>17. Rewarded(c)'
  <2>1. Fixed(c)' /\ now' = now
    BY <1>1, <1>2, <1>10, <1>11 DEF Fixed
  <2>2. ~ (now' < StartsAt(c))
    BY <1>1, <1>3, CohortTypes
  <2>3. cohorts'[c].remainingClaims = cohorts'[c].activePositions
    BY <1>10, <1>11
  <2>4. cohorts'[c].totalPrincipal <= cohorts'[c].finalPrincipal
    BY <1>2, <1>3, <1>4, <1>5, <1>10, <1>11
  <2>5. cohorts'[c].activePositions # 0 =>
            cohorts'[c].rewardPool + cohorts'[c].rewardsPaid = cohorts'[c].finalRewardPool
    <3> SUFFICES ASSUME cohorts'[c].activePositions # 0
                 PROVE  cohorts'[c].rewardPool + cohorts'[c].rewardsPaid = cohorts'[c].finalRewardPool
      OBVIOUS
    <3>1. ~ last /\ left = 0
      BY <1>3, <1>6, <1>10, <1>11 DEF left
    <3> HIDE DEF d
    <3> QED BY <1>3, <1>4, <1>pool, <1>7, <1>8, <1>10, <1>11, <3>1
  <2>6. cohorts'[c].rewardsPaid * cohorts'[c].finalPrincipal
            <= cohorts'[c].finalRewardPool * (cohorts'[c].finalPrincipal - cohorts'[c].totalPrincipal)
    BY <1>2, <1>10, <1>11
  <2> QED BY <1>1, <2>1, <2>2, <2>3, <2>4, <2>5, <2>6 DEF Rewarded
<1>18. principal + reward \in Nat
  BY <1>2, <1>3
<1>19. /\ penalties' \in [Durations -> Nat]
       /\ \A e \in Durations \ {d} : penalties'[e] = penalties[e]
  BY <1>1, <1>3
<1>20. /\ cohorts'[c].totalPrincipal = cohorts[c].totalPrincipal - positions[c][o].principal
       /\ cohorts'[c].activePositions = cohorts[c].activePositions - 1
  BY <1>10, <1>11 DEF principal
<1> QED BY <1>1, <1>11, <1>12, <1>13, <1>14, <1>15, <1>16, <1>17, <1>18, <1>19, <1>20, LeaveKeeps

\* Tokens sent to the vault, and time.
LEMMA OthersKeep ==
    ASSUME IInv, Donate \/ Tick \/ UNCHANGED vars
    PROVE  IInv'
<1>1. /\ UNCHANGED <<cohorts, positions, termRewardCarry, totalManaged, penalties>>
      /\ held \in Nat /\ held' \in Nat /\ held <= held'
      /\ now \in Nat /\ now' \in Nat /\ now <= now'
  BY DEF Donate, Tick, vars, IInv, TypeOK
<1>2. TypeOK'
  BY <1>1 DEF IInv, TypeOK
<1>3. Solvent'
  <2>1. Principals' = Principals /\ Pools' = Pools /\ totalManaged \in Nat
    BY <1>1 DEF Principals, Pools, IInv, TypeOK
  <2> QED BY <1>1, <2>1 DEF IInv, Solvent, Total, Units
<1>4. PenaltiesStayInTheirTerm'
  <2>1. \A d \in Durations : Kept(d)' = Kept(d)
    BY <1>1 DEF Kept
  <2> QED BY <1>1, <2>1 DEF IInv, PenaltiesStayInTheirTerm, Total, Units
<1>5. ASSUME NEW c \in Cohorts
      PROVE  Counted(c)' /\ Rewarded(c)'
  <2>1. Saved(c)' = Saved(c) /\ OpenOwners(c)' = OpenOwners(c)
    BY <1>1 DEF Saved, OpenOwners, Open
  <2>2. Counted(c)'
    BY <1>1, <2>1 DEF IInv, Books, Counted, Total, Units
  <2>3. Rewarded(c)'
    BY <1>1, RewardedKept DEF IInv, Books
  <2> QED BY <2>2, <2>3
<1> QED BY <1>2, <1>3, <1>4, <1>5 DEF IInv, Books

LEMMA InitHolds == Init => IInv
<1> SUFFICES ASSUME Init PROVE IInv
  OBVIOUS
<1>1. Fresh \in CohortRecords /\ [principal |-> 0, state |-> "open"] \in PositionRecords
  BY DEF Fresh, CohortRecords, PositionRecords
<1>2. TypeOK
  BY <1>1 DEF Init, TypeOK
<1>3. /\ \A c \in Cohorts : cohorts[c] = Fresh
      /\ \A c \in Cohorts, o \in Owners : positions[c][o].principal = 0
      /\ \A d \in Durations : termRewardCarry[d] = 0 /\ penalties[d] = 0
      /\ totalManaged = 0 /\ held = 0 /\ now = 0
  BY DEF Init
<1>4. /\ Fresh.totalPrincipal = 0 /\ Fresh.rewardPool = 0 /\ Fresh.rewardsPaid = 0
      /\ Fresh.activePositions = 0 /\ Fresh.finalPrincipal = 0
  BY DEF Fresh
<1>5. Solvent
  <2>1. Total(Principals) = 0
    BY <1>3, <1>4, TotalZero DEF Principals
  <2>2. Total(Pools) = 0
    BY <1>3, <1>4, TotalZero DEF Pools
  <2>3. Total(termRewardCarry) = 0
    BY <1>2, <1>3, TotalZero DEF TypeOK
  <2> HIDE DEF Total
  <2> QED BY <1>3, <2>1, <2>2, <2>3 DEF Solvent
<1>6. PenaltiesStayInTheirTerm
  <2>1. \A d \in Durations : Total(Kept(d)) = 0
    <3> TAKE d \in Durations
    <3>1. \A c \in DOMAIN Kept(d) : Kept(d)[c] = 0
      BY <1>3, <1>4 DEF Kept
    <3> QED BY <3>1, TotalZero
  <2> HIDE DEF Total
  <2> QED BY <1>3, <1>4, <2>1 DEF PenaltiesStayInTheirTerm
<1>7. ASSUME NEW c \in Cohorts
      PROVE  Counted(c) /\ Rewarded(c)
  <2>1. Total(Saved(c)) = 0
    BY <1>3, TotalZero DEF Saved
  <2>2. OpenOwners(c) = {}
    BY <1>3 DEF OpenOwners, Open
  <2>3. Cardinality(OpenOwners(c)) = 0
    BY <2>2, FS_EmptySet
  <2>4. Counted(c)
    BY <1>3, <1>4, <2>1, <2>3 DEF Counted
  <2>5. Rewarded(c)
    BY <1>3, <1>4 DEF Rewarded, Fixed
  <2> QED BY <2>4, <2>5
<1> QED BY <1>2, <1>5, <1>6, <1>7 DEF IInv, Books

LEMMA StepsKeep == IInv /\ [Next]_vars => IInv'
<1> SUFFICES ASSUME IInv, [Next]_vars PROVE IInv'
  OBVIOUS
<1>1. ASSUME NEW o \in Owners, NEW d \in Durations, NEW amount \in Amounts, deposit(o, d, amount)
      PROVE  IInv'
  BY <1>1, DepositKeeps
<1>2. ASSUME NEW c \in Cohorts, NEW o \in Owners, cancelBeforeStart(c, o) \/ exitEarly(c, o) \/ claim(c, o)
      PROVE  IInv'
  BY <1>2, CancelKeeps, ExitKeeps, ClaimKeeps
<1>3. CASE Donate \/ Tick \/ UNCHANGED vars
  BY <1>3, OthersKeep
<1> QED BY <1>1, <1>2, <1>3 DEF Next

\* The inductive invariant, for any savers, durations, amounts and bounds.
THEOREM BooksInvariant == Spec => []IInv
BY InitHolds, StepsKeep, PTL DEF Spec

\* Every variable keeps its type: no counter of the vault ever goes below zero.
THEOREM TypeCorrect == Spec => []TypeOK
BY BooksInvariant, PTL DEF IInv

\* What savers put in, the pools and the carried rewards are what the vault manages, and
\* it holds them, whatever is deposited, cancelled, left early, claimed or sent to it.
THEOREM VaultSolvent == Spec => []Solvent
BY BooksInvariant, PTL DEF IInv

\* No penalty leaves its term, and none is left in a cohort that nobody can claim from.
THEOREM PenaltiesInTerm == Spec => []PenaltiesStayInTheirTerm
BY BooksInvariant, PTL DEF IInv

\* Nobody's money is lost or promised twice, and no penalty is.
THEOREM BooksBalanced == Spec => []BooksBalance
BY VaultSolvent, PenaltiesInTerm, PTL DEF BooksBalance

\* However rewards are rounded and in whatever order savers claim, the last one's claim of
\* a matured cohort is covered like the first one's.
THEOREM ClaimsCovered == Spec => []ClaimsAlwaysCovered
<1>1. IInv => ClaimsAlwaysCovered
  <2> SUFFICES ASSUME IInv, NEW c \in Cohorts, NEW o \in Owners, MaturesAt(c) <= now, Open(c, o)
               PROVE  Covered(c, o)
    BY DEF ClaimsAlwaysCovered
  <2> DEFINE d == Duration(c)
  <2>1. CanLeave(c, o)
    BY OpenCounts DEF IInv
  <2>2. /\ Settled(c).remainingClaims = cohorts[c].activePositions
        /\ Settled(c).rewardPool + SettledCarry(c) = cohorts[c].rewardPool + termRewardCarry[d]
        /\ SettledCarry(c) \in Nat /\ Settled(c) \in CohortRecords
    BY <2>1, SettledFacts
  <2>3. Reward(c, o) \in Nat /\ Reward(c, o) <= Settled(c).rewardPool
    BY <2>1, RewardFacts
  <2>4. /\ Principals \in [Cohorts -> Nat] /\ Pools \in [Cohorts -> Nat]
        /\ termRewardCarry \in [Durations -> Nat] /\ d \in Durations
        /\ Principals[c] = cohorts[c].totalPrincipal /\ Pools[c] = cohorts[c].rewardPool
        /\ positions[c][o].principal \in Nat /\ totalManaged \in Nat /\ held \in Nat
        /\ cohorts[c].totalPrincipal \in Nat /\ cohorts[c].rewardPool \in Nat
    BY CohortTypes DEF IInv, TypeOK, CohortRecords, PositionRecords, Principals, Pools
  <2>5. /\ Principals[c] <= Total(Principals) /\ Total(Principals) \in Nat
        /\ Pools[c] <= Total(Pools) /\ Total(Pools) \in Nat
    BY <2>4, CohortsFinite, EntryAtMostTotal, TotalNat
  <2>6. termRewardCarry[d] <= Total(termRewardCarry) /\ Total(termRewardCarry) \in Nat
    BY <2>4, LockedSavingsAssumption, EntryAtMostTotal, TotalNat
  <2>7. Settled(c).rewardPool \in Nat /\ termRewardCarry[d] \in Nat
    BY <2>2, <2>4 DEF CohortRecords
  <2>8. totalManaged >= positions[c][o].principal + Reward(c, o) /\ totalManaged <= held
    <3>1. positions[c][o].principal <= cohorts[c].totalPrincipal
      BY <2>1 DEF CanLeave
    <3>2. Reward(c, o) <= cohorts[c].rewardPool + termRewardCarry[d]
      <4> HIDE DEF d
      <4> QED BY <2>2, <2>3, <2>4, <2>7
    <3>3. Total(Principals) + Total(Pools) + Total(termRewardCarry) = totalManaged /\ totalManaged <= held
      BY DEF IInv, Solvent
    <3> HIDE DEF d
    <3> QED BY <2>3, <2>4, <2>5, <2>6, <2>7, <3>1, <3>2, <3>3
  <2>9. held >= positions[c][o].principal + Reward(c, o)
    BY <2>3, <2>4, <2>8
  <2> QED BY <2>1, <2>2, <2>3, <2>8, <2>9 DEF Covered, CanLeave
<1> QED BY <1>1, BooksInvariant, PTL

-----------------------------------------------------------------------------
(* Fairness: all claims of a cohort are paid by the rates the first fixed.  *)

RewardOf(final, pool, p) == Smaller((pool * p) \div final, Share(p, MAXIMUM_REWARD_BPS))

PaidAsFixed ==
    \A r \in rewarded :
        /\ r.cohort \in Cohorts /\ r.principal \in Nat
        /\ Fixed(r.cohort)
        /\ r.reward = RewardOf(cohorts[r.cohort].finalPrincipal,
                               cohorts[r.cohort].finalRewardPool, r.principal)

LEMMA QuotientMonotone ==
    ASSUME NEW a \in Nat, NEW b \in Nat, NEW n \in Nat \ {0}, a <= b
    PROVE  a \div n \in Nat /\ b \div n \in Nat /\ a \div n <= b \div n
OBVIOUS

LEMMA RewardMonotone ==
    ASSUME NEW final \in Nat \ {0}, NEW pool \in Nat, NEW p \in Nat, NEW q \in Nat, p <= q
    PROVE  RewardOf(final, pool, p) <= RewardOf(final, pool, q)
<1>1. pool * p \in Nat /\ pool * q \in Nat /\ pool * p <= pool * q
  OBVIOUS
<1>2. /\ (pool * p) \div final \in Nat /\ (pool * q) \div final \in Nat
      /\ (pool * p) \div final <= (pool * q) \div final
  <2> DEFINE a == pool * p  b == pool * q
  <2>1. a \in Nat /\ b \in Nat /\ a <= b
    BY <1>1
  <2> HIDE DEF a, b
  <2>2. a \div final \in Nat /\ b \div final \in Nat /\ a \div final <= b \div final
    BY <2>1, QuotientMonotone
  <2> QED BY <2>2 DEF a, b
<1>3. /\ Share(p, MAXIMUM_REWARD_BPS) \in Nat /\ Share(q, MAXIMUM_REWARD_BPS) \in Nat
      /\ Share(p, MAXIMUM_REWARD_BPS) <= Share(q, MAXIMUM_REWARD_BPS)
  BY DEF Share, MAXIMUM_REWARD_BPS, BPS
<1> DEFINE x == (pool * p) \div final  y == (pool * q) \div final
           s == Share(p, MAXIMUM_REWARD_BPS)  t == Share(q, MAXIMUM_REWARD_BPS)
<1>4. x \in Nat /\ y \in Nat /\ s \in Nat /\ t \in Nat /\ x <= y /\ s <= t
  BY <1>2, <1>3
<1> HIDE DEF x, y, s, t
<1>5. Smaller(x, s) <= Smaller(y, t)
  BY <1>4 DEF Smaller
<1> QED BY <1>5 DEF RewardOf, x, y, s, t

\* What the first claim fixed stays fixed.
LEMMA FinalsKept ==
    ASSUME IInv, [Next]_vars, NEW c \in Cohorts, Fixed(c)
    PROVE  /\ cohorts'[c].finalPrincipal = cohorts[c].finalPrincipal
           /\ cohorts'[c].finalRewardPool = cohorts[c].finalRewardPool
<1>0. cohorts \in [Cohorts -> CohortRecords] /\ cohorts[c] \in CohortRecords
  BY DEF IInv, TypeOK
<1>1. ASSUME NEW o \in Owners, NEW d \in Durations, NEW amount \in Amounts, deposit(o, d, amount)
      PROVE  /\ cohorts'[c].finalPrincipal = cohorts[c].finalPrincipal
             /\ cohorts'[c].finalRewardPool = cohorts[c].finalRewardPool
  BY <1>0, <1>1 DEF deposit, CohortRecords
<1>2. ASSUME NEW b \in Cohorts, NEW o \in Owners, cancelBeforeStart(b, o)
      PROVE  /\ cohorts'[c].finalPrincipal = cohorts[c].finalPrincipal
             /\ cohorts'[c].finalRewardPool = cohorts[c].finalRewardPool
  BY <1>0, <1>2 DEF cancelBeforeStart, CohortRecords
<1>3. ASSUME NEW b \in Cohorts, NEW o \in Owners, exitEarly(b, o)
      PROVE  /\ cohorts'[c].finalPrincipal = cohorts[c].finalPrincipal
             /\ cohorts'[c].finalRewardPool = cohorts[c].finalRewardPool
  BY <1>0, <1>3 DEF exitEarly, CohortRecords
<1>4. ASSUME NEW b \in Cohorts, NEW o \in Owners, claim(b, o)
      PROVE  /\ cohorts'[c].finalPrincipal = cohorts[c].finalPrincipal
             /\ cohorts'[c].finalRewardPool = cohorts[c].finalRewardPool
  <2>1. b = c => Settled(b) = cohorts[c]
    BY DEF Settled
  <2> QED BY <1>0, <1>4, <2>1 DEF claim, CohortRecords
<1>5. CASE Donate \/ Tick \/ UNCHANGED vars
  BY <1>5 DEF Donate, Tick, vars
<1> QED BY <1>1, <1>2, <1>3, <1>4, <1>5 DEF Next

LEMMA PaidAsFixedKept ==
    ASSUME IInv, IInv', PaidAsFixed, [Next]_vars
    PROVE  PaidAsFixed'
<1>1. ASSUME NEW r \in rewarded
      PROVE  /\ r.cohort \in Cohorts /\ r.principal \in Nat /\ Fixed(r.cohort)'
             /\ r.reward = RewardOf(cohorts'[r.cohort].finalPrincipal,
                                    cohorts'[r.cohort].finalRewardPool, r.principal)
  BY FinalsKept DEF PaidAsFixed, Fixed
<1>2. CASE rewarded' = rewarded
  BY <1>1, <1>2 DEF PaidAsFixed
<1>3. ASSUME NEW c \in Cohorts, NEW o \in Owners, claim(c, o)
      PROVE  PaidAsFixed'
  <2> DEFINE p == positions[c][o].principal
             new == [cohort |-> c, principal |-> p, reward |-> Reward(c, o)]
  <2>1. rewarded' = rewarded \cup {new} /\ MaturesAt(c) <= now /\ CanLeave(c, o) /\ p \in Nat
    BY <1>3 DEF claim, Covered, IInv, TypeOK, PositionRecords
  <2>2. Settled(c) \in CohortRecords /\ Settled(c).finalPrincipal # 0
    BY <2>1, SettledFacts
  <2>3. /\ cohorts'[c].finalPrincipal = Settled(c).finalPrincipal
        /\ cohorts'[c].finalRewardPool = Settled(c).finalRewardPool
    BY <1>3, <2>2 DEF claim, CohortRecords, IInv, TypeOK
  <2>4. Reward(c, o) = RewardOf(Settled(c).finalPrincipal, Settled(c).finalRewardPool, p)
    BY DEF Reward, RewardOf
  <2>5. /\ new.cohort \in Cohorts /\ new.principal \in Nat /\ Fixed(new.cohort)'
        /\ new.reward = RewardOf(cohorts'[new.cohort].finalPrincipal,
                                 cohorts'[new.cohort].finalRewardPool, new.principal)
    BY <2>1, <2>2, <2>3, <2>4 DEF Fixed
  <2>6. PICK q : q = new
    OBVIOUS
  <2>7. rewarded' = rewarded \cup {q}
    BY <2>1, <2>6
  <2>8. /\ q.cohort \in Cohorts /\ q.principal \in Nat /\ Fixed(q.cohort)'
        /\ q.reward = RewardOf(cohorts'[q.cohort].finalPrincipal,
                              cohorts'[q.cohort].finalRewardPool, q.principal)
    BY <2>5, <2>6
  <2> HIDE DEF new, p
  <2>9. SUFFICES ASSUME NEW r \in rewarded \cup {q}
                 PROVE  /\ r.cohort \in Cohorts /\ r.principal \in Nat /\ Fixed(r.cohort)'
                        /\ r.reward = RewardOf(cohorts'[r.cohort].finalPrincipal,
                                               cohorts'[r.cohort].finalRewardPool, r.principal)
    BY <2>7 DEF PaidAsFixed
  <2>10. CASE r = q
    BY <2>8, <2>10
  <2>11. CASE r \in rewarded
    BY <1>1, <2>11
  <2> QED BY <2>10, <2>11
<1> QED BY <1>2, <1>3 DEF Next, deposit, cancelBeforeStart, exitEarly, Donate, Tick, vars

\* Of two claims of one cohort the larger principal is never rewarded less, and equal
\* ones alike, whatever happened between the two claims.
THEOREM FairClaims == Spec => []FairInAnyOrder
<1>1. Init => PaidAsFixed
  BY DEF Init, PaidAsFixed
<1>2. IInv /\ IInv' /\ PaidAsFixed /\ [Next]_vars => PaidAsFixed'
  BY PaidAsFixedKept
<1>3. IInv /\ PaidAsFixed => FairInAnyOrder
  <2> SUFFICES ASSUME IInv, PaidAsFixed, NEW r \in rewarded, NEW s \in rewarded,
                      r.cohort = s.cohort, r.principal <= s.principal
               PROVE  r.reward <= s.reward
    BY DEF FairInAnyOrder
  <2> DEFINE final == cohorts[r.cohort].finalPrincipal
             pool == cohorts[r.cohort].finalRewardPool
  <2>1. /\ r.cohort \in Cohorts /\ r.principal \in Nat /\ s.principal \in Nat /\ Fixed(r.cohort)
        /\ r.reward = RewardOf(final, pool, r.principal) /\ s.reward = RewardOf(final, pool, s.principal)
    BY DEF PaidAsFixed
  <2>2. final \in Nat \ {0} /\ pool \in Nat
    BY <2>1 DEF IInv, TypeOK, CohortRecords, Fixed
  <2> HIDE DEF final, pool
  <2> QED BY <2>1, <2>2, RewardMonotone
<1> QED BY <1>1, <1>2, <1>3, BooksInvariant, PTL DEF Spec

-----------------------------------------------------------------------------
(* The promise to savers, step by step.  SavingsPromise sees the rewards   *)
(* of a duration as one sum; a step moves within it what a cohort pools,   *)
(* fixes and carries, and changes the sum by a penalty or by a reward.     *)

\* A step in one cohort changes the rewards of its duration by what it moves in the
\* cohort's pool and the duration's carry together.
LEMMA RewardsMove ==
    ASSUME TypeOK, TypeOK', NEW c \in Cohorts, OnlyCohort(c),
           NEW n \in Int,
           (cohorts'[c].rewardPool + termRewardCarry'[Duration(c)])
               - (cohorts[c].rewardPool + termRewardCarry[Duration(c)]) = n
    PROVE  /\ RewardsOf' = [RewardsOf EXCEPT ![Duration(c)] = @ + n]
           /\ RewardsOf \in [Durations -> Nat]
           /\ cohorts[c].rewardPool + termRewardCarry[Duration(c)] <= RewardsOf[Duration(c)]
<1>1. ASSUME NEW d \in Durations
      PROVE  /\ PoolsOf(d) \in [Cohorts -> Nat] /\ Total(PoolsOf(d)) \in Nat /\ Total(PoolsOf(d)') \in Nat
             /\ Total(PoolsOf(d)') - Total(PoolsOf(d)) = PoolsOf(d)'[c] - PoolsOf(d)[c]
  <2>1. PoolsOf(d) \in [Cohorts -> Nat] /\ PoolsOf(d)' \in [Cohorts -> Nat]
    BY DEF TypeOK, CohortRecords, PoolsOf
  <2>2. \A b \in Cohorts \ {c} : PoolsOf(d)'[b] = PoolsOf(d)[b]
    BY DEF PoolsOf, OnlyCohort
  <2> QED BY <2>1, <2>2, CohortsFinite, OneEntry
<1>2. \A d \in Durations : /\ termRewardCarry[d] \in Nat /\ termRewardCarry'[d] \in Nat
                           /\ RewardsOf[d] = termRewardCarry[d] + Total(PoolsOf(d))
                           /\ RewardsOf'[d] = termRewardCarry'[d] + Total(PoolsOf(d)')
  BY DEF TypeOK, RewardsOf, Total, Units
<1>3. Duration(c) \in Durations /\ cohorts[c].rewardPool \in Nat /\ cohorts'[c].rewardPool \in Nat
  BY CohortTypes DEF TypeOK, CohortRecords
<1>4. RewardsOf'[Duration(c)] = RewardsOf[Duration(c)] + n
  <2> DEFINE d == Duration(c)
  <2>1. PoolsOf(d)[c] = cohorts[c].rewardPool /\ PoolsOf(d)'[c] = cohorts'[c].rewardPool
    BY DEF PoolsOf
  <2> QED BY <1>1, <1>2, <1>3, <2>1
<1>5. ASSUME NEW d \in Durations \ {Duration(c)} PROVE RewardsOf'[d] = RewardsOf[d]
  <2>1. PoolsOf(d)[c] = 0 /\ PoolsOf(d)'[c] = 0
    BY DEF PoolsOf
  <2>2. termRewardCarry'[d] = termRewardCarry[d]
    BY DEF OnlyCohort
  <2> QED BY <1>1, <1>2, <2>1, <2>2
<1>6. DOMAIN RewardsOf = Durations /\ DOMAIN RewardsOf' = Durations
      /\ RewardsOf = [d \in Durations |-> RewardsOf[d]] /\ RewardsOf' = [d \in Durations |-> RewardsOf'[d]]
  BY DEF RewardsOf
<1>7. RewardsOf \in [Durations -> Nat]
  BY <1>1, <1>2, <1>6
<1>8. RewardsOf' = [RewardsOf EXCEPT ![Duration(c)] = @ + n]
  BY <1>3, <1>4, <1>5, <1>6
<1>9. cohorts[c].rewardPool <= Total(PoolsOf(Duration(c)))
  <2> DEFINE f == PoolsOf(Duration(c))
  <2>1. f[c] = cohorts[c].rewardPool /\ DOMAIN f = Cohorts /\ f \in [Cohorts -> Nat]
    BY <1>1, <1>3 DEF PoolsOf
  <2> HIDE DEF f
  <2>2. f[c] <= Total(f)
    BY <2>1, CohortsFinite, EntryAtMostTotal
  <2> QED BY <2>1, <2>2 DEF f
<1> QED BY <1>1, <1>2, <1>3, <1>7, <1>8, <1>9

\* The same, where nothing moves.
LEMMA RewardsStay ==
    ASSUME UNCHANGED termRewardCarry, \A c \in Cohorts : cohorts'[c].rewardPool = cohorts[c].rewardPool
    PROVE  RewardsOf' = RewardsOf
<1>1. \A d \in Durations : PoolsOf(d)' = PoolsOf(d)
  BY DEF PoolsOf
<1> QED BY <1>1 DEF RewardsOf, Total, Units

LEMMA SavePromised ==
    ASSUME IInv, NEW o \in Owners, NEW d \in Durations, NEW amount \in Amounts, deposit(o, d, amount)
    PROVE  Promise!Next
<1>0. PICK c \in Cohorts : c = <<nextStart, d>>
  BY DEF deposit
<1>1. now < c[1]
  BY <1>0, NextIsLater, LockedSavingsAssumption DEF nextStart, IInv, TypeOK
<1>2. /\ positions[c][o].state = "open" /\ UNCHANGED <<termRewardCarry, now>>
      /\ positions' = [positions EXCEPT ![c][o].principal = @ + amount]
      /\ totalManaged' = totalManaged + amount
      /\ cohorts' = [cohorts EXCEPT ![c].activePositions = IF Open(c, o) THEN @ ELSE @ + 1,
                                    ![c].totalPrincipal = @ + amount]
  BY <1>0 DEF deposit
<1>3. amount \in Nat /\ amount > 0 /\ totalManaged \in Nat
      /\ cohorts \in [Cohorts -> CohortRecords]
  BY LockedSavingsAssumption DEF deposit, IInv, TypeOK
<1>4. \A b \in Cohorts : cohorts'[b].rewardPool = cohorts[b].rewardPool
  BY <1>2, <1>3 DEF CohortRecords
<1>5. RewardsOf' = RewardsOf
  BY <1>2, <1>4, RewardsStay
<1>6. totalManaged' > totalManaged /\ totalManaged' - totalManaged = amount
  BY <1>2, <1>3
<1>7. positions' = [positions EXCEPT ![c][o].principal = @ + (totalManaged' - totalManaged)]
  BY <1>2, <1>6
<1>8. Promise!Save(c, o)
  BY <1>1, <1>2, <1>5, <1>6, <1>7 DEF Promise!Save
<1> QED BY <1>8 DEF Promise!Next

\* What leaving is to the promise, whichever way.
LEMMA Closing ==
    ASSUME NEW c \in Cohorts, NEW o \in Owners, NEW state, CanLeave(c, o), Leave(c, o, state), UNCHANGED now
    PROVE  Promise!Close(c, o, state)
BY DEF CanLeave, Open, Leave, Promise!Close

LEMMA CancelPromised ==
    ASSUME IInv, NEW c \in Cohorts, NEW o \in Owners, cancelBeforeStart(c, o)
    PROVE  Promise!Next
<1>1. /\ now < c[1] /\ CanLeave(c, o) /\ Leave(c, o, "exited") /\ UNCHANGED <<termRewardCarry, now>>
      /\ totalManaged' = totalManaged - positions[c][o].principal
      /\ cohorts' = [cohorts EXCEPT ![c].totalPrincipal = @ - positions[c][o].principal,
                                    ![c].activePositions = @ - 1]
  BY DEF cancelBeforeStart, StartsAt, PayOut
<1>2. cohorts \in [Cohorts -> CohortRecords]
  BY DEF IInv, TypeOK
<1>3. \A b \in Cohorts : cohorts'[b].rewardPool = cohorts[b].rewardPool
  BY <1>1, <1>2 DEF CohortRecords
<1>4. Promise!Cancel(c, o)
  BY <1>1, <1>3, RewardsStay, Closing DEF Promise!Cancel
<1> QED BY <1>4 DEF Promise!Next

\* Leaving early brings the duration's rewards the whole penalty: what stays with the
\* cohort and what the last one to leave hands on are parts of it.
LEMMA ExitPromised ==
    ASSUME IInv, IInv', NEW c \in Cohorts, NEW o \in Owners, exitEarly(c, o)
    PROVE  Promise!Next
<1> DEFINE principal == positions[c][o].principal
           penalty == Share(principal, EARLY_EXIT_PENALTY_BPS)
           pool == cohorts[c].rewardPool + penalty
           carried == CarriedOnExit(c, pool)
           d == Duration(c)
<1>1. /\ StartsAt(c) <= now /\ now < MaturesAt(c) /\ CanLeave(c, o) /\ Leave(c, o, "exited")
      /\ cohorts' = [cohorts EXCEPT ![c].totalPrincipal = @ - principal, ![c].activePositions = @ - 1,
                                    ![c].rewardPool = pool - carried]
      /\ termRewardCarry' = [termRewardCarry EXCEPT ![d] = @ + carried]
      /\ totalManaged' = totalManaged - (principal - penalty) /\ UNCHANGED now
  BY DEF exitEarly, PayOut
<1>2. /\ cohorts \in [Cohorts -> CohortRecords] /\ termRewardCarry \in [Durations -> Nat]
      /\ cohorts[c].rewardPool \in Nat /\ principal \in Nat /\ d \in Durations
  BY CohortTypes DEF IInv, TypeOK, CohortRecords, PositionRecords
<1>3. penalty \in Nat
  BY <1>2, ShareNat
<1> HIDE DEF penalty, principal, d
<1>4. carried \in Nat
  BY <1>2, <1>3 DEF CarriedOnExit
<1> HIDE DEF carried
<1>5. /\ cohorts'[c].rewardPool = pool - carried /\ \A b \in Cohorts \ {c} : cohorts'[b] = cohorts[b]
      /\ termRewardCarry'[d] = termRewardCarry[d] + carried
      /\ \A e \in Durations \ {d} : termRewardCarry'[e] = termRewardCarry[e]
  BY <1>1, <1>2 DEF CohortRecords
<1>6. OnlyCohort(c)
  BY <1>5 DEF OnlyCohort, d
<1>7. (cohorts'[c].rewardPool + termRewardCarry'[d]) - (cohorts[c].rewardPool + termRewardCarry[d]) = penalty
  BY <1>2, <1>3, <1>4, <1>5
<1>8. RewardsOf' = [RewardsOf EXCEPT ![d] = @ + penalty]
  BY <1>3, <1>6, <1>7, RewardsMove DEF IInv, d
<1>9. Promise!FivePercent(principal) = penalty
  BY DEF Promise!FivePercent, penalty, Share, EARLY_EXIT_PENALTY_BPS, BPS
<1>10. c[1] <= now /\ now < c[1] + c[2] /\ d = c[2]
  BY <1>1 DEF StartsAt, MaturesAt, Duration, d
<1>11. Promise!Exit(c, o)
  BY <1>1, <1>8, <1>9, <1>10, Closing DEF Promise!Exit, principal
<1> QED BY <1>11 DEF Promise!Next

\* A claim takes its reward, and nothing else, out of the duration's rewards, which
\* have it: fixing the pool and carrying the rest only move within them.
LEMMA ClaimPromised ==
    ASSUME IInv, IInv', NEW c \in Cohorts, NEW o \in Owners, claim(c, o)
    PROVE  Promise!Next
<1> DEFINE principal == positions[c][o].principal
           reward == Reward(c, o)
           settled == Settled(c)
           carry == SettledCarry(c)
           rest == settled.rewardPool - reward
           last == settled.remainingClaims = 1
           d == Duration(c)
<1>1. /\ MaturesAt(c) <= now /\ CanLeave(c, o) /\ Leave(c, o, "claimed")
      /\ cohorts' = [cohorts EXCEPT ![c] = [settled EXCEPT !.totalPrincipal = @ - principal,
                                    !.activePositions = @ - 1, !.remainingClaims = @ - 1,
                                    !.rewardsPaid = @ + reward, !.rewardPool = IF last THEN 0 ELSE rest]]
      /\ termRewardCarry' = [termRewardCarry EXCEPT ![d] = carry + (IF last THEN rest ELSE 0)]
      /\ totalManaged' = totalManaged - (principal + reward) /\ UNCHANGED now
  BY DEF claim, Covered, PayOut
<1>2. /\ cohorts \in [Cohorts -> CohortRecords] /\ termRewardCarry \in [Durations -> Nat]
      /\ cohorts[c].rewardPool \in Nat /\ principal \in Nat /\ d \in Durations /\ totalManaged \in Nat
  BY CohortTypes DEF IInv, TypeOK, CohortRecords, PositionRecords
<1>3. /\ settled \in CohortRecords /\ carry \in Nat
      /\ settled.rewardPool + carry = cohorts[c].rewardPool + termRewardCarry[d]
  BY <1>1, SettledFacts
<1>4. reward \in Nat /\ reward <= settled.rewardPool
  BY <1>1, RewardFacts
<1>5. reward <= Share(principal, MAXIMUM_REWARD_BPS)
  <2> DEFINE part == (settled.finalRewardPool * principal) \div settled.finalPrincipal
             most == Share(principal, MAXIMUM_REWARD_BPS)
  <2>1. reward = Smaller(part, most)
    BY DEF Reward
  <2>2. most \in Nat
    BY <1>2, ShareNat
  <2> HIDE DEF part, most, reward
  <2>3. reward <= most
    BY <1>4, <2>1, <2>2 DEF Smaller
  <2> QED BY <2>3 DEF most
<1> HIDE DEF principal, reward, settled, carry, d
<1>6. settled.rewardPool \in Nat /\ rest \in Nat
  BY <1>3, <1>4 DEF CohortRecords
<1>7. /\ cohorts'[c].rewardPool = (IF last THEN 0 ELSE rest)
      /\ \A b \in Cohorts \ {c} : cohorts'[b] = cohorts[b]
      /\ termRewardCarry'[d] = carry + (IF last THEN rest ELSE 0)
      /\ \A e \in Durations \ {d} : termRewardCarry'[e] = termRewardCarry[e]
  BY <1>1, <1>2, <1>3 DEF CohortRecords
<1>8. OnlyCohort(c)
  BY <1>7 DEF OnlyCohort, d
<1>9. (cohorts'[c].rewardPool + termRewardCarry'[d]) - (cohorts[c].rewardPool + termRewardCarry[d]) = - reward
  <2>1. cohorts'[c].rewardPool + termRewardCarry'[d] = carry + rest
    BY <1>3, <1>6, <1>7
  <2>2. carry + rest = (cohorts[c].rewardPool + termRewardCarry[d]) - reward
    BY <1>2, <1>3, <1>4, <1>6
  <2> QED BY <1>2, <1>4, <2>1, <2>2
<1>10. /\ RewardsOf' = [RewardsOf EXCEPT ![d] = @ + (- reward)] /\ RewardsOf \in [Durations -> Nat]
       /\ cohorts[c].rewardPool + termRewardCarry[d] <= RewardsOf[d]
  BY <1>4, <1>8, <1>9, RewardsMove DEF IInv, d
<1>11. RewardsOf' = [RewardsOf EXCEPT ![d] = @ - reward] /\ reward <= RewardsOf[d]
  <2>1. RewardsOf[d] \in Nat /\ RewardsOf[d] + (- reward) = RewardsOf[d] - reward
    BY <1>2, <1>4, <1>10
  <2>2. reward <= RewardsOf[d]
    BY <1>2, <1>3, <1>4, <1>6, <1>10, <2>1
  <2> QED BY <1>10, <2>1, <2>2
<1>12. Promise!FivePercent(principal) = Share(principal, MAXIMUM_REWARD_BPS)
  BY DEF Promise!FivePercent, Share, MAXIMUM_REWARD_BPS, BPS
<1>13. totalManaged - totalManaged' - principal = reward
  BY <1>1, <1>2, <1>4
<1>14. c[1] + c[2] <= now /\ d = c[2]
  BY <1>1 DEF StartsAt, MaturesAt, Duration, d
<1>15. Promise!Close(c, o, "claimed")
  BY <1>1, Closing
<1>16. 0 <= reward
  BY <1>4
<1>17. Promise!Claim(c, o)
  BY <1>5, <1>11, <1>12, <1>13, <1>14, <1>15, <1>16 DEF Promise!Claim, principal
<1> QED BY <1>17 DEF Promise!Next

LEMMA PromiseInit == Init => Promise!Init
<1> SUFFICES ASSUME Init PROVE Promise!Init
  OBVIOUS
<1>1. ASSUME NEW d \in Durations PROVE RewardsOf[d] = 0
  <2>1. \A c \in DOMAIN PoolsOf(d) : PoolsOf(d)[c] = 0
    BY DEF Init, PoolsOf, Fresh
  <2>2. Total(PoolsOf(d)) = 0
    BY <2>1, TotalZero
  <2> HIDE DEF Total
  <2> QED BY <2>2 DEF Init, RewardsOf
<1>2. RewardsOf = [d \in Durations |-> 0]
  BY <1>1 DEF RewardsOf
<1> QED BY <1>2 DEF Init, Promise!Init

LEMMA PromiseStep == IInv /\ IInv' /\ [Next]_vars => [Promise!Next]_Promise!vars
<1> SUFFICES ASSUME IInv, IInv', [Next]_vars PROVE [Promise!Next]_Promise!vars
  OBVIOUS
<1>1. ASSUME NEW o \in Owners, NEW d \in Durations, NEW amount \in Amounts, deposit(o, d, amount)
      PROVE  Promise!Next
  BY <1>1, SavePromised
<1>2. ASSUME NEW c \in Cohorts, NEW o \in Owners, cancelBeforeStart(c, o) \/ exitEarly(c, o) \/ claim(c, o)
      PROVE  Promise!Next
  BY <1>2, CancelPromised, ExitPromised, ClaimPromised
<1>3. CASE Donate \/ UNCHANGED vars
  <2>1. UNCHANGED <<cohorts, positions, termRewardCarry, totalManaged, now>>
    BY <1>3 DEF Donate, vars
  <2> QED BY <2>1, RewardsStay DEF Promise!vars
<1>4. CASE Tick
  <2>1. UNCHANGED <<cohorts, positions, termRewardCarry, totalManaged>> /\ now' > now
    BY <1>4 DEF Tick, IInv, TypeOK
  <2> QED BY <2>1, RewardsStay DEF Promise!Next, Promise!Pass
<1> QED BY <1>1, <1>2, <1>3, <1>4 DEF Next

\* The vault implements the promise to its savers: principals come back once, whole, less
\* the penalty or with a reward, and rewards are paid out of the penalties of the same
\* duration, however cohorts pool, fix, round and carry them.
THEOREM VaultKeepsPromise == Spec => KeepsPromise
BY PromiseInit, PromiseStep, BooksInvariant, PTL DEF Spec, KeepsPromise, Promise!Spec
=============================================================================
