---------------------------- MODULE LockedSavings ----------------------------
(***************************************************************************)
(* The fixed-term savings vault (contracts/src/LockedSavingsCohortVault    *)
(* .sol).  Deposits join the next weekly cohort of their duration.  Who    *)
(* leaves before the term ends pays 5% into the cohort's reward pool; who  *)
(* stays shares the pool, at most 5% of what they saved; what a cohort     *)
(* does not pay out is carried to later cohorts of the same duration.      *)
(*                                                                         *)
(* A call is one transaction and one step.  Checked arithmetic reverts the *)
(* call, so every subtraction is a guard; the properties say that none of  *)
(* them ever stands between a saver and their money.                       *)
(***************************************************************************)
EXTENDS LedgerSums

CONSTANTS
    Owners,
    Durations,          \* the terms on offer
    CohortInterval,     \* between two starts of a cohort
    MinimumDeposit,
    Amounts,            \* bound: what one deposit may bring
    MaxPositions,       \* bound: positions ever taken
    MaxPrincipal,       \* bound: what one of them may hold
    LastCohort,         \* bound: cohorts considered
    MaxTime             \* bound: the last time considered

ASSUME LockedSavingsAssumption ==
    /\ IsFiniteSet(Owners)
    /\ IsFiniteSet(Durations) /\ Durations \subseteq Nat \ {0}
    /\ CohortInterval \in Nat \ {0}
    /\ MinimumDeposit \in Nat \ {0}
    /\ Amounts \subseteq Nat
    /\ MaxPositions \in Nat /\ MaxPrincipal \in Nat /\ LastCohort \in Nat /\ MaxTime \in Nat

VARIABLES
    cohorts,        \* the totals of each cohort
    positions,      \* what each owner has in each cohort
    termRewardCarry,\* rewards no cohort of a duration has paid yet
    totalManaged,   \* what the contract believes it owes
    held,           \* its balance of the asset
    now,
    penalties,      \* history: all penalties taken in each duration
    rewarded        \* history: the principal and the reward of each claim

vars == <<cohorts, positions, termRewardCarry, totalManaged, held, now, penalties, rewarded>>

EARLY_EXIT_PENALTY_BPS == 500
MAXIMUM_REWARD_BPS == 500
BPS == 10000

\* A cohort is named by its start and its duration.
Cohorts == {n * CohortInterval : n \in 1 .. LastCohort} \X Durations
StartsAt(c) == c[1]
Duration(c) == c[2]
MaturesAt(c) == StartsAt(c) + Duration(c)

Fresh == [activePositions |-> 0, remainingClaims |-> 0, totalPrincipal |-> 0,
          finalPrincipal |-> 0, rewardPool |-> 0, finalRewardPool |-> 0, rewardsPaid |-> 0]

Smaller(m, n) == IF m < n THEN m ELSE n
Share(n, bps) == (n * bps) \div BPS

nextStart == (now \div CohortInterval + 1) * CohortInterval

Open(c, o) == positions[c][o].principal # 0
Taken == {p \in Cohorts \X Owners : positions[p[1]][p[2]] # [principal |-> 0, state |-> "open"]}

-----------------------------------------------------------------------------
deposit(o, d, amount) ==
    LET c == <<nextStart, d>>
    IN  /\ c \in Cohorts
        /\ positions[c][o].principal + amount <= MaxPrincipal
        /\ Cardinality(Taken \cup {<<c, o>>}) <= MaxPositions
        /\ amount >= MinimumDeposit
        /\ positions[c][o].state = "open"
        /\ cohorts' = [cohorts EXCEPT
                ![c].activePositions = IF Open(c, o) THEN @ ELSE @ + 1,
                ![c].totalPrincipal = @ + amount]
        /\ positions' = [positions EXCEPT ![c][o].principal = @ + amount]
        /\ totalManaged' = totalManaged + amount
        /\ held' = held + amount
        /\ UNCHANGED <<termRewardCarry, now, penalties, rewarded>>

\* What a position that ends takes off its cohort's totals.
CanLeave(c, o) ==
    /\ Open(c, o)
    /\ cohorts[c].totalPrincipal >= positions[c][o].principal
    /\ cohorts[c].activePositions >= 1

Leave(c, o, state) == positions' = [positions EXCEPT ![c][o] = [principal |-> 0, state |-> state]]

PayOut(amount) ==
    /\ totalManaged >= amount /\ totalManaged' = totalManaged - amount
    /\ held >= amount /\ held' = held - amount

cancelBeforeStart(c, o) ==
    /\ now < StartsAt(c)
    /\ CanLeave(c, o)
    /\ cohorts' = [cohorts EXCEPT
            ![c].totalPrincipal = @ - positions[c][o].principal,
            ![c].activePositions = @ - 1]
    /\ Leave(c, o, "exited")
    /\ PayOut(positions[c][o].principal)
    /\ UNCHANGED <<termRewardCarry, now, penalties, rewarded>>

\* Mutant: the pool stays with a cohort nobody is left in.
KeptByCohort(c, pool) == 0

\* The last saver to leave hands the pool on to later cohorts.
CarriedOnExit(c, pool) == IF cohorts[c].activePositions = 1 THEN pool ELSE 0

exitEarly(c, o) ==
    LET principal == positions[c][o].principal
        penalty == Share(principal, EARLY_EXIT_PENALTY_BPS)
        pool == cohorts[c].rewardPool + penalty
        carried == CarriedOnExit(c, pool)
    IN  /\ StartsAt(c) <= now /\ now < MaturesAt(c)
        /\ CanLeave(c, o)
        /\ cohorts' = [cohorts EXCEPT
                ![c].totalPrincipal = @ - principal,
                ![c].activePositions = @ - 1,
                ![c].rewardPool = pool - carried]
        /\ termRewardCarry' = [termRewardCarry EXCEPT ![Duration(c)] = @ + carried]
        /\ Leave(c, o, "exited")
        /\ PayOut(principal - penalty)
        /\ penalties' = [penalties EXCEPT ![Duration(c)] = @ + penalty]
        /\ UNCHANGED <<now, rewarded>>

\* The first claim fixes what the cohort pays: its pool and what its duration
\* carries, up to the largest reward; the rest is carried.
MaximumCohortReward(c) == Share(cohorts[c].totalPrincipal, MAXIMUM_REWARD_BPS)
Fixed(c) == cohorts[c].finalPrincipal # 0

\* Mutant: the largest reward, funded or not.
PromisedPool(c) == MaximumCohortReward(c)

FixedPool(c) ==
    Smaller(MaximumCohortReward(c), cohorts[c].rewardPool + termRewardCarry[Duration(c)])

Settled(c) ==
    IF Fixed(c) THEN cohorts[c]
    ELSE [cohorts[c] EXCEPT
            !.finalPrincipal = cohorts[c].totalPrincipal,
            !.remainingClaims = cohorts[c].activePositions,
            !.rewardPool = FixedPool(c),
            !.finalRewardPool = FixedPool(c)]

\* Mutant: what is applied is not taken from what is carried.
UnspentCarry(c) == termRewardCarry[Duration(c)]

SettledCarry(c) ==
    IF Fixed(c) THEN termRewardCarry[Duration(c)]
    ELSE termRewardCarry[Duration(c)] + cohorts[c].rewardPool - FixedPool(c)

\* Mutant: a share of what the earlier claims have left.
ShareOfRest(c, o) ==
    Smaller((Settled(c).rewardPool * positions[c][o].principal) \div Settled(c).finalPrincipal,
            Share(positions[c][o].principal, MAXIMUM_REWARD_BPS))

\* Mutant: rounds in the saver's favour.
RoundedUp(c, o) ==
    Smaller((Settled(c).finalRewardPool * positions[c][o].principal + Settled(c).finalPrincipal - 1)
                \div Settled(c).finalPrincipal,
            Share(positions[c][o].principal, MAXIMUM_REWARD_BPS))

Reward(c, o) ==
    Smaller((Settled(c).finalRewardPool * positions[c][o].principal) \div Settled(c).finalPrincipal,
            Share(positions[c][o].principal, MAXIMUM_REWARD_BPS))

\* What checked arithmetic asks of a claim.
Covered(c, o) ==
    /\ CanLeave(c, o)
    /\ Settled(c).remainingClaims >= 1
    /\ Settled(c).rewardPool >= Reward(c, o)
    /\ totalManaged >= positions[c][o].principal + Reward(c, o)
    /\ held >= positions[c][o].principal + Reward(c, o)

claim(c, o) ==
    LET principal == positions[c][o].principal
        reward == Reward(c, o)
        rest == Settled(c).rewardPool - reward
        last == Settled(c).remainingClaims = 1
    IN  /\ MaturesAt(c) <= now
        /\ Covered(c, o)
        /\ cohorts' = [cohorts EXCEPT ![c] = [Settled(c) EXCEPT
                !.totalPrincipal = @ - principal,
                !.activePositions = @ - 1,
                !.remainingClaims = @ - 1,
                !.rewardsPaid = @ + reward,
                !.rewardPool = IF last THEN 0 ELSE rest]]
        /\ termRewardCarry' = [termRewardCarry EXCEPT
                ![Duration(c)] = SettledCarry(c) + (IF last THEN rest ELSE 0)]
        /\ Leave(c, o, "claimed")
        /\ PayOut(principal + reward)
        /\ rewarded' = rewarded \cup {[cohort |-> c, principal |-> principal, reward |-> reward]}
        /\ UNCHANGED <<now, penalties>>

\* Anybody may send the asset to the contract (at most one unit here).
Donate ==
    /\ held = totalManaged
    /\ held' = held + 1
    /\ UNCHANGED <<cohorts, positions, termRewardCarry, totalManaged, now, penalties, rewarded>>

Tick ==
    /\ now < MaxTime
    /\ now' = now + 1
    /\ UNCHANGED <<cohorts, positions, termRewardCarry, totalManaged, held, penalties, rewarded>>

Init ==
    /\ cohorts = [c \in Cohorts |-> Fresh]
    /\ positions = [c \in Cohorts |-> [o \in Owners |-> [principal |-> 0, state |-> "open"]]]
    /\ termRewardCarry = [d \in Durations |-> 0]
    /\ totalManaged = 0 /\ held = 0 /\ now = 0
    /\ penalties = [d \in Durations |-> 0]
    /\ rewarded = {}

Next ==
    \/ \E o \in Owners, d \in Durations, amount \in Amounts : deposit(o, d, amount)
    \/ \E c \in Cohorts, o \in Owners : cancelBeforeStart(c, o) \/ exitEarly(c, o) \/ claim(c, o)
    \/ Donate
    \/ Tick

Spec == Init /\ [][Next]_vars

-----------------------------------------------------------------------------
(* Properties.                                                             *)

CohortRecords == [activePositions : Nat, remainingClaims : Nat, totalPrincipal : Nat,
                  finalPrincipal : Nat, rewardPool : Nat, finalRewardPool : Nat, rewardsPaid : Nat]
PositionRecords == [principal : Nat, state : {"open", "exited", "claimed"}]

TypeOK ==
    /\ cohorts \in [Cohorts -> CohortRecords]
    /\ positions \in [Cohorts -> [Owners -> PositionRecords]]
    /\ termRewardCarry \in [Durations -> Nat]
    /\ totalManaged \in Nat /\ held \in Nat /\ now \in Nat
    /\ penalties \in [Durations -> Nat]

\* Every unit is accounted for: what savers put in, the pools and the carried
\* rewards add up to what the vault says it manages, and it holds that much.
Principals == [c \in Cohorts |-> cohorts[c].totalPrincipal]
Pools == [c \in Cohorts |-> cohorts[c].rewardPool]
Solvent ==
    /\ Total(Principals) + Total(Pools) + Total(termRewardCarry) = totalManaged
    /\ totalManaged <= held

\* No order of exits and claims leaves a saver of a matured cohort unable to
\* claim: no subtraction of the claim can revert (the pool covers the rewards
\* however they are rounded, the last claim included).
ClaimsAlwaysCovered ==
    \A c \in Cohorts, o \in Owners : MaturesAt(c) <= now /\ Open(c, o) => Covered(c, o)

\* A penalty is paid to savers of its own duration or still waits for them, in
\* what the duration carries or in the pool of a cohort with somebody left to
\* claim it: no order of exits and claims strands it.
Kept(d) == [c \in Cohorts |-> IF Duration(c) = d THEN cohorts[c].rewardPool + cohorts[c].rewardsPaid ELSE 0]
PenaltiesStayInTheirTerm ==
    /\ \A d \in Durations : penalties[d] = termRewardCarry[d] + Total(Kept(d))
    /\ \A c \in Cohorts : cohorts[c].activePositions = 0 => cohorts[c].rewardPool = 0

\* Together: nobody's money is lost or promised twice, and no penalty is.
BooksBalance == Solvent /\ PenaltiesStayInTheirTerm

\* When they claim makes no difference between savers of one cohort: the same
\* principal earns the same reward, and a larger one never less.
FairInAnyOrder ==
    \A r, s \in rewarded : r.cohort = s.cohort /\ r.principal <= s.principal => r.reward <= s.reward

\* What a duration has for rewards: in the pools of its cohorts, and carried.
PoolsOf(d) == [c \in Cohorts |-> IF Duration(c) = d THEN cohorts[c].rewardPool ELSE 0]
RewardsOf == [d \in Durations |-> termRewardCarry[d] + Total(PoolsOf(d))]

Promise == INSTANCE SavingsPromise WITH common <- RewardsOf, managed <- totalManaged

\* However cohorts pool, fix, carry and round, a saver gets the principal back once,
\* less the penalty or with a reward, and rewards are paid from penalties of the term.
KeepsPromise == Promise!Spec
=============================================================================
