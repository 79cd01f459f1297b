--------------------------- MODULE SavingsPromise ---------------------------
(***************************************************************************)
(* What a fixed-term vault promises its savers: savings come back once,    *)
(* whole before the term begins, less a penalty during it, and with a      *)
(* reward after it.  What the penalties of a duration brought together is  *)
(* for the rewards of that duration, and rewards come from nothing else.   *)
(* How cohorts pool, carry and share it is not seen here.                  *)
(***************************************************************************)
EXTENDS Integers

CONSTANTS Cohorts, Owners, Durations    \* a cohort is its start and its duration

VARIABLES
    now,
    positions,  \* what each owner has in each cohort
    common,     \* what each duration has for rewards
    managed     \* savings and rewards together

vars == <<now, positions, common, managed>>

FivePercent(n) == (n * 500) \div 10000

Init ==
    /\ now = 0
    /\ positions = [c \in Cohorts |-> [o \in Owners |-> [principal |-> 0, state |-> "open"]]]
    /\ common = [d \in Durations |-> 0]
    /\ managed = 0

Save(c, o) ==
    /\ now < c[1] /\ positions[c][o].state = "open"
    /\ managed' > managed
    /\ positions' = [positions EXCEPT ![c][o].principal = @ + (managed' - managed)]
    /\ UNCHANGED <<now, common>>

Close(c, o, state) ==
    /\ positions[c][o].principal # 0
    /\ positions' = [positions EXCEPT ![c][o] = [principal |-> 0, state |-> state]]
    /\ UNCHANGED now

Cancel(c, o) ==
    /\ now < c[1]
    /\ Close(c, o, "exited")
    /\ managed' = managed - positions[c][o].principal
    /\ UNCHANGED common

Exit(c, o) ==
    LET penalty == FivePercent(positions[c][o].principal)
    IN  /\ c[1] <= now /\ now < c[1] + c[2]
        /\ Close(c, o, "exited")
        /\ managed' = managed - (positions[c][o].principal - penalty)
        /\ common' = [common EXCEPT ![c[2]] = @ + penalty]

Claim(c, o) ==
    LET reward == managed - managed' - positions[c][o].principal
    IN  /\ c[1] + c[2] <= now
        /\ Close(c, o, "claimed")
        /\ 0 <= reward /\ reward <= FivePercent(positions[c][o].principal) /\ reward <= common[c[2]]
        /\ common' = [common EXCEPT ![c[2]] = @ - reward]

Pass == now' > now /\ UNCHANGED <<positions, common, managed>>

Next ==
    \/ Pass
    \/ \E c \in Cohorts, o \in Owners : Save(c, o) \/ Cancel(c, o) \/ Exit(c, o) \/ Claim(c, o)

Spec == Init /\ [][Next]_vars
=============================================================================
