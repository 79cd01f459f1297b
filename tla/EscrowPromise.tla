---------------------------- MODULE EscrowPromise ----------------------------
(***************************************************************************)
(* What a trade escrow promises its buyer and its seller, whatever asset   *)
(* it holds: what was put in comes out once and in full.  Undisputed, all  *)
(* of it goes to one of the two.  Once disputed, the seller gets any of it *)
(* only by a decision, the arbiter's or that of both parties; and only a   *)
(* decision ever splits it.                                                *)
(***************************************************************************)
EXTENDS Integers

VARIABLES
    stage,              \* open, held, disputed, closed, or closed by a decision: decided
    pot,                \* what the escrow received
    toBuyer,
    toSeller

vars == <<stage, pot, toBuyer, toSeller>>

Init == stage = "open" /\ pot = 0 /\ toBuyer = 0 /\ toSeller = 0

Fund ==
    /\ stage = "open"
    /\ stage' = "held" /\ pot' \in Nat \ {0}
    /\ UNCHANGED <<toBuyer, toSeller>>

Dispute ==
    /\ stage = "held"
    /\ stage' = "disputed"
    /\ UNCHANGED <<pot, toBuyer, toSeller>>

\* Somebody gives up before the funding.
Cancel ==
    /\ stage = "open"
    /\ stage' = "closed"
    /\ UNCHANGED <<pot, toBuyer, toSeller>>

Close ==
    /\ \/ stage = "held" /\ toBuyer' \in {0, pot}
       \/ stage = "disputed" /\ toBuyer' = pot
    /\ stage' = "closed" /\ toSeller' = pot - toBuyer'
    /\ UNCHANGED pot

Decide ==
    /\ stage = "disputed"
    /\ stage' = "decided"
    /\ toBuyer' \in 0 .. pot /\ toSeller' = pot - toBuyer'
    /\ UNCHANGED pot

Next == Fund \/ Dispute \/ Cancel \/ Close \/ Decide

Spec == Init /\ [][Next]_vars
=============================================================================
