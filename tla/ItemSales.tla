------------------------------ MODULE ItemSales ------------------------------
(***************************************************************************)
(* What the market promises whoever buys or sells an item on it, whichever *)
(* way it is paid for: an item is promised to one offer at a time; a deal  *)
(* ends only before a way to pay was chosen, or when its checkout lapsed   *)
(* unpaid; an offer given up is not taken up again; and what was taken     *)
(* down stays down.  A deal reserved for a wallet of the buyer's own is    *)
(* for good: from there its escrow decides (EscrowPromise).                *)
(***************************************************************************)
CONSTANTS Items, Offers

VARIABLES
    shown,      \* of each item: none, active, sold, removed
    deal,       \* the offer it is promised to, as a set: how it is paid, and how far
    givenUp     \* offers whose deal ended

vars == <<shown, deal, givenUp>>

Agreed(o) == [offer |-> o, way |-> "none", checkout |-> "none"]

Progress == {<<"none", "open">>, <<"open", "lapsed">>, <<"open", "paid">>,
             <<"paid", "released">>, <<"paid", "refunded">>}

Init ==
    /\ shown = [i \in Items |-> "none"]
    /\ deal = [i \in Items |-> {}]
    /\ givenUp = {}

Show(i) ==
    /\ shown[i] # "removed"
    /\ \E status \in {"active", "sold", "removed"} : shown' = [shown EXCEPT ![i] = status]
    /\ UNCHANGED <<deal, givenUp>>

Agree(i, o) ==
    /\ shown[i] = "active" /\ deal[i] = {} /\ o \notin givenUp
    /\ deal' = [deal EXCEPT ![i] = {Agreed(o)}]
    /\ UNCHANGED <<shown, givenUp>>

Reserve(i, d) ==
    /\ shown[i] = "active" /\ d.way = "none"
    /\ \E way \in {"hosted", "legacy"} : deal' = [deal EXCEPT ![i] = {[d EXCEPT !.way = way]}]
    /\ UNCHANGED <<shown, givenUp>>

Advance(i, d) ==
    /\ d.way = "hosted"
    /\ \E step \in Progress :
          /\ d.checkout = step[1]
          /\ deal' = [deal EXCEPT ![i] = {[d EXCEPT !.checkout = step[2]]}]
    /\ UNCHANGED <<shown, givenUp>>

GiveUp(i, d) ==
    /\ d.way = "none" \/ (d.checkout = "lapsed" /\ shown[i] # "sold")
    /\ deal' = [deal EXCEPT ![i] = {}]
    /\ givenUp' = givenUp \cup {d.offer}
    /\ UNCHANGED shown

Next ==
    \E i \in Items :
        \/ Show(i)
        \/ \E o \in Offers : Agree(i, o)
        \/ \E d \in deal[i] : Reserve(i, d) \/ Advance(i, d) \/ GiveUp(i, d)

Spec == Init /\ [][Next]_vars
=============================================================================
