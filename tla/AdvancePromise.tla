--------------------------- MODULE AdvancePromise ---------------------------
(***************************************************************************)
(* What early pay promises a funder, on whichever chain it happens: money  *)
(* put into an advance leaves the escrow once, back to its funder or to    *)
(* the provider against an agreement that backs no other advance; and the  *)
(* payment of an agreement repays once, the funder of an advance that was  *)
(* given for its terms, at the price fixed when it was given.              *)
(***************************************************************************)
EXTENDS Integers

CONSTANTS Offers, Agreements, Funders, Nobody, NoAgreement, OfferTerms, AgreementTerms

VARIABLES
    account,    \* of each advance: stage, funder, given, owed, and the agreement backing it
    held,       \* what the escrow holds of the advances
    repaid      \* of each agreement: whom its payment repaid, and what

vars == <<account, held, repaid>>

Unfunded == [stage |-> "None", funder |-> Nobody, given |-> 0, owed |-> 0, backing |-> NoAgreement]
Unpaid == [payee |-> Nobody, paid |-> 0]

Init ==
    /\ account = [o \in Offers |-> Unfunded] /\ held = 0
    /\ repaid = [a \in Agreements |-> Unpaid]

\* What becomes of an account, and of what the escrow holds.
Fund(old, new) ==
    /\ old.stage = "None"
    /\ new = [stage |-> "Funded", funder |-> new.funder, given |-> new.given, owed |-> new.owed,
              backing |-> NoAgreement]
    /\ new.funder \in Funders /\ 0 < new.given /\ new.given < new.owed
    /\ held' = held + new.given

Release(o, new) ==
    /\ account[o].stage = "Funded"
    /\ \E a \in Agreements :
          /\ AgreementTerms[a] = OfferTerms[o]
          /\ \A q \in Offers : account[q].backing # a
          /\ new = [stage |-> "Released", funder |-> account[o].funder, given |-> account[o].given,
                    owed |-> account[o].owed, backing |-> a]
    /\ held' = held - account[o].given

Refund(old, new) ==
    /\ old.stage = "Funded"
    /\ new = [old EXCEPT !.stage = "Refunded"]
    /\ held' = held - old.given

AccountStep(o) ==
    /\ account'[o].stage # account[o].stage
    /\ account' = [account EXCEPT ![o] = account'[o]]
    /\ \/ Fund(account[o], account'[o])
       \/ Release(o, account'[o])
       \/ Refund(account[o], account'[o])
    /\ UNCHANGED repaid

Repay(a) ==
    /\ repaid[a] = Unpaid
    /\ \E o \in Offers :
          /\ account[o].stage = "Released" /\ OfferTerms[o] = AgreementTerms[a]
          /\ repaid' = [repaid EXCEPT ![a] = [payee |-> account[o].funder, paid |-> account[o].owed]]
    /\ UNCHANGED <<account, held>>

Next == (\E o \in Offers : AccountStep(o)) \/ (\E a \in Agreements : Repay(a))

Spec == Init /\ [][Next]_vars
=============================================================================
