-------------------------- MODULE MCUpfrontAdvance --------------------------
(* Constants for checking UpfrontAdvance: two assessments and two agreements *)
(* of the same terms, any of which may be named together.                    *)
EXTENDS UpfrontAdvance, TLC

CONSTANTS t1

MCOfferTerms == [o \in Offers |-> t1]
MCAgreementTerms == [a \in Agreements |-> t1]
MCProtectedOf == t1 :> 6
MCDeadlineOf == t1 :> 2
MCUnderwrittenUntil == [o \in Offers |-> 1]

\* The assessments are alike, so are the agreements, and no liveness is checked.
MCSymmetry == Permutations(Offers) \cup Permutations(Agreements)
=============================================================================
