CONSTANTS
    Acceptances = {a1, a2, a3}
    Observers = {o1, o2}
    MaxVersion = 2
    MaxBlocks = 6
SPECIFICATION Spec
INVARIANTS AgreementsAreForStandingTerms LinkedAgreementsAreOwned AttemptsStayRecoverable
PROPERTY FinishedStaysFinished
CHECK_DEADLOCK FALSE
