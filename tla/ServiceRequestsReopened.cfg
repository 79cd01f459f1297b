CONSTANTS
    Acceptances = {a1, a2}
    Observers = {}
    MaxVersion = 1
    MaxBlocks = 1
SPECIFICATION Spec
PROPERTY CancellationNotOverwritten
CHECK_DEADLOCK FALSE
