CONSTANTS
    Offers = {o1}
    Kinds = {"delivery", "repayment"}
    Handlers = {h1, h2}
    Workers = {}
    Confirmations = 2
    Span = 2
    MaxBlocks = 4
    MaxReorgs = 0
    ReorgDepth = 1
SPECIFICATION Spec
PROPERTY StaleScansDoNotRewind
