CONSTANTS
    Offers = {o1}
    Kinds = {"delivery"}
    Handlers = {h1}
    Workers = {w1}
    Confirmations = 2
    Span = 2
    MaxBlocks = 5
    MaxReorgs = 1
    ReorgDepth = 3
SPECIFICATION Spec
INVARIANTS CursorCoversReceipts ReorganisedProofsDropped
PROPERTY WorkersDoNotRewind
