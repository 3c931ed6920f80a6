CONSTANTS
    h1 = h1
    src = src
    c1 = c1
    c2 = c2
    Handlers = {h1}
    Sources = {src}
    Closers = {c1, c2}
    BufferSize = 2
    MaxCalls <- MCMaxCalls
SPECIFICATION FairSpec
INVARIANT CloseFlushesEarlyItems
PROPERTIES ImplementsLossyLog CloseReturns EarlyItemsReachTheFile
CHECK_DEADLOCK FALSE
