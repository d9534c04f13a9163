SPECIFICATION FairSpec
CONSTANTS
    src = src
    mid = mid
    sink = sink
    c1 = c1
    c2 = c2
    box = box
    b1 = b1
    b2 = b2
    Elements <- MCElements
    Children <- MCChildren
    Loose = {box}
    Sources = {src}
    MaxFailures = 2
INVARIANT AllOrNothing
INVARIANT HooksPaired
INVARIANT WalksInOrder
PROPERTY SetStateReturns
