CONSTANTS
    p1 = p1
    p2 = p2
    a1 = a1
    ctl = ctl
    d1 = d1
    d2 = d2
    h1 = h1
    h2 = h2
    Posters = {p1, p2}
    Poppers = {a1}
    Controller = ctl
    Dispatchers = {d1, d2}
    Handlers = {h1, h2}
    NoHandler = NoHandler
    NoThread = NoThread
    Timeouts = {"inf", "timed"}
    CreateFails = TRUE
    MayDestroy = TRUE
    MaxPosts = 1
SPECIFICATION FairSpec
INVARIANT EventsAccounted
INVARIANT NoStuckPop
PROPERTY ControlReturns
PROPERTY Delivered
CHECK_DEADLOCK FALSE
