SPECIFICATION Spec
CONSTANTS
    w1 = w1
    w2 = w2
    e1 = e1
    e2 = e2
    Ctrl = Ctrl
    None = None
    Workers = {w1, w2}
    Elements = {e1, e2}
    Initial = {e1}
    Pure = {e1}
    QueueCap = 1
    BareAdds = FALSE
INVARIANT ProcessGuarded
INVARIANT TasksExact
INVARIANT GraphGuarded
SYMMETRY AnyWorker
