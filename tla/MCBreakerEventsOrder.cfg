SPECIFICATION BevSpec
CONSTANTS
    BevProcs = {p1, p2, p3}
    p1 = p1
    p2 = p2
    p3 = p3
    BevWorkers = {"w1", "w2"}
    BevMaxPending = 2
    BevMaxChanges = 2
SYMMETRY MCProcs
INVARIANT EventsInOrder
