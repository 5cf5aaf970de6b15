\* Two movers, one after the other or the first one lost, without the faults.
SPECIFICATION WorkerSpec
CONSTANTS
    Movers = {m1, m2}
    m1 = m1
    m2 = m2
    MaxGeneration = 2
    MaxBeats <- Beats
    WorkerFaults = {}
INVARIANT MoverTrue
PROPERTY MoverEnds
CHECK_DEADLOCK FALSE
