\* Two externs, two ports with a worker each; every queue is small.
SPECIFICATION FairSpec
CONSTANTS
    NbPorts = 2
    nb_egress_threads = 2
    Externs = 2
    InputCap = 1
    EgressCap = 1
    OutputCap = 1
    MaxArrivals = 2
    MaxBacklog = 3
    MaxDetours = 1
INVARIANTS TypeOK OneArrivalAtATime ArrivalOrder
PROPERTIES Drains StopEnds
CHECK_DEADLOCK FALSE
