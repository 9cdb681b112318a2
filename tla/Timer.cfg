CONSTANTS
    s1 = s1
    j1 = j1
    User = User
    Elsewhere = Elsewhere
    NoEnv = NoEnv
    Sleeper = {s1, j1}
    Joiner = {j1}
    RunOn = {s1, Elsewhere}
    Waits = 2
    Starts = 2
    MaxTime = 1
    Coincide = FALSE
SPECIFICATION MCSpec
CHECK_DEADLOCK FALSE
INVARIANTS
    TimerInv
    QueueHoldsRunning
PROPERTIES
    WaitsEndInTime
    FiresOnce
    EveryWaitEnds
