CONSTANTS
    s1 = s1
    s2 = s2
    User = User
    Elsewhere = Elsewhere
    NoEnv = NoEnv
    Sleeper = {s1, s2}
    Joiner = {}
    RunOn = {Elsewhere}
    Waits = 1
    Starts = 0
    MaxTime = 1
    Coincide = TRUE
SPECIFICATION Spec
CHECK_DEADLOCK FALSE
PROPERTIES
    SleepersWake
