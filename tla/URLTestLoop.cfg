SPECIFICATION LoopFairSpec
CONSTANTS
    l1 = l1
    l2 = l2
    t1 = t1
    t2 = t2
    Loops <- MCLoops
    Testers <- MCTesters
    Interval = 2
    IdleTimeout = 3
    MaxTouch = 4
INVARIANT LoopIsSound
 
