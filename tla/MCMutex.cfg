CONSTANTS
    t1 = t1
    t2 = t2
    t3 = t3
    m1 = m1
    m2 = m2
    NoThread = NoThread
    NoMutex = NoMutex
    Threads <- ThreadsC
    Mutexes = {m1, m2}
    Base <- BaseC
    MaxHold = 2
    Flag = "PRIO"
SPECIFICATION Spec
SYMMETRY Sym
INVARIANTS
    TypeOK
    OwnerKnows
    NoWaiterForgotten
    PriorityRestored
    WaitersInherited
CHECK_DEADLOCK FALSE
