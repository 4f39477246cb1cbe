CONSTANTS
    t1 = t1
    t2 = t2
    t3 = t3
    m1 = m1
    m2 = m2
    NoMail = NoMail
    Threads <- ThreadsC
    Prio <- PrioC
    Inherited = {2}
    Timeouts <- TimeoutsC
    Values = {m1}
    Size = 2
    Flag = "PRIO"
SPECIFICATION Spec
SYMMETRY Sym
INVARIANTS
    TypeOK
    NoLostWakeup
    ListsMatchStates
    DeadlineKept
    PrioritySelected
