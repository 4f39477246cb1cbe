CONSTANTS
    t1 = t1
    t2 = t2
    t3 = t3
    m1 = m1
    m2 = m2
    NoMail = NoMail
    Threads <- TwoThreads
    Prio <- TwoPrio
    Inherited = {}
    Timeouts <- ShortTimeouts
    Values = {m1, m2}
    Size = 2
    Flag = "FIFO"
SPECIFICATION FairSpec
INVARIANTS
    RingConsistent
PROPERTIES
    ImplementsFifo
    TimedCallReturns
    MailIsFetched
