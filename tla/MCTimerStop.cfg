CONSTANTS
    Hard = {h1}
    Soft = {s1, s2}
    ThreadTimer = tt
    NoTick = NoTick
    NoTimer = NoTimer
    TickMod = 16
    h1 = h1
    s1 = s1
    s2 = s2
    Inits <- InitsC
    MaxLag = 1
    CallbackOps = {"stop other"}
SPECIFICATION Spec
INVARIANT StopHolds
CONSTRAINT Claimed
