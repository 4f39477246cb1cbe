CONSTANTS
    Songs <- MCSongs
    Commands = {0, 1, 2}
    Size = 4
    Faults = {"pwm", "memory"}
    NoMail = 99
SPECIFICATION FairSpec
INVARIANTS
    PlaysLastCommand
    StopIsPrompt
    InTune
    InTime
PROPERTIES
    NotesInOrder
    StopSilences
\* A failed assertion stops the system.
CHECK_DEADLOCK FALSE
