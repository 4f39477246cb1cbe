CONSTANTS
    Threads = {a, b}
    Slots = {0, 1}
    Sizes = {1}
    Lens = {1}
    MaxBytes <- OneStream
    MaxNotice = 1
    None = None
SPECIFICATION Spec
INVARIANT DescriptorIsNumber
CHECK_DEADLOCK FALSE
