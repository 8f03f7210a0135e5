SPECIFICATION Spec
CONSTANTS
    Event = {attach, detach}
    None = None
    Capacity = 3
    Word = 8
    Limits = {0, 2}
    MaxEmits = 6
INVARIANT OverflowNeverSilent
