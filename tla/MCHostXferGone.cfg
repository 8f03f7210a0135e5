SPECIFICATION Spec
CONSTANTS
    In = {in1}
    Out = {out1}
INVARIANT StatusIsThere
CHECK_DEADLOCK FALSE
