SPECIFICATION Spec
CONSTANTS
    a = a
    b = b
    Runs = {a, b}
INVARIANTS EveryExitDeletes
CHECK_DEADLOCK FALSE
