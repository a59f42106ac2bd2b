SPECIFICATION Spec
CONSTANTS
    a = a
    b = b
    Runs = {a, b}
INVARIANTS TypeOK ReportIsTrue
PROPERTIES NotStoppedUnderWorker SandboxesGone
CHECK_DEADLOCK FALSE
