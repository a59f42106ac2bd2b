SPECIFICATION Spec
CONSTANTS
    r1 = r1
    r2 = r2
    agent = agent
    skill1 = skill1
    skill2 = skill2
    t1 = t1
    t2 = t2
    Runs = {r1}
    Facades = {agent, skill1, skill2}
    FacadesOf <- OneFacadesOf
    TraceOf <- OneTraceOf
    Jobs <- AllJobs
    MaxRetries = 3
    MaxRounds = 4
INVARIANTS TypeOK ReportedIsComplete RecordedAtMostOnce RefusedLeavesNothing
PROPERTIES PollNarrows EveryRunEnds
CHECK_DEADLOCK FALSE
