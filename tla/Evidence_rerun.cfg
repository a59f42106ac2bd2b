SPECIFICATION Spec
CONSTANTS
    r1 = r1
    r2 = r2
    agent = agent
    skill1 = skill1
    skill2 = skill2
    t1 = t1
    t2 = t2
    Runs = {r1, r2}
    Facades = {agent, skill1}
    FacadesOf <- TwoFacadesOf
    TraceOf <- RerunTraceOf
    Jobs <- PlainJob
    MaxRetries = 0
    MaxRounds = 2
INVARIANTS OwnTraceVerified
CHECK_DEADLOCK FALSE
