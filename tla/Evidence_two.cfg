SPECIFICATION Spec
CONSTANTS
    r1 = r1
    r2 = r2
    agent = agent
    skill1 = skill1
    skill2 = skill2
    t1 = t1
    t2 = t2
    Runs = {r1, r2}
    Facades = {agent, skill1}
    FacadesOf <- TwoFacadesOf
    TraceOf <- TwoTraceOf
    Jobs <- PlainJob
    MaxRetries = 0
    MaxRounds = 1
INVARIANT OwnTraceVerified
PROPERTIES ImplementsContract
CHECK_DEADLOCK FALSE
