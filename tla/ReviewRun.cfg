SPECIFICATION RSpec
CONSTANTS
    a = a
    agent = agent
    skill = skill
    t = t
    Runs = {a}
    Facades = {agent, skill}
    FacadesOf <- OneFacadesOf
    TraceOf <- OneTraceOf
    Jobs <- MCJobs
    MaxRetries = 1
    MaxRounds = 2
INVARIANTS ReportedHasEvidence
PROPERTIES QuietAfterTheEnd
CHECK_DEADLOCK FALSE
