---------------------------- MODULE MCReviewRun -----------------------------
(* One run of any kind, whose trace must be readable at two facades. *)
EXTENDS ReviewRun, TLC

CONSTANTS a, agent, skill, t

OneFacadesOf == (a :> {agent, skill})
OneTraceOf == (a :> t)
MCJobs == {[mode |-> m, visitor |-> "registry", wellFormed |-> TRUE,
            fingerprints |-> TRUE, arguments |-> TRUE] : m \in {"kiro", "sdk"}}
=============================================================================
