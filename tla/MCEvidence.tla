----------------------------- MODULE MCEvidence -----------------------------
(* Instances of Evidence for TLC. *)
EXTENDS Evidence, TLC

CONSTANTS r1, r2, agent, skill1, skill2, t1, t2

AllJobs == JobType
PlainJob == {[mode |-> "sdk", visitor |-> "none", wellFormed |-> TRUE,
              fingerprints |-> TRUE, arguments |-> TRUE]}

(* One run reviewed with two skills. *)
OneFacadesOf == (r1 :> {agent, skill1, skill2})
OneTraceOf == (r1 :> t1)

(* Two runs of the same agent; the second one uses one skill more. *)
TwoFacadesOf == (r1 :> {agent} @@ r2 :> {agent, skill1})
TwoTraceOf == (r1 :> t1 @@ r2 :> t2)
RerunTraceOf == (r1 :> t1 @@ r2 :> t1)
=============================================================================
