-------------------------- MODULE EvidenceContract --------------------------
(***************************************************************************)
(* What a review run promises about the evidence it leaves in the Agent    *)
(* Registry, without saying how the worker obtains it: evidence is         *)
(* recorded parent first and only while the run is alive, and a run is     *)
(* reported only when its evidence is complete and readable back.          *)
(* Evidence.tla implements this specification.                             *)
(***************************************************************************)

CONSTANTS Runs,       \* review runs
          Facades,    \* Agent and Skill trace facades of the Registry
          FacadesOf,  \* run -> the facades its trace must be readable through
          TraceOf     \* run -> trace id

VARIABLES outcome,    \* run -> "running", "reported" or "abandoned"
          recorded,   \* run -> the kinds of evidence the Registry holds for it
          visible     \* <<run, facade>>: that run's spans are projected there

cvars == <<outcome, recorded, visible>>

Kinds == {"trace", "session", "user", "assistant", "output"}

(* The evidence a kind of evidence hangs from. *)
Parent(k) == CASE k = "trace"   -> {}
               [] k = "session" -> {"trace"}
               [] OTHER         -> {"session"}

(* Some projected trace with run r's trace id is readable at facade f. *)
Readable(r, f) == \E q \in Runs : TraceOf[q] = TraceOf[r] /\ <<q, f>> \in visible

Complete(r) == /\ recorded[r] = Kinds
               /\ \A f \in FacadesOf[r] : Readable(r, f)

CInit == /\ outcome = [r \in Runs |-> "running"]
         /\ recorded = [r \in Runs |-> {}]
         /\ visible = {}

Record(r, k) == /\ outcome[r] = "running"
                /\ Parent(k) \subseteq recorded[r]
                /\ recorded' = [recorded EXCEPT ![r] = @ \cup {k}]
                /\ UNCHANGED <<outcome, visible>>

Publish(r, f) == /\ "trace" \in recorded[r]
                 /\ f \in FacadesOf[r]
                 /\ visible' = visible \cup {<<r, f>>}
                 /\ UNCHANGED <<outcome, recorded>>

Report(r) == /\ outcome[r] = "running"
             /\ Complete(r)
             /\ outcome' = [outcome EXCEPT ![r] = "reported"]
             /\ UNCHANGED <<recorded, visible>>

(* The failing call may itself have reached the Registry. *)
Abandon(r) == /\ outcome[r] = "running"
              /\ outcome' = [outcome EXCEPT ![r] = "abandoned"]
              /\ \/ UNCHANGED recorded
                 \/ \E k \in Kinds :
                      /\ Parent(k) \subseteq recorded[r]
                      /\ recorded' = [recorded EXCEPT ![r] = @ \cup {k}]
              /\ UNCHANGED visible

CNext == \E r \in Runs : \/ \E k \in Kinds : Record(r, k)
                         \/ \E f \in Facades : Publish(r, f)
                         \/ Report(r)
                         \/ Abandon(r)

CSpec == CInit /\ [][CNext]_cvars
=============================================================================
