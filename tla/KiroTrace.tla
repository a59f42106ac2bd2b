----------------------------- MODULE KiroTrace ------------------------------
(***************************************************************************)
(* The spans of a Kiro trace, as build_kiro_otlp_payload (cli_trace.py)    *)
(* lays them out for n skills: root, turn, request chat, one span a skill, *)
(* response chat.  Times are in nanoseconds.  Only what orders and nests   *)
(* the spans is modelled; the other attributes are data.                   *)
(***************************************************************************)
EXTENDS Integers, Sequences

(* Without source times in the job the run is given one millisecond.        *)
DefaultDuration == 1000000

(* The k-th span starts and ends this far inside the run.                   *)
Offset(k) == IF k <= 3 THEN k - 1 ELSE k
OffsetOfEndFlat(k) == 0   \* mutant: every span ends with the run
OffsetOfEnd(k) == Offset(k)

(* The index of the k-th span's parent; the root has none.                  *)
Parent(k, n) == CASE k = 1 -> 0
                  [] k = 2 -> 1
                  [] k \in {3, n + 4} -> 2
                  [] OTHER -> 3

(* atlan.event.seq, by which a reader orders the spans.                     *)
EventSeq(k, n) == IF k = n + 4 THEN 3 + n ELSE k - 1

Spans(started, ended, n) ==
    [k \in 1..(n + 4) |-> [seq |-> EventSeq(k, n), parent |-> Parent(k, n),
                           start |-> started + Offset(k), end |-> ended - OffsetOfEnd(k)]]
-----------------------------------------------------------------------------
(* Every span is an interval inside its parent's. *)
Nested(spans) ==
    \A k \in DOMAIN spans :
        /\ spans[k].start <= spans[k].end
        /\ spans[k].parent # 0 =>
              /\ spans[k].parent < k
              /\ spans[spans[k].parent].start <= spans[k].start
              /\ spans[k].end <= spans[spans[k].parent].end

(* The shortest run whose spans nest. *)
ShortestRun(n) == 2 * (n + 4)

(* The sequence numbers order the spans as the payload lists them. *)
InSequence(spans) == \A j, k \in DOMAIN spans : j < k => spans[j].seq < spans[k].seq
=============================================================================
