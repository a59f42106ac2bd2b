--------------------------- MODULE MCPullRequest ----------------------------
(* A pull request of two heads and three requests for a job.  Its streams   *)
(* of up to two events name tools, allowed or not, in calls and in          *)
(* summaries, and end with results that one of the three readers may refuse.*)
EXTENDS PullRequest, TLC

Skill(id) == [id |-> id, version |-> 1, digest |-> "sha256"]
Finding(rule, message) == [rule_id |-> rule, severity |-> "high", line |-> 1, message |-> message]
Result(decision, findings, skills) ==
    [json |-> TRUE, large |-> FALSE, decision |-> decision, findings |-> findings, skills |-> skills]

TheSkill == <<Skill("skill_a")>>
MCExpected == {Skill("skill_a")}

Clean == Result("approve", <<>>, TheSkill)
OneFinding(rule, message) == Result("changes_requested", <<Finding(rule, message)>>, TheSkill)
TooLarge == [Clean EXCEPT !.large = TRUE]
AnySeverity == [OneFinding("plain", "plain") EXCEPT !.findings[1].severity = "absent"]
OtherSkill == Result("approve", <<>>, <<Skill("skill_b")>>)
NoJson == [Clean EXCEPT !.json = FALSE]

(* Too short by one for the spans to nest, and just long enough.            *)
MCDurations == {ShortestRun(1) - 1, ShortestRun(1)}

Event(kind) == [kind |-> kind, name |-> None, tokens |-> None, usage |-> 0,
                used |-> <<>>, data |-> TRUE, final |-> None]
Call(name) == [Event("tool") EXCEPT !.name = name]
Summary(usage, used) == [Event("update") EXCEPT !.tokens = usage, !.usage = usage, !.used = used]
Finished(result) == [Event("finished") EXCEPT !.final = result]
TurnEnd(result) == [Event("end") EXCEPT !.final = result]

MCEvents == {Call("fs_read"), Call("write"), Call(None),
             Summary(1, <<"read", "grep_search">>), Summary(2, <<"read", "fs_read">>),
             [Summary(0, <<"write">>) EXCEPT !.tokens = None],
             Finished(Clean), Finished(None), [Finished(NoJson) EXCEPT !.data = FALSE],
             TurnEnd(OneFinding("empty", "plain")), TurnEnd(TooLarge),
             TurnEnd(AnySeverity), TurnEnd(OtherSkill)}
=============================================================================
