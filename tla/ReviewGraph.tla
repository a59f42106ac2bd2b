---------------------------- MODULE ReviewGraph -----------------------------
(***************************************************************************)
(* The LangGraph reviewer (graph.py): four nodes in a row, load_skill,     *)
(* load_knowledge, inspect_diff and decide, over a package of rules and a  *)
(* diff.  inspect_diff visits the lines in order and the rules in order    *)
(* within a line; one step of the model is one rule on one line.           *)
(*                                                                         *)
(* A text is known by the patterns it matches, so a pattern is the set of  *)
(* texts it is found in.                                                   *)
(***************************************************************************)
EXTENDS Integers, Sequences

CONSTANTS LineTexts,       \* the texts a line may hold
          RuleIds,
          DocumentIds,     \* the documents a rule may ask for
          Documents        \* those the job carries

Severities == {"low", "medium", "high", "critical"}
Decisions == {"approve", "comment", "changes_requested"}
Marks == {"+", "+++", "-", " "}
Line == [mark: Marks, text: LineTexts]
Rule == [id: RuleIds, severity: Severities, pattern: SUBSET LineTexts,
         compiles: BOOLEAN, knowledge_ids: SUBSET DocumentIds]
Package == [version: Nat, rules: Seq(Rule)]

VARIABLES node,        \* the node that runs next, or how the review ended
          reference,   \* the version the request refers to
          skill,       \* the package that was loaded
          diff,
          line, rule,  \* where inspect_diff stands
          findings, decision, documents

gvars == <<node, reference, skill, diff, line, rule, findings, decision, documents>>

Nodes == {"idle", "load_skill", "load_knowledge", "compile", "inspect_diff", "decide",
          "decided", "error"}
NoPackage == [version |-> 0, rules |-> <<>>]

(* Between two reviews nothing is left of the first. *)
Idle(n) == /\ node' = n
           /\ reference' = 0 /\ skill' = NoPackage /\ diff' = <<>>
           /\ line' = 1 /\ rule' = 1 /\ findings' = <<>>
           /\ decision' = "none" /\ documents' = {}

GInit == /\ node = "idle"
         /\ reference = 0 /\ skill = NoPackage /\ diff = <<>>
         /\ line = 1 /\ rule = 1 /\ findings = <<>>
         /\ decision = "none" /\ documents = {}

(* ReviewAgent.review: the initial state of the graph. *)
Start(version, package, d) ==
    /\ node = "idle"
    /\ node' = "load_skill"
    /\ reference' = version /\ skill' = package /\ diff' = d
    /\ line' = 1 /\ rule' = 1 /\ findings' = <<>>
    /\ decision' = "none" /\ documents' = {}

Fail == node' = "error" /\ UNCHANGED <<reference, skill, diff, line, rule, findings, decision, documents>>

(* The package must be of the version that was asked for. *)
LoadSkill ==
    /\ node = "load_skill"
    /\ IF skill.version # reference THEN Fail
       ELSE /\ node' = "load_knowledge"
            /\ UNCHANGED <<reference, skill, diff, line, rule, findings, decision, documents>>

(* Every document of every rule must be there, used or not. *)
Needed(p) == UNION {p.rules[i].knowledge_ids : i \in DOMAIN p.rules}

LoadKnowledge ==
    /\ node = "load_knowledge"
    /\ IF ~(Needed(skill) \subseteq Documents) THEN Fail
       ELSE /\ node' = "compile"
            /\ documents' = Needed(skill)
            /\ UNCHANGED <<reference, skill, diff, line, rule, findings, decision>>

(* inspect_diff compiles every pattern before it looks at a line. *)
Compile ==
    /\ node = "compile"
    /\ IF \E i \in DOMAIN skill.rules : ~skill.rules[i].compiles THEN Fail
       ELSE /\ node' = "inspect_diff"
            /\ UNCHANGED <<reference, skill, diff, line, rule, findings, decision, documents>>

AddedOrHeader(l) == l.mark \in {"+", "+++"}   \* mutant: the header of a file counts as an added line
AddedOrRemoved(l) == l.mark \in {"+", "-"}   \* mutant: every changed line counts
Added(l) == l.mark = "+"

Matches(r, l) == l.text \in r.pattern

Finding(i, j) == [line |-> i, rule |-> j, severity |-> skill.rules[j].severity,
                  knowledge_ids |-> skill.rules[j].knowledge_ids]

(* The first rule that matches a line does not end the line.                *)
NextRuleFromZero(hit) ==   \* mutant: the rules are counted from 0 after the first line
    IF rule < Len(skill.rules) THEN line' = line /\ rule' = rule + 1
    ELSE line' = line + 1 /\ rule' = 0
NextRule(hit) ==
    IF rule < Len(skill.rules) THEN line' = line /\ rule' = rule + 1
    ELSE line' = line + 1 /\ rule' = 1

Inspect ==
    /\ node = "inspect_diff"
    /\ line <= Len(diff) /\ rule <= Len(skill.rules)
    /\ LET hit == Added(diff[line]) /\ Matches(skill.rules[rule], diff[line]) IN
       /\ findings' = IF hit THEN Append(findings, Finding(line, rule)) ELSE findings
       /\ NextRule(hit)
    /\ UNCHANGED <<node, reference, skill, diff, decision, documents>>

InspectEnds ==
    /\ node = "inspect_diff"
    /\ line > Len(diff) \/ skill.rules = <<>>
    /\ node' = "decide"
    /\ UNCHANGED <<reference, skill, diff, line, rule, findings, decision, documents>>

(* One blocking finding requests changes, any other finding comments. *)
Blocking == {"high", "critical"}
DecisionOfFirst(fs) ==   \* mutant: the first finding decides
    IF fs = <<>> THEN "approve"
    ELSE IF fs[1].severity \in Blocking THEN "changes_requested" ELSE "comment"
DecisionOf(fs) ==
    IF \E i \in DOMAIN fs : fs[i].severity \in Blocking THEN "changes_requested"
    ELSE IF fs # <<>> THEN "comment"
    ELSE "approve"

UsedDocuments(fs) == {d \in documents : \E i \in DOMAIN fs : d \in fs[i].knowledge_ids}

Decide ==
    /\ node = "decide"
    /\ node' = "decided"
    /\ decision' = DecisionOf(findings)
    /\ documents' = UsedDocuments(findings)
    /\ UNCHANGED <<reference, skill, diff, line, rule, findings>>

GraphStep == \/ LoadSkill \/ LoadKnowledge \/ Compile \/ Inspect \/ InspectEnds \/ Decide

GNext == \/ \E v \in Nat, p \in Package, d \in Seq(Line) : Start(v, p, d)
         \/ GraphStep
         \/ node \in {"decided", "error"} /\ Idle("idle")
GSpec == GInit /\ [][GNext]_gvars
-----------------------------------------------------------------------------
(* What a review should say, without the loop that computes it.             *)
Hits(p, d) == {h \in (1..Len(d)) \X (1..Len(p.rules)) :
                  d[h[1]].mark = "+" /\ d[h[1]].text \in p.rules[h[2]].pattern}
Before(g, h) == g[1] < h[1] \/ (g[1] = h[1] /\ g[2] < h[2])

Verdict(p, d) ==
    IF \E h \in Hits(p, d) : p.rules[h[2]].severity \in {"high", "critical"} THEN "changes_requested"
    ELSE IF Hits(p, d) # {} THEN "comment"
    ELSE "approve"

At(i) == <<findings[i].line, findings[i].rule>>

GTypeOK == /\ node \in Nodes
           /\ reference \in Nat /\ skill \in Package
           /\ diff \in Seq(Line)
           /\ line \in Nat \ {0} /\ rule \in Nat \ {0}
           /\ findings \in Seq([line: Nat, rule: Nat, severity: Severities,
                                knowledge_ids: SUBSET DocumentIds])
           /\ decision \in Decisions \cup {"none"}
           /\ documents \in SUBSET DocumentIds

(* The findings of a review are exactly the matches of its rules on added   *)
(* lines, each once, by line and within a line by rule: nothing is found    *)
(* twice, skipped after a match, or found on a removed or header line.      *)
FindingsExact ==
    node \in {"decide", "decided"} =>
        /\ {At(i) : i \in DOMAIN findings} = Hits(skill, diff)
        /\ \A i, j \in DOMAIN findings : i < j => Before(At(i), At(j))

(* A review decides what its rules say of the diff, and cites the documents *)
(* of the rules that matched, all of which it has loaded.                   *)
DecisionExact ==
    node = "decided" =>
        /\ decision = Verdict(skill, diff)
        /\ documents = UNION {skill.rules[h[2]].knowledge_ids : h \in Hits(skill, diff)}
=============================================================================
