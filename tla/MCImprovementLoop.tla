------------------------- MODULE MCImprovementLoop --------------------------
(* Two cases of the evaluation manifest.  In "format" an added line builds  *)
(* SQL with .format, as examples/sql-format-gap.diff does.  In "quoted" the *)
(* line the pattern finds is removed, and the added one holds SELECT and    *)
(* .format with a quote between them: "... name = '{}'".format(n), which    *)
(* the pattern does not find.  The rules are two of rules.json; a developer *)
(* changes a severity and pattern, takes the target out, or breaks a rule.   *)
EXTENDS ImprovementLoop

L(mark, text) == [mark |-> mark, text |-> text]
MCCases == {"format", "quoted"}
MCCaseDiff == [format |-> <<L("+++", "eval"), L("+", "format")>>,
               quoted |-> <<L("-", "format"), L("+", "quoted")>>]
MCExpected == [c \in MCCases |-> "changes_requested"]

R(id, severity, pattern) == [id |-> id, severity |-> severity, pattern |-> pattern,
                             compiles |-> TRUE, knowledge_ids |-> {"data-access"}]
NoDynamicEval == R("no-dynamic-eval", "high", {"eval"})
ParameterizeSql == R("parameterize-sql", "high", {"fsql"})
MCFirstRules == <<NoDynamicEval, ParameterizeSql>>
MCEditedRules == {<<[NoDynamicEval EXCEPT !.severity = "low", !.pattern = {"format", "quoted"}], ParameterizeSql>>,
                  <<[NoDynamicEval EXCEPT !.compiles = FALSE]>>,
                  <<[NoDynamicEval EXCEPT !.knowledge_ids = {"lost"}]>>}
=============================================================================
