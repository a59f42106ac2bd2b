SPECIFICATION Spec
CONSTANTS
    LineTexts = {"eval", "fsql", "format", "quoted"}
    RuleIds = {"no-dynamic-eval", "parameterize-sql"}
    DocumentIds = {"data-access", "lost"}
    Documents = {"data-access"}
    Cases <- MCCases
    CaseDiff <- MCCaseDiff
    Expected <- MCExpected
    FirstRules <- MCFirstRules
    EditedRules <- MCEditedRules
    SelectTexts = {"fsql", "format", "quoted"}
    DotFormatTexts = {"format", "quoted"}
    SQL_FORMAT_PATTERN = {"fsql", "format"}
    PageLimit = 1
    SpanLimit = 1
    MaxTraces = 2
    MaxVersions = 2
    MaxAnalyses = 2
    MaxEdits = 1
    None = None
INVARIANTS LTypeOK FindingsExact DecisionExact TracesTellTheirVersion FilesAgree PatchesAreApproved LoopCloses EmptyPatchesAreUnfixable MissingMeansFull ProposalGrounded
CHECK_DEADLOCK FALSE
