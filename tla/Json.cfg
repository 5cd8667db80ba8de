SPECIFICATION Spec
CONSTANTS
    Scenarios <- MCScenarios
    Endings <- MCEndings
    Others <- MCOthers
INVARIANTS
    ParsesGrammar
    PointersFollowBrackets
    DumpsBack
    AutomataAgree
    FormatsBack
    NoPrefixIsRead
    DiffPatches
    FlattensBack
CHECK_DEADLOCK FALSE
