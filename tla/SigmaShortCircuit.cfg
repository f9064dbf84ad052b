\* The parser skips an operand Python's "or" and "and" need not evaluate.
SPECIFICATION Spec
CONSTANTS
    Conditions <- AllConditions
    Depth <- AllDepth
    RuleSets <- AllRuleSets
    DocumentsOf <- MCDocumentsOf
    Patterns <- AllPatterns
    Related <- AllRelated
    Basename <- AllBasename
    CommandsOf <- MCCommandsOf
    OtherCmdlines <- AllCmdlines
    OtherImages <- AllImages
    Words <- AllWords
    Quoted <- AllQuoted
    NoiseSwitches = {"event_receiver", "vscode", "shell_startup", "development_git", "proc_polling", "process_inventory"}
INVARIANT
    WellFormedNeverRaises
