\* Every condition of two nested connectives, alone or beside a second rule.
SPECIFICATION Spec
CONSTANTS
    Conditions <- AllConditions
    Depth <- AllDepth
    RuleSets <- AllRuleSets
    DocumentsOf <- MCDocumentsOf
    Patterns <- AllPatterns
    Related <- AllRelated
    Basename <- AllBasename
    CommandsOf <- MCCommandsOf
    OtherCmdlines <- AllCmdlines
    OtherImages <- AllImages
    Words <- AllWords
    Quoted <- AllQuoted
    NoiseSwitches = {"event_receiver", "vscode", "shell_startup", "development_git", "proc_polling", "process_inventory"}
INVARIANTS
    MatchesAreTrue
    ConjunctionsExact
    
    NoiseIsWhole
