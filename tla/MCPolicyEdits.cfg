CONSTANTS
    NoName = ""
    RuleNames <- MCRuleNames
    Patterns  <- MCPatterns
    Paths     <- MCPaths
    YamlRules <- MCYamlRules
    Tried     <- MCFindings
    MaxRules  = 3
SPECIFICATION EditSpec
INVARIANTS RulesDoNotInterfere DecidingRuleIdentified
PROPERTIES AppendDecidesOnlyUndecided RejectionIsSticky
CHECK_DEADLOCK FALSE
