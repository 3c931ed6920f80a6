CONSTANTS
    NoName = ""
    RuleNames <- MCRuleNames
    r1 = r1
    noPolicy = noPolicy
    noBody = noBody
    Patterns <- MCPatterns
    Paths <- MCPaths
    Requests = {r1}
    Bodies <- MCBodies
    Findings <- MCFindings
    Policies <- MCPolicies
    NoPolicy = noPolicy
    Initials <- MCInitials
    BlockOnDetect = TRUE
    UpstreamStatus = {200, 403}
    NoBody = noBody
SPECIFICATION FairSpec
INVARIANTS TypeOK BlockEnforced RedactionEnforced AuditTellsTheTruth
PROPERTIES BlockedIsAudited
CHECK_DEADLOCK FALSE
