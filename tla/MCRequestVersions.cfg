CONSTANTS
    NoName = ""
    RuleNames <- MCRuleNames
    r1 = r1
    noPolicy = noPolicy
    noBody = noBody
    Patterns <- MCPatterns
    Paths <- MCPaths
    Requests = {r1}
    Bodies <- MCBodies
    Findings <- MCFindings
    Policies <- StrictPolicies
    NoPolicy = noPolicy
    Initials <- PathFirst
    BlockOnDetect = TRUE
    UpstreamStatus = {200, 403}
    NoBody = noBody
SPECIFICATION Spec
INVARIANTS OneVersionForwards
CHECK_DEADLOCK FALSE
