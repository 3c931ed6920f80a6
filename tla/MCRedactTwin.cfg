CONSTANTS
    Contents <- MCContents
    Indices <- MCIndices
    Bodies <- MCBodies
    Patterns = {"openai_api_key", "anthropic_api_key"}
    Structural = {4}
    MaskLen = 2
    MaxFindings = 2
SPECIFICATION Spec
INVARIANT NoFlaggedByteForwarded
CHECK_DEADLOCK FALSE
