--------------------------- MODULE MCPolicyWatcher --------------------------
EXTENDS PolicyWatcher
=============================================================================
