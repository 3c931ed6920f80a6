--------------------------- MODULE MCRemotePolicy ---------------------------
EXTENDS RemotePolicy

CONSTANTS old, new, torn

\* The new document is the old one with rules added at its end: a write that
\* fails midway leaves the old rules, or a text that does not load.
MCParts(d) == IF d = new THEN {old, torn} ELSE {torn}
=============================================================================
