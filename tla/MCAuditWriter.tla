---------------------------- MODULE MCAuditWriter ---------------------------
EXTENDS AuditWriter

CONSTANTS h1, src, c1, c2

\* One call more than the record channel holds.
MCMaxCalls == [handler |-> 3, source |-> 1]
=============================================================================
