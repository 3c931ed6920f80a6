---------------------------- MODULE MCLogsFollow ----------------------------
EXTENDS LogsFollow
=============================================================================
