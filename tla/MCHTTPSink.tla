----------------------------- MODULE MCHTTPSink -----------------------------
EXTENDS HTTPSink

CONSTANT p1
=============================================================================
