----------------------------- MODULE MCProxyRun -----------------------------
EXTENDS ProxyRun

CONSTANTS c1, src, absent, torn
=============================================================================
