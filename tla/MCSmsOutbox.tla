---------------------------- MODULE MCSmsOutbox ----------------------------
EXTENDS SmsOutbox

CONSTANTS w1, w2, m1, m2, b1

MCWorkers == {w1, w2}
MCMessages == {m1, m2}
MCPlatform == {m2}
MCBills == {b1}
============================================================================
