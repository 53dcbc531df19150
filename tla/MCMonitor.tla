----------------------------- MODULE MCMonitor -----------------------------
EXTENDS Monitor

CONSTANTS m1, m2
MCMonitors == {m1, m2}
MCSettings == {[repeat |-> TRUE, json |-> TRUE], [repeat |-> FALSE, json |-> FALSE]}
=============================================================================
