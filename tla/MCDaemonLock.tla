---------------------------- MODULE MCDaemonLock ----------------------------
EXTENDS DaemonLock
CONSTANTS d1, d2, d3, s1
MCThree == {d1, d2, d3}
=============================================================================
