------------------------------- MODULE MCTaxi -------------------------------
EXTENDS Taxi, TLC
CONSTANTS d1, d2
MCPid == {d1, d2}
OnePid == {d1}
PidSymmetry == Permutations(MCPid)
TwoTimers == {0, 2}
OneTimer == {2}
AnyFlags == SUBSET {"RESTART", "RESETHAND"}
RestartOrNot == {{}, {"RESTART"}}
=============================================================================
