------------------------ MODULE MC_RemoteControlClient ------------------------
EXTENDS RemoteControlClient, TLC

CONSTANTS c1, c2, fin, none

MCCallers == {c1, c2}
MCSymmetry == Permutations(MCCallers)
=============================================================================
