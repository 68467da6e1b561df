---------------------------- MODULE MC_Process ----------------------------
EXTENDS Process, TLC
Threads == Permutations(IOThread) \cup Permutations(Path)
MCProc == 1..3
=============================================================================
