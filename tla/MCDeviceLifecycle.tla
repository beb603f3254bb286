-------------------------- MODULE MCDeviceLifecycle --------------------------
EXTENDS DeviceLifecycle, TLC
CONSTANTS t1, t2, s1, s2

Symmetry == Permutations(Token) \cup Permutations(Slot)
=============================================================================
