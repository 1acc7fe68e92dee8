---------------------------- MODULE MCCloudSync ----------------------------
EXTENDS CloudSync, TLC
Symmetry == Permutations(Contents)
=============================================================================
