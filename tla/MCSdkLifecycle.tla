---------------------------- MODULE MCSdkLifecycle ----------------------------
EXTENDS SdkLifecycle, TLC

LifecycleSymmetry == Permutations(Lidar)
=============================================================================
