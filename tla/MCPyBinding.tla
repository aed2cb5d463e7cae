----------------------------- MODULE MCPyBinding -----------------------------
EXTENDS PyBinding, TLC

LidarSymmetry == Permutations(Lidar)
=============================================================================
