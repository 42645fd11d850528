----------------------------- MODULE MCAllocator -------------------------------
EXTENDS Allocator, TLC

MCPools == {{1}, {1, 2}}
OnePool == {{1}}
Symmetry == Permutations(Container)
================================================================================
