-------------------------- MODULE MCUsageMetering --------------------------
EXTENDS UsageMetering, TLC

\* Flows are interchangeable.
FlowSymmetry == Permutations(Flows)
=============================================================================
