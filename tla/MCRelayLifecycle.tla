-------------------------- MODULE MCRelayLifecycle --------------------------
EXTENDS RelayLifecycle, TLC

CONSTANT Budget     \* bound: restarts, changes of authority and late requests together

\* The carriers of an endpoint are interchangeable.
NamespaceSymmetry == Permutations(Namespaces)

\* The changes of an identity so far: generations allocated, policies set, the pool left or erased.
Changes(e) == config[e] + floor[e] - 1 + (IF pool[e] = "eligible" THEN 0 ELSE 2)
WithinBudget == \A e \in Endpoints : 2 * epochs + Changes(e) + Cardinality(late) <= Budget
=============================================================================
