------------------------------ MODULE MCClient ------------------------------
\* Model checking of Client on small clusters.
EXTENDS Client, TLC

CONSTANTS n1, n2, stranger

MCNodes == {n1, n2}
MCStrangers == {stranger}

Symmetry == Permutations(MCNodes)

\* One call for each kind of answer.
ReplyCalls == {"set", "delete_prefix", "get", "test_and_set", "multi_get", "range_entries"}
HarshCalls == {"hello", "multi_get", "range_entries"}
OneCall == {"set"}
NoStrangers == {}
MCOneNode == {n1}

=============================================================================
