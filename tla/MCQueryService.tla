---------------------------- MODULE MCQueryService ----------------------------
EXTENDS QueryService, TLC

RequestSymmetry == Permutations(Requests)
=============================================================================
