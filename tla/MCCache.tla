------------------------------ MODULE MCCache ------------------------------
(* Three keys for a cache of up to two entries, with either policy, and as *)
(* much time as an entry needs to be set, used and to expire.              *)
EXTENDS InMemoryCache, TLC

CONSTANTS k1, k2, k3, v1, v2

KeySymmetry == Permutations(Keys)
=============================================================================
