---------------------------- MODULE MCAuthzCode ----------------------------
(***************************************************************************)
(* Symmetries of the small instances of AuthzCode: calls of one kind do    *)
(* not differ.                                                             *)
(***************************************************************************)
EXTENDS AuthzCode, TLC

CallSymmetry == Permutations(Completions) \cup Permutations(Redemptions) \cup Permutations(AuthIDs)
=============================================================================
