---------------------------- MODULE MCMembership ----------------------------
(* Membership for TLC: request slots are interchangeable, and so are the users *)
(* other than the owner.                                                       *)
EXTENDS Membership, TLC

Symmetry == Permutations(Requests) \union Permutations(Users \ {Owner})
===============================================================================
