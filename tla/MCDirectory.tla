----------------------------- MODULE MCDirectory -----------------------------
(* Instances of Directory for TLC. *)
EXTENDS Directory, TLC

\* Keys, names and rotations in flight are interchangeable.
NameSymmetry == Permutations(Keys) \cup Permutations(Hostnames) \cup Permutations(Rotators)
=============================================================================
