----------------------------- MODULE MCProfiles -----------------------------
(* An instance of Profiles for TLC.                                         *)
EXTENDS Profiles, TLC

CONSTANTS i1, i2, t1, t2

MCSymmetry == Permutations(Id) \cup Permutations(Task)
=============================================================================
