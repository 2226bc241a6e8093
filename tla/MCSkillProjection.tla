-------------------------- MODULE MCSkillProjection --------------------------
(* Instances of SkillProjection for TLC.  Sessions are interchangeable, and  *)
(* so are keys.                                                             *)
EXTENDS SkillProjection, TLC

Symmetry == Permutations(Session) \cup Permutations(Key)
=============================================================================
