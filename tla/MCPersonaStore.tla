---------------------------- MODULE MCPersonaStore ----------------------------
(***************************************************************************)
(* Instances of PersonaStore for TLC: one or two processes, two personas.  *)
(***************************************************************************)
EXTENDS PersonaStore, TLC

CONSTANTS agent, seeder, a1, a2, s1, concierge, search, d1, base, child

ProcOf_ == [w \in Writers |-> IF w = s1 THEN seeder ELSE agent]

Symmetry ==
    Permutations(Ids) \cup Permutations({a1, a2}) \cup Permutations(Links)
=============================================================================
