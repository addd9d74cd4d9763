------------------------------- MODULE MCAgent -------------------------------
(* Instances of the agent small enough for TLC. *)
EXTENDS AgentProps, TLC

CONSTANTS c1, c2, w1, w2, e1, e2

Clients   == {c1, c2}
Runners   == {w1, w2}
Executors == {e1, e2}

Symmetry == {p @@ q @@ r : p \in Permutations(Clients), q \in Permutations(Runners),
                           r \in Permutations(Executors)}
=============================================================================
