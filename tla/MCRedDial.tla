----------------------------- MODULE MCRedDial -----------------------------
(* RedDial on small instances: three checkers, two pppds, one or two profiles. *)
EXTENDS RedDial, TLC

CONSTANTS c1, c2, c3, q1, q2, prof1, prof2

\* prof1 falls back to prof2, prof2 to nothing.
MCBackup == [p \in Profiles |-> IF p = prof1 /\ prof2 \in Profiles THEN prof2 ELSE NoProfile]

\* Neither the code nor a safety property tells checkers or pppds apart.
Symmetry == Permutations(Checkers) \cup Permutations(Pppds)

=============================================================================
