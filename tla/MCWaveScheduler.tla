--------------------------- MODULE MCWaveScheduler ---------------------------
(* A wave for TLC: three repositories, two of them with two issues, and an   *)
(* issue that waits for its sibling and for one of another repository.       *)
EXTENDS WaveScheduler

CONSTANTS a1, a2, b1, b2, c1, repoA, repoB, repoC

MCTasks == {a1, a2, b1, b2, c1}

MCRepo == [t \in Tasks |-> CASE t \in {a1, a2} -> repoA
                             [] t \in {b1, b2} -> repoB
                             [] t = c1 -> repoC]

MCDep == [t \in Tasks |-> IF t = b2 THEN {a1, b1} ELSE {}]
=============================================================================
