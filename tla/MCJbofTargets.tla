---------------------------- MODULE MCJbofTargets ----------------------------
(* JbofTargets with two nodes and two JBOFs. *)
EXTENDS JbofTargets

CONSTANTS n1, n2, j1, j2, all, one

\* A class that names both JBOFs, and one that names the first.
TwoClasses == [c \in {all, one} |-> IF c = all THEN {j1, j2} ELSE {j1}]
==============================================================================
