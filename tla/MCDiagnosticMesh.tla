-------------------------- MODULE MCDiagnosticMesh --------------------------
(* A one-way ring n1 -> n2 -> n3 -> n1: every command meets a cycle.         *)
EXTENDS DiagnosticMesh
CONSTANTS n1, n2, n3
MCNode == {n1, n2, n3}
MCEdges == {<<n1, n2>>, <<n2, n3>>, <<n3, n1>>}
=============================================================================
