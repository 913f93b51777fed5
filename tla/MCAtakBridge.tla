---------------------------- MODULE MCAtakBridge ----------------------------
(* Two nodes with links to each other, on LANs of their own.  A valid packet *)
(* starts at each of them and one that is not CoT at the first.              *)
EXTENDS AtakBridge
CONSTANTS n1, n2, x1, x2, bad
MCSource == [x \in {x1, x2, bad} |-> IF x = x2 THEN n2 ELSE n1]
=============================================================================
