---------------------------- MODULE CommandFlood ----------------------------
(***************************************************************************)
(* What docs/Diagnostics.md:39 promises of the diagnostic mesh: "Each node *)
(* applies each command identifier once and forwards a new command once".  *)
(* A node comes to know an identifier because its operator issued it, or   *)
(* from a neighbour that has known it, and not while it remembers it.  It  *)
(* remembers the last Room identifiers, until its process restarts.        *)
(* DiagnosticMesh implements this.                                         *)
(***************************************************************************)
EXTENDS Naturals, Sequences

CONSTANTS
  Node, Ids, Edges,
  Room     \* number of identifiers a node has room for

VARIABLES
  memory,  \* per node: the identifiers it remembers, the oldest first
  ever     \* per node: the identifiers it has ever applied

vars == <<memory, ever>>

Init ==
  /\ memory = [n \in Node |-> <<>>]
  /\ ever = [n \in Node |-> {}]

Recent(q) == IF Len(q) <= Room THEN q ELSE SubSeq(q, Len(q) - Room + 1, Len(q))

Learn(n, id) ==
  /\ \A i \in 1..Len(memory[n]) : memory[n][i] # id
  /\ memory' = [memory EXCEPT ![n] = Recent(Append(@, id))]
  /\ ever' = [ever EXCEPT ![n] = @ \cup {id}]

\* An identifier enters the mesh at one node.
Issue(n, id) ==
  /\ \A m \in Node : id \notin ever[m]
  /\ Learn(n, id)

Hear(n, id) ==
  /\ \E m \in Node : <<m, n>> \in Edges /\ id \in ever[m]
  /\ Learn(n, id)

Restart(n) ==
  /\ memory' = [memory EXCEPT ![n] = <<>>]
  /\ UNCHANGED ever

Next ==
  \E n \in Node :
    \/ \E id \in Ids : Issue(n, id) \/ Hear(n, id)
    \/ Restart(n)

Spec == Init /\ [][Next]_vars
=============================================================================
