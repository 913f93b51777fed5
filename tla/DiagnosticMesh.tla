--------------------------- MODULE DiagnosticMesh ---------------------------
(***************************************************************************)
(* Diagnostic commands travelling through a mesh of plugins that enabled   *)
(* the trusted-test mesh control (start_diagnostics_control and            *)
(* handle_local_diagnostic_request in kaonic-atak-plugin/src/main.rs).     *)
(*                                                                         *)
(* Every node runs its network_control task and one task per local control *)
(* socket over one shared DiagnosticState.  A task applies a command with  *)
(* the mutex held and then, after an await of the transport lock, sends it *)
(* to the node's in-links: other tasks run in between, so applying and     *)
(* sending are separate steps.  A process that restarts forgets everything *)
(* (the state is volatile).                                                *)
(*                                                                         *)
(* The radio reorders, repeats and loses messages.  Losing one also stands *)
(* for the ways the receiver never sees it: the link is down, its hash is  *)
(* not in peer_hashes, or the event was skipped by a lagging receiver.     *)
(* A flood is over long before SEEN_COMMAND_RETENTION (24 hours): the whole*)
(* of it happens at one time, Now; ageing is the subject of Diagnostics.   *)
(***************************************************************************)
EXTENDS DiagnosticState

CONSTANTS
  Node,
  Edges,        \* <<m, n>>: n holds a link to m, so what m sends reaches n
  LocalTask,    \* the local control sockets of a node
  MeshTask,     \* its network_control task
  MaxRestarts   \* bound on the number of restarts

ASSUME EdgesAssumption == Edges \subseteq {e \in Node \X Node : e[1] # e[2]}
ASSUME TasksAssumption == MeshTask \notin LocalTask
ASSUME RestartsAssumption == MaxRestarts \in Nat

Now == 0
Tasks == LocalTask \cup {MeshTask}
Message == [from : Node, to : Node, command : Command]
NoCommand == [id |-> None]

VARIABLES
  state,      \* per node: its DiagnosticInner
  outbox,     \* per node and task: the command it has applied but not sent yet
  net,        \* messages in flight
  lost,       \* history: has any message been lost?
  restarts,   \* number of restarts
  ever        \* history: per node, the identifiers it has ever applied

vars == <<state, outbox, net, lost, restarts, ever>>

\* The types: every node holds a well-formed diagnostic state.
TypeOK ==
  /\ state \in [Node -> {s \in {state[n] : n \in Node} : IsInner(s)}]
  /\ outbox \in [Node -> [Tasks -> Command \cup {NoCommand}]]
  /\ net \subseteq Message
  /\ lost \in BOOLEAN
  /\ restarts \in Nat
  /\ ever \in [Node -> SUBSET Ids]

Init ==
  /\ state = [n \in Node |-> Empty]
  /\ outbox = [n \in Node |-> [t \in Tasks |-> NoCommand]]
  /\ net = {}
  /\ lost = FALSE
  /\ restarts = 0
  /\ ever = [n \in Node |-> {}]

-----------------------------------------------------------------------------
Issued == UNION {ever[n] : n \in Node}

\* Task t of node n applies c; it goes on to send c if toSend says so.
ApplyAt(n, t, c, toSend) ==
  /\ outbox[n][t] = NoCommand
  /\ state' = [state EXCEPT ![n] = ApplyOnce(@, c, Now)]
  /\ ever' = IF IsNew(state[n], c, Now)
             THEN [ever EXCEPT ![n] = @ \cup {c.id}]
             ELSE ever
  /\ outbox' = IF toSend THEN [outbox EXCEPT ![n][t] = c] ELSE outbox
  /\ UNCHANGED restarts

\* A plausible bug: identifiers are unique on one node only.
RequestLocallyUnique(n, t, c) ==
  /\ t \in LocalTask
  /\ c.id \notin ever[n]
  /\ ApplyAt(n, t, c, TRUE)
  /\ UNCHANGED <<net, lost>>

\* A local enable or disable: new_command_id makes an identifier never used
\* before, and the command is sent whatever apply_once returned.
Request(n, t, c) ==
  /\ t \in LocalTask
  /\ c.id \notin Issued
  /\ ApplyAt(n, t, c, TRUE)
  /\ UNCHANGED <<net, lost>>

\* A plausible bug: every copy of a command is forwarded, not only a new one.
ReceiveForwardingAll(n, m) ==
  /\ m \in net /\ m.to = n
  /\ ApplyAt(n, MeshTask, m.command, TRUE)
  /\ net' \in {net, net \ {m}}
  /\ UNCHANGED lost

\* A plausible bug: a disable is applied but not forwarded.
ReceiveForwardingEnables(n, m) ==
  /\ m \in net /\ m.to = n
  /\ ApplyAt(n, MeshTask, m.command,
             IsNew(state[n], m.command, Now) /\ m.command.action = "enable")
  /\ net' \in {net, net \ {m}}
  /\ UNCHANGED lost

\* A LinkEvent::Data of a peer reaches network_control: a command that
\* apply_once accepts is sent on.  The radio may deliver m again.
Receive(n, m) ==
  /\ m \in net /\ m.to = n
  /\ ApplyAt(n, MeshTask, m.command, IsNew(state[n], m.command, Now))
  /\ net' \in {net, net \ {m}}
  /\ UNCHANGED lost

\* send_to_in_links
Send(n, t) ==
  /\ outbox[n][t] # NoCommand
  /\ net' = net \cup {[from |-> n, to |-> e[2], command |-> outbox[n][t]] :
                       e \in {e \in Edges : e[1] = n}}
  /\ outbox' = [outbox EXCEPT ![n][t] = NoCommand]
  /\ UNCHANGED <<state, lost, restarts, ever>>

Lose(m) ==
  /\ m \in net
  /\ net' = net \ {m}
  /\ lost' = TRUE
  /\ UNCHANGED <<state, outbox, restarts, ever>>

\* The process of n stops and starts again.
Restart(n) ==
  /\ restarts < MaxRestarts
  /\ restarts' = restarts + 1
  /\ state' = [state EXCEPT ![n] = Empty]
  /\ outbox' = [outbox EXCEPT ![n] = [t \in Tasks |-> NoCommand]]
  /\ UNCHANGED <<net, lost, ever>>

Next ==
  \/ \E n \in Node :
       \/ \E t \in LocalTask, c \in Command : Request(n, t, c)
       \/ \E m \in net : Receive(n, m)
       \/ \E t \in Tasks : Send(n, t)
       \/ Restart(n)
  \/ \E m \in net : Lose(m)

Spec == Init /\ [][Next]_vars

\* The runtime keeps scheduling the tasks, and the radio does not repeat a
\* message for ever: a message in flight is eventually delivered for the last
\* time or lost.
Gone(m) ==
  \/ Lose(m)
  \/ \E n \in Node : Receive(n, m) /\ net' = net \ {m}

Fairness ==
  /\ \A n \in Node, t \in Tasks : WF_vars(Send(n, t))
  /\ \A m \in Message : WF_vars(Gone(m))

FairSpec == Spec /\ Fairness

-----------------------------------------------------------------------------
Flood == INSTANCE CommandFlood
           WITH memory <- [n \in Node |-> state[n].order], Room <- MaxSeen

\* The mesh implements CommandFlood: no node applies an identifier twice while
\* its index and its process last, and none applies one that no neighbour has
\* had.
ImplementsFlood == Flood!Spec

Quiet == net = {} /\ \A n \in Node, t \in Tasks : outbox[n][t] = NoCommand

\* The index of a node has room for the identifiers in use.
FewCommands == IsFiniteSet(Ids) /\ Cardinality(Ids) <= MaxSeen

\* A command "relays ... through discovered diagnostic control links"
\* (docs/Diagnostics.md:39): when nothing was lost, no process restarted and
\* nothing is in flight, every node of a connected mesh has applied exactly
\* the issued commands, and remembers them if there is room.
QuietMeshAgrees ==
  Quiet /\ ~lost /\ restarts = 0 =>
    \A n \in Node :
      /\ ever[n] = Issued
      /\ FewCommands => DOMAIN state[n].seen = Issued

\* "without looping indefinitely" (docs/Diagnostics.md:39): whatever the
\* topology and the repeats of the radio, the mesh falls silent.
FloodDies == <>[](net = {})
=============================================================================
