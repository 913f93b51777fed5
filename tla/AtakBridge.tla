----------------------------- MODULE AtakBridge -----------------------------
(***************************************************************************)
(* One ATAK channel bridged over the mesh (start_bridge and accept_payload *)
(* in kaonic-atak-plugin/src/main.rs, multicast.rs): CoT packets travel    *)
(* from the LAN of one node, over the links other nodes hold to it, to     *)
(* theirs.                                                                 *)
(*                                                                         *)
(* Every node runs four tasks.  udp_to_rns reads the multicast socket and  *)
(* sends what it accepts to the in-links of the node.  auto_link enters an *)
(* announced peer into peer_hashes and then, an await later, has the       *)
(* transport link to it.  rns_to_udp receives the events of all out-links  *)
(* from a broadcast channel and skips those whose hash is not in           *)
(* peer_hashes.  reannounce announces the node every 10 seconds.           *)
(*                                                                         *)
(* A packet is accepted if it is valid CoT (Valid) or the operator allowed *)
(* unvalidated payloads.  What accepting one records is the subject of     *)
(* Diagnostics.                                                            *)
(***************************************************************************)
EXTENDS Naturals, Sequences, FiniteSets

CONSTANTS
  Node,
  SameLan,          \* <<m, n>>: n hears what m multicasts
  Packet,
  Source,           \* per packet: the node whose LAN it comes from
  Valid,            \* the packets parse_cot_payload accepts
  AllowUnvalidated, \* allow_unvalidated_payloads
  None,
  MaxEvents,        \* capacity of the out-link event channel
  MaxCloses         \* bound on the links that close

ASSUME LanAssumption == SameLan \subseteq {e \in Node \X Node : e[1] # e[2]}
ASSUME SourceAssumption == Source \in [Packet -> Node]
ASSUME ValidAssumption == Valid \subseteq Packet /\ AllowUnvalidated \in BOOLEAN
ASSUME NoneAssumption == None \notin Node
ASSUME BoundsAssumption == MaxEvents \in Nat \ {0} /\ MaxCloses \in Nat

VARIABLES
  unsent,       \* per node: packets its ATAK devices have not sent yet
  socket,       \* per node: datagrams in the buffer of its multicast receiver
  peer_hashes,  \* per node: the nodes whose link events it heeds
  linking,      \* per node: the peer auto_link is about to link to, or None
  link,         \* link[n][m]: status of the link n holds to m
  events,       \* per node: out-link events not yet received by rns_to_udp
  put,          \* per node: how often it multicast each packet on its LAN
  closes

vars == <<unsent, socket, peer_hashes, linking, link, events, put, closes>>

Status == {"None", "Pending", "Active", "Closed"}
LinkEvent ==
  [from : Node, kind : {"Activated", "Closed"}]
  \cup [from : Node, kind : {"Data"}, packet : Packet]

\* The types; a node never tracks itself, though it hears its own announces.
TypeOK ==
  /\ unsent \in [Node -> SUBSET Packet]
  /\ socket \in [Node -> Seq(Packet)]
  /\ peer_hashes \in [Node -> SUBSET Node]
  /\ \A n \in Node : n \notin peer_hashes[n]
  /\ linking \in [Node -> Node \cup {None}]
  /\ link \in [Node -> [Node -> Status]]
  /\ \A n \in Node : events[n] \in Seq(LinkEvent) /\ Len(events[n]) <= MaxEvents
  /\ put \in [Node -> [Packet -> Nat]]
  /\ closes \in Nat

Init ==
  /\ unsent = [n \in Node |-> {x \in Packet : Source[x] = n}]
  /\ socket = [n \in Node |-> <<>>]
  /\ peer_hashes = [n \in Node |-> {}]
  /\ linking = [n \in Node |-> None]
  /\ link = [n \in Node |-> [m \in Node |-> "None"]]
  /\ events = [n \in Node |-> <<>>]
  /\ put = [n \in Node |-> [x \in Packet |-> 0]]
  /\ closes = 0

-----------------------------------------------------------------------------
\* accept_payload
Accepted(x) == x \in Valid \/ AllowUnvalidated

\* The event channel of n after e: a receiver that lags skips the oldest.
Pushed(n, e) ==
  IF Len(events[n]) < MaxEvents
  THEN Append(events[n], e)
  ELSE Append(Tail(events[n]), e)

\* An ATAK device behind n multicasts a packet; every node on the LAN hears it.
DeviceSends(n, x) ==
  /\ x \in unsent[n]
  /\ unsent' = [unsent EXCEPT ![n] = @ \ {x}]
  /\ socket' = [m \in Node |-> IF m = n \/ <<n, m>> \in SameLan
                               THEN Append(socket[m], x) ELSE socket[m]]
  /\ UNCHANGED <<peer_hashes, linking, link, events, put, closes>>

\* udp_to_rns: an accepted datagram goes to the in-links, that is over the
\* links the other nodes hold to n.  The radio may lose any copy.
UdpToRns(n) ==
  /\ socket[n] # <<>>
  /\ socket' = [socket EXCEPT ![n] = Tail(@)]
  /\ \E reached \in SUBSET {m \in Node : link[m][n] = "Active"} :
       events' = [m \in Node |->
                    IF Accepted(Head(socket[n])) /\ m \in reached
                    THEN Pushed(m, [from |-> n, kind |-> "Data",
                                    packet |-> Head(socket[n])])
                    ELSE events[m]]
  /\ UNCHANGED <<unsent, peer_hashes, linking, link, put, closes>>

\* A plausible bug: a peer that has a link is not entered again.
HearAnnounceOfUnlinked(n, m) ==
  /\ m # n /\ linking[n] = None
  /\ peer_hashes' = IF link[n][m] \in {"Pending", "Active"} THEN peer_hashes
                    ELSE [peer_hashes EXCEPT ![n] = @ \cup {m}]
  /\ linking' = [linking EXCEPT ![n] = m]
  /\ UNCHANGED <<unsent, socket, link, events, put, closes>>

\* A plausible bug: the announces of the node itself are not filtered out.
HearAnnounceOfOwn(n, m) ==
  /\ linking[n] = None
  /\ peer_hashes' = [peer_hashes EXCEPT ![n] = @ \cup {m}]
  /\ linking' = [linking EXCEPT ![n] = m]
  /\ UNCHANGED <<unsent, socket, link, events, put, closes>>

\* auto_link receives an announce of m ...
HearAnnounce(n, m) ==
  /\ m # n /\ linking[n] = None
  /\ peer_hashes' = [peer_hashes EXCEPT ![n] = @ \cup {m}]
  /\ linking' = [linking EXCEPT ![n] = m]
  /\ UNCHANGED <<unsent, socket, link, events, put, closes>>

\* ... and has the transport link to it, which keeps an open link.
AutoLink(n) ==
  /\ linking[n] # None
  /\ link' = [link EXCEPT ![n][linking[n]] =
                IF @ \in {"Pending", "Active"} THEN @ ELSE "Pending"]
  /\ linking' = [linking EXCEPT ![n] = None]
  /\ UNCHANGED <<unsent, socket, peer_hashes, events, put, closes>>

-----------------------------------------------------------------------------
(* rns_to_udp *)

Received(n, kind) ==
  /\ events[n] # <<>> /\ Head(events[n]).kind = kind
  /\ events' = [events EXCEPT ![n] = Tail(@)]

Tracked(n) == Head(events[n]).from \in peer_hashes[n]

\* Activated, and anything of a peer that is not tracked, changes nothing.
Skip(n) ==
  /\ \/ Received(n, "Activated")
     \/ (Received(n, "Closed") \/ Received(n, "Data")) /\ ~Tracked(n)
  /\ UNCHANGED <<unsent, socket, peer_hashes, linking, link, put, closes>>

Closed(n) ==
  /\ Received(n, "Closed") /\ Tracked(n)
  /\ peer_hashes' = [peer_hashes EXCEPT ![n] = @ \ {Head(events[n]).from}]
  /\ UNCHANGED <<unsent, socket, linking, link, put, closes>>

\* A plausible bug: the sender's multicasts loop back to the receiver.
DataLoopingBack(n) ==
  LET x == Head(events[n]).packet
  IN  /\ Received(n, "Data") /\ Tracked(n)
      /\ IF Accepted(x)
         THEN /\ put' = [put EXCEPT ![n][x] = @ + 1]
              /\ socket' = [m \in Node |-> IF m = n \/ <<n, m>> \in SameLan
                                           THEN Append(socket[m], x) ELSE socket[m]]
         ELSE UNCHANGED <<put, socket>>
      /\ UNCHANGED <<unsent, peer_hashes, linking, link, closes>>

\* An accepted payload is multicast on the LAN.  The receiver of n itself does
\* not hear it: the sender's socket has multicast_loop switched off.
Data(n) ==
  LET x == Head(events[n]).packet
  IN  /\ Received(n, "Data") /\ Tracked(n)
      /\ IF Accepted(x)
         THEN /\ put' = [put EXCEPT ![n][x] = @ + 1]
              /\ socket' = [m \in Node |-> IF <<n, m>> \in SameLan
                                           THEN Append(socket[m], x) ELSE socket[m]]
         ELSE UNCHANGED <<put, socket>>
      /\ UNCHANGED <<unsent, peer_hashes, linking, link, closes>>

-----------------------------------------------------------------------------
(* The transport.  Closed links may be restarted by it (restart_outlinks). *)

Activate(n, m) ==
  /\ link[n][m] = "Pending"
  /\ link' = [link EXCEPT ![n][m] = "Active"]
  /\ events' = [events EXCEPT ![n] = Pushed(n, [from |-> m, kind |-> "Activated"])]
  /\ UNCHANGED <<unsent, socket, peer_hashes, linking, put, closes>>

Close(n, m) ==
  /\ link[n][m] \in {"Pending", "Active"} /\ closes < MaxCloses
  /\ link' = [link EXCEPT ![n][m] = "Closed"]
  /\ events' = [events EXCEPT ![n] = Pushed(n, [from |-> m, kind |-> "Closed"])]
  /\ closes' = closes + 1
  /\ UNCHANGED <<unsent, socket, peer_hashes, linking, put>>

Restart(n, m) ==
  /\ link[n][m] = "Closed"
  /\ link' = [link EXCEPT ![n][m] = "Pending"]
  /\ UNCHANGED <<unsent, socket, peer_hashes, linking, events, put, closes>>

-----------------------------------------------------------------------------
RnsToUdp(n) == Skip(n) \/ Closed(n) \/ Data(n)

Next ==
  \E n \in Node :
    \/ \E x \in Packet : DeviceSends(n, x)
    \/ UdpToRns(n) \/ AutoLink(n) \/ RnsToUdp(n)
    \/ \E m \in Node :
         \/ HearAnnounce(n, m)
         \/ Activate(n, m) \/ Close(n, m) \/ Restart(n, m)

Spec == Init /\ [][Next]_vars

\* The runtime schedules the tasks, every node keeps announcing itself and is
\* heard again and again, and a handshake that is repeated succeeds.
Fairness ==
  \A n \in Node :
    /\ WF_vars(UdpToRns(n)) /\ WF_vars(AutoLink(n)) /\ WF_vars(RnsToUdp(n))
    /\ \A m \in Node : SF_vars(HearAnnounce(n, m)) /\ WF_vars(Activate(n, m))

FairSpec == Spec /\ Fairness

-----------------------------------------------------------------------------
\* "Re-announces bridge destinations periodically so peers can reconnect during
\* runtime" (docs/Change-Log.md:52): a node comes to heed the events of every
\* peer over an active link, and goes on doing so once links stop closing, even
\* though a late Closed may strike out a peer that has been announced since,
\* and restarted links do not enter theirs.
PeersHeardAgain ==
  \A n \in Node : \A m \in Node \ {n} :
    <>[](link[n][m] = "Active" /\ m \in peer_hashes[n])

\* On its way through the mesh a packet is put on each LAN at most once and
\* never on the one it came from: no node forwards what it has multicast.
PacketsDoNotEcho ==
  \A x \in Packet :
    /\ \A n \in Node : put[n][x] <= 1
    /\ put[Source[x]][x] = 0
=============================================================================
