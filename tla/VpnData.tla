------------------------------- MODULE VpnData -------------------------------
(***************************************************************************)
(* The data path of the VPN (kaonic-vpn, runtime.rs and router.rs): the    *)
(* task that reads packets off the TUN interface and sends them over the   *)
(* link of the peer the router names, and the two tasks that pass what     *)
(* comes in over the out-links and the in-link on to the interface.  They  *)
(* take no lock that covers two of their steps, while peers are announced, *)
(* forgotten and expire, links come and go and the router is replaced.     *)
(*                                                                         *)
(* How two rebuilds of the router overlap is the subject of VpnRoutes, and *)
(* what moves links that of VpnLinks: here a table is built and swapped in *)
(* at once, some time after its peers changed.  Packets that are ignored   *)
(* without being counted are left out: those that are not IPv4 and those   *)
(* to ourselves, pings and control frames of the in-link.                  *)
(***************************************************************************)
EXTENDS Naturals, Sequences, SequencesExt, FiniteSets

CONSTANTS
  Peer,
  None,
  Bits,          \* of an address
  Subnets,       \* <<address, prefix length>> that peers announce
  TunnelIp,      \* address of each peer in the tunnel network
  LocalIp,       \* ours
  MaxPackets,    \* bound on the packets
  MaxChanges     \* bound on the changes of peers and links

VARIABLES
  registry,      \* peers known
  generation,    \* per peer: times it was forgotten, to tell its records apart
  claims,        \* per peer: its routes that have not expired
  allow_all,     \* unlisted peers are admitted
  table,         \* the router: [tunnels, subnets]
  active,        \* per peer: its record says its link is active
  linked,        \* per peer: the transport has an active out-link
  reader,        \* the TUN reader: idle, sending to a peer, backing off or ended
  receiver,      \* per receiving task: idle, or a packet for the interface
  tx, rx, drops, \* counters of the runtime
  peer_tx, peer_rx,  \* and of the peers
  current,       \* history: no peer changed since the table was built
  forgotten,     \* history: a peer was forgotten
  handled,       \* history: packets taken
  failed,        \* history: packets the interface refused
  changes

vars == <<registry, generation, claims, allow_all, table, active, linked, reader,
          receiver, tx, rx, drops, peer_tx, peer_rx, current, forgotten, handled,
          failed, changes>>
plane == <<registry, generation, claims, allow_all, table, active, linked, current,
           forgotten, changes>>

Ip == 0..(2^Bits - 1)
Task == {"in", "out"}
Idle == [pc |-> "idle"]

\* Ipv4Cidr::contains
Covers(s, ip) ==
  LET size == 2^(Bits - s[2]) IN ip \div size = s[1] \div size

\* The types, and that what a task works on was taken.
TypeOK ==
  /\ registry \subseteq Peer
  /\ claims \in [Peer -> SUBSET Subnets]
  /\ \A p \in Peer \ registry : claims[p] = {} /\ peer_tx[p] = 0 /\ peer_rx[p] = 0
  /\ table.tunnels \subseteq Peer
  /\ \A i \in 1..Len(table.subnets) : table.subnets[i] \in Subnets \X Peer
  /\ active \in [Peer -> BOOLEAN] /\ linked \in [Peer -> BOOLEAN]
  /\ reader.pc \in {"idle", "backoff", "stopped"} \/ reader \in [pc : {"send"}, peer : Peer]
  /\ \A t \in Task : receiver[t].pc \in {"idle", "tun"}

Init ==
  /\ registry = {} /\ generation = [p \in Peer |-> 0]
  /\ claims = [p \in Peer |-> {}]
  /\ allow_all = TRUE
  /\ table = [tunnels |-> {}, subnets |-> <<>>]
  /\ active = [p \in Peer |-> FALSE] /\ linked = [p \in Peer |-> FALSE]
  /\ reader = Idle /\ receiver = [t \in Task |-> Idle]
  /\ tx = 0 /\ rx = 0 /\ drops = 0
  /\ peer_tx = [p \in Peer |-> 0] /\ peer_rx = [p \in Peer |-> 0]
  /\ current = TRUE /\ forgotten = FALSE
  /\ handled = 0 /\ failed = 0 /\ changes = 0

-----------------------------------------------------------------------------
(* The router *)

\* The subnets one peer alone claims, and that do not hold our own address.
Owned == {x \in Subnets \X registry :
            /\ x[1] \in claims[x[2]] /\ ~Covers(x[1], LocalIp)
            /\ \A q \in registry \ {x[2]} : x[1] \notin claims[q]}

\* The claims as a sequence, in whatever order a hash map yields them.
Rows == {s \in [1..Cardinality(Owned) -> Owned] : Range(s) = Owned}

\* A plausible bug: the table is in the order of the addresses.
BuiltByAddress ==
  {[tunnels |-> registry, subnets |-> s] :
     s \in {r \in Rows : \A i, j \in 1..Len(r) : i < j => r[i][1][1] <= r[j][1][1]}}

\* RouteTable::build: the longest prefixes come first.
Built ==
  {[tunnels |-> registry, subnets |-> s] :
     s \in {r \in Rows : \A i, j \in 1..Len(r) : i < j => r[i][1][2] >= r[j][1][2]}}

\* RouteTable::resolve: an address of the tunnel, or the first subnet with it.
Resolve(ip) ==
  LET direct  == {p \in table.tunnels : TunnelIp[p] = ip}
      matches == {i \in 1..Len(table.subnets) : Covers(table.subnets[i][1], ip)}
  IN  IF direct # {} THEN CHOOSE p \in direct : TRUE
      ELSE IF matches # {}
           THEN table.subnets[CHOOSE i \in matches : \A j \in matches : i <= j][2]
           ELSE None

\* rebuild_router
Rebuild ==
  /\ ~current
  /\ table' \in Built
  /\ current' = TRUE
  /\ UNCHANGED <<registry, generation, claims, allow_all, active, linked, forgotten,
                 changes, reader, receiver, tx, rx, drops, peer_tx, peer_rx, handled,
                 failed>>

-----------------------------------------------------------------------------
(* What happens to peers and links *)

Change == /\ changes < MaxChanges /\ changes' = changes + 1
          /\ UNCHANGED <<reader, receiver, tx, rx, drops, handled, failed>>

\* handle_peer_announce of a peer the policy admits
Announce(p, rs) ==
  /\ allow_all \/ p \in registry
  /\ Change
  /\ registry' = registry \cup {p}
  /\ claims' = [claims EXCEPT ![p] = rs]
  /\ current' = FALSE
  /\ UNCHANGED <<generation, allow_all, table, active, linked, peer_tx, peer_rx,
                 forgotten>>

\* A hello or routes frame of a peer's out-link; one that is not registered is
\* not registered by it.
Hello(p, rs) ==
  /\ p \in registry
  /\ Change
  /\ claims' = [claims EXCEPT ![p] = rs]
  /\ current' = FALSE
  /\ UNCHANGED <<registry, generation, allow_all, table, active, linked, peer_tx,
                 peer_rx, forgotten>>

\* ROUTE_GRACE_SECS after its last announce
Expire(p) ==
  /\ claims[p] # {}
  /\ Change
  /\ claims' = [claims EXCEPT ![p] = {}]
  /\ current' = FALSE
  /\ UNCHANGED <<registry, generation, allow_all, table, active, linked, peer_tx,
                 peer_rx, forgotten>>

\* replace_peer_policy to a list without p: its record goes, counters and all.
\* (A later policy that admits everybody again is left out.)
Forget(p) ==
  /\ p \in registry
  /\ Change
  /\ registry' = registry \ {p} /\ allow_all' = FALSE
  /\ generation' = [generation EXCEPT ![p] = @ + 1]
  /\ claims' = [claims EXCEPT ![p] = {}]
  /\ active' = [active EXCEPT ![p] = FALSE]
  /\ peer_tx' = [peer_tx EXCEPT ![p] = 0] /\ peer_rx' = [peer_rx EXCEPT ![p] = 0]
  /\ forgotten' = TRUE /\ current' = FALSE
  /\ UNCHANGED <<table, linked>>

\* The transport's link comes or goes ...
LinkChanges(p) ==
  /\ Change
  /\ linked' = [linked EXCEPT ![p] = ~@]
  /\ UNCHANGED <<registry, generation, claims, allow_all, table, active, peer_tx,
                 peer_rx, current, forgotten>>

\* ... and the record of the peer hears of it later.
LinkEvent(p) ==
  /\ p \in registry /\ active[p] # linked[p]
  /\ active' = [active EXCEPT ![p] = linked[p]]
  /\ UNCHANGED <<registry, generation, claims, allow_all, table, linked, current,
                 forgotten, changes, reader, receiver, tx, rx, drops, peer_tx, peer_rx,
                 handled, failed>>

-----------------------------------------------------------------------------
(* The TUN reader *)

Taken == handled < MaxPackets /\ handled' = handled + 1

\* A packet is dropped if no peer has its address, or its link is not active.
Read(ip) ==
  LET p == Resolve(ip)
      waits == p \in registry /\ ~active[p]
  IN  /\ reader = Idle /\ ip # LocalIp
      /\ Taken
      /\ drops' = IF p = None \/ waits THEN drops + 1 ELSE drops
      /\ reader' = IF p = None THEN Idle
                   ELSE IF waits THEN [pc |-> "backoff"]
                   ELSE [pc |-> "send", peer |-> p]
      /\ UNCHANGED <<plane, receiver, tx, rx, peer_tx, peer_rx, failed>>

Count(counter, p) ==
  [counter EXCEPT ![p] = IF p \in registry THEN @ + 1 ELSE @]

\* A plausible bug: a packet without a link is given up in silence.
SendSilently ==
  /\ reader.pc = "send"
  /\ tx' = IF linked[reader.peer] THEN tx + 1 ELSE tx
  /\ peer_tx' = IF linked[reader.peer] THEN Count(peer_tx, reader.peer) ELSE peer_tx
  /\ reader' = IF linked[reader.peer] THEN Idle ELSE [pc |-> "backoff"]
  /\ UNCHANGED <<plane, receiver, drops, rx, peer_rx, handled, failed>>

\* send_to_out_links, once the transport is free
Send ==
  /\ reader.pc = "send"
  /\ IF linked[reader.peer]
     THEN /\ tx' = tx + 1 /\ peer_tx' = Count(peer_tx, reader.peer)
          /\ reader' = Idle
          /\ UNCHANGED drops
     ELSE /\ drops' = drops + 1
          /\ reader' = [pc |-> "backoff"]
          /\ UNCHANGED <<tx, peer_tx>>
  /\ UNCHANGED <<plane, receiver, rx, peer_rx, handled, failed>>

\* TUN_TX_BACKOFF_MILLIS are over.
Wake ==
  /\ reader.pc = "backoff"
  /\ reader' = Idle
  /\ UNCHANGED <<plane, receiver, tx, rx, drops, peer_tx, peer_rx, handled, failed>>

\* A failing read of the interface ends the task for good.
ReaderFails ==
  /\ reader = Idle
  /\ reader' = [pc |-> "stopped"]
  /\ UNCHANGED <<plane, receiver, tx, rx, drops, peer_tx, peer_rx, handled, failed>>

-----------------------------------------------------------------------------
(* handle_link_data of a packet.  Only the out-link tells whom it is from.  *)

Credited(hint, src) ==
  LET owner == Resolve(src)
  IN  CASE hint \in registry -> hint
        [] hint \notin registry /\ owner \in registry -> owner
        [] OTHER -> None

Receive(t, hint, src) ==
  LET p == Credited(hint, src)
  IN  /\ receiver[t] = Idle
      /\ (hint = None) = (t = "in")
      /\ Taken
      /\ IF p = None /\ (hint # None \/ ~allow_all)
         THEN drops' = drops + 1 /\ UNCHANGED receiver
         ELSE /\ receiver' = [receiver EXCEPT ![t] =
                   [pc |-> "tun", peer |-> p,
                    record |-> IF p = None THEN 0 ELSE generation[p]]]
              /\ UNCHANGED drops
      /\ UNCHANGED <<plane, reader, tx, rx, peer_tx, peer_rx, failed>>

\* The packet is written to the interface; the peer's record may have been
\* dropped from the registry since.
Deliver(t) ==
  LET r == receiver[t]
  IN  /\ r.pc = "tun"
      /\ receiver' = [receiver EXCEPT ![t] = Idle]
      /\ rx' = rx + 1
      /\ peer_rx' = IF r.peer # None /\ r.record = generation[r.peer]
                    THEN Count(peer_rx, r.peer) ELSE peer_rx
      /\ UNCHANGED <<plane, reader, tx, drops, peer_tx, handled, failed>>

\* The interface refuses it: an error is noted, nothing is counted.
Refuse(t) ==
  /\ receiver[t].pc = "tun"
  /\ receiver' = [receiver EXCEPT ![t] = Idle]
  /\ failed' = failed + 1
  /\ UNCHANGED <<plane, reader, tx, rx, drops, peer_tx, peer_rx, handled>>

Next ==
  \/ Rebuild
  \/ \E p \in Peer :
       \/ \E rs \in SUBSET Subnets : Announce(p, rs) \/ Hello(p, rs)
       \/ Expire(p) \/ Forget(p) \/ LinkChanges(p) \/ LinkEvent(p)
  \/ \E ip \in Ip : Read(ip)
  \/ Send \/ Wake \/ ReaderFails
  \/ \E t \in Task :
       \/ \E hint \in Peer \cup {None}, src \in Ip : Receive(t, hint, src)
       \/ Deliver(t) \/ Refuse(t)

Spec == Init /\ [][Next]_vars

-----------------------------------------------------------------------------
(* Properties *)

\* Once the router has caught up with the peers, a packet goes to the peer with
\* that address in the tunnel, and else to the one whose announced subnet is the
\* longest that holds it, never by a subnet two peers claim or one around us.
Holders(ip) == {x \in Owned : Covers(x[1], ip)}
LongestMatchWins ==
  current => \A ip \in Ip :
    LET direct == {p \in registry : TunnelIp[p] = ip}
    IN  IF direct # {} THEN Resolve(ip) \in direct
        ELSE IF Holders(ip) = {} THEN Resolve(ip) = None
        ELSE \E x \in Holders(ip) :
               /\ Resolve(ip) = x[2]
               /\ \A y \in Holders(ip) : y[1][2] <= x[1][2]

\* Every packet taken is counted once, as sent, delivered or dropped, unless the
\* interface refused it or it is still in hand; and as long as no peer has been
\* forgotten the counters of the peers add up to what was sent.
One(b) == IF b THEN 1 ELSE 0
InHand == One(reader.pc = "send") + One(receiver["in"].pc = "tun")
                                  + One(receiver["out"].pc = "tun")
PacketsCounted == handled = tx + rx + drops + failed + InHand
Sum(counter) == FoldFunction(+, 0, counter)
PacketsAccounted ==
  /\ PacketsCounted
  /\ Sum(peer_rx) <= rx
  /\ IF forgotten THEN Sum(peer_tx) <= tx ELSE Sum(peer_tx) = tx
=============================================================================
