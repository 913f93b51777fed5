-------------------------- MODULE ReticulumTracker -------------------------
(***************************************************************************)
(* What the gateway knows of the links of its transport                    *)
(* (gateway_reticulum.rs).  Two tasks take link events from broadcast      *)
(* channels, one for the links it accepted and one for those it opened;    *)
(* each event is made into an entry of a table in three steps: the event   *)
(* is taken, the link looked up in the transport under the transport's     *)
(* lock, the entry updated under the tracker's lock.                       *)
(*                                                                         *)
(* An accepted link is looked up by the id the event carries, an opened    *)
(* one by the address of its peer, where a later link may stand by then.   *)
(* The event log, times, round trip times, interface errors and the events *)
(* of received data and announces are left out; a data event has one byte. *)
(***************************************************************************)
EXTENDS Naturals, Sequences, SequencesExt, FiniteSets

CONSTANTS
  Peer,        \* addresses of peers
  None,
  MaxLinks,    \* links are 1..MaxLinks, numbered as they are made
  MaxEvents,   \* bound on the events
  Capacity     \* of a broadcast channel

VARIABLES
  links,       \* the transport: links made so far, [peer, dir, open]
  current,     \* its link per direction and peer, or None
  channel,     \* per direction: events not yet taken
  lost,        \* history: links whose events a full channel dropped
  taken,       \* per direction: the event in hand, or None
  found,       \* per direction: the link it was looked up as, or None
  table,       \* per direction: entries per link id
  mixed,       \* history: links whose events and entry are not each other's
  last,        \* history: per link, the last event handled
  events

vars == <<links, current, channel, lost, taken, found, table, mixed, last,
          events>>

Direction == {"incoming", "outgoing"}
Link == 1..MaxLinks
Kind == {"activated", "data", "proof", "closed"}
Status(kind) == IF kind = "closed" THEN "closed" ELSE "active"
Entry == [status : {"active", "closed"}, packets : Nat]

\* The types; an event in hand is of a link of its direction.
TypeOK ==
  /\ links \in Seq([peer : Peer, dir : Direction, open : BOOLEAN])
  /\ current \in [Direction \X Peer -> Link \cup {None}]
  /\ \A d \in Direction :
       /\ Len(channel[d]) <= Capacity
       /\ \A e \in Range(channel[d]) \cup ({taken[d]} \ {None}) :
            e.kind \in Kind /\ links[e.link].dir = d
       /\ DOMAIN table[d] \subseteq Link
       /\ \A l \in DOMAIN table[d] : table[d][l] \in Entry
       /\ found[d] \in Link \cup {None}
  /\ lost \subseteq Link /\ mixed \subseteq Link

Init ==
  /\ links = <<>> /\ current = [x \in Direction \X Peer |-> None]
  /\ channel = [d \in Direction |-> <<>>]
  /\ lost = {} /\ mixed = {}
  /\ taken = [d \in Direction |-> None] /\ found = [d \in Direction |-> None]
  /\ table = [d \in Direction |-> <<>>]
  /\ last = [l \in Link |-> None]
  /\ events = 0

tracker == <<taken, found, table, mixed, last>>

-----------------------------------------------------------------------------
(* The transport, an external library *)

\* An event is broadcast; a full channel drops its oldest, and a receiver that
\* lagged goes on with the next one.
Emit(l, kind) ==
  LET d == links[l].dir
      q == Append(channel[d], [link |-> l, kind |-> kind])
  IN /\ events < MaxEvents /\ events' = events + 1
     /\ IF Len(q) > Capacity
        THEN channel' = [channel EXCEPT ![d] = Tail(q)] /\ lost' = lost \cup {Head(q).link}
        ELSE channel' = [channel EXCEPT ![d] = q] /\ UNCHANGED lost

\* A link is made, with a peer that may have had one before.
MakeLink(d, p) ==
  /\ Len(links) < MaxLinks
  /\ links' = Append(links, [peer |-> p, dir |-> d, open |-> TRUE])
  /\ current' = [current EXCEPT ![<<d, p>>] = Len(links) + 1]
  /\ UNCHANGED <<channel, lost, tracker, events>>

Happen(l) ==
  /\ l <= Len(links) /\ links[l].open
  /\ \E kind \in Kind \ {"closed"} : Emit(l, kind)
  /\ UNCHANGED <<links, current, tracker>>

\* A closed link may be looked up until it is dropped from the transport.
Close(l) ==
  /\ l <= Len(links) /\ links[l].open
  /\ Emit(l, "closed")
  /\ links' = [links EXCEPT ![l].open = FALSE]
  /\ UNCHANGED <<current, tracker>>

Drop(d, p) ==
  /\ current[<<d, p>>] # None /\ ~links[current[<<d, p>>]].open
  /\ current' = [current EXCEPT ![<<d, p>>] = None]
  /\ UNCHANGED <<links, channel, lost, tracker, events>>

-----------------------------------------------------------------------------
(* handle_link_event, once per direction *)

Take(d) ==
  /\ taken[d] = None /\ channel[d] # <<>>
  /\ taken' = [taken EXCEPT ![d] = Head(channel[d])]
  /\ channel' = [channel EXCEPT ![d] = Tail(@)]
  /\ UNCHANGED <<links, current, lost, found, table, mixed, last, events>>

\* The link there is for an event: by its id, or by its peer's address.
Found(d) ==
  LET l == taken[d].link
      c == current[<<d, links[l].peer>>]
  IN IF d = "incoming" \/ c = None THEN l ELSE c

\* resolve_link_snapshot: without a link the event's own id is used.
Resolve(d) ==
  /\ taken[d] # None /\ found[d] = None
  /\ found' = [found EXCEPT ![d] = Found(d)]
  /\ UNCHANGED <<links, current, channel, lost, taken, table, mixed, last, events>>

\* A plausible bug: the status of an entry is written once.
FirstEntry(d) ==
  LET kind == taken[d].kind
      was == IF found[d] \in DOMAIN table[d] THEN table[d][found[d]]
             ELSE [status |-> Status(kind), packets |-> 0]
  IN [was EXCEPT !.packets = @ + IF kind = "data" THEN 1 ELSE 0]

\* The entry after the event in hand: its status is the event's, its packets
\* are counted on.
UpdatedEntry(d) ==
  LET kind == taken[d].kind
      packets == IF found[d] \in DOMAIN table[d] THEN table[d][found[d]].packets ELSE 0
  IN [status |-> Status(kind), packets |-> packets + IF kind = "data" THEN 1 ELSE 0]

Update(d) ==
  /\ found[d] # None
  /\ table' = [table EXCEPT ![d] = [l \in DOMAIN @ \cup {found[d]} |->
                 IF l = found[d] THEN UpdatedEntry(d) ELSE @[l]]]
  /\ last' = [last EXCEPT ![taken[d].link] = taken[d].kind]
  /\ mixed' = IF found[d] = taken[d].link THEN mixed
              ELSE mixed \cup {found[d], taken[d].link}
  /\ taken' = [taken EXCEPT ![d] = None]
  /\ found' = [found EXCEPT ![d] = None]
  /\ UNCHANGED <<links, current, channel, lost, events>>

Next ==
  \/ \E d \in Direction, p \in Peer : MakeLink(d, p) \/ Drop(d, p)
  \/ \E l \in Link : Happen(l) \/ Close(l)
  \/ \E d \in Direction : Take(d) \/ Resolve(d) \/ Update(d)

Spec == Init /\ [][Next]_vars

-----------------------------------------------------------------------------
(* Properties *)

\* When the tasks have nothing left to handle, a link is shown closed exactly if
\* it is closed, unless events of it were dropped by a full channel or mixed up
\* with those of another link of the same peer; links without events are not
\* shown.
TableTellsLinks ==
  \A d \in Direction :
    channel[d] = <<>> /\ taken[d] = None =>
      \A l \in 1..Len(links) :
        links[l].dir = d /\ last[l] # None /\ l \notin lost \cup mixed =>
          /\ l \in DOMAIN table[d]
          /\ (table[d][l].status = "closed") = ~links[l].open

=============================================================================
