--------------------------- MODULE VpnLinksProofs ---------------------------
(***************************************************************************)
(* Proofs about VpnLinks, for any number of request_out_link tasks, any    *)
(* capacity of the event channel and any number of closes, losses and      *)
(* removals.  GuardHasHolder is inductive relative to TypeOK: the guard is *)
(* set by one step only, which also makes its task a holder, and a task    *)
(* stops being a holder only in the step that clears the guard.            *)
(***************************************************************************)
EXTENDS VpnLinks, TLAPS

-----------------------------------------------------------------------------
(* The Peers, the events *)

\* Changing one Peer keeps the list a list of Peers of the same length.
LEMMA ChangedPeers ==
  ASSUME NEW s \in Seq(Peer), NEW i \in 1..Len(s), NEW p \in Peer
  PROVE  /\ [s EXCEPT ![i] = p] \in Seq(Peer)
         /\ Len([s EXCEPT ![i] = p]) = Len(s)
  OBVIOUS

\* A Peer added at the end is the only change.
LEMMA AddedPeer ==
  ASSUME NEW s \in Seq(Peer), NEW p \in Peer
  PROVE  /\ Append(s, p) \in Seq(Peer)
         /\ Len(Append(s, p)) = Len(s) + 1
         /\ Append(s, p)[Len(s) + 1] = p
         /\ \A i \in 1..Len(s) : Append(s, p)[i] = s[i]
  OBVIOUS

\* The channel keeps its capacity.
LEMMA NotifyBounded ==
  ASSUME TypeOK, NEW e \in {"Activated", "Closed"}
  PROVE  /\ Notify(e) \in Seq({"Activated", "Closed"})
         /\ Len(Notify(e)) <= MaxEvents
<1>1. /\ events \in Seq({"Activated", "Closed"})
      /\ Len(events) \in Nat /\ Len(events) <= MaxEvents
  BY DEF TypeOK
<1>2. CASE Len(events) < MaxEvents
  BY <1>1, <1>2, MaxEventsAssumption DEF Notify
<1>3. CASE ~(Len(events) < MaxEvents)
  <2>1. events # <<>>
    BY <1>1, <1>3, MaxEventsAssumption
  <2>2. Tail(events) \in Seq({"Activated", "Closed"}) /\ Len(Tail(events)) = Len(events) - 1
    BY <1>1, <2>1
  <2> QED
    BY <1>1, <1>3, <2>2 DEF Notify
<1> QED
  BY <1>2, <1>3

\* The Peer that new made, and the changes the tasks make to a Peer.
LEMMA PeersStayPeers ==
  /\ \A s \in {"Configured", "Discovered"} : NewPeer(s) \in Peer /\ ~NewPeer(s).inFlight
  /\ \A p \in Peer : Activate(p) \in Peer /\ ~Activate(p).inFlight
  /\ \A p \in Peer : Shut(p) \in Peer /\ ~Shut(p).inFlight
  /\ \A p \in Peer, s \in LinkStatus :
       Sync(p, s) \in Peer /\ (Sync(p, s).inFlight => p.inFlight)
<1>1. \A s \in {"Configured", "Discovered"} : NewPeer(s) \in Peer /\ ~NewPeer(s).inFlight
  BY DEF NewPeer, Peer, LinkState
<1>2. \A p \in Peer : Activate(p) \in Peer /\ ~Activate(p).inFlight
  BY DEF Activate, Peer, LinkState
<1>3. \A p \in Peer : Shut(p) \in Peer /\ ~Shut(p).inFlight
  BY DEF Shut, Peer, LinkState
<1>4. ASSUME NEW p \in Peer, NEW s \in LinkStatus
      PROVE  Sync(p, s) \in Peer /\ (Sync(p, s).inFlight => p.inFlight)
  <2>1. CASE s = "Active"
    BY <1>2, <2>1 DEF Sync
  <2>2. CASE s = "Closed"
    <3>1. Sync(p, s) = [p EXCEPT !.state = "Closed", !.inFlight = FALSE]
      BY <2>2 DEF Sync
    <3> QED
      BY <3>1 DEF Peer, LinkState
  <2>3. CASE s # "Active" /\ s # "Closed"
    <3>1. Sync(p, s) = [p EXCEPT !.state = "Pending"]
      BY <2>3 DEF Sync
    <3> QED
      BY <3>1 DEF Peer, LinkState
  <2> QED
    BY <2>1, <2>2, <2>3
<1> QED
  BY <1>1, <1>2, <1>3, <1>4

-----------------------------------------------------------------------------
(* Every step that leaves the Peers alone, or changes one of them. *)

\* The indices of Peers stay valid when Peers are only added.
LEMMA IndicesStay ==
  ASSUME TypeOK, Len(peer') \in Nat, Len(peer') >= Len(peer)
  PROVE  /\ 0..Len(peer) \subseteq 0..Len(peer')
         /\ current \in 0..Len(peer')
         /\ task \in [Tasks -> [pc : Positions, peer : 0..Len(peer')]]
         /\ watchdog \in [pc : WatchPositions, peer : 0..Len(peer'),
                           status : LinkStatus, aged : BOOLEAN]
<1>1. Len(peer) \in Nat
  BY DEF TypeOK
<1>2. 0..Len(peer) \subseteq 0..Len(peer')
  BY <1>1
<1>3. \A r \in [pc : Positions, peer : 0..Len(peer)] :
        r \in [pc : Positions, peer : 0..Len(peer')]
  BY <1>2
<1>4. \A t \in Tasks : task[t] \in [pc : Positions, peer : 0..Len(peer')]
  BY <1>3 DEF TypeOK
<1>5. task = [t \in Tasks |-> task[t]]
  BY DEF TypeOK
<1>6. task \in [Tasks -> [pc : Positions, peer : 0..Len(peer')]]
  BY <1>4, <1>5
<1> QED
  BY <1>2, <1>6 DEF TypeOK

\* One Peer, or none, is changed by a step, and its guard is not set by it.
OnePeerChanged ==
  \/ peer' = peer
  \/ \E i \in 1..Len(peer), p \in Peer :
       peer' = [peer EXCEPT ![i] = p] /\ (p.inFlight => peer[i].inFlight)

\* What TypeOK says of the Peers and of all that refers to them.
LEMMA PeersTyped ==
  ASSUME TypeOK, OnePeerChanged
  PROVE  /\ peer' \in Seq(Peer) /\ Len(peer') = Len(peer)
         /\ \A i \in 1..Len(peer') : peer'[i].inFlight => peer[i].inFlight
<1>0. peer \in Seq(Peer)
  BY DEF TypeOK
<1>1. CASE peer' = peer
  BY <1>0, <1>1
<1>2. ASSUME NEW i \in 1..Len(peer), NEW p \in Peer,
             peer' = [peer EXCEPT ![i] = p], p.inFlight => peer[i].inFlight
      PROVE  /\ peer' \in Seq(Peer) /\ Len(peer') = Len(peer)
             /\ \A j \in 1..Len(peer') : peer'[j].inFlight => peer[j].inFlight
  <2>1. peer' \in Seq(Peer) /\ Len(peer') = Len(peer)
    BY <1>0, <1>2, ChangedPeers
  <2>2. ASSUME NEW j \in 1..Len(peer), peer'[j].inFlight
        PROVE  peer[j].inFlight
    <3>1. CASE j = i
      BY <1>0, <1>2, <2>2, <3>1
    <3>2. CASE j # i
      BY <1>0, <1>2, <2>2, <3>2
    <3> QED
      BY <3>1, <3>2
  <2> QED
    BY <2>1, <2>2
<1> QED
  BY <1>1, <1>2 DEF OnePeerChanged

\* No guard is set and every task stays where it is: holders stay holders.
LEMMA HoldersStay ==
  ASSUME TypeOK, GuardHasHolder, OnePeerChanged, task' = task
  PROVE  GuardHasHolder'
<1> USE DEF GuardHasHolder
<1> QED
  BY PeersTyped

\* TypeOK of a state whose Peers differ in one at most.
LEMMA TypeStays ==
  ASSUME TypeOK, OnePeerChanged, current' = current,
         task' \in [Tasks -> [pc : Positions, peer : 0..Len(peer)]],
         watchdog' \in [pc : WatchPositions, peer : 0..Len(peer),
                        status : LinkStatus, aged : BOOLEAN],
         allowed' = allowed, revoking' = revoking, revokes' = revokes,
         link' \in Link, closes' \in Nat, lost' \in Nat,
         events' \in Seq({"Activated", "Closed"}), Len(events') <= MaxEvents
  PROVE  TypeOK'
<1>1. peer' \in Seq(Peer) /\ Len(peer') = Len(peer)
  BY PeersTyped
<1> QED
  BY <1>1 DEF TypeOK

\* TypeOK of a state in which a Peer was added, or none.
LEMMA TypeStaysAdded ==
  ASSUME TypeOK, NEW p \in Peer, ~p.inFlight,
         \/ peer' = peer /\ current' = current
         \/ peer' = Append(peer, p) /\ current' = Len(peer'),
         UNCHANGED <<link, events, watchdog, closes, lost, revokes>>,
         allowed' \in BOOLEAN, revoking' \in BOOLEAN,
         task' = task \/ \E t \in Tasks : task' = [task EXCEPT ![t] = [pc |-> "lookup", peer |-> 0]]
  PROVE  TypeOK'
<1>0. peer \in Seq(Peer) /\ Len(peer) \in Nat
  BY DEF TypeOK
<1>1. peer' \in Seq(Peer) /\ Len(peer') \in Nat /\ Len(peer') >= Len(peer)
      /\ current' \in 0..Len(peer')
  <2>1. CASE peer' = peer /\ current' = current
    BY <1>0, <2>1 DEF TypeOK
  <2>2. CASE peer' = Append(peer, p) /\ current' = Len(peer')
    BY <1>0, <2>2, AddedPeer
  <2> QED
    BY <2>1, <2>2
<1>2. /\ task \in [Tasks -> [pc : Positions, peer : 0..Len(peer')]]
      /\ watchdog' \in [pc : WatchPositions, peer : 0..Len(peer'),
                        status : LinkStatus, aged : BOOLEAN]
  BY <1>1, IndicesStay
<1>3. task' \in [Tasks -> [pc : Positions, peer : 0..Len(peer')]]
  <2>1. [pc |-> "lookup", peer |-> 0] \in [pc : Positions, peer : 0..Len(peer')]
    BY <1>1 DEF Positions
  <2> QED
    BY <1>2, <2>1
<1> QED
  BY <1>1, <1>2, <1>3 DEF TypeOK

\* A Peer whose guard is not set was added, or none; no task gave up a guard.
LEMMA HoldersStayAdded ==
  ASSUME TypeOK, GuardHasHolder, NEW p \in Peer, ~p.inFlight,
         peer' = peer \/ peer' = Append(peer, p),
         \/ task' = task
         \/ \E t \in Tasks : /\ task[t].pc = "idle"
                            /\ task' = [task EXCEPT ![t] = [pc |-> "lookup", peer |-> 0]]
  PROVE  GuardHasHolder'
<1>0. peer \in Seq(Peer) /\ Len(peer) \in Nat /\ task = [t \in Tasks |-> task[t]]
  BY DEF TypeOK
<1> SUFFICES ASSUME NEW i \in 1..Len(peer'), peer'[i].inFlight
             PROVE  \E t \in Tasks : task'[t].pc \in {"link", "finish"} /\ task'[t].peer = i
  BY DEF GuardHasHolder
<1>1. i \in 1..Len(peer) /\ peer[i].inFlight
  <2>1. CASE peer' = peer
    BY <2>1
  <2>2. CASE peer' = Append(peer, p)
    BY <1>0, <2>2, AddedPeer
  <2> QED
    BY <2>1, <2>2
<1>2. PICK h \in Tasks : task[h].pc \in {"link", "finish"} /\ task[h].peer = i
  BY <1>1 DEF GuardHasHolder
<1>3. task'[h] = task[h]
  BY <1>0, <1>2
<1> QED
  BY <1>2, <1>3

-----------------------------------------------------------------------------
(* What each action does to the Peers *)

LEMMA FinishChanges ==
  ASSUME TypeOK, NEW t \in Tasks, Finish(t)
  PROVE  OnePeerChanged /\ (task[t].peer # 0 => ~peer'[task[t].peer].inFlight)
<1> DEFINE i == task[t].peer
           p == [peer[i] EXCEPT !.inFlight = FALSE]
<1>1. i \in 0..Len(peer) /\ peer \in Seq(Peer) /\ Len(peer) \in Nat
  BY DEF TypeOK
<1>2. CASE i = 0
  BY <1>2 DEF Finish, Updated, OnePeerChanged
<1>3. CASE i # 0
  <2>1. peer' = [peer EXCEPT ![i] = p]
    BY <1>3 DEF Finish, Updated
  <2>2. i \in 1..Len(peer) /\ peer[i] \in Peer
    BY <1>1, <1>3
  <2>3. p \in Peer /\ ~p.inFlight
    BY <2>2 DEF Peer
  <2> HIDE DEF p, i
  <2>4. peer'[i] = p
    BY <1>1, <2>1, <2>2
  <2> USE DEF i
  <2> QED
    BY <2>1, <2>2, <2>3, <2>4 DEF OnePeerChanged
<1> QED
  BY <1>2, <1>3

LEMMA HandleEventChanges ==
  ASSUME TypeOK, HandleEvent
  PROVE  OnePeerChanged
<1>1. current \in 0..Len(peer) /\ peer \in Seq(Peer) /\ Len(peer) \in Nat
  BY DEF TypeOK
<1>2. CASE current = 0
  BY <1>2 DEF HandleEvent, Updated, OnePeerChanged
<1>3. CASE current # 0
  <2>1. current \in 1..Len(peer) /\ peer[current] \in Peer
    BY <1>1, <1>3
  <2>2. \/ peer' = [peer EXCEPT ![current] = Activate(peer[current])]
        \/ peer' = [peer EXCEPT ![current] = Shut(peer[current])]
    BY <1>3 DEF HandleEvent, Updated
  <2>3. /\ Activate(peer[current]) \in Peer /\ ~Activate(peer[current]).inFlight
        /\ Shut(peer[current]) \in Peer /\ ~Shut(peer[current]).inFlight
    BY <2>1, PeersStayPeers
  <2> QED
    BY <2>1, <2>2, <2>3 DEF OnePeerChanged
<1> QED
  BY <1>2, <1>3

LEMMA WatchChanges ==
  ASSUME TypeOK, Watch
  PROVE  OnePeerChanged
<1> DEFINE i == watchdog.peer
<1>1. /\ i \in 0..Len(peer) /\ watchdog.status \in LinkStatus
      /\ peer \in Seq(Peer) /\ Len(peer) \in Nat
  BY DEF TypeOK
<1>2. CASE WatchRead \/ WatchClose
  BY <1>2 DEF WatchRead, WatchClose, OnePeerChanged
<1>3. CASE i = 0 /\ (WatchSync \/ WatchClean)
  BY <1>3 DEF WatchSync, WatchClean, Updated, OnePeerChanged
<1>4. CASE i # 0 /\ WatchSync
  <2>1. i \in 1..Len(peer) /\ peer[i] \in Peer
    BY <1>1, <1>4
  <2>2. peer' = [peer EXCEPT ![i] = Sync(peer[i], watchdog.status)]
    BY <1>4 DEF WatchSync, Updated
  <2>3. /\ Sync(peer[i], watchdog.status) \in Peer
        /\ Sync(peer[i], watchdog.status).inFlight => peer[i].inFlight
    BY <1>1, <2>1, PeersStayPeers
  <2> QED
    BY <2>1, <2>2, <2>3 DEF OnePeerChanged
<1>5. CASE i # 0 /\ WatchClean
  <2>1. i \in 1..Len(peer) /\ peer[i] \in Peer
    BY <1>1, <1>5
  <2>2. peer' = [peer EXCEPT ![i] = Shut(peer[i])]
    BY <1>5 DEF WatchClean, Updated
  <2>3. Shut(peer[i]) \in Peer /\ ~Shut(peer[i]).inFlight
    BY <2>1, PeersStayPeers
  <2> QED
    BY <2>1, <2>2, <2>3 DEF OnePeerChanged
<1> QED
  BY <1>2, <1>3, <1>4, <1>5 DEF Watch

LEMMA CoolDownChanges ==
  ASSUME TypeOK, CoolDown
  PROVE  OnePeerChanged
<1>1. PICK i \in 1..Len(peer) : peer' = [peer EXCEPT ![i] = [peer[i] EXCEPT !.cooling = FALSE]]
  BY DEF CoolDown
<1>2. peer[i] \in Peer
  BY DEF TypeOK
<1>3. /\ [peer[i] EXCEPT !.cooling = FALSE] \in Peer
      /\ [peer[i] EXCEPT !.cooling = FALSE].inFlight = peer[i].inFlight
  BY <1>2 DEF Peer
<1> QED
  BY <1>1, <1>3 DEF OnePeerChanged

\* A refused request changes nothing; one that begins claims the guard.
LEMMA BeginChanges ==
  ASSUME TypeOK, NEW t \in Tasks, Begin(t)
  PROVE  \/ peer' = peer
         \/ /\ task[t].peer \in 1..Len(peer)
            /\ \E p \in Peer : peer' = [peer EXCEPT ![task[t].peer] = p]
            /\ task' = [task EXCEPT ![t].pc = "link"]
<1> DEFINE i == task[t].peer
           p == [peer[i] EXCEPT !.state = "Pending", !.inFlight = TRUE]
<1>1. i \in 0..Len(peer) /\ peer \in Seq(Peer) /\ Len(peer) \in Nat
  BY DEF TypeOK
<1>2. CASE i = 0 \/ peer[i].cooling \/ peer[i].inFlight
  BY <1>2 DEF Begin, Updated
<1>3. CASE ~(i = 0 \/ peer[i].cooling \/ peer[i].inFlight)
  <2>1. i \in 1..Len(peer) /\ peer[i] \in Peer
    BY <1>1, <1>3
  <2>2. p \in Peer
    BY <2>1 DEF Peer, LinkState
  <2>3. peer' = [peer EXCEPT ![i] = p] /\ task' = [task EXCEPT ![t].pc = "link"]
    BY <1>3 DEF Begin, Updated
  <2> QED
    BY <2>1, <2>2, <2>3
<1> QED
  BY <1>2, <1>3

-----------------------------------------------------------------------------
(* The type invariant *)

LEMMA InitType == Init => TypeOK
<1> SUFFICES ASSUME Init PROVE TypeOK
  OBVIOUS
<1>1. peer \in Seq(Peer) /\ current \in 0..Len(peer) /\ Len(peer) \in Nat
  <2>1. NewPeer("Configured") \in Peer
    BY PeersStayPeers
  <2>2. CASE peer = <<NewPeer("Configured")>> /\ current = 1
    BY <2>1, <2>2
  <2>3. CASE peer = <<>> /\ current = 0
    BY <2>3
  <2> QED
    BY <2>2, <2>3 DEF Init
<1>2. task \in [Tasks -> [pc : Positions, peer : 0..Len(peer)]]
  BY <1>1 DEF Init, IdleTask, Positions
<1>3. watchdog \in [pc : WatchPositions, peer : 0..Len(peer),
                    status : LinkStatus, aged : BOOLEAN]
  BY <1>1 DEF Init, IdleWatchdog, WatchPositions, LinkStatus
<1>4. link \in Link /\ events \in Seq({"Activated", "Closed"}) /\ Len(events) <= MaxEvents
  BY MaxEventsAssumption DEF Init, NoLink, Link, LinkStatus
<1> QED
  BY <1>1, <1>2, <1>3, <1>4 DEF Init, TypeOK

\* A request moves on, its Arc<Peer> being the registry's or the one it has.
LEMMA RequestType ==
  ASSUME TypeOK, NEW t \in Tasks, Request(t)
  PROVE  TypeOK'
<1>0. /\ task \in [Tasks -> [pc : Positions, peer : 0..Len(peer)]]
      /\ task[t] \in [pc : Positions, peer : 0..Len(peer)]
      /\ current \in 0..Len(peer) /\ Len(peer) \in Nat
  BY DEF TypeOK
<1>1. task' \in [Tasks -> [pc : Positions, peer : 0..Len(peer)]]
  <2>1. PICK r : task' = [task EXCEPT ![t] = r] /\ r \in [pc : Positions, peer : 0..Len(peer)]
    <3>1. IdleTask \in [pc : Positions, peer : 0..Len(peer)]
      BY <1>0 DEF IdleTask, Positions
    <3>2. [pc |-> "begin", peer |-> current] \in [pc : Positions, peer : 0..Len(peer)]
      BY <1>0 DEF Positions
    <3>3. \A pc \in Positions : [task[t] EXCEPT !.pc = pc] \in [pc : Positions, peer : 0..Len(peer)]
      BY <1>0
    <3>4. "link" \in Positions /\ "finish" \in Positions
      BY DEF Positions
    <3>5. CASE Lookup(t)
      BY <3>1, <3>2, <3>5 DEF Lookup
    <3>6. CASE Begin(t)
      BY <3>1, <3>3, <3>4, <3>6 DEF Begin
    <3>7. CASE CallLink(t)
      BY <3>3, <3>4, <3>7 DEF CallLink
    <3>8. CASE Finish(t)
      BY <3>1, <3>8 DEF Finish
    <3> QED
      BY <3>5, <3>6, <3>7, <3>8 DEF Request
  <2> QED
    BY <1>0, <2>1
<1>2. peer' \in Seq(Peer) /\ Len(peer') = Len(peer)
  <2>1. CASE Lookup(t) \/ CallLink(t)
    BY <2>1 DEF Lookup, CallLink, TypeOK
  <2>2. CASE Begin(t)
    <3>1. peer \in Seq(Peer)
      BY DEF TypeOK
    <3> QED
      BY <2>2, <3>1, BeginChanges, ChangedPeers
  <2>3. CASE Finish(t)
    BY <2>3, FinishChanges, PeersTyped
  <2> QED
    BY <2>1, <2>2, <2>3 DEF Request
<1>3. link' \in Link
  <2>1. link' = link \/ link' = FreshLink
    BY DEF Request, Lookup, Begin, CallLink, Finish
  <2>2. FreshLink \in Link
    BY DEF FreshLink, Link, LinkStatus
  <2> QED
    BY <2>1, <2>2 DEF TypeOK
<1>4. UNCHANGED <<allowed, revoking, current, events, watchdog, closes, lost, revokes>>
  BY DEF Request, Lookup, Begin, CallLink, Finish
<1> QED
  BY <1>1, <1>2, <1>3, <1>4 DEF TypeOK

\* The watchdog remembers a Peer of the registry and a status of the link.
LEMMA WatchType ==
  ASSUME TypeOK, Watch
  PROVE  TypeOK'
<1>1. OnePeerChanged
  BY WatchChanges
<1>2. watchdog' \in [pc : WatchPositions, peer : 0..Len(peer),
                     status : LinkStatus, aged : BOOLEAN]
  <2>0. /\ watchdog \in [pc : WatchPositions, peer : 0..Len(peer),
                          status : LinkStatus, aged : BOOLEAN]
        /\ current \in 0..Len(peer) /\ Len(peer) \in Nat
        /\ link \in Link
    BY DEF TypeOK
  <2>1. IdleWatchdog \in [pc : WatchPositions, peer : 0..Len(peer),
                          status : LinkStatus, aged : BOOLEAN]
    BY <2>0 DEF IdleWatchdog, WatchPositions, LinkStatus
  <2>2. CASE WatchRead
    BY <2>0, <2>2 DEF WatchRead, WatchPositions, Link
  <2>3. CASE WatchSync
    BY <2>0, <2>1, <2>3 DEF WatchSync, WatchPositions
  <2>4. CASE WatchClose
    BY <2>0, <2>1, <2>4 DEF WatchClose, WatchPositions
  <2>5. CASE WatchClean
    BY <2>1, <2>5 DEF WatchClean
  <2> QED
    BY <2>2, <2>3, <2>4, <2>5 DEF Watch
<1>3. link' \in Link
  BY DEF TypeOK, Watch, WatchRead, WatchSync, WatchClose, WatchClean, Link, LinkStatus
<1>4. events' \in Seq({"Activated", "Closed"}) /\ Len(events') <= MaxEvents
  <2>1. events' = events \/ events' = Notify("Closed")
    BY DEF Watch, WatchRead, WatchSync, WatchClose, WatchClean
  <2> QED
    BY <2>1, NotifyBounded DEF TypeOK
<1>5. UNCHANGED <<allowed, revoking, current, task, closes, lost, revokes>>
  BY DEF Watch, WatchRead, WatchSync, WatchClose, WatchClean
<1> QED
  BY <1>1, <1>2, <1>3, <1>4, <1>5, TypeStays DEF TypeOK

LEMMA TransportType ==
  ASSUME TypeOK, Transport
  PROVE  TypeOK'
<1>1. UNCHANGED <<others, peer, task, watchdog>>
  BY DEF Transport, Establish, LoseProof, Age, GoStale, ResolveStale, CloseRemotely,
         Forget, others
<1>2. link' \in Link
  <2>1. \/ \E s \in {"Active", "Stale", "Closed"} : link' = [link EXCEPT !.status = s]
        \/ link' = [link EXCEPT !.proofLost = TRUE]
        \/ link' = [link EXCEPT !.aged = TRUE]
        \/ link' = NoLink
    BY DEF Transport, Establish, LoseProof, Age, GoStale, ResolveStale, CloseRemotely, Forget
  <2>2. NoLink \in Link
    BY DEF NoLink, Link, LinkStatus
  <2>3. link \in Link
    BY DEF TypeOK
  <2>4. \A s \in {"Active", "Stale", "Closed"} : [link EXCEPT !.status = s] \in Link
    BY <2>3 DEF Link, LinkStatus
  <2>5. [link EXCEPT !.proofLost = TRUE] \in Link /\ [link EXCEPT !.aged = TRUE] \in Link
    BY <2>3 DEF Link
  <2> QED
    BY <2>1, <2>2, <2>4, <2>5
<1>3. closes' \in Nat /\ lost' \in Nat
  BY DEF TypeOK, Transport, Establish, LoseProof, Age, GoStale, ResolveStale,
         CloseRemotely, Forget
<1>4. events' \in Seq({"Activated", "Closed"}) /\ Len(events') <= MaxEvents
  <2>1. events' \in {events, Notify("Activated"), Notify("Closed")}
    BY DEF Transport, Establish, LoseProof, Age, GoStale, ResolveStale, CloseRemotely, Forget
  <2> QED
    BY <2>1, NotifyBounded DEF TypeOK
<1> QED
  BY <1>1, <1>2, <1>3, <1>4 DEF TypeOK, others

LEMMA NextType == TypeOK /\ [Next]_vars => TypeOK'
<1> SUFFICES ASSUME TypeOK, [Next]_vars PROVE TypeOK'
  OBVIOUS
<1>0. /\ NewPeer("Configured") \in Peer /\ ~NewPeer("Configured").inFlight
      /\ NewPeer("Discovered") \in Peer /\ ~NewPeer("Discovered").inFlight
  BY PeersStayPeers
<1>1. ASSUME NEW t \in Tasks, Announce(t) PROVE TypeOK'
  <2>1. /\ \/ peer' = peer /\ current' = current
           \/ peer' = Append(peer, NewPeer("Discovered")) /\ current' = Len(peer')
        /\ UNCHANGED <<allowed, revoking, link, events, watchdog, closes, lost, revokes>>
        /\ task' = [task EXCEPT ![t] = [pc |-> "lookup", peer |-> 0]]
    BY <1>1 DEF Announce
  <2>2. allowed' \in BOOLEAN /\ revoking' \in BOOLEAN
    BY <2>1 DEF TypeOK
  <2> QED
    BY <1>0, <2>1, <2>2, TypeStaysAdded
<1>2. ASSUME NEW t \in Tasks, Request(t) PROVE TypeOK'
  BY <1>2, RequestType
<1>3. CASE HandleEvent
  <2>1. OnePeerChanged
    BY <1>3, HandleEventChanges
  <2>2. events' \in Seq({"Activated", "Closed"}) /\ Len(events') <= MaxEvents
    <3>1. /\ events \in Seq({"Activated", "Closed"}) /\ events # <<>>
          /\ Len(events) <= MaxEvents /\ events' = Tail(events)
      BY <1>3 DEF HandleEvent, TypeOK
    <3>2. events' \in Seq({"Activated", "Closed"}) /\ Len(events') = Len(events) - 1
          /\ Len(events) \in Nat
      BY <3>1
    <3> QED
      BY <3>1, <3>2, MaxEventsAssumption
  <2>3. UNCHANGED <<allowed, revoking, current, task, link, watchdog, closes, lost, revokes>>
    BY <1>3 DEF HandleEvent
  <2> QED
    BY <2>1, <2>2, <2>3, TypeStays DEF TypeOK
<1>4. CASE Watch
  BY <1>4, WatchType
<1>5. CASE Revoke
  <2>1. allowed' \in BOOLEAN /\ revoking' \in BOOLEAN
    BY <1>5 DEF Revoke
  <2>2. revokes \in Nat /\ revokes' = revokes + 1
    BY <1>5 DEF Revoke, TypeOK
  <2>3. revokes' \in Nat
    BY <2>2
  <2>4. UNCHANGED <<peer, current, task, link, events, watchdog, closes, lost>>
    BY <1>5 DEF Revoke
  <2> QED
    BY <2>1, <2>3, <2>4 DEF TypeOK
<1>6. CASE RemovePeer
  <2>1. 0 \in 0..Len(peer)
    BY DEF TypeOK
  <2> QED
    BY <1>6, <2>1 DEF RemovePeer, TypeOK
<1>7. CASE AllowListed
  <2>1. /\ \/ peer' = peer /\ current' = current
           \/ peer' = Append(peer, NewPeer("Configured")) /\ current' = Len(peer')
        /\ UNCHANGED <<revoking, task, link, events, watchdog, closes, lost, revokes>>
        /\ allowed' = TRUE
    BY <1>7 DEF AllowListed
  <2>2. allowed' \in BOOLEAN /\ revoking' \in BOOLEAN
    BY <2>1 DEF TypeOK
  <2> QED
    BY <1>0, <2>1, <2>2, TypeStaysAdded
<1>8. CASE AllowAll
  BY <1>8 DEF AllowAll, TypeOK
<1>9. CASE CoolDown
  <2>1. OnePeerChanged
    BY <1>9, CoolDownChanges
  <2>2. UNCHANGED <<allowed, revoking, current, task, link, events, watchdog,
                    closes, lost, revokes>>
    BY <1>9 DEF CoolDown
  <2> QED
    BY <2>1, <2>2, TypeStays DEF TypeOK
<1>10. CASE Transport
  BY <1>10, TransportType
<1>11. CASE UNCHANGED vars
  BY <1>11 DEF vars, TypeOK
<1> QED
  BY <1>1, <1>2, <1>3, <1>4, <1>5, <1>6, <1>7, <1>8, <1>9, <1>10, <1>11
  DEF Next, Policy

\* Every task, event and Peer of runtime.rs stays within its type, whatever
\* the interleaving; in particular the event channel within its capacity.
THEOREM TypeCorrect == Spec => []TypeOK
<1> QED
  BY InitType, NextType, PTL DEF Spec

-----------------------------------------------------------------------------
(* The guard of a request *)

\* A task between try_begin_link_request and finish_link_request keeps its
\* Peer's guard company; only its own last step gives the guard up.
LEMMA RequestGuard ==
  ASSUME TypeOK, GuardHasHolder, NEW t \in Tasks, Request(t)
  PROVE  GuardHasHolder'
<1>0. /\ task = [h \in Tasks |-> task[h]]
      /\ peer \in Seq(Peer) /\ Len(peer) \in Nat
      /\ task[t].peer \in 0..Len(peer)
      /\ task[t] \in [pc : Positions, peer : 0..Len(peer)]
  BY DEF TypeOK
<1> SUFFICES ASSUME NEW i \in 1..Len(peer'), peer'[i].inFlight
             PROVE  \E h \in Tasks : task'[h].pc \in {"link", "finish"} /\ task'[h].peer = i
  BY DEF GuardHasHolder
<1>1. CASE Lookup(t)
  <2>1. i \in 1..Len(peer) /\ peer[i].inFlight /\ task[t].pc = "lookup"
    BY <1>1 DEF Lookup
  <2>2. PICK h \in Tasks : task[h].pc \in {"link", "finish"} /\ task[h].peer = i
    BY <2>1 DEF GuardHasHolder
  <2>3. task'[h] = task[h]
    BY <1>0, <1>1, <2>1, <2>2 DEF Lookup
  <2> QED
    BY <2>2, <2>3
<1>2. CASE Begin(t)
  <2>1. task[t].pc = "begin" /\ \A h \in Tasks \ {t} : task'[h] = task[h]
    BY <1>0, <1>2 DEF Begin
  <2>2. ASSUME i \in 1..Len(peer), peer[i].inFlight
        PROVE  \E h \in Tasks : task'[h].pc \in {"link", "finish"} /\ task'[h].peer = i
    <3>1. PICK h \in Tasks : task[h].pc \in {"link", "finish"} /\ task[h].peer = i
      BY <2>2 DEF GuardHasHolder
    <3> QED
      BY <2>1, <3>1
  <2>3. CASE peer' = peer
    BY <2>2, <2>3
  <2>4. ASSUME task[t].peer \in 1..Len(peer), NEW p \in Peer,
               peer' = [peer EXCEPT ![task[t].peer] = p],
               task' = [task EXCEPT ![t].pc = "link"]
        PROVE  \E h \in Tasks : task'[h].pc \in {"link", "finish"} /\ task'[h].peer = i
    <3>1. CASE i = task[t].peer
      <4>1. task'[t].pc = "link" /\ task'[t].peer = i
        BY <1>0, <2>4, <3>1
      <4> QED
        BY <4>1
    <3>2. CASE i # task[t].peer
      <4>1. i \in 1..Len(peer) /\ peer[i].inFlight
        BY <1>0, <2>4, <3>2
      <4> QED
        BY <2>2, <4>1
    <3> QED
      BY <3>1, <3>2
  <2> QED
    BY <1>2, <2>3, <2>4, BeginChanges
<1>3. CASE CallLink(t)
  <2>1. i \in 1..Len(peer) /\ peer[i].inFlight /\ task' = [task EXCEPT ![t].pc = "finish"]
    BY <1>3 DEF CallLink
  <2>2. PICK h \in Tasks : task[h].pc \in {"link", "finish"} /\ task[h].peer = i
    BY <2>1 DEF GuardHasHolder
  <2>3. task'[h].pc \in {"link", "finish"} /\ task'[h].peer = i
    BY <1>0, <2>1, <2>2
  <2> QED
    BY <2>3
<1>4. CASE Finish(t)
  <2>1. i \in 1..Len(peer) /\ peer[i].inFlight
    BY <1>4, FinishChanges, PeersTyped
  <2>2. i # task[t].peer
    BY <1>0, <1>4, FinishChanges
  <2>3. PICK h \in Tasks : task[h].pc \in {"link", "finish"} /\ task[h].peer = i
    BY <2>1 DEF GuardHasHolder
  <2>4. task'[h] = task[h]
    BY <1>0, <1>4, <2>2, <2>3 DEF Finish
  <2> QED
    BY <2>3, <2>4
<1> QED
  BY <1>1, <1>2, <1>3, <1>4 DEF Request

LEMMA NextGuard == TypeOK /\ GuardHasHolder /\ [Next]_vars => GuardHasHolder'
<1> SUFFICES ASSUME TypeOK, GuardHasHolder, [Next]_vars PROVE GuardHasHolder'
  OBVIOUS
<1>0. /\ NewPeer("Configured") \in Peer /\ ~NewPeer("Configured").inFlight
      /\ NewPeer("Discovered") \in Peer /\ ~NewPeer("Discovered").inFlight
  BY PeersStayPeers
<1>1. ASSUME NEW t \in Tasks, Announce(t) PROVE GuardHasHolder'
  <2>1. /\ peer' = peer \/ peer' = Append(peer, NewPeer("Discovered"))
        /\ task[t].pc = "idle"
        /\ task' = [task EXCEPT ![t] = [pc |-> "lookup", peer |-> 0]]
    BY <1>1 DEF Announce
  <2> QED
    BY <1>0, <2>1, HoldersStayAdded
<1>2. ASSUME NEW t \in Tasks, Request(t) PROVE GuardHasHolder'
  BY <1>2, RequestGuard
<1>3. CASE HandleEvent
  <2>1. OnePeerChanged /\ task' = task
    BY <1>3, HandleEventChanges DEF HandleEvent
  <2> QED
    BY <2>1, HoldersStay
<1>4. CASE Watch
  <2>1. OnePeerChanged /\ task' = task
    BY <1>4, WatchChanges DEF Watch, WatchRead, WatchSync, WatchClose, WatchClean
  <2> QED
    BY <2>1, HoldersStay
<1>5. CASE AllowListed
  <2>1. (peer' = peer \/ peer' = Append(peer, NewPeer("Configured"))) /\ task' = task
    BY <1>5 DEF AllowListed
  <2> QED
    BY <1>0, <2>1, HoldersStayAdded
<1>6. CASE CoolDown
  <2>1. OnePeerChanged /\ task' = task
    BY <1>6, CoolDownChanges DEF CoolDown
  <2> QED
    BY <2>1, HoldersStay
<1>7. CASE Revoke \/ RemovePeer \/ AllowAll \/ Transport \/ UNCHANGED vars
  <2>1. peer' = peer /\ task' = task
    BY <1>7 DEF Revoke, RemovePeer, AllowAll, Transport, Establish, LoseProof, Age,
           GoStale, ResolveStale, CloseRemotely, Forget, others, vars
  <2> QED
    BY <2>1 DEF GuardHasHolder
<1> QED
  BY <1>1, <1>2, <1>3, <1>4, <1>5, <1>6, <1>7 DEF Next, Policy

\* link_request_in_flight of any Peer, registered or replaced, is never set
\* without a request_out_link task that is on its way to clear it.
THEOREM GuardCorrect == Spec => []GuardHasHolder
<1>1. Init => GuardHasHolder
  BY PeersStayPeers DEF Init, GuardHasHolder
<1> QED
  BY <1>1, InitType, NextType, NextGuard, PTL DEF Spec
=============================================================================
