------------------------------ MODULE VpnLinks ------------------------------
(***************************************************************************)
(* How the VPN runtime keeps an outbound link to a peer (kaonic-vpn,       *)
(* src/vpn/runtime.rs and src/vpn/peer.rs): the request_out_link tasks     *)
(* that announces spawn, the out-link event task, the watchdog and the     *)
(* peer policy, all running concurrently over one Peer and the link the    *)
(* transport holds to it.  All of that state is keyed by the peer's hash,  *)
(* so one peer is modelled; the tasks still meet on everything they share. *)
(*                                                                         *)
(* The registry hands out Arc<Peer>: a task may hold a Peer that has been  *)
(* removed and replaced since.  peer lists every Peer ever made for the    *)
(* hash and current is the one in the registry (0: none).                  *)
(*                                                                         *)
(* Times are abstracted: aged says that a link has been pending for        *)
(* LINK_PENDING_TIMEOUT_SECS, cooling that the reconnect cooldown runs.    *)
(* link_attempt_ts, reconnect_attempts and the out_links cache are written *)
(* here but never read by any decision and are left out.                   *)
(***************************************************************************)
EXTENDS Naturals, Sequences, SequencesExt

CONSTANTS
  Tasks,        \* request_out_link tasks that may be running at a time
  MaxEvents,    \* capacity of the out-link event channel
  MaxCloses,    \* bound on the closes the remote end or the radio causes
  MaxLost,      \* bound on the handshakes whose proof is lost
  MaxRevokes    \* bound on the times the policy removes the peer

ASSUME MaxEventsAssumption == MaxEvents \in Nat \ {0}
ASSUME BoundsAssumption == MaxCloses \in Nat /\ MaxLost \in Nat /\ MaxRevokes \in Nat

VARIABLES
  allowed,    \* does the policy allow the peer?
  revoking,   \* replace_peer_policy has stored the policy, not yet removed the peer
  peer,       \* every Peer made for the hash, oldest first
  current,    \* the index of the one in the registry, or 0
  task,       \* per request_out_link task: its position and its Arc<Peer>
  link,       \* the transport's link to the peer
  events,     \* out-link events not yet received by the event task
  watchdog,   \* the watchdog's position, with what it has read
  closes, lost, revokes   \* counters for the bounds

vars == <<allowed, revoking, peer, current, task, link, events, watchdog,
          closes, lost, revokes>>

LinkState == {"Configured", "Discovered", "Pending", "Active", "Closed"}

\* LinkStatus of the transport, with "None" when it has no link.  Handshake is
\* treated like Pending at every place of the code and is not distinguished.
LinkStatus == {"None", "Pending", "Active", "Stale", "Closed"}
Open == {"Pending", "Active", "Stale"}

Peer == [state : LinkState, inFlight : BOOLEAN, cooling : BOOLEAN]
NewPeer(state) == [state |-> state, inFlight |-> FALSE, cooling |-> FALSE]

Link == [status : LinkStatus, aged : BOOLEAN, proofLost : BOOLEAN]
NoLink == [status |-> "None", aged |-> FALSE, proofLost |-> FALSE]
FreshLink == [status |-> "Pending", aged |-> FALSE, proofLost |-> FALSE]

Positions == {"idle", "lookup", "begin", "link", "finish"}
WatchPositions == {"idle", "sync", "close", "clean"}

\* The types: tasks and watchdog hold peers that exist, and link_state is one of
\* its values, a link status never is.
TypeOK ==
  /\ allowed \in BOOLEAN /\ revoking \in BOOLEAN
  /\ peer \in Seq(Peer)
  /\ current \in 0..Len(peer)
  /\ task \in [Tasks -> [pc : Positions, peer : 0..Len(peer)]]
  /\ link \in Link
  /\ events \in Seq({"Activated", "Closed"}) /\ Len(events) <= MaxEvents
  /\ watchdog \in [pc : WatchPositions, peer : 0..Len(peer),
                   status : LinkStatus, aged : BOOLEAN]
  /\ closes \in Nat /\ lost \in Nat /\ revokes \in Nat

IdleTask == [pc |-> "idle", peer |-> 0]
IdleWatchdog == [pc |-> "idle", peer |-> 0, status |-> "None", aged |-> FALSE]

\* VpnRuntime::start with the peer configured or not.
Init ==
  /\ allowed \in BOOLEAN
  /\ revoking = FALSE
  /\ \/ allowed /\ peer = <<NewPeer("Configured")>> /\ current = 1
     \/ peer = <<>> /\ current = 0
  /\ task = [t \in Tasks |-> IdleTask]
  /\ link = NoLink
  /\ events = <<>>
  /\ watchdog = IdleWatchdog
  /\ closes = 0 /\ lost = 0 /\ revokes = 0

-----------------------------------------------------------------------------
(* Updates of a Peer, shared by the event task and the watchdog. *)

Activate(p) == [p EXCEPT !.state = "Active", !.inFlight = FALSE, !.cooling = FALSE]
Shut(p) == [p EXCEPT !.state = "Closed", !.inFlight = FALSE, !.cooling = TRUE]

\* A plausible bug: the transport's own status is stored as the state.
SyncStoringStatus(p, status) ==
  CASE status = "Active" -> Activate(p)
    [] status = "Closed" -> [p EXCEPT !.state = "Closed", !.inFlight = FALSE]
    [] OTHER -> [p EXCEPT !.state = status]

\* A plausible bug: the watchdog leaves good news to the event task.
SyncOnlyTrouble(p, status) ==
  CASE status = "Active" -> p
    [] status = "Closed" -> [p EXCEPT !.state = "Closed", !.inFlight = FALSE]
    [] OTHER -> [p EXCEPT !.state = "Pending"]

\* sync_peer_link_state
Sync(p, status) ==
  CASE status = "Active" -> Activate(p)
    [] status = "Closed" -> [p EXCEPT !.state = "Closed", !.inFlight = FALSE]
    [] OTHER -> [p EXCEPT !.state = "Pending"]

\* A plausible bug: a link stuck in its handshake is left to the transport.
NeverNeedsReset(status, aged) == FALSE

\* out_link_needs_reset
NeedsReset(status, aged) == status = "Pending" /\ aged

\* The Peer with index i after Op; index 0 is a lookup that found nothing.
Updated(i, Op(_)) == IF i = 0 THEN peer ELSE [peer EXCEPT ![i] = Op(@)]

\* Room for one more event is made by skipping the oldest (RecvError::Lagged).
Notify(e) ==
  IF Len(events) < MaxEvents THEN Append(events, e) ELSE Append(Tail(events), e)

-----------------------------------------------------------------------------
(* request_out_link, spawned by an announce *)

\* handle_peer_announce accepts an announce and a task is spawned for it.
Announce(t) ==
  /\ task[t].pc = "idle" /\ allowed
  /\ IF current = 0
     THEN peer' = Append(peer, NewPeer("Discovered")) /\ current' = Len(peer')
     ELSE UNCHANGED <<peer, current>>
  /\ task' = [task EXCEPT ![t] = [pc |-> "lookup", peer |-> 0]]
  /\ UNCHANGED <<allowed, revoking, link, events, watchdog, closes, lost, revokes>>

\* The task gets its Arc<Peer> and reads the status of the transport's link;
\* it goes on only if it may and if there is no link it could reuse.
Lookup(t) ==
  /\ task[t].pc = "lookup"
  /\ task' = [task EXCEPT ![t] =
                IF allowed /\ link.status \notin Open
                THEN [pc |-> "begin", peer |-> current]
                ELSE IdleTask]
  /\ UNCHANGED <<allowed, revoking, peer, current, link, events, watchdog,
                 closes, lost, revokes>>

\* The cooldown and the compare-and-swap of try_begin_link_request.  A peer
\* that is not in the registry has neither.
Begin(t) ==
  LET i == task[t].peer
      refused == i # 0 /\ (peer[i].cooling \/ peer[i].inFlight)
      Claim(p) == [p EXCEPT !.state = "Pending", !.inFlight = TRUE]
  IN  /\ task[t].pc = "begin"
      /\ task' = [task EXCEPT ![t] = IF refused THEN IdleTask ELSE [@ EXCEPT !.pc = "link"]]
      /\ peer' = IF refused THEN peer ELSE Updated(i, Claim)
      /\ UNCHANGED <<allowed, revoking, current, link, events, watchdog,
                     closes, lost, revokes>>

\* transport.link(): an open link is kept, otherwise a handshake starts.
CallLink(t) ==
  /\ task[t].pc = "link"
  /\ link' = IF link.status \in Open THEN link ELSE FreshLink
  /\ task' = [task EXCEPT ![t].pc = "finish"]
  /\ UNCHANGED <<allowed, revoking, peer, current, events, watchdog,
                 closes, lost, revokes>>

\* A plausible bug: the task leaves the guard to the events of the link.
FinishKeepingGuard(t) ==
  /\ task[t].pc = "finish"
  /\ task' = [task EXCEPT ![t] = IdleTask]
  /\ UNCHANGED <<allowed, revoking, peer, current, link, events, watchdog,
                 closes, lost, revokes>>

\* finish_link_request
Finish(t) ==
  LET Release(p) == [p EXCEPT !.inFlight = FALSE]
  IN  /\ task[t].pc = "finish"
      /\ peer' = Updated(task[t].peer, Release)
      /\ task' = [task EXCEPT ![t] = IdleTask]
      /\ UNCHANGED <<allowed, revoking, current, link, events, watchdog,
                     closes, lost, revokes>>

-----------------------------------------------------------------------------
\* The out-link event task receives Activated or Closed.
HandleEvent ==
  /\ events # <<>>
  /\ events' = Tail(events)
  /\ peer' = IF Head(events) = "Activated"
             THEN Updated(current, Activate)
             ELSE Updated(current, Shut)
  /\ UNCHANGED <<allowed, revoking, current, task, link, watchdog,
                 closes, lost, revokes>>

-----------------------------------------------------------------------------
(* One turn of the watchdog.  Each await lets the other tasks run. *)

\* The status and age of the link are read under the link's own lock.
WatchRead ==
  /\ watchdog.pc = "idle"
  /\ current # 0 /\ link.status # "None"
  /\ watchdog' = [pc |-> "sync", peer |-> current,
                  status |-> link.status, aged |-> link.aged]
  /\ UNCHANGED <<allowed, revoking, peer, current, task, link, events,
                 closes, lost, revokes>>

WatchSync ==
  LET SyncRead(p) == Sync(p, watchdog.status)
  IN  /\ watchdog.pc = "sync"
      /\ peer' = Updated(watchdog.peer, SyncRead)
      /\ watchdog' = IF NeedsReset(watchdog.status, watchdog.aged)
                     THEN [watchdog EXCEPT !.pc = "close"]
                     ELSE IdleWatchdog
      /\ UNCHANGED <<allowed, revoking, current, task, link, events,
                     closes, lost, revokes>>

\* link_close() closes whatever link the transport holds by now.  Without an
\* open one it may succeed or fail; after a failure the watchdog gives up.
WatchClose ==
  /\ watchdog.pc = "close"
  /\ IF link.status \in Open
     THEN /\ link' = [link EXCEPT !.status = "Closed"]
          /\ events' \in {events, Notify("Closed")}
          /\ watchdog' = [watchdog EXCEPT !.pc = "clean"]
     ELSE /\ UNCHANGED <<link, events>>
          /\ watchdog' \in {IdleWatchdog, [watchdog EXCEPT !.pc = "clean"]}
  /\ UNCHANGED <<allowed, revoking, peer, current, task, closes, lost, revokes>>

WatchClean ==
  /\ watchdog.pc = "clean"
  /\ peer' = Updated(watchdog.peer, Shut)
  /\ watchdog' = IdleWatchdog
  /\ UNCHANGED <<allowed, revoking, current, task, link, events,
                 closes, lost, revokes>>

-----------------------------------------------------------------------------
(* replace_peer_policy.  Removing the peer takes two steps that matter: the *)
(* policy is stored first, then the peer leaves the registry.               *)

Revoke ==
  /\ allowed /\ ~revoking /\ revokes < MaxRevokes
  /\ allowed' = FALSE
  /\ revoking' = TRUE
  /\ revokes' = revokes + 1
  /\ UNCHANGED <<peer, current, task, link, events, watchdog, closes, lost>>

RemovePeer ==
  /\ revoking
  /\ revoking' = FALSE
  /\ current' = 0
  /\ UNCHANGED <<allowed, peer, task, link, events, watchdog, closes, lost, revokes>>

\* The peer is listed, and inserted if it is not there.  Nothing orders this
\* call after an earlier one that has yet to remove the peer.
AllowListed ==
  /\ ~allowed \/ current = 0
  /\ allowed' = TRUE
  /\ IF current = 0
     THEN peer' = Append(peer, NewPeer("Configured")) /\ current' = Len(peer')
     ELSE UNCHANGED <<peer, current>>
  /\ UNCHANGED <<revoking, task, link, events, watchdog, closes, lost, revokes>>

\* allow_all_peers is set: nothing is inserted.
AllowAll ==
  /\ ~allowed
  /\ allowed' = TRUE
  /\ UNCHANGED <<revoking, peer, current, task, link, events, watchdog,
                 closes, lost, revokes>>

CoolDown ==
  /\ \E i \in 1..Len(peer) :
       peer[i].cooling /\ peer' = [peer EXCEPT ![i].cooling = FALSE]
  /\ UNCHANGED <<allowed, revoking, current, task, link, events, watchdog,
                 closes, lost, revokes>>

-----------------------------------------------------------------------------
(* The transport's link, as far as the runtime can observe it *)

others == <<allowed, revoking, peer, current, task, watchdog, revokes>>

Establish ==
  /\ link.status = "Pending" /\ ~link.proofLost
  /\ link' = [link EXCEPT !.status = "Active"]
  /\ events' = Notify("Activated")
  /\ UNCHANGED <<others, closes, lost>>

\* "a lost proof reply would leave us wedged forever" (runtime.rs:49-50)
LoseProof ==
  /\ link.status = "Pending" /\ ~link.proofLost /\ lost < MaxLost
  /\ link' = [link EXCEPT !.proofLost = TRUE]
  /\ lost' = lost + 1
  /\ UNCHANGED <<others, events, closes>>

Age ==
  /\ link.status = "Pending" /\ ~link.aged
  /\ link' = [link EXCEPT !.aged = TRUE]
  /\ UNCHANGED <<others, events, closes, lost>>

GoStale ==
  /\ link.status = "Active" /\ closes < MaxCloses
  /\ link' = [link EXCEPT !.status = "Stale"]
  /\ closes' = closes + 1
  /\ UNCHANGED <<others, events, lost>>

\* Traffic revives a stale link, or out_link_close expires.
ResolveStale ==
  /\ link.status = "Stale"
  /\ \/ link' = [link EXCEPT !.status = "Active"] /\ UNCHANGED events
     \/ link' = [link EXCEPT !.status = "Closed"] /\ events' = Notify("Closed")
  /\ UNCHANGED <<others, closes, lost>>

CloseRemotely ==
  /\ link.status \in Open /\ closes < MaxCloses
  /\ link' = [link EXCEPT !.status = "Closed"]
  /\ events' = Notify("Closed")
  /\ closes' = closes + 1
  /\ UNCHANGED <<others, lost>>

\* The transport forgets a closed link.
Forget ==
  /\ link.status = "Closed"
  /\ link' = NoLink
  /\ UNCHANGED <<others, events, closes, lost>>

-----------------------------------------------------------------------------
Request(t) == Lookup(t) \/ Begin(t) \/ CallLink(t) \/ Finish(t)
Watch == WatchRead \/ WatchSync \/ WatchClose \/ WatchClean
Policy == Revoke \/ RemovePeer \/ AllowListed \/ AllowAll
Transport ==
  Establish \/ LoseProof \/ Age \/ GoStale \/ ResolveStale \/ CloseRemotely \/ Forget

Next ==
  \/ \E t \in Tasks : Announce(t) \/ Request(t)
  \/ HandleEvent \/ Watch \/ Policy \/ CoolDown \/ Transport

Spec == Init /\ [][Next]_vars

\* The runtime schedules its tasks and its timers, the peer keeps announcing
\* itself, and a handshake whose proof is not lost ends.
Fairness ==
  /\ \A t \in Tasks : WF_vars(Request(t))
  /\ WF_vars(HandleEvent) /\ WF_vars(Watch) /\ WF_vars(RemovePeer)
  /\ WF_vars(CoolDown) /\ WF_vars(Age) /\ WF_vars(ResolveStale)
  /\ SF_vars(Establish)
  /\ SF_vars(\E t \in Tasks : Announce(t))

FairSpec == Spec /\ Fairness

-----------------------------------------------------------------------------
\* link_request_in_flight never outlives the request that set it: whoever
\* clears it early (an event, the watchdog), a set flag always has a task on
\* its way to finish_link_request, so no interleaving wedges the peer.
GuardHasHolder ==
  \A i \in 1..Len(peer) : peer[i].inFlight =>
    \E t \in Tasks : task[t].pc \in {"link", "finish"} /\ task[t].peer = i

\* While the peer is allowed and keeps announcing itself, it is linked again
\* and again, whatever was closed, lost or skipped: the stuck handshakes are
\* reset by the watchdog, and neither guard nor cooldown blocks for ever.
AllowedPeerReconnects == []<>(~allowed \/ link.status = "Active")

\* A link that stays up is in the end always reported Active, so that
\* spawn_tun_rx stops dropping its packets, even if the events that said so
\* were skipped or overtaken by the watchdog's older reading.
WorkingLinkIsReported ==
  <>[](link.status = "Active") => <>[](current # 0 => peer[current].state = "Active")

\* "If a link is already active/pending, request_out_link reuses it without
\* restarting the attempt" (runtime.rs:648-651): a task never begins a new
\* attempt, which shows the peer as Pending, while the transport has a link.
BeginSparesOpenLink ==
  [][\A t \in Tasks :
       task[t].pc = "begin" /\ task'[t].pc = "link" => link.status \notin Open]_vars
=============================================================================
