----------------------------- MODULE StatusFeed ----------------------------
(***************************************************************************)
(* The live state of the gateway and the WebSocket that carries it to the  *)
(* pages: the frame listener of main.rs, which keeps the last frames of a  *)
(* radio module and publishes them, the periodic publisher and the socket  *)
(* task of http/ws.rs, and the pages that show what they receive.          *)
(*                                                                         *)
(* A topic is one of the event types.  Its state is a number that grows    *)
(* with each change; an event carries the state at the time it was built.  *)
(* Frames are published as they come, the other topics once a second.      *)
(***************************************************************************)
EXTENDS Naturals, Sequences

CONSTANTS
  Page,          \* open pages
  Faithful,      \* those that connect again when the socket closes
  Frames,        \* topics published at each change: the frames of a module
  Periodic,      \* the other topics, as a sequence in the order published
  None,
  Capacity,      \* of the broadcast channel
  MaxChanges,    \* bound on the state of a topic
  MaxTicks,      \* bound on the periodic rounds
  MaxBreaks      \* bound on the sockets that break

VARIABLES
  now,           \* the state per topic
  heard,         \* the frame listener: the module whose change it publishes next
  round,         \* the publisher: topics left to publish in this round
  socket,        \* per page: "closed", "initial" or "live"
  initial,       \* per page: the initial events built so far, per topic
  queue,         \* per page: events its socket task has not received
  paused,        \* per page: the user is editing, updates are dropped
  shown,         \* per page and topic: the state shown
  missed,        \* history: per page, topics whose last event it did not show
  ticks, breaks

vars == <<now, heard, round, socket, initial, queue, paused, shown, missed, ticks, breaks>>

Order == Periodic
Topic == Frames \cup {Order[i] : i \in 1..Len(Order)}

\* The types; a page without a socket has no events on their way.
TypeOK ==
  /\ now \in [Topic -> 0..MaxChanges]
  /\ heard \in Frames \cup {None}
  /\ socket \in [Page -> {"closed", "initial", "live"}]
  /\ \A p \in Page :
       /\ Len(queue[p]) <= Capacity
       /\ DOMAIN initial[p] \subseteq Topic
       /\ socket[p] # "initial" => initial[p] = <<>>
       /\ socket[p] = "closed" => queue[p] = <<>>
       /\ \A t \in Topic : shown[p][t] <= now[t]
  /\ paused \in [Page -> BOOLEAN] /\ missed \in [Page -> SUBSET Topic]

Init ==
  /\ now = [t \in Topic |-> 0]
  /\ heard = None /\ round = <<>>
  /\ socket = [p \in Page |-> "closed"]
  /\ initial = [p \in Page |-> <<>>]
  /\ queue = [p \in Page |-> <<>>]
  /\ paused = [p \in Page |-> FALSE]
  /\ shown = [p \in Page |-> [t \in Topic |-> 0]]
  /\ missed = [p \in Page |-> {}]
  /\ ticks = 0 /\ breaks = 0

-----------------------------------------------------------------------------
(* The state and those who publish it *)

\* Every receiver that has subscribed gets the event; the oldest of a full
\* backlog is dropped (Lagged, after which the task goes on).
Publish(t) ==
  LET with(p) == Append(queue[p], [topic |-> t, state |-> now[t]])
  IN /\ queue' = [p \in Page |->
                    IF socket[p] = "closed" THEN queue[p]
                    ELSE IF Len(with(p)) > Capacity THEN Tail(with(p)) ELSE with(p)]
     /\ missed' = [p \in Page |->
                    IF socket[p] = "closed" THEN missed[p]
                    ELSE IF Len(with(p)) > Capacity /\ \A i \in 1..Capacity :
                              queue'[p][i].topic # Head(with(p)).topic
                         THEN missed[p] \cup {Head(with(p)).topic}
                         ELSE missed[p]]

\* The listener has counted a frame and put it into the buffer of its module.
Hear(t) ==
  /\ heard = None /\ now[t] < MaxChanges
  /\ now' = [now EXCEPT ![t] = @ + 1]
  /\ heard' = t
  /\ UNCHANGED <<round, socket, initial, queue, paused, shown, missed, ticks, breaks>>

PublishFrames ==
  /\ heard # None
  /\ Publish(heard)
  /\ heard' = None
  /\ UNCHANGED <<now, round, socket, initial, paused, shown, ticks, breaks>>

Change(t) ==
  /\ now[t] < MaxChanges
  /\ now' = [now EXCEPT ![t] = @ + 1]
  /\ UNCHANGED <<heard, round, socket, initial, queue, paused, shown, missed, ticks, breaks>>

Tick ==
  /\ round = <<>> /\ ticks < MaxTicks
  /\ ticks' = ticks + 1
  /\ round' = Order
  /\ UNCHANGED <<now, heard, socket, initial, queue, paused, shown, missed, breaks>>

\* publish_periodic_events, one topic after another.
PublishPeriodic ==
  /\ round # <<>>
  /\ Publish(Head(round))
  /\ round' = Tail(round)
  /\ UNCHANGED <<now, heard, socket, initial, paused, shown, ticks, breaks>>

-----------------------------------------------------------------------------
(* The socket task and its page *)

\* The page shows an event, or drops it while it is paused.
Receive(p, t, state) ==
  IF paused[p]
  THEN missed' = [missed EXCEPT ![p] = @ \cup {t}] /\ UNCHANGED shown
  ELSE /\ shown' = [shown EXCEPT ![p][t] = state]
       /\ missed' = [missed EXCEPT ![p] = @ \ {t}]

\* A page loaded shows the state at that time (server rendering); its script
\* opens the socket, whose task subscribes first.
Load(p) ==
  /\ socket[p] = "closed" /\ shown[p] = [t \in Topic |-> 0]
  /\ shown' = [shown EXCEPT ![p] = now]
  /\ socket' = [socket EXCEPT ![p] = "initial"]
  /\ missed' = [missed EXCEPT ![p] = {}]
  /\ UNCHANGED <<now, heard, round, initial, queue, paused, ticks, breaks>>

\* A faithful page connects again 3 s after its socket closed.
Reconnect(p) ==
  /\ socket[p] = "closed" /\ p \in Faithful /\ breaks > 0
  /\ socket' = [socket EXCEPT ![p] = "initial"]
  /\ missed' = [missed EXCEPT ![p] = {}]
  /\ UNCHANGED <<now, heard, round, initial, queue, paused, shown, ticks, breaks>>

Built(p, t) ==
  /\ socket[p] = "initial"
  /\ initial' = [initial EXCEPT ![p] = [u \in DOMAIN @ \cup {t} |->
                                         IF u = t THEN now[t] ELSE @[u]]]

\* A plausible bug: the task subscribes after the initial events are built.
SubscribeLate(p) ==
  /\ \E t \in Topic \ DOMAIN initial[p] : Built(p, t)
  /\ queue' = [queue EXCEPT ![p] = <<>>]
  /\ UNCHANGED <<now, heard, round, socket, paused, shown, missed, ticks, breaks>>

\* initial_events builds one event per topic ...
BuildInitial(p) ==
  /\ \E t \in Topic \ DOMAIN initial[p] : Built(p, t)
  /\ UNCHANGED <<now, heard, round, socket, queue, paused, shown, missed, ticks, breaks>>

\* ... which are then sent.
GoLive(p) ==
  /\ socket[p] = "initial" /\ DOMAIN initial[p] = Topic
  /\ socket' = [socket EXCEPT ![p] = "live"]
  /\ initial' = [initial EXCEPT ![p] = <<>>]
  /\ IF paused[p] THEN missed' = [missed EXCEPT ![p] = Topic] /\ UNCHANGED shown
     ELSE shown' = [shown EXCEPT ![p] = initial[p]] /\ UNCHANGED missed
  /\ UNCHANGED <<now, heard, round, queue, paused, ticks, breaks>>

SendEvent(p) ==
  /\ socket[p] = "live" /\ queue[p] # <<>>
  /\ Receive(p, Head(queue[p]).topic, Head(queue[p]).state)
  /\ queue' = [queue EXCEPT ![p] = Tail(@)]
  /\ UNCHANGED <<now, heard, round, socket, initial, paused, ticks, breaks>>

Break(p) ==
  /\ socket[p] # "closed" /\ breaks < MaxBreaks
  /\ breaks' = breaks + 1
  /\ socket' = [socket EXCEPT ![p] = "closed"]
  /\ initial' = [initial EXCEPT ![p] = <<>>]
  /\ queue' = [queue EXCEPT ![p] = <<>>]
  /\ UNCHANGED <<now, heard, round, paused, shown, missed, ticks>>

\* shouldPauseLiveUpdates: a dialog, an input or a selection.
Pause(p) ==
  /\ socket[p] # "closed"
  /\ paused' = [paused EXCEPT ![p] = ~@]
  /\ UNCHANGED <<now, heard, round, socket, initial, queue, shown, missed, ticks, breaks>>

Next ==
  \/ \E t \in Frames : Hear(t)
  \/ \E t \in Topic \ Frames : Change(t)
  \/ PublishFrames \/ Tick \/ PublishPeriodic
  \/ \E p \in Page : \/ Load(p) \/ Reconnect(p) \/ BuildInitial(p) \/ GoLive(p)
                     \/ SendEvent(p) \/ Break(p) \/ Pause(p)

Spec == Init /\ [][Next]_vars

-----------------------------------------------------------------------------
(* Properties *)

\* A connected page whose events have all arrived shows the frames there are:
\* none is published between the snapshot the page starts from and its
\* subscription.  Only the last event of a module itself can be missed, by a
\* full backlog or a paused page, and then until the next frame of the module.
FramesCatchUp ==
  \A p \in Page, t \in Frames :
    socket[p] = "live" /\ queue[p] = <<>> /\ heard # t /\ t \notin missed[p]
      => shown[p][t] = now[t]
=============================================================================
