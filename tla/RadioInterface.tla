--------------------------- MODULE RadioInterface --------------------------
(***************************************************************************)
(* The Reticulum interface over the radio modules (kaonic-reticulum        *)
(* lib.rs): per module a task that sends packets and one that receives     *)
(* them, on both ends of the air.  All modules of a device share one radio *)
(* client, whose mutex a sender holds for all frames of a packet; frames   *)
(* received on any module are broadcast to the receiving tasks of all.     *)
(*                                                                         *)
(* Packets are numbered; each is sent as Pieces frames.  The coder of      *)
(* kaonic-net is external: a packet is put together when all its frames    *)
(* have come.  Frames are lost in the air or spoilt by collisions.         *)
(***************************************************************************)
EXTENDS Naturals, Sequences

CONSTANTS
  Module,
  None,
  Pieces,      \* frames of a packet
  MaxPackets,  \* bound on the packets sent
  Capacity,    \* of the broadcast channel of received frames
  MaxFaults    \* bound on the frames the client fails to transmit

VARIABLES
  waiting,     \* sender, per module: packets Reticulum has handed over
  sending,     \* sender, per module: <<packet, frame>> to transmit next, or None
  client,      \* the module whose sender holds the radio client, or None
  aired,       \* frames transmitted and reported to the transmit observer
  channel,     \* receiver, per module's task: frames it has not taken
  lagged,      \* per task: frames were dropped since it last took one
  deaf,        \* per task: it waits for nothing but its cancellation
  collected,   \* per task: frames its decoder holds
  delivered,   \* per module: packets passed to Reticulum
  owner,       \* history: the module each packet was sent on
  packets, faults

vars == <<waiting, sending, client, aired, channel, lagged, deaf,
          collected, delivered, owner, packets, faults>>

Packet == 1..MaxPackets
Frame == [packet : Packet, piece : 1..Pieces, module : Module]

\* The types, and that only who holds the client is within a packet.
TypeOK ==
  /\ waiting \in [Module -> Seq(Packet)]
  /\ \A m \in Module : sending[m] = None \/ sending[m] \in Packet \X (1..Pieces)
  /\ client \in Module \cup {None}
  /\ \A m \in Module :
       /\ Len(channel[m]) <= Capacity
       /\ collected[m] \subseteq Frame /\ delivered[m] \subseteq Packet
       /\ sending[m] # None /\ sending[m][2] > 1 => client = m
  /\ aired \in Seq(Frame)
  /\ lagged \in [Module -> BOOLEAN] /\ deaf \in [Module -> BOOLEAN]

Init ==
  /\ waiting = [m \in Module |-> <<>>]
  /\ sending = [m \in Module |-> None]
  /\ client = None
  /\ aired = <<>>
  /\ channel = [m \in Module |-> <<>>]
  /\ lagged = [m \in Module |-> FALSE] /\ deaf = [m \in Module |-> FALSE]
  /\ collected = [m \in Module |-> {}]
  /\ delivered = [m \in Module |-> {}]
  /\ owner = <<>>
  /\ packets = 0 /\ faults = 0

receiver == <<channel, lagged, deaf, collected, delivered>>

-----------------------------------------------------------------------------
(* The sender: tx_task and transmit_message *)

Submit(m) ==
  /\ packets < MaxPackets /\ packets' = packets + 1
  /\ waiting' = [waiting EXCEPT ![m] = Append(@, packets')]
  /\ owner' = Append(owner, m)
  /\ UNCHANGED <<sending, client, aired, receiver, faults>>

\* The packet is serialized and encoded; one that cannot be is dropped.
Encode(m) ==
  /\ sending[m] = None /\ waiting[m] # <<>>
  /\ waiting' = [waiting EXCEPT ![m] = Tail(@)]
  /\ \/ sending' = [sending EXCEPT ![m] = <<Head(waiting[m]), 1>>] /\ UNCHANGED faults
     \/ faults < MaxFaults /\ faults' = faults + 1 /\ UNCHANGED sending
  /\ UNCHANGED <<client, aired, receiver, owner, packets>>

LockClient(m) ==
  /\ sending[m] # None /\ client = None
  /\ client' = m
  /\ UNCHANGED <<waiting, sending, aired, receiver, owner, packets, faults>>

FrameOf(m) == [packet |-> sending[m][1], piece |-> sending[m][2], module |-> m]

\* A frame reaches the other device: every receiving task may take it, and a
\* full channel drops the oldest frame for the task that lags.
Broadcast(f) ==
  /\ channel' = [t \in Module |->
       LET q == Append(channel[t], f) IN IF Len(q) > Capacity THEN Tail(q) ELSE q]
  /\ lagged' = [t \in Module |-> lagged[t] \/ Len(channel[t]) = Capacity]
Lose == UNCHANGED <<channel, lagged>>

\* A frame is transmitted and the observer told; after the last the client is
\* given up.
Transmit(m) ==
  /\ client = m
  /\ aired' = Append(aired, FrameOf(m))
  /\ Broadcast(FrameOf(m)) \/ Lose
  /\ IF sending[m][2] = Pieces
     THEN sending' = [sending EXCEPT ![m] = None] /\ client' = None
     ELSE sending' = [sending EXCEPT ![m][2] = @ + 1] /\ UNCHANGED client
  /\ UNCHANGED <<waiting, deaf, collected, delivered, owner, packets, faults>>

\* A failing transmit abandons the rest of the packet.
TransmitFails(m) ==
  /\ client = m /\ faults < MaxFaults
  /\ faults' = faults + 1
  /\ sending' = [sending EXCEPT ![m] = None]
  /\ client' = None
  /\ UNCHANGED <<waiting, aired, receiver, owner, packets>>

-----------------------------------------------------------------------------
(* The receiver: rx_task *)

\* The branch of the select! matches Ok only: when the channel answers Lagged
\* the branch is off for good, and nothing but the cancellation is waited for.
Lag(m) ==
  /\ lagged[m] /\ ~deaf[m]
  /\ deaf' = [deaf EXCEPT ![m] = TRUE]
  /\ UNCHANGED <<waiting, sending, client, aired, channel, lagged,
                 collected, delivered, owner, packets, faults>>

\* A plausible bug: frames of other modules are taken in too.
TakenInAny(m, f) == collected[m] \cup {f}

\* Frames of other modules are passed over.
TakenIn(m, f) == IF f.module = m THEN collected[m] \cup {f} ELSE collected[m]

\* A packet all of whose frames have come is put together and passed on.
Complete(frames) == {p \in Packet : \A i \in 1..Pieces :
                       \E f \in frames : f.packet = p /\ f.piece = i}

Take(m) ==
  /\ ~lagged[m] /\ ~deaf[m] /\ channel[m] # <<>>
  /\ channel' = [channel EXCEPT ![m] = Tail(@)]
  /\ LET frames == TakenIn(m, Head(channel[m]))
     IN /\ delivered' = [delivered EXCEPT ![m] = @ \cup Complete(frames)]
        /\ collected' = [collected EXCEPT ![m] =
                           {f \in frames : f.packet \notin Complete(frames)}]
  /\ UNCHANGED <<waiting, sending, client, aired, lagged, deaf, owner,
                 packets, faults>>

Next == \E m \in Module :
  \/ Submit(m) \/ Encode(m) \/ LockClient(m) \/ Transmit(m) \/ TransmitFails(m)
  \/ Lag(m) \/ Take(m)

Spec == Init /\ [][Next]_vars

\* A receiving task that can run does.
FairSpec == Spec /\ \A m \in Module : WF_vars(Lag(m)) /\ WF_vars(Take(m))

-----------------------------------------------------------------------------
(* Properties *)

\* A packet passed to Reticulum was transmitted whole, on the module it is
\* passed on: what a failed transmit left unfinished is never delivered.
DeliveredWhole ==
  \A m \in Module : \A p \in delivered[m] :
    /\ owner[p] = m
    /\ \A i \in 1..Pieces : \E k \in 1..Len(aired) :
         aired[k] = [packet |-> p, piece |-> i, module |-> m]

\* The interface forwards what the radio receives: a frame in the channel is
\* taken in the end.
RadioIsHeard == \A m \in Module : channel[m] # <<>> ~> channel[m] = <<>>
=============================================================================
