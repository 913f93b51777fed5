-------------------------- MODULE AtakBridgeProofs --------------------------
(***************************************************************************)
(* Proofs about AtakBridge for every number of nodes and packets, every    *)
(* capacity of the event channel and every number of links that close.     *)
(***************************************************************************)
EXTENDS AtakBridge, TLAPS

-----------------------------------------------------------------------------
(* Queues *)

LEMMA TailFacts ==
  ASSUME NEW S, NEW q \in Seq(S), q # <<>>
  PROVE  /\ Tail(q) \in Seq(S) /\ Len(Tail(q)) = Len(q) - 1
         /\ Len(q) \in Nat \ {0}
         /\ Head(q) = q[1] /\ Head(q) \in S
         /\ \A i \in 1..Len(Tail(q)) : i + 1 \in 1..Len(q) /\ Tail(q)[i] = q[i + 1]
OBVIOUS

LEMMA AppendFacts ==
  ASSUME NEW S, NEW q \in Seq(S), NEW e \in S
  PROVE  /\ Append(q, e) \in Seq(S) /\ Len(Append(q, e)) = Len(q) + 1
         /\ Len(q) \in Nat
         /\ Append(q, e)[Len(q) + 1] = e
         /\ \A i \in 1..Len(q) : Append(q, e)[i] = q[i]
OBVIOUS

\* r is q without its first k entries, followed by e.
Follows(r, q, k, e) ==
  /\ Len(r) = Len(q) - k + 1
  /\ r[Len(r)] = e
  /\ \A i \in 1..(Len(r) - 1) : i + k \in 1..Len(q) /\ r[i] = q[i + k]

\* The event channel takes a new event and never exceeds its capacity.
LEMMA PushedFacts ==
  ASSUME NEW n \in Node, events[n] \in Seq(LinkEvent), Len(events[n]) <= MaxEvents,
         NEW e \in LinkEvent, NEW r, r = Pushed(n, e)
  PROVE  /\ r \in Seq(LinkEvent) /\ Len(r) <= MaxEvents
         /\ \E k \in {0, 1} : Follows(r, events[n], k, e)
<1> DEFINE q == events[n]
<1>1. Len(q) \in Nat /\ MaxEvents \in Nat \ {0}
  BY BoundsAssumption
<1>2. CASE Len(q) < MaxEvents
  <2>1. r = Append(q, e)
    BY <1>2 DEF Pushed
  <2>2. /\ r \in Seq(LinkEvent) /\ Len(r) = Len(q) + 1 /\ r[Len(q) + 1] = e
        /\ \A i \in 1..Len(q) : r[i] = q[i]
    BY <2>1, AppendFacts
  <2>3. Follows(r, q, 0, e)
    BY <1>1, <2>2 DEF Follows
  <2> QED BY <1>1, <1>2, <2>2, <2>3
<1>3. CASE ~(Len(q) < MaxEvents)
  <2>1. r = Append(Tail(q), e)
    BY <1>3 DEF Pushed
  <2>2. q # <<>>
    BY <1>1, <1>3
  <2>3. /\ Tail(q) \in Seq(LinkEvent) /\ Len(Tail(q)) = Len(q) - 1
        /\ \A i \in 1..Len(Tail(q)) : i + 1 \in 1..Len(q) /\ Tail(q)[i] = q[i + 1]
    BY <2>2, TailFacts
  <2> DEFINE t == Tail(q)
  <2> HIDE DEF t, q
  <2>4. t \in Seq(LinkEvent)
    BY <2>3 DEF t
  <2>5. /\ r \in Seq(LinkEvent) /\ Len(r) = Len(t) + 1 /\ r[Len(t) + 1] = e
        /\ \A i \in 1..Len(t) : r[i] = t[i]
    BY <2>1, <2>4, AppendFacts DEF t
  <2>6. Len(r) = Len(q) /\ r[Len(r)] = e
    BY <1>1, <2>3, <2>5 DEF t
  <2>7. \A i \in 1..(Len(r) - 1) : i + 1 \in 1..Len(q) /\ r[i] = q[i + 1]
    BY <1>1, <2>3, <2>5, <2>6 DEF t
  <2>8. Follows(r, q, 1, e)
    BY <1>1, <2>6, <2>7 DEF Follows
  <2>9. Len(r) <= MaxEvents
    BY <2>6 DEF q
  <2> QED BY <2>5, <2>8, <2>9 DEF q
<1> QED BY <1>2, <1>3

-----------------------------------------------------------------------------
(* Type correctness *)

\* Beside the types: a node links to others only.
IInv ==
  /\ TypeOK
  /\ events = [n \in Node |-> events[n]]
  /\ \A n \in Node : linking[n] # n /\ link[n][n] = "None"

LEMMA TypedInit == Init => IInv
<1> SUFFICES ASSUME Init PROVE IInv
  OBVIOUS
<1>1. unsent \in [Node -> SUBSET Packet]
  BY DEF Init
<1>2. socket \in [Node -> Seq(Packet)]
  BY DEF Init
<1>3. peer_hashes \in [Node -> SUBSET Node] /\ \A n \in Node : n \notin peer_hashes[n]
  BY DEF Init
<1>4. linking \in [Node -> Node \cup {None}] /\ \A n \in Node : linking[n] # n
  BY NoneAssumption DEF Init
<1>5. link \in [Node -> [Node -> Status]] /\ \A n \in Node : link[n][n] = "None"
  BY DEF Init, Status
<1>6. /\ events = [n \in Node |-> events[n]]
      /\ \A n \in Node : events[n] \in Seq(LinkEvent) /\ Len(events[n]) <= MaxEvents
  BY BoundsAssumption DEF Init
<1>7. put \in [Node -> [Packet -> Nat]] /\ closes \in Nat
  BY DEF Init
<1> QED BY <1>1, <1>2, <1>3, <1>4, <1>5, <1>6, <1>7 DEF IInv, TypeOK

EventsTyped ==
  /\ events = [n \in Node |-> events[n]]
  /\ \A n \in Node : events[n] \in Seq(LinkEvent) /\ Len(events[n]) <= MaxEvents

\* rns_to_udp takes the oldest event.
LEMMA ReceivedFacts ==
  ASSUME IInv, NEW n \in Node, NEW kind, Received(n, kind)
  PROVE  /\ EventsTyped'
         /\ events[n] \in Seq(LinkEvent) /\ events[n] # <<>>
         /\ \A m \in Node : events'[m] = IF m = n THEN Tail(events[n]) ELSE events[m]
         /\ Head(events[n]) \in LinkEvent
         /\ kind = "Data" => Head(events[n]).packet \in Packet
<1>1. /\ events = [m \in Node |-> events[m]]
      /\ \A m \in Node : events[m] \in Seq(LinkEvent) /\ Len(events[m]) <= MaxEvents
  BY DEF IInv, TypeOK
<1>2. /\ events[n] # <<>> /\ Head(events[n]).kind = kind
      /\ events' = [events EXCEPT ![n] = Tail(events[n])]
  BY DEF Received
<1>3. \A m \in Node : events'[m] = IF m = n THEN Tail(events[n]) ELSE events[m]
  BY <1>1, <1>2
<1>4. /\ Tail(events[n]) \in Seq(LinkEvent) /\ Len(Tail(events[n])) = Len(events[n]) - 1
      /\ Len(events[n]) \in Nat \ {0} /\ Head(events[n]) \in LinkEvent
  BY <1>1, <1>2, TailFacts
<1>5. Len(Tail(events[n])) <= MaxEvents
  BY <1>1, <1>4, BoundsAssumption
<1>6. events' = [m \in Node |-> events'[m]]
  BY <1>1, <1>2
<1>7. EventsTyped'
  BY <1>1, <1>3, <1>4, <1>5, <1>6 DEF EventsTyped
<1>8. kind = "Data" => Head(events[n]).packet \in Packet
  BY <1>2, <1>4 DEF LinkEvent
<1> QED BY <1>1, <1>2, <1>3, <1>4, <1>7, <1>8

LEMMA TypedStep == IInv /\ [Next]_vars => IInv'
<1> SUFFICES ASSUME IInv, [Next]_vars PROVE IInv'
  OBVIOUS
<1>1. /\ unsent \in [Node -> SUBSET Packet] /\ socket \in [Node -> Seq(Packet)]
      /\ peer_hashes \in [Node -> SUBSET Node]
      /\ linking \in [Node -> Node \cup {None}]
      /\ link \in [Node -> [Node -> Status]]
      /\ put \in [Node -> [Packet -> Nat]] /\ closes \in Nat
      /\ \A n \in Node : /\ n \notin peer_hashes[n] /\ linking[n] # n
                         /\ link[n][n] = "None"
      /\ EventsTyped
  BY DEF IInv, TypeOK, EventsTyped
<1> DEFINE Peers ==
      /\ peer_hashes \in [Node -> SUBSET Node]
      /\ linking \in [Node -> Node \cup {None}]
      /\ link \in [Node -> [Node -> Status]]
      /\ \A n \in Node : /\ n \notin peer_hashes[n] /\ linking[n] # n
                         /\ link[n][n] = "None"
    Data_ ==
      /\ unsent \in [Node -> SUBSET Packet] /\ socket \in [Node -> Seq(Packet)]
      /\ put \in [Node -> [Packet -> Nat]] /\ closes \in Nat
<1>2. Peers' /\ Data_' /\ EventsTyped' => IInv'
  BY DEF IInv, TypeOK, EventsTyped
<1>3. /\ UNCHANGED <<peer_hashes, linking, link>> => Peers'
      /\ UNCHANGED <<unsent, socket, put, closes>> => Data_'
      /\ UNCHANGED events => EventsTyped'
  BY <1>1 DEF EventsTyped
<1>4. ASSUME NEW n \in Node, NEW e \in LinkEvent,
             events' = [events EXCEPT ![n] = Pushed(n, e)]
      PROVE  EventsTyped'
  <2>1. Pushed(n, e) \in Seq(LinkEvent) /\ Len(Pushed(n, e)) <= MaxEvents
    BY <1>1, PushedFacts DEF EventsTyped
  <2>2. \A m \in Node : events'[m] = IF m = n THEN Pushed(n, e) ELSE events[m]
    BY <1>1, <1>4 DEF EventsTyped
  <2>3. events' = [m \in Node |-> events'[m]]
    BY <1>1, <1>4 DEF EventsTyped
  <2> QED BY <1>1, <2>1, <2>2, <2>3 DEF EventsTyped
<1>5. ASSUME NEW n \in Node, NEW x \in Packet, DeviceSends(n, x) PROVE IInv'
  <2>1. \A m \in Node : Append(socket[m], x) \in Seq(Packet)
    BY <1>1
  <2>2. socket' \in [Node -> Seq(Packet)]
    BY <1>1, <1>5, <2>1 DEF DeviceSends
  <2>3. unsent' \in [Node -> SUBSET Packet]
    BY <1>1, <1>5 DEF DeviceSends
  <2>4. Data_'
    BY <1>1, <1>5, <2>2, <2>3 DEF DeviceSends
  <2> QED BY <1>2, <1>3, <1>5, <2>4 DEF DeviceSends
<1>6. ASSUME NEW n \in Node, UdpToRns(n) PROVE IInv'
  <2>1. /\ Tail(socket[n]) \in Seq(Packet) /\ Head(socket[n]) \in Packet
    BY <1>1, <1>6, TailFacts DEF UdpToRns
  <2> DEFINE e == [from |-> n, kind |-> "Data", packet |-> Head(socket[n])]
  <2>2. socket' \in [Node -> Seq(Packet)]
    BY <1>1, <1>6, <2>1 DEF UdpToRns
  <2>3. PICK reached \in SUBSET Node :
          events' = [m \in Node |-> IF Accepted(Head(socket[n])) /\ m \in reached
                                    THEN Pushed(m, e) ELSE events[m]]
    BY <1>6 DEF UdpToRns
  <2>4. e \in LinkEvent
    BY <2>1 DEF LinkEvent
  <2> HIDE DEF e
  <2>5. \A m \in Node : Pushed(m, e) \in Seq(LinkEvent) /\ Len(Pushed(m, e)) <= MaxEvents
    BY <1>1, <2>4, PushedFacts DEF EventsTyped
  <2>6. EventsTyped'
    BY <1>1, <2>3, <2>5 DEF EventsTyped
  <2>7. Data_'
    BY <1>1, <1>6, <2>2 DEF UdpToRns
  <2> QED BY <1>2, <1>3, <1>6, <2>6, <2>7 DEF UdpToRns
<1>7. ASSUME NEW n \in Node, AutoLink(n) PROVE IInv'
  <2>1. linking[n] \in Node /\ linking[n] # n
    BY <1>1, <1>7 DEF AutoLink
  <2>2. link' \in [Node -> [Node -> Status]] /\ \A m \in Node : link'[m][m] = "None"
    BY <1>1, <1>7, <2>1 DEF AutoLink, Status
  <2>3. linking' \in [Node -> Node \cup {None}] /\ \A m \in Node : linking'[m] # m
    BY <1>1, <1>7, NoneAssumption DEF AutoLink
  <2>4. Peers'
    BY <1>1, <1>7, <2>2, <2>3 DEF AutoLink
  <2> QED BY <1>2, <1>3, <1>7, <2>4 DEF AutoLink
<1>8. ASSUME NEW n \in Node, Skip(n) PROVE IInv'
  BY <1>2, <1>3, <1>8, ReceivedFacts DEF Skip
<1>9. ASSUME NEW n \in Node, Closed(n) PROVE IInv'
  <2>1. EventsTyped'
    BY <1>9, ReceivedFacts DEF Closed
  <2>2. Peers'
    BY <1>1, <1>9 DEF Closed
  <2> QED BY <1>2, <1>3, <1>9, <2>1, <2>2 DEF Closed
<1>10. ASSUME NEW n \in Node, Data(n) PROVE IInv'
  <2> DEFINE x == Head(events[n]).packet
  <2>1. EventsTyped' /\ x \in Packet
    BY <1>10, ReceivedFacts DEF Data
  <2>2. put' \in [Node -> [Packet -> Nat]]
    <3>1. put' = put \/ put' = [put EXCEPT ![n][x] = put[n][x] + 1]
      BY <1>10 DEF Data
    <3>2. put \in [Node -> [Packet -> Nat]] /\ x \in Packet
      BY <1>1, <2>1
    <3> HIDE DEF x
    <3>3. put[n] \in [Packet -> Nat]
      BY <3>2
    <3>4. put[n][x] + 1 \in Nat
      BY <3>2, <3>3
    <3>5. [put[n] EXCEPT ![x] = put[n][x] + 1] \in [Packet -> Nat]
      BY <3>3, <3>4
    <3>6. [put EXCEPT ![n] = [put[n] EXCEPT ![x] = put[n][x] + 1]]
            \in [Node -> [Packet -> Nat]]
      BY <3>2, <3>5
    <3> QED BY <3>1, <3>2, <3>6
  <2>3. socket' \in [Node -> Seq(Packet)]
    <3>1. \/ socket' = socket
          \/ socket' = [m \in Node |-> IF <<n, m>> \in SameLan
                                      THEN Append(socket[m], x) ELSE socket[m]]
      BY <1>10 DEF Data
    <3> HIDE DEF x
    <3>2. \A m \in Node : Append(socket[m], x) \in Seq(Packet)
      BY <1>1, <2>1
    <3>3. \A m \in Node : socket[m] \in Seq(Packet)
      BY <1>1
    <3>4. [m \in Node |-> IF <<n, m>> \in SameLan
                          THEN Append(socket[m], x) ELSE socket[m]]
            \in [Node -> Seq(Packet)]
      BY <3>2, <3>3
    <3> QED BY <1>1, <3>1, <3>4
  <2>4. Data_'
    BY <1>1, <1>10, <2>2, <2>3 DEF Data
  <2> QED BY <1>2, <1>3, <1>10, <2>1, <2>4 DEF Data
<1>11. ASSUME NEW n \in Node, NEW m \in Node, HearAnnounce(n, m) PROVE IInv'
  <2>1. peer_hashes' \in [Node -> SUBSET Node] /\ \A k \in Node : k \notin peer_hashes'[k]
    BY <1>1, <1>11 DEF HearAnnounce
  <2>2. linking' \in [Node -> Node \cup {None}] /\ \A k \in Node : linking'[k] # k
    BY <1>1, <1>11 DEF HearAnnounce
  <2>3. Peers'
    BY <1>1, <1>11, <2>1, <2>2 DEF HearAnnounce
  <2> QED BY <1>2, <1>3, <1>11, <2>3 DEF HearAnnounce
<1>12. ASSUME NEW n \in Node, NEW m \in Node, NEW s \in Status,
              link[n][m] # "None", link' = [link EXCEPT ![n][m] = s],
              UNCHANGED <<peer_hashes, linking>>
       PROVE  Peers'
  BY <1>1, <1>12
<1>13. ASSUME NEW n \in Node, NEW m \in Node, Activate(n, m) PROVE IInv'
  <2>1. [from |-> m, kind |-> "Activated"] \in LinkEvent
    BY DEF LinkEvent
  <2>2. EventsTyped'
    BY <1>4, <1>13, <2>1 DEF Activate
  <2>3. Peers'
    BY <1>12, <1>13 DEF Activate, Status
  <2> QED BY <1>2, <1>3, <1>13, <2>2, <2>3 DEF Activate
<1>14. ASSUME NEW n \in Node, NEW m \in Node, Close(n, m) PROVE IInv'
  <2>1. [from |-> m, kind |-> "Closed"] \in LinkEvent
    BY DEF LinkEvent
  <2>2. EventsTyped'
    BY <1>4, <1>14, <2>1 DEF Close
  <2>3. Peers'
    BY <1>12, <1>14 DEF Close, Status
  <2>4. Data_'
    BY <1>1, <1>14 DEF Close
  <2> QED BY <1>2, <2>2, <2>3, <2>4
<1>15. ASSUME NEW n \in Node, NEW m \in Node, Restart(n, m) PROVE IInv'
  <2>1. Peers'
    BY <1>12, <1>15 DEF Restart, Status
  <2> QED BY <1>2, <1>3, <1>15, <2>1 DEF Restart
<1>16. CASE UNCHANGED vars
  BY <1>2, <1>3, <1>16 DEF vars
<1> QED BY <1>5, <1>6, <1>7, <1>8, <1>9, <1>10, <1>11, <1>13, <1>14, <1>15, <1>16
        DEF Next, RnsToUdp

\* The types: no event channel exceeds its capacity and no node comes to heed
\* or to link to itself, though it hears its own announces.
THEOREM BridgeTyped == Spec => []TypeOK
<1>1. IInv => TypeOK
  BY DEF IInv
<1> QED BY <1>1, TypedInit, TypedStep, PTL DEF Spec

-----------------------------------------------------------------------------
(* A packet crosses the mesh one way. *)

\* Whether a queue holds an element of E, and whether no two.
Has(q, E) == \E i \in 1..Len(q) : q[i] \in E
AtMostOne(q, E) == \A i, j \in 1..Len(q) : q[i] \in E /\ q[j] \in E => i = j

LEMMA TailHas ==
  ASSUME NEW S, NEW q \in Seq(S), q # <<>>, NEW E, NEW t, t = Tail(q)
  PROVE  /\ Has(t, E) => Has(q, E)
         /\ AtMostOne(q, E) => AtMostOne(t, E) /\ (Head(q) \in E => ~Has(t, E))
         /\ Head(q) \in E => Has(q, E)
<1>1. /\ Len(t) = Len(q) - 1 /\ Len(q) \in Nat \ {0} /\ Head(q) = q[1]
      /\ \A i \in 1..Len(t) : i + 1 \in 1..Len(q) /\ t[i] = q[i + 1]
  BY TailFacts
<1>2. 1 \in 1..Len(q)
  BY <1>1
<1>3. Has(t, E) => Has(q, E)
  BY <1>1 DEF Has
<1>4. ASSUME AtMostOne(q, E), NEW i \in 1..Len(t), NEW j \in 1..Len(t),
             t[i] \in E, t[j] \in E
      PROVE  i = j
  <2>1. i + 1 = j + 1
    BY <1>1, <1>4 DEF AtMostOne
  <2> QED BY <2>1
<1>5. ASSUME AtMostOne(q, E), Head(q) \in E, NEW i \in 1..Len(t), t[i] \in E
      PROVE  FALSE
  <2>1. i + 1 = 1
    BY <1>1, <1>2, <1>5 DEF AtMostOne
  <2> QED BY <2>1
<1>6. Head(q) \in E => Has(q, E)
  BY <1>1, <1>2 DEF Has
<1> QED BY <1>3, <1>4, <1>5, <1>6 DEF Has, AtMostOne

LEMMA FollowsHas ==
  ASSUME NEW S, NEW q \in Seq(S), NEW r \in Seq(S), NEW k \in {0, 1}, NEW e, NEW E,
         Follows(r, q, k, e)
  PROVE  /\ Has(r, E) => Has(q, E) \/ e \in E
         /\ AtMostOne(q, E) /\ (e \in E => ~Has(q, E)) => AtMostOne(r, E)
<1>1. /\ Len(r) = Len(q) - k + 1 /\ Len(q) \in Nat /\ Len(r) \in Nat /\ r[Len(r)] = e
      /\ \A i \in 1..(Len(r) - 1) : i + k \in 1..Len(q) /\ r[i] = q[i + k]
  BY DEF Follows
<1>2. \A i \in 1..Len(r) : i = Len(r) \/ i \in 1..(Len(r) - 1)
  BY <1>1
<1>3. Has(r, E) => Has(q, E) \/ e \in E
  BY <1>1, <1>2 DEF Has
<1>4. ASSUME AtMostOne(q, E), e \in E => ~Has(q, E),
             NEW i \in 1..Len(r), NEW j \in 1..Len(r), r[i] \in E, r[j] \in E
      PROVE  i = j
  <2>1. CASE i \in 1..(Len(r) - 1) /\ j \in 1..(Len(r) - 1)
    <3>1. i + k = j + k
      BY <1>1, <1>4, <2>1 DEF AtMostOne
    <3> QED BY <3>1
  <2>2. CASE i = Len(r) /\ j \in 1..(Len(r) - 1)
    BY <1>1, <1>4, <2>2 DEF Has
  <2>3. CASE j = Len(r) /\ i \in 1..(Len(r) - 1)
    BY <1>1, <1>4, <2>3 DEF Has
  <2>4. CASE i = Len(r) /\ j = Len(r)
    BY <2>4
  <2> QED BY <1>2, <2>1, <2>2, <2>3, <2>4
<1> QED BY <1>3, <1>4 DEF AtMostOne

DataOf(x) == {e \in LinkEvent : e.kind = "Data" /\ e.packet = x}

\* x is gone from the devices (u) and the receiver (s) of its source.
Left(u, s, x) == x \notin u[Source[x]] /\ ~Has(s[Source[x]], {x})

\* A packet is with the devices of its source, or in the receiver of its source,
\* or on its way to other nodes, and at each of these either yet to come or put
\* on the LAN; and in each queue it is once.
Sent ==
  \A n \in Node, x \in Packet :
    /\ AtMostOne(socket[n], {x}) /\ AtMostOne(events[n], DataOf(x))
    /\ x \in unsent[n] => n = Source[x]
    /\ Has(socket[n], {x}) => n = Source[x] /\ x \notin unsent[n]

Passed ==
  \A n \in Node, x \in Packet :
    /\ Has(events[n], DataOf(x)) => n # Source[x] /\ put[n][x] = 0
    /\ put[n][x] # 0 => n # Source[x] /\ put[n][x] = 1
    /\ Has(events[n], DataOf(x)) \/ put[n][x] # 0 => Left(unsent, socket, x)

OneWay == Sent /\ Passed

LEMMA OneWayInit == Init => OneWay
<1> SUFFICES ASSUME Init, NEW n \in Node, NEW x \in Packet
             PROVE  /\ AtMostOne(socket[n], {x}) /\ AtMostOne(events[n], DataOf(x))
                    /\ x \in unsent[n] => n = Source[x]
                    /\ ~Has(socket[n], {x}) /\ ~Has(events[n], DataOf(x))
                    /\ put[n][x] = 0
  BY DEF OneWay, Sent, Passed
<1>1. socket[n] = <<>> /\ events[n] = <<>>
  BY DEF Init
<1>2. put[n][x] = 0 /\ (x \in unsent[n] => n = Source[x])
  BY DEF Init
<1> QED BY <1>1, <1>2 DEF Has, AtMostOne

\* Events that carry nothing may come, and any may be dropped.
LEMMA EventsShrink ==
  ASSUME OneWay, UNCHANGED <<unsent, socket, put>>,
         \A n \in Node, x \in Packet :
           /\ Has(events'[n], DataOf(x)) => Has(events[n], DataOf(x))
           /\ AtMostOne(events'[n], DataOf(x))
  PROVE  OneWay'
BY DEF OneWay, Sent, Passed, Left

LEMMA TakeShrinks ==
  ASSUME IInv, OneWay, NEW n \in Node, NEW kind, Received(n, kind)
  PROVE  /\ \A m \in Node, x \in Packet :
              /\ Has(events'[m], DataOf(x)) => Has(events[m], DataOf(x))
              /\ AtMostOne(events'[m], DataOf(x))
         /\ \A x \in Packet : Head(events[n]) \in DataOf(x) =>
              Has(events[n], DataOf(x)) /\ ~Has(events'[n], DataOf(x))
<1>1. /\ events[n] \in Seq(LinkEvent) /\ events[n] # <<>>
      /\ \A m \in Node : events'[m] = IF m = n THEN Tail(events[n]) ELSE events[m]
  BY ReceivedFacts
<1>2. \A x \in Packet : AtMostOne(events[n], DataOf(x))
  BY DEF OneWay, Sent, Passed
<1>3. \A x \in Packet :
        /\ Has(events'[n], DataOf(x)) => Has(events[n], DataOf(x))
        /\ AtMostOne(events'[n], DataOf(x))
        /\ Head(events[n]) \in DataOf(x) =>
             Has(events[n], DataOf(x)) /\ ~Has(events'[n], DataOf(x))
  BY <1>1, <1>2, TailHas
<1>4. \A m \in Node \ {n} : events'[m] = events[m]
  BY <1>1
<1> QED BY <1>3, <1>4 DEF OneWay, Sent, Passed

LEMMA PushShrinks ==
  ASSUME IInv, OneWay, NEW n \in Node, NEW e \in LinkEvent, e.kind # "Data",
         events' = [events EXCEPT ![n] = Pushed(n, e)], UNCHANGED <<unsent, socket, put>>
  PROVE  OneWay'
<1>1. /\ events = [m \in Node |-> events[m]]
      /\ events[n] \in Seq(LinkEvent) /\ Len(events[n]) <= MaxEvents
  BY DEF IInv, TypeOK
<1>2. \A m \in Node : events'[m] = IF m = n THEN Pushed(n, e) ELSE events[m]
  BY <1>1
<1>3. /\ Pushed(n, e) \in Seq(LinkEvent)
      /\ \E k \in {0, 1} : Follows(Pushed(n, e), events[n], k, e)
  BY <1>1, PushedFacts
<1>4. \A x \in Packet : e \notin DataOf(x) /\ AtMostOne(events[n], DataOf(x))
  BY DEF DataOf, OneWay, Sent, Passed
<1>5. \A x \in Packet :
        /\ Has(Pushed(n, e), DataOf(x)) => Has(events[n], DataOf(x))
        /\ AtMostOne(Pushed(n, e), DataOf(x))
  BY <1>1, <1>3, <1>4, FollowsHas
<1>6. \A m \in Node, x \in Packet :
        /\ Has(events'[m], DataOf(x)) => Has(events[m], DataOf(x))
        /\ AtMostOne(events'[m], DataOf(x))
  <2> SUFFICES ASSUME NEW m \in Node, NEW x \in Packet
               PROVE  /\ Has(events'[m], DataOf(x)) => Has(events[m], DataOf(x))
                      /\ AtMostOne(events'[m], DataOf(x))
    OBVIOUS
  <2>1. CASE m = n
    <3>1. events'[m] = Pushed(n, e)
      BY <1>2, <2>1
    <3> QED BY <1>5, <2>1, <3>1
  <2>2. CASE m # n
    <3>1. events'[m] = events[m]
      BY <1>2, <2>2
    <3> QED BY <3>1 DEF OneWay, Sent, Passed
  <2> QED BY <2>1, <2>2
<1> QED BY <1>6, EventsShrink

\* Nodes on LANs of their own: what one multicasts no other node hears.
OwnLans == SameLan = {}

\* A packet leaves the devices for the receiver of its source.
LEMMA OneWayDevice ==
  ASSUME OwnLans, IInv, OneWay, NEW n \in Node, NEW x \in Packet, DeviceSends(n, x)
  PROVE  OneWay'
<1>1. /\ unsent \in [Node -> SUBSET Packet] /\ socket \in [Node -> Seq(Packet)]
      /\ put \in [Node -> [Packet -> Nat]]
  BY DEF IInv, TypeOK
<1>2. /\ x \in unsent[n] /\ UNCHANGED <<events, put>>
      /\ unsent' = [unsent EXCEPT ![n] = @ \ {x}]
      /\ \A m \in Node : socket'[m] = IF m = n THEN Append(socket[m], x) ELSE socket[m]
  BY DEF DeviceSends, OwnLans
<1>3. n = Source[x] /\ ~Has(socket[n], {x}) /\ ~Left(unsent, socket, x)
  BY <1>2 DEF OneWay, Sent, Passed, Left
<1>4. \A m \in Node : ~Has(events[m], DataOf(x)) /\ put[m][x] = 0
  BY <1>3 DEF OneWay, Sent, Passed
<1>5. \A m \in Node : unsent'[m] = IF m = n THEN unsent[n] \ {x} ELSE unsent[m]
  BY <1>1, <1>2
<1>6. /\ Append(socket[n], x) \in Seq(Packet)
      /\ Follows(Append(socket[n], x), socket[n], 0, x)
  <2>1. socket[n] \in Seq(Packet)
    BY <1>1
  <2> QED BY <2>1, AppendFacts DEF Follows
<1>7. \A y \in Packet :
        /\ Has(socket'[n], {y}) => Has(socket[n], {y}) \/ y = x
        /\ AtMostOne(socket'[n], {y})
  <2> SUFFICES ASSUME NEW y \in Packet
               PROVE  /\ Has(socket'[n], {y}) => Has(socket[n], {y}) \/ y = x
                      /\ AtMostOne(socket'[n], {y})
    OBVIOUS
  <2>1. AtMostOne(socket[n], {y}) /\ (x \in {y} => ~Has(socket[n], {y}))
    BY <1>3 DEF OneWay, Sent, Passed
  <2>2. socket[n] \in Seq(Packet)
    BY <1>1
  <2>3. /\ Has(Append(socket[n], x), {y}) => Has(socket[n], {y}) \/ x \in {y}
        /\ AtMostOne(Append(socket[n], x), {y})
    BY <1>6, <2>1, <2>2, FollowsHas
  <2> QED BY <1>2, <2>3
<1>8. ASSUME NEW y \in Packet, y # x, Left(unsent, socket, y)
      PROVE  Left(unsent', socket', y)
  BY <1>2, <1>5, <1>7, <1>8, SourceAssumption DEF Left
<1>9. ASSUME NEW m \in Node, NEW y \in Packet
      PROVE  /\ AtMostOne(socket'[m], {y}) /\ AtMostOne(events'[m], DataOf(y))
             /\ y \in unsent'[m] => m = Source[y]
             /\ Has(socket'[m], {y}) => m = Source[y] /\ y \notin unsent'[m]
  <2>1. /\ AtMostOne(socket[m], {y}) /\ AtMostOne(events[m], DataOf(y))
        /\ y \in unsent[m] => m = Source[y]
        /\ Has(socket[m], {y}) => m = Source[y] /\ y \notin unsent[m]
    BY DEF OneWay, Sent
  <2>2. events'[m] = events[m]
    BY <1>2
  <2>3. CASE m = n
    <3>1. unsent'[n] = unsent[n] \ {x}
      BY <1>5
    <3>2. y = x => m = Source[y] /\ y \notin unsent'[m]
      BY <1>3, <2>3, <3>1
    <3> QED BY <1>7, <2>1, <2>2, <2>3, <3>1, <3>2
  <2>4. CASE m # n
    BY <1>2, <1>5, <2>1, <2>2, <2>4
  <2> QED BY <2>3, <2>4
<1>10. ASSUME NEW m \in Node, NEW y \in Packet
       PROVE  /\ Has(events'[m], DataOf(y)) => m # Source[y] /\ put'[m][y] = 0
              /\ put'[m][y] # 0 => m # Source[y] /\ put'[m][y] = 1
              /\ Has(events'[m], DataOf(y)) \/ put'[m][y] # 0 =>
                   Left(unsent', socket', y)
  <2>1. CASE y = x
    BY <1>2, <1>4, <2>1
  <2>2. CASE y # x
    <3>1. Left(unsent, socket, y) => Left(unsent', socket', y)
      BY <1>8, <2>2
    <3>2. events'[m] = events[m] /\ put'[m][y] = put[m][y]
      BY <1>2
    <3> QED BY <3>1, <3>2 DEF OneWay, Sent, Passed
  <2> QED BY <2>1, <2>2
<1> QED BY <1>9, <1>10 DEF OneWay, Sent, Passed

\* The receiver of the source passes the packet on to other nodes.
LEMMA OneWayUdp ==
  ASSUME IInv, OneWay, NEW n \in Node, UdpToRns(n)
  PROVE  OneWay'
<1> DEFINE x == Head(socket[n])
           e == [from |-> n, kind |-> "Data", packet |-> x]
<1>1. /\ socket \in [Node -> Seq(Packet)] /\ socket[n] # <<>>
      /\ \A m \in Node : link[m][m] = "None"
      /\ \A m \in Node : events[m] \in Seq(LinkEvent) /\ Len(events[m]) <= MaxEvents
  BY DEF IInv, TypeOK, UdpToRns
<1>2. /\ socket' = [socket EXCEPT ![n] = Tail(socket[n])]
      /\ UNCHANGED <<unsent, put>>
  BY DEF UdpToRns
<1>3. PICK reached \in SUBSET {m \in Node : link[m][n] = "Active"} :
        events' = [m \in Node |-> IF Accepted(x) /\ m \in reached
                                  THEN Pushed(m, e) ELSE events[m]]
  BY DEF UdpToRns
<1>4. n \notin reached
  BY <1>1
<1>5. x \in Packet /\ Has(socket[n], {x})
  <2>1. socket[n] \in Seq(Packet)
    BY <1>1
  <2>2. x \in {x} /\ x \in Packet
    BY <1>1, <2>1, TailFacts
  <2> QED BY <1>1, <2>1, <2>2, TailHas
<1>6. e \in LinkEvent /\ e \in DataOf(x) /\ \A y \in Packet \ {x} : e \notin DataOf(y)
  BY <1>5 DEF LinkEvent, DataOf
<1>7. \A y \in Packet :
        /\ Has(socket'[n], {y}) => Has(socket[n], {y}) /\ y # x
        /\ AtMostOne(socket'[n], {y})
  <2> SUFFICES ASSUME NEW y \in Packet
               PROVE  /\ Has(socket'[n], {y}) => Has(socket[n], {y}) /\ y # x
                      /\ AtMostOne(socket'[n], {y})
    OBVIOUS
  <2>1. socket[n] \in Seq(Packet) /\ socket'[n] = Tail(socket[n])
    BY <1>1, <1>2
  <2>2. AtMostOne(socket[n], {y})
    BY DEF OneWay, Sent, Passed
  <2>3. /\ Has(socket'[n], {y}) => Has(socket[n], {y})
        /\ AtMostOne(socket'[n], {y}) /\ (x \in {y} => ~Has(socket'[n], {y}))
    BY <1>1, <2>1, <2>2, TailHas
  <2> QED BY <2>3
<1> HIDE DEF x, e
<1>8. n = Source[x] /\ x \notin unsent[n] /\ ~Left(unsent, socket, x)
  BY <1>5 DEF OneWay, Sent, Passed, Left
<1>9. \A m \in Node : ~Has(events[m], DataOf(x)) /\ put[m][x] = 0
  BY <1>5, <1>8 DEF OneWay, Sent, Passed
<1>10. \A m \in Node \ {n} : socket'[m] = socket[m]
  BY <1>1, <1>2
<1>11. Left(unsent', socket', x)
  BY <1>2, <1>5, <1>7, <1>8 DEF Left
<1>12. ASSUME NEW y \in Packet, Left(unsent, socket, y) PROVE Left(unsent', socket', y)
  BY <1>2, <1>7, <1>10, <1>12, SourceAssumption DEF Left
<1>13. \A m \in Node :
         events'[m] = events[m] \/ (events'[m] = Pushed(m, e) /\ m # n)
  BY <1>3, <1>4
<1>14. ASSUME NEW m \in Node, NEW y \in Packet
       PROVE  /\ Has(events'[m], DataOf(y)) =>
                   Has(events[m], DataOf(y)) \/ (y = x /\ m # n)
              /\ AtMostOne(events'[m], DataOf(y))
  <2>1. AtMostOne(events[m], DataOf(y))
    BY DEF OneWay, Sent, Passed
  <2>2. CASE events'[m] = events[m]
    BY <2>1, <2>2
  <2>3. CASE events'[m] = Pushed(m, e) /\ m # n
    <3>1. /\ events'[m] \in Seq(LinkEvent)
          /\ \E k \in {0, 1} : Follows(events'[m], events[m], k, e)
      BY <1>1, <1>6, <2>3, PushedFacts
    <3>2. e \in DataOf(y) => y = x /\ ~Has(events[m], DataOf(y))
      BY <1>6, <1>9
    <3>3. /\ Has(events'[m], DataOf(y)) => Has(events[m], DataOf(y)) \/ e \in DataOf(y)
          /\ AtMostOne(events'[m], DataOf(y))
      BY <1>1, <2>1, <3>1, <3>2, FollowsHas
    <3> QED BY <2>3, <3>2, <3>3
  <2> QED BY <1>13, <2>2, <2>3
<1>15. ASSUME NEW m \in Node, NEW y \in Packet
       PROVE  /\ AtMostOne(socket'[m], {y}) /\ AtMostOne(events'[m], DataOf(y))
              /\ y \in unsent'[m] => m = Source[y]
              /\ Has(socket'[m], {y}) => m = Source[y] /\ y \notin unsent'[m]
  BY <1>2, <1>7, <1>10, <1>14 DEF OneWay, Sent, Passed
<1>16. ASSUME NEW m \in Node, NEW y \in Packet
       PROVE  /\ Has(events'[m], DataOf(y)) => m # Source[y] /\ put'[m][y] = 0
              /\ put'[m][y] # 0 => m # Source[y] /\ put'[m][y] = 1
              /\ Has(events'[m], DataOf(y)) \/ put'[m][y] # 0 =>
                   Left(unsent', socket', y)
  <2>1. put'[m][y] = put[m][y]
    BY <1>2
  <2>2. CASE y = x
    BY <1>8, <1>9, <1>11, <1>14, <2>1, <2>2
  <2>3. CASE y # x
    <3>1. Left(unsent, socket, y) => Left(unsent', socket', y)
      BY <1>12
    <3>2. Has(events'[m], DataOf(y)) => Has(events[m], DataOf(y))
      BY <1>14, <2>3
    <3> QED BY <2>1, <3>1, <3>2 DEF OneWay, Sent, Passed
  <2> QED BY <2>2, <2>3
<1> QED BY <1>15, <1>16 DEF OneWay, Sent, Passed

\* A node puts what it receives on its LAN, where no other node hears it.
LEMMA OneWayData ==
  ASSUME OwnLans, IInv, OneWay, NEW n \in Node, Data(n)
  PROVE  OneWay'
<1> DEFINE x == Head(events[n]).packet
<1>1. socket \in [Node -> Seq(Packet)] /\ put \in [Node -> [Packet -> Nat]]
  BY DEF IInv, TypeOK
<1>2. Received(n, "Data") /\ UNCHANGED unsent
  BY DEF Data
<1>3. x \in Packet /\ Head(events[n]) \in DataOf(x)
  BY <1>2, ReceivedFacts DEF Received, DataOf
<1>4. socket' = socket
  <2>1. CASE Accepted(x)
    <3>1. socket' = [m \in Node |-> socket[m]]
      BY <2>1 DEF Data, OwnLans
    <3> QED BY <1>1, <3>1
  <2>2. CASE ~Accepted(x)
    BY <2>2 DEF Data
  <2> QED BY <2>1, <2>2
<1>5. put' = put \/ put' = [put EXCEPT ![n][x] = put[n][x] + 1]
  BY DEF Data
<1>6. /\ \A m \in Node, y \in Packet :
           /\ Has(events'[m], DataOf(y)) => Has(events[m], DataOf(y))
           /\ AtMostOne(events'[m], DataOf(y))
      /\ Has(events[n], DataOf(x)) /\ ~Has(events'[n], DataOf(x))
  BY <1>2, <1>3, TakeShrinks
<1> HIDE DEF x
<1>7. n # Source[x] /\ Left(unsent, socket, x) /\ put[n][x] = 0
  BY <1>3, <1>6 DEF OneWay, Sent, Passed
<1>8. CASE put' = put
  BY <1>2, <1>4, <1>6, <1>8, EventsShrink
<1>9. CASE put' = [put EXCEPT ![n][x] = put[n][x] + 1]
  <2>1. \A m \in Node, y \in Packet :
          put'[m][y] = IF m = n /\ y = x THEN put[n][x] + 1 ELSE put[m][y]
    BY <1>1, <1>3, <1>9
  <2>2. put'[n][x] = 1
    BY <1>3, <1>7, <2>1
  <2>3. \A y \in Packet : Left(unsent', socket', y) <=> Left(unsent, socket, y)
    BY <1>2, <1>4 DEF Left
  <2>4. ASSUME NEW m \in Node, NEW y \in Packet
        PROVE  /\ AtMostOne(socket'[m], {y}) /\ AtMostOne(events'[m], DataOf(y))
               /\ y \in unsent'[m] => m = Source[y]
               /\ Has(socket'[m], {y}) => m = Source[y] /\ y \notin unsent'[m]
    BY <1>2, <1>4, <1>6 DEF OneWay, Sent, Passed
  <2>5. ASSUME NEW m \in Node, NEW y \in Packet
        PROVE  /\ Has(events'[m], DataOf(y)) => m # Source[y] /\ put'[m][y] = 0
               /\ put'[m][y] # 0 => m # Source[y] /\ put'[m][y] = 1
               /\ Has(events'[m], DataOf(y)) \/ put'[m][y] # 0 =>
                    Left(unsent', socket', y)
    <3>1. CASE m = n /\ y = x
      BY <1>6, <1>7, <2>2, <2>3, <3>1
    <3>2. CASE ~(m = n /\ y = x)
      <4>1. put'[m][y] = put[m][y]
        BY <2>1, <3>2
      <4> QED BY <1>6, <2>3, <3>2, <4>1 DEF OneWay, Sent, Passed
    <3> QED BY <3>1, <3>2
  <2> QED BY <2>4, <2>5 DEF OneWay, Sent, Passed
<1> QED BY <1>5, <1>8, <1>9

LEMMA OneWayStep == OwnLans /\ IInv /\ OneWay /\ [Next]_vars => OneWay'
<1> SUFFICES ASSUME OwnLans, IInv, OneWay, [Next]_vars PROVE OneWay'
  OBVIOUS
<1>1. ASSUME NEW n \in Node, NEW x \in Packet, DeviceSends(n, x) PROVE OneWay'
  BY <1>1, OneWayDevice
<1>2. ASSUME NEW n \in Node, UdpToRns(n) PROVE OneWay'
  BY <1>2, OneWayUdp
<1>3. ASSUME UNCHANGED <<unsent, socket, put, events>> PROVE OneWay'
  BY <1>3 DEF OneWay, Sent, Passed, Left
<1>4. ASSUME NEW n \in Node, Skip(n) \/ Closed(n) PROVE OneWay'
  <2>1. PICK kind : Received(n, kind)
    BY <1>4 DEF Skip, Closed
  <2>2. UNCHANGED <<unsent, socket, put>>
    BY <1>4 DEF Skip, Closed
  <2> QED BY <2>1, <2>2, TakeShrinks, EventsShrink
<1>5. ASSUME NEW n \in Node, Data(n) PROVE OneWay'
  BY <1>5, OneWayData
<1>6. ASSUME NEW n \in Node, NEW m \in Node, Activate(n, m) \/ Close(n, m) PROVE OneWay'
  <2>1. PICK k \in {"Activated", "Closed"} :
          events' = [events EXCEPT ![n] = Pushed(n, [from |-> m, kind |-> k])]
    BY <1>6 DEF Activate, Close
  <2> DEFINE e == [from |-> m, kind |-> k]
  <2>2. e \in LinkEvent /\ e.kind # "Data"
    BY DEF LinkEvent
  <2>3. UNCHANGED <<unsent, socket, put>>
    BY <1>6 DEF Activate, Close
  <2> QED BY <2>1, <2>2, <2>3, PushShrinks
<1> QED BY <1>1, <1>2, <1>3, <1>4, <1>5, <1>6
        DEF Next, RnsToUdp, AutoLink, HearAnnounce, Restart, vars

\* Between nodes on LANs of their own a packet is put on each LAN once at most
\* and never on the one it came from, whatever links open, close and restart:
\* no node forwards what it has multicast itself.
THEOREM PacketsHaveNotEchoed == ASSUME OwnLans PROVE Spec => []PacketsDoNotEcho
<1>1. Init => IInv /\ OneWay
  BY TypedInit, OneWayInit
<1>2. IInv /\ OneWay /\ [Next]_vars => (IInv /\ OneWay)'
  BY TypedStep, OneWayStep
<1>3. IInv /\ OneWay => PacketsDoNotEcho
  <2> SUFFICES ASSUME IInv, OneWay, NEW x \in Packet
               PROVE  /\ \A n \in Node : put[n][x] <= 1
                      /\ put[Source[x]][x] = 0
    BY DEF PacketsDoNotEcho
  <2>1. \A n \in Node : put[n][x] = 0 \/ put[n][x] = 1
    BY DEF OneWay, Sent, Passed
  <2>2. put[Source[x]][x] = 0
    BY SourceAssumption DEF OneWay, Sent, Passed
  <2> QED BY <2>1, <2>2
<1> QED BY <1>1, <1>2, <1>3, PTL DEF Spec
=============================================================================
