------------------------ MODULE DiagnosticMeshProofs ------------------------
(***************************************************************************)
(* Proofs about DiagnosticMesh for every number of nodes, every topology   *)
(* and every number of local tasks.                                        *)
(***************************************************************************)
EXTENDS DiagnosticMesh, DiagnosticStateProofs, FiniteSetTheorems, SequenceTheorems, TLAPS

-----------------------------------------------------------------------------
(* What applying a command does to the state of one node. *)

\* What the mesh relies on of a node's state beside its type: the index of
\* applied identifiers is finite, every queued identifier is in it, and each
\* was applied at the one time of the mesh.
Young(s) ==
  /\ IsFiniteSet(DOMAIN s.seen)
  /\ \A id \in DOMAIN s.seen : s.seen[id] = Now

Queued(s) == \A i \in 1..Len(s.order) : s.order[i] \in DOMAIN s.seen

\* Popping from the front of the queue keeps the types.
LEMMA DropOldestTyped ==
  ASSUME NEW s, IsInner(s), Young(s), NEW n \in Nat, NEW r, r = DropOldest(s, n)
  PROVE  /\ IsInner(r) /\ Young(r)
         /\ r.until = s.until /\ r.records = s.records
         /\ DOMAIN r.seen \subseteq DOMAIN s.seen
<1> DEFINE popped == {s.order[i] : i \in 1..n}
           rest == SubSeq(s.order, n + 1, Len(s.order))
           seen == [id \in DOMAIN s.seen \ popped |-> s.seen[id]]
<1>1. Forget(s.seen, popped) = seen
  BY DEF Forget, Restrict
<1>2. r = [until |-> s.until, records |-> s.records, seen |-> seen, order |-> rest]
  BY <1>1 DEF DropOldest, IsInner
<1>3. rest \in Seq(Ids)
  BY DEF IsInner
<1>4. DOMAIN seen \subseteq DOMAIN s.seen
  OBVIOUS
<1>5. seen \in [DOMAIN seen -> Nat] /\ DOMAIN seen \subseteq Ids
  BY DEF IsInner
<1>6. IsFiniteSet(DOMAIN seen) /\ \A id \in DOMAIN seen : seen[id] = Now
  BY <1>4, FS_Subset DEF Young
<1> HIDE DEF seen, rest
<1>7. IsInner(r) /\ Young(r)
  BY <1>2, <1>3, <1>5, <1>6 DEF IsInner, Young
<1> QED BY <1>2, <1>4, <1>7

\* Dropping nothing changes nothing of the index.
LEMMA DropNone ==
  ASSUME NEW s, IsInner(s), NEW r, r = DropOldest(s, 0)
  PROVE  r.seen = s.seen /\ r.order = s.order
<1> DEFINE popped == {s.order[i] : i \in 1..0}
           rest == SubSeq(s.order, 0 + 1, Len(s.order))
           seen == [id \in DOMAIN s.seen \ popped |-> s.seen[id]]
<1>1. Forget(s.seen, popped) = seen
  BY DEF Forget, Restrict
<1>2. r = [until |-> s.until, records |-> s.records, seen |-> seen, order |-> rest]
  BY <1>1 DEF DropOldest, IsInner
<1>3. rest = s.order
  BY DEF IsInner
<1>4. popped = {}
  OBVIOUS
<1>5. seen = s.seen
  BY <1>4 DEF IsInner
<1> QED BY <1>2, <1>3, <1>5

\* Closing the window does not touch the index.
LEMMA CloseFacts ==
  ASSUME NEW s, IsInner(s), Young(s), NEW r, r = CloseExpired(s, Now)
  PROVE  IsInner(r) /\ Young(r) /\ r.seen = s.seen /\ r.order = s.order
<1>1. CASE s.until # None /\ s.until <= Now
  <2>1. r = [until |-> None, records |-> <<>>, seen |-> s.seen, order |-> s.order]
    BY <1>1 DEF CloseExpired, IsInner
  <2>2. r.until = None /\ r.records = <<>> /\ r.seen = s.seen /\ r.order = s.order
    BY <2>1
  <2>3. IsInner(r)
    BY <2>1, <2>2 DEF IsInner
  <2> QED BY <2>2, <2>3 DEF Young
<1>2. CASE ~(s.until # None /\ s.until <= Now)
  BY <1>2 DEF CloseExpired
<1> QED BY <1>1, <1>2

LEMMA PruneTyped ==
  ASSUME NEW s, IsInner(s), Young(s), NEW r, r = Prune(s, Now)
  PROVE  IsInner(r) /\ Young(r) /\ DOMAIN r.seen \subseteq DOMAIN s.seen
<1> DEFINE c == CloseExpired(s, Now)
           n == Cardinality(Forgettable(c, Now))
<1>1. IsInner(c) /\ Young(c) /\ c.seen = s.seen
  BY CloseFacts
<1> HIDE DEF c
<1>2. Len(c.order) \in Nat
  BY <1>1 DEF IsInner
<1>3. IsFiniteSet(1..Len(c.order))
  BY <1>2, FS_Interval
<1>4. Forgettable(c, Now) \subseteq 1..Len(c.order)
  BY DEF Forgettable
<1>5. n \in Nat
  BY <1>3, <1>4, FS_Subset, FS_CardinalityType
<1>6. r = DropOldest(c, n)
  BY DEF Prune, c
<1> HIDE DEF n
<1>7. IsInner(r) /\ Young(r) /\ DOMAIN r.seen \subseteq DOMAIN c.seen
  BY <1>1, <1>5, <1>6, DropOldestTyped
<1> QED BY <1>1, <1>7

\* Nothing is old enough to be forgotten at the time it was applied.
LEMMA PruneForgetsNothing ==
  ASSUME NEW s, IsInner(s), Young(s), Queued(s)
  PROVE  Prune(s, Now).seen = s.seen /\ Prune(s, Now).order = s.order
<1> DEFINE c == CloseExpired(s, Now)
<1>1. IsInner(c) /\ Young(c) /\ c.seen = s.seen /\ c.order = s.order
  BY CloseFacts
<1> HIDE DEF c
<1>2. ASSUME NEW i \in 1..Len(c.order)
      PROVE  i \notin Forgettable(c, Now)
  <2>1. c.order[i] \in DOMAIN c.seen /\ c.seen[c.order[i]] = Now
    BY <1>1 DEF Queued, Young
  <2>2. Remembered(c, c.order[i], Now)
    BY <2>1, RetentionAssumption DEF Remembered, Now
  <2>3. Len(c.order) \in Nat
    BY <1>1 DEF IsInner
  <2>4. i \in 1..i
    BY <2>3
  <2> QED BY <2>2, <2>4 DEF Forgettable
<1>3. Forgettable(c, Now) = {}
  BY <1>2 DEF Forgettable
<1>4. Cardinality({}) = 0
  BY FS_EmptySet
<1>5. Prune(s, Now) = DropOldest(c, 0)
  BY <1>3, <1>4 DEF Prune, c
<1> QED BY <1>1, <1>5, DropNone

LEMMA RememberTyped ==
  ASSUME NEW s, IsInner(s), Young(s), NEW id \in Ids, NEW r, r = Remember(s, id, Now)
  PROVE  /\ IsInner(r) /\ Young(r)
         /\ DOMAIN r.seen = DOMAIN s.seen \cup {id}
         /\ Queued(s) => Queued(r)
<1> DEFINE seen == [i \in DOMAIN s.seen \cup {id} |-> IF i = id THEN Now ELSE s.seen[i]]
           order == Append(s.order, id)
<1>1. r = [until |-> s.until, records |-> s.records, seen |-> seen, order |-> order]
  BY DEF Remember, IsInner
<1>2. /\ order \in Seq(Ids) /\ Len(order) = Len(s.order) + 1 /\ Len(s.order) \in Nat
      /\ \A i \in 1..Len(s.order) : order[i] = s.order[i]
      /\ order[Len(s.order) + 1] = id
  BY DEF IsInner
<1>3. /\ DOMAIN seen = DOMAIN s.seen \cup {id}
      /\ \A i \in DOMAIN seen : seen[i] = Now
  BY DEF Young
<1>4. seen \in [DOMAIN seen -> Nat] /\ DOMAIN seen \subseteq Ids
  BY DEF IsInner, Now
<1>5. IsFiniteSet(DOMAIN seen)
  BY <1>3, FS_AddElement DEF Young
<1> HIDE DEF seen, order
<1>6. IsInner(r) /\ Young(r)
  BY <1>1, <1>2, <1>3, <1>4, <1>5 DEF IsInner, Young
<1>7. ASSUME Queued(s), NEW i \in 1..Len(order)
      PROVE  order[i] \in DOMAIN seen
  <2>1. i \in 1..Len(s.order) \/ i = Len(s.order) + 1
    BY <1>2
  <2> QED BY <1>2, <1>3, <1>7, <2>1 DEF Queued
<1>8. Queued(s) => Queued(r)
  BY <1>1, <1>7 DEF Queued
<1> QED BY <1>1, <1>3, <1>6, <1>8

LEMMA EnforceTyped ==
  ASSUME NEW s, IsInner(s), Young(s), NEW r, r = EnforceSeenBound(s)
  PROVE  IsInner(r) /\ Young(r) /\ DOMAIN r.seen \subseteq DOMAIN s.seen
<1>1. Cardinality(DOMAIN s.seen) \in Nat
  BY FS_CardinalityType DEF Young
<1>2. Excess(s) \in Nat
  BY <1>1, MaxSeenAssumption DEF Excess
<1> QED BY <1>2, DropOldestTyped DEF EnforceSeenBound

LEMMA ObeyTyped ==
  ASSUME NEW s, IsInner(s), NEW c \in Command, NEW r, r = Obey(s, c, Now)
  PROVE  /\ IsInner(r) /\ r.seen = s.seen /\ r.order = s.order
<1> DEFINE end == IF c.action = "enable" THEN Now + c.seconds * TicksPerSecond ELSE None
<1>1. r = [until |-> end, records |-> <<>>, seen |-> s.seen, order |-> s.order]
  BY DEF Obey, IsInner
<1>2. c.seconds \in Nat
  <2>1. c.seconds \in Seconds \cup {0}
    BY DEF Command, Enables, Disables
  <2>2. ASSUME NEW n \in Seconds PROVE n \in Nat
    BY SecondsAssumption
  <2> QED BY <2>1, <2>2
<1>3. end \in Nat \cup {None}
  BY <1>2, TicksAssumption DEF Now
<1> HIDE DEF end
<1> QED BY <1>1, <1>3 DEF IsInner

LEMMA CommandHasId ==
  ASSUME NEW c \in Command
  PROVE  c.id \in Ids /\ c # NoCommand
<1>1. c.id \in Ids
  BY DEF Command, Enables, Disables
<1>2. "action" \in DOMAIN c /\ "action" \notin DOMAIN NoCommand
  BY DEF Command, Enables, Disables, NoCommand
<1> QED BY <1>1, <1>2

\* apply_once keeps a well-formed state.
LEMMA ApplyOnceTyped ==
  ASSUME NEW s, IsInner(s), Young(s), NEW c \in Command, NEW r, r = ApplyOnce(s, c, Now)
  PROVE  /\ IsInner(r) /\ Young(r)
         /\ DOMAIN r.seen \subseteq DOMAIN s.seen \cup {c.id}
<1> DEFINE p == Prune(s, Now)
           m == Remember(p, c.id, Now)
           e == EnforceSeenBound(m)
<1>1. IsInner(p) /\ Young(p) /\ DOMAIN p.seen \subseteq DOMAIN s.seen
  BY PruneTyped
<1>2. r = IF IsNew(s, c, Now) THEN Obey(e, c, Now) ELSE p
  BY DEF ApplyOnce
<1> HIDE DEF p
<1>3. IsInner(m) /\ Young(m) /\ DOMAIN m.seen = DOMAIN p.seen \cup {c.id}
  BY <1>1, CommandHasId, RememberTyped
<1> HIDE DEF m
<1>4. IsInner(e) /\ Young(e) /\ DOMAIN e.seen \subseteq DOMAIN m.seen
  BY <1>3, EnforceTyped
<1> HIDE DEF e
<1>5. CASE IsNew(s, c, Now)
  <2>1. IsInner(r) /\ r.seen = e.seen
    BY <1>2, <1>4, <1>5, ObeyTyped
  <2> QED BY <1>1, <1>3, <1>4, <2>1 DEF Young
<1>6. CASE ~IsNew(s, c, Now)
  BY <1>1, <1>2, <1>6
<1> QED BY <1>5, <1>6

\* With room for every identifier nothing is evicted.
LEMMA NothingEvicted ==
  ASSUME FewCommands, NEW s, IsInner(s), NEW r, r = EnforceSeenBound(s)
  PROVE  r.seen = s.seen /\ r.order = s.order
<1>1. DOMAIN s.seen \subseteq Ids
  BY DEF IsInner
<1>2. /\ Cardinality(DOMAIN s.seen) \in Nat /\ Cardinality(Ids) \in Nat
      /\ Cardinality(DOMAIN s.seen) <= Cardinality(Ids)
  BY <1>1, FS_Subset, FS_CardinalityType DEF FewCommands
<1>3. Excess(s) = 0
  BY <1>2, MaxSeenAssumption DEF Excess, FewCommands
<1> QED BY <1>3, DropNone DEF EnforceSeenBound

\* Evicting from a queue with one entry too many leaves the recent ones.
LEMMA RecentFacts ==
  ASSUME NEW q \in Seq(Ids), NEW l \in Seq(Ids),
         Len(l) <= MaxSeen, Len(q) <= MaxSeen + 1,
         NEW n \in 0..Len(q), Len(l) = Len(q) - n,
         \A i \in 1..Len(l) : l[i] = q[i + n],
         n > 0 => Len(l) = MaxSeen
  PROVE  l = Flood!Recent(q)
<1>1. Len(l) \in Nat /\ Len(q) \in Nat /\ MaxSeen \in Nat
  BY MaxSeenAssumption
<1>2. CASE n = 0
  <2>1. Len(l) = Len(q) /\ \A i \in 1..Len(q) : l[i] = q[i]
    BY <1>1, <1>2
  <2>2. l = q
    BY <2>1
  <2> QED BY <1>1, <2>1, <2>2 DEF Flood!Recent
<1>3. CASE n > 0
  <2>1. Len(l) = MaxSeen /\ n = Len(q) - MaxSeen /\ Len(q) > MaxSeen
    BY <1>1, <1>3
  <2> DEFINE r == SubSeq(q, Len(q) - MaxSeen + 1, Len(q))
  <2>2. /\ r \in Seq(Ids) /\ Len(r) = MaxSeen
        /\ \A i \in 1..MaxSeen : r[i] = q[i + n]
    BY <1>1, <2>1
  <2> HIDE DEF r
  <2>3. l = r
    BY <1>1, <2>1, <2>2
  <2> QED BY <1>1, <2>1, <2>3 DEF Flood!Recent, r
<1> QED BY <1>2, <1>3

\* apply_once calls a command new exactly if its identifier is not in the index,
\* and then adds it at the end of the queue, which keeps the recent ones.
LEMMA ApplyOnceRemembers ==
  ASSUME NEW s, Bounded(s), Young(s), NEW c \in Command, NEW r, r = ApplyOnce(s, c, Now)
  PROVE  /\ Bounded(r)
         /\ IsNew(s, c, Now) <=> c.id \notin DOMAIN s.seen
         /\ r.order = IF c.id \in DOMAIN s.seen THEN s.order
                      ELSE Flood!Recent(Append(s.order, c.id))
         /\ FewCommands => DOMAIN r.seen = DOMAIN s.seen \cup {c.id}
<1> DEFINE p == Prune(s, Now)
           m == Remember(p, c.id, Now)
           e == EnforceSeenBound(m)
<1>1. IsInner(s) /\ Queued(s) /\ Now \in Nat
  BY DEF Bounded, Indexed, Queued, Now
<1>2. p.seen = s.seen /\ p.order = s.order
  BY <1>1, PruneForgetsNothing
<1>3. Bounded(p) /\ Young(p) /\ IsInner(p)
  BY <1>1, PruneBounded, PruneTyped DEF Bounded
<1>4. IsNew(s, c, Now) <=> c.id \notin DOMAIN s.seen
  BY <1>2 DEF IsNew
<1>5. /\ Bounded(r)
      /\ ~IsNew(s, c, Now) => r = p
      /\ IsNew(s, c, Now) => r.order = e.order /\ r.seen = e.seen
  BY <1>1, ApplyOnceFacts
<1> HIDE DEF p
<1>6. CASE IsNew(s, c, Now)
  <2>1. c.id \notin DOMAIN p.seen /\ c.id \in Ids
    BY <1>2, <1>4, <1>6, CommandHasId
  <2>2. /\ IsInner(m) /\ Indexed(m)
        /\ Len(m.order) = Len(p.order) + 1
        /\ \A i \in 1..Len(p.order) : m.order[i] = p.order[i]
        /\ m.order[Len(p.order) + 1] = c.id
    BY <1>1, <1>3, <2>1, RememberFacts DEF Bounded
  <2>3. IsInner(m) /\ Young(m) /\ DOMAIN m.seen = DOMAIN p.seen \cup {c.id}
    BY <1>3, <2>1, RememberTyped
  <2> HIDE DEF m
  <2>4. p.order \in Seq(Ids) /\ m.order \in Seq(Ids) /\ Len(p.order) <= MaxSeen
    BY <1>3, <2>2 DEF Bounded, IsInner
  <2>5. m.order = Append(s.order, c.id)
    BY <1>2, <2>1, <2>2, <2>4
  <2>6. IsInner(e) /\ Len(e.order) <= MaxSeen /\ EvictsExcess(m, e)
    BY <2>2, EnforceSeenBoundFacts
  <2>7. FewCommands => e.seen = m.seen
    BY <2>2, NothingEvicted
  <2> HIDE DEF e
  <2>8. e.order \in Seq(Ids)
    BY <2>6 DEF IsInner
  <2>9. PICK n \in 0..Len(m.order) :
          /\ Len(e.order) = Len(m.order) - n
          /\ \A i \in 1..Len(e.order) : e.order[i] = m.order[i + n]
          /\ n > 0 => Len(e.order) = MaxSeen
    BY <2>6 DEF EvictsExcess
  <2>10. Len(m.order) <= MaxSeen + 1
    BY <2>2, <2>4, MaxSeenAssumption
  <2>11. e.order = Flood!Recent(m.order)
    BY <2>4, <2>6, <2>8, <2>9, <2>10, RecentFacts
  <2> QED BY <1>2, <1>4, <1>5, <1>6, <2>3, <2>5, <2>7, <2>11
<1>7. CASE ~IsNew(s, c, Now)
  <2>1. c.id \in DOMAIN s.seen
    BY <1>4, <1>7
  <2>2. DOMAIN s.seen = DOMAIN s.seen \cup {c.id}
    BY <2>1
  <2> QED BY <1>2, <1>4, <1>5, <1>7, <2>1, <2>2
<1> QED BY <1>6, <1>7

-----------------------------------------------------------------------------
(* Type correctness *)

\* The types, and indexes that hold finitely many identifiers of one time.
IInv == TypeOK /\ \A n \in Node : Young(state[n])

LEMMA StatesTyped ==
  TypeOK <=>
    /\ state = [n \in Node |-> state[n]]
    /\ \A n \in Node : IsInner(state[n])
    /\ outbox \in [Node -> [Tasks -> Command \cup {NoCommand}]]
    /\ net \subseteq Message
    /\ lost \in BOOLEAN
    /\ restarts \in Nat
    /\ ever \in [Node -> SUBSET Ids]
BY DEF TypeOK

LEMMA EmptyTyped ==
  /\ IsInner(Empty) /\ Young(Empty) /\ Bounded(Empty)
  /\ DOMAIN Empty.seen = {} /\ Empty.order = <<>>
<1>1. /\ Empty.until = None /\ Empty.records = <<>>
      /\ Empty.seen = <<>> /\ Empty.order = <<>>
  BY DEF Empty
<1>2. DOMAIN Empty.seen = {}
  BY <1>1
<1>3. IsInner(Empty)
  BY <1>1, <1>2 DEF IsInner, Empty
<1>4. Young(Empty)
  BY <1>2, FS_EmptySet DEF Young
<1>5. Indexed(Empty) /\ Len(Empty.order) = 0
  BY <1>1, <1>2 DEF Indexed
<1>6. Bounded(Empty)
  BY <1>3, <1>5, MaxSeenAssumption DEF Bounded
<1> QED BY <1>1, <1>2, <1>3, <1>4, <1>6

\* Applying a command changes the state of one node and keeps it well-formed.
LEMMA ApplyAtTyped ==
  ASSUME IInv, NEW n \in Node, NEW t \in Tasks, NEW c \in Command,
         NEW toSend \in BOOLEAN, ApplyAt(n, t, c, toSend)
  PROVE  /\ state' = [state EXCEPT ![n] = ApplyOnce(state[n], c, Now)]
         /\ state' = [m \in Node |-> state'[m]]
         /\ \A m \in Node : IsInner(state'[m]) /\ Young(state'[m])
         /\ outbox' \in [Node -> [Tasks -> Command \cup {NoCommand}]]
         /\ ever' \in [Node -> SUBSET Ids]
         /\ restarts' = restarts
<1>1. /\ state = [m \in Node |-> state[m]]
      /\ \A m \in Node : IsInner(state[m]) /\ Young(state[m])
      /\ outbox \in [Node -> [Tasks -> Command \cup {NoCommand}]]
      /\ ever \in [Node -> SUBSET Ids]
  BY StatesTyped DEF IInv
<1>2. state' = [state EXCEPT ![n] = ApplyOnce(state[n], c, Now)]
  BY DEF ApplyAt
<1>3. state' = [m \in Node |-> state'[m]]
  BY <1>1, <1>2
<1>4. IsInner(ApplyOnce(state[n], c, Now)) /\ Young(ApplyOnce(state[n], c, Now))
  BY <1>1, ApplyOnceTyped
<1>5. \A m \in Node : state'[m] = IF m = n THEN ApplyOnce(state[n], c, Now) ELSE state[m]
  BY <1>1, <1>2
<1>6. \A m \in Node : IsInner(state'[m]) /\ Young(state'[m])
  BY <1>1, <1>4, <1>5
<1>7. outbox' \in [Node -> [Tasks -> Command \cup {NoCommand}]]
  BY <1>1 DEF ApplyAt
<1>8. ever' \in [Node -> SUBSET Ids]
  BY <1>1, CommandHasId DEF ApplyAt
<1> QED BY <1>2, <1>3, <1>6, <1>7, <1>8 DEF ApplyAt

LEMMA TasksFacts == MeshTask \in Tasks /\ LocalTask \subseteq Tasks
BY DEF Tasks

LEMMA TypedStep == IInv /\ [Next]_vars => IInv'
<1> SUFFICES ASSUME IInv, [Next]_vars PROVE IInv'
  OBVIOUS
<1>1. /\ state = [m \in Node |-> state[m]]
      /\ \A m \in Node : IsInner(state[m]) /\ Young(state[m])
      /\ outbox \in [Node -> [Tasks -> Command \cup {NoCommand}]]
      /\ net \subseteq Message
      /\ lost \in BOOLEAN /\ restarts \in Nat
      /\ ever \in [Node -> SUBSET Ids]
  BY StatesTyped DEF IInv
<1> DEFINE Goal ==
      /\ state' = [m \in Node |-> state'[m]]
      /\ \A m \in Node : IsInner(state'[m]) /\ Young(state'[m])
      /\ outbox' \in [Node -> [Tasks -> Command \cup {NoCommand}]]
      /\ net' \subseteq Message
      /\ lost' \in BOOLEAN /\ restarts' \in Nat
      /\ ever' \in [Node -> SUBSET Ids]
<1>2. SUFFICES Goal
  BY DEF IInv, TypeOK
<1>3. ASSUME NEW n \in Node, NEW t \in LocalTask, NEW c \in Command, Request(n, t, c)
      PROVE  Goal
  <2>1. ApplyAt(n, t, c, TRUE) /\ t \in Tasks /\ net' = net /\ lost' = lost
    BY <1>3, TasksFacts DEF Request
  <2> QED BY <1>1, <2>1, ApplyAtTyped
<1>4. ASSUME NEW n \in Node, NEW m \in net, Receive(n, m)
      PROVE  Goal
  <2>1. m.command \in Command
    BY <1>1 DEF Message
  <2>2. /\ ApplyAt(n, MeshTask, m.command, IsNew(state[n], m.command, Now))
        /\ net' \subseteq net /\ lost' = lost
    BY <1>4 DEF Receive
  <2>3. IsNew(state[n], m.command, Now) \in BOOLEAN
    BY DEF IsNew
  <2> QED BY <1>1, <2>1, <2>2, <2>3, ApplyAtTyped, TasksFacts
<1>5. ASSUME NEW n \in Node, NEW t \in Tasks, Send(n, t)
      PROVE  Goal
  <2>1. outbox[n][t] \in Command
    BY <1>1, <1>5 DEF Send
  <2>2. \A e \in Edges : e[2] \in Node
    BY EdgesAssumption
  <2>3. net' \subseteq Message
    BY <1>1, <1>5, <2>1, <2>2 DEF Send, Message
  <2>4. outbox' \in [Node -> [Tasks -> Command \cup {NoCommand}]]
    BY <1>1, <1>5 DEF Send
  <2> QED BY <1>1, <1>5, <2>3, <2>4 DEF Send
<1>6. ASSUME NEW n \in Node, Restart(n)
      PROVE  Goal
  <2>1. state' = [state EXCEPT ![n] = Empty]
    BY <1>6 DEF Restart
  <2>2. \A m \in Node : IsInner(state'[m]) /\ Young(state'[m])
    BY <1>1, <2>1, EmptyTyped
  <2>3. outbox' \in [Node -> [Tasks -> Command \cup {NoCommand}]]
    BY <1>1, <1>6 DEF Restart
  <2> QED BY <1>1, <1>6, <2>1, <2>2, <2>3 DEF Restart
<1>7. ASSUME NEW m \in net, Lose(m)
      PROVE  Goal
  BY <1>1, <1>7 DEF Lose
<1>8. CASE UNCHANGED vars
  BY <1>1, <1>8 DEF vars
<1> QED BY <1>3, <1>4, <1>5, <1>6, <1>7, <1>8 DEF Next

LEMMA TypedInit == Init => IInv
<1> SUFFICES ASSUME Init PROVE IInv
  OBVIOUS
<1>1. \A n \in Node : state[n] = Empty
  BY DEF Init
<1>2. \A n \in Node : IsInner(state[n]) /\ Young(state[n])
  BY <1>1, EmptyTyped
<1> QED BY <1>2 DEF Init, IInv, TypeOK

\* Every node holds a well-formed diagnostic state, whatever the mesh, the
\* number of commands and the size of the index.
THEOREM MeshTyped == Spec => []TypeOK
<1>1. IInv => TypeOK
  BY DEF IInv
<1> QED BY <1>1, TypedInit, TypedStep, PTL DEF Spec

-----------------------------------------------------------------------------
(* The mesh implements the flood. *)

\* The index of a node agrees with its queue and is within its bound; what a
\* node remembers or is about to send it has applied, and what is in flight was
\* applied by a neighbour of the receiver.
Sourced ==
  /\ \A n \in Node :
       /\ Bounded(state[n])
       /\ DOMAIN state[n].seen \subseteq ever[n]
       /\ \A t \in Tasks : outbox[n][t] # NoCommand => outbox[n][t].id \in ever[n]
  /\ \A m \in net : <<m.from, m.to>> \in Edges /\ m.command.id \in ever[m.from]

SInv == IInv /\ Sourced

\* What the flood sees of applying a command: the node adds its identifier to
\* what it has ever applied and, if it is not in the index, to the queue.
LEMMA ApplyAtFacts ==
  ASSUME SInv, NEW n \in Node, NEW t \in Tasks, NEW c \in Command,
         NEW toSend \in BOOLEAN, ApplyAt(n, t, c, toSend)
  PROVE  /\ IsNew(state[n], c, Now) <=> c.id \notin DOMAIN state[n].seen
         /\ \A m \in Node :
              /\ Bounded(state'[m])
              /\ m # n => state'[m] = state[m]
              /\ DOMAIN state'[m].seen \subseteq DOMAIN state[m].seen \cup {c.id}
              /\ m = n /\ FewCommands =>
                   DOMAIN state'[m].seen = DOMAIN state[m].seen \cup {c.id}
         /\ state'[n].order = IF c.id \in DOMAIN state[n].seen THEN state[n].order
                              ELSE Flood!Recent(Append(state[n].order, c.id))
         /\ ever' = [ever EXCEPT ![n] = @ \cup {c.id}]
         /\ \A m \in Node, u \in Tasks :
              outbox'[m][u] = IF m = n /\ u = t /\ toSend THEN c ELSE outbox[m][u]
<1> DEFINE r == ApplyOnce(state[n], c, Now)
<1>1. /\ state = [m \in Node |-> state[m]]
      /\ \A m \in Node : IsInner(state[m]) /\ Young(state[m]) /\ Bounded(state[m])
      /\ outbox \in [Node -> [Tasks -> Command \cup {NoCommand}]]
      /\ ever \in [Node -> SUBSET Ids]
  BY StatesTyped DEF SInv, IInv, Sourced
<1>2. /\ IsNew(state[n], c, Now) <=> c.id \notin DOMAIN state[n].seen
      /\ r.order = IF c.id \in DOMAIN state[n].seen THEN state[n].order
                   ELSE Flood!Recent(Append(state[n].order, c.id))
      /\ Bounded(r)
      /\ FewCommands => DOMAIN r.seen = DOMAIN state[n].seen \cup {c.id}
  BY <1>1, ApplyOnceRemembers
<1>3. DOMAIN r.seen \subseteq DOMAIN state[n].seen \cup {c.id}
  BY <1>1, ApplyOnceTyped
<1>4. state' = [state EXCEPT ![n] = r]
  BY DEF ApplyAt
<1> HIDE DEF r
<1>5. \A m \in Node : state'[m] = IF m = n THEN r ELSE state[m]
  BY <1>1, <1>4
<1>6. \A m \in Node :
        /\ Bounded(state'[m])
        /\ m # n => state'[m] = state[m]
        /\ DOMAIN state'[m].seen \subseteq DOMAIN state[m].seen \cup {c.id}
        /\ m = n /\ FewCommands =>
             DOMAIN state'[m].seen = DOMAIN state[m].seen \cup {c.id}
  BY <1>1, <1>2, <1>3, <1>5
<1>7. ever' = [ever EXCEPT ![n] = ever[n] \cup {c.id}]
  <2>1. CASE IsNew(state[n], c, Now)
    BY <2>1 DEF ApplyAt
  <2>2. CASE ~IsNew(state[n], c, Now)
    <3>1. c.id \in ever[n]
      BY <1>2, <2>2 DEF SInv, Sourced
    <3>2. ever' = ever
      BY <2>2 DEF ApplyAt
    <3>3. ever[n] \cup {c.id} = ever[n]
      BY <3>1
    <3>4. [ever EXCEPT ![n] = ever[n]] = ever
      BY <1>1
    <3> QED BY <3>2, <3>3, <3>4
  <2> QED BY <2>1, <2>2
<1>8. \A m \in Node, u \in Tasks :
        outbox'[m][u] = IF m = n /\ u = t /\ toSend THEN c ELSE outbox[m][u]
  BY <1>1 DEF ApplyAt
<1>9. state'[n].order = r.order
  BY <1>5
<1> QED BY <1>2, <1>6, <1>7, <1>8, <1>9

LEMMA SourcedInit == Init => Sourced
<1> SUFFICES ASSUME Init PROVE Sourced
  OBVIOUS
<1>1. \A n \in Node : state[n] = Empty
  BY DEF Init
<1>2. \A n \in Node, t \in Tasks : outbox[n][t] = NoCommand
  BY DEF Init
<1> QED BY <1>1, <1>2, EmptyTyped DEF Init, Sourced

LEMMA SourcedStep == SInv /\ [Next]_vars => Sourced'
<1> SUFFICES ASSUME SInv, [Next]_vars PROVE Sourced'
  OBVIOUS
<1>1. /\ state = [m \in Node |-> state[m]]
      /\ outbox \in [Node -> [Tasks -> Command \cup {NoCommand}]]
      /\ net \subseteq Message
      /\ ever \in [Node -> SUBSET Ids]
  BY StatesTyped DEF SInv, IInv
<1>2. /\ \A n \in Node :
           /\ Bounded(state[n])
           /\ DOMAIN state[n].seen \subseteq ever[n]
           /\ \A t \in Tasks : outbox[n][t] # NoCommand => outbox[n][t].id \in ever[n]
      /\ \A m \in net : <<m.from, m.to>> \in Edges /\ m.command.id \in ever[m.from]
  BY DEF SInv, Sourced
<1>3. ASSUME NEW n \in Node, NEW t \in Tasks, NEW c \in Command, NEW toSend \in BOOLEAN,
             ApplyAt(n, t, c, toSend), net' \subseteq net
      PROVE  Sourced'
  <2>1. /\ \A m \in Node :
             /\ Bounded(state'[m])
             /\ m # n => state'[m] = state[m]
             /\ DOMAIN state'[m].seen \subseteq DOMAIN state[m].seen \cup {c.id}
        /\ ever' = [ever EXCEPT ![n] = @ \cup {c.id}]
        /\ \A m \in Node, u \in Tasks :
             outbox'[m][u] = IF m = n /\ u = t /\ toSend THEN c ELSE outbox[m][u]
    BY <1>3, ApplyAtFacts
  <2>2. \A m \in Node : ever'[m] = IF m = n THEN ever[n] \cup {c.id} ELSE ever[m]
    BY <1>1, <2>1
  <2>3. ASSUME NEW m \in Node
        PROVE  /\ DOMAIN state'[m].seen \subseteq ever'[m]
               /\ \A u \in Tasks : outbox'[m][u] # NoCommand => outbox'[m][u].id \in ever'[m]
    BY <1>2, <2>1, <2>2
  <2>4. ASSUME NEW m \in net'
        PROVE  <<m.from, m.to>> \in Edges /\ m.command.id \in ever'[m.from]
    <3>1. m \in net /\ m.from \in Node
      BY <1>1, <1>3 DEF Message
    <3> QED BY <1>2, <2>2, <3>1
  <2> QED BY <2>1, <2>3, <2>4 DEF Sourced
<1>4. ASSUME NEW n \in Node, NEW t \in LocalTask, NEW c \in Command, Request(n, t, c)
      PROVE  Sourced'
  BY <1>3, <1>4, TasksFacts DEF Request
<1>5. ASSUME NEW n \in Node, NEW m \in net, Receive(n, m)
      PROVE  Sourced'
  <2>1. m.command \in Command
    BY <1>1 DEF Message
  <2>2. IsNew(state[n], m.command, Now) \in BOOLEAN
    BY DEF IsNew
  <2>3. ApplyAt(n, MeshTask, m.command, IsNew(state[n], m.command, Now)) /\ net' \subseteq net
    BY <1>5 DEF Receive
  <2> QED BY <1>3, <2>1, <2>2, <2>3, TasksFacts
<1>6. ASSUME NEW n \in Node, NEW t \in Tasks, Send(n, t)
      PROVE  Sourced'
  <2>1. outbox[n][t].id \in ever[n]
    BY <1>2, <1>6 DEF Send
  <2>2. ASSUME NEW m \in net'
        PROVE  <<m.from, m.to>> \in Edges /\ m.command.id \in ever[m.from]
    <3>1. CASE m \in net
      BY <1>2, <3>1
    <3>2. CASE m \notin net
      <4>1. PICK e \in Edges :
              e[1] = n /\ m = [from |-> n, to |-> e[2], command |-> outbox[n][t]]
        BY <1>6, <3>2 DEF Send
      <4>2. e = <<e[1], e[2]>>
        BY EdgesAssumption
      <4>3. m.from = n /\ m.to = e[2] /\ m.command = outbox[n][t]
        BY <4>1
      <4> QED BY <2>1, <4>1, <4>2, <4>3
    <3> QED BY <3>1, <3>2
  <2>3. \A k \in Node, u \in Tasks :
          outbox'[k][u] = IF k = n /\ u = t THEN NoCommand ELSE outbox[k][u]
    BY <1>1, <1>6 DEF Send
  <2>4. state' = state /\ ever' = ever
    BY <1>6 DEF Send
  <2> QED BY <1>2, <2>2, <2>3, <2>4 DEF Sourced
<1>7. ASSUME NEW n \in Node, Restart(n)
      PROVE  Sourced'
  <2>1. \A k \in Node : state'[k] = IF k = n THEN Empty ELSE state[k]
    BY <1>1, <1>7 DEF Restart
  <2>2. \A k \in Node, u \in Tasks :
          outbox'[k][u] = IF k = n THEN NoCommand ELSE outbox[k][u]
    BY <1>1, <1>7 DEF Restart
  <2>3. net' = net /\ ever' = ever
    BY <1>7 DEF Restart
  <2> QED BY <1>2, <2>1, <2>2, <2>3, EmptyTyped DEF Sourced
<1>8. ASSUME NEW m \in net, Lose(m)
      PROVE  Sourced'
  BY <1>2, <1>8 DEF Lose, Sourced
<1>9. CASE UNCHANGED vars
  BY <1>2, <1>9 DEF vars, Sourced
<1> QED BY <1>4, <1>5, <1>6, <1>7, <1>8, <1>9 DEF Next

LEMMA FloodInit == Init => Flood!Init
<1> SUFFICES ASSUME Init PROVE Flood!Init
  OBVIOUS
<1>1. \A n \in Node : state[n].order = <<>>
  BY EmptyTyped DEF Init
<1> QED BY <1>1 DEF Init, Flood!Init

\* Every step of the mesh is one of the flood, or does not show in it.
LEMMA FloodStep == SInv /\ [Next]_vars => [Flood!Next]_(Flood!vars)
<1> DEFINE memory == [k \in Node |-> state[k].order]
<1> SUFFICES ASSUME SInv, [Next]_vars
             PROVE  Flood!Next \/ (memory' = memory /\ ever' = ever)
  BY DEF Flood!vars
<1>1. /\ state = [m \in Node |-> state[m]]
      /\ net \subseteq Message
      /\ ever \in [Node -> SUBSET Ids]
  BY StatesTyped DEF SInv, IInv
<1>2. /\ \A n \in Node : Bounded(state[n]) /\ DOMAIN state[n].seen \subseteq ever[n]
      /\ \A m \in net : <<m.from, m.to>> \in Edges /\ m.command.id \in ever[m.from]
  BY DEF SInv, Sourced
<1>3. ASSUME NEW n \in Node, NEW t \in Tasks, NEW c \in Command, NEW toSend \in BOOLEAN,
             ApplyAt(n, t, c, toSend)
      PROVE  IF c.id \in DOMAIN state[n].seen THEN memory' = memory /\ ever' = ever
                                              ELSE Flood!Learn(n, c.id)
  <2> DEFINE known == c.id \in DOMAIN state[n].seen
             order == IF known THEN state[n].order
                      ELSE Flood!Recent(Append(state[n].order, c.id))
  <2>1. /\ \A m \in Node : m # n => state'[m] = state[m]
        /\ state'[n].order = order
        /\ ever' = [ever EXCEPT ![n] = @ \cup {c.id}]
    BY <1>3, ApplyAtFacts
  <2>2. memory' = [memory EXCEPT ![n] = order]
    <3>1. \A m \in Node : state'[m].order = IF m = n THEN order ELSE state[m].order
      BY <2>1
    <3> HIDE DEF order
    <3> QED BY <3>1
  <2>3. CASE known
    <3>1. c.id \in ever[n]
      BY <1>2, <2>3
    <3>2. ever' = ever
      BY <1>1, <2>1, <3>1
    <3>3. memory' = memory
      BY <2>2, <2>3
    <3> QED BY <2>3, <3>2, <3>3
  <2>4. CASE ~known
    <3>1. \A i \in 1..Len(memory[n]) : memory[n][i] # c.id
      BY <1>2, <2>4 DEF Bounded, Indexed
    <3>2. memory' = [memory EXCEPT ![n] = Flood!Recent(Append(@, c.id))]
      BY <2>2, <2>4
    <3> QED BY <2>1, <2>4, <3>1, <3>2 DEF Flood!Learn
  <2> QED BY <2>3, <2>4
<1>4. ASSUME NEW n \in Node, NEW t \in LocalTask, NEW c \in Command, Request(n, t, c)
      PROVE  Flood!Next
  <2>1. \A m \in Node : c.id \notin ever[m]
    BY <1>4 DEF Request, Issued
  <2>2. c.id \notin DOMAIN state[n].seen
    BY <1>2, <2>1
  <2>3. Flood!Learn(n, c.id)
    BY <1>3, <1>4, <2>2, TasksFacts DEF Request
  <2> QED BY <2>1, <2>3, CommandHasId DEF Flood!Next, Flood!Issue
<1>5. ASSUME NEW n \in Node, NEW m \in net, Receive(n, m)
      PROVE  Flood!Next \/ (memory' = memory /\ ever' = ever)
  <2>1. m.command \in Command /\ m.from \in Node /\ m.to = n
    BY <1>1, <1>5 DEF Message, Receive
  <2>2. IsNew(state[n], m.command, Now) \in BOOLEAN
    BY DEF IsNew
  <2>3. ApplyAt(n, MeshTask, m.command, IsNew(state[n], m.command, Now))
    BY <1>5 DEF Receive
  <2>4. (memory' = memory /\ ever' = ever) \/ Flood!Learn(n, m.command.id)
    BY <1>3, <2>1, <2>2, <2>3, TasksFacts
  <2>5. <<m.from, n>> \in Edges /\ m.command.id \in ever[m.from]
    BY <1>2, <2>1
  <2> HIDE DEF memory
  <2>6. CASE Flood!Learn(n, m.command.id)
    <3>1. Flood!Hear(n, m.command.id)
      BY <2>1, <2>5, <2>6 DEF Flood!Hear
    <3> QED BY <2>1, <3>1, CommandHasId DEF Flood!Next
  <2> QED BY <2>4, <2>6
<1>6. ASSUME NEW n \in Node, NEW t \in Tasks, Send(n, t)
      PROVE  memory' = memory /\ ever' = ever
  BY <1>6 DEF Send
<1>7. ASSUME NEW n \in Node, Restart(n)
      PROVE  Flood!Next
  <2>1. \A k \in Node : state'[k] = IF k = n THEN Empty ELSE state[k]
    BY <1>1, <1>7 DEF Restart
  <2>2. memory' = [memory EXCEPT ![n] = <<>>]
    BY <2>1, EmptyTyped
  <2>3. Flood!Restart(n)
    BY <1>7, <2>2 DEF Flood!Restart, Restart
  <2> QED BY <2>3 DEF Flood!Next
<1>8. ASSUME NEW m \in net, Lose(m)
      PROVE  memory' = memory /\ ever' = ever
  BY <1>8 DEF Lose
<1>9. CASE UNCHANGED vars
  BY <1>9 DEF vars
<1> HIDE DEF memory
<1> QED BY <1>4, <1>5, <1>6, <1>7, <1>8, <1>9 DEF Next

LEMMA SourcedAlways == Spec => []SInv
<1>1. Init => SInv
  BY TypedInit, SourcedInit DEF SInv
<1>2. SInv /\ [Next]_vars => SInv'
  BY TypedStep, SourcedStep DEF SInv
<1> QED BY <1>1, <1>2, PTL DEF Spec

\* A node applies only what was issued at it or what a neighbour has applied,
\* never an identifier it remembers, and it remembers the last max_seen_commands
\* it applied since its process started: whatever the number of commands and the
\* size of the index.
THEOREM MeshImplementsFlood == Spec => ImplementsFlood
<1>1. SInv /\ [Next]_vars => [Flood!Next]_(Flood!vars)
  BY FloodStep
<1> QED BY <1>1, FloodInit, SourcedAlways, PTL DEF Spec, ImplementsFlood, Flood!Spec

-----------------------------------------------------------------------------
(* When the mesh is quiet its nodes agree. *)

\* Some copy of id has yet to travel from the first to the second node of e.
Travelling(e, id) ==
  \/ \E m \in net : m.to = e[2] /\ m.command.id = id
  \/ \E t \in Tasks : outbox[e[1]][t] # NoCommand /\ outbox[e[1]][t].id = id

\* Along every link an identifier the sender has applied has arrived or is on
\* its way, unless a message was lost or a process restarted.
AllRelayed ==
  \A e \in Edges : \A id \in ever[e[1]] : id \in ever[e[2]] \/ Travelling(e, id)

Relayed == ~lost /\ restarts = 0 => AllRelayed

LEMMA EdgeFacts == \A e \in Edges : e[1] \in Node /\ e[2] \in Node /\ e = <<e[1], e[2]>>
BY EdgesAssumption

LEMMA RelayedInit == Init => Relayed
<1>1. ASSUME Init, NEW n \in Node PROVE ever[n] = {}
  BY <1>1 DEF Init
<1> QED BY <1>1, EdgeFacts DEF Relayed, AllRelayed

\* What a node has not sent on before, it goes on to send when it applies it.
LEMMA RelayedApply ==
  ASSUME SInv, AllRelayed,
         NEW n \in Node, NEW t \in Tasks, NEW c \in Command, NEW toSend \in BOOLEAN,
         ApplyAt(n, t, c, toSend),
         c.id \notin ever[n] => toSend,
         \A m \in net \ net' : m.to = n /\ m.command.id = c.id
  PROVE  AllRelayed'
<1>1. ever \in [Node -> SUBSET Ids]
  BY StatesTyped DEF SInv, IInv
<1>2. /\ ever' = [ever EXCEPT ![n] = @ \cup {c.id}]
      /\ \A m \in Node, u \in Tasks :
           outbox'[m][u] = IF m = n /\ u = t /\ toSend THEN c ELSE outbox[m][u]
  BY ApplyAtFacts
<1>3. \A m \in Node : ever'[m] = IF m = n THEN ever[n] \cup {c.id} ELSE ever[m]
  BY <1>1, <1>2
<1>4. outbox[n][t] = NoCommand
  BY DEF ApplyAt
<1>5. ASSUME NEW e \in Edges, NEW id \in ever'[e[1]], id \notin ever'[e[2]]
      PROVE  Travelling(e, id)'
  <2>1. e[1] \in Node /\ e[2] \in Node
    BY EdgeFacts
  <2>2. CASE id \in ever[e[1]]
    <3>1. id \notin ever[e[2]]
      BY <1>3, <1>5, <2>1
    <3>2. Travelling(e, id)
      BY <2>2, <3>1 DEF AllRelayed
    <3>3. ASSUME NEW m \in net, m.to = e[2], m.command.id = id
          PROVE  m \in net'
      BY <1>3, <1>5, <2>1, <3>3
    <3>4. ASSUME NEW u \in Tasks, outbox[e[1]][u] # NoCommand, outbox[e[1]][u].id = id
          PROVE  outbox'[e[1]][u] = outbox[e[1]][u]
      BY <1>2, <1>4, <2>1, <3>4
    <3> QED BY <3>2, <3>3, <3>4 DEF Travelling
  <2>3. CASE id \notin ever[e[1]]
    <3>1. e[1] = n /\ id = c.id /\ toSend
      BY <1>3, <1>5, <2>1, <2>3
    <3>2. outbox'[e[1]][t] = c
      BY <1>2, <3>1
    <3> QED BY <3>1, <3>2, CommandHasId DEF Travelling
  <2> QED BY <2>2, <2>3
<1> QED BY <1>5 DEF AllRelayed

\* Sending turns what waits at a node into a message on each of its links.
LEMMA RelayedSend ==
  ASSUME SInv, AllRelayed, NEW n \in Node, NEW t \in Tasks, Send(n, t)
  PROVE  AllRelayed'
<1>1. outbox \in [Node -> [Tasks -> Command \cup {NoCommand}]]
  BY StatesTyped DEF SInv, IInv
<1>2. /\ outbox[n][t] # NoCommand /\ state' = state /\ ever' = ever
      /\ net' = net \cup {[from |-> n, to |-> e[2], command |-> outbox[n][t]] :
                           e \in {e \in Edges : e[1] = n}}
  BY DEF Send
<1>3. \A k \in Node, u \in Tasks :
        outbox'[k][u] = IF k = n /\ u = t THEN NoCommand ELSE outbox[k][u]
  BY <1>1 DEF Send
<1>4. ASSUME NEW e \in Edges, NEW id \in ever'[e[1]], id \notin ever'[e[2]]
      PROVE  Travelling(e, id)'
  <2>1. Travelling(e, id)
    BY <1>2, <1>4 DEF AllRelayed
  <2>2. ASSUME NEW u \in Tasks, outbox[e[1]][u] # NoCommand, outbox[e[1]][u].id = id
        PROVE  Travelling(e, id)'
    <3>1. CASE e[1] = n /\ u = t
      <4> DEFINE m == [from |-> n, to |-> e[2], command |-> outbox[n][t]]
      <4>1. m \in net' /\ m.to = e[2] /\ m.command.id = id
        BY <1>2, <2>2, <3>1
      <4> QED BY <4>1 DEF Travelling
    <3>2. CASE ~(e[1] = n /\ u = t)
      BY <1>3, <2>2, <3>2, EdgeFacts DEF Travelling
    <3> QED BY <3>1, <3>2
  <2>3. ASSUME NEW m \in net, m.to = e[2], m.command.id = id
        PROVE  Travelling(e, id)'
    <3>1. m \in net'
      BY <1>2
    <3> QED BY <2>3, <3>1 DEF Travelling
  <2> QED BY <2>1, <2>2, <2>3 DEF Travelling
<1> QED BY <1>4 DEF AllRelayed

LEMMA RelayedStep == SInv /\ Relayed /\ [Next]_vars => Relayed'
<1> SUFFICES ASSUME SInv, Relayed, [Next]_vars PROVE Relayed'
  OBVIOUS
<1>1. net \subseteq Message /\ lost \in BOOLEAN /\ restarts \in Nat
  BY StatesTyped DEF SInv, IInv
<1>2. ASSUME NEW n \in Node, NEW t \in LocalTask, NEW c \in Command, Request(n, t, c)
      PROVE  Relayed'
  <2>1. ApplyAt(n, t, c, TRUE) /\ net' = net /\ lost' = lost
    BY <1>2 DEF Request
  <2>2. t \in Tasks /\ restarts' = restarts /\ net \ net' = {}
    BY <2>1, TasksFacts DEF ApplyAt
  <2>3. AllRelayed => AllRelayed'
    BY <2>1, <2>2, RelayedApply
  <2> QED BY <2>1, <2>2, <2>3 DEF Relayed
<1>3. ASSUME NEW n \in Node, NEW m \in net, Receive(n, m)
      PROVE  Relayed'
  <2> DEFINE c == m.command
             new == IsNew(state[n], c, Now)
  <2>1. c \in Command /\ m.to = n
    BY <1>1, <1>3 DEF Message, Receive
  <2>2. new \in BOOLEAN
    BY DEF IsNew
  <2>3. ApplyAt(n, MeshTask, c, new) /\ lost' = lost
    BY <1>3 DEF Receive
  <2>4. restarts' = restarts
    BY <2>3 DEF ApplyAt
  <2>5. \A k \in net \ net' : k.to = n /\ k.command.id = c.id
    BY <1>3, <2>1 DEF Receive
  <2>6. c.id \notin ever[n] => new
    <3>1. IsInner(state[n]) /\ Young(state[n])
      BY StatesTyped DEF SInv, IInv
    <3>2. DOMAIN Prune(state[n], Now).seen \subseteq DOMAIN state[n].seen
      BY <3>1, PruneTyped
    <3> QED BY <3>2 DEF SInv, Sourced, IsNew
  <2> HIDE DEF c, new
  <2>7. AllRelayed => AllRelayed'
    BY <2>1, <2>2, <2>3, <2>5, <2>6, TasksFacts, RelayedApply
  <2> QED BY <2>3, <2>4, <2>7 DEF Relayed
<1>4. ASSUME NEW n \in Node, NEW t \in Tasks, Send(n, t)
      PROVE  Relayed'
  <2>1. lost' = lost /\ restarts' = restarts
    BY <1>4 DEF Send
  <2> QED BY <1>4, <2>1, RelayedSend DEF Relayed
<1>5. ASSUME NEW n \in Node, Restart(n)
      PROVE  Relayed'
  BY <1>1, <1>5 DEF Restart, Relayed
<1>6. ASSUME NEW m \in net, Lose(m)
      PROVE  Relayed'
  BY <1>6 DEF Lose, Relayed
<1>7. CASE UNCHANGED vars
  BY <1>7 DEF vars, Relayed, AllRelayed, Travelling
<1> QED BY <1>2, <1>3, <1>4, <1>5, <1>6, <1>7 DEF Next

\* Every node can reach every other: no set of nodes, but none and all of them,
\* keeps what it sends to itself.
Connected ==
  \A S \in SUBSET Node :
    S # {} /\ (\A e \in Edges : e[1] \in S => e[2] \in S) => S = Node

\* With room for every identifier no node forgets one before its process stops.
RemembersStep ==
  \A n \in Node : Restart(n) \/ DOMAIN state[n].seen \subseteq DOMAIN state'[n].seen

LEMMA Remembers == FewCommands /\ SInv /\ [Next]_vars => RemembersStep
<1> SUFFICES ASSUME FewCommands, SInv, [Next]_vars, NEW k \in Node
             PROVE  Restart(k) \/ DOMAIN state[k].seen \subseteq DOMAIN state'[k].seen
  BY DEF RemembersStep
<1>1. state = [m \in Node |-> state[m]] /\ net \subseteq Message
  BY StatesTyped DEF SInv, IInv
<1>2. ASSUME NEW n \in Node, NEW t \in Tasks, NEW c \in Command, NEW toSend \in BOOLEAN,
             ApplyAt(n, t, c, toSend)
      PROVE  DOMAIN state[k].seen \subseteq DOMAIN state'[k].seen
  <2>1. /\ k # n => state'[k] = state[k]
        /\ k = n => DOMAIN state'[k].seen = DOMAIN state[k].seen \cup {c.id}
    BY <1>2, ApplyAtFacts
  <2> QED BY <2>1
<1>3. ASSUME NEW n \in Node, NEW t \in LocalTask, NEW c \in Command, Request(n, t, c)
      PROVE  DOMAIN state[k].seen \subseteq DOMAIN state'[k].seen
  BY <1>2, <1>3, TasksFacts DEF Request
<1>4. ASSUME NEW n \in Node, NEW m \in net, Receive(n, m)
      PROVE  DOMAIN state[k].seen \subseteq DOMAIN state'[k].seen
  <2>1. m.command \in Command /\ IsNew(state[n], m.command, Now) \in BOOLEAN
    BY <1>1 DEF Message, IsNew
  <2>2. ApplyAt(n, MeshTask, m.command, IsNew(state[n], m.command, Now))
    BY <1>4 DEF Receive
  <2> QED BY <1>2, <2>1, <2>2, TasksFacts
<1>5. ASSUME NEW n \in Node, Restart(n), n # k
      PROVE  state'[k] = state[k]
  BY <1>1, <1>5 DEF Restart
<1>6. ASSUME \/ UNCHANGED vars
             \/ \E n \in Node, t \in Tasks : Send(n, t)
             \/ \E m \in net : Lose(m)
      PROVE  state' = state
  BY <1>6 DEF vars, Send, Lose
<1> QED BY <1>3, <1>4, <1>5, <1>6 DEF Next

\* While no process has restarted, a node with room for every identifier
\* remembers all it has applied.
Kept == FewCommands /\ restarts = 0 => \A n \in Node : ever[n] \subseteq DOMAIN state[n].seen

LEMMA KeptInit == Init => Kept
BY DEF Init, Kept

LEMMA KeptStep == SInv /\ Kept /\ [Next]_vars => Kept'
<1> SUFFICES ASSUME SInv, Kept, [Next]_vars, FewCommands, restarts' = 0, NEW k \in Node
             PROVE  ever'[k] \subseteq DOMAIN state'[k].seen
  BY DEF Kept, FewCommands
<1>1. /\ net \subseteq Message /\ restarts \in Nat
      /\ ever \in [Node -> SUBSET Ids]
  BY StatesTyped DEF SInv, IInv
<1>2. ASSUME NEW n \in Node, NEW t \in Tasks, NEW c \in Command, NEW toSend \in BOOLEAN,
             ApplyAt(n, t, c, toSend)
      PROVE  ever'[k] \subseteq DOMAIN state'[k].seen
  <2>1. /\ k # n => state'[k] = state[k]
        /\ k = n => DOMAIN state'[k].seen = DOMAIN state[k].seen \cup {c.id}
        /\ ever' = [ever EXCEPT ![n] = @ \cup {c.id}]
    BY <1>2, ApplyAtFacts
  <2>2. ever'[k] = IF k = n THEN ever[n] \cup {c.id} ELSE ever[k]
    BY <1>1, <2>1
  <2>3. ever[k] \subseteq DOMAIN state[k].seen
    BY <1>2 DEF ApplyAt, Kept
  <2> QED BY <2>1, <2>2, <2>3
<1>3. ASSUME NEW n \in Node, NEW t \in LocalTask, NEW c \in Command, Request(n, t, c)
      PROVE  ever'[k] \subseteq DOMAIN state'[k].seen
  BY <1>2, <1>3, TasksFacts DEF Request
<1>4. ASSUME NEW n \in Node, NEW m \in net, Receive(n, m)
      PROVE  ever'[k] \subseteq DOMAIN state'[k].seen
  <2>1. m.command \in Command /\ IsNew(state[n], m.command, Now) \in BOOLEAN
    BY <1>1 DEF Message, IsNew
  <2>2. ApplyAt(n, MeshTask, m.command, IsNew(state[n], m.command, Now))
    BY <1>4 DEF Receive
  <2> QED BY <1>2, <2>1, <2>2, TasksFacts
<1>5. ASSUME NEW n \in Node, Restart(n)
      PROVE  FALSE
  BY <1>1, <1>5 DEF Restart
<1>6. ASSUME \/ UNCHANGED vars
             \/ \E n \in Node, t \in Tasks : Send(n, t)
             \/ \E m \in net : Lose(m)
      PROVE  state' = state /\ ever' = ever /\ restarts' = restarts
  BY <1>6 DEF vars, Send, Lose
<1>7. CASE state' = state /\ ever' = ever /\ restarts' = restarts
  BY <1>7 DEF Kept
<1> QED BY <1>3, <1>4, <1>5, <1>6, <1>7 DEF Next

LEMMA QuietAgrees == Connected /\ SInv /\ Relayed /\ Kept => QuietMeshAgrees
<1> SUFFICES ASSUME Connected, SInv, Relayed, Kept, Quiet, ~lost, restarts = 0,
                    NEW n \in Node
             PROVE  ever[n] = Issued /\ (FewCommands => DOMAIN state[n].seen = Issued)
  BY DEF QuietMeshAgrees
<1>1. FewCommands => DOMAIN state[n].seen = ever[n]
  BY DEF SInv, Sourced, Kept
<1>2. \A e \in Edges : e[1] \in Node /\ e[2] \in Node
  BY EdgeFacts
<1>3. \A e \in Edges : \A id \in ever[e[1]] : id \in ever[e[2]]
  BY <1>2 DEF Relayed, AllRelayed, Travelling, Quiet
<1>4. ASSUME NEW k \in Node, NEW id \in ever[k]
      PROVE  id \in ever[n]
  <2> DEFINE S == {m \in Node : id \in ever[m]}
  <2>1. S \in SUBSET Node /\ S # {}
    BY <1>4
  <2>2. \A e \in Edges : e[1] \in S => e[2] \in S
    BY <1>2, <1>3
  <2>3. S = Node
    BY <2>1, <2>2 DEF Connected
  <2> QED BY <2>3
<1> QED BY <1>1, <1>4 DEF Issued

\* In a connected mesh, once nothing is in flight every node has applied exactly
\* the issued commands, unless a message was lost or a process restarted, and it
\* remembers them if its index has room: forwarding only new commands is enough.
THEOREM QuietMeshHasAgreed == ASSUME Connected PROVE Spec => []QuietMeshAgrees
<1> DEFINE QInv == SInv /\ Relayed /\ Kept
<1>1. Init => QInv
  BY TypedInit, SourcedInit, RelayedInit, KeptInit DEF SInv
<1>2. QInv /\ [Next]_vars => QInv'
  BY TypedStep, SourcedStep, RelayedStep, KeptStep DEF SInv
<1>3. QInv => QuietMeshAgrees
  BY QuietAgrees
<1> HIDE DEF QInv
<1> QED BY <1>1, <1>2, <1>3, PTL DEF Spec

\* With room for the identifiers in use, no node forgets one while its process
\* runs, so with MeshImplementsFlood it applies each once per run of its process.
THEOREM NothingForgottenBeforeRestart ==
  ASSUME FewCommands PROVE Spec => [][RemembersStep]_vars
<1>1. SInv /\ [Next]_vars => RemembersStep
  BY Remembers
<1> QED BY <1>1, SourcedAlways, PTL DEF Spec
=============================================================================
