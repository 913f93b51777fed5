----------------------- MODULE DiagnosticStateProofs -----------------------
(***************************************************************************)
(* What the operators of DiagnosticState preserve, for every bound of the  *)
(* seen-command index.  DiagnosticsProofs uses these lemmas for concurrent *)
(* callers of one state, DiagnosticMeshProofs for the states of a mesh.    *)
(***************************************************************************)
EXTENDS DiagnosticState, FiniteSetTheorems, SequenceTheorems, TLAPS

USE DEF Forget, Restrict

LEMMA IntervalSize ==
  ASSUME NEW n \in Nat
  PROVE  IsFiniteSet(1..n) /\ Cardinality(1..n) = n
<1>1. n \in Int /\ 1 \in Int
  OBVIOUS
<1>2. IF 1 > n THEN 0 = n ELSE n - 1 + 1 = n
  OBVIOUS
<1> QED BY <1>1, <1>2, FS_Interval

\* What a suffix of a sequence of times is.
LEMMA SuffixFacts ==
  ASSUME NEW q \in Seq(Nat), NEW m \in 1..Len(q)
  PROVE  /\ SubSeq(q, m, Len(q)) \in Seq(Nat)
         /\ Len(SubSeq(q, m, Len(q))) = Len(q) - m + 1
         /\ \A i \in 1..Len(SubSeq(q, m, Len(q))) :
              SubSeq(q, m, Len(q))[i] = q[m + i - 1]
<1>1. Len(SubSeq(q, m, Len(q))) = Len(q) - m + 1
  OBVIOUS
<1>2. SubSeq(q, m, Len(q)) \in Seq(Nat)
  OBVIOUS
<1>3. \A i \in 1..(Len(q) - m + 1) : SubSeq(q, m, Len(q))[i] = q[m + i - 1]
  OBVIOUS
<1> QED BY <1>1, <1>2, <1>3

\* Popping from the front keeps the queue and the map in step.
LEMMA DropOldestFacts ==
  ASSUME NEW s, IsInner(s), Indexed(s), NEW n \in 0..Len(s.order),
         NEW r, r = DropOldest(s, n)
  PROVE  /\ IsInner(r) /\ Indexed(r)
         /\ r.until = s.until /\ r.records = s.records
         /\ Len(r.order) = Len(s.order) - n
         /\ \A i \in 1..Len(r.order) : r.order[i] = s.order[i + n]
         /\ \A id \in DOMAIN r.seen : id \in DOMAIN s.seen /\ r.seen[id] = s.seen[id]
<1> DEFINE popped == {s.order[i] : i \in 1..n}
           rest == SubSeq(s.order, n + 1, Len(s.order))
<1>1. Len(s.order) \in Nat /\ s.order \in Seq(Ids)
  BY DEF IsInner
<1>2. r = [until |-> s.until, records |-> s.records,
           seen |-> [id \in DOMAIN s.seen \ popped |-> s.seen[id]], order |-> rest]
  BY DEF DropOldest, IsInner
<1>3. /\ rest \in Seq(Ids)
      /\ Len(rest) = Len(s.order) - n
      /\ \A i \in 1..Len(rest) : rest[i] = s.order[i + n]
  BY <1>1
<1>4. IsInner(r)
  BY <1>2, <1>3 DEF IsInner
<1>5. ASSUME NEW i \in 1..Len(rest), NEW j \in 1..Len(rest), rest[i] = rest[j]
      PROVE  i = j
  <2> HIDE DEF rest, popped
  <2>1. i + n \in 1..Len(s.order) /\ j + n \in 1..Len(s.order)
    BY <1>1, <1>3
  <2>2. s.order[i + n] = s.order[j + n]
    BY <1>3, <1>5
  <2>3. i + n = j + n
    BY <2>1, <2>2 DEF Indexed
  <2> QED BY <2>3
<1>6. DOMAIN r.seen = {rest[i] : i \in 1..Len(rest)}
  <2>1. ASSUME NEW id \in DOMAIN s.seen \ popped
        PROVE  \E i \in 1..Len(rest) : id = rest[i]
    <3>1. PICK k \in 1..Len(s.order) : id = s.order[k]
      BY DEF Indexed
    <3>2. k - n \in 1..Len(rest) /\ id = rest[k - n]
      BY <1>1, <1>3, <3>1
    <3> QED BY <3>2
  <2>2. ASSUME NEW i \in 1..Len(rest)
        PROVE  rest[i] \in DOMAIN s.seen \ popped
    <3>0. i + n \in 1..Len(s.order)
      BY <1>1, <1>3
    <3>1. i + n \in 1..Len(s.order) /\ rest[i] = s.order[i + n]
      BY <1>3, <3>0
    <3>2. \A j \in 1..n : j \in 1..Len(s.order) /\ j # i + n
      BY <1>1
    <3>3. \A j \in 1..n : s.order[j] # s.order[i + n]
      BY <3>1, <3>2 DEF Indexed
    <3>4. rest[i] \in DOMAIN s.seen
      BY <3>1 DEF Indexed
    <3> QED BY <3>1, <3>3, <3>4
  <2>3. DOMAIN r.seen = DOMAIN s.seen \ popped
    BY <1>2
  <2>4. DOMAIN r.seen \subseteq {rest[i] : i \in 1..Len(rest)}
    BY <2>1, <2>3
  <2>5. {rest[i] : i \in 1..Len(rest)} \subseteq DOMAIN r.seen
    BY <2>2, <2>3
  <2> QED BY <2>4, <2>5
<1>7. r.order = rest /\ r.until = s.until /\ r.records = s.records
  BY <1>2
<1>8. \A id \in DOMAIN r.seen : id \in DOMAIN s.seen /\ r.seen[id] = s.seen[id]
  BY <1>2
<1> HIDE DEF rest, popped
<1>9. Indexed(r)
  BY <1>5, <1>6, <1>7 DEF Indexed
<1>10. /\ Len(r.order) = Len(s.order) - n
       /\ \A i \in 1..Len(r.order) : r.order[i] = s.order[i + n]
  BY <1>3, <1>7
<1> QED BY <1>4, <1>7, <1>8, <1>9, <1>10

\* The map is as large as the queue is long.
LEMMA IndexedSize ==
  ASSUME NEW s, IsInner(s), Indexed(s)
  PROVE  IsFiniteSet(DOMAIN s.seen) /\ Cardinality(DOMAIN s.seen) = Len(s.order)
<1> DEFINE f == [i \in 1..Len(s.order) |-> s.order[i]]
<1>1. Len(s.order) \in Nat
  BY DEF IsInner
<1>2. f \in Bijection(1..Len(s.order), DOMAIN s.seen)
  <2>1. f \in [1..Len(s.order) -> DOMAIN s.seen]
    BY DEF Indexed
  <2>2. \A i, j \in 1..Len(s.order) : f[i] = f[j] => i = j
    BY DEF Indexed
  <2>3. \A id \in DOMAIN s.seen : \E i \in 1..Len(s.order) : f[i] = id
    BY DEF Indexed
  <2> QED BY <2>1, <2>2, <2>3 DEF Bijection, Injection, Surjection, IsInjective
<1>3. IsFiniteSet(1..Len(s.order)) /\ Cardinality(1..Len(s.order)) = Len(s.order)
  BY <1>1, IntervalSize
<1> QED BY <1>2, <1>3, FS_Bijection DEF ExistsBijection

\* The pruning loop pops a prefix of the queue, and only forgettable entries.
LEMMA ForgettableFacts ==
  ASSUME NEW s, IsInner(s), NEW now \in Nat,
         NEW n, n = Cardinality(Forgettable(s, now))
  PROVE  /\ n \in 0..Len(s.order)
         /\ \A i \in 1..n : ~Remembered(s, s.order[i], now)
<1> DEFINE F == Forgettable(s, now)
<1>1. Len(s.order) \in Nat
  BY DEF IsInner
<1>2. /\ IsFiniteSet(1..Len(s.order))
      /\ Cardinality(1..Len(s.order)) = Len(s.order)
  BY <1>1, IntervalSize
<1>3. F \in SUBSET (1..Len(s.order))
  BY DEF Forgettable
<1>4. IsFiniteSet(F) /\ n <= Len(s.order) /\ n \in Nat
  BY <1>2, <1>3, FS_Subset, FS_CardinalityType
<1>5. ASSUME NEW i \in 1..n
      PROVE  i \in F
  <2>1. SUFFICES ASSUME i \notin F PROVE FALSE
    OBVIOUS
  <2>2. i \in 1..Len(s.order)
    BY <1>1, <1>4
  <2>3. F \in SUBSET (1..(i - 1))
    <3>1. ASSUME NEW k \in F, ~(k < i) PROVE FALSE
      <4>1. i \in 1..k /\ k \in 1..Len(s.order)
        BY <1>3, <2>2, <3>1
      <4>2. \A j \in 1..i : j \in 1..k
        BY <4>1
      <4> QED BY <2>1, <2>2, <4>2 DEF Forgettable
    <3> QED BY <1>3, <3>1
  <2>4. IsFiniteSet(1..(i - 1)) /\ Cardinality(1..(i - 1)) = i - 1
    BY <1>4, IntervalSize
  <2>5. n <= i - 1
    BY <2>3, <2>4, FS_Subset
  <2> QED BY <1>4, <2>5
<1> QED BY <1>4, <1>5 DEF Forgettable

\* r is s without the n oldest entries of its index, all beyond the retention.
ForgetsExpired(s, r, now) ==
  \E n \in 0..Len(s.order) :
    /\ Len(r.order) = Len(s.order) - n
    /\ \A i \in 1..Len(r.order) : r.order[i] = s.order[i + n]
    /\ \A id \in DOMAIN r.seen : id \in DOMAIN s.seen /\ r.seen[id] = s.seen[id]
    /\ \A i \in 1..n : s.seen[s.order[i]] + Retention < now

\* What prune_locked leaves: the window and its records as CloseExpired left
\* them, and an index that lost n entries, all of them beyond the retention.
LEMMA PruneFacts ==
  ASSUME NEW s, IsInner(s), Indexed(s), NEW now \in Nat,
         NEW r, r = Prune(s, now)
  PROVE  /\ IsInner(r) /\ Indexed(r)
         /\ r.until = CloseExpired(s, now).until
         /\ r.records = CloseExpired(s, now).records
         /\ Len(r.order) <= Len(s.order)
         /\ ForgetsExpired(s, r, now)
<1> DEFINE c == CloseExpired(s, now)
           n == Cardinality(Forgettable(c, now))
<1>1. /\ IsInner(c) /\ Indexed(c)
      /\ c.order = s.order /\ c.seen = s.seen
  <2>1. CASE s.until # None /\ s.until <= now
    <3>1. c = [until |-> None, records |-> <<>>, seen |-> s.seen, order |-> s.order]
      BY <2>1 DEF CloseExpired, IsInner
    <3> HIDE DEF c
    <3>2. c.until = None /\ c.records = <<>> /\ c.seen = s.seen /\ c.order = s.order
      BY <3>1
    <3>3. IsInner(c)
      BY <3>1, <3>2 DEF IsInner
    <3>4. Indexed(c)
      BY <3>2 DEF Indexed
    <3> QED BY <3>2, <3>3, <3>4
  <2>2. CASE ~(s.until # None /\ s.until <= now)
    BY <2>2 DEF CloseExpired
  <2> QED BY <2>1, <2>2
<1> HIDE DEF c
<1>2. /\ n \in 0..Len(c.order)
      /\ \A i \in 1..n : ~Remembered(c, c.order[i], now)
  BY <1>1, ForgettableFacts
<1>3. r = DropOldest(c, n)
  BY DEF Prune, c
<1> HIDE DEF n
<1>4. /\ IsInner(r) /\ Indexed(r)
      /\ r.until = c.until /\ r.records = c.records
      /\ Len(r.order) = Len(c.order) - n
      /\ \A i \in 1..Len(r.order) : r.order[i] = c.order[i + n]
      /\ \A id \in DOMAIN r.seen : id \in DOMAIN c.seen /\ r.seen[id] = c.seen[id]
  BY <1>1, <1>2, <1>3, DropOldestFacts
<1>5. ASSUME NEW i \in 1..n
      PROVE  s.seen[s.order[i]] + Retention < now
  <2>1. i \in 1..Len(s.order) /\ Len(s.order) \in Nat
    BY <1>1, <1>2 DEF IsInner
  <2>2. s.order[i] \in DOMAIN s.seen /\ s.seen[s.order[i]] \in Nat
    BY <1>1, <2>1 DEF Indexed, IsInner
  <2>3. ~(now <= s.seen[s.order[i]] + Retention)
    BY <1>1, <1>2, <2>2 DEF Remembered
  <2> QED BY <2>2, <2>3, RetentionAssumption
<1>6. ForgetsExpired(s, r, now)
  BY <1>1, <1>2, <1>4, <1>5 DEF ForgetsExpired
<1>7. r.until = CloseExpired(s, now).until /\ r.records = CloseExpired(s, now).records
  BY <1>4 DEF c
<1>8. Len(r.order) <= Len(s.order)
  BY <1>1, <1>2, <1>4 DEF IsInner
<1> QED BY <1>4, <1>6, <1>7, <1>8

\* A new identifier joins the end of the queue.
LEMMA RememberFacts ==
  ASSUME NEW s, IsInner(s), Indexed(s), NEW id \in Ids, id \notin DOMAIN s.seen,
         NEW now \in Nat, NEW r, r = Remember(s, id, now)
  PROVE  /\ IsInner(r) /\ Indexed(r)
         /\ r.until = s.until /\ r.records = s.records
         /\ Len(r.order) = Len(s.order) + 1
         /\ \A i \in 1..Len(s.order) : r.order[i] = s.order[i]
         /\ r.order[Len(s.order) + 1] = id
         /\ r.seen[id] = now
         /\ \A i \in DOMAIN s.seen : i \in DOMAIN r.seen /\ r.seen[i] = s.seen[i]
<1> DEFINE seen == [i \in DOMAIN s.seen \cup {id} |-> IF i = id THEN now ELSE s.seen[i]]
           order == Append(s.order, id)
<1>1. r = [until |-> s.until, records |-> s.records, seen |-> seen, order |-> order]
  BY DEF Remember, IsInner
<1>2. /\ order \in Seq(Ids) /\ Len(order) = Len(s.order) + 1 /\ Len(s.order) \in Nat
      /\ \A i \in 1..Len(s.order) : order[i] = s.order[i]
      /\ order[Len(s.order) + 1] = id
  BY DEF IsInner
<1>3. /\ seen \in [DOMAIN seen -> Nat] /\ DOMAIN seen = DOMAIN s.seen \cup {id}
      /\ DOMAIN seen \subseteq Ids /\ seen[id] = now
      /\ \A i \in DOMAIN s.seen : seen[i] = s.seen[i]
  BY DEF IsInner
<1> HIDE DEF seen, order
<1>4. IsInner(r)
  BY <1>1, <1>2, <1>3 DEF IsInner
<1>5. \A i \in 1..Len(s.order) : s.order[i] \in DOMAIN s.seen /\ s.order[i] # id
  BY DEF Indexed
<1>6. ASSUME NEW i \in 1..Len(order), NEW j \in 1..Len(order), order[i] = order[j]
      PROVE  i = j
  <2>1. i \in 1..Len(s.order) \/ i = Len(s.order) + 1
    BY <1>2
  <2>2. j \in 1..Len(s.order) \/ j = Len(s.order) + 1
    BY <1>2
  <2> QED BY <1>2, <1>5, <1>6, <2>1, <2>2 DEF Indexed
<1>7. DOMAIN seen = {order[i] : i \in 1..Len(order)}
  <2>1. ASSUME NEW x \in DOMAIN seen
        PROVE  \E i \in 1..Len(order) : x = order[i]
    <3>1. CASE x = id
      BY <1>2, <3>1
    <3>2. CASE x \in DOMAIN s.seen
      <4>1. PICK i \in 1..Len(s.order) : x = s.order[i]
        BY <3>2 DEF Indexed
      <4> QED BY <1>2, <4>1
    <3> QED BY <1>3, <3>1, <3>2
  <2>2. ASSUME NEW i \in 1..Len(order)
        PROVE  order[i] \in DOMAIN seen
    <3>1. i \in 1..Len(s.order) \/ i = Len(s.order) + 1
      BY <1>2
    <3> QED BY <1>2, <1>3, <1>5, <3>1
  <2> QED BY <2>1, <2>2
<1>8. Indexed(r)
  BY <1>1, <1>6, <1>7 DEF Indexed
<1> QED BY <1>1, <1>2, <1>3, <1>4, <1>8

\* r is s without the n oldest entries of its index, and full if n > 0.
EvictsExcess(s, r) ==
  \E n \in 0..Len(s.order) :
    /\ Len(r.order) = Len(s.order) - n
    /\ \A i \in 1..Len(r.order) : r.order[i] = s.order[i + n]
    /\ \A id \in DOMAIN r.seen : id \in DOMAIN s.seen /\ r.seen[id] = s.seen[id]
    /\ n > 0 => Len(r.order) = MaxSeen

\* The bound evicts as many of the oldest entries as the index has too many.
LEMMA EnforceSeenBoundFacts ==
  ASSUME NEW s, IsInner(s), Indexed(s), NEW r, r = EnforceSeenBound(s)
  PROVE  /\ IsInner(r) /\ Indexed(r)
         /\ r.until = s.until /\ r.records = s.records
         /\ Len(r.order) <= MaxSeen
         /\ EvictsExcess(s, r)
<1> DEFINE n == Excess(s)
<1>1. Cardinality(DOMAIN s.seen) = Len(s.order) /\ Len(s.order) \in Nat
  <2>1. Cardinality(DOMAIN s.seen) = Len(s.order)
    BY IndexedSize
  <2>2. Len(s.order) \in Nat
    BY DEF IsInner
  <2> QED BY <2>1, <2>2
<1>2. /\ n = IF Len(s.order) > MaxSeen THEN Len(s.order) - MaxSeen ELSE 0
      /\ n \in 0..Len(s.order)
  <2>1. n = IF Len(s.order) > MaxSeen THEN Len(s.order) - MaxSeen ELSE 0
    BY <1>1 DEF Excess
  <2> HIDE DEF n
  <2> QED BY <1>1, <2>1, MaxSeenAssumption
<1>3. r = DropOldest(s, n)
  BY DEF EnforceSeenBound
<1> HIDE DEF n
<1>4. /\ IsInner(r) /\ Indexed(r)
      /\ r.until = s.until /\ r.records = s.records
      /\ Len(r.order) = Len(s.order) - n
      /\ \A i \in 1..Len(r.order) : r.order[i] = s.order[i + n]
      /\ \A id \in DOMAIN r.seen : id \in DOMAIN s.seen /\ r.seen[id] = s.seen[id]
  BY <1>2, <1>3, DropOldestFacts
<1>5. Len(r.order) <= MaxSeen /\ (n > 0 => Len(r.order) = MaxSeen)
  BY <1>1, <1>2, <1>4, MaxSeenAssumption
<1> QED BY <1>2, <1>4, <1>5 DEF EvictsExcess

Bounded(s) == IsInner(s) /\ Indexed(s) /\ Len(s.order) <= MaxSeen

LEMMA PruneBounded ==
  ASSUME NEW s, Bounded(s), NEW now \in Nat
  PROVE  Bounded(Prune(s, now))
<1> DEFINE r == Prune(s, now)
<1>1. IsInner(r) /\ Indexed(r)
  BY PruneFacts DEF Bounded
<1>2. Len(r.order) <= Len(s.order)
  BY PruneFacts DEF Bounded
<1>3. Len(s.order) \in Nat /\ Len(s.order) <= MaxSeen
  BY DEF Bounded, IsInner
<1> HIDE DEF r
<1>4. Len(r.order) <= MaxSeen
  BY <1>1, <1>2, <1>3, MaxSeenAssumption DEF IsInner
<1> QED BY <1>1, <1>4 DEF Bounded, r

\* apply_once keeps the index consistent and bounded, and a new command leaves
\* an empty record list and the window it asks for.
LEMMA ApplyOnceFacts ==
  ASSUME NEW s, Bounded(s), NEW c \in Command, NEW now \in Nat,
         NEW r, r = ApplyOnce(s, c, now)
  PROVE  /\ Bounded(r)
         /\ ~IsNew(s, c, now) => r = Prune(s, now)
         /\ IsNew(s, c, now) =>
              /\ r.records = <<>>
              /\ r.until = IF c.action = "enable"
                           THEN now + c.seconds * TicksPerSecond ELSE None
              /\ LET e == EnforceSeenBound(Remember(Prune(s, now), c.id, now))
                 IN  r.order = e.order /\ r.seen = e.seen
<1> DEFINE p == Prune(s, now)
           q == Remember(p, c.id, now)
           e == EnforceSeenBound(q)
           until == IF c.action = "enable"
                    THEN now + c.seconds * TicksPerSecond ELSE None
<1>1. Bounded(p)
  BY PruneBounded
<1>2. CASE ~IsNew(s, c, now)
  BY <1>1, <1>2 DEF ApplyOnce
<1>3. CASE IsNew(s, c, now)
  <2>1. c.id \in Ids /\ c.id \notin DOMAIN p.seen
    BY <1>3 DEF IsNew, Command, Enables, Disables
  <2>2. IsInner(q) /\ Indexed(q)
    BY <1>1, <2>1, RememberFacts DEF Bounded
  <2>3. IsInner(e) /\ Indexed(e) /\ Len(e.order) <= MaxSeen
    BY <2>2, EnforceSeenBoundFacts
  <2>4. until \in Nat \cup {None}
    <3>1. c.seconds \in Nat /\ TicksPerSecond \in Nat
      <4>1. CASE c \in Enables
        BY <4>1, TicksAssumption, SecondsAssumption DEF Enables
      <4>2. CASE c \in Disables
        BY <4>2, TicksAssumption DEF Disables
      <4> QED BY <4>1, <4>2 DEF Command
    <3>2. now + c.seconds * TicksPerSecond \in Nat
      BY <3>1
    <3> QED BY <3>2
  <2>5. r = Obey(e, c, now)
    BY <1>3 DEF ApplyOnce
  <2> HIDE DEF e, until
  <2>6. r = [until |-> until, records |-> <<>>, seen |-> e.seen, order |-> e.order]
    BY <2>3, <2>5 DEF Obey, IsInner, until
  <2>7. /\ r.records = <<>> /\ r.until = until
        /\ r.order = e.order /\ r.seen = e.seen
    BY <2>6
  <2>8. IsInner(r)
    BY <2>3, <2>4, <2>6, <2>7 DEF IsInner
  <2>9. Indexed(r) /\ Len(r.order) <= MaxSeen
    BY <2>3, <2>7 DEF Indexed
  <2> QED BY <1>3, <2>7, <2>8, <2>9 DEF Bounded, e, until
<1> QED BY <1>2, <1>3

\* record_remote appends to the pruned state, or leaves it as it is.
LEMMA RecordRemoteFacts ==
  ASSUME NEW s, Bounded(s), NEW now \in Nat,
         NEW r, r = RecordRemote(s, now)
  PROVE  LET p == Prune(s, now)
         IN  /\ Bounded(r)
             /\ r.until = p.until /\ r.seen = p.seen /\ r.order = p.order
             /\ r.records = IF IsEnabled(p, now)
                            THEN LastN(Append(p.records, now), MaxRecords)
                            ELSE p.records
             /\ Len(p.records) <= MaxRecords => Len(r.records) <= MaxRecords
             /\ \A i \in 1..Len(r.records) :
                  \/ IsEnabled(p, now) /\ r.records[i] = now
                  \/ \E j \in 1..Len(p.records) : r.records[i] = p.records[j]
<1> DEFINE p == Prune(s, now)
           q == Append(p.records, now)
           l == LastN(q, MaxRecords)
<1>1. Bounded(p)
  BY PruneBounded
<1> HIDE DEF p
<1>2. CASE ~IsEnabled(p, now)
  <2>1. r = p
    BY <1>2 DEF RecordRemote, p
  <2> QED BY <1>1, <1>2, <2>1 DEF p
<1>3. CASE IsEnabled(p, now)
  <2>1. /\ q \in Seq(Nat) /\ Len(q) = Len(p.records) + 1 /\ Len(p.records) \in Nat
        /\ \A i \in 1..Len(q) : q[i] = now \/ \E j \in 1..Len(p.records) : q[i] = p.records[j]
    BY <1>1 DEF Bounded, IsInner
  <2> HIDE DEF q
  <2>2. /\ l \in Seq(Nat) /\ Len(l) <= MaxRecords /\ Len(l) \in Nat
        /\ \A i \in 1..Len(l) : \E j \in 1..Len(q) : l[i] = q[j]
    <3>1. CASE Len(q) <= MaxRecords
      <4>1. l = q
        BY <3>1 DEF LastN
      <4> HIDE DEF l
      <4> QED BY <2>1, <3>1, <4>1
    <3>2. CASE ~(Len(q) <= MaxRecords)
      <4> DEFINE m == Len(q) - MaxRecords + 1
      <4>1. m \in 1..Len(q) /\ Len(q) \in Nat
        BY <2>1, <3>2, MaxRecordsAssumption
      <4>2. l = SubSeq(q, m, Len(q))
        BY <3>2 DEF LastN
      <4> HIDE DEF l
      <4>0. m = Len(q) - MaxRecords + 1
        OBVIOUS
      <4> HIDE DEF m
      <4>3. /\ l \in Seq(Nat) /\ Len(l) = Len(q) - m + 1
            /\ \A i \in 1..Len(l) : l[i] = q[m + i - 1]
        BY <2>1, <4>1, <4>2, SuffixFacts
      <4>4. Len(l) = MaxRecords
        BY <4>0, <4>1, <4>3, MaxRecordsAssumption
      <4>5. \A i \in 1..Len(l) : m + i - 1 \in 1..Len(q)
        BY <4>1, <4>3
      <4>6. \A i \in 1..Len(l) : \E j \in 1..Len(q) : l[i] = q[j]
        BY <4>3, <4>5
      <4> QED BY <4>3, <4>4, <4>6, MaxRecordsAssumption
    <3> QED BY <3>1, <3>2
  <2> HIDE DEF l
  <2>3. r = [until |-> p.until, records |-> l, seen |-> p.seen, order |-> p.order]
    BY <1>1, <1>3 DEF RecordRemote, Bounded, IsInner, l, q, p
  <2>4. /\ r.until = p.until /\ r.records = l
        /\ r.seen = p.seen /\ r.order = p.order
    BY <2>3
  <2>5. Bounded(r)
    <3>1. IsInner(r)
      BY <1>1, <2>2, <2>3, <2>4 DEF Bounded, IsInner
    <3>2. Indexed(r) /\ Len(r.order) <= MaxSeen
      BY <1>1, <2>4 DEF Bounded, Indexed
    <3> QED BY <3>1, <3>2 DEF Bounded
  <2> QED BY <1>3, <2>1, <2>2, <2>4, <2>5 DEF p, l, q
<1> QED BY <1>2, <1>3
=============================================================================
