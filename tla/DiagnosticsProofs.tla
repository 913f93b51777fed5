------------------------- MODULE DiagnosticsProofs -------------------------
(***************************************************************************)
(* Proofs about Diagnostics for every number of tasks, commands and calls, *)
(* every bound of the seen-command index and every behaviour of the clock. *)
(***************************************************************************)
EXTENDS Diagnostics, DiagnosticStateProofs, FiniteSetTheorems, SequenceTheorems, TLAPS

USE DEF Forget, Restrict

-----------------------------------------------------------------------------
(* Type correctness and the seen-command index. *)

IndexInv == TypeOK /\ Bounded(state)

LEMMA InitIndex == Init => IndexInv
<1> SUFFICES ASSUME Init PROVE IndexInv
  OBVIOUS
<1>1. /\ state.until = None /\ state.records = <<>>
      /\ state.seen = <<>> /\ state.order = <<>>
      /\ state = [until |-> state.until, records |-> state.records,
                  seen |-> state.seen, order |-> state.order]
  BY DEF Init, Empty
<1>2. IsInner(state)
  BY <1>1 DEF IsInner
<1>3. Indexed(state) /\ Len(state.order) <= MaxSeen
  BY <1>1, MaxSeenAssumption DEF Indexed
<1>4. TypeOK
  BY <1>2 DEF Init, TypeOK, Call, Idle
<1> QED BY <1>2, <1>3, <1>4 DEF IndexInv, Bounded

\* The call a task has begun, when its critical section runs.
LEMMA PendingCall ==
  ASSUME TypeOK, NEW t \in Tasks
  PROVE  /\ pending[t].op = "apply" => pending[t].command \in Command /\ pending[t].now \in Nat
         /\ pending[t].op \in {"record", "read"} => pending[t].now \in Nat
<1>1. pending[t] \in Call
  BY DEF TypeOK
<1>2. CASE pending[t] \in [op : {"apply"}, command : Command, now : Nat]
  BY <1>2
<1>3. CASE pending[t] \in [op : {"record", "read"}, now : Nat]
  BY <1>3
<1>4. CASE pending[t] = Idle
  BY <1>4 DEF Idle
<1> QED BY <1>1, <1>2, <1>3, <1>4 DEF Call

LEMMA NextIndex == IndexInv /\ [Next]_vars => IndexInv'
<1> SUFFICES ASSUME IndexInv, [Next]_vars PROVE IndexInv'
  OBVIOUS
<1> USE DEF IndexInv
<1>1. ASSUME NEW t \in Tasks, BeginApply(t) PROVE IndexInv'
  <2>1. PICK c \in Command : Begin(t, [op |-> "apply", command |-> c, now |-> clock])
    BY <1>1 DEF BeginApply
  <2>2. pending' \in [Tasks -> Call] /\ calls' \in Nat
    BY <2>1 DEF Begin, TypeOK, Call
  <2> QED BY <2>1, <2>2 DEF Begin, TypeOK
<1>2. ASSUME NEW t \in Tasks, BeginOther(t) PROVE IndexInv'
  <2>1. PICK op \in {"record", "read"} : Begin(t, [op |-> op, now |-> clock])
    BY <1>2 DEF BeginOther
  <2>2. pending' \in [Tasks -> Call] /\ calls' \in Nat
    BY <2>1 DEF Begin, TypeOK, Call
  <2> QED BY <2>1, <2>2 DEF Begin, TypeOK
<1>3. ASSUME NEW t \in Tasks, Apply(t) PROVE IndexInv'
  <2>1. pending[t].command \in Command /\ pending[t].now \in Nat
    BY <1>3, PendingCall DEF Apply, Lock
  <2>2. Bounded(state')
    BY <1>3, <2>1, ApplyOnceFacts DEF Apply
  <2>3. pending' \in [Tasks -> Call]
    BY <1>3 DEF Apply, Lock, TypeOK, Call
  <2>4. applied' \in Seq(Acceptance)
    <3> DEFINE entry == [command |-> pending[t].command, now |-> pending[t].now,
                         latest |-> latest]
    <3>1. entry \in Acceptance
      BY <2>1 DEF TypeOK, Acceptance
    <3>2. applied' = applied \/ applied' = Append(applied, entry)
      BY <1>3 DEF Apply
    <3> HIDE DEF entry
    <3> QED BY <3>1, <3>2 DEF TypeOK
  <2> QED BY <1>3, <2>2, <2>3, <2>4 DEF Apply, Lock, TypeOK, Bounded
<1>4. ASSUME NEW t \in Tasks, Record(t) PROVE IndexInv'
  <2>1. pending[t].now \in Nat
    BY <1>4, PendingCall DEF Record, Lock
  <2>2. Bounded(state')
    BY <1>4, <2>1, RecordRemoteFacts DEF Record
  <2>3. pending' \in [Tasks -> Call]
    BY <1>4 DEF Record, Lock, TypeOK, Call
  <2> QED BY <1>4, <2>2, <2>3 DEF Record, Lock, TypeOK, Bounded
<1>5. ASSUME NEW t \in Tasks, Read(t) PROVE IndexInv'
  <2>1. pending[t].now \in Nat
    BY <1>5, PendingCall DEF Read, Lock
  <2>2. Bounded(state')
    BY <1>5, <2>1, PruneBounded DEF Read
  <2>3. pending' \in [Tasks -> Call]
    BY <1>5 DEF Read, Lock, TypeOK, Call
  <2> QED BY <1>5, <2>2, <2>3 DEF Read, Lock, TypeOK, Bounded
<1>6. CASE CleanUp
  <2>1. Bounded(state')
    BY <1>6, PruneBounded DEF CleanUp, TypeOK
  <2> QED BY <1>6, <2>1 DEF CleanUp, TypeOK, Bounded
<1>7. CASE Advance
  BY <1>7 DEF Advance, TypeOK
<1>8. CASE SetBack
  BY <1>8 DEF SetBack, TypeOK
<1>9. CASE UNCHANGED vars
  BY <1>9 DEF vars, TypeOK
<1> QED BY <1>1, <1>2, <1>3, <1>4, <1>5, <1>6, <1>7, <1>8, <1>9 DEF Next

\* Every reachable state is well typed, and its index bounded and consistent.
THEOREM IndexInvariant == Spec => []IndexInv
  BY InitIndex, NextIndex, PTL DEF Spec

\* TypeOK holds of every reachable state of the shared DiagnosticState.
THEOREM TypeCorrect == Spec => []TypeOK
<1>1. IndexInv => TypeOK
  BY DEF IndexInv
<1> QED BY <1>1, IndexInvariant, PTL

\* seen_commands and seen_order of diagnostics.rs never drift apart and never
\* exceed max_seen_commands, whatever times the concurrent callers bring.
THEOREM SeenIndexCorrect == Spec => []SeenIndexConsistent
<1>1. IndexInv => SeenIndexConsistent
  BY IndexedSize DEF IndexInv, Bounded, SeenIndexConsistent
<1> QED BY <1>1, IndexInvariant, PTL

-----------------------------------------------------------------------------
(* The diagnostic window. *)

\* Closing an expired window keeps the relation between it and its records.
LEMMA PruneWindow ==
  ASSUME IndexInv, WindowFollowsLastCommand, NEW now \in Nat,
         NEW p, p = Prune(state, now)
  PROVE  /\ p.records # <<>> => p.until # None
         /\ p.until # None => p.until = state.until
         /\ p.until # None =>
              \A i \in 1..Len(p.records) : p.records[i] < p.until
         /\ Len(p.records) <= MaxRecords
<1>1. /\ p.until = CloseExpired(state, now).until
      /\ p.records = CloseExpired(state, now).records
  BY PruneFacts DEF IndexInv, Bounded
<1>2. CASE state.until # None /\ state.until <= now
  <2>1. CloseExpired(state, now).until = None /\ CloseExpired(state, now).records = <<>>
    BY <1>2 DEF CloseExpired, IndexInv, Bounded, IsInner
  <2> QED BY <1>1, <2>1, MaxRecordsAssumption
<1>3. CASE ~(state.until # None /\ state.until <= now)
  <2>1. p.until = state.until /\ p.records = state.records
    BY <1>1, <1>3 DEF CloseExpired
  <2> QED BY <2>1 DEF WindowFollowsLastCommand
<1> QED BY <1>2, <1>3

\* A step that only prunes.
LEMMA PruneStepWindow ==
  ASSUME IndexInv, WindowFollowsLastCommand, NEW now \in Nat,
         state' = Prune(state, now), applied' = applied
  PROVE  WindowFollowsLastCommand'
<1>1. /\ state'.records # <<>> => state'.until # None
      /\ state'.until # None => state'.until = state.until
      /\ state'.until # None =>
           \A i \in 1..Len(state'.records) : state'.records[i] < state'.until
      /\ Len(state'.records) <= MaxRecords
  BY PruneWindow
<1> QED BY <1>1 DEF WindowFollowsLastCommand

LEMMA NextWindow ==
  IndexInv /\ WindowFollowsLastCommand /\ [Next]_vars => WindowFollowsLastCommand'
<1> SUFFICES ASSUME IndexInv, WindowFollowsLastCommand, [Next]_vars
             PROVE  WindowFollowsLastCommand'
  OBVIOUS
<1>1. TypeOK /\ Bounded(state)
  BY DEF IndexInv
<1>2. ASSUME UNCHANGED <<state, applied>> PROVE WindowFollowsLastCommand'
  BY <1>2 DEF WindowFollowsLastCommand
<1>3. ASSUME NEW t \in Tasks, Apply(t) PROVE WindowFollowsLastCommand'
  <2> DEFINE c == pending[t].command
             now == pending[t].now
             entry == [command |-> c, now |-> now, latest |-> latest]
  <2>1. c \in Command /\ now \in Nat
    BY <1>1, <1>3, PendingCall DEF Apply, Lock
  <2>2. state' = ApplyOnce(state, c, now)
    BY <1>3 DEF Apply
  <2>3. applied' = IF IsNew(state, c, now) THEN Append(applied, entry) ELSE applied
    BY <1>3 DEF Apply
  <2>4. CASE ~IsNew(state, c, now)
    <3>1. state' = Prune(state, now) /\ applied' = applied
      BY <1>1, <2>1, <2>2, <2>3, <2>4, ApplyOnceFacts
    <3> QED BY <2>1, <3>1, PruneStepWindow
  <2>5. CASE IsNew(state, c, now)
    <3>1. /\ state'.records = <<>>
          /\ state'.until = IF c.action = "enable"
                            THEN now + c.seconds * TicksPerSecond ELSE None
      BY <1>1, <2>1, <2>2, <2>5, ApplyOnceFacts
    <3>2. applied' = Append(applied, entry) /\ applied \in Seq(Acceptance)
      BY <1>1, <2>3, <2>5 DEF TypeOK
    <3>3. entry \in Acceptance
      BY <1>1, <2>1 DEF TypeOK, Acceptance
    <3> HIDE DEF entry
    <3>4. applied' # <<>> /\ applied'[Len(applied')] = entry
      BY <3>2, <3>3, AppendProperties
    <3>5. entry.command = c /\ entry.now = now
      BY DEF entry
    <3> HIDE DEF c, now
    <3>6. state'.until # None =>
            /\ c.action = "enable"
            /\ state'.until = now + c.seconds * TicksPerSecond
      BY <3>1
    <3>7. Len(state'.records) = 0
      BY <3>1
    <3> QED BY <3>1, <3>4, <3>5, <3>6, <3>7, MaxRecordsAssumption
            DEF WindowFollowsLastCommand
  <2> QED BY <2>4, <2>5
<1>4. ASSUME NEW t \in Tasks, Record(t) PROVE WindowFollowsLastCommand'
  <2> DEFINE now == pending[t].now
             p == Prune(state, now)
  <2>1. now \in Nat
    BY <1>1, <1>4, PendingCall DEF Record, Lock
  <2>2. /\ p.records # <<>> => p.until # None
        /\ p.until # None => p.until = state.until
        /\ p.until # None =>
             \A i \in 1..Len(p.records) : p.records[i] < p.until
        /\ Len(p.records) <= MaxRecords
    BY <2>1, PruneWindow
  <2>3. /\ state'.until = p.until
        /\ state'.records = IF IsEnabled(p, now)
                            THEN LastN(Append(p.records, now), MaxRecords)
                            ELSE p.records
        /\ Len(p.records) <= MaxRecords => Len(state'.records) <= MaxRecords
        /\ \A i \in 1..Len(state'.records) :
             \/ IsEnabled(p, now) /\ state'.records[i] = now
             \/ \E j \in 1..Len(p.records) : state'.records[i] = p.records[j]
    BY <1>1, <1>4, <2>1, RecordRemoteFacts DEF Record
  <2>4. applied' = applied
    BY <1>4 DEF Record
  <2> HIDE DEF p, now
  <2>5. state'.records # <<>> => state'.until # None
    BY <2>2, <2>3 DEF IsEnabled
  <2>6. state'.until # None =>
          \A i \in 1..Len(state'.records) : state'.records[i] < state'.until
    BY <2>2, <2>3 DEF IsEnabled
  <2>7. state'.until # None => state'.until = state.until
    BY <2>2, <2>3
  <2> QED BY <2>2, <2>3, <2>4, <2>5, <2>6, <2>7 DEF WindowFollowsLastCommand
<1>5. ASSUME NEW t \in Tasks, Read(t) PROVE WindowFollowsLastCommand'
  <2>1. pending[t].now \in Nat
    BY <1>1, <1>5, PendingCall DEF Read, Lock
  <2> QED BY <1>5, <2>1, PruneStepWindow DEF Read
<1>6. CASE CleanUp
  BY <1>1, <1>6, PruneStepWindow DEF CleanUp, TypeOK
<1>7. ASSUME NEW t \in Tasks, BeginApply(t) \/ BeginOther(t)
      PROVE  WindowFollowsLastCommand'
  BY <1>2, <1>7 DEF BeginApply, BeginOther, Begin
<1>8. CASE Advance \/ SetBack \/ UNCHANGED vars
  BY <1>2, <1>8 DEF Advance, SetBack, vars
<1> QED BY <1>3, <1>4, <1>5, <1>6, <1>7, <1>8 DEF Next

\* Records live only in the window that the last applied command opened: no
\* interleaving of callers and no step of the clock lets one outlive a disable
\* or the end of the window (apply_once, record_remote, prune_locked).
THEOREM WindowCorrect == Spec => []WindowFollowsLastCommand
<1>1. Init => WindowFollowsLastCommand
  BY MaxRecordsAssumption DEF Init, Empty, WindowFollowsLastCommand
<1> QED BY <1>1, NextWindow, IndexInvariant, PTL DEF Spec

-----------------------------------------------------------------------------
(* Each identifier is applied once, as long as it is remembered. *)

\* The index s remembers the last acceptances of the history a; what it has
\* forgotten is beyond the retention at time now, or followed by at least
\* max_seen_commands acceptances.
Remembers(s, a, now) ==
  LET cut == Len(a) - Len(s.order)
  IN  /\ Len(s.order) <= Len(a)
      /\ \A i \in 1..Len(s.order) :
           s.order[i] = a[cut + i].command.id /\ s.seen[s.order[i]] = a[cut + i].now
      /\ \A j \in 1..cut : now > a[j].now + Retention \/ Len(a) - j >= MaxSeen

ClocksBelow == clock <= latest /\ \A t \in Tasks :
                 pending[t].op # "idle" => pending[t].now <= latest

HistoryInv ==
  /\ Remembers(state, applied, latest)
  /\ ClocksBelow
  /\ AppliedOncePerRetention

LEMMA AcceptanceTime ==
  ASSUME NEW a \in Seq(Acceptance), NEW j \in 1..Len(a)
  PROVE  a[j].now \in Nat
<1>1. a[j] \in Acceptance
  BY ElementOfSeq
<1> QED BY <1>1 DEF Acceptance

LEMMA RemembersLater ==
  ASSUME NEW s, NEW a \in Seq(Acceptance), NEW now \in Nat, NEW later \in Nat,
         IsInner(s), now <= later, Remembers(s, a, now)
  PROVE  Remembers(s, a, later)
<1> DEFINE cut == Len(a) - Len(s.order)
<1>1. ASSUME NEW j \in 1..cut
      PROVE  later > a[j].now + Retention \/ Len(a) - j >= MaxSeen
  <2>1. now > a[j].now + Retention \/ Len(a) - j >= MaxSeen
    BY DEF Remembers
  <2>2. j \in 1..Len(a)
    BY DEF IsInner
  <2>3. a[j].now \in Nat
    BY <2>2, AcceptanceTime
  <2> QED BY <2>1, <2>3, RetentionAssumption
<1> QED BY <1>1 DEF Remembers

\* Popping the n oldest entries keeps Remembers if each of them may be forgotten.
LEMMA RemembersRest ==
  ASSUME NEW s, NEW r, NEW a \in Seq(Acceptance), NEW now \in Nat,
         IsInner(s), IsInner(r), Indexed(s), Indexed(r), NEW n \in 0..Len(s.order),
         Len(r.order) = Len(s.order) - n,
         \A i \in 1..Len(r.order) : r.order[i] = s.order[i + n],
         \A id \in DOMAIN r.seen : id \in DOMAIN s.seen /\ r.seen[id] = s.seen[id],
         Remembers(s, a, now),
         \A i \in 1..n : \/ s.seen[s.order[i]] + Retention < now
                         \/ Len(s.order) - i >= MaxSeen
  PROVE  Remembers(r, a, now)
<1> DEFINE cut == Len(a) - Len(s.order)
           cut2 == Len(a) - Len(r.order)
<1>1. /\ Len(a) \in Nat /\ Len(s.order) \in Nat /\ Len(r.order) \in Nat
      /\ cut \in 0..Len(a) /\ cut2 = cut + n /\ Len(r.order) <= Len(a)
  BY DEF IsInner, Remembers
<1>2. ASSUME NEW i \in 1..Len(r.order)
      PROVE  /\ r.order[i] = a[cut2 + i].command.id
             /\ r.seen[r.order[i]] = a[cut2 + i].now
  <2>1. i + n \in 1..Len(s.order) /\ cut + (i + n) = cut2 + i
    BY <1>1
  <2>2. /\ s.order[i + n] = a[cut + (i + n)].command.id
        /\ s.seen[s.order[i + n]] = a[cut + (i + n)].now
    BY <2>1 DEF Remembers
  <2>3. r.order[i] \in DOMAIN r.seen
    BY DEF Indexed
  <2> HIDE DEF cut, cut2
  <2> QED BY <2>1, <2>2, <2>3
<1>3. ASSUME NEW j \in 1..cut2
      PROVE  now > a[j].now + Retention \/ Len(a) - j >= MaxSeen
  <2>1. CASE j \in 1..cut
    BY <2>1 DEF Remembers
  <2>2. CASE j \notin 1..cut
    <3>1. j - cut \in 1..n /\ j - cut \in 1..Len(s.order) /\ cut + (j - cut) = j
      <4>1. j \in Nat /\ j >= 1 /\ j <= cut + n /\ cut \in Nat /\ n \in Nat
        BY <1>1
      <4>2. ~(j <= cut) /\ n <= Len(s.order)
        BY <2>2, <4>1
      <4> HIDE DEF cut, cut2
      <4> QED BY <4>1, <4>2, <1>1
    <3>2. s.seen[s.order[j - cut]] = a[j].now
      BY <3>1 DEF Remembers
    <3>3. \/ s.seen[s.order[j - cut]] + Retention < now
          \/ Len(s.order) - (j - cut) >= MaxSeen
      BY <3>1
    <3>4. Len(s.order) - (j - cut) = Len(a) - j
      BY <1>1
    <3>5. a[j].now \in Nat
      <4>1. j \in 1..Len(a)
        BY <1>1, <3>1
      <4> QED BY <4>1, AcceptanceTime
    <3> QED BY <3>2, <3>3, <3>4, <3>5, RetentionAssumption
  <2> QED BY <2>1, <2>2
<1> QED BY <1>1, <1>2, <1>3 DEF Remembers

LEMMA PruneRemembers ==
  ASSUME NEW s, Bounded(s), NEW a \in Seq(Acceptance), NEW now \in Nat,
         NEW later \in Nat, now <= later, Remembers(s, a, later)
  PROVE  Remembers(Prune(s, now), a, later)
<1> DEFINE r == Prune(s, now)
<1>1. IsInner(s) /\ Indexed(s) /\ IsInner(r) /\ Indexed(r)
  BY PruneFacts DEF Bounded
<1>0. r = Prune(s, now)
  OBVIOUS
<1> HIDE DEF r
<1>2. PICK n \in 0..Len(s.order) :
        /\ Len(r.order) = Len(s.order) - n
        /\ \A i \in 1..Len(r.order) : r.order[i] = s.order[i + n]
        /\ \A id \in DOMAIN r.seen : id \in DOMAIN s.seen /\ r.seen[id] = s.seen[id]
        /\ \A i \in 1..n : s.seen[s.order[i]] + Retention < now
  <2>1. ForgetsExpired(s, r, now)
    BY <1>0, <1>1, PruneFacts
  <2> QED BY <2>1 DEF ForgetsExpired
<1>3. ASSUME NEW i \in 1..n
      PROVE  s.seen[s.order[i]] + Retention < later
  <2>1. s.seen[s.order[i]] + Retention < now
    BY <1>2
  <2>2. i \in 1..Len(s.order)
    BY <1>1 DEF IsInner
  <2>3. s.seen[s.order[i]] \in Nat
    BY <1>1, <2>2 DEF IsInner, Indexed
  <2> QED BY <2>1, <2>3, RetentionAssumption
<1>4. Remembers(r, a, later)
  BY <1>1, <1>2, <1>3, RemembersRest
<1> QED BY <1>4 DEF r

\* What a newly accepted command does to the index, and why it may be accepted:
\* the earlier acceptances of its identifier have been forgotten.
LEMMA ApplyRemembers ==
  ASSUME NEW s, Bounded(s), NEW a \in Seq(Acceptance), NEW c \in Command,
         NEW now \in Nat, NEW later \in Nat, now <= later,
         Remembers(s, a, later), IsNew(s, c, now),
         NEW entry \in Acceptance, entry.command = c, entry.now = now
  PROVE  /\ Remembers(ApplyOnce(s, c, now), Append(a, entry), later)
         /\ \A j \in 1..Len(a) : a[j].command.id = c.id =>
              later > a[j].now + Retention \/ Len(a) + 1 - j > MaxSeen
<1> DEFINE p == Prune(s, now)
           q == Remember(p, c.id, now)
           e == EnforceSeenBound(q)
           b == Append(a, entry)
           cut == Len(a) - Len(p.order)
<1>1. IsInner(p) /\ Indexed(p)
  BY PruneBounded DEF Bounded
<1>2. Remembers(p, a, later)
  BY PruneRemembers
<1>3. c.id \in Ids /\ c.id \notin DOMAIN p.seen
  BY DEF IsNew, Command, Enables, Disables
<1> HIDE DEF p
<1>4. /\ IsInner(q) /\ Indexed(q)
      /\ Len(q.order) = Len(p.order) + 1
      /\ \A i \in 1..Len(p.order) : q.order[i] = p.order[i]
      /\ q.order[Len(p.order) + 1] = c.id
      /\ q.seen[c.id] = now
      /\ \A i \in DOMAIN p.seen : i \in DOMAIN q.seen /\ q.seen[i] = p.seen[i]
  BY <1>1, <1>3, RememberFacts
<1> HIDE DEF q
<1>5. /\ IsInner(e) /\ Indexed(e)
      /\ Len(e.order) <= MaxSeen
      /\ EvictsExcess(q, e)
  BY <1>4, EnforceSeenBoundFacts
<1> HIDE DEF e
<1>6. /\ b \in Seq(Acceptance) /\ Len(b) = Len(a) + 1
      /\ \A j \in 1..Len(a) : b[j] = a[j]
      /\ b[Len(a) + 1] = entry
  BY AppendProperties
<1> HIDE DEF b
<1>7. /\ Len(a) \in Nat /\ Len(p.order) \in Nat /\ Len(p.order) <= Len(a)
      /\ cut \in Nat /\ Len(b) - Len(q.order) = cut /\ Len(q.order) <= Len(b)
      /\ cut + Len(p.order) = Len(a)
  BY <1>1, <1>2, <1>4, <1>6 DEF Remembers, IsInner
<1>8. Remembers(q, b, later)
  <2>1. ASSUME NEW i \in 1..Len(q.order)
        PROVE  q.order[i] = b[cut + i].command.id /\ q.seen[q.order[i]] = b[cut + i].now
    <3>1. CASE i \in 1..Len(p.order)
      <4>1. cut + i \in 1..Len(a)
        BY <1>7, <3>1
      <4>2. p.order[i] = a[cut + i].command.id /\ p.seen[p.order[i]] = a[cut + i].now
        BY <1>2, <3>1 DEF Remembers
      <4>3. p.order[i] \in DOMAIN p.seen
        BY <1>1, <3>1 DEF Indexed
      <4> HIDE DEF cut
      <4> QED BY <1>4, <1>6, <3>1, <4>1, <4>2, <4>3
    <3>2. CASE i = Len(p.order) + 1
      <4> HIDE DEF cut
      <4>1. cut + i = Len(a) + 1
        BY <1>7, <3>2
      <4>2. b[cut + i] = entry
        BY <1>6, <4>1
      <4>3. q.order[i] = c.id
        BY <1>4, <3>2
      <4>4. b[cut + i].command.id = c.id /\ b[cut + i].now = now
        BY <4>2
      <4>5. q.seen[q.order[i]] = now
        BY <1>4, <4>3
      <4> QED BY <4>3, <4>4, <4>5
    <3>3. i \in 1..Len(p.order) \/ i = Len(p.order) + 1
      BY <1>4, <1>7
    <3> QED BY <3>1, <3>2, <3>3
  <2>2. ASSUME NEW j \in 1..cut
        PROVE  later > b[j].now + Retention \/ Len(b) - j >= MaxSeen
    <3>1. later > a[j].now + Retention \/ Len(a) - j >= MaxSeen
      BY <1>2 DEF Remembers
    <3>2. j \in 1..Len(a)
      BY <1>7
    <3> QED BY <1>6, <1>7, <3>1, <3>2, MaxSeenAssumption
  <2> QED BY <1>7, <2>1, <2>2 DEF Remembers
<1>9. PICK n \in 0..Len(q.order) :
        /\ Len(e.order) = Len(q.order) - n
        /\ \A i \in 1..Len(e.order) : e.order[i] = q.order[i + n]
        /\ \A id \in DOMAIN e.seen : id \in DOMAIN q.seen /\ e.seen[id] = q.seen[id]
        /\ n > 0 => Len(e.order) = MaxSeen
  BY <1>5 DEF EvictsExcess
<1>10. \A i \in 1..n : Len(q.order) - i >= MaxSeen
  BY <1>4, <1>7, <1>9, MaxSeenAssumption
<1>11. Remembers(e, b, later)
  BY <1>4, <1>5, <1>6, <1>8, <1>9, <1>10, RemembersRest
<1>12. ApplyOnce(s, c, now).order = e.order /\ ApplyOnce(s, c, now).seen = e.seen
  BY ApplyOnceFacts DEF e, q, p
<1>13. Remembers(ApplyOnce(s, c, now), b, later)
  BY <1>11, <1>12 DEF Remembers
<1>14. ASSUME NEW j \in 1..Len(a), a[j].command.id = c.id
       PROVE  later > a[j].now + Retention \/ Len(a) + 1 - j > MaxSeen
  <2>1. j \in 1..cut
    <3>1. SUFFICES ASSUME j \notin 1..cut PROVE FALSE
      OBVIOUS
    <3>2. j - cut \in 1..Len(p.order) /\ cut + (j - cut) = j
      <4> HIDE DEF cut
      <4> QED BY <1>7, <3>1
    <3>3. p.order[j - cut] = c.id
      BY <1>2, <1>14, <3>2 DEF Remembers
    <3>4. p.order[j - cut] \in DOMAIN p.seen
      BY <1>1, <3>2 DEF Indexed
    <3> QED BY <1>3, <3>3, <3>4
  <2>2. later > a[j].now + Retention \/ Len(a) - j >= MaxSeen
    BY <1>2, <2>1 DEF Remembers
  <2> QED BY <1>7, <2>2, MaxSeenAssumption
<1> QED BY <1>13, <1>14 DEF b

LEMMA NextHistory == IndexInv /\ HistoryInv /\ [Next]_vars => HistoryInv'
<1> SUFFICES ASSUME IndexInv, HistoryInv, [Next]_vars PROVE HistoryInv'
  OBVIOUS
<1>1. /\ TypeOK /\ Bounded(state) /\ clock \in Nat /\ latest \in Nat
      /\ applied \in Seq(Acceptance) /\ IsInner(state)
      /\ Remembers(state, applied, latest) /\ ClocksBelow
      /\ AppliedOncePerRetention
  BY DEF IndexInv, HistoryInv, TypeOK, Bounded
<1>2. ASSUME NEW t \in Tasks, BeginApply(t) \/ BeginOther(t) PROVE HistoryInv'
  <2>1. PICK call \in Call : Begin(t, call) /\ call.now = clock
    <3>1. CASE BeginApply(t)
      <4>1. PICK c \in Command : Begin(t, [op |-> "apply", command |-> c, now |-> clock])
        BY <3>1 DEF BeginApply
      <4> QED BY <1>1, <4>1 DEF Call
    <3>2. CASE BeginOther(t)
      <4>1. PICK op \in {"record", "read"} : Begin(t, [op |-> op, now |-> clock])
        BY <3>2 DEF BeginOther
      <4> QED BY <1>1, <4>1 DEF Call
    <3> QED BY <1>2, <3>1, <3>2
  <2>2. ClocksBelow'
    BY <1>1, <2>1 DEF Begin, ClocksBelow, TypeOK
  <2> QED BY <1>1, <2>1, <2>2 DEF Begin, HistoryInv, AppliedOncePerRetention
<1>3. ASSUME NEW t \in Tasks, pending' = [pending EXCEPT ![t] = Idle],
             UNCHANGED <<clock, latest>>
      PROVE  ClocksBelow'
  BY <1>1, <1>3 DEF ClocksBelow, Idle, TypeOK
<1>4. ASSUME NEW now \in Nat, now <= latest, state' = Prune(state, now),
             UNCHANGED <<applied, latest>>
      PROVE  Remembers(state, applied, latest)' /\ AppliedOncePerRetention'
  BY <1>1, <1>4, PruneRemembers DEF AppliedOncePerRetention
<1>5. ASSUME NEW t \in Tasks, Apply(t) PROVE HistoryInv'
  <2> DEFINE c == pending[t].command
             now == pending[t].now
             entry == [command |-> c, now |-> now, latest |-> latest]
  <2>1. c \in Command /\ now \in Nat /\ now <= latest
    BY <1>1, <1>5, PendingCall DEF Apply, Lock, ClocksBelow
  <2>2. /\ state' = ApplyOnce(state, c, now)
        /\ applied' = IF IsNew(state, c, now) THEN Append(applied, entry) ELSE applied
        /\ UNCHANGED <<clock, latest>> /\ pending' = [pending EXCEPT ![t] = Idle]
    BY <1>5 DEF Apply, Lock
  <2>3. ClocksBelow'
    BY <1>3, <2>2
  <2>4. CASE ~IsNew(state, c, now)
    <3>1. state' = Prune(state, now) /\ applied' = applied
      BY <1>1, <2>1, <2>2, <2>4, ApplyOnceFacts
    <3> QED BY <1>4, <2>1, <2>2, <2>3, <3>1 DEF HistoryInv
  <2>5. CASE IsNew(state, c, now)
    <3>1. entry \in Acceptance /\ entry.command = c /\ entry.now = now
          /\ entry.latest = latest
      BY <1>1, <2>1 DEF Acceptance
    <3>2. applied' = Append(applied, entry)
      BY <2>2, <2>5
    <3> HIDE DEF entry, c, now
    <3>3. /\ Remembers(state', applied', latest)
          /\ \A j \in 1..Len(applied) : applied[j].command.id = c.id =>
               latest > applied[j].now + Retention \/ Len(applied) + 1 - j > MaxSeen
      BY <1>1, <2>1, <2>2, <2>5, <3>1, <3>2, ApplyRemembers
    <3>4. /\ Len(applied') = Len(applied) + 1 /\ Len(applied) \in Nat
          /\ \A j \in 1..Len(applied) : applied'[j] = applied[j]
          /\ applied'[Len(applied) + 1] = entry
      BY <1>1, <3>1, <3>2, AppendProperties
    <3>5. ASSUME NEW j \in 1..Len(applied'), NEW k \in 1..Len(applied'), j < k,
                 applied'[j].command.id = applied'[k].command.id
          PROVE  \/ applied'[k].latest > applied'[j].now + Retention
                 \/ k - j > MaxSeen
      <4>1. j \in 1..Len(applied)
        BY <3>4, <3>5
      <4>2. CASE k \in 1..Len(applied)
        BY <1>1, <3>4, <3>5, <4>1, <4>2 DEF AppliedOncePerRetention
      <4>3. CASE k = Len(applied) + 1
        BY <3>1, <3>3, <3>4, <3>5, <4>1, <4>3
      <4> QED BY <3>4, <4>2, <4>3
    <3>6. AppliedOncePerRetention'
      BY <3>5 DEF AppliedOncePerRetention
    <3> QED BY <2>2, <2>3, <3>3, <3>6 DEF HistoryInv
  <2> QED BY <2>4, <2>5
<1>6. ASSUME NEW t \in Tasks, Record(t) PROVE HistoryInv'
  <2> DEFINE now == pending[t].now
             p == Prune(state, now)
  <2>1. now \in Nat /\ now <= latest
    BY <1>1, <1>6, PendingCall DEF Record, Lock, ClocksBelow
  <2>2. state'.order = p.order /\ state'.seen = p.seen
    BY <1>1, <1>6, <2>1, RecordRemoteFacts DEF Record
  <2>3. Remembers(p, applied, latest)
    BY <1>1, <2>1, PruneRemembers
  <2> HIDE DEF p
  <2>4. Remembers(state', applied, latest)
    BY <2>2, <2>3 DEF Remembers
  <2>5. UNCHANGED <<clock, latest, applied>> /\ pending' = [pending EXCEPT ![t] = Idle]
    BY <1>6 DEF Record, Lock
  <2> QED BY <1>1, <1>3, <2>4, <2>5 DEF HistoryInv, AppliedOncePerRetention
<1>7. ASSUME NEW t \in Tasks, Read(t) PROVE HistoryInv'
  <2>1. pending[t].now \in Nat /\ pending[t].now <= latest
    BY <1>1, <1>7, PendingCall DEF Read, Lock, ClocksBelow
  <2> QED BY <1>3, <1>4, <1>7, <2>1 DEF Read, Lock, HistoryInv
<1>8. CASE CleanUp
  <2>1. clock <= latest
    BY <1>1 DEF ClocksBelow
  <2>2. Remembers(state, applied, latest)' /\ AppliedOncePerRetention'
    BY <1>1, <1>4, <1>8, <2>1 DEF CleanUp
  <2> QED BY <1>1, <1>8, <2>2 DEF CleanUp, HistoryInv, ClocksBelow
<1>9. CASE Advance
  <2>1. /\ latest' \in Nat /\ clock' \in Nat /\ clock' <= latest' /\ latest <= latest'
        /\ UNCHANGED <<state, pending, applied>>
    BY <1>1, <1>9 DEF Advance
  <2>2. Remembers(state, applied, latest')
    BY <1>1, <2>1, RemembersLater
  <2>3. ASSUME NEW t \in Tasks, pending[t].op # "idle" PROVE pending[t].now <= latest'
    <3>1. pending[t].now <= latest /\ pending[t].now \in Nat
      BY <1>1, <2>3 DEF ClocksBelow, TypeOK, Call, Idle
    <3> QED BY <1>1, <2>1, <3>1
  <2> QED BY <1>1, <2>1, <2>2, <2>3 DEF HistoryInv, ClocksBelow, AppliedOncePerRetention
<1>10. CASE SetBack
  <2>1. clock' <= latest /\ UNCHANGED <<latest, state, pending, applied>>
    BY <1>1, <1>10 DEF SetBack, ClocksBelow
  <2> QED BY <1>1, <2>1 DEF HistoryInv, ClocksBelow, AppliedOncePerRetention
<1>11. CASE UNCHANGED vars
  BY <1>1, <1>11 DEF vars, HistoryInv, ClocksBelow, AppliedOncePerRetention
<1> QED BY <1>2, <1>5, <1>6, <1>7, <1>8, <1>9, <1>10, <1>11 DEF Next

\* apply_once applies an identifier again only when the retention has passed or
\* more than max_seen_commands commands have been accepted, for every order of
\* the callers and however the system clock is corrected.
THEOREM AppliedOnce == Spec => []AppliedOncePerRetention
<1>1. Init => HistoryInv
  BY DEF Init, Empty, HistoryInv, Remembers, ClocksBelow, AppliedOncePerRetention, Idle
<1>2. HistoryInv => AppliedOncePerRetention
  BY DEF HistoryInv
<1> QED BY <1>1, <1>2, NextHistory, IndexInvariant, PTL DEF Spec

=============================================================================
