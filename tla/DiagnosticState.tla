-------------------------- MODULE DiagnosticState --------------------------
(***************************************************************************)
(* The value guarded by the mutex of DiagnosticState                       *)
(* (kaonic-atak-plugin/src/diagnostics.rs) and what each of its methods    *)
(* does to it while the mutex is held.  Everything here is a pure          *)
(* operator: Diagnostics runs them from concurrent callers, DiagnosticMesh *)
(* runs one of these states at every node of a mesh.                       *)
(*                                                                         *)
(* Times are natural numbers of ticks, TicksPerSecond of them in a second. *)
(* A diagnostic record is represented by its observed_at: the other fields *)
(* are copied from the event and never read back by this module.           *)
(***************************************************************************)
EXTENDS Naturals, Sequences, FiniteSets, Functions

CONSTANTS
  Ids,             \* command identifiers
  Seconds,         \* the durations an enable command may carry
  None,            \* enabled_until: None
  MaxRecords,      \* max_records
  MaxSeen,         \* max_seen_commands
  Retention,       \* SEEN_COMMAND_RETENTION, in ticks
  TicksPerSecond   \* resolution of the clock below a second

ASSUME NoneAssumption == None \notin Nat
ASSUME SecondsAssumption == Seconds \subseteq Nat \ {0}
ASSUME MaxRecordsAssumption == MaxRecords \in Nat \ {0}
ASSUME MaxSeenAssumption == MaxSeen \in Nat \ {0}
ASSUME RetentionAssumption == Retention \in Nat
ASSUME TicksAssumption == TicksPerSecond \in Nat \ {0}

(***************************************************************************)
(* A command that passed DiagnosticCommand::parse: validate_id accepted    *)
(* its identifier and an enable carries 1..MAX_ENABLE_SECONDS.             *)
(***************************************************************************)
Enables  == [id : Ids, action : {"enable"}, seconds : Seconds]
Disables == [id : Ids, action : {"disable"}, seconds : {0}]
Command  == Enables \cup Disables

\* DiagnosticInner.  seen is a function from the remembered identifiers to
\* the time each was applied, order the queue of identifiers that ages it.
IsInner(s) ==
  /\ s = [until |-> s.until, records |-> s.records, seen |-> s.seen, order |-> s.order]
  /\ s.until \in Nat \cup {None}
  /\ s.records \in Seq(Nat)
  /\ s.seen \in [DOMAIN s.seen -> Nat]
  /\ DOMAIN s.seen \subseteq Ids
  /\ s.order \in Seq(Ids)

Empty == [until |-> None, records |-> <<>>, seen |-> <<>>, order |-> <<>>]

Forget(seen, gone) == Restrict(seen, DOMAIN seen \ gone)

\* Pops the n oldest identifiers off seen_order and out of seen_commands.
DropOldest(s, n) ==
  [s EXCEPT !.order = SubSeq(@, n + 1, Len(@)),
            !.seen  = Forget(@, {s.order[i] : i \in 1..n})]

-----------------------------------------------------------------------------
\* A plausible bug: an off-by-one at the end of the retention.
RememberedTooBriefly(s, id, now) ==
  id \in DOMAIN s.seen /\ now < s.seen[id] + Retention

\* A time of application that lies ahead of now counts as just applied.
Remembered(s, id, now) ==
  id \in DOMAIN s.seen /\ now <= s.seen[id] + Retention

\* The positions at the front of seen_order that the pruning loop pops: it
\* stops at the first identifier it keeps.
Forgettable(s, now) ==
  {i \in 1..Len(s.order) : \A j \in 1..i : ~Remembered(s, s.order[j], now)}

\* A plausible bug: the window ends but what it recorded stays behind.
CloseExpiredKeepingRecords(s, now) ==
  IF s.until # None /\ s.until <= now THEN [s EXCEPT !.until = None] ELSE s

CloseExpired(s, now) ==
  IF s.until # None /\ s.until <= now
  THEN [s EXCEPT !.until = None, !.records = <<>>]
  ELSE s

\* prune_locked
Prune(s, now) ==
  LET closed == CloseExpired(s, now)
  IN  DropOldest(closed, Cardinality(Forgettable(closed, now)))

Excess(s) ==
  IF Cardinality(DOMAIN s.seen) > MaxSeen
  THEN Cardinality(DOMAIN s.seen) - MaxSeen
  ELSE 0

\* A plausible bug: the bound evicts from the map and leaves the queue alone.
EnforceSeenBoundMapOnly(s) ==
  [s EXCEPT !.seen = Forget(@, {s.order[i] : i \in 1..Excess(s)})]

\* enforce_seen_bound_locked
EnforceSeenBound(s) == DropOldest(s, Excess(s))

Remember(s, id, now) ==
  [s EXCEPT !.order = Append(@, id),
            !.seen  = [i \in DOMAIN @ \cup {id} |-> IF i = id THEN now ELSE @[i]]]

\* The result of apply_once: has this command not been seen?
IsNew(s, c, now) == c.id \notin DOMAIN Prune(s, now).seen

\* A plausible bug: a disable closes the window but does not drop its records.
ObeyKeepingRecords(s, c, now) ==
  [s EXCEPT !.records = IF c.action = "enable" THEN <<>> ELSE @,
            !.until   = IF c.action = "enable"
                        THEN now + c.seconds * TicksPerSecond
                        ELSE None]

\* A plausible bug: a disable ends the window a tick ago instead of clearing it.
ObeyBackdating(s, c, now) ==
  [s EXCEPT !.records = <<>>,
            !.until   = IF c.action = "enable"
                        THEN now + c.seconds * TicksPerSecond
                        ELSE now - 1]

\* The two arms of apply_once on the command's action.
Obey(s, c, now) ==
  [s EXCEPT !.records = <<>>,
            !.until   = IF c.action = "enable"
                        THEN now + c.seconds * TicksPerSecond
                        ELSE None]

\* apply_once_at
ApplyOnce(s, c, now) ==
  LET pruned == Prune(s, now)
  IN  IF IsNew(s, c, now)
      THEN Obey(EnforceSeenBound(Remember(pruned, c.id, now)), c, now)
      ELSE pruned

IsEnabled(s, now) == s.until # None /\ s.until > now

LastN(q, n) == IF Len(q) <= n THEN q ELSE SubSeq(q, Len(q) - n + 1, Len(q))

\* record_remote_at, for a valid event from a remote peer
RecordRemote(s, now) ==
  LET pruned == Prune(s, now)
  IN  IF IsEnabled(pruned, now)
      THEN [pruned EXCEPT !.records = LastN(Append(@, now), MaxRecords)]
      ELSE pruned

\* remaining_seconds of status_at: whole seconds, rounded down.
RemainingSeconds(s, now) ==
  IF s.until # None /\ s.until >= now
  THEN (s.until - now) \div TicksPerSecond
  ELSE 0

\* The reply of status_at.
Status(s, now) ==
  LET pruned == Prune(s, now)
  IN  [enabled     |-> RemainingSeconds(pruned, now) > 0,
       recordCount |-> Len(pruned.records)]

-----------------------------------------------------------------------------
\* seen_order lists every remembered identifier exactly once and nothing else.
Indexed(s) ==
  /\ \A i, j \in 1..Len(s.order) : s.order[i] = s.order[j] => i = j
  /\ DOMAIN s.seen = {s.order[i] : i \in 1..Len(s.order)}
=============================================================================
