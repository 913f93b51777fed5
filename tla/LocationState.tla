---------------------------- MODULE LocationState ----------------------------
(***************************************************************************)
(* The positions the ATAK plugin remembers (kaonic-atak-plugin, cot.rs):   *)
(* a table of the last position per source and uid, pruned by age and      *)
(* capped in size.  The tasks of the channels parse their packets and      *)
(* record positions concurrently; a record is stamped before its task has  *)
(* the mutex of the table, so it may be inserted after a later one.        *)
(*                                                                         *)
(* What a record holds besides its key and its time is left out, and so    *)
(* are the parsing of a packet, which decides whether there is a position  *)
(* to record, the counters and the log.                                    *)
(***************************************************************************)
EXTENDS Naturals, FiniteSets

CONSTANTS
  Key,         \* <<source, uid>>
  Task,        \* tasks that record positions
  None,
  MaxRecords,  \* max_records, at least 1
  Retention,   \* in ticks of the clock
  MaxTime      \* bound on the clock

VARIABLES
  clock,
  records,     \* the table: time per key
  task,        \* per task: the record it is about to insert, or None
  latest,      \* history: per key, the time of its latest inserted record
  crossed      \* history: two tasks held records of one key at a time

vars == <<clock, records, task, latest, crossed>>

Time == 0..MaxTime

\* The types, and that the table keeps to its size.
TypeOK ==
  /\ clock \in Time
  /\ DOMAIN records \subseteq Key /\ \A k \in DOMAIN records : records[k] \in Time
  /\ Cardinality(DOMAIN records) <= MaxRecords
  /\ task \in [Task -> [key : Key, time : Time] \cup {None}]
  /\ latest \in [Key -> Time \cup {None}] /\ crossed \in BOOLEAN

Init ==
  /\ clock = 0
  /\ records = [k \in {} |-> 0]
  /\ task = [t \in Task |-> None]
  /\ latest = [k \in Key |-> None]
  /\ crossed = FALSE

-----------------------------------------------------------------------------
Tick ==
  /\ clock < MaxTime
  /\ clock' = clock + 1
  /\ UNCHANGED <<records, task, latest, crossed>>

\* A packet with a position has been parsed: its record is made and stamped.
Stamp(t, k) ==
  /\ task[t] = None
  /\ task' = [task EXCEPT ![t] = [key |-> k, time |-> clock]]
  /\ crossed' = (crossed \/ \E u \in Task : task[u] # None /\ task[u].key = k)
  /\ UNCHANGED <<clock, records, latest>>

Alive(time) == clock <= time + Retention

\* prune_locked
Pruned(rs) == [k \in {k \in DOMAIN rs : Alive(rs[k])} |-> rs[k]]

\* A plausible bug: the newest is taken out.
Newest(rs) == {k \in DOMAIN rs : \A l \in DOMAIN rs : rs[l] <= rs[k]}

\* min_by_key; which of several takes the order of the hash map.
Oldest(rs) == {k \in DOMAIN rs : \A l \in DOMAIN rs : rs[k] <= rs[l]}

\* The table is pruned and the record put in; a full table loses its oldest.
Insert(t) ==
  LET r    == task[t]
      kept == Pruned(records)
      new  == [k \in DOMAIN kept \cup {r.key} |->
                 IF k = r.key THEN r.time ELSE kept[k]]
  IN  /\ r # None
      /\ IF Cardinality(DOMAIN new) <= MaxRecords
         THEN records' = new
         ELSE \E out \in Oldest(new) :
                records' = [k \in DOMAIN new \ {out} |-> new[k]]
      /\ task' = [task EXCEPT ![t] = None]
      /\ latest' = [latest EXCEPT ![r.key] =
                      IF @ = None \/ @ <= r.time THEN r.time ELSE @]
      /\ UNCHANGED <<clock, crossed>>

\* The task counts the records it knows, which prunes the table.
Count ==
  /\ records' = Pruned(records)
  /\ UNCHANGED <<clock, task, latest, crossed>>

Next ==
  \/ Tick \/ Count
  \/ \E t \in Task : Insert(t) \/ \E k \in Key : Stamp(t, k)

Spec == Init /\ [][Next]_vars

-----------------------------------------------------------------------------
(* Properties *)

\* The table holds the latest position of each uid, and a position still alive
\* is missing only for others as new, unless two tasks held positions of one
\* uid at a time: in whatever order the stamped records reach the table.
LatestAreKept ==
  ~crossed =>
    /\ \A k \in DOMAIN records : records[k] = latest[k]
    /\ \A k \in Key \ DOMAIN records :
         latest[k] # None /\ Alive(latest[k]) =>
           \A l \in DOMAIN records : records[l] >= latest[k]
=============================================================================
