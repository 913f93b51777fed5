---------------------------- MODULE Diagnostics ----------------------------
(***************************************************************************)
(* The diagnostics control plane of one plugin process: the concurrent     *)
(* users of a shared DiagnosticState.                                      *)
(*                                                                         *)
(* The tasks of main.rs (one receiver per ATAK channel, the local control  *)
(* sockets, the mesh control task) call apply_once, record_remote, status  *)
(* and recent.  Each of these reads SystemTime::now() and only then takes  *)
(* the mutex, so another task's critical section may run in between and    *)
(* the critical sections need not run in the order of their times: Begin   *)
(* and Finish are separate steps.  The cleanup task reads the clock with   *)
(* the mutex held, so CleanUp is one step.  SystemTime is not monotonic:   *)
(* SetBack is the system clock being corrected backwards.                  *)
(***************************************************************************)
EXTENDS DiagnosticState

CONSTANTS
  Tasks,        \* the tasks that call into the shared state
  LastCall,     \* bound: no call begins after this time
  MaxTime,      \* bound on the clock
  MaxCalls,     \* bound on the number of calls
  MaxSetBacks   \* bound on the number of backward corrections of the clock

ASSUME BoundsAssumption ==
  /\ LastCall \in Nat /\ MaxTime \in Nat
  /\ MaxCalls \in Nat /\ MaxSetBacks \in Nat

VARIABLES
  clock,      \* the system clock, in ticks
  state,      \* the DiagnosticInner behind the mutex
  pending,    \* per task: the call that has read the clock but not locked yet
  calls,      \* number of calls begun
  setBacks,   \* number of backward corrections of the clock
  latest,     \* history: the highest time the clock has shown
  applied     \* history: the commands apply_once accepted, in order

vars == <<clock, state, pending, calls, setBacks, latest, applied>>

Idle == [op |-> "idle"]
Call ==
  [op : {"apply"}, command : Command, now : Nat]
  \cup [op : {"record", "read"}, now : Nat]
  \cup {Idle}

Acceptance == [command : Command, now : Nat, latest : Nat]

\* The types: whatever the clock does, no time of the state is a negative number.
TypeOK ==
  /\ clock \in Nat /\ latest \in Nat
  /\ IsInner(state)
  /\ pending \in [Tasks -> Call]
  /\ calls \in Nat /\ setBacks \in Nat
  /\ applied \in Seq(Acceptance)

Init ==
  /\ clock = 0
  /\ state = Empty
  /\ pending = [t \in Tasks |-> Idle]
  /\ calls = 0
  /\ setBacks = 0
  /\ latest = 0
  /\ applied = <<>>

-----------------------------------------------------------------------------
\* A task evaluates the SystemTime::now() argument of its call.
Begin(t, call) ==
  /\ pending[t] = Idle
  /\ clock <= LastCall
  /\ calls < MaxCalls
  /\ pending' = [pending EXCEPT ![t] = call]
  /\ calls' = calls + 1
  /\ UNCHANGED <<clock, state, setBacks, latest, applied>>

BeginApply(t) ==
  \E c \in Command : Begin(t, [op |-> "apply", command |-> c, now |-> clock])

BeginOther(t) ==
  \E op \in {"record", "read"} :
    Begin(t, [op |-> op, now |-> clock])

\* A task is granted the mutex and runs the critical section of its call.
Lock(t, op) ==
  /\ pending[t].op = op
  /\ pending' = [pending EXCEPT ![t] = Idle]
  /\ UNCHANGED <<clock, calls, setBacks, latest>>

\* apply_once
Apply(t) ==
  LET c == pending[t].command
      now == pending[t].now
  IN  /\ Lock(t, "apply")
      /\ state' = ApplyOnce(state, c, now)
      /\ applied' = IF IsNew(state, c, now)
                    THEN Append(applied, [command |-> c, now |-> now, latest |-> latest])
                    ELSE applied

\* record_remote
Record(t) ==
  /\ Lock(t, "record")
  /\ state' = RecordRemote(state, pending[t].now)
  /\ UNCHANGED applied

\* status and recent: prune, then copy out the count or the newest records
Read(t) ==
  /\ Lock(t, "read")
  /\ state' = Prune(state, pending[t].now)
  /\ UNCHANGED applied

\* One turn of spawn_diagnostics_expiry_cleanup: prune_expired
CleanUp ==
  /\ state' = Prune(state, clock)
  /\ UNCHANGED <<clock, pending, calls, setBacks, latest, applied>>

-----------------------------------------------------------------------------
Advance ==
  /\ clock < MaxTime
  /\ clock' = clock + 1
  /\ latest' = IF clock' > latest THEN clock' ELSE latest
  /\ UNCHANGED <<state, pending, calls, setBacks, applied>>

SetBack ==
  /\ setBacks < MaxSetBacks
  /\ setBacks' = setBacks + 1
  /\ \E time \in 0..clock : time # clock /\ clock' = time
  /\ UNCHANGED <<state, pending, calls, latest, applied>>

Next ==
  \/ \E t \in Tasks :
       \/ BeginApply(t) \/ BeginOther(t)
       \/ Apply(t) \/ Record(t) \/ Read(t)
  \/ CleanUp
  \/ Advance \/ SetBack

\* Time passes, and the cleanup interval keeps ticking.
Fairness == WF_vars(Advance) /\ WF_vars(CleanUp)

Spec == Init /\ [][Next]_vars
FairSpec == Spec /\ Fairness

-----------------------------------------------------------------------------
\* The seen-command index (apply_once, prune_locked and
\* enforce_seen_bound_locked together) stays consistent: the queue holds each
\* remembered identifier exactly once, nothing else, and no more of them than
\* the bound, whatever the order of the times the callers bring.
SeenIndexConsistent ==
  /\ Indexed(state)
  /\ Cardinality(DOMAIN state.seen) <= MaxSeen

\* Records exist only inside a window, every one of them was observed before
\* the window closes, there are at most max_records, and a window is open only
\* if the last command applied was the enable that opened it: no caller that
\* read the clock earlier can reopen or refill what a disable has ended.
WindowFollowsLastCommand ==
  /\ state.records # <<>> => state.until # None
  /\ state.until # None =>
       /\ applied # <<>>
       /\ LET last == applied[Len(applied)]
          IN  /\ last.command.action = "enable"
              /\ state.until = last.now + last.command.seconds * TicksPerSecond
       /\ \A i \in 1..Len(state.records) : state.records[i] < state.until
  /\ Len(state.records) <= MaxRecords

\* "Each node applies each command identifier once" (docs/Diagnostics.md:39),
\* as far as the code can keep it: when apply_once accepts an identifier it has
\* accepted before, the clock has been more than the retention past the earlier
\* acceptance, or more than max_seen_commands commands were accepted from that
\* one to this one.
AppliedOncePerRetention ==
  \A j, k \in 1..Len(applied) :
    /\ j < k
    /\ applied[j].command.id = applied[k].command.id
    => \/ applied[k].latest > applied[j].now + Retention
       \/ k - j > MaxSeen

\* "Enable requests expire automatically" (docs/Diagnostics.md:50) and the
\* records go with them even if nothing else ever calls into the state: the
\* cleanup task removes them.
RecordsEventuallyCleared == state.records # <<>> ~> state.records = <<>>

\* "While disabled, ... peer-to-CoT diagnostic records are not retained"
\* (docs/Diagnostics.md:17): the reply of a status call that is granted the
\* mutex now counts no records if it says that diagnostics are disabled.
DisabledStatusHasNoRecords ==
  \A t \in Tasks : pending[t].op = "read" =>
    LET reply == Status(state, pending[t].now)
    IN  ~reply.enabled => reply.recordCount = 0
=============================================================================
