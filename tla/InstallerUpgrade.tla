-------------------------- MODULE InstallerUpgrade -------------------------
(***************************************************************************)
(* The replacement of the kaonic-installer binary by the gateway           *)
(* (upgrade_installer_binary and replace_installer_binary in               *)
(* http/installer.rs): the upload is written to one temporary file, the    *)
(* service is stopped, the file renamed over the binary, the service       *)
(* started.  Nothing keeps two uploads apart.                              *)
(*                                                                         *)
(* A file is an inode, since a writer that has it open goes on writing     *)
(* when it has been renamed or removed.  It is whole when it holds the     *)
(* bytes of exactly one upload.                                            *)
(***************************************************************************)
EXTENDS Naturals, FiniteSets

CONSTANTS
  Upload,        \* requests that can be in progress together
  None,
  MaxUploads,    \* bound on the uploads; inode 0 is the first binary
  MaxFaults      \* bound on failing calls and crashes

VARIABLES
  bytes,         \* per inode: the uploads whose bytes it holds
  temp,          \* inode of .kaonic-installer.upgrade.tmp, or None
  target,        \* inode of the installer binary
  service,       \* the installer service runs
  step,          \* per request: where it is
  fd,            \* per request: the inode it is writing
  overlapped,    \* history: two uploads were in progress together
  interrupted,   \* history: a systemctl call failed or a crash came between
                 \* stop and start since the service last ran
  uploads, faults

vars == <<bytes, temp, target, service, step, fd, overlapped, interrupted,
          uploads, faults>>

Inode == 0..MaxUploads
Steps == {"idle", "begin", "write", "chmod", "stop", "rename", "undo", "start"}
Busy(u) == step[u] # "idle"

\* The types; an inode is open only while it is written.
TypeOK ==
  /\ bytes \in [Inode -> SUBSET (Upload \cup {None})]
  /\ temp \in Inode \cup {None} /\ target \in Inode
  /\ service \in BOOLEAN
  /\ step \in [Upload -> Steps] /\ fd \in [Upload -> Inode \cup {None}]
  /\ \A u \in Upload : (fd[u] # None) = (step[u] = "write")
  /\ overlapped \in BOOLEAN /\ interrupted \in BOOLEAN

\* The binary that is there first counts as an upload of nobody's.
Init ==
  /\ bytes = [i \in Inode |-> IF i = 0 THEN {None} ELSE {}]
  /\ temp = None /\ target = 0
  /\ service = TRUE
  /\ step = [u \in Upload |-> "idle"] /\ fd = [u \in Upload |-> None]
  /\ overlapped = FALSE /\ interrupted = FALSE
  /\ uploads = 0 /\ faults = 0

Whole(i) == Cardinality(bytes[i]) = 1
Goto(u, s) == step' = [step EXCEPT ![u] = s]

-----------------------------------------------------------------------------

\* A body that is empty or too large is refused with nothing done.
Arrive(u) ==
  /\ ~Busy(u) /\ uploads < MaxUploads
  /\ uploads' = uploads + 1
  /\ Goto(u, "begin")
  /\ overlapped' = (overlapped \/ \E v \in Upload : Busy(v))
  /\ UNCHANGED <<bytes, temp, target, service, fd, interrupted, faults>>

\* A plausible bug: the upload is written over the binary itself.
OpenTarget(u) ==
  /\ step[u] = "begin"
  /\ bytes' = [bytes EXCEPT ![target] = {}]
  /\ fd' = [fd EXCEPT ![u] = target]
  /\ temp' = temp
  /\ Goto(u, "write")
  /\ UNCHANGED <<target, service, overlapped, interrupted, uploads, faults>>

\* fs::write creates or truncates the temporary file ...
Open(u) ==
  /\ step[u] = "begin"
  /\ \E i \in IF temp # None THEN {temp}
              ELSE {n \in Inode : n # target /\ \A v \in Upload : fd[v] # n} :
       /\ bytes' = [bytes EXCEPT ![i] = {}]
       /\ fd' = [fd EXCEPT ![u] = i]
       /\ temp' = i
  /\ Goto(u, "write")
  /\ UNCHANGED <<target, service, overlapped, interrupted, uploads, faults>>

\* ... and writes it, wherever the inode is by then.
Write(u) ==
  /\ step[u] = "write"
  /\ bytes' = [bytes EXCEPT ![fd[u]] = @ \cup {u}]
  /\ fd' = [fd EXCEPT ![u] = None]
  /\ Goto(u, "chmod")
  /\ UNCHANGED <<temp, target, service, overlapped, interrupted, uploads, faults>>

\* make_executable; a temporary file that is gone is an error.
MakeExecutable(u) ==
  /\ step[u] = "chmod"
  /\ Goto(u, IF temp = None THEN "idle" ELSE "stop")
  /\ UNCHANGED <<bytes, temp, target, service, fd, overlapped, interrupted, uploads, faults>>

StopService(u) ==
  /\ step[u] = "stop"
  /\ service' = FALSE
  /\ Goto(u, "rename")
  /\ UNCHANGED <<bytes, temp, target, fd, overlapped, interrupted, uploads, faults>>

Rename(u) ==
  /\ step[u] = "rename"
  /\ IF temp = None
     THEN Goto(u, "undo") /\ UNCHANGED <<temp, target>>
     ELSE Goto(u, "start") /\ target' = temp /\ temp' = None
  /\ UNCHANGED <<bytes, service, fd, overlapped, interrupted, uploads, faults>>

\* systemd starts a binary that is whole and not open for writing.
CanRun == Whole(target) /\ \A v \in Upload : fd[v] # target

\* A plausible bug: the failed upgrade removes its file and leaves it at that.
UndoWithoutStart(u) ==
  /\ step[u] = "undo"
  /\ temp' = None
  /\ Goto(u, "idle")
  /\ UNCHANGED <<bytes, target, service, fd, overlapped, interrupted, uploads, faults>>

\* The rename failed: the service is started again, the file removed.
Undo(u) ==
  /\ step[u] = "undo"
  /\ service' = (service \/ CanRun)
  /\ temp' = None
  /\ Goto(u, "idle")
  /\ UNCHANGED <<bytes, target, fd, overlapped, interrupted, uploads, faults>>

StartService(u) ==
  /\ step[u] = "start"
  /\ service' = (service \/ CanRun)
  /\ interrupted' = (interrupted /\ ~service')
  /\ Goto(u, "idle")
  /\ UNCHANGED <<bytes, temp, target, fd, overlapped, uploads, faults>>

\* A call fails: the write leaves the file as it is, the others remove it, and
\* a failed rename goes on to start the service again.
Fail(u) ==
  /\ Busy(u) /\ faults < MaxFaults
  /\ faults' = faults + 1
  /\ fd' = [fd EXCEPT ![u] = None]
  /\ temp' = IF step[u] \in {"chmod", "stop"} THEN None ELSE temp
  /\ Goto(u, IF step[u] = "rename" THEN "undo" ELSE "idle")
  /\ interrupted' = (interrupted \/ step[u] \in {"undo", "start"})
  /\ UNCHANGED <<bytes, target, service, overlapped, uploads>>

\* The gateway stops; the installer service is another process.
Crash ==
  /\ faults < MaxFaults /\ faults' = faults + 1
  /\ step' = [u \in Upload |-> "idle"]
  /\ fd' = [u \in Upload |-> None]
  /\ interrupted' = (interrupted \/ \E u \in Upload : step[u] \in {"rename", "undo", "start"})
  /\ UNCHANGED <<bytes, temp, target, service, overlapped, uploads>>

Next == \/ Crash
        \/ \E u \in Upload :
             \/ Arrive(u) \/ Open(u) \/ Write(u) \/ MakeExecutable(u)
             \/ StopService(u) \/ Rename(u) \/ Undo(u) \/ StartService(u) \/ Fail(u)

Spec == Init /\ [][Next]_vars

-----------------------------------------------------------------------------
(* Properties *)

\* As long as no two uploads met, the installer binary is one whole upload at
\* every moment: through writes that fail halfway, crashes of the gateway and
\* temporary files left behind.
BinaryStaysWhole == ~overlapped => Whole(target)

\* As long as no two uploads met, the installer service runs again whenever no
\* upgrade is in progress, unless systemctl failed or the gateway stopped
\* between the stop and the start: a failed upgrade brings the old one back.
ServiceComesBack ==
  ~overlapped /\ ~interrupted /\ (\A u \in Upload : ~Busy(u)) => service
=============================================================================
