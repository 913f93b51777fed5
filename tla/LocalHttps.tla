----------------------------- MODULE LocalHttps ----------------------------
(***************************************************************************)
(* The certificate files of the gateway (local_https.rs): the key of the   *)
(* local root CA, its certificate, and the TLS certificate it signs for    *)
(* the web server, prepared at each start (main.rs) and looked after again *)
(* whenever the system page is loaded (pages/update.rs).                   *)
(*                                                                         *)
(* The CA key is random and made once; a key that older versions derived   *)
(* from a phrase is replaced.  Everything else follows from the CA key and *)
(* the device, so a certificate is written as the key it is signed with.   *)
(* Files are written in place: first truncated, then filled.               *)
(***************************************************************************)
EXTENDS Naturals

CONSTANTS
  Reader,      \* system pages being loaded
  None,        \* no file
  Legacy,      \* the derived CA key
  Empty, Torn, \* a file truncated, or cut off
  MaxKeys,     \* bound on the keys generated; keys are 1..MaxKeys
  MaxFaults    \* bound on failing writes and crashes

VARIABLES
  ca_key, ca_cert,  \* rootca.key and rootca.crt
  tls_cert,         \* plugin-tls.crt
  state,            \* of the process: "down", "starting", "serving", "headless"
  step,             \* per run of ensure_root_ca_files: where it is
  key,              \* the key it works with, in memory
  stage,            \* of the start: "root", "root_again", "plugin", "done"
  keys,             \* keys generated so far
  settled,          \* history: the key of the first run that met no other run
                    \* and no fault
  disturbed,        \* history: per run, it met another or a fault
  faults

vars == <<ca_key, ca_cert, tls_cert, state, step, key, stage, keys, settled,
          disturbed, faults>>

Start == "start"
Run == Reader \cup {Start}
Key == 1..MaxKeys
File == Key \cup {None, Legacy, Empty, Torn}
Steps == {"idle", "read", "cert", "open", "fill"}

\* The types; only the start works on TLS files, and it serves afterwards.
TypeOK ==
  /\ ca_key \in File /\ ca_cert \in File /\ tls_cert \in File
  /\ state \in {"down", "starting", "serving", "headless"}
  /\ step \in [Run -> Steps] /\ key \in [Run -> Key \cup {None}]
  /\ stage \in {"root", "root_again", "plugin", "done"}
  /\ state = "starting" => \A r \in Reader : step[r] = "idle"
  /\ settled \in Key \cup {None} /\ disturbed \in [Run -> BOOLEAN]
  /\ keys \in 0..MaxKeys

Init ==
  /\ ca_key \in {None, Legacy} /\ ca_cert = ca_key /\ tls_cert = ca_key
  /\ state = "down"
  /\ step = [r \in Run |-> "idle"] /\ key = [r \in Run |-> None]
  /\ stage = "done"
  /\ keys = 0 /\ settled = None
  /\ disturbed = [r \in Run |-> FALSE]
  /\ faults = 0

-----------------------------------------------------------------------------
(* ensure_root_ca_files *)

Goto(r, s) == step' = [step EXCEPT ![r] = s]

\* A run begins; the runs in progress have met.
Begin(r) ==
  /\ Goto(r, "read")
  /\ disturbed' = [q \in Run |->
       IF q = r THEN \E p \in Run : step[p] # "idle"
       ELSE disturbed[q] \/ step[q] # "idle"]

LoadPage(r) ==
  /\ state = "serving" /\ step[r] = "idle"
  /\ Begin(r)
  /\ UNCHANGED <<ca_key, ca_cert, tls_cert, state, key, stage, keys, settled, faults>>

\* What follows a run of the start: main warns of a failure and goes on with
\* ensure_plugin_tls_files, which runs it again and gives up on a failure.
NextStage(r, ok) ==
  stage' = IF r # Start THEN stage
           ELSE CASE stage = "root" -> "root_again"
                  [] stage = "root_again" -> IF ok THEN "plugin" ELSE "done"
                  [] OTHER -> stage
Ends(r, ok) == Goto(r, "idle") /\ NextStage(r, ok)

\* A plausible bug: every start makes a key of its own.
ReadNothing(r) ==
  /\ step[r] = "read" /\ keys < MaxKeys
  /\ keys' = keys + 1 /\ key' = [key EXCEPT ![r] = keys + 1]
  /\ Goto(r, "cert")
  /\ UNCHANGED <<ca_key, ca_cert, tls_cert, state, stage, settled, disturbed, faults>>

\* load_or_create_root_ca_artifacts: a missing, empty or derived key is
\* replaced in memory; one cut off cannot be loaded, and never is again.
ReadKey(r) ==
  /\ step[r] = "read"
  /\ \/ /\ ca_key \in Key
        /\ key' = [key EXCEPT ![r] = ca_key]
        /\ Goto(r, "cert") /\ UNCHANGED <<keys, stage>>
     \/ /\ ca_key \in {None, Legacy, Empty} /\ keys < MaxKeys
        /\ keys' = keys + 1 /\ key' = [key EXCEPT ![r] = keys + 1]
        /\ Goto(r, "cert") /\ UNCHANGED stage
     \/ /\ ca_key = Torn
        /\ Ends(r, FALSE) /\ UNCHANGED <<keys, key>>
  /\ UNCHANGED <<ca_key, ca_cert, tls_cert, state, settled, disturbed, faults>>

\* The certificate is written if it changed.
WriteCert(r) ==
  /\ step[r] = "cert"
  /\ ca_cert' = key[r]
  /\ Goto(r, "open")
  /\ UNCHANGED <<ca_key, tls_cert, state, key, stage, keys, settled, disturbed, faults>>

Settles(r) == IF disturbed[r] \/ settled # None THEN settled ELSE key[r]

\* write_if_changed of the key: nothing if it is there, else it is truncated ...
OpenKey(r) ==
  /\ step[r] = "open"
  /\ IF ca_key = key[r]
     THEN Ends(r, TRUE) /\ settled' = Settles(r) /\ UNCHANGED ca_key
     ELSE Goto(r, "fill") /\ ca_key' = Empty /\ UNCHANGED <<stage, settled>>
  /\ UNCHANGED <<ca_cert, tls_cert, state, key, keys, disturbed, faults>>

\* ... and filled.
FillKey(r) ==
  /\ step[r] = "fill"
  /\ ca_key' = key[r]
  /\ Ends(r, TRUE)
  /\ settled' = Settles(r)
  /\ UNCHANGED <<ca_cert, tls_cert, state, key, keys, disturbed, faults>>

\* A write fails: a file it was filling is left empty or cut off.
Fail(r) ==
  /\ step[r] \in {"cert", "open", "fill"} /\ faults < MaxFaults
  /\ faults' = faults + 1
  /\ ca_key' \in IF step[r] = "fill" THEN {Empty, Torn} ELSE {ca_key}
  /\ ca_cert' \in IF step[r] = "cert" /\ ca_cert # key[r] THEN {Empty, Torn} ELSE {ca_cert}
  /\ Ends(r, FALSE)
  /\ disturbed' = [q \in Run |-> disturbed[q] \/ step[q] # "idle"]
  /\ UNCHANGED <<tls_cert, state, key, keys, settled>>

-----------------------------------------------------------------------------
(* The process *)

Boot ==
  /\ state = "down"
  /\ state' = "starting" /\ stage' = "root"
  /\ Begin(Start)
  /\ UNCHANGED <<ca_key, ca_cert, tls_cert, key, keys, settled, faults>>

Again ==
  /\ state = "starting" /\ stage = "root_again" /\ step[Start] = "idle"
  /\ Begin(Start)
  /\ UNCHANGED <<ca_key, ca_cert, tls_cert, state, key, stage, keys, settled, faults>>

\* ensure_plugin_tls_files loads the key once more and signs with it.
SignPlugin ==
  /\ state = "starting" /\ stage = "plugin"
  /\ \E ok \in {TRUE} \cup (IF faults < MaxFaults THEN {FALSE} ELSE {}) :
       /\ tls_cert' \in IF ok \/ tls_cert = ca_key THEN {ca_key} ELSE {Empty, Torn}
       /\ faults' = IF ok THEN faults ELSE faults + 1
  /\ stage' = "done"
  /\ UNCHANGED <<ca_key, ca_cert, state, step, key, keys, settled, disturbed>>

\* http::serve panics without certificate files it can read: the process goes
\* on without a web server.
Serve ==
  /\ state = "starting" /\ stage = "done" /\ step[Start] = "idle"
  /\ state' = IF tls_cert \in Key \cup {Legacy} THEN "serving" ELSE "headless"
  /\ UNCHANGED <<ca_key, ca_cert, tls_cert, step, key, stage, keys, settled,
                 disturbed, faults>>

\* The device loses power; a file being written is left anyhow.
Crash ==
  /\ state # "down" /\ faults < MaxFaults
  /\ faults' = faults + 1
  /\ state' = "down" /\ stage' = "done"
  /\ step' = [r \in Run |-> "idle"]
  /\ disturbed' = [r \in Run |-> FALSE]
  /\ ca_key' \in IF \E r \in Run : step[r] = "fill" THEN {Empty, Torn} ELSE {ca_key}
  /\ ca_cert' \in IF \E r \in Run : step[r] = "cert" /\ ca_cert # key[r]
                  THEN {Empty, Torn, ca_cert} ELSE {ca_cert}
  /\ UNCHANGED <<tls_cert, key, keys, settled>>

Next == \/ Boot \/ Again \/ SignPlugin \/ Serve \/ Crash
        \/ \E r \in Reader : LoadPage(r)
        \/ \E r \in Run : ReadKey(r) \/ WriteCert(r) \/ OpenKey(r) \/ FillKey(r) \/ Fail(r)

Spec == Init /\ [][Next]_vars

-----------------------------------------------------------------------------
(* Properties *)

\* The root CA that users download and trust survives: once one run has ended
\* undisturbed, its key and the certificate of that key stay in place through
\* every later page load, failing write, crash and restart.
RootCaSurvives == settled # None => ca_key = settled /\ ca_cert = settled
=============================================================================
