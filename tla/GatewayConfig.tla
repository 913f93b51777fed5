--------------------------- MODULE GatewayConfig ---------------------------
(***************************************************************************)
(* The settings of the gateway and what runs by them: the SQLite database  *)
(* (settings/db.rs), the HTTP handlers and server functions that change it *)
(* (http/handlers.rs, pages/radio.rs), and the runtime they apply it to,   *)
(* which the next start reads back (main.rs).                              *)
(*                                                                         *)
(* A handler takes the settings mutex, loads what it does not replace and  *)
(* saves a whole configuration as a sequence of SQL statements, each       *)
(* committed by itself.  It then gives the mutex up and applies its part   *)
(* to the VPN runtime or, under the mutex of the radio client, to a radio  *)
(* module.  The process may stop between any two steps.                    *)
(*                                                                         *)
(* announce_freq_secs is a key like network, and is left out.  Requests    *)
(* that are refused before they touch anything (an unparsable route or     *)
(* peer hash in put_vpn_routes, put_vpn_access) are left out too.          *)
(***************************************************************************)
EXTENDS Naturals, Sequences, SequencesExt

CONSTANTS
  Client,        \* HTTP requests that can be in progress together
  Peer,          \* strings that may stand in the peers table
  BadPeer,       \* those that are no destination hash
  BadNetwork,    \* networks without two host bits
  Module,        \* RF modules
  Default,       \* the values load_config takes for missing keys
  Configs,       \* configurations a whole-configuration request may carry
  RouteChoice,   \* route lists put_vpn_routes may carry
  AccessChoice,  \* <<allow_all_peers, peers>> put_vpn_access may carry
  RadioChoice,   \* values of radio_config and modulation of a request
  Name,          \* values a generated seed or codename may have
  None,
  MaxRequests,   \* bound on the requests of a behaviour
  MaxFailures,   \* bound on the statements and radio calls that fail
  MaxCrashes     \* bound on the crashes

VARIABLES
  settings,  \* table settings: key -> value or None
  modules,   \* its keys per RF module
  peers,     \* table peers
  up,        \* "down", "booting" (settings loaded) or "serving"
  vpn,       \* VpnRuntime: its policy and routes, or NoVpn
  radio,     \* what each RF module is set to
  holder,    \* who holds the settings mutex, or None
  tuner,     \* who holds the mutex of the radio client, or None
  pc,        \* per client: the step it is at
  job,       \* per client: its request
  todo,      \* per client: the statements its save has left
  meant,     \* history: the configuration the completed saves amount to
  excused,   \* history: the parts of the runtime that may differ from meant
  requests, failures, crashes

vars == <<settings, modules, peers, up, vpn, radio, holder, tuner, pc, job, todo,
          meant, excused, requests, failures, crashes>>

Half == {"radio_config", "modulation"}
RadioKey == Module \X Half
Key == {"network", "routes", "all", "seed", "codename"}
Part == {"policy", "routes"} \cup Module

\* A configuration: no value of it is missing.
IsConfig(c) ==
  /\ c = [network |-> c.network, routes |-> c.routes, all |-> c.all,
          peers |-> c.peers, radio |-> [k \in RadioKey |-> c.radio[k]]]
  /\ c.network # None /\ c.routes # None /\ c.all # None
  /\ \A k \in RadioKey : c.radio[k] # None
  /\ c.peers \subseteq Peer

\* load_config: a missing key has its default.
Loaded(k) == IF settings[k] = None THEN Default[k] ELSE settings[k]
LoadConfig ==
  [network |-> Loaded("network"), routes |-> Loaded("routes"),
   all |-> Loaded("all"), peers |-> peers,
   radio |-> [k \in RadioKey |-> IF modules[k] = None THEN Default.radio[k]
                                 ELSE modules[k]]]

Request ==
  [kind : {"settings", "save_settings"}, config : Configs]
  \cup [kind : {"routes"}, routes : RouteChoice]
  \cup {[kind |-> "access", all |-> a[1], peers |-> a[2]] : a \in AccessChoice}
  \cup [kind : {"radio", "save_module"}, module : Module, value : RadioChoice]
  \cup [kind : {"codename"}, name : Name]

\* The configuration a request wants, given the one it loaded.
Wanted(j, was) ==
  CASE j.kind \in {"settings", "save_settings"} -> j.config
    [] j.kind = "routes" -> [was EXCEPT !.routes = j.routes]
    [] j.kind = "access" -> [was EXCEPT !.all = j.all, !.peers = j.peers]
    [] j.kind \in {"radio", "save_module"} ->
         [was EXCEPT !.radio = [k \in RadioKey |-> IF k[1] = j.module THEN j.value
                                                   ELSE @[k]]]
    [] OTHER -> was

\* The parts of the runtime a request applies itself to, and those it changes
\* in the database alone.
Applied(j) ==
  CASE j.kind = "settings" -> {"policy", "routes"}
    [] j.kind = "routes" -> {"routes"}
    [] j.kind = "access" -> {"policy"}
    [] j.kind \in {"radio", "save_module"} -> {j.module}
    [] OTHER -> {}
Unapplied(j) ==
  CASE j.kind = "settings" -> Module
    [] j.kind = "save_settings" -> Part
    [] OTHER -> {}

Idle == [kind |-> "none"]
NoVpn == [running |-> FALSE]
Steps == {"idle", "waiting", "saving", "policy", "routes", "tune"} \cup Half

\* The types, and that a mutex is held by who is at the steps under it.
TypeOK ==
  /\ DOMAIN settings = Key /\ DOMAIN modules = RadioKey /\ peers \subseteq Peer
  /\ up \in {"down", "booting", "serving"}
  /\ pc \in [Client -> Steps]
  /\ \A c \in Client :
       /\ job[c] \in Request \cup {Idle}
       /\ (holder = c) = (pc[c] = "saving")
       /\ (tuner = c) = (pc[c] \in Half)
       /\ pc[c] # "idle" => up = "serving"
  /\ DOMAIN radio = RadioKey
  /\ IsConfig(meant) /\ excused \subseteq Part

Init ==
  /\ settings = [k \in Key |-> None] /\ modules = [k \in RadioKey |-> None]
  /\ peers = {}
  /\ up = "down" /\ vpn = NoVpn
  /\ radio = [k \in RadioKey |-> None]
  /\ holder = None /\ tuner = None
  /\ pc = [c \in Client |-> "idle"]
  /\ job = [c \in Client |-> Idle]
  /\ todo = [c \in Client |-> <<>>]
  /\ meant = Default
  /\ excused = {}
  /\ requests = 0 /\ failures = 0 /\ crashes = 0

-----------------------------------------------------------------------------
(* The database.  A statement is a function of the two tables.             *)

Set(k, v) == [op |-> "set", key |-> k, value |-> v]
SetModule(k, v) == [op |-> "module", key |-> k, value |-> v]
Clear == [op |-> "clear"]
Inserts(ps) == LET s == SetToSeq(ps)
               IN [i \in 1..Len(s) |-> [op |-> "insert", peer |-> s[i]]]

\* save_module_config
ModuleStatements(c, m) ==
  <<SetModule(<<m, "radio_config">>, c.radio[<<m, "radio_config">>]),
    SetModule(<<m, "modulation">>, c.radio[<<m, "modulation">>])>>
AllModules(c) ==
  LET s == SetToSeq(Module)
  IN [i \in 1..(2 * Len(s)) |-> ModuleStatements(c, s[(i + 1) \div 2])[2 - (i % 2)]]

\* Plausible bugs: the table is filled without being emptied, or the whole
\* configuration is dropped before it is written.
SaveWithoutClear(c) ==
  <<Set("network", c.network), Set("routes", c.routes),
    Set("all", c.all)>> \o Inserts(c.peers) \o AllModules(c)
SaveFromNothing(c) ==
  <<Clear, Set("all", None), Set("network", c.network),
    Set("routes", c.routes), Set("all", c.all)>>
  \o Inserts(c.peers) \o AllModules(c)

\* save_config
SaveConfig(c) ==
  <<Set("network", c.network), Set("routes", c.routes),
    Set("all", c.all), Clear>> \o Inserts(c.peers) \o AllModules(c)

Statements(j) ==
  CASE j.kind \in {"radio", "save_module"} ->
         ModuleStatements(Wanted(j, LoadConfig), j.module)
    [] j.kind = "codename" -> <<Set("codename", j.name)>>
    [] OTHER -> SaveConfig(Wanted(j, LoadConfig))

Perform(s) ==
  /\ settings' = IF s.op = "set" THEN [settings EXCEPT ![s.key] = s.value]
                 ELSE settings
  /\ modules' = IF s.op = "module" THEN [modules EXCEPT ![s.key] = s.value]
                ELSE modules
  /\ peers' = CASE s.op = "clear" -> {}
                [] s.op = "insert" -> peers \cup {s.peer}
                [] OTHER -> peers

-----------------------------------------------------------------------------
(* Start and stop *)

\* load_or_create_codename and load_or_create_seed: a missing one is generated
\* and saved.
CreateIdentity(n) ==
  settings' = [settings EXCEPT !["codename"] = IF @ = None THEN n ELSE @,
                               !["seed"] = IF @ = None THEN n ELSE @]

\* main up to the Reticulum identity.
Boot ==
  /\ up = "down"
  /\ up' = "booting"
  /\ \E n \in Name : CreateIdentity(n)
  /\ UNCHANGED <<modules, peers, vpn, radio, holder, tuner, pc, job, todo, meant, excused,
                 requests, failures, crashes>>

\* VpnRuntime::start refuses a network without room for peers and a peer that
\* is no hash; main then goes on without a VPN.
StartedVpn(ok) ==
  IF ok /\ LoadConfig.network \notin BadNetwork /\ peers \cap BadPeer = {}
  THEN [all |-> LoadConfig.all, peers |-> peers, routes |-> LoadConfig.routes]
  ELSE NoVpn

\* attach_radio_interface: a module that cannot be set is left as it is.
BootedRadio(ok) == IF ok THEN LoadConfig.radio ELSE radio

\* The rest of main: the radio interface, the VPN, then the HTTP server.
Serve ==
  /\ up = "booting"
  /\ up' = "serving"
  /\ \E ok \in {TRUE} \cup (IF failures < MaxFailures THEN {FALSE} ELSE {}) :
       /\ radio' = BootedRadio(ok)
       /\ vpn' = StartedVpn(ok)
       /\ failures' = IF ok THEN failures ELSE failures + 1
       /\ excused' = IF ok THEN {} ELSE Module
  /\ UNCHANGED <<settings, modules, peers, holder, tuner, pc, job, todo, meant,
                 requests, crashes>>

\* A crash, or post_system_reboot or post_system_service_restart.
Stop ==
  /\ up # "down" /\ crashes < MaxCrashes
  /\ up' = "down" /\ vpn' = NoVpn
  /\ holder' = None /\ tuner' = None
  /\ pc' = [c \in Client |-> "idle"]
  /\ job' = [c \in Client |-> Idle]
  /\ todo' = [c \in Client |-> <<>>]
  /\ meant' = LoadConfig
  /\ crashes' = crashes + 1
  /\ UNCHANGED <<settings, modules, peers, radio, excused, requests, failures>>

-----------------------------------------------------------------------------
(* A request: arrive, save, apply *)

Arrive(c) ==
  /\ up = "serving" /\ pc[c] = "idle" /\ requests < MaxRequests
  /\ \E j \in Request : job' = [job EXCEPT ![c] = j]
  /\ pc' = [pc EXCEPT ![c] = "waiting"]
  /\ requests' = requests + 1
  /\ UNCHANGED <<settings, modules, peers, up, vpn, radio, holder, tuner, todo, meant,
                 excused, failures, crashes>>

\* The mutex is taken and the configuration loaded.
BeginSave(c) ==
  /\ pc[c] = "waiting" /\ holder = None
  /\ holder' = c
  /\ pc' = [pc EXCEPT ![c] = "saving"]
  /\ todo' = [todo EXCEPT ![c] = Statements(job[c])]
  /\ UNCHANGED <<settings, modules, peers, up, vpn, radio, tuner, job, meant, excused,
                 requests, failures, crashes>>

Execute(c) ==
  /\ pc[c] = "saving" /\ Len(todo[c]) > 1
  /\ Perform(Head(todo[c]))
  /\ todo' = [todo EXCEPT ![c] = Tail(@)]
  /\ UNCHANGED <<up, vpn, radio, holder, tuner, pc, job, meant, excused, requests, failures, crashes>>

\* Where a request goes on after its save: without a VPN there is nothing to
\* apply there, and save_settings applies nothing.
AfterSave(j) ==
  CASE j.kind \in {"radio", "save_module"} -> "tune"
    [] j.kind \in {"settings", "access"} /\ vpn # NoVpn -> "policy"
    [] j.kind = "routes" /\ vpn # NoVpn -> "routes"
    [] OTHER -> "idle"

\* The parts that requests which have saved are still to apply.
Pending(c) == IF pc[c] \in {"policy", "routes", "tune"} \cup Half
              THEN Applied(job[c]) ELSE {}
Overlapped(c) == UNION {Pending(d) : d \in Client \ {c}}

Finish(c) == /\ pc' = [pc EXCEPT ![c] = "idle"]
             /\ job' = [job EXCEPT ![c] = Idle]

\* The last statement; the mutex is given up.  A part that a request saved
\* before is still to apply may end with the older value.
EndSave(c) ==
  /\ pc[c] = "saving" /\ Len(todo[c]) = 1
  /\ Perform(Head(todo[c]))
  /\ todo' = [todo EXCEPT ![c] = <<>>]
  /\ holder' = None
  /\ IF AfterSave(job[c]) = "idle" THEN Finish(c)
     ELSE pc' = [pc EXCEPT ![c] = AfterSave(job[c])] /\ UNCHANGED job
  /\ meant' = Wanted(job[c], meant)
  /\ excused' = (excused \ Applied(job[c])) \cup Unapplied(job[c])
                 \cup (Overlapped(c) \cap (Applied(job[c]) \cup Unapplied(job[c])))
  /\ UNCHANGED <<up, vpn, radio, tuner, requests, failures, crashes>>

\* A statement fails: the mutex is given up and the request answered with an
\* error; what was committed stays.  All but the requests for one module write
\* the whole configuration, so any part may be left half saved.
SaveFails(c) ==
  /\ pc[c] = "saving" /\ failures < MaxFailures
  /\ failures' = failures + 1
  /\ todo' = [todo EXCEPT ![c] = <<>>]
  /\ holder' = None
  /\ Finish(c)
  /\ meant' = LoadConfig
  /\ excused' = CASE job[c].kind \in {"radio", "save_module"} -> excused \cup {job[c].module}
                  [] job[c].kind = "codename" -> excused
                  [] OTHER -> Part
  /\ UNCHANGED <<settings, modules, peers, up, vpn, radio, tuner, requests, crashes>>

\* A plausible bug: the policy is applied only when it admits all.
HalfAppliedPolicy(c, as) == [vpn EXCEPT !.all = as.all]

\* replace_peer_policy
AppliedPolicy(c, as) == [vpn EXCEPT !.all = as.all, !.peers = as.peers]

PolicyOf(j) == IF j.kind = "access" THEN [all |-> j.all, peers |-> j.peers]
               ELSE [all |-> j.config.all, peers |-> j.config.peers]

\* The policy of a request; a bad peer hash ends it before its routes.
ApplyPolicy(c) ==
  /\ pc[c] = "policy"
  /\ IF PolicyOf(job[c]).peers \cap BadPeer # {}
     THEN /\ Finish(c)
          /\ excused' = excused \cup Applied(job[c])
          /\ UNCHANGED vpn
     ELSE /\ vpn' = AppliedPolicy(c, PolicyOf(job[c]))
          /\ IF job[c].kind = "settings"
             THEN pc' = [pc EXCEPT ![c] = "routes"] /\ UNCHANGED job
             ELSE Finish(c)
          /\ UNCHANGED excused
  /\ UNCHANGED <<settings, modules, peers, up, radio, holder, tuner, todo, meant, requests, failures, crashes>>

\* replace_advertised_routes
ApplyRoutes(c) ==
  /\ pc[c] = "routes"
  /\ vpn' = [vpn EXCEPT !.routes = IF job[c].kind = "routes" THEN job[c].routes
                                   ELSE job[c].config.routes]
  /\ Finish(c)
  /\ UNCHANGED <<settings, modules, peers, up, radio, holder, tuner, todo, meant, excused,
                 requests, failures, crashes>>

\* The mutex of the radio client is taken for both calls.
Tune(c) ==
  /\ pc[c] = "tune" /\ tuner = None
  /\ tuner' = c
  /\ pc' = [pc EXCEPT ![c] = "radio_config"]
  /\ UNCHANGED <<settings, modules, peers, up, vpn, radio, holder, job, todo, meant,
                 excused, requests, failures, crashes>>

\* A radio call.  put_radio logs a failure and goes on with the other call,
\* save_radio_module returns.
Call(c, half, ok) ==
  /\ pc[c] = half
  /\ radio' = IF ok THEN [radio EXCEPT ![<<job[c].module, half>>] = job[c].value]
              ELSE radio
  /\ failures' = IF ok THEN failures ELSE failures + 1
  /\ excused' = IF ok THEN excused ELSE excused \cup {job[c].module}
  /\ IF half = "radio_config" /\ (ok \/ job[c].kind = "radio")
     THEN pc' = [pc EXCEPT ![c] = "modulation"] /\ UNCHANGED <<tuner, job>>
     ELSE tuner' = None /\ Finish(c)
  /\ UNCHANGED <<settings, modules, peers, up, vpn, holder, todo, meant, requests,
                 crashes>>
CallRadio(c) == \E half \in Half : Call(c, half, TRUE)
CallFails(c) == failures < MaxFailures /\ \E half \in Half : Call(c, half, FALSE)

Next ==
  \/ Boot \/ Serve \/ Stop
  \/ \E c \in Client :
       \/ Arrive(c) \/ BeginSave(c) \/ Execute(c) \/ EndSave(c) \/ SaveFails(c)
       \/ ApplyPolicy(c) \/ ApplyRoutes(c)
       \/ Tune(c) \/ CallRadio(c) \/ CallFails(c)

Spec == Init /\ [][Next]_vars

-----------------------------------------------------------------------------
(* Properties *)

Store ==
  INSTANCE SettingsStore WITH
    store <- IF holder = None THEN LoadConfig ELSE meant,
    asked <- [c \in Client |-> IF pc[c] \in {"waiting", "saving"} THEN job[c] ELSE None]

\* The settings implement SettingsStore: whatever requests run together, each
\* takes effect at once and on what the others left, and only one that is cut
\* off leaves a part of what it wanted, in the order of save_config.
ImplementsStore == Store!Spec

\* No request undoes what another one saved: between saves the database holds
\* what the completed saves amount to, each replacing its own part, whatever
\* requests ran together (the load and the save are under one mutex).
NoFieldLost == up # "down" /\ holder = None => LoadConfig = meant

\* A save cut off anywhere admits no peer that neither the configuration before
\* it nor the one being saved admits.
Admits(config, p) == config.all \/ p \in config.peers
TornSaveAdmitsNobodyElse ==
  \A p \in Peer : Admits(LoadConfig, p) =>
    Admits(meant, p) \/ (holder # None /\ Admits(Wanted(job[holder], meant), p))

\* With no save under way and nothing left to apply to a part, that part of the
\* VPN runtime and the radio is set as saved, unless a request changed only the
\* database, was refused, failed, or overlapped another on the same part since
\* the part was last applied undisturbed.
Live(x) == CASE x = "policy" -> [all |-> vpn.all, peers |-> vpn.peers]
             [] x = "routes" -> vpn.routes
             [] OTHER -> [h \in Half |-> radio[<<x, h>>]]
Saved(x) == CASE x = "policy" -> [all |-> LoadConfig.all, peers |-> peers]
              [] x = "routes" -> LoadConfig.routes
              [] OTHER -> [h \in Half |-> LoadConfig.radio[<<x, h>>]]
RuntimeFollowsSettings ==
  up = "serving" /\ holder = None =>
    \A x \in Part \ excused :
      (x \in Module \/ vpn # NoVpn) /\ (\A c \in Client : x \notin Pending(c))
        => Live(x) = Saved(x)

=============================================================================
