--------------------------- MODULE NetworkControl --------------------------
(***************************************************************************)
(* The Wi-Fi control of the gateway (network.rs) and the network pages     *)
(* that use it (pages/network.rs).  The mode of wlan0 is kept in a file;   *)
(* the script kaonic-wifi-mode, which is not part of the repository, sets  *)
(* the device up, and where no station configuration exists the gateway    *)
(* does it itself.  Requests run on the blocking pool without a lock.      *)
(*                                                                         *)
(* What a snapshot adds to the mode and the antenna (addresses, service    *)
(* states, the station's link) is left out, and so are the mock backend    *)
(* and the words the pages show.                                           *)
(***************************************************************************)
EXTENDS Naturals

CONSTANTS
  Page,          \* open network pages
  MaxRequests,   \* bound on the requests
  MaxFaults      \* bound on the commands and file writes that fail

VARIABLES
  mode_file,     \* /etc/kaonic/wifi-mode
  antenna_file,  \* /etc/kaonic/wifi-antenna
  wpa_conf,      \* a station configuration exists
  hostapd,       \* hostapd runs: wlan0 is an access point
  shown,         \* per page: the mode and antenna whose buttons are active
  modal,         \* per page: the connect form is open
  step,          \* per page: where its request is
  job,           \* per page: its request
  wanted,        \* history: the mode last asked for
  blurred,       \* history: that request failed in part or met another one
  requests, faults

vars == <<mode_file, antenna_file, wpa_conf, hostapd, shown, modal, step, job,
          wanted, blurred, requests, faults>>
device == <<mode_file, antenna_file, wpa_conf, hostapd>>

Mode == {"ap", "sta"}
Antenna == {"internal", "external"}
Request == [kind : {"mode"}, to : Mode] \cup [kind : {"antenna"}, to : Antenna]
           \cup [kind : {"connect"}, valid : BOOLEAN] \cup {[kind |-> "none"]}
Steps == {"idle", "begin", "apply", "prepare", "restart", "load"}

\* The types, and that only a mode request runs the steps of one.
TypeOK ==
  /\ mode_file \in Mode /\ antenna_file \in Antenna
  /\ wpa_conf \in BOOLEAN /\ hostapd \in BOOLEAN
  /\ shown \in [Page -> Mode \X Antenna] /\ modal \in [Page -> BOOLEAN]
  /\ step \in [Page -> Steps] /\ job \in [Page -> Request]
  /\ \A p \in Page : step[p] \in {"apply", "prepare", "restart"} =>
       job[p] = [kind |-> "mode", to |-> "sta"]
  /\ wanted \in Mode /\ blurred \in BOOLEAN

Init ==
  /\ mode_file = "ap" /\ antenna_file = "internal" /\ hostapd = TRUE
  /\ wpa_conf \in BOOLEAN
  /\ shown = [p \in Page |-> <<"ap", "internal">>]
  /\ modal = [p \in Page |-> FALSE]
  /\ step = [p \in Page |-> "idle"]
  /\ job = [p \in Page |-> [kind |-> "none"]]
  /\ wanted = "ap" /\ blurred = FALSE
  /\ requests = 0 /\ faults = 0

-----------------------------------------------------------------------------
(* The page *)

Busy(p) == step[p] # "idle"
SetsMode(j) == j.kind = "mode" \/ (j.kind = "connect" /\ j.valid)
ModeOf(j) == IF j.kind = "mode" THEN j.to ELSE "sta"
Changing(p) == SetsMode(job[p]) /\ step[p] \notin {"idle", "load"}

\* A button whose mode or antenna is active already does nothing; a request
\* disables the page's controls until it is answered.
Send(p, j) ==
  /\ ~Busy(p) /\ requests < MaxRequests
  /\ requests' = requests + 1
  /\ job' = [job EXCEPT ![p] = j]
  /\ step' = [step EXCEPT ![p] = "begin"]
  /\ IF SetsMode(j)
     THEN wanted' = ModeOf(j) /\ blurred' = \E q \in Page : Changing(q)
     ELSE UNCHANGED <<wanted, blurred>>
  /\ UNCHANGED <<mode_file, antenna_file, wpa_conf, hostapd, shown, modal, faults>>

PressMode(p) ==
  \E m \in Mode \ {shown[p][1]} : Send(p, [kind |-> "mode", to |-> m])
PressAntenna(p) ==
  \E a \in Antenna \ {shown[p][2]} : Send(p, [kind |-> "antenna", to |-> a])
SubmitConnect(p) ==
  /\ modal[p]
  /\ \E v \in BOOLEAN : Send(p, [kind |-> "connect", valid |-> v])

\* The connect button shows in station mode; the form may be closed any time.
ToggleModal(p) ==
  /\ modal[p] \/ (shown[p][1] = "sta" /\ ~Busy(p))
  /\ modal' = [modal EXCEPT ![p] = ~@]
  /\ UNCHANGED <<mode_file, antenna_file, wpa_conf, hostapd, shown, step, job,
                 wanted, blurred, requests, faults>>

Refresh(p) ==
  /\ ~Busy(p)
  /\ step' = [step EXCEPT ![p] = "load"]
  /\ UNCHANGED <<mode_file, antenna_file, wpa_conf, hostapd, shown, modal, job, wanted,
                 blurred, requests, faults>>

\* loadSnapshot, renderSnapshot
Load(p) ==
  /\ step[p] = "load"
  /\ shown' = [shown EXCEPT ![p] = <<mode_file, antenna_file>>]
  /\ step' = [step EXCEPT ![p] = "idle"]
  /\ job' = [job EXCEPT ![p] = [kind |-> "none"]]
  /\ UNCHANGED <<mode_file, antenna_file, wpa_conf, hostapd, modal, wanted, blurred,
                 requests, faults>>

-----------------------------------------------------------------------------
(* The service *)

Goto(p, s) == step' = [step EXCEPT ![p] = s]
Answered(p) == Goto(p, "load") /\ modal' = [modal EXCEPT ![p] =
                                              @ /\ job[p].kind # "connect"]

\* set_wifi_mode to an access point: the script sets the file and the device.
BecomeAccessPoint(p) ==
  /\ step[p] = "begin" /\ job[p] = [kind |-> "mode", to |-> "ap"]
  /\ mode_file' = "ap" /\ hostapd' = TRUE
  /\ Answered(p)
  /\ UNCHANGED <<antenna_file, wpa_conf, shown, job, wanted, blurred, requests, faults>>

\* A plausible bug: the file is left to the script.
KeepModeFile(p) ==
  /\ step[p] = "begin" /\ job[p] = [kind |-> "mode", to |-> "sta"]
  /\ Goto(p, IF wpa_conf THEN "apply" ELSE "prepare")
  /\ UNCHANGED <<mode_file, antenna_file, wpa_conf, hostapd, shown, modal, job, wanted,
                 blurred, requests, faults>>

\* set_wifi_mode to a station: the file is written first.
WriteModeFile(p) ==
  /\ step[p] = "begin" /\ job[p] = [kind |-> "mode", to |-> "sta"]
  /\ mode_file' = "sta"
  /\ Goto(p, IF wpa_conf THEN "apply" ELSE "prepare")
  /\ UNCHANGED <<antenna_file, wpa_conf, hostapd, shown, modal, job, wanted, blurred,
                 requests, faults>>

\* The script sets the device up as the file says.
Apply(p) ==
  /\ step[p] = "apply"
  /\ hostapd' = (mode_file = "ap")
  /\ Answered(p)
  /\ UNCHANGED <<mode_file, antenna_file, wpa_conf, shown, job, wanted, blurred,
                 requests, faults>>

\* prepare_station_mode_without_config: that hostapd does not stop is ignored.
StopHostapd(p) ==
  /\ step[p] = "prepare"
  /\ \E ok \in {TRUE} \cup (IF faults < MaxFaults THEN {FALSE} ELSE {}) :
       /\ hostapd' = (hostapd /\ ~ok)
       /\ blurred' = (blurred \/ ~ok)
       /\ faults' = IF ok THEN faults ELSE faults + 1
  /\ Goto(p, "restart")
  /\ UNCHANGED <<mode_file, antenna_file, wpa_conf, shown, modal, job, wanted, requests>>

RestartNetworkd(p) ==
  /\ step[p] = "restart"
  /\ Answered(p)
  /\ UNCHANGED <<mode_file, antenna_file, wpa_conf, hostapd, shown, job, wanted, blurred,
                 requests, faults>>

\* connect_wifi: the script saves the credentials and becomes a station.
Connect(p) ==
  /\ step[p] = "begin" /\ job[p] = [kind |-> "connect", valid |-> TRUE]
  /\ wpa_conf' = TRUE /\ mode_file' = "sta" /\ hostapd' = FALSE
  /\ Answered(p)
  /\ UNCHANGED <<antenna_file, shown, job, wanted, blurred, requests, faults>>

SetAntenna(p) ==
  /\ step[p] = "begin" /\ job[p].kind = "antenna"
  /\ antenna_file' = job[p].to
  /\ Answered(p)
  /\ UNCHANGED <<mode_file, wpa_conf, hostapd, shown, job, wanted, blurred, requests, faults>>

\* The request ends with an error, which the page shows without loading the
\* snapshot again; what was done before stays.
Abort(p) == /\ Goto(p, "idle")
            /\ job' = [job EXCEPT ![p] = [kind |-> "none"]]
            /\ UNCHANGED <<mode_file, antenna_file, wpa_conf, hostapd, shown, modal,
                           wanted, requests>>

\* validate_wifi_credentials
Refuse(p) ==
  /\ step[p] = "begin" /\ job[p] = [kind |-> "connect", valid |-> FALSE]
  /\ Abort(p)
  /\ UNCHANGED <<blurred, faults>>

\* A command, a file write or the load fails.  That a failing script changes
\* nothing is an assumption; the gateway cannot tell.
Fail(p) ==
  /\ Busy(p) /\ faults < MaxFaults
  /\ faults' = faults + 1
  /\ blurred' = (blurred \/ Changing(p))
  /\ Abort(p)

Next ==
  \E p \in Page :
    \/ PressMode(p) \/ PressAntenna(p) \/ SubmitConnect(p) \/ ToggleModal(p)
    \/ Refresh(p) \/ Load(p)
    \/ BecomeAccessPoint(p) \/ WriteModeFile(p) \/ Apply(p)
    \/ StopHostapd(p) \/ RestartNetworkd(p) \/ Connect(p) \/ SetAntenna(p)
    \/ Refuse(p) \/ Fail(p)

Spec == Init /\ [][Next]_vars

-----------------------------------------------------------------------------
(* Properties *)

\* Once a request for a mode that met no other one has succeeded, wlan0 is in
\* that mode and the snapshot says so, whatever failed before: a station
\* request ends in station mode with and without a saved configuration, and an
\* access point request undoes one that failed halfway.
ModeAsRequested ==
  ~blurred /\ (\A p \in Page : ~Changing(p)) =>
    mode_file = wanted /\ hostapd = (wanted = "ap")
=============================================================================
