--------------------------- MODULE DeviceServices ---------------------------
(***************************************************************************)
(* The parts of a device that keep to themselves: the components of the    *)
(* gateway and of its pages, the radio interface, the data path of the VPN *)
(* and the CoT positions.  No step of one changes the state of another, so *)
(* a behaviour of all of them is, seen from each, a behaviour of that one: *)
(* the composition takes the components one at a time, "focus" is the one  *)
(* that moves and the others stay where they started.                      *)
(***************************************************************************)
EXTENDS Naturals, Sequences, FiniteSets

\* What the constants mean is said in the module of the component.
CONSTANTS
  None, Legacy, Empty, Torn,
  \* GatewayConfig
  Client, ConfigPeer, BadPeer, BadNetwork, ConfigModule, ConfigDefault, Configs,
  RouteChoice, AccessChoice, RadioChoice, ConfigName, ConfigMaxRequests, MaxFailures,
  MaxCrashes,
  \* AudioControl
  AudioPage, Volume, Rounded(_), MaxWrites, AudioMaxFaults,
  \* NetworkControl
  NetworkPage, NetworkMaxRequests, NetworkMaxFaults,
  \* InstallerUpgrade
  Upload, MaxUploads, InstallerMaxFaults,
  \* PluginsPage
  Plugin, PluginsMaxRequests, MaxLoads, PluginsMaxFaults,
  \* LocalHttps
  Reader, MaxKeys, TlsMaxFaults,
  \* ReticulumTracker
  TrackerPeer, MaxLinks, MaxEvents, TrackerCapacity,
  \* StatusFeed
  FeedPage, Faithful, Frames, Periodic, FeedCapacity, FeedMaxChanges, MaxTicks,
  MaxBreaks,
  \* RadioInterface
  RadioModule, Pieces, RadioMaxPackets, RadioCapacity, RadioMaxFaults,
  \* VpnPage
  VpnPagePeer, VpnPageText, Blank, Suggested, VpnPageMaxRequests, VpnPageMaxFaults,
  \* RadioForm
  Freq, Channel, Spacing, Power, Pdt, Factory, Message, MaxEdits, FormMaxRequests,
  FormMaxFaults,
  \* VpnData
  DataPeer, Bits, Subnets, TunnelIp, LocalIp, DataMaxPackets, DataMaxChanges,
  \* LocationState
  CotKey, CotTask, MaxRecords, Retention, MaxTime

VARIABLES
  focus,  \* the component that runs
  settings, modules, peers, up, vpn, radio, holder, tuner, pc, config_job, todo, meant, excused,
  config_requests, failures, crashes,
  has_switch, mixer, switched_on, level, stored, audio_shown, timer, audio_step, chosen,
  audio_disturbed, writes, audio_faults,
  mode_file, antenna_file, wpa_conf, hostapd, network_shown, network_modal, network_step,
  network_job, network_wanted, blurred, network_requests, network_faults,
  bytes, temp, target, service, installer_step, fd, overlapped, interrupted, uploads,
  installer_faults,
  installed, list, selected, plugins_busy, plugins_modal, confirm, plugins_requests, loads,
  plugins_timers, uploading, torn, behind, plugins_sent, plugins_faults,
  ca_key, ca_cert, tls_cert, state, tls_step, key, stage, keys, tls_settled, tls_disturbed,
  tls_faults,
  links, tracker_current, tracker_channel, lost, taken, found, tracker_table, mixed, last,
  events,
  now, heard, round, socket, initial, queue, paused, feed_shown, missed, ticks, breaks,
  waiting, sending, client, aired, radio_channel, lagged, deaf, collected, delivered, owner,
  packets, radio_faults,
  allow, routes, access, saves, editor, put, vpn_page_timers, shortcut, covered, vpn_page_busy,
  enabled, running, typed, vpn_page_wanted, vpn_page_crossed, vpn_page_sent, vpn_page_faults,
  form, radio_form_settled, applying, radio_form_requests, answers, saved, radio_form_shown,
  radio_form_failed, test, edits, radio_form_sent, radio_form_faults,
  registry, generation, claims, allow_all, vpn_data_table, active, linked, reader, receiver, tx,
  rx, drops, peer_tx, peer_rx, vpn_data_current, forgotten, handled, vpn_data_failed, changes,
  clock, records, task, latest, cot_crossed

-----------------------------------------------------------------------------
Config ==
  INSTANCE GatewayConfig WITH
    Peer <- ConfigPeer, Module <- ConfigModule, Default <- ConfigDefault,
    Name <- ConfigName, MaxRequests <- ConfigMaxRequests, job <- config_job,
    requests <- config_requests

Audio ==
  INSTANCE AudioControl WITH
    Page <- AudioPage, MaxFaults <- AudioMaxFaults, shown <- audio_shown,
    step <- audio_step, disturbed <- audio_disturbed, faults <- audio_faults

Network ==
  INSTANCE NetworkControl WITH
    Page <- NetworkPage, MaxRequests <- NetworkMaxRequests,
    MaxFaults <- NetworkMaxFaults, shown <- network_shown, modal <- network_modal,
    step <- network_step, job <- network_job, wanted <- network_wanted,
    requests <- network_requests, faults <- network_faults

Installer ==
  INSTANCE InstallerUpgrade WITH
    MaxFaults <- InstallerMaxFaults, step <- installer_step, faults <- installer_faults

Plugins ==
  INSTANCE PluginsPage WITH
    MaxRequests <- PluginsMaxRequests, MaxFaults <- PluginsMaxFaults,
    busy <- plugins_busy, modal <- plugins_modal, requests <- plugins_requests,
    timers <- plugins_timers, sent <- plugins_sent, faults <- plugins_faults

Tls ==
  INSTANCE LocalHttps WITH
    MaxFaults <- TlsMaxFaults, step <- tls_step, settled <- tls_settled,
    disturbed <- tls_disturbed, faults <- tls_faults

Tracker ==
  INSTANCE ReticulumTracker WITH
    Peer <- TrackerPeer, Capacity <- TrackerCapacity, current <- tracker_current,
    channel <- tracker_channel, table <- tracker_table

Feed ==
  INSTANCE StatusFeed WITH
    Page <- FeedPage, Capacity <- FeedCapacity, MaxChanges <- FeedMaxChanges,
    shown <- feed_shown

Radio ==
  INSTANCE RadioInterface WITH
    Module <- RadioModule, MaxPackets <- RadioMaxPackets, Capacity <- RadioCapacity,
    MaxFaults <- RadioMaxFaults, channel <- radio_channel, faults <- radio_faults

Vpn ==
  INSTANCE VpnPage WITH
    Peer <- VpnPagePeer, Text <- VpnPageText, MaxRequests <- VpnPageMaxRequests,
    MaxFaults <- VpnPageMaxFaults, timers <- vpn_page_timers, busy <- vpn_page_busy,
    wanted <- vpn_page_wanted, crossed <- vpn_page_crossed, sent <- vpn_page_sent,
    faults <- vpn_page_faults

Form ==
  INSTANCE RadioForm WITH
    MaxRequests <- FormMaxRequests, MaxFaults <- FormMaxFaults,
    settled <- radio_form_settled, requests <- radio_form_requests,
    shown <- radio_form_shown, failed <- radio_form_failed, sent <- radio_form_sent,
    faults <- radio_form_faults

Data ==
  INSTANCE VpnData WITH
    Peer <- DataPeer, MaxPackets <- DataMaxPackets, MaxChanges <- DataMaxChanges,
    table <- vpn_data_table, current <- vpn_data_current, failed <- vpn_data_failed

Cot ==
  INSTANCE LocationState WITH
    Key <- CotKey, Task <- CotTask, crossed <- cot_crossed

-----------------------------------------------------------------------------
(* What is assumed of the constants: the bounds are natural numbers, a mark   *)
(* such as None is none of the values it stands beside, and the values a      *)
(* program has for a start are values it may have.                            *)

ASSUME ConfigAssumption ==
  /\ IsFiniteSet(ConfigPeer) /\ IsFiniteSet(ConfigModule)
  /\ None \notin Client /\ {"policy", "routes"} \cap ConfigModule = {}
  /\ Config!IsConfig(ConfigDefault) /\ ConfigDefault.peers = {}
  /\ \A c \in Configs : Config!IsConfig(c)
  /\ None \notin RouteChoice \cup RadioChoice
  /\ \A a \in AccessChoice : a[1] # None /\ a[2] \subseteq ConfigPeer
ASSUME AudioAssumption ==
  /\ Volume \subseteq Nat /\ 0 \in Volume /\ None \notin Volume
  /\ \A v \in Volume : Rounded(v) \in Volume /\ Rounded(Rounded(v)) = Rounded(v)
ASSUME InstallerAssumption ==
  MaxUploads \in Nat /\ None \notin Upload /\ None \notin Installer!Inode
ASSUME TlsAssumption ==
  /\ MaxKeys \in Nat /\ {None, Legacy, Empty, Torn} \cap Tls!Key = {}
  /\ Tls!Start \notin Reader
ASSUME TrackerAssumption ==
  /\ MaxLinks \in Nat /\ TrackerCapacity \in Nat
  /\ None \notin [link : Tracker!Link, kind : Tracker!Kind]
ASSUME FeedAssumption ==
  /\ FeedMaxChanges \in Nat /\ FeedCapacity \in Nat
  /\ None \notin Frames
  /\ Periodic \in Seq({Periodic[i] : i \in 1..Len(Periodic)})
ASSUME RadioAssumption ==
  /\ Pieces \in Nat \ {0} /\ RadioMaxPackets \in Nat /\ RadioCapacity \in Nat
  /\ None \notin RadioModule /\ None \notin Radio!Packet \X (1..Pieces)
ASSUME VpnPageAssumption ==
  /\ None \notin VpnPageText /\ None \notin VpnPagePeer
  /\ Suggested \in VpnPageText
ASSUME FormAssumption ==
  /\ Freq \subseteq Nat \cup {Empty} /\ Empty \notin Nat
  /\ Factory = [freq |-> Factory.freq, channel |-> Factory.channel,
                spacing |-> Factory.spacing, modulation |-> Factory.modulation,
                power |-> Factory.power, pdt |-> Factory.pdt]
  /\ Form!ValidFreq(Factory.freq) /\ Factory.freq \in Nat
  /\ Factory.modulation \in Form!Modulation
  /\ Factory.power \in [Form!Slider -> Power \cup {10}]
ASSUME DataAssumption ==
  IsFiniteSet(Subnets) /\ IsFiniteSet(DataPeer) /\ Subnets \subseteq Nat \X Nat
ASSUME CotAssumption ==
  /\ MaxRecords \in Nat \ {0} /\ Retention \in Nat /\ MaxTime \in Nat
  /\ None \notin Cot!Time /\ None \notin [key : CotKey, time : Cot!Time]

-----------------------------------------------------------------------------
Component == {"config", "audio", "network", "installer", "plugins", "tls", "tracker", "feed",
              "radio", "vpn_page", "radio_form", "vpn_data", "cot"}

Init ==
  /\ focus \in Component
  /\ Config!Init
  /\ Audio!Init
  /\ Network!Init
  /\ Installer!Init
  /\ Plugins!Init
  /\ Tls!Init
  /\ Tracker!Init
  /\ Feed!Init
  /\ Radio!Init
  /\ Vpn!Init
  /\ Form!Init
  /\ Data!Init
  /\ Cot!Init

ConfigVars ==
  <<settings, modules, peers, up, vpn, radio, holder, tuner, pc, config_job, todo, meant,
    excused, config_requests, failures, crashes>>
AudioVars ==
  <<has_switch, mixer, switched_on, level, stored, audio_shown, timer, audio_step, chosen,
    audio_disturbed, writes, audio_faults>>
NetworkVars ==
  <<mode_file, antenna_file, wpa_conf, hostapd, network_shown, network_modal, network_step,
    network_job, network_wanted, blurred, network_requests, network_faults>>
InstallerVars ==
  <<bytes, temp, target, service, installer_step, fd, overlapped, interrupted, uploads,
    installer_faults>>
PluginsVars ==
  <<installed, list, selected, plugins_busy, plugins_modal, confirm, plugins_requests,
    loads, plugins_timers, uploading, torn, behind, plugins_sent, plugins_faults>>
TlsVars ==
  <<ca_key, ca_cert, tls_cert, state, tls_step, key, stage, keys, tls_settled,
    tls_disturbed, tls_faults>>
TrackerVars ==
  <<links, tracker_current, tracker_channel, lost, taken, found, tracker_table, mixed, last,
    events>>
FeedVars ==
  <<now, heard, round, socket, initial, queue, paused, feed_shown, missed, ticks, breaks>>
RadioVars ==
  <<waiting, sending, client, aired, radio_channel, lagged, deaf, collected, delivered,
    owner, packets, radio_faults>>
VpnVars ==
  <<allow, routes, access, saves, editor, put, vpn_page_timers, shortcut, covered,
    vpn_page_busy, enabled, running, typed, vpn_page_wanted, vpn_page_crossed,
    vpn_page_sent, vpn_page_faults>>
FormVars ==
  <<form, radio_form_settled, applying, radio_form_requests, answers, saved,
    radio_form_shown, radio_form_failed, test, edits, radio_form_sent, radio_form_faults>>
DataVars ==
  <<registry, generation, claims, allow_all, vpn_data_table, active, linked, reader,
    receiver, tx, rx, drops, peer_tx, peer_rx, vpn_data_current, forgotten, handled,
    vpn_data_failed, changes>>
CotVars ==
  <<clock, records, task, latest, cot_crossed>>

vars == <<focus, ConfigVars, AudioVars, NetworkVars, InstallerVars, PluginsVars, TlsVars,
          TrackerVars, FeedVars, RadioVars, VpnVars, FormVars, DataVars, CotVars>>

Rest(c) ==
  /\ UNCHANGED focus
  /\ c # "config" => UNCHANGED ConfigVars
  /\ c # "audio" => UNCHANGED AudioVars
  /\ c # "network" => UNCHANGED NetworkVars
  /\ c # "installer" => UNCHANGED InstallerVars
  /\ c # "plugins" => UNCHANGED PluginsVars
  /\ c # "tls" => UNCHANGED TlsVars
  /\ c # "tracker" => UNCHANGED TrackerVars
  /\ c # "feed" => UNCHANGED FeedVars
  /\ c # "radio" => UNCHANGED RadioVars
  /\ c # "vpn_page" => UNCHANGED VpnVars
  /\ c # "radio_form" => UNCHANGED FormVars
  /\ c # "vpn_data" => UNCHANGED DataVars
  /\ c # "cot" => UNCHANGED CotVars

ConfigStep == focus = "config" /\ Config!Next /\ Rest("config")
AudioStep == focus = "audio" /\ Audio!Next /\ Rest("audio")
NetworkStep == focus = "network" /\ Network!Next /\ Rest("network")
InstallerStep == focus = "installer" /\ Installer!Next /\ Rest("installer")
PluginsStep == focus = "plugins" /\ Plugins!Next /\ Rest("plugins")
TlsStep == focus = "tls" /\ Tls!Next /\ Rest("tls")
TrackerStep == focus = "tracker" /\ Tracker!Next /\ Rest("tracker")
FeedStep == focus = "feed" /\ Feed!Next /\ Rest("feed")
RadioStep == focus = "radio" /\ Radio!Next /\ Rest("radio")
VpnStep == focus = "vpn_page" /\ Vpn!Next /\ Rest("vpn_page")
FormStep == focus = "radio_form" /\ Form!Next /\ Rest("radio_form")
DataStep == focus = "vpn_data" /\ Data!Next /\ Rest("vpn_data")
CotStep == focus = "cot" /\ Cot!Next /\ Rest("cot")

Next ==
  \/ ConfigStep \/ AudioStep \/ NetworkStep \/ InstallerStep \/ PluginsStep
  \/ TlsStep \/ TrackerStep \/ FeedStep \/ RadioStep \/ VpnStep
  \/ FormStep \/ DataStep \/ CotStep

Spec == Init /\ [][Next]_vars

-----------------------------------------------------------------------------
(* Types of the state of the component that moves. *)
TypeOK ==
  /\ focus = "config" => Config!TypeOK
  /\ focus = "audio" => Audio!TypeOK
  /\ focus = "network" => Network!TypeOK
  /\ focus = "installer" => Installer!TypeOK
  /\ focus = "plugins" => Plugins!TypeOK
  /\ focus = "tls" => Tls!TypeOK
  /\ focus = "tracker" => Tracker!TypeOK
  /\ focus = "feed" => Feed!TypeOK
  /\ focus = "radio" => Radio!TypeOK
  /\ focus = "vpn_page" => Vpn!TypeOK
  /\ focus = "radio_form" => Form!TypeOK
  /\ focus = "vpn_data" => Data!TypeOK
  /\ focus = "cot" => Cot!TypeOK

(* The properties of the components, stated and explained where they are   *)
(* defined; each says something of the runs in which its component moves.  *)

\* Settings requests take effect one after another, each at one instant.
ImplementsStore == Config!ImplementsStore

\* No settings request undoes what another one saved.
NoFieldLost == focus = "config" => Config!NoFieldLost

\* A save cut off halfway admits no peer that neither configuration admitted.
TornSaveAdmitsNobodyElse == focus = "config" => Config!TornSaveAdmitsNobodyElse

\* With no request under way the VPN and the radios run as the settings say.
RuntimeFollowsSettings == focus = "config" => Config!RuntimeFollowsSettings

\* The volume last sent survives muting, testing and reloading.
VolumeSurvivesMute == focus = "audio" => Audio!VolumeSurvivesMute

\* The Wi-Fi mode is the one last asked for, whatever failed before.
ModeAsRequested == focus = "network" => Network!ModeAsRequested

\* The installer binary is one whole upload at every moment.
BinaryStaysWhole == focus = "installer" => Installer!BinaryStaysWhole

\* The installer service runs again after every upgrade, failed or not.
ServiceComesBack == focus = "installer" => Installer!ServiceComesBack

\* The plugins page ends with the list of what is installed and running.
ListCatchesUp == focus = "plugins" => Plugins!ListCatchesUp

\* An upload keeps its dialog, locked, until the answer.
UploadKeepsDialog == focus = "plugins" => Plugins!UploadKeepsDialog

\* The root CA once settled survives loads, failing writes and restarts.
RootCaSurvives == focus = "tls" => Tls!RootCaSurvives

\* The link table shows closed exactly the links that are closed.
TableTellsLinks == focus = "tracker" => Tracker!TableTellsLinks

\* A connected page with nothing under way shows the frames there are.
FramesCatchUp == focus = "feed" => Feed!FramesCatchUp

\* A packet passed to Reticulum was transmitted whole, on that module.
DeliveredWhole == focus = "radio" => Radio!DeliveredWhole

\* The gateway admits whom the page shows and the user asked for.
AllowlistAsAsked == focus = "vpn_page" => Vpn!AllowlistAsAsked

\* What is typed into the open route editor stays as typed.
EditorKeepsText == focus = "vpn_page" => Vpn!EditorKeepsText

\* A frequency field that was left holds a frequency of a band, or nothing.
LeftFieldIsInBand == focus = "radio_form" => Form!LeftFieldIsInBand

\* A packet goes to the peer with the longest announced prefix of its address.
LongestMatchWins == focus = "vpn_data" => Data!LongestMatchWins

\* Every packet read or received is counted as passed on or as dropped.
PacketsAccounted == focus = "vpn_data" => Data!PacketsAccounted

\* The table of positions holds the latest ones, in whatever order they come.
LatestAreKept == focus = "cot" => Cot!LatestAreKept
=============================================================================
