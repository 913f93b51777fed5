-------------------------- MODULE MCDeviceServices --------------------------
(* An instance of DeviceServices for TLC; README.md, "Runs", has the reasons  *)
(* for the bounds.                                                            *)
EXTENDS DeviceServices, TLC

AConfig(network, own, all, admitted, value) ==
  [network |-> network, routes |-> own, all |-> all, peers |-> admitted,
   radio |-> [k \in {"m1"} \X {"radio_config", "modulation"} |-> value]]
DefaultConfig == AConfig("lan", "r1", TRUE, {}, "v1")
PutConfigs == {AConfig("lan", "r2", FALSE, {"p"}, "v2"),
               AConfig("tiny", "r1", FALSE, {"q", "bad"}, "v3")}
SetAccesses == {<<FALSE, {"q"}>>, <<TRUE, {}>>, <<FALSE, {"p"}>>}

ThreeVolumes == 0..2
RoundedVolume(v) == IF v = 1 THEN 0 ELSE v  \* the smallest volume is lost in the mixer

OnePeriodic == <<"vpn">>

TypedFreq == {Empty, 3894999, 10200004, 17100000, 17100001, 24835004}  \* in 0.1 kHz
FactoryForm ==
  [freq |-> 8695350, channel |-> 11, spacing |-> 200000, modulation |-> "OFDM",
   power |-> [m \in {"OFDM", "QPSK"} |-> 10], pdt |-> 3]

TwoSubnets == {<<0, 1>>, <<0, 2>>}
TunnelIps == "a" :> 2 @@ "b" :> 1

(* Where a component may start: as it likes when it moves, in one of its      *)
(* initial states otherwise.                                                  *)
Start ==
  /\ focus # "audio" => has_switch /\ mixer = 2
  /\ focus # "network" => wpa_conf
  /\ focus # "plugins" => installed = <<>>
  /\ focus # "tls" => ca_key = None
  /\ focus # "vpn_page" => allow.all /\ allow.peers = {} /\ routes = "blank" /\ shortcut = None

MCInit == Init /\ Start
MCSpec == MCInit /\ [][Next]_vars
=============================================================================
