---------------------------- MODULE MCRadioForm ----------------------------
(* Values of RadioForm for TLC; see RadioPower.cfg. *)
EXTENDS RadioForm
OneFreq == {8695350}
FactoryForm ==
  [freq |-> 8695350, channel |-> 11, spacing |-> 200000, modulation |-> "OFDM",
   power |-> [m \in Slider |-> 10], pdt |-> 3]
=============================================================================
