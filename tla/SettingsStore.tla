--------------------------- MODULE SettingsStore ---------------------------
(***************************************************************************)
(* What the handlers of the gateway (http/handlers.rs, pages/radio.rs) need *)
(* of the settings database: concurrent requests take effect one after     *)
(* another, each at one instant and on what all before it left (the load   *)
(* and the save of a configuration are under one mutex).  A save is no SQL *)
(* transaction: one cut off by a failed statement or by the end of the     *)
(* process leaves what save_config had written by then, and nothing else.  *)
(* GatewayConfig implements this.                                          *)
(***************************************************************************)
CONSTANTS
  Client,
  Request,
  Wanted(_, _),  \* the configuration a request wants, given the one before it
  Default,       \* the configuration of an empty database
  RadioKey,
  None

VARIABLES
  store,  \* the configuration
  asked   \* per client: the request that has yet to take effect, or None

vars == <<store, asked>>

Init == store = Default /\ asked = [c \in Client |-> None]

Ask(c) ==
  /\ asked[c] = None
  /\ \E j \in Request : asked' = [asked EXCEPT ![c] = j]
  /\ UNCHANGED store

Commit(c) ==
  /\ asked[c] \in Request
  /\ store' = Wanted(asked[c], store)
  /\ asked' = [asked EXCEPT ![c] = None]

\* now has the network, the routes and the flag of config.
Settings == {"network", "routes", "all"}
HasSettings(now, config) == \A k \in Settings : now[k] = config[k]

\* How far a save of wanted over was may have come: at the settings, then at
\* the peers, which it removes and inserts one by one, then at the modules.
CutOff(was, wanted, now) ==
  \/ /\ \A k \in Settings : now[k] \in {was[k], wanted[k]}
     /\ now.peers = was.peers /\ now.radio = was.radio
  \/ /\ HasSettings(now, wanted)
     /\ now.peers \subseteq wanted.peers /\ now.radio = was.radio
  \/ /\ HasSettings(now, wanted)
     /\ now.peers = wanted.peers
     /\ \A k \in RadioKey : now.radio[k] \in {was.radio[k], wanted.radio[k]}

Tear(c) == asked[c] \in Request /\ CutOff(store, Wanted(asked[c], store), store')

\* A statement fails: the request is refused.
Refuse(c) == Tear(c) /\ asked' = [asked EXCEPT ![c] = None]

\* The process ends, in the middle of at most one save.
Stop ==
  /\ UNCHANGED store \/ \E c \in Client : Tear(c)
  /\ asked' = [c \in Client |-> None]

Next == Stop \/ \E c \in Client : Ask(c) \/ Commit(c) \/ Refuse(c)

Spec == Init /\ [][Next]_vars
=============================================================================
