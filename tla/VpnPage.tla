------------------------------ MODULE VpnPage ------------------------------
(***************************************************************************)
(* One VPN page (the script of pages/vpn.rs) and what the gateway keeps    *)
(* for it: the allowlist, which the page edits in place and sends whole    *)
(* after each edit; the advertised routes, edited in a dialog; the ping    *)
(* and speed tests of a peer, whose buttons every live update draws anew.  *)
(*                                                                         *)
(* The gateway takes a request at one moment and its answer arrives later, *)
(* in any order.  Rendering, formatting and clipboard are left out; a text *)
(* of routes is an element of Text; what a test measures is left out.      *)
(***************************************************************************)
EXTENDS Naturals, FiniteSets

CONSTANTS
  Peer,
  Text,          \* what the route editor may hold
  Blank,         \* the text of no routes
  Suggested,     \* the text offered when no route is advertised
  None,
  MaxRequests,   \* bound on the requests of a behaviour
  MaxFaults      \* bound on the requests that fail

VARIABLES
  allow,      \* the gateway: allow_all_peers and the peers
  routes,     \* the gateway: the advertised routes
  access,     \* accessState, as the page shows it
  saves,      \* saves of it not yet answered: [n, want, taken]
  editor,     \* the route editor: [open, text, saving]
  put,        \* its request not yet answered: [text, taken], or None
  timers,     \* editors to be closed 250 ms after an answer
  shortcut,   \* the peer the shortcut dialog asks about, or None
  covered,    \* the class modal-open of the body
  busy,       \* pingState and speedState: the tests that run
  enabled,    \* the tests whose button can be clicked
  running,    \* how many of each test the gateway runs
  typed,      \* history: what the user typed into the open editor, or None
  wanted,     \* history: the allowlist the user asked for
  crossed,    \* history: an edit overlapped a save, or a save failed, since
  sent, faults

vars == <<allow, routes, access, saves, editor, put, timers, shortcut, covered,
          busy, enabled, running, typed, wanted, crossed, sent, faults>>

Access == [all : BOOLEAN, peers : SUBSET Peer]
Test == {"ping", "speed"} \X Peer

\* The types; the gateway runs each test of a peer once at a time, though every
\* live update draws the buttons anew while a test runs.
TypeOK ==
  /\ allow \in Access /\ access \in Access /\ wanted \in Access
  /\ routes \in Text /\ typed \in Text \cup {None}
  /\ \A s \in saves : s.want \in Access
  /\ editor \in [open : BOOLEAN, text : Text, saving : BOOLEAN]
  /\ put = None \/ put \in [text : Text, taken : BOOLEAN]
  /\ shortcut \in Peer \cup {None}
  /\ busy \subseteq Test /\ enabled \subseteq Test /\ running \in [Test -> 0..1]

\* setAdvertisedRoutes
Prefill(r) == IF r = Blank THEN Suggested ELSE r

\* The page as the server draws it; a link with vpn-add-peer opens the
\* shortcut dialog (maybeHandleAddPeerShortcut).
Init ==
  /\ allow \in [all : BOOLEAN, peers : {{}, Peer}] /\ access = allow /\ wanted = allow
  /\ routes \in Text
  /\ editor = [open |-> FALSE, text |-> Prefill(routes), saving |-> FALSE]
  /\ put = None /\ timers = 0 /\ saves = {}
  /\ shortcut \in Peer \cup {None} /\ covered = (shortcut # None)
  /\ busy = {} /\ enabled = Test /\ running = [t \in Test |-> 0]
  /\ typed = None /\ crossed = FALSE /\ sent = 0 /\ faults = 0

accessVars == <<allow, access, saves, wanted, crossed>>
editorVars == <<routes, editor, put, timers, typed>>
testVars == <<busy, enabled, running>>

Ask == sent < MaxRequests /\ sent' = sent + 1
Fault == faults < MaxFaults /\ faults' = faults + 1

-----------------------------------------------------------------------------
(* The allowlist *)

\* A plausible bug: the list is sent before it is edited.
SaveUnedited(new) ==
  /\ Ask
  /\ access' = new
  /\ saves' = saves \cup {[n |-> sent, want |-> access, taken |-> FALSE]}
  /\ crossed' = (saves # {})
  /\ wanted' = new

\* saveAccessState; nothing looks at its flag `saving'.
Save(new) ==
  /\ Ask
  /\ access' = new
  /\ saves' = saves \cup {[n |-> sent, want |-> new, taken |-> FALSE]}
  /\ crossed' = (saves # {})
  /\ wanted' = new

\* addPeerToAllowlist; the shortcut dialog is not in the way of the keyboard.
Add(p) ==
  /\ p \notin access.peers
  /\ Save([access EXCEPT !.peers = @ \cup {p}])
  /\ UNCHANGED <<allow, editorVars, shortcut, covered, testVars, faults>>

Remove(p) ==
  /\ p \in access.peers
  /\ Save([access EXCEPT !.peers = @ \ {p}])
  /\ UNCHANGED <<allow, editorVars, shortcut, covered, testVars, faults>>

ToggleAllowAll ==
  /\ Save([access EXCEPT !.all = ~@])
  /\ UNCHANGED <<allow, editorVars, shortcut, covered, testVars, faults>>

\* put_vpn_access
TakeSave ==
  \E s \in saves :
    /\ ~s.taken
    /\ allow' = s.want
    /\ saves' = (saves \ {s}) \cup {[s EXCEPT !.taken = TRUE]}
    /\ UNCHANGED <<access, wanted, crossed, editorVars, shortcut, covered, testVars,
                   sent, faults>>

\* The answer holds the list as saved, and the page shows that.
SaveAnswered ==
  \E s \in saves :
    /\ s.taken
    /\ access' = s.want
    /\ saves' = saves \ {s}
    /\ UNCHANGED <<allow, wanted, crossed, editorVars, shortcut, covered, testVars,
                   sent, faults>>

\* A save that fails, before it is taken or after, leaves the page's list edited.
SaveFails ==
  /\ Fault
  /\ \E s \in saves : saves' = saves \ {s}
  /\ crossed' = TRUE
  /\ UNCHANGED <<allow, access, wanted, editorVars, shortcut, covered, testVars, sent>>

-----------------------------------------------------------------------------
(* The dialogs *)

\* A plausible bug: a dialog that closes uncovers the page, whatever else is open.
CoveredByLast(routesOpen, asked) == routesOpen /\ asked # None

\* syncModalOpenClass
Covered(routesOpen, asked) == routesOpen \/ asked # None

\* closeShortcutModal, by a button, the backdrop or Escape, which closes the
\* route editor as well.
CancelShortcut ==
  /\ shortcut # None
  /\ shortcut' = None
  /\ \/ UNCHANGED <<editor, typed>>
     \/ editor' = [editor EXCEPT !.open = FALSE] /\ typed' = None
  /\ covered' = Covered(editor'.open, None)
  /\ UNCHANGED <<accessVars, routes, put, timers, testVars, sent, faults>>

\* confirmShortcutPeer closes the dialog and adds the peer unless it is there.
ConfirmShortcut ==
  /\ shortcut # None
  /\ shortcut' = None
  /\ covered' = Covered(editor.open, None)
  /\ IF shortcut \in access.peers THEN UNCHANGED <<access, saves, wanted, crossed, sent>>
     ELSE Save([access EXCEPT !.peers = @ \cup {shortcut}])
  /\ UNCHANGED <<allow, editorVars, testVars, faults>>

OpenEditor ==
  /\ ~editor.open
  /\ editor' = [editor EXCEPT !.open = TRUE]
  /\ covered' = Covered(TRUE, shortcut)
  /\ UNCHANGED <<accessVars, routes, put, timers, typed, shortcut, testVars, sent, faults>>

Close == editor' = [editor EXCEPT !.open = FALSE] /\ typed' = None

CloseEditor ==
  /\ editor.open
  /\ Close
  /\ covered' = Covered(FALSE, shortcut)
  /\ UNCHANGED <<accessVars, routes, put, timers, shortcut, testVars, sent, faults>>

Type(t) ==
  /\ editor.open /\ t # editor.text
  /\ editor' = [editor EXCEPT !.text = t]
  /\ typed' = t
  /\ UNCHANGED <<accessVars, routes, put, timers, shortcut, covered, testVars, sent, faults>>

SubmitRoutes ==
  /\ editor.open /\ ~editor.saving
  /\ Ask
  /\ put' = [text |-> editor.text, taken |-> FALSE]
  /\ editor' = [editor EXCEPT !.saving = TRUE]
  /\ UNCHANGED <<accessVars, routes, timers, typed, shortcut, covered, testVars, faults>>

\* put_vpn_routes
TakeRoutes ==
  /\ put # None /\ ~put.taken
  /\ routes' = put.text
  /\ put' = [put EXCEPT !.taken = TRUE]
  /\ UNCHANGED <<accessVars, editor, timers, typed, shortcut, covered, testVars, sent, faults>>

\* The editor is unlocked; a good answer sets its timer.
RoutesAnswered ==
  /\ put # None
  /\ put' = None
  /\ editor' = [editor EXCEPT !.saving = FALSE]
  /\ \/ put.taken /\ timers' = timers + 1 /\ UNCHANGED faults
     \/ Fault /\ UNCHANGED timers
  /\ UNCHANGED <<accessVars, routes, typed, shortcut, covered, testVars, sent>>

\* The timer closes the editor though it was closed and opened again.
TimerCloses ==
  /\ timers > 0 /\ timers' = timers - 1
  /\ Close
  /\ covered' = Covered(FALSE, shortcut)
  /\ UNCHANGED <<accessVars, routes, put, shortcut, testVars, sent, faults>>

-----------------------------------------------------------------------------
(* The tests of a peer *)

StartTest(t) ==
  /\ t \in enabled
  /\ Ask
  /\ busy' = busy \cup {t}
  /\ enabled' = enabled \ {t}
  /\ running' = [running EXCEPT ![t] = @ + 1]
  /\ UNCHANGED <<accessVars, editorVars, shortcut, covered, faults>>

\* Answered or failed alike.
TestAnswered(t) ==
  /\ running[t] > 0
  /\ running' = [running EXCEPT ![t] = @ - 1]
  /\ busy' = busy \ {t}
  /\ enabled' = enabled \cup {t}
  /\ UNCHANGED <<accessVars, editorVars, shortcut, covered, sent, faults>>

\* A plausible bug: an update draws the buttons of running tests anew.
AllButtons == Test

\* renderPeers
Buttons == Test \ busy

\* A vpn message of the WebSocket, passed over while a dialog covers the page
\* or a field has the focus.
LiveUpdate ==
  /\ ~covered
  /\ editor' = [editor EXCEPT !.text = Prefill(routes)]
  /\ enabled' = Buttons
  /\ UNCHANGED <<accessVars, routes, put, timers, typed, shortcut, covered, busy,
                 running, sent, faults>>

Next ==
  \/ \E p \in Peer : Add(p) \/ Remove(p)
  \/ ToggleAllowAll \/ TakeSave \/ SaveAnswered \/ SaveFails
  \/ CancelShortcut \/ ConfirmShortcut
  \/ OpenEditor \/ CloseEditor \/ SubmitRoutes \/ TakeRoutes \/ RoutesAnswered \/ TimerCloses
  \/ \E t \in Text : Type(t)
  \/ \E t \in Test : StartTest(t) \/ TestAnswered(t)
  \/ LiveUpdate

Spec == Init /\ [][Next]_vars

-----------------------------------------------------------------------------
(* Properties *)

\* When every save is answered, the gateway admits whom the page shows and whom
\* the user asked for, unless saves overlapped or one failed; then the next
\* save that is alone brings them together again, as it sends the list whole.
AllowlistAsAsked ==
  saves = {} /\ ~crossed => allow = access /\ allow = wanted

\* What the user types into the open route editor stays as typed, whatever live
\* updates come and whatever other dialog closes beside it.
EditorKeepsText == editor.open /\ typed # None => editor.text = typed

=============================================================================
