---------------------------- MODULE PluginsPage ----------------------------
(***************************************************************************)
(* One plugins page (pages/plugins.rs) and the installer behind the        *)
(* gateway's proxy (http/installer.rs), which passes requests on as they   *)
(* are and answers an error where the installer does not.  Two equal       *)
(* requests under way count as one.                                        *)
(*                                                                         *)
(* The installer is another program: a request takes effect there at one   *)
(* moment, and its answer reaches the page later.  The page asks for the   *)
(* list anew after each action and every 15 s; answers arrive in any       *)
(* order.  Feedback texts, drag and drop and the installer version are     *)
(* left out; the file chosen is a flag.                                    *)
(***************************************************************************)
EXTENDS Naturals, FiniteSets

CONSTANTS
  Plugin,
  None,
  MaxRequests,   \* bound on the actions of a behaviour
  MaxLoads,      \* bound on the lists in flight together
  MaxFaults      \* bound on the requests that fail

VARIABLES
  installed,   \* the installer: running or not, per plugin installed
  list,        \* the page: the plugins it shows
  selected,    \* the plugin selected, or None
  busy,        \* busyAction: <<plugin, action>>, or None
  modal,       \* the upload dialog
  confirm,     \* the confirm dialog: <<plugin, action>>, or None
  requests,    \* requests not yet answered: [kind, plugin, done]
  loads,       \* lists not yet shown: [list, old, for]
  timers,      \* dialogs that close 900 ms after an upload
  uploading,   \* history: an upload's answer has not come
  torn,        \* history: such a timer closed a later upload's dialog
  behind,      \* history: the list shown last was old, or a request or a list
               \* failed since
  sent, faults

vars == <<installed, list, selected, busy, modal, confirm, requests, loads,
          timers, uploading, torn, behind, sent, faults>>

Closed == [open |-> FALSE, plugin |-> None, file |-> FALSE, uploading |-> FALSE]
Lists == UNION {[s -> BOOLEAN] : s \in SUBSET Plugin}
Kinds == {"start", "stop", "restart", "delete", "upload"}

\* The types, and that the plugin selected is always one of those listed.
TypeOK ==
  /\ installed \in Lists /\ list \in Lists
  /\ IF list = <<>> THEN selected = None ELSE selected \in DOMAIN list
  /\ busy \in (Plugin \X {"restart", "delete"}) \cup {None}
  /\ confirm \in (Plugin \X {"restart", "delete"}) \cup {None}
  /\ modal \in [open : BOOLEAN, plugin : Plugin \cup {None}, file : BOOLEAN,
                uploading : BOOLEAN]
  /\ \A r \in requests : r.kind \in Kinds /\ r.plugin \in Plugin
  /\ \A l \in loads : l.list \in Lists
  /\ timers \in Nat /\ uploading \in BOOLEAN /\ torn \in BOOLEAN
  /\ behind \in BOOLEAN

Init ==
  /\ installed \in {l \in Lists : \A p \in DOMAIN l : l[p]}
  /\ list = installed
  /\ selected = IF installed = <<>> THEN None ELSE CHOOSE p \in DOMAIN installed : TRUE
  /\ busy = None /\ modal = Closed /\ confirm = None
  /\ requests = {} /\ loads = {} /\ timers = 0
  /\ uploading = FALSE /\ torn = FALSE /\ behind = FALSE /\ sent = 0 /\ faults = 0

page == <<list, selected, busy, modal, confirm>>
history == <<uploading, torn, behind, sent, faults>>

-----------------------------------------------------------------------------
(* Lists.  The installer has made the list when the load begins to be on    *)
(* its way; it is old once the installer has changed or a later list was    *)
(* shown.                                                                   *)

\* loadPlugins, for an action that waits for it or in the background.
NewLoad(for) == [list |-> installed, old |-> FALSE, for |-> for]
Aged == {[l EXCEPT !.old = TRUE] : l \in loads}

\* ensureSelection
Show(l) ==
  /\ list' = l.list
  /\ selected' = IF l.list = <<>> THEN None
                 ELSE IF selected \in DOMAIN l.list THEN selected
                 ELSE CHOOSE p \in DOMAIN l.list : TRUE

\* What ends with a load: performPluginAction unlocks the buttons, an upload
\* sets its timer.
AfterLoad(l) ==
  /\ busy' = IF l.for = "action" THEN None ELSE busy
  /\ timers' = IF l.for = "upload" THEN timers + 1 ELSE timers

ListArrives ==
  \E l \in loads :
    /\ Show(l) /\ AfterLoad(l)
    /\ loads' = {[m EXCEPT !.old = TRUE] : m \in loads \ {l}}
    /\ behind' = l.old
    /\ UNCHANGED <<installed, modal, confirm, requests, uploading, torn, sent, faults>>

\* A failed load shows nothing new; only the load of an action reports it.
\* That of an upload is swallowed, so its timer is set all the same.
ListFails ==
  /\ faults < MaxFaults /\ faults' = faults + 1
  /\ \E l \in loads : loads' = loads \ {l} /\ AfterLoad(l)
  /\ behind' = TRUE
  /\ UNCHANGED <<installed, list, selected, modal, confirm, requests,
                 uploading, torn, sent>>

\* The interval of 15 s, skipped while a dialog or an action is on.
BackgroundLoad ==
  /\ ~modal.open /\ confirm = None /\ ~modal.uploading /\ busy = None
  /\ Cardinality(loads) < MaxLoads
  /\ loads' = loads \cup {NewLoad("background")}
  /\ UNCHANGED <<installed, page, requests, timers, history>>

-----------------------------------------------------------------------------
(* The user.  An open dialog covers the page.                               *)

Uncovered == ~modal.open /\ confirm = None

\* renderDetails: the plugin selected has its buttons, locked by an action.
Unlocked == Uncovered /\ selected # None /\ busy = None

Select(p) ==
  /\ Uncovered /\ p \in DOMAIN list
  /\ selected' = p
  /\ UNCHANGED <<installed, list, busy, modal, confirm, requests, loads, timers, history>>

Ask(r) ==
  /\ sent < MaxRequests /\ sent' = sent + 1
  /\ requests' = requests \cup {r}
Request(k, p) == [kind |-> k, plugin |-> p, done |-> FALSE]

\* actionRequest; it does not lock the buttons.
Toggle ==
  /\ Unlocked
  /\ Ask(Request(IF list[selected] THEN "stop" ELSE "start", selected))
  /\ UNCHANGED <<installed, page, loads, timers, uploading, torn, behind, faults>>

\* openConfirmModal
OpenConfirm ==
  /\ Unlocked
  /\ \E a \in {"restart", "delete"} : confirm' = <<selected, a>>
  /\ UNCHANGED <<installed, list, selected, busy, modal, requests, loads, timers, history>>
CloseConfirm ==
  /\ confirm # None
  /\ confirm' = None
  /\ UNCHANGED <<installed, list, selected, busy, modal, requests, loads, timers, history>>

\* performPluginAction; a plugin no longer listed is ignored.
Confirm ==
  /\ confirm # None /\ confirm[1] \in DOMAIN list
  /\ Ask(Request(confirm[2], confirm[1]))
  /\ busy' = confirm
  /\ confirm' = None
  /\ UNCHANGED <<installed, list, selected, modal, loads, timers, uploading, torn, behind, faults>>

\* openUploadModal for an update of the plugin selected; an install is the
\* same with a plugin that is not listed.
OpenUpload(p) ==
  /\ Uncovered
  /\ (p = selected /\ busy = None) \/ p \notin DOMAIN list
  /\ modal' = [Closed EXCEPT !.open = TRUE, !.plugin = p]
  /\ UNCHANGED <<installed, list, selected, busy, confirm, requests, loads, timers, history>>

ChooseFile ==
  /\ modal.open /\ ~modal.uploading
  /\ modal' = [modal EXCEPT !.file = TRUE]
  /\ UNCHANGED <<installed, list, selected, busy, confirm, requests, loads, timers, history>>

\* A plausible bug: the dialog closes in the middle of an upload.
CloseAnyUpload ==
  /\ modal.open
  /\ modal' = Closed
  /\ UNCHANGED <<installed, list, selected, busy, confirm, requests, loads, timers, history>>

\* closeUploadModal
CloseUpload ==
  /\ modal.open /\ ~modal.uploading
  /\ modal' = Closed
  /\ UNCHANGED <<installed, list, selected, busy, confirm, requests, loads, timers, history>>

\* The timer closes whatever upload dialog there is by then.
TimerCloses ==
  /\ timers > 0 /\ timers' = timers - 1
  /\ modal' = Closed
  /\ torn' = (torn \/ modal.uploading)
  /\ UNCHANGED <<installed, list, selected, busy, confirm, requests, loads,
                 uploading, behind, sent, faults>>

\* submitModalUpload
SubmitUpload ==
  /\ modal.open /\ modal.file /\ ~modal.uploading
  /\ Ask(Request("upload", modal.plugin))
  /\ modal' = [modal EXCEPT !.uploading = TRUE]
  /\ uploading' = TRUE
  /\ UNCHANGED <<installed, list, selected, busy, confirm, loads, timers, torn, behind, faults>>

-----------------------------------------------------------------------------
(* The installer and its answers *)

Performed(r) ==
  CASE r.kind = "delete" -> [p \in DOMAIN installed \ {r.plugin} |-> installed[p]]
    [] r.kind = "upload" -> [p \in DOMAIN installed \cup {r.plugin} |->
                               p = r.plugin \/ installed[p]]
    [] OTHER -> [p \in DOMAIN installed |->
                   IF p = r.plugin THEN r.kind # "stop" ELSE installed[p]]

Perform ==
  \E r \in requests :
    /\ ~r.done
    /\ installed' = Performed(r)
    /\ requests' = (requests \ {r}) \cup {[r EXCEPT !.done = TRUE]}
    /\ loads' = IF installed' = installed THEN loads ELSE Aged
    /\ UNCHANGED <<page, timers, history>>

For(r) == CASE r.kind = "upload" -> "upload"
            [] r.kind \in {"restart", "delete"} -> "action"
            [] OTHER -> "toggle"
Uploaded(r) == IF r.kind # "upload" THEN UNCHANGED <<modal, uploading>>
               ELSE modal' = [modal EXCEPT !.uploading = FALSE] /\ uploading' = FALSE

\* A plausible bug: the page trusts the action to have changed nothing it shows.
AnswerWithoutLoad ==
  \E r \in requests :
    /\ r.done
    /\ requests' = requests \ {r}
    /\ Uploaded(r)
    /\ busy' = IF For(r) = "action" THEN None ELSE busy
    /\ UNCHANGED <<installed, list, selected, confirm, loads, timers, torn, behind, sent, faults>>

\* The answer has come and the list is asked for again.
Answer ==
  \E r \in requests :
    /\ r.done /\ Cardinality(loads) < MaxLoads
    /\ requests' = requests \ {r}
    /\ loads' = loads \cup {NewLoad(For(r))}
    /\ Uploaded(r)
    /\ UNCHANGED <<installed, list, selected, busy, confirm, timers, torn, behind, sent, faults>>

\* The proxy or the installer answers with an error, before or after it acted:
\* the page says so and does not ask for the list.
AnswerFails ==
  /\ faults < MaxFaults /\ faults' = faults + 1
  /\ \E r \in requests :
       /\ requests' = requests \ {r}
       /\ Uploaded(r)
       /\ busy' = IF For(r) = "action" THEN None ELSE busy
  /\ behind' = TRUE
  /\ UNCHANGED <<installed, list, selected, confirm, loads, timers, torn, sent>>

Next ==
  \/ ListArrives \/ ListFails \/ BackgroundLoad
  \/ \E p \in Plugin : Select(p) \/ OpenUpload(p)
  \/ Toggle \/ OpenConfirm \/ CloseConfirm \/ Confirm
  \/ ChooseFile \/ CloseUpload \/ TimerCloses \/ SubmitUpload
  \/ Perform \/ Answer \/ AnswerFails

Spec == Init /\ [][Next]_vars

-----------------------------------------------------------------------------
(* Properties *)

\* When every request and every list has been answered the page shows what is
\* installed and running, unless one failed or the list shown last was overtaken
\* by a change or by a later list; the next refresh puts that right.
ListCatchesUp == requests = {} /\ loads = {} /\ ~behind => list = installed

\* An upload keeps its dialog, locked and about its plugin, until the answer:
\* the only thing that takes it away is the timer of an earlier upload, which
\* closes by force what the user opened within 900 ms.
UploadKeepsDialog ==
  uploading /\ ~torn =>
    /\ modal.open /\ modal.uploading
    /\ \A r \in requests : r.kind = "upload" => r.plugin = modal.plugin
=============================================================================
