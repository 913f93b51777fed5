--------------------------- MODULE AudioControl ---------------------------
(***************************************************************************)
(* One audio control of the gateway: the ALSA mixer behind amixer, the     *)
(* soft mute of audio.rs for controls without a mute switch of their own,  *)
(* and the media pages that show and set it (pages/media.rs).              *)
(*                                                                         *)
(* Without a switch the gateway mutes by setting the volume to 0 and keeps *)
(* the volume to come back to in soft_mute_levels, which is not persisted. *)
(* A page disables its control while a request of its own is in flight,    *)
(* but there may be several pages.  The two amixer calls that read a       *)
(* control are one step; those that write it are two.                      *)
(***************************************************************************)
EXTENDS Naturals

CONSTANTS
  Page,          \* open media pages
  Volume,        \* 0 and some positive volumes
  Rounded(_),    \* what the mixer makes of a volume
  None,
  MaxWrites,     \* bound on the writes
  MaxFaults      \* bound on failing commands and restarts

VARIABLES
  has_switch,    \* the card has a separate switch for the control
  mixer,         \* volume of the mixer control
  switched_on,   \* its switch, if it has one
  level,         \* soft_mute_levels of the control, or None
  stored,        \* what alsactl stored: <<volume, switch>>
  shown,         \* per page: the state it shows and edits
  timer,         \* per page: a slider move is waiting to be sent
  step,          \* per page: where its request is; its body is what is shown
  chosen,        \* history: the last positive volume sent since a silent 0
  disturbed,     \* history: since then writes overlapped, or one failed, or a
                 \* slider on its way to 0 was overtaken by the mute button
  writes, faults

vars == <<has_switch, mixer, switched_on, level, stored, shown, timer, step, chosen, disturbed, writes, faults>>

State == [volume : Volume, muted : BOOLEAN]
Steps == {"idle", "level", "volume", "switch", "reply"}

\* The types; soft mute is used only without a switch.
TypeOK ==
  /\ has_switch \in BOOLEAN /\ switched_on \in BOOLEAN
  /\ mixer \in Volume /\ level \in Volume \cup {None}
  /\ stored \in Volume \X BOOLEAN
  /\ shown \in [Page -> State]
  /\ timer \in [Page -> BOOLEAN] /\ step \in [Page -> Steps]
  /\ has_switch => level = None
  /\ chosen \in Volume /\ disturbed \in BOOLEAN

\* read_audio_control_linux, which the card list and the test reply with.
RawView == [volume |-> mixer, muted |-> has_switch /\ ~switched_on]

\* read_control: a soft-muted control shows the volume it will come back to.
ReadControl ==
  IF ~has_switch /\ mixer = 0 /\ level # None
  THEN [volume |-> level, muted |-> TRUE]
  ELSE RawView

Init ==
  /\ has_switch \in BOOLEAN /\ switched_on = TRUE
  /\ mixer \in {Rounded(v) : v \in Volume \ {0}} \ {0}
  /\ level = None
  /\ stored = <<mixer, TRUE>>
  /\ shown = [p \in Page |-> RawView]
  /\ timer = [p \in Page |-> FALSE]
  /\ step = [p \in Page |-> "idle"]
  /\ chosen = mixer /\ disturbed = FALSE
  /\ writes = 0 /\ faults = 0

-----------------------------------------------------------------------------
(* The page *)

Busy(p) == step[p] # "idle"

\* writeState sends what the page shows; scheduleWrite delays it by 150 ms.
Send(p, s) ==
  /\ writes < MaxWrites /\ writes' = writes + 1
  /\ shown' = [shown EXCEPT ![p] = s]
  /\ step' = [step EXCEPT ![p] = "level"]
  /\ timer' = [timer EXCEPT ![p] = FALSE]
  /\ chosen' = IF s.volume > 0 \/ ~s.muted \/ has_switch THEN s.volume ELSE chosen
  /\ disturbed' = \/ \E q \in Page \ {p} : Busy(q)
                  \/ s.volume = 0 /\ (disturbed \/ (timer[p] /\ s.muted))

\* The slider moves; it unmutes.
MoveSlider(p, v) ==
  /\ ~Busy(p)
  /\ shown' = [shown EXCEPT ![p] = [volume |-> v, muted |-> FALSE]]
  /\ timer' = [timer EXCEPT ![p] = TRUE]
  /\ UNCHANGED <<has_switch, mixer, switched_on, level, stored, step,
                 chosen, disturbed, writes, faults>>

\* The timer fires or the slider is let go.
SendSlider(p) ==
  /\ ~Busy(p) /\ timer[p]
  /\ Send(p, shown[p])
  /\ UNCHANGED <<has_switch, mixer, switched_on, level, stored, faults>>

PressMute(p) ==
  /\ ~Busy(p)
  /\ Send(p, [shown[p] EXCEPT !.muted = ~@])
  /\ UNCHANGED <<has_switch, mixer, switched_on, level, stored, faults>>

\* The page is loaded again, or its test sample has been played: it shows the
\* mixer as it is.  The test also drops a waiting slider move.
ShowMixer(p) ==
  /\ ~Busy(p)
  /\ shown' = [shown EXCEPT ![p] = RawView]
  /\ timer' = [timer EXCEPT ![p] = FALSE]
  /\ UNCHANGED <<has_switch, mixer, switched_on, level, stored, step,
                 chosen, disturbed, writes, faults>>

-----------------------------------------------------------------------------
(* write_control *)

\* A plausible bug: muting remembers the volume sent, whatever it is.
LevelOfAnyMute(s) == IF s.muted \/ s.volume > 0 THEN s.volume ELSE None

\* The soft mute level after a write of s: muting at 0 keeps the old one.
LevelAfter(s) ==
  IF s.volume > 0 THEN s.volume ELSE IF s.muted THEN level ELSE None

\* The card has been looked at for a switch; without one the level is noted.
NoteLevel(p) ==
  /\ step[p] = "level"
  /\ level' = IF has_switch THEN level ELSE LevelAfter(shown[p])
  /\ step' = [step EXCEPT ![p] = "volume"]
  /\ UNCHANGED <<has_switch, mixer, switched_on, stored, shown, timer,
                 chosen, disturbed, writes, faults>>

\* amixer sset of the volume; a soft mute sets 0.
WriteVolume(p) ==
  /\ step[p] = "volume"
  /\ mixer' = IF shown[p].muted /\ ~has_switch THEN 0 ELSE Rounded(shown[p].volume)
  /\ step' = [step EXCEPT ![p] = IF has_switch THEN "switch" ELSE "reply"]
  /\ UNCHANGED <<has_switch, switched_on, level, stored, shown, timer,
                 chosen, disturbed, writes, faults>>

\* amixer sset of the switch
WriteSwitch(p) ==
  /\ step[p] = "switch"
  /\ switched_on' = ~shown[p].muted
  /\ step' = [step EXCEPT ![p] = "reply"]
  /\ UNCHANGED <<has_switch, mixer, level, stored, shown, timer, chosen,
                 disturbed, writes, faults>>

\* The control is read back and the page shows the reply (syncState).
Reply(p) ==
  /\ step[p] = "reply"
  /\ shown' = [shown EXCEPT ![p] =
       IF has_switch \/ ~shown[p].muted THEN RawView
       ELSE [volume |-> IF level = None THEN shown[p].volume ELSE level,
             muted |-> TRUE]]
  /\ step' = [step EXCEPT ![p] = "idle"]
  /\ UNCHANGED <<has_switch, mixer, switched_on, level, stored, timer,
                 chosen, disturbed, writes, faults>>

\* A command fails: an error is answered, the page keeps what it shows.
Fail(p) ==
  /\ Busy(p) /\ faults < MaxFaults
  /\ faults' = faults + 1
  /\ step' = [step EXCEPT ![p] = "idle"]
  /\ disturbed' = TRUE
  /\ UNCHANGED <<has_switch, mixer, switched_on, level, stored, shown, timer, chosen, writes>>

\* save_card: alsactl store
Save(p) ==
  /\ ~Busy(p)
  /\ stored' = <<mixer, switched_on>>
  /\ UNCHANGED <<has_switch, mixer, switched_on, level, shown, timer, step, chosen, disturbed, writes, faults>>

\* The device restarts: the mixer is as stored, the levels are gone.
Restart ==
  /\ faults < MaxFaults /\ faults' = faults + 1
  /\ mixer' = stored[1] /\ switched_on' = stored[2]
  /\ level' = None
  /\ step' = [p \in Page |-> "idle"]
  /\ disturbed' = TRUE
  /\ UNCHANGED <<has_switch, stored, shown, timer, chosen, writes>>

Next ==
  \/ Restart
  \/ \E p \in Page :
       \/ \E v \in Volume : MoveSlider(p, v)
       \/ SendSlider(p) \/ PressMute(p) \/ ShowMixer(p) \/ Save(p)
       \/ NoteLevel(p) \/ WriteVolume(p) \/ WriteSwitch(p) \/ Reply(p) \/ Fail(p)

Spec == Init /\ [][Next]_vars

-----------------------------------------------------------------------------
(* Properties *)

\* The volume last sent survives muting, testing and reloading: without
\* overlap, failure or restart the control either has it or, soft-muted, still
\* knows it, and a page that shows the control muted shows what comes back.
VolumeSurvivesMute ==
  ~disturbed /\ (\A p \in Page : ~Busy(p)) =>
    IF has_switch THEN mixer = Rounded(chosen)
    ELSE /\ mixer \in {0, Rounded(chosen)}
         /\ mixer = 0 /\ chosen > 0 => level = chosen
         /\ ReadControl.volume \in {chosen, Rounded(chosen)}
=============================================================================
