----------------------------- MODULE RadioForm -----------------------------
(***************************************************************************)
(* The form of one radio module on the radio page (the scripts of          *)
(* pages/radio.rs): its fields and how they are kept within the two bands, *)
(* the Apply and Reset buttons, the dialog that sends a test frame, and    *)
(* what the gateway saves and transmits.                                   *)
(*                                                                         *)
(* Frequencies are in units of 100 Hz and spacings in Hz: finer than the   *)
(* kilohertz the fields are rounded to, so that rounding is there.  A      *)
(* field that holds no number holds Empty.  MCS, bandwidth option, chip    *)
(* rate and rate mode are chosen from lists and passed on; they and the    *)
(* live table of frames are left out.                                      *)
(***************************************************************************)
EXTENDS Naturals

CONSTANTS
  Freq, Channel, Spacing,  \* what is typed into the fields
  Power, Pdt,              \* what is set with the sliders and typed for the PDT
  Factory,                 \* the fields as Reset leaves them
  Message,
  Empty,
  MaxEdits,                \* bound on edits
  MaxRequests,             \* bound on requests
  MaxFaults                \* bound on requests that fail

VARIABLES
  form,      \* the fields: [freq, channel, spacing, modulation, power, pdt]
  settled,   \* the frequency field has lost the focus since it was edited
  applying,  \* Apply and Reset are locked
  requests,  \* requests to apply: [n, config]
  answers,   \* answers on their way
  saved,     \* the gateway: the configuration of the module
  shown,     \* history: the fields the last request was made from
  failed,    \* history: the gateway refused or lost it
  test,      \* the test dialog: [open, text, sending]
  edits, sent, faults

vars == <<form, settled, applying, requests, answers, saved, shown, failed,
          test, edits, sent, faults>>

Mhz == 10000
SubMin == 3895 * 1000
SubMax == 1020 * Mhz
B24Min == 2400 * Mhz
B24Max == 24835 * 1000

Modulation == {"Off", "OFDM", "QPSK", "FSK"}
Slider == {"OFDM", "QPSK"}

-----------------------------------------------------------------------------
(* Fields *)

\* bandForFreq and the bands' channels
ChannelMax(f) == IF f # Empty /\ f >= B24Min THEN 511 ELSE 255

\* validateFreq, validateChannel, validateSpacing; a step finer than a kHz or
\* a Hz is refused by the field.
ValidFreq(f) == f # Empty /\ (f \in SubMin..SubMax \/ f \in B24Min..B24Max) /\ f % 10 = 0
ValidChannel(f, c) == c # Empty /\ c <= ChannelMax(f)
ValidSpacing(s) == s # Empty /\ s \in 1..10000000
Valid == /\ ValidFreq(form.freq)
         /\ ValidChannel(form.freq, form.channel)
         /\ ValidSpacing(form.spacing)

\* A plausible bug: what lies between the bands is left there.
ClampEnds(f) ==
  IF f = Empty THEN Empty
  ELSE CASE f < SubMin -> SubMin [] f > B24Max -> B24Max [] OTHER -> f

\* clampFreq: the nearest frequency of a band
ClampFreq(f) ==
  IF f = Empty THEN Empty
  ELSE CASE f < SubMin -> SubMin
         [] f > B24Max -> B24Max
         [] f > SubMax /\ f < B24Min -> IF f - SubMax <= B24Min - f THEN SubMax ELSE B24Min
         [] OTHER -> f

\* formatFixed: three decimals of a MHz
InWholeKhz(f) == IF f = Empty THEN f ELSE ((f + 5) \div 10) * 10

\* clampSpacing
ClampSpacing(s) ==
  IF s = Empty THEN Empty
  ELSE CASE s < 1 -> 1 [] s > 10000000 -> 10000000 [] OTHER -> s

\* What is sent.  A number that is not there, and 0 with it, gives way to a
\* default: 10 dBm and a PDT of 3.
Or(v, default) == IF v \in {Empty, 0} THEN default ELSE v
Payload(f) ==
  [freq |-> f.freq, spacing |-> f.spacing, channel |-> f.channel,
   modulation |-> f.modulation,
   power |-> IF f.modulation \in Slider THEN Or(f.power[f.modulation], 10) ELSE Empty,
   pdt |-> IF f.modulation = "OFDM" THEN Or(f.pdt, 3) ELSE Empty]

-----------------------------------------------------------------------------

\* The types.
TypeOK ==
  /\ form.modulation \in Modulation /\ form.power \in [Slider -> Power \cup {10}]
  /\ settled \in BOOLEAN /\ applying \in BOOLEAN /\ failed \in BOOLEAN
  /\ \A r \in requests : r.config.modulation \in Modulation
  /\ answers \subseteq {"ok", "error"}
  /\ saved.modulation \in Modulation
  /\ test \in [open : BOOLEAN, text : Message \cup {Empty}, sending : Message \cup {Empty}]

\* The page is drawn from the configuration saved; here the module is as the
\* factory left it.
Init ==
  /\ form = Factory /\ settled = TRUE
  /\ applying = FALSE /\ requests = {} /\ answers = {} /\ failed = FALSE
  /\ saved = Payload(Factory) /\ shown = Factory
  /\ test = [open |-> FALSE, text |-> Empty, sending |-> Empty]
  /\ edits = 0 /\ sent = 0 /\ faults = 0

gateway == <<applying, requests, answers, saved, shown, failed, sent, faults>>

-----------------------------------------------------------------------------
(* Edits, which nothing locks while an Apply is under way; the test dialog  *)
(* covers the form.                                                         *)

Edit == /\ ~test.open
        /\ edits < MaxEdits /\ edits' = edits + 1
        /\ UNCHANGED <<gateway, test>>

EditFreq == /\ Edit
            /\ \E f \in Freq : form' = [form EXCEPT !.freq = f]
            /\ settled' = FALSE

\* The blur handler of the field
BlurFreq ==
  /\ ~settled
  /\ form' = [form EXCEPT !.freq = InWholeKhz(ClampFreq(@))]
  /\ settled' = TRUE
  /\ UNCHANGED <<gateway, test, edits>>

EditChannel == Edit /\ UNCHANGED settled /\ \E c \in Channel : form' = [form EXCEPT !.channel = c]

\* Typed and left
EditSpacing ==
  /\ Edit /\ UNCHANGED settled
  /\ \E s \in Spacing : form' = [form EXCEPT !.spacing = ClampSpacing(s)]

\* A band button: the centre of the band and its usual spacing
ChooseBand ==
  /\ Edit
  /\ \/ form' = [form EXCEPT !.freq = 915 * Mhz, !.spacing = 200000]
     \/ form' = [form EXCEPT !.freq = 2450 * Mhz, !.spacing = 5000000]
  /\ settled' = TRUE

ChooseModulation ==
  /\ Edit /\ UNCHANGED settled
  /\ \E m \in Modulation : form' = [form EXCEPT !.modulation = m]

SetPower ==
  /\ Edit /\ UNCHANGED settled
  /\ form.modulation \in Slider
  /\ \E p \in Power : form' = [form EXCEPT !.power[form.modulation] = p]

SetPdt ==
  /\ Edit /\ UNCHANGED settled
  /\ form.modulation = "OFDM"
  /\ \E p \in Pdt : form' = [form EXCEPT !.pdt = p]

-----------------------------------------------------------------------------
(* Apply and Reset *)

Send(f) ==
  /\ sent < MaxRequests /\ sent' = sent + 1
  /\ requests' = requests \cup {[n |-> sent, config |-> Payload(f)]}
  /\ shown' = f /\ failed' = FALSE
  /\ applying' = TRUE

\* applyConfig
Apply ==
  /\ ~test.open /\ ~applying
  /\ Valid
  /\ Send(form)
  /\ UNCHANGED <<form, settled, answers, saved, test, edits, faults>>

\* Reset fills in the factory fields and applies them.
Reset ==
  /\ ~test.open /\ ~applying
  /\ form' = Factory /\ settled' = TRUE
  /\ Send(Factory)
  /\ UNCHANGED <<answers, saved, test, edits, faults>>

\* put_radio: a PDT that is no byte is refused; what is read is saved, and
\* answered for whether or not the radio takes it.
Take ==
  \E r \in requests :
    /\ requests' = requests \ {r}
    /\ IF r.config.pdt # Empty /\ r.config.pdt > 255
       THEN answers' = answers \cup {"error"} /\ UNCHANGED saved
       ELSE answers' = answers \cup {"ok"} /\ saved' = r.config
    /\ UNCHANGED <<form, settled, applying, shown, failed, test, edits, sent, faults>>

Answered ==
  \E a \in answers :
    /\ answers' = answers \ {a}
    /\ applying' = FALSE
    /\ failed' = (failed \/ a = "error")
    /\ UNCHANGED <<form, settled, requests, saved, shown, test, edits, sent, faults>>

\* The request does not reach the gateway, or its answer not the page.
Lost ==
  /\ faults < MaxFaults /\ faults' = faults + 1
  /\ \/ \E r \in requests : requests' = requests \ {r} /\ UNCHANGED answers
     \/ \E a \in answers : answers' = answers \ {a} /\ UNCHANGED requests
  /\ applying' = FALSE /\ failed' = TRUE
  /\ UNCHANGED <<form, settled, saved, shown, test, edits, sent>>

-----------------------------------------------------------------------------
(* The test dialog *)

fields == <<form, settled>>

OpenTest == /\ ~test.open
            /\ test' = [test EXCEPT !.open = TRUE]
            /\ UNCHANGED <<fields, gateway, edits>>
CloseTest == /\ test.open
             /\ test' = [test EXCEPT !.open = FALSE]
             /\ UNCHANGED <<fields, gateway, edits>>

TypeTest ==
  /\ test.open
  /\ edits < MaxEdits /\ edits' = edits + 1
  /\ \E t \in Message : test' = [test EXCEPT !.text = t]
  /\ UNCHANGED <<fields, gateway>>

\* sendTestMessage
SendTest ==
  /\ test.open /\ test.text # Empty /\ test.sending = Empty
  /\ sent < MaxRequests /\ sent' = sent + 1
  /\ test' = [test EXCEPT !.sending = test.text]
  /\ UNCHANGED <<fields, applying, requests, answers, saved, shown, failed, faults,
                 edits>>

\* post_radio_test, transmit_test_frame and the answer, which closes the dialog
\* and clears the text whatever they are by then.
TestTransmitted ==
  /\ test.sending # Empty
  /\ test' = [open |-> FALSE, text |-> Empty, sending |-> Empty]
  /\ UNCHANGED <<fields, gateway, edits>>

\* No radio, a text too long, a client that fails: the dialog says so and stays.
TestFails ==
  /\ test.sending # Empty
  /\ faults < MaxFaults /\ faults' = faults + 1
  /\ test' = [test EXCEPT !.sending = Empty]
  /\ UNCHANGED <<fields, applying, requests, answers, saved, shown, failed, sent,
                 edits>>

Next ==
  \/ EditFreq \/ BlurFreq \/ EditChannel \/ EditSpacing \/ ChooseBand
  \/ ChooseModulation \/ SetPower \/ SetPdt
  \/ Apply \/ Reset \/ Take \/ Answered \/ Lost
  \/ OpenTest \/ CloseTest \/ TypeTest \/ SendTest \/ TestTransmitted \/ TestFails

Spec == Init /\ [][Next]_vars

-----------------------------------------------------------------------------
(* Properties *)

\* A frequency field that was left holds a frequency of one of the bands, or
\* nothing: the corrections at the ends, between the bands and of the decimals
\* agree with the validation.
LeftFieldIsInBand == settled /\ form.freq # Empty => ValidFreq(form.freq)

\* The power applied is the power the slider showed: "0 dBm" is among its values.
PowerIsSent ==
  ~applying /\ ~failed /\ saved.modulation \in Slider =>
    saved.power = shown.power[saved.modulation]
=============================================================================
