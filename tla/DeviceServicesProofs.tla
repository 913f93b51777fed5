------------------------ MODULE DeviceServicesProofs ------------------------
(***************************************************************************)
(* Proofs about the device services, for any values of the constants that  *)
(* satisfy what DeviceServices assumes of them.  First the inductive       *)
(* invariants of the pages and of the components beside the gateway (those *)
(* of the gateway are in GatewayProofs); then, for each component, that    *)
(* the composition makes only its steps, that its invariant therefore      *)
(* holds in every state, and what follows.                                 *)
(***************************************************************************)
EXTENDS GatewayProofs, FiniteSetTheorems, WellFoundedInduction, TLAPS

-----------------------------------------------------------------------------
(* The radio form (pages/radio.rs).  Every way a frequency comes into the form *)
(* leaves it clamped and rounded, and clamping and rounding end within a band. *)

\* The six fields.
FormForm(f) ==
  /\ f = [freq |-> f.freq, channel |-> f.channel, spacing |-> f.spacing,
          modulation |-> f.modulation, power |-> f.power, pdt |-> f.pdt]
  /\ f.freq \in Nat \cup {Empty}
  /\ f.modulation \in Form!Modulation
  /\ f.power \in [Form!Slider -> Power \cup {10}]

FormIInv == Form!TypeOK /\ FormForm(form) /\ Form!LeftFieldIsInBand

\* The ends of the bands, in units of 100 Hz.
LEMMA FormBands ==
  /\ Form!SubMin = 3895000
  /\ Form!SubMax = 10200000
  /\ Form!B24Min = 24000000
  /\ Form!B24Max = 24835000
BY SMT DEF Form!SubMin, Form!SubMax, Form!B24Min, Form!B24Max, Form!Mhz

LEMMA FormBandsTyped ==
  /\ Form!SubMin \in Nat
  /\ Form!SubMax \in Nat
  /\ Form!B24Min \in Nat
  /\ Form!B24Max \in Nat
BY FormBands, SMT

\* Between the ends of a band, by the inequalities.
FormInBand(f) ==
  \/ (Form!SubMin <= f /\ f <= Form!SubMax)
  \/ (Form!B24Min <= f /\ f <= Form!B24Max)

LEMMA FormValidated ==
  ASSUME NEW f \in Nat, FormInBand(f), f % 10 = 0 PROVE Form!ValidFreq(f)
<1>1. f # Empty
  BY FormAssumption
<1> QED BY <1>1, FormBandsTyped DEF FormInBand, Form!ValidFreq

\* The corrections of a number make it a frequency of a band.
LEMMA FormCorrectedIsInBand ==
  ASSUME NEW f \in Nat
  PROVE  /\ Form!InWholeKhz(Form!ClampFreq(f)) \in Nat
         /\ Form!ValidFreq(Form!InWholeKhz(Form!ClampFreq(f)))
<1>1. f # Empty
  BY FormAssumption
<1>2. /\ Form!SubMin < Form!SubMax
      /\ Form!SubMax < Form!B24Min
      /\ Form!B24Min < Form!B24Max
  BY FormBands, SMT
<1>3. Form!ClampFreq(f) \in Nat /\ FormInBand(Form!ClampFreq(f))
  <2>1. CASE f < Form!SubMin
    BY <1>1, <1>2, <2>1, FormBandsTyped, SMT DEF Form!ClampFreq, FormInBand
  <2>2. CASE f > Form!B24Max
    BY <1>1, <1>2, <2>2, FormBandsTyped, SMT DEF Form!ClampFreq, FormInBand
  <2>3. CASE f > Form!SubMax /\ f < Form!B24Min
    BY <1>1, <1>2, <2>3, FormBandsTyped, SMT DEF Form!ClampFreq, FormInBand
  <2>4. CASE ~(f < Form!SubMin \/ f > Form!B24Max \/ (f > Form!SubMax /\ f < Form!B24Min))
    BY <1>1, <1>2, <2>4, FormBandsTyped, SMT DEF Form!ClampFreq, FormInBand
  <2> QED BY <2>1, <2>2, <2>3, <2>4
<1>4. ASSUME NEW c \in Nat, FormInBand(c), NEW q, q = ((c + 5) \div 10) * 10
      PROVE  q \in Nat /\ FormInBand(q) /\ q % 10 = 0
  <2>1. PICK d \in Nat : d = (c + 5) \div 10 /\ d * 10 <= c + 5 /\ c + 5 < d * 10 + 10
    BY SMT
  <2>2. q = d * 10 /\ q \in Nat /\ q % 10 = 0 /\ q <= c + 5 /\ c + 5 < q + 10
    BY <1>4, <2>1, SMT
  <2>3. FormInBand(q)
    BY <1>4, <2>1, <2>2, FormBands, SMT DEF FormInBand
  <2> QED BY <2>2, <2>3
<1>5. Form!InWholeKhz(Form!ClampFreq(f)) = ((Form!ClampFreq(f) + 5) \div 10) * 10
  BY <1>3, FormAssumption DEF Form!InWholeKhz
<1> QED BY <1>3, <1>4, <1>5, FormValidated

LEMMA FormCorrectedEmpty == Form!InWholeKhz(Form!ClampFreq(Empty)) = Empty
  BY DEF Form!InWholeKhz, Form!ClampFreq

\* The centres of the bands are in them.
LEMMA FormCentres ==
  \A f : f = 915 * Form!Mhz \/ f = 2450 * Form!Mhz => f \in Nat /\ Form!ValidFreq(f)
<1> SUFFICES ASSUME NEW f, f = 915 * Form!Mhz \/ f = 2450 * Form!Mhz
             PROVE  f \in Nat /\ Form!ValidFreq(f)
  BY SMT
<1>1. f = 9150000 \/ f = 24500000
  BY SMT DEF Form!Mhz
<1>2. f \in Nat /\ FormInBand(f) /\ f % 10 = 0
  BY <1>1, FormBands, SMT DEF FormInBand
<1> QED BY <1>2, FormValidated

\* What a band button leaves in the two fields.
LEMMA FormChosenBand ==
  ASSUME FormForm(form), Form!ChooseBand
  PROVE  radio_form_settled' = TRUE /\ FormForm(form') /\ Form!ValidFreq(form'.freq)
<1> DEFINE a == 915 * Form!Mhz
           b == 2450 * Form!Mhz
           narrow == 200000
           wide == 5000000
<1>1. \/ form' = [form EXCEPT !.freq = a, !.spacing = narrow]
      \/ form' = [form EXCEPT !.freq = b, !.spacing = wide]
  BY SMT DEF Form!ChooseBand
<1>2. radio_form_settled' = TRUE
  BY SMT DEF Form!ChooseBand
<1>3. a \in Nat /\ Form!ValidFreq(a) /\ b \in Nat /\ Form!ValidFreq(b)
  BY FormCentres, SMT
<1> HIDE DEF a, b, narrow, wide
<1>4. ASSUME NEW f \in Nat, NEW s, form' = [form EXCEPT !.freq = f, !.spacing = s]
      PROVE  FormForm(form') /\ form'.freq = f
  BY <1>4 DEF FormForm
<1> QED BY <1>1, <1>2, <1>3, <1>4

LEMMA FormPayloadModulation == \A f : Form!Payload(f).modulation = f.modulation
  BY DEF Form!Payload

LEMMA FormInitInvariant == Form!Init => FormIInv
<1> SUFFICES ASSUME Form!Init PROVE FormIInv
  OBVIOUS
<1>1. FormForm(Factory)
  BY FormAssumption DEF FormForm
<1>2. Form!TypeOK
  BY <1>1, FormPayloadModulation DEF Form!Init, Form!TypeOK, FormForm
<1> QED BY <1>1, <1>2, FormAssumption DEF Form!Init, FormIInv, Form!LeftFieldIsInBand

\* An edit of the fields keeps them what they are.
LEMMA FormEditStep ==
  ASSUME Form!TypeOK, FormForm(form), [Form!Next]_(Form!vars),
         UNCHANGED <<Form!gateway, test>>,
         form' = form \/ Form!EditFreq \/ Form!BlurFreq \/ Form!EditChannel \/ Form!EditSpacing
            \/ Form!ChooseBand
                      \/ Form!ChooseModulation \/ Form!SetPower \/ Form!SetPdt
  PROVE  FormForm(form')
<1>1. CASE Form!EditFreq
  BY <1>1, FormAssumption DEF Form!EditFreq, FormForm
<1>2. CASE Form!BlurFreq
  <2>1. Form!InWholeKhz(Form!ClampFreq(form.freq)) \in Nat \cup {Empty}
    BY FormCorrectedIsInBand, FormCorrectedEmpty DEF FormForm
  <2> QED BY <1>2, <2>1 DEF Form!BlurFreq, FormForm
<1>3. CASE Form!EditChannel \/ Form!EditSpacing \/ Form!SetPdt
  BY <1>3 DEF Form!EditChannel, Form!EditSpacing, Form!SetPdt, FormForm
<1>4. CASE Form!ChooseBand
  BY <1>4, FormChosenBand DEF FormForm
<1>5. CASE Form!ChooseModulation
  BY <1>5 DEF Form!ChooseModulation, FormForm
<1>6. CASE Form!SetPower
  <2>1. PICK p \in Power : form' = [form EXCEPT !.power[form.modulation] = p]
    BY <1>6 DEF Form!SetPower
  <2>2. /\ form'.power = [form.power EXCEPT ![form.modulation] = p]
        /\ form' = [freq |-> form.freq, channel |-> form.channel, spacing |-> form.spacing,
                    modulation |-> form.modulation, power |-> form'.power,
                    pdt |-> form.pdt]
    BY <2>1 DEF FormForm
  <2>3. form'.power \in [Form!Slider -> Power \cup {10}]
    BY <2>2 DEF FormForm
  <2> QED BY <2>2, <2>3 DEF FormForm
<1> QED BY <1>1, <1>2, <1>3, <1>4, <1>5, <1>6

LEMMA FormFieldStep ==
  ASSUME FormIInv,
         \/ Form!EditFreq \/ Form!BlurFreq \/ Form!EditChannel \/ Form!EditSpacing
         \/ Form!ChooseBand
                   \/ Form!ChooseModulation \/ Form!SetPower \/ Form!SetPdt
  PROVE  FormIInv'
<1>1. UNCHANGED <<Form!gateway, test>> /\ Form!Next
  BY DEF Form!EditFreq, Form!BlurFreq, Form!EditChannel, Form!EditSpacing,
         Form!ChooseBand, Form!ChooseModulation, 
         Form!SetPower, Form!SetPdt, Form!Edit, Form!Next
<1>2. FormForm(form')
  BY <1>1, FormEditStep DEF FormIInv
<1>3. radio_form_settled' \in BOOLEAN
  <2>1. CASE Form!ChooseBand
    BY <2>1, FormChosenBand DEF FormIInv
  <2>2. CASE ~Form!ChooseBand
    BY <2>2
       DEF Form!EditFreq, Form!BlurFreq, Form!EditChannel, Form!EditSpacing,
           Form!ChooseModulation, Form!SetPower, 
                Form!SetPdt, FormIInv, Form!TypeOK
  <2> QED BY <2>1, <2>2
<1>4. Form!TypeOK'
  BY <1>1, <1>2, <1>3 DEF FormIInv, Form!TypeOK, Form!gateway, FormForm
<1>5. Form!LeftFieldIsInBand'
  <2>1. CASE Form!EditFreq
    BY <2>1 DEF Form!EditFreq, Form!LeftFieldIsInBand
  <2>2. CASE Form!BlurFreq
    <3>1. form'.freq = Form!InWholeKhz(Form!ClampFreq(form.freq))
      BY <2>2 DEF Form!BlurFreq, FormIInv, FormForm
    <3>2. form.freq \in Nat \/ form.freq = Empty
      BY DEF FormIInv, FormForm
    <3> QED
      BY <3>1, <3>2, FormCorrectedIsInBand, FormCorrectedEmpty
         DEF Form!LeftFieldIsInBand
  <2>3. CASE Form!ChooseBand
    BY <2>3, FormChosenBand DEF FormIInv, Form!LeftFieldIsInBand
  <2>4. CASE Form!EditChannel \/ Form!EditSpacing \/ Form!ChooseModulation
               \/ Form!SetPower \/ Form!SetPdt
    <3>1. form'.freq = form.freq /\ radio_form_settled' = radio_form_settled
      BY <2>4
         DEF Form!EditChannel, Form!EditSpacing, Form!ChooseModulation, Form!SetPower,
             Form!SetPdt, FormIInv, FormForm
    <3> QED BY <3>1 DEF FormIInv, Form!LeftFieldIsInBand
  <2> QED BY <2>1, <2>2, <2>3, <2>4
<1> QED BY <1>2, <1>4, <1>5 DEF FormIInv

LEMMA FormGatewayStep ==
  ASSUME FormIInv, Form!Apply \/ Form!Reset \/ Form!Take \/ Form!Answered \/ Form!Lost
  PROVE  FormIInv'
<1>1. CASE Form!Apply
  <2>1. UNCHANGED <<form, radio_form_settled, answers, saved, test>>
    BY <1>1 DEF Form!Apply
  <2>2. /\ radio_form_requests'
             = radio_form_requests \cup {[n |-> radio_form_sent, config |-> Form!Payload(form)]}
        /\ radio_form_failed' = FALSE /\ applying' = TRUE
    BY <1>1 DEF Form!Apply, Form!Send
  <2>3. \A r \in radio_form_requests' : r.config.modulation \in Form!Modulation
    BY <2>2, FormPayloadModulation DEF FormIInv, Form!TypeOK
  <2> QED BY <2>1, <2>2, <2>3 DEF FormIInv, Form!TypeOK, Form!LeftFieldIsInBand
<1>2. CASE Form!Reset
  <2>1. UNCHANGED <<answers, saved, test>> /\ form' = Factory /\ radio_form_settled' = TRUE
    BY <1>2 DEF Form!Reset
  <2>2. /\ radio_form_requests'
             = radio_form_requests \cup {[n |-> radio_form_sent, config |-> Form!Payload(Factory)]}
        /\ radio_form_failed' = FALSE /\ applying' = TRUE
    BY <1>2 DEF Form!Reset, Form!Send
  <2>3. FormForm(Factory)
    BY FormAssumption DEF FormForm
  <2>4. \A r \in radio_form_requests' : r.config.modulation \in Form!Modulation
    BY <2>2, <2>3, FormPayloadModulation DEF FormIInv, Form!TypeOK, FormForm
  <2>5. Form!TypeOK'
    BY <2>1, <2>2, <2>3, <2>4 DEF FormIInv, Form!TypeOK, FormForm
  <2> QED BY <2>1, <2>3, <2>5, FormAssumption DEF FormIInv, Form!LeftFieldIsInBand
<1>3. CASE Form!Take \/ Form!Answered \/ Form!Lost
  <2>1. UNCHANGED <<form, radio_form_settled, test>>
    BY <1>3 DEF Form!Take, Form!Answered, Form!Lost
  <2>2. /\ radio_form_requests' \subseteq radio_form_requests
        /\ answers' \subseteq {"ok", "error"}
        /\ applying' \in BOOLEAN /\ radio_form_failed' \in BOOLEAN
        /\ saved'.modulation \in Form!Modulation
    BY <1>3 DEF Form!Take, Form!Answered, Form!Lost, FormIInv, Form!TypeOK
  <2>3. Form!TypeOK'
    BY <2>1, <2>2 DEF FormIInv, Form!TypeOK
  <2> QED BY <2>1, <2>3 DEF FormIInv, Form!LeftFieldIsInBand
<1> QED BY <1>1, <1>2, <1>3

LEMMA FormTestStep ==
  ASSUME FormIInv,
         Form!OpenTest \/ Form!CloseTest \/ Form!TypeTest \/ Form!SendTest
           \/ Form!TestTransmitted \/ Form!TestFails
  PROVE  FormIInv'
<1>1. UNCHANGED <<form, radio_form_settled, applying, radio_form_requests, answers, saved,
                  radio_form_failed>>
  BY DEF Form!OpenTest, Form!CloseTest, Form!TypeTest, Form!SendTest,
         Form!TestTransmitted, Form!TestFails, Form!fields, Form!gateway
<1>2. test' \in [open : BOOLEAN, text : Message \cup {Empty}, sending : Message \cup {Empty}]
  <2>1. CASE Form!OpenTest \/ Form!CloseTest
    BY <2>1 DEF Form!OpenTest, Form!CloseTest, FormIInv, Form!TypeOK
  <2>2. CASE Form!TypeTest
    BY <2>2 DEF Form!TypeTest, FormIInv, Form!TypeOK
  <2>3. CASE Form!SendTest \/ Form!TestFails
    BY <2>3 DEF Form!SendTest, Form!TestFails, FormIInv, Form!TypeOK
  <2>4. CASE Form!TestTransmitted
    BY <2>4 DEF Form!TestTransmitted
  <2> QED BY <2>1, <2>2, <2>3, <2>4
<1>3. Form!TypeOK'
  BY <1>1, <1>2 DEF FormIInv, Form!TypeOK
<1> QED BY <1>1, <1>3 DEF FormIInv, Form!LeftFieldIsInBand

LEMMA FormInvariantStep == FormIInv /\ [Form!Next]_(Form!vars) => FormIInv'
<1>1. ASSUME FormIInv, UNCHANGED Form!vars PROVE FormIInv'
  BY <1>1 DEF Form!vars, FormIInv, Form!TypeOK, Form!LeftFieldIsInBand
<1> QED BY <1>1, FormFieldStep, FormGatewayStep, FormTestStep DEF Form!Next

LEMMA FormKept == FormIInv => Form!TypeOK /\ Form!LeftFieldIsInBand
BY DEF FormIInv

-----------------------------------------------------------------------------
(* The VPN page (pages/vpn.rs).  What the page shows, what it has sent and     *)
(* what the gateway has taken agree on what the user asked for last, unless    *)
(* two requests have crossed.                                                  *)

VpnPageSaving == [n : Nat, want : Vpn!Access, taken : BOOLEAN]

\* The body is covered while a dialog is open, whichever closed last; what was
\* typed into an editor is gone when it closes.
VpnPageCoverKept == /\ covered <=> editor.open \/ shortcut # None
                    /\ ~editor.open => typed = None

\* A save that overlapped no other is the only one there, and until it is
\* answered it holds what the page shows and the user asked for.
VpnPageLoneSave ==
  ~vpn_page_crossed => \/ saves = {} /\ allow = access /\ allow = vpn_page_wanted
                       \/ \E s \in VpnPageSaving : /\ saves = {s}
                                                   /\ s.want = access
                                                   /\ s.want = vpn_page_wanted
                                                   /\ s.taken => allow = s.want

\* A test has its button locked while it runs, and runs once.
VpnPageTestsKept == \A t \in Vpn!Test : /\ t \in vpn_page_busy <=> running[t] = 1
                                        /\ t \in vpn_page_busy => t \notin enabled

VpnPageIInv == /\ Vpn!TypeOK /\ saves \subseteq VpnPageSaving /\ vpn_page_sent \in Nat
               /\ VpnPageCoverKept
               /\ Vpn!EditorKeepsText
               /\ VpnPageLoneSave
               /\ VpnPageTestsKept

LEMMA VpnPageInitInvariant == Vpn!Init => VpnPageIInv
<1> SUFFICES ASSUME Vpn!Init PROVE VpnPageIInv
  OBVIOUS
<1>1. allow \in Vpn!Access
  BY DEF Vpn!Init, Vpn!Access
<1>2. Vpn!Prefill(routes) \in VpnPageText
  BY VpnPageAssumption DEF Vpn!Init, Vpn!Prefill
<1>3. Vpn!TypeOK
  BY <1>1, <1>2 DEF Vpn!Init, Vpn!TypeOK
<1>4. VpnPageCoverKept /\ Vpn!EditorKeepsText
  BY DEF Vpn!Init, VpnPageCoverKept, Vpn!EditorKeepsText
<1>5. VpnPageLoneSave /\ VpnPageTestsKept /\ vpn_page_sent \in Nat /\ saves = {}
  BY DEF Vpn!Init, VpnPageLoneSave, VpnPageTestsKept
<1> QED BY <1>3, <1>4, <1>5 DEF VpnPageIInv

\* What a step of the allowlist must keep, by what it leaves alone.
VpnPageAccessKept == /\ allow \in Vpn!Access /\ access \in Vpn!Access
                     /\ vpn_page_wanted \in Vpn!Access
                     /\ saves \subseteq VpnPageSaving
                     /\ vpn_page_sent \in Nat
                     /\ VpnPageLoneSave
VpnPageEditorKept == /\ routes \in VpnPageText /\ typed \in VpnPageText \cup {None}
                     /\ editor \in [open : BOOLEAN, text : VpnPageText, saving : BOOLEAN]
                     /\ put = None \/ put \in [text : VpnPageText, taken : BOOLEAN]
                     /\ shortcut \in VpnPagePeer \cup {None}
                     /\ VpnPageCoverKept /\ Vpn!EditorKeepsText
VpnPageTestKept == /\ vpn_page_busy \subseteq Vpn!Test /\ enabled \subseteq Vpn!Test
                   /\ running \in [Vpn!Test -> 0..1] /\ VpnPageTestsKept

LEMMA VpnPageParts ==
  VpnPageIInv <=> VpnPageAccessKept /\ VpnPageEditorKept /\ VpnPageTestKept
BY DEF VpnPageIInv, Vpn!TypeOK, VpnPageAccessKept, VpnPageEditorKept, VpnPageTestKept,
       VpnPageSaving

LEMMA VpnPagePartsNext ==
  VpnPageAccessKept' /\ VpnPageEditorKept' /\ VpnPageTestKept' => VpnPageIInv'
BY DEF VpnPageIInv, Vpn!TypeOK, VpnPageAccessKept, VpnPageEditorKept, VpnPageTestKept,
       VpnPageSaving

LEMMA VpnPageAccessIdle ==
  ASSUME VpnPageAccessKept, UNCHANGED Vpn!accessVars,
         vpn_page_sent' = vpn_page_sent \/ vpn_page_sent' = vpn_page_sent + 1
  PROVE  VpnPageAccessKept'
BY DEF VpnPageAccessKept, Vpn!accessVars, VpnPageLoneSave

LEMMA VpnPageEditorIdle ==
  ASSUME VpnPageEditorKept, UNCHANGED <<Vpn!editorVars, shortcut, covered>>
  PROVE  VpnPageEditorKept'
BY DEF VpnPageEditorKept, Vpn!editorVars, VpnPageCoverKept, Vpn!EditorKeepsText

LEMMA VpnPageTestIdle ==
  ASSUME VpnPageTestKept, UNCHANGED Vpn!testVars PROVE VpnPageTestKept'
BY DEF VpnPageTestKept, Vpn!testVars, VpnPageTestsKept

\* A save: alone, it holds what is asked for; else it crosses another.
LEMMA VpnPageSaveStep ==
  ASSUME VpnPageAccessKept, NEW new \in Vpn!Access, Vpn!Save(new), UNCHANGED allow
  PROVE  VpnPageAccessKept'
<1> DEFINE s == [n |-> vpn_page_sent, want |-> new, taken |-> FALSE]
<1>1. /\ access' = new /\ vpn_page_wanted' = new /\ saves' = saves \cup {s}
      /\ vpn_page_crossed' = (saves # {}) /\ vpn_page_sent' = vpn_page_sent + 1
  BY DEF Vpn!Save, Vpn!Ask
<1>2. s \in VpnPageSaving /\ s.want = new /\ ~s.taken
  BY DEF VpnPageAccessKept, VpnPageSaving
<1> HIDE DEF s
<1>3. VpnPageLoneSave'
  BY <1>1, <1>2 DEF VpnPageLoneSave
<1> QED BY <1>1, <1>2, <1>3 DEF VpnPageAccessKept

LEMMA VpnPageAccessStep ==
  ASSUME VpnPageIInv, \/ \E p \in VpnPagePeer : Vpn!Add(p) \/ Vpn!Remove(p)
                      \/ Vpn!ToggleAllowAll
                      \/ Vpn!TakeSave
                      \/ Vpn!SaveAnswered
                      \/ Vpn!SaveFails
  PROVE  VpnPageIInv'
<1>1. VpnPageAccessKept /\ VpnPageEditorKept /\ VpnPageTestKept
  BY VpnPageParts
<1>2. UNCHANGED <<Vpn!editorVars, shortcut, covered>> /\ UNCHANGED Vpn!testVars
  BY DEF Vpn!Add, Vpn!Remove, Vpn!ToggleAllowAll, Vpn!TakeSave, Vpn!SaveAnswered,
         Vpn!SaveFails
<1>3. VpnPageEditorKept' /\ VpnPageTestKept'
  BY <1>1, <1>2, VpnPageEditorIdle, VpnPageTestIdle
<1>4. ASSUME NEW p \in VpnPagePeer, Vpn!Add(p) \/ Vpn!Remove(p) PROVE VpnPageAccessKept'
  <2>1. /\ [access EXCEPT !.peers = @ \cup {p}] \in Vpn!Access
        /\ [access EXCEPT !.peers = @ \ {p}] \in Vpn!Access
    BY <1>1 DEF VpnPageAccessKept, Vpn!Access
  <2>2. /\ UNCHANGED allow
        /\ \/ Vpn!Save([access EXCEPT !.peers = @ \cup {p}])
           \/ Vpn!Save([access EXCEPT !.peers = @ \ {p}])
    BY <1>4 DEF Vpn!Add, Vpn!Remove
  <2> QED BY <1>1, <2>1, <2>2, VpnPageSaveStep
<1>5. ASSUME Vpn!ToggleAllowAll PROVE VpnPageAccessKept'
  <2>1. [access EXCEPT !.all = ~@] \in Vpn!Access
    BY <1>1 DEF VpnPageAccessKept, Vpn!Access
  <2>2. Vpn!Save([access EXCEPT !.all = ~@]) /\ UNCHANGED allow
    BY <1>5 DEF Vpn!ToggleAllowAll
  <2> QED BY <1>1, <2>1, <2>2, VpnPageSaveStep
<1>6. ASSUME Vpn!TakeSave PROVE VpnPageAccessKept'
  <2>1. PICK s \in saves : /\ ~s.taken /\ allow' = s.want
                           /\ saves' = (saves \ {s}) \cup {[s EXCEPT !.taken = TRUE]}
                           /\ UNCHANGED <<access, vpn_page_wanted, vpn_page_crossed,
                                          vpn_page_sent>>
    BY <1>6 DEF Vpn!TakeSave
  <2>2. s \in VpnPageSaving
    BY <1>1, <2>1 DEF VpnPageAccessKept
  <2> DEFINE marked == [s EXCEPT !.taken = TRUE]
  <2>3. marked \in VpnPageSaving /\ marked.want = s.want
    BY <2>2 DEF VpnPageSaving
  <2>4. saves' = (saves \ {s}) \cup {marked}
    BY <2>1
  <2> HIDE DEF marked
  <2>5. VpnPageLoneSave'
    <3> SUFFICES ASSUME ~vpn_page_crossed PROVE VpnPageLoneSave'
      BY <2>1 DEF VpnPageLoneSave
    <3>1. saves = {s} /\ s.want = access /\ s.want = vpn_page_wanted
      BY <1>1, <2>1 DEF VpnPageAccessKept, VpnPageLoneSave
    <3>2. saves' = {marked}
      BY <2>4, <3>1
    <3> QED BY <2>1, <2>3, <3>1, <3>2 DEF VpnPageLoneSave
  <2>6. allow' \in Vpn!Access
    BY <2>1, <2>2 DEF VpnPageSaving
  <2>7. saves' \subseteq VpnPageSaving
    BY <1>1, <2>3, <2>4 DEF VpnPageAccessKept
  <2> QED BY <1>1, <2>1, <2>5, <2>6, <2>7 DEF VpnPageAccessKept
<1>7. ASSUME Vpn!SaveAnswered PROVE VpnPageAccessKept'
  <2>1. PICK s \in saves : /\ s.taken /\ access' = s.want /\ saves' = saves \ {s}
                           /\ UNCHANGED <<allow, vpn_page_wanted, vpn_page_crossed,
                                          vpn_page_sent>>
    BY <1>7 DEF Vpn!SaveAnswered
  <2>2. s \in VpnPageSaving /\ access' \in Vpn!Access
    BY <1>1, <2>1 DEF VpnPageAccessKept, VpnPageSaving
  <2>3. VpnPageLoneSave'
    BY <1>1, <2>1 DEF VpnPageAccessKept, VpnPageLoneSave
  <2>4. saves' \subseteq VpnPageSaving
    BY <1>1, <2>1 DEF VpnPageAccessKept
  <2> QED BY <1>1, <2>1, <2>2, <2>3, <2>4 DEF VpnPageAccessKept
<1>8. ASSUME Vpn!SaveFails PROVE VpnPageAccessKept'
  <2>1. /\ saves' \subseteq saves /\ vpn_page_crossed' = TRUE
        /\ UNCHANGED <<allow, access, vpn_page_wanted, vpn_page_sent>>
    BY <1>8 DEF Vpn!SaveFails
  <2>2. saves' \subseteq VpnPageSaving
    BY <1>1, <2>1 DEF VpnPageAccessKept
  <2>3. VpnPageLoneSave'
    BY <2>1 DEF VpnPageLoneSave
  <2> QED BY <1>1, <2>1, <2>2, <2>3 DEF VpnPageAccessKept
<1> QED BY <1>3, <1>4, <1>5, <1>6, <1>7, <1>8, VpnPageParts, VpnPagePartsNext

\* A dialog opens, closes, is typed into, submitted or answered.
LEMMA VpnPageDialogStep ==
  ASSUME VpnPageIInv,
         \/ Vpn!CancelShortcut \/ Vpn!OpenEditor \/ Vpn!CloseEditor \/ Vpn!SubmitRoutes
         \/ Vpn!TakeRoutes
                      \/ Vpn!RoutesAnswered
                      \/ Vpn!TimerCloses
                      \/ \E t \in VpnPageText : Vpn!Type(t)
  PROVE  VpnPageIInv'
<1>1. VpnPageAccessKept /\ VpnPageEditorKept /\ VpnPageTestKept
  BY VpnPageParts
<1>2. /\ UNCHANGED Vpn!accessVars
      /\ UNCHANGED Vpn!testVars
      /\ (vpn_page_sent' = vpn_page_sent \/ vpn_page_sent' = vpn_page_sent + 1)
  BY DEF Vpn!CancelShortcut, Vpn!OpenEditor, Vpn!CloseEditor, Vpn!SubmitRoutes,
         Vpn!TakeRoutes, Vpn!RoutesAnswered, 
         Vpn!TimerCloses, Vpn!Type, Vpn!Ask
<1>3. VpnPageAccessKept' /\ VpnPageTestKept'
  BY <1>1, <1>2, VpnPageAccessIdle, VpnPageTestIdle
<1>4. ASSUME Vpn!CancelShortcut PROVE VpnPageEditorKept'
  <2>1. /\ \/ UNCHANGED <<editor, typed>>
           \/ editor' = [editor EXCEPT !.open = FALSE] /\ typed' = None
        /\ shortcut' = None /\ UNCHANGED <<routes, put>>
        /\ covered' <=> editor'.open
    BY <1>4 DEF Vpn!CancelShortcut, Vpn!Covered
  <2>2. editor' \in [open : BOOLEAN, text : VpnPageText, saving : BOOLEAN]
    BY <1>1, <2>1 DEF VpnPageEditorKept
  <2>3. VpnPageCoverKept' /\ Vpn!EditorKeepsText'
    BY <1>1, <2>1 DEF VpnPageEditorKept, VpnPageCoverKept, Vpn!EditorKeepsText
  <2> QED BY <1>1, <2>1, <2>2, <2>3 DEF VpnPageEditorKept
<1>5. ASSUME Vpn!OpenEditor PROVE VpnPageEditorKept'
  <2>1. /\ editor' = [editor EXCEPT !.open = TRUE] /\ UNCHANGED <<routes, put, typed, shortcut>>
        /\ covered' /\ ~editor.open
    BY <1>5 DEF Vpn!OpenEditor, Vpn!Covered
  <2>2. editor' \in [open : BOOLEAN, text : VpnPageText, saving : BOOLEAN]
    BY <1>1, <2>1 DEF VpnPageEditorKept
  <2>3. VpnPageCoverKept' /\ Vpn!EditorKeepsText'
    BY <1>1, <2>1 DEF VpnPageEditorKept, VpnPageCoverKept, Vpn!EditorKeepsText
  <2> QED BY <1>1, <2>1, <2>2, <2>3 DEF VpnPageEditorKept
<1>6. ASSUME Vpn!CloseEditor \/ Vpn!TimerCloses PROVE VpnPageEditorKept'
  <2>1. /\ editor' = [editor EXCEPT !.open = FALSE] /\ typed' = None
        /\ UNCHANGED <<routes, put, shortcut>>
        /\ covered' <=> shortcut # None
    BY <1>6 DEF Vpn!CloseEditor, Vpn!TimerCloses, Vpn!Close, Vpn!Covered
  <2>2. editor' \in [open : BOOLEAN, text : VpnPageText, saving : BOOLEAN]
    BY <1>1, <2>1 DEF VpnPageEditorKept
  <2>3. VpnPageCoverKept' /\ Vpn!EditorKeepsText'
    BY <1>1, <2>1 DEF VpnPageEditorKept, VpnPageCoverKept, Vpn!EditorKeepsText
  <2> QED BY <1>1, <2>1, <2>2, <2>3 DEF VpnPageEditorKept
<1>7. ASSUME Vpn!SubmitRoutes PROVE VpnPageEditorKept'
  <2>1. /\ editor' = [editor EXCEPT !.saving = TRUE]
        /\ put' = [text |-> editor.text, taken |-> FALSE]
        /\ UNCHANGED <<routes, typed, shortcut, covered>>
    BY <1>7 DEF Vpn!SubmitRoutes
  <2>2. /\ editor' \in [open : BOOLEAN, text : VpnPageText, saving : BOOLEAN]
        /\ put' = None \/ put' \in [text : VpnPageText, taken : BOOLEAN]
    BY <1>1, <2>1 DEF VpnPageEditorKept
  <2>3. VpnPageCoverKept' /\ Vpn!EditorKeepsText'
    BY <1>1, <2>1 DEF VpnPageEditorKept, VpnPageCoverKept, Vpn!EditorKeepsText
  <2> QED BY <1>1, <2>1, <2>2, <2>3 DEF VpnPageEditorKept
<1>8. ASSUME Vpn!TakeRoutes PROVE VpnPageEditorKept'
  <2>1. /\ put # None /\ routes' = put.text /\ put' = [put EXCEPT !.taken = TRUE]
        /\ UNCHANGED <<editor, typed, shortcut, covered>>
    BY <1>8 DEF Vpn!TakeRoutes
  <2>2. routes' \in VpnPageText /\ put' \in [text : VpnPageText, taken : BOOLEAN]
    BY <1>1, <2>1 DEF VpnPageEditorKept
  <2>3. VpnPageCoverKept' /\ Vpn!EditorKeepsText'
    BY <1>1, <2>1 DEF VpnPageEditorKept, VpnPageCoverKept, Vpn!EditorKeepsText
  <2> QED BY <1>1, <2>1, <2>2, <2>3 DEF VpnPageEditorKept
<1>9. ASSUME Vpn!RoutesAnswered PROVE VpnPageEditorKept'
  <2>1. /\ editor' = [editor EXCEPT !.saving = FALSE]
        /\ put' = None
        /\ UNCHANGED <<routes, typed, shortcut, covered>>
    BY <1>9 DEF Vpn!RoutesAnswered
  <2>2. /\ editor' \in [open : BOOLEAN, text : VpnPageText, saving : BOOLEAN]
        /\ put' = None \/ put' \in [text : VpnPageText, taken : BOOLEAN]
    BY <1>1, <2>1 DEF VpnPageEditorKept
  <2>3. VpnPageCoverKept' /\ Vpn!EditorKeepsText'
    BY <1>1, <2>1 DEF VpnPageEditorKept, VpnPageCoverKept, Vpn!EditorKeepsText
  <2> QED BY <1>1, <2>1, <2>2, <2>3 DEF VpnPageEditorKept
<1>10. ASSUME NEW t \in VpnPageText, Vpn!Type(t) PROVE VpnPageEditorKept'
  BY <1>1, <1>10 DEF Vpn!Type, VpnPageEditorKept, VpnPageCoverKept, Vpn!EditorKeepsText
<1> QED BY <1>3, <1>4, <1>5, <1>6, <1>7, <1>8, <1>9, <1>10, VpnPagePartsNext

\* The shortcut dialog adds the peer and uncovers the page unless the editor is
\* open.
LEMMA VpnPageConfirmStep == ASSUME VpnPageIInv, Vpn!ConfirmShortcut PROVE VpnPageIInv'
<1>1. VpnPageAccessKept /\ VpnPageEditorKept /\ VpnPageTestKept
  BY VpnPageParts
<1>2. /\ shortcut' = None /\ UNCHANGED Vpn!editorVars /\ UNCHANGED Vpn!testVars
      /\ covered' <=> editor.open
  BY DEF Vpn!ConfirmShortcut, Vpn!Covered
<1>3. VpnPageEditorKept'
  BY <1>1, <1>2
     DEF VpnPageEditorKept, Vpn!editorVars, VpnPageCoverKept, Vpn!EditorKeepsText
<1>4. CASE shortcut \in access.peers
  <2>1. UNCHANGED Vpn!accessVars /\ vpn_page_sent' = vpn_page_sent
    BY <1>4 DEF Vpn!ConfirmShortcut, Vpn!accessVars
  <2> QED
    BY <1>1, <1>2, <1>3, <2>1, VpnPageAccessIdle, VpnPageTestIdle, VpnPagePartsNext
<1>5. CASE shortcut \notin access.peers
  <2>1. Vpn!Save([access EXCEPT !.peers = @ \cup {shortcut}]) /\ UNCHANGED allow
    BY <1>5 DEF Vpn!ConfirmShortcut
  <2>2. shortcut \in VpnPagePeer
    BY <1>1 DEF Vpn!ConfirmShortcut, VpnPageEditorKept
  <2>3. [access EXCEPT !.peers = @ \cup {shortcut}] \in Vpn!Access
    BY <1>1, <2>2 DEF VpnPageAccessKept, Vpn!Access
  <2>4. VpnPageAccessKept'
    BY <1>1, <2>1, <2>3, VpnPageSaveStep
  <2> QED BY <1>1, <1>2, <1>3, <2>4, VpnPageTestIdle, VpnPagePartsNext
<1> QED BY <1>4, <1>5

LEMMA VpnPageTestStep ==
  ASSUME VpnPageIInv, NEW t \in Vpn!Test, Vpn!StartTest(t) \/ Vpn!TestAnswered(t)
  PROVE  VpnPageIInv'
<1>1. VpnPageAccessKept /\ VpnPageEditorKept /\ VpnPageTestKept
  BY VpnPageParts
<1>2. /\ UNCHANGED Vpn!accessVars /\ UNCHANGED <<Vpn!editorVars, shortcut, covered>>
      /\ vpn_page_sent' = vpn_page_sent \/ vpn_page_sent' = vpn_page_sent + 1
  BY DEF Vpn!StartTest, Vpn!TestAnswered, Vpn!Ask
<1>3. ASSUME Vpn!StartTest(t) PROVE VpnPageTestKept'
  <2>1. /\ t \in enabled /\ vpn_page_busy' = vpn_page_busy \cup {t} /\ enabled' = enabled \ {t}
        /\ running' = [running EXCEPT ![t] = @ + 1]
    BY <1>3 DEF Vpn!StartTest
  <2>2. running[t] = 0
    BY <1>1, <2>1 DEF VpnPageTestKept, VpnPageTestsKept
  <2>3. running' = [running EXCEPT ![t] = 1]
    BY <2>1, <2>2
  <2>4. VpnPageTestsKept'
    BY <1>1, <2>1, <2>3 DEF VpnPageTestKept, VpnPageTestsKept
  <2>5. running' \in [Vpn!Test -> 0..1]
    BY <1>1, <2>3 DEF VpnPageTestKept
  <2>6. vpn_page_busy' \subseteq Vpn!Test /\ enabled' \subseteq Vpn!Test
    BY <1>1, <2>1 DEF VpnPageTestKept
  <2> QED BY <2>4, <2>5, <2>6 DEF VpnPageTestKept
<1>4. ASSUME Vpn!TestAnswered(t) PROVE VpnPageTestKept'
  <2>1. /\ running[t] > 0 /\ vpn_page_busy' = vpn_page_busy \ {t} /\ enabled' = enabled \cup {t}
        /\ running' = [running EXCEPT ![t] = @ - 1]
    BY <1>4 DEF Vpn!TestAnswered
  <2>2. running[t] = 1
    BY <1>1, <2>1 DEF VpnPageTestKept
  <2>3. running' = [running EXCEPT ![t] = 0]
    BY <2>1, <2>2
  <2>4. VpnPageTestsKept'
    BY <1>1, <2>1, <2>3 DEF VpnPageTestKept, VpnPageTestsKept
  <2>5. running' \in [Vpn!Test -> 0..1]
    BY <1>1, <2>3 DEF VpnPageTestKept
  <2>6. vpn_page_busy' \subseteq Vpn!Test /\ enabled' \subseteq Vpn!Test
    BY <1>1, <2>1 DEF VpnPageTestKept
  <2> QED BY <2>4, <2>5, <2>6 DEF VpnPageTestKept
<1>5. VpnPageTestKept'
  BY <1>3, <1>4
<1> QED BY <1>1, <1>2, <1>5, VpnPageAccessIdle, VpnPageEditorIdle, VpnPagePartsNext

\* A live update finds no dialog open, so nothing that was typed, and draws no
\* button of a running test.
LEMMA VpnPageLiveStep == ASSUME VpnPageIInv, Vpn!LiveUpdate PROVE VpnPageIInv'
<1>1. VpnPageAccessKept /\ VpnPageEditorKept /\ VpnPageTestKept
  BY VpnPageParts
<1>2. /\ ~covered /\ editor' = [editor EXCEPT !.text = Vpn!Prefill(routes)]
      /\ enabled' = Vpn!Test \ vpn_page_busy
      /\ UNCHANGED Vpn!accessVars
      /\ vpn_page_sent' = vpn_page_sent
      /\ UNCHANGED <<routes, put, vpn_page_timers, typed, shortcut, covered,
                     vpn_page_busy, running>>
  BY DEF Vpn!LiveUpdate, Vpn!Buttons
<1>3. Vpn!Prefill(routes) \in VpnPageText
  BY <1>1, VpnPageAssumption DEF VpnPageEditorKept, Vpn!Prefill
<1>4. VpnPageEditorKept'
  BY <1>1, <1>2, <1>3 DEF VpnPageEditorKept, VpnPageCoverKept, Vpn!EditorKeepsText
<1>5. VpnPageTestKept'
  BY <1>1, <1>2 DEF VpnPageTestKept, VpnPageTestsKept
<1> QED BY <1>1, <1>2, <1>4, <1>5, VpnPageAccessIdle, VpnPagePartsNext

LEMMA VpnPageInvariantStep == VpnPageIInv /\ [Vpn!Next]_(Vpn!vars) => VpnPageIInv'
<1>1. ASSUME VpnPageIInv, UNCHANGED Vpn!vars PROVE VpnPageIInv'
  BY <1>1, VpnPageParts, VpnPageAccessIdle, VpnPageEditorIdle, VpnPageTestIdle,
     VpnPagePartsNext
     DEF Vpn!vars, Vpn!accessVars, Vpn!editorVars, Vpn!testVars
<1> QED
  BY <1>1, VpnPageAccessStep, VpnPageDialogStep, VpnPageConfirmStep, VpnPageTestStep,
     VpnPageLiveStep
     DEF Vpn!Next

LEMMA VpnPageKept ==
  VpnPageIInv => Vpn!TypeOK /\ Vpn!AllowlistAsAsked /\ Vpn!EditorKeepsText
<1> SUFFICES ASSUME VpnPageIInv
             PROVE  Vpn!TypeOK /\ Vpn!AllowlistAsAsked /\ Vpn!EditorKeepsText
  OBVIOUS
<1>1. Vpn!AllowlistAsAsked
  BY DEF VpnPageIInv, VpnPageLoneSave, Vpn!AllowlistAsAsked
<1> QED BY <1>1 DEF VpnPageIInv

-----------------------------------------------------------------------------
(* The plugins page (pages/plugins.rs).  As long as the page has not fallen    *)
(* behind, a difference to what is installed has a request or a fresh list     *)
(* behind it; an upload that no timer disturbed is alone, and its dialog is    *)
(* locked on it.                                                               *)

\* FiniteSets as the component sees it.
LEMMA PluginsCardinality == \A S : Plugins!Cardinality(S) = Cardinality(S)
  BY DEF Plugins!Cardinality, Cardinality

PluginsRequests == [kind : Plugins!Kinds, plugin : Plugin, done : BOOLEAN]
PluginsLoads == [list : Plugins!Lists, old : BOOLEAN,
                 for : {"background", "action", "upload", "toggle"}]
PluginsDialog == [open : BOOLEAN, plugin : Plugin \cup {None}, file : BOOLEAN,
                  uploading : BOOLEAN]

\* The page shows a list, selects from it and acts on what it lists.
PluginsPageKept ==
  /\ installed \in Plugins!Lists /\ list \in Plugins!Lists
  /\ IF list = <<>> THEN selected = None ELSE selected \in DOMAIN list
  /\ plugins_busy \in (Plugin \X {"restart", "delete"}) \cup {None}
  /\ confirm \in (Plugin \X {"restart", "delete"}) \cup {None}

\* A load that is not old carries what is installed; while the page has not
\* fallen behind, a difference is about to be asked for or on its way.
PluginsListKept ==
  /\ plugins_requests \subseteq PluginsRequests /\ loads \subseteq PluginsLoads
  /\ plugins_timers \in Nat /\ behind \in BOOLEAN
  /\ \A l \in loads : ~l.old => l.list = installed
  /\ ~behind => \/ list = installed
                \/ \E r \in plugins_requests : r.done
                \/ \E l \in loads : ~l.old

\* While no timer has interfered there is at most one upload under way, and the
\* dialog is locked on it.
PluginsUploadKept ==
  /\ plugins_modal \in PluginsDialog /\ uploading \in BOOLEAN /\ torn \in BOOLEAN
  /\ plugins_modal.open => plugins_modal.plugin \in Plugin
  /\ plugins_modal.uploading => plugins_modal.open
  /\ ~torn => /\ uploading = plugins_modal.uploading
              /\ \A r \in plugins_requests : r.kind = "upload" => /\ uploading
                                                                  /\ r.plugin = plugins_modal.plugin
              /\ \A r, s \in plugins_requests : r.kind = "upload" /\ s.kind = "upload" =>
                   r = s

PluginsIInv == PluginsPageKept /\ PluginsListKept /\ PluginsUploadKept

LEMMA PluginsEmptyList == \A l \in Plugins!Lists : l # <<>> => \E p \in DOMAIN l : TRUE
<1> SUFFICES ASSUME NEW l \in Plugins!Lists, DOMAIN l = {} PROVE l = <<>>
  OBVIOUS
<1>1. l = [p \in {} |-> l[p]]
  BY DEF Plugins!Lists
<1> QED BY <1>1

LEMMA PluginsListed ==
  \A l \in Plugins!Lists :
    DOMAIN l \subseteq Plugin /\ \A p \in DOMAIN l : l[p] \in BOOLEAN
BY DEF Plugins!Lists

LEMMA PluginsListOf ==
  ASSUME NEW S \in SUBSET Plugin, NEW f \in [S -> BOOLEAN] PROVE f \in Plugins!Lists
BY DEF Plugins!Lists

LEMMA PluginsInitInvariant == Plugins!Init => PluginsIInv
<1> SUFFICES ASSUME Plugins!Init PROVE PluginsIInv
  OBVIOUS
<1>1. installed \in Plugins!Lists
  BY DEF Plugins!Init
<1>2. PluginsPageKept
  BY <1>1, PluginsEmptyList DEF Plugins!Init, PluginsPageKept
<1>3. PluginsListKept
  BY DEF Plugins!Init, PluginsListKept
<1>4. PluginsUploadKept
  BY DEF Plugins!Init, PluginsUploadKept, PluginsDialog, Plugins!Closed
<1> QED BY <1>2, <1>3, <1>4 DEF PluginsIInv

\* A list arrives or its load fails.
LEMMA PluginsLoadStep ==
  ASSUME PluginsIInv, Plugins!ListArrives \/ Plugins!ListFails PROVE PluginsIInv'
<1>1. PICK l \in loads :
        /\ Plugins!AfterLoad(l)
        /\ UNCHANGED <<installed, plugins_modal, confirm, plugins_requests, uploading, torn>>
        /\ \/ /\ Plugins!Show(l) /\ behind' = l.old
              /\ loads' = {[m EXCEPT !.old = TRUE] : m \in loads \ {l}}
           \/ /\ UNCHANGED <<list, selected>> /\ behind' = TRUE
              /\ loads' = loads \ {l}
  BY DEF Plugins!ListArrives, Plugins!ListFails
<1>2. l \in PluginsLoads /\ l.list \in Plugins!Lists /\ l.old \in BOOLEAN
  BY DEF PluginsIInv, PluginsListKept, PluginsLoads
<1>3. PluginsPageKept'
  BY <1>1, <1>2, PluginsEmptyList
     DEF PluginsIInv, PluginsPageKept, Plugins!AfterLoad, Plugins!Show
<1>4. /\ plugins_timers' \in Nat /\ behind' \in BOOLEAN /\ plugins_requests' = plugins_requests
      /\ installed' = installed
  <2>1. plugins_timers' \in Nat
    BY <1>1 DEF PluginsIInv, PluginsListKept, Plugins!AfterLoad
  <2>2. behind' \in BOOLEAN
    BY <1>1, <1>2
  <2> QED BY <1>1, <2>1, <2>2
<1>5. /\ loads' \subseteq PluginsLoads
      /\ \A m \in loads' : ~m.old => m \in loads
  <2>1. \A m \in PluginsLoads : /\ [m EXCEPT !.old = TRUE] \in PluginsLoads
                                /\ [m EXCEPT !.old = TRUE].old = TRUE
    BY DEF PluginsLoads
  <2> QED BY <1>1, <2>1 DEF PluginsIInv, PluginsListKept
<1>6. PluginsListKept'
  <2>1. ~behind' => list' = installed'
    BY <1>1 DEF PluginsIInv, PluginsListKept, Plugins!Show
  <2> QED BY <1>4, <1>5, <2>1 DEF PluginsIInv, PluginsListKept
<1>7. PluginsUploadKept'
  BY <1>1 DEF PluginsIInv, PluginsUploadKept
<1> QED BY <1>3, <1>6, <1>7 DEF PluginsIInv

LEMMA PluginsFreshLoad ==
  ASSUME PluginsIInv, NEW k \in {"background", "action", "upload", "toggle"}
  PROVE  /\ Plugins!NewLoad(k) \in PluginsLoads /\ Plugins!NewLoad(k).list = installed
         /\ Plugins!NewLoad(k).old = FALSE
BY DEF Plugins!NewLoad, PluginsLoads, PluginsIInv, PluginsPageKept

\* The page asks for the list in the background, or looks elsewhere.
LEMMA PluginsBackgroundStep ==
  ASSUME PluginsIInv, Plugins!BackgroundLoad PROVE PluginsIInv'
<1>1. /\ loads' = loads \cup {Plugins!NewLoad("background")}
      /\ UNCHANGED <<installed, list, selected, plugins_busy, plugins_modal, confirm,
                     plugins_requests, plugins_timers,
                     uploading, torn, behind>>
  BY PluginsCardinality DEF Plugins!BackgroundLoad, Plugins!page, Plugins!history
<1>2. PluginsListKept'
  BY <1>1, PluginsFreshLoad DEF PluginsIInv, PluginsListKept
<1> QED BY <1>1, <1>2 DEF PluginsIInv, PluginsPageKept, PluginsUploadKept

\* The user selects, opens and closes dialogs, chooses a file; a timer closes.
LEMMA PluginsDialogStep ==
  ASSUME PluginsIInv,
         \/ \E p \in Plugin : Plugins!Select(p) \/ Plugins!OpenUpload(p)
         \/ Plugins!OpenConfirm
         \/ Plugins!CloseConfirm
         \/ Plugins!ChooseFile
         \/ Plugins!CloseUpload
         \/ Plugins!TimerCloses
  PROVE  PluginsIInv'
<1>1. /\ UNCHANGED <<installed, list, plugins_busy, plugins_requests, loads, behind, uploading>>
      /\ plugins_timers' = plugins_timers \/ (plugins_timers > 0 /\ plugins_timers' = plugins_timers - 1)
  BY DEF Plugins!Select, Plugins!OpenUpload, Plugins!OpenConfirm, Plugins!CloseConfirm,
         Plugins!ChooseFile, Plugins!CloseUpload, 
         Plugins!TimerCloses, Plugins!history
<1>2. PluginsListKept'
  <2>1. plugins_timers' \in Nat
    BY <1>1 DEF PluginsIInv, PluginsListKept
  <2> QED BY <1>1, <2>1 DEF PluginsIInv, PluginsListKept
<1>3. PluginsPageKept'
  <2>1. \A p \in DOMAIN list : p \in Plugin /\ list # <<>>
    BY PluginsListed DEF PluginsIInv, PluginsPageKept
  <2>2. selected' = selected \/ selected' \in DOMAIN list
    BY DEF Plugins!Select, Plugins!OpenUpload, Plugins!OpenConfirm,
           Plugins!CloseConfirm, Plugins!ChooseFile, Plugins!CloseUpload, 
           Plugins!TimerCloses
  <2>3. confirm' \in (Plugin \X {"restart", "delete"}) \cup {None}
    <3>1. CASE Plugins!OpenConfirm
      BY <2>1, <3>1
         DEF Plugins!OpenConfirm, Plugins!Unlocked, PluginsIInv, PluginsPageKept
    <3>2. CASE confirm' \in {confirm, None}
      BY <3>2 DEF PluginsIInv, PluginsPageKept
    <3> QED BY <3>1, <3>2 DEF Plugins!Select, Plugins!OpenUpload, Plugins!CloseConfirm,
                              Plugins!ChooseFile, Plugins!CloseUpload,
                              Plugins!TimerCloses
  <2> QED BY <1>1, <2>1, <2>2, <2>3 DEF PluginsIInv, PluginsPageKept
<1>4. PluginsUploadKept'
  <2>1. CASE plugins_modal' = plugins_modal /\ torn' = torn
    BY <1>1, <2>1 DEF PluginsIInv, PluginsUploadKept
  <2>2. CASE Plugins!ChooseFile
    <3>1. plugins_modal' = [plugins_modal EXCEPT !.file = TRUE] /\ torn' = torn
      BY <2>2 DEF Plugins!ChooseFile, Plugins!history
    <3>2. /\ plugins_modal' \in PluginsDialog /\ plugins_modal'.open = plugins_modal.open
          /\ plugins_modal'.plugin = plugins_modal.plugin
          /\ plugins_modal'.uploading = plugins_modal.uploading
      BY <3>1 DEF PluginsIInv, PluginsUploadKept, PluginsDialog
    <3> QED BY <1>1, <3>1, <3>2 DEF PluginsIInv, PluginsUploadKept
  <2>3. CASE \/ \E p \in Plugin : Plugins!OpenUpload(p)
             \/ Plugins!CloseUpload \/ Plugins!TimerCloses
    <3>1. /\ plugins_modal' \in PluginsDialog /\ plugins_modal'.uploading = FALSE
          /\ plugins_modal'.open => plugins_modal'.plugin \in Plugin
      <4>1. /\ Plugins!Closed \in PluginsDialog
            /\ Plugins!Closed.open = FALSE
            /\ Plugins!Closed.uploading = FALSE
        BY DEF Plugins!Closed, PluginsDialog
      <4>2. ASSUME NEW p \in Plugin, NEW m,
                   m = [Plugins!Closed EXCEPT !.open = TRUE, !.plugin = p]
            PROVE  m \in PluginsDialog /\ m.uploading = FALSE /\ m.plugin = p
        BY <4>1, <4>2 DEF PluginsDialog
      <4> QED
        BY <2>3, <4>1, <4>2
           DEF Plugins!OpenUpload, Plugins!CloseUpload, Plugins!TimerCloses
    <3>2. torn' \in BOOLEAN /\ (~torn' => ~torn /\ ~plugins_modal.uploading)
      BY <2>3
         DEF Plugins!OpenUpload, Plugins!CloseUpload, Plugins!TimerCloses,
             Plugins!Uncovered, Plugins!history, PluginsIInv, 
                  PluginsUploadKept, PluginsDialog
    <3> QED BY <1>1, <3>1, <3>2 DEF PluginsIInv, PluginsUploadKept
  <2> QED
    BY <2>1, <2>2, <2>3
       DEF Plugins!Select, Plugins!OpenConfirm, Plugins!CloseConfirm, Plugins!history
<1> QED BY <1>2, <1>3, <1>4 DEF PluginsIInv

\* The user asks for something other than an upload.
LEMMA PluginsAskStep ==
  ASSUME PluginsIInv, Plugins!Toggle \/ Plugins!Confirm PROVE PluginsIInv'
<1>1. PICK r \in PluginsRequests :
        /\ plugins_requests' = plugins_requests \cup {r} /\ r.kind # "upload"
        /\ UNCHANGED <<installed, list, selected, plugins_modal, loads, plugins_timers,
                       uploading, torn,
                       behind>>
        /\ plugins_busy' \in {plugins_busy, confirm} /\ confirm' \in {confirm, None}
  <2>1. \A p \in DOMAIN list : p \in Plugin /\ list # <<>>
    BY PluginsListed DEF PluginsIInv, PluginsPageKept
  <2>2. CASE Plugins!Toggle
    <3>1. selected \in Plugin
      BY <2>1, <2>2 DEF Plugins!Toggle, Plugins!Unlocked, PluginsIInv, PluginsPageKept
    <3> DEFINE r == Plugins!Request(IF list[selected] THEN "stop" ELSE "start", selected)
    <3>2. r \in PluginsRequests /\ r.kind # "upload"
      BY <3>1 DEF PluginsRequests, Plugins!Request, Plugins!Kinds
    <3> QED BY <2>2, <3>2 DEF Plugins!Toggle, Plugins!Ask, Plugins!page
  <2>3. CASE Plugins!Confirm
    <3>1. confirm[1] \in Plugin /\ confirm[2] \in {"restart", "delete"}
      BY <2>3 DEF Plugins!Confirm, PluginsIInv, PluginsPageKept
    <3> DEFINE r == Plugins!Request(confirm[2], confirm[1])
    <3>2. r \in PluginsRequests /\ r.kind # "upload"
      BY <3>1 DEF PluginsRequests, Plugins!Request, Plugins!Kinds
    <3> QED BY <2>3, <3>2 DEF Plugins!Confirm, Plugins!Ask
  <2> QED BY <2>2, <2>3
<1>2. PluginsPageKept'
  BY <1>1 DEF PluginsIInv, PluginsPageKept
<1>3. PluginsListKept'
  BY <1>1 DEF PluginsIInv, PluginsListKept
<1>4. PluginsUploadKept'
  BY <1>1 DEF PluginsIInv, PluginsUploadKept
<1> QED BY <1>2, <1>3, <1>4 DEF PluginsIInv

LEMMA PluginsSubmitStep == ASSUME PluginsIInv, Plugins!SubmitUpload PROVE PluginsIInv'
<1> DEFINE r == Plugins!Request("upload", plugins_modal.plugin)
<1>1. /\ plugins_requests' = plugins_requests \cup {r}
      /\ plugins_modal' = [plugins_modal EXCEPT !.uploading = TRUE]
      /\ plugins_modal.open /\ ~plugins_modal.uploading /\ uploading' = TRUE
      /\ UNCHANGED <<installed, list, selected, plugins_busy, confirm, loads,
                     plugins_timers, torn, behind>>
  BY DEF Plugins!SubmitUpload, Plugins!Ask
<1>2. r \in PluginsRequests /\ r.plugin = plugins_modal.plugin
  BY <1>1
     DEF PluginsIInv, PluginsUploadKept, PluginsRequests, Plugins!Request, Plugins!Kinds
<1>3. /\ plugins_modal' \in PluginsDialog /\ plugins_modal'.open = plugins_modal.open
      /\ plugins_modal'.plugin = plugins_modal.plugin
      /\ plugins_modal'.uploading = TRUE
  BY <1>1 DEF PluginsIInv, PluginsUploadKept, PluginsDialog
<1> HIDE DEF r
<1>4. PluginsPageKept' /\ PluginsListKept'
  BY <1>1, <1>2 DEF PluginsIInv, PluginsPageKept, PluginsListKept
<1>5. PluginsUploadKept'
  BY <1>1, <1>2, <1>3 DEF PluginsIInv, PluginsUploadKept
<1> QED BY <1>4, <1>5 DEF PluginsIInv

LEMMA PluginsPerformStep == ASSUME PluginsIInv, Plugins!Perform PROVE PluginsIInv'
<1>1. PICK r \in plugins_requests :
        /\ installed' = Plugins!Performed(r)
        /\ plugins_requests' = (plugins_requests \ {r}) \cup {[r EXCEPT !.done = TRUE]}
        /\ loads' = IF installed' = installed THEN loads ELSE Plugins!Aged
        /\ UNCHANGED <<list, selected, plugins_busy, plugins_modal, confirm,
                       plugins_timers, uploading, torn, behind>>
  BY DEF Plugins!Perform, Plugins!page, Plugins!history
<1> DEFINE d == [r EXCEPT !.done = TRUE]
<1>2. /\ r \in PluginsRequests /\ d \in PluginsRequests /\ d.done = TRUE
      /\ d.kind = r.kind /\ d.plugin = r.plugin
  BY DEF PluginsIInv, PluginsListKept, PluginsRequests
<1> HIDE DEF d
<1>3. installed' \in Plugins!Lists
  <2>1. r.plugin \in Plugin /\ installed \in Plugins!Lists
    BY <1>2 DEF PluginsRequests, PluginsIInv, PluginsPageKept
  <2> DEFINE S == DOMAIN installed
  <2>2. S \in SUBSET Plugin /\ installed \in [S -> BOOLEAN]
    BY <2>1 DEF Plugins!Lists
  <2>3. S \ {r.plugin} \in SUBSET Plugin /\ S \cup {r.plugin} \in SUBSET Plugin
    BY <2>1, <2>2
  <2>4. [p \in S \ {r.plugin} |-> installed[p]] \in [S \ {r.plugin} -> BOOLEAN]
    BY <2>2
  <2>5. [p \in S \cup {r.plugin} |-> p = r.plugin \/ installed[p]]
          \in [S \cup {r.plugin} -> BOOLEAN]
    BY <2>2
  <2>6. [p \in S |-> IF p = r.plugin THEN r.kind # "stop" ELSE installed[p]]
          \in [S -> BOOLEAN]
    BY <2>2
  <2> QED BY <1>1, <2>2, <2>3, <2>4, <2>5, <2>6, PluginsListOf DEF Plugins!Performed
<1>4. PluginsPageKept'
  BY <1>1, <1>3 DEF PluginsIInv, PluginsPageKept
<1>5. PluginsListKept'
  <2>1. d \in plugins_requests' /\ plugins_requests' \subseteq PluginsRequests
    BY <1>1, <1>2 DEF PluginsIInv, PluginsListKept, d
  <2>2. \A m \in PluginsLoads : /\ [m EXCEPT !.old = TRUE] \in PluginsLoads
                                /\ [m EXCEPT !.old = TRUE].old = TRUE
    BY DEF PluginsLoads
  <2>3. loads' \subseteq PluginsLoads /\ \A m \in loads' : ~m.old => m.list = installed'
    BY <1>1, <2>2 DEF PluginsIInv, PluginsListKept, Plugins!Aged
  <2> QED BY <1>1, <1>2, <2>1, <2>3 DEF PluginsIInv, PluginsListKept
<1>6. PluginsUploadKept'
  <2>1. /\ plugins_modal' = plugins_modal /\ uploading' = uploading /\ torn' = torn
        /\ plugins_requests' = (plugins_requests \ {r}) \cup {d}
    BY <1>1 DEF d
  <2>2. /\ PluginsUploadKept /\ r \in plugins_requests
        /\ d.kind = r.kind /\ d.plugin = r.plugin
    BY <1>1, <1>2 DEF PluginsIInv
  <2>3. CASE torn
    BY <2>1, <2>2, <2>3 DEF PluginsUploadKept
  <2>4. CASE ~torn
    <3>1. /\ uploading = plugins_modal.uploading
          /\ \A x \in plugins_requests :
               x.kind = "upload" => uploading /\ x.plugin = plugins_modal.plugin
          /\ \A x, y \in plugins_requests :
               x.kind = "upload" /\ y.kind = "upload" => x = y
      BY <2>2, <2>4 DEF PluginsUploadKept
    <3>2. \A x \in plugins_requests' :
            x.kind = "upload" => uploading' /\ x.plugin = plugins_modal'.plugin
      BY <2>1, <2>2, <3>1
    <3>3. \A x, y \in plugins_requests' :
            x.kind = "upload" /\ y.kind = "upload" => x = y
      BY <2>1, <2>2, <3>1
    <3> QED BY <2>1, <2>2, <3>1, <3>2, <3>3 DEF PluginsUploadKept
  <2> QED BY <2>3, <2>4
<1> QED BY <1>4, <1>5, <1>6 DEF PluginsIInv

\* A request is answered, or fails.
LEMMA PluginsAnswerStep ==
  ASSUME PluginsIInv, Plugins!Answer \/ Plugins!AnswerFails PROVE PluginsIInv'
<1>1. PICK r \in plugins_requests :
        /\ plugins_requests' = plugins_requests \ {r} /\ Plugins!Uploaded(r)
        /\ UNCHANGED <<installed, list, selected, confirm, plugins_timers, torn>>
        /\ plugins_busy' \in {plugins_busy, None}
        /\ \/ loads' = loads \cup {Plugins!NewLoad(Plugins!For(r))} /\ behind' = behind
           \/ loads' = loads /\ behind' = TRUE
  BY PluginsCardinality DEF Plugins!Answer, Plugins!AnswerFails
<1>2. /\ r \in PluginsRequests
      /\ Plugins!For(r) \in {"background", "action", "upload", "toggle"}
  BY DEF PluginsIInv, PluginsListKept, Plugins!For
<1>3. PluginsPageKept'
  BY <1>1 DEF PluginsIInv, PluginsPageKept
<1>4. PluginsListKept'
  BY <1>1, <1>2, PluginsFreshLoad DEF PluginsIInv, PluginsListKept
<1>5. PluginsUploadKept'
  <2>1. CASE r.kind # "upload"
    <3>1. plugins_modal' = plugins_modal /\ uploading' = uploading
      BY <1>1, <2>1 DEF Plugins!Uploaded
    <3> QED BY <1>1, <3>1 DEF PluginsIInv, PluginsUploadKept
  <2>2. CASE r.kind = "upload"
    <3>1. /\ plugins_modal' = [plugins_modal EXCEPT !.uploading = FALSE]
          /\ uploading' = FALSE
      BY <1>1, <2>2 DEF Plugins!Uploaded
    <3>2. /\ plugins_modal' \in PluginsDialog /\ plugins_modal'.open = plugins_modal.open
          /\ plugins_modal'.plugin = plugins_modal.plugin
          /\ plugins_modal'.uploading = FALSE
      BY <3>1 DEF PluginsIInv, PluginsUploadKept, PluginsDialog
    <3> QED BY <1>1, <2>2, <3>1, <3>2 DEF PluginsIInv, PluginsUploadKept
  <2> QED BY <2>1, <2>2
<1> QED BY <1>3, <1>4, <1>5 DEF PluginsIInv

LEMMA PluginsInvariantStep ==
  PluginsIInv /\ [Plugins!Next]_(Plugins!vars) => PluginsIInv'
<1>1. ASSUME PluginsIInv, UNCHANGED Plugins!vars PROVE PluginsIInv'
  BY <1>1
     DEF Plugins!vars, PluginsIInv, PluginsPageKept, PluginsListKept, PluginsUploadKept
<1> QED BY <1>1, PluginsLoadStep, PluginsBackgroundStep, PluginsDialogStep, PluginsAskStep,
           PluginsSubmitStep, PluginsPerformStep,
           PluginsAnswerStep DEF Plugins!Next

LEMMA PluginsKept ==
  PluginsIInv => Plugins!TypeOK /\ Plugins!ListCatchesUp /\ Plugins!UploadKeepsDialog
<1> SUFFICES ASSUME PluginsIInv
             PROVE  Plugins!TypeOK /\ Plugins!ListCatchesUp /\ Plugins!UploadKeepsDialog
  OBVIOUS
<1>1. Plugins!TypeOK
  <2>1. \A r \in plugins_requests : r.kind \in Plugins!Kinds /\ r.plugin \in Plugin
    BY DEF PluginsIInv, PluginsListKept, PluginsRequests
  <2>2. \A l \in loads : l.list \in Plugins!Lists
    BY DEF PluginsIInv, PluginsListKept, PluginsLoads
  <2> QED
    BY <2>1, <2>2
       DEF PluginsIInv, PluginsPageKept, PluginsListKept, PluginsUploadKept,
           PluginsDialog, Plugins!TypeOK
<1>2. Plugins!ListCatchesUp
  BY DEF PluginsIInv, PluginsListKept, Plugins!ListCatchesUp
<1>3. Plugins!UploadKeepsDialog
  BY DEF PluginsIInv, PluginsUploadKept, Plugins!UploadKeepsDialog
<1> QED BY <1>1, <1>2, <1>3

-----------------------------------------------------------------------------
(* The radio interface (kaonic-reticulum).  A fragment collected was aired, in *)
(* order, by the task that holds the radio client; what is complete has all    *)
(* its fragments, and only that is delivered.                                  *)

\* A packet handed over to be sent on a module.
RadioHanded(own, p, m) == p \in 1..Len(own) /\ own[p] = m

\* A frame of a packet of its module, transmitted.
RadioOnAir(own, air, f) == /\ f \in Radio!Frame /\ RadioHanded(own, f.packet, f.module)
                           /\ \E k \in 1..Len(air) : air[k] = f

RadioTypesKept ==
  /\ waiting \in [RadioModule -> Seq(Radio!Packet)]
  /\ sending \in [RadioModule -> {None} \cup Radio!Packet \X (1..Pieces)]
  /\ client \in RadioModule \cup {None}
  /\ radio_channel \in [RadioModule -> Seq(Radio!Frame)]
  /\ collected \in [RadioModule -> SUBSET Radio!Frame]
  /\ delivered \in [RadioModule -> SUBSET Radio!Packet]
  /\ aired \in Seq(Radio!Frame)
  /\ owner \in Seq(RadioModule) /\ Len(owner) = packets /\ packets <= RadioMaxPackets
RadioFlagsKept ==
  /\ lagged \in [RadioModule -> BOOLEAN]
  /\ deaf \in [RadioModule -> BOOLEAN]
RadioChannelKept == \A m \in RadioModule : Len(radio_channel[m]) <= RadioCapacity

\* Senders hold packets of their own module, and only who holds the client is
\* within one.
RadioSendersKept ==
  /\ \A m \in RadioModule :
       \A i \in 1..Len(waiting[m]) : RadioHanded(owner, waiting[m][i], m)
  /\ \A m \in RadioModule : sending[m] # None =>
       RadioHanded(owner, sending[m][1], m) /\ (sending[m][2] > 1 => client = m)
  /\ client # None => sending[client] # None

\* What a receiving task finds in its channel and keeps was transmitted, and it
\* keeps frames of its own module.
RadioReceiversKept ==
  /\ \A m \in RadioModule :
       \A i \in 1..Len(radio_channel[m]) : RadioOnAir(owner, aired, radio_channel[m][i])
  /\ \A m \in RadioModule :
       \A f \in collected[m] : RadioOnAir(owner, aired, f) /\ f.module = m

\* A packet delivered was handed over for the module and transmitted whole.
RadioWhole(own, air, p, m) ==
  /\ RadioHanded(own, p, m)
  /\ \A i \in 1..Pieces : \E k \in 1..Len(air) :
       air[k] = [packet |-> p, piece |-> i, module |-> m]
RadioDeliveriesKept == \A m \in RadioModule : \A p \in delivered[m] : RadioWhole(owner, aired, p, m)

RadioIInv == /\ RadioTypesKept /\ RadioFlagsKept /\ RadioChannelKept
             /\ RadioSendersKept /\ RadioReceiversKept /\ RadioDeliveriesKept

\* Taking the first element of a queue, and adding one.
LEMMA RadioShifted ==
  ASSUME NEW S, NEW q \in Seq(S), q # <<>>
  PROVE  /\ Head(q) = q[1] /\ 1 \in 1..Len(q) /\ Head(q) \in S
         /\ Tail(q) \in Seq(S) /\ Len(Tail(q)) = Len(q) - 1
         /\ \A i \in 1..Len(Tail(q)) : i + 1 \in 1..Len(q) /\ Tail(q)[i] = q[i + 1]
OBVIOUS

LEMMA RadioAppended ==
  ASSUME NEW S, NEW q \in Seq(S), NEW e \in S
  PROVE  /\ Append(q, e) \in Seq(S) /\ Len(Append(q, e)) = Len(q) + 1
         /\ \A i \in 1..Len(q) : Append(q, e)[i] = q[i]
         /\ Append(q, e)[Len(q) + 1] = e
         /\ \A i \in 1..Len(Append(q, e)) : i \in 1..Len(q) \/ i = Len(q) + 1
OBVIOUS

\* Packets and frames stay what they are as more are handed over and transmitted.
LEMMA RadioHandedStays ==
  ASSUME NEW own \in Seq(RadioModule), NEW n \in RadioModule, NEW p, NEW m,
         RadioHanded(own, p, m)
  PROVE  RadioHanded(Append(own, n), p, m)
BY DEF RadioHanded

LEMMA RadioAirStays ==
  ASSUME NEW air \in Seq(Radio!Frame), NEW g \in Radio!Frame, NEW f,
         \E k \in 1..Len(air) : air[k] = f
  PROVE  \E k \in 1..Len(Append(air, g)) : Append(air, g)[k] = f
<1>1. PICK k \in 1..Len(air) : air[k] = f
  OBVIOUS
<1>2. k \in 1..Len(Append(air, g)) /\ Append(air, g)[k] = f
  BY <1>1
<1> QED BY <1>2

LEMMA RadioInitInvariant == Radio!Init => RadioIInv
<1> SUFFICES ASSUME Radio!Init PROVE RadioIInv
  OBVIOUS
<1>1. RadioTypesKept /\ RadioFlagsKept
  BY RadioAssumption DEF Radio!Init, RadioTypesKept, RadioFlagsKept
<1>2. RadioChannelKept /\ RadioSendersKept /\ RadioReceiversKept /\ RadioDeliveriesKept
  BY RadioAssumption
     DEF Radio!Init, RadioChannelKept, RadioSendersKept, RadioReceiversKept,
         RadioDeliveriesKept
<1> QED BY <1>1, <1>2 DEF RadioIInv

\* A receiver is undisturbed by what hands packets over or transmits.
LEMMA RadioReceiverIdle ==
  ASSUME RadioIInv, UNCHANGED <<collected, delivered>>,
         \/ UNCHANGED aired
         \/ \E f \in Radio!Frame : aired' = Append(aired, f),
         \/ UNCHANGED owner
         \/ \E m \in RadioModule : owner' = Append(owner, m)
  PROVE  /\ \A f : RadioOnAir(owner, aired, f) => RadioOnAir(owner', aired', f)
         /\ \A m \in RadioModule :
              \A f \in collected'[m] : RadioOnAir(owner', aired', f) /\ f.module = m
         /\ RadioDeliveriesKept'
<1>1. \A p, m : RadioHanded(owner, p, m) => RadioHanded(owner', p, m)
  BY RadioHandedStays DEF RadioIInv, RadioTypesKept
<1>2. ASSUME NEW f, \E k \in 1..Len(aired) : aired[k] = f
      PROVE  \E k \in 1..Len(aired') : aired'[k] = f
  <2>1. aired \in Seq(Radio!Frame)
    BY DEF RadioIInv, RadioTypesKept
  <2>2. CASE UNCHANGED aired
    BY <1>2, <2>2
  <2>3. ASSUME NEW g \in Radio!Frame, aired' = Append(aired, g)
        PROVE  \E k \in 1..Len(aired') : aired'[k] = f
    BY <1>2, <2>1, <2>3, RadioAirStays
  <2> QED BY <2>2, <2>3
<1>3. \A f : RadioOnAir(owner, aired, f) => RadioOnAir(owner', aired', f)
  BY <1>1, <1>2 DEF RadioOnAir
<1>4. \A p, m : RadioWhole(owner, aired, p, m) => RadioWhole(owner', aired', p, m)
  BY <1>1, <1>2 DEF RadioWhole
<1> QED BY <1>3, <1>4 DEF RadioIInv, RadioReceiversKept, RadioDeliveriesKept

LEMMA RadioSubmitStep ==
  ASSUME RadioIInv, NEW m \in RadioModule, Radio!Submit(m) PROVE RadioIInv'
<1>1. /\ packets < RadioMaxPackets /\ packets' = packets + 1
      /\ waiting' = [waiting EXCEPT ![m] = Append(@, packets')]
      /\ owner' = Append(owner, m)
      /\ UNCHANGED <<sending, client, aired, Radio!receiver, radio_faults>>
  BY DEF Radio!Submit
<1>2. /\ packets \in Nat
      /\ packets' \in Radio!Packet
      /\ Len(owner) = packets
      /\ owner \in Seq(RadioModule)
  BY <1>1, RadioAssumption DEF RadioIInv, RadioTypesKept, Radio!Packet
<1>3. /\ owner' \in Seq(RadioModule)
      /\ Len(owner') = packets'
      /\ RadioHanded(owner', packets', m)
  BY <1>1, <1>2, RadioAppended DEF RadioHanded
<1>4. waiting' \in [RadioModule -> Seq(Radio!Packet)]
  BY <1>1, <1>2 DEF RadioIInv, RadioTypesKept
<1>5. RadioTypesKept' /\ RadioFlagsKept' /\ RadioChannelKept'
  BY <1>1, <1>2, <1>3, <1>4, RadioAssumption
     DEF RadioIInv, RadioTypesKept, RadioFlagsKept, RadioChannelKept, Radio!receiver
<1>6. RadioReceiversKept' /\ RadioDeliveriesKept'
  BY <1>1, RadioReceiverIdle DEF RadioIInv, RadioReceiversKept, Radio!receiver
<1>7. \A p, n : RadioHanded(owner, p, n) => RadioHanded(owner', p, n)
  BY <1>1, <1>2, RadioHandedStays
<1>8. ASSUME NEW n \in RadioModule, NEW i \in 1..Len(waiting'[n])
      PROVE  RadioHanded(owner', waiting'[n][i], n)
  <2>1. CASE n = m
    <3>1. waiting'[n] = Append(waiting[n], packets') /\ waiting[n] \in Seq(Radio!Packet)
      BY <1>1, <2>1 DEF RadioIInv, RadioTypesKept
    <3>2. i \in 1..Len(waiting[n]) \/ waiting'[n][i] = packets'
      BY <1>2, <1>8, <3>1, RadioAppended
    <3>3. i \in 1..Len(waiting[n]) => waiting'[n][i] = waiting[n][i]
      BY <1>2, <3>1, RadioAppended
    <3> QED BY <1>3, <1>7, <2>1, <3>2, <3>3 DEF RadioIInv, RadioSendersKept
  <2>2. CASE n # m
    BY <1>1, <1>7, <1>8, <2>2 DEF RadioIInv, RadioTypesKept, RadioSendersKept
  <2> QED BY <2>1, <2>2
<1>9. RadioSendersKept'
  BY <1>1, <1>7, <1>8 DEF RadioIInv, RadioSendersKept
<1> QED BY <1>5, <1>6, <1>9 DEF RadioIInv

\* Within the bounds of the packets, where nothing is received.
LEMMA RadioEncodeStep ==
  ASSUME RadioIInv, NEW m \in RadioModule, Radio!Encode(m) PROVE RadioIInv'
<1>1. /\ sending[m] = None /\ waiting[m] # <<>>
      /\ waiting' = [waiting EXCEPT ![m] = Tail(@)]
      /\ \/ sending' = [sending EXCEPT ![m] = <<Head(waiting[m]), 1>>]
         \/ UNCHANGED sending
      /\ UNCHANGED <<client, aired, Radio!receiver, owner, packets>>
  BY DEF Radio!Encode
<1>2. waiting[m] \in Seq(Radio!Packet)
  BY DEF RadioIInv, RadioTypesKept
<1>3. /\ Head(waiting[m]) \in Radio!Packet /\ Tail(waiting[m]) \in Seq(Radio!Packet)
      /\ RadioHanded(owner, Head(waiting[m]), m)
      /\ \A i \in 1..Len(Tail(waiting[m])) : RadioHanded(owner, Tail(waiting[m])[i], m)
  BY <1>1, <1>2, RadioShifted DEF RadioIInv, RadioSendersKept
<1>4. RadioTypesKept'
  <2>1. waiting' \in [RadioModule -> Seq(Radio!Packet)]
    BY <1>1, <1>3 DEF RadioIInv, RadioTypesKept
  <2>2. sending' \in [RadioModule -> {None} \cup Radio!Packet \X (1..Pieces)]
    <3>1. <<Head(waiting[m]), 1>> \in Radio!Packet \X (1..Pieces)
      BY <1>3, RadioAssumption
    <3> QED BY <1>1, <3>1 DEF RadioIInv, RadioTypesKept
  <2> QED BY <1>1, <2>1, <2>2 DEF RadioIInv, RadioTypesKept, Radio!receiver
<1>5. /\ RadioFlagsKept'
      /\ RadioChannelKept'
      /\ RadioReceiversKept'
      /\ RadioDeliveriesKept'
  BY <1>1
     DEF RadioIInv, RadioFlagsKept, RadioChannelKept, RadioReceiversKept,
         RadioDeliveriesKept, Radio!receiver
<1>6. \A n \in RadioModule :
        \A i \in 1..Len(waiting'[n]) : RadioHanded(owner', waiting'[n][i], n)
  BY <1>1, <1>3 DEF RadioIInv, RadioTypesKept, RadioSendersKept
<1>7. \A n \in RadioModule : sending'[n] # None =>
        RadioHanded(owner', sending'[n][1], n) /\ (sending'[n][2] > 1 => client' = n)
  BY <1>1, <1>3 DEF RadioIInv, RadioTypesKept, RadioSendersKept
<1>8. client' # None => sending'[client'] # None
  BY <1>1, <1>3, RadioAssumption DEF RadioIInv, RadioTypesKept, RadioSendersKept
<1> QED BY <1>4, <1>5, <1>6, <1>7, <1>8 DEF RadioIInv, RadioSendersKept

LEMMA RadioClientStep ==
  ASSUME RadioIInv, NEW m \in RadioModule, Radio!LockClient(m) \/ Radio!TransmitFails(m)
  PROVE  RadioIInv'
<1>1. UNCHANGED <<waiting, aired, Radio!receiver, owner, packets>>
  BY DEF Radio!LockClient, Radio!TransmitFails
<1>2. /\ RadioFlagsKept'
      /\ RadioChannelKept'
      /\ RadioReceiversKept'
      /\ RadioDeliveriesKept'
  BY <1>1
     DEF RadioIInv, RadioFlagsKept, RadioChannelKept, RadioReceiversKept,
         RadioDeliveriesKept, Radio!receiver
<1>3. CASE Radio!LockClient(m)
  BY <1>1, <1>2, <1>3, RadioAssumption
     DEF Radio!LockClient, RadioIInv, RadioTypesKept, RadioSendersKept, Radio!receiver
<1>4. CASE Radio!TransmitFails(m)
  <2>1. client = m /\ sending' = [sending EXCEPT ![m] = None] /\ client' = None
    BY <1>4 DEF Radio!TransmitFails
  <2> QED
    BY <1>1, <1>2, <2>1, RadioAssumption
       DEF RadioIInv, RadioTypesKept, RadioSendersKept, Radio!receiver
<1> QED BY <1>3, <1>4

\* The frame goes out, and into the channels or nowhere.
LEMMA RadioTransmitStep ==
  ASSUME RadioIInv, NEW m \in RadioModule, Radio!Transmit(m) PROVE RadioIInv'
<1> DEFINE f == Radio!FrameOf(m)
<1>1. /\ client = m /\ aired' = Append(aired, f)
      /\ Radio!Broadcast(f) \/ Radio!Lose
      /\ \/ sending[m][2] = Pieces /\ sending' = [sending EXCEPT ![m] = None] /\ client' = None
         \/ /\ sending[m][2] # Pieces
            /\ sending' = [sending EXCEPT ![m][2] = @ + 1] /\ UNCHANGED client
      /\ UNCHANGED <<waiting, deaf, collected, delivered, owner, packets>>
  BY DEF Radio!Transmit
<1>2. sending[m] \in Radio!Packet \X (1..Pieces) /\ RadioHanded(owner, sending[m][1], m)
  BY <1>1, RadioAssumption DEF RadioIInv, RadioTypesKept, RadioSendersKept
<1>3. f \in Radio!Frame /\ f.packet = sending[m][1] /\ f.module = m
  BY <1>2 DEF Radio!FrameOf, Radio!Frame
<1> HIDE DEF f
<1>4. RadioOnAir(owner', aired', f)
  <2>1. Len(aired') \in 1..Len(aired') /\ aired'[Len(aired')] = f
    BY <1>1, <1>3 DEF RadioIInv, RadioTypesKept
  <2> QED BY <1>1, <1>2, <1>3, <2>1 DEF RadioOnAir
<1>5. /\ \A g : RadioOnAir(owner, aired, g) => RadioOnAir(owner', aired', g)
      /\ \A n \in RadioModule :
           \A g \in collected'[n] : RadioOnAir(owner', aired', g) /\ g.module = n
      /\ RadioDeliveriesKept'
  BY <1>1, <1>3, RadioReceiverIdle
<1>6. ASSUME NEW n \in RadioModule
      PROVE  /\ radio_channel'[n] \in Seq(Radio!Frame)
             /\ Len(radio_channel'[n]) <= RadioCapacity
             /\ \A i \in 1..Len(radio_channel'[n]) :
                  RadioOnAir(owner', aired', radio_channel'[n][i])
  <2>1. radio_channel[n] \in Seq(Radio!Frame) /\ Len(radio_channel[n]) <= RadioCapacity
    BY DEF RadioIInv, RadioTypesKept, RadioChannelKept
  <2>2. \A i \in 1..Len(radio_channel[n]) :
          RadioOnAir(owner', aired', radio_channel[n][i])
    BY <1>5 DEF RadioIInv, RadioReceiversKept
  <2>3. CASE Radio!Lose
    BY <2>1, <2>2, <2>3 DEF Radio!Lose
  <2>4. CASE Radio!Broadcast(f)
    <3> DEFINE q == Append(radio_channel[n], f)
    <3>1. radio_channel'[n] = IF Len(q) > RadioCapacity THEN Tail(q) ELSE q
      BY <2>4 DEF Radio!Broadcast
    <3>2. /\ q \in Seq(Radio!Frame) /\ Len(q) = Len(radio_channel[n]) + 1
          /\ \A i \in 1..Len(q) : RadioOnAir(owner', aired', q[i])
      BY <1>3, <1>4, <2>1, <2>2, RadioAppended
    <3>3. q # <<>>
      BY <3>2
    <3> HIDE DEF q
    <3>4. /\ Tail(q) \in Seq(Radio!Frame) /\ Len(Tail(q)) = Len(q) - 1
          /\ \A i \in 1..Len(Tail(q)) : RadioOnAir(owner', aired', Tail(q)[i])
      BY <3>2, <3>3, RadioShifted
    <3> QED BY <2>1, <3>1, <3>2, <3>4, RadioAssumption
  <2> QED BY <1>1, <2>3, <2>4
<1>7. /\ DOMAIN radio_channel' = RadioModule
      /\ radio_channel' = [n \in RadioModule |-> radio_channel'[n]]
  BY <1>1 DEF RadioIInv, RadioTypesKept, Radio!Broadcast, Radio!Lose
<1>8. radio_channel' \in [RadioModule -> Seq(Radio!Frame)]
  BY <1>6, <1>7
<1>9. sending' \in [RadioModule -> {None} \cup Radio!Packet \X (1..Pieces)]
  <2>1. sending[m][2] # Pieces =>
          [sending[m] EXCEPT ![2] = @ + 1] \in Radio!Packet \X (1..Pieces)
    BY <1>2, RadioAssumption
  <2> QED BY <1>1, <2>1 DEF RadioIInv, RadioTypesKept
<1>10. RadioTypesKept'
  BY <1>1, <1>3, <1>8, <1>9 DEF RadioIInv, RadioTypesKept
<1>11. RadioFlagsKept' /\ RadioChannelKept'
  BY <1>1, <1>6
     DEF RadioIInv, RadioFlagsKept, RadioChannelKept, Radio!Broadcast, Radio!Lose
<1>12. RadioReceiversKept'
  BY <1>5, <1>6 DEF RadioReceiversKept
<1>13. RadioSendersKept'
  <2>1. \A n \in RadioModule :
          \A i \in 1..Len(waiting'[n]) : RadioHanded(owner', waiting'[n][i], n)
    BY <1>1 DEF RadioIInv, RadioSendersKept
  <2>0. sending[m][2] # Pieces => <<sending[m][1], sending[m][2] + 1>> # None
    <3>1. sending[m][2] # Pieces =>
            <<sending[m][1], sending[m][2] + 1>> \in Radio!Packet \X (1..Pieces)
      BY <1>2, RadioAssumption
    <3> QED BY <3>1, RadioAssumption
  <2>2. /\ sending'[m] # None => /\ RadioHanded(owner', sending'[m][1], m)
                                 /\ client' = m
        /\ client' # None => client' = m /\ sending'[m] # None
    <3>1. CASE sending' = [sending EXCEPT ![m] = None] /\ client' = None
      BY <3>1 DEF RadioIInv, RadioTypesKept
    <3>2. CASE /\ sending[m][2] # Pieces
               /\ sending' = [sending EXCEPT ![m][2] = @ + 1] /\ UNCHANGED client
      <4>1. sending'[m] = [sending[m] EXCEPT ![2] = @ + 1]
        BY <3>2 DEF RadioIInv, RadioTypesKept
      <4>2. sending'[m] = <<sending[m][1], sending[m][2] + 1>>
        BY <1>2, <4>1
      <4>3. sending'[m] # None
        BY <1>1, <1>2, <3>2, <4>2, <2>0, RadioAssumption
      <4> QED BY <1>1, <1>2, <3>2, <4>2, <4>3
    <3> QED BY <1>1, <3>1, <3>2
  <2>3. ASSUME NEW n \in RadioModule, n # m, sending'[n] # None
        PROVE  RadioHanded(owner', sending'[n][1], n) /\ (sending'[n][2] > 1 => client' = n)
    <3>1. sending'[n] = sending[n]
      BY <1>1, <2>3 DEF RadioIInv, RadioTypesKept
    <3> QED BY <1>1, <2>3, <3>1 DEF RadioIInv, RadioSendersKept
  <2> QED BY <2>1, <2>2, <2>3 DEF RadioSendersKept
<1> QED BY <1>5, <1>10, <1>11, <1>12, <1>13 DEF RadioIInv

LEMMA RadioLagStep ==
  ASSUME RadioIInv, NEW m \in RadioModule, Radio!Lag(m) PROVE RadioIInv'
BY DEF Radio!Lag, RadioIInv, RadioTypesKept, RadioFlagsKept, RadioChannelKept,
       RadioSendersKept, RadioReceiversKept, 
       RadioDeliveriesKept

\* A task takes a frame, keeps it if it is its module's, and passes on what is
\* complete.
LEMMA RadioTakeStep ==
  ASSUME RadioIInv, NEW m \in RadioModule, Radio!Take(m) PROVE RadioIInv'
<1> DEFINE frames == Radio!TakenIn(m, Head(radio_channel[m]))
<1>1. /\ radio_channel[m] # <<>>
      /\ radio_channel' = [radio_channel EXCEPT ![m] = Tail(@)]
      /\ delivered' = [delivered EXCEPT ![m] = @ \cup Radio!Complete(frames)]
      /\ collected' = [collected EXCEPT ![m] = {f \in frames : f.packet \notin Radio!Complete(frames)}]
      /\ UNCHANGED <<waiting, sending, client, aired, lagged, deaf, owner, packets>>
  BY DEF Radio!Take
<1>2. radio_channel[m] \in Seq(Radio!Frame)
  BY DEF RadioIInv, RadioTypesKept
<1>3. /\ Tail(radio_channel[m]) \in Seq(Radio!Frame)
      /\ Len(Tail(radio_channel[m])) = Len(radio_channel[m]) - 1
      /\ RadioOnAir(owner, aired, Head(radio_channel[m]))
      /\ \A i \in 1..Len(Tail(radio_channel[m])) :
           RadioOnAir(owner, aired, Tail(radio_channel[m])[i])
  BY <1>1, <1>2, RadioShifted DEF RadioIInv, RadioReceiversKept
<1>4. \A f \in frames : RadioOnAir(owner, aired, f) /\ f.module = m
  BY <1>3 DEF RadioIInv, RadioReceiversKept, Radio!TakenIn
<1>5. frames \subseteq Radio!Frame
  BY <1>4 DEF RadioOnAir
<1> HIDE DEF frames
<1>6. ASSUME NEW p \in Radio!Complete(frames)
      PROVE  p \in Radio!Packet /\ RadioWhole(owner, aired, p, m)
  <2>1. /\ p \in Radio!Packet
        /\ \A i \in 1..Pieces : \E f \in frames : f.packet = p /\ f.piece = i
    BY <1>6 DEF Radio!Complete
  <2>2. ASSUME NEW i \in 1..Pieces
        PROVE  \E k \in 1..Len(aired) :
                 aired[k] = [packet |-> p, piece |-> i, module |-> m]
    <3>1. PICK f \in frames : f.packet = p /\ f.piece = i
      BY <2>1
    <3>2. f = [packet |-> p, piece |-> i, module |-> m]
      BY <1>4, <1>5, <3>1 DEF Radio!Frame
    <3> QED BY <1>4, <3>2 DEF RadioOnAir
  <2>3. RadioHanded(owner, p, m)
    <3>1. 1 \in 1..Pieces
      BY RadioAssumption
    <3>2. PICK f \in frames : f.packet = p
      BY <2>1, <3>1
    <3> QED BY <1>4, <3>2 DEF RadioOnAir
  <2> QED BY <2>1, <2>2, <2>3 DEF RadioWhole
<1>7. Radio!Complete(frames) \subseteq Radio!Packet
  BY <1>6
<1>8. RadioTypesKept'
  BY <1>1, <1>3, <1>5, <1>7 DEF RadioIInv, RadioTypesKept
<1>9. RadioFlagsKept' /\ RadioChannelKept' /\ RadioSendersKept'
  <2>1. RadioFlagsKept' /\ RadioSendersKept'
    BY <1>1 DEF RadioIInv, RadioFlagsKept, RadioSendersKept
  <2>2. Len(radio_channel[m]) \in Nat /\ RadioCapacity \in Nat
    BY <1>2, RadioAssumption
  <2>3. ASSUME NEW n \in RadioModule PROVE Len(radio_channel'[n]) <= RadioCapacity
    <3>1. CASE n = m
      BY <1>1, <1>3, <2>2, <3>1 DEF RadioIInv, RadioTypesKept, RadioChannelKept
    <3>2. CASE n # m
      BY <1>1, <3>2 DEF RadioIInv, RadioTypesKept, RadioChannelKept
    <3> QED BY <3>1, <3>2
  <2> QED BY <2>1, <2>3 DEF RadioChannelKept
<1>10. RadioReceiversKept'
  BY <1>1, <1>3, <1>4 DEF RadioIInv, RadioTypesKept, RadioReceiversKept
<1>11. RadioDeliveriesKept'
  BY <1>1, <1>6 DEF RadioIInv, RadioTypesKept, RadioDeliveriesKept
<1> QED BY <1>8, <1>9, <1>10, <1>11 DEF RadioIInv

LEMMA RadioInvariantStep == RadioIInv /\ [Radio!Next]_(Radio!vars) => RadioIInv'
<1>1. ASSUME RadioIInv, UNCHANGED Radio!vars PROVE RadioIInv'
  BY <1>1
     DEF Radio!vars, RadioIInv, RadioTypesKept, RadioFlagsKept, RadioChannelKept,
         RadioSendersKept, RadioReceiversKept, 
              RadioDeliveriesKept
<1> QED BY <1>1, RadioSubmitStep, RadioEncodeStep, RadioClientStep, RadioTransmitStep,
           RadioLagStep, RadioTakeStep
        DEF Radio!Next

LEMMA RadioKept == RadioIInv => Radio!TypeOK /\ Radio!DeliveredWhole
<1> SUFFICES ASSUME RadioIInv PROVE Radio!TypeOK /\ Radio!DeliveredWhole
  OBVIOUS
<1>1. Radio!TypeOK
  BY DEF RadioIInv, RadioTypesKept, RadioFlagsKept, RadioChannelKept, RadioSendersKept,
         Radio!TypeOK
<1>2. Radio!DeliveredWhole
  BY DEF RadioIInv, RadioDeliveriesKept, RadioWhole, RadioHanded, Radio!DeliveredWhole
<1> QED BY <1>1, <1>2

-----------------------------------------------------------------------------
(* The data path of the VPN (kaonic-vpn).  A table built from the peers stays  *)
(* a sorted arrangement of what they own for as long as they do not change.    *)

\* FiniteSets as the component sees it.
LEMMA DataCardinality == \A S : Data!Cardinality(S) = Cardinality(S)
  BY DEF Data!Cardinality, Cardinality

\* The peers known and what they claim.
DataPeersKept ==
  /\ registry \subseteq DataPeer
  /\ claims \in [DataPeer -> SUBSET Subnets]
  /\ active \in [DataPeer -> BOOLEAN] /\ linked \in [DataPeer -> BOOLEAN]
  /\ peer_tx = [p \in DataPeer |-> peer_tx[p]]
  /\ peer_rx = [p \in DataPeer |-> peer_rx[p]]
  /\ \A p \in DataPeer \ registry : claims[p] = {} /\ peer_tx[p] = 0 /\ peer_rx[p] = 0

\* The router: the table built last, of the peers there are unless they changed.
DataTableKept ==
  /\ vpn_data_table.tunnels \subseteq DataPeer
  /\ vpn_data_table.subnets \in Seq(Subnets \X DataPeer)
  /\ vpn_data_current => vpn_data_table \in Data!Built

\* Every packet taken is in one hand or in one counter.
DataHandsKept ==
  /\ \/ reader.pc \in {"idle", "backoff", "stopped"}
     \/ reader \in [pc : {"send"}, peer : DataPeer]
  /\ receiver = [t \in Data!Task |-> receiver[t]]
  /\ \A t \in Data!Task : receiver[t].pc \in {"idle", "tun"}
DataCountersKept ==
  /\ tx \in Nat /\ rx \in Nat /\ drops \in Nat /\ vpn_data_failed \in Nat
  /\ Data!PacketsCounted

DataIInv == DataPeersKept /\ DataTableKept /\ DataHandsKept /\ DataCountersKept

-----------------------------------------------------------------------------
(* Tables *)

LEMMA DataOwnedFinite ==
  ASSUME DataPeersKept
  PROVE  Data!Owned \subseteq Subnets \X DataPeer /\ Cardinality(Data!Owned) \in Nat
<1>1. Data!Owned \subseteq Subnets \X DataPeer
  BY DEF DataPeersKept, Data!Owned
<1>2. IsFiniteSet(Data!Owned)
  BY <1>1, DataAssumption, FS_Product, FS_Subset
<1> QED BY <1>1, <1>2, FS_CardinalityType

LEMMA DataRowsListed ==
  ASSUME DataPeersKept, NEW s \in Data!Rows
  PROVE  /\ s \in Seq(Subnets \X DataPeer)
         /\ \A i \in 1..Len(s) : s[i] \in Data!Owned
         /\ \A x \in Data!Owned : \E i \in 1..Len(s) : s[i] = x
<1>1. s \in [1..Cardinality(Data!Owned) -> Data!Owned] /\ Data!Range(s) = Data!Owned
  BY DataCardinality DEF Data!Rows
<1>2. s \in Seq(Subnets \X DataPeer) /\ Len(s) = Cardinality(Data!Owned)
  BY <1>1, DataOwnedFinite
<1> QED BY <1>1, <1>2 DEF Data!Range

\* Of positions in a sequence one is the first.
LEMMA DataFirstOf ==
  ASSUME NEW n \in Nat, NEW M \in SUBSET (1..n), M # {}
  PROVE  \E i \in M : \A j \in M : i <= j
<1> DEFINE S == 1..n
           Below(i) == 1..i
           T == {Below(i) : i \in M}
<1>1. IsFiniteSet(S)
  BY FS_Interval
<1>2. IsWellFoundedOn(StrictSubsetOrdering(S), FiniteSubsetsOf(S))
  BY <1>1, FS_StrictSubsetOrderingWellFounded
<1>3. \A i \in M : Below(i) \subseteq S /\ IsFiniteSet(Below(i))
  BY FS_Interval
<1>4. T \subseteq FiniteSubsetsOf(S) /\ T # {}
  BY <1>3 DEF FiniteSubsetsOf
<1>5. \E x \in T : \A y \in T : ~(<<y, x>> \in StrictSubsetOrdering(S))
  BY <1>2, <1>4, WFMin
<1>6. PICK i \in M : \A j \in M : ~(<<Below(j), Below(i)>> \in StrictSubsetOrdering(S))
  BY <1>5
<1>7. ASSUME NEW j \in M, j < i PROVE FALSE
  <2>1. Below(j) \subseteq Below(i) /\ Below(j) # Below(i)
    <3>1. i \in Below(i) /\ i \notin Below(j)
      BY <1>7
    <3>2. Below(j) \subseteq Below(i)
      BY <1>7
    <3> QED BY <3>1, <3>2
  <2>2. <<Below(j), Below(i)>> \in (SUBSET S) \X (SUBSET S)
    BY <1>3
  <2> QED BY <1>6, <2>1, <2>2 DEF StrictSubsetOrdering
<1> QED BY <1>7

\* A packet is sent to a peer of the table.
LEMMA DataResolvesToPeer ==
  ASSUME NEW P, vpn_data_table.tunnels \subseteq P,
         vpn_data_table.subnets \in Seq(Subnets \X P), NEW ip
  PROVE  Data!Resolve(ip) \in P \cup {None}
<1> DEFINE direct == {p \in vpn_data_table.tunnels : TunnelIp[p] = ip}
           s == vpn_data_table.subnets
           matches == {i \in 1..Len(s) : Data!Covers(s[i][1], ip)}
           first == CHOOSE i \in matches : \A j \in matches : i <= j
<1>1. CASE direct # {}
  <2>1. (CHOOSE p \in direct : TRUE) \in direct
    BY <1>1
  <2> QED BY <1>1, <2>1 DEF Data!Resolve
<1>2. CASE direct = {} /\ matches # {}
  <2>1. /\ Len(vpn_data_table.subnets) \in Nat
        /\ matches \in SUBSET (1..Len(vpn_data_table.subnets))
    OBVIOUS
  <2>5. \E i \in matches : \A j \in matches : i <= j
    <3> HIDE DEF matches
    <3> QED BY <1>2, <2>1, DataFirstOf
  <2>2. first \in 1..Len(vpn_data_table.subnets)
    BY <2>5
  <2>3. vpn_data_table.subnets[first] \in Subnets \X P
    <3> HIDE DEF first
    <3> QED BY <2>2
  <2>4. Data!Resolve(ip) = vpn_data_table.subnets[first][2]
    BY <1>2 DEF Data!Resolve
  <2> HIDE DEF first
  <2> QED BY <2>3, <2>4
<1>3. CASE direct = {} /\ matches = {}
  BY <1>3 DEF Data!Resolve
<1> QED BY <1>1, <1>2, <1>3

\* In a table that is up to date the first match is the longest prefix.
LEMMA DataFirstIsLongest ==
  ASSUME DataPeersKept, DataTableKept, vpn_data_current, NEW ip \in Data!Ip,
         {p \in registry : TunnelIp[p] = ip} = {}
  PROVE  IF Data!Holders(ip) = {} THEN Data!Resolve(ip) = None
         ELSE \E x \in Data!Holders(ip) : /\ Data!Resolve(ip) = x[2]
                                          /\ \A y \in Data!Holders(ip) :
                                               y[1][2] <= x[1][2]
<1> DEFINE s == vpn_data_table.subnets
           direct == {p \in vpn_data_table.tunnels : TunnelIp[p] = ip}
           matches == {i \in 1..Len(s) : Data!Covers(s[i][1], ip)}
           first == CHOOSE i \in matches : \A j \in matches : i <= j
<1>1. /\ vpn_data_table.tunnels = registry /\ s \in Data!Rows
      /\ \A i, j \in 1..Len(s) : i < j => s[i][1][2] >= s[j][1][2]
  BY DEF DataTableKept, Data!Built
<1>2. direct = {}
  BY <1>1
<1>3. /\ s \in Seq(Subnets \X DataPeer)
      /\ \A i \in 1..Len(s) : s[i] \in Data!Owned
      /\ \A x \in Data!Owned : \E i \in 1..Len(s) : s[i] = x
  BY <1>1, DataRowsListed
<1>4. \A x \in Data!Holders(ip) : \E i \in matches : s[i] = x
  BY <1>3 DEF Data!Holders
<1>5. \A i \in matches : s[i] \in Data!Holders(ip) /\ s[i][1][2] \in Nat
  BY <1>3, DataOwnedFinite, DataAssumption DEF Data!Holders
<1>6. CASE matches = {}
  <2>1. Data!Holders(ip) = {}
    BY <1>4, <1>6
  <2>2. Data!Resolve(ip) = None
    BY <1>2, <1>6 DEF Data!Resolve
  <2> QED BY <2>1, <2>2
<1>7. CASE matches # {}
  <2>0. Len(s) \in Nat /\ matches \in SUBSET (1..Len(s))
    BY <1>3
  <2>1. \E i \in matches : \A j \in matches : i <= j
    <3> HIDE DEF matches
    <3> QED BY <1>7, <2>0, DataFirstOf
  <2>2. first \in matches /\ \A j \in matches : first <= j
    BY <2>1
  <2>3. Data!Resolve(ip) = s[first][2]
    BY <1>2, <1>7 DEF Data!Resolve
  <2> HIDE DEF first
  <2>4. ASSUME NEW y \in Data!Holders(ip) PROVE y[1][2] <= s[first][1][2]
    <3>1. PICK j \in matches : s[j] = y
      BY <1>4
    <3>2. CASE j = first
      BY <1>5, <3>1, <3>2
    <3>3. CASE j # first
      <4>1. first < j /\ first \in 1..Len(s) /\ j \in 1..Len(s)
        BY <2>2, <3>3
      <4>2. s[first][1][2] >= s[j][1][2]
        BY <1>1, <4>1
      <4> QED BY <1>5, <2>2, <3>1, <4>2
    <3> QED BY <3>2, <3>3
  <2> QED BY <1>5, <2>2, <2>3, <2>4
<1> QED BY <1>6, <1>7

-----------------------------------------------------------------------------
(* Sums over the peers.  A sum adds the counter of one peer at a time; that it *)
(* is well defined, and what changes it, is shown on a smallest set of peers   *)
(* of which it would not hold.                                                 *)

DataFirst(s) == CHOOSE x \in s : TRUE
DataRest(s) == s \ {DataFirst(s)}

\* f has the sums of counter c over the subsets of S.
DataAdds(c, S, f) ==
  f = [s \in SUBSET S |-> IF s = {} THEN 0 ELSE c[DataFirst(s)] + f[DataRest(s)]]

LEMMA DataRestIsSmaller ==
  ASSUME NEW s, s # {}
  PROVE  DataFirst(s) \in s /\ DataRest(s) \subseteq s /\ DataRest(s) # s
<1>1. DataFirst(s) \in s
  BY DEF DataFirst
<1> QED BY <1>1 DEF DataRest

LEMMA DataSmallest ==
  ASSUME NEW S, IsFiniteSet(S), NEW T \in SUBSET (SUBSET S), T # {}
  PROVE  \E u \in T : \A s \in T : s \subseteq u => s = u
<1>1. T \subseteq FiniteSubsetsOf(S)
  BY FS_Subset DEF FiniteSubsetsOf
<1>2. PICK u \in T : \A s \in T : ~(<<s, u>> \in StrictSubsetOrdering(S))
  BY <1>1, FS_StrictSubsetOrderingWellFounded, WFMin
<1>3. \A s \in T : s \subseteq u /\ s # u => <<s, u>> \in StrictSubsetOrdering(S)
  BY DEF StrictSubsetOrdering
<1>4. \A s \in T : s \subseteq u => s = u
  BY <1>2, <1>3
<1> QED BY <1>4

\* Two ways to sum agree where both are defined.
LEMMA DataOneSum ==
  ASSUME NEW R, IsFiniteSet(R), NEW S, R \subseteq S, NEW c, NEW f, NEW g,
         DataAdds(c, S, f), DataAdds(c, R, g)
  PROVE  \A s \in SUBSET R : f[s] = g[s]
<1> DEFINE T == {s \in SUBSET R : f[s] # g[s]}
<1>1. SUFFICES ASSUME T # {} PROVE FALSE
  OBVIOUS
<1>2. PICK u \in T : \A s \in T : s \subseteq u => s = u
  <2>1. T \in SUBSET (SUBSET R) /\ T # {} /\ IsFiniteSet(R)
    BY <1>1
  <2> HIDE DEF T
  <2> QED BY <2>1, DataSmallest
<1>3. f[u] = IF u = {} THEN 0 ELSE c[DataFirst(u)] + f[DataRest(u)]
  BY <1>2 DEF DataAdds
<1>4. g[u] = IF u = {} THEN 0 ELSE c[DataFirst(u)] + g[DataRest(u)]
  BY <1>2 DEF DataAdds
<1>5. CASE u = {}
  BY <1>2, <1>3, <1>4, <1>5
<1>6. CASE u # {}
  <2>1. DataRest(u) \in SUBSET R /\ DataRest(u) \notin T
    BY <1>2, <1>6, DataRestIsSmaller
  <2> QED BY <1>2, <1>3, <1>4, <1>6, <2>1
<1> QED BY <1>5, <1>6

\* There is one for every finite set of peers.
LEMMA DataSumExists ==
  ASSUME NEW S, IsFiniteSet(S), NEW c
  PROVE  \E f : DataAdds(c, S, f)
<1> DEFINE T == {s \in SUBSET S : ~\E f : DataAdds(c, s, f)}
           sums(s) == CHOOSE f : DataAdds(c, s, f)
<1>1. SUFFICES ASSUME T # {} PROVE FALSE
  OBVIOUS
<1>2. PICK u \in T : \A s \in T : s \subseteq u => s = u
  <2>1. T \in SUBSET (SUBSET S) /\ T # {} /\ IsFiniteSet(S)
    BY <1>1
  <2> HIDE DEF T
  <2> QED BY <2>1, DataSmallest
<1> DEFINE g == [s \in SUBSET u |->
                   IF s = {} THEN 0
                   ELSE c[DataFirst(s)] + sums(DataRest(s))[DataRest(s)]]
<1>3. ASSUME NEW s \in SUBSET u, s # {}
      PROVE  DataRest(s) \in SUBSET u /\ DataAdds(c, DataRest(s), sums(DataRest(s)))
  <2>1. DataRest(s) \in SUBSET S /\ DataRest(s) \in SUBSET u /\ DataRest(s) # u
    BY <1>2, <1>3, DataRestIsSmaller
  <2>2. \E f : DataAdds(c, DataRest(s), f)
    BY <1>2, <2>1
  <2> QED BY <2>1, <2>2
<1>4. ASSUME NEW s \in SUBSET u, s # {}
      PROVE  sums(DataRest(s))[DataRest(s)] = g[DataRest(s)]
  <2> DEFINE r == DataRest(s)
             q == DataRest(r)
  <2>1. r \in SUBSET u /\ DataAdds(c, r, sums(r))
    BY <1>3, <1>4
  <2>2. sums(r)[r] = IF r = {} THEN 0 ELSE c[DataFirst(r)] + sums(r)[q]
    <3> HIDE DEF sums, r
    <3> QED BY <2>1 DEF DataAdds
  <2>3. CASE r = {}
    BY <2>1, <2>2, <2>3
  <2>4. CASE r # {}
    <3>1. q \in SUBSET r /\ q \in SUBSET u /\ DataAdds(c, q, sums(q))
      BY <1>3, <2>1, <2>4, DataRestIsSmaller
    <3>2. IsFiniteSet(q)
      BY <1>2, <3>1, FS_Subset
    <3>3. sums(r)[q] = sums(q)[q]
      <4> HIDE DEF sums, r, q
      <4> QED BY <2>1, <3>1, <3>2, DataOneSum
    <3>4. g[r] = c[DataFirst(r)] + sums(q)[q]
      <4> HIDE DEF sums
      <4> QED BY <2>1, <2>4
    <3> QED BY <2>2, <2>4, <3>3, <3>4
  <2> QED BY <2>3, <2>4
<1>5. \A s \in SUBSET u : g[s] = IF s = {} THEN 0 ELSE c[DataFirst(s)] + g[DataRest(s)]
  <2> SUFFICES ASSUME NEW s \in SUBSET u
               PROVE  g[s] = IF s = {} THEN 0 ELSE c[DataFirst(s)] + g[DataRest(s)]
    OBVIOUS
  <2>1. CASE s = {}
    BY <2>1
  <2>2. CASE s # {}
    <3>1. g[s] = c[DataFirst(s)] + sums(DataRest(s))[DataRest(s)]
      <4> HIDE DEF sums
      <4> QED BY <2>2
    <3> HIDE DEF g, sums
    <3> QED BY <1>4, <2>2, <3>1
  <2> QED BY <2>1, <2>2
<1>6. DataAdds(c, u, g)
  <2>1. g = [s \in SUBSET u |-> g[s]]
    OBVIOUS
  <2> HIDE DEF g
  <2> QED BY <1>5, <2>1 DEF DataAdds
<1> QED BY <1>2, <1>6

LEMMA DataSumIs ==
  ASSUME NEW c, DOMAIN c = DataPeer
  PROVE  \E f : DataAdds(c, DataPeer, f) /\ Data!Sum(c) = f[DataPeer]
<1>1. Data!Sum(c) = (CHOOSE f : DataAdds(c, DataPeer, f))[DataPeer]
  BY DEF Data!Sum, Data!FoldFunction, Data!FoldFunctionOnSet, Data!MapThenFoldSet,
         DataAdds, DataFirst, DataRest
<1>2. \E f : DataAdds(c, DataPeer, f)
  BY DataAssumption, DataSumExists
<1> QED BY <1>1, <1>2

\* Nothing adds up to nothing.
LEMMA DataSumOfZeros == Data!Sum([p \in DataPeer |-> 0]) = 0
<1> DEFINE c == [p \in DataPeer |-> 0]
<1>1. PICK f : DataAdds(c, DataPeer, f) /\ Data!Sum(c) = f[DataPeer]
  BY DataSumIs
<1> DEFINE T == {s \in SUBSET DataPeer : f[s] # 0}
<1>2. SUFFICES ASSUME T # {} PROVE FALSE
  BY <1>1
<1>3. PICK u \in T : \A s \in T : s \subseteq u => s = u
  <2>1. T \in SUBSET (SUBSET DataPeer) /\ T # {} /\ IsFiniteSet(DataPeer)
    BY <1>2, DataAssumption
  <2> HIDE DEF T
  <2> QED BY <2>1, DataSmallest
<1>4. f[u] = IF u = {} THEN 0 ELSE c[DataFirst(u)] + f[DataRest(u)]
  BY <1>1, <1>3 DEF DataAdds
<1>5. u # {}
  BY <1>3, <1>4
<1>6. DataFirst(u) \in DataPeer /\ DataRest(u) \in SUBSET DataPeer /\ DataRest(u) \notin T
  BY <1>3, <1>5, DataRestIsSmaller
<1> QED BY <1>3, <1>4, <1>5, <1>6

\* A counter that changes changes the sum by as much.
LEMMA DataSumChanges ==
  ASSUME NEW c \in [DataPeer -> Nat], NEW p \in DataPeer, NEW n \in Nat
  PROVE  /\ Data!Sum(c) \in Nat /\ Data!Sum([c EXCEPT ![p] = n]) \in Nat
         /\ Data!Sum([c EXCEPT ![p] = n]) + c[p] = Data!Sum(c) + n
<1> DEFINE d == [c EXCEPT ![p] = n]
<1>1. PICK f : DataAdds(c, DataPeer, f) /\ Data!Sum(c) = f[DataPeer]
  BY DataSumIs
<1>2. PICK g : DataAdds(d, DataPeer, g) /\ Data!Sum(d) = g[DataPeer]
  BY DataSumIs
<1> DEFINE Agree(s) == /\ f[s] \in Nat /\ g[s] \in Nat
                       /\ p \in s => g[s] + c[p] = f[s] + n
                       /\ p \notin s => g[s] = f[s]
           T == {s \in SUBSET DataPeer : ~Agree(s)}
<1>3. SUFFICES ASSUME T # {} PROVE FALSE
  BY <1>1, <1>2
<1>4. PICK u \in T : \A s \in T : s \subseteq u => s = u
  <2>1. T \in SUBSET (SUBSET DataPeer) /\ T # {} /\ IsFiniteSet(DataPeer)
    BY <1>3, DataAssumption
  <2> HIDE DEF T
  <2> QED BY <2>1, DataSmallest
<1>5. f[u] = IF u = {} THEN 0 ELSE c[DataFirst(u)] + f[DataRest(u)]
  BY <1>1, <1>4 DEF DataAdds
<1>6. g[u] = IF u = {} THEN 0 ELSE d[DataFirst(u)] + g[DataRest(u)]
  BY <1>2, <1>4 DEF DataAdds
<1>7. u # {}
  BY <1>4, <1>5, <1>6
<1>8. /\ DataFirst(u) \in u /\ DataFirst(u) \in DataPeer
      /\ DataRest(u) \in SUBSET DataPeer /\ Agree(DataRest(u))
  BY <1>4, <1>7, DataRestIsSmaller
<1>9. c[DataFirst(u)] \in Nat /\ c[p] \in Nat
  BY <1>8
<1>10. CASE DataFirst(u) = p
  <2>1. d[DataFirst(u)] = n /\ p \in u /\ p \notin DataRest(u)
    BY <1>8, <1>10 DEF DataRest
  <2> QED BY <1>4, <1>5, <1>6, <1>7, <1>8, <1>9, <1>10, <2>1
<1>11. CASE DataFirst(u) # p
  <2>1. d[DataFirst(u)] = c[DataFirst(u)] /\ (p \in u <=> p \in DataRest(u))
    BY <1>8, <1>11 DEF DataRest
  <2> QED BY <1>4, <1>5, <1>6, <1>7, <1>8, <1>9, <2>1
<1> QED BY <1>10, <1>11

-----------------------------------------------------------------------------
(* The steps *)

LEMMA DataInitInvariant == Data!Init => DataIInv
<1> SUFFICES ASSUME Data!Init PROVE DataIInv
  OBVIOUS
<1>1. DataPeersKept
  BY DEF Data!Init, DataPeersKept
<1>2. DataHandsKept
  BY DEF Data!Init, DataHandsKept, Data!Idle
<1>3. DataCountersKept
  BY DEF Data!Init, DataCountersKept, Data!PacketsCounted, Data!InHand, Data!One,
         Data!Idle, Data!Task
<1>4. DataTableKept
  <2>1. Data!Owned = {}
    BY DEF Data!Init, Data!Owned
  <2>2. Cardinality(Data!Owned) = 0
    BY <2>1, FS_EmptySet
  <2>3. <<>> \in Data!Rows
    <3>1. <<>> \in [1..0 -> {}] /\ Data!Range(<<>>) = {}
      BY DEF Data!Range
    <3> QED BY <2>1, <2>2, <3>1, DataCardinality DEF Data!Rows
  <2>4. Len(<<>>) = 0
    OBVIOUS
  <2>5. \A i, j \in 1..Len(<<>>) : i < j => <<>>[i][1][2] >= <<>>[j][1][2]
    BY <2>4
  <2>6. [tunnels |-> registry, subnets |-> <<>>] \in Data!Built
    BY <2>3, <2>5 DEF Data!Built
  <2>7. vpn_data_table = [tunnels |-> registry, subnets |-> <<>>]
    BY DEF Data!Init
  <2> QED BY <2>6, <2>7 DEF Data!Init, DataTableKept
<1> QED BY <1>1, <1>2, <1>3, <1>4 DEF DataIInv

\* A table stays what it is for as long as it and the peers do.
LEMMA DataTableIdle ==
  ASSUME DataTableKept, UNCHANGED <<registry, claims, vpn_data_table, vpn_data_current>>
  PROVE  DataTableKept'
<1>1. Data!Built' = Data!Built
  BY DataCardinality DEF Data!Built, Data!Rows, Data!Owned
<1> QED BY <1>1 DEF DataTableKept

LEMMA DataHandsIdle ==
  ASSUME DataHandsKept, DataCountersKept,
         UNCHANGED <<reader, receiver, tx, rx, drops, handled, vpn_data_failed>>
  PROVE  DataHandsKept' /\ DataCountersKept'
BY DEF DataHandsKept, DataCountersKept, Data!PacketsCounted, Data!InHand, Data!One

LEMMA DataRebuildStep == ASSUME DataIInv, Data!Rebuild PROVE DataIInv'
<1>1. /\ vpn_data_table' \in Data!Built
      /\ UNCHANGED <<registry, claims, active, linked, peer_tx, peer_rx>>
      /\ UNCHANGED <<reader, receiver, tx, rx, drops, handled, vpn_data_failed>>
  BY DEF Data!Rebuild
<1>2. DataPeersKept' /\ DataHandsKept' /\ DataCountersKept'
  BY <1>1, DataHandsIdle DEF DataIInv, DataPeersKept
<1>3. DataTableKept'
  <2>1. Data!Built' = Data!Built
    BY <1>1, DataCardinality DEF Data!Built, Data!Rows, Data!Owned
  <2>2. PICK s \in Data!Rows : vpn_data_table' = [tunnels |-> registry, subnets |-> s]
    BY <1>1 DEF Data!Built
  <2>3. s \in Seq(Subnets \X DataPeer)
    BY <2>2, DataRowsListed DEF DataIInv
  <2> QED BY <1>1, <2>1, <2>2, <2>3 DEF DataIInv, DataPeersKept, DataTableKept
<1> QED BY <1>2, <1>3 DEF DataIInv

\* Peers are announced and forgotten; whoever changes them sets current to FALSE.
LEMMA DataPeerStep ==
  ASSUME DataIInv, NEW p \in DataPeer,
         \/ \E rs \in SUBSET Subnets : Data!Announce(p, rs) \/ Data!Hello(p, rs)
         \/ Data!Expire(p) \/ Data!Forget(p)
  PROVE  DataIInv'
<1>1. /\ UNCHANGED <<reader, receiver, tx, rx, drops, handled, vpn_data_failed>>
      /\ UNCHANGED <<vpn_data_table, linked>>
      /\ vpn_data_current' = FALSE
  BY DEF Data!Announce, Data!Hello, Data!Expire, Data!Forget, Data!Change
<1>2. DataHandsKept' /\ DataCountersKept' /\ DataTableKept'
  BY <1>1, DataHandsIdle DEF DataIInv, DataTableKept
<1>3. DataPeersKept'
  <2>1. CASE \E rs \in SUBSET Subnets : Data!Announce(p, rs) \/ Data!Hello(p, rs)
    BY <1>1, <2>1 DEF Data!Announce, Data!Hello, DataIInv, DataPeersKept
  <2>2. CASE Data!Expire(p)
    BY <1>1, <2>2 DEF Data!Expire, DataIInv, DataPeersKept
  <2>3. CASE Data!Forget(p)
    <3>1. /\ registry' = registry \ {p} /\ claims' = [claims EXCEPT ![p] = {}]
          /\ active' = [active EXCEPT ![p] = FALSE]
          /\ peer_tx' = [peer_tx EXCEPT ![p] = 0]
          /\ peer_rx' = [peer_rx EXCEPT ![p] = 0]
      BY <2>3 DEF Data!Forget
    <3>2. \A q \in DataPeer \ registry' : q = p \/ q \in DataPeer \ registry
      BY <3>1
    <3> QED BY <1>1, <3>1, <3>2 DEF DataIInv, DataPeersKept
  <2> QED BY <2>1, <2>2, <2>3
<1> QED BY <1>2, <1>3 DEF DataIInv

LEMMA DataLinkStep ==
  ASSUME DataIInv, NEW p \in DataPeer, Data!LinkChanges(p) \/ Data!LinkEvent(p)
  PROVE  DataIInv'
<1>1. /\ UNCHANGED <<registry, claims, vpn_data_table, vpn_data_current>>
      /\ UNCHANGED <<peer_tx, peer_rx>>
      /\ UNCHANGED <<reader, receiver, tx, rx, drops, handled, vpn_data_failed>>
  BY DEF Data!LinkChanges, Data!LinkEvent, Data!Change
<1>2. DataHandsKept' /\ DataCountersKept'
  BY <1>1, DataHandsIdle DEF DataIInv
<1>3. DataTableKept'
  BY <1>1, DataTableIdle DEF DataIInv
<1>4. active' \in [DataPeer -> BOOLEAN] /\ linked' \in [DataPeer -> BOOLEAN]
  BY DEF Data!LinkChanges, Data!LinkEvent, DataIInv, DataPeersKept
<1> QED BY <1>1, <1>2, <1>3, <1>4 DEF DataIInv, DataPeersKept

\* What the data path leaves alone.
LEMMA DataPlaneIdle == ASSUME DataTableKept, UNCHANGED Data!plane PROVE DataTableKept'
BY DataTableIdle DEF Data!plane

\* The reader takes a packet, sends or drops it, wakes or ends.
LEMMA DataReaderStep ==
  ASSUME DataIInv,
         (\E ip \in Data!Ip : Data!Read(ip)) \/ Data!Send \/ Data!Wake \/ Data!ReaderFails
  PROVE  DataIInv'
<1>1. UNCHANGED <<Data!plane, receiver, rx, peer_rx, vpn_data_failed>>
  BY DEF Data!Read, Data!Send, Data!Wake, Data!ReaderFails
<1>2. DataTableKept'
  BY <1>1, DataPlaneIdle DEF DataIInv
<1>3. \/ reader'.pc \in {"idle", "backoff", "stopped"}
      \/ reader' \in [pc : {"send"}, peer : DataPeer]
  <2>1. CASE \E ip \in Data!Ip : Data!Read(ip)
    <3>1. PICK ip \in Data!Ip : Data!Read(ip)
      BY <2>1
    <3>2. Data!Resolve(ip) \in DataPeer \cup {None}
      BY DataResolvesToPeer DEF DataIInv, DataTableKept
    <3>3. \/ reader' \in {Data!Idle, [pc |-> "backoff"]}
          \/ Data!Resolve(ip) # None /\ reader' = [pc |-> "send", peer |-> Data!Resolve(ip)]
      BY <3>1 DEF Data!Read
    <3> QED BY <3>2, <3>3 DEF Data!Idle
  <2>2. CASE Data!Send \/ Data!Wake \/ Data!ReaderFails
    BY <2>2 DEF Data!Send, Data!Wake, Data!ReaderFails, Data!Idle
  <2> QED BY <2>1, <2>2
<1>4. DataHandsKept'
  BY <1>1, <1>3 DEF DataIInv, DataHandsKept
<1>5. DataPeersKept'
  <2>1. peer_tx' = peer_tx \/ \E p : peer_tx' = Data!Count(peer_tx, p)
    BY DEF Data!Read, Data!Send, Data!Wake, Data!ReaderFails
  <2>2. /\ peer_tx' = [p \in DataPeer |-> peer_tx'[p]]
        /\ \A p \in DataPeer \ registry : peer_tx'[p] = 0
    BY <2>1 DEF Data!Count, DataIInv, DataPeersKept
  <2> QED BY <1>1, <2>2 DEF Data!plane, DataIInv, DataPeersKept
<1>6. DataCountersKept'
  <2> DEFINE others == Data!One(receiver["in"].pc = "tun")
                         + Data!One(receiver["out"].pc = "tun")
  <2>1. others \in Nat /\ others' = others
    BY <1>1 DEF Data!One
  <2>2. /\ handled
             = tx + rx + drops + vpn_data_failed + (Data!One(reader.pc = "send") + others)
        /\ tx \in Nat /\ rx \in Nat /\ drops \in Nat /\ vpn_data_failed \in Nat
    BY DEF DataIInv, DataCountersKept, Data!PacketsCounted, Data!InHand, Data!One
  <2>4. Data!One(reader.pc = "send") \in Nat /\ Data!One(reader'.pc = "send") \in Nat
    BY DEF Data!One
  <2>3. /\ tx' \in {tx, tx + 1} /\ drops' \in {drops, drops + 1}
        /\ tx' + drops' + Data!One(reader'.pc = "send") + handled
             = tx + drops + Data!One(reader.pc = "send") + handled'
    <3>1. CASE \E ip \in Data!Ip : Data!Read(ip)
      <4>1. PICK ip \in Data!Ip : Data!Read(ip)
        BY <3>1
      <4> DEFINE p == Data!Resolve(ip)
                 gone == p = None \/ (p \in registry /\ ~active[p])
      <4>2. /\ reader = Data!Idle /\ handled' = handled + 1 /\ tx' = tx
            /\ drops' = IF gone THEN drops + 1 ELSE drops
        BY <4>1 DEF Data!Read, Data!Taken
      <4>3. IF gone THEN reader' \in {Data!Idle, [pc |-> "backoff"]}
            ELSE reader' = [pc |-> "send", peer |-> p]
        BY <4>1 DEF Data!Read
      <4> HIDE DEF gone
      <4>4. /\ Data!One(reader.pc = "send") = 0
            /\ Data!One(reader'.pc = "send") = IF gone THEN 0 ELSE 1
        BY <4>2, <4>3 DEF Data!Idle, Data!One
      <4> DEFINE before == Data!One(reader.pc = "send")
                 after == Data!One(reader'.pc = "send")
      <4>5. before = 0 /\ after = IF gone THEN 0 ELSE 1
        BY <4>4
      <4>6. tx \in Nat /\ drops \in Nat /\ handled \in Nat
        BY <2>1, <2>2, <2>4
      <4> HIDE DEF before, after
      <4>7. /\ tx' \in {tx, tx + 1} /\ drops' \in {drops, drops + 1}
            /\ tx' + drops' + after + handled = tx + drops + before + handled'
        <5>1. CASE gone
          BY <4>2, <4>5, <4>6, <5>1
        <5>2. CASE ~gone
          BY <4>2, <4>5, <4>6, <5>2
        <5> QED BY <5>1, <5>2
      <4> QED BY <4>7 DEF before, after
    <3>2. CASE Data!Send
      <4>1. /\ Data!One(reader.pc = "send") = 1 /\ handled' = handled
            /\ Data!One(reader'.pc = "send") = 0
        BY <3>2 DEF Data!Send, Data!Idle, Data!One
      <4>2. \/ tx' = tx + 1 /\ drops' = drops
            \/ tx' = tx /\ drops' = drops + 1
        BY <3>2 DEF Data!Send
      <4> QED BY <2>2, <4>1, <4>2
    <3>3. CASE Data!Wake \/ Data!ReaderFails
      <4>1. /\ Data!One(reader.pc = "send") = 0 /\ Data!One(reader'.pc = "send") = 0
            /\ handled' = handled /\ tx' = tx /\ drops' = drops
        BY <3>3 DEF Data!Wake, Data!ReaderFails, Data!Idle, Data!One
      <4> QED BY <2>2, <4>1
    <3> QED BY <3>1, <3>2, <3>3
  <2>5. handled' \in Nat
    <3>1. handled' \in {handled, handled + 1}
      BY DEF Data!Read, Data!Taken, Data!Send, Data!Wake, Data!ReaderFails
    <3> QED BY <2>1, <2>2, <2>4, <3>1
  <2>6. handled'
          = tx' + rx' + drops' + vpn_data_failed' + (Data!One(reader'.pc = "send") + others)
    <3> DEFINE before == Data!One(reader.pc = "send")
               after == Data!One(reader'.pc = "send")
    <3>1. rx' = rx /\ vpn_data_failed' = vpn_data_failed /\ others \in Nat
      BY <1>1, <2>1
    <3>2. handled = tx + rx + drops + vpn_data_failed + (before + others)
      BY <2>2
    <3>3. /\ before \in Nat /\ after \in Nat
          /\ tx' + drops' + after + handled = tx + drops + before + handled'
      BY <2>3, <2>4
    <3>4. /\ tx \in Nat /\ rx \in Nat /\ drops \in Nat /\ vpn_data_failed \in Nat
          /\ tx' \in Nat /\ drops' \in Nat
      BY <2>2, <2>3
    <3>5. PICK t \in Nat, d \in Nat, h \in Nat : t = tx' /\ d = drops' /\ h = handled'
      BY <2>5, <3>4
    <3> HIDE DEF others, before, after
    <3>6. /\ handled \in Nat
          /\ t + d + after + handled = tx + drops + before + h
      BY <3>1, <3>2, <3>3, <3>4, <3>5
    <3>7. h = t + rx + d + vpn_data_failed + (after + others)
      BY <3>1, <3>2, <3>3, <3>4, <3>6
    <3>8. handled' = tx' + rx' + drops' + vpn_data_failed' + (after + others)
      BY <3>1, <3>5, <3>7
    <3> QED BY <3>8 DEF after
  <2>7. Data!InHand' = Data!One(reader'.pc = "send") + others
    BY <1>1, <2>1, <2>4 DEF Data!InHand, Data!One
  <2> QED BY <1>1, <2>2, <2>3, <2>6, <2>7 DEF DataCountersKept, Data!PacketsCounted
<1> QED BY <1>2, <1>4, <1>5, <1>6 DEF DataIInv

\* A packet from a link is taken, delivered, refused or dropped.
LEMMA DataReceiverStep ==
  ASSUME DataIInv, NEW t \in Data!Task,
         \/ \E hint \in DataPeer \cup {None} :
              \E src \in Data!Ip : Data!Receive(t, hint, src)
         \/ Data!Deliver(t) \/ Data!Refuse(t)
  PROVE  DataIInv'
<1>1. UNCHANGED <<Data!plane, reader, tx, peer_tx>>
  BY DEF Data!Receive, Data!Deliver, Data!Refuse
<1>2. DataTableKept'
  BY <1>1, DataPlaneIdle DEF DataIInv
<1>3. /\ receiver' = [receiver EXCEPT ![t] = receiver'[t]]
      /\ receiver'[t].pc \in {"idle", "tun"}
      /\ \/ /\ receiver[t].pc = "idle" /\ receiver'[t].pc = "idle"
            /\ drops' = drops + 1
            /\ handled' = handled + 1
            /\ rx' = rx
            /\ vpn_data_failed' = vpn_data_failed
         \/ /\ receiver[t].pc = "idle" /\ receiver'[t].pc = "tun"
            /\ drops' = drops
            /\ handled' = handled + 1
            /\ rx' = rx
            /\ vpn_data_failed' = vpn_data_failed
         \/ /\ receiver[t].pc = "tun" /\ receiver'[t].pc = "idle"
            /\ drops' = drops /\ handled' = handled
            /\ \/ rx' = rx + 1 /\ vpn_data_failed' = vpn_data_failed
               \/ rx' = rx /\ vpn_data_failed' = vpn_data_failed + 1
  <2>1. CASE \E hint \in DataPeer \cup {None} :
               \E src \in Data!Ip : Data!Receive(t, hint, src)
    <3>1. PICK hint \in DataPeer \cup {None},
    src \in Data!Ip : Data!Receive(t, hint, src)
      BY <2>1
    <3> DEFINE x == [pc |-> "tun", peer |-> Data!Credited(hint, src),
                     record |-> IF Data!Credited(hint, src) = None THEN 0
                                ELSE generation[Data!Credited(hint, src)]]
    <3>2. /\ receiver[t].pc = "idle" /\ handled' = handled + 1
          /\ rx' = rx /\ vpn_data_failed' = vpn_data_failed
          /\ \/ drops' = drops + 1 /\ receiver' = receiver
             \/ drops' = drops /\ receiver' = [receiver EXCEPT ![t] = x]
      BY <3>1 DEF Data!Receive, Data!Taken, Data!Idle
    <3>3. x.pc = "tun"
      OBVIOUS
    <3> HIDE DEF x
    <3> QED BY <3>2, <3>3 DEF DataIInv, DataHandsKept
  <2>2. CASE Data!Deliver(t) \/ Data!Refuse(t)
    BY <2>2 DEF Data!Deliver, Data!Refuse, Data!Idle, DataIInv, DataHandsKept
  <2> QED BY <2>1, <2>2
<1>4. DataHandsKept'
  BY <1>1, <1>3 DEF DataIInv, DataHandsKept
<1>5. DataPeersKept'
  <2>1. peer_rx' = peer_rx \/ \E p : peer_rx' = Data!Count(peer_rx, p)
    BY DEF Data!Receive, Data!Deliver, Data!Refuse
  <2>2. /\ peer_rx' = [p \in DataPeer |-> peer_rx'[p]]
        /\ \A p \in DataPeer \ registry : peer_rx'[p] = 0
    BY <2>1 DEF Data!Count, DataIInv, DataPeersKept
  <2> QED BY <1>1, <2>2 DEF Data!plane, DataIInv, DataPeersKept
<1>6. DataCountersKept'
  <2> DEFINE held(f, x) == IF f[x].pc = "tun" THEN 1 ELSE 0
             other == IF t = "in" THEN "out" ELSE "in"
             sends == Data!One(reader.pc = "send")
  <2>1. /\ Data!InHand = sends + (held(receiver, t) + held(receiver, other))
        /\ Data!InHand' = sends + (held(receiver', t) + held(receiver', other))
        /\ sends \in Nat
    BY <1>1 DEF Data!InHand, Data!One, Data!Task
  <2>2. other \in Data!Task /\ other # t
    BY DEF Data!Task
  <2>3. held(receiver', other) = held(receiver, other)
    BY <1>3, <2>2 DEF DataIInv, DataHandsKept
  <2>4. /\ held(receiver, t) \in Nat /\ held(receiver, other) \in Nat
        /\ held(receiver', t) \in Nat
    OBVIOUS
  <2>5. /\ handled = tx + rx + drops + vpn_data_failed + Data!InHand
        /\ tx \in Nat /\ rx \in Nat /\ drops \in Nat /\ vpn_data_failed \in Nat
    BY DEF DataIInv, DataCountersKept, Data!PacketsCounted
  <2>6. \/ /\ held(receiver, t) = 0 /\ held(receiver', t) = 0
           /\ drops' = drops + 1
           /\ handled' = handled + 1
           /\ rx' = rx
           /\ vpn_data_failed' = vpn_data_failed
        \/ /\ held(receiver, t) = 0 /\ held(receiver', t) = 1
           /\ drops' = drops
           /\ handled' = handled + 1
           /\ rx' = rx
           /\ vpn_data_failed' = vpn_data_failed
        \/ /\ held(receiver, t) = 1 /\ held(receiver', t) = 0
           /\ drops' = drops /\ handled' = handled
           /\ \/ rx' = rx + 1 /\ vpn_data_failed' = vpn_data_failed
              \/ rx' = rx /\ vpn_data_failed' = vpn_data_failed + 1
    BY <1>3
  <2> DEFINE a == held(receiver, t)
             b == held(receiver', t)
             c == held(receiver, other)
  <2>7. handled' = tx + rx' + drops' + vpn_data_failed' + (sends + (b + c))
    <3>1. a \in Nat /\ b \in Nat /\ c \in Nat /\ sends \in Nat
      BY <2>1, <2>4
    <3>2. handled = tx + rx + drops + vpn_data_failed + (sends + (a + c))
      BY <2>1, <2>5
    <3>3. \/ /\ a = 0 /\ b = 0
             /\ drops' = drops + 1
             /\ handled' = handled + 1
             /\ rx' = rx
             /\ vpn_data_failed' = vpn_data_failed
          \/ /\ a = 0 /\ b = 1
             /\ drops' = drops
             /\ handled' = handled + 1
             /\ rx' = rx
             /\ vpn_data_failed' = vpn_data_failed
          \/ /\ a = 1 /\ b = 0
             /\ drops' = drops /\ handled' = handled
             /\ \/ rx' = rx + 1 /\ vpn_data_failed' = vpn_data_failed
                \/ rx' = rx /\ vpn_data_failed' = vpn_data_failed + 1
      BY <2>6
    <3> HIDE DEF a, b, c, sends, held
    <3> QED BY <2>5, <3>1, <3>2, <3>3
  <2>8. /\ tx' = tx /\ rx' \in Nat /\ drops' \in Nat /\ vpn_data_failed' \in Nat
    BY <1>1, <2>5, <2>6
  <2>9. Data!InHand' = sends + (b + c)
    BY <2>1, <2>3
  <2>10. handled' = tx' + rx' + drops' + vpn_data_failed' + Data!InHand'
    <3>1. sends + (b + c) = Data!InHand' /\ tx' = tx
      BY <2>8, <2>9
    <3> HIDE DEF a, b, c, sends, held
    <3> QED BY <2>7, <3>1
  <2> QED BY <2>5, <2>8, <2>10 DEF DataCountersKept, Data!PacketsCounted
<1> QED BY <1>2, <1>4, <1>5, <1>6 DEF DataIInv

LEMMA DataInvariantStep == DataIInv /\ [Data!Next]_(Data!vars) => DataIInv'
<1>1. ASSUME DataIInv, UNCHANGED Data!vars PROVE DataIInv'
  <2>1. DataTableKept'
    BY <1>1, DataPlaneIdle DEF Data!vars, Data!plane, DataIInv
  <2> QED
    BY <1>1, <2>1
       DEF Data!vars, DataIInv, DataPeersKept, DataHandsKept, DataCountersKept,
           Data!PacketsCounted, Data!InHand
<1> QED
  BY <1>1, DataRebuildStep, DataPeerStep, DataLinkStep, DataReaderStep, DataReceiverStep
     DEF Data!Next

-----------------------------------------------------------------------------
(* The counters of the peers.  That they add up is inductive with the reason a *)
(* packet sent counts for a peer there is: as long as none was forgotten, the  *)
(* router and the reader know only peers that are registered.                  *)

DataSumsKept ==
  /\ peer_tx \in [DataPeer -> Nat] /\ peer_rx \in [DataPeer -> Nat]
  /\ Data!Sum(peer_tx) <= tx /\ Data!Sum(peer_rx) <= rx
  /\ ~forgotten => /\ Data!Sum(peer_tx) = tx
                   /\ vpn_data_table.tunnels \subseteq registry
                   /\ vpn_data_table.subnets \in Seq(Subnets \X registry)
                   /\ reader.pc = "send" => reader.peer \in registry

LEMMA DataSumsNat ==
  ASSUME NEW c \in [DataPeer -> Nat] PROVE Data!Sum(c) \in Nat
<1>1. CASE DataPeer = {}
  BY <1>1, DataSumOfZeros
<1>2. CASE DataPeer # {}
  BY <1>2, DataSumChanges
<1> QED BY <1>1, <1>2

LEMMA DataCountSums ==
  ASSUME NEW c \in [DataPeer -> Nat], NEW p
  PROVE  /\ Data!Count(c, p) \in [DataPeer -> Nat]
         /\ Data!Sum(Data!Count(c, p)) \in {Data!Sum(c), Data!Sum(c) + 1}
         /\ p \in registry \cap DataPeer => Data!Sum(Data!Count(c, p)) = Data!Sum(c) + 1
<1>1. CASE p \in registry \cap DataPeer
  <2>1. Data!Count(c, p) = [c EXCEPT ![p] = c[p] + 1]
    BY <1>1 DEF Data!Count
  <2>2. c[p] \in Nat /\ c[p] + 1 \in Nat
    BY <1>1
  <2>3. /\ Data!Sum(c) \in Nat /\ Data!Sum([c EXCEPT ![p] = c[p] + 1]) \in Nat
        /\ Data!Sum([c EXCEPT ![p] = c[p] + 1]) + c[p] = Data!Sum(c) + (c[p] + 1)
    BY <1>1, <2>2, DataSumChanges
  <2>4. ASSUME NEW a \in Nat, NEW b \in Nat, NEW n \in Nat, b + n = a + (n + 1)
        PROVE  b = a + 1
    BY <2>4
  <2>5. Data!Sum(Data!Count(c, p)) = Data!Sum(c) + 1
    BY <2>1, <2>2, <2>3, <2>4
  <2>6. Data!Count(c, p) \in [DataPeer -> Nat]
    BY <2>1, <2>2
  <2> QED BY <2>5, <2>6
<1>2. CASE p \notin registry \cap DataPeer
  <2>1. Data!Count(c, p) = c
    BY <1>2 DEF Data!Count
  <2> QED BY <1>2, <2>1
<1> QED BY <1>1, <1>2

LEMMA DataSumsInit == Data!Init => DataSumsKept
<1> SUFFICES ASSUME Data!Init PROVE DataSumsKept
  OBVIOUS
<1>1. /\ peer_tx = [p \in DataPeer |-> 0] /\ peer_rx = [p \in DataPeer |-> 0]
      /\ tx = 0 /\ rx = 0
      /\ vpn_data_table.tunnels = {} /\ vpn_data_table.subnets = <<>>
      /\ reader.pc = "idle"
  BY DEF Data!Init, Data!Idle
<1> QED BY <1>1, DataSumOfZeros DEF DataSumsKept

LEMMA DataSumsRebuild == ASSUME DataIInv, DataSumsKept, Data!Rebuild PROVE DataSumsKept'
<1>1. /\ vpn_data_table' \in Data!Built
      /\ UNCHANGED <<registry, forgotten, reader, tx, rx, peer_tx, peer_rx>>
  BY DEF Data!Rebuild
<1>2. PICK s \in Data!Rows : vpn_data_table' = [tunnels |-> registry, subnets |-> s]
  BY <1>1 DEF Data!Built
<1>3. s \in Seq(Subnets \X registry)
  <2>1. s \in [1..Cardinality(Data!Owned) -> Data!Owned]
    BY DataCardinality DEF Data!Rows
  <2>2. Data!Owned \subseteq Subnets \X registry
    BY DEF Data!Owned
  <2>3. Cardinality(Data!Owned) \in Nat
    BY DataOwnedFinite DEF DataIInv
  <2> QED BY <2>1, <2>2, <2>3
<1> QED BY <1>1, <1>2, <1>3 DEF DataSumsKept

LEMMA DataSumsPeerStep ==
  ASSUME DataIInv, DataSumsKept, NEW p \in DataPeer,
         \/ \E rs \in SUBSET Subnets : Data!Announce(p, rs) \/ Data!Hello(p, rs)
         \/ Data!Expire(p) \/ Data!LinkChanges(p) \/ Data!LinkEvent(p)
  PROVE  DataSumsKept'
<1>1. /\ UNCHANGED <<vpn_data_table, forgotten, reader, tx, rx, peer_tx, peer_rx>>
      /\ registry \subseteq registry'
  BY DEF Data!Announce, Data!Hello, Data!Expire, Data!LinkChanges, Data!LinkEvent,
         Data!Change
<1>2. Seq(Subnets \X registry) \subseteq Seq(Subnets \X registry')
  BY <1>1
<1> QED BY <1>1, <1>2 DEF DataSumsKept

LEMMA DataSumsForget ==
  ASSUME DataIInv, DataSumsKept, NEW p \in DataPeer, Data!Forget(p)
  PROVE  DataSumsKept'
<1>1. /\ peer_tx' = [peer_tx EXCEPT ![p] = 0] /\ peer_rx' = [peer_rx EXCEPT ![p] = 0]
      /\ forgotten' = TRUE /\ UNCHANGED <<tx, rx>>
  BY DEF Data!Forget, Data!Change
<1>2. peer_tx \in [DataPeer -> Nat] /\ peer_rx \in [DataPeer -> Nat]
  BY DEF DataSumsKept
<1>3. /\ Data!Sum(peer_tx) \in Nat /\ Data!Sum(peer_tx') \in Nat
      /\ Data!Sum(peer_tx') + peer_tx[p] = Data!Sum(peer_tx) + 0
      /\ Data!Sum(peer_rx) \in Nat /\ Data!Sum(peer_rx') \in Nat
      /\ Data!Sum(peer_rx') + peer_rx[p] = Data!Sum(peer_rx) + 0
  BY <1>1, <1>2, DataSumChanges
<1>4. peer_tx[p] \in Nat /\ peer_rx[p] \in Nat /\ tx \in Nat /\ rx \in Nat
  BY <1>2 DEF DataIInv, DataCountersKept
<1>5. Data!Sum(peer_tx') <= tx' /\ Data!Sum(peer_rx') <= rx'
  BY <1>1, <1>3, <1>4 DEF DataSumsKept
<1> QED BY <1>1, <1>2, <1>5 DEF DataSumsKept

LEMMA DataSumsReaderStep ==
  ASSUME DataIInv, DataSumsKept,
         (\E ip \in Data!Ip : Data!Read(ip)) \/ Data!Send \/ Data!Wake \/ Data!ReaderFails
  PROVE  DataSumsKept'
<1>1. UNCHANGED <<registry, vpn_data_table, forgotten, rx, peer_rx>>
  BY DEF Data!Read, Data!Send, Data!Wake, Data!ReaderFails, Data!plane
<1>2. CASE \E ip \in Data!Ip : Data!Read(ip)
  <2>1. PICK ip \in Data!Ip : Data!Read(ip)
    BY <1>2
  <2>2. /\ UNCHANGED <<tx, peer_tx>>
        /\ \/ reader' \in {Data!Idle, [pc |-> "backoff"]}
           \/ Data!Resolve(ip) # None /\ reader' = [pc |-> "send", peer |-> Data!Resolve(ip)]
    BY <2>1 DEF Data!Read
  <2>3. ~forgotten => Data!Resolve(ip) \in registry \cup {None}
    BY DataResolvesToPeer DEF DataSumsKept
  <2>4. ~forgotten /\ reader'.pc = "send" => reader'.peer \in registry
    BY <2>2, <2>3 DEF Data!Idle
  <2> QED BY <1>1, <2>2, <2>4 DEF DataSumsKept
<1>3. CASE Data!Send /\ linked[reader.peer]
  <2>1. /\ tx' = tx + 1 /\ peer_tx' = Data!Count(peer_tx, reader.peer)
        /\ reader'.pc = "idle" /\ reader.pc = "send"
    BY <1>3 DEF Data!Send, Data!Idle
  <2>2. peer_tx \in [DataPeer -> Nat] /\ tx \in Nat /\ registry \subseteq DataPeer
    BY DEF DataSumsKept, DataIInv, DataPeersKept, DataCountersKept
  <2>3. /\ peer_tx' \in [DataPeer -> Nat]
        /\ Data!Sum(peer_tx') \in {Data!Sum(peer_tx), Data!Sum(peer_tx) + 1}
        /\ ~forgotten => Data!Sum(peer_tx') = Data!Sum(peer_tx) + 1
    BY <2>1, <2>2, DataCountSums DEF DataSumsKept
  <2>4. Data!Sum(peer_tx) \in Nat
    BY <2>2, DataSumsNat
  <2>5. /\ Data!Sum(peer_tx') <= tx'
        /\ ~forgotten => Data!Sum(peer_tx') = tx'
    BY <2>1, <2>2, <2>3, <2>4 DEF DataSumsKept
  <2> QED BY <1>1, <2>1, <2>3, <2>5 DEF DataSumsKept
<1>4. CASE (Data!Send /\ ~linked[reader.peer]) \/ Data!Wake \/ Data!ReaderFails
  <2>1. UNCHANGED <<tx, peer_tx>> /\ reader'.pc # "send"
    BY <1>4 DEF Data!Send, Data!Wake, Data!ReaderFails, Data!Idle
  <2> QED BY <1>1, <2>1 DEF DataSumsKept
<1> QED BY <1>2, <1>3, <1>4

LEMMA DataSumsReceiverStep ==
  ASSUME DataIInv, DataSumsKept, NEW t \in Data!Task,
         \/ \E hint \in DataPeer \cup {None} :
              \E src \in Data!Ip : Data!Receive(t, hint, src)
         \/ Data!Deliver(t) \/ Data!Refuse(t)
  PROVE  DataSumsKept'
<1>1. UNCHANGED <<registry, vpn_data_table, forgotten, reader, tx, peer_tx>>
  BY DEF Data!Receive, Data!Deliver, Data!Refuse, Data!plane
<1>2. \/ UNCHANGED <<rx, peer_rx>>
      \/ /\ rx' = rx + 1
         /\ peer_rx' = peer_rx \/ \E p : peer_rx' = Data!Count(peer_rx, p)
  BY DEF Data!Receive, Data!Deliver, Data!Refuse
<1>3. peer_rx \in [DataPeer -> Nat] /\ rx \in Nat
  BY DEF DataSumsKept, DataIInv, DataCountersKept
<1>4. Data!Sum(peer_rx) \in Nat /\ Data!Sum(peer_rx) <= rx
  BY <1>3, DataSumsNat DEF DataSumsKept
<1>5. peer_rx' \in [DataPeer -> Nat] /\ Data!Sum(peer_rx') <= rx'
  <2>1. CASE peer_rx' = peer_rx
    BY <1>2, <1>3, <1>4, <2>1
  <2>2. CASE rx' = rx + 1 /\ \E p : peer_rx' = Data!Count(peer_rx, p)
    <3>1. /\ peer_rx' \in [DataPeer -> Nat]
          /\ Data!Sum(peer_rx') \in {Data!Sum(peer_rx), Data!Sum(peer_rx) + 1}
      BY <1>3, <2>2, DataCountSums
    <3> QED BY <1>3, <1>4, <2>2, <3>1
  <2> QED BY <1>2, <2>1, <2>2
<1> QED BY <1>1, <1>5 DEF DataSumsKept

LEMMA DataSumsStep ==
  DataIInv /\ DataSumsKept /\ [Data!Next]_(Data!vars) => DataSumsKept'
<1>1. ASSUME DataSumsKept, UNCHANGED Data!vars PROVE DataSumsKept'
  BY <1>1 DEF Data!vars, DataSumsKept
<1> QED
  BY <1>1, DataSumsRebuild, DataSumsPeerStep, DataSumsForget, DataSumsReaderStep,
     DataSumsReceiverStep
     DEF Data!Next

LEMMA DataSumsAccount == DataIInv /\ DataSumsKept => Data!PacketsAccounted
<1> SUFFICES ASSUME DataIInv, DataSumsKept PROVE Data!PacketsAccounted
  OBVIOUS
<1>1. Data!PacketsCounted
  BY DEF DataIInv, DataCountersKept
<1>2. Data!Sum(peer_rx) <= rx
  BY DEF DataSumsKept
<1>3. IF forgotten THEN Data!Sum(peer_tx) <= tx ELSE Data!Sum(peer_tx) = tx
  BY DEF DataSumsKept
<1> QED BY <1>1, <1>2, <1>3 DEF Data!PacketsAccounted

LEMMA DataKept ==
  DataIInv => Data!TypeOK /\ Data!LongestMatchWins /\ Data!PacketsCounted
<1> SUFFICES ASSUME DataIInv
             PROVE  Data!TypeOK /\ Data!LongestMatchWins /\ Data!PacketsCounted
  OBVIOUS
<1>1. Data!TypeOK
  <2>1. \A i \in 1..Len(vpn_data_table.subnets) :
          vpn_data_table.subnets[i] \in Subnets \X DataPeer
    BY DEF DataIInv, DataTableKept
  <2> QED BY <2>1 DEF DataIInv, DataPeersKept, DataTableKept, DataHandsKept, Data!TypeOK
<1>2. Data!LongestMatchWins
  <2> SUFFICES ASSUME vpn_data_current, NEW ip \in Data!Ip
               PROVE  LET direct == {p \in registry : TunnelIp[p] = ip}
                      IN  IF direct # {} THEN Data!Resolve(ip) \in direct
                          ELSE IF Data!Holders(ip) = {} THEN Data!Resolve(ip) = None
                          ELSE \E x \in Data!Holders(ip) :
                                 /\ Data!Resolve(ip) = x[2]
                                 /\ \A y \in Data!Holders(ip) : y[1][2] <= x[1][2]
    BY DEF Data!LongestMatchWins
  <2> DEFINE direct == {p \in registry : TunnelIp[p] = ip}
  <2>1. CASE direct # {}
    <3>1. vpn_data_table.tunnels = registry
      BY DEF DataIInv, DataTableKept, Data!Built
    <3>2. (CHOOSE p \in direct : TRUE) \in direct
      BY <2>1
    <3>3. Data!Resolve(ip) = CHOOSE p \in direct : TRUE
      BY <2>1, <3>1 DEF Data!Resolve
    <3> QED BY <2>1, <3>2, <3>3
  <2>2. CASE direct = {}
    BY <2>2, DataFirstIsLongest DEF DataIInv
  <2> QED BY <2>1, <2>2
<1>3. Data!PacketsCounted
  BY DEF DataIInv, DataCountersKept
<1> QED BY <1>1, <1>2, <1>3

-----------------------------------------------------------------------------
(* The CoT positions (cot.rs).  That a missing position is older than all     *)
(* kept ones is inductive only with the reason: the table has been full       *)
(* since, for pruning cannot take what is newer than a position alive.        *)

\* FiniteSets as the component sees it.
LEMMA CotCardinality == \A S : Cot!Cardinality(S) = Cardinality(S)
  BY DEF Cot!Cardinality, Cardinality

\* A table within its size.
CotTable(rs) ==
  /\ DOMAIN rs \subseteq CotKey /\ \A k \in DOMAIN rs : rs[k] \in Cot!Time
  /\ IsFiniteSet(DOMAIN rs) /\ Cardinality(DOMAIN rs) <= MaxRecords

\* No position is later than the clock.
CotPast ==
  /\ \A k \in CotKey : latest[k] # None => latest[k] <= clock
  /\ \A t \in CotTask : task[t] # None => task[t].time <= clock

\* The tasks hold positions of different keys, each later than those before.
CotInOrder ==
  /\ \A t, u \in CotTask :
       task[t] # None /\ task[u] # None /\ task[t].key = task[u].key => t = u
  /\ \A t \in CotTask :
       task[t] # None /\ latest[task[t].key] # None =>
         latest[task[t].key] <= task[t].time

\* A table of latest positions that was full for each one it misses.
CotLatestKept(rs) ==
  /\ \A k \in DOMAIN rs : rs[k] = latest[k]
  /\ \A k \in CotKey \ DOMAIN rs :
       latest[k] # None /\ Cot!Alive(latest[k]) =>
         /\ Cardinality(DOMAIN rs) = MaxRecords
         /\ \A l \in DOMAIN rs : rs[l] >= latest[k]

CotIInv ==
  Cot!TypeOK /\ CotTable(records) /\ CotPast /\ (~cot_crossed => CotInOrder /\ CotLatestKept(records))

-----------------------------------------------------------------------------
(* The table *)

\* Pruning keeps a table a table.
LEMMA CotPrunedTable ==
  ASSUME NEW rs, CotTable(rs) PROVE CotTable(Cot!Pruned(rs))
<1>1. /\ DOMAIN Cot!Pruned(rs) \subseteq DOMAIN rs
      /\ \A k \in DOMAIN Cot!Pruned(rs) : Cot!Pruned(rs)[k] = rs[k]
  BY DEF Cot!Pruned
<1>2. /\ IsFiniteSet(DOMAIN Cot!Pruned(rs))
      /\ Cardinality(DOMAIN Cot!Pruned(rs)) <= Cardinality(DOMAIN rs)
  BY <1>1, FS_Subset DEF CotTable
<1>3. Cardinality(DOMAIN rs) \in Nat /\ Cardinality(DOMAIN Cot!Pruned(rs)) \in Nat
  BY <1>2, FS_CardinalityType DEF CotTable
<1> QED
  BY <1>1, <1>2, <1>3, CotAssumption DEF CotTable

\* Pruning drops only what is not alive, hence nothing while an older position
\* that is alive is missing.
LEMMA CotPrunedKept ==
  ASSUME Cot!TypeOK, NEW rs, CotTable(rs), CotLatestKept(rs)
  PROVE  CotLatestKept(Cot!Pruned(rs))
<1>1. /\ DOMAIN Cot!Pruned(rs) = {k \in DOMAIN rs : Cot!Alive(rs[k])}
      /\ \A k \in DOMAIN Cot!Pruned(rs) : Cot!Pruned(rs)[k] = rs[k]
  BY DEF Cot!Pruned
<1>2. \A k \in DOMAIN Cot!Pruned(rs) : Cot!Pruned(rs)[k] = latest[k]
  BY <1>1 DEF CotLatestKept
<1>3. ASSUME NEW k \in CotKey \ DOMAIN Cot!Pruned(rs), latest[k] # None,
             Cot!Alive(latest[k])
      PROVE  /\ Cardinality(DOMAIN Cot!Pruned(rs)) = MaxRecords
             /\ \A l \in DOMAIN Cot!Pruned(rs) : Cot!Pruned(rs)[l] >= latest[k]
  <2>1. k \notin DOMAIN rs
    BY <1>1, <1>3 DEF CotLatestKept
  <2>2. /\ Cardinality(DOMAIN rs) = MaxRecords
        /\ \A l \in DOMAIN rs : rs[l] >= latest[k]
    BY <1>3, <2>1 DEF CotLatestKept
  <2>3. ASSUME NEW l \in DOMAIN rs PROVE Cot!Alive(rs[l])
    BY <1>3, <2>2, <2>3, CotAssumption, CotCardinality
       DEF Cot!Alive, Cot!TypeOK, CotTable, Cot!Time
  <2>4. DOMAIN Cot!Pruned(rs) = DOMAIN rs
    BY <1>1, <2>3
  <2> QED
    BY <1>1, <2>2, <2>4
<1> QED
  BY <1>2, <1>3 DEF CotLatestKept

\* The table with a record put in, before it is cut to its size.
CotWith(rs, r) ==
  [k \in DOMAIN rs \cup {r.key} |-> IF k = r.key THEN r.time ELSE rs[k]]

\* Putting a record in makes the table larger by one at most.
LEMMA CotWithSize ==
  ASSUME NEW rs, CotTable(rs), NEW r \in [key : CotKey, time : Cot!Time]
  PROVE  LET n == Cardinality(DOMAIN CotWith(rs, r))
         IN  /\ IsFiniteSet(DOMAIN CotWith(rs, r)) /\ n \in Nat
             /\ r.key \in DOMAIN rs => DOMAIN CotWith(rs, r) = DOMAIN rs
             /\ r.key \notin DOMAIN rs => n = Cardinality(DOMAIN rs) + 1
<1>1. DOMAIN CotWith(rs, r) = DOMAIN rs \cup {r.key}
  BY DEF CotWith
<1>2. IsFiniteSet(DOMAIN rs \cup {r.key})
  BY FS_AddElement DEF CotTable
<1>3. r.key \notin DOMAIN rs =>
        Cardinality(DOMAIN rs \cup {r.key}) = Cardinality(DOMAIN rs) + 1
  BY FS_AddElement DEF CotTable
<1>4. Cardinality(DOMAIN rs \cup {r.key}) \in Nat
  BY <1>2, FS_CardinalityType
<1> QED
  BY <1>1, <1>2, <1>3, <1>4

\* A table that is too large by one is a table again without one record.
LEMMA CotCutTable ==
  ASSUME NEW rs, CotTable(rs), NEW r \in [key : CotKey, time : Cot!Time],
         ~(Cardinality(DOMAIN CotWith(rs, r)) <= MaxRecords),
         NEW out \in DOMAIN CotWith(rs, r)
  PROVE  /\ r.key \notin DOMAIN rs
         /\ Cardinality(DOMAIN rs) = MaxRecords
         /\ IsFiniteSet(DOMAIN CotWith(rs, r) \ {out})
         /\ Cardinality(DOMAIN CotWith(rs, r) \ {out}) = MaxRecords
<1>1. Cardinality(DOMAIN rs) \in Nat
  BY FS_CardinalityType DEF CotTable
<1>2. r.key \notin DOMAIN rs
  BY CotWithSize DEF CotTable
<1>3. /\ Cardinality(DOMAIN rs) = MaxRecords
      /\ Cardinality(DOMAIN CotWith(rs, r)) = MaxRecords + 1
  BY <1>1, <1>2, CotWithSize, CotAssumption DEF CotTable
<1>4. IsFiniteSet(DOMAIN CotWith(rs, r))
  BY CotWithSize
<1>5. /\ IsFiniteSet(DOMAIN CotWith(rs, r) \ {out})
      /\ Cardinality(DOMAIN CotWith(rs, r) \ {out}) = Cardinality(DOMAIN CotWith(rs, r)) - 1
  BY <1>4, FS_RemoveElement
<1> QED
  BY <1>2, <1>3, <1>5, CotAssumption

\* What Insert does to the table.
LEMMA CotInserted ==
  ASSUME NEW t \in CotTask, Cot!Insert(t)
  PROVE  LET new == CotWith(Cot!Pruned(records), task[t])
         IN  /\ task[t] # None
             /\ \/ /\ Cardinality(DOMAIN new) <= MaxRecords
                   /\ records' = new
                \/ /\ ~(Cardinality(DOMAIN new) <= MaxRecords)
                   /\ \E out \in DOMAIN new :
                        /\ \A l \in DOMAIN new : new[out] <= new[l]
                        /\ records' = [k \in DOMAIN new \ {out} |-> new[k]]
  BY CotCardinality DEF Cot!Insert, CotWith, Cot!Oldest

-----------------------------------------------------------------------------
(* Inserting a record *)

\* The table stays a table.
LEMMA CotInsertTable ==
  ASSUME Cot!TypeOK, CotTable(records), NEW t \in CotTask, Cot!Insert(t)
  PROVE  CotTable(records)'
<1> DEFINE rs == Cot!Pruned(records)
           r == task[t]
           new == CotWith(rs, r)
<1>1. r \in [key : CotKey, time : Cot!Time]
  BY CotInserted, CotCardinality DEF Cot!TypeOK
<1>2. CotTable(rs)
  BY CotPrunedTable
<1>3. /\ DOMAIN new = DOMAIN rs \cup {r.key}
      /\ DOMAIN new \subseteq CotKey
      /\ \A k \in DOMAIN new : new[k] \in Cot!Time
  BY <1>1, <1>2 DEF CotWith, CotTable
<1>4. CASE Cardinality(DOMAIN new) <= MaxRecords /\ records' = new
  <2>1. IsFiniteSet(DOMAIN new)
    BY <1>1, <1>2, CotWithSize
  <2> QED
    BY <1>3, <1>4, <2>1 DEF CotTable
<1>5. ASSUME ~(Cardinality(DOMAIN new) <= MaxRecords), NEW out \in DOMAIN new,
             records' = [k \in DOMAIN new \ {out} |-> new[k]]
      PROVE  CotTable(records)'
  <2>1. /\ IsFiniteSet(DOMAIN new \ {out})
        /\ Cardinality(DOMAIN new \ {out}) = MaxRecords
    BY <1>1, <1>2, <1>5, CotCutTable
  <2>2. /\ DOMAIN records' = DOMAIN new \ {out}
        /\ \A k \in DOMAIN records' : records'[k] = new[k]
    BY <1>5
  <2>3. /\ DOMAIN records' \subseteq CotKey
        /\ \A k \in DOMAIN records' : records'[k] \in Cot!Time
    BY <1>3, <2>2
  <2>4. IsFiniteSet(DOMAIN records') /\ Cardinality(DOMAIN records') <= MaxRecords
    BY <2>1, <2>2, CotAssumption
  <2> QED
    BY <2>3, <2>4 DEF CotTable
<1> QED
  BY <1>4, <1>5, CotInserted

\* A table of latest positions stays one, as the record inserted is later than
\* those of its key before.
LEMMA CotInsertKept ==
  ASSUME Cot!TypeOK, CotTable(records), CotInOrder, CotLatestKept(records),
         NEW t \in CotTask, Cot!Insert(t)
  PROVE  CotLatestKept(records)'
<1> DEFINE rs == Cot!Pruned(records)
           r == task[t]
           new == CotWith(rs, r)
<1>1. r \in [key : CotKey, time : Cot!Time] /\ r # None
  BY CotInserted, CotCardinality DEF Cot!TypeOK
<1>2. CotTable(rs) /\ CotLatestKept(rs)
  BY CotPrunedTable, CotPrunedKept
<1>3. /\ DOMAIN new = DOMAIN rs \cup {r.key}
      /\ new[r.key] = r.time
      /\ \A k \in DOMAIN rs \ {r.key} : new[k] = rs[k]
  BY DEF CotWith
<1>4. clock' = clock /\ latest' = [latest EXCEPT ![r.key] = r.time]
  BY <1>1, CotCardinality DEF Cot!Insert, CotInOrder, Cot!TypeOK
<1>5. latest'[r.key] = r.time /\ \A k \in CotKey \ {r.key} : latest'[k] = latest[k]
  BY <1>1, <1>4, CotCardinality DEF Cot!TypeOK
<1>6. \A k \in DOMAIN new : new[k] = latest'[k]
  BY <1>2, <1>3, <1>5 DEF CotLatestKept, CotTable
<1>7. ASSUME NEW k \in CotKey \ DOMAIN new, latest'[k] # None, Cot!Alive(latest[k])'
      PROVE  /\ latest'[k] \in Cot!Time
             /\ Cardinality(DOMAIN rs) = MaxRecords
             /\ \A l \in DOMAIN rs : rs[l] >= latest'[k]
  <2>1. latest'[k] = latest[k] /\ k \notin DOMAIN rs
    BY <1>3, <1>5, <1>7
  <2>2. Cot!Alive(latest[k])
    BY <1>4, <1>7, <2>1 DEF Cot!Alive
  <2> QED
    BY <1>2, <1>7, <2>1, <2>2, CotCardinality DEF CotLatestKept, Cot!TypeOK
<1>8. \A k \in DOMAIN new : new[k] \in Cot!Time
  BY <1>1, <1>2, <1>3 DEF CotTable
<1>9. CASE Cardinality(DOMAIN new) <= MaxRecords /\ records' = new
  <2>1. ASSUME NEW k \in CotKey \ DOMAIN new, latest'[k] # None, Cot!Alive(latest[k])'
        PROVE  /\ Cardinality(DOMAIN new) = MaxRecords
               /\ \A l \in DOMAIN new : new[l] >= latest'[k]
    <3>1. /\ latest'[k] \in Cot!Time
          /\ Cardinality(DOMAIN rs) = MaxRecords
          /\ \A l \in DOMAIN rs : rs[l] >= latest'[k]
      BY <1>7, <2>1
    <3>2. r.key \in DOMAIN rs
      BY <1>1, <1>2, <1>9, <3>1, CotWithSize, CotAssumption
    <3>3. DOMAIN new = DOMAIN rs
      BY <1>3, <3>2
    <3>4. /\ rs[r.key] = latest[r.key]
          /\ latest[r.key] \in Cot!Time
          /\ latest[r.key] <= r.time
      BY <1>1, <1>2, <3>2, CotAssumption DEF CotLatestKept, CotTable, CotInOrder
    <3>5. r.time >= latest'[k]
      BY <1>1, <3>1, <3>2, <3>4 DEF Cot!Time
    <3> QED
      BY <1>3, <3>1, <3>3, <3>5
  <2> QED
    BY <1>6, <1>9, <2>1 DEF CotLatestKept
<1>10. ASSUME ~(Cardinality(DOMAIN new) <= MaxRecords), NEW out \in DOMAIN new,
              \A l \in DOMAIN new : new[out] <= new[l],
              records' = [k \in DOMAIN new \ {out} |-> new[k]]
       PROVE  CotLatestKept(records)'
  <2>1. /\ DOMAIN records' = DOMAIN new \ {out}
        /\ \A k \in DOMAIN records' : records'[k] = new[k]
    BY <1>10
  <2>2. Cardinality(DOMAIN records') = MaxRecords
    BY <1>1, <1>2, <1>10, <2>1, CotCutTable
  <2>3. ASSUME NEW k \in CotKey \ DOMAIN records', latest'[k] # None,
               Cot!Alive(latest[k])',
               NEW l \in DOMAIN records'
        PROVE  records'[l] >= latest'[k]
    <3>1. CASE k = out
      BY <1>6, <1>8, <1>10, <2>1, <3>1 DEF Cot!Time
    <3>2. CASE k # out
      <4>1. /\ latest'[k] \in Cot!Time
            /\ \A m \in DOMAIN rs : rs[m] >= latest'[k]
        BY <1>7, <2>1, <2>3, <3>2
      <4>2. CASE l # r.key
        BY <1>3, <2>1, <4>1, <4>2
      <4>3. CASE l = r.key
        <5>1. out \in DOMAIN rs /\ new[out] = rs[out]
          BY <1>3, <2>1, <4>3
        <5>2. new[out] <= new[l] /\ new[out] >= latest'[k]
          BY <1>10, <2>1, <4>1, <5>1
        <5> QED
          BY <1>8, <1>10, <2>1, <4>1, <5>2 DEF Cot!Time
      <4> QED
        BY <4>2, <4>3
    <3> QED
      BY <3>1, <3>2
  <2> QED
    BY <1>6, <2>1, <2>2, <2>3 DEF CotLatestKept
<1> QED
  BY <1>9, <1>10, CotInserted

-----------------------------------------------------------------------------
(* The steps *)

\* The table keeps its size and its types.
LEMMA CotTableStep ==
  ASSUME Cot!TypeOK, CotTable(records), [Cot!Next]_(Cot!vars) PROVE CotTable(records)'
<1>1. CASE \/ Cot!Tick
           \/ UNCHANGED Cot!vars
           \/ \E t \in CotTask, k \in CotKey : Cot!Stamp(t, k)
  BY <1>1 DEF Cot!Tick, Cot!Stamp, Cot!vars
<1>2. CASE Cot!Count
  BY <1>2, CotPrunedTable DEF Cot!Count
<1>3. ASSUME NEW t \in CotTask, Cot!Insert(t) PROVE CotTable(records)'
  BY <1>3, CotInsertTable
<1> QED
  BY <1>1, <1>2, <1>3 DEF Cot!Next

\* Types are preserved.
LEMMA CotTypeStep ==
  ASSUME Cot!TypeOK, CotTable(records), [Cot!Next]_(Cot!vars) PROVE Cot!TypeOK'
<1>1. CotTable(records)'
  BY CotTableStep
<1>2. CASE Cot!Tick \/ Cot!Count \/ UNCHANGED Cot!vars
  BY <1>1, <1>2, CotAssumption, CotCardinality
     DEF Cot!Tick, Cot!Count, Cot!vars, CotTable, Cot!TypeOK, Cot!Time
<1>3. ASSUME NEW t \in CotTask, NEW k \in CotKey, Cot!Stamp(t, k) PROVE Cot!TypeOK'
  <2>1. [key |-> k, time |-> clock] \in [key : CotKey, time : Cot!Time]
    BY CotCardinality DEF Cot!TypeOK
  <2>2. cot_crossed' \in BOOLEAN
    BY <1>3 DEF Cot!Stamp
  <2> QED
    BY <1>1, <1>3, <2>1, <2>2, CotCardinality DEF Cot!Stamp, CotTable, Cot!TypeOK
<1>4. ASSUME NEW t \in CotTask, Cot!Insert(t) PROVE Cot!TypeOK'
  <2>1. task[t] \in [key : CotKey, time : Cot!Time]
    BY <1>4, CotInserted, CotCardinality DEF Cot!TypeOK
  <2>2. latest' \in [CotKey -> Cot!Time \cup {None}]
    BY <1>4, <2>1, CotCardinality DEF Cot!Insert, Cot!TypeOK
  <2>3. UNCHANGED <<clock, cot_crossed>> /\ task' = [task EXCEPT ![t] = None]
    BY <1>4, CotCardinality DEF Cot!Insert
  <2> QED
    BY <1>1, <2>2, <2>3, CotCardinality DEF CotTable, Cot!TypeOK
<1> QED
  BY <1>2, <1>3, <1>4 DEF Cot!Next

\* No record is stamped later than the clock.
LEMMA CotPastStep ==
  ASSUME Cot!TypeOK, CotPast, [Cot!Next]_(Cot!vars) PROVE CotPast'
<1>1. CASE Cot!Tick
  BY <1>1, CotAssumption, CotCardinality DEF Cot!Tick, CotPast, Cot!TypeOK, Cot!Time
<1>2. CASE Cot!Count \/ UNCHANGED Cot!vars
  BY <1>2 DEF Cot!Count, Cot!vars, CotPast
<1>3. ASSUME NEW t \in CotTask, NEW k \in CotKey, Cot!Stamp(t, k) PROVE CotPast'
  BY <1>3, CotAssumption, CotCardinality DEF Cot!Stamp, CotPast, Cot!TypeOK, Cot!Time
<1>4. ASSUME NEW t \in CotTask, Cot!Insert(t) PROVE CotPast'
  <2>1. task[t] \in [key : CotKey, time : Cot!Time] /\ task[t].time <= clock
    BY <1>4, CotInserted, CotCardinality DEF Cot!TypeOK, CotPast
  <2>2. \A k \in CotKey : latest'[k] = latest[k] \/ latest'[k] = task[t].time
    BY <1>4, <2>1, CotCardinality DEF Cot!Insert, Cot!TypeOK
  <2>3. clock' = clock /\ task' = [task EXCEPT ![t] = None]
    BY <1>4, CotCardinality DEF Cot!Insert
  <2> QED
    BY <2>1, <2>2, <2>3, CotCardinality DEF CotPast, Cot!TypeOK
<1> QED
  BY <1>1, <1>2, <1>3, <1>4 DEF Cot!Next

\* Without crossing, tasks hold records of different keys, in order.
LEMMA CotOrderStep ==
  ASSUME Cot!TypeOK, CotPast, ~cot_crossed => CotInOrder, [Cot!Next]_(Cot!vars),
         ~cot_crossed'
  PROVE  CotInOrder'
<1>1. ~cot_crossed
  BY CotCardinality
     DEF Cot!Next, Cot!Tick, Cot!Count, Cot!Stamp, Cot!Insert, Cot!vars, Cot!TypeOK
<1>2. CASE Cot!Tick \/ Cot!Count \/ UNCHANGED Cot!vars
  BY <1>1, <1>2 DEF Cot!Tick, Cot!Count, Cot!vars, CotInOrder
<1>3. ASSUME NEW t \in CotTask, NEW k \in CotKey, Cot!Stamp(t, k) PROVE CotInOrder'
  <2>1. /\ \A u \in CotTask \ {t} : task'[u] = task[u]
        /\ task'[t] = [key |-> k, time |-> clock] /\ latest' = latest
    BY <1>3, CotCardinality DEF Cot!Stamp, Cot!TypeOK
  <2>2. \A u \in CotTask : task[u] # None => task[u].key # k
    BY <1>3 DEF Cot!Stamp
  <2>3. latest[k] # None => latest[k] <= clock
    BY DEF CotPast
  <2> QED
    BY <1>1, <2>1, <2>2, <2>3 DEF CotInOrder
<1>4. ASSUME NEW t \in CotTask, Cot!Insert(t) PROVE CotInOrder'
  <2>1. task[t] \in [key : CotKey, time : Cot!Time] /\ task[t] # None
    BY <1>4, CotInserted, CotCardinality DEF Cot!TypeOK
  <2>2. \A u \in CotTask \ {t} : task'[u] = task[u]
    BY <1>4, CotCardinality DEF Cot!Insert, Cot!TypeOK
  <2>3. task'[t] = None
    BY <1>4, CotCardinality DEF Cot!Insert, Cot!TypeOK
  <2>4. \A k \in CotKey \ {task[t].key} : latest'[k] = latest[k]
    BY <1>4, CotCardinality DEF Cot!Insert, Cot!TypeOK
  <2>5. \A u \in CotTask \ {t} : task[u] # None =>
          task[u].key \in CotKey /\ task[u].key # task[t].key
    BY <1>1, <2>1, CotCardinality DEF CotInOrder, Cot!TypeOK
  <2> QED
    BY <1>1, <2>2, <2>3, <2>4, <2>5 DEF CotInOrder
<1> QED
  BY <1>2, <1>3, <1>4 DEF Cot!Next

\* Without crossing, the table keeps the latest positions.
LEMMA CotKeptStep ==
  ASSUME Cot!TypeOK, CotTable(records),
         ~cot_crossed => CotInOrder /\ CotLatestKept(records),
         [Cot!Next]_(Cot!vars), ~cot_crossed'
  PROVE  CotLatestKept(records)'
<1>1. ~cot_crossed /\ CotInOrder /\ CotLatestKept(records)
  BY CotCardinality
     DEF Cot!Next, Cot!Tick, Cot!Count, Cot!Stamp, Cot!Insert, Cot!vars, Cot!TypeOK
<1>2. CASE Cot!Tick
  <2>1. /\ latest' = latest /\ records' = records
        /\ \A time \in Cot!Time : Cot!Alive(time)' => Cot!Alive(time)
    BY <1>2, CotAssumption, CotCardinality DEF Cot!Tick, Cot!Alive, Cot!TypeOK, Cot!Time
  <2> QED
    BY <1>1, <2>1, CotCardinality DEF CotLatestKept, Cot!TypeOK
<1>3. CASE Cot!Count
  <2>1. CotLatestKept(Cot!Pruned(records))
    BY <1>1, CotPrunedKept
  <2>2. records' = Cot!Pruned(records) /\ latest' = latest /\ clock' = clock
    BY <1>3 DEF Cot!Count
  <2> QED
    BY <2>1, <2>2 DEF CotLatestKept, Cot!Alive
<1>4. ASSUME NEW t \in CotTask, NEW k \in CotKey, Cot!Stamp(t, k)
      PROVE  CotLatestKept(records)'
  BY <1>1, <1>4 DEF Cot!Stamp, CotLatestKept, Cot!Alive
<1>5. ASSUME NEW t \in CotTask, Cot!Insert(t) PROVE CotLatestKept(records)'
  BY <1>1, <1>5, CotInsertKept
<1>6. CASE UNCHANGED Cot!vars
  BY <1>1, <1>6 DEF Cot!vars, CotLatestKept, Cot!Alive
<1> QED
  BY <1>2, <1>3, <1>4, <1>5, <1>6 DEF Cot!Next

-----------------------------------------------------------------------------
\* The clock starts within its bound.
LEMMA CotZeroIsTime == 0 \in Cot!Time
  BY CotAssumption DEF Cot!Time

\* The invariant holds at the start, when the table is empty.
LEMMA CotInitInvariant == ASSUME Cot!Init PROVE CotIInv
<1>1. DOMAIN records = {} /\ IsFiniteSet({}) /\ Cardinality({}) = 0
  BY FS_EmptySet DEF Cot!Init
<1>2. CotTable(records)
  BY <1>1, CotAssumption DEF CotTable
<1>3. Cot!TypeOK
  <2>1. clock = 0 /\ cot_crossed \in BOOLEAN
    BY DEF Cot!Init
  <2>2. task \in [CotTask -> [key : CotKey, time : Cot!Time] \cup {None}]
    BY DEF Cot!Init
  <2>3. latest \in [CotKey -> Cot!Time \cup {None}]
    BY DEF Cot!Init
  <2> QED
    BY <1>2, <2>1, <2>2, <2>3, CotZeroIsTime, CotCardinality DEF CotTable, Cot!TypeOK
<1>4. \A k \in CotKey : latest[k] = None
  BY DEF Cot!Init
<1>5. \A t \in CotTask : task[t] = None
  BY DEF Cot!Init
<1>6. CotPast /\ CotInOrder /\ CotLatestKept(records)
  BY <1>1, <1>4, <1>5 DEF CotPast, CotInOrder, CotLatestKept
<1> QED
  BY <1>2, <1>3, <1>6 DEF CotIInv

\* The steps preserve it.
LEMMA CotInvariantStep ==
  CotIInv /\ [Cot!Next]_(Cot!vars) => CotIInv'
BY CotTypeStep, CotTableStep, CotPastStep, CotOrderStep, CotKeptStep DEF CotIInv

\* It implies what is checked.
LEMMA CotKept ==
  CotIInv => Cot!TypeOK /\ Cot!LatestAreKept
BY DEF CotIInv, CotLatestKept, Cot!LatestAreKept

-----------------------------------------------------------------------------
(* The composition makes steps of one component at a time, and each of them  *)
(* is a step of that component and a stutter of every other.                 *)

\* The settings.
LEMMA ConfigMoves == [Next]_vars => [Config!Next]_(Config!vars)
<1>1. Next \/ UNCHANGED vars => ConfigStep \/ UNCHANGED ConfigVars
  BY DEF Next, AudioStep, NetworkStep, InstallerStep, PluginsStep, TlsStep,
         TrackerStep, FeedStep, RadioStep, VpnStep, FormStep, DataStep, CotStep, Rest,
         vars
<1>2. UNCHANGED ConfigVars => UNCHANGED Config!vars
  BY DEF ConfigVars, Config!vars
<1> QED BY <1>1, <1>2 DEF ConfigStep

LEMMA ConfigRuns == Spec => []ConfigIInv
<1>1. Init => ConfigIInv
  BY ConfigInitInvariant DEF Init
<1>2. ConfigIInv /\ [Next]_vars => ConfigIInv'
  BY ConfigInvariantStep, ConfigMoves
<1> QED BY <1>1, <1>2, PTL DEF Spec

\* The audio control.
LEMMA AudioMoves == [Next]_vars => [Audio!Next]_(Audio!vars)
<1>1. Next \/ UNCHANGED vars => AudioStep \/ UNCHANGED AudioVars
  BY DEF Next, ConfigStep, NetworkStep, InstallerStep, PluginsStep, TlsStep,
         TrackerStep, FeedStep, RadioStep, VpnStep, FormStep, DataStep, CotStep, Rest,
         vars
<1>2. UNCHANGED AudioVars => UNCHANGED Audio!vars
  BY DEF AudioVars, Audio!vars
<1> QED BY <1>1, <1>2 DEF AudioStep

LEMMA AudioRuns == Spec => []AudioIInv
<1>1. Init => AudioIInv
  BY AudioInitInvariant DEF Init
<1>2. AudioIInv /\ [Next]_vars => AudioIInv'
  BY AudioInvariantStep, AudioMoves
<1> QED BY <1>1, <1>2, PTL DEF Spec

\* The network settings.
LEMMA NetworkMoves == [Next]_vars => [Network!Next]_(Network!vars)
<1>1. Next \/ UNCHANGED vars => NetworkStep \/ UNCHANGED NetworkVars
  BY DEF Next, ConfigStep, AudioStep, InstallerStep, PluginsStep, TlsStep,
         TrackerStep, FeedStep, RadioStep, VpnStep, FormStep, DataStep, CotStep, Rest,
         vars
<1>2. UNCHANGED NetworkVars => UNCHANGED Network!vars
  BY DEF NetworkVars, Network!vars
<1> QED BY <1>1, <1>2 DEF NetworkStep

LEMMA NetworkRuns == Spec => []NetworkIInv
<1>1. Init => NetworkIInv
  BY NetworkInitInvariant DEF Init
<1>2. NetworkIInv /\ [Next]_vars => NetworkIInv'
  BY NetworkInvariantStep, NetworkMoves
<1> QED BY <1>1, <1>2, PTL DEF Spec

\* The upgrade of the installer.
LEMMA InstallerMoves == [Next]_vars => [Installer!Next]_(Installer!vars)
<1>1. Next \/ UNCHANGED vars => InstallerStep \/ UNCHANGED InstallerVars
  BY DEF Next, ConfigStep, AudioStep, NetworkStep, PluginsStep, TlsStep, TrackerStep,
         FeedStep, RadioStep, VpnStep, FormStep, DataStep, CotStep, Rest, vars
<1>2. UNCHANGED InstallerVars => UNCHANGED Installer!vars
  BY DEF InstallerVars, Installer!vars
<1> QED BY <1>1, <1>2 DEF InstallerStep

LEMMA InstallerRuns == Spec => []InstallerIInv
<1>1. Init => InstallerIInv
  BY InstallerInitInvariant DEF Init
<1>2. InstallerIInv /\ [Next]_vars => InstallerIInv'
  BY InstallerInvariantStep, InstallerMoves
<1> QED BY <1>1, <1>2, PTL DEF Spec

\* The plugins page.
LEMMA PluginsMoves == [Next]_vars => [Plugins!Next]_(Plugins!vars)
<1>1. Next \/ UNCHANGED vars => PluginsStep \/ UNCHANGED PluginsVars
  BY DEF Next, ConfigStep, AudioStep, NetworkStep, InstallerStep, TlsStep,
         TrackerStep, FeedStep, RadioStep, VpnStep, FormStep, DataStep, CotStep, Rest,
         vars
<1>2. UNCHANGED PluginsVars => UNCHANGED Plugins!vars
  BY DEF PluginsVars, Plugins!vars
<1> QED BY <1>1, <1>2 DEF PluginsStep

LEMMA PluginsRuns == Spec => []PluginsIInv
<1>1. Init => PluginsIInv
  BY PluginsInitInvariant DEF Init
<1>2. PluginsIInv /\ [Next]_vars => PluginsIInv'
  BY PluginsInvariantStep, PluginsMoves
<1> QED BY <1>1, <1>2, PTL DEF Spec

\* The certificates.
LEMMA TlsMoves == [Next]_vars => [Tls!Next]_(Tls!vars)
<1>1. Next \/ UNCHANGED vars => TlsStep \/ UNCHANGED TlsVars
  BY DEF Next, ConfigStep, AudioStep, NetworkStep, InstallerStep, PluginsStep,
         TrackerStep, FeedStep, RadioStep, VpnStep, FormStep, DataStep, CotStep, Rest,
         vars
<1>2. UNCHANGED TlsVars => UNCHANGED Tls!vars
  BY DEF TlsVars, Tls!vars
<1> QED BY <1>1, <1>2 DEF TlsStep

LEMMA TlsRuns == Spec => []TlsIInv
<1>1. Init => TlsIInv
  BY TlsInitInvariant DEF Init
<1>2. TlsIInv /\ [Next]_vars => TlsIInv'
  BY TlsInvariantStep, TlsMoves
<1> QED BY <1>1, <1>2, PTL DEF Spec

\* The Reticulum tracker.
LEMMA TrackerMoves == [Next]_vars => [Tracker!Next]_(Tracker!vars)
<1>1. Next \/ UNCHANGED vars => TrackerStep \/ UNCHANGED TrackerVars
  BY DEF Next, ConfigStep, AudioStep, NetworkStep, InstallerStep, PluginsStep,
         TlsStep, FeedStep, RadioStep, VpnStep, FormStep, DataStep, CotStep, Rest,
         vars
<1>2. UNCHANGED TrackerVars => UNCHANGED Tracker!vars
  BY DEF TrackerVars, Tracker!vars
<1> QED BY <1>1, <1>2 DEF TrackerStep

LEMMA TrackerRuns == Spec => []TrackerIInv
<1>1. Init => TrackerIInv
  BY TrackerInitInvariant DEF Init
<1>2. TrackerIInv /\ [Next]_vars => TrackerIInv'
  BY TrackerInvariantStep, TrackerMoves
<1> QED BY <1>1, <1>2, PTL DEF Spec

\* The live state.
LEMMA FeedMoves == [Next]_vars => [Feed!Next]_(Feed!vars)
<1>1. Next \/ UNCHANGED vars => FeedStep \/ UNCHANGED FeedVars
  BY DEF Next, ConfigStep, AudioStep, NetworkStep, InstallerStep, PluginsStep,
         TlsStep, TrackerStep, RadioStep, VpnStep, FormStep, DataStep, CotStep, Rest,
         vars
<1>2. UNCHANGED FeedVars => UNCHANGED Feed!vars
  BY DEF FeedVars, Feed!vars
<1> QED BY <1>1, <1>2 DEF FeedStep

LEMMA FeedRuns == Spec => []FeedIInv
<1>1. Init => FeedIInv
  BY FeedInitInvariant DEF Init
<1>2. FeedIInv /\ [Next]_vars => FeedIInv'
  BY FeedInvariantStep, FeedMoves
<1> QED BY <1>1, <1>2, PTL DEF Spec

\* The radio interface.
LEMMA RadioMoves == [Next]_vars => [Radio!Next]_(Radio!vars)
<1>1. Next \/ UNCHANGED vars => RadioStep \/ UNCHANGED RadioVars
  BY DEF Next, ConfigStep, AudioStep, NetworkStep, InstallerStep, PluginsStep,
         TlsStep, TrackerStep, FeedStep, VpnStep, FormStep, DataStep, CotStep, Rest,
         vars
<1>2. UNCHANGED RadioVars => UNCHANGED Radio!vars
  BY DEF RadioVars, Radio!vars
<1> QED BY <1>1, <1>2 DEF RadioStep

LEMMA RadioRuns == Spec => []RadioIInv
<1>1. Init => RadioIInv
  BY RadioInitInvariant DEF Init
<1>2. RadioIInv /\ [Next]_vars => RadioIInv'
  BY RadioInvariantStep, RadioMoves
<1> QED BY <1>1, <1>2, PTL DEF Spec

\* The VPN page.
LEMMA VpnPageMoves == [Next]_vars => [Vpn!Next]_(Vpn!vars)
<1>1. Next \/ UNCHANGED vars => VpnStep \/ UNCHANGED VpnVars
  BY DEF Next, ConfigStep, AudioStep, NetworkStep, InstallerStep, PluginsStep,
         TlsStep, TrackerStep, FeedStep, RadioStep, FormStep, DataStep, CotStep, Rest,
         vars
<1>2. UNCHANGED VpnVars => UNCHANGED Vpn!vars
  BY DEF VpnVars, Vpn!vars
<1> QED BY <1>1, <1>2 DEF VpnStep

LEMMA VpnPageRuns == Spec => []VpnPageIInv
<1>1. Init => VpnPageIInv
  BY VpnPageInitInvariant DEF Init
<1>2. VpnPageIInv /\ [Next]_vars => VpnPageIInv'
  BY VpnPageInvariantStep, VpnPageMoves
<1> QED BY <1>1, <1>2, PTL DEF Spec

\* The radio form.
LEMMA FormMoves == [Next]_vars => [Form!Next]_(Form!vars)
<1>1. Next \/ UNCHANGED vars => FormStep \/ UNCHANGED FormVars
  BY DEF Next, ConfigStep, AudioStep, NetworkStep, InstallerStep, PluginsStep,
         TlsStep, TrackerStep, FeedStep, RadioStep, VpnStep, DataStep, CotStep, Rest,
         vars
<1>2. UNCHANGED FormVars => UNCHANGED Form!vars
  BY DEF FormVars, Form!vars
<1> QED BY <1>1, <1>2 DEF FormStep

LEMMA FormRuns == Spec => []FormIInv
<1>1. Init => FormIInv
  BY FormInitInvariant DEF Init
<1>2. FormIInv /\ [Next]_vars => FormIInv'
  BY FormInvariantStep, FormMoves
<1> QED BY <1>1, <1>2, PTL DEF Spec

\* The data path.
LEMMA DataMoves == [Next]_vars => [Data!Next]_(Data!vars)
<1>1. Next \/ UNCHANGED vars => DataStep \/ UNCHANGED DataVars
  BY DEF Next, ConfigStep, AudioStep, NetworkStep, InstallerStep, PluginsStep,
         TlsStep, TrackerStep, FeedStep, RadioStep, VpnStep, FormStep, CotStep, Rest,
         vars
<1>2. UNCHANGED DataVars => UNCHANGED Data!vars
  BY DEF DataVars, Data!vars
<1> QED BY <1>1, <1>2 DEF DataStep

LEMMA DataRuns == Spec => [](DataIInv /\ DataSumsKept)
<1>1. Init => DataIInv /\ DataSumsKept
  BY DataInitInvariant, DataSumsInit DEF Init
<1>2. DataIInv /\ DataSumsKept /\ [Next]_vars => (DataIInv /\ DataSumsKept)'
  BY DataInvariantStep, DataSumsStep, DataMoves
<1> QED BY <1>1, <1>2, PTL DEF Spec

\* The CoT positions.
LEMMA CotMoves == [Next]_vars => [Cot!Next]_(Cot!vars)
<1>1. Next \/ UNCHANGED vars => CotStep \/ UNCHANGED CotVars
  BY DEF Next, ConfigStep, AudioStep, NetworkStep, InstallerStep, PluginsStep,
         TlsStep, TrackerStep, FeedStep, RadioStep, VpnStep, FormStep, DataStep, Rest,
         vars
<1>2. UNCHANGED CotVars => UNCHANGED Cot!vars
  BY DEF CotVars, Cot!vars
<1> QED BY <1>1, <1>2 DEF CotStep

LEMMA CotRuns == Spec => []CotIInv
<1>1. Init => CotIInv
  BY CotInitInvariant DEF Init
<1>2. CotIInv /\ [Next]_vars => CotIInv'
  BY CotInvariantStep, CotMoves
<1> QED BY <1>1, <1>2, PTL DEF Spec

-----------------------------------------------------------------------------
(* What is checked of the components *)

\* For any configurations, requests, failing statements and crashes: between saves
\* the database holds what the completed saves amount to, each replacing its own
\* part, however many requests ran together (http/handlers.rs, settings/db.rs).
THEOREM FieldsHaveBeenKept == Spec => []NoFieldLost
<1>1. ConfigIInv => NoFieldLost
  BY ConfigKept DEF NoFieldLost
<1> QED BY <1>1, ConfigRuns, PTL

\* For any configurations, requests, failing statements and crashes: the database
\* implements SettingsStore.  Each settings request takes effect at one instant on
\* what the others left, and one that is cut off leaves what save_config, which is
\* no transaction, had written by then (http/handlers.rs, settings/db.rs).
THEOREM SettingsAreAStore == Spec => ImplementsStore
<1>1. Init => Config!Store!Init
  BY ConfigStoreInit DEF Init
<1>2. ConfigIInv /\ ConfigIInv' /\ [Next]_vars => [Config!Store!Next]_(Config!Store!vars)
  <2> SUFFICES ASSUME ConfigIInv, ConfigIInv', [Next]_vars
               PROVE  [Config!Store!Next]_(Config!Store!vars)
    OBVIOUS
  <2>1. [Config!Next]_(Config!vars)
    BY ConfigMoves
  <2> QED BY <2>1, ConfigStoreStep
<1> QED
  BY <1>1, <1>2, ConfigRuns, PTL
  DEF Spec, ImplementsStore, Config!ImplementsStore, Config!Store!Spec

\* For any configurations and wherever a save stops: no peer is admitted that
\* neither the configuration before nor the one being saved admits.
THEOREM TornSavesHaveAdmittedNobodyElse == Spec => []TornSaveAdmitsNobodyElse
<1>1. ConfigIInv => TornSaveAdmitsNobodyElse
  BY ConfigKept DEF TornSaveAdmitsNobodyElse
<1> QED BY <1>1, ConfigRuns, PTL

\* For any requests and failures: with no save under way, a part of the VPN runtime
\* or the radio that no request has yet to set is set as saved, except where a
\* request left it to the database, was refused, failed, or overlapped another.
THEOREM RuntimeHasFollowed == Spec => []RuntimeFollowsSettings
<1>1. ConfigIInv => RuntimeFollowsSettings
  BY ConfigKept DEF RuntimeFollowsSettings
<1> QED BY <1>1, ConfigRuns, PTL

\* For any pages, volumes and faults: muting, testing and reloading leave the
\* volume that was last sent, unless something disturbed the page (audio.rs).
THEOREM VolumeHasSurvived == Spec => []VolumeSurvivesMute
<1>1. AudioIInv => VolumeSurvivesMute
  BY AudioKept DEF VolumeSurvivesMute
<1> QED BY <1>1, AudioRuns, PTL

\* For any pages, requests and faults: the Wi-Fi mode is the one last asked for
\* once that request has succeeded without meeting another (network.rs).
THEOREM ModeHasFollowed == Spec => []ModeAsRequested
<1>1. NetworkIInv => ModeAsRequested
  BY NetworkKept DEF ModeAsRequested
<1> QED BY <1>1, NetworkRuns, PTL

\* For any uploads, failing writes and crashes: the installer binary is one whole
\* upload as long as no two uploads met (http/installer.rs).
THEOREM BinaryHasStayedWhole == Spec => []BinaryStaysWhole
<1>1. InstallerIInv => BinaryStaysWhole
  BY InstallerKept DEF BinaryStaysWhole
<1> QED BY <1>1, InstallerRuns, PTL

\* For any uploads and faults: an upgrade that is over has left the service
\* running, unless systemctl failed or the gateway stopped in between.
THEOREM ServiceHasComeBack == Spec => []ServiceComesBack
<1>1. InstallerIInv => ServiceComesBack
  BY InstallerKept DEF ServiceComesBack
<1> QED BY <1>1, InstallerRuns, PTL

\* For any plugins and requests: a page at rest that has not fallen behind shows
\* what is installed and running (pages/plugins.rs).
THEOREM ListHasCaughtUp == Spec => []ListCatchesUp
<1>1. PluginsIInv => ListCatchesUp
  BY PluginsKept DEF ListCatchesUp
<1> QED BY <1>1, PluginsRuns, PTL

\* For any plugins and requests: the dialog of an upload stays open and locked
\* until the answer, unless a timer of an earlier one took it down.
THEOREM UploadHasKeptDialog == Spec => []UploadKeepsDialog
<1>1. PluginsIInv => UploadKeepsDialog
  BY PluginsKept DEF UploadKeepsDialog
<1> QED BY <1>1, PluginsRuns, PTL

\* For any readers, keys, failing writes and crashes: a root certificate that was
\* once settled is the one that stays (local_https.rs).
THEOREM RootCaHasSurvived == Spec => []RootCaSurvives
<1>1. TlsIInv => RootCaSurvives
  BY TlsKept DEF RootCaSurvives
<1> QED BY <1>1, TlsRuns, PTL

\* For any peers, links and size of the channel: once its events are read, the
\* table says closed of exactly the links that are, unless events of a link were
\* dropped or mixed up with those of another one (gateway_reticulum.rs).
THEOREM TableHasTold == Spec => []TableTellsLinks
<1>1. TrackerIInv => TableTellsLinks
  BY TrackerKept DEF TableTellsLinks
<1> QED BY <1>1, TrackerRuns, PTL

\* For any pages, frames and size of the channel: a page whose events have all
\* arrived shows the frames there are, unless it missed the last one (http/ws.rs).
THEOREM FramesHaveCaughtUp == Spec => []FramesCatchUp
<1>1. FeedIInv => FramesCatchUp
  BY FeedKept DEF FramesCatchUp
<1> QED BY <1>1, FeedRuns, PTL

\* For any modules, packets, pieces and size of the channel: what is passed to
\* Reticulum was transmitted whole, on that module.
THEOREM DeliveredHasBeenWhole == Spec => []DeliveredWhole
<1>1. RadioIInv => DeliveredWhole
  BY RadioKept DEF DeliveredWhole
<1> QED BY <1>1, RadioRuns, PTL

\* For any peers and requests: a page at rest whose requests did not cross shows
\* whom the gateway admits, and that is what the user asked for (pages/vpn.rs).
THEOREM AllowlistHasFollowed == Spec => []AllowlistAsAsked
<1>1. VpnPageIInv => AllowlistAsAsked
  BY VpnPageKept DEF AllowlistAsAsked
<1> QED BY <1>1, VpnPageRuns, PTL

\* For any texts: what is typed into the open editor of the routes stays as typed,
\* whatever the timers and answers of the page bring meanwhile.
THEOREM EditorHasKeptText == Spec => []EditorKeepsText
<1>1. VpnPageIInv => EditorKeepsText
  BY VpnPageKept DEF EditorKeepsText
<1> QED BY <1>1, VpnPageRuns, PTL

\* For any edits and answers: a frequency field that was left holds a frequency of
\* one of the two bands, or nothing at all (pages/radio.rs).
THEOREM LeftFieldHasBeenInBand == Spec => []LeftFieldIsInBand
<1>1. FormIInv => LeftFieldIsInBand
  BY FormKept DEF LeftFieldIsInBand
<1> QED BY <1>1, FormRuns, PTL

\* For any finite sets of peers and subnets: once the router has caught up, a packet
\* goes to the peer that has its address, or else to the one whose announced subnet
\* is the longest with it, never by a subnet that two peers claim (router.rs).
THEOREM LongestMatchHasWon == Spec => []LongestMatchWins
<1>1. DataIInv => LongestMatchWins
  BY DataKept DEF LongestMatchWins
<1> QED BY <1>1, DataRuns, PTL

\* For any packets, peers and links: what was read or received is sent, delivered,
\* dropped or refused once, or in the hand of one task, and the counters of the
\* peers add up to what was sent as long as no peer was forgotten, however the
\* tasks and the changes of peers and links interleave (runtime.rs, metrics.rs).
THEOREM PacketsHaveBeenAccounted == Spec => []PacketsAccounted
<1>1. DataIInv /\ DataSumsKept => PacketsAccounted
  BY DataSumsAccount DEF PacketsAccounted
<1> QED BY <1>1, DataRuns, PTL

\* For any tasks, uids and size of the table: it holds the latest positions, and
\* what it misses is no newer than anything it has, unless two tasks held positions
\* of one uid at a time (cot.rs).
THEOREM LatestHaveBeenKept == Spec => []LatestAreKept
<1>1. CotIInv => LatestAreKept
  BY CotKept DEF LatestAreKept
<1> QED BY <1>1, CotRuns, PTL

\* The state of every component is of its types, for as long as it runs.
THEOREM ServicesTyped == Spec => []TypeOK
<1>1. /\ ConfigIInv => Config!TypeOK
      /\ AudioIInv => Audio!TypeOK
      /\ NetworkIInv => Network!TypeOK
      /\ InstallerIInv => Installer!TypeOK
      /\ PluginsIInv => Plugins!TypeOK
      /\ TlsIInv => Tls!TypeOK
      /\ TrackerIInv => Tracker!TypeOK
      /\ FeedIInv => Feed!TypeOK
      /\ RadioIInv => Radio!TypeOK
      /\ VpnPageIInv => Vpn!TypeOK
      /\ FormIInv => Form!TypeOK
      /\ DataIInv => Data!TypeOK
      /\ CotIInv => Cot!TypeOK
  BY ConfigKept, AudioKept, NetworkKept, InstallerKept, PluginsKept, TlsKept,
     TrackerKept, FeedKept, RadioKept, VpnPageKept, FormKept, DataKept, CotKept
<1>2. ConfigIInv /\ AudioIInv /\ NetworkIInv /\ InstallerIInv /\ PluginsIInv /\ TlsIInv
        /\ TrackerIInv /\ FeedIInv /\ RadioIInv /\ VpnPageIInv /\ FormIInv /\ DataIInv
        /\ CotIInv => TypeOK
  BY <1>1 DEF TypeOK
<1> QED BY <1>2, ConfigRuns, AudioRuns, NetworkRuns, InstallerRuns, PluginsRuns,
           TlsRuns, TrackerRuns, FeedRuns, RadioRuns, VpnPageRuns, FormRuns, DataRuns,
           CotRuns, PTL
=============================================================================
