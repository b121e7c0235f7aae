-------------------------- MODULE WebInstallProofs --------------------------
(***************************************************************************)
(* Proofs about WebInstall: for any number of addresses, keystrokes,       *)
(* checks in flight and failures, the wizard stays on its pages, and what  *)
(* it installs is what was typed.                                          *)
(***************************************************************************)
EXTENDS WebInstall, SequenceTheorems, TLAPS

-----------------------------------------------------------------------------
(* The pages.  The steps that setAllSettings of v1 takes are relative to   *)
(* the page on which its answer finds the user, so the invariant says      *)
(* where that is.                                                          *)

PageInv ==
    /\ wizard \in {"v1", "v2"}
    /\ "backed" \notin excuse =>
         /\ step \in 1..Total
         /\ wizard = "v1" /\ processingSubmit => step = 3

\* The wizard starts on its first page.
LEMMA PageInit == InstallInit => PageInv
  BY InstallAssumption DEF InstallInit, PageInv, Total, processingSubmit, Nothing

\* What the controls do to the page, and that going back is remembered if an
\* installation is under way.
LEMMA Moves ==
    /\ handleNextStep \/ handleAuthSubmit =>
         step' = step + 1 /\ UNCHANGED <<wizard, submit, excuse>>
    /\ onSubmit => step' = step + 1 /\ UNCHANGED <<wizard, submit>> /\ excuse \subseteq excuse'
    /\ handlePrevStep => /\ step' = step - 1 /\ UNCHANGED <<wizard, submit>>
                         /\ excuse \subseteq excuse'
                         /\ processingSubmit => "backed" \in excuse'
    /\ handleFix => UNCHANGED <<wizard, submit, step, excuse>>
    /\ \A a : useInstallSettingsForm(a) => UNCHANGED <<wizard, submit, step, excuse>>
    /\ setAllSettings => /\ UNCHANGED <<wizard, step>> /\ excuse \subseteq excuse'
                         /\ ~processingSubmit /\ processingSubmit'
<1>1. \A s, k, p : Enter(s, k, p) => step' = s
  BY DEF Enter
<1>2. handleNextStep \/ handleAuthSubmit =>
        step' = step + 1 /\ UNCHANGED <<wizard, submit, excuse>>
  BY <1>1 DEF handleNextStep, handleAuthSubmit
<1>3. onSubmit => step' = step + 1 /\ UNCHANGED <<wizard, submit>> /\ excuse \subseteq excuse'
  BY <1>1 DEF onSubmit
<1>4. handlePrevStep => /\ step' = step - 1 /\ UNCHANGED <<wizard, submit>>
                        /\ excuse \subseteq excuse'
                        /\ processingSubmit => "backed" \in excuse'
  BY <1>1 DEF handlePrevStep
<1>5. handleFix => UNCHANGED <<wizard, submit, step, excuse>>
  BY DEF handleFix, Rerender
<1>6. \A a : useInstallSettingsForm(a) => UNCHANGED <<wizard, submit, step, excuse>>
  BY DEF useInstallSettingsForm
<1>7. setAllSettings => /\ UNCHANGED <<wizard, step>> /\ excuse \subseteq excuse'
                        /\ ~processingSubmit /\ processingSubmit'
  BY DEF setAllSettings, Rerender, processingSubmit
<1> QED
  BY <1>2, <1>3, <1>4, <1>5, <1>6, <1>7

\* Every step keeps the user on a page.
LEMMA PageNext == PageInv /\ [InstallNext]_installVars => PageInv'
<1> SUFFICES ASSUME PageInv, [InstallNext]_installVars PROVE PageInv'
  OBVIOUS
<1> USE DEF PageInv, Total
<1>1. CASE ControlsV1
  BY <1>1, Moves DEF ControlsV1, processingSubmit
<1>2. CASE SettingsV1
  BY <1>2, Moves DEF SettingsV1, processingSubmit
<1>3. CASE AuthV1
  BY <1>3, Moves DEF AuthV1
<1>4. CASE ControlsV2
  BY <1>4, Moves DEF ControlsV2
<1>5. CASE AuthV2
  BY <1>5, Moves DEF AuthV2
<1>6. CASE InterfaceSettings \/ DnsSettings
  BY <1>6, Moves DEF InterfaceSettings, DnsSettings
<1>7. CASE SubmitV2
  BY <1>7, Moves DEF SubmitV2
<1>8. CASE getDefaultAddresses \/ checkConfig
  <2>1. UNCHANGED <<wizard, step, submit, excuse>>
    BY <1>8 DEF getDefaultAddresses, checkConfig, Rerender
  <2> QED
    BY <2>1 DEF processingSubmit
<1>9. CASE RefuseInstall
  <2>1. UNCHANGED <<wizard, step>> /\ excuse \subseteq excuse' /\ processingSubmit
    BY <1>9 DEF RefuseInstall, processingSubmit
  <2> QED
    BY <2>1
<1>10. CASE finalizeInstall
  <2>1. UNCHANGED <<wizard, step>> /\ excuse \subseteq excuse' /\ processingSubmit
    BY <1>10 DEF finalizeInstall, processingSubmit
  <2> QED
    BY <2>1
<1>11. CASE setAllSettingsSuccess \/ setAllSettingsFailure
  <2>1. /\ UNCHANGED <<wizard, excuse>> /\ processingSubmit
        /\ wizard = "v1" => step' = step + 1 \/ step' = step - 1
        /\ wizard # "v1" => step' = step
    BY <1>11 DEF setAllSettingsSuccess, setAllSettingsFailure, processingSubmit, Enter,
                 Rerender
  <2>2. wizard = "v1" => ~processingSubmit'
    <3>1. CASE setAllSettingsSuccess
      <4>1. submit'.phase # "ok" /\ submit'.phase # "sent" /\ submit'.phase # "err"
        BY <3>1 DEF setAllSettingsSuccess
      <4> QED
        BY <4>1 DEF processingSubmit
    <3>2. CASE setAllSettingsFailure
      BY <3>2 DEF setAllSettingsFailure, processingSubmit, Nothing
    <3> QED
      BY <1>11, <3>1, <3>2
  <2> QED
    BY <2>1, <2>2
<1>12. ASSUME NEW i \in DOMAIN checks,
              handleInstallCheckConfig(i) \/ checkConfigSuccess(i) \/ checkConfigFailure(i)
       PROVE  PageInv'
  <2>1. UNCHANGED <<wizard, step, submit>> /\ excuse \subseteq excuse'
    BY <1>12 DEF handleInstallCheckConfig, checkConfigSuccess, checkConfigFailure, Rerender
  <2> QED
    BY <2>1 DEF processingSubmit
<1>13. CASE UNCHANGED installVars
  BY <1>13 DEF installVars, processingSubmit
<1> QED
  BY <1>1, <1>2, <1>3, <1>4, <1>5, <1>6, <1>7, <1>8, <1>9, <1>10, <1>11, <1>12, <1>13
     DEF InstallNext

\* There is always a page to see, unless the user went back while the installation
\* was under way: the relative steps of setAllSettings do not leave the wizard.
THEOREM WizardOnPageTheorem == InstallSpec => []WizardOnPage
<1>1. PageInv => WizardOnPage
  BY DEF PageInv, WizardOnPage
<1> QED
  BY <1>1, PageInit, PageNext, PTL DEF InstallSpec

-----------------------------------------------------------------------------
(* The address.  What was typed last is on its way to the store: it is in  *)
(* the last of the debounced checks, or else in the last of those in       *)
(* flight, or else in the store.                                           *)

Known == Nat \ {NoForm}
Checks == [addr : Known, phase : {"sent", "ok", "err"}]

LatestOf(k, ts, cs) ==
    IF ts # <<>> THEN ts[Len(ts)]
    ELSE IF cs # <<>> THEN cs[Len(cs)].addr ELSE k

Latest == LatestOf(known, timers, checks)

FirstForm == IF wizard = "v1" THEN 2 ELSE 3
LastPage  == IF wizard = "v1" THEN 3 ELSE 6

TraceTypes ==
    /\ known \in Known /\ timers \in Seq(Known) /\ checks \in Seq(Checks)
    /\ submit \in [phase : {"none", "sent", "ok", "err", "submitted"}, addr : Nat]
Traced ==
    /\ step \in FormSteps => field \in Known /\ (typed = NoForm \/ typed = field)
    /\ typed # NoForm => Latest = typed
    /\ step < FirstForm => timers = <<>> /\ checks = <<>>
    /\ ~loaded => step = 1 /\ typed = NoForm
    /\ step > FirstForm => typed # NoForm
Submitted ==
    /\ processingSubmit => /\ step = LastPage /\ timers = <<>> /\ checks = <<>>
                           /\ submit.addr = typed
    /\ submit.phase = "submitted" => step > LastPage \/ (wizard = "v2" /\ step = 6)
    /\ installed => submit.phase \in {"ok", "submitted"} /\ onDisk = typed

TypedInv == PageInv /\ (excuse = {} => TraceTypes /\ Traced /\ Submitted)

-----------------------------------------------------------------------------
(* Sequences of checks.                                                    *)

\* All but the last.
LEMMA FrontType ==
    ASSUME NEW S, NEW s \in Seq(S), s # <<>>
    PROVE  Front(s) \in Seq(S)
<1>1. Len(s) \in Nat /\ Len(s) > 0 /\ \A i \in 1..Len(s) : s[i] \in S
  BY EmptySeq, LenProperties, ElementOfSeq
<1>2. Len(s) - 1 \in Int /\ \A i \in 1..(Len(s) - 1) : s[i] \in S
  BY <1>1
<1> QED
  BY <1>2, SubSeqProperties DEF Front

\* The address that is debounced is in the last check.
LEMMA Debounced ==
    ASSUME NEW S, NEW a \in S, NEW s \in Seq(S), NEW own
    PROVE  /\ debouncedCheckConfig(a, s, own) \in Seq(S)
           /\ debouncedCheckConfig(a, s, own) # <<>>
           /\ debouncedCheckConfig(a, s, own)[Len(debouncedCheckConfig(a, s, own))] = a
<1>1. \A t \in Seq(S) : /\ Append(t, a) \in Seq(S) /\ Append(t, a) # <<>>
                        /\ Append(t, a)[Len(Append(t, a))] = a
  BY AppendProperties
<1>2. CASE s # <<>> /\ own
  BY <1>1, <1>2, FrontType DEF debouncedCheckConfig
<1>3. CASE ~(s # <<>> /\ own)
  BY <1>1, <1>3 DEF debouncedCheckConfig
<1> QED
  BY <1>2, <1>3

\* The last of a sequence stays the last when the first goes.
LEMMA TailLast ==
    ASSUME NEW S, NEW s \in Seq(S), s # <<>>
    PROVE  /\ Tail(s) \in Seq(S) /\ Head(s) \in S
           /\ Tail(s) # <<>> => Tail(s)[Len(Tail(s))] = s[Len(s)]
           /\ Tail(s) = <<>> => Head(s) = s[Len(s)]
           /\ Head(s) = s[1]
<1> DEFINE t == Tail(s)
<1>1. /\ t \in Seq(S) /\ Head(s) \in S /\ Len(t) = Len(s) - 1 /\ Head(s) = s[1]
      /\ \A i \in 1..Len(t) : t[i] = s[i + 1]
  BY HeadTailProperties
<1>2. Len(s) \in Nat /\ Len(t) \in Nat /\ Len(s) > 0
  BY <1>1, EmptySeq, LenProperties
<1> HIDE DEF t
<1>3. t # <<>> => t[Len(t)] = s[Len(s)]
  <2> SUFFICES ASSUME t # <<>> PROVE t[Len(t)] = s[Len(s)]
    OBVIOUS
  <2>1. Len(t) > 0
    BY <1>1, <1>2, EmptySeq
  <2> QED
    BY <1>1, <1>2, <2>1
<1>4. t = <<>> => Head(s) = s[Len(s)]
  <2> SUFFICES ASSUME t = <<>> PROVE Head(s) = s[Len(s)]
    OBVIOUS
  <2>1. Len(t) = 0
    BY EmptySeq
  <2>2. Len(s) = 1
    BY <1>1, <1>2, <2>1
  <2> QED
    BY <1>1, <2>2
<1> QED
  BY <1>1, <1>3, <1>4 DEF t

\* The first of the checks in flight is removed.
LEMMA FirstRemoved ==
    ASSUME NEW S, NEW s \in Seq(S), s # <<>>
    PROVE  RemoveAt(s, 1) = Tail(s)
<1> DEFINE x == SubSeq(s, 1, 0)
           y == SubSeq(s, 2, Len(s))
<1>1. x = <<>>
  OBVIOUS
<1>2. y = Tail(s)
  BY DEF Tail
<1>3. y \in Seq(S)
  BY <1>2, HeadTailProperties
<1>4. RemoveAt(s, 1) = x \o y
  BY DEF RemoveAt
<1> HIDE DEF x, y
<1> QED
  BY <1>1, <1>2, <1>3, <1>4, ConcatEmptySeq

\* A form starts from the store, and has that checked.
LEMMA EnterForm ==
    ASSUME NEW s, NEW k \in Known, NEW p \in Seq(Known), Enter(s, k, p), s \in FormSteps
    PROVE  /\ step' = s /\ field' = k /\ timers' \in Seq(Known)
           /\ timers' # <<>> /\ timers'[Len(timers')] = k
<1>1. step' = s /\ field' = k /\ timers' = debouncedCheckConfig(k, p, wizard = "v2")
  BY DEF Enter
<1> QED
  BY <1>1, Debounced

\* On a page without a form the checks that are due stay due.
LEMMA EnterOther ==
    ASSUME NEW s, NEW k, NEW p, Enter(s, k, p), s \notin FormSteps
    PROVE  step' = s /\ timers' = p
  BY DEF Enter

\* Where the address is.
LEMMA LatestFacts ==
    /\ timers # <<>> => Latest = timers[Len(timers)]
    /\ timers = <<>> /\ checks # <<>> => Latest = checks[Len(checks)].addr
    /\ timers = <<>> /\ checks = <<>> => Latest = known
  BY DEF Latest, LatestOf

\* The same after a step.
LEMMA LatestFactsNext ==
    /\ timers' # <<>> => Latest' = timers'[Len(timers')]
    /\ timers' = <<>> /\ checks' # <<>> => Latest' = checks'[Len(checks')].addr
    /\ timers' = <<>> /\ checks' = <<>> => Latest' = known'
  BY DEF Latest, LatestOf

\* What is not entered from the store is left alone by the controls.
Aside == <<wizard, loaded, known, checks, submit, onDisk, installed>>

\* Without an excuse: going back.
LEMMA BackFacts ==
    ASSUME handlePrevStep, excuse' = {}
    PROVE  /\ step' = step - 1 /\ Enter(step - 1, known, timers) /\ UNCHANGED <<Aside, typed>>
           /\ timers = <<>> /\ checks = <<>> /\ ~processingSubmit
<1>1. /\ Enter(step - 1, known, timers) /\ UNCHANGED <<Aside, typed>>
      /\ excuse' = excuse \union (IF processingSubmit THEN {"backed"} ELSE {})
            \union (IF Outstanding THEN {"back early"} ELSE {})
  BY DEF handlePrevStep, Aside, serverVars
<1>2. ~processingSubmit /\ ~Outstanding
  BY <1>1
<1> QED
  BY <1>1, <1>2, Moves DEF Outstanding

\* The controls, page by page.
LEMMA ControlFacts ==
    ASSUME PageInv, excuse' = {}, ControlsV1 \/ ControlsV2 \/ AuthV2
    PROVE  /\ UNCHANGED <<Aside, typed>> /\ Enter(step', known, timers)
           /\ \/ step' < step /\ timers = <<>> /\ checks = <<>> /\ ~processingSubmit
              \/ step' > step /\ loaded
              \/ step = 2 /\ step' = 3 /\ wizard = "v2"
           /\ wizard = "v1" => <<step, step'>> \in {<<1, 2>>, <<4, 5>>, <<2, 1>>, <<3, 2>>}
           /\ wizard = "v2" => <<step, step'>> \in {<<1, 2>>, <<2, 3>>, <<5, 6>>, <<2, 1>>,
                                                   <<3, 2>>, <<4, 3>>, <<5, 4>>}
<1>1. ASSUME handleNextStep
      PROVE  step' = step + 1 /\ Enter(step', known, timers) /\ UNCHANGED <<Aside, typed>> /\ loaded
  BY <1>1, Moves DEF handleNextStep, Aside, serverVars
<1>2. ASSUME handleAuthSubmit
      PROVE  step' = step + 1 /\ Enter(step', known, timers) /\ UNCHANGED <<Aside, typed>>
  BY <1>2, Moves DEF handleAuthSubmit, Aside, serverVars
<1>3. ASSUME handlePrevStep
      PROVE  /\ step' = step - 1 /\ Enter(step', known, timers) /\ UNCHANGED <<Aside, typed>>
             /\ timers = <<>> /\ checks = <<>> /\ ~processingSubmit
  BY <1>3, BackFacts
<1>4. CASE ControlsV1
  <2>1. CASE step \in {1, 4} /\ handleNextStep
    BY <1>1, <1>4, <2>1 DEF ControlsV1
  <2>2. CASE step \in {2, 3} /\ handlePrevStep
    BY <1>3, <1>4, <2>2 DEF ControlsV1
  <2> QED
    BY <1>4, <2>1, <2>2 DEF ControlsV1
<1>5. CASE ControlsV2
  <2>1. CASE step \in {1, 5} /\ handleNextStep
    BY <1>1, <1>5, <2>1 DEF ControlsV2
  <2>2. CASE step \in {2, 3, 4, 5} /\ handlePrevStep
    BY <1>3, <1>5, <2>2 DEF ControlsV2
  <2> QED
    BY <1>5, <2>1, <2>2 DEF ControlsV2
<1>6. CASE AuthV2
  BY <1>2, <1>6 DEF AuthV2
<1> QED
  BY <1>4, <1>5, <1>6

\* Without an excuse: the controls keep track of the address.
LEMMA TracedControls ==
    ASSUME PageInv, TraceTypes, Traced, Submitted, excuse = {}, excuse' = {},
           ControlsV1 \/ ControlsV2 \/ AuthV2
    PROVE  TraceTypes' /\ Traced' /\ Submitted'
<1>1. UNCHANGED <<Aside, typed>> /\ Enter(step', known, timers)
  BY ControlFacts
<1>2. UNCHANGED <<wizard, loaded, known, checks, submit, onDisk, installed, typed>>
  BY <1>1 DEF Aside
<1>3. FormSteps' = FormSteps /\ FirstForm' = FirstForm /\ LastPage' = LastPage
  BY <1>2 DEF FormSteps, FirstForm, LastPage
<1>4. CASE step' \in FormSteps
  <2>1. /\ field' = known /\ timers' \in Seq(Known) /\ timers' # <<>>
        /\ timers'[Len(timers')] = known
    BY <1>1, <1>4, EnterForm DEF TraceTypes
  <2>2. Latest' = known
    BY <2>1, LatestFactsNext
  <2>3. timers = <<>> /\ checks = <<>> /\ loaded /\ ~processingSubmit
        /\ submit.phase # "submitted" /\ ~(step' < FirstForm) /\ step' # 1
    BY <1>4, ControlFacts DEF PageInv, FormSteps, FirstForm, LastPage, Traced, Submitted
  <2>4. typed # NoForm => typed = known
    BY <2>3, LatestFacts DEF Traced
  <2>5. TraceTypes'
    BY <1>2, <2>1 DEF TraceTypes
  <2>6. step' > FirstForm => typed # NoForm
    BY <1>4, ControlFacts DEF PageInv, FormSteps, FirstForm, Traced
  <2>7. Traced'
    <3>1. field' \in Known /\ (typed' = NoForm \/ typed' = field')
      BY <1>2, <2>1, <2>4 DEF TraceTypes
    <3>2. typed' # NoForm => Latest' = typed'
      BY <1>2, <2>2, <2>4
    <3> QED
      BY <1>2, <1>3, <2>3, <2>6, <3>1, <3>2 DEF Traced
  <2>8. Submitted'
    BY <1>2, <2>3 DEF Submitted, processingSubmit
  <2> QED
    BY <2>5, <2>7, <2>8
<1>5. CASE step' \notin FormSteps
  <2>1. timers' = timers
    BY <1>1, <1>5, EnterOther
  <2>2. Latest' = Latest
    BY <1>2, <2>1 DEF Latest
  <2>3. TraceTypes'
    BY <1>2, <2>1 DEF TraceTypes
  <2>4. /\ step' < FirstForm => timers = <<>> /\ checks = <<>>
        /\ ~loaded => step' = 1
        /\ step' > FirstForm => step > FirstForm
    BY <1>5, ControlFacts DEF PageInv, FormSteps, FirstForm, Traced
  <2>5. Traced'
    BY <1>2, <1>3, <1>5, <2>1, <2>2, <2>4 DEF Traced
  <2>6. ~processingSubmit
    BY <1>5, ControlFacts DEF PageInv, FormSteps, LastPage, Submitted
  <2>7. Submitted'
    BY <1>2, <1>3, <1>5, <2>6, ControlFacts DEF Submitted, processingSubmit, PageInv, LastPage
  <2> QED
    BY <2>3, <2>5, <2>7
<1> QED
  BY <1>4, <1>5

\* Without an excuse: a keystroke in a form.
LEMMA TracedTyping ==
    ASSUME PageInv, TraceTypes, Traced, Submitted, step \in FormSteps,
           NEW a \in Addresses, useInstallSettingsForm(a)
    PROVE  TraceTypes' /\ Traced' /\ Submitted'
<1>1. /\ field' = a /\ typed' = a /\ timers' = debouncedCheckConfig(a, timers, Own)
      /\ UNCHANGED <<wizard, step, loaded, known, checks, submit, onDisk, installed>>
  BY DEF useInstallSettingsForm, serverVars
<1>2. a \in Known
  BY InstallAssumption DEF Known
<1>3. timers' \in Seq(Known) /\ timers' # <<>> /\ timers'[Len(timers')] = a
  BY <1>1, <1>2, Debounced DEF TraceTypes
<1>4. Latest' = a
  BY <1>3, LatestFactsNext
<1>5. TraceTypes'
  BY <1>1, <1>3 DEF TraceTypes
<1>6. FormSteps' = FormSteps /\ FirstForm' = FirstForm /\ LastPage' = LastPage
  BY <1>1 DEF FormSteps, FirstForm, LastPage
<1>7. step # 1 /\ ~(step < FirstForm) /\ ~processingSubmit /\ submit.phase # "submitted"
  BY DEF PageInv, Submitted, FormSteps, FirstForm, LastPage
<1>8. a # NoForm
  BY <1>2 DEF Known
<1>9. Traced'
  BY <1>1, <1>2, <1>4, <1>6, <1>7, <1>8 DEF Traced
<1>10. Submitted'
  BY <1>1, <1>7 DEF Submitted, processingSubmit
<1> QED
  BY <1>5, <1>9, <1>10

\* Without an excuse: "Next" on a form.
LEMMA TracedSubmit ==
    ASSUME PageInv, TraceTypes, Traced, Submitted, step \in FormSteps, excuse = {}, excuse' = {},
           onSubmit
    PROVE  TraceTypes' /\ Traced' /\ Submitted'
<1> DEFINE p == debouncedCheckConfig(field, timers, Own)
<1>1. /\ typed' = IF wizard = "v2" /\ step = 4 THEN typed ELSE field
      /\ Enter(step + 1, known, p)
      /\ excuse' = excuse \union (IF wizard = "v2" /\ step = 3 /\ known # field
                                 THEN {"left form"} ELSE {})
      /\ UNCHANGED <<wizard, loaded, known, checks, submit, onDisk, installed>>
  BY DEF onSubmit, serverVars
<1>2. field \in Known /\ field # NoForm /\ known \in Known /\ timers \in Seq(Known)
  BY DEF Traced, TraceTypes, Known
<1>3. p \in Seq(Known) /\ p # <<>> /\ p[Len(p)] = field
  BY <1>2, Debounced
<1> HIDE DEF p
<1>4. wizard \in {"v1", "v2"}
      /\ (wizard = "v1" => step = 2) /\ (wizard = "v2" => step \in {3, 4})
  BY DEF PageInv, FormSteps
<1>5. step' = step + 1 /\ step # 1 /\ step' # 1 /\ step' > FirstForm /\ ~(step' < FirstForm)
  BY <1>4, Moves DEF FirstForm
<1>6. typed' = field
  <2>1. CASE wizard = "v2" /\ step = 4
    <3>1. typed' = typed /\ step > FirstForm
      BY <1>1, <2>1 DEF FirstForm
    <3> QED
      BY <3>1 DEF Traced
  <2>2. CASE ~(wizard = "v2" /\ step = 4)
    BY <1>1, <2>2
  <2> QED
    BY <2>1, <2>2
<1>7. ~processingSubmit /\ submit.phase # "submitted"
  BY <1>4 DEF Submitted, LastPage
<1>8. FormSteps' = FormSteps /\ FirstForm' = FirstForm
  BY <1>1 DEF FormSteps, FirstForm
<1>9. loaded
  BY <1>5 DEF Traced
<1>10. /\ timers' \in Seq(Known) /\ timers' # <<>> /\ timers'[Len(timers')] = field
       /\ step' \in FormSteps => field' = field
  <2>1. CASE wizard = "v2" /\ step = 3
    <3>1. known = field
      BY <1>1, <2>1
    <3>2. step + 1 \in FormSteps
      BY <2>1 DEF FormSteps
    <3> QED
      BY <1>1, <1>2, <1>3, <3>1, <3>2, EnterForm
  <2>2. CASE ~(wizard = "v2" /\ step = 3)
    <3>1. step + 1 \notin FormSteps
      BY <1>4, <2>2 DEF FormSteps
    <3> QED
      BY <1>1, <1>3, <1>5, <3>1, EnterOther
  <2> QED
    BY <2>1, <2>2
<1>11. Latest' = field
  BY <1>10, LatestFactsNext
<1>12. TraceTypes'
  BY <1>1, <1>10 DEF TraceTypes
<1>13. Traced'
  BY <1>1, <1>2, <1>5, <1>6, <1>8, <1>9, <1>10, <1>11 DEF Traced
<1>14. Submitted'
  BY <1>1, <1>7 DEF Submitted, processingSubmit
<1> QED
  BY <1>12, <1>13, <1>14

\* Without an excuse: a button of a form that sends a check at once.
LEMMA TracedFix ==
    ASSUME PageInv, TraceTypes, Traced, Submitted, step \in FormSteps, handleFix
    PROVE  TraceTypes' /\ Traced' /\ Submitted'
<1> DEFINE c == [addr |-> field, phase |-> "sent"]
<1>1. /\ checks' = Append(checks, c)
      /\ UNCHANGED <<wizard, step, field, loaded, known, typed, timers, submit, onDisk, installed>>
  BY DEF handleFix, Rerender, serverVars
<1>2. c \in Checks /\ c.addr = field
  BY DEF Traced, Checks
<1> HIDE DEF c
<1>3. checks' \in Seq(Checks) /\ checks' # <<>> /\ checks'[Len(checks')] = c
  BY <1>1, <1>2, AppendProperties DEF TraceTypes
<1>4. typed # NoForm => Latest' = typed
  <2>1. CASE timers = <<>>
    BY <1>1, <1>2, <1>3, <2>1, LatestFactsNext DEF Traced
  <2>2. CASE timers # <<>>
    BY <1>1, <2>2, LatestFacts, LatestFactsNext DEF Traced
  <2> QED
    BY <2>1, <2>2
<1>5. TraceTypes'
  BY <1>1, <1>3 DEF TraceTypes
<1>6. FormSteps' = FormSteps /\ FirstForm' = FirstForm
  BY <1>1 DEF FormSteps, FirstForm
<1>7. ~(step < FirstForm) /\ ~processingSubmit /\ submit.phase # "submitted"
  BY DEF PageInv, Submitted, FormSteps, FirstForm, LastPage
<1>8. Traced'
  BY <1>1, <1>4, <1>6, <1>7 DEF Traced
<1>9. Submitted'
  BY <1>1, <1>7 DEF Submitted, processingSubmit
<1> QED
  BY <1>5, <1>8, <1>9

\* Without an excuse: the oldest debounced check is sent.
LEMMA TracedSend ==
    ASSUME PageInv, TraceTypes, Traced, Submitted, checkConfig
    PROVE  TraceTypes' /\ Traced' /\ Submitted'
<1> DEFINE c == [addr |-> Head(timers), phase |-> "sent"]
<1>1. /\ timers # <<>> /\ timers' = Tail(timers) /\ checks' = Append(checks, c)
      /\ UNCHANGED <<wizard, step, field, loaded, known, typed, submit, onDisk, installed>>
  BY DEF checkConfig, Rerender, serverVars
<1>2. /\ timers' \in Seq(Known) /\ Head(timers) \in Known
      /\ timers' # <<>> => timers'[Len(timers')] = timers[Len(timers)]
      /\ timers' = <<>> => Head(timers) = timers[Len(timers)]
  BY <1>1, TailLast DEF TraceTypes
<1>3. c \in Checks /\ c.addr = Head(timers)
  BY <1>2 DEF Checks
<1> HIDE DEF c
<1>4. checks' \in Seq(Checks) /\ checks' # <<>> /\ checks'[Len(checks')] = c
  BY <1>1, <1>3, AppendProperties DEF TraceTypes
<1>5. Latest' = Latest
  BY <1>1, <1>2, <1>3, <1>4, LatestFacts, LatestFactsNext
<1>6. TraceTypes'
  BY <1>1, <1>2, <1>4 DEF TraceTypes
<1>7. FormSteps' = FormSteps /\ FirstForm' = FirstForm /\ LastPage' = LastPage
  BY <1>1 DEF FormSteps, FirstForm, LastPage
<1>8. ~(step < FirstForm) /\ ~processingSubmit
  BY <1>1 DEF Traced, Submitted
<1>9. Traced'
  BY <1>1, <1>5, <1>7, <1>8 DEF Traced
<1>10. Submitted'
  BY <1>1, <1>7, <1>8 DEF Submitted, processingSubmit
<1> QED
  BY <1>6, <1>9, <1>10

\* Without an excuse: the server, and the answer to the oldest check.
LEMMA TracedCheck ==
    ASSUME PageInv, TraceTypes, Traced, Submitted, excuse' = {}, NEW i \in DOMAIN checks,
           handleInstallCheckConfig(i) \/ checkConfigSuccess(i) \/ checkConfigFailure(i)
    PROVE  TraceTypes' /\ Traced' /\ Submitted'
<1>1. /\ UNCHANGED <<wizard, step, field, loaded, typed, timers, submit, onDisk, installed>>
  BY DEF handleInstallCheckConfig, checkConfigSuccess, checkConfigFailure, Rerender, serverVars
<1>2. FormSteps' = FormSteps /\ FirstForm' = FirstForm /\ LastPage' = LastPage
  BY <1>1 DEF FormSteps, FirstForm, LastPage
<1>3. checks \in Seq(Checks) /\ i \in 1..Len(checks) /\ Len(checks) \in Nat /\ checks # <<>>
  BY LenProperties DEF TraceTypes
<1>4. ~(step < FirstForm) /\ ~processingSubmit
  BY <1>3 DEF Traced, Submitted
<1>5. ASSUME Latest' = Latest, TraceTypes'
      PROVE  TraceTypes' /\ Traced' /\ Submitted'
  <2>1. Traced'
    BY <1>1, <1>2, <1>4, <1>5 DEF Traced
  <2>2. Submitted'
    BY <1>1, <1>2, <1>4 DEF Submitted, processingSubmit
  <2> QED
    BY <1>5, <2>1, <2>2
<1>6. CASE handleInstallCheckConfig(i)
  <2>1. PICK ph \in {"ok", "err"} : checks' = [checks EXCEPT ![i].phase = ph] /\ known' = known
    BY <1>6 DEF handleInstallCheckConfig
  <2>2. /\ checks' \in Seq(Checks) /\ Len(checks') = Len(checks)
        /\ \A k \in 1..Len(checks) : checks'[k].addr = checks[k].addr
    <3> DEFINE c == [checks[i] EXCEPT !.phase = ph]
    <3>1. \A d \in Checks : [d EXCEPT !.phase = ph] \in Checks /\ [d EXCEPT !.phase = ph].addr = d.addr
      BY DEF Checks
    <3>2. c \in Checks /\ c.addr = checks[i].addr
      BY <1>3, <3>1, ElementOfSeq
    <3>3. checks' = [checks EXCEPT ![i] = c]
      BY <2>1
    <3> HIDE DEF c
    <3>4. checks' \in Seq(Checks) /\ Len(checks') = Len(checks)
      BY <1>3, <3>2, <3>3, ExceptSeq
    <3> QED
      BY <1>3, <3>2, <3>3, <3>4
  <2>3. checks' # <<>> /\ checks'[Len(checks')].addr = checks[Len(checks)].addr
    BY <1>3, <2>2
  <2>4. Latest' = Latest
    BY <1>1, <1>3, <2>1, <2>3, LatestFacts, LatestFactsNext
  <2>5. TraceTypes'
    BY <1>1, <2>1, <2>2 DEF TraceTypes
  <2> QED
    BY <1>5, <2>4, <2>5
<1>7. CASE checkConfigSuccess(i)
  <2>1. /\ known' = checks[i].addr /\ checks' = RemoveAt(checks, i)
        /\ excuse' = excuse \union (IF i > 1 THEN {"overtaken"} ELSE {})
    BY <1>7 DEF checkConfigSuccess, Answered
  <2>2. i = 1
    <3>1. ~(i > 1)
      BY <2>1
    <3> QED
      BY <1>3, <3>1
  <2>3. /\ checks' = Tail(checks) /\ known' = Head(checks).addr
        /\ Head(checks) \in Checks /\ checks' \in Seq(Checks)
        /\ checks' # <<>> => checks'[Len(checks')] = checks[Len(checks)]
        /\ checks' = <<>> => Head(checks) = checks[Len(checks)]
    <3>1. checks' = Tail(checks) /\ known' = checks[1].addr
      BY <1>3, <2>1, <2>2, FirstRemoved
    <3>2. /\ Tail(checks) \in Seq(Checks) /\ Head(checks) \in Checks
          /\ Tail(checks) # <<>> => Tail(checks)[Len(Tail(checks))] = checks[Len(checks)]
          /\ Tail(checks) = <<>> => Head(checks) = checks[Len(checks)]
          /\ Head(checks) = checks[1]
      BY <1>3, TailLast
    <3> QED
      BY <3>1, <3>2
  <2>4. Latest' = Latest
    BY <1>1, <1>3, <2>3, LatestFacts, LatestFactsNext
  <2>5. TraceTypes'
    BY <1>1, <2>3 DEF TraceTypes, Checks
  <2> QED
    BY <1>5, <2>4, <2>5
<1>8. CASE checkConfigFailure(i)
  BY <1>8 DEF checkConfigFailure
<1> QED
  BY <1>6, <1>7, <1>8

\* Without an excuse: the proposed address arrives.
LEMMA TracedDefault ==
    ASSUME PageInv, TraceTypes, Traced, Submitted, getDefaultAddresses
    PROVE  TraceTypes' /\ Traced' /\ Submitted'
<1>1. /\ ~loaded /\ loaded' /\ known' \in {1, known}
      /\ UNCHANGED <<wizard, step, field, typed, timers, checks, submit, onDisk, installed>>
  BY DEF getDefaultAddresses, serverVars
<1>2. typed = NoForm /\ step = 1
  BY <1>1 DEF Traced
<1>3. TraceTypes'
  BY <1>1 DEF TraceTypes, Known, NoForm
<1>4. Traced'
  BY <1>1, <1>2 DEF Traced, FormSteps, FirstForm
<1>5. Submitted'
  BY <1>1 DEF Submitted, processingSubmit, LastPage
<1> QED
  BY <1>3, <1>4, <1>5

\* Without an excuse: the address that is sent is the one that was typed.
LEMMA TracedInstall ==
    ASSUME PageInv, TraceTypes, Traced, Submitted, excuse' = {}, AuthV1 \/ SubmitV2
    PROVE  TraceTypes' /\ Traced' /\ Submitted'
<1>1. /\ ~processingSubmit /\ submit' = [phase |-> "sent", addr |-> known]
      /\ excuse' = excuse \union (IF Outstanding THEN {"hasty"} ELSE {})
      /\ UNCHANGED <<wizard, step, field, loaded, known, typed, timers, checks, onDisk, installed>>
  BY DEF AuthV1, SubmitV2, setAllSettings, Rerender, serverVars
<1>2. /\ step = LastPage /\ step > FirstForm
      /\ wizard = "v2" => submit.phase # "submitted"
  BY DEF AuthV1, SubmitV2, LastPage, FirstForm
<1>3. timers = <<>> /\ checks = <<>>
  BY <1>1 DEF Outstanding
<1>4. typed # NoForm /\ known = typed
  BY <1>2, <1>3, LatestFacts DEF Traced
<1>5. ~installed
  <2>1. submit.phase # "submitted"
    BY <1>2 DEF Submitted, LastPage, PageInv
  <2> QED
    BY <1>1, <2>1 DEF Submitted, processingSubmit
<1>6. TraceTypes'
  BY <1>1 DEF TraceTypes, Known
<1>7. Latest' = Latest
  BY <1>1 DEF Latest
<1>8. FormSteps' = FormSteps /\ FirstForm' = FirstForm /\ LastPage' = LastPage
  BY <1>1 DEF FormSteps, FirstForm, LastPage
<1>9. Traced'
  BY <1>1, <1>7, <1>8 DEF Traced
<1>10. submit'.phase = "sent" /\ submit'.addr = typed'
  BY <1>1, <1>4
<1>11. Submitted'
  BY <1>1, <1>2, <1>3, <1>5, <1>8, <1>10 DEF Submitted
<1> QED
  BY <1>6, <1>9, <1>11

\* Without an excuse: the server's answer to the installation.
LEMMA TracedServer ==
    ASSUME PageInv, TraceTypes, Traced, Submitted, excuse' = {}, RefuseInstall \/ finalizeInstall
    PROVE  TraceTypes' /\ Traced' /\ Submitted'
<1>1. UNCHANGED <<wizard, step, field, loaded, known, typed, timers, checks>>
  BY DEF RefuseInstall, finalizeInstall
<1>2. FormSteps' = FormSteps /\ FirstForm' = FirstForm /\ LastPage' = LastPage
  BY <1>1 DEF FormSteps, FirstForm, LastPage
<1>3. Latest' = Latest
  BY <1>1 DEF Latest
<1>4. Traced'
  BY <1>1, <1>2, <1>3 DEF Traced
<1>5. /\ submit.phase = "sent"
      /\ \/ submit' = [submit EXCEPT !.phase = "err"] /\ UNCHANGED <<onDisk, installed>>
         \/ submit' = [submit EXCEPT !.phase = "ok"] /\ onDisk' = submit.addr
  <2>1. CASE RefuseInstall
    <3>1. /\ submit.phase \in {"sent", "ok"}
          /\ submit' = [submit EXCEPT !.phase = "err"] /\ UNCHANGED <<onDisk, installed>>
          /\ excuse' = excuse \union (IF submit.phase = "ok" THEN {"failed"} ELSE {})
      BY <2>1 DEF RefuseInstall
    <3> QED
      BY <3>1
  <2>2. CASE finalizeInstall
    BY <2>2 DEF finalizeInstall
  <2> QED
    BY <2>1, <2>2
<1>6. /\ step = LastPage /\ timers = <<>> /\ checks = <<>> /\ submit.addr = typed
      /\ ~installed
  BY <1>5 DEF Submitted, processingSubmit
<1>7. /\ submit' \in [phase : {"none", "sent", "ok", "err", "submitted"}, addr : Nat]
      /\ submit'.addr = submit.addr
      /\ \/ submit'.phase = "err" /\ UNCHANGED <<onDisk, installed>>
         \/ submit'.phase = "ok" /\ onDisk' = typed
  BY <1>5, <1>6 DEF TraceTypes
<1>8. TraceTypes'
  BY <1>1, <1>7 DEF TraceTypes
<1>9. Submitted'
  BY <1>1, <1>2, <1>6, <1>7 DEF Submitted
<1> QED
  BY <1>4, <1>8, <1>9

\* Without an excuse: what the answer does to the page.
LEMMA TracedAnswer ==
    ASSUME PageInv, TraceTypes, Traced, Submitted, setAllSettingsSuccess \/ setAllSettingsFailure
    PROVE  TraceTypes' /\ Traced' /\ Submitted'
<1>1. UNCHANGED <<wizard, loaded, known, typed, checks, onDisk, installed>>
  BY DEF setAllSettingsSuccess, setAllSettingsFailure, serverVars
<1>2. /\ processingSubmit /\ step = LastPage /\ timers = <<>> /\ checks = <<>>
  BY DEF setAllSettingsSuccess, setAllSettingsFailure, processingSubmit, Submitted
<1>3. FormSteps' = FormSteps /\ FirstForm' = FirstForm /\ LastPage' = LastPage
  BY <1>1 DEF FormSteps, FirstForm, LastPage
<1>4. wizard \in {"v1", "v2"} /\ step > FirstForm /\ step # 1
  BY <1>2 DEF PageInv, LastPage, FirstForm
<1>5. typed # NoForm /\ known = typed /\ loaded
  BY <1>2, <1>4, LatestFacts DEF Traced
<1>6. /\ submit' \in [phase : {"none", "sent", "ok", "err", "submitted"}, addr : Nat]
      /\ \/ setAllSettingsSuccess /\ submit.phase = "ok" /\ submit'.phase = "submitted"
         \/ setAllSettingsFailure /\ submit.phase = "err" /\ submit'.phase = "none"
  BY DEF TraceTypes, setAllSettingsSuccess, setAllSettingsFailure, Nothing
<1>7. \/ wizard = "v2" /\ step' = step /\ timers' = timers
      \/ /\ wizard = "v1" /\ submit'.phase = "submitted" /\ step' = 4 /\ timers' = timers
      \/ /\ wizard = "v1" /\ submit'.phase = "none" /\ step' = 2 /\ field' = known
         /\ timers' \in Seq(Known) /\ timers' # <<>> /\ timers'[Len(timers')] = known
  <2>1. CASE wizard = "v2"
    BY <2>1 DEF setAllSettingsSuccess, setAllSettingsFailure, Rerender
  <2>2. CASE wizard = "v1" /\ setAllSettingsSuccess /\ submit'.phase = "submitted"
    <3>1. Enter(step + 1, known, timers) /\ step + 1 = 4 /\ 4 \notin FormSteps
      BY <1>2, <2>2 DEF setAllSettingsSuccess, LastPage, FormSteps
    <3> QED
      BY <2>2, <3>1, EnterOther
  <2>3. CASE wizard = "v1" /\ setAllSettingsFailure /\ submit'.phase = "none"
    <3>1. Enter(step - 1, known, timers) /\ step - 1 = 2 /\ 2 \in FormSteps
      BY <1>2, <2>3 DEF setAllSettingsFailure, LastPage, FormSteps
    <3>2. Enter(2, known, timers)
      BY <3>1
    <3> QED
      BY <2>3, <3>1, <3>2, EnterForm DEF TraceTypes
  <2> QED
    BY <1>4, <1>6, <2>1, <2>2, <2>3
<1>8. TraceTypes'
  BY <1>1, <1>6, <1>7 DEF TraceTypes
<1>9. Latest' = typed
  BY <1>1, <1>2, <1>5, <1>7, LatestFactsNext
<1>10. Traced'
  <2>1. step' # 1 /\ ~(step' < FirstForm)
    BY <1>2, <1>4, <1>7 DEF LastPage, FirstForm
  <2>2. step' \in FormSteps => field' = known /\ known \in Known
    BY <1>2, <1>7 DEF LastPage, FormSteps, TraceTypes
  <2> QED
    BY <1>1, <1>3, <1>5, <1>9, <2>1, <2>2 DEF Traced
<1>11. Submitted'
  <2>1. ~processingSubmit'
    BY <1>6 DEF processingSubmit
  <2>2. submit'.phase = "submitted" => step' > LastPage \/ (wizard = "v2" /\ step' = 6)
    BY <1>2, <1>7 DEF LastPage
  <2>3. installed => submit'.phase = "submitted" /\ onDisk = typed
    BY <1>6 DEF Submitted
  <2> QED
    BY <1>1, <1>3, <2>1, <2>2, <2>3 DEF Submitted
<1> QED
  BY <1>8, <1>10, <1>11

\* What went wrong once is not forgotten.
LEMMA ExcusesStay == InstallNext => excuse \subseteq excuse'
<1>1. \A i : /\ handleInstallCheckConfig(i) => excuse \subseteq excuse'
             /\ checkConfigSuccess(i) => excuse \subseteq excuse'
             /\ checkConfigFailure(i) => excuse \subseteq excuse'
  BY DEF handleInstallCheckConfig, checkConfigSuccess, checkConfigFailure
<1>2. getDefaultAddresses \/ checkConfig \/ RefuseInstall \/ finalizeInstall
        \/ setAllSettingsSuccess \/ setAllSettingsFailure => excuse \subseteq excuse'
  BY DEF getDefaultAddresses, checkConfig, RefuseInstall, finalizeInstall,
         setAllSettingsSuccess, setAllSettingsFailure
<1>3. ControlsV1 \/ SettingsV1 \/ AuthV1 => excuse \subseteq excuse'
  BY Moves DEF ControlsV1, SettingsV1, AuthV1
<1>4. ControlsV2 \/ AuthV2 \/ InterfaceSettings \/ DnsSettings \/ SubmitV2
        => excuse \subseteq excuse'
  BY Moves DEF ControlsV2, AuthV2, InterfaceSettings, DnsSettings, SubmitV2
<1> QED
  BY <1>1, <1>2, <1>3, <1>4 DEF InstallNext

\* The wizard starts with the built-in address and nothing typed.
LEMMA TypedInit == InstallInit => TypedInv
<1> SUFFICES ASSUME InstallInit PROVE TypedInv
  OBVIOUS
<1>1. /\ known = 0 /\ timers = <<>> /\ checks = <<>> /\ submit = Nothing /\ step = 1
      /\ typed = NoForm /\ ~installed
  BY DEF InstallInit
<1>2. TraceTypes
  BY <1>1 DEF TraceTypes, Known, NoForm, Nothing
<1>3. Traced
  BY <1>1 DEF Traced, FormSteps, FirstForm
<1>4. Submitted
  BY <1>1 DEF Submitted, processingSubmit, Nothing
<1> QED
  BY <1>2, <1>3, <1>4, PageInit DEF TypedInv

\* Every step keeps track of the address.
LEMMA TypedNext == TypedInv /\ [InstallNext]_installVars => TypedInv'
<1> SUFFICES ASSUME TypedInv, [InstallNext]_installVars PROVE TypedInv'
  OBVIOUS
<1>1. PageInv /\ PageInv'
  BY PageNext DEF TypedInv
<1> SUFFICES ASSUME excuse' = {} PROVE TraceTypes' /\ Traced' /\ Submitted'
  BY <1>1 DEF TypedInv
<1>2. excuse = {}
  BY ExcusesStay DEF installVars
<1>3. TraceTypes /\ Traced /\ Submitted
  BY <1>2 DEF TypedInv
<1>4. CASE ControlsV1 \/ ControlsV2 \/ AuthV2
  BY <1>1, <1>2, <1>3, <1>4, TracedControls
<1>5. CASE SettingsV1 \/ InterfaceSettings \/ DnsSettings
  <2>1. step \in FormSteps
    BY <1>5 DEF SettingsV1, InterfaceSettings, DnsSettings, FormSteps
  <2>2. onSubmit \/ handleFix \/ \E a \in Addresses : useInstallSettingsForm(a)
    BY <1>5 DEF SettingsV1, InterfaceSettings, DnsSettings
  <2> QED
    BY <1>1, <1>2, <1>3, <2>1, <2>2, TracedSubmit, TracedFix, TracedTyping
<1>6. CASE AuthV1 \/ SubmitV2
  BY <1>1, <1>3, <1>6, TracedInstall
<1>7. CASE getDefaultAddresses
  BY <1>1, <1>3, <1>7, TracedDefault
<1>8. CASE checkConfig
  BY <1>1, <1>3, <1>8, TracedSend
<1>9. CASE RefuseInstall \/ finalizeInstall
  BY <1>1, <1>3, <1>9, TracedServer
<1>10. CASE setAllSettingsSuccess \/ setAllSettingsFailure
  BY <1>1, <1>3, <1>10, TracedAnswer
<1>11. ASSUME NEW i \in DOMAIN checks,
              handleInstallCheckConfig(i) \/ checkConfigSuccess(i) \/ checkConfigFailure(i)
       PROVE  TraceTypes' /\ Traced' /\ Submitted'
  BY <1>1, <1>3, <1>11, TracedCheck
<1>12. CASE UNCHANGED installVars
  BY <1>3, <1>12 DEF installVars, serverVars, TraceTypes, Traced, Submitted, FormSteps, FirstForm,
                     LastPage, Latest, processingSubmit
<1> QED
  BY <1>4, <1>5, <1>6, <1>7, <1>8, <1>9, <1>10, <1>11, <1>12 DEF InstallNext

-----------------------------------------------------------------------------
(* The configuration in memory.  It may be changed without the file by an  *)
(* installation that panics, but then the user is there and the server     *)
(* never gets installed.                                                   *)

MemoryInv == installed => config = onDisk \/ reverted

\* Every step keeps it.
LEMMA MemoryNext == MemoryInv /\ [InstallNext]_installVars => MemoryInv'
<1> SUFFICES ASSUME MemoryInv, [InstallNext]_installVars PROVE MemoryInv'
  OBVIOUS
<1> USE DEF MemoryInv
<1>1. ASSUME UNCHANGED serverVars PROVE MemoryInv'
  BY <1>1 DEF serverVars
<1>2. CASE RefuseInstall
  BY <1>2 DEF RefuseInstall
<1>3. CASE finalizeInstall
  BY <1>3 DEF finalizeInstall
<1>4. CASE ControlsV1 \/ SettingsV1 \/ AuthV1
  <2>1. UNCHANGED serverVars
    BY <1>4 DEF ControlsV1, SettingsV1, AuthV1, handleNextStep, handlePrevStep, onSubmit,
                handleFix, useInstallSettingsForm, setAllSettings
  <2> QED
    BY <1>1, <2>1
<1>5. CASE ControlsV2 \/ AuthV2 \/ InterfaceSettings \/ DnsSettings \/ SubmitV2
  <2>1. UNCHANGED serverVars
    BY <1>5 DEF ControlsV2, AuthV2, InterfaceSettings, DnsSettings, SubmitV2, handleNextStep,
                handlePrevStep, handleAuthSubmit, onSubmit, handleFix,
                useInstallSettingsForm, setAllSettings
  <2> QED
    BY <1>1, <2>1
<1>6. CASE getDefaultAddresses \/ checkConfig \/ setAllSettingsSuccess \/ setAllSettingsFailure
  <2>1. UNCHANGED serverVars
    BY <1>6 DEF getDefaultAddresses, checkConfig, setAllSettingsSuccess, setAllSettingsFailure
  <2> QED
    BY <1>1, <2>1
<1>7. ASSUME NEW i \in DOMAIN checks,
             handleInstallCheckConfig(i) \/ checkConfigSuccess(i) \/ checkConfigFailure(i)
      PROVE  MemoryInv'
  <2>1. UNCHANGED serverVars
    BY <1>7 DEF handleInstallCheckConfig, checkConfigSuccess, checkConfigFailure
  <2> QED
    BY <1>1, <2>1
<1>8. CASE UNCHANGED installVars
  BY <1>1, <1>8 DEF installVars
<1> QED
  BY <1>2, <1>3, <1>4, <1>5, <1>6, <1>7, <1>8 DEF InstallNext

\* What the installation writes is what was typed last, although only the answers to
\* checks put addresses into the store that is installed: no check is lost on the way,
\* however fast the user is and however often the debouncer is made anew, unless one of
\* the listed mishaps has happened.  And the server runs with what it has written,
\* unless its last flush has failed, whoever tries to install before or after.
THEOREM InstalledAsTypedTheorem == InstallSpec => []InstalledAsTyped
<1>1. TypedInv /\ MemoryInv => InstalledAsTyped
  BY DEF TypedInv, Submitted, MemoryInv, InstalledAsTyped
<1>2. InstallInit => MemoryInv
  BY DEF InstallInit, MemoryInv
<1> QED
  BY <1>1, <1>2, TypedInit, TypedNext, MemoryNext, PTL DEF InstallSpec

=============================================================================
