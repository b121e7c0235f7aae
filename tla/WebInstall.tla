----------------------------- MODULE WebInstall -----------------------------
(***************************************************************************)
(* The installation wizard of both web clients (client/src/install/Setup   *)
(* and client_v2/src/install/Setup) and the server's side of it.           *)
(*                                                                         *)
(* The addresses that the web interface and the DNS server shall listen on *)
(* are typed into a field, but what is installed is what the store holds,   *)
(* and an address enters the store only with the answer of the request     *)
(* that checks it, sent some time after the last keystroke.  Addresses are *)
(* numbers: 0 the built-in one, 1 the one that the server proposes, others *)
(* typed by the user.  Whether an address is free travels with the answer  *)
(* that puts it into the store and is left out; so are invalid ports,      *)
(* which neither are checked nor let the user go on, and the texts.        *)
(***************************************************************************)
EXTENDS Naturals, Sequences, SequencesExt

CONSTANTS Wizards,      \* which wizards: "v1", "v2"
          Addresses,    \* what the user may type
          MaxTyped,     \* how often the user types or asks for a fix
          MaxTurns,     \* how often the user goes back or installs
          MaxChecks,    \* how many checks are in flight at once
          MaxFaults     \* how many requests fail

VARIABLES wizard,
          step,         \* the page of the wizard
          loaded,       \* the proposed address has arrived, or has not come
          known,        \* the address in the store
          field,        \* the address in the form that is on screen, or NoForm
          typed,        \* the address that the user has typed or confirmed last
          timers,       \* debounced checks that have not been sent yet
          fresh,        \* the last of them still belongs to the debouncer
          checks,       \* the checks in flight, in the order they were sent
          submit,       \* the request that installs, and its address
          config,       \* the address in the server's configuration in memory
          onDisk,       \* the address in its configuration file, or NoFile
          installed,    \* the server has left its first run
          reverted,     \* it has put the configuration in memory back then
          users,        \* the server's users
          edits, turns, faults,
          excuse        \* what the user or the network did wrong

serverVars == <<config, onDisk, installed, reverted, users>>
installVars == <<wizard, step, loaded, known, field, typed, timers, fresh, checks,
                 submit, serverVars, edits, turns, faults, excuse>>

NoForm == 100
NoFile == 100

ASSUME InstallAssumption ==
    /\ Wizards \subseteq {"v1", "v2"}
    /\ Addresses \subseteq Nat \ {NoForm}

Nothing == [phase |-> "none", addr |-> 0]
Login == "admin"        \* the user does not change the name in between

Total == IF wizard = "v1" THEN 5 ELSE 6
FormSteps == IF wizard = "v1" THEN {2} ELSE {3, 4}

InstallInit ==
    /\ wizard \in Wizards
    /\ step = 1
    /\ loaded = FALSE
    /\ known = 0 /\ field = NoForm /\ typed = NoForm
    /\ timers = <<>> /\ fresh = FALSE
    /\ checks = <<>>
    /\ submit = Nothing
    /\ config = 0 /\ onDisk = NoFile /\ users = {}
    /\ installed = FALSE /\ reverted = FALSE
    /\ edits = 0 /\ turns = 0 /\ faults = 0
    /\ excuse = {}

processingSubmit == submit.phase \in {"sent", "ok", "err"}

-----------------------------------------------------------------------------
(* Mutant: the check that is due stays as it was. *)
debouncedFirst(a, old, own) == IF old # <<>> THEN old ELSE <<a>>

(* A check of a is due after a while, instead of the one that the debouncer
   still holds.  v1 makes a debouncer whenever the wizard is rendered anew;
   the checks that the older ones hold are sent all the same. *)
debouncedCheckConfig(a, old, own) ==
    IF old # <<>> /\ own THEN Append(Front(old), a) ELSE Append(old, a)

(* The debouncer holds the last of the pending checks. *)
Own == wizard = "v2" \/ fresh

(* The step is another one: a form starts from the store and is checked when
   it appears.  pending are the checks that are due by then. *)
Enter(s, store, pending) ==
    /\ step' = s
    /\ IF s \in FormSteps
       THEN /\ field' = store
            /\ timers' = debouncedCheckConfig(store, pending, wizard = "v2")
            /\ fresh' = TRUE
       ELSE field' = NoForm /\ timers' = pending /\ fresh' = FALSE

(* The store has changed, and the wizard is rendered anew. *)
Rerender == UNCHANGED <<step, field>> /\ fresh' = FALSE

(* The address that the user sees as the chosen one is still to be checked. *)
Outstanding == timers # <<>> \/ checks # <<>>

-----------------------------------------------------------------------------
(* getDefaultAddresses: the answer, or a failure, ends the loading screen. *)
getDefaultAddresses ==
    /\ ~loaded
    /\ loaded' = TRUE
    /\ \/ known' = 1 /\ UNCHANGED faults
       \/ faults < MaxFaults /\ faults' = faults + 1 /\ UNCHANGED known
    /\ UNCHANGED <<wizard, step, field, typed, timers, fresh, checks, submit,
                   serverVars, edits, turns, excuse>>

(* A field of a form is changed. *)
useInstallSettingsForm(a) ==
    /\ field # a
    /\ edits < MaxTyped
    /\ edits' = edits + 1
    /\ field' = a /\ typed' = a
    /\ timers' = debouncedCheckConfig(a, timers, Own)
    /\ fresh' = TRUE
    /\ UNCHANGED <<wizard, step, loaded, known, checks, submit, serverVars,
                   turns, faults, excuse>>

(* The buttons that have a busy port freed or a static address set send a
   check at once. *)
handleFix ==
    /\ edits < MaxTyped
    /\ edits' = edits + 1
    /\ Len(checks) < MaxChecks
    /\ checks' = Append(checks, [addr |-> field, phase |-> "sent"])
    /\ Rerender
    /\ UNCHANGED <<wizard, loaded, known, typed, timers, submit, serverVars,
                   turns, faults, excuse>>

(* The oldest debounced check is sent. *)
checkConfig ==
    /\ timers # <<>> /\ Len(checks) < MaxChecks
    /\ timers' = Tail(timers)
    /\ checks' = Append(checks, [addr |-> Head(timers), phase |-> "sent"])
    /\ Rerender
    /\ UNCHANGED <<wizard, loaded, known, typed, submit, serverVars, edits,
                   turns, faults, excuse>>

(* "Get started", and "Next" on the pages that only inform. *)
handleNextStep ==
    /\ loaded
    /\ Enter(step + 1, known, timers)
    /\ UNCHANGED <<wizard, loaded, known, typed, checks, submit, serverVars,
                   edits, turns, faults, excuse>>

(* "Next" on a form: what it holds is checked once more.  In v2 the second
   form then starts from the store and has that checked instead; it does not
   show the fields of the first one, so it does not confirm them. *)
onSubmit ==
    /\ typed' = IF wizard = "v2" /\ step = 4 THEN typed ELSE field
    /\ Enter(step + 1, known, debouncedCheckConfig(field, timers, Own))
    /\ excuse' = excuse \union
          (IF wizard = "v2" /\ step = 3 /\ known # field
           THEN {"left form"} ELSE {})
    /\ UNCHANGED <<wizard, loaded, known, checks, submit, serverVars, edits,
                   turns, faults>>

(* "Back" is never disabled. *)
handlePrevStep ==
    /\ loaded
    /\ turns < MaxTurns /\ turns' = turns + 1
    /\ Enter(step - 1, known, timers)
    /\ excuse' = excuse \union (IF processingSubmit THEN {"backed"} ELSE {})
          \union (IF Outstanding THEN {"back early"} ELSE {})
    /\ UNCHANGED <<wizard, loaded, known, typed, checks, submit, serverVars,
                   edits, faults>>

(* v2 puts the name and the password into its store; v1 sends them. *)
handleAuthSubmit ==
    /\ Enter(step + 1, known, timers)
    /\ UNCHANGED <<wizard, loaded, known, typed, checks, submit, serverVars,
                   edits, turns, faults, excuse>>

(* The addresses of the store are installed. *)
setAllSettings ==
    /\ turns < MaxTurns /\ turns' = turns + 1
    /\ ~processingSubmit
    /\ submit' = [phase |-> "sent", addr |-> known]
    /\ excuse' = excuse \union (IF Outstanding THEN {"hasty"} ELSE {})
    /\ Rerender
    /\ UNCHANGED <<wizard, loaded, known, typed, timers, checks, serverVars,
                   edits, faults>>

-----------------------------------------------------------------------------
(* The server checks an address as long as it is not installed. *)
handleInstallCheckConfig(i) ==
    /\ checks[i].phase = "sent"
    /\ \/ /\ ~installed
          /\ checks' = [checks EXCEPT ![i].phase = "ok"]
          /\ UNCHANGED faults
       \/ /\ installed \/ faults < MaxFaults
          /\ faults' = IF installed THEN faults ELSE faults + 1
          /\ checks' = [checks EXCEPT ![i].phase = "err"]
    /\ UNCHANGED <<wizard, step, loaded, known, field, typed, timers, fresh, submit,
                   serverVars, edits, turns, excuse>>

(* The request comes back with an error: the server is not in its first run
   any more, or the request is no valid one, or its answer is lost.  addUser
   panics when there is such a user already, which ends the connection; the
   configuration in memory has been changed by then and stays so. *)
RefuseInstall ==
    /\ \/ /\ submit.phase = "sent" /\ installed
          /\ UNCHANGED <<config, faults>>
       \/ /\ submit.phase = "sent" /\ ~installed /\ Login \in users
          /\ config' = submit.addr
          /\ UNCHANGED faults
       \/ /\ submit.phase \in {"sent", "ok"}
          /\ faults < MaxFaults /\ faults' = faults + 1
          /\ UNCHANGED config
    /\ submit' = [submit EXCEPT !.phase = "err"]
    /\ excuse' = excuse \union (IF submit.phase = "ok" THEN {"failed"} ELSE {})
    /\ UNCHANGED <<wizard, step, loaded, known, field, typed, timers, fresh, checks,
                   onDisk, installed, reverted, users, edits, turns>>

(* What is left of the installation when a step of it has failed. *)
FailInstall ==
    /\ faults < MaxFaults /\ faults' = faults + 1
    /\ UNCHANGED config

(* finalizeInstall: the user is added, the DNS server started, the
   configuration written and the answer flushed.  If any of the three latter
   fails, the configuration in memory is put back as it was.  The user stays,
   and so does what has been done by then: when it is the flush that fails,
   the server is installed.  The answer may get through all the same. *)
finalizeInstall ==
    /\ submit.phase = "sent"
    /\ ~installed /\ Login \notin users
    /\ users' = users \union {Login}
    /\ \/ /\ submit' = [submit EXCEPT !.phase = "ok"]
          /\ config' = submit.addr /\ onDisk' = submit.addr /\ installed' = TRUE
          /\ UNCHANGED <<reverted, faults, excuse>>
       \/ /\ FailInstall
          /\ submit' = [submit EXCEPT !.phase = "err"]
          /\ UNCHANGED <<onDisk, installed, reverted, excuse>>
       \/ /\ FailInstall
          /\ onDisk' = submit.addr /\ installed' = TRUE /\ reverted' = TRUE
          /\ \/ submit' = [submit EXCEPT !.phase = "ok"] /\ UNCHANGED excuse
             \/ /\ submit' = [submit EXCEPT !.phase = "err"]
                /\ excuse' = excuse \union {"failed"}
    /\ UNCHANGED <<wizard, step, loaded, known, field, typed, timers, fresh, checks,
                   edits, turns>>

(* What an answer puts into the store. *)
Answered(c) == c.addr

(* A check is answered.  An earlier one that is still in flight will put its
   own address into the store over this one. *)
checkConfigSuccess(i) ==
    /\ checks[i].phase = "ok"
    /\ known' = Answered(checks[i])
    /\ checks' = RemoveAt(checks, i)
    /\ excuse' = excuse \union (IF i > 1 THEN {"overtaken"} ELSE {})
    /\ Rerender
    /\ UNCHANGED <<wizard, loaded, typed, timers, submit, serverVars, edits,
                   turns, faults>>

checkConfigFailure(i) ==
    /\ checks[i].phase = "err"
    /\ checks' = RemoveAt(checks, i)
    /\ excuse' = excuse \union {"failed"}
    /\ Rerender
    /\ UNCHANGED <<wizard, loaded, known, typed, timers, submit, serverVars,
                   edits, turns, faults>>

(* v1 goes one page on from wherever the user is by then. *)
setAllSettingsSuccess ==
    /\ submit.phase = "ok"
    /\ submit' = [submit EXCEPT !.phase = "submitted"]
    /\ IF wizard = "v1" THEN Enter(step + 1, known, timers)
                        ELSE Rerender /\ UNCHANGED timers
    /\ UNCHANGED <<wizard, loaded, known, typed, checks, serverVars, edits,
                   turns, faults, excuse>>

(* v1 goes one page back from wherever the user is by then. *)
setAllSettingsFailure ==
    /\ submit.phase = "err"
    /\ submit' = Nothing
    /\ IF wizard = "v1" THEN Enter(step - 1, known, timers)
                        ELSE Rerender /\ UNCHANGED timers
    /\ UNCHANGED <<wizard, loaded, known, typed, checks, serverVars, edits,
                   turns, faults, excuse>>

-----------------------------------------------------------------------------
(* The pages of v1. *)

(* Mutant: the first page has a way back, too. *)
ControlsV1Always ==
    /\ wizard = "v1"
    /\ \/ step \in {1, 4} /\ handleNextStep
       \/ step \in {1, 2, 3} /\ handlePrevStep

ControlsV1 ==
    /\ wizard = "v1"
    /\ \/ step \in {1, 4} /\ handleNextStep
       \/ step \in {2, 3} /\ handlePrevStep

SettingsV1 ==
    /\ wizard = "v1" /\ step = 2
    /\ \/ ~processingSubmit /\ onSubmit
       \/ handleFix
       \/ \E a \in Addresses : useInstallSettingsForm(a)

AuthV1 == wizard = "v1" /\ step = 3 /\ setAllSettings

(* The pages of v2, which has a form for the web interface and one for the
   DNS server. *)
ControlsV2 ==
    /\ wizard = "v2"
    /\ \/ step \in {1, 5} /\ handleNextStep
       \/ step \in {2, 3, 4, 5} /\ handlePrevStep

AuthV2 == wizard = "v2" /\ step = 2 /\ handleAuthSubmit

InterfaceSettings ==
    /\ wizard = "v2" /\ step = 3
    /\ \/ onSubmit \/ handleFix
       \/ \E a \in Addresses : useInstallSettingsForm(a)

DnsSettings ==
    /\ wizard = "v2" /\ step = 4
    /\ \/ onSubmit \/ handleFix
       \/ \E a \in Addresses : useInstallSettingsForm(a)

SubmitV2 ==
    /\ wizard = "v2" /\ step = 6
    /\ submit.phase # "submitted"
    /\ setAllSettings

InstallNext ==
    \/ ControlsV1 \/ SettingsV1 \/ AuthV1
    \/ ControlsV2 \/ AuthV2 \/ InterfaceSettings \/ DnsSettings \/ SubmitV2
    \/ getDefaultAddresses \/ checkConfig \/ RefuseInstall \/ finalizeInstall
    \/ setAllSettingsSuccess \/ setAllSettingsFailure
    \/ \E i \in DOMAIN checks :
         handleInstallCheckConfig(i) \/ checkConfigSuccess(i) \/ checkConfigFailure(i)

InstallSpec == InstallInit /\ [][InstallNext]_installVars

-----------------------------------------------------------------------------
(* There is always a page to see: the steps relative to the user's position
   that setAllSettings of v1 takes on success and on failure do not leave the
   wizard's pages, unless the user went back while the request was in flight
   (then a failure can lead to step 0, which renders nothing). *)
WizardOnPage == step \in 1..Total \/ "backed" \in excuse

(* The file that is written by the installation holds what the user has typed,
   although only what has been checked is ever sent: no check is lost, however
   quickly the user went on and however often the debouncer was made anew.
   Excepted are a check that failed or was overtaken by an earlier one, a user
   who went back or installed before the answers were there and, in v2, one who
   left the first form before its last check was answered.  And the server runs
   with what its file says, unless it has put the configuration in memory back
   after it had written the file. *)
InstalledAsTyped ==
    installed => /\ onDisk = typed \/ excuse # {}
                 /\ config = onDisk \/ reverted

(* The same for a user who leaves the first form of v2 at once. *)
InstalledInHaste == installed => onDisk = typed \/ excuse \ {"left form"} # {}

(* The same whatever becomes of the answer. *)
InstalledInMemory == installed => config = onDisk

(* An installation that has failed leaves nothing behind, so that it can be
   tried again. *)
RefusedLeavesNothing ==
    ~processingSubmit /\ ~installed => config = 0 /\ users = {}
=============================================================================
