----------------------------- MODULE WebStatus ------------------------------
(***************************************************************************)
(* What stays alive in both web clients whatever page is open: the polling *)
(* of the server's status, the switch that turns the protection off, for   *)
(* good or for some time, and the countdown that shows when a pause ends.  *)
(*                                                                         *)
(* The server ends a pause by its own clock.  A client only counts down    *)
(* what it was told, no faster than the clock: its timers are late when    *)
(* the tab is in the background.  Whenever the tab becomes visible the     *)
(* client asks for the status again.                                       *)
(***************************************************************************)
EXTENDS Naturals, Sequences, SequencesExt

CONSTANTS Watchers,     \* of "v1" and "v2"
          Pause,        \* the length of a pause, in seconds
          MaxSwitches,  \* how often the user turns the switch
          MaxViews,     \* how often the tab becomes visible
          MaxAttempts   \* how often a status is asked for before giving up

ASSUME StatusAssumption ==
    /\ Watchers \subseteq {"v1", "v2"}
    /\ Pause \in Nat /\ MaxAttempts \in Nat

VARIABLES client,
          protection,   \* at the server: on, and the seconds left of a pause
          view,         \* the same in the store; left = 0 stands for null
          processing,   \* the first status has not arrived: no page is shown
          switching,    \* processingProtection
          countdown,    \* v2: the seconds left on the dashboard's timer
          due,          \* a second has passed since the client last counted
          tasks,        \* requests in flight, and polls that wait for a timer
          switches, views,
          raced,        \* a change has failed, or something else happened during it
          askedOff      \* the user has turned protection off for good

statusVars == <<client, protection, view, processing, switching, countdown, due,
                tasks, switches, views, raced, askedOff>>

Poll(kind) == [kind |-> kind, want |-> FALSE, dur |-> 0, phase |-> "sent",
               attempts |-> MaxAttempts, ans |-> [on |-> FALSE, left |-> 0]]

Setting(want, dur) == [Poll("set") EXCEPT !.want = want, !.dur = dur]

Unprotected(left) == [on |-> FALSE, left |-> left]
Protected == [on |-> TRUE, left |-> 0]

Counting == IF client = "v1" THEN view.left > 0 ELSE countdown > 0

(* A change of the protection is under way together with something else. *)
Overlap(ts) ==
    \E i, j \in DOMAIN ts : /\ i # j
                            /\ ts[i].kind = "set"
                            /\ ts[j].phase # "timer"

-----------------------------------------------------------------------------
(* The App component is mounted: getDnsStatus. *)
Mounted ==
    /\ view' = Unprotected(0) /\ processing' = TRUE /\ switching' = FALSE
    /\ countdown' = 0 /\ due' = FALSE /\ tasks' = <<Poll("dns")>>

StatusInit ==
    /\ client \in Watchers
    /\ protection \in {Protected, Unprotected(Pause)}
    /\ view = Unprotected(0) /\ processing = TRUE /\ switching = FALSE
    /\ countdown = 0 /\ due = FALSE /\ tasks = <<Poll("dns")>>
    /\ switches = 0 /\ views = 0 /\ raced = FALSE /\ askedOff = FALSE

(* A second passes; the server ends the pause. *)
Second ==
    /\ protection.left > 0 \/ Counting
    /\ protection' = CASE protection.left > 1 -> Unprotected(protection.left - 1)
                   [] protection.left = 1 -> Protected
                   [] OTHER -> protection
    /\ due' = TRUE
    /\ UNCHANGED <<client, view, processing, switching, countdown, tasks, switches,
                   views, raced, askedOff>>

(* A thunk adds a request to those in flight. *)
Send(task) ==
    /\ tasks' = Append(tasks, task)
    /\ raced' = (raced \/ Overlap(tasks'))

(* toggleProtection: asks for the opposite of what the store shows. *)
toggleProtection(dur) ==
    /\ switching' = TRUE
    /\ Send(Setting(~view.on, dur))

(* ProtectionTimer of v1: at the end of the countdown the store is turned
   over, and nothing is sent. *)
CountDownV1 ==
    /\ client = "v1"
    /\ view' = IF view.left > 1 THEN [view EXCEPT !.left = @ - 1]
               ELSE [on |-> ~view.on, left |-> 0]
    /\ switching' = (switching /\ view.left > 1)
    /\ raced' = (raced \/ (view.left = 1
                              /\ \E i \in DOMAIN tasks : tasks[i].kind = "set"))
    /\ UNCHANGED <<countdown, tasks>>

(* startCountdown of v2: at its end the protection is toggled. *)
CountDownV2 ==
    /\ client = "v2"
    /\ countdown' = countdown - 1
    /\ UNCHANGED view
    /\ IF countdown > 1 THEN UNCHANGED <<switching, tasks, raced>>
       ELSE toggleProtection(0)

CountDown ==
    /\ Counting /\ due
    /\ due' = FALSE
    /\ CountDownV1 \/ CountDownV2
    /\ UNCHANGED <<client, protection, processing, switches, views, askedOff>>

-----------------------------------------------------------------------------
(* The switch.  In v2 it stops the countdown when it turns protection on. *)
Switch ==
    /\ ~processing /\ ~switching
    /\ switches < MaxSwitches
    /\ switches' = switches + 1
    /\ askedOff' = (askedOff \/ view.on)
    /\ countdown' = IF view.on THEN countdown ELSE 0
    /\ toggleProtection(0)
    /\ UNCHANGED <<client, protection, view, processing, due, views>>

(* The menu of pauses is offered while protection is on; in both clients it
   is not disabled while a change is under way. *)
PauseOffered == ~processing /\ view.on

StartPause ==
    /\ PauseOffered
    /\ switches < MaxSwitches
    /\ switches' = switches + 1
    /\ toggleProtection(Pause)
    /\ UNCHANGED <<client, protection, view, processing, countdown, due, views,
                   askedOff>>

(* The tab becomes visible: getTimerStatus. *)
BecomeVisible ==
    /\ views < MaxViews
    /\ views' = views + 1
    /\ Send(Poll("timer"))
    /\ UNCHANGED <<client, protection, view, processing, switching, countdown, due,
                   switches, askedOff>>

-----------------------------------------------------------------------------
(* The server: handleSetProtection, handleStatus. *)
Answer(i) ==
    /\ tasks[i].phase = "sent"
    /\ protection' = CASE tasks[i].kind # "set" -> protection
                   [] tasks[i].kind = "set" /\ tasks[i].want -> Protected
                   [] OTHER -> Unprotected(tasks[i].dur)
    /\ tasks' = [tasks EXCEPT ![i] = [@ EXCEPT !.phase = "ok", !.ans = protection']]
    /\ UNCHANGED <<client, view, processing, switching, countdown, due, switches,
                   views, raced, askedOff>>

(* Mutant: a status that comes is taken over without its pause. *)
ToldWithoutPause(on, left) ==
    /\ view' = [on |-> on, left |-> 0]
    /\ UNCHANGED <<countdown, due>>

(* The store is told how long a pause will last.  If that is news, the timer
   starts again with it in v1, in v2 only if none is running. *)
Told(on, left) ==
    /\ view' = [on |-> on, left |-> left]
    /\ countdown' = IF client = "v2" /\ countdown = 0 /\ left # view.left THEN left
                    ELSE countdown
    /\ due' = (due /\ Counting /\ (client = "v1" => left = view.left))

(* The change has been made: the store is turned over, whatever it shows. *)
ToggleDone(i) ==
    /\ tasks[i].kind = "set" /\ tasks[i].phase = "ok"
    /\ switching' = FALSE
    /\ Told(~view.on, tasks[i].dur)
    /\ tasks' = RemoveAt(tasks, i)
    /\ UNCHANGED <<client, protection, processing, switches, views, raced, askedOff>>

(* The change was refused, or its answer was lost. *)
ToggleFails(i) ==
    /\ tasks[i].kind = "set" /\ tasks[i].phase \in {"sent", "ok"}
    /\ switching' = FALSE
    /\ tasks' = RemoveAt(tasks, i)
    /\ raced' = TRUE
    /\ UNCHANGED <<client, protection, view, processing, countdown, due, switches,
                   views, askedOff>>

(* clearTimeout: of the timers that are kept in one variable at most one is
   set. *)
rmTimeout(ts) ==
    IF \E i \in DOMAIN ts : ts[i].phase = "timer"
    THEN RemoveAt(ts, CHOOSE i \in DOMAIN ts : ts[i].phase = "timer")
    ELSE ts

(* Mutant: both clients keep the timer in one variable. *)
ClearTimersOfBoth(ts) == rmTimeout(ts)

(* v2 keeps the timer of a poll in one variable for all of them; every poll
   that is answered, or fails, clears it. *)
ClearTimers(ts) == IF client = "v2" THEN rmTimeout(ts) ELSE ts

(* checkStatus succeeds and its handler runs. *)
StatusArrived(i) ==
    /\ tasks[i].kind # "set" /\ tasks[i].phase = "ok"
    /\ Told(tasks[i].ans.on, tasks[i].ans.left)
    /\ processing' = (processing /\ tasks[i].kind # "dns")
    /\ tasks' = ClearTimers(RemoveAt(tasks, i))
    /\ UNCHANGED <<client, protection, switching, switches, views, raced, askedOff>>

(* checkStatus fails, or is told that the server is not running yet: it will
   try again in a second. *)
StatusNotYet(i) ==
    /\ tasks[i].kind # "set" /\ tasks[i].phase = "sent"
    /\ tasks' = Append(ClearTimers(RemoveAt(tasks, i)),
                       [tasks[i] EXCEPT !.phase = "timer", !.attempts = @ - 1])
    /\ UNCHANGED <<client, protection, view, processing, switching, countdown, due,
                   switches, views, raced, askedOff>>

(* The timer of a poll fires; after the last attempt the page is loaded
   anew. *)
TryAgain(i) ==
    /\ tasks[i].phase = "timer"
    /\ IF tasks[i].attempts > 0
       THEN /\ tasks' = [tasks EXCEPT ![i].phase = "sent"]
            /\ raced' = (raced \/ Overlap(tasks'))
            /\ UNCHANGED <<view, processing, switching, countdown, due>>
       ELSE Mounted /\ UNCHANGED raced
    /\ UNCHANGED <<client, protection, switches, views, askedOff>>

StatusNext ==
    \/ Second \/ CountDown \/ Switch \/ StartPause \/ BecomeVisible
    \/ \E i \in DOMAIN tasks :
         \/ Answer(i) \/ ToggleDone(i) \/ ToggleFails(i) \/ StatusArrived(i)
         \/ StatusNotYet(i) \/ TryAgain(i)

StatusSpec == StatusInit /\ [][StatusNext]_statusVars

-----------------------------------------------------------------------------
(* A pause ends: unless the user has turned protection off for good, it is on
   or the server's clock will turn it on.  Nothing that a client does on its
   own account, at the end of a countdown (ProtectionTimer, startCountdown),
   takes that away. *)
PauseEnds == ~protection.on /\ protection.left = 0 => askedOff

(* When nothing is under way, and no change (toggleProtection) has failed or
   met another request or the end of a countdown, the switch shows the
   server's state or counts down to it, however late the timers are and
   whenever the tab was looked at. *)
SwitchIsTrue ==
    tasks = <<>> /\ ~raced /\ ~processing => view.on = protection.on \/ Counting

(* While v1 is hidden behind its loader, the status that will reveal it is
   still being asked for (checkStatus).  v2 may drop the poll: its timers share
   one variable, which an answered getTimerStatus clears. *)
StatusComes ==
    client = "v1" /\ processing => \E i \in DOMAIN tasks : tasks[i].kind = "dns"
=============================================================================
