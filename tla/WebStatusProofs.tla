-------------------------- MODULE WebStatusProofs ---------------------------
(***************************************************************************)
(* Proofs about WebStatus: for pauses of any length, any number of         *)
(* switches, looks at the tab and attempts, the switch of both clients     *)
(* tells the truth unless something raced, and v1 keeps asking for the     *)
(* status that takes its loader away.                                      *)
(***************************************************************************)
EXTENDS WebStatus, SequenceTheorems, TLAPS

States == [on : BOOLEAN, left : Nat]

Tasks == [kind : {"dns", "timer", "set"}, want : BOOLEAN, dur : Nat,
          phase : {"sent", "ok", "timer"}, attempts : Int, ans : States]

TypeInv ==
    /\ client \in {"v1", "v2"}
    /\ protection \in States /\ view \in States
    /\ protection.on => protection.left = 0
    /\ countdown \in Nat
    /\ tasks \in Seq(Tasks)

-----------------------------------------------------------------------------
(* Tasks that are left when some are gone.                                 *)

\* The tasks of r are those that s has at some of the places X.
Within(r, s, X) ==
    \E f \in [DOMAIN r -> X] :
        /\ \A k \in DOMAIN r : r[k] = s[f[k]]
        /\ \A k, l \in DOMAIN r : f[k] = f[l] => k = l

\* Where the k-th task of those left was in the part behind the one removed.
LEMMA PlaceShifts ==
    ASSUME NEW n \in Nat, NEW i \in 1..n, NEW k \in 1..(n - 1), k >= i
    PROVE  /\ k - (i - 1) \in 1..(n - i)
           /\ i + (k - (i - 1)) = k + 1
           /\ k + 1 \in 1..n
           /\ k \in 1..((i - 1) + (n - i))
           /\ ~(k <= i - 1)
  OBVIOUS

\* Removing a task leaves the others, in order.
LEMMA Removed ==
    ASSUME NEW S, NEW s \in Seq(S), NEW i \in DOMAIN s
    PROVE  /\ RemoveAt(s, i) \in Seq(S)
           /\ \A k \in DOMAIN RemoveAt(s, i) :
                /\ k < i => k \in DOMAIN s /\ RemoveAt(s, i)[k] = s[k]
                /\ k >= i => k + 1 \in DOMAIN s /\ RemoveAt(s, i)[k] = s[k + 1]
           /\ Len(RemoveAt(s, i)) = Len(s) - 1
           /\ DOMAIN RemoveAt(s, i) = 1..(Len(s) - 1)
<1> DEFINE x == SubSeq(s, 1, i - 1)
           y == SubSeq(s, i + 1, Len(s))
           r == RemoveAt(s, i)
<1>1. /\ Len(s) \in Nat /\ DOMAIN s = 1..Len(s) /\ i \in 1..Len(s)
      /\ \A k \in 1..Len(s) : s[k] \in S
  BY LenProperties, ElementOfSeq
<1>2. /\ x \in Seq(S) /\ Len(x) = i - 1
      /\ \A k \in 1..(i - 1) : x[k] = s[k]
  BY <1>1, SubSeqProperties
<1>3. /\ y \in Seq(S) /\ Len(y) = Len(s) - i
      /\ \A k \in 1..(Len(s) - i) : y[k] = s[i + k]
  BY <1>1, SubSeqProperties
<1>4. r = x \o y
  BY DEF RemoveAt
<1> HIDE DEF x, y, r
<1>5. /\ r \in Seq(S) /\ Len(r) = Len(x) + Len(y)
      /\ \A k \in 1..(Len(x) + Len(y)) :
           r[k] = IF k <= Len(x) THEN x[k] ELSE y[k - Len(x)]
  BY <1>2, <1>3, <1>4, ConcatProperties
<1>6. DOMAIN r = 1..(Len(s) - 1) /\ Len(r) = Len(s) - 1
  BY <1>1, <1>2, <1>3, <1>5, LenProperties
<1>7. ASSUME NEW k \in DOMAIN r
      PROVE  /\ k < i => k \in DOMAIN s /\ r[k] = s[k]
             /\ k >= i => k + 1 \in DOMAIN s /\ r[k] = s[k + 1]
  <2>1. CASE k < i
    BY <1>1, <1>2, <1>3, <1>5, <1>6, <2>1
  <2>2. CASE k >= i
    <3> DEFINE j == k - (i - 1)
    <3>1. /\ j \in 1..(Len(s) - i) /\ i + j = k + 1 /\ k + 1 \in DOMAIN s
          /\ k \in 1..((i - 1) + (Len(s) - i)) /\ ~(k <= i - 1)
      BY <1>1, <1>6, <2>2, PlaceShifts
    <3>2. r[k] = y[j]
      BY <1>2, <1>3, <1>5, <3>1
    <3> HIDE DEF j
    <3>3. y[j] = s[k + 1]
      BY <1>3, <3>1
    <3>4. ~(k < i)
      BY <1>1, <1>6, <2>2
    <3> QED
      BY <3>1, <3>2, <3>3, <3>4
  <2> QED
    BY <1>1, <1>6, <2>1, <2>2
<1> QED
  BY <1>5, <1>6, <1>7 DEF r

\* So what is left was at another place before.
LEMMA RemovedWithin ==
    ASSUME NEW S, NEW s \in Seq(S), NEW i \in DOMAIN s
    PROVE  Within(RemoveAt(s, i), s, DOMAIN s \ {i})
<1> DEFINE r == RemoveAt(s, i)
           f == [k \in DOMAIN r |-> IF k < i THEN k ELSE k + 1]
<1>1. /\ DOMAIN r = 1..(Len(s) - 1) /\ Len(s) \in Nat /\ DOMAIN s = 1..Len(s)
      /\ \A k \in DOMAIN r : /\ k < i => r[k] = s[k]
                             /\ k >= i => r[k] = s[k + 1]
  BY Removed, LenProperties
<1> HIDE DEF r
<1>2. f \in [DOMAIN r -> DOMAIN s \ {i}]
  BY <1>1
<1>3. \A k \in DOMAIN r : r[k] = s[f[k]]
  BY <1>1
<1>4. \A k, l \in DOMAIN r : f[k] = f[l] => k = l
  BY <1>1
<1> HIDE DEF f
<1>5. Within(r, s, DOMAIN s \ {i})
  BY <1>2, <1>3, <1>4 DEF Within
<1> QED
  BY <1>5 DEF r

\* Every other task is still there.
LEMMA RemovedKeeps ==
    ASSUME NEW S, NEW s \in Seq(S), NEW i \in DOMAIN s,
           NEW j \in DOMAIN s, j # i
    PROVE  \E k \in DOMAIN RemoveAt(s, i) : RemoveAt(s, i)[k] = s[j]
<1>1. /\ DOMAIN RemoveAt(s, i) = 1..(Len(s) - 1) /\ Len(s) \in Nat /\ DOMAIN s = 1..Len(s)
      /\ \A k \in DOMAIN RemoveAt(s, i) : /\ k < i => RemoveAt(s, i)[k] = s[k]
                                          /\ k >= i => RemoveAt(s, i)[k] = s[k + 1]
  BY Removed, LenProperties
<1>2. CASE j < i
  BY <1>1, <1>2
<1>3. CASE j > i
  <2>1. j - 1 \in DOMAIN RemoveAt(s, i) /\ j - 1 >= i /\ (j - 1) + 1 = j
    BY <1>1, <1>3
  <2> QED
    BY <1>1, <2>1
<1> QED
  BY <1>1, <1>2, <1>3

\* What is taken from what was taken.
LEMMA WithinTrans ==
    ASSUME NEW r, NEW s, NEW t, NEW Y, Within(r, s, DOMAIN s), Within(s, t, Y)
    PROVE  Within(r, t, Y)
<1>1. PICK f \in [DOMAIN r -> DOMAIN s] :
        /\ \A k \in DOMAIN r : r[k] = s[f[k]]
        /\ \A k, l \in DOMAIN r : f[k] = f[l] => k = l
  BY DEF Within
<1>2. PICK g \in [DOMAIN s -> Y] :
        /\ \A k \in DOMAIN s : s[k] = t[g[k]]
        /\ \A k, l \in DOMAIN s : g[k] = g[l] => k = l
  BY DEF Within
<1> DEFINE h == [k \in DOMAIN r |-> g[f[k]]]
<1>3. h \in [DOMAIN r -> Y]
  BY <1>1, <1>2
<1>4. \A k \in DOMAIN r : r[k] = t[h[k]]
  BY <1>1, <1>2
<1>5. \A k, l \in DOMAIN r : h[k] = h[l] => k = l
  BY <1>1, <1>2
<1> HIDE DEF h
<1> QED
  BY <1>3, <1>4, <1>5 DEF Within

\* A sequence has its own tasks.
LEMMA WithinSelf == ASSUME NEW s PROVE Within(s, s, DOMAIN s)
<1> DEFINE f == [k \in DOMAIN s |-> k]
<1>1. f \in [DOMAIN s -> DOMAIN s] /\ (\A k \in DOMAIN s : s[k] = s[f[k]])
      /\ \A k, l \in DOMAIN s : f[k] = f[l] => k = l
  OBVIOUS
<1> HIDE DEF f
<1> QED
  BY <1>1 DEF Within

\* Places may be named that no task came from.
LEMMA WithinMore ==
    ASSUME NEW r, NEW s, NEW X, NEW Y, X \subseteq Y, Within(r, s, X)
    PROVE  Within(r, s, Y)
<1>1. PICK f \in [DOMAIN r -> X] :
        /\ \A k \in DOMAIN r : r[k] = s[f[k]]
        /\ \A k, l \in DOMAIN r : f[k] = f[l] => k = l
  BY DEF Within
<1>2. f \in [DOMAIN r -> Y]
  BY <1>1
<1> QED
  BY <1>1, <1>2 DEF Within

\* Clearing the timer of v2 only takes tasks away, in v1 not even that.
LEMMA Cleared ==
    ASSUME NEW s \in Seq(Tasks)
    PROVE  /\ ClearTimers(s) \in Seq(Tasks)
           /\ Within(ClearTimers(s), s, DOMAIN s)
           /\ client = "v1" => ClearTimers(s) = s
<1>1. CASE client = "v2" /\ \E i \in DOMAIN s : s[i].phase = "timer"
  <2> DEFINE c == CHOOSE i \in DOMAIN s : s[i].phase = "timer"
  <2>1. c \in DOMAIN s
    BY <1>1
  <2>2. ClearTimers(s) = RemoveAt(s, c)
    BY <1>1 DEF ClearTimers, rmTimeout
  <2> HIDE DEF c
  <2>3. Within(RemoveAt(s, c), s, DOMAIN s)
    BY <2>1, RemovedWithin, WithinMore
  <2>4. RemoveAt(s, c) \in Seq(Tasks)
    BY <2>1, Removed
  <2> QED
    BY <1>1, <2>2, <2>3, <2>4
<1>2. CASE ~(client = "v2" /\ \E i \in DOMAIN s : s[i].phase = "timer")
  <2>1. ClearTimers(s) = s
    BY <1>2 DEF ClearTimers, rmTimeout
  <2> QED
    BY <2>1, WithinSelf
<1> QED
  BY <1>1, <1>2

-----------------------------------------------------------------------------
(* Types.                                                                  *)

\* A poll and a change are tasks.
LEMMA TaskTypes ==
    /\ \A k \in {"dns", "timer"} : /\ Poll(k) \in Tasks /\ Poll(k).kind = k
                                   /\ Poll(k).phase = "sent"
    /\ \A w \in BOOLEAN, d \in Nat :
         /\ Setting(w, d) \in Tasks /\ Setting(w, d).kind = "set"
         /\ Setting(w, d).phase = "sent" /\ Setting(w, d).want = w /\ Setting(w, d).dur = d
<1>1. ASSUME NEW k \in {"dns", "timer", "set"}
      PROVE  /\ Poll(k) \in Tasks /\ Poll(k).kind = k /\ Poll(k).phase = "sent"
  <2>1. [on |-> FALSE, left |-> 0] \in States /\ MaxAttempts \in Int
    BY StatusAssumption DEF States
  <2> QED
    BY <2>1 DEF Poll, Tasks
<1>2. ASSUME NEW w \in BOOLEAN, NEW d \in Nat
      PROVE  /\ Setting(w, d) \in Tasks /\ Setting(w, d).kind = "set"
             /\ Setting(w, d).phase = "sent" /\ Setting(w, d).want = w
             /\ Setting(w, d).dur = d
  <2>1. Poll("set") \in Tasks /\ Poll("set").kind = "set" /\ Poll("set").phase = "sent"
    BY <1>1
  <2>2. Setting(w, d) = [Poll("set") EXCEPT !.want = w, !.dur = d]
    BY DEF Setting
  <2>3. [Poll("set") EXCEPT !.want = w] \in Tasks
    BY <2>1, Zenon DEF Tasks
  <2> QED
    BY <2>1, <2>2, <2>3 DEF Tasks
<1> QED
  BY <1>1, <1>2

\* States of the protection.
LEMMA StateTypes ==
    /\ Protected \in States /\ Protected.on = TRUE /\ Protected.left = 0
    /\ \A n \in Nat : /\ Unprotected(n) \in States
                      /\ Unprotected(n).on = FALSE /\ Unprotected(n).left = n
  BY DEF States, Protected, Unprotected

\* A client starts, and starts again, with one poll.
LEMMA MountedTypes ==
    ASSUME Mounted
    PROVE  /\ view' \in States /\ countdown' \in Nat /\ tasks' \in Seq(Tasks)
           /\ DOMAIN tasks' = {1} /\ tasks'[1].kind = "dns" /\ tasks'[1].phase = "sent"
<1>1. tasks' = <<Poll("dns")>> /\ Poll("dns") \in Tasks /\ Poll("dns").kind = "dns"
      /\ Poll("dns").phase = "sent"
  BY TaskTypes DEF Mounted
<1>2. view' \in States /\ countdown' \in Nat
  BY StateTypes DEF Mounted
<1> HIDE DEF Tasks
<1>3. tasks' \in Seq(Tasks) /\ DOMAIN tasks' = {1} /\ tasks'[1] = Poll("dns")
  BY <1>1
<1> QED
  BY <1>1, <1>2, <1>3

\* The types hold at the start.
LEMMA TypeInit == StatusInit => TypeInv
<1> SUFFICES ASSUME StatusInit PROVE TypeInv
  OBVIOUS
<1>1. tasks = <<Poll("dns")>> /\ Poll("dns") \in Tasks
  BY TaskTypes DEF StatusInit
<1>2. tasks \in Seq(Tasks)
  BY <1>1
<1>3. client \in {"v1", "v2"} /\ view \in States /\ countdown \in Nat
  BY StatusAssumption, StateTypes DEF StatusInit
<1>4. protection \in States /\ (protection.on => protection.left = 0)
  BY StatusAssumption, StateTypes DEF StatusInit
<1> QED
  BY <1>2, <1>3, <1>4 DEF TypeInv

\* What a second does to the protection.
LEMMA SecondTypes ==
    ASSUME TypeInv, Second
    PROVE  /\ protection' \in States /\ (protection'.on => protection'.left = 0)
           /\ protection.on => protection' = protection
           /\ protection.left = 0 => protection' = protection
           /\ protection.left = 1 => protection'.on
           /\ protection.left > 1 => protection' = Unprotected(protection.left - 1)
<1>1. protection \in States /\ protection.left \in Nat /\ (protection.on => protection.left = 0)
  BY DEF TypeInv, States
<1>2. CASE protection.left > 1
  <2>1. protection' = Unprotected(protection.left - 1) /\ protection.left - 1 \in Nat
    BY <1>1, <1>2 DEF Second
  <2> QED
    BY <1>1, <1>2, <2>1, StateTypes
<1>3. CASE protection.left = 1
  <2>1. protection' = Protected
    BY <1>1, <1>3 DEF Second
  <2> QED
    BY <1>1, <1>3, <2>1, StateTypes
<1>4. CASE protection.left = 0
  <2>1. protection' = protection
    BY <1>1, <1>4 DEF Second
  <2> QED
    BY <1>1, <1>4, <2>1
<1> QED
  BY <1>1, <1>2, <1>3, <1>4

\* A request is added to those in flight.
LEMMA SendTypes ==
    ASSUME TypeInv, NEW t \in Tasks, Send(t)
    PROVE  /\ tasks' \in Seq(Tasks) /\ tasks' = Append(tasks, t)
           /\ DOMAIN tasks' = 1..(Len(tasks) + 1) /\ Len(tasks) \in Nat
           /\ DOMAIN tasks = 1..Len(tasks)
           /\ \A j \in DOMAIN tasks : tasks'[j] = tasks[j]
           /\ tasks'[Len(tasks) + 1] = t
           /\ raced' <=> (raced \/ Overlap(tasks'))
<1>1. tasks' = Append(tasks, t) /\ tasks \in Seq(Tasks)
  BY DEF Send, TypeInv
<1>2. raced' <=> (raced \/ Overlap(tasks'))
  BY DEF Send
<1>3. Len(tasks) \in Nat /\ DOMAIN tasks = 1..Len(tasks)
  BY <1>1, LenProperties
<1> HIDE DEF Tasks
<1>4. /\ Append(tasks, t) \in Seq(Tasks)
      /\ Len(Append(tasks, t)) = Len(tasks) + 1
      /\ \A j \in 1..Len(tasks) : Append(tasks, t)[j] = tasks[j]
      /\ Append(tasks, t)[Len(tasks) + 1] = t
  BY <1>1, AppendProperties
<1>5. DOMAIN Append(tasks, t) = 1..(Len(tasks) + 1)
  BY <1>4, LenProperties
<1> QED
  BY <1>1, <1>2, <1>3, <1>4, <1>5

\* A change is asked for.
LEMMA ToggleTypes ==
    ASSUME TypeInv, NEW d \in Nat, toggleProtection(d)
    PROVE  \E t \in Tasks : /\ t.kind = "set" /\ t.phase = "sent" /\ t.dur = d
                            /\ t.want = ~view.on /\ Send(t)
<1>1. (~view.on) \in BOOLEAN
  OBVIOUS
<1> QED
  BY <1>1, TaskTypes, Zenon DEF toggleProtection

\* A task gets another phase.
LEMMA PhaseTypes ==
    ASSUME TypeInv, NEW i \in DOMAIN tasks, NEW p \in {"sent", "ok"},
           tasks' = [tasks EXCEPT ![i].phase = p]
    PROVE  /\ tasks' \in Seq(Tasks) /\ DOMAIN tasks' = DOMAIN tasks
           /\ \A j \in DOMAIN tasks \ {i} : tasks'[j] = tasks[j]
           /\ tasks'[i] = [tasks[i] EXCEPT !.phase = p]
<1>1. tasks \in Seq(Tasks) /\ tasks[i] \in Tasks /\ Len(tasks) \in Nat
      /\ DOMAIN tasks = 1..Len(tasks)
  BY LenProperties, ElementOfSeq DEF TypeInv
<1>2. [tasks[i] EXCEPT !.phase = p] \in Tasks
  BY <1>1 DEF Tasks
<1> DEFINE t == [tasks[i] EXCEPT !.phase = p]
<1>3. tasks' = [tasks EXCEPT ![i] = t]
  OBVIOUS
<1> HIDE DEF t, Tasks
<1>4. [tasks EXCEPT ![i] = t] \in Seq(Tasks)
  BY <1>1, <1>2, ExceptSeq DEF t
<1> QED
  BY <1>1, <1>3, <1>4 DEF t

\* A task is answered: the answer is the protection of that moment.
LEMMA AnswerTypes ==
    ASSUME TypeInv, NEW i \in DOMAIN tasks, Answer(i)
    PROVE  /\ protection' \in States /\ (protection'.on => protection'.left = 0)
           /\ tasks[i].kind # "set" => protection' = protection
           /\ tasks[i].kind = "set" /\ tasks[i].want => protection' = Protected
           /\ tasks[i].kind = "set" /\ ~tasks[i].want => protection' = Unprotected(tasks[i].dur)
           /\ tasks' \in Seq(Tasks) /\ DOMAIN tasks' = DOMAIN tasks
           /\ \A j \in DOMAIN tasks \ {i} : tasks'[j] = tasks[j]
           /\ tasks'[i] = [tasks[i] EXCEPT !.phase = "ok", !.ans = protection']
<1>1. tasks \in Seq(Tasks) /\ tasks[i] \in Tasks /\ Len(tasks) \in Nat
      /\ DOMAIN tasks = 1..Len(tasks)
  BY LenProperties, ElementOfSeq DEF TypeInv
<1>2. tasks[i].dur \in Nat
  BY <1>1 DEF Tasks
<1>3. /\ tasks[i].kind # "set" => protection' = protection
      /\ tasks[i].kind = "set" /\ tasks[i].want => protection' = Protected
      /\ tasks[i].kind = "set" /\ ~tasks[i].want => protection' = Unprotected(tasks[i].dur)
  <2>1. tasks[i].want \in BOOLEAN
    BY <1>1 DEF Tasks
  <2> QED
    BY <2>1 DEF Answer
<1>4. protection' \in States /\ (protection'.on => protection'.left = 0)
  BY <1>2, <1>3, StateTypes DEF TypeInv
<1> DEFINE t == [tasks[i] EXCEPT !.phase = "ok", !.ans = protection']
<1>5. t \in Tasks
  BY <1>1, <1>4 DEF Tasks
<1>6. tasks' = [tasks EXCEPT ![i] = t]
  BY DEF Answer
<1>7. t = [tasks[i] EXCEPT !.phase = "ok", !.ans = protection']
  OBVIOUS
<1> HIDE DEF t, Tasks
<1>8. [tasks EXCEPT ![i] = t] \in Seq(Tasks)
  BY <1>1, <1>5, ExceptSeq
<1> QED
  BY <1>1, <1>3, <1>4, <1>6, <1>7, <1>8

\* What the store is told.
LEMMA ToldTypes ==
    ASSUME TypeInv, NEW on \in BOOLEAN, NEW left \in Nat, Told(on, left)
    PROVE  view' \in States /\ view' = [on |-> on, left |-> left] /\ countdown' \in Nat
<1>1. view' = [on |-> on, left |-> left] /\ countdown' \in Nat
  BY DEF Told, TypeInv
<1>2. view' \in States
  BY <1>1 DEF States
<1> QED
  BY <1>1, <1>2

\* The countdowns count naturals down.
LEMMA CountDownTypes ==
    ASSUME TypeInv, CountDown
    PROVE  view' \in States /\ countdown' \in Nat /\ tasks' \in Seq(Tasks)
<1>1. view \in States /\ view.left \in Nat /\ countdown \in Nat /\ tasks \in Seq(Tasks)
  BY DEF TypeInv, States
<1>2. CASE CountDownV1
  <2>1. countdown' = countdown /\ tasks' = tasks
    BY <1>2 DEF CountDownV1
  <2>2. CASE view.left > 1
    <3>1. view' = [view EXCEPT !.left = view.left - 1] /\ view.left - 1 \in Nat
      BY <1>1, <1>2, <2>2 DEF CountDownV1
    <3> QED
      BY <1>1, <2>1, <3>1 DEF States
  <2>3. CASE ~(view.left > 1)
    <3>1. view' = [on |-> ~view.on, left |-> 0]
      BY <1>2, <2>3 DEF CountDownV1
    <3>2. (~view.on) \in BOOLEAN
      OBVIOUS
    <3> QED
      BY <1>1, <2>1, <3>1, <3>2, Zenon DEF States
  <2> QED
    BY <2>2, <2>3
<1>3. CASE CountDownV2
  <2>1. countdown > 0 /\ view' = view /\ countdown' = countdown - 1
    BY <1>3 DEF CountDown, CountDownV2, Counting
  <2>2. tasks' \in Seq(Tasks)
    <3>1. CASE countdown > 1
      BY <1>1, <1>3, <3>1 DEF CountDownV2
    <3>2. CASE ~(countdown > 1)
      BY <1>3, <3>2, ToggleTypes, SendTypes DEF CountDownV2
    <3> QED
      BY <3>1, <3>2
  <2> QED
    BY <1>1, <2>1, <2>2
<1> QED
  BY <1>2, <1>3 DEF CountDown

\* Every step keeps the types.
LEMMA TypeNext == TypeInv /\ [StatusNext]_statusVars => TypeInv'
<1> SUFFICES ASSUME TypeInv, [StatusNext]_statusVars PROVE TypeInv'
  OBVIOUS
<1> USE DEF TypeInv
<1>1. CASE Second
  BY <1>1, SecondTypes DEF Second
<1>2. CASE CountDown
  BY <1>2, CountDownTypes DEF CountDown
<1>3. CASE Switch
  <2>1. tasks' \in Seq(Tasks)
    BY <1>3, ToggleTypes, SendTypes DEF Switch
  <2> QED
    BY <1>3, <2>1 DEF Switch
<1>4. CASE StartPause
  <2>1. tasks' \in Seq(Tasks)
    BY <1>4, StatusAssumption, ToggleTypes, SendTypes DEF StartPause
  <2> QED
    BY <1>4, <2>1 DEF StartPause
<1>5. CASE BecomeVisible
  <2>1. tasks' \in Seq(Tasks)
    BY <1>5, TaskTypes, SendTypes DEF BecomeVisible
  <2> QED
    BY <1>5, <2>1 DEF BecomeVisible
<1>6. ASSUME NEW i \in DOMAIN tasks,
             \/ Answer(i) \/ ToggleDone(i) \/ ToggleFails(i) \/ StatusArrived(i)
             \/ StatusNotYet(i) \/ TryAgain(i)
      PROVE  TypeInv'
  <2>0. tasks[i] \in Tasks
    BY ElementOfSeq
  <2>1. CASE Answer(i)
    BY <2>1, AnswerTypes DEF Answer
  <2>2. CASE ToggleDone(i)
    <3>1. tasks[i].dur \in Nat /\ (~view.on) \in BOOLEAN
      BY <2>0 DEF Tasks
    <3>2. view' \in States /\ countdown' \in Nat
      BY <2>2, <3>1, ToldTypes DEF ToggleDone
    <3>3. tasks' \in Seq(Tasks)
      BY <2>2, Removed DEF ToggleDone
    <3> QED
      BY <2>2, <3>2, <3>3 DEF ToggleDone
  <2>3. CASE ToggleFails(i)
    <3>1. tasks' \in Seq(Tasks)
      BY <2>3, Removed DEF ToggleFails
    <3> QED
      BY <2>3, <3>1 DEF ToggleFails
  <2>4. CASE StatusArrived(i)
    <3>1. tasks[i].ans.on \in BOOLEAN /\ tasks[i].ans.left \in Nat
      BY <2>0 DEF Tasks, States
    <3>2. view' \in States /\ countdown' \in Nat
      BY <2>4, <3>1, ToldTypes DEF StatusArrived
    <3>3. RemoveAt(tasks, i) \in Seq(Tasks)
      BY Removed
    <3>4. tasks' \in Seq(Tasks)
      BY <2>4, <3>3, Cleared DEF StatusArrived
    <3> QED
      BY <2>4, <3>2, <3>4 DEF StatusArrived
  <2>5. CASE StatusNotYet(i)
    <3>1. [tasks[i] EXCEPT !.phase = "timer", !.attempts = @ - 1] \in Tasks
      <4>1. tasks[i].attempts - 1 \in Int
        BY <2>0 DEF Tasks
      <4> QED
        BY <2>0, <4>1, Zenon DEF Tasks
    <3>2. RemoveAt(tasks, i) \in Seq(Tasks)
      BY Removed
    <3>3. ClearTimers(RemoveAt(tasks, i)) \in Seq(Tasks)
      BY <3>2, Cleared
    <3>4. tasks' \in Seq(Tasks)
      BY <2>5, <3>1, <3>3, AppendProperties DEF StatusNotYet
    <3> QED
      BY <2>5, <3>4 DEF StatusNotYet
  <2>6. CASE TryAgain(i)
    <3>1. CASE tasks[i].attempts > 0
      <4>1. tasks' \in Seq(Tasks)
        BY <2>6, <3>1, PhaseTypes DEF TryAgain
      <4> QED
        BY <2>6, <3>1, <4>1 DEF TryAgain
    <3>2. CASE ~(tasks[i].attempts > 0)
      <4>1. Mounted
        BY <2>6, <3>2 DEF TryAgain
      <4> QED
        BY <2>6, <4>1, MountedTypes DEF TryAgain
    <3> QED
      BY <3>1, <3>2
  <2> QED
    BY <1>6, <2>1, <2>2, <2>3, <2>4, <2>5, <2>6
<1>7. CASE UNCHANGED statusVars
  BY <1>7 DEF statusVars
<1> QED
  BY <1>1, <1>2, <1>3, <1>4, <1>5, <1>6, <1>7 DEF StatusNext

-----------------------------------------------------------------------------
(* The loader of v1.                                                       *)

\* A task that is removed was not the poll, so the poll is still there.
LEMMA PollKept ==
    ASSUME tasks \in Seq(Tasks), NEW i \in DOMAIN tasks, tasks[i].kind # "dns",
           NEW j \in DOMAIN tasks, tasks[j].kind = "dns"
    PROVE  \E k \in DOMAIN RemoveAt(tasks, i) : RemoveAt(tasks, i)[k].kind = "dns"
<1>1. PICK k \in DOMAIN RemoveAt(tasks, i) : RemoveAt(tasks, i)[k] = tasks[j]
  BY RemovedKeeps
<1> QED
  BY <1>1

\* While v1 is hidden, every step keeps or renews the poll.
LEMMA ComesNext == TypeInv /\ StatusComes /\ [StatusNext]_statusVars => StatusComes'
<1> SUFFICES ASSUME TypeInv, StatusComes, [StatusNext]_statusVars,
                    client' = "v1", processing'
             PROVE  \E k \in DOMAIN tasks' : tasks'[k].kind = "dns"
  BY DEF StatusComes
<1>0. client = "v1" /\ tasks \in Seq(Tasks)
  BY DEF StatusNext, statusVars, Second, CountDown, Switch, StartPause, BecomeVisible,
         Answer, ToggleDone, ToggleFails, StatusArrived, StatusNotYet, TryAgain, TypeInv
<1>a. ASSUME processing PROVE \E j \in DOMAIN tasks : tasks[j].kind = "dns"
  BY <1>0, <1>a DEF StatusComes
<1>b. ASSUME processing, NEW t \in Tasks, Send(t)
      PROVE  \E k \in DOMAIN tasks' : tasks'[k].kind = "dns"
  BY <1>a, <1>b, SendTypes
<1>1. CASE Second \/ UNCHANGED statusVars
  BY <1>a, <1>1 DEF Second, statusVars
<1>2. CASE CountDown
  BY <1>0, <1>a, <1>2 DEF CountDown, CountDownV1, CountDownV2
<1>3. CASE Switch
  <2>1. processing /\ toggleProtection(0)
    BY <1>3 DEF Switch
  <2> QED
    BY <1>b, <2>1, ToggleTypes
<1>4. CASE StartPause
  <2>1. processing /\ toggleProtection(Pause) /\ Pause \in Nat
    BY <1>4, StatusAssumption DEF StartPause
  <2> QED
    BY <1>b, <2>1, ToggleTypes
<1>5. CASE BecomeVisible
  <2>1. processing /\ Send(Poll("timer")) /\ Poll("timer") \in Tasks
    BY <1>5, TaskTypes DEF BecomeVisible
  <2> QED
    BY <1>b, <2>1
<1>6. ASSUME NEW i \in DOMAIN tasks,
             \/ Answer(i) \/ ToggleDone(i) \/ ToggleFails(i) \/ StatusArrived(i)
             \/ StatusNotYet(i) \/ TryAgain(i)
      PROVE  \E k \in DOMAIN tasks' : tasks'[k].kind = "dns"
  <2>0. tasks[i] \in Tasks /\ RemoveAt(tasks, i) \in Seq(Tasks)
    BY <1>0, ElementOfSeq, Removed
  <2>1. CASE Answer(i)
    <3>1. processing /\ DOMAIN tasks' = DOMAIN tasks
          /\ (\A j \in DOMAIN tasks \ {i} : tasks'[j] = tasks[j])
          /\ tasks'[i].kind = tasks[i].kind
      <4>1. tasks'[i] = [tasks[i] EXCEPT !.phase = "ok", !.ans = protection']
        BY <2>1, AnswerTypes
      <4>2. tasks'[i].kind = tasks[i].kind
        BY <2>0, <4>1 DEF Tasks
      <4>3. processing
        BY <2>1 DEF Answer
      <4> QED
        BY <2>1, <4>2, <4>3, AnswerTypes
    <3> QED
      BY <1>a, <3>1
  <2>2. CASE ToggleDone(i)
    <3>1. processing /\ tasks[i].kind = "set" /\ tasks' = RemoveAt(tasks, i)
      BY <2>2 DEF ToggleDone
    <3> QED
      BY <1>0, <1>a, <3>1, PollKept
  <2>3. CASE ToggleFails(i)
    <3>1. processing /\ tasks[i].kind = "set" /\ tasks' = RemoveAt(tasks, i)
      BY <2>3 DEF ToggleFails
    <3> QED
      BY <1>0, <1>a, <3>1, PollKept
  <2>4. CASE StatusArrived(i)
    <3>1. processing /\ tasks[i].kind # "dns" /\ tasks' = ClearTimers(RemoveAt(tasks, i))
      BY <2>4 DEF StatusArrived
    <3>2. tasks' = RemoveAt(tasks, i)
      BY <1>0, <2>0, <3>1, Cleared
    <3> QED
      BY <1>0, <1>a, <3>1, <3>2, PollKept
  <2>5. CASE StatusNotYet(i)
    <3> DEFINE t == [tasks[i] EXCEPT !.phase = "timer", !.attempts = @ - 1]
               r == RemoveAt(tasks, i)
    <3>1. processing /\ tasks' = Append(ClearTimers(r), t)
      BY <2>5 DEF StatusNotYet
    <3>2. ClearTimers(r) = r
      BY <1>0, <2>0, Cleared
    <3>3. t.kind = tasks[i].kind
      BY <2>0 DEF Tasks
    <3>4. /\ Len(r) \in Nat /\ DOMAIN r = 1..Len(r)
          /\ DOMAIN Append(r, t) = 1..(Len(r) + 1)
          /\ \A j \in 1..Len(r) : Append(r, t)[j] = r[j]
          /\ Append(r, t)[Len(r) + 1] = t
      <4>1. r \in Seq(Tasks)
        BY <2>0
      <4> HIDE DEF r, t
      <4> QED
        BY <4>1
    <3> HIDE DEF t
    <3>5. CASE tasks[i].kind = "dns"
      <4>1. Len(r) + 1 \in 1..(Len(r) + 1)
        BY <3>4
      <4> HIDE DEF r
      <4> QED
        BY <3>1, <3>2, <3>3, <3>4, <3>5, <4>1
    <3>6. CASE tasks[i].kind # "dns"
      <4>1. PICK k \in DOMAIN r : r[k].kind = "dns"
        BY <1>0, <1>a, <3>1, <3>6, PollKept
      <4> HIDE DEF r
      <4>2. k \in 1..(Len(r) + 1) /\ Append(r, t)[k] = r[k]
        BY <3>4
      <4> QED
        BY <3>1, <3>2, <3>4, <4>1, <4>2
    <3> QED
      BY <3>5, <3>6
  <2>6. CASE TryAgain(i)
    <3>1. CASE tasks[i].attempts > 0
      <4>1. processing /\ tasks' = [tasks EXCEPT ![i].phase = "sent"]
        BY <2>6, <3>1 DEF TryAgain
      <4>2. /\ DOMAIN tasks' = DOMAIN tasks
            /\ \A j \in DOMAIN tasks \ {i} : tasks'[j] = tasks[j]
            /\ tasks'[i] = [tasks[i] EXCEPT !.phase = "sent"]
        BY <4>1, PhaseTypes
      <4>3. tasks'[i].kind = tasks[i].kind
        BY <2>0, <4>2 DEF Tasks
      <4> QED
        BY <1>a, <4>1, <4>2, <4>3
    <3>2. CASE ~(tasks[i].attempts > 0)
      <4>1. Mounted
        BY <2>6, <3>2 DEF TryAgain
      <4> QED
        BY <4>1, MountedTypes
    <3> QED
      BY <3>1, <3>2
  <2> QED
    BY <1>6, <2>1, <2>2, <2>3, <2>4, <2>5, <2>6
<1> QED
  BY <1>1, <1>2, <1>3, <1>4, <1>5, <1>6 DEF StatusNext

\* However often checkStatus of v1 fails, is told to wait, or meets the polls
\* that a look at the tab starts, the poll that takes the loader away is in
\* flight or its timer runs.
THEOREM StatusComesTheorem == StatusSpec => []StatusComes
<1>1. StatusInit => TypeInv /\ StatusComes
  <2> SUFFICES ASSUME StatusInit PROVE StatusComes
    BY TypeInit
  <2>1. tasks = <<Poll("dns")>> /\ Poll("dns").kind = "dns"
    BY TaskTypes DEF StatusInit
  <2>2. 1 \in DOMAIN tasks /\ tasks[1] = Poll("dns")
    BY <2>1
  <2> QED
    BY <2>1, <2>2 DEF StatusComes
<1>2. TypeInv /\ StatusComes /\ [StatusNext]_statusVars => TypeInv' /\ StatusComes'
  BY TypeNext, ComesNext
<1> QED
  BY <1>1, <1>2, PTL DEF StatusSpec

-----------------------------------------------------------------------------
(* The switch.  As long as nothing raced, whatever a client has been told  *)
(* still foretells the state p of the protection: the pause that was       *)
(* announced has ended or has no more seconds left than that.              *)

Foretold(p, on, left) ==
    /\ on => left = 0 /\ p.on
    /\ ~on /\ left = 0 => ~p.on /\ p.left = 0
    /\ left > 0 => p.on \/ p.left \in 1..left

\* A task, given the protection p and the store's view v.
TaskInv(t, p, v) ==
    /\ t.kind # "set" /\ t.phase = "ok" => Foretold(p, t.ans.on, t.ans.left)
    /\ t.kind = "set" => /\ t.phase # "timer"
                         /\ t.want <=> ~v.on
                         /\ t.want => t.dur = 0
                         /\ t.phase = "ok" => Foretold(p, t.want, t.dur)

TasksInv(ts, p, v) == ~Overlap(ts) /\ \A j \in DOMAIN ts : TaskInv(ts[j], p, v)

NoSet(ts) == \A j \in DOMAIN ts : ts[j].kind # "set"

Lag == IF due THEN 1 ELSE 0

\* What is on the screen while no change is in flight.
Seen ==
    /\ view.on => protection.on
    /\ client = "v1" /\ view.left > 0 =>
         protection.on \/ protection.left \in 1..(view.left - Lag)
    /\ client = "v2" /\ countdown = 0 => view.left = 0
    /\ ~view.on /\ ~Counting /\ ~processing => ~protection.on /\ protection.left = 0

SwitchInv ==
    ~raced => /\ TasksInv(tasks, protection, view)
              /\ view.on => view.left = 0
              /\ NoSet(tasks) => Seen

\* Fewer tasks are no worse.
LEMMA FewerTasks ==
    ASSUME NEW r, NEW ts, NEW X, X \subseteq DOMAIN ts, Within(r, ts, X),
           NEW p, NEW v, TasksInv(ts, p, v)
    PROVE  /\ TasksInv(r, p, v)
           /\ (\A j \in X : ts[j].kind # "set") => NoSet(r)
<1>1. PICK f \in [DOMAIN r -> X] :
        /\ \A k \in DOMAIN r : r[k] = ts[f[k]]
        /\ \A k, l \in DOMAIN r : f[k] = f[l] => k = l
  BY DEF Within
<1>2. \A k \in DOMAIN r : f[k] \in X /\ f[k] \in DOMAIN ts
  BY <1>1
<1>3. ~Overlap(r)
  <2> SUFFICES ASSUME NEW k \in DOMAIN r, NEW l \in DOMAIN r, k # l,
                      r[k].kind = "set", r[l].phase # "timer"
               PROVE  FALSE
    BY DEF Overlap
  <2>1. f[k] # f[l] /\ ts[f[k]].kind = "set" /\ ts[f[l]].phase # "timer"
    BY <1>1
  <2> QED
    BY <1>2, <2>1 DEF TasksInv, Overlap
<1>4. \A k \in DOMAIN r : TaskInv(r[k], p, v)
  BY <1>1, <1>2 DEF TasksInv
<1>5. (\A j \in X : ts[j].kind # "set") => NoSet(r)
  BY <1>1, <1>2 DEF NoSet
<1> QED
  BY <1>3, <1>4, <1>5 DEF TasksInv

\* A request in flight that is no change is not in flight with one; a change is
\* in flight alone.
LEMMA Alone ==
    ASSUME NEW ts, NEW p, NEW v, TasksInv(ts, p, v), NEW i \in DOMAIN ts
    PROVE  /\ ts[i].kind # "set" /\ ts[i].phase # "timer" => NoSet(ts)
           /\ ts[i].kind = "set" =>
                \A j \in DOMAIN ts \ {i} : ts[j].phase = "timer" /\ ts[j].kind # "set"
<1>1. \A j, k \in DOMAIN ts : j # k /\ ts[j].kind = "set" => ts[k].phase = "timer"
  BY DEF TasksInv, Overlap
<1>2. \A j \in DOMAIN ts : ts[j].kind = "set" => ts[j].phase # "timer"
  BY DEF TasksInv, TaskInv
<1> QED
  BY <1>1, <1>2 DEF NoSet

\* Polls do not depend on the view, and waiting ones on nothing.
LEMMA PollsOnly ==
    ASSUME NEW ts, NoSet(ts)
    PROVE  /\ ~Overlap(ts)
           /\ \A p, v, w : TasksInv(ts, p, v) => TasksInv(ts, p, w)
<1>1. ~Overlap(ts)
  BY DEF NoSet, Overlap
<1>2. ASSUME NEW p, NEW v, NEW w, TasksInv(ts, p, v) PROVE TasksInv(ts, p, w)
  BY <1>1, <1>2 DEF TasksInv, TaskInv, NoSet
<1> QED
  BY <1>1, <1>2

\* A request is sent and nothing overlaps.
LEMMA SentKeeps ==
    ASSUME TypeInv, SwitchInv, NEW t \in Tasks, Send(t), ~raced',
           TaskInv(t, protection, view)
    PROVE  /\ ~raced /\ TasksInv(tasks', protection, view)
           /\ NoSet(tasks') => t.kind # "set" /\ NoSet(tasks)
<1>1. ~raced /\ ~Overlap(tasks')
  BY SendTypes
<1>2. TasksInv(tasks, protection, view)
  BY <1>1 DEF SwitchInv
<1>3. \A j \in DOMAIN tasks' : \/ j \in DOMAIN tasks /\ tasks'[j] = tasks[j]
                               \/ tasks'[j] = t
  BY SendTypes
<1>4. \A j \in DOMAIN tasks' : TaskInv(tasks'[j], protection, view)
  BY <1>2, <1>3 DEF TasksInv
<1>5. DOMAIN tasks \subseteq DOMAIN tasks' /\ \A j \in DOMAIN tasks : tasks'[j] = tasks[j]
  BY SendTypes
<1>6. Len(tasks) + 1 \in DOMAIN tasks' /\ tasks'[Len(tasks) + 1] = t
  BY SendTypes
<1> QED
  BY <1>1, <1>4, <1>5, <1>6 DEF TasksInv, NoSet

\* A change is sent, for the opposite of what is shown.
LEMMA ToggleKeeps ==
    ASSUME TypeInv, SwitchInv, NEW d \in Nat, toggleProtection(d), ~raced',
           view.on \/ d = 0, view' = view, protection' = protection
    PROVE  SwitchInv'
<1>1. PICK t \in Tasks : /\ t.kind = "set" /\ t.phase = "sent" /\ t.dur = d
                         /\ t.want = ~view.on /\ Send(t)
  BY ToggleTypes
<1>2. t.want <=> ~view.on
  BY <1>1, Zenon
<1>3. TaskInv(t, protection, view)
  BY <1>1, <1>2 DEF TaskInv
<1>4. ~raced /\ TasksInv(tasks', protection, view) /\ ~NoSet(tasks')
  BY <1>1, <1>3, SentKeeps
<1>5. view.on => view.left = 0
  BY <1>4 DEF SwitchInv
<1> QED
  BY <1>4, <1>5 DEF SwitchInv

\* What was foretold stays so when the server's clock goes on.
LEMMA SecondKeeps ==
    ASSUME TypeInv, SwitchInv, Second, ~raced' PROVE SwitchInv'
<1>0. /\ protection \in States /\ protection.left \in Nat /\ protection.on \in BOOLEAN
      /\ view.left \in Nat /\ view' = view /\ tasks' = tasks /\ ~raced
      /\ client' = client /\ countdown' = countdown /\ processing' = processing /\ due'
  BY DEF TypeInv, States, Second
<1>1. /\ TasksInv(tasks, protection, view) /\ (view.on => view.left = 0)
      /\ NoSet(tasks) => Seen
  BY <1>0 DEF SwitchInv
<1>2. /\ protection.on => protection'.on
      /\ protection.left = 0 => protection' = protection
      /\ protection.left = 1 => protection'.on
      /\ protection.left > 1 => /\ protection'.left = protection.left - 1
                                /\ protection'.on = FALSE
  <2>1. protection.left > 1 => protection.left - 1 \in Nat
    BY <1>0
  <2> QED
    BY <2>1, SecondTypes, StateTypes
<1>3. ASSUME NEW on, NEW left, left \in Nat, Foretold(protection, on, left)
      PROVE  Foretold(protection', on, left)
  BY <1>0, <1>2, <1>3 DEF Foretold
<1>4. \A j \in DOMAIN tasks : tasks[j].dur \in Nat /\ tasks[j].ans.left \in Nat
  <2>1. \A j \in DOMAIN tasks : tasks[j] \in Tasks
    BY ElementOfSeq DEF TypeInv
  <2> QED
    BY <2>1 DEF Tasks, States
<1>5. TasksInv(tasks', protection', view')
  BY <1>0, <1>1, <1>3, <1>4 DEF TasksInv, TaskInv
<1>6. ASSUME Seen PROVE Seen'
  <2>1. view'.on => protection'.on
    BY <1>0, <1>2, <1>6 DEF Seen
  <2>2. client' = "v1" /\ view'.left > 0 =>
          protection'.on \/ protection'.left \in 1..(view'.left - Lag')
    <3> SUFFICES ASSUME client = "v1", view.left > 0
                 PROVE  protection'.on \/ protection'.left \in 1..(view.left - 1)
      BY <1>0 DEF Lag
    <3>1. protection.on \/ protection.left \in 1..view.left
      BY <1>0, <1>6 DEF Seen, Lag
    <3> QED
      BY <1>0, <1>2, <3>1
  <2>3. client' = "v2" /\ countdown' = 0 => view'.left = 0
    BY <1>0, <1>6 DEF Seen
  <2>4. ~view'.on /\ ~Counting' /\ ~processing' => ~protection'.on /\ protection'.left = 0
    BY <1>0, <1>2, <1>6 DEF Seen, Counting
  <2> QED
    BY <2>1, <2>2, <2>3, <2>4 DEF Seen
<1> QED
  BY <1>0, <1>1, <1>5, <1>6 DEF SwitchInv

\* The countdown of v1 is at its end no sooner than the server's.
LEMMA CountDownV1Keeps ==
    ASSUME TypeInv, SwitchInv, CountDown, CountDownV1, ~raced' PROVE SwitchInv'
<1>0. /\ protection \in States /\ protection.left \in Nat
      /\ view \in States /\ view.left \in Nat /\ view.left > 0 /\ client = "v1"
      /\ tasks' = tasks /\ due /\ ~due' /\ client' = client /\ countdown' = countdown
      /\ processing' = processing /\ protection' = protection
  BY DEF TypeInv, States, CountDown, CountDownV1, Counting
<1>1. ~raced /\ (view.left = 1 => NoSet(tasks))
  BY DEF CountDownV1, NoSet
<1>2. /\ TasksInv(tasks, protection, view) /\ ~view.on
      /\ NoSet(tasks) => Seen
  BY <1>0, <1>1 DEF SwitchInv
<1>3. NoSet(tasks) => protection.on \/ protection.left \in 1..(view.left - 1)
  BY <1>0, <1>2 DEF Seen, Lag
<1>4. CASE view.left > 1
  <2>1. view' = [view EXCEPT !.left = view.left - 1]
    BY <1>4 DEF CountDownV1
  <2>2. view'.on = view.on /\ view'.left = view.left - 1
    BY <1>0, <2>1 DEF States
  <2>3. TasksInv(tasks', protection', view')
    BY <1>0, <1>2, <2>2 DEF TasksInv, TaskInv
  <2>4. NoSet(tasks) => Seen'
    BY <1>0, <1>2, <1>3, <1>4, <2>2 DEF Seen, Lag, Counting
  <2> QED
    BY <1>0, <1>2, <2>2, <2>3, <2>4 DEF SwitchInv
<1>5. CASE view.left = 1
  <2>1. view' = [on |-> ~view.on, left |-> 0]
    BY <1>5 DEF CountDownV1
  <2>2. view'.on /\ view'.left = 0
    BY <1>2, <2>1
  <2>3. protection.on
    BY <1>0, <1>1, <1>3, <1>5
  <2>4. TasksInv(tasks', protection', view')
    BY <1>0, <1>1, <1>2, <1>5, PollsOnly
  <2>5. Seen'
    BY <1>0, <2>2, <2>3 DEF Seen
  <2> QED
    BY <2>2, <2>4, <2>5 DEF SwitchInv
<1> QED
  BY <1>0, <1>4, <1>5

\* The countdown of v2 ends with a change.
LEMMA CountDownV2Keeps ==
    ASSUME TypeInv, SwitchInv, CountDown, CountDownV2, ~raced' PROVE SwitchInv'
<1>0. /\ client = "v2" /\ countdown \in Nat /\ countdown > 0 /\ countdown' = countdown - 1
      /\ view' = view /\ protection' = protection /\ client' = client
      /\ processing' = processing
  BY DEF TypeInv, CountDown, CountDownV2, Counting
<1>1. CASE countdown > 1
  <2>1. tasks' = tasks /\ ~raced
    BY <1>1 DEF CountDownV2
  <2>2. Seen => Seen'
    BY <1>0, <1>1 DEF Seen, Counting
  <2> QED
    BY <1>0, <2>1, <2>2 DEF SwitchInv
<1>2. CASE ~(countdown > 1)
  BY <1>0, <1>2, ToggleKeeps DEF CountDownV2
<1> QED
  BY <1>1, <1>2

\* The server's answer foretells its state.
LEMMA AnswerKeeps ==
    ASSUME TypeInv, SwitchInv, NEW i \in DOMAIN tasks, Answer(i), ~raced'
    PROVE  SwitchInv'
<1> DEFINE t == tasks[i]
           u == tasks'[i]
<1>0. /\ ~raced /\ view' = view /\ client' = client /\ countdown' = countdown
      /\ due' = due /\ processing' = processing /\ t.phase = "sent"
  BY DEF Answer
<1>1. t \in Tasks /\ t.dur \in Nat /\ t.want \in BOOLEAN
  <2>1. t \in Tasks
    BY ElementOfSeq DEF TypeInv
  <2> QED
    BY <2>1 DEF Tasks
<1>2. u = [t EXCEPT !.phase = "ok", !.ans = protection']
  BY AnswerTypes
<1>3. /\ u.kind = t.kind /\ u.want = t.want /\ u.dur = t.dur /\ u.phase = "ok"
      /\ u.ans = protection'
  BY <1>1, <1>2 DEF Tasks
<1>4. /\ DOMAIN tasks' = DOMAIN tasks
      /\ \A j \in DOMAIN tasks \ {i} : tasks'[j] = tasks[j]
  BY AnswerTypes
<1>5. /\ TasksInv(tasks, protection, view) /\ (view.on => view.left = 0)
      /\ NoSet(tasks) => Seen
  BY <1>0 DEF SwitchInv
<1>6. ~Overlap(tasks') /\ (NoSet(tasks') <=> NoSet(tasks))
  <2>1. \A j \in DOMAIN tasks : /\ tasks'[j].kind = tasks[j].kind
                                /\ tasks'[j].phase # "timer" <=> tasks[j].phase # "timer"
    BY <1>0, <1>3, <1>4
  <2>2. ~Overlap(tasks)
    BY <1>5 DEF TasksInv
  <2> QED
    BY <1>4, <2>1, <2>2 DEF Overlap, NoSet
<1>7. CASE t.kind # "set"
  <2>1. protection' = protection
    BY <1>7, AnswerTypes
  <2>2. protection.left \in Nat /\ (protection.on => protection.left = 0)
    BY DEF TypeInv, States
  <2>3. Foretold(protection, protection.on, protection.left)
    BY <2>2 DEF Foretold
  <2>4. TaskInv(u, protection', view')
    BY <1>3, <1>7, <2>1, <2>3 DEF TaskInv
  <2>5. TasksInv(tasks', protection', view')
    BY <1>0, <1>4, <1>5, <1>6, <2>1, <2>4 DEF TasksInv
  <2>6. Seen => Seen'
    BY <1>0, <2>1 DEF Seen, Lag, Counting
  <2> QED
    BY <1>0, <1>5, <1>6, <2>5, <2>6 DEF SwitchInv
<1>8. CASE t.kind = "set"
  <2>1. (t.want <=> ~view.on) /\ (t.want => t.dur = 0)
    BY <1>5, <1>8 DEF TasksInv, TaskInv
  <2>2. /\ t.want => protection' = Protected
        /\ ~t.want => protection' = Unprotected(t.dur)
    BY <1>8, AnswerTypes
  <2>3. Foretold(protection', t.want, t.dur)
    BY <1>1, <2>1, <2>2, StateTypes DEF Foretold
  <2>4. TaskInv(u, protection', view')
    BY <1>0, <1>3, <1>8, <2>1, <2>3 DEF TaskInv
  <2>5. \A j \in DOMAIN tasks \ {i} : tasks[j].phase = "timer" /\ tasks[j].kind # "set"
    BY <1>5, <1>8, Alone
  <2>6. TasksInv(tasks', protection', view')
    BY <1>4, <1>6, <2>4, <2>5 DEF TasksInv, TaskInv
  <2>7. ~NoSet(tasks')
    BY <1>6, <1>8 DEF NoSet
  <2> QED
    BY <1>0, <1>5, <2>6, <2>7 DEF SwitchInv
<1> QED
  BY <1>7, <1>8

\* The screen is told what still foretells the protection.
LEMMA ToldSeen ==
    ASSUME TypeInv, NEW on \in BOOLEAN, NEW left \in Nat, Told(on, left),
           Foretold(protection, on, left), protection' = protection, client' = client,
           \* Nothing was in flight, or a change that was for the opposite.
           Seen \/ (view.left = 0 /\ view.on /\ ~on) \/ on
    PROVE  Seen' /\ (view'.on => view'.left = 0)
<1>1. /\ view'.on = on /\ view'.left = left
      /\ countdown' = IF client = "v2" /\ countdown = 0 /\ left # view.left THEN left
                      ELSE countdown
      /\ due' <=> (due /\ Counting /\ (client = "v1" => left = view.left))
  BY DEF Told
<1>2. client \in {"v1", "v2"} /\ countdown \in Nat /\ view.left \in Nat
      /\ protection.left \in Nat
  BY DEF TypeInv, States
<1>3. (view'.on => protection'.on) /\ (view'.on => view'.left = 0)
  BY <1>1 DEF Foretold
<1>4. client' = "v1" /\ view'.left > 0 =>
        protection'.on \/ protection'.left \in 1..(view'.left - Lag')
  <2> SUFFICES ASSUME client = "v1", left > 0
               PROVE  protection.on \/ protection.left \in 1..(left - Lag')
    BY <1>1
  <2>1. protection.on \/ protection.left \in 1..left
    BY DEF Foretold
  <2>2. CASE due'
    <3>1. left = view.left /\ due
      BY <1>1, <2>2
    <3>2. Seen
      BY <3>1 DEF Foretold
    <3> QED
      BY <1>2, <2>2, <3>1, <3>2 DEF Seen, Lag
  <2>3. CASE ~due'
    BY <2>1, <2>3 DEF Lag
  <2> QED
    BY <2>2, <2>3
<1>5. client' = "v2" /\ countdown' = 0 => view'.left = 0
  BY <1>1, <1>2 DEF Seen, Foretold
<1>6. ~view'.on /\ ~Counting' => ~protection'.on /\ protection'.left = 0
  <2> SUFFICES ASSUME ~on, ~Counting' PROVE ~protection.on /\ protection.left = 0
    BY <1>1
  <2>1. left = 0
    BY <1>1, <1>2, <1>5 DEF Counting
  <2> QED
    BY <2>1 DEF Foretold
<1> QED
  BY <1>3, <1>4, <1>5, <1>6 DEF Seen

\* A change is done: it was alone, and turns over what it was made from.
LEMMA ToggleDoneKeeps ==
    ASSUME TypeInv, SwitchInv, NEW i \in DOMAIN tasks, ToggleDone(i), ~raced'
    PROVE  SwitchInv'
<1> DEFINE t == tasks[i]
<1>0. /\ ~raced /\ protection' = protection /\ client' = client
      /\ t.kind = "set" /\ t.phase = "ok" /\ Told(~view.on, t.dur)
      /\ tasks' = RemoveAt(tasks, i)
  BY DEF ToggleDone
<1>1. t.dur \in Nat /\ t.want \in BOOLEAN /\ (~view.on) \in BOOLEAN /\ tasks \in Seq(Tasks)
  <2>1. t \in Tasks /\ tasks \in Seq(Tasks)
    BY ElementOfSeq DEF TypeInv
  <2> QED
    BY <2>1 DEF Tasks
<1>2. TasksInv(tasks, protection, view) /\ (view.on => view.left = 0)
  BY <1>0 DEF SwitchInv
<1>3. (t.want <=> ~view.on) /\ Foretold(protection, t.want, t.dur)
  BY <1>0, <1>2 DEF TasksInv, TaskInv
<1>4. Foretold(protection, ~view.on, t.dur)
  BY <1>3 DEF Foretold
<1>5. Seen' /\ (view'.on => view'.left = 0)
  <2>1. (view.left = 0 /\ view.on /\ ~~view.on) \/ ~view.on
    BY <1>2
  <2> HIDE DEF t
  <2> QED
    BY <1>0, <1>1, <1>4, <2>1, ToldSeen
<1>6. \A j \in DOMAIN tasks \ {i} : tasks[j].kind # "set"
  BY <1>0, <1>2, Alone
<1>7. Within(tasks', tasks, DOMAIN tasks \ {i})
  BY <1>0, <1>1, RemovedWithin
<1>8. TasksInv(tasks', protection, view) /\ NoSet(tasks')
  BY <1>2, <1>6, <1>7, FewerTasks
<1>9. TasksInv(tasks', protection, view')
  BY <1>8, PollsOnly
<1> QED
  BY <1>0, <1>5, <1>9 DEF SwitchInv

\* A status arrives: no change is in flight with it.
LEMMA StatusArrivedKeeps ==
    ASSUME TypeInv, SwitchInv, NEW i \in DOMAIN tasks, StatusArrived(i), ~raced'
    PROVE  SwitchInv'
<1> DEFINE t == tasks[i]
           r == RemoveAt(tasks, i)
<1>0. /\ ~raced /\ protection' = protection /\ client' = client
      /\ t.kind # "set" /\ t.phase = "ok" /\ Told(t.ans.on, t.ans.left)
      /\ tasks' = ClearTimers(r)
  BY DEF StatusArrived
<1>1. t.ans.on \in BOOLEAN /\ t.ans.left \in Nat /\ tasks \in Seq(Tasks)
  <2>1. t \in Tasks /\ tasks \in Seq(Tasks)
    BY ElementOfSeq DEF TypeInv
  <2> QED
    BY <2>1 DEF Tasks, States
<1>2. TasksInv(tasks, protection, view)
  BY <1>0 DEF SwitchInv
<1>3. NoSet(tasks)
  BY <1>0, <1>2, Alone
<1>4. Seen
  BY <1>0, <1>3 DEF SwitchInv
<1>5. Foretold(protection, t.ans.on, t.ans.left)
  BY <1>0, <1>2 DEF TasksInv, TaskInv
<1>6. Seen' /\ (view'.on => view'.left = 0)
  <2> HIDE DEF t
  <2> QED
    BY <1>0, <1>1, <1>4, <1>5, ToldSeen
<1>7. Within(tasks', tasks, DOMAIN tasks)
  <2>1. r \in Seq(Tasks) /\ Within(r, tasks, DOMAIN tasks \ {i})
    BY <1>1, Removed, RemovedWithin
  <2>2. Within(r, tasks, DOMAIN tasks)
    BY <2>1, WithinMore
  <2>3. Within(tasks', r, DOMAIN r)
    BY <1>0, <2>1, Cleared
  <2> QED
    BY <2>2, <2>3, WithinTrans
<1>8. TasksInv(tasks', protection, view) /\ NoSet(tasks')
  <2>1. \A j \in DOMAIN tasks : tasks[j].kind # "set"
    BY <1>3 DEF NoSet
  <2> QED
    BY <1>2, <1>7, <2>1, FewerTasks
<1>9. TasksInv(tasks', protection, view')
  BY <1>8, PollsOnly
<1> QED
  BY <1>0, <1>6, <1>9 DEF SwitchInv

\* A poll waits for its timer.
LEMMA StatusNotYetKeeps ==
    ASSUME TypeInv, SwitchInv, NEW i \in DOMAIN tasks, StatusNotYet(i), ~raced'
    PROVE  SwitchInv'
<1> DEFINE t == [tasks[i] EXCEPT !.phase = "timer", !.attempts = @ - 1]
           r == RemoveAt(tasks, i)
           c == ClearTimers(r)
<1>0. /\ ~raced /\ tasks[i].kind # "set" /\ tasks[i].phase = "sent"
      /\ tasks' = Append(c, t)
      /\ UNCHANGED <<client, protection, view, processing, countdown, due>>
  BY DEF StatusNotYet
<1>1. t.kind # "set" /\ t.phase = "timer" /\ tasks \in Seq(Tasks)
  <2>1. tasks[i] \in Tasks /\ tasks \in Seq(Tasks)
    BY ElementOfSeq DEF TypeInv
  <2> QED
    BY <1>0, <2>1 DEF Tasks
<1>2. TasksInv(tasks, protection, view) /\ (view.on => view.left = 0)
  BY <1>0 DEF SwitchInv
<1>3. NoSet(tasks)
  BY <1>0, <1>2, Alone
<1>4. Seen
  BY <1>0, <1>3 DEF SwitchInv
<1>5. c \in Seq(Tasks) /\ Within(c, tasks, DOMAIN tasks)
  <2>1. r \in Seq(Tasks) /\ Within(r, tasks, DOMAIN tasks \ {i})
    BY <1>1, Removed, RemovedWithin
  <2>2. Within(r, tasks, DOMAIN tasks)
    BY <2>1, WithinMore
  <2>3. c \in Seq(Tasks) /\ Within(c, r, DOMAIN r)
    BY <2>1, Cleared
  <2> QED
    BY <2>2, <2>3, WithinTrans
<1>6. TasksInv(c, protection, view) /\ NoSet(c)
  <2>1. \A j \in DOMAIN tasks : tasks[j].kind # "set"
    BY <1>3 DEF NoSet
  <2> QED
    BY <1>2, <1>5, <2>1, FewerTasks
<1> HIDE DEF t, c
<1>7. \A j \in DOMAIN tasks' : tasks'[j] = t \/ (j \in DOMAIN c /\ tasks'[j] = c[j])
  <2> HIDE DEF Tasks
  <2> QED
    BY <1>0, <1>5
<1>8. NoSet(tasks')
  BY <1>1, <1>6, <1>7 DEF NoSet
<1>9. TaskInv(t, protection, view)
  BY <1>1 DEF TaskInv
<1>10. TasksInv(tasks', protection, view)
  BY <1>6, <1>7, <1>8, <1>9, PollsOnly DEF TasksInv
<1>11. Seen'
  BY <1>0, <1>4 DEF Seen, Lag, Counting
<1> QED
  BY <1>0, <1>2, <1>10, <1>11 DEF SwitchInv

\* A poll is sent again, or the page is loaded anew.
LEMMA TryAgainKeeps ==
    ASSUME TypeInv, SwitchInv, NEW i \in DOMAIN tasks, TryAgain(i), ~raced'
    PROVE  SwitchInv'
<1>0. protection' = protection /\ client' = client /\ tasks[i].phase = "timer"
  BY DEF TryAgain
<1>1. CASE tasks[i].attempts > 0
  <2>1. /\ tasks' = [tasks EXCEPT ![i].phase = "sent"]
        /\ ~raced /\ ~Overlap(tasks')
        /\ UNCHANGED <<view, processing, countdown, due>>
    BY <1>1 DEF TryAgain
  <2>2. TasksInv(tasks, protection, view) /\ (view.on => view.left = 0)
    BY <2>1 DEF SwitchInv
  <2>3. /\ DOMAIN tasks' = DOMAIN tasks
        /\ \A j \in DOMAIN tasks \ {i} : tasks'[j] = tasks[j]
        /\ tasks'[i] = [tasks[i] EXCEPT !.phase = "sent"]
    BY <2>1, PhaseTypes
  <2>4. tasks'[i].kind = tasks[i].kind /\ tasks'[i].phase = "sent"
    <3>1. tasks[i] \in Tasks
      BY ElementOfSeq DEF TypeInv
    <3> QED
      BY <2>3, <3>1 DEF Tasks
  <2>5. tasks[i].kind # "set"
    BY <1>0, <2>2 DEF TasksInv, TaskInv
  <2>6. TaskInv(tasks'[i], protection, view)
    BY <2>4, <2>5 DEF TaskInv
  <2>7. TasksInv(tasks', protection, view)
    BY <2>1, <2>2, <2>3, <2>6 DEF TasksInv
  <2>8. NoSet(tasks') => NoSet(tasks)
    BY <2>3, <2>4 DEF NoSet
  <2>9. Seen => Seen'
    BY <1>0, <2>1 DEF Seen, Lag, Counting
  <2> QED
    BY <1>0, <2>1, <2>2, <2>7, <2>8, <2>9 DEF SwitchInv
<1>2. CASE ~(tasks[i].attempts > 0)
  <2>1. Mounted
    BY <1>2 DEF TryAgain
  <2>2. ~view'.on /\ view'.left = 0 /\ processing'
    BY <2>1, StateTypes DEF Mounted
  <2>3. DOMAIN tasks' = {1} /\ tasks'[1].kind = "dns" /\ tasks'[1].phase = "sent"
    BY <2>1, MountedTypes
  <2>4. TasksInv(tasks', protection', view')
    BY <2>3 DEF TasksInv, TaskInv, Overlap
  <2>5. Seen'
    BY <2>2 DEF Seen
  <2> QED
    BY <2>2, <2>4, <2>5 DEF SwitchInv
<1> QED
  BY <1>1, <1>2

\* The invariant holds at the start.
LEMMA SwitchInit == StatusInit => SwitchInv
<1> SUFFICES ASSUME StatusInit PROVE SwitchInv
  OBVIOUS
<1>1. ~view.on /\ view.left = 0 /\ processing
  BY StateTypes DEF StatusInit
<1>2. tasks = <<Poll("dns")>> /\ Poll("dns").kind = "dns" /\ Poll("dns").phase = "sent"
  BY TaskTypes DEF StatusInit
<1>3. DOMAIN tasks = {1} /\ tasks[1] = Poll("dns")
  BY <1>2
<1>4. TasksInv(tasks, protection, view)
  BY <1>2, <1>3 DEF TasksInv, TaskInv, Overlap
<1>5. Seen
  BY <1>1 DEF Seen
<1> QED
  BY <1>1, <1>4, <1>5 DEF SwitchInv

\* Every step keeps it.
LEMMA SwitchNext == TypeInv /\ SwitchInv /\ [StatusNext]_statusVars => SwitchInv'
<1> SUFFICES ASSUME TypeInv, SwitchInv, [StatusNext]_statusVars, ~raced' PROVE SwitchInv'
  BY DEF SwitchInv
<1>1. CASE Second
  BY <1>1, SecondKeeps
<1>2. CASE CountDown
  BY <1>2, CountDownV1Keeps, CountDownV2Keeps DEF CountDown
<1>3. CASE Switch
  BY <1>3, ToggleKeeps DEF Switch
<1>4. CASE StartPause
  BY <1>4, StatusAssumption, ToggleKeeps DEF StartPause, PauseOffered
<1>5. CASE BecomeVisible
  <2>1. Poll("timer") \in Tasks /\ TaskInv(Poll("timer"), protection, view)
    BY TaskTypes DEF TaskInv
  <2>2. Send(Poll("timer")) /\ UNCHANGED <<client, protection, view, processing, countdown, due>>
    BY <1>5 DEF BecomeVisible
  <2>3. /\ ~raced /\ TasksInv(tasks', protection, view)
        /\ NoSet(tasks') => NoSet(tasks)
    BY <2>1, <2>2, SentKeeps
  <2>4. Seen => Seen'
    BY <2>2 DEF Seen, Lag, Counting
  <2> QED
    BY <2>2, <2>3, <2>4 DEF SwitchInv
<1>6. ASSUME NEW i \in DOMAIN tasks,
             \/ Answer(i) \/ ToggleDone(i) \/ ToggleFails(i) \/ StatusArrived(i)
             \/ StatusNotYet(i) \/ TryAgain(i)
      PROVE  SwitchInv'
  <2>1. ~ToggleFails(i)
    BY DEF ToggleFails
  <2> QED
    BY <1>6, <2>1, AnswerKeeps, ToggleDoneKeeps, StatusArrivedKeeps, StatusNotYetKeeps,
       TryAgainKeeps
<1>7. CASE UNCHANGED statusVars
  BY <1>7 DEF statusVars, SwitchInv, Seen, Lag, Counting
<1> QED
  BY <1>1, <1>2, <1>3, <1>4, <1>5, <1>6, <1>7 DEF StatusNext

\* For any length of a pause and however late the timers, statuses and looks at
\* the tab come: unless a change failed or met another request or the end of a
\* countdown, the switch of both clients shows the server's state or counts down
\* to it.
THEOREM SwitchIsTrueTheorem == StatusSpec => []SwitchIsTrue
<1>1. StatusInit => TypeInv /\ SwitchInv
  BY TypeInit, SwitchInit
<1>2. TypeInv /\ SwitchInv /\ [StatusNext]_statusVars => TypeInv' /\ SwitchInv'
  BY TypeNext, SwitchNext
<1>3. TypeInv /\ SwitchInv => SwitchIsTrue
  <2> SUFFICES ASSUME TypeInv, SwitchInv, tasks = <<>>, ~raced, ~processing
               PROVE  view.on = protection.on \/ Counting
    BY DEF SwitchIsTrue
  <2>1. NoSet(tasks)
    BY DEF NoSet
  <2>2. Seen
    BY <2>1 DEF SwitchInv
  <2>3. view.on \in BOOLEAN /\ protection.on \in BOOLEAN
    BY DEF TypeInv, States
  <2> QED
    BY <2>2, <2>3 DEF Seen
<1> QED
  BY <1>1, <1>2, <1>3, PTL DEF StatusSpec
=============================================================================
