--------------------------- MODULE QueryLogProofs ---------------------------
(***************************************************************************)
(* Proofs about QueryLog, for every capacity of the buffer, every number   *)
(* of workers and every bound.                                             *)
(***************************************************************************)
EXTENDS QueryLog, SequenceTheorems, FiniteSetTheorems, TLAPS

-----------------------------------------------------------------------------
(* The scheduling of flushes.  A flag is not enough for the induction: a   *)
(* flush that finds the buffer empty ends without resetting the flag, so   *)
(* the flag must never be set while the buffer is empty.                   *)

\* The type of an entry, without the bounds of the model.
Records == [hour : Nat, made : Nat, pushed : Nat]

ScheduleInv ==
    /\ buffer \in Seq(Records)
    /\ adding \in [Workers -> Records]
    /\ Len(buffer) <= Capacity
    /\ flushers \in Nat
    /\ flushPending \in BOOLEAN
    /\ FileEnabled /\ Len(buffer) = Capacity => flushPending
    /\ flushPending => flushers > 0 /\ buffer # <<>>
    /\ made \in Nat /\ pushed \in Nat
    /\ hour \in Nat

\* newQueryLog makes a buffer of at least one entry, and of MemSize entries.
LEMMA CapacityPositive == Capacity \in Nat /\ Capacity > 0 /\ Capacity >= MemSize
  BY QueryLogAssumption DEF Capacity

\* An empty sequence has length 0, and only it.
LEMMA EmptyLen == \A s \in Seq(Records) : Len(s) \in Nat /\ (Len(s) = 0 <=> s = <<>>)
  OBVIOUS

\* What a push does to the buffer: it is no longer empty, and it grows until
\* it is full.
LEMMA PushedFacts ==
    ASSUME NEW S, NEW s \in Seq(S), NEW e \in S, Len(s) <= Capacity
    PROVE  /\ Pushed(s, e) \in Seq(S)
           /\ Pushed(s, e) # <<>>
           /\ Len(Pushed(s, e)) = IF Len(s) = Capacity THEN Capacity
                                  ELSE Len(s) + 1
<1>1. CASE Len(s) = Capacity
  <2>1. s # <<>>
    BY <1>1, CapacityPositive
  <2>2. Tail(s) \in Seq(S) /\ Len(Tail(s)) = Len(s) - 1
    BY <2>1
  <2> DEFINE t == Tail(s)
  <2>3. Append(t, e) \in Seq(S) /\ Len(Append(t, e)) = Len(t) + 1
    BY <2>2
  <2>4. Pushed(s, e) = Append(t, e)
    BY <1>1 DEF Pushed
  <2>5. Len(s) \in Nat
    OBVIOUS
  <2> HIDE DEF t
  <2>6. Append(t, e) # <<>>
    BY <2>2, AppendProperties DEF t
  <2> QED
    BY <1>1, <2>2, <2>3, <2>4, <2>5, <2>6, CapacityPositive DEF t
<1>2. CASE Len(s) # Capacity
  <2>1. Pushed(s, e) = Append(s, e)
    BY <1>2 DEF Pushed
  <2> QED
    BY <1>2, <2>1
<1> QED
  BY <1>1, <1>2

\* The invariant holds when the buffer is empty and no flush is pending.
LEMMA ScheduleIfEmpty ==
    ASSUME buffer' = <<>>, flushPending' \in BOOLEAN, ~flushPending',
           flushers' \in Nat, UNCHANGED <<adding, made, pushed, hour>>, ScheduleInv
    PROVE  ScheduleInv'
<1>1. buffer' \in Seq(Records) /\ Len(buffer') = 0
  OBVIOUS
<1>2. Len(buffer') <= Capacity /\ ~(Len(buffer') = Capacity)
  BY <1>1, CapacityPositive
<1>3. /\ adding' \in [Workers -> Records]
      /\ made' \in Nat /\ pushed' \in Nat
      /\ hour' \in Nat
  BY DEF ScheduleInv
<1> QED
  BY <1>1, <1>2, <1>3, Zenon DEF ScheduleInv

\* Steps that leave the memory alone keep the invariant.
LEMMA ScheduleIfUnchanged ==
    ASSUME UNCHANGED <<adding, buffer, flushPending, flushers, made, pushed, hour>>,
           ScheduleInv
    PROVE  ScheduleInv'
  BY DEF ScheduleInv

\* newQueryLog establishes the invariant.
LEMMA ScheduleInit == Init => ScheduleInv
<1> SUFFICES ASSUME Init PROVE ScheduleInv
  OBVIOUS
<1>1. buffer = <<>> /\ flushers = 0 /\ ~flushPending /\ flushPending \in BOOLEAN
        /\ made = 0 /\ pushed = 0 /\ hour = 0
  BY DEF Init
<1>2. buffer \in Seq(Records) /\ Len(buffer) = 0
  BY <1>1
<1>3. adding \in [Workers -> Records]
  BY DEF Init, NotAdding, Records
<1>4. hour \in Nat
  BY <1>1, QueryLogAssumption
<1> QED
  BY <1>1, <1>2, <1>3, <1>4, CapacityPositive DEF ScheduleInv

\* Every step keeps the invariant: Add fills the buffer and schedules, a flush
\* and a clear empty the buffer and reset the flag together.
LEMMA ScheduleNext == ScheduleInv /\ [Next]_vars => ScheduleInv'
<1> SUFFICES ASSUME ScheduleInv, [Next]_vars PROVE ScheduleInv'
  OBVIOUS
<1>1. ASSUME NEW w \in Workers, NewLogEntry(w) PROVE ScheduleInv'
  <2>1. [hour |-> hour, made |-> made + 1, pushed |-> 0] \in Records
    BY DEF Records, ScheduleInv
  <2>2. /\ adding' \in [Workers -> Records]
        /\ made' \in Nat
        /\ UNCHANGED <<buffer, flushPending, flushers, pushed, hour>>
    BY <1>1, <2>1 DEF NewLogEntry, confVars, ScheduleInv
  <2> QED
    BY <2>2 DEF ScheduleInv
<1>2. ASSUME NEW w \in Workers, Add(w) PROVE ScheduleInv'
  <2> USE DEF ScheduleInv
  <2> DEFINE e == [adding[w] EXCEPT !.pushed = pushed + 1]
  <2>1. adding[w] \in Records /\ pushed + 1 \in Nat
    OBVIOUS
  <2>2. \A r \in Records, n \in Nat : [r EXCEPT !.pushed = n] \in Records
    BY DEF Records
  <2>3. e \in Records /\ NotAdding \in Records
    BY <2>1, <2>2 DEF Records, NotAdding
  <2>4. /\ buffer' = Pushed(buffer, e)
        /\ pushed' \in Nat
        /\ UNCHANGED <<made, hour>>
    BY <1>2 DEF Add, confVars
  <2> HIDE DEF e
  <2>5. /\ buffer' \in Seq(Records) /\ buffer' # <<>>
        /\ Len(buffer') = IF Len(buffer) = Capacity THEN Capacity
                          ELSE Len(buffer) + 1
    BY <2>3, <2>4, PushedFacts
  <2>6. adding' \in [Workers -> Records]
    BY <1>2, <2>3 DEF Add
  <2>7. flushPending' \in BOOLEAN /\ flushers' \in Nat
    BY <1>2 DEF Add, StartsFlush
  <2>8. flushPending' => flushers' > 0
    BY <1>2 DEF Add
  <2>9. FileEnabled /\ Len(buffer') = Capacity => flushPending'
    <3>1. CASE Len(buffer) = Capacity
      BY <1>2, <3>1 DEF Add
    <3>2. CASE Len(buffer) # Capacity
      BY <1>2, <2>5, <3>2, CapacityPositive, QueryLogAssumption
         DEF Add, StartsFlush
    <3> QED
      BY <3>1, <3>2
  <2>10. Len(buffer') <= Capacity
    BY <2>5, CapacityPositive, EmptyLen
  <2> QED
    BY <2>4, <2>5, <2>6, <2>7, <2>8, <2>9, <2>10
<1>3. CASE FlushLogBuffer
  <2>1. flushers' \in Nat /\ UNCHANGED <<adding, made, pushed, hour>>
    BY <1>3 DEF FlushLogBuffer, confVars, ScheduleInv
  <2>2. CASE buffer = <<>>
    <3>1. UNCHANGED <<buffer, flushPending>>
      BY <1>3, <2>2, Zenon DEF FlushLogBuffer, EncodeEntries
    <3>2. flushPending \in BOOLEAN /\ ~flushPending
      BY <2>2, Zenon DEF ScheduleInv
    <3> QED
      BY <2>1, <2>2, <3>1, <3>2, ScheduleIfEmpty, Zenon
  <2>3. CASE buffer # <<>>
    <3>1. buffer' = <<>> /\ flushPending' = FALSE
      BY <1>3, <2>3, Zenon DEF FlushLogBuffer, EncodeEntries
    <3> QED
      BY <2>1, <3>1, ScheduleIfEmpty, Zenon
  <2> QED
    BY <2>2, <2>3
<1>4. CASE ShutdownFlush
  <2>1. \/ UNCHANGED <<buffer, flushPending>>
        \/ buffer' = <<>> /\ flushPending' = FALSE
    BY <1>4, Zenon DEF ShutdownFlush, EncodeEntries
  <2>2. UNCHANGED <<adding, flushers, made, pushed, hour>>
    BY <1>4, Zenon DEF ShutdownFlush
  <2>3. flushers \in Nat
    BY DEF ScheduleInv
  <2> QED
    BY <2>1, <2>2, <2>3, ScheduleIfEmpty, ScheduleIfUnchanged, Zenon
<1>5. CASE ClearBuffer
  <2>1. buffer' = <<>> /\ flushPending' = FALSE
        /\ UNCHANGED <<adding, flushers, made, pushed, hour>>
    BY <1>5, Zenon DEF ClearBuffer, PendingAfterClear, confVars
  <2>2. flushers \in Nat
    BY DEF ScheduleInv
  <2> QED
    BY <2>1, <2>2, ScheduleIfEmpty, Zenon
<1>6. CASE Start
  <2>1. buffer' = <<>> /\ flushPending' = FALSE /\ flushers' = 0
        /\ UNCHANGED <<adding, made, pushed, hour>>
    BY <1>6, Zenon DEF Start
  <2> QED
    BY <2>1, ScheduleIfEmpty
<1>7. CASE OpenLog \/ WriteLog \/ CheckRotation \/ Rotate \/ ClearOld
             \/ ClearLog \/ Search \/ SearchEnd \/ SetConfig \/ Shutdown
  <2>1. UNCHANGED memVars /\ UNCHANGED hour
    BY <1>7, Zenon DEF OpenLog, WriteLog, CheckRotation, Rotate, ClearOld,
         ClearLog, Search, SearchEnd, SetConfig, Shutdown, confVars
  <2> QED
    BY <2>1, ScheduleIfUnchanged DEF memVars
<1>9. CASE Tick
  BY <1>9, QueryLogAssumption DEF Tick, memVars, ScheduleInv
<1>10. CASE UNCHANGED vars
  BY <1>10, ScheduleIfUnchanged DEF vars
<1> QED
  BY <1>1, <1>2, <1>3, <1>4, <1>5, <1>6, <1>7, <1>9, <1>10 DEF Next

\* A full buffer is always going to be flushed: whatever clears, flushes,
\* restarts and workers do, flushPending is set when it is full, and never
\* without a flush that is still to come.
THEOREM FullIsScheduledTheorem == Spec => []FullIsScheduled
<1>1. ScheduleInv => FullIsScheduled
  BY DEF ScheduleInv, FullIsScheduled
<1> QED
  BY <1>1, ScheduleInit, ScheduleNext, PTL DEF Spec

-----------------------------------------------------------------------------
(* Types.  That an entry's rank in the buffer's order stays within the     *)
(* number of entries made needs a count: every entry made has been pushed  *)
(* or is in the hands of one worker.                                       *)

Busy == {w \in Workers : adding[w] # NotAdding}

CountInv ==
    /\ IsFiniteSet(Busy)
    /\ pushed + Cardinality(Busy) = made
    /\ process # "up" => starts < MaxStarts
    /\ lock = "stop" => process # "up"

TypeInv == TypeOK /\ CountInv

\* newQueryLog establishes the types.
LEMMA TypeInit == Init => TypeInv
<1> SUFFICES ASSUME Init PROVE TypeInv
  OBVIOUS
<1>1. Absent \in Files
  BY DEF Absent, Files
<1>2. Busy = {}
  BY DEF Init, Busy
<1>3. IsFiniteSet(Busy) /\ Cardinality(Busy) = 0
  BY <1>2, FS_EmptySet
<1>4. adding \in [Workers -> Entries \cup {NotAdding}]
  BY DEF Init
<1>5. buffer = <<>> /\ batch = <<>> /\ Len(buffer) <= Capacity
  BY CapacityPositive DEF Init
<1>6. search.at \in 0..3
  BY DEF Init, NotSearching
<1>7. hour \in 0..MaxHour /\ made \in 0..MaxEntries /\ pushed \in 0..made /\ starts \in 0..MaxStarts
        /\ flushers \in Nat /\ ivl \in Nat \ {0}
  BY QueryLogAssumption DEF Init
<1>8. log \in Files /\ old \in Files
  BY <1>1 DEF Init
<1>9. buffer \in Seq(Entries) /\ batch \in Seq(Entries)
  BY <1>5
<1>10. TypeOK
  BY <1>4, <1>5, <1>6, <1>7, <1>8, <1>9, Zenon DEF Init, TypeOK
<1> QED
  BY <1>3, <1>10 DEF TypeInv, CountInv, Init

\* Every step keeps the types.
LEMMA TypeNext == TypeInv /\ [Next]_vars => TypeInv'
<1> SUFFICES ASSUME TypeInv, [Next]_vars PROVE TypeInv'
  OBVIOUS
<1> USE DEF TypeInv, TypeOK, CountInv
<1>1. Absent \in Files /\ <<>> \in Seq(Entries) /\ Len(<<>>) <= Capacity
  <2>1. Absent \in Files
    BY DEF Absent, Files
  <2>2. Len(<<>>) = 0
    OBVIOUS
  <2> QED
    BY <2>1, <2>2, CapacityPositive
<1>2. ASSUME NEW w \in Workers, NewLogEntry(w) PROVE TypeInv'
  <2> DEFINE e == [hour |-> hour, made |-> made + 1, pushed |-> 0]
  <2>1. made + 1 \in 0..MaxEntries /\ made + 1 \in 1..MaxEntries /\ 0 \in 0..MaxEntries
    BY <1>2, QueryLogAssumption DEF NewLogEntry
  <2>2. e \in Entries /\ e # NotAdding
    BY <2>1 DEF Entries, NotAdding
  <2>3. adding' = [adding EXCEPT ![w] = e] /\ adding[w] = NotAdding /\ made' = made + 1
    BY <1>2 DEF NewLogEntry
  <2> HIDE DEF e
  <2>4. adding' \in [Workers -> Entries \cup {NotAdding}]
    BY <2>2, <2>3
  <2>5. Busy' = Busy \cup {w} /\ w \notin Busy
    BY <2>2, <2>3 DEF Busy
  <2>6. IsFiniteSet(Busy') /\ Cardinality(Busy') = Cardinality(Busy) + 1
    BY <2>5, FS_AddElement
  <2>7. Cardinality(Busy) \in Nat
    BY FS_CardinalityType
  <2>8. UNCHANGED <<confVars, buffer, flushPending, flushers, pushed, flushVars, fileVars, restVars>>
    BY <1>2 DEF NewLogEntry
  <2> QED
    BY <2>1, <2>3, <2>4, <2>6, <2>7, <2>8 DEF confVars, flushVars, fileVars, restVars
<1>3. ASSUME NEW w \in Workers, Add(w) PROVE TypeInv'
  <2> DEFINE e == [adding[w] EXCEPT !.pushed = pushed + 1]
  <2>1. Busy' = Busy \ {w} /\ w \in Busy
    BY <1>3 DEF Add, Busy
  <2>2. /\ IsFiniteSet(Busy') /\ Cardinality(Busy') = Cardinality(Busy) - 1
        /\ Cardinality(Busy) \in Nat /\ Cardinality(Busy') \in Nat
    BY <2>1, FS_RemoveElement, FS_CardinalityType
  <2>3. pushed + 1 \in 0..made /\ pushed + 1 \in 0..MaxEntries
    BY <2>2, QueryLogAssumption
  <2>4. adding[w] \in Entries
    BY <1>3 DEF Add
  <2>5. e \in Entries
    BY <2>3, <2>4 DEF Entries
  <2>6. buffer' = Pushed(buffer, e)
    BY <1>3 DEF Add
  <2> HIDE DEF e
  <2>7. buffer' \in Seq(Entries) /\ Len(buffer') <= Capacity
    BY <2>5, <2>6, PushedFacts, CapacityPositive
  <2>8. adding' \in [Workers -> Entries \cup {NotAdding}] /\ pushed' = pushed + 1
    BY <1>3 DEF Add
  <2>9. flushPending' \in BOOLEAN /\ flushers' \in Nat
    BY <1>3 DEF Add, StartsFlush
  <2>10. UNCHANGED <<confVars, made, flushVars, fileVars, restVars>>
    BY <1>3 DEF Add
  <2> QED
    BY <2>2, <2>3, <2>7, <2>8, <2>9, <2>10 DEF confVars, flushVars, fileVars, restVars
<1>4. UNCHANGED adding => UNCHANGED Busy
  BY DEF Busy
<1>5. CASE FlushLogBuffer
  <2>1. flushers' \in Nat
    BY <1>5 DEF FlushLogBuffer
  <2>2. /\ buffer' \in Seq(Entries) /\ Len(buffer') <= Capacity /\ batch' \in Seq(Entries)
        /\ lock' \in {lock, "flush"} /\ flushPending' \in BOOLEAN
    BY <1>1, <1>5 DEF FlushLogBuffer, EncodeEntries, Encoded
  <2>3. UNCHANGED <<confVars, adding, made, pushed, target, fileVars, restVars>>
    BY <1>5 DEF FlushLogBuffer
  <2> QED
    BY <1>4, <2>1, <2>2, <2>3 DEF confVars, fileVars, restVars
<1>6. CASE ShutdownFlush
  <2>1. /\ buffer' \in Seq(Entries) /\ Len(buffer') <= Capacity /\ batch' \in Seq(Entries)
        /\ lock' \in {"none", "flush", "stop", "clear"} /\ flushPending' \in BOOLEAN
    BY <1>1, <1>6 DEF ShutdownFlush, EncodeEntries, Encoded
  <2>2. process' \in {"stopping", "down"} /\ process # "up"
    BY <1>6 DEF ShutdownFlush
  <2>3. UNCHANGED <<hour, enabled, ivl, starts, adding, flushers, made, pushed,
                    target, fileVars, restVars>>
    BY <1>6 DEF ShutdownFlush
  <2> QED
    BY <1>4, <2>1, <2>2, <2>3 DEF fileVars, restVars
<1>7. CASE OpenLog
  <2>1. log' \in Files
    BY <1>7 DEF OpenLog, Files
  <2> QED
    BY <1>4, <1>7, <2>1 DEF OpenLog, confVars, memVars, restVars
<1>8. CASE WriteLog
  <2>1. Written(log, "log") \in Files /\ Written(old, "old") \in Files
    <3>1. \A f \in Files : f.lines \o batch \in Seq(Entries)
      BY ConcatProperties DEF Files
    <3>2. \A f \in Files : [f EXCEPT !.lines = f.lines \o batch] \in Files
      BY <3>1 DEF Files
    <3> QED
      BY <3>2 DEF Written
  <2>2. log' \in Files /\ old' \in Files
    BY <1>8, <2>1 DEF WriteLog, fileVars
  <2>3. process' \in {"up", "stopping", "down"} /\ (process' # "up" => process # "up" \/ lock = "stop")
    BY <1>8 DEF WriteLog
  <2>4. batch' = <<>> /\ target' = "none" /\ lock' = "none"
    BY <1>8 DEF WriteLog
  <2>5. UNCHANGED <<hour, enabled, ivl, starts, memVars, restVars>>
    BY <1>8 DEF WriteLog
  <2> QED
    BY <1>1, <1>4, <2>2, <2>3, <2>4, <2>5 DEF memVars, restVars
<1>9. CASE CheckRotation
  <2>1. rotating' \in BOOLEAN /\ due' \in BOOLEAN
    BY <1>9 DEF CheckRotation
  <2> QED
    BY <1>4, <1>9, <2>1 DEF CheckRotation, confVars, memVars, flushVars, fileVars
<1>10. CASE Rotate
  <2>1. log' \in Files /\ old' \in Files
    BY <1>1, <1>10 DEF Rotate, fileVars
  <2>2. target' \in {"none", "log", "old", "gone"} /\ rotating' \in BOOLEAN
    BY <1>10 DEF Rotate
  <2>3. UNCHANGED <<confVars, memVars, lock, batch, clear, due, search, cleared,
                    unremoved>>
    BY <1>10 DEF Rotate
  <2> QED
    BY <1>4, <2>1, <2>2, <2>3 DEF confVars, memVars
<1>11. CASE ClearBuffer
  <2>1. cleared' \subseteq Entries /\ unremoved' \subseteq Entries
    BY <1>11 DEF ClearBuffer, Kept, InFiles, ElementsOf, Files
  <2>2. /\ lock' = "clear" /\ clear' = "old"
        /\ buffer' = <<>> /\ flushPending' \in BOOLEAN
    BY <1>11 DEF ClearBuffer, PendingAfterClear, CanClear
  <2>3. UNCHANGED <<confVars, adding, flushers, made, pushed, batch, target,
                    fileVars, due, rotating, search>>
    BY <1>11 DEF ClearBuffer
  <2> QED
    BY <1>1, <1>4, <2>1, <2>2, <2>3 DEF confVars, fileVars
<1>12. CASE ClearOld
  <2>1. target' \in {"none", "log", "old", "gone"} /\ old' \in Files /\ clear' = "log"
    BY <1>1, <1>12 DEF ClearOld
  <2>2. unremoved' \subseteq Entries
    BY <1>12 DEF ClearOld, ElementsOf, Files
  <2> QED
    BY <1>4, <1>12, <2>1, <2>2 DEF ClearOld, confVars, memVars
<1>13. CASE ClearLog
  <2>1. target' \in {"none", "log", "old", "gone"} /\ log' \in Files /\ clear' = "idle"
        /\ lock' \in {"none", "flush", "stop", "clear"} /\ lock' \in {"none", lock}
    BY <1>1, <1>13 DEF ClearLog
  <2>2. unremoved' \subseteq Entries
    <3>1. ElementsOf(log.lines) \subseteq Entries
      BY DEF ElementsOf, Files
    <3> QED
      BY <1>13, <3>1 DEF ClearLog
  <2>3. UNCHANGED <<confVars, memVars, batch, old, due, rotating, search, cleared>>
    BY <1>13 DEF ClearLog
  <2> QED
    BY <1>4, <2>1, <2>2, <2>3 DEF confVars, memVars
<1>14. CASE SetConfig
  BY <1>4, <1>14, QueryLogAssumption DEF SetConfig, memVars, flushVars, fileVars, restVars
<1>15. CASE Search
  <2>1. search'.at \in 0..3
    BY <1>15 DEF Search, SearchOrder
  <2> QED
    BY <1>4, <1>15, <2>1 DEF Search, confVars, memVars, flushVars, fileVars
<1>16. CASE SearchEnd
  <2>1. search'.at \in 0..3
    BY <1>16 DEF SearchEnd, NotSearching
  <2> QED
    BY <1>4, <1>16, <2>1 DEF SearchEnd, confVars, memVars, flushVars, fileVars
<1>17. CASE Shutdown
  BY <1>4, <1>17 DEF Shutdown, memVars, flushVars, fileVars, restVars
<1>18. CASE Start
  <2>1. starts' \in 0..MaxStarts
    BY <1>18, QueryLogAssumption DEF Start
  <2>2. search'.at \in 0..3
    BY <1>18 DEF Start, NotSearching
  <2> QED
    BY <1>1, <1>4, <1>18, <2>1, <2>2 DEF Start, fileVars
<1>19. CASE Tick
  BY <1>4, <1>19, QueryLogAssumption DEF Tick, memVars, flushVars, fileVars
<1>20. CASE UNCHANGED vars
  BY <1>4, <1>20 DEF vars
<1> QED
  BY <1>2, <1>3, <1>5, <1>6, <1>7, <1>8, <1>9, <1>10, <1>11, <1>12, <1>13, <1>14,
     <1>15, <1>16, <1>17, <1>18, <1>19, <1>20 DEF Next

\* The state always has its types: the buffer never outgrows its capacity, and
\* no entry gets into the log that no worker has made.
THEOREM TypeCorrect == Spec => []TypeOK
<1>1. TypeInv => TypeOK
  BY DEF TypeInv
<1> QED
  BY <1>1, TypeInit, TypeNext, PTL DEF Spec

-----------------------------------------------------------------------------
(* The lock of the files.  What a flush has in its hands, the file it has  *)
(* opened and a running clear all belong to the holder of fileFlushLock.   *)
(* A file that is renamed under a flush leaves no newer one behind, for    *)
(* only a flush creates it: so nothing ends up behind entries younger than *)
(* itself.  And nothing comes after the last flush, because the workers    *)
(* are gone before it begins.                                              *)

LockInv ==
    /\ batch # <<>> \/ target # "none" => lock \in {"flush", "stop"}
    /\ clear # "idle" => lock = "clear"
    /\ target \in {"none", "log", "old"}
    /\ target = "old" => log = Absent
    /\ ~FileEnabled => /\ flushers = 0 /\ lock \in {"none", "clear"}
                       /\ log.lines = <<>> /\ old.lines = <<>>

StopInv ==
    /\ process # "up" => \A w \in Workers : adding[w] = NotAdding
    /\ lock = "stop" => process = "stopping" /\ buffer = <<>>
    /\ process = "down" /\ FileEnabled => lock = "none" /\ buffer = <<>>

\* Every step keeps both.
LEMMA LockNext ==
    TypeInv /\ LockInv /\ StopInv /\ [Next]_vars => LockInv' /\ StopInv'
<1> SUFFICES ASSUME TypeInv, LockInv, StopInv, [Next]_vars PROVE LockInv' /\ StopInv'
  OBVIOUS
<1> USE DEF LockInv, StopInv
<1>1. /\ lock \in {"none", "flush", "stop", "clear"} /\ flushers \in Nat
      /\ process \in {"up", "stopping", "down"} /\ clear \in {"idle", "old", "log"}
      /\ adding \in [Workers -> Entries \cup {NotAdding}]
  BY DEF TypeInv, TypeOK
<1>2. Absent.lines = <<>> /\ ~Absent.exists
  BY DEF Absent
<1>3. ASSUME NEW w \in Workers, NewLogEntry(w) PROVE LockInv' /\ StopInv'
  BY <1>3 DEF NewLogEntry, confVars, flushVars, fileVars, restVars
<1>4. ASSUME NEW w \in Workers, Add(w) PROVE LockInv' /\ StopInv'
  <2>1. process = "up" /\ UNCHANGED <<process, lock, batch, target, log, old, clear>>
    BY <1>1, <1>4 DEF Add, confVars, flushVars, fileVars, restVars
  <2>2. ~FileEnabled => flushers' = flushers
    BY <1>4 DEF Add, StartsFlush
  <2> QED
    BY <2>1, <2>2
<1>5. CASE FlushLogBuffer
  <2>1. /\ process # "down" /\ FileEnabled /\ lock = "none"
        /\ UNCHANGED <<process, adding, target, log, old, clear>>
    BY <1>1, <1>5 DEF FlushLogBuffer, EncodeEntries, confVars, fileVars, restVars
  <2>2. lock' \in {"none", "flush"} /\ (batch' # <<>> => lock' = "flush" \/ batch # <<>>)
    BY <1>5 DEF FlushLogBuffer, EncodeEntries
  <2> QED
    BY <2>1, <2>2
<1>6. CASE OpenLog
  <2>1. /\ lock \in {"flush", "stop"} /\ target' = "log"
        /\ UNCHANGED <<process, lock, batch, buffer, adding, old, clear, flushers>>
    BY <1>6 DEF OpenLog, confVars, memVars, restVars
  <2> QED
    BY <2>1
<1>7. CASE WriteLog
  <2>1. /\ lock \in {"flush", "stop"} /\ target' = "none" /\ batch' = <<>> /\ lock' = "none"
        /\ process' = IF lock = "stop" THEN "down" ELSE process
        /\ UNCHANGED <<buffer, adding, clear>>
    BY <1>7 DEF WriteLog, memVars, restVars
  <2> QED
    BY <2>1
<1>8. CASE Rotate
  <2>1. UNCHANGED <<process, adding, buffer, flushers, lock, batch, clear>>
    BY <1>8 DEF Rotate, confVars, memVars
  <2>2. CASE log.exists
    <3>1. old' = log /\ log' = Absent /\ target' = IF target = "log" THEN "old" ELSE target
      BY <1>2, <1>8, <2>2 DEF Rotate
    <3> QED
      BY <1>2, <2>1, <3>1
  <2>3. CASE ~log.exists
    BY <1>8, <2>1, <2>3 DEF Rotate, fileVars
  <2> QED
    BY <2>2, <2>3
<1>9. CASE ClearBuffer
  <2>1. lock = "none" /\ lock' = "clear" /\ buffer' = <<>> /\ clear' = "old"
        /\ UNCHANGED <<process, adding, flushers, batch, target, log, old>> /\ process = "up"
    BY <1>9 DEF ClearBuffer, CanClear, confVars, fileVars
  <2> QED
    BY <2>1
<1>10. CASE ClearOld
  <2>1. /\ lock = "clear" /\ target = "none" /\ target' = "none" /\ old' \in {old, Absent}
        /\ UNCHANGED <<process, adding, buffer, flushers, lock, batch, log>>
    BY <1>10 DEF ClearOld, confVars, memVars
  <2> QED
    BY <1>2, <2>1
<1>11. CASE ClearLog
  <2>1. /\ lock = "clear" /\ target = "none" /\ target' = "none" /\ log' \in {log, Absent}
        /\ clear' = "idle" /\ lock' = "none"
        /\ UNCHANGED <<process, adding, buffer, flushers, batch, old>>
    BY <1>11 DEF ClearLog, confVars, memVars
  <2> QED
    BY <1>2, <2>1
<1>12. CASE Shutdown
  <2>1. /\ process = "up" /\ process' = "stopping" /\ \A w \in Workers : adding[w] = NotAdding
        /\ UNCHANGED <<adding, buffer, flushers, lock, batch, target, log, old, clear>>
    BY <1>12 DEF Shutdown, memVars, flushVars, fileVars, restVars
  <2> QED
    BY <2>1
<1>13. CASE ShutdownFlush
  <2>1. process = "stopping" /\ lock # "stop" /\ UNCHANGED <<adding, flushers, target, log, old, clear>>
    BY <1>13 DEF ShutdownFlush, fileVars, restVars
  <2>2. process' = IF lock' = "stop" THEN process ELSE "down"
    BY <1>13 DEF ShutdownFlush
  <2>3. CASE FileEnabled /\ buffer # <<>>
    <3>1. lock = "none" /\ lock' = "stop" /\ buffer' = <<>>
      BY <1>13, <2>3 DEF ShutdownFlush, EncodeEntries
    <3> QED
      BY <2>1, <2>2, <2>3, <3>1
  <2>4. CASE FileEnabled /\ buffer = <<>>
    <3>1. lock = "none" /\ UNCHANGED <<lock, buffer, batch>>
      BY <1>13, <2>4 DEF ShutdownFlush, EncodeEntries
    <3> QED
      BY <2>1, <2>2, <2>4, <3>1
  <2>5. CASE ~FileEnabled
    <3>1. UNCHANGED <<lock, buffer, batch>>
      BY <1>13, <2>5 DEF ShutdownFlush
    <3> QED
      BY <2>1, <2>2, <2>5, <3>1
  <2> QED
    BY <2>3, <2>4, <2>5
<1>14. CASE Start
  <2>1. /\ process = "down" /\ process' = "up" /\ buffer' = <<>> /\ flushers' = 0 /\ lock' = "none"
        /\ batch' = <<>> /\ target' = "none" /\ clear' = "idle"
        /\ UNCHANGED <<adding, log, old>>
    BY <1>14 DEF Start, fileVars
  <2> QED
    BY <2>1
<1>15. CASE CheckRotation \/ SetConfig \/ Search \/ SearchEnd \/ Tick \/ UNCHANGED vars
  <2>1. UNCHANGED <<process, adding, buffer, flushers, lock, batch, target, log, old, clear>>
    BY <1>15 DEF CheckRotation, SetConfig, Search, SearchEnd, Tick, vars, confVars, memVars,
       flushVars, fileVars, restVars
  <2> QED
    BY <2>1
<1> QED
  BY <1>3, <1>4, <1>5, <1>6, <1>7, <1>8, <1>9, <1>10, <1>11, <1>12, <1>13, <1>14, <1>15
     DEF Next

\* At start nobody holds the lock.
LEMMA LockInit == Init => LockInv /\ StopInv
  BY DEF Init, LockInv, StopInv, Absent

StateInv == TypeInv /\ LockInv /\ StopInv

\* The three together are an invariant.
LEMMA StateInvariant == Spec => []StateInv
<1>1. Init => StateInv
  BY TypeInit, LockInit DEF StateInv
<1>2. StateInv /\ [Next]_vars => StateInv'
  BY TypeNext, LockNext DEF StateInv
<1> QED
  BY <1>1, <1>2, PTL DEF Spec

\* When the process has been shut down, nothing is left in the buffer or in the
\* hands of a flush: Shutdown waits for a flush that is under way, and no worker
\* comes after it.
THEOREM ShutdownWritesTheorem == Spec => []ShutdownWrites
<1>1. StateInv => ShutdownWrites
  BY DEF StateInv, LockInv, StopInv, ShutdownWrites
<1> QED
  BY <1>1, StateInvariant, PTL

-----------------------------------------------------------------------------
(* What the log holds: the order of its entries, what a clear forgets and  *)
(* what a search finds.                                                    *)

Increasing(s) == \A j, k \in 1..Len(s) : j < k => s[j].pushed < s[k].pushed
Before(s, t)  == \A j \in 1..Len(s), k \in 1..Len(t) : s[j].pushed < t[k].pushed
UpTo(s, n)    == \A j \in 1..Len(s) : s[j].pushed <= n

\* Ranks are numbers.
LEMMA RankNat == \A s \in Seq(Entries) : \A j \in 1..Len(s) : s[j] \in Entries /\ s[j].pushed \in Nat
<1>1. \A e \in Entries : e.pushed \in Nat
  BY QueryLogAssumption DEF Entries
<1>2. \A s \in Seq(Entries) : \A j \in 1..Len(s) : s[j] \in Entries
  BY ElementOfSeq
<1> QED
  BY <1>1, <1>2

\* What a push does, entry by entry: the oldest may go, the new one comes last.
LEMMA PushedAt ==
    ASSUME NEW S, NEW s \in Seq(S), NEW e \in S, Len(s) <= Capacity
    PROVE  \E d \in {0, 1} :
             /\ d <= Len(s)
             /\ Pushed(s, e) \in Seq(S)
             /\ Len(Pushed(s, e)) = Len(s) - d + 1
             /\ \A j \in 1..(Len(s) - d) : Pushed(s, e)[j] = s[j + d]
             /\ Pushed(s, e)[Len(s) - d + 1] = e
<1>1. CASE Len(s) = Capacity
  <2>1. s # <<>>
    BY <1>1, CapacityPositive
  <2> DEFINE t == Tail(s)
  <2>2. /\ t \in Seq(S) /\ Len(t) = Len(s) - 1 /\ Len(s) \in Nat /\ Len(s) > 0
        /\ \A j \in 1..Len(t) : t[j] = s[j + 1]
    BY <2>1, HeadTailProperties, CapacityPositive, <1>1
  <2>3. Pushed(s, e) = Append(t, e)
    BY <1>1 DEF Pushed
  <2> HIDE DEF t
  <2>4. /\ Append(t, e) \in Seq(S) /\ Len(Append(t, e)) = Len(t) + 1
        /\ \A j \in 1..Len(t) : Append(t, e)[j] = t[j]
        /\ Append(t, e)[Len(t) + 1] = e
    BY <2>2, AppendProperties
  <2> WITNESS 1 \in {0, 1}
  <2> QED
    BY <2>2, <2>3, <2>4
<1>2. CASE Len(s) # Capacity
  <2>1. Pushed(s, e) = Append(s, e)
    BY <1>2 DEF Pushed
  <2>2. /\ Append(s, e) \in Seq(S) /\ Len(Append(s, e)) = Len(s) + 1 /\ Len(s) \in Nat
        /\ \A j \in 1..Len(s) : Append(s, e)[j] = s[j]
        /\ Append(s, e)[Len(s) + 1] = e
    BY AppendProperties
  <2> WITNESS 0 \in {0, 1}
  <2> QED
    BY <2>1, <2>2
<1> QED
  BY <1>1, <1>2

\* A push keeps the order if the new entry has the next rank.
LEMMA PushedOrder ==
    ASSUME NEW s \in Seq(Entries), NEW e \in Entries, Len(s) <= Capacity, NEW n \in Nat,
           e.pushed = n + 1, Increasing(s), UpTo(s, n)
    PROVE  /\ Increasing(Pushed(s, e)) /\ UpTo(Pushed(s, e), n + 1)
           /\ \A r \in Seq(Entries) : Before(r, s) /\ UpTo(r, n) => Before(r, Pushed(s, e))
<1> DEFINE p == Pushed(s, e)
<1>1. PICK d \in {0, 1} :
             /\ d <= Len(s)
             /\ p \in Seq(Entries)
             /\ Len(p) = Len(s) - d + 1
             /\ \A j \in 1..(Len(s) - d) : p[j] = s[j + d]
             /\ p[Len(s) - d + 1] = e
  BY PushedAt
<1>2. Len(s) \in Nat /\ (\A j \in 1..Len(s) : s[j].pushed \in Nat)
  BY RankNat, LenProperties
<1> HIDE DEF p
<1>3. \A j \in 1..(Len(s) - d) : j + d \in 1..Len(s) /\ p[j].pushed <= n
  <2> TAKE j \in 1..(Len(s) - d)
  <2>1. j + d \in 1..Len(s)
    BY <1>1, <1>2
  <2>2. s[j + d].pushed <= n
    BY <2>1 DEF UpTo
  <2> QED
    BY <1>1, <2>1, <2>2
<1>4. p[Len(p)].pushed = n + 1
  BY <1>1
<1>5. UpTo(p, n + 1)
  <2> SUFFICES ASSUME NEW j \in 1..Len(p) PROVE p[j].pushed <= n + 1
    BY DEF UpTo
  <2>1. CASE j = Len(p)
    BY <1>4, <2>1
  <2>2. CASE j # Len(p)
    <3>1. j \in 1..(Len(s) - d)
      BY <1>1, <1>2, <2>2
    <3>2. p[j].pushed \in Nat /\ p[j].pushed <= n
      BY <1>1, <1>2, <1>3, <3>1
    <3> QED
      BY <3>2
  <2> QED
    BY <2>1, <2>2
<1>6. Increasing(p)
  <2> SUFFICES ASSUME NEW j \in 1..Len(p), NEW k \in 1..Len(p), j < k
               PROVE  p[j].pushed < p[k].pushed
    BY DEF Increasing
  <2>1. j \in 1..(Len(s) - d)
    BY <1>1, <1>2
  <2>2. CASE k = Len(p)
    <3>1. p[j].pushed \in Nat /\ p[j].pushed <= n
      BY <1>1, <1>2, <1>3, <2>1
    <3> QED
      BY <1>4, <2>2, <3>1
  <2>3. CASE k # Len(p)
    <3>1. k \in 1..(Len(s) - d)
      BY <1>1, <1>2, <2>3
    <3>2. s[j + d].pushed < s[k + d].pushed
      BY <1>1, <1>2, <1>3, <2>1, <3>1 DEF Increasing
    <3> QED
      BY <1>1, <2>1, <3>1, <3>2
  <2> QED
    BY <2>2, <2>3
<1>7. ASSUME NEW r \in Seq(Entries), Before(r, s), UpTo(r, n) PROVE Before(r, p)
  <2> SUFFICES ASSUME NEW j \in 1..Len(r), NEW k \in 1..Len(p) PROVE r[j].pushed < p[k].pushed
    BY DEF Before
  <2>1. r[j].pushed \in Nat /\ r[j].pushed <= n
    BY <1>7, RankNat DEF UpTo
  <2>2. CASE k = Len(p)
    BY <1>4, <2>1, <2>2
  <2>3. CASE k # Len(p)
    <3>1. k \in 1..(Len(s) - d)
      BY <1>1, <1>2, <2>3
    <3> QED
      BY <1>1, <1>3, <1>7, <3>1 DEF Before
  <2> QED
    BY <2>2, <2>3
<1> QED
  BY <1>5, <1>6, <1>7 DEF p

\* Sequences in order, one before the other, are in order together.
LEMMA ConcatOrder ==
    ASSUME NEW s \in Seq(Entries), NEW t \in Seq(Entries)
    PROVE  /\ Increasing(s) /\ Increasing(t) /\ Before(s, t) => Increasing(s \o t)
           /\ \A u \in Seq(Entries) : Before(s, u) /\ Before(t, u) => Before(s \o t, u)
           /\ \A u \in Seq(Entries) : Before(u, s) /\ Before(u, t) => Before(u, s \o t)
           /\ \A n \in Nat : UpTo(s, n) /\ UpTo(t, n) => UpTo(s \o t, n)
<1> DEFINE c == s \o t
<1>1. /\ c \in Seq(Entries) /\ Len(c) = Len(s) + Len(t) /\ Len(s) \in Nat /\ Len(t) \in Nat
      /\ \A i \in 1..Len(c) : c[i] = IF i <= Len(s) THEN s[i] ELSE t[i - Len(s)]
  BY ConcatProperties
<1> HIDE DEF c
<1>2. \A i \in 1..Len(c) :
        \/ i \in 1..Len(s) /\ c[i] = s[i]
        \/ i - Len(s) \in 1..Len(t) /\ i > Len(s) /\ c[i] = t[i - Len(s)]
  <2> TAKE i \in 1..Len(c)
  <2>1. CASE i <= Len(s)
    <3>1. c[i] = s[i]
      BY <1>1, <2>1
    <3>2. i \in 1..Len(s)
      BY <1>1, <2>1
    <3> QED
      BY <3>1, <3>2
  <2>2. CASE i > Len(s)
    <3>1. c[i] = t[i - Len(s)]
      BY <1>1, <2>2
    <3>2. i - Len(s) \in 1..Len(t)
      BY <1>1, <2>2
    <3> QED
      BY <2>2, <3>1, <3>2
  <2> QED
    BY <1>1, <2>1, <2>2
<1>3. ASSUME Increasing(s), Increasing(t), Before(s, t) PROVE Increasing(c)
  <2> SUFFICES ASSUME NEW j \in 1..Len(c), NEW k \in 1..Len(c), j < k
               PROVE  c[j].pushed < c[k].pushed
    BY DEF Increasing
  <2>1. CASE k <= Len(s)
    BY <1>1, <1>3, <2>1 DEF Increasing
  <2>2. CASE j <= Len(s) /\ k > Len(s)
    <3>1. j \in 1..Len(s) /\ k - Len(s) \in 1..Len(t) /\ c[j] = s[j] /\ c[k] = t[k - Len(s)]
      BY <1>1, <1>2, <2>2
    <3> QED
      BY <1>3, <3>1 DEF Before
  <2>3. CASE j > Len(s)
    <3>1. /\ j - Len(s) \in 1..Len(t) /\ k - Len(s) \in 1..Len(t) /\ j - Len(s) < k - Len(s)
          /\ c[j] = t[j - Len(s)] /\ c[k] = t[k - Len(s)]
      BY <1>1, <2>3
    <3> QED
      BY <1>3, <3>1 DEF Increasing
  <2> QED
    BY <1>1, <2>1, <2>2, <2>3
<1>4. ASSUME NEW u \in Seq(Entries), Before(s, u), Before(t, u) PROVE Before(c, u)
  BY <1>2, <1>4 DEF Before
<1>5. ASSUME NEW u \in Seq(Entries), Before(u, s), Before(u, t) PROVE Before(u, c)
  BY <1>2, <1>5 DEF Before
<1>6. ASSUME NEW n \in Nat, UpTo(s, n), UpTo(t, n) PROVE UpTo(c, n)
  BY <1>2, <1>6 DEF UpTo
<1> QED
  BY <1>3, <1>4, <1>5, <1>6 DEF c

\* Nothing is out of order in an empty sequence.
LEMMA EmptyOrder ==
    /\ Increasing(<<>>) /\ ElementsOf(<<>>) = {}
    /\ \A s : Before(<<>>, s) /\ Before(s, <<>>)
    /\ \A n : UpTo(<<>>, n)
  BY DEF Increasing, Before, UpTo, ElementsOf

OrderInv ==
    /\ Increasing(old.lines) /\ Increasing(log.lines)
    /\ Increasing(batch) /\ Increasing(buffer)
    /\ Before(old.lines, log.lines) /\ Before(old.lines, batch)
    /\ Before(old.lines, buffer) /\ Before(log.lines, batch)
    /\ Before(log.lines, buffer) /\ Before(batch, buffer)
    /\ UpTo(old.lines, pushed) /\ UpTo(log.lines, pushed)
    /\ UpTo(batch, pushed) /\ UpTo(buffer, pushed)

\* The order holds at start.
LEMMA OrderInit == Init => OrderInv
  BY EmptyOrder DEF Init, OrderInv, Absent

\* Every step keeps the order.
LEMMA OrderNext == StateInv /\ OrderInv /\ [Next]_vars => OrderInv'
<1> SUFFICES ASSUME StateInv, OrderInv, [Next]_vars PROVE OrderInv'
  OBVIOUS
<1>1. /\ buffer \in Seq(Entries) /\ Len(buffer) <= Capacity /\ batch \in Seq(Entries)
      /\ log.lines \in Seq(Entries) /\ old.lines \in Seq(Entries)
      /\ pushed \in Nat
  BY DEF StateInv, TypeInv, TypeOK, Files
<1>2. Absent.lines = <<>>
  BY DEF Absent
<1>3. CASE UNCHANGED <<buffer, batch, log, old, pushed>>
  BY <1>3 DEF OrderInv
<1>4. ASSUME NEW w \in Workers, Add(w) PROVE OrderInv'
  <2> DEFINE e == [adding[w] EXCEPT !.pushed = pushed + 1]
  <2>1. e \in Entries /\ e.pushed = pushed + 1
    <3>1. adding[w] \in Entries
      BY <1>4 DEF StateInv, TypeInv, TypeOK, Add
    <3>2. pushed' = pushed + 1 /\ pushed' \in 0..MaxEntries
      <4>1. TypeInv'
        BY TypeNext DEF StateInv
      <4> QED
        BY <1>4, <4>1, QueryLogAssumption DEF Add, TypeInv, TypeOK
    <3> QED
      BY <3>1, <3>2 DEF Entries
  <2>2. buffer' = Pushed(buffer, e) /\ pushed' = pushed + 1 /\ UNCHANGED <<batch, log, old>>
    BY <1>4 DEF Add, flushVars, fileVars
  <2> HIDE DEF e
  <2>3. /\ Increasing(buffer') /\ UpTo(buffer', pushed + 1)
        /\ Before(old.lines, buffer') /\ Before(log.lines, buffer') /\ Before(batch, buffer')
    BY <1>1, <2>1, <2>2, PushedOrder DEF OrderInv
  <2>4. ASSUME NEW s \in Seq(Entries), UpTo(s, pushed) PROVE UpTo(s, pushed + 1)
    <3> SUFFICES ASSUME NEW j \in 1..Len(s) PROVE s[j].pushed <= pushed + 1
      BY DEF UpTo
    <3>1. s[j].pushed \in Nat /\ s[j].pushed <= pushed
      BY <2>4, RankNat DEF UpTo
    <3> QED
      BY <1>1, <3>1
  <2> QED
    BY <1>1, <2>2, <2>3, <2>4 DEF OrderInv
<1>5. CASE FlushLogBuffer \/ ShutdownFlush
  <2>1. UNCHANGED <<log, old, pushed>>
    BY <1>5 DEF FlushLogBuffer, ShutdownFlush, fileVars
  <2>2. \/ UNCHANGED <<buffer, batch>>
        \/ buffer' = <<>> /\ batch' = buffer
    BY <1>5 DEF FlushLogBuffer, ShutdownFlush, EncodeEntries, Encoded
  <2> QED
    BY <2>1, <2>2, EmptyOrder DEF OrderInv
<1>6. CASE OpenLog
  <2>1. log'.lines = log.lines /\ UNCHANGED <<buffer, batch, old, pushed>>
    BY <1>6 DEF OpenLog, memVars, StateInv, TypeInv, TypeOK, Files
  <2> QED
    BY <2>1 DEF OrderInv
<1>7. CASE WriteLog
  <2>1. batch' = <<>> /\ UNCHANGED <<buffer, pushed>>
    BY <1>7 DEF WriteLog, memVars
  <2>2. CASE UNCHANGED <<log, old>>
    BY <2>1, <2>2, EmptyOrder DEF OrderInv
  <2>3. CASE log' = Written(log, "log") /\ old' = Written(old, "old")
    <3>1. CASE target = "log"
      <4>1. log'.lines = log.lines \o batch /\ old' = old
        BY <2>3, <3>1 DEF Written, StateInv, TypeInv, TypeOK, Files
      <4> QED
        BY <1>1, <2>1, <4>1, ConcatOrder, EmptyOrder DEF OrderInv
    <3>2. CASE target = "old"
      <4>1. old'.lines = old.lines \o batch /\ log' = log
        BY <2>3, <3>2 DEF Written, StateInv, TypeInv, TypeOK, Files
      <4>2. log.lines = <<>>
        BY <1>2, <3>2 DEF StateInv, LockInv
      <4> QED
        BY <1>1, <2>1, <4>1, <4>2, ConcatOrder, EmptyOrder DEF OrderInv
    <3> QED
      BY <1>7, <3>1, <3>2 DEF WriteLog, StateInv, LockInv
  <2> QED
    BY <1>7, <2>2, <2>3 DEF WriteLog, fileVars
<1>8. CASE Rotate
  <2>1. UNCHANGED <<buffer, batch, pushed>>
    BY <1>8 DEF Rotate, memVars
  <2>2. UNCHANGED <<log, old>> \/ (old' = log /\ log' = Absent)
    BY <1>8 DEF Rotate, fileVars
  <2> QED
    BY <1>2, <2>1, <2>2, EmptyOrder DEF OrderInv
<1>9. CASE ClearBuffer
  BY <1>9, EmptyOrder DEF ClearBuffer, fileVars, OrderInv
<1>10. CASE ClearOld
  BY <1>2, <1>10, EmptyOrder DEF ClearOld, memVars, OrderInv
<1>11. CASE ClearLog
  BY <1>2, <1>11, EmptyOrder DEF ClearLog, memVars, OrderInv
<1>12. CASE Start
  BY <1>12, EmptyOrder DEF Start, fileVars, OrderInv
<1>13. ASSUME NEW w \in Workers, NewLogEntry(w) PROVE OrderInv'
  BY <1>3, <1>13 DEF NewLogEntry, flushVars, fileVars
<1>14. CASE CheckRotation \/ SetConfig \/ Search \/ SearchEnd \/ Shutdown \/ Tick \/ UNCHANGED vars
  BY <1>3, <1>14 DEF CheckRotation, SetConfig, Search, SearchEnd, Shutdown, Tick, vars,
     memVars, flushVars, fileVars
<1> QED
  BY <1>4, <1>5, <1>6, <1>7, <1>8, <1>9, <1>10, <1>11, <1>12, <1>13, <1>14 DEF Next

\* The order is an invariant.
LEMMA OrderInvariant == Spec => [](StateInv /\ OrderInv)
  BY StateInvariant, OrderInit, OrderNext, PTL DEF Spec

\* The older file, the newer one, what a flush has in its hands and the buffer
\* hold entries in the order of Add, and none is in two places, although
\* rotations, flushes and clears run side by side.
THEOREM OldestFirstTheorem == Spec => []OldestFirst
<1>1. StateInv /\ OrderInv => OldestFirst
  <2> SUFFICES ASSUME StateInv, OrderInv PROVE OldestFirst
    OBVIOUS
  <2>1. /\ buffer \in Seq(Entries) /\ batch \in Seq(Entries)
        /\ log.lines \in Seq(Entries) /\ old.lines \in Seq(Entries)
    BY DEF StateInv, TypeInv, TypeOK, Files
  <2> DEFINE f == old.lines \o log.lines
             g == f \o batch
  <2>2. f \in Seq(Entries) /\ Increasing(f) /\ Before(f, batch) /\ Before(f, buffer)
    BY <2>1, ConcatOrder, ConcatProperties DEF OrderInv
  <2> HIDE DEF f
  <2>3. g \in Seq(Entries) /\ Increasing(g) /\ Before(g, buffer)
    BY <2>1, <2>2, ConcatOrder, ConcatProperties DEF OrderInv
  <2> HIDE DEF g
  <2>4. Increasing(g \o buffer)
    BY <2>1, <2>3, ConcatOrder DEF OrderInv
  <2> QED
    BY <2>4 DEF OldestFirst, Stored, Increasing, f, g
<1> QED
  BY <1>1, OrderInvariant, PTL

-----------------------------------------------------------------------------
(* What the log holds, as sets.                                            *)

\* The members of a concatenation.
LEMMA ElementsOfConcat ==
    ASSUME NEW s \in Seq(Entries), NEW t \in Seq(Entries)
    PROVE  ElementsOf(s \o t) = ElementsOf(s) \cup ElementsOf(t)
<1> DEFINE c == s \o t
<1>1. /\ Len(c) = Len(s) + Len(t) /\ Len(s) \in Nat /\ Len(t) \in Nat
      /\ \A i \in 1..Len(c) : c[i] = IF i <= Len(s) THEN s[i] ELSE t[i - Len(s)]
  BY ConcatProperties, LenProperties
<1> HIDE DEF c
<1>2. \A i \in 1..Len(c) : c[i] \in ElementsOf(s) \cup ElementsOf(t)
  <2> TAKE i \in 1..Len(c)
  <2>1. CASE i <= Len(s)
    BY <1>1, <2>1 DEF ElementsOf
  <2>2. CASE i > Len(s)
    <3>1. c[i] = t[i - Len(s)] /\ i - Len(s) \in 1..Len(t)
      BY <1>1, <2>2
    <3> QED
      BY <3>1 DEF ElementsOf
  <2> QED
    BY <1>1, <2>1, <2>2
<1>3. \A i \in 1..Len(s) : s[i] \in ElementsOf(c)
  BY <1>1 DEF ElementsOf
<1>4. \A i \in 1..Len(t) : t[i] \in ElementsOf(c)
  <2> TAKE i \in 1..Len(t)
  <2>1. i + Len(s) \in 1..Len(c) /\ c[i + Len(s)] = t[i]
    <3>1. /\ i + Len(s) \in 1..Len(c) /\ ~(i + Len(s) <= Len(s))
          /\ (i + Len(s)) - Len(s) = i
      BY <1>1
    <3> QED
      BY <1>1, <3>1
  <2> QED
    BY <2>1 DEF ElementsOf
<1> QED
  BY <1>2, <1>3, <1>4 DEF ElementsOf, c

\* A push brings one entry.
LEMMA ElementsOfPushed ==
    ASSUME NEW s \in Seq(Entries), NEW e \in Entries, Len(s) <= Capacity
    PROVE  ElementsOf(Pushed(s, e)) \subseteq ElementsOf(s) \cup {e}
<1> DEFINE p == Pushed(s, e)
<1>1. PICK d \in {0, 1} :
             /\ d <= Len(s)
             /\ Len(p) = Len(s) - d + 1
             /\ \A j \in 1..(Len(s) - d) : p[j] = s[j + d]
             /\ p[Len(s) - d + 1] = e
  BY PushedAt
<1>2. Len(s) \in Nat
  BY LenProperties
<1> HIDE DEF p
<1>3. \A j \in 1..(Len(s) - d) : p[j] \in ElementsOf(s)
  BY <1>1, <1>2 DEF ElementsOf
<1>4. \A j \in 1..Len(p) : j \in 1..(Len(s) - d) \/ p[j] = e
  BY <1>1, <1>2
<1> QED
  BY <1>3, <1>4 DEF ElementsOf, p

\* Sequences of which one comes before the other have no entry in common.
LEMMA BeforeDisjoint ==
    ASSUME NEW s \in Seq(Entries), NEW t \in Seq(Entries), Before(s, t)
    PROVE  ElementsOf(s) \cap ElementsOf(t) = {}
<1> SUFFICES ASSUME NEW j \in 1..Len(s), NEW k \in 1..Len(t), s[j] = t[k] PROVE FALSE
  BY DEF ElementsOf
<1>1. s[j].pushed < t[k].pushed /\ s[j].pushed \in Nat
  BY RankNat DEF Before
<1> QED
  BY <1>1

InMemory == ElementsOf(buffer) \cup ElementsOf(batch)
InOld    == ElementsOf(old.lines)
InLog    == ElementsOf(log.lines)

\* Where entries come from in a step: into memory only from a worker, with the
\* next rank, and into a file only from memory, unless the file is renamed.
LEMMA Movement ==
    ASSUME StateInv, [Next]_vars
    PROVE  /\ pushed' \in {pushed, pushed + 1}
           /\ \A e \in InMemory' : e \in InMemory \/ e.pushed = pushed + 1
           /\ InLog' \subseteq InLog \cup InMemory
           /\ \/ InOld' \subseteq InOld \cup InMemory
              \/ Rotate /\ log.exists
<1> USE DEF InMemory, InOld, InLog
<1>1. /\ buffer \in Seq(Entries) /\ Len(buffer) <= Capacity /\ batch \in Seq(Entries)
      /\ log.lines \in Seq(Entries) /\ old.lines \in Seq(Entries) /\ log \in Files /\ old \in Files
      /\ pushed \in Nat
  BY DEF StateInv, TypeInv, TypeOK, Files
<1>2. Absent.lines = <<>> /\ ElementsOf(<<>>) = {}
  BY EmptyOrder DEF Absent
<1>3. CASE UNCHANGED <<buffer, batch, log, old, pushed>>
  BY <1>3
<1>4. ASSUME NEW w \in Workers, Add(w)
      PROVE  /\ pushed' = pushed + 1 /\ UNCHANGED <<batch, log, old>>
             /\ \A e \in ElementsOf(buffer)' : e \in ElementsOf(buffer) \/ e.pushed = pushed + 1
  <2> DEFINE e == [adding[w] EXCEPT !.pushed = pushed + 1]
  <2>1. e \in Entries /\ e.pushed = pushed + 1
    <3>1. adding[w] \in Entries
      BY <1>4 DEF StateInv, TypeInv, TypeOK, Add
    <3>2. pushed' = pushed + 1 /\ pushed' \in 0..MaxEntries
      <4>1. TypeInv'
        BY TypeNext DEF StateInv
      <4> QED
        BY <1>4, <4>1, QueryLogAssumption DEF Add, TypeInv, TypeOK
    <3> QED
      BY <3>1, <3>2 DEF Entries
  <2>2. buffer' = Pushed(buffer, e) /\ pushed' = pushed + 1 /\ UNCHANGED <<batch, log, old>>
    BY <1>4 DEF Add, flushVars, fileVars
  <2> HIDE DEF e
  <2>3. ElementsOf(buffer') \subseteq ElementsOf(buffer) \cup {e}
    BY <1>1, <2>1, <2>2, ElementsOfPushed
  <2> QED
    BY <2>1, <2>2, <2>3
<1>5. CASE FlushLogBuffer \/ ShutdownFlush
  <2>1. UNCHANGED <<log, old, pushed>>
    BY <1>5 DEF FlushLogBuffer, ShutdownFlush, fileVars
  <2>2. \/ UNCHANGED <<buffer, batch>>
        \/ buffer' = <<>> /\ batch' = buffer
    BY <1>5 DEF FlushLogBuffer, ShutdownFlush, EncodeEntries, Encoded
  <2> QED
    BY <1>2, <2>1, <2>2
<1>6. CASE OpenLog
  <2>1. log'.lines = log.lines /\ UNCHANGED <<buffer, batch, old, pushed>>
    BY <1>1, <1>6 DEF OpenLog, memVars, Files
  <2> QED
    BY <2>1
<1>7. CASE WriteLog
  <2>1. batch' = <<>> /\ UNCHANGED <<buffer, pushed>>
    BY <1>7 DEF WriteLog, memVars
  <2>2. log' = log \/ log' = [log EXCEPT !.lines = log.lines \o batch]
    BY <1>7 DEF WriteLog, Written, fileVars
  <2>3. old' = old \/ old' = [old EXCEPT !.lines = old.lines \o batch]
    BY <1>7 DEF WriteLog, Written, fileVars
  <2>4. log'.lines \in {log.lines, log.lines \o batch}
    BY <1>1, <2>2 DEF Files
  <2>5. old'.lines \in {old.lines, old.lines \o batch}
    BY <1>1, <2>3 DEF Files
  <2>6. /\ ElementsOf(log.lines \o batch) = InLog \cup ElementsOf(batch)
        /\ ElementsOf(old.lines \o batch) = InOld \cup ElementsOf(batch)
    BY <1>1, ElementsOfConcat
  <2>7. InLog' \subseteq InLog \cup InMemory
    BY <2>4, <2>6
  <2>8. InOld' \subseteq InOld \cup InMemory
    BY <2>5, <2>6
  <2> QED
    BY <1>2, <2>1, <2>7, <2>8
<1>8. CASE Rotate
  <2>1. UNCHANGED <<buffer, batch, pushed>>
    BY <1>8 DEF Rotate, memVars
  <2>2. CASE log.exists
    BY <1>2, <1>8, <2>1, <2>2 DEF Rotate
  <2>3. CASE ~log.exists
    BY <1>8, <2>1, <2>3 DEF Rotate, fileVars
  <2> QED
    BY <2>2, <2>3
<1>9. CASE ClearBuffer
  BY <1>2, <1>9 DEF ClearBuffer, fileVars
<1>10. CASE ClearOld
  BY <1>2, <1>10 DEF ClearOld, memVars
<1>11. CASE ClearLog
  BY <1>2, <1>11 DEF ClearLog, memVars
<1>12. CASE Start
  BY <1>2, <1>12 DEF Start, fileVars
<1>13. CASE \E w \in Workers : NewLogEntry(w)
  BY <1>3, <1>13 DEF NewLogEntry, flushVars, fileVars
<1>14. CASE CheckRotation \/ SetConfig \/ Search \/ SearchEnd \/ Shutdown \/ Tick \/ UNCHANGED vars
  BY <1>3, <1>14 DEF CheckRotation, SetConfig, Search, SearchEnd, Shutdown, Tick, vars,
     memVars, flushVars, fileVars
<1>15. CASE \E w \in Workers : Add(w)
  BY <1>4, <1>15
<1> QED
  BY <1>5, <1>6, <1>7, <1>8, <1>9, <1>10, <1>11, <1>12, <1>13, <1>14, <1>15 DEF Next

\* Nothing that is held has a rank still to be given, and what is in a file is
\* not in memory.
LEMMA Apart ==
    ASSUME StateInv, OrderInv
    PROVE  /\ \A e \in InMemory \cup InOld \cup InLog : e.pushed <= pushed
           /\ InMemory \cap (InOld \cup InLog) = {}
<1>1. /\ buffer \in Seq(Entries) /\ batch \in Seq(Entries)
      /\ log.lines \in Seq(Entries) /\ old.lines \in Seq(Entries)
  BY DEF StateInv, TypeInv, TypeOK, Files
<1>2. \A s \in {buffer, batch, log.lines, old.lines} : \A e \in ElementsOf(s) : e.pushed <= pushed
  BY DEF OrderInv, UpTo, ElementsOf
<1>3. /\ ElementsOf(old.lines) \cap ElementsOf(buffer) = {}
      /\ ElementsOf(old.lines) \cap ElementsOf(batch) = {}
      /\ ElementsOf(log.lines) \cap ElementsOf(buffer) = {}
      /\ ElementsOf(log.lines) \cap ElementsOf(batch) = {}
  BY <1>1, BeforeDisjoint DEF OrderInv
<1> QED
  BY <1>2, <1>3 DEF InMemory, InOld, InLog

-----------------------------------------------------------------------------
(* Clearing.  The entries to forget are gone from memory at once, from the *)
(* older file next and from the newer one last; a flush cannot move them   *)
(* meanwhile, and what is added meanwhile has higher ranks.  What a file   *)
(* that could not be removed holds is unremoved.                           *)

ForgetInv ==
    /\ \A e \in cleared : e.pushed <= pushed
    /\ "clear" \notin renamed =>
         /\ cleared \cap InMemory = {}
         /\ clear # "old" => cleared \cap InOld \subseteq unremoved
         /\ clear = "idle" => cleared \cap InLog \subseteq unremoved

\* Every step keeps it.
LEMMA ForgetNext ==
    StateInv /\ OrderInv /\ ForgetInv /\ [Next]_vars => ForgetInv'
<1> SUFFICES ASSUME StateInv, OrderInv, ForgetInv, [Next]_vars PROVE ForgetInv'
  OBVIOUS
<1> USE DEF ForgetInv
<1>1. pushed \in Nat /\ clear \in {"idle", "old", "log"} /\ cleared \subseteq Entries
      /\ pushed' \in Nat /\ pushed' >= pushed
  BY Movement DEF StateInv, TypeInv, TypeOK
<1>2. /\ Absent.lines = <<>> /\ ElementsOf(<<>>) = {}
      /\ \A e \in cleared : e.pushed \in Nat
  BY <1>1, EmptyOrder, QueryLogAssumption DEF Absent, Entries
<1>3. ASSUME UNCHANGED cleared PROVE \A e \in cleared' : e.pushed <= pushed'
  BY <1>1, <1>2, <1>3
<1>4. ASSUME cleared \cap InMemory = {} PROVE cleared \cap InMemory' = {}
  BY <1>1, <1>2, <1>4, Movement
<1>5. ASSUME ~Rotate, UNCHANGED <<cleared, unremoved, clear>>,
             "clear" \in renamed' <=> "clear" \in renamed
      PROVE  ForgetInv'
  BY <1>3, <1>4, <1>5, Movement
<1>6. CASE Rotate
  <2>1. UNCHANGED <<cleared, unremoved, clear>>
    BY <1>6 DEF Rotate
  <2>2. CASE log.exists
    <3>1. InOld' = InLog /\ InLog' = {}
      BY <1>2, <1>6, <2>2 DEF Rotate, InOld, InLog
    <3>2. "clear" \notin renamed' => "clear" \notin renamed /\ clear = "idle"
      BY <1>6, <2>2 DEF Rotate
    <3> QED
      BY <1>3, <1>4, <2>1, <3>1, <3>2
  <2>3. CASE ~log.exists
    <3>1. UNCHANGED renamed
      BY <1>6, <2>3 DEF Rotate
    <3> QED
      BY <1>3, <1>4, <2>1, <2>3, <3>1, Movement
  <2> QED
    BY <2>2, <2>3
<1>7. CASE ClearBuffer
  <2>1. cleared' = InMemory \cup InOld \cup InLog /\ clear' = "old" /\ pushed' = pushed
    BY <1>7 DEF ClearBuffer, Kept, InFiles, InMemory, InOld, InLog
  <2>2. batch = <<>> /\ buffer' = <<>> /\ batch' = batch
    BY <1>7 DEF ClearBuffer, CanClear, StateInv, LockInv
  <2>3. InMemory' = {}
    BY <1>2, <2>2 DEF InMemory
  <2> QED
    BY <2>1, <2>3, Apart
<1>8. CASE ClearOld
  <2>1. clear' = "log" /\ UNCHANGED <<cleared, renamed>>
    BY <1>8 DEF ClearOld
  <2>2. InOld' = {} \/ (InOld' = InOld /\ unremoved' = unremoved \cup InOld)
    BY <1>2, <1>8 DEF ClearOld, InOld
  <2> QED
    BY <1>3, <1>4, <2>1, <2>2
<1>9. CASE ClearLog
  <2>1. clear = "log" /\ clear' = "idle" /\ UNCHANGED <<cleared, renamed, InOld>>
    BY <1>9 DEF ClearLog, InOld
  <2>2. \/ InLog' = {} /\ UNCHANGED unremoved
        \/ InLog' = InLog /\ unremoved' = unremoved \cup InLog
    BY <1>2, <1>9 DEF ClearLog, InLog
  <2> QED
    BY <1>3, <1>4, <2>1, <2>2
<1>10. CASE Start
  <2>1. UNCHANGED <<cleared, unremoved, renamed, InOld, InLog>>
    BY <1>10 DEF Start, fileVars, InOld, InLog
  <2>2. clear = "idle" \/ (InOld = {} /\ InLog = {})
    BY <1>2, <1>10 DEF Start, StateInv, LockInv, StopInv, InOld, InLog
  <2> QED
    BY <1>3, <1>4, <2>1, <2>2
<1>11. CASE Search
  <2>1. UNCHANGED <<cleared, unremoved, clear>>
    BY <1>11 DEF Search
  <2>2. "clear" \in renamed' <=> "clear" \in renamed
    BY <1>11 DEF Search
  <2>3. UNCHANGED <<InOld, InLog>>
    BY <1>11 DEF Search, fileVars, InOld, InLog
  <2> QED
    BY <1>3, <1>4, <2>1, <2>2, <2>3
<1>12. ASSUME NEW w \in Workers, NewLogEntry(w) \/ Add(w) PROVE ForgetInv'
  <2>1. UNCHANGED <<cleared, unremoved, clear, renamed, InOld, InLog>>
    BY <1>12 DEF NewLogEntry, Add, fileVars, restVars, InOld, InLog
  <2> QED
    BY <1>3, <1>4, <2>1
<1>13. CASE FlushLogBuffer \/ OpenLog \/ WriteLog \/ CheckRotation \/ SetConfig \/ SearchEnd
              \/ Shutdown \/ ShutdownFlush \/ Tick \/ UNCHANGED vars
  <2>1. UNCHANGED <<cleared, unremoved, clear, renamed>>
    BY <1>13 DEF FlushLogBuffer, OpenLog, WriteLog, CheckRotation, SetConfig, SearchEnd,
       Shutdown, ShutdownFlush, Tick, vars, restVars
  <2> QED
    BY <1>5, <1>6, <2>1
<1> QED
  BY <1>6, <1>7, <1>8, <1>9, <1>10, <1>11, <1>12, <1>13 DEF Next

\* When the log has been cleared, no entry from before is left in memory, on its
\* way to a file or in a file, and none comes back, unless a rotation has been
\* in its middle, or but for those in a file that could not be removed.
THEOREM ClearForgetsTheorem == Spec => []ClearForgets
<1>1. Init => ForgetInv
  BY DEF Init, ForgetInv
<1>2. ForgetInv => ClearForgets
  BY DEF ForgetInv, ClearForgets, Kept, InFiles, InMemory, InOld, InLog
<1> QED
  BY <1>1, <1>2, ForgetNext, OrderInvariant, PTL DEF Spec

-----------------------------------------------------------------------------
(* Searching.  What a search has still to find is in no place that it has  *)
(* already looked at: never in memory, since entries leave it only for a   *)
(* file that is looked at later.                                           *)

Missing == search.expected \ search.found

SearchInv ==
    /\ search.at = 0 => search = NotSearching
    /\ \A e \in search.expected : e \in Entries /\ e.pushed <= pushed
    /\ "search" \notin renamed =>
         /\ Missing \cap InMemory = {}
         /\ search.at >= 2 => Missing \cap InOld = {}
         /\ search.at >= 3 => Missing \cap InLog = {}

\* Every step keeps it.
LEMMA SearchNext ==
    StateInv /\ OrderInv /\ SearchInv /\ [Next]_vars => SearchInv'
<1> SUFFICES ASSUME StateInv, OrderInv, SearchInv, [Next]_vars PROVE SearchInv'
  OBVIOUS
<1> USE DEF SearchInv
<1>1. pushed \in Nat /\ pushed' \in Nat /\ pushed' >= pushed /\ search.at \in 0..3
  BY Movement DEF StateInv, TypeInv, TypeOK
<1>2. /\ \A e \in search.expected : e.pushed \in Nat
      /\ NotSearching.at = 0 /\ NotSearching.expected = {} /\ NotSearching.found = {}
  BY QueryLogAssumption DEF Entries, NotSearching
<1>3. \A e \in search.expected : e \in Entries /\ e.pushed <= pushed'
  BY <1>1, <1>2
<1>4. ASSUME Missing \cap InMemory = {} PROVE Missing \cap InMemory' = {}
  BY <1>1, <1>2, <1>4, Movement DEF Missing
<1>5. ASSUME ~Rotate, UNCHANGED search, "search" \in renamed' <=> "search" \in renamed
      PROVE  SearchInv'
  <2>1. UNCHANGED Missing
    BY <1>5 DEF Missing
  <2> QED
    BY <1>3, <1>4, <1>5, <2>1, Movement
<1>6. ASSUME search' = NotSearching PROVE SearchInv'
  <2>1. search'.at = 0 /\ search'.expected = {} /\ Missing' = {}
    BY <1>2, <1>6 DEF Missing
  <2> QED
    BY <1>6, <2>1
<1>7. CASE Rotate
  <2>1. UNCHANGED search
    BY <1>7 DEF Rotate
  <2>2. CASE search = NotSearching
    BY <1>6, <2>1, <2>2
  <2>3. CASE search # NotSearching
    <3>1. CASE log.exists
      <4>1. "search" \in renamed'
        BY <1>7, <2>3, <3>1 DEF Rotate
      <4> QED
        BY <1>3, <2>1, <4>1
    <3>2. CASE ~log.exists
      <4>1. UNCHANGED <<renamed, Missing>>
        BY <1>7, <2>1, <3>2 DEF Rotate, Missing
      <4> QED
        BY <1>3, <1>4, <2>1, <3>2, <4>1, Movement
    <3> QED
      BY <3>1, <3>2
  <2> QED
    BY <2>2, <2>3
<1>8. CASE Search
  <2>1. /\ search'.at = search.at + 1
        /\ search'.found = search.found \cup FoundIn(SearchOrder[search.at + 1])
        /\ search'.expected = IF search.at = 0 THEN FoundIn("memory") \cup InFiles ELSE search.expected
        /\ search.at < 3
    BY <1>8 DEF Search, SearchOrder
  <2>2. UNCHANGED <<InMemory, InOld, InLog, pushed>>
    BY <1>8 DEF Search, memVars, flushVars, fileVars, InMemory, InOld, InLog
  <2>3. FoundIn("memory") \subseteq InMemory /\ FoundIn("old") = InOld /\ FoundIn("log") = InLog
    BY DEF FoundIn, InMemory, InOld, InLog
  <2>4. InFiles = InOld \cup InLog
    BY DEF InFiles, InOld, InLog
  <2>5. CASE search.at = 0
    <3>1. SearchOrder[1] = "memory"
      BY DEF SearchOrder
    <3>2. Missing' \subseteq InOld \cup InLog
      BY <2>1, <2>4, <2>5, <3>1 DEF Missing
    <3>3. \A e \in InMemory \cup InOld \cup InLog : e \in Entries
      BY DEF StateInv, TypeInv, TypeOK, Files, InMemory, InOld, InLog, ElementsOf
    <3>4. search'.expected \subseteq InMemory \cup InOld \cup InLog
      BY <2>1, <2>3, <2>4, <2>5
    <3> QED
      BY <2>1, <2>2, <2>5, <3>2, <3>3, <3>4, Apart
  <2>6. CASE search.at = 1
    <3>1. SearchOrder[2] = "old" /\ (renamed' = renamed)
      BY <1>8, <2>6 DEF Search, SearchOrder
    <3>2. Missing' = Missing \ InOld
      BY <2>1, <2>3, <2>6, <3>1 DEF Missing
    <3> QED
      BY <2>1, <2>2, <2>6, <3>1, <3>2
  <2>7. CASE search.at = 2
    <3>1. SearchOrder[3] = "log" /\ (renamed' = renamed)
      BY <1>8, <2>7 DEF Search, SearchOrder
    <3>2. Missing' = Missing \ InLog
      BY <2>1, <2>3, <2>7, <3>1 DEF Missing
    <3> QED
      BY <2>1, <2>2, <2>7, <3>1, <3>2
  <2> QED
    BY <1>1, <2>1, <2>5, <2>6, <2>7
<1>9. CASE SearchEnd \/ Start
  BY <1>6, <1>9 DEF SearchEnd, Start
<1>10. CASE ClearBuffer
  <2>1. UNCHANGED <<search, Missing, InOld, InLog>>
    BY <1>10 DEF ClearBuffer, fileVars, InOld, InLog, Missing
  <2>2. "search" \in renamed' <=> "search" \in renamed
    BY <1>10 DEF ClearBuffer
  <2> QED
    BY <1>3, <1>4, <2>1, <2>2
<1>11. ASSUME NEW w \in Workers, NewLogEntry(w) \/ Add(w) PROVE SearchInv'
  <2>1. UNCHANGED <<search, renamed, Missing, InOld, InLog>>
    BY <1>11 DEF NewLogEntry, Add, fileVars, restVars, InOld, InLog, Missing
  <2> QED
    BY <1>3, <1>4, <2>1
<1>12. CASE FlushLogBuffer \/ OpenLog \/ WriteLog \/ CheckRotation \/ SetConfig \/ ClearOld
              \/ ClearLog \/ Shutdown \/ ShutdownFlush \/ Tick \/ UNCHANGED vars
  <2>1. UNCHANGED <<search, renamed>>
    BY <1>12 DEF FlushLogBuffer, OpenLog, WriteLog, CheckRotation, SetConfig, ClearOld,
       ClearLog, Shutdown, ShutdownFlush, Tick, vars, restVars
  <2> QED
    BY <1>5, <1>7, <2>1
<1> QED
  BY <1>7, <1>8, <1>9, <1>10, <1>11, <1>12 DEF Next

\* A search finds every entry that was there when it began and still is when it
\* ends, though it takes no lock and a flush moves entries from one place to
\* another meanwhile: it looks at the places in the order in which they move.
THEOREM SearchFindsTheorem == Spec => []SearchFinds
<1>1. Init => SearchInv
  BY DEF Init, SearchInv, NotSearching, Missing
<1>2. SearchInv => SearchFinds
  <2> SUFFICES ASSUME SearchInv, search.at = 3, "search" \notin renamed
               PROVE  search.expected \cap Kept \subseteq search.found
    BY DEF SearchFinds, SearchOrder
  <2>1. Missing \cap (InMemory \cup InOld \cup InLog) = {}
    BY DEF SearchInv
  <2> QED
    BY <2>1 DEF Kept, InFiles, InMemory, InOld, InLog, Missing
<1> QED
  BY <1>1, <1>2, SearchNext, OrderInvariant, PTL DEF Spec

-----------------------------------------------------------------------------
(***************************************************************************)
(* The proof that QueryLog implements EntryLog: the buffer, the flushes    *)
(* and the two files of the query log are one log, to whose end entries    *)
(* are added and in which a flush cannot be seen.                          *)
(***************************************************************************)

(* Ranks, and what is left of a sequence without a middle part.            *)

\* The ranks of entries are a sequence of numbers of the same length.
LEMMA RanksType ==
    ASSUME NEW s \in Seq(Entries)
    PROVE  /\ Ranks(s) \in Seq(Nat) /\ Len(Ranks(s)) = Len(s) /\ Len(s) \in Nat
           /\ \A k \in 1..Len(s) : Ranks(s)[k] = s[k].pushed
<1>1. Len(s) \in Nat
  BY LenProperties
<1>2. \A k \in 1..Len(s) : s[k].pushed \in Nat
  BY RankNat
<1>3. Ranks(s) \in [1..Len(s) -> Nat]
  BY <1>2 DEF Ranks
<1> QED
  BY <1>1, <1>3 DEF Ranks

\* Sequences of ranks are put together in any order of the operations.
LEMMA RanksAssociative ==
    ASSUME NEW x \in Seq(Nat), NEW y \in Seq(Nat), NEW z \in Seq(Nat)
    PROVE  (x \o y) \o z = x \o (y \o z)
<1> DEFINE l == (x \o y) \o z
           r == x \o (y \o z)
<1>1. /\ x \o y \in Seq(Nat) /\ Len(x \o y) = Len(x) + Len(y)
      /\ \A i \in 1..(Len(x) + Len(y)) :
            (x \o y)[i] = IF i <= Len(x) THEN x[i] ELSE y[i - Len(x)]
  BY ConcatProperties
<1>2. /\ y \o z \in Seq(Nat) /\ Len(y \o z) = Len(y) + Len(z)
      /\ \A i \in 1..(Len(y) + Len(z)) :
            (y \o z)[i] = IF i <= Len(y) THEN y[i] ELSE z[i - Len(y)]
  BY ConcatProperties
<1> DEFINE a == x \o y
           b == y \o z
<1>3. /\ a \in Seq(Nat) /\ b \in Seq(Nat)
      /\ Len(x) \in Nat /\ Len(y) \in Nat /\ Len(z) \in Nat
  BY <1>1, <1>2
<1> HIDE DEF a, b
<1>4. /\ a \o z \in Seq(Nat) /\ Len(a \o z) = Len(a) + Len(z)
      /\ \A i \in 1..(Len(a) + Len(z)) :
            (a \o z)[i] = IF i <= Len(a) THEN a[i] ELSE z[i - Len(a)]
  BY <1>3, ConcatProperties
<1>5. /\ x \o b \in Seq(Nat) /\ Len(x \o b) = Len(x) + Len(b)
      /\ \A i \in 1..(Len(x) + Len(b)) :
            (x \o b)[i] = IF i <= Len(x) THEN x[i] ELSE b[i - Len(x)]
  BY <1>3, ConcatProperties
<1> HIDE DEF l, r
<1>6. l = a \o z /\ r = x \o b
  BY DEF l, r, a, b
<1>7. Len(a) = Len(x) + Len(y) /\ Len(b) = Len(y) + Len(z)
  BY <1>1, <1>2 DEF a, b
<1>8. \A i \in 1..Len(l) : l[i] = r[i]
  <2> TAKE i \in 1..Len(l)
  <2> QED
    BY <1>1, <1>2, <1>3, <1>4, <1>5, <1>6, <1>7 DEF a, b
<1>9. l \in Seq(Nat) /\ r \in Seq(Nat) /\ Len(l) = Len(r)
  BY <1>3, <1>4, <1>5, <1>6, <1>7
<1>10. l = r
  BY <1>8, <1>9, SeqEqual
<1> QED
  BY <1>10 DEF l, r

\* The ranks of one sequence after another.
LEMMA RanksConcat ==
    ASSUME NEW s \in Seq(Entries), NEW t \in Seq(Entries)
    PROVE  Ranks(s \o t) = Ranks(s) \o Ranks(t)
<1> DEFINE c == s \o t
           a == Ranks(s)
           b == Ranks(t)
           r == Ranks(c)
<1>1. /\ c \in Seq(Entries) /\ Len(c) = Len(s) + Len(t)
      /\ \A i \in 1..Len(c) : c[i] = IF i <= Len(s) THEN s[i] ELSE t[i - Len(s)]
  BY ConcatProperties
<1> HIDE DEF c
<1>2. /\ a \in Seq(Nat) /\ Len(a) = Len(s) /\ Len(s) \in Nat
      /\ \A k \in 1..Len(s) : a[k] = s[k].pushed
  BY RanksType
<1>3. /\ b \in Seq(Nat) /\ Len(b) = Len(t) /\ Len(t) \in Nat
      /\ \A k \in 1..Len(t) : b[k] = t[k].pushed
  BY RanksType
<1>4. /\ r \in Seq(Nat) /\ Len(r) = Len(c)
      /\ \A k \in 1..Len(c) : r[k] = c[k].pushed
  BY <1>1, RanksType
<1> HIDE DEF a, b, r
<1>5. /\ a \o b \in Seq(Nat) /\ Len(a \o b) = Len(a) + Len(b)
      /\ \A i \in 1..(Len(a) + Len(b)) : (a \o b)[i] = IF i <= Len(a) THEN a[i] ELSE b[i - Len(a)]
  BY <1>2, <1>3, ConcatProperties
<1>6. \A i \in 1..Len(r) : r[i] = (a \o b)[i]
  <2> TAKE i \in 1..Len(r)
  <2>1. CASE i <= Len(s)
    <3>1. i \in 1..Len(s) /\ i \in 1..Len(c) /\ i \in 1..(Len(a) + Len(b))
      BY <1>1, <1>2, <1>3, <1>4, <2>1
    <3> QED
      BY <1>1, <1>2, <1>4, <1>5, <2>1, <3>1
  <2>2. CASE i > Len(s)
    <3>1. i - Len(s) \in 1..Len(t) /\ i \in 1..Len(c) /\ i \in 1..(Len(a) + Len(b))
      BY <1>1, <1>2, <1>3, <1>4, <2>2
    <3>2. c[i] = t[i - Len(s)] /\ (a \o b)[i] = b[i - Len(s)]
      BY <1>1, <1>2, <1>5, <2>2, <3>1
    <3> QED
      BY <1>3, <1>4, <3>1, <3>2
  <2> QED
    BY <1>1, <1>2, <1>3, <1>4, <2>1, <2>2
<1>7. r = a \o b
  <2>1. Len(r) = Len(a \o b)
    BY <1>1, <1>2, <1>3, <1>4, <1>5
  <2> QED
    BY <1>4, <1>5, <1>6, <2>1, SeqEqual
<1> QED
  BY <1>7 DEF a, b, c, r

\* The ranks of no entries.
LEMMA RanksEmpty == Ranks(<<>>) = <<>>
  BY DEF Ranks

\* n is e without the k entries that follow the i-th.
Removes(e, i, k, n) ==
    /\ n = SubSeq(e, 1, i) \o SubSeq(e, i + k + 1, Len(e))
    /\ i \in 0..Len(e) /\ i + k \in 0..Len(e)
    /\ i \in Nat /\ k \in Nat

\* n is the first i entries of e.
Begins(e, i, n) == n = SubSeq(e, 1, i) /\ i \in 0..Len(e)

\* A sequence without its middle part, and its first part.
LEMMA CutMiddle ==
    ASSUME NEW a \in Seq(Nat), NEW b \in Seq(Nat), NEW c \in Seq(Nat)
    PROVE  /\ Removes((a \o b) \o c, Len(a), Len(b), a \o c)
           /\ Begins((a \o b) \o c, Len(a), a)
<1> DEFINE e == (a \o b) \o c
           n == a \o c
<1> SUFFICES Removes(e, Len(a), Len(b), n) /\ Begins(e, Len(a), a)
  OBVIOUS
<1>1. Len(a) \in Nat /\ Len(b) \in Nat /\ Len(c) \in Nat
  BY LenProperties
<1>2. /\ a \o b \in Seq(Nat) /\ Len(a \o b) = Len(a) + Len(b)
      /\ \A i \in 1..(Len(a) + Len(b)) : (a \o b)[i] = IF i <= Len(a) THEN a[i] ELSE b[i - Len(a)]
  BY ConcatProperties
<1> DEFINE ab == a \o b
<1>3. /\ e \in Seq(Nat) /\ Len(e) = Len(ab) + Len(c)
      /\ \A i \in 1..(Len(ab) + Len(c)) : e[i] = IF i <= Len(ab) THEN ab[i] ELSE c[i - Len(ab)]
  <2>1. ab \in Seq(Nat)
    BY <1>2
  <2> HIDE DEF ab
  <2> QED
    BY <2>1, ConcatProperties DEF ab
<1> HIDE DEF ab, e, n
<1>4. Len(ab) = Len(a) + Len(b) /\ \A i \in 1..Len(a) : ab[i] = a[i]
  BY <1>1, <1>2 DEF ab
<1>5. \A i \in 1..Len(a) : e[i] = a[i]
  BY <1>1, <1>3, <1>4
<1>6. \A i \in 1..Len(c) : e[Len(a) + Len(b) + i] = c[i]
  <2> TAKE i \in 1..Len(c)
  <2> DEFINE k == Len(a) + Len(b) + i
  <2>1. k \in 1..(Len(ab) + Len(c)) /\ ~(k <= Len(ab)) /\ k - Len(ab) = i
    BY <1>1, <1>4
  <2> HIDE DEF k
  <2>2. e[k] = c[i]
    BY <1>3, <2>1
  <2> QED
    BY <2>2 DEF k
<1> DEFINE x == SubSeq(e, 1, Len(a))
           y == SubSeq(e, Len(a) + Len(b) + 1, Len(e))
<1>7. \A i \in 1..Len(e) : e[i] \in Nat
  BY <1>3, ElementOfSeq
<1>8. x = a
  <2>1. /\ x \in Seq(Nat) /\ Len(x) = Len(a)
        /\ \A i \in 1..Len(a) : x[i] = e[i]
    <3>1. \A i \in 1..Len(a) : e[i] \in Nat
      BY <1>1, <1>3, <1>4, <1>7
    <3>2. /\ x \in Seq(Nat)
          /\ Len(x) = IF 1 <= Len(a) THEN Len(a) - 1 + 1 ELSE 0
          /\ \A i \in 1..(Len(a) - 1 + 1) : x[i] = e[1 + i - 1]
      BY <1>1, <3>1, SubSeqProperties
    <3> HIDE DEF x
    <3> QED
      BY <1>1, <3>2
  <2> HIDE DEF x
  <2> QED
    BY <1>5, <2>1, SeqEqual
<1>9. y = c
  <2> DEFINE m == Len(a) + Len(b) + 1
  <2>1. m \in Int /\ Len(e) \in Int /\ Len(e) - m + 1 = Len(c) /\ m >= 1
    BY <1>1, <1>3, <1>4
  <2>2. \A i \in m..Len(e) : e[i] \in Nat
    BY <1>7, <2>1
  <2>3. /\ y \in Seq(Nat)
        /\ Len(y) = IF m <= Len(e) THEN Len(e) - m + 1 ELSE 0
        /\ \A i \in 1..(Len(e) - m + 1) : y[i] = e[m + i - 1]
    BY <2>1, <2>2, SubSeqProperties
  <2> HIDE DEF y
  <2>4. Len(y) = Len(c)
    BY <1>1, <2>1, <2>3
  <2>5. \A i \in 1..Len(c) : y[i] = c[i]
    <3> TAKE i \in 1..Len(c)
    <3>1. y[i] = e[m + i - 1]
      BY <2>1, <2>3
    <3>2. m + i - 1 = Len(a) + Len(b) + i
      BY <1>1
    <3> QED
      BY <1>6, <3>1, <3>2
  <2> QED
    BY <2>3, <2>4, <2>5, SeqEqual
<1>10. Len(a) \in 0..Len(e) /\ Len(a) + Len(b) \in 0..Len(e)
  BY <1>1, <1>3, <1>4
<1>11. n = x \o y
  <2> HIDE DEF x, y
  <2> QED
    BY <1>8, <1>9 DEF n
<1>12. Removes(e, Len(a), Len(b), n)
  BY <1>1, <1>10, <1>11 DEF Removes
<1>13. Begins(e, Len(a), a)
  BY <1>8, <1>10 DEF Begins
<1> QED
  BY <1>12, <1>13

\* A push to the ring buffer, in ranks: at most the first goes, one comes last.
LEMMA RanksPushed ==
    ASSUME NEW s \in Seq(Entries), NEW e \in Entries, Len(s) <= Capacity
    PROVE  \E h, r \in Seq(Nat) : /\ Ranks(s) = h \o r /\ Len(h) \in {0, 1}
                                /\ Ranks(Pushed(s, e)) = r \o <<e.pushed>>
<1>1. e.pushed \in Nat /\ <<e>> \in Seq(Entries)
  BY QueryLogAssumption DEF Entries
<1>2. Ranks(<<e>>) = <<e.pushed>>
  BY DEF Ranks
<1>3. CASE Len(s) # Capacity
  <2>1. Pushed(s, e) = s \o <<e>>
    BY <1>3, AppendIsConcat DEF Pushed
  <2>2. Ranks(Pushed(s, e)) = Ranks(s) \o <<e.pushed>>
    BY <1>1, <1>2, <2>1, RanksConcat
  <2>3. Ranks(s) \in Seq(Nat)
    BY RanksType
  <2> DEFINE q == Ranks(s)
  <2> HIDE DEF q
  <2>4. <<>> \in Seq(Nat) /\ Len(<<>>) = 0 /\ q = <<>> \o q
    BY <2>3, ConcatEmptySeq DEF q
  <2>5. q \in Seq(Nat)
    BY <2>3 DEF q
  <2> USE <2>5
  <2> WITNESS <<>> \in Seq(Nat), q \in Seq(Nat)
  <2> QED
    BY <2>2, <2>4 DEF q
<1>4. CASE Len(s) = Capacity
  <2> DEFINE t == Tail(s)
             h == <<Head(s)>>
  <2>1. s # <<>>
    BY <1>4, CapacityPositive
  <2>2. t \in Seq(Entries) /\ h \in Seq(Entries) /\ s = h \o t
    <3>1. t \in Seq(Entries) /\ Head(s) \in Entries /\ Len(t) = Len(s) - 1
          /\ \A i \in 1..Len(t) : t[i] = s[i + 1]
      BY <2>1, HeadTailProperties
    <3>0. Len(s) \in Nat /\ Len(s) > 0
      BY <1>4, CapacityPositive
    <3>2. h \in Seq(Entries) /\ Len(h) = 1 /\ h[1] = s[1]
      BY <3>1
    <3>6. t \in Seq(Entries) /\ h \in Seq(Entries)
      BY <3>1, <3>2
    <3> HIDE DEF t, h
    <3>3. /\ h \o t \in Seq(Entries) /\ Len(h \o t) = Len(h) + Len(t)
          /\ \A i \in 1..(Len(h) + Len(t)) : (h \o t)[i] = IF i <= Len(h) THEN h[i] ELSE t[i - Len(h)]
      BY <3>6, ConcatProperties
    <3> USE <3>0
    <3>4. \A i \in 1..Len(s) : s[i] = (h \o t)[i]
      <4> TAKE i \in 1..Len(s)
      <4>1. CASE i = 1
        BY <3>1, <3>2, <3>3, <4>1
      <4>2. CASE i # 1
        BY <3>1, <3>2, <3>3, <4>2
      <4> QED
        BY <4>1, <4>2
    <3>5. Len(s) = Len(h \o t)
      BY <3>1, <3>2, <3>3
    <3> QED
      BY <3>1, <3>2, <3>3, <3>4, <3>5, SeqEqual
  <2>3. Len(h) = 1
    OBVIOUS
  <2>4. Pushed(s, e) = Append(t, e)
    BY <1>4 DEF Pushed
  <2> HIDE DEF t, h
  <2>5. Pushed(s, e) = t \o <<e>>
    BY <2>2, <2>4, AppendIsConcat
  <2>6. Ranks(Pushed(s, e)) = Ranks(t) \o <<e.pushed>>
    BY <1>1, <1>2, <2>2, <2>5, RanksConcat
  <2>7. Ranks(s) = Ranks(h) \o Ranks(t) /\ Ranks(h) \in Seq(Nat) /\ Ranks(t) \in Seq(Nat)
        /\ Len(Ranks(h)) = 1
    BY <2>2, <2>3, RanksConcat, RanksType
  <2> USE <2>7
  <2> WITNESS Ranks(h) \in Seq(Nat), Ranks(t) \in Seq(Nat)
  <2> QED
    BY <2>6, <2>7
<1> QED
  BY <1>3, <1>4

-----------------------------------------------------------------------------
(* The mapping.                                                            *)

O == Ranks(old.lines)
L == Ranks(log.lines)
B == Ranks(batch)
M == Ranks(buffer)

\* Since a file renamed under a flush has no newer one behind it, the one log is
\* the files, what a flush has in its hands and the buffer, one after another.
LEMMA Mapped ==
    StateInv => /\ O \in Seq(Nat) /\ L \in Seq(Nat) /\ B \in Seq(Nat) /\ M \in Seq(Nat)
                /\ Ranks(AsOneLog) \in Seq(Nat)
                /\ Ranks(AsOneLog) = ((O \o L) \o B) \o M
<1> SUFFICES ASSUME StateInv
             PROVE  /\ O \in Seq(Nat) /\ L \in Seq(Nat) /\ B \in Seq(Nat) /\ M \in Seq(Nat)
                    /\ Ranks(AsOneLog) \in Seq(Nat)
                    /\ Ranks(AsOneLog) = ((O \o L) \o B) \o M
  OBVIOUS
<1> DEFINE o == old.lines
           l == log.lines
<1>1. /\ buffer \in Seq(Entries) /\ batch \in Seq(Entries)
      /\ l \in Seq(Entries) /\ o \in Seq(Entries)
  BY DEF StateInv, TypeInv, TypeOK, Files
<1>2. O \in Seq(Nat) /\ L \in Seq(Nat) /\ B \in Seq(Nat) /\ M \in Seq(Nat)
  BY <1>1, RanksType DEF O, L, B, M
<1>3. target \in {"none", "log", "old"} /\ (target = "old" => l = <<>>)
  BY DEF StateInv, LockInv, Absent
<1>4. \A s \in Seq(Entries) : s \o <<>> = s /\ <<>> \o s = s
  BY ConcatEmptySeq
<1>5. AsOneLog = ((o \o l) \o batch) \o buffer
  <2>1. CASE target \in {"none", "log"}
    <3>1. AsOneLog = (((o \o <<>>) \o l) \o batch) \o buffer
      BY <2>1 DEF AsOneLog
    <3> QED
      BY <1>1, <1>4, <3>1
  <2>2. CASE target = "old"
    <3>1. AsOneLog = (((o \o batch) \o l) \o <<>>) \o buffer
      BY <2>2 DEF AsOneLog
    <3>2. l = <<>> /\ o \o batch \in Seq(Entries)
      BY <1>1, <1>3, <2>2, ConcatProperties
    <3> HIDE DEF o, l
    <3>3. AsOneLog = (o \o batch) \o buffer
      BY <1>4, <3>1, <3>2
    <3> QED
      BY <1>1, <1>4, <3>2, <3>3
  <2> QED
    BY <1>3, <2>1, <2>2
<1> HIDE DEF o, l
<1>6. o \o l \in Seq(Entries) /\ Ranks(o \o l) = O \o L
  BY <1>1, ConcatProperties, RanksConcat DEF O, L, o, l
<1> DEFINE f == o \o l
<1> HIDE DEF f
<1>7. f \o batch \in Seq(Entries) /\ Ranks(f \o batch) = (O \o L) \o B
  BY <1>1, <1>6, ConcatProperties, RanksConcat DEF B, f
<1> DEFINE g == f \o batch
<1> HIDE DEF g
<1>8. /\ Ranks(g \o buffer) = ((O \o L) \o B) \o M
      /\ Ranks(g \o buffer) \in Seq(Nat)
  BY <1>1, <1>7, RanksConcat, ConcatProperties, RanksType DEF M, g
<1> QED
  BY <1>2, <1>5, <1>8 DEF f, g

\* The same after a step.
LEMMA MappedNext ==
    StateInv' => (/\ O \in Seq(Nat) /\ L \in Seq(Nat) /\ B \in Seq(Nat) /\ M \in Seq(Nat)
                  /\ Ranks(AsOneLog) \in Seq(Nat)
                  /\ Ranks(AsOneLog) = ((O \o L) \o B) \o M)'
  BY Mapped, PTL

E == Ranks(AsOneLog)

\* What is left of the one log without a middle part.
LEMMA Cut ==
    ASSUME NEW a \in Seq(Nat), NEW b \in Seq(Nat), NEW c \in Seq(Nat),
           E = (a \o b) \o c, E' = a \o c
    PROVE  /\ Len(a) \in 0..Len(E) /\ Len(a) + Len(b) \in 0..Len(E)
           /\ Len(a) \in Nat /\ Len(b) \in Nat
           /\ E' = OneLog!Without(Len(a), Len(a) + Len(b))
           /\ \E i, j \in 0..Len(E) : i <= j /\ E' = OneLog!Without(i, j)
<1>1. Removes(E, Len(a), Len(b), E')
  BY CutMiddle
<1> DEFINE i == Len(a)
           k == Len(b)
           j == i + k
<1> HIDE DEF i, k
<1>2. Removes(E, i, k, E')
  BY <1>1 DEF i, k
<1>3. i \in 0..Len(E) /\ j \in 0..Len(E) /\ i \in Nat /\ k \in Nat /\ i <= j
  BY <1>2 DEF Removes
<1>4. E' = OneLog!Without(i, j)
  BY <1>2 DEF Removes, OneLog!Without, E
<1> HIDE DEF j
<1>5. \E x, y \in 0..Len(E) : x <= y /\ E' = OneLog!Without(x, y)
  BY <1>3, <1>4
<1> QED
  BY <1>3, <1>4, <1>5 DEF i, j, k

\* Steps that move nothing and start and end nothing cannot be seen.
LEMMA Unseen ==
    ASSUME E' = E, UNCHANGED <<pushed, lock, clear, process>>
    PROVE  UNCHANGED OneLog!logVars
  BY DEF OneLog!logVars, E

\* Add: an entry is logged at the end, at the expense of the oldest one in a full
\* buffer.
LEMMA AddLogs ==
    ASSUME StateInv, StateInv', NEW w \in Workers, Add(w)
    PROVE  OneLog!Log
<1> DEFINE e == [adding[w] EXCEPT !.pushed = pushed + 1]
           a == (O \o L) \o B
           p == pushed + 1
<1>1. /\ pushed' = p /\ buffer' = Pushed(buffer, e)
      /\ UNCHANGED <<process, lock, clear, batch, log, old>>
  BY DEF Add, confVars, flushVars, fileVars, restVars
<1>2. /\ buffer \in Seq(Entries) /\ Len(buffer) <= Capacity
      /\ adding[w] \in Entries /\ made \in 0..MaxEntries /\ pushed \in 0..made
  BY DEF StateInv, TypeInv, TypeOK, Add
<1>3. pushed' \in 0..made' /\ made' \in 0..MaxEntries
  BY DEF StateInv, TypeInv, TypeOK
<1>4. p \in 0..MaxEntries /\ p \in Nat
  BY <1>1, <1>2, <1>3, QueryLogAssumption
<1>5. e \in Entries /\ e.pushed = p
  BY <1>2, <1>4 DEF Entries
<1> HIDE DEF e, p
<1>6. PICK h, r \in Seq(Nat) : /\ M = h \o r /\ Len(h) \in {0, 1}
                               /\ M' = r \o <<p>>
  BY <1>1, <1>2, <1>5, RanksPushed DEF M
<1>7. /\ O \in Seq(Nat) /\ L \in Seq(Nat) /\ B \in Seq(Nat)
      /\ E = a \o M /\ E \in Seq(Nat)
  BY Mapped DEF E
<1>8. a \in Seq(Nat)
  BY <1>7, ConcatProperties
<1>9. E' = a \o M'
  <2>1. E' = ((O' \o L') \o B') \o M'
    BY MappedNext DEF E
  <2>2. O' = O /\ L' = L /\ B' = B
    BY <1>1 DEF O, L, B
  <2> QED
    BY <2>1, <2>2
<1> HIDE DEF a
<1>10. E = (a \o h) \o r /\ E \in Seq(Nat)
  <2>1. (a \o h) \o r = a \o (h \o r)
    BY <1>8, RanksAssociative
  <2> QED
    BY <1>6, <1>7, <2>1
<1>11. E' = Append(a \o r, p)
  <2>1. <<p>> \in Seq(Nat) /\ a \o r \in Seq(Nat)
    BY <1>4, <1>8, ConcatProperties
  <2>2. a \o (r \o <<p>>) = (a \o r) \o <<p>>
    BY <1>8, <2>1, RanksAssociative
  <2> DEFINE q == a \o r
  <2>3. q \in Seq(Nat)
    BY <2>1
  <2> HIDE DEF q
  <2>4. Append(q, p) = q \o <<p>>
    BY <1>4, <2>3, AppendIsConcat
  <2> QED
    BY <1>6, <1>9, <2>2, <2>4 DEF q
<1>12. Removes(E, Len(a), Len(h), a \o r)
  BY <1>8, <1>10, CutMiddle
<1> DEFINE i == Len(a)
           j == Len(a) + Len(h)
<1>13. i \in 0..Len(E) /\ j \in {i, i + 1}
  <2>1. \A e0, i0, k0, n0 : Removes(e0, i0, k0, n0) => i0 \in 0..Len(e0) /\ i0 \in Nat
    BY DEF Removes
  <2>2. Len(a) \in 0..Len(E) /\ Len(a) \in Nat
    BY <1>12, <2>1
  <2>3. Len(h) = 0 \/ Len(h) = 1
    BY <1>6
  <2>4. \A x \in Nat : \A y : y = 0 \/ y = 1 => x + y \in {x, x + 1}
    OBVIOUS
  <2> QED
    BY <2>2, <2>3, <2>4, Zenon
<1>14. E' = Append(OneLog!Without(i, j), pushed + 1)
  <2>1. a \o r = OneLog!Without(i, j)
    BY <1>12 DEF Removes, OneLog!Without, E
  <2> HIDE DEF i, j
  <2> QED
    BY <1>11, <2>1 DEF p
<1> HIDE DEF i, j
<1>15. \E x \in 0..Len(E) : \E y \in {x, x + 1} : E' = Append(OneLog!Without(x, y), pushed + 1)
  BY <1>13, <1>14
<1> QED
  BY <1>1, <1>15 DEF OneLog!Log, E, p

\* Nothing is in the hands of a flush unless one holds the lock.
LEMMA NoBatch ==
    StateInv /\ lock \notin {"flush", "stop"} => batch = <<>> /\ B = <<>> /\ target = "none"
  BY RanksEmpty DEF StateInv, LockInv, B

\* A flush that takes the entries of the buffer moves nothing.
LEMMA EncodeMovesNothing ==
    ASSUME StateInv, StateInv', lock = "none", UNCHANGED <<log, old>>,
           batch' = Encoded(buffer), buffer' = <<>>
    PROVE  E' = E
<1> DEFINE f == O \o L
<1>1. B = <<>> /\ M' = <<>> /\ B' = M /\ O' = O /\ L' = L
  BY NoBatch, RanksEmpty DEF Encoded, B, M, O, L
<1>2. O \in Seq(Nat) /\ L \in Seq(Nat) /\ M \in Seq(Nat) /\ E = (f \o B) \o M
  BY Mapped DEF E
<1>3. E' = ((O' \o L') \o B') \o M'
  BY MappedNext DEF E
<1>4. f \in Seq(Nat)
  BY <1>2, ConcatProperties
<1>5. E' = (f \o M) \o <<>>
  BY <1>1, <1>3
<1> HIDE DEF f
<1>6. E = f \o M
  BY <1>1, <1>2, <1>4, ConcatEmptySeq
<1>7. f \o M \in Seq(Nat)
  BY <1>2, <1>4, ConcatProperties
<1> DEFINE g == f \o M
<1> HIDE DEF g
<1>8. g \o <<>> = g
  BY <1>7, ConcatEmptySeq DEF g
<1> QED
  BY <1>5, <1>6, <1>8 DEF g

\* flushLogBuffer: the start of a flush, or nothing if there is nothing to flush.
LEMMA FlushStarts ==
    ASSUME StateInv, StateInv', FlushLogBuffer
    PROVE  OneLog!StartWriting \/ UNCHANGED OneLog!logVars
<1>1. /\ lock = "none" /\ UNCHANGED <<pushed, clear, process, target, log, old>>
      /\ \/ buffer = <<>> /\ UNCHANGED <<buffer, lock, batch>>
         \/ batch' = Encoded(buffer) /\ buffer' = <<>> /\ lock' = "flush"
  BY DEF FlushLogBuffer, EncodeEntries, confVars, fileVars, restVars
<1>2. CASE UNCHANGED <<buffer, lock, batch>>
  <2>1. E' = E
    BY <1>1, <1>2 DEF E, AsOneLog, Ranks
  <2> QED
    BY <1>1, <1>2, <2>1, Unseen
<1>3. CASE batch' = Encoded(buffer) /\ buffer' = <<>> /\ lock' = "flush"
  <2>1. E' = E
    BY <1>1, <1>3, EncodeMovesNothing
  <2> QED
    BY <1>1, <1>3, <2>1 DEF OneLog!StartWriting, E
<1> QED
  BY <1>1, <1>2, <1>3

\* flushToFile: the entries arrive at the end of the file that was opened, whatever
\* its name is by now, or they are lost if the disk fails.
LEMMA WriteEnds ==
    ASSUME StateInv, StateInv', WriteLog
    PROVE  OneLog!EndWriting
<1> DEFINE f == O \o L
<1>1. /\ lock \in {"flush", "stop"} /\ lock' = "none" /\ target # "none"
      /\ batch' = <<>> /\ UNCHANGED <<pushed, clear, buffer>>
      /\ process' = process \/ process' = "down"
      /\ \/ log' = Written(log, "log") /\ old' = Written(old, "old")
         \/ DiskMayFail /\ UNCHANGED <<log, old>>
  BY DEF WriteLog, memVars, restVars, fileVars
<1>2. /\ O \in Seq(Nat) /\ L \in Seq(Nat) /\ B \in Seq(Nat) /\ M \in Seq(Nat)
      /\ E = (f \o B) \o M
  BY Mapped DEF E
<1>3. E' = ((O' \o L') \o B') \o M'
  BY MappedNext DEF E
<1>4. B' = <<>> /\ M' = M
  BY <1>1, RanksEmpty DEF B, M
<1>5. f \in Seq(Nat)
  BY <1>2, ConcatProperties
<1>6. \A s \in Seq(Nat) : s \o <<>> = s
  BY ConcatEmptySeq
<1>7. /\ batch \in Seq(Entries) /\ log \in Files /\ old \in Files
      /\ target \in {"log", "old"} /\ (target = "old" => log = Absent)
  BY <1>1 DEF StateInv, TypeInv, TypeOK, LockInv
<1>8. ASSUME log' = Written(log, "log"), old' = Written(old, "old")
      PROVE  E' = E
  <2>1. CASE target = "log"
    <3>1. log'.lines = log.lines \o batch /\ old' = old
      BY <1>7, <1>8, <2>1 DEF Written, Files
    <3>2. O' = O /\ L' = L \o B
      BY <1>7, <3>1, RanksConcat DEF O, L, B, Files
    <3>3. O \o (L \o B) = f \o B
      <4>1. O \in Seq(Nat) /\ L \in Seq(Nat) /\ B \in Seq(Nat)
        BY <1>2
      <4>2. (O \o L) \o B = O \o (L \o B)
        BY <4>1, RanksAssociative
      <4> QED
        BY <4>2
    <3> HIDE DEF f
    <3>4. f \o B \in Seq(Nat)
      BY <1>2, <1>5, ConcatProperties
    <3> DEFINE g == f \o B
    <3> DEFINE k == L \o B
    <3>7. O \o k = g /\ L' = k
      BY <3>2, <3>3
    <3> HIDE DEF g, k
    <3>5. E' = (g \o <<>>) \o M
      BY <1>3, <1>4, <3>2, <3>7
    <3>6. g \o <<>> = g
      BY <1>6, <3>4 DEF g
    <3> QED
      BY <1>2, <3>5, <3>6 DEF g
  <2>2. CASE target = "old"
    <3>1. old'.lines = old.lines \o batch /\ log' = log /\ log.lines = <<>>
      BY <1>7, <1>8, <2>2 DEF Written, Files, Absent
    <3>2. O' = O \o B /\ L' = <<>> /\ L = <<>>
      BY <1>7, <3>1, RanksConcat, RanksEmpty DEF O, L, B, Files
    <3>3. O \o B \in Seq(Nat) /\ f = O
      BY <1>2, <1>6, <3>2, ConcatProperties
    <3> DEFINE g == O \o B
    <3>4. E' = ((g \o <<>>) \o <<>>) \o M /\ E = g \o M
      BY <1>2, <1>3, <1>4, <3>2, <3>3
    <3> HIDE DEF g
    <3>5. g \o <<>> = g
      BY <1>6, <3>3 DEF g
    <3> QED
      BY <3>4, <3>5
  <2> QED
    BY <1>7, <2>1, <2>2
<1>9. ASSUME UNCHANGED <<log, old>>
      PROVE  \E i, j \in 0..Len(E) : i <= j /\ E' = OneLog!Without(i, j)
  <2>1. O' = O /\ L' = L
    BY <1>9 DEF O, L
  <2>2. E' = (f \o <<>>) \o M
    BY <1>3, <1>4, <2>1
  <2> HIDE DEF f
  <2>3. E' = f \o M
    BY <1>5, <1>6, <2>2
  <2> QED
    BY <1>2, <1>5, <2>3, Cut
<1>10. E' = E \/ (DiskMayFail /\ \E i, j \in 0..Len(E) : i <= j /\ E' = OneLog!Without(i, j))
  BY <1>1, <1>8, <1>9
<1>11. (process # "down")' \in {process # "down", FALSE}
  BY <1>1
<1> QED
  BY <1>1, <1>10, <1>11 DEF OneLog!EndWriting, E

\* rotate: the entries of the older file expire, whatever a flush is doing.
LEMMA RotateExpires ==
    ASSUME StateInv, StateInv', Rotate
    PROVE  OneLog!Expire \/ UNCHANGED OneLog!logVars
<1> DEFINE e0 == <<>>
           c  == (L \o B) \o M
<1>1. /\ UNCHANGED <<pushed, clear, process, lock, batch, buffer>>
      /\ \/ old' = log /\ log' = Absent
         \/ UNCHANGED <<log, old, target>>
  BY DEF Rotate, confVars, memVars, fileVars
<1>2. CASE UNCHANGED <<log, old, target>>
  <2>1. E' = E
    BY <1>1, <1>2 DEF E, AsOneLog, Ranks
  <2> QED
    BY <1>1, <2>1, Unseen
<1>3. CASE old' = log /\ log' = Absent
  <2>1. /\ O \in Seq(Nat) /\ L \in Seq(Nat) /\ B \in Seq(Nat) /\ M \in Seq(Nat)
        /\ E = ((O \o L) \o B) \o M
    BY Mapped DEF E
  <2>2. E' = ((O' \o L') \o B') \o M'
    BY MappedNext DEF E
  <2>3. O' = L /\ L' = <<>> /\ B' = B /\ M' = M
    BY <1>1, <1>3, RanksEmpty DEF O, L, B, M, Absent
  <2>4. L \o <<>> = L
    BY <2>1, ConcatEmptySeq
  <2>5. E' = c
    BY <2>2, <2>3, <2>4
  <2>6. L \o B \in Seq(Nat)
    BY <2>1, ConcatProperties
  <2>7. E = O \o c /\ c \in Seq(Nat)
    <3>1. (O \o L) \o B = O \o (L \o B)
      <4>1. O \in Seq(Nat) /\ L \in Seq(Nat) /\ B \in Seq(Nat)
        BY <2>1
      <4> QED
        BY <4>1, RanksAssociative
    <3> DEFINE d == L \o B
    <3>2. E = (O \o d) \o M /\ d \in Seq(Nat) /\ c = d \o M
      BY <2>1, <2>6, <3>1
    <3> HIDE DEF d, c
    <3>3. (O \o d) \o M = O \o (d \o M)
      <4>1. O \in Seq(Nat) /\ d \in Seq(Nat) /\ M \in Seq(Nat)
        BY <2>1, <3>2
      <4> QED
        BY <4>1, RanksAssociative
    <3>4. d \o M \in Seq(Nat)
      BY <2>1, <3>2, ConcatProperties
    <3> QED
      BY <3>2, <3>3, <3>4
  <2> HIDE DEF c
  <2>8. <<>> \o O = O /\ <<>> \o c = c
    BY <2>1, <2>7, ConcatEmptySeq
  <2>9. e0 \in Seq(Nat) /\ Len(e0) = 0
    OBVIOUS
  <2>10. E = (e0 \o O) \o c /\ E' = e0 \o c
    BY <2>5, <2>7, <2>8
  <2> HIDE DEF e0
  <2>11. /\ Len(e0) + Len(O) \in 0..Len(E) /\ Len(O) \in Nat
         /\ E' = OneLog!Without(Len(e0), Len(e0) + Len(O))
    BY <2>1, <2>7, <2>9, <2>10, Cut
  <2> DEFINE j == Len(O)
  <2>12. j \in Nat /\ Len(e0) + j = j
    BY <2>9, <2>11
  <2>13. j \in 0..Len(E) /\ E' = OneLog!Without(0, j)
    BY <2>9, <2>11, <2>12
  <2>14. CASE O = <<>>
    BY <1>1, <2>5, <2>7, <2>8, <2>14, Unseen
  <2>15. CASE O # <<>>
    <3>1. j # 0
      BY <2>1, <2>15, EmptySeq
    <3> HIDE DEF j
    <3>2. j \in 1..Len(E)
      BY <2>12, <2>13, <3>1
    <3>3. \E x \in 1..Len(E) : E' = OneLog!Without(0, x)
      BY <2>13, <3>2
    <3> QED
      BY <1>1, <3>3 DEF OneLog!Expire, E
  <2> QED
    BY <2>14, <2>15
<1> QED
  BY <1>1, <1>2, <1>3

\* clear, its first part: the buffer goes.
LEMMA ClearBufferClears ==
    ASSUME StateInv, StateInv', ClearBuffer
    PROVE  OneLog!Clear
<1> DEFINE f == O \o L
<1>1. /\ lock = "none" /\ lock' = "clear" /\ clear' = "old" /\ buffer' = <<>>
      /\ UNCHANGED <<pushed, process, batch, log, old>>
  BY DEF ClearBuffer, CanClear, confVars, fileVars
<1>2. B = <<>> /\ B' = <<>> /\ M' = <<>> /\ O' = O /\ L' = L
  BY <1>1, NoBatch, RanksEmpty DEF B, M, O, L
<1>3. /\ O \in Seq(Nat) /\ L \in Seq(Nat) /\ M \in Seq(Nat)
      /\ E = (f \o B) \o M /\ E' = (f \o B') \o M'
  BY <1>2, Mapped, MappedNext DEF E
<1>4. f \in Seq(Nat)
  BY <1>3, ConcatProperties
<1> HIDE DEF f
<1>5. f \o <<>> = f /\ M \o <<>> = M /\ (f \o M) \o <<>> = f \o M
  <2>1. f \o M \in Seq(Nat)
    BY <1>3, <1>4, ConcatProperties
  <2> DEFINE g == f \o M
  <2> HIDE DEF g
  <2>2. g \o <<>> = g
    BY <2>1, ConcatEmptySeq DEF g
  <2> QED
    BY <1>3, <1>4, <2>2, ConcatEmptySeq DEF g
<1> DEFINE e0 == <<>>
<1>6. e0 \in Seq(Nat) /\ E = (f \o M) \o e0 /\ E' = f \o e0
  BY <1>2, <1>3, <1>5
<1> HIDE DEF e0
<1>7. \E i, j \in 0..Len(E) : i <= j /\ E' = OneLog!Without(i, j)
  BY <1>3, <1>4, <1>6, Cut
<1> QED
  BY <1>1, <1>7 DEF OneLog!Clear, E

\* clear, when a removal fails: nothing goes.
LEMMA KeepsClearing ==
    ASSUME StateInv, ClearOld \/ ClearLog, UNCHANGED <<old, log, target>>
    PROVE  OneLog!Clear
<1> DEFINE e0 == <<>>
<1>1. /\ clear \in {"old", "log"} /\ clear' \in {"log", "idle"} /\ lock' \in {lock, "none"}
      /\ UNCHANGED <<pushed, process, buffer, batch>>
  BY DEF ClearOld, ClearLog, confVars, memVars
<1>2. lock = "clear"
  BY <1>1 DEF StateInv, LockInv
<1>3. E' = E
  BY <1>1 DEF E, AsOneLog, Ranks
<1>4. E \in Seq(Nat) /\ e0 \in Seq(Nat)
  BY Mapped DEF E
<1> HIDE DEF e0
<1>5. E \o <<>> = E
  BY <1>4, ConcatEmptySeq
<1>6. e0 = <<>>
  BY DEF e0
<1>7. E = (E \o e0) \o e0 /\ E' = E \o e0
  BY <1>3, <1>5, <1>6
<1>8. \E i, j \in 0..Len(E) : i <= j /\ E' = OneLog!Without(i, j)
  BY <1>4, <1>7, Cut
<1> QED
  BY <1>1, <1>2, <1>8 DEF OneLog!Clear, E

\* clear, its second part: the older file goes.
LEMMA ClearOldClears ==
    ASSUME StateInv, StateInv', ClearOld
    PROVE  OneLog!Clear
<1> SUFFICES ASSUME old' = Absent PROVE OneLog!Clear
  BY KeepsClearing DEF ClearOld
<1>1. /\ clear = "old" /\ clear' = "log"
      /\ UNCHANGED <<pushed, process, lock, buffer, batch, log>>
  BY DEF ClearOld, confVars, memVars
<1>2. lock = "clear"
  BY <1>1 DEF StateInv, LockInv
<1>3. B = <<>> /\ B' = <<>> /\ M' = M /\ O' = <<>> /\ L' = L
  BY <1>1, <1>2, NoBatch, RanksEmpty DEF B, M, O, L, Absent
<1>4. /\ O \in Seq(Nat) /\ L \in Seq(Nat) /\ M \in Seq(Nat)
      /\ E = ((O \o L) \o B) \o M /\ E' = ((O' \o L') \o B') \o M'
  BY Mapped, MappedNext DEF E
<1>5. O \o L \in Seq(Nat) /\ (O \o L) \o M = O \o (L \o M) /\ L \o M \in Seq(Nat)
  <2>1. O \in Seq(Nat) /\ L \in Seq(Nat) /\ M \in Seq(Nat)
    BY <1>4
  <2>2. (O \o L) \o M = O \o (L \o M)
    BY <2>1, RanksAssociative
  <2> QED
    BY <2>1, <2>2, ConcatProperties
<1> DEFINE f == O \o L
           c == L \o M
           e0 == <<>>
<1>6. f \in Seq(Nat) /\ c \in Seq(Nat) /\ f \o M = O \o c /\ e0 \in Seq(Nat)
  BY <1>5
<1>7. e0 \o L = L /\ L \o <<>> = L /\ e0 \o O = O
  BY <1>4, ConcatEmptySeq
<1>8. E' = c /\ E = (f \o <<>>) \o M
  BY <1>3, <1>4, <1>7
<1> HIDE DEF f, c, e0
<1>9. f \o <<>> = f /\ e0 \o c = c
  BY <1>6, ConcatEmptySeq DEF e0
<1>10. E = (e0 \o O) \o c /\ E' = e0 \o c
  BY <1>6, <1>7, <1>8, <1>9
<1>11. \E i, j \in 0..Len(E) : i <= j /\ E' = OneLog!Without(i, j)
  BY <1>4, <1>6, <1>10, Cut
<1> QED
  BY <1>1, <1>2, <1>11 DEF OneLog!Clear, E

\* clear, its last part: the newer file goes.
LEMMA ClearLogClears ==
    ASSUME StateInv, StateInv', ClearLog
    PROVE  OneLog!Clear
<1> SUFFICES ASSUME log' = Absent PROVE OneLog!Clear
  BY KeepsClearing DEF ClearLog
<1>1. /\ clear = "log" /\ clear' = "idle"
      /\ lock' = IF lock = "clear" THEN "none" ELSE lock
      /\ UNCHANGED <<pushed, process, buffer, batch, old>>
  BY DEF ClearLog, confVars, memVars
<1>2. lock = "clear" /\ lock' = "none"
  BY <1>1 DEF StateInv, LockInv
<1>3. B = <<>> /\ B' = <<>> /\ M' = M /\ O' = O /\ L' = <<>>
  BY <1>1, <1>2, NoBatch, RanksEmpty DEF B, M, O, L, Absent
<1>4. /\ O \in Seq(Nat) /\ L \in Seq(Nat) /\ M \in Seq(Nat)
      /\ E = ((O \o L) \o B) \o M /\ E' = ((O' \o L') \o B') \o M'
  BY Mapped, MappedNext DEF E
<1>5. O \o L \in Seq(Nat) /\ O \o <<>> = O
  BY <1>4, ConcatProperties, ConcatEmptySeq
<1> DEFINE f == O \o L
<1>6. E = (f \o <<>>) \o M /\ f \in Seq(Nat) /\ E' = O \o M
  BY <1>3, <1>4, <1>5
<1>7. f = O \o L
  OBVIOUS
<1> HIDE DEF f
<1>8. f \o <<>> = f
  BY <1>6, ConcatEmptySeq
<1>9. \E i, j \in 0..Len(E) : i <= j /\ E' = OneLog!Without(i, j)
  BY <1>4, <1>6, <1>7, <1>8, Cut
<1> QED
  BY <1>1, <1>2, <1>9 DEF OneLog!Clear, E

\* Shutdown's flush: the process ends, or starts to write what is in the buffer.
LEMMA ShutdownFlushStops ==
    ASSUME StateInv, StateInv', ShutdownFlush
    PROVE  OneLog!Stop \/ OneLog!StartWriting
<1>1. /\ process = "stopping" /\ lock # "stop"
      /\ process' = IF lock' = "stop" THEN process ELSE "down"
      /\ UNCHANGED <<pushed, target, log, old, clear>>
      /\ \/ UNCHANGED <<buffer, lock, batch>>
         \/ /\ lock = "none" /\ lock' = "stop"
            /\ batch' = Encoded(buffer) /\ buffer' = <<>>
  BY DEF ShutdownFlush, EncodeEntries, fileVars, restVars
<1>2. CASE UNCHANGED <<buffer, lock, batch>>
  <2>1. E' = E /\ process' = "down"
    BY <1>1, <1>2 DEF E, AsOneLog, Ranks
  <2> QED
    BY <1>1, <1>2, <2>1 DEF OneLog!Stop, E
<1>3. CASE /\ lock = "none" /\ lock' = "stop"
           /\ batch' = Encoded(buffer) /\ buffer' = <<>>
  <2>1. E' = E
    BY <1>1, <1>3, EncodeMovesNothing
  <2>2. process' = process
    BY <1>1, <1>3
  <2> QED
    BY <1>1, <1>3, <2>1, <2>2 DEF OneLog!StartWriting, E
<1> QED
  BY <1>1, <1>2, <1>3

\* newQueryLog: what is in the files is the beginning of what there was.
LEMMA StartRestarts ==
    ASSUME StateInv, StateInv', Start
    PROVE  OneLog!Restart
<1> DEFINE f == O \o L
<1>1. /\ process = "down" /\ process' = "up" /\ lock' = "none" /\ clear' = "idle"
      /\ buffer' = <<>> /\ batch' = <<>> /\ UNCHANGED <<pushed, log, old>>
  BY DEF Start, fileVars
<1>2. O' = O /\ L' = L /\ B' = <<>> /\ M' = <<>>
  BY <1>1, RanksEmpty DEF O, L, B, M
<1>3. /\ O \in Seq(Nat) /\ L \in Seq(Nat) /\ B \in Seq(Nat) /\ M \in Seq(Nat)
      /\ E = (f \o B) \o M
  BY Mapped DEF E
<1>4. f \in Seq(Nat)
  BY <1>3, ConcatProperties
<1>5. E' = (f \o <<>>) \o <<>>
  BY <1>2, MappedNext DEF E
<1> HIDE DEF f
<1>6. E' = f
  BY <1>4, <1>5, ConcatEmptySeq
<1>7. Begins(E, Len(f), E')
  BY <1>3, <1>4, <1>6, CutMiddle
<1> DEFINE i == Len(f)
<1>8. i \in 0..Len(E) /\ E' = SubSeq(E, 1, i)
  BY <1>7 DEF Begins
<1> HIDE DEF i
<1>9. \E x \in 0..Len(E) : E' = SubSeq(E, 1, x)
  BY <1>8
<1> QED
  BY <1>1, <1>9 DEF OneLog!Restart, E

\* Every step of the query log is a step of the one log, or cannot be seen in it.
LEMMA OneLogNext ==
    StateInv /\ StateInv' /\ [Next]_vars => [OneLog!Next]_(OneLog!logVars)
<1> SUFFICES ASSUME StateInv, StateInv', [Next]_vars
             PROVE  OneLog!Next \/ UNCHANGED OneLog!logVars
  OBVIOUS
<1> USE DEF OneLog!Next
<1>1. ASSUME UNCHANGED <<buffer, batch, target, log, old, pushed, lock, clear, process>>
      PROVE  UNCHANGED OneLog!logVars
  <2>1. E' = E
    BY <1>1 DEF E, AsOneLog, Ranks
  <2> QED
    BY <1>1, <2>1, Unseen
<1>2. ASSUME NEW w \in Workers, NewLogEntry(w) PROVE UNCHANGED OneLog!logVars
  BY <1>1, <1>2 DEF NewLogEntry, confVars, flushVars, fileVars, restVars
<1>3. ASSUME NEW w \in Workers, Add(w) PROVE OneLog!Next
  BY <1>3, AddLogs
<1>4. CASE FlushLogBuffer
  BY <1>4, FlushStarts
<1>5. CASE OpenLog
  <2>1. /\ UNCHANGED <<pushed, lock, clear, process, batch, buffer, old>>
        /\ log'.lines = log.lines /\ target = "none" /\ target' = "log"
    <3>1. log \in Files
      BY DEF StateInv, TypeInv, TypeOK
    <3> QED
      BY <1>5, <3>1 DEF OpenLog, confVars, memVars, restVars, Files
  <2>2. E' = E
    BY <2>1 DEF E, AsOneLog, Ranks
  <2> QED
    BY <2>1, <2>2, Unseen
<1>6. CASE WriteLog
  BY <1>6, WriteEnds
<1>7. CASE CheckRotation
  BY <1>1, <1>7 DEF CheckRotation, confVars, memVars, flushVars, fileVars
<1>8. CASE Rotate
  BY <1>8, RotateExpires
<1>9. CASE ClearBuffer \/ ClearOld \/ ClearLog
  BY <1>9, ClearBufferClears, ClearOldClears, ClearLogClears
<1>10. CASE SetConfig
  BY <1>1, <1>10 DEF SetConfig, memVars, flushVars, fileVars, restVars
<1>11. CASE Search \/ SearchEnd
  BY <1>1, <1>11 DEF Search, SearchEnd, confVars, memVars, flushVars, fileVars
<1>12. CASE Shutdown
  <2>1. /\ process = "up" /\ process' = "stopping"
        /\ UNCHANGED <<buffer, batch, target, log, old, pushed, lock, clear>>
    BY <1>12 DEF Shutdown, memVars, flushVars, fileVars, restVars
  <2>2. E' = E
    BY <2>1 DEF E, AsOneLog, Ranks
  <2> QED
    BY <2>1, <2>2 DEF OneLog!logVars, E
<1>13. CASE ShutdownFlush
  BY <1>13, ShutdownFlushStops
<1>14. CASE Start
  BY <1>14, StartRestarts
<1>15. CASE Tick
  BY <1>1, <1>15 DEF Tick, memVars, flushVars, fileVars
<1>16. CASE UNCHANGED vars
  BY <1>1, <1>16 DEF vars
<1> QED
  BY <1>2, <1>3, <1>4, <1>5, <1>6, <1>7, <1>8, <1>9, <1>10, <1>11, <1>12, <1>13,
     <1>14, <1>15, <1>16 DEF Next

\* An empty query log is an empty log.
LEMMA OneLogInit == Init => OneLog!Init
<1> SUFFICES ASSUME Init PROVE OneLog!Init
  OBVIOUS
<1>1. /\ pushed = 0 /\ lock = "none" /\ clear = "idle" /\ process = "up" /\ target = "none"
      /\ buffer = <<>> /\ batch = <<>> /\ old.lines = <<>> /\ log.lines = <<>>
  BY DEF Init, Absent
<1>2. AsOneLog = (((<<>> \o <<>>) \o <<>>) \o <<>>) \o <<>>
  BY <1>1 DEF AsOneLog
<1>3. <<>> \o <<>> = <<>>
  OBVIOUS
<1>4. Ranks(AsOneLog) = <<>>
  BY <1>2, <1>3, RanksEmpty
<1> QED
  BY <1>1, <1>4 DEF OneLog!Init

\* The buffer, the flushes, the rotations, the clears and the restarts of the query
\* log implement one log: entries are added at its end, and leave it only when they
\* expire, are cleared, are pushed out of a full buffer, or are not written.
THEOREM IsOneLogTheorem == Spec => IsOneLog
<1>1. Spec => []StateInv
  BY StateInvariant
<1> QED
  BY <1>1, OneLogInit, OneLogNext, PTL DEF Spec, IsOneLog, OneLog!Spec
=============================================================================
