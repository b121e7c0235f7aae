------------------------------ MODULE QueryLog ------------------------------
(***************************************************************************)
(* The query log of package internal/querylog: the ring buffer in memory,  *)
(* the two files querylog.json and querylog.json.1, and the goroutines     *)
(* that share them.                                                        *)
(*                                                                         *)
(*   the workers of the DNS server add entries with Add;                   *)
(*   a flush, a goroutine that Add starts when the buffer is full, moves   *)
(*   the buffer to the file;                                               *)
(*   periodicRotate renames the file when its first entry is old enough;   *)
(*   the administrator clears the log, changes its configuration and       *)
(*   searches it;                                                          *)
(*   Shutdown flushes once more.                                           *)
(*                                                                         *)
(* fileFlushLock is the only lock that is held over several steps; the     *)
(* sections under bufferLock, and single operations on files, are steps.   *)
(* rotate and search take neither fileFlushLock nor fileWriteLock.         *)
(***************************************************************************)
EXTENDS Naturals, Sequences

CONSTANTS
    Workers,        \* goroutines of the DNS server
    MemSize,        \* conf.MemSize
    FileEnabled,    \* conf.FileEnabled
    Ivls,           \* rotation intervals the administrator may set, in hours
    InitIvl,        \* conf.RotationIvl at start
    May,            \* what may happen beside adding and flushing
    DiskMayFail,    \* TRUE if writing to or removing a file may fail
    MaxEntries,     \* bound on the entries
    MaxHour,        \* bound on the clock
    MaxStarts       \* bound on restarts

ASSUME QueryLogAssumption ==
    /\ MemSize \in Nat
    /\ FileEnabled \in BOOLEAN
    /\ Ivls \subseteq Nat \ {0}
    /\ InitIvl \in Nat \ {0}
    /\ May \subseteq {"rotate", "clear", "config", "search"}
    /\ DiskMayFail \in BOOLEAN
    /\ MaxEntries \in Nat
    /\ MaxHour \in Nat
    /\ MaxStarts \in Nat

\* newQueryLog: the ring buffer holds one entry even if MemSize is 0.
Capacity == IF MemSize = 0 THEN 1 ELSE MemSize

\* An entry: when it was made, in hours and as its rank among all entries,
\* and its rank among the entries in the buffer's order.
Entries == [hour : 0..MaxHour, made : 1..MaxEntries, pushed : 0..MaxEntries]

NotAdding == [hour |-> 0, made |-> 0, pushed |-> 0]

\* A file is a sequence of entries, or absent.
Absent == [exists |-> FALSE, lines |-> <<>>]
Files  == [exists : BOOLEAN, lines : Seq(Entries)]

\* The members of a sequence.
ElementsOf(s) == {s[k] : k \in 1..Len(s)}

VARIABLES
    hour,           \* the clock
    process,        \* "up", "stopping" or "down"
    enabled,        \* conf.Enabled
    ivl,            \* conf.RotationIvl
    adding,         \* the entry each worker has made and not pushed
    buffer,         \* l.buffer, oldest entry first
    flushPending,   \* l.flushPending
    flushers,       \* number of flushes that wait for fileFlushLock
    lock,           \* who holds fileFlushLock: "none", "flush", "stop", "clear"
    batch,          \* the encoded entries a flush is about to write
    target,         \* the file a flush has opened: "none", "log", "old", "gone"
    log,            \* querylog.json
    old,            \* querylog.json.1
    clear,          \* where clear is: "idle", "old", "log"
    due,            \* TRUE if periodicRotate's ticker has fired
    rotating,       \* TRUE if periodicRotate is about to rename the file
    search,         \* a running search: how many places it has looked at, the
                    \* entries that it had to find, and those it has found
    made, pushed,   \* numbers of entries made and pushed so far
    cleared,        \* the entries a clear has to forget
    unremoved,      \* those in the files that it has failed to remove
    renamed,        \* which of "clear" and "search" a rotation has been in
                    \* the middle of
    starts          \* number of restarts so far

vars == <<hour, process, enabled, ivl, adding, buffer, flushPending, flushers,
          lock, batch, target, log, old, clear, due, rotating, search, made,
          pushed, cleared, unremoved, renamed, starts>>

confVars  == <<hour, process, enabled, ivl, starts>>
memVars   == <<adding, buffer, flushPending, flushers, made, pushed>>
flushVars == <<lock, batch, target>>
fileVars  == <<log, old>>
restVars  == <<clear, due, rotating, search, cleared, unremoved, renamed>>

NotSearching == [at |-> 0, expected |-> {}, found |-> {}]

Init ==
    /\ hour = 0
    /\ process = "up"
    /\ enabled = TRUE
    /\ ivl = InitIvl
    /\ adding = [w \in Workers |-> NotAdding]
    /\ buffer = <<>>
    /\ flushPending = FALSE
    /\ flushers = 0
    /\ lock = "none"
    /\ batch = <<>>
    /\ target = "none"
    /\ log = Absent
    /\ old = Absent
    /\ clear = "idle"
    /\ due = TRUE
    /\ rotating = FALSE
    /\ search = NotSearching
    /\ made = 0
    /\ pushed = 0
    /\ cleared = {}
    /\ unremoved = {}
    /\ renamed = {}
    /\ starts = 0

-----------------------------------------------------------------------------
(* Adding entries. *)

\* Add, its first part: the configuration is read, and newLogEntry takes the
\* time, before bufferLock is taken.
NewLogEntry(w) ==
    /\ process = "up"
    /\ enabled
    /\ adding[w] = NotAdding
    /\ made < MaxEntries
    /\ made' = made + 1
    /\ adding' = [adding EXCEPT ![w] = [hour |-> hour, made |-> made + 1,
                                             pushed |-> 0]]
    /\ UNCHANGED <<confVars, buffer, flushPending, flushers, pushed, flushVars,
                   fileVars, restVars>>

Appended(s, e) == Append(s, e)

\* The ring buffer drops its oldest entry when it is full.
Pushed(s, e) == IF Len(s) = Capacity THEN Append(Tail(s), e) ELSE Append(s, e)

\* A flush is started when the buffer is full and none is pending.
StartsFlushLate == ~flushPending /\ FileEnabled /\ Len(buffer) >= MemSize

StartsFlush == ~flushPending /\ FileEnabled /\ Len(buffer) + 1 >= MemSize

\* Add, its second part.
Add(w) ==
    /\ adding[w] # NotAdding
    /\ pushed' = pushed + 1
    /\ buffer' = Pushed(buffer, [adding[w] EXCEPT !.pushed = pushed + 1])
    /\ adding' = [adding EXCEPT ![w] = NotAdding]
    /\ flushPending' = (flushPending \/ StartsFlush)
    /\ flushers' = IF StartsFlush THEN flushers + 1 ELSE flushers
    /\ UNCHANGED <<confVars, made, flushVars, fileVars, restVars>>

-----------------------------------------------------------------------------
(* Flushing.  "flush" is a goroutine of Add, "stop" is Shutdown. *)

\* The entries are encoded in the order of the buffer.
EncodedBackwards(s) == [k \in 1..Len(s) |-> s[Len(s) + 1 - k]]

Encoded(s) == s

\* fileFlushLock is taken and encodeEntries empties the buffer; with nothing
\* to write the flush is over.
EncodeEntries(who) ==
    /\ lock = "none"
    /\ IF buffer = <<>>
       THEN UNCHANGED <<buffer, flushPending, lock, batch>>
       ELSE /\ batch' = Encoded(buffer)
            /\ buffer' = <<>>
            /\ flushPending' = FALSE
            /\ lock' = who

FlushLogBuffer ==
    /\ process # "down"
    /\ flushers > 0
    /\ EncodeEntries("flush")
    /\ flushers' = flushers - 1
    /\ UNCHANGED <<confVars, adding, made, pushed, target, fileVars, restVars>>

\* flushToFile opens or creates the file, and then appends to it whatever
\* its name is by now.
OpenLog ==
    /\ lock \in {"flush", "stop"}
    /\ target = "none"
    /\ log' = [log EXCEPT !.exists = TRUE]
    /\ target' = "log"
    /\ UNCHANGED <<confVars, memVars, lock, batch, old, restVars>>

WrittenFromStart(f, name) ==
    IF target = name
    THEN [f EXCEPT !.lines = batch \o SubSeq(@, Len(batch) + 1, Len(@))]
    ELSE f

Written(f, name) ==
    IF target = name THEN [f EXCEPT !.lines = @ \o batch] ELSE f

WriteLog ==
    /\ lock \in {"flush", "stop"}
    /\ target # "none"
    /\ \/ log' = Written(log, "log") /\ old' = Written(old, "old")
       \/ DiskMayFail /\ UNCHANGED fileVars
    /\ batch' = <<>>
    /\ target' = "none"
    /\ lock' = "none"
    /\ process' = IF lock = "stop" THEN "down" ELSE process
    /\ UNCHANGED <<hour, enabled, ivl, starts, memVars, restVars>>

-----------------------------------------------------------------------------
(* Rotation: a check at start and one every hour. *)

\* checkAndRotate: the interval and the time of the first entry are read.  A
\* file without an entry ends the check; a missing file has the zero time.
CheckRotation ==
    /\ process = "up"
    /\ "rotate" \in May
    /\ due /\ ~rotating
    /\ due' = FALSE
    /\ rotating' = \/ ~log.exists
                   \/ log.lines # <<>> /\ log.lines[1].hour + ivl <= hour
    /\ UNCHANGED <<confVars, memVars, flushVars, fileVars, clear, search,
                   cleared, unremoved, renamed>>

\* rotate: a missing file is ignored.
Rotate ==
    /\ process # "down"
    /\ rotating
    /\ rotating' = FALSE
    /\ IF log.exists
       THEN /\ old' = log
            /\ log' = Absent
            /\ target' = CASE target = "log" -> "old"
                           [] target = "old" -> "gone"
                           [] OTHER -> target
            /\ renamed' = renamed
                 \cup (IF clear # "idle" THEN {"clear"} ELSE {})
                 \cup (IF search # NotSearching THEN {"search"} ELSE {})
       ELSE UNCHANGED <<fileVars, target, renamed>>
    /\ UNCHANGED <<confVars, memVars, lock, batch, clear, due, search,
                   cleared, unremoved>>

-----------------------------------------------------------------------------
(* The administrator. *)

\* The entries that are in memory or in a file.
InFiles == ElementsOf(log.lines) \cup ElementsOf(old.lines)
Kept    == ElementsOf(buffer) \cup ElementsOf(batch) \cup InFiles

\* What clear does to the buffer and the flag of a pending flush.
StaysPending(pending) == pending

PendingAfterClear(pending) == FALSE

\* clear needs fileFlushLock.
ClearsWhileFlushing == clear = "idle"

CanClear == clear = "idle" /\ lock = "none"

\* clear: the buffer is emptied, then one file after the other is removed.  A
\* removal that fails is logged and leaves the file, and clear goes on.
ClearBuffer ==
    /\ process = "up"
    /\ "clear" \in May
    /\ CanClear
    /\ lock' = IF lock = "none" THEN "clear" ELSE lock
    /\ cleared' = Kept
    /\ unremoved' = {}
    /\ renamed' = renamed \ {"clear"}
    /\ buffer' = <<>>
    /\ flushPending' = PendingAfterClear(flushPending)
    /\ clear' = "old"
    /\ UNCHANGED <<confVars, adding, flushers, made, pushed, batch, target,
                   fileVars, due, rotating, search>>

ClearOld ==
    /\ clear = "old"
    /\ \/ /\ old' = Absent
          /\ target' = IF target = "old" THEN "gone" ELSE target
          /\ UNCHANGED unremoved
       \/ /\ DiskMayFail
          /\ unremoved' = unremoved \cup ElementsOf(old.lines)
          /\ UNCHANGED <<old, target>>
    /\ clear' = "log"
    /\ UNCHANGED <<confVars, memVars, lock, batch, log, due, rotating, search,
                   cleared, renamed>>

ClearLog ==
    /\ clear = "log"
    /\ \/ /\ log' = Absent
          /\ target' = IF target = "log" THEN "gone" ELSE target
          /\ UNCHANGED unremoved
       \/ /\ DiskMayFail
          /\ unremoved' = unremoved \cup ElementsOf(log.lines)
          /\ UNCHANGED <<log, target>>
    /\ clear' = "idle"
    /\ lock' = IF lock = "clear" THEN "none" ELSE lock
    /\ UNCHANGED <<confVars, memVars, batch, old, due, rotating, search,
                   cleared, renamed>>

\* handleQueryLogConfig and handlePutQueryLogConfig.
SetConfig ==
    /\ process = "up"
    /\ "config" \in May
    /\ enabled' \in BOOLEAN
    /\ ivl' \in Ivls
    /\ <<enabled', ivl'>> # <<enabled, ivl>>
    /\ UNCHANGED <<hour, process, starts, memVars, flushVars, fileVars,
                   restVars>>

\* search looks into the memory first and then opens the files, the older one
\* first.  The contents of a file are those when it is opened.
FilesFirst == <<"old", "log", "memory">>

SearchOrder == <<"memory", "old", "log">>

FoundIn(place) ==
    CASE place = "memory" -> IF MemSize = 0 THEN {} ELSE ElementsOf(buffer)
      [] place = "old"    -> ElementsOf(old.lines)
      [] place = "log"    -> ElementsOf(log.lines)

Search ==
    /\ process = "up"
    /\ "search" \in May
    /\ search.at < Len(SearchOrder)
    /\ search' = [at |-> search.at + 1,
                  expected |-> IF search.at = 0
                               THEN FoundIn("memory") \cup InFiles
                               ELSE search.expected,
                  found |-> search.found \cup FoundIn(SearchOrder[search.at + 1])]
    /\ renamed' = IF search.at = 0 THEN renamed \ {"search"} ELSE renamed
    /\ UNCHANGED <<confVars, memVars, flushVars, fileVars, clear, due, rotating,
                   cleared, unremoved>>

SearchEnd ==
    /\ search.at = Len(SearchOrder)
    /\ search' = NotSearching
    /\ UNCHANGED <<confVars, memVars, flushVars, fileVars, clear, due, rotating,
                   cleared, unremoved, renamed>>

-----------------------------------------------------------------------------
(* Stopping and starting, and the clock. *)

\* Shutdown, after the DNS server has been stopped; handlers and goroutines
\* go on until the process ends.
Shutdown ==
    /\ process = "up"
    /\ starts < MaxStarts
    /\ \A w \in Workers : adding[w] = NotAdding
    /\ process' = "stopping"
    /\ UNCHANGED <<hour, enabled, ivl, starts, memVars, flushVars, fileVars,
                   restVars>>

FlushesIfUnlocked ==
    /\ process = "stopping"
    /\ lock # "stop"
    /\ IF FileEnabled /\ lock = "none"
       THEN EncodeEntries("stop")
       ELSE UNCHANGED <<buffer, flushPending, lock, batch>>
    /\ process' = IF lock' = "stop" THEN process ELSE "down"
    /\ UNCHANGED <<hour, enabled, ivl, starts, adding, flushers, made, pushed,
                   target, fileVars, restVars>>

\* Its flush, if there is anything to flush.
ShutdownFlush ==
    /\ process = "stopping"
    /\ lock # "stop"
    /\ IF FileEnabled
       THEN EncodeEntries("stop")
       ELSE UNCHANGED <<buffer, flushPending, lock, batch>>
    /\ process' = IF lock' = "stop" THEN process ELSE "down"
    /\ UNCHANGED <<hour, enabled, ivl, starts, adding, flushers, made, pushed,
                   target, fileVars, restVars>>

\* newQueryLog: nothing but the files is left.
Start ==
    /\ process = "down"
    /\ process' = "up"
    /\ starts' = starts + 1
    /\ buffer' = <<>>
    /\ flushPending' = FALSE
    /\ flushers' = 0
    /\ lock' = "none"
    /\ batch' = <<>>
    /\ target' = "none"
    /\ clear' = "idle"
    /\ due' = TRUE
    /\ rotating' = FALSE
    /\ search' = NotSearching
    /\ UNCHANGED <<hour, enabled, ivl, adding, made, pushed, fileVars, cleared,
                   unremoved, renamed>>

Tick ==
    /\ hour < MaxHour
    /\ hour' = hour + 1
    /\ due' = TRUE
    /\ UNCHANGED <<process, enabled, ivl, starts, memVars, flushVars,
                   fileVars, clear, rotating, search, cleared, unremoved,
                   renamed>>

Next ==
    \/ \E w \in Workers : NewLogEntry(w) \/ Add(w)
    \/ FlushLogBuffer \/ OpenLog \/ WriteLog
    \/ CheckRotation \/ Rotate
    \/ ClearBuffer \/ ClearOld \/ ClearLog
    \/ SetConfig
    \/ Search \/ SearchEnd
    \/ Shutdown \/ ShutdownFlush \/ Start
    \/ Tick

Spec == Init /\ [][Next]_vars

\* The goroutines of a process run, and sync.Mutex does not starve a waiter.
\* Nobody has to add, clear, search or stop.
Fairness ==
    /\ SF_vars(FlushLogBuffer) /\ WF_vars(OpenLog) /\ WF_vars(WriteLog)
    /\ WF_vars(ClearOld) /\ WF_vars(ClearLog)
    /\ SF_vars(ShutdownFlush)

FairSpec == Spec /\ Fairness

-----------------------------------------------------------------------------
(* Properties *)

\* The types of the state; the ring buffer never outgrows its capacity.
TypeOK ==
    /\ hour \in 0..MaxHour
    /\ process \in {"up", "stopping", "down"}
    /\ enabled \in BOOLEAN
    /\ ivl \in Nat \ {0}
    /\ adding \in [Workers -> Entries \cup {NotAdding}]
    /\ buffer \in Seq(Entries) /\ Len(buffer) <= Capacity
    /\ flushPending \in BOOLEAN
    /\ flushers \in Nat
    /\ lock \in {"none", "flush", "stop", "clear"}
    /\ batch \in Seq(Entries)
    /\ target \in {"none", "log", "old", "gone"}
    /\ log \in Files
    /\ old \in Files
    /\ clear \in {"idle", "old", "log"}
    /\ due \in BOOLEAN /\ rotating \in BOOLEAN
    /\ search.at \in 0..3
    /\ made \in 0..MaxEntries /\ pushed \in 0..made
    /\ cleared \subseteq Entries /\ unremoved \subseteq Entries
    /\ starts \in 0..MaxStarts

\* A full buffer is going to be flushed: flushPending is set, and a flush that
\* has yet to take fileFlushLock is there to reset it.  Were the flag set
\* without a flush, Add would never start another and the buffer would
\* overwrite its entries for good.
FullIsScheduled ==
    process = "up" =>
      /\ FileEnabled /\ Len(buffer) = Capacity => flushPending
      /\ flushPending => flushers > 0

\* The entries of one place, in the order of reading from the oldest.
Stored == old.lines \o log.lines \o batch \o buffer

\* The files and the buffer hold entries in the order of Add: what is in the
\* older file comes before what is in the newer one, and so on, and nothing is
\* in two places.  Reading them backwards relies on it.
OldestFirst ==
    \A j, k \in 1..Len(Stored) : j < k => Stored[j].pushed < Stored[k].pushed

\* The entries of a file are sorted by time, as the binary search of seekTS
\* has it: what is older is to the left.  (It does not hold with two workers:
\* README, known disagreements.)
SortedFile ==
    \A j, k \in 1..Len(log.lines) :
       j < k => log.lines[j].made < log.lines[k].made

\* When the log has been cleared, no entry from before is left, in memory, on
\* its way to a file or in a file, unless a rotation has been in its middle or
\* the entry was in a file whose removal has failed: a flush cannot bring one
\* back, nor can what follows a failed removal keep more than its file.
ClearForgets ==
    clear = "idle" /\ "clear" \notin renamed => cleared \cap Kept \subseteq unremoved

\* The same with rotations.  (It does not hold: README, known disagreements.)
ClearForgetsAlways == clear = "idle" => cleared \cap Kept \subseteq unremoved

\* A clear, which always reports success, has cleared the log.  (It does not
\* hold: README, known disagreements.)
ClearSucceeds ==
    clear = "idle" /\ "clear" \notin renamed => cleared \cap Kept = {}

\* A search finds every entry that was in memory or in a file when it began
\* and still is when it ends, though flushes move entries meanwhile, unless a
\* rotation has been in its middle.
SearchFinds ==
    search.at = Len(SearchOrder) /\ "search" \notin renamed =>
      search.expected \cap Kept \subseteq search.found

\* A rotation drops only entries that are older than the rotation interval.  (It
\* does not hold: README, known disagreements.)
RotationRetains ==
    [][rotating /\ ~rotating' /\ process' = "up" =>
         \A e \in ElementsOf(old.lines) :
            e \in ElementsOf(old'.lines) \/ e.hour + ivl <= hour]_vars

\* The entries as one sequence: what a flush has in its hands goes to the end
\* of the file that it has opened, by whatever name, or nowhere.
AsOneLog ==
    old.lines \o (IF target = "old" THEN batch ELSE <<>>)
      \o log.lines \o (IF target \in {"none", "log"} THEN batch ELSE <<>>)
      \o buffer

\* The ranks of entries, which are all that the one log knows of them.
Ranks(s) == [k \in 1..Len(s) |-> s[k].pushed]

OneLog == INSTANCE EntryLog WITH
    MayFail <- DiskMayFail,
    added <- pushed,
    entries <- Ranks(AsOneLog),
    writing <- lock \in {"flush", "stop"},
    clearing <- clear # "idle",
    up <- process # "down"

\* Add, flushLogBuffer, rotate, clear and Shutdown together implement one log,
\* to whose end entries are added, and in which a flush cannot be seen: it
\* loses, repeats and moves nothing, even if the file is renamed under it.
IsOneLog == OneLog!Spec

\* When the process has been shut down, every entry that was in memory has
\* been written.
ShutdownWrites ==
    process = "down" /\ FileEnabled => buffer = <<>> /\ batch = <<>>

\* A full buffer gets flushed, or cleared, or the process ends.
FullIsFlushed ==
    (process = "up" /\ FileEnabled /\ Len(buffer) = Capacity) ~>
      (Len(buffer) < Capacity \/ process = "down")
=============================================================================
