------------------------------- MODULE Stats -------------------------------
(***************************************************************************)
(* The query statistics of package internal/stats: the current unit, which *)
(* collects the queries of one hour, the database of the units of earlier  *)
(* hours, and the goroutines that share them.                              *)
(*                                                                         *)
(*   the DNS server counts a query with Update;                            *)
(*   periodicFlush moves the current unit into the database when the hour  *)
(*   has changed;                                                          *)
(*   the administrator changes the configuration or clears the statistics; *)
(*   the process is closed, crashes and starts again.                      *)
(*                                                                         *)
(* A query is a number, and a unit is the set of the queries it counts:    *)
(* the counters of a unit by domain, client, result and upstream are all   *)
(* sums over that set.  Sections under confMu and currMu are one step; the *)
(* steps of clear, most of which take no lock, are separate.               *)
(***************************************************************************)
EXTENDS Integers, FiniteSets

CONSTANTS
    MaxHour,        \* bound on the clock, in hours from 1
    MaxQueries,     \* bound on the queries
    MaxStarts,      \* bound on restarts
    Limits,         \* values the administrator may set the limit to, in hours
    InitLimit,      \* the limit at start
    Clears,         \* how statistics may be cleared: "reset", "disable"
    ClockBack,      \* TRUE if the clock may be set back
    DiskMayFail     \* TRUE if database operations may fail

Hours   == 1..MaxHour
Queries == 1..MaxQueries

\* The hour before a limit may be before the first one.
Window(id, lim) == {h \in Hours : h > id - lim /\ h <= id}

ASSUME StatsAssumption ==
    /\ MaxHour \in Nat \ {0}
    /\ MaxQueries \in Nat
    /\ MaxStarts \in Nat
    /\ Limits \subseteq Nat \ {0}
    /\ InitLimit \in Nat \ {0}
    /\ Clears \subseteq {"reset", "disable"}
    /\ ClockBack \in BOOLEAN
    /\ DiskMayFail \in BOOLEAN

VARIABLES
    hour,       \* the clock, what unitIDGen returns
    process,    \* "up", "closing" or "down"
    enabled,    \* s.enabled
    limit,      \* s.limit
    curr,       \* s.curr: its identifier and the queries it counts
    db,         \* s.db: "open" or "nil"
    units,      \* the database file: the stored units, by hour
    flusher,    \* the identifier periodicFlush has read, or 0
    clear,      \* the running clear: where it is, who called it, the number of
                \* queries before it, and whether the file was removed and no
                \* flush has been in the middle of a reset
    least,      \* the smallest limit so far
    counted,    \* the hour of every query counted and neither cleared nor lost
                \* to a crash or a failed transaction since
    asked,      \* number of queries so far
    cleared,    \* the last clear: the queries up to upto, and clean as in clear,
                \* but also with no flush waiting to flush into an earlier hour
    starts      \* number of restarts so far

vars == <<hour, process, enabled, limit, curr, db, units, flusher, clear,
          least, counted, asked, cleared, starts>>

NotClearing == [at |-> "idle", by |-> "reset", upto |-> 0, clean |-> TRUE]

Nothing == [x \in {} |-> {}]

\* The queries of counted that a database with the units us counts.
StoredIn(us) ==
    [q \in {k \in DOMAIN counted : /\ counted[k] \in DOMAIN us
                                   /\ k \in us[counted[k]]} |-> counted[q]]

NextUnit(id) == [id |-> id + 1, queries |-> {}]

NewUnit(id) == [id |-> id, queries |-> {}]

\* setLimit holds confMu while it clears, handleStatsReset does not.
NoConfMu == TRUE

ConfMuFree == clear.at = "idle" \/ clear.by = "reset"

Init ==
    /\ hour = 1
    /\ process = "up"
    /\ enabled = TRUE
    /\ limit = InitLimit
    /\ curr = NewUnit(1)
    /\ db = "open"
    /\ units = Nothing
    /\ flusher = 0
    /\ clear = NotClearing
    /\ least = InitLimit
    /\ counted = Nothing
    /\ asked = 0
    /\ cleared = [upto |-> 0, clean |-> TRUE]
    /\ starts = 0

-----------------------------------------------------------------------------
(* Counting and flushing. *)

\* Update, for a valid entry.
Update ==
    /\ process # "down"
    /\ ConfMuFree
    /\ asked < MaxQueries
    /\ asked' = asked + 1
    /\ IF enabled
       THEN /\ curr' = [curr EXCEPT !.queries = @ \cup {asked + 1}]
            /\ counted' = [q \in DOMAIN counted \cup {asked + 1} |->
                             IF q = asked + 1 THEN curr.id ELSE counted[q]]
       ELSE UNCHANGED <<curr, counted>>
    /\ UNCHANGED <<hour, process, enabled, limit, db, units, flusher, clear,
                   least, cleared, starts>>

\* flush reads the clock before it waits for the locks.
StaleUnitID ==
    /\ process # "down"
    /\ flusher = 0
    /\ flusher' = curr.id
    /\ UNCHANGED <<hour, process, enabled, limit, curr, db, units, clear,
                   least, counted, asked, cleared, starts>>

ReadUnitID ==
    /\ process # "down"
    /\ flusher = 0
    /\ flusher' = hour
    /\ UNCHANGED <<hour, process, enabled, limit, curr, db, units, clear,
                   least, counted, asked, cleared, starts>>

\* flushUnitToDB: the database with unit u stored.
Stored(u) == [h \in DOMAIN units \cup {u.id} |->
                IF h = u.id THEN u.queries ELSE units[h]]

\* The transaction of flushDB: unit u is stored, and the unit that the new
\* unit id makes too old is deleted.
FlushedTooMuch(u, id) ==
    [h \in {k \in DOMAIN Stored(u) : k > id - limit + 1} |-> Stored(u)[h]]

Flushed(u, id) ==
    [h \in DOMAIN Stored(u) \ {id - limit} |-> Stored(u)[h]]

\* flush and flushDB under confMu and currMu.  The current unit is replaced
\* whether or not the transaction succeeds.  A transaction cannot be begun
\* only when clear or Close has closed the database, which is the case of no
\* database.
Flush ==
    /\ process # "down"
    /\ flusher # 0
    /\ ConfMuFree
    /\ flusher' = 0
    /\ IF curr.id # flusher /\ db = "open"
       THEN /\ \/ units' = Flushed(curr, flusher) /\ UNCHANGED counted
               \/ DiskMayFail /\ UNCHANGED units /\ counted' = StoredIn(units)
            /\ curr' = NewUnit(flusher)
            /\ clear' = [clear EXCEPT
                 !.clean = @ /\ (clear.at = "idle" \/ clear.by = "disable")]
       ELSE UNCHANGED <<units, counted, curr, clear>>
    /\ UNCHANGED <<hour, process, enabled, limit, db, least, asked, cleared,
                   starts>>

-----------------------------------------------------------------------------
(* The administrator. *)

\* handlePutStatsConfig, and handleStatsConfig with an interval.
SetConfig ==
    /\ process = "up"
    /\ clear.at = "idle"
    /\ \E l \in Limits, on \in BOOLEAN :
         /\ <<l, on>> # <<limit, enabled>>
         /\ limit' = l
         /\ enabled' = on
    /\ least' = IF limit' < least THEN limit' ELSE least
    /\ UNCHANGED <<hour, process, curr, db, units, flusher, clear, counted,
                   asked, cleared, starts>>

\* clear, called by handleStatsReset or, with confMu held, by setLimit: first
\* the pointer to the database is taken away.
ClearBegin ==
    /\ process = "up"
    /\ clear.at = "idle"
    /\ \E by \in Clears :
         /\ clear' = [at |-> "remove", by |-> by, upto |-> asked,
                       clean |-> TRUE]
         /\ enabled' = IF by = "disable" THEN FALSE ELSE enabled
    /\ db' = "nil"
    /\ UNCHANGED <<hour, process, limit, curr, units, flusher, least, counted,
                   asked, cleared, starts>>

\* The database is closed and its file removed.  If closing fails, clear
\* gives up; if removing fails, it goes on with the old file.
ClearRemove ==
    /\ clear.at = "remove"
    /\ \/ /\ units' = Nothing
          /\ clear' = [clear EXCEPT !.at = "open"]
       \/ /\ DiskMayFail
          /\ UNCHANGED units
          /\ clear' \in {[clear EXCEPT !.at = "open", !.clean = FALSE],
                          NotClearing}
    /\ UNCHANGED <<hour, process, enabled, limit, curr, db, flusher, least,
                   counted, asked, cleared, starts>>

\* openDB, which may fail.
ClearOpen ==
    /\ clear.at = "open"
    /\ db' \in {"open"} \cup (IF DiskMayFail THEN {"nil"} ELSE {})
    /\ clear' = [clear EXCEPT !.at = "swap"]
    /\ UNCHANGED <<hour, process, enabled, limit, curr, units, flusher,
                   least, counted, asked, cleared, starts>>

\* The current unit is replaced last, under currMu.
ClearSwap ==
    /\ clear.at = "swap"
    /\ curr' = NewUnit(hour)
    /\ clear' = NotClearing
    /\ counted' = Nothing
    /\ cleared' = [upto |-> clear.upto,
                   clean |-> clear.clean /\ flusher \in {0, hour}]
    /\ UNCHANGED <<hour, process, enabled, limit, db, units, flusher, least,
                   asked, starts>>

-----------------------------------------------------------------------------
(* Closing, crashing and starting. *)

\* Close: nothing can be flushed any more, and then, under currMu, the
\* current unit is stored.  The web server is stopped before.
CloseBegin ==
    /\ process = "up"
    /\ clear.at = "idle"
    /\ starts < MaxStarts
    /\ process' = IF db = "open" THEN "closing" ELSE "down"
    /\ db' = "nil"
    /\ UNCHANGED <<hour, enabled, limit, curr, units, flusher, clear, least,
                   counted, asked, cleared, starts>>

CloseStore ==
    /\ process = "closing"
    /\ \/ units' = Stored(curr)
       \/ DiskMayFail /\ UNCHANGED units
    /\ process' = "down"
    /\ UNCHANGED <<hour, enabled, limit, curr, db, flusher, clear, least,
                   counted, asked, cleared, starts>>

\* A crash leaves the file, and at most a clear half done, of which the
\* configuration file may not know.
Crash ==
    /\ process # "down"
    /\ starts < MaxStarts
    /\ process' = "down"
    /\ db' = "nil"
    /\ clear' = NotClearing
    /\ enabled' \in IF ConfMuFree THEN {enabled} ELSE BOOLEAN
    /\ UNCHANGED <<hour, limit, curr, units, flusher, least, counted,
                   asked, cleared, starts>>

\* New: deleteOldUnits, and the unit of this hour is taken up again.
FreshUnit(id) == NewUnit(id)

Resumed(id) ==
    [id |-> id, queries |-> IF id \in DOMAIN units THEN units[id] ELSE {}]

\* The queries that are still known are those of the database.
Start ==
    /\ process = "down"
    /\ starts' = starts + 1
    /\ process' = "up"
    /\ db' = "open"
    /\ flusher' = 0
    /\ units' = [h \in {k \in DOMAIN units : k >= hour - limit - 1} |->
                   units[h]]
    /\ curr' = Resumed(hour)
    /\ counted' = StoredIn(units)
    /\ UNCHANGED <<hour, enabled, limit, clear, least, asked, cleared>>

-----------------------------------------------------------------------------
\* The clock.
Tick ==
    /\ \/ hour < MaxHour /\ hour' = hour + 1
       \/ ClockBack /\ hour > 1 /\ hour' = hour - 1
    /\ UNCHANGED <<process, enabled, limit, curr, db, units, flusher, clear,
                   least, counted, asked, cleared, starts>>

Clearing == ClearBegin \/ ClearRemove \/ ClearOpen \/ ClearSwap

Next ==
    \/ Update \/ ReadUnitID \/ Flush
    \/ SetConfig \/ Clearing
    \/ CloseBegin \/ CloseStore \/ Crash \/ Start
    \/ Tick

Spec == Init /\ [][Next]_vars

\* periodicFlush never stops while the process is up, and its mutexes do not
\* starve it; a clear that has begun goes on.
Fairness ==
    /\ WF_vars(ReadUnitID) /\ SF_vars(Flush)
    /\ WF_vars(ClearRemove \/ ClearOpen \/ ClearSwap)
    /\ WF_vars(CloseStore)

FairSpec == Spec /\ Fairness

-----------------------------------------------------------------------------
(* Properties *)

\* The types of the state; the pieces that are not obvious are that the
\* current unit and the identifier being flushed are hours of the clock.
TypeOK ==
    /\ hour \in Hours
    /\ process \in {"up", "closing", "down"}
    /\ enabled \in BOOLEAN
    /\ limit \in Nat \ {0}
    /\ curr \in [id : Hours, queries : SUBSET Queries]
    /\ db \in {"open", "nil"}
    /\ DOMAIN units \subseteq Hours
    /\ \A h \in DOMAIN units : units[h] \subseteq Queries
    /\ flusher \in Hours \cup {0}
    /\ clear \in [at : {"idle", "remove", "open", "swap"},
                  by : {"reset", "disable"}, upto : 0..MaxQueries,
                  clean : BOOLEAN]
    /\ least \in Nat \ {0}
    /\ DOMAIN counted \subseteq Queries
    /\ \A q \in DOMAIN counted : counted[q] \in Hours
    /\ asked \in 0..MaxQueries
    /\ cleared \in [upto : 0..MaxQueries, clean : BOOLEAN]
    /\ starts \in Nat

\* The queries counted in an hour.
Counted(h) == {q \in DOMAIN counted : counted[q] = h}

\* The process is up, no clear is running, and the last one was clean.
Settled == clear.at = "idle" /\ process = "up" /\ cleared.clean

\* A unit counts exactly the queries of its hour: the current one all of them,
\* and a stored one too, unless it is the earlier part of the current one.  So
\* no query is lost between two units or counted in two of them, by a flush,
\* a restart or a change of the limit.  (After a clear that is not clean, what
\* it has left, or a flush back into the hour before it, breaks this.)
UnitsWhole ==
    Settled =>
      /\ curr.queries = Counted(curr.id)
      /\ \A h \in DOMAIN units :
           IF h = curr.id THEN units[h] \subseteq Counted(h)
           ELSE units[h] = Counted(h)

\* What loadUnits sums up for the last lim hours.
Report(lim) ==
    curr.queries \cup
      UNION {units[h] : h \in DOMAIN units \cap Window(curr.id - 1, lim - 1)}

\* The statistics shown for the configured time have all queries counted in
\* it, as far back as the limit has always reached: a flush or a start deletes
\* no unit that is still to be shown.
ReportComplete ==
    Settled /\ db = "open" =>
      UNION {Counted(h) : h \in Window(curr.id, least)} \subseteq Report(limit)

\* No query up to q is counted.
ForgottenUpTo(q) ==
    /\ curr.queries \cap 1..q = {}
    /\ \A h \in DOMAIN units : units[h] \cap 1..q = {}

\* Once statistics have been cleared, no query from before is counted, unless
\* that clear was not clean.
ClearForgets ==
    clear.at = "idle" /\ cleared.clean => ForgottenUpTo(cleared.upto)

\* The same whatever flushes do.
ClearForgetsAlways == clear.at = "idle" => ForgottenUpTo(cleared.upto)

\* A unit that is stored is not overwritten by one that counts less: it is
\* deleted as a whole, if at all.  After a clear that is
\* not clean one may be.
StoredUnitsKept ==
    [][cleared.clean => \A h \in DOMAIN units \cap DOMAIN units' :
                          units[h] \subseteq units'[h]]_vars

\* The current unit catches up with the clock, whatever the administrator
\* does.
FlushCatchesUp ==
    (process = "up" /\ db = "open" /\ curr.id # hour) ~>
      (curr.id = hour \/ process # "up" \/ db = "nil")
=============================================================================
