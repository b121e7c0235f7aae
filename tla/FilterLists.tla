---------------------------- MODULE FilterLists ----------------------------
(***************************************************************************)
(* The filter lists of package internal/filtering: the configured block    *)
(* and allow lists, their files in data/filters, the rule engine that      *)
(* answers queries, and the goroutines that change them.                   *)
(*                                                                         *)
(*   "http"  the administrator's API handlers that modify data; they run   *)
(*           one at a time under controlLock (home/control.go);            *)
(*   "bot"   the Telegram bot, which appends and removes user rules and    *)
(*           does not take controlLock;                                    *)
(*   "loop"  updatesLoop, which installs the engines it is asked for and   *)
(*           starts the periodic refresh.                                  *)
(*                                                                         *)
(* A refresh runs in the goroutine of "http" or of "loop"; refreshLock     *)
(* admits one at a time.  A critical section under filtersMu is one step   *)
(* unless another goroutine can see its middle; downloads and file         *)
(* replacements of a refresh happen outside it, in steps of their own.     *)
(*                                                                         *)
(* A list body is a model value.  Its checksum identifies it, so a         *)
(* checksum is a body; Blank is the body without rules, whose checksum is  *)
(* 0, the value that unload also uses for "nothing loaded".  Names and     *)
(* rule counts are display data and are left out.                          *)
(***************************************************************************)
EXTENDS Naturals, FiniteSets

CONSTANTS
    Ids,            \* identifiers idGenerator hands out
    Urls,           \* list URLs
    Bodies,         \* bodies with at least one rule
    Blank,          \* the body without rules, checksum 0
    Down,           \* what a URL that cannot be downloaded serves
    None,           \* no file, no URL, no task, no copy
    Rules,          \* user rules
    Requests,       \* API requests the administrator may send
    BotAdds,        \* rules AddUserRule may be called with
    BotRemoves,     \* rules RemoveUserRules may be called with
    InitLists,      \* configured lists at start
    InitFiles,      \* their files
    Served,         \* what each URL may come to serve
    Periodic,       \* TRUE if FiltersUpdateIntervalHours is not 0 at start
    DiskMayFail,    \* TRUE if replacing a file may fail
    MaxRequests     \* bound on the requests of "http" and "bot" together

Actors == {"http", "bot"}
Slices == {"block", "allow"}
Data   == Bodies \cup {Blank}

\* A list, type FilterYAML; "where" is the slice of the configuration it is in.
Lists == [where : Slices \cup {"unused", "drawn", "gone"},
          url : Urls \cup {None}, enabled : BOOLEAN, checksum : Data]

\* The content of a list file, and the URL it was downloaded from.
Files == [body : Data, from : Urls]

\* The parameters of initFiltering: the enabled lists and the user rules.
Tasks == [ids : SUBSET Ids, rules : SUBSET Rules]

\* An engine, given by the rules and the list files it was compiled from.
Engines == [rules : SUBSET Rules, files : [Ids -> Files \cup {None}]]

\* The copy of a list that a refresh works on, and its update flag.
Copies == [id : Ids, url : Urls, checksum : Data, updated : BOOLEAN]

AddRequests     == [op : {"add"}, url : Urls, where : Slices]
RemoveRequests  == [op : {"remove"}, url : Urls, where : Slices]
SetRequests     == [op : {"set"}, url : Urls, where : Slices,
                    newUrl : Urls, enabled : BOOLEAN]
RulesRequests   == [op : {"rules"}, rules : SUBSET Rules]
ConfigRequests  == [op : {"config"}, enabled : BOOLEAN, periodic : BOOLEAN]
RefreshRequests == [op : {"refresh"}, where : Slices]

InConf(l) == l.where \in Slices

ASSUME SentinelAssumption ==
    /\ Blank \notin Bodies
    /\ Down \notin Data
    /\ None \notin UNION {Ids, Urls, Files, Tasks, Copies, Engines}

ASSUME EnvironmentAssumption ==
    /\ Requests \subseteq UNION {AddRequests, RemoveRequests, SetRequests,
                                 RulesRequests, ConfigRequests,
                                 RefreshRequests}
    /\ BotAdds \subseteq Rules
    /\ BotRemoves \subseteq Rules
    /\ Served \in [Urls -> SUBSET (Data \cup {Down})]
    /\ Periodic \in BOOLEAN
    /\ DiskMayFail \in BOOLEAN
    /\ MaxRequests \in Nat

\* New leaves one list for each URL in a slice (deduplicateFilters) and reads
\* the checksum of every enabled list, and of no other, from its file
\* (loadFilters, load).
ASSUME InitAssumption ==
    /\ InitLists \in [Ids -> Lists]
    /\ InitFiles \in [Ids -> Files \cup {None}]
    /\ \A i \in Ids : InConf(InitLists[i]) => InitLists[i].url \in Urls
    /\ \A i, j \in Ids :
         (/\ InConf(InitLists[i])
          /\ InitLists[i].where = InitLists[j].where
          /\ InitLists[i].url = InitLists[j].url) => i = j
    /\ \A i \in Ids :
         InConf(InitLists[i]) /\ InitLists[i].checksum # Blank =>
           /\ InitLists[i].enabled
           /\ InitFiles[i] # None
           /\ InitFiles[i].body = InitLists[i].checksum

VARIABLES
    lists,      \* conf.Filters and conf.WhitelistFilters, by identifier
    userRules,  \* conf.UserRules
    filteringEnabled, \* conf.FilteringEnabled
    periodic,   \* conf.FiltersUpdateIntervalHours # 0
    enabled,    \* the flag Settings reads, set by SetEnabled
    file,       \* data/filters/<id>.txt
    engine,     \* d.filteringEngine and d.filteringEngineAllow
    chan,       \* filtersInitializerChan, of capacity 1
    initLock,   \* the holder of filtersInitializerLock, or "none"
    remote,     \* what each URL serves
    pc,         \* where "http" and "bot" are in their handler
    tasks,      \* the tasks "http" and "bot" have gathered
    adding,     \* the list handleFilteringAddURL is adding
    edited,     \* the rules a bot's call is about to store
    loop,       \* updatesLoop: where it is, and the engine it has compiled
    refresh,    \* the running refresh, protected by refreshLock
    requests    \* number of requests so far

vars == <<lists, userRules, filteringEnabled, periodic, enabled, file, engine,
          chan, initLock, remote, pc, tasks, adding, edited, loop, refresh,
          requests>>

flagVars == <<filteringEnabled, periodic>>
confVars == <<lists, userRules, flagVars>>
taskVars == <<enabled, engine, chan, initLock, tasks>>

-----------------------------------------------------------------------------
(* What the operations below are made of. *)

\* The enabled lists and the user rules, as enableFiltersLocked gathers them.
CurrentTask == [ids |-> {i \in Ids : InConf(lists[i]) /\ lists[i].enabled},
                rules |-> userRules]

\* The engine initFiltering compiles; a list that has no file is skipped.
InitFiltering(task) ==
    [rules |-> task.rules,
     files |-> [i \in Ids |-> IF i \in task.ids THEN file[i] ELSE None]]

EnabledFilterExists(url) ==
    \E i \in Ids : InConf(lists[i]) /\ lists[i].enabled /\ lists[i].url = url

FilterExists(url) == \E i \in Ids : InConf(lists[i]) /\ lists[i].url = url

\* filtersMu: a handler that is handing over a task holds it for reading, a
\* bot's call that is storing its rules holds it for writing.
CanRead  == pc["bot"] \notin {"append", "drop"}
WriteWhileSending == CanRead

CanWrite == CanRead /\ \A a \in Actors : pc[a] \notin {"lock", "send"}

\* updateIntl replaces the file only when the checksum differs.
ErrorIgnored(body, checksum) == body # checksum

Changed(body, checksum) == body # Down /\ body # checksum

NoRefresh == [owner |-> "none", step |-> "idle", array |-> "block",
              todo |-> {}, cur |-> None, body |-> Down, done |-> {},
              allFailed |-> TRUE, updated |-> FALSE, netErr |-> FALSE]

NotAdding == [id |-> None, url |-> None, where |-> "unused"]

Init ==
    /\ lists = InitLists
    /\ userRules = {}
    /\ filteringEnabled = TRUE
    /\ periodic = Periodic
    /\ enabled = TRUE
    /\ file = InitFiles
    /\ engine = InitFiltering(CurrentTask)
    /\ chan = None
    /\ initLock = "none"
    /\ remote \in [Urls -> Data \cup {Down}]
    /\ \A u \in Urls : remote[u] \in Served[u]
    /\ pc = [a \in Actors |-> "idle"]
    /\ tasks = [a \in Actors |-> None]
    /\ adding = NotAdding
    /\ edited = {}
    /\ loop = [at |-> "select", engine |-> None]
    /\ refresh = NoRefresh
    /\ requests = 0

-----------------------------------------------------------------------------
(* The administrator's requests.  A request that is refused (a list that   *)
(* exists already, or does not exist, or a running refresh) changes        *)
(* nothing and is not a step.                                              *)

Goto(a, label) == pc' = [pc EXCEPT ![a] = label]

Begin(a, label) ==
    /\ pc[a] = "idle"
    /\ requests < MaxRequests
    /\ requests' = requests + 1
    /\ Goto(a, label)

\* handleFilteringAddURL up to the download: the URL is new, and the list
\* gets an identifier.
HandleAdd(r) ==
    /\ r \in AddRequests
    /\ CanRead
    /\ ~FilterExists(r.url)
    /\ Begin("http", "fetch")
    /\ \E i \in Ids :
         /\ lists[i].where = "unused"
         /\ lists' = [lists EXCEPT ![i].where = "drawn"]
         /\ adding' = [id |-> i, url |-> r.url, where |-> r.where]
    /\ UNCHANGED <<userRules, flagVars, taskVars, file, remote,
                   edited, loop, refresh>>

\* update of a new list, whose checksum is 0: a failed download and a blank
\* page end the request, anything else becomes the list's file.
AddFetch ==
    /\ pc["http"] = "fetch"
    /\ \/ /\ Changed(remote[adding.url], Blank)
          /\ file' = [file EXCEPT ![adding.id] =
                        [body |-> remote[adding.url], from |-> adding.url]]
          /\ Goto("http", "add")
          /\ UNCHANGED <<lists, adding>>
       \/ /\ ~Changed(remote[adding.url], Blank) \/ DiskMayFail
          /\ lists' = [lists EXCEPT ![adding.id].where = "gone"]
          /\ adding' = NotAdding
          /\ Goto("http", "idle")
          /\ UNCHANGED file
    /\ UNCHANGED <<userRules, flagVars, taskVars, remote, edited,
                   loop, refresh, requests>>

\* filterAdd: under the lock the URL is looked up again before the list is
\* appended.
FilterAdd ==
    /\ pc["http"] = "add"
    /\ CanWrite
    /\ IF FilterExists(adding.url)
       THEN /\ lists' = [lists EXCEPT ![adding.id].where = "gone"]
            /\ Goto("http", "idle")
       ELSE /\ lists' = [lists EXCEPT ![adding.id] =
                           [where |-> adding.where, url |-> adding.url,
                            enabled |-> TRUE,
                            checksum |-> file[adding.id].body]]
            /\ Goto("http", "enable")
    /\ adding' = NotAdding
    /\ UNCHANGED <<userRules, flagVars, taskVars, file, remote,
                   edited, loop, refresh, requests>>

\* handleFilteringRemoveURL: the file is renamed away and the list deleted.
\* The filters are enabled again even if there was no such list, or its file
\* could not be renamed and the list was kept.
HandleRemove(r) ==
    /\ r \in RemoveRequests
    /\ CanWrite
    /\ Begin("http", "enable")
    /\ \E found \in {{i \in Ids : lists[i].where = r.where
                                  /\ lists[i].url = r.url}}
                    \cup (IF DiskMayFail THEN {{}} ELSE {}) :
          /\ lists' = [i \in Ids |->
                         IF i \in found
                         THEN [lists[i] EXCEPT !.where = "gone"]
                         ELSE lists[i]]
          /\ file' = [i \in Ids |-> IF i \in found THEN None ELSE file[i]]
    /\ UNCHANGED <<userRules, flagVars, taskVars, remote, adding,
                   edited, loop, refresh>>

\* filterSetProperties, with the list unloaded when its URL changes:
\* disabling it, and enabling or redirecting it with a download.
Unloaded(l, r) ==
    [l EXCEPT !.url = r.newUrl,
              !.checksum = IF l.url = r.newUrl THEN @ ELSE Blank]

\* A list that is disabled is also unloaded.
DisabledOnly(l) == [l EXCEPT !.enabled = FALSE]

Disabled(l) == [l EXCEPT !.enabled = FALSE, !.checksum = Blank]

SetDisabled(i, r) ==
    /\ ~r.enabled
    /\ lists' = [lists EXCEPT ![i] = Disabled(Unloaded(@, r))]
    /\ Begin("http", IF lists[i].enabled \/ lists[i].url # r.newUrl
                     THEN "enable" ELSE "idle")
    /\ UNCHANGED file

\* What the deferred function of filterSetProperties restores after an error:
\* the URL and the flag, not the checksum.
RestoredFlag(old, l) == [l EXCEPT !.enabled = old.enabled]

Restored(old, l) == [l EXCEPT !.url = old.url, !.enabled = old.enabled]

\* update under the lock; an unchanged body does not enable the filters again.
SetUpdated(i, r) ==
    LET l == Unloaded(lists[i], r)
        body == remote[r.newUrl]
    IN /\ r.enabled
       /\ ~lists[i].enabled \/ lists[i].url # r.newUrl
       /\ \/ /\ Changed(body, l.checksum)
             /\ file' = [file EXCEPT ![i] = [body |-> body,
                                             from |-> r.newUrl]]
             /\ lists' = [lists EXCEPT ![i] = [l EXCEPT !.enabled = TRUE,
                                                        !.checksum = body]]
             /\ Begin("http", "enable")
          \/ /\ body = l.checksum
             /\ lists' = [lists EXCEPT ![i] = [l EXCEPT !.enabled = TRUE]]
             /\ Begin("http", "idle")
             /\ UNCHANGED file
          \/ /\ body = Down \/ DiskMayFail
             /\ lists' = [lists EXCEPT ![i] = Restored(@, l)]
             /\ Begin("http", "idle")
             /\ UNCHANGED file

HandleSet(r) ==
    /\ r \in SetRequests
    /\ CanWrite
    /\ \E i \in Ids :
         /\ lists[i].where = r.where /\ lists[i].url = r.url
         /\ r.newUrl = r.url \/ ~FilterExists(r.newUrl)
         /\ SetDisabled(i, r) \/ SetUpdated(i, r)
    /\ UNCHANGED <<userRules, flagVars, taskVars, remote, adding,
                   edited, loop, refresh>>

\* handleFilteringSetRules stores the rules without taking filtersMu.
HandleSetRules(r) ==
    /\ r \in RulesRequests
    /\ Begin("http", "enable")
    /\ userRules' = r.rules
    /\ UNCHANGED <<lists, flagVars, taskVars, file, remote, adding,
                   edited, loop, refresh>>

HandleConfig(r) ==
    /\ r \in ConfigRequests
    /\ CanWrite
    /\ Begin("http", "enable")
    /\ filteringEnabled' = r.enabled
    /\ periodic' = r.periodic
    /\ UNCHANGED <<lists, userRules, taskVars, file, remote, adding,
                   edited, loop, refresh>>

\* tryRefreshFilters takes refreshLock or gives up.
StartRefresh(owner, array) ==
    /\ refresh.owner = "none"
    /\ refresh' = [NoRefresh EXCEPT !.owner = owner, !.step = "list",
                                    !.array = array]

HandleRefresh(r) ==
    /\ r \in RefreshRequests
    /\ Begin("http", "refresh")
    /\ StartRefresh("http", r.where)
    /\ UNCHANGED <<confVars, taskVars, file, remote, adding, edited, loop>>

-----------------------------------------------------------------------------
(* The bot's requests.  The rules are read and stored under filtersMu, but *)
(* HandleSetRules may come between the two.                                *)

BotRead(label, rules) ==
    /\ CanWrite
    /\ Begin("bot", label)
    /\ edited' = rules
    /\ UNCHANGED <<confVars, taskVars, file, remote, adding, loop, refresh>>

\* A rule that is there already is not stored again.
AddUserRule ==
    \E r \in BotAdds :
       \/ r \notin userRules /\ BotRead("append", userRules \cup {r})
       \/ /\ r \in userRules
          /\ CanWrite
          /\ Begin("bot", "enable")
          /\ UNCHANGED <<confVars, taskVars, file, remote, adding, edited,
                         loop, refresh>>

RemoveUserRules ==
    \E r \in BotRemoves : BotRead("drop", userRules \ {r})

BotStore ==
    /\ pc["bot"] \in {"append", "drop"}
    /\ userRules' = edited
    /\ edited' = {}
    /\ Goto("bot", "enable")
    /\ UNCHANGED <<lists, flagVars, taskVars, file, remote, adding,
                   loop, refresh, requests>>

-----------------------------------------------------------------------------
(* EnableFilters(true) holds filtersMu for reading: it gathers the task,   *)
(* then setFilters takes filtersInitializerLock, empties the channel and   *)
(* sends the task.                                                         *)

EnableFilters(a) ==
    /\ pc[a] = "enable"
    /\ CanRead
    /\ tasks' = [tasks EXCEPT ![a] = CurrentTask]
    /\ Goto(a, "lock")
    /\ UNCHANGED <<confVars, enabled, engine, chan, initLock, file, remote,
                   adding, edited, loop, refresh, requests>>

NoInitializerLock(a) == initLock' = a

LockInitializer(a) ==
    /\ initLock = "none"
    /\ initLock' = a

SetFilters(a) ==
    /\ pc[a] = "lock"
    /\ LockInitializer(a)
    /\ chan' = None
    /\ Goto(a, "send")
    /\ UNCHANGED <<confVars, enabled, engine, tasks, file, remote, adding,
                   edited, loop, refresh, requests>>

\* The send blocks while the channel is full.
SendTask(a) ==
    /\ pc[a] = "send"
    /\ chan = None
    /\ chan' = tasks[a]
    /\ tasks' = [tasks EXCEPT ![a] = None]
    /\ initLock' = "none"
    /\ enabled' = filteringEnabled
    /\ Goto(a, "idle")
    /\ UNCHANGED <<confVars, engine, file, remote, adding, edited, loop,
                   refresh, requests>>

-----------------------------------------------------------------------------
(* updatesLoop *)

\* initFiltering, first half: compile an engine from the files as they are.
LoopCompile ==
    /\ loop.at = "select"
    /\ chan # None
    /\ loop' = [at |-> "install", engine |-> InitFiltering(chan)]
    /\ chan' = None
    /\ UNCHANGED <<confVars, enabled, engine, initLock, tasks, file, remote, pc,
                   adding, edited, refresh, requests>>

\* initFiltering, second half: install it under engineLock.
LoopInstall ==
    /\ loop.at = "install"
    /\ engine' = loop.engine
    /\ loop' = [at |-> "select", engine |-> None]
    /\ UNCHANGED <<confVars, enabled, chan, initLock, tasks, file, remote, pc,
                   adding, edited, refresh, requests>>

\* periodicallyRefreshFilters, when the timer has fired.
LoopRefresh ==
    /\ loop.at = "select"
    /\ periodic
    /\ StartRefresh("loop", "block")
    /\ loop' = [loop EXCEPT !.at = "refresh"]
    /\ UNCHANGED <<confVars, taskVars, file, remote, pc, adding, edited,
                   requests>>

-----------------------------------------------------------------------------
(* refreshFiltersIntl: for one slice after the other, copy the lists that  *)
(* are due, download each of them, and merge the results.                  *)

refreshFrame == <<userRules, flagVars, remote, adding, edited,
                  requests>>

\* listsToUpdate.  A forced refresh takes every enabled list; a periodic one
\* those that have expired by the clock, which may be any of them.
ListsToUpdate ==
    /\ refresh.step = "list"
    /\ CanRead
    /\ \E S \in SUBSET {i \in Ids : /\ lists[i].where = refresh.array
                                    /\ lists[i].enabled} :
         /\ refresh.owner = "http" =>
              \A i \in Ids : lists[i].where = refresh.array
                             /\ lists[i].enabled => i \in S
         /\ refresh' = [refresh EXCEPT
              !.step = "fetch",
              !.done = {},
              !.allFailed = TRUE,
              !.todo = {[id |-> i, url |-> lists[i].url,
                         checksum |-> lists[i].checksum,
                         updated |-> FALSE] : i \in S}]
    /\ UNCHANGED <<refreshFrame, lists, taskVars, file, pc, loop>>

\* updateIntl: the download.  A body that differs from the checksum is put
\* aside until FinalizeUpdate; a failed download, and a temporary file that
\* cannot be made, count as a failure.
RefreshFetch ==
    /\ refresh.step = "fetch"
    /\ \E c \in refresh.todo :
       \E body \in {remote[c.url]} \cup (IF DiskMayFail THEN {Down} ELSE {}) :
         refresh' =
           IF Changed(body, c.checksum)
           THEN [refresh EXCEPT !.todo = @ \ {c}, !.cur = c, !.body = body,
                                !.step = "replace"]
           ELSE [refresh EXCEPT !.todo = @ \ {c}, !.done = @ \cup {c},
                                !.allFailed = @ /\ body = Down]
    /\ UNCHANGED <<refreshFrame, lists, taskVars, file, pc, loop>>

\* The copy after finalizeUpdate: the update flag is set even if the file
\* could not be replaced, the checksum only if it was.
FinalizedEarly(c, body, replaced) ==
    [c EXCEPT !.updated = TRUE, !.checksum = body]

Finalized(c, body, replaced) ==
    [c EXCEPT !.updated = TRUE, !.checksum = IF replaced THEN body ELSE @]

\* finalizeUpdate: replace the file; if that fails the list counts as failed.
FinalizeUpdate ==
    /\ refresh.step = "replace"
    /\ \E replaced \in IF DiskMayFail THEN BOOLEAN ELSE {TRUE} :
         /\ file' = IF replaced
                    THEN [file EXCEPT ![refresh.cur.id] =
                            [body |-> refresh.body, from |-> refresh.cur.url]]
                    ELSE file
         /\ refresh' = [refresh EXCEPT
              !.done = @ \cup {Finalized(refresh.cur, refresh.body, replaced)},
              !.allFailed = @ /\ ~replaced,
              !.cur = None, !.body = Down, !.step = "fetch"]
    /\ UNCHANGED <<refreshFrame, lists, taskVars, pc, loop>>

\* The copies that syncUpdatedFilters merges into list i: those of a list
\* that still has the identifier and the URL it was copied with.
MergedIfLoaded(i) == {c \in refresh.done : /\ c.id = i
                                           /\ c.url = lists[i].url
                                           /\ c.updated
                                           /\ lists[i].checksum # Blank}

Merged(i) == {c \in refresh.done : /\ c.id = i
                                   /\ c.url = lists[i].url
                                   /\ c.updated
                                   /\ lists[i].where = refresh.array}

\* refreshFiltersArray, its end.  If every download failed, nothing is
\* merged and the refresh as a whole counts as failed.
SyncUpdatedFilters ==
    /\ refresh.step = "fetch"
    /\ refresh.todo = {}
    /\ refresh.done = {} \/ refresh.allFailed \/ CanWrite
    /\ LET failed == refresh.done # {} /\ refresh.allFailed
           merge(i) == ~failed /\ Merged(i) # {}
       IN /\ lists' = [i \in Ids |->
                IF merge(i)
                THEN [lists[i] EXCEPT
                        !.checksum = (CHOOSE c \in Merged(i) : TRUE).checksum]
                ELSE lists[i]]
          /\ refresh' = [refresh EXCEPT
                !.netErr = @ \/ failed,
                !.updated = @ \/ \E i \in Ids : merge(i),
                !.done = {},
                !.step = IF refresh.owner = "loop" /\ refresh.array = "block"
                         THEN "list" ELSE "finish",
                !.array = IF refresh.owner = "loop" THEN "allow" ELSE @]
    /\ UNCHANGED <<refreshFrame, taskVars, file, pc, loop>>

\* refreshFiltersIntl, its end: after a network error the engine is left as
\* it is, otherwise updates are enabled synchronously.
FinishRefresh ==
    /\ refresh.step = "finish"
    /\ CanRead
    /\ IF refresh.updated /\ ~refresh.netErr
       THEN /\ engine' = InitFiltering(CurrentTask)
            /\ enabled' = filteringEnabled
       ELSE UNCHANGED <<engine, enabled>>
    /\ refresh' = NoRefresh
    /\ IF refresh.owner = "http"
       THEN Goto("http", "idle") /\ UNCHANGED loop
       ELSE loop' = [loop EXCEPT !.at = "select"] /\ UNCHANGED pc
    /\ UNCHANGED <<refreshFrame, lists, chan, initLock, tasks, file>>

-----------------------------------------------------------------------------
(* The environment: a list's server changes what it serves. *)

RemoteChange ==
    /\ \E u \in Urls : \E b \in Served[u] :
         remote' = [remote EXCEPT ![u] = b]
    /\ UNCHANGED <<confVars, taskVars, file, pc, adding, edited, loop,
                   refresh, requests>>

HandleRequest ==
    \E r \in Requests :
       \/ HandleAdd(r) \/ HandleRemove(r) \/ HandleSet(r)
       \/ HandleSetRules(r) \/ HandleConfig(r) \/ HandleRefresh(r)

Refreshing ==
    \/ ListsToUpdate \/ RefreshFetch \/ FinalizeUpdate
    \/ SyncUpdatedFilters \/ FinishRefresh

Next ==
    \/ HandleRequest
    \/ AddFetch \/ FilterAdd
    \/ AddUserRule \/ RemoveUserRules \/ BotStore
    \/ \E a \in Actors : EnableFilters(a) \/ SetFilters(a) \/ SendTask(a)
    \/ LoopCompile \/ LoopInstall \/ LoopRefresh
    \/ Refreshing
    \/ RemoteChange

Spec == Init /\ [][Next]_vars

\* A goroutine that can take a step takes it, and a mutex or a select that is
\* offered again and again is taken in the end: sync.RWMutex and sync.Mutex do
\* not starve a waiter, and select chooses at random among its ready cases.
\* Nothing obliges anyone to send a request, a timer to fire or a list to
\* change.
Fairness ==
    /\ WF_vars(AddFetch) /\ SF_vars(FilterAdd)
    /\ WF_vars(BotStore)
    /\ \A a \in Actors : /\ SF_vars(EnableFilters(a))
                         /\ SF_vars(SetFilters(a))
                         /\ WF_vars(SendTask(a))
    /\ SF_vars(LoopCompile) /\ WF_vars(LoopInstall)
    /\ SF_vars(Refreshing)

FairSpec == Spec /\ Fairness

-----------------------------------------------------------------------------
(* Properties *)

Labels == {"idle", "fetch", "add", "refresh", "append", "drop", "enable",
           "lock", "send"}

ConfOK ==
    /\ lists \in [Ids -> Lists]
    /\ \A i \in Ids : InConf(lists[i]) => lists[i].url \in Urls
    /\ userRules \in SUBSET Rules
    /\ filteringEnabled \in BOOLEAN
    /\ periodic \in BOOLEAN

FilesOK ==
    /\ file \in [Ids -> Files \cup {None}]
    /\ remote \in [Urls -> Data \cup {Down}]

TasksOK ==
    /\ chan \in Tasks \cup {None}
    /\ initLock \in Actors \cup {"none"}
    /\ tasks \in [Actors -> Tasks \cup {None}]
    /\ \A a \in Actors : pc[a] \in {"lock", "send"} => tasks[a] \in Tasks
    /\ enabled \in BOOLEAN

HandlersOK ==
    /\ pc \in [Actors -> Labels]
    /\ requests \in 0..MaxRequests
    /\ edited \in SUBSET Rules

AddingOK ==
    /\ pc["http"] \in {"fetch", "add"} =>
         adding \in [id : Ids, url : Urls, where : Slices]
    /\ pc["http"] = "add" => file[adding.id] \in Files

LoopOK ==
    /\ engine \in Engines
    /\ loop \in [at : {"select", "install", "refresh"},
                 engine : Engines \cup {None}]
    /\ loop.at = "install" => loop.engine \in Engines

RefreshOK ==
    /\ refresh \in [owner : {"none", "http", "loop"},
                    step : {"idle", "list", "fetch", "replace", "finish"},
                    array : Slices, todo : SUBSET Copies,
                    cur : Copies \cup {None}, body : Data \cup {Down},
                    done : SUBSET Copies, allFailed : BOOLEAN,
                    updated : BOOLEAN, netErr : BOOLEAN]
    /\ refresh.step = "replace" =>
         refresh.cur \in Copies /\ refresh.body \in Data

\* Every piece of state of DNSFilter keeps its shape.  In particular a refresh
\* that is about to replace a file has a copy of its list, an add that is
\* about to append a list has its file, a handler that is about to send has
\* gathered its task, and every list of the configuration has a URL.
TypeOK ==
    /\ ConfOK /\ FilesOK /\ TasksOK /\ HandlersOK /\ AddingOK /\ LoopOK
    /\ RefreshOK

\* No slice of the configuration has two lists with one URL, which is what
\* looking a list up by its URL in filterSetProperties and
\* handleFilteringRemoveURL relies on.
UniqueURLs ==
    \A i, j \in Ids :
       (/\ InConf(lists[i])
        /\ lists[i].where = lists[j].where
        /\ lists[i].url = lists[j].url) => i = j

\* Whoever has emptied filtersInitializerChan finds it empty when it sends:
\* setFilters never blocks with filtersMu held, whatever updatesLoop does.
SendNeverBlocks == \A a \in Actors : pc[a] = "send" => chan = None

\* Identifiers whose file the running refresh may be ahead of the
\* configuration with.
InFlight == {c.id : c \in refresh.done}
              \cup {c.id : c \in refresh.todo}
              \cup {c.id : c \in {refresh.cur} \ {None}}

\* The checksum of a list is that of its file, but for the lists a refresh is
\* just working on: update compares a download with the checksum alone, so a
\* wrong one keeps wrong rules in the file for good.
ChecksumOfFile ==
    \A i \in Ids \ InFlight :
       InConf(lists[i]) /\ lists[i].checksum # Blank =>
         /\ file[i] # None
         /\ file[i].body = lists[i].checksum

\* The rules of an enabled list come from its URL, as long as no refresh is
\* working on it: setting a URL downloads from it or is undone.
FileFromURL ==
    \A i \in Ids \ InFlight :
       InConf(lists[i]) /\ lists[i].enabled /\ file[i] # None =>
         file[i].from = lists[i].url

\* The engine and the filtering flag are those of the configuration.
Converged ==
    /\ engine = InitFiltering(CurrentTask)
    /\ enabled = filteringEnabled

\* Nobody is doing anything, and no task is waiting.
Quiet ==
    /\ \A a \in Actors : pc[a] = "idle"
    /\ chan = None
    /\ loop.at = "select"
    /\ refresh.owner = "none"

\* When everybody is done, the engine that answers queries is the one of the
\* configuration: no change of a list, of a file or of the user rules has been
\* overtaken by an older engine or left out.
QuietMeansConverged == Quiet => Converged

\* Whatever is changed, the engine that answers queries catches up with the
\* lists, their files and the user rules.
EngineCatchesUp == []<>Converged

\* Every handler that has begun returns, and so does every refresh: nobody
\* waits forever for a lock, the channel or the loop.
HandlersReturn ==
    /\ \A a \in Actors : pc[a] # "idle" ~> pc[a] = "idle"
    /\ refresh.owner # "none" ~> refresh.owner = "none"

\* AddUserRule appends: the rules that are there when its rule is stored stay.
\* (It does not hold: README, known disagreements.)
AppendKeepsRules ==
    [][pc["bot"] = "append" /\ pc'["bot"] = "enable" =>
         userRules \subseteq userRules']_vars

=============================================================================
