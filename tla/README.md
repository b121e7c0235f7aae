# A TLA+ development for the DNS server

The repository is a fork of AdGuard Home: a DNS server in Go (`internal/`) that
filters, logs and counts queries, with a web interface (`client/`,
`client_v2/`), an Android app (`android/`) and packaging.  This directory holds
TLA+ models of its stateful core, the TLC configurations that check them, and
TLAPS proofs about them.  `PROJECT.json` lists components, runs, hazards,
findings and theorems, and maps every definition to the lines it models.

## 1. The system

What runs concurrently in one process:

- goroutines of the DNS proxy, one for each request;
- API handlers.  Those that modify data run one at a time, under `controlLock`
  (`home/control.go`); reading ones run at any time;
- `updatesLoop` of the filter, which compiles rule engines and refreshes lists;
- `periodicFlush` of the statistics, `periodicRotate` of the query log, and the
  flushes that `Add` starts;
- the Telegram bot, DHCP servers, address processing, game mode timers;
- outside the process, any number of browser tabs.  A tab has one thread: what a
  store operation does between two awaits is atomic, but its requests, timers and
  those of other operations interleave.

| Component | State | Operations | What is hard |
|---|---|---|---|
| Filter lists (`filtering/filter.go`, `filtering.go`, `http.go`) | block and allow lists with URL, flag and checksum; a file for each; user rules; the compiled engine; a channel of capacity 1 | add, remove, redirect, enable, disable, set rules, refresh (forced, periodic), bot rules, compile, install | four locks; downloads between a copy and its merge; two goroutines that install engines; partial failures |
| Query log (`querylog/`) | ring buffer, pending flag, two files | add, flush, rotate, clear, configure, search, page, shut down | flushes and rotations in the middle of clears and searches; binary search over bytes; paging by time |
| Statistics (`stats/`) | current unit, database of units by hour | update, flush, configure, reset, disable, close, start, report | the hour changes while anything runs; crashes; a database that is taken away for a while |
| Web client v1 (`client/src`, React and Redux) and v2 (`client_v2/src`, SolidJS): pages | the store: copies of the server's documents (lists, rules, settings ...), a `processing` flag for each kind of request | load on mount, edit, save, reload; around 150 store operations on 35 pages | answers in any order; lost or refused requests; whole documents sent back from stale copies; flags that must come down |
| The same: status and protection switch (`stores/dashboard.ts`, `actions/index.tsx`) | status, countdown of a pause, timers of retries | poll, toggle, pause, count down, ask again when the tab becomes visible | the client's countdown races with the server's; retries share timers |
| The same: query log list (`actions/queryLogs.ts`, `stores/queryLogs.ts`) | entries shown, cursor, filter, end flag | scroll, search, refresh, short polling | pages of two queries mixed; scan limits; new entries meanwhile |
| Installation (`install/Setup`, `home/controlinstall.go`) | step, addresses in the store and in the forms; the server's first configuration | type (debounced check), go on, go back, install, retry | an address enters the store only with the answer to its check; a failed installation |
| DNS request pipeline (`dnsforward/process.go` ...) | one context for each request | filter, rewrite, resolve, filter the response, log | order of steps, early results, CNAME restarts |
| DNS server life cycle (`dnsforward/dnsforward.go`) | configuration, proxy, flag `isRunning` | prepare, start, stop, reconfigure, close | requests during a reconfiguration |
| Client storage (`client/`) | index of persistent clients by name, address, subnet, MAC, ClientID; runtime clients by source; upstream cache | add, update, remove, find, set from ARP, DHCP, hosts, rDNS, WHOIS | uniqueness over several indexes, precedence of sources, stale upstreams |
| DHCP (`dhcpd/`, `dhcpsvc/`) | leases by address, name and hardware address; lease file | discover, request, decline, release, static leases, expiry | reservation and commit are separate messages; persistence |
| Authentication (`aghuser/`, `home/auth*.go`) | users, sessions in memory and database, failed logins | log in, log out, expire, block | expiry, restart, races on the limiter |
| Game mode (`gamemode/`) | a profile with an end time | enable, disable, expire | settings must come back |
| Safe browsing, rewrites, blocked services, schedule | caches, tables | look up, refresh | expiry, loops, boundaries of time |
| Web server, TLS, configuration, migrations, updater, services | files, listeners | restart, save, migrate, replace | partial failure, mostly sequential |
| Telegram bot, device detection, speed test, DoH hub, ODoH, geo upstreams, maintenance | little of their own | calls into the above | external services |
| Android app | VPN service, local block list | start, stop, switch | life cycle callbacks |

How they interact: the pipeline asks the filter for a verdict, then calls
`querylog.Add` and `stats.Update`; the API and the bot change the filter's
configuration; the filter calls back to save the configuration; clients are
found by the pipeline, the query log and DHCP.  The web clients reach all of
them by HTTP requests alone; `controlLock` makes the modifying ones atomic.

What makes the modelled components correct:

- *Filter lists.*  The engine that answers queries is the one of the
  configuration and of the files, as soon as nothing is in progress; a checksum
  is the one of its file, because a refresh compares with it; a file comes from
  the URL that is configured; URLs are unique; nobody blocks for ever.
- *Query log.*  Nothing is stored twice or out of order; a full buffer is
  flushed; a clear leaves nothing; a search misses nothing; pages put together
  are the log; a shutdown writes what is in memory.
- *Statistics.*  A query is counted once, in its hour, through restarts; what is
  shown is complete; a clear leaves nothing; the current unit follows the clock.
- *Web clients.*  No spinner turns for ever; a page that nothing went wrong with
  shows what the server has; saving one thing undoes nothing else; the switch
  tells whether one is protected; the list of queries has no gaps, repetitions
  or foreign entries, and "no more" means no more; the wizard installs what was
  typed.

## 2. Plan

Done (in this order): `FilterLists` with `MCFilterLists`; `Stats`; `QueryLog`;
`QLogFile`, and `QLogSearch` on top of it; `EntryLog`, the abstract log that
`QueryLog` implements; the two web clients (`WebRows`, `ClientV1`, `ReducersV1`,
`PagesV1`, `ClientV2`, `PagesV2`, `WebClients`, `WebPages`), `WebStatus`, `WebLog`
and `WebInstall`, checked together by `MCWeb`.  Proofs: `FilterListsProofs`,
`StatsProofs`, `QueryLogProofs`, `QLogSearchProofs`, `WebPagesProofs`,
`WebStatusProofs`, `WebLogProofs`, `WebInstallProofs`.

To come, the most important first:

1. `Clients`: the index of persistent clients and runtime sources; invariant:
   no identifier leads to two clients and no removed client is found; abstract
   specification: a map from identifiers to clients, refined by the indexes.
2. `Leases`: DHCPv4 discover, request, decline, expiry, static leases, the lease
   file and restarts; invariant: one address for one client.
3. `Sessions`: sessions with expiry in memory and on disk, and the limiter of
   failed logins.
4. `Server`: the life cycle of the DNS server with requests in progress, which
   composes with an abstraction of `FilterLists` (a published engine).
5. Pure algorithms: schedules, order and loops of rewrites.
6. An abstract specification *published engine* (queries are answered by
   engines; each is the engine of some configuration since the last quiet
   moment) that `FilterLists` is to implement outside the known races.

Runs: one passing run for each component, all its properties in it, so that the
set stays small; bounds of two or three of everything, and a few requests.

Theorems to come: `QuietMeansConverged` of `FilterLists` with refreshes of one
slice; the main invariants of `Clients` and `Leases`.

## 3. Modules

### FilterLists

`lists` holds both slices of the configuration by identifier (`where` says which
slice; `unused`, `drawn` and `gone` identifiers are outside), `file` the files,
`engine` what is installed, as the rules and files it was compiled from, `chan`
and `initLock` the channel and `filtersInitializerLock`.  Actors `http` and
`bot` have a program counter; `loop` is `updatesLoop`; `refresh` is the running
refresh with its copies of lists.  Each API handler is an action or a few of
them, cut where `filtersMu` is given up or where another goroutine can see the
middle: `HandleAdd`, `AddFetch`, `FilterAdd`; `HandleRemove`; `HandleSet`;
`HandleSetRules`; `HandleConfig`; `HandleRefresh`.  A handler that needs the
engine rebuilt goes on with `EnableFilters` (gather a task), `SetFilters` (take
`filtersInitializerLock`, drain the channel) and `SendTask`.  A refresh is
`StartRefresh`, `ListsToUpdate`, `RefreshFetch` and `FinalizeUpdate` for each
list, `SyncUpdatedFilters` and `FinishRefresh`.

Abstractions: a body is a value and its own checksum; `Blank` is the body
without rules, whose checksum is 0, the checksum of an unloaded list.  Compiling
reads all files in one step.  Errors of `initFiltering`, names and rule counts
are left out.  A request that is refused without effect is no step.  `bot`
stands for all callers of `AddUserRule` and `RemoveUserRules` outside
`controlLock`.

`MCFilterLists` has the instances: sets of requests, initial lists, and what the
servers of lists may serve.

### Stats

`curr`, `db`, `units` and `limit` are the fields of `StatsCtx` and the database
file; a unit is the set of the queries it counts.  `flusher` is the identifier
that `flush` has read before it waits for its locks.  Sections under `confMu`
and `currMu` are one step; the four parts of `clear` are separate, and
`ConfMuFree` says whether the caller of `clear` holds `confMu` (`setLimit` does,
`handleStatsReset` does not).  `counted`, `least`, `cleared` and part of `clear`
are history that only properties read.  A crash may come at any time and leaves
the file; a transaction of the database is atomic.

### QueryLog

`buffer`, `flushPending`, `log` and `old` are the ring buffer, the flag and the
files; `adding` is what a worker has made and not pushed; `flushers` counts
flushes waiting for `fileFlushLock`, `lock` says who holds it, `batch` and
`target` are the encoded entries and the opened file, which keeps being written
when it is renamed or removed.  A clear is three steps under `fileFlushLock`; either
removal may fail, which leaves the file, and the clear goes on and reports success;
rotation, which takes no lock, is a check and a rename; a search looks into
memory, then opens the old file, then the new one.  The clock is in hours.
`pushed`, `cleared`, `unremoved` (the entries in files that the clear failed to
remove), `renamed` and parts of `search` are history.  `Ranks` is the
order in which entries were pushed; the refinement and the proofs speak of
entries by their ranks.

### EntryLog

What the query log promises its readers: one sequence of numbered entries, added
at its end, forgotten only by expiry, clearing, a full buffer, a failing disk or
the end of the process, never moved, repeated or brought back.  `QueryLog`
implements it (`IsOneLog`) under the mapping `AsOneLog`: the old file, the new
one, then the buffer, with the batch of a running flush at the end of the file
that the flush has opened, by whatever name a rotation has given it.

### QLogFile and QLogSearch

`QLogFile` is one open file at the level of bytes: a file is the sequence of the
offsets of its newlines; `ReadProbeLine`, `LineIdxError`, `SeekTSStep`,
`BufferFor` and `ReadNext` compute with the same offsets and buffer edges as the
code.  `QLogSearch` extends it by the reader of two files and by the search over
memory and files, driven by a client that asks page after page
(`client/src/actions/queryLogs.ts`).  Files do not change during the paging and
are not empty, and their lines fit `maxEntrySize` with their newline; the search
criteria are a kind of entry.  The first request may name any time; what is said
of the pages is said of clients that begin with none or with that of an entry
(`AsksForEntry`), as the web clients do.

### WebRows, ClientV1, ReducersV1, PagesV1, ClientV2, PagesV2, WebClients, WebPages

Both clients are built in one way: store operations (thunks in v1) raise flags,
send a request, and on the answer write the store, lower flags and start further
operations; pages start some when they are mounted and offer controls for others.
`WebRows` is the vocabulary for this, and the rows are the clients:
`ClientV2` has the operations of `client_v2/src/stores`, `ClientV1` those of
`client/src/actions` with what `client/src/reducers` make of them in
`ReducersV1`; `PagesV1` and `PagesV2` have, for each component, its controls and
the flags that disable them, and for each routed page what it requests, what
hides it and what it copies into forms.  `WebClients` puts the pages of both
routers into one table.  A definition has the name of the function, reducer or
component that it stands for.

`WebPages` gives rows their meaning.  `store` and `server` hold the documents,
`busy` the raised flags, `calls` the requests in flight, a bag.  `Click` operates a
control that is neither disabled nor hidden; `Serve` handles a request at the
server (the several requests of a `Promise.all` one by one); `Refuse` and `Lose`
are failures before and after the server has done the work; `Settle` and `Fail`
run the handlers, in any order of the answers.  `harm` records what excuses a
page for being out of date, and whether a request has undone something it was
not about.

What the rows of a client have in common is stated beside the properties, as
three disciplines that can be read off the tables without running anything.
`Bracketed`: whoever raises a flag lowers it on every path, itself or through a
thunk that it starts.  `Refreshing`: a page loads what it shows, and a thunk that
changes a document takes the change over or loads it again.  `Guarded`, for the
pages that are not among `Clobbering`: a document that is sent back whole is
loaded before the page can be seen (`Opens`), and whoever writes it holds a flag
that disables all its writers (`Locks`) until the store has it again (`Guards`).
`MCWeb` puts the pages of both clients in and assumes them of these (`ClientsBracketed`,
`ClientsRefreshing`, `ClientsGuarded`), so TLC evaluates them in the run.

Abstractions: a document is the set of its items that are on, of two; a request
either changes one item (`patch`), replaces the document by the store's copy with
one item changed (`put`), or sends one part to an endpoint that clears the others
(`wipe`).  A dialog and the button that opens it are one control.  Validation,
texts, sorting and layout are left out: a form that does not validate sends
nothing.

### WebStatus

`protection` is the server's state with the seconds left of a pause, `view` the
store's, `countdown` the dashboard's timer of v2, `tasks` the requests in flight
and the retries that wait for a timer.  `Second` is the server's clock; a client
counts no faster, and possibly later (`due`).  The server ends a pause in one
step.

### WebLog

`logs`, `oldest`, `entire` and the two flags are the store, `asks` the operations
at work, each with the pages that its short polling has gathered.  An entry is
its time.  The server's answer is that of `QLogSearch`: at most `Limit` entries
older than the cursor, newest first (`NewestFirst`), at most `Scan` looked at, and
the time to go on from.  Opening the page sends one request in both clients.  In v1
there is an effect for an empty address as well (`Logs/index.tsx:180`), but
the form's effect, which as a child's runs before those of the page, has put
`response_status=all` into the address by then (`Filters/Form.tsx:42`), and keeps it
there when a search is cleared.

### WebInstall

`step`, `known` (the store's address), `field` (the form on screen), `timers`
(debounced checks, with `fresh` saying whether the current debouncer holds the
last one), `checks` in flight, `submit`; and of the server `config` (in memory),
`onDisk` (in the file), `installed`, `users`, and `reverted`, which is history.  An
address is a number and stands for the addresses and ports of
both interfaces.  The server handles an installation as
`handleInstallConfigure` does: the user is added first, and a failure after that
restores the configuration in memory and leaves the user.  Flushing the answer
is the last step that may fail: by then the file is written and the first run over
(`reverted`).  A user who is there already makes `addUser` panic, which leaves the
configuration in memory as it has just been changed.

`MCWeb` explores a page, the status, the list and the wizard one at a time
(`scene`), since they share no state.

## 4. Runs

| Run | Checks | Bounds |
|---|---|---|
| `lists_edit` | `TypeOK`, `UniqueURLs`, `FileFromURL`, `QuietMeansConverged` under every edit, failing downloads and disks | 2 lists, 2 URLs, 4 requests |
| `lists_forced_refresh` | `QuietMeansConverged` under forced refreshes of two lists that fail separately | 2 bodies, 3 requests |
| `lists_refresh` | `SendNeverBlocks`, `ChecksumOfFile`, `QuietMeansConverged` with periodic refreshes, handlers and the bot interleaved | 2 lists, 2 bodies, 2 requests |
| `lists_live` | `EngineCatchesUp`, `HandlersReturn` | 2 requests, refreshes without end |
| `lists_redirect_race` | finds `ChecksumOfFile` violated | 1 request |
| `stats_units` | `TypeOK`, `UnitsWhole`, `ReportComplete`, `ClearForgets`, `StoredUnitsKept`, `FlushCatchesUp` | 3 hours, 2 queries, 1 restart or crash, limits 1 and 2 |
| `stats_reset_race` | finds `ClearForgetsAlways` violated | 2 hours, 1 query |
| `qlog_flush` | `TypeOK`, `FullIsScheduled`, `OldestFirst`, `ClearForgets`, `SearchFinds`, `ShutdownWrites`, `FullIsFlushed`, and the refinement `IsOneLog` | buffer of 2, 3 entries, 2 hours, 1 restart |
| `qlog_pages` | `SeekCorrect`, `ScopeHolds`, `ReadsBackwards`, `PagesComplete`, `PagesDisjoint`, `PagesEnd` | 4 entries, lines of 2 or 4 bytes, buffers of 4 and 8 bytes; no first time, and one between two entries; the further pages ask for the times of entries |
| `qlog_pages_memory` | finds `PagesCompleteAlways` violated | as above, no first time |
| `web_clients` | `SpinnersEnd`, `Converged`, `EditsSurvive`; `SwitchIsTrue`, `StatusComes`; `LogCoherent`, `LogWhole`, `LogGoesOn`; `WizardOnPage`, `InstalledAsTyped` | 35 pages, 2 clicks and 1 failure each; a pause of 2 seconds, 2 switches; a log of 4 to 5 entries, pages of 2; 1 address typed, 3 turns, 1 failure |
| `web_pause` | finds `PauseEnds` violated | v2, a pause of 2 seconds |

Why the bounds are enough for the cases that matter.  Two lists and two URLs
allow a redirect onto a URL in use, a list added while another is refreshed, and
a refresh that fails for one list only; two bodies let a list change and change
back.  Three hours with a limit of two delete a unit; one restart within an hour
resumes a unit.  Three entries and a buffer of two fill the buffer, flush and go
on; a clock of two values makes a file due for rotation.  One worker is enough
for `qlog_flush`, since `Add` pushes under `bufferLock` and no property of the
run depends on when an entry was made; the proofs about `QueryLog` have any
number.  In `qlog_pages` a file of four lines is longer than the read buffer, so
it is read again in the middle, and lines are as long as `maxEntrySize` allows.
In `web_clients` a race on a page takes two operations of the user, or one and the
loading of the page, each with the reloads that it starts; two items, one on and
one off at first, let an operation undo what it is not about.  A pause of two seconds is counted down, with
the tab looked at and a switch turned at any moment of it.  Five entries make
three pages of two, and a filter that leaves two entries of them makes the client
poll again after a scan limit of two.  The wizard needs one address that differs
from the proposed one; two checks in flight can overtake each other.

Every property has a mutant of the code in `PROJECT.json` (a dropped lock, an
order swapped, a boundary off by one) under which TLC finds it violated.

Fairness.  The Go scheduler runs every goroutine that can run, which is weak
fairness, and `sync.Mutex` hands over to a waiter that starves, which is strong
fairness for a step that waits for a lock.  `FilterLists` assumes this of
handlers that have begun, of the loop and of a running refresh; `Stats` of
`periodicFlush`, a clear and a close that have begun; `QueryLog` of flushes,
clears and the shutdown; `QLogSearch` of the search and of a client that goes on
asking.  Nobody is assumed to send a request, and downloads end (the HTTP client
has a timeout).  The web modules state what must eventually happen as invariants
of the states in which nothing is in flight (`SpinnersEnd`, `LogGoesOn`) or of the
presence of whatever will bring it about (`StatusComes`), so they need no
fairness.  `web_clients` and `web_pause` do not check deadlock: a tab may rest.

## 5. Proofs

A theorem holds for every value of the constants that satisfies the `ASSUME`s of
its module; the runs cover small instances of the same definitions.  Each proof
rests on an invariant that every step keeps, with a lemma for each group of
actions; the invariants that are not among the properties were checked with TLC
before they were proved.

### Filter lists

`FilterListsProofs`, for every set of lists, URLs, bodies, rules and requests:

- `SendNeverBlocksTheorem`.  `setFilters` sends with `filtersMu` held, so a full
  channel would be a deadlock with a refresh that waits for `filtersMu`.  The
  inductive invariant says that an actor about to send holds
  `filtersInitializerLock` and that then the channel is empty: it was drained
  under the lock, nobody else may fill it, and the loop only takes from it.
- `TypeCorrect`, one lemma for each action and part of the state.
- `UniqueURLsTheorem`: `filterExistsLocked` is asked under the same `filtersMu`
  under which a list is added or redirected, and `Restored` only goes back to a
  URL that nobody could take in between.

The theorems about files prove what does not hold in general (section 6) from
hypotheses on the requests and on the lists' servers, which exclude the known
races and, as the proofs show, leave no other.

- `ChecksumOfFileTheorem`, if lists are only disabled and not enabled or
  redirected (`SetsOnlyDisable`), or if nothing is refreshed (`NoRefreshes`).
  With both, the race of `lists_redirect_race` is there.  The first case is the
  interesting one: lists are added, removed and disabled while a refresh works
  on copies and its downloads and replacements fail.  `FileInv` says what a copy
  knows: it has the URL of its list; its checksum is that of the file, which is
  ahead of the list from `FinalizeUpdate` until `SyncUpdatedFilters`; and a copy
  that will not be merged (not updated, or all downloads failed) has the
  checksum of its list, or the list has been unloaded.
- `FileFromURLTheorem`, under `SetsOnlyDisable` or without refreshes and pages
  without rules, if it is so at the start.  `SourceInv` also speaks of disabled
  lists with a checksum, which keep their file when they are enabled and the
  download has that checksum, of the copies, and of the list being added.
- `QuietMeansConvergedTheorem`, without refreshes and pages without rules, and if
  rules are set over the API or by the bot and not both.  `EngineInv`: unless
  somebody is about to hand over a task, the task in the channel, or else the
  engine that the loop has compiled, or else the one in use, is that of the
  configuration, and a task is still that of the configuration when it is sent,
  since `filtersMu` is held from `enableFiltersLocked` on.

### Statistics

`StatsProofs`, for any number of hours, queries, restarts, crashes and changes of
the limit:

- `TypeCorrect`.
- `ClearForgetsTheorem`.  `ClearInv`: from the removal of the file until the
  current unit is replaced, the database is absent or, if no flush has come in
  between, empty.  `ForgetInv`: what is stored, loaded or counted later is newer.
- `UnitsWholeTheorem`, `ReportCompleteTheorem` and the action property
  `StoredUnitsKeptTheorem`, if the clock is not set back (`~ClockBack`; when it
  is, they are false, section 6).  `HoursInv`: stored and counted hours are at most that of the
  current unit, and a flush that has read the clock is not behind it, so the
  unit it begins is of an hour without queries.  `WholeInv`: the current unit
  has the queries of its hour, a stored one those of its own.  `ReportInv`: the
  units within the smallest limit so far are all there.

### Query log

`QueryLogProofs`, for every size of the buffer and any number of workers, entries,
hours and restarts:

- `FullIsScheduledTheorem`.  The property is not inductive: a flush that finds
  the buffer empty ends and leaves the flag as it is, so the invariant adds that
  the flag is never set while the buffer is empty.  Flush and clear keep it
  because they empty the buffer and reset the flag together.
- `TypeCorrect`.  That ranks stay within the number of entries made needs a
  count: every entry made was pushed or is in the hands of one worker
  (`CountInv`, by the library's theorems on cardinality).
- `ShutdownWritesTheorem`.  `LockInv`: a batch, an opened file and a clear belong
  to the holder of `fileFlushLock`; `StopInv`: no worker is left when the last
  flush begins.
- `OldestFirstTheorem`.  `OrderInv`: old file, new file, batch and buffer are each
  increasing, and each is before the next.  Rotation keeps it because a file
  that is renamed while a flush writes to it has no newer one beside it
  (`LockInv`).
- `ClearForgetsTheorem` and `SearchFindsTheorem`: what is to be forgotten, or has
  not been found, is in none of the places that the clear or the search has
  passed, but for what was in a file that the clear failed to remove.  Entries only move from memory to the newer file, and with a rotation
  to the older one, which is what the condition on `renamed` is about.

`IsOneLogTheorem`, the refinement of `EntryLog`: the initial states map
to its initial states, and under the invariants above every step maps to a step or
a stutter: `Add` appends, a flush and a rename move entries within the
mapped sequence and change nothing, and the rest forgets.

### Searching the query log

`QLogSearchProofs`, for any number of entries, any division of them between memory
and the two files, lines of any lengths that fit an entry, and any sizes of the
buffers.  Where a proof needs induction it takes the least counterexample, which
exists because inclusion is well founded on finite sets (`LeastNat`); this gives the
order of the lines of a file (`FileLines`) and the line that an offset is in
(`LineOf`).

- `ScopeHoldsTheorem`.  `ScopeInv`: the scope begins and ends at a line or at the
  end of the file, records before it are too early and records from its end on
  too late, and the line that was read last is next to it.  `ProbeFinds` is about
  the buffer of two entries around a probe, which always has the whole line.
- `SeekCorrectTheorem`, for files shorter than 2^(`maxSearchDepth` - 2) bytes
  (`DeepEnough`; `maxSearchDepth` is 100).  Powers of two are a parameter, a function
  that doubles.  When the search ends, the scope says how it must
  (`SoughtAs`): a line is read twice only if the scope is empty and begins there.
  `WithinDepth`: every step halves the scope, and an empty one takes one more.
- `ReadsBackwardsTheorem`.  `InOrder`: the position is at the newline of the record
  that comes after those read; `ReadFinds`: the buffer is read again before it
  could cut that record.  At the start of a file `Opened` and `LogInv` give the
  last record of the older one.
- `PagesDisjointTheorem`.  `PageInv`: `olderThan` is the time of an entry and divides
  what was shown from what comes.  An empty page goes on from the last record
  read, which is older only because a search by the time of an entry is never
  too late for the older file and too early for the newer one (`TooLateForAll`);
  for other times see `SeeksOlder` in section 6.
- `PagesCompleteTheorem`, if no host is ignored (section 6) and under `DeepEnough`.
  `CompleteInv`: everything wanted that is not older than `olderThan` was shown,
  and what was read and is wanted has been found.  An answer is a top part of
  what was found (`CutIsTop`), and a search that ends without a time has read
  all records (`PlaceIsFound` excludes that it failed).

### Web clients

`WebStatusProofs`, for pauses of any length and any number of switches, polls and
attempts: `StatusComesTheorem` (whatever `rmTimeout` clears, a poll of v1 is in
flight or waits for its timer) and `SwitchIsTrueTheorem`.  `SwitchInv` says, for
every request in flight, what its answer will do to the store given what the server holds
now: an answer that is under way foretells the server's state, a countdown is
never ahead of the server's by more than the second that is due, and a change
that is in flight meets no other request.  It cannot be stated of the store
alone, since answers are applied later than they are made.

`WebInstallProofs`, for any set of addresses and any number of turns, keystrokes
and failures: `WizardOnPageTheorem` (`PageInv` says on which page the answer to an
installation finds the user) and `InstalledAsTypedTheorem`, about the file that the
installation writes and the configuration the server then runs with.  `TypedInv`:
what was typed last is in the last debounced check, or else in the last check in
flight, or else in the store; the pages after the form are reached only when it is
in the store.  `MemoryInv`: once installed, the configuration in memory changes only
where the flush of the answer fails.

`WebPagesProofs` is about any pages and thunks that keep the disciplines of
section 3, of which the two clients are an instance, and any number of clicks,
refused requests and lost answers:

- `SpinnersEndTheorem`, from `Bracketed`.  `SpinInv`: for every flag that the user
  waits for and that is up there is a call in flight that answers for it
  (`Awaited`): it owes the flag, lowers it, or leaves it to a thunk that it
  starts.
- `ConvergedTheorem`, from `Bracketed` and `Refreshing`.  `FollowInv` speaks of
  single items of a document: unless the page is excused, the store agrees with
  the server and no call in flight lags behind (`Lags`), or a call is in flight
  that will bring the server's version (`Brings`): a request not yet served, an
  answer that is up to date, a change that was handled and is to be taken over,
  or a thunk that starts one of these.  A switch that is turned over when the
  answer comes needs that its click was about what the store still has
  (`Flips`).  Items, because two changes of one document may be in flight, each
  right about its own item.
- `EditsSurviveTheorem`, from all three.  `LockInv`: of the calls that answer for
  a lock there is one at most, in flight once (`calls` is a bag), and then the
  lock is up.  `DocInv`: for a document d with its lock, the store has the
  server's version and so has every answer (`Current`), or the holder of the
  lock is to bring it (`Pending`), or the page is still hidden behind the loader
  of d (`Opening`); and what a writer of d has sent differs from the server's
  version in its own item only (`Bodied`).  A control that takes the lock finds it
  free, hence no `Pending`, and visible, hence no `Opening`: what it sends is
  the server's version.

`WebLogProofs`, for logs of any length that grow at any time, any filter, any
sizes of pages and scans, and any number of scrolls and changes of the filter:
`LogCoherentTheorem`, `LogWholeTheorem` and `LogGoesOnTheorem`.  `AsksInv`: what a
thunk has gathered by its polling is a piece of the log, seen through its filter,
that ends where it goes on (`Piece`; `PiecesMeet` puts two together).  `FlagsInv`
and `AloneInv`: a flag is up only while a thunk is at work that lowers it, and
unless the list was spoiled no two thunks gather for it at once.  `ListInv`: what
is shown is a piece of the log down to the cursor, and the end flag is set only
if nothing is left below.  That the answers are sorted, which the module says
with a `CHOOSE`, takes the existence of a sorted sequence (`AllOrdered`, by the
least counterexample).

The proofs found three places where the modules were not what they were taken
for: overlapping guards of `CASE` in `GoOnFrom` and `Wish`, of which TLC takes the
first and TLA+ any, and a `UNION` without parentheses before a set difference in
`AllDocs`.  They have been rewritten; what TLC explores is as before.

All of these are theorems of `PageSpec`, `StatusSpec`, `LogSpec` and `InstallSpec`,
the parts that `MCWeb` explores as scenes of their own.

### Assumptions

Those stated as `ASSUME` in the modules, which TLC evaluates in the runs: constants
are of their types; sentinels are distinct from data; the lists at start have
unique URLs, and those that are enabled, and no others, the checksums of their
files, as `New` leaves them (`InitAssumption`); the tables of the two web clients
keep the three disciplines (`MCWeb`).  What a theorem assumes besides is in its
statement.

### Only model-checked

- Liveness (`EngineCatchesUp`, `HandlersReturn`, `FlushCatchesUp`, `FullIsFlushed`,
  `PagesEnd`): fairness is out of the prover's reach.
- `PagesComplete` where the log has entries of ignored hosts: it is false
  (section 6).
- `ChecksumOfFile`, `FileFromURL` and `QuietMeansConverged` for requests that
  neither hypothesis covers, such as refreshes of the lists of one slice.

## 6. Known disagreements

Four have a run and a finding in `PROJECT.json`: `lists_redirect_race`,
`stats_reset_race`, `qlog_pages_memory`, `web_pause`.  The following were met as
well; the passing runs exclude them by their constants or by a condition in the property,
and this is how to see each of them with TLC.

- A list that is disabled and enabled again during a refresh is not loaded
  (`filter.go:390`): `Requests <- OffAndOn`, `Served <- Good`,
  `Periodic = TRUE`, `QuietMeansConverged`.
- Block lists updated by a periodic refresh whose allow lists all fail are not
  loaded (`filter.go:444`): `InitLists <- BlockAndAllow`,
  `Served <- AllowDown`, `Periodic = TRUE`, `QuietMeansConverged`.
- `updatesLoop` installs an engine it compiled before a forced refresh over the
  newer one (`filtering.go:831`): `Requests <- AddThenRefresh`, two bodies,
  `QuietMeansConverged`.
- Rules set over the API while the bot appends one are lost (`http.go:361`):
  `Requests <- RulesOnly`, `BotAdds = {r2}`, `AppendKeepsRules`.
- A list redirected while disabled to a page without rules, then enabled, serves
  the rules of the old URL (`filter.go:527`): `Requests <- RedirectOff`,
  `Served <- BlankPage`, `FileFromURL`.
- After the clock is set back an hour, a flush overwrites the stored unit of
  that hour (`unit.go:183`): `ClockBack = TRUE`, `StoredUnitsKept`.
- A flush that read the hour before a clear and runs after it, when the hour has
  changed, goes back to the old hour, and the unit of the new one is stored
  twice, the second time without its first queries (`stats.go:429`): drop
  `flusher \in {0, hour}` from `ClearSwap`, `UnitsWhole`.
- Two workers that take their times and push in opposite orders leave a file
  that is not sorted by time, which the binary search needs (`qlog.go:247`):
  two workers, `SortedFile`.
- A rotation between the two removals of a clear saves the newer file
  (`querylogfile.go:107`): `ClearForgetsAlways` of `QueryLog`.  A rotation
  between the two opens of a search hides it (`qlogreader.go:38`): drop the
  condition on `renamed` from `SearchFinds`.
- A clear that fails to remove a file logs that and reports success, and the
  file and its entries stay (`qlog.go:163`, `174`): `ClearSucceeds` of `QueryLog`.
- A rotation check that finds no file renames the one a flush creates just then
  over one that is not old enough (`querylogfile.go:182`): `RotationRetains`.
- A line longer than `maxEntrySize` makes the binary search fail
  (`qlogfile.go:382`): drop the bound on `Lengths` from `QLogSearchAssumption` and
  from `Files`, `Lengths = {5}`, `SeekCorrect`.
- A search for a time between the two files that is no entry's starts at the end
  of the newest file (`qlogreader.go:80`), whose records are newer, though
  `search.go:174` says "seekRecord changes the current position to the next
  record older than the provided parameter": `Asked = {5}`, `SeeksOlder`.
- An entry of an ignored host at the end of a scan ends the paging early
  (`search.go:350`): `Kinds = {"match", "ignored"}`, `PagesComplete`.
- A search by time fails at an empty newest file, which a failed write leaves
  (`qlogfile.go:379`): not in the model, which has no empty files.
- The retries of `getDnsStatus`, `getTimerStatus` and `getUpdate` of v2 share
  `statusTimeout`, which any answer clears (`client_v2/src/stores/dashboard.ts:107`),
  so the status that takes the loader away may never be asked for again:
  `Watchers = {"v2"}`, drop `client = "v1"` from `StatusComes`.
- `toggleProtection` writes the opposite of what the store holds after the await
  (`dashboard.ts:262`), which a status or the end of a countdown may have changed
  meanwhile: drop `~raced` from `SwitchIsTrue`.
- The dialogs of v2's access lists send one of three lists to an endpoint that
  replaces all three (`AllowedClientsDialog.tsx:50`, `access.go:243`):
  `Shown = {"access"}`, `MaxClicks = 1`, `AllEditsSurvive`.
- The other pages of `Clobbering` send a whole document from a copy that a second
  operation, or one before everything has arrived, finds out of date (for
  instance `FiltersConfig.tsx:24`, `client/src/actions/index.tsx:715`): any of
  them as `Shown`, `AllEditsSurvive`.
- The services page of v1 stays empty if its first list does not arrive
  (`Services/index.tsx:78`): `Shown = {"services1"}`, with `services.missing`
  left in `Watched`, `SpinnersEnd`.
- Requests for the list of queries that are in flight at once mix their pages,
  and a poll that fails shows what it has as if it were all (`queryLogs.ts:62`,
  `76`, `InfiniteTable.tsx:48`): drop `~spoiled` from `LogCoherent` or `LogWhole`.
- In the wizard of v1 a user who goes back while the installation is in flight
  can be left at step 0, which renders nothing (`actions/install.ts:40`): drop
  `"backed"` from `WizardOnPage`.
- An address typed into the first form of v2's wizard less than the debounce and a round
  trip before "Next" is lost, because the next form replaces the pending check by
  its own (`useInstallSettingsForm.ts:96`): `InstalledInHaste`.
- An installation that fails after the user was added leaves the user, and the
  next attempt panics in `addUser` (`controlinstall.go:540`; `auth.go:219` says
  "Should not happen"), with the configuration in memory changed already
  (`controlinstall.go:529`-`535`): `RefusedLeavesNothing`.
- When the answer to an installation cannot be flushed, the error goes to the
  variable that the deferred function looks at (`controlinstall.go:597`, `519`), and the
  configuration in memory is put back although the file is written and the first
  run is over: `InstalledInMemory`.
- The end of a pause at the server runs in a goroutine that turns protection on
  whatever was set meanwhile (`dnsforward/config.go:868`,
  `home/telegram_control.go:108`): not in the model, where a pause ends in one
  step.

## 7. Not modelled

`PROJECT.json` lists every component with its reason.  In short: the components
of the plan are not modelled yet; network and operating system wrappers
(`aghnet`, `arpdb`, `whois`, `ipset`, `ossvc`, `aghos`, `permcheck`), text
processing (rule lists, migrations, encodings) and `internal/next`, which is not
built into the server, are not going to be.  In the modelled components: closing
and restarting the filter, identifiers drawn from the clock, matching of names
against rules, search criteria and JSON of the query log, and top lists of the
statistics.  Of the web clients: layout, texts, icons, translations, validators
and other pure helpers, charts, the generated types of the API, toasts and the
undo that v2 offers in them (which sends back rules, services or clients as they
were), which dialog is open, and two tabs at once.

Small simplifications within the modules:

- The countdown of v2 lives in its dashboard (`Dashboard.tsx:55`) and ends when the
  user goes to another page; `WebStatus` has one page that stays.
- `EncodeEntries` always succeeds.  At an entry that cannot be marshalled
  `encodeEntries` would return with the buffer and `flushPending` as they were
  (`querylogfile.go:50`-`59`), and no flush would follow; of the fields of
  `logEntry` only a time after the year 9999 could cause that.
- In `EntryLog` a flush that ends with a failing disk may lose any run of entries, not
  only its batch: `IsOneLog` does not say which.
- An error when a search opens a file, and one in reading it, are left out.
- In v1 a click on the page's own link in the menu empties the address, upon which the
  list is asked for once or twice more: `Refresh` stands for these requests.
