------------------------------- MODULE WebLog -------------------------------
(***************************************************************************)
(* The query-log page of both web clients: a list that is filled a page at *)
(* a time while the user scrolls, replaced when the filter changes or the  *)
(* user refreshes, and topped up by short polling when a filter leaves too *)
(* little of a page.  Meanwhile the server goes on logging.                *)
(*                                                                         *)
(* An entry is its time.  The server answers a query with at most Limit    *)
(* entries older than the given one and with the time to go on from, and   *)
(* gives up after Scan entries; 0 stands for the empty string, that is for *)
(* "from the newest" in a query and for "there is no more" in an answer.   *)
(***************************************************************************)
EXTENDS Naturals, Sequences, FiniteSets, SequencesExt

CONSTANTS Viewers,      \* of "v1" and "v2"
          Matching,     \* the entries that the filter "some" lets through
          Limit,        \* QUERY_LOGS_PAGE_LIMIT
          Scan,         \* maxFileScanEntries
          StartLen,     \* entries in the log when the page is opened
          MaxLen,       \* entries in the log in the end
          MaxFilters,   \* how often the user changes the filter or refreshes
          MaxScrolls,   \* how often the user scrolls to the end
          MaxRefused    \* how many requests fail

ASSUME LogAssumption ==
    /\ Viewers \subseteq {"v1", "v2"}
    /\ Matching \subseteq Nat \ {0}
    /\ Limit \in Nat \ {0} /\ Scan \in Nat \ {0}
    /\ StartLen \in Nat /\ MaxLen \in Nat

VARIABLES viewer,
          newest,       \* the server's newest entry
          url,          \* the filter in the address bar
          filter, logs, oldest,   \* the store: what is shown
          entire,       \* isEntireLog
          fetching,      \* processingGetLogs
          adding,       \* processingAdditionalLogs
          asks,         \* the thunks at work
          filters, scrolls, refused,
          spoiled       \* a request has failed, or a page of the log was
                        \* asked for while something else was under way

logVars == <<viewer, newest, url, filter, logs, oldest, entire, fetching, adding,
             asks, filters, scrolls, refused, spoiled>>

-----------------------------------------------------------------------------
(* The server: search of internal/querylog. *)

Through(f) == IF f = "all" THEN 1..newest ELSE Matching

(* The newest of the entries that a query scans. *)
ScanFrom(older) == IF older = 0 THEN newest ELSE older - 1

(* Newer entries stand before older ones, and none stands twice. *)
IsNewestFirst(s) == \A i, j \in DOMAIN s : i < j => s[i] > s[j]

NewestFirst(S) ==
    CHOOSE s \in [1..Cardinality(S) -> S] : Range(s) = S /\ IsNewestFirst(s)

(* The entries found, newest first. *)
Found(older, f) ==
    LET from == ScanFrom(older)
        hits == NewestFirst({e \in Through(f) : e <= from /\ e + Scan > from})
    IN  SubSeq(hits, 1, IF Len(hits) < Limit THEN Len(hits) ELSE Limit)

(* The time to go on from: that of the last entry found or, if none was, of
   the last one scanned; none if the log ends before Scan entries. *)
GoOnFrom(older, f) ==
    LET from == ScanFrom(older)
        found == Found(older, f)
    IN  CASE found # <<>> -> Last(found)
          [] found = <<>> /\ from >= Scan -> from + 1 - Scan
          [] OTHER -> 0

-----------------------------------------------------------------------------
(* A thunk with its request: polls, whether it may ask again by itself;
   total and back, what it has gathered so far and where that ends. *)
LogQuery(kind, f, older, polls) ==
    [kind |-> kind, f |-> f, older |-> older, start |-> older, polls |-> polls,
     total |-> <<>>, back |-> 0, phase |-> "sent", page |-> <<>>, next |-> 0,
     again |-> FALSE]

setFilteredLogs(f) == LogQuery("filter", f, 0, TRUE)

(* getAdditionalLogs of v2 asks once.  getLogs of v1 polls if the search is
   the one that the table was mounted with: its listener is never renewed. *)
getLogs == LogQuery("more", filter, oldest, viewer = "v1" /\ filter = "all")

(* Two thunks at work of which one adds to the list. *)
Collide(as) == Len(as) > 1 /\ \E i \in DOMAIN as : as[i].kind = "more"

(* A search that v1 does not poll for may end too early. *)
StaleQuery(a) == viewer = "v1" /\ a.kind = "more" /\ ~a.polls

Begin(a) ==
    /\ asks' = Append(asks, a)
    /\ spoiled' = (spoiled \/ Collide(asks') \/ StaleQuery(a))

(* The page is mounted without a filter.  One request goes out, in v1 too: the
   form below it has put its status into the address before the page's own
   effects run, so that of the empty address does nothing. *)
LogInit ==
    /\ viewer \in Viewers
    /\ newest = StartLen
    /\ url = "all" /\ filter = "all"
    /\ logs = <<>> /\ oldest = 0 /\ entire = FALSE
    /\ fetching = TRUE /\ adding = FALSE
    /\ asks = <<setFilteredLogs("all")>>
    /\ filters = 0 /\ scrolls = 0 /\ refused = 0
    /\ spoiled = FALSE

(* Another query is logged. *)
LogGrows ==
    /\ newest < MaxLen
    /\ newest' = newest + 1
    /\ UNCHANGED <<viewer, url, filter, logs, oldest, entire, fetching, adding, asks,
                   filters, scrolls, refused, spoiled>>

(* A filter is chosen or a search typed: the address changes, and that, if
   it does change, makes the page ask for the log. *)
ChangeFilter ==
    /\ filters < MaxFilters
    /\ filters' = filters + 1
    /\ url' = (IF url = "all" THEN "some" ELSE "all")
    /\ filter' = url'
    /\ fetching' = TRUE
    /\ Begin(setFilteredLogs(url'))
    /\ UNCHANGED <<viewer, newest, logs, oldest, entire, adding, scrolls, refused>>

(* v2 disables the refresh button while a request is in flight; the search
   and the filters next to it stay enabled in both clients. *)
CanRefresh == viewer = "v2" => ~fetching /\ ~adding

Refresh ==
    /\ CanRefresh
    /\ filters < MaxFilters
    /\ filters' = filters + 1
    /\ fetching' = TRUE
    /\ Begin(setFilteredLogs(filter))
    /\ UNCHANGED <<viewer, newest, url, filter, logs, oldest, entire, adding, scrolls,
                   refused>>

(* The end of the list can come into view: there is a list, and below it the
   mark that asks for more. *)
CanScroll ==
    /\ logs # <<>> /\ ~entire
    /\ ~fetching
    /\ viewer = "v2" => ~adding

LoadMore ==
    /\ CanScroll
    /\ scrolls < MaxScrolls
    /\ scrolls' = scrolls + 1
    /\ IF viewer = "v1" THEN fetching' = TRUE /\ UNCHANGED adding
                        ELSE adding' = TRUE /\ UNCHANGED fetching
    /\ Begin(getLogs)
    /\ UNCHANGED <<viewer, newest, url, filter, logs, oldest, entire, filters,
                   refused>>

(* v1: after a client has been blocked from a row, the list is put into the
   store again, without the time it was asked for, as if it had just come. *)
updateLogs ==
    /\ viewer = "v1" /\ logs # <<>>
    /\ entire' = FALSE
    /\ fetching' = FALSE
    /\ entire \/ fetching
    /\ UNCHANGED <<viewer, newest, url, filter, logs, oldest, adding, asks, filters,
                   scrolls, refused, spoiled>>

-----------------------------------------------------------------------------
AnswerQuery(i) ==
    /\ asks[i].phase = "sent"
    /\ asks' = [asks EXCEPT ![i] = [@ EXCEPT !.phase = "ok",
                                             !.page = Found(asks[i].older, asks[i].f),
                                             !.next = GoOnFrom(asks[i].older, asks[i].f)]]
    /\ UNCHANGED <<viewer, newest, url, filter, logs, oldest, entire, fetching, adding,
                   filters, scrolls, refused, spoiled>>

(* Mutant: the first page is shown, however short. *)
NeverPoll(a, total) == FALSE

(* shortPollQueryLogs: is there reason to ask again?  v1 goes on as long as
   a page is short, v2 until the list is long enough. *)
PollNeeded(a, total) ==
    /\ a.polls /\ a.next # 0
    /\ Len(total) < Limit \/ (viewer = "v1" /\ Len(a.page) < Limit)

PollAgain(i) ==
    LET a == asks[i]
        total == a.total \o a.page
    IN  /\ a.phase = "ok"
        /\ PollNeeded(a, total)
        /\ asks' = [asks EXCEPT ![i] = [a EXCEPT !.phase = "sent", !.older = a.next,
                                                 !.total = total, !.back = a.next,
                                                 !.again = TRUE]]
        /\ IF viewer = "v1" THEN fetching' = TRUE /\ adding' = TRUE
                            ELSE UNCHANGED <<fetching, adding>>
        /\ UNCHANGED <<viewer, newest, url, filter, logs, oldest, entire, filters,
                       scrolls, refused, spoiled>>

(* Mutant: the list is not replaced when the filter changes. *)
AlwaysAdd(a, total) == logs \o total

(* What the list becomes.  v1 adds to it if the query was for older entries
   than some other, v2 if it was a scroll. *)
NewLogs(a, total) ==
    IF a.kind = "more" /\ (viewer = "v1" => a.start # 0) THEN logs \o total ELSE total

(* v1 takes an empty page for the end, v2 an answer without a time. *)
IsEnd(a, total) == IF viewer = "v1" THEN total = <<>> ELSE a.next = 0

(* Mutant: getAdditionalLogs leaves its flag up. *)
LoweredByFilter(a) ==
    /\ fetching' = (fetching /\ viewer = "v2" /\ a.kind # "filter")
    /\ UNCHANGED adding

(* The flags that come down: in v1 both, in v2 the thunk's own. *)
Lowered(a) ==
    /\ fetching' = (fetching /\ viewer = "v2" /\ a.kind # "filter")
    /\ adding' = (adding /\ viewer = "v2" /\ a.kind # "more")

(* The success handler. *)
Deliver(i, total) ==
    LET a == asks[i]
    IN  /\ logs' = NewLogs(a, total)
        /\ oldest' = IF viewer = "v1" /\ a.next = 0 THEN a.back ELSE a.next
        /\ entire' = IsEnd(a, total)
        /\ filter' = IF a.kind = "filter" THEN a.f ELSE filter
        /\ Lowered(a)
        /\ asks' = RemoveAt(asks, i)
        /\ UNCHANGED <<viewer, newest, url, filters, scrolls>>

LogArrives(i) ==
    LET total == asks[i].total \o asks[i].page
    IN  /\ asks[i].phase = "ok"
        /\ ~PollNeeded(asks[i], total)
        /\ Deliver(i, total)
        /\ UNCHANGED <<refused, spoiled>>

(* A request fails.  v1 catches that inside the polling and shows what it has
   gathered; otherwise the list stays as it is. *)
LogFails(i) ==
    LET a == asks[i]
    IN  /\ a.phase = "sent" /\ refused < MaxRefused
        /\ refused' = refused + 1
        /\ spoiled' = TRUE
        /\ IF viewer = "v1" /\ a.again THEN Deliver(i, a.total)
           ELSE /\ Lowered(a)
                /\ asks' = RemoveAt(asks, i)
                /\ UNCHANGED <<viewer, newest, url, filter, logs, oldest, entire,
                               filters, scrolls>>

LogNext ==
    \/ LogGrows \/ ChangeFilter \/ Refresh \/ LoadMore \/ updateLogs
    \/ \E i \in DOMAIN asks :
         AnswerQuery(i) \/ PollAgain(i) \/ LogArrives(i) \/ LogFails(i)

LogSpec == LogInit /\ [][LogNext]_logVars

-----------------------------------------------------------------------------
(* The list that shortPollQueryLogs, setFilteredLogs and getLogs build is a
   piece of the log without gaps, duplicates or entries of another filter:
   exactly the entries that the filter shown lets through, from its first to
   its last, newest first, whatever is logged meanwhile and in whatever order
   the answers to two changes of the filter come. *)
LogCoherent ==
    ~spoiled /\ ~(\E i \in DOMAIN asks : asks[i].kind = "filter") /\ logs # <<>> =>
       /\ IsNewestFirst(logs)
       /\ Range(logs) = {e \in Through(filter) : e <= logs[1] /\ e >= Last(logs)}

(* When the page says that there is no more (isEntireLog), no older entry
   that the filter lets through is left on the server. *)
LogWhole ==
    ~spoiled /\ entire /\ asks = <<>> =>
       \A e \in Through(filter) :
          e <= StartLen /\ (logs # <<>> => e <= Last(logs)) => e \in Range(logs)

(* The user never gets stuck half way: when nothing is under way, the list is
   whole or scrolling to its end asks for more. *)
LogGoesOn == asks = <<>> /\ ~spoiled => entire \/ CanScroll
=============================================================================
