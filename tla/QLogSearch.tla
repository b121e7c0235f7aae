----------------------------- MODULE QLogSearch -----------------------------
(***************************************************************************)
(* A search of the query log, page by page: the client asks for the        *)
(* entries older than the oldest one of the previous answer until the      *)
(* answer has no oldest time (src/client/src/actions/queryLogs.ts), and    *)
(* search, searchFiles and qLogReader of internal/querylog answer, on top  *)
(* of QLogFile.                                                            *)
(*                                                                         *)
(* Entries are numbered in the order of time.  Those up to inOld are in    *)
(* querylog.json.1, those up to inLog in querylog.json, and the others in  *)
(* memory.  They do not move while the client asks: QueryLog is about that.*)
(* A file with no entries does not exist.                                  *)
(***************************************************************************)
EXTENDS QLogFile

CONSTANTS
    Size,           \* the number of entries
    MaxInMemory,    \* bound on the entries in memory
    Lengths,        \* possible lengths of lines, in bytes without the newline
    Kinds,          \* the kinds of entries that occur: "match", "other" (the
                    \* search criteria do not match) and "ignored" (of a host
                    \* that is ignored now)
    Limits,         \* possible values of params.limit
    Scans,          \* possible values of params.maxFileScanEntries, 0: none
    Asked           \* possible values of the first older_than, 0: none

ASSUME QLogSearchAssumption ==
    /\ Size \in Nat
    /\ MaxInMemory \in Nat
    /\ Lengths \subseteq 1..(MaxEntrySize - 1)
    /\ Kinds \subseteq {"match", "other", "ignored"}
    /\ Limits \subseteq Nat \ {0}
    /\ Scans \subseteq Nat
    /\ Asked \subseteq Nat

VARIABLES
    kind,           \* the entries
    inOld, inLog,   \* where the older file and the newer file end
    qFiles,         \* the files that exist, the oldest first: the number of
                    \* the record before each and its lines
    limit, maxScan, \* the search parameters
    asked,          \* the older_than of the first request
    olderThan,      \* params.olderThan, 0 if it is zero
    current,        \* r.currentFile, from 1
    memory,         \* what searchMemory has found
    fileEntries,    \* what readEntries has found
    total,          \* the records readEntries has processed
    oldest,         \* the oldest time readEntries has processed, or 0
    pages           \* the entries of each answer

logVars    == <<kind, inOld, inLog, qFiles, limit, maxScan, asked>>
searchVars == <<memory, fileEntries, total, oldest>>

\* at: "ask", "seek", "sought", "skip", "read", "answer" or "end".
vars == <<fileVars, timestamp, at, reads, logVars, searchVars, olderThan,
          current, pages>>

Entries == 1..Size

LogFiles == [n \in 0..Size |-> Files(n, Lengths)]

\* newQLogReader skips a file that does not exist.
QFile(before, file) == IF file = <<>> THEN <<>>
                       ELSE <<[before |-> before, file |-> file]>>

QFiles(old, log) == QFile(0, old) \o QFile(inOld, log)

Init ==
    /\ kind \in [Entries -> Kinds]
    /\ inLog \in {k \in 0..Size : Size - k <= MaxInMemory}
    /\ inOld \in 0..inLog
    /\ \E old \in LogFiles[inOld], log \in LogFiles[inLog - inOld] :
         qFiles = QFiles(old, log)
    /\ limit \in Limits
    /\ maxScan \in Scans
    /\ asked \in Asked
    /\ olderThan = asked
    /\ current = 0
    /\ memory = {} /\ fileEntries = {} /\ total = 0 /\ oldest = 0
    /\ pages = {}
    /\ at = "ask"
    /\ newlines = <<>> /\ base = 0 /\ timestamp = 0
    /\ st = SearchFrom(0) /\ result = "none"
    /\ position = 0 /\ bufferStart = -1
    /\ reads = <<>>

-----------------------------------------------------------------------------
Newest == Len(qFiles)

SeekStartOf(i)   == SeekStart(qFiles[i].file, qFiles[i].before) /\ current' = i
BeginSeekTSOf(i) == BeginSeekTS(qFiles[i].file, qFiles[i].before) /\ current' = i

\* searchParams.match.
IsOlder(e) == olderThan = 0 \/ Timestamp(e) < olderThan
Matches(e) == kind[e] = "match" /\ IsOlder(e)

\* An entry of an ignored host is matched in memory, where it is not looked
\* at whether its host is ignored, and not in a file.
MatchesNotNewer(e) == kind[e] # "other" /\ (olderThan = 0 \/ Timestamp(e) <= olderThan)

MatchesInMemory(e) == kind[e] # "other" /\ IsOlder(e)

\* search, its first part: the memory is searched, and a reader is opened and
\* told where to start (setQLogReader, seekRecord).
SearchMemory ==
    /\ at = "ask"
    /\ memory' = {e \in (inLog + 1)..Size : MatchesInMemory(e)}
    /\ fileEntries' = {} /\ total' = 0 /\ oldest' = 0
    /\ timestamp' = olderThan
    /\ result' = "none"
    /\ reads' = <<>>
    /\ \/ /\ Newest = 0
          /\ at' = "answer"
          /\ UNCHANGED <<newlines, base, st, position, bufferStart, current>>
       \/ /\ Newest # 0 /\ olderThan = 0
          /\ SeekStartOf(Newest)
          /\ at' = "read"
       \/ /\ Newest # 0 /\ olderThan # 0
          /\ BeginSeekTSOf(Newest)
          /\ at' = "seek"
    /\ UNCHANGED <<logVars, olderThan, pages>>

SeekStep == SeekTSStep /\ UNCHANGED <<logVars, searchVars, olderThan, current, pages>>

\* What qLogReader.seekTS makes of the result for one file.  If the timestamp
\* is too early for it, the older one is next; if it is too late, reading
\* starts at the end of the newest one; else there is nothing to read.
AfterSeekNoOlder ==
    \/ /\ result = "found"
       /\ at' = "skip"
       /\ UNCHANGED <<newlines, base, st, position, bufferStart, current>>
    \/ /\ result = "TooLate"
       /\ SeekStartOf(Newest)
       /\ at' = "skip"
    \/ /\ result \notin {"found", "TooLate"}
       /\ at' = "answer"
       /\ UNCHANGED <<newlines, base, st, position, bufferStart, current>>

AfterSeek ==
    \/ /\ result = "found"
       /\ at' = "skip"
       /\ UNCHANGED <<newlines, base, st, position, bufferStart, current>>
    \/ /\ result = "TooEarly" /\ current > 1
       /\ BeginSeekTSOf(current - 1)
       /\ at' = "seek"
    \/ /\ result = "TooLate"
       /\ SeekStartOf(Newest)
       /\ at' = "skip"
    \/ /\ result \notin {"found", "TooLate"}
       /\ result = "TooEarly" => current = 1
       /\ at' = "answer"
       /\ UNCHANGED <<newlines, base, st, position, bufferStart, current>>

SeekTS ==
    /\ at = "sought"
    /\ AfterSeek
    /\ UNCHANGED <<timestamp, result, reads, logVars, searchVars, olderThan,
                   pages>>

\* The end of seekRecord: one record is read past, the one found or, if the
\* timestamp was too late, the newest one.
SkipRecord ==
    /\ at = "skip"
    /\ ReadNext
    /\ at' = "read"
    /\ UNCHANGED <<timestamp, result, logVars, searchVars, olderThan, current,
                   pages>>

\* readEntries stops after maxFileScanEntries records, with enough entries,
\* or at the end of the files, when there is nothing older.
ScanLimit == maxScan # 0 /\ total >= maxScan

MayRead == at = "read" /\ ~ScanLimit /\ Cardinality(fileEntries) < limit

\* qLogReader.ReadNext goes on with the end of the older file.
NextFile ==
    /\ MayRead
    /\ position = 0 /\ current > 1
    /\ SeekStartOf(current - 1)
    /\ UNCHANGED <<timestamp, at, result, reads, logVars, searchVars,
                   olderThan, pages>>

\* The time readNextEntry reports for a record; an ignored one has none.
ProcessedTime(e) == IF kind[e] = "ignored" THEN 0 ELSE Timestamp(e)

ReadNextEntry ==
    /\ MayRead
    /\ ReadNext
    /\ total' = total + 1
    /\ LET e == reads'[Len(reads')]
       IN IF e = 0
          THEN oldest' = 0 /\ UNCHANGED fileEntries
          ELSE /\ oldest' = ProcessedTime(e)
               /\ fileEntries' = fileEntries \cup
                    (IF Matches(e) THEN {e} ELSE {})
    /\ UNCHANGED <<timestamp, at, result, logVars, olderThan, current, memory,
                   pages>>

EndOfFiles ==
    /\ MayRead
    /\ position = 0 /\ current = 1
    /\ oldest' = 0
    /\ at' = "answer"
    /\ UNCHANGED <<fileVars, timestamp, reads, logVars, olderThan, current,
                   memory, fileEntries, total, pages>>

StopReading ==
    /\ at = "read" /\ ~MayRead
    /\ at' = "answer"
    /\ UNCHANGED <<fileVars, timestamp, reads, logVars, searchVars, olderThan,
                   current, pages>>

\* The first entries of the answer, which come from memory and then from the
\* files, both from the newest.
Cut(found) == {e \in found : Cardinality({x \in found : x > e}) < limit}

\* search, its end, and finalizeSearchResults.  The client asks for the next
\* page unless there is no oldest time.
SameTimeIfEmpty(page) == IF page = {} THEN olderThan ELSE Timestamp(Min(page))

OldestTime(page) == IF page = {} THEN oldest ELSE Timestamp(Min(page))

Answer ==
    /\ at = "answer"
    /\ LET page == Cut(memory \cup fileEntries)
       IN /\ pages' = pages \cup {page}
          /\ olderThan' = OldestTime(page)
          /\ at' = IF OldestTime(page) = 0 THEN "end" ELSE "ask"
    /\ UNCHANGED <<fileVars, timestamp, reads, logVars, searchVars, current>>

\* The client has seen the whole log.
End == at = "end" /\ UNCHANGED vars

Next ==
    \/ SearchMemory \/ SeekStep \/ SeekTS \/ SkipRecord
    \/ NextFile \/ ReadNextEntry \/ EndOfFiles \/ StopReading
    \/ Answer \/ End

Spec == Init /\ [][Next]_vars /\ WF_vars(Next)

-----------------------------------------------------------------------------
(* Properties *)

\* The record that is to be read first: the one found, or the newest.
FirstRead == IF result = "found" THEN timestamp \div 2 ELSE inLog

\* Reading goes backwards from there, through both files: each line that
\* ReadNext returns is a whole record, none is left out and none comes twice.
ReadsBackwards ==
    \A i \in 1..Len(reads) : reads[i] = FirstRead + 1 - i /\ reads[i] > 0

\* All the results: entries that match, but for those of ignored hosts in the
\* files, from the time that was asked for.
Results == {e \in Entries : /\ \/ kind[e] = "match"
                               \/ kind[e] = "ignored" /\ e > inLog
                            /\ asked = 0 \/ Timestamp(e) < asked}

\* The first request named no time, or that of an entry.
AsksForEntry == asked = 0 \/ \E e \in Entries : Timestamp(e) = asked

\* The pages the client gets together have all the results.
PagesCompleteAlways == at = "end" /\ AsksForEntry => Results \subseteq UNION pages

\* The pages the client gets together have all the results, but for the newest
\* record of the files if there are entries in memory as well.
PagesComplete ==
    at = "end" /\ AsksForEntry =>
      Results \ (IF inLog < Size THEN {inLog} ELSE {}) \subseteq UNION pages

\* Every entry of a page is a result, and no entry is on two pages.
PagesDisjoint ==
    AsksForEntry =>
      /\ UNION pages \subseteq Results
      /\ \A p, q \in pages : p # q => p \cap q = {}

\* seekRecord "changes the current position to the next record older than the
\* provided parameter" (search.go): the record that is read first is older
\* than what was asked for.
SeeksOlder ==
    at = "read" /\ total = 0 /\ olderThan # 0 =>
      \A k \in 1..Len(newlines) :
        newlines[k] = position => Timestamp(base + k) < olderThan

\* The client comes to the end of the log.
PagesEnd == <>(at = "end")
=============================================================================
