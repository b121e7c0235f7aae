------------------------------ MODULE QLogFile ------------------------------
(***************************************************************************)
(* qLogFile of internal/querylog/qlogfile.go: a query log file that is     *)
(* read backwards, line by line, from its end or from the record with a    *)
(* given timestamp, which a binary search over byte offsets finds.         *)
(*                                                                         *)
(* A file is the sequence of the offsets of its newlines; every line ends  *)
(* with one.  Its records are numbered from base + 1, in the order of      *)
(* time, and record e has the timestamp 2e, so an odd timestamp is that of *)
(* no record.  The two buffers the code reads into keep their sizes,       *)
(* maxEntrySize and bufferSize, as constants: a scan for a newline stops   *)
(* at the edge of the buffer as it does in the code.                       *)
(*                                                                         *)
(* The state is that of the file in use; QLogSearch, which has the reader  *)
(* of the two files and the search, opens it and drives it.                *)
(***************************************************************************)
EXTENDS Integers, SequencesExt

CONSTANTS
    MaxEntrySize,   \* maxEntrySize, in bytes
    BufferSize,     \* bufferSize, in bytes
    MaxSearchDepth  \* maxSearchDepth

ASSUME QLogFileAssumption ==
    /\ MaxEntrySize \in Nat \ {0}
    /\ BufferSize \in Nat \ {0}
    /\ MaxEntrySize <= BufferSize
    /\ MaxSearchDepth \in Nat

VARIABLES
    newlines,       \* the file
    base,           \* the number of the record before its first
    timestamp,      \* the timestamp that is searched for
    at,             \* where the search is: "seek" while seekTS runs, "sought"
                    \* when it has ended
    st,             \* tsSearchState
    result,         \* how seekTS has ended: "none", "found" or an error
    position,       \* q.position
    bufferStart,    \* q.bufferStart, -1 if q.buffer is nil
    reads           \* the records ReadNext has returned, 0 for a line that is
                    \* not a whole one

fileVars == <<newlines, base, st, result, position, bufferStart>>

\* Where the k-th line of a file starts, and where the file ends.
LineStart(file, k) == IF k = 1 THEN 0 ELSE file[k - 1] + 1
EndOf(file)        == IF file = <<>> THEN 0 ELSE file[Len(file)] + 1

\* The files of n lines with lengths from a set; every line fits an entry.
Files(n, lengths) ==
    {file \in [1..n -> 0..(n * MaxEntrySize)] :
        \A k \in 1..n : file[k] - LineStart(file, k) \in lengths}

StartOf(k)   == LineStart(newlines, k)
FileSize     == EndOf(newlines)
Offsets      == {newlines[k] : k \in 1..Len(newlines)}
Timestamp(e) == 2 * e

\* The lines that start at an offset, of which there is at most one: their
\* timestamp, which is near the start, can be read.
LinesAt(start) == {k \in 1..Len(newlines) : StartOf(k) = start}

\* The record between two offsets, if it is a whole line.
RecordIn(start, end) ==
    Max({base + k : k \in {l \in LinesAt(start) : newlines[l] = end}} \cup {0})

\* Where the line that includes or ends at pos starts, as far as a buffer that
\* begins at the offset from shows.
ScanLeft(pos, from) == Max({n + 1 : n \in {m \in Offsets : from <= m /\ m < pos}}
                             \cup {from})

\* readProbeLine: start and end of the line that includes pos, read through a
\* buffer of two entries around it.
ReadProbeLine(pos) ==
    LET from == IF pos > MaxEntrySize THEN pos - MaxEntrySize ELSE 0
        to   == Min({FileSize, from + 2 * MaxEntrySize})
        ends == {n \in Offsets : pos <= n /\ n < to}
    IN [idx  |-> ScanLeft(pos, from),
        end  |-> IF ends = {} THEN to ELSE Min(ends),
        next |-> IF ends = {} THEN to ELSE Min(ends) + 1]

SearchFrom(size) == [start |-> 0, end |-> size, probe |-> size \div 2,
                     last |-> -1, depth |-> 0]

-----------------------------------------------------------------------------
\* SeekStart of a file: the position of the last newline, or 0.
SeekEnd(size) == IF size = 0 THEN 0 ELSE size - 1

SeekStart(file, before) ==
    /\ newlines' = file
    /\ base' = before
    /\ bufferStart' = -1
    /\ position' = SeekEnd(EndOf(file))
    /\ UNCHANGED st

\* seekTS of a file, up to the first probe.
BeginSeekTS(file, before) ==
    /\ newlines' = file
    /\ base' = before
    /\ bufferStart' = -1
    /\ st' = SearchFrom(EndOf(file))
    /\ UNCHANGED position

EndSeekTS(res) ==
    /\ result' = res
    /\ at' = "sought"

\* validateQLogLineIdx.
LineIdxError(idx) ==
    CASE idx = st.last /\ idx = 0 -> "TooEarly"
      [] idx = st.last /\ idx # 0 -> "NotFound"
      [] idx = FileSize /\ idx # st.last -> "TooLate"
      [] OTHER -> "none"

\* The next scope of the search: what is to the left or to the right of the
\* line that was read.
LeftOfProbe(p)   == [st EXCEPT !.end = st.probe]
LeftOfNewline(p) == [st EXCEPT !.end = p.idx - 1]

LeftOf(p)  == [st EXCEPT !.end = p.idx]
RightOf(p) == [st EXCEPT !.start = p.next]

\* seekTSStep, in a file that is not empty.  A probe that does not begin at a
\* line has no timestamp.
SeekTSStep ==
    /\ at = "seek"
    /\ LET p == ReadProbeLine(st.probe)
           error == IF LineIdxError(p.idx) = "none" /\ LinesAt(p.idx) = {}
                    THEN "BadLine" ELSE LineIdxError(p.idx)
           ts == Timestamp(base + CHOOSE k \in LinesAt(p.idx) : TRUE)
           scope == IF ts > timestamp THEN LeftOf(p) ELSE RightOf(p)
           probe == scope.start + (scope.end - scope.start) \div 2
       IN \/ /\ error # "none"
             /\ EndSeekTS(error)
             /\ UNCHANGED <<st, position>>
          \/ /\ error = "none" /\ ts = timestamp
             /\ EndSeekTS("found")
             /\ position' = p.end
             /\ UNCHANGED st
          \/ /\ error = "none" /\ ts # timestamp
             /\ st' = [scope EXCEPT !.probe = probe, !.last = p.idx,
                                    !.depth = @ + 1]
             /\ IF st'.depth >= MaxSearchDepth
                THEN EndSeekTS("TooDeep")
                ELSE UNCHANGED <<result, at>>
             /\ UNCHANGED position
    /\ UNCHANGED <<newlines, base, timestamp, bufferStart, reads>>

\* readNextLine and initBuffer: the buffer is read again when the line may
\* begin before it.
ReusedBuffer(pos) ==
    IF bufferStart = -1
    THEN IF pos > BufferSize THEN pos - BufferSize ELSE 0
    ELSE bufferStart

BufferFor(pos) ==
    IF bufferStart = -1 \/ (pos - bufferStart < MaxEntrySize /\ bufferStart # 0)
    THEN IF pos > BufferSize THEN pos - BufferSize ELSE 0
    ELSE bufferStart

\* Where the line before the one that starts at idx ends.
PrevPosition(idx) == IF idx = 0 THEN 0 ELSE idx - 1

\* ReadNext, before the end of the file: the line that ends at the position,
\* and the position of the newline before it.
ReadNext ==
    LET idx == ScanLeft(position, BufferFor(position))
    IN /\ position # 0
       /\ bufferStart' = BufferFor(position)
       /\ reads' = Append(reads, RecordIn(idx, position))
       /\ position' = PrevPosition(idx)
       /\ UNCHANGED <<newlines, base, st>>

-----------------------------------------------------------------------------
(* Properties *)

\* What seekTS promises: the record with the timestamp, or on which side of
\* all records it is, or that there is none.
SeekResult ==
    LET records == {base + k : k \in 1..Len(newlines)}
    IN CASE timestamp < Timestamp(Min(records)) -> "TooEarly"
         [] timestamp > Timestamp(Max(records)) -> "TooLate"
         [] \E e \in records : Timestamp(e) = timestamp -> "found"
         [] OTHER -> "NotFound"

\* The binary search over bytes ends the way a search over records would.
SeekCorrect == at = "sought" => result = SeekResult

\* The scope of the search always includes the record, if the file has it:
\* narrowing never cuts it off.
ScopeHolds ==
    \A k \in 1..Len(newlines) :
       at = "seek" /\ Timestamp(base + k) = timestamp =>
         st.start <= StartOf(k) /\ newlines[k] < st.end
=============================================================================
