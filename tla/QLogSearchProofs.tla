-------------------------- MODULE QLogSearchProofs --------------------------
(***************************************************************************)
(* Proofs about QLogFile and QLogSearch, for files of any size with lines  *)
(* of any lengths that fit an entry: the binary search over bytes ends as  *)
(* a search over records would, reading goes backwards record by record,   *)
(* and the pages a client gets have every result, and none twice.          *)
(***************************************************************************)
EXTENDS QLogSearch, SequenceTheorems, FiniteSetTheorems, TLAPS

-----------------------------------------------------------------------------
(* Least and greatest numbers.                                             *)

\* A set of numbers that is not empty has a least one: the shortest of the
\* intervals that end in the set is minimal in the order of finite sets.
LEMMA LeastNat ==
    ASSUME NEW A, A \subseteq Nat, A # {}
    PROVE  \E x \in A : \A y \in A : x <= y
<1> DEFINE R == StrictSubsetOrdering(Nat)
           F == FiniteSubsetsOf(Nat)
           T == {0..x : x \in A}
<1>1. IsWellFoundedOn(R, F)
  BY FS_StrictSubsetOrderingWellFounded
<1>2. T \subseteq F /\ T # {}
  <2>1. \A x \in Nat : IsFiniteSet(0..x) /\ 0..x \in SUBSET Nat
    BY FS_Interval
  <2> QED
    BY <2>1 DEF FiniteSubsetsOf
<1>3. \E t \in T : \A u \in T : ~(<<u, t>> \in R)
  <2> HIDE DEF R, F, T
  <2> QED
    BY <1>1, <1>2, WFMin
<1>4. PICK x \in A : \A u \in T : ~(<<u, 0..x>> \in R)
  BY <1>3
<1>5. ASSUME NEW y \in A, y < x PROVE FALSE
  <2>1. 0..y \subseteq 0..x /\ 0..y # 0..x /\ 0..y \in SUBSET Nat /\ 0..x \in SUBSET Nat
    BY <1>5
  <2>2. <<0..y, 0..x>> \in R
    BY <2>1 DEF StrictSubsetOrdering
  <2> QED
    BY <1>4, <2>2
<1> QED
  BY <1>5

\* A bounded one has a greatest.
LEMMA GreatestNat ==
    ASSUME NEW A, NEW b \in Nat, A \subseteq 0..b, A # {}
    PROVE  \E x \in A : \A y \in A : y <= x
<1> DEFINE B == {c \in Nat : \E x \in A : c + x = b}
<1>1. B # {}
  <2>1. PICK x \in A : TRUE
    OBVIOUS
  <2>2. b - x \in Nat /\ (b - x) + x = b
    BY <2>1
  <2> QED
    BY <2>1, <2>2
<1>2. PICK c \in B : \A d \in B : c <= d
  <2>1. B \subseteq Nat
    OBVIOUS
  <2> HIDE DEF B
  <2> QED
    BY <1>1, <2>1, LeastNat
<1>3. PICK x \in A : c + x = b
  OBVIOUS
<1>4. ASSUME NEW y \in A PROVE y <= x
  <2>1. b - y \in Nat /\ (b - y) + y = b /\ x \in Nat /\ y \in Nat /\ c \in Nat
    BY <1>3
  <2>2. b - y \in B
    BY <2>1
  <2>3. c <= b - y
    BY <1>2, <2>2
  <2> HIDE DEF B
  <2> QED
    BY <1>3, <2>1, <2>3
<1> QED
  BY <1>4

\* The order of numbers is transitive.
LEMMA Transitive ==
    ASSUME NEW a \in Nat, NEW b \in Nat, NEW c \in Nat, a < b, b < c PROVE a < c
  OBVIOUS

\* What grows from each place to the next grows.
LEMMA Grows ==
    ASSUME NEW n \in Nat, NEW f \in [1..n -> Nat],
           \A k \in 1..n : k > 1 => f[k - 1] < f[k]
    PROVE  \A k, l \in 1..n : k < l => f[k] < f[l]
<1> SUFFICES ASSUME NEW k \in 1..n, NEW l \in 1..n, k < l, ~(f[k] < f[l]) PROVE FALSE
  OBVIOUS
<1> DEFINE B == {m \in 1..n : k < m /\ ~(f[k] < f[m])}
<1>1. B \subseteq Nat /\ l \in B
  OBVIOUS
<1>2. PICK m \in B : \A y \in B : m <= y
  <2> HIDE DEF B
  <2> QED
    BY <1>1, LeastNat
<1>3. m \in 1..n /\ k < m /\ ~(f[k] < f[m])
  BY DEF B
<1>4. m - 1 \in 1..n /\ m - 1 \notin B
  <2>1. m - 1 \in 1..n /\ ~(m <= m - 1)
    BY <1>3
  <2> HIDE DEF B
  <2> QED
    BY <1>2, <2>1
<1>5. f[m - 1] < f[m] /\ f[m - 1] \in Nat /\ f[m] \in Nat /\ f[k] \in Nat
  BY <1>3, <1>4
<1>6. m - 1 = k \/ f[k] < f[m - 1]
  BY <1>3, <1>4
<1> HIDE DEF B
<1>7. f[k] < f[m - 1] => f[k] < f[m]
  BY <1>5, Transitive
<1>8. m - 1 = k => f[k] < f[m]
  BY <1>5
<1> QED
  BY <1>3, <1>6, <1>7, <1>8

\* Max and Min are what they are called.
LEMMA MaxIs ==
    ASSUME NEW S, S \subseteq Int, NEW x \in S, \A y \in S : y <= x
    PROVE  Max(S) = x
<1>1. x \in S /\ \A y \in S : x >= y
  OBVIOUS
<1>2. Max(S) \in S /\ \A y \in S : Max(S) >= y
  BY <1>1, Zenon DEF Max
<1>3. x \in Int /\ Max(S) \in Int /\ x >= Max(S) /\ Max(S) >= x
  BY <1>1, <1>2
<1> QED
  BY <1>3

\* The least element of a set is its minimum.
LEMMA MinIs ==
    ASSUME NEW S, S \subseteq Int, NEW x \in S, \A y \in S : x <= y
    PROVE  Min(S) = x
<1>1. x \in S /\ \A y \in S : x <= y
  OBVIOUS
<1>2. Min(S) \in S /\ \A y \in S : Min(S) <= y
  BY <1>1, Zenon DEF Min
<1>3. x \in Int /\ Min(S) \in Int /\ x <= Min(S) /\ Min(S) <= x
  BY <1>1, <1>2
<1> QED
  BY <1>3

\* The smaller of two numbers.
LEMMA MinOfTwo ==
    ASSUME NEW a \in Int, NEW b \in Int
    PROVE  Min({a, b}) = IF a <= b THEN a ELSE b
<1> DEFINE S == {a, b}
           x == IF a <= b THEN a ELSE b
<1>1. S \subseteq Int /\ x \in S /\ \A y \in S : x <= y
  OBVIOUS
<1>2. Min(S) = x
  <2> HIDE DEF S, x
  <2> QED
    BY <1>1, MinIs
<1> QED
  BY <1>2

-----------------------------------------------------------------------------
(* The lines of a file.                                                    *)

\* No newline of a file is further on than this.
Furthest == Size * MaxEntrySize

\* A file with lines, each of which fits an entry with its newline.
IsFile(file) ==
    /\ file \in Seq(Nat) /\ file # <<>>
    /\ \A k \in 1..Len(file) : file[k] <= Furthest
    /\ \A k \in 1..Len(file) : file[k] - LineStart(file, k) \in 1..(MaxEntrySize - 1)

\* The offsets of newlines, lines and the end of a file in their order.
LEMMA FileLines ==
    ASSUME IsFile(newlines)
    PROVE  /\ Len(newlines) \in Nat /\ Len(newlines) >= 1
           /\ newlines \in [1..Len(newlines) -> Nat]
           /\ FileSize \in Nat /\ FileSize = newlines[Len(newlines)] + 1
           /\ StartOf(1) = 0
           /\ \A k \in 1..Len(newlines) :
                /\ newlines[k] \in Nat /\ StartOf(k) \in Nat
                /\ StartOf(k) < newlines[k]
                /\ newlines[k] - StartOf(k) < MaxEntrySize
                /\ newlines[k] < FileSize
                /\ k > 1 => newlines[k - 1] + 1 = StartOf(k)
                /\ newlines[k] + 1 = IF k = Len(newlines) THEN FileSize ELSE StartOf(k + 1)
           /\ \A k, l \in 1..Len(newlines) :
                k < l => newlines[k] < newlines[l] /\ newlines[k] < StartOf(l)
<1> DEFINE n == Len(newlines)
<1>1. n \in Nat /\ n >= 1 /\ newlines \in [1..n -> Nat]
  BY LenProperties, EmptySeq, ElementOfSeq DEF IsFile
<1>2. FileSize \in Nat /\ FileSize = newlines[n] + 1
  BY <1>1 DEF IsFile, FileSize, EndOf
<1>3. StartOf(1) = 0
  BY DEF StartOf, LineStart
<1>4. \A k \in 1..n : k > 1 => newlines[k - 1] + 1 = StartOf(k) /\ k - 1 \in 1..n
  BY <1>1 DEF StartOf, LineStart
<1>5. \A k \in 1..n : newlines[k] - StartOf(k) \in 1..(MaxEntrySize - 1)
  BY DEF IsFile, StartOf
<1> HIDE DEF n
<1>6. \A k \in 1..n : newlines[k] \in Nat /\ StartOf(k) \in Nat
  <2> TAKE k \in 1..n
  <2>1. CASE k = 1
    BY <1>1, <1>3, <2>1
  <2>2. CASE k > 1
    <3>1. newlines[k - 1] \in Nat /\ newlines[k] \in Nat
      BY <1>1, <1>4, <2>2
    <3> QED
      BY <1>4, <2>2, <3>1
  <2> QED
    BY <1>1, <2>1, <2>2
<1>7. \A k \in 1..n : StartOf(k) < newlines[k] /\ newlines[k] - StartOf(k) < MaxEntrySize
  <2> TAKE k \in 1..n
  <2>1. newlines[k] \in Nat /\ StartOf(k) \in Nat /\ newlines[k] - StartOf(k) \in 1..(MaxEntrySize - 1)
    BY <1>5, <1>6
  <2> QED
    BY <2>1, QLogFileAssumption
<1>8. \A k \in 1..n : k > 1 => newlines[k - 1] < newlines[k]
  <2> SUFFICES ASSUME NEW k \in 1..n, k > 1 PROVE newlines[k - 1] < newlines[k]
    OBVIOUS
  <2>1. newlines[k - 1] \in Nat /\ newlines[k] \in Nat /\ StartOf(k) < newlines[k]
        /\ newlines[k - 1] + 1 = StartOf(k)
    BY <1>4, <1>6, <1>7
  <2> QED
    BY <2>1
<1>9. \A k, l \in 1..n : k < l => newlines[k] < newlines[l]
  BY <1>1, <1>8, Grows
<1>10. \A k, l \in 1..n : k < l => newlines[k] < StartOf(l)
  <2> SUFFICES ASSUME NEW k \in 1..n, NEW l \in 1..n, k < l PROVE newlines[k] < StartOf(l)
    OBVIOUS
  <2>1. l - 1 \in 1..n /\ newlines[l - 1] + 1 = StartOf(l) /\ (k = l - 1 \/ k < l - 1)
    BY <1>1, <1>4
  <2>2. newlines[k] \in Nat /\ newlines[l - 1] \in Nat
    BY <1>6, <2>1
  <2>3. CASE k = l - 1
    BY <2>1, <2>2, <2>3
  <2>4. CASE k < l - 1
    <3>1. newlines[k] < newlines[l - 1]
      BY <1>9, <2>1, <2>4
    <3> QED
      BY <2>1, <2>2, <3>1
  <2> QED
    BY <2>1, <2>3, <2>4
<1>11. \A k \in 1..n : newlines[k] < FileSize
  <2> TAKE k \in 1..n
  <2>1. n \in 1..n /\ (k = n \/ k < n)
    BY <1>1
  <2>2. newlines[k] \in Nat /\ newlines[n] \in Nat
    BY <1>6, <2>1
  <2>3. k = n \/ newlines[k] < newlines[n]
    BY <1>9, <2>1
  <2> QED
    BY <1>2, <2>2, <2>3
<1>12. \A k \in 1..n : newlines[k] + 1 = IF k = n THEN FileSize ELSE StartOf(k + 1)
  <2> TAKE k \in 1..n
  <2>1. CASE k = n
    BY <1>2, <2>1
  <2>2. CASE k # n
    <3>1. k + 1 \in 1..n /\ k + 1 > 1 /\ (k + 1) - 1 = k
      BY <1>1, <2>2
    <3>2. newlines[(k + 1) - 1] + 1 = StartOf(k + 1)
      BY <1>4, <3>1
    <3> QED
      BY <2>2, <3>1, <3>2
  <2> QED
    BY <2>1, <2>2
<1> QED
  BY <1>1, <1>2, <1>3, <1>4, <1>6, <1>7, <1>9, <1>10, <1>11, <1>12 DEF n

\* The same of one line, of two, and of the file.
LEMMA LineFacts ==
    ASSUME IsFile(newlines), NEW k \in 1..Len(newlines)
    PROVE  /\ k \in Nat /\ k >= 1 /\ k <= Len(newlines)
           /\ newlines[k] \in Nat /\ StartOf(k) \in Nat
           /\ StartOf(k) < newlines[k]
           /\ newlines[k] - StartOf(k) < MaxEntrySize
           /\ newlines[k] < FileSize
           /\ newlines[k] + 1 = IF k = Len(newlines) THEN FileSize ELSE StartOf(k + 1)
<1>1. Len(newlines) \in Nat
  BY FileLines, Zenon
<1>2. /\ newlines[k] \in Nat /\ StartOf(k) \in Nat
      /\ StartOf(k) < newlines[k]
      /\ newlines[k] - StartOf(k) < MaxEntrySize
      /\ newlines[k] < FileSize
      /\ newlines[k] + 1 = IF k = Len(newlines) THEN FileSize ELSE StartOf(k + 1)
  BY FileLines, Zenon
<1>3. k \in Nat /\ k >= 1 /\ k <= Len(newlines)
  BY <1>1
<1> QED
  BY <1>2, <1>3

\* A line begins behind the newline of the one before it.
LEMMA LineBefore ==
    ASSUME IsFile(newlines), NEW k \in 1..Len(newlines), k # 1
    PROVE  /\ k - 1 \in 1..Len(newlines)
           /\ newlines[k - 1] \in Nat
           /\ newlines[k - 1] + 1 = StartOf(k)
<1>1. Len(newlines) \in Nat /\ newlines \in [1..Len(newlines) -> Nat]
  BY FileLines
<1>2. k - 1 \in 1..Len(newlines) /\ k > 1
  BY <1>1
<1> QED
  BY <1>1, <1>2, FileLines

\* A line ends before a later one begins.
LEMMA LineOrder ==
    ASSUME IsFile(newlines), NEW k \in 1..Len(newlines), NEW l \in 1..Len(newlines), k < l
    PROVE  newlines[k] < newlines[l] /\ newlines[k] < StartOf(l)
  BY FileLines

\* A file has a line, and its size is that up to the last newline.
LEMMA FileFacts ==
    ASSUME IsFile(newlines)
    PROVE  /\ Len(newlines) \in Nat /\ Len(newlines) >= 1
           /\ 1 \in 1..Len(newlines) /\ Len(newlines) \in 1..Len(newlines)
           /\ FileSize \in Nat /\ FileSize = newlines[Len(newlines)] + 1
           /\ StartOf(1) = 0
<1>1. /\ Len(newlines) \in Nat /\ Len(newlines) >= 1
      /\ FileSize \in Nat /\ FileSize = newlines[Len(newlines)] + 1
      /\ StartOf(1) = 0
  BY FileLines, Zenon
<1> QED
  BY <1>1

\* Offsets are numbers.
LEMMA OffsetsAre ==
    ASSUME IsFile(newlines)
    PROVE  Offsets \subseteq Nat
  BY LineFacts DEF Offsets

\* Every offset is in a line.
LEMMA LineOf ==
    ASSUME IsFile(newlines), NEW pos \in Nat, pos < FileSize
    PROVE  \E k \in 1..Len(newlines) : StartOf(k) <= pos /\ pos <= newlines[k]
<1> DEFINE n == Len(newlines)
           A == {k \in 1..n : pos <= newlines[k]}
<1>1. n \in Nat /\ n \in 1..n /\ FileSize = newlines[n] + 1 /\ newlines[n] \in Nat
  BY FileFacts, LineFacts
<1>2. A \subseteq Nat /\ n \in A
  BY <1>1
<1>3. PICK k \in A : \A l \in A : k <= l
  <2> HIDE DEF A
  <2> QED
    BY <1>2, LeastNat
<1>4. k \in 1..n /\ pos <= newlines[k]
  OBVIOUS
<1>5. StartOf(k) <= pos
  <2>1. CASE k = 1
    BY <2>1, FileFacts
  <2>2. CASE k > 1
    <3>1. k - 1 \in 1..n /\ ~(k <= k - 1)
      BY <1>1, <1>4, <2>2
    <3>2. k - 1 \notin A
      <4> HIDE DEF A
      <4> QED
        BY <1>3, <3>1
    <3>3. ~(pos <= newlines[k - 1])
      BY <3>1, <3>2
    <3>4. newlines[k - 1] \in Nat /\ newlines[k - 1] + 1 = StartOf(k)
      BY <1>4, <2>2, <3>1, LineBefore
    <3> HIDE DEF A
    <3> QED
      BY <3>3, <3>4
  <2> QED
    BY <1>1, <1>4, <2>1, <2>2
<1> QED
  BY <1>4, <1>5

\* A line is found by its start.
LEMMA OneLine ==
    ASSUME IsFile(newlines), NEW k \in 1..Len(newlines)
    PROVE  LinesAt(StartOf(k)) = {k}
<1>1. \A l \in 1..Len(newlines) : StartOf(l) = StartOf(k) => l = k
  <2> SUFFICES ASSUME NEW l \in 1..Len(newlines), StartOf(l) = StartOf(k), l # k PROVE FALSE
    OBVIOUS
  <2>1. /\ newlines[k] \in Nat /\ newlines[l] \in Nat /\ StartOf(k) \in Nat /\ StartOf(l) \in Nat
        /\ StartOf(k) < newlines[k] /\ StartOf(l) < newlines[l]
    BY LineFacts
  <2>2. k < l \/ l < k
    BY LineFacts
  <2>3. newlines[k] < StartOf(l) \/ newlines[l] < StartOf(k)
    BY <2>2, LineOrder
  <2> QED
    BY <2>1, <2>3
<1> QED
  BY <1>1 DEF LinesAt

\* The scan to the left of an offset in a line finds the start of the line if
\* the buffer begins before it.
LEMMA ScanFinds ==
    ASSUME IsFile(newlines), NEW k \in 1..Len(newlines),
           NEW pos \in Nat, StartOf(k) <= pos, pos <= newlines[k],
           NEW from \in Nat, from = 0 \/ from < StartOf(k)
    PROVE  ScanLeft(pos, from) = StartOf(k)
<1> DEFINE S == {m + 1 : m \in {j \in Offsets : from <= j /\ j < pos}} \cup {from}
<1>1. Offsets \subseteq Nat
  BY OffsetsAre
<1>2. S \subseteq Int
  <2> SUFFICES ASSUME NEW y \in S PROVE y \in Int
    OBVIOUS
  <2>1. y = from \/ \E m \in Offsets : y = m + 1
    OBVIOUS
  <2> HIDE DEF S
  <2> QED
    BY <1>1, <2>1
<1>3. StartOf(k) \in S
  <2>1. CASE k = 1
    BY <2>1, FileFacts
  <2>2. CASE k > 1
    <3>1. k - 1 \in 1..Len(newlines) /\ newlines[k - 1] \in Nat /\ newlines[k - 1] + 1 = StartOf(k)
      BY <2>2, LineBefore
    <3>2. newlines[k - 1] \in Offsets /\ from <= newlines[k - 1] /\ newlines[k - 1] < pos
      BY <3>1 DEF Offsets
    <3> QED
      BY <3>1, <3>2
  <2> QED
    BY <2>1, <2>2, LineFacts
<1>4. ASSUME NEW y \in S PROVE y <= StartOf(k)
  <2>0. StartOf(k) \in Nat
    BY LineFacts
  <2>1. CASE y = from
    BY <2>0, <2>1
  <2>2. CASE y # from
    <3>1. PICK l \in 1..Len(newlines) : y = newlines[l] + 1 /\ newlines[l] < pos
      BY <2>2 DEF Offsets
    <3>2. newlines[l] \in Nat /\ newlines[k] \in Nat /\ newlines[l] < newlines[k]
      BY <3>1, LineFacts
    <3>3. l < k
      <4>1. l = k \/ k < l \/ l < k
        BY LineFacts
      <4>2. l # k
        BY <3>2
      <4>3. ~(k < l)
        <5> SUFFICES ASSUME k < l PROVE FALSE
          OBVIOUS
        <5>1. newlines[k] < newlines[l]
          BY LineOrder
        <5> QED
          BY <3>2, <5>1
      <4> QED
        BY <4>1, <4>2, <4>3
    <3>4. newlines[l] < StartOf(k)
      BY <3>3, LineOrder
    <3> QED
      BY <2>0, <3>1, <3>2, <3>4
  <2> QED
    BY <2>1, <2>2
<1>5. ScanLeft(pos, from) = Max(S)
  BY DEF ScanLeft
<1> HIDE DEF S
<1> QED
  BY <1>2, <1>3, <1>4, <1>5, MaxIs

\* readProbeLine finds the line of the probe, whole.
LEMMA ProbeFinds ==
    ASSUME IsFile(newlines), NEW k \in 1..Len(newlines),
           NEW pos \in Nat, StartOf(k) <= pos, pos <= newlines[k]
    PROVE  /\ ReadProbeLine(pos).idx = StartOf(k)
           /\ ReadProbeLine(pos).end = newlines[k]
           /\ ReadProbeLine(pos).next = newlines[k] + 1
<1> DEFINE from == IF pos > MaxEntrySize THEN pos - MaxEntrySize ELSE 0
           to   == Min({FileSize, from + 2 * MaxEntrySize})
           ends == {j \in Offsets : pos <= j /\ j < to}
<1>1. /\ MaxEntrySize \in Nat /\ newlines[k] \in Nat /\ StartOf(k) \in Nat
      /\ newlines[k] - StartOf(k) < MaxEntrySize
      /\ newlines[k] < FileSize /\ FileSize \in Nat
  BY FileFacts, LineFacts, QLogFileAssumption
<1>2. from \in Nat /\ (from = 0 \/ from < StartOf(k)) /\ newlines[k] < from + 2 * MaxEntrySize
  BY <1>1
<1> HIDE DEF from
<1>3. ScanLeft(pos, from) = StartOf(k)
  BY <1>2, ScanFinds
<1>4. to \in Int /\ newlines[k] < to
  <2>1. CASE FileSize <= from + 2 * MaxEntrySize
    <3>1. to = FileSize
      BY <1>1, <1>2, <2>1, MinOfTwo
    <3> QED
      BY <1>1, <3>1
  <2>2. CASE ~(FileSize <= from + 2 * MaxEntrySize)
    <3>1. to = from + 2 * MaxEntrySize
      BY <1>1, <1>2, <2>2, MinOfTwo
    <3> QED
      BY <1>1, <1>2, <3>1
  <2> QED
    BY <2>1, <2>2
<1> HIDE DEF to
<1>5. newlines[k] \in ends
  BY <1>1, <1>4 DEF Offsets
<1>6. Min(ends) = newlines[k]
  <2>1. ends \subseteq Int
    BY LineFacts DEF Offsets
  <2>2. ASSUME NEW y \in ends PROVE newlines[k] <= y
    <3>1. PICK l \in 1..Len(newlines) : y = newlines[l] /\ pos <= newlines[l]
      BY DEF Offsets
    <3>2. newlines[l] \in Nat
      BY LineFacts
    <3>3. ~(l < k)
      <4> SUFFICES ASSUME l < k PROVE FALSE
        OBVIOUS
      <4>1. newlines[l] < StartOf(k)
        BY LineOrder
      <4> QED
        BY <1>1, <3>1, <3>2, <4>1
    <3>4. l = k \/ k < l
      BY <3>3, LineFacts
    <3>5. newlines[k] = newlines[l] \/ newlines[k] < newlines[l]
      BY <3>4, LineOrder
    <3> QED
      BY <1>1, <3>1, <3>2, <3>5
  <2> HIDE DEF ends
  <2> QED
    BY <1>5, <2>1, <2>2, MinIs
<1>7. ends # {}
  BY <1>5
<1>8. ReadProbeLine(pos) = [idx  |-> ScanLeft(pos, from),
                            end  |-> IF ends = {} THEN to ELSE Min(ends),
                            next |-> IF ends = {} THEN to ELSE Min(ends) + 1]
  BY DEF ReadProbeLine, from, to
<1> HIDE DEF ends
<1> QED
  BY <1>3, <1>6, <1>7, <1>8

\* A probe at the end of the file finds its end.
LEMMA ProbeAtEnd ==
    ASSUME IsFile(newlines)
    PROVE  ReadProbeLine(FileSize).idx = FileSize
<1> DEFINE n == Len(newlines)
           from == IF FileSize > MaxEntrySize THEN FileSize - MaxEntrySize ELSE 0
           S == {m + 1 : m \in {j \in Offsets : from <= j /\ j < FileSize}} \cup {from}
<1>1. /\ MaxEntrySize \in Nat \ {0} /\ n \in 1..n /\ newlines[n] \in Nat
      /\ FileSize = newlines[n] + 1 /\ FileSize \in Nat
  BY FileFacts, LineFacts, QLogFileAssumption
<1>2. from \in Nat /\ from <= newlines[n] /\ newlines[n] < FileSize
  BY <1>1
<1>3. ReadProbeLine(FileSize).idx = Max(S)
  BY DEF ReadProbeLine, ScanLeft
<1> HIDE DEF from
<1>4. newlines[n] + 1 \in S
  BY <1>1, <1>2 DEF Offsets
<1>5. Offsets \subseteq Nat
  BY LineFacts DEF Offsets
<1>6. S \subseteq Int /\ \A y \in S : y <= FileSize
  BY <1>1, <1>2, <1>5
<1> HIDE DEF S
<1> QED
  BY <1>1, <1>3, <1>4, <1>6, MaxIs

\* The record of a whole line.
LEMMA RecordOf ==
    ASSUME IsFile(newlines), base \in Nat, NEW k \in 1..Len(newlines)
    PROVE  RecordIn(StartOf(k), newlines[k]) = base + k
<1> DEFINE S == {base + l : l \in {j \in LinesAt(StartOf(k)) : newlines[j] = newlines[k]}} \cup {0}
<1>1. S = {base + k, 0}
  BY OneLine
<1>2. RecordIn(StartOf(k), newlines[k]) = Max(S)
  BY DEF RecordIn
<1>3. k \in Nat
  BY LineFacts
<1> HIDE DEF S
<1> QED
  BY <1>1, <1>2, <1>3, MaxIs

-----------------------------------------------------------------------------
(* The binary search.  The scope begins at a line and ends at one, or at   *)
(* the end of the file; what is before it is too early, what is behind it  *)
(* too late; and the line that was read last is next to it.                *)

Boundary(x) == x = FileSize \/ \E k \in 1..Len(newlines) : x = StartOf(k)

TooEarlyBefore(x) ==
    \A k \in 1..Len(newlines) : StartOf(k) < x => Timestamp(base + k) < timestamp

TooLateFrom(x) ==
    \A k \in 1..Len(newlines) : x <= StartOf(k) => timestamp < Timestamp(base + k)

ReadLast(s, k) == s.last = StartOf(k) /\ (s.end = StartOf(k) \/ s.start = newlines[k] + 1)

ScopeOf(s) ==
    /\ s \in [start : Nat, end : Nat, probe : Nat, last : Int, depth : Nat]
    /\ Boundary(s.start) /\ Boundary(s.end) /\ s.start <= s.end
    /\ s.probe = s.start + (s.end - s.start) \div 2
    /\ TooEarlyBefore(s.start) /\ TooLateFrom(s.end)
    /\ s.last = -1 \/ \E k \in 1..Len(newlines) : ReadLast(s, k)

ScopeInv == ScopeOf(st)

\* What the end of the search says of the file.
SoughtAs(res, pos) ==
    /\ res \in {"found", "TooEarly", "TooLate", "NotFound", "TooDeep"}
    /\ res = "found" => \E k \in 1..Len(newlines) :
                          Timestamp(base + k) = timestamp /\ pos = newlines[k]
    /\ res = "TooEarly" => \A k \in 1..Len(newlines) : timestamp < Timestamp(base + k)
    /\ res = "TooLate" => \A k \in 1..Len(newlines) : Timestamp(base + k) < timestamp
    /\ res = "NotFound" =>
         /\ \E k \in 1..Len(newlines) : Timestamp(base + k) < timestamp
         /\ \E k \in 1..Len(newlines) : timestamp < Timestamp(base + k)
         /\ \A k \in 1..Len(newlines) : Timestamp(base + k) # timestamp

\* A boundary is not behind the end.
LEMMA BoundaryIs ==
    ASSUME IsFile(newlines), NEW x, Boundary(x)
    PROVE  /\ x \in Nat /\ x <= FileSize
           /\ x < FileSize => \E k \in 1..Len(newlines) : x = StartOf(k)
<1>1. CASE x = FileSize
  BY <1>1, FileFacts
<1>2. CASE \E k \in 1..Len(newlines) : x = StartOf(k)
  <2>1. PICK k \in 1..Len(newlines) : x = StartOf(k)
    BY <1>2
  <2>2. StartOf(k) \in Nat /\ newlines[k] \in Nat /\ StartOf(k) < newlines[k] /\ newlines[k] < FileSize
        /\ FileSize \in Nat
    BY FileFacts, LineFacts
  <2> QED
    BY <2>1, <2>2
<1> QED
  BY <1>1, <1>2 DEF Boundary

\* The line behind one is a boundary.
LEMMA BoundaryNext ==
    ASSUME IsFile(newlines), NEW k \in 1..Len(newlines)
    PROVE  Boundary(StartOf(k)) /\ Boundary(newlines[k] + 1)
<1>1. Boundary(StartOf(k))
  BY DEF Boundary
<1>2. CASE k = Len(newlines)
  BY <1>1, <1>2, LineFacts DEF Boundary
<1>3. CASE k # Len(newlines)
  <2>1. k + 1 \in 1..Len(newlines)
    BY <1>3, FileFacts, LineFacts
  <2>2. newlines[k] + 1 = StartOf(k + 1)
    BY <1>3, LineFacts
  <2> QED
    BY <1>1, <2>1, <2>2 DEF Boundary
<1> QED
  BY <1>2, <1>3

\* The probe is in the middle of the scope.
LEMMA ProbeIn ==
    ASSUME IsFile(newlines), ScopeInv
    PROVE  /\ st.start \in Nat /\ st.end \in Nat /\ st.probe \in Nat /\ st.last \in Int
           /\ st.start <= st.probe /\ st.probe <= st.end /\ st.end <= FileSize
           /\ st.start < st.end => st.probe < st.end
           /\ st.start = st.end => st.probe = st.end
<1>1. /\ st.start \in Nat /\ st.end \in Nat /\ st.probe \in Nat /\ st.last \in Int
      /\ st.start <= st.end
      /\ st.probe = st.start + (st.end - st.start) \div 2
  BY DEF ScopeInv, ScopeOf
<1>2. st.end <= FileSize
  BY BoundaryIs DEF ScopeInv, ScopeOf
<1> QED
  BY <1>1, <1>2

\* The line of the probe is in the scope, unless the scope is empty.
LEMMA LineInScope ==
    ASSUME IsFile(newlines), ScopeInv, NEW k \in 1..Len(newlines),
           StartOf(k) <= st.probe, st.probe <= newlines[k]
    PROVE  /\ st.start <= StartOf(k)
           /\ st.start < st.end => newlines[k] + 1 <= st.end
<1>1. /\ newlines[k] \in Nat /\ StartOf(k) \in Nat /\ FileSize \in Nat
      /\ newlines[k] < FileSize
  BY FileFacts, LineFacts
<1>2. st.start <= StartOf(k)
  <2>1. st.start < FileSize
    BY <1>1, ProbeIn
  <2>2. PICK j \in 1..Len(newlines) : st.start = StartOf(j)
    BY <2>1, BoundaryIs DEF ScopeInv, ScopeOf
  <2>3. /\ newlines[j] \in Nat /\ StartOf(j) \in Nat /\ StartOf(j) < newlines[j]
    BY LineFacts
  <2>4. CASE j = k
    BY <1>1, <2>2, <2>4
  <2>5. CASE j < k
    <3>1. newlines[j] < StartOf(k)
      BY <2>5, LineOrder
    <3> QED
      BY <1>1, <2>2, <2>3, <3>1
  <2>6. CASE k < j
    <3>1. newlines[k] < StartOf(j)
      BY <2>6, LineOrder
    <3> QED
      BY <1>1, <2>2, <2>3, <3>1, ProbeIn
  <2> QED
    BY <2>4, <2>5, <2>6, LineFacts
<1>3. ASSUME st.start < st.end PROVE newlines[k] + 1 <= st.end
  <2>1. CASE st.end = FileSize
    BY <1>1, <2>1
  <2>2. CASE st.end # FileSize
    <3>1. PICK j \in 1..Len(newlines) : st.end = StartOf(j)
      BY <2>2 DEF ScopeInv, ScopeOf, Boundary
    <3>2. newlines[j] \in Nat /\ StartOf(j) \in Nat /\ StartOf(j) < newlines[j]
      BY LineFacts
    <3>3. StartOf(k) < StartOf(j)
      BY <1>1, <1>3, <3>1, <3>2, ProbeIn
    <3>4. k < j
      <4>1. k = j \/ j < k \/ k < j
        BY LineFacts
      <4>2. k # j
        BY <1>1, <3>3
      <4>3. ~(j < k)
        <5> SUFFICES ASSUME j < k PROVE FALSE
          OBVIOUS
        <5>1. newlines[j] < StartOf(k)
          BY LineOrder
        <5> QED
          BY <1>1, <3>2, <3>3, <5>1
      <4> QED
        BY <4>1, <4>2, <4>3
    <3>5. newlines[k] < StartOf(j)
      BY <3>4, LineOrder
    <3> QED
      BY <1>1, <3>1, <3>2, <3>5
  <2> QED
    BY <2>1, <2>2
<1> QED
  BY <1>2, <1>3

\* The scope after the k-th line was read.
ScopeAfter(start, end, k) ==
    [start |-> start, end |-> end, probe |-> start + (end - start) \div 2,
     last |-> StartOf(k), depth |-> st.depth + 1]

NextScope(k) == IF Timestamp(base + k) > timestamp
                THEN ScopeAfter(st.start, StartOf(k), k)
                ELSE ScopeAfter(newlines[k] + 1, st.end, k)

\* A step with the probe in a line, with all it reads put in.
LEMMA StepOnLine ==
    ASSUME IsFile(newlines), ScopeInv, NEW k \in 1..Len(newlines),
           StartOf(k) <= st.probe, st.probe <= newlines[k], SeekTSStep
    PROVE  \/ /\ LineIdxError(StartOf(k)) # "none"
              /\ at' = "sought" /\ result' = LineIdxError(StartOf(k))
              /\ UNCHANGED <<st, position>>
           \/ /\ LineIdxError(StartOf(k)) = "none" /\ Timestamp(base + k) = timestamp
              /\ at' = "sought" /\ result' = "found" /\ position' = newlines[k]
              /\ UNCHANGED st
           \/ /\ LineIdxError(StartOf(k)) = "none" /\ Timestamp(base + k) # timestamp
              /\ st' = NextScope(k)
              /\ IF st.depth + 1 >= MaxSearchDepth
                 THEN at' = "sought" /\ result' = "TooDeep"
                 ELSE UNCHANGED <<at, result>>
              /\ UNCHANGED position
<1> DEFINE p == ReadProbeLine(st.probe)
           ts == Timestamp(base + CHOOSE l \in LinesAt(p.idx) : TRUE)
           error == IF LineIdxError(p.idx) = "none" /\ LinesAt(p.idx) = {}
                    THEN "BadLine" ELSE LineIdxError(p.idx)
           scope == IF ts > timestamp THEN LeftOf(p) ELSE RightOf(p)
           probe == scope.start + (scope.end - scope.start) \div 2
<1>1. p.idx = StartOf(k) /\ p.end = newlines[k] /\ p.next = newlines[k] + 1
  BY ProbeIn, ProbeFinds
<1>2. \/ error # "none" /\ EndSeekTS(error) /\ UNCHANGED <<st, position>>
      \/ /\ error = "none" /\ ts = timestamp
         /\ EndSeekTS("found") /\ position' = p.end /\ UNCHANGED st
      \/ /\ error = "none" /\ ts # timestamp
         /\ st' = [scope EXCEPT !.probe = probe, !.last = p.idx, !.depth = @ + 1]
         /\ IF st'.depth >= MaxSearchDepth THEN EndSeekTS("TooDeep")
                                           ELSE UNCHANGED <<result, at>>
         /\ UNCHANGED position
  BY DEF SeekTSStep
<1> HIDE DEF p
<1>3. LinesAt(p.idx) = {k}
  BY <1>1, OneLine
<1>4. ts = Timestamp(base + k) /\ error = LineIdxError(StartOf(k))
  BY <1>1, <1>3
<1>5. st = [start |-> st.start, end |-> st.end, probe |-> st.probe, last |-> st.last,
            depth |-> st.depth]
  BY DEF ScopeInv, ScopeOf
<1> HIDE DEF ts, error
<1>6. [scope EXCEPT !.probe = probe, !.last = p.idx, !.depth = @ + 1] = NextScope(k)
  <2> DEFINE t == [scope EXCEPT !.probe = probe, !.last = p.idx, !.depth = @ + 1]
  <2>1. scope = IF ts > timestamp
                THEN [start |-> st.start, end |-> StartOf(k), probe |-> st.probe,
                      last |-> st.last, depth |-> st.depth]
                ELSE [start |-> newlines[k] + 1, end |-> st.end, probe |-> st.probe,
                      last |-> st.last, depth |-> st.depth]
    BY <1>1, <1>5 DEF LeftOf, RightOf
  <2>2. DOMAIN scope = {"start", "end", "probe", "last", "depth"} /\ scope.depth = st.depth
    BY <2>1
  <2>3. probe = scope.start + (scope.end - scope.start) \div 2
    OBVIOUS
  <2> HIDE DEF scope, probe
  <2>4. /\ DOMAIN t = {"start", "end", "probe", "last", "depth"}
        /\ t = [f \in DOMAIN t |-> t[f]]
    BY <2>2
  <2>5. t.start = scope.start /\ t.end = scope.end
    BY <2>2
  <2>6. t.probe = probe
    BY <2>2
  <2>7. t.last = p.idx
    BY <2>2
  <2>8. t.depth = st.depth + 1
    BY <2>2
  <2> HIDE DEF t
  <2>9. t = [start |-> scope.start, end |-> scope.end, probe |-> probe, last |-> p.idx,
             depth |-> st.depth + 1]
    BY <2>4, <2>5, <2>6, <2>7, <2>8
  <2>10. t = ScopeAfter(scope.start, scope.end, k)
    BY <1>1, <2>3, <2>9 DEF ScopeAfter
  <2>11. CASE ts > timestamp
    BY <1>4, <2>1, <2>10, <2>11 DEF NextScope, t
  <2>12. CASE ~(ts > timestamp)
    BY <1>4, <2>1, <2>10, <2>12 DEF NextScope, t
  <2> QED
    BY <2>11, <2>12
<1>7. NextScope(k).depth = st.depth + 1
  BY DEF NextScope, ScopeAfter
<1> HIDE DEF scope, probe
<1> QED
  BY <1>1, <1>2, <1>4, <1>6, <1>7 DEF EndSeekTS

\* Records are in the order of time.
LEMMA Times ==
    ASSUME IsFile(newlines), base \in Nat, NEW k \in 1..Len(newlines)
    PROVE  /\ Timestamp(base + k) \in Nat
           /\ \A l \in 1..Len(newlines) :
                /\ Timestamp(base + k) < Timestamp(base + l) <=> k < l
                /\ Timestamp(base + k) = Timestamp(base + l) <=> k = l
  BY LineFacts DEF Timestamp

\* A line that is read again leaves nothing to be looked at.
LEMMA SameLineAgain ==
    ASSUME IsFile(newlines), ScopeInv, NEW k \in 1..Len(newlines),
           StartOf(k) <= st.probe, st.probe <= newlines[k], st.last = StartOf(k)
    PROVE  st.start = StartOf(k) /\ st.end = StartOf(k)
<1>1. /\ newlines[k] \in Nat /\ StartOf(k) \in Nat
  BY LineFacts
<1>2. PICK j \in 1..Len(newlines) : ReadLast(st, j)
  BY <1>1 DEF ScopeInv, ScopeOf
<1>3. j = k
  <2>1. LinesAt(StartOf(k)) = {k} /\ j \in LinesAt(StartOf(k))
    BY <1>2, OneLine DEF ReadLast, LinesAt
  <2> QED
    BY <2>1
<1>4. st.start <= StartOf(k) /\ st.start # newlines[k] + 1
  <2>1. st.start <= StartOf(k) /\ StartOf(k) < newlines[k] /\ st.start \in Nat
    BY LineInScope, LineFacts, ProbeIn
  <2> QED
    BY <1>1, <2>1
<1>5. st.end = StartOf(k)
  BY <1>2, <1>3, <1>4 DEF ReadLast
<1> QED
  BY <1>1, <1>4, <1>5, ProbeIn

\* A step at the end of the file.
LEMMA StepAtEnd ==
    ASSUME IsFile(newlines), ScopeInv, st.probe = FileSize, SeekTSStep
    PROVE  /\ at' = "sought" /\ SoughtAs(result', position')
           /\ result' # "TooDeep"
<1>1. ReadProbeLine(st.probe).idx = FileSize
  BY ProbeAtEnd
<1>2. st.last # FileSize
  <2>1. CASE st.last = -1
    BY <2>1, FileFacts
  <2>2. CASE st.last # -1
    <3>1. PICK k \in 1..Len(newlines) : st.last = StartOf(k)
      BY <2>2 DEF ScopeInv, ScopeOf, ReadLast
    <3>2. StartOf(k) \in Nat /\ newlines[k] \in Nat /\ FileSize \in Nat
          /\ StartOf(k) < newlines[k] /\ newlines[k] < FileSize
      BY LineFacts, FileFacts
    <3> QED
      BY <3>1, <3>2
  <2> QED
    BY <2>1, <2>2
<1>3. LineIdxError(FileSize) = "TooLate"
  BY <1>2 DEF LineIdxError
<1>4. at' = "sought" /\ result' = "TooLate"
  BY <1>1, <1>3 DEF SeekTSStep, EndSeekTS
<1>5. st.start = FileSize
  BY ProbeIn, FileFacts
<1>6. \A k \in 1..Len(newlines) : Timestamp(base + k) < timestamp
  <2> TAKE k \in 1..Len(newlines)
  <2>1. StartOf(k) \in Nat /\ newlines[k] \in Nat /\ FileSize \in Nat
        /\ StartOf(k) < newlines[k] /\ newlines[k] < FileSize
    BY LineFacts, FileFacts
  <2>2. StartOf(k) < FileSize
    BY <2>1
  <2> QED
    BY <1>5, <2>2 DEF ScopeInv, ScopeOf, TooEarlyBefore
<1> QED
  BY <1>4, <1>6 DEF SoughtAs

\* The middle of a scope is a number.
LEMMA Middle ==
    ASSUME NEW a \in Nat, NEW b \in Nat, a <= b
    PROVE  a + (b - a) \div 2 \in Nat
  OBVIOUS

\* A scope has its type.
LEMMA ScopeType ==
    ASSUME NEW a \in Nat, NEW b \in Nat, NEW q \in Nat, NEW l \in Int, NEW d \in Nat
    PROVE  [start |-> a, end |-> b, probe |-> q, last |-> l, depth |-> d]
             \in [start : Nat, end : Nat, probe : Nat, last : Int, depth : Nat]
  OBVIOUS

\* Narrowing keeps the scope what it is.
LEMMA Narrowed ==
    ASSUME IsFile(newlines), base \in Nat, timestamp \in Nat, ScopeInv,
           NEW k \in 1..Len(newlines), StartOf(k) <= st.probe, st.probe <= newlines[k],
           Timestamp(base + k) # timestamp
    PROVE  ScopeOf(NextScope(k))
<1> DEFINE s == NextScope(k)
<1>1. /\ newlines[k] \in Nat /\ StartOf(k) \in Nat /\ StartOf(k) < newlines[k]
      /\ Timestamp(base + k) \in Nat
  BY LineFacts, Times
<1>2. /\ st.start \in Nat /\ st.end \in Nat /\ st.depth \in Nat
      /\ Boundary(st.start) /\ Boundary(st.end)
      /\ TooEarlyBefore(st.start) /\ TooLateFrom(st.end)
  BY DEF ScopeInv, ScopeOf
<1>3. Boundary(StartOf(k)) /\ Boundary(newlines[k] + 1)
  BY BoundaryNext
<1>4. st.start <= StartOf(k)
  BY LineInScope
<1>5. CASE Timestamp(base + k) > timestamp
  <2>1. s = ScopeAfter(st.start, StartOf(k), k)
    BY <1>5 DEF NextScope
  <2>2. TooLateFrom(StartOf(k))
    <3> SUFFICES ASSUME NEW l \in 1..Len(newlines), StartOf(k) <= StartOf(l)
                 PROVE  timestamp < Timestamp(base + l)
      BY DEF TooLateFrom
    <3>1. ~(l < k)
      <4> SUFFICES ASSUME l < k PROVE FALSE
        OBVIOUS
      <4>1. newlines[l] < StartOf(k) /\ StartOf(l) < newlines[l] /\ newlines[l] \in Nat /\ StartOf(l) \in Nat
        BY LineOrder, LineFacts
      <4> QED
        BY <1>1, <4>1
    <3>2. l = k \/ k < l
      BY <3>1, LineFacts
    <3>3. Timestamp(base + l) \in Nat
          /\ (Timestamp(base + l) = Timestamp(base + k) \/ Timestamp(base + k) < Timestamp(base + l))
      BY <3>2, Times
    <3> QED
      BY <1>1, <1>5, <3>3
  <2>3. ReadLast(s, k)
    BY <2>1 DEF ReadLast, ScopeAfter
  <2>4. /\ s.start = st.start /\ s.end = StartOf(k)
        /\ s.probe = s.start + (s.end - s.start) \div 2
        /\ s.last = StartOf(k) /\ s.depth = st.depth + 1
    BY <2>1 DEF ScopeAfter
  <2>5. st.start + (StartOf(k) - st.start) \div 2 \in Nat
    BY <1>1, <1>2, <1>4, Middle
  <2>6. s \in [start : Nat, end : Nat, probe : Nat, last : Int, depth : Nat]
    <3> DEFINE q == st.start + (StartOf(k) - st.start) \div 2
    <3>1. s = [start |-> st.start, end |-> StartOf(k), probe |-> q, last |-> StartOf(k),
               depth |-> st.depth + 1]
      BY <2>1 DEF ScopeAfter
    <3>2. q \in Nat
      BY <2>5
    <3>3. StartOf(k) \in Int /\ st.depth + 1 \in Nat
      BY <1>1, <1>2
    <3> HIDE DEF q, s
    <3> QED
      BY <1>1, <1>2, <3>1, <3>2, <3>3, ScopeType
  <2> HIDE DEF s
  <2>7. ScopeOf(s)
    BY <1>2, <1>3, <1>4, <2>2, <2>3, <2>4, <2>6 DEF ScopeOf
  <2> QED
    BY <2>7 DEF s
<1>6. CASE ~(Timestamp(base + k) > timestamp)
  <2>0. Timestamp(base + k) < timestamp
    BY <1>1, <1>6
  <2>1. s = ScopeAfter(newlines[k] + 1, st.end, k)
    BY <1>6 DEF NextScope
  <2>2. TooEarlyBefore(newlines[k] + 1)
    <3> SUFFICES ASSUME NEW l \in 1..Len(newlines), StartOf(l) < newlines[k] + 1
                 PROVE  Timestamp(base + l) < timestamp
      BY DEF TooEarlyBefore
    <3>1. ~(k < l)
      <4> SUFFICES ASSUME k < l PROVE FALSE
        OBVIOUS
      <4>1. newlines[k] < StartOf(l) /\ StartOf(l) \in Nat
        BY LineOrder, LineFacts
      <4> QED
        BY <1>1, <4>1
    <3>2. l = k \/ l < k
      BY <3>1, LineFacts
    <3>3. Timestamp(base + l) \in Nat
          /\ (Timestamp(base + l) = Timestamp(base + k) \/ Timestamp(base + l) < Timestamp(base + k))
      BY <3>2, Times
    <3> QED
      BY <1>1, <2>0, <3>3
  <2>3. ReadLast(s, k)
    BY <2>1 DEF ReadLast, ScopeAfter
  <2>4. /\ s.start = newlines[k] + 1 /\ s.end = st.end
        /\ s.probe = s.start + (s.end - s.start) \div 2
        /\ s.last = StartOf(k) /\ s.depth = st.depth + 1
    BY <2>1 DEF ScopeAfter
  <2>5. newlines[k] + 1 <= st.end
    <3>1. st.start # st.end
      <4> SUFFICES ASSUME st.start = st.end PROVE FALSE
        OBVIOUS
      <4>1. st.end <= StartOf(k)
        BY <1>4
      <4>2. timestamp < Timestamp(base + k)
        BY <1>2, <4>1 DEF TooLateFrom
      <4> QED
        BY <1>1, <2>0, <4>2
    <3>2. st.start <= st.end
      BY DEF ScopeInv, ScopeOf
    <3>3. st.start < st.end
      BY <1>2, <3>1, <3>2
    <3> QED
      BY <3>3, LineInScope
  <2>6. newlines[k] + 1 \in Nat /\ (newlines[k] + 1) + (st.end - (newlines[k] + 1)) \div 2 \in Nat
    <3>1. newlines[k] + 1 \in Nat
      BY <1>1
    <3> QED
      BY <1>2, <2>5, <3>1, Middle
  <2>7. s \in [start : Nat, end : Nat, probe : Nat, last : Int, depth : Nat]
    <3> DEFINE q == (newlines[k] + 1) + (st.end - (newlines[k] + 1)) \div 2
    <3>1. s = [start |-> newlines[k] + 1, end |-> st.end, probe |-> q, last |-> StartOf(k),
               depth |-> st.depth + 1]
      BY <2>1 DEF ScopeAfter
    <3>2. q \in Nat
      BY <2>6
    <3>3. StartOf(k) \in Int /\ st.depth + 1 \in Nat
      BY <1>1, <1>2
    <3> HIDE DEF q, s
    <3> QED
      BY <1>2, <2>6, <3>1, <3>2, <3>3, ScopeType
  <2> HIDE DEF s
  <2>8. ScopeOf(s)
    BY <1>2, <1>3, <2>2, <2>3, <2>4, <2>5, <2>7 DEF ScopeOf
  <2> QED
    BY <2>8 DEF s
<1> QED
  BY <1>5, <1>6

\* Where the search gives up, it is right to.
LEMMA GivesUp ==
    ASSUME IsFile(newlines), base \in Nat, timestamp \in Nat, ScopeInv,
           NEW k \in 1..Len(newlines), StartOf(k) <= st.probe, st.probe <= newlines[k],
           LineIdxError(StartOf(k)) # "none", NEW pos
    PROVE  /\ SoughtAs(LineIdxError(StartOf(k)), pos)
           /\ LineIdxError(StartOf(k)) # "TooDeep"
<1>1. /\ newlines[k] \in Nat /\ StartOf(k) \in Nat /\ StartOf(k) < newlines[k]
      /\ newlines[k] < FileSize /\ FileSize \in Nat
  BY LineFacts, FileFacts
<1>2. StartOf(k) # FileSize
  BY <1>1
<1>3. StartOf(k) = st.last
  BY <1>2 DEF LineIdxError
<1>4. st.start = StartOf(k) /\ st.end = StartOf(k)
  BY <1>3, SameLineAgain
<1>5. /\ \A l \in 1..Len(newlines) : StartOf(l) < StartOf(k) => Timestamp(base + l) < timestamp
      /\ \A l \in 1..Len(newlines) : StartOf(k) <= StartOf(l) => timestamp < Timestamp(base + l)
  BY <1>4 DEF ScopeInv, ScopeOf, TooEarlyBefore, TooLateFrom
<1>6. \A l \in 1..Len(newlines) : StartOf(l) \in Nat /\ Timestamp(base + l) \in Nat
  BY LineFacts, Times
<1>7. CASE StartOf(k) = 0
  <2>1. LineIdxError(StartOf(k)) = "TooEarly"
    BY <1>3, <1>7 DEF LineIdxError
  <2>2. \A l \in 1..Len(newlines) : timestamp < Timestamp(base + l)
    BY <1>5, <1>6, <1>7
  <2> QED
    BY <2>1, <2>2 DEF SoughtAs
<1>8. CASE StartOf(k) # 0
  <2>1. LineIdxError(StartOf(k)) = "NotFound"
    BY <1>3, <1>8 DEF LineIdxError
  <2>2. timestamp < Timestamp(base + k)
    BY <1>1, <1>5
  <2>3. 1 \in 1..Len(newlines) /\ Timestamp(base + 1) < timestamp
    BY <1>1, <1>5, <1>8, FileFacts
  <2>4. \A l \in 1..Len(newlines) : Timestamp(base + l) # timestamp
    <3> TAKE l \in 1..Len(newlines)
    <3>1. Timestamp(base + l) < timestamp \/ timestamp < Timestamp(base + l)
      BY <1>1, <1>5, <1>6
    <3> QED
      BY <1>6, <3>1
  <2> QED
    BY <2>1, <2>2, <2>3, <2>4 DEF SoughtAs
<1> QED
  BY <1>7, <1>8

\* A step of the search either ends it, rightly or too deep, or keeps the
\* scope.
LEMMA SearchStep ==
    ASSUME IsFile(newlines), base \in Nat, timestamp \in Nat, ScopeInv, SeekTSStep
    PROVE  \/ at' = "sought" /\ SoughtAs(result', position')
           \/ at' = "seek" /\ ScopeOf(st') /\ UNCHANGED <<result, position>>
<1>1. CASE st.probe = FileSize
  BY <1>1, StepAtEnd
<1>2. CASE st.probe # FileSize
  <2>1. st.probe \in Nat /\ st.probe < FileSize
    BY <1>2, ProbeIn, FileFacts
  <2>2. PICK k \in 1..Len(newlines) : StartOf(k) <= st.probe /\ st.probe <= newlines[k]
    BY <2>1, LineOf
  <2>3. CASE LineIdxError(StartOf(k)) # "none"
    <3>1. at' = "sought" /\ result' = LineIdxError(StartOf(k))
      BY <2>2, <2>3, StepOnLine
    <3> QED
      BY <2>2, <2>3, <3>1, GivesUp
  <2>4. CASE LineIdxError(StartOf(k)) = "none" /\ Timestamp(base + k) = timestamp
    <3>1. at' = "sought" /\ result' = "found" /\ position' = newlines[k]
      BY <2>2, <2>4, StepOnLine
    <3> QED
      BY <2>4, <3>1 DEF SoughtAs
  <2>5. CASE LineIdxError(StartOf(k)) = "none" /\ Timestamp(base + k) # timestamp
    <3>1. /\ st' = NextScope(k) /\ UNCHANGED position
          /\ \/ at' = "sought" /\ result' = "TooDeep"
             \/ UNCHANGED <<at, result>>
      BY <2>2, <2>5, StepOnLine
    <3>2. at = "seek"
      BY DEF SeekTSStep
    <3>3. CASE at' = "sought" /\ result' = "TooDeep"
      BY <3>3 DEF SoughtAs
    <3>4. CASE UNCHANGED <<at, result>>
      BY <2>2, <2>5, <3>1, <3>2, <3>4, Narrowed
    <3> QED
      BY <3>1, <3>3, <3>4
  <2> QED
    BY <2>3, <2>4, <2>5
<1> QED
  BY <1>1, <1>2

\* What the search promises, in the words of SeekResult.
LEMMA SoughtIsResult ==
    ASSUME IsFile(newlines), base \in Nat, timestamp \in Nat,
           SoughtAs(result, position), result # "TooDeep"
    PROVE  result = SeekResult
<1> DEFINE n == Len(newlines)
           records == {base + k : k \in 1..n}
<1>1. n \in Nat /\ 1 \in 1..n /\ n \in 1..n
  BY FileFacts
<1>2. records \subseteq Int /\ base + 1 \in records /\ base + n \in records
      /\ \A e \in records : base + 1 <= e /\ e <= base + n
  BY <1>1
<1>3. Min(records) = base + 1 /\ Max(records) = base + n
  <2> HIDE DEF records
  <2> QED
    BY <1>2, MinIs, MaxIs
<1>4. /\ Timestamp(base + 1) \in Nat /\ Timestamp(base + n) \in Nat
      /\ \A k \in 1..n : /\ Timestamp(base + k) \in Nat
                         /\ Timestamp(base + 1) <= Timestamp(base + k)
                         /\ Timestamp(base + k) <= Timestamp(base + n)
  BY <1>1 DEF Timestamp
<1>5. SeekResult = CASE timestamp < Timestamp(base + 1) -> "TooEarly"
                     [] timestamp > Timestamp(base + n) -> "TooLate"
                     [] \E e \in records : Timestamp(e) = timestamp -> "found"
                     [] OTHER -> "NotFound"
  BY <1>3 DEF SeekResult
<1>6. (\E e \in records : Timestamp(e) = timestamp)
        <=> \E k \in 1..n : Timestamp(base + k) = timestamp
  OBVIOUS
<1> HIDE DEF records
<1>7. CASE result = "found"
  <2>1. PICK k \in 1..n : Timestamp(base + k) = timestamp
    BY <1>7 DEF SoughtAs
  <2>2. ~(timestamp < Timestamp(base + 1)) /\ ~(timestamp > Timestamp(base + n))
    BY <1>4, <2>1
  <2> QED
    BY <1>5, <1>6, <1>7, <2>1, <2>2
<1>8. CASE result = "TooEarly"
  <2>1. timestamp < Timestamp(base + 1) /\ timestamp < Timestamp(base + n)
    BY <1>1, <1>8 DEF SoughtAs
  <2>2. ~(timestamp > Timestamp(base + n))
    BY <1>4, <2>1
  <2>3. ~ \E k \in 1..n : Timestamp(base + k) = timestamp
    <3> SUFFICES ASSUME NEW k \in 1..n, Timestamp(base + k) = timestamp PROVE FALSE
      OBVIOUS
    <3>1. Timestamp(base + 1) <= timestamp
      BY <1>4
    <3> QED
      BY <1>4, <2>1, <3>1
  <2> QED
    BY <1>5, <1>6, <1>8, <2>1, <2>2, <2>3
<1>9. CASE result = "TooLate"
  <2>1. Timestamp(base + 1) < timestamp /\ Timestamp(base + n) < timestamp
    BY <1>1, <1>9 DEF SoughtAs
  <2>2. ~(timestamp < Timestamp(base + 1)) /\ timestamp > Timestamp(base + n)
    BY <1>4, <2>1
  <2>3. ~ \E k \in 1..n : Timestamp(base + k) = timestamp
    <3> SUFFICES ASSUME NEW k \in 1..n, Timestamp(base + k) = timestamp PROVE FALSE
      OBVIOUS
    <3>1. timestamp <= Timestamp(base + n)
      BY <1>4
    <3> QED
      BY <1>4, <2>1, <3>1
  <2> QED
    BY <1>5, <1>6, <1>9, <2>2, <2>3
<1>10. CASE result = "NotFound"
  <2>1. /\ ~ \E k \in 1..n : Timestamp(base + k) = timestamp
        /\ \E k \in 1..n : Timestamp(base + k) < timestamp
        /\ \E k \in 1..n : timestamp < Timestamp(base + k)
    BY <1>10 DEF SoughtAs
  <2>2. ~(timestamp < Timestamp(base + 1))
    BY <1>4, <2>1
  <2>3. ~(timestamp > Timestamp(base + n))
    BY <1>4, <2>1
  <2> QED
    BY <1>5, <1>6, <1>10, <2>1, <2>2, <2>3
<1> QED
  BY <1>7, <1>8, <1>9, <1>10 DEF SoughtAs

\* What ScopeHolds says, of the scope.
LEMMA ScopeKeeps ==
    ASSUME IsFile(newlines), base \in Nat, timestamp \in Nat, ScopeInv,
           NEW k \in 1..Len(newlines), Timestamp(base + k) = timestamp
    PROVE  st.start <= StartOf(k) /\ newlines[k] < st.end
<1>1. /\ newlines[k] \in Nat /\ StartOf(k) \in Nat /\ newlines[k] < FileSize
      /\ StartOf(k) < newlines[k] /\ FileSize \in Nat /\ st.start \in Nat /\ st.end \in Nat
  <2>1. /\ newlines[k] \in Nat /\ StartOf(k) \in Nat /\ newlines[k] < FileSize
        /\ StartOf(k) < newlines[k]
    BY LineFacts
  <2>2. FileSize \in Nat
    BY FileFacts
  <2>3. st.start \in Nat /\ st.end \in Nat
    BY DEF ScopeInv, ScopeOf
  <2> QED
    BY <2>1, <2>2, <2>3
<1>2. ~(StartOf(k) < st.start) /\ ~(st.end <= StartOf(k))
  <2>1. /\ StartOf(k) < st.start => Timestamp(base + k) < timestamp
        /\ st.end <= StartOf(k) => timestamp < Timestamp(base + k)
    BY DEF ScopeInv, ScopeOf, TooEarlyBefore, TooLateFrom
  <2> QED
    BY <2>1
<1>3. newlines[k] < st.end
  <2>1. CASE st.end = FileSize
    BY <1>1, <2>1
  <2>2. CASE st.end # FileSize
    <3>1. PICK j \in 1..Len(newlines) : st.end = StartOf(j)
      BY <2>2 DEF ScopeInv, ScopeOf, Boundary
    <3>2. newlines[j] \in Nat /\ StartOf(j) < newlines[j]
      BY LineFacts
    <3>3. j # k
      BY <1>1, <1>2, <3>1
    <3>4. ~(j < k)
      <4> SUFFICES ASSUME j < k PROVE FALSE
        OBVIOUS
      <4>1. newlines[j] < StartOf(k)
        BY LineOrder
      <4> QED
        BY <1>1, <1>2, <3>1, <3>2, <4>1
    <3>5. k < j
      BY <3>3, <3>4, LineFacts
    <3> QED
      BY <3>1, <3>5, LineOrder
  <2> QED
    BY <2>1, <2>2
<1> QED
  BY <1>1, <1>2, <1>3

-----------------------------------------------------------------------------
(* Reading backwards.                                                      *)

\* readNextLine finds the line that ends at the position, whatever buffer it
\* has.
LEMMA ReadFinds ==
    ASSUME IsFile(newlines), bufferStart \in Nat \cup {-1}, NEW k \in 1..Len(newlines)
    PROVE  /\ BufferFor(newlines[k]) \in Nat
           /\ ScanLeft(newlines[k], BufferFor(newlines[k])) = StartOf(k)
<1> DEFINE from == BufferFor(newlines[k])
<1>1. /\ newlines[k] \in Nat /\ StartOf(k) \in Nat /\ StartOf(k) < newlines[k]
      /\ newlines[k] - StartOf(k) < MaxEntrySize
      /\ MaxEntrySize \in Nat /\ BufferSize \in Nat /\ MaxEntrySize <= BufferSize
  BY LineFacts, QLogFileAssumption
<1>2. CASE bufferStart = -1 \/ (newlines[k] - bufferStart < MaxEntrySize /\ bufferStart # 0)
  <2>1. from = IF newlines[k] > BufferSize THEN newlines[k] - BufferSize ELSE 0
    BY <1>2 DEF BufferFor
  <2> HIDE DEF from
  <2>2. from \in Nat /\ (from = 0 \/ from < StartOf(k))
    BY <1>1, <2>1
  <2>3. ScanLeft(newlines[k], from) = StartOf(k)
    BY <1>1, <2>2, ScanFinds
  <2> QED
    BY <2>2, <2>3 DEF from
<1>3. CASE ~(bufferStart = -1 \/ (newlines[k] - bufferStart < MaxEntrySize /\ bufferStart # 0))
  <2>1. from = bufferStart
    BY <1>3 DEF BufferFor
  <2> HIDE DEF from
  <2>2. from \in Nat /\ (from = 0 \/ from < StartOf(k))
    BY <1>1, <1>3, <2>1
  <2>3. ScanLeft(newlines[k], from) = StartOf(k)
    BY <1>1, <2>2, ScanFinds
  <2> QED
    BY <2>2, <2>3 DEF from
<1> QED
  BY <1>2, <1>3

\* The record whose line ends at a position, or the one before the first if
\* the file is exhausted.
PositionOf(e) ==
    \/ \E k \in 1..Len(newlines) : position = newlines[k] /\ e = base + k
    \/ position = 0 /\ e = base

\* ReadNext returns that record, and goes on to the one before it.
LEMMA ReadStep ==
    ASSUME IsFile(newlines), base \in Nat, bufferStart \in Nat \cup {-1},
           NEW e, PositionOf(e), ReadNext
    PROVE  /\ bufferStart' \in Nat
           /\ \E k \in 1..Len(newlines) : e = base + k
           /\ reads' = Append(reads, e)
           /\ \/ position' = 0 /\ e - 1 = base
              \/ \E k \in 1..Len(newlines) : position' = newlines[k] /\ e - 1 = base + k
<1>1. PICK k \in 1..Len(newlines) : position = newlines[k] /\ e = base + k
  BY DEF PositionOf, ReadNext
<1>2. /\ bufferStart' \in Nat
      /\ ScanLeft(position, BufferFor(position)) = StartOf(k)
  BY <1>1, ReadFinds DEF ReadNext
<1>3. reads' = Append(reads, e) /\ position' = PrevPosition(StartOf(k))
  BY <1>1, <1>2, RecordOf DEF ReadNext
<1>4. k \in Nat /\ StartOf(k) \in Nat
  BY LineFacts
<1>5. CASE k = 1
  BY <1>1, <1>2, <1>3, <1>5, FileFacts DEF PrevPosition
<1>6. CASE k # 1
  <2>1. k - 1 \in 1..Len(newlines) /\ newlines[k - 1] \in Nat /\ newlines[k - 1] + 1 = StartOf(k)
    BY <1>6, LineBefore
  <2>2. position' = newlines[k - 1] /\ e - 1 = base + (k - 1)
    BY <1>1, <1>3, <1>4, <2>1 DEF PrevPosition
  <2> QED
    BY <1>1, <1>2, <1>3, <2>1, <2>2
<1> QED
  BY <1>5, <1>6

\* A file that is opened at its end is at its last record.
LEMMA EndIsLast ==
    IsFile(newlines) /\ position = SeekEnd(EndOf(newlines))
      => PositionOf(base + Len(newlines))
<1> SUFFICES ASSUME IsFile(newlines), position = SeekEnd(EndOf(newlines))
             PROVE  PositionOf(base + Len(newlines))
  OBVIOUS
<1>1. /\ FileSize \in Nat /\ Len(newlines) \in 1..Len(newlines)
      /\ newlines[Len(newlines)] \in Nat /\ FileSize = newlines[Len(newlines)] + 1
  BY FileFacts, LineFacts
<1>2. position = newlines[Len(newlines)]
  BY <1>1 DEF SeekEnd, FileSize
<1> QED
  BY <1>1, <1>2 DEF PositionOf

\* A search begins with the whole file as its scope.
LEMMA SearchBegins ==
    IsFile(newlines) /\ st = SearchFrom(EndOf(newlines)) => ScopeInv
<1> SUFFICES ASSUME IsFile(newlines), st = SearchFrom(EndOf(newlines)) PROVE ScopeInv
  OBVIOUS
<1>1. FileSize \in Nat /\ StartOf(1) = 0 /\ 1 \in 1..Len(newlines)
  BY FileFacts
<1>2. st = [start |-> 0, end |-> FileSize, probe |-> FileSize \div 2, last |-> -1, depth |-> 0]
  BY DEF SearchFrom, FileSize
<1>3. st \in [start : Nat, end : Nat, probe : Nat, last : Int, depth : Nat]
      /\ st.start <= st.end /\ st.probe = st.start + (st.end - st.start) \div 2
  BY <1>1, <1>2
<1>4. Boundary(st.start) /\ Boundary(st.end)
  BY <1>1, <1>2 DEF Boundary
<1>5. TooEarlyBefore(st.start) /\ TooLateFrom(st.end)
  <2>1. \A k \in 1..Len(newlines) : ~(StartOf(k) < 0) /\ ~(FileSize <= StartOf(k))
    <3> TAKE k \in 1..Len(newlines)
    <3>1. StartOf(k) \in Nat /\ newlines[k] \in Nat /\ StartOf(k) < newlines[k] /\ newlines[k] < FileSize
      BY LineFacts
    <3> QED
      BY <1>1, <3>1
  <2> QED
    BY <1>2, <2>1 DEF TooEarlyBefore, TooLateFrom
<1> QED
  BY <1>2, <1>3, <1>4, <1>5 DEF ScopeInv, ScopeOf

-----------------------------------------------------------------------------
(* The files of the log: they are not empty, and each goes on where the    *)
(* older one ends.                                                         *)

LogInv ==
    /\ inLog \in 0..Size /\ inOld \in 0..inLog
    /\ qFiles \in Seq([before : Nat, file : Seq(Nat)])
    /\ IF qFiles = <<>> THEN inLog = 0 ELSE qFiles[1].before = 0
    /\ \A i \in 1..Len(qFiles) :
         /\ IsFile(qFiles[i].file)
         /\ qFiles[i].before + Len(qFiles[i].file)
              = IF i = Len(qFiles) THEN inLog ELSE qFiles[i + 1].before
         /\ qFiles[i].before + Len(qFiles[i].file) <= inLog

\* The files a log may have.
LEMMA LogFileIs ==
    ASSUME NEW n \in 0..Size, NEW file \in LogFiles[n]
    PROVE  /\ file \in Seq(Nat) /\ Len(file) = n
           /\ file = <<>> <=> n = 0
           /\ file # <<>> => IsFile(file)
<1>0. n \in Nat /\ MaxEntrySize \in Nat
  BY QLogSearchAssumption, QLogFileAssumption
<1>1. LogFiles[n] = Files(n, Lengths)
  BY DEF LogFiles
<1>2. /\ file \in [1..n -> 0..(n * MaxEntrySize)]
      /\ \A k \in 1..n : file[k] - LineStart(file, k) \in Lengths
  BY <1>1 DEF Files
<1>3. \A x \in 0..(n * MaxEntrySize) : x \in Nat
  BY <1>0
<1>4. file \in [1..n -> Nat]
  BY <1>2, <1>3
<1>5. file \in Seq(Nat) /\ Len(file) = n
  BY <1>0, <1>4, IsASeq, LenProperties
<1>6. file = <<>> <=> n = 0
  BY <1>5, EmptySeq
<1>7. \A k \in 1..n : file[k] <= Furthest
  <2>1. Size \in Nat /\ n <= Size
    BY QLogSearchAssumption
  <2>2. n * MaxEntrySize <= Size * MaxEntrySize
    BY <1>0, <2>1
  <2>3. n * MaxEntrySize \in Nat /\ Size * MaxEntrySize \in Nat
    BY <1>0, <2>1
  <2> QED
    BY <1>2, <2>2, <2>3 DEF Furthest
<1>8. file # <<>> => IsFile(file)
  BY <1>2, <1>5, <1>7, QLogSearchAssumption DEF IsFile
<1> QED
  BY <1>5, <1>6, <1>8

\* The files are so from the start.
LEMMA LogInit == Init => LogInv
<1> SUFFICES ASSUME Init PROVE LogInv
  OBVIOUS
<1> DEFINE Q == [before : Nat, file : Seq(Nat)]
<1>1. Size \in Nat /\ inLog \in 0..Size /\ inOld \in 0..inLog
  BY QLogSearchAssumption DEF Init
<1>2. inOld \in 0..Size /\ inLog - inOld \in 0..Size /\ inOld \in Nat /\ inLog \in Nat
  BY <1>1
<1>3. PICK old \in LogFiles[inOld], log \in LogFiles[inLog - inOld] : qFiles = QFiles(old, log)
  BY DEF Init
<1>4. /\ old \in Seq(Nat) /\ Len(old) = inOld /\ (old = <<>> <=> inOld = 0)
      /\ old # <<>> => IsFile(old)
  BY <1>2, LogFileIs
<1>5. /\ log \in Seq(Nat) /\ Len(log) = inLog - inOld /\ (log = <<>> <=> inLog - inOld = 0)
      /\ log # <<>> => IsFile(log)
  BY <1>2, LogFileIs
<1> DEFINE a == [before |-> 0, file |-> old]
           b == [before |-> inOld, file |-> log]
<1>6. a \in Q /\ b \in Q
  BY <1>2, <1>4, <1>5
<1>7. CASE old = <<>> /\ log = <<>>
  <2>1. qFiles = <<>>
    BY <1>3, <1>7 DEF QFiles, QFile
  <2>2. qFiles \in Seq(Q) /\ Len(qFiles) = 0 /\ inLog = 0
    BY <1>2, <1>4, <1>5, <1>7, <2>1
  <2> QED
    BY <1>1, <2>1, <2>2 DEF LogInv
<1>8. CASE old # <<>> /\ log = <<>>
  <2>1. qFiles = <<a>>
    BY <1>3, <1>8 DEF QFiles, QFile
  <2>2. qFiles \in Seq(Q) /\ Len(qFiles) = 1 /\ qFiles # <<>> /\ inOld = inLog
    BY <1>2, <1>4, <1>5, <1>6, <1>8, <2>1
  <2>3. qFiles[1].before = 0 /\ qFiles[1].file = old
    BY <2>1
  <2> QED
    BY <1>1, <1>2, <1>4, <1>8, <2>2, <2>3 DEF LogInv
<1>9. CASE old = <<>> /\ log # <<>>
  <2>1. qFiles = <<b>>
    BY <1>3, <1>9 DEF QFiles, QFile
  <2>2. qFiles \in Seq(Q) /\ Len(qFiles) = 1 /\ qFiles # <<>> /\ inOld = 0
    BY <1>4, <1>6, <1>9, <2>1
  <2>3. qFiles[1].before = 0 /\ qFiles[1].file = log
    BY <2>1, <2>2
  <2> QED
    BY <1>1, <1>2, <1>5, <1>9, <2>2, <2>3 DEF LogInv
<1>10. CASE old # <<>> /\ log # <<>>
  <2>1. qFiles = <<a>> \o <<b>>
    BY <1>3, <1>10 DEF QFiles, QFile
  <2>2. /\ <<a>> \in Seq(Q) /\ <<b>> \in Seq(Q) /\ Len(<<a>>) = 1 /\ Len(<<b>>) = 1
        /\ <<a>>[1] = a /\ <<b>>[1] = b
    BY <1>6
  <2>3. /\ qFiles \in Seq(Q) /\ Len(qFiles) = 2
        /\ qFiles[1] = a /\ qFiles[2] = b
    <3> DEFINE s == <<a>>
               t == <<b>>
               c == s \o t
    <3>1. s \in Seq(Q) /\ t \in Seq(Q) /\ Len(s) = 1 /\ Len(t) = 1 /\ s[1] = a /\ t[1] = b
      BY <2>2
    <3> HIDE DEF s, t, a, b, Q
    <3>2. /\ c \in Seq(Q) /\ Len(c) = Len(s) + Len(t)
          /\ \A i \in 1..(Len(s) + Len(t)) : c[i] = IF i <= Len(s) THEN s[i] ELSE t[i - Len(s)]
      BY <3>1, ConcatProperties
    <3> HIDE DEF c
    <3>3. Len(c) = 2 /\ c[1] = s[1]
      BY <3>1, <3>2
    <3>4. c[2] = t[1]
      BY <3>1, <3>2
    <3> QED
      BY <2>1, <3>1, <3>2, <3>3, <3>4 DEF s, t, c
  <2>4. /\ qFiles[1].before = 0 /\ qFiles[1].file = old
        /\ qFiles[2].before = inOld /\ qFiles[2].file = log
    <3>1. a.before = 0 /\ a.file = old
      OBVIOUS
    <3>2. b.before = inOld /\ b.file = log
      OBVIOUS
    <3> HIDE DEF a, b
    <3> QED
      BY <2>3, <3>1, <3>2
  <2>5. qFiles # <<>>
    <3>1. Len(qFiles) # 0
      BY <2>3
    <3>2. Len(<< >>) = 0
      OBVIOUS
    <3> QED
      BY <3>1, <3>2
  <2>6. \A i \in 1..Len(qFiles) :
         /\ IsFile(qFiles[i].file)
         /\ qFiles[i].before + Len(qFiles[i].file)
              = IF i = Len(qFiles) THEN inLog ELSE qFiles[i + 1].before
         /\ qFiles[i].before + Len(qFiles[i].file) <= inLog
    <3> TAKE i \in 1..Len(qFiles)
    <3>1. i = 1 \/ i = 2
      BY <2>3
    <3>2. CASE i = 1
      BY <1>1, <1>2, <1>4, <1>10, <2>3, <2>4, <3>2
    <3>3. CASE i = 2
      BY <1>1, <1>2, <1>5, <1>10, <2>3, <2>4, <3>3
    <3> QED
      BY <3>1, <3>2, <3>3
  <2> QED
    BY <1>1, <2>3, <2>4, <2>6, <2>5 DEF LogInv
<1> QED
  BY <1>7, <1>8, <1>9, <1>10

-----------------------------------------------------------------------------
(* The invariant of a search.                                              *)

\* The file in use is one of the files.
Opened ==
    /\ current \in 1..Len(qFiles)
    /\ newlines = qFiles[current].file /\ base = qFiles[current].before

\* Reading is at the record that comes after those it has returned.
InOrder == \E e \in Nat : PositionOf(e) /\ e + Len(reads) = FirstRead

PlainTypes ==
    /\ bufferStart \in Nat \cup {-1}
    /\ olderThan \in Nat /\ timestamp \in Nat /\ oldest \in Nat
    /\ memory \subseteq Entries /\ fileEntries \subseteq Entries
    /\ reads \in Seq(Nat)

SearchInv ==
    /\ LogInv /\ PlainTypes
    /\ at \in {"seek", "sought", "skip", "read"} => Opened
    /\ at = "seek" => ScopeInv
    /\ at = "sought" => SoughtAs(result, position)
    /\ at \in {"seek", "sought", "skip"} => reads = <<>>
    /\ at \in {"skip", "read"} => InOrder
    /\ ReadsBackwards

\* What is known of the file in use.
LEMMA OpenedIs ==
    LogInv /\ Opened => /\ IsFile(newlines) /\ base \in Nat
                        /\ base + Len(newlines) <= inLog
                        /\ current = Len(qFiles) => base + Len(newlines) = inLog
<1> SUFFICES ASSUME LogInv, Opened
             PROVE  /\ IsFile(newlines) /\ base \in Nat
                    /\ base + Len(newlines) <= inLog
                    /\ current = Len(qFiles) => base + Len(newlines) = inLog
  OBVIOUS
<1>1. qFiles[current] \in [before : Nat, file : Seq(Nat)]
  BY ElementOfSeq DEF LogInv, Opened
<1> QED
  BY <1>1 DEF LogInv, Opened

\* A file of the log, by its place.
LEMMA FileAt ==
    ASSUME LogInv, NEW i \in 1..Len(qFiles)
    PROVE  /\ Len(qFiles) \in Nat /\ IsFile(qFiles[i].file) /\ qFiles[i].before \in Nat
           /\ Len(qFiles[i].file) \in Nat
           /\ i = Len(qFiles) => qFiles[i].before + Len(qFiles[i].file) = inLog
           /\ i # Len(qFiles) => qFiles[i].before + Len(qFiles[i].file) = qFiles[i + 1].before
<1>1. qFiles[i] \in [before : Nat, file : Seq(Nat)] /\ Len(qFiles) \in Nat
  BY ElementOfSeq, LenProperties DEF LogInv
<1>2. Len(qFiles[i].file) \in Nat
  BY <1>1, LenProperties
<1> QED
  BY <1>1, <1>2 DEF LogInv

\* Seeking the start of a file leaves it open at its last record.
LEMMA SeekStartOpens ==
    ASSUME LogInv, NEW i \in 1..Len(qFiles), SeekStartOf(i), UNCHANGED logVars,
           NEW e, e = qFiles[i].before + Len(qFiles[i].file)
    PROVE  LogInv' /\ Opened' /\ bufferStart' = -1 /\ PositionOf(e)'
<1>1. LogInv' /\ Opened' /\ bufferStart' = -1
  BY DEF LogInv, Opened, SeekStartOf, SeekStart, logVars
<1>2. /\ newlines' = qFiles[i].file /\ base' = qFiles[i].before
      /\ position' = SeekEnd(EndOf(newlines'))
  BY DEF SeekStartOf, SeekStart
<1>3. IsFile(newlines')
  BY <1>2, FileAt
<1>4. (IsFile(newlines) /\ position = SeekEnd(EndOf(newlines)) => PositionOf(base + Len(newlines)))'
  BY EndIsLast, PTL
<1>5. PositionOf(base + Len(newlines))'
  BY <1>2, <1>3, <1>4 DEF SeekEnd, EndOf, IsFile, LineStart
<1> QED
  BY <1>1, <1>2, <1>5 DEF PositionOf

\* Beginning to search a file leaves it open with the whole of it as scope.
LEMMA BeginSeekOpens ==
    ASSUME LogInv, NEW i \in 1..Len(qFiles), BeginSeekTSOf(i), UNCHANGED logVars
    PROVE  LogInv' /\ Opened' /\ ScopeInv' /\ bufferStart' = -1
<1>1. LogInv' /\ Opened' /\ bufferStart' = -1
  BY DEF LogInv, Opened, BeginSeekTSOf, BeginSeekTS, logVars
<1>2. newlines' = qFiles[i].file /\ st' = SearchFrom(EndOf(newlines'))
  BY DEF BeginSeekTSOf, BeginSeekTS
<1>3. IsFile(newlines')
  BY <1>2, FileAt
<1>4. (IsFile(newlines) /\ st = SearchFrom(EndOf(newlines)) => ScopeInv)'
  BY SearchBegins, PTL
<1> QED
  BY <1>1, <1>2, <1>3, <1>4 DEF SearchFrom, EndOf, IsFile, LineStart

\* Where nothing is read, what was read stays in order.
LEMMA ReadsKept ==
    ASSUME SearchInv, UNCHANGED <<reads, result, timestamp, inLog>>
    PROVE  ReadsBackwards' /\ reads' \in Seq(Nat)
  BY DEF SearchInv, PlainTypes, ReadsBackwards, FirstRead

\* A search that has read nothing yet has nothing out of order.
LEMMA NothingRead ==
    ASSUME reads' = <<>>
    PROVE  ReadsBackwards' /\ reads' \in Seq(Nat) /\ Len(reads)' = 0
<1>1. reads' \in Seq(Nat) /\ Len(reads') = 0
  OBVIOUS
<1> QED
  BY <1>1 DEF ReadsBackwards

\* The first record to be read is a number.
LEMMA FirstReadNat ==
    ASSUME SearchInv PROVE FirstRead \in Nat
  BY QLogSearchAssumption DEF SearchInv, PlainTypes, LogInv, FirstRead

-----------------------------------------------------------------------------
(* Every step keeps the invariant.                                         *)

\* The invariant holds at first.
LEMMA SearchInit == Init => SearchInv
<1> SUFFICES ASSUME Init PROVE SearchInv
  OBVIOUS
<1>1. LogInv
  BY LogInit
<1>2. reads = <<>> /\ reads \in Seq(Nat) /\ Len(reads) = 0
  BY DEF Init
<1>3. PlainTypes
  BY <1>2, QLogSearchAssumption DEF Init, PlainTypes
<1>4. ReadsBackwards
  BY <1>2 DEF ReadsBackwards
<1>5. at = "ask"
  BY DEF Init
<1> QED
  BY <1>1, <1>3, <1>4, <1>5 DEF SearchInv

\* A request opens the newest file, at its end or to search it.
LEMMA MemoryKeeps ==
    ASSUME SearchInv, SearchMemory PROVE SearchInv'
<1>1. /\ LogInv /\ UNCHANGED logVars /\ UNCHANGED olderThan /\ olderThan \in Nat
      /\ timestamp' = olderThan /\ result' = "none" /\ reads' = <<>>
      /\ memory' \subseteq Entries /\ fileEntries' = {} /\ oldest' = 0
      /\ inLog \in Nat /\ Size \in Nat
  BY QLogSearchAssumption DEF SearchInv, PlainTypes, LogInv, SearchMemory, Entries
<1>2. ReadsBackwards' /\ reads' \in Seq(Nat) /\ Len(reads)' = 0
  BY <1>1, NothingRead
<1>3. FirstRead' = inLog
  BY <1>1 DEF FirstRead, logVars
<1>4. CASE Newest = 0 /\ at' = "answer" /\ UNCHANGED <<newlines, base, st, position, bufferStart, current>>
  <2>1. LogInv' /\ PlainTypes'
    BY <1>1, <1>2, <1>4 DEF LogInv, PlainTypes, SearchInv, logVars
  <2> QED
    BY <1>2, <1>4, <2>1 DEF SearchInv
<1>5. ASSUME Newest # 0 PROVE Newest \in 1..Len(qFiles)
  <2>1. Len(qFiles) \in Nat
    BY <1>1, LenProperties DEF LogInv
  <2> QED
    BY <1>5, <2>1 DEF Newest
<1>6. CASE Newest # 0 /\ SeekStartOf(Newest) /\ at' = "read"
  <2>1. PICK i \in 1..Len(qFiles), e \in Nat : i = Newest /\ e = inLog
    BY <1>1, <1>5, <1>6
  <2>2. qFiles[i].before + Len(qFiles[i].file) = e
    BY <1>1, <2>1, FileAt DEF Newest
  <2>3. LogInv' /\ Opened' /\ bufferStart' = -1 /\ PositionOf(e)'
    BY <1>1, <1>6, <2>1, <2>2, SeekStartOpens
  <2>4. InOrder'
    BY <1>2, <1>3, <2>3, <2>1 DEF InOrder
  <2>5. PlainTypes'
    BY <1>1, <1>2, <2>3 DEF PlainTypes
  <2> QED
    BY <1>2, <1>6, <2>3, <2>4, <2>5 DEF SearchInv
<1>7. CASE Newest # 0 /\ BeginSeekTSOf(Newest) /\ at' = "seek"
  <2>1. LogInv' /\ Opened' /\ ScopeInv' /\ bufferStart' = -1
    BY <1>1, <1>5, <1>7, BeginSeekOpens
  <2>2. PlainTypes'
    BY <1>1, <1>2, <2>1 DEF PlainTypes
  <2> QED
    BY <1>1, <1>2, <1>7, <2>1, <2>2 DEF SearchInv
<1> QED
  BY <1>4, <1>6, <1>7 DEF SearchMemory

\* A step of seekTS keeps the scope or ends with what holds of the file.
LEMMA SeekKeeps ==
    ASSUME SearchInv, SeekStep PROVE SearchInv'
<1>1. /\ SeekTSStep /\ at = "seek" /\ Opened /\ LogInv /\ ScopeInv /\ PlainTypes /\ reads = <<>>
      /\ UNCHANGED <<newlines, base, timestamp, bufferStart, reads>>
      /\ UNCHANGED <<logVars, searchVars, olderThan, current, pages>>
  BY DEF SearchInv, SeekStep, SeekTSStep
<1>2. IsFile(newlines) /\ base \in Nat /\ timestamp \in Nat
  BY <1>1, OpenedIs DEF PlainTypes
<1>3. LogInv' /\ PlainTypes' /\ Opened' /\ reads' = <<>>
  BY <1>1 DEF LogInv, PlainTypes, Opened, logVars, searchVars
<1>4. ReadsBackwards'
  BY <1>3, NothingRead
<1>5. CASE at' = "sought" /\ SoughtAs(result', position')
  <2>1. SoughtAs(result, position)'
    BY <1>1, <1>5 DEF SoughtAs
  <2> QED
    BY <1>3, <1>4, <1>5, <2>1 DEF SearchInv
<1>6. CASE at' = "seek" /\ ScopeOf(st') /\ UNCHANGED <<result, position>>
  <2>1. ScopeInv'
    BY <1>1, <1>6 DEF ScopeInv, ScopeOf, Boundary, TooEarlyBefore, TooLateFrom, ReadLast,
                      FileSize, StartOf
  <2> QED
    BY <1>3, <1>4, <1>6, <2>1 DEF SearchInv
<1> QED
  BY <1>1, <1>2, <1>5, <1>6, SearchStep

\* The end of seekTS leads to the older file, to a record, or to no reading.
LEMMA SoughtKeeps ==
    ASSUME SearchInv, SeekTS PROVE SearchInv'
<1>1. /\ at = "sought" /\ AfterSeek /\ Opened /\ LogInv /\ PlainTypes /\ reads = <<>>
      /\ SoughtAs(result, position)
      /\ UNCHANGED <<timestamp, result, reads, logVars, searchVars, olderThan, pages>>
  BY DEF SearchInv, SeekTS
<1>2. IsFile(newlines) /\ base \in Nat /\ timestamp \in Nat /\ inLog \in Nat
  BY <1>1, OpenedIs, QLogSearchAssumption DEF PlainTypes, LogInv
<1>3. ReadsBackwards' /\ reads' = <<>> /\ reads' \in Seq(Nat) /\ Len(reads)' = 0
  BY <1>1, NothingRead
<1>4. FirstRead' = FirstRead
  BY <1>1 DEF FirstRead, logVars
<1>5. CASE result = "found" /\ at' = "skip"
           /\ UNCHANGED <<newlines, base, st, position, bufferStart, current>>
  <2>1. LogInv' /\ PlainTypes' /\ Opened'
    BY <1>1, <1>5 DEF LogInv, PlainTypes, Opened, logVars, searchVars
  <2>2. PICK k \in 1..Len(newlines) : Timestamp(base + k) = timestamp /\ position = newlines[k]
    BY <1>1, <1>5 DEF SoughtAs
  <2>3. base + k \in Nat /\ FirstRead = base + k
    BY <1>2, <1>5, <2>2, LineFacts DEF FirstRead, Timestamp
  <2>4. PositionOf(base + k)'
    BY <1>5, <2>2 DEF PositionOf
  <2>5. InOrder'
    BY <1>3, <1>4, <1>5, <2>3, <2>4 DEF InOrder
  <2> QED
    BY <1>3, <1>5, <2>1, <2>5 DEF SearchInv
<1>6. CASE result = "TooEarly" /\ current > 1 /\ BeginSeekTSOf(current - 1) /\ at' = "seek"
  <2>1. current - 1 \in 1..Len(qFiles)
    <3>1. Len(qFiles) \in Nat
      BY <1>1, LenProperties DEF LogInv
    <3> QED
      BY <1>1, <1>6, <3>1 DEF Opened
  <2>2. LogInv' /\ Opened' /\ ScopeInv' /\ bufferStart' = -1
    BY <1>1, <1>6, <2>1, BeginSeekOpens
  <2>3. PlainTypes'
    BY <1>1, <1>3, <2>2 DEF PlainTypes, searchVars
  <2> QED
    BY <1>3, <1>6, <2>2, <2>3 DEF SearchInv
<1>7. CASE result = "TooLate" /\ SeekStartOf(Newest) /\ at' = "skip"
  <2>1. Newest \in 1..Len(qFiles)
    <3>1. Len(qFiles) \in Nat
      BY <1>1, LenProperties DEF LogInv
    <3> QED
      BY <1>1, <3>1 DEF Opened, Newest
  <2>2. PICK i \in 1..Len(qFiles), e \in Nat : i = Newest /\ e = inLog
    BY <1>2, <2>1
  <2>3. qFiles[i].before + Len(qFiles[i].file) = e
    BY <1>1, <2>2, FileAt DEF Newest
  <2>4. LogInv' /\ Opened' /\ bufferStart' = -1 /\ PositionOf(e)'
    BY <1>1, <1>7, <2>2, <2>3, SeekStartOpens
  <2>5. FirstRead' = inLog
    BY <1>4, <1>7 DEF FirstRead
  <2>6. InOrder'
    BY <1>3, <2>4, <2>2, <2>5 DEF InOrder
  <2>7. PlainTypes'
    BY <1>1, <1>3, <2>4 DEF PlainTypes, searchVars
  <2> QED
    BY <1>3, <1>7, <2>4, <2>6, <2>7 DEF SearchInv
<1>8. CASE at' = "answer" /\ UNCHANGED <<newlines, base, st, position, bufferStart, current>>
  <2>1. LogInv' /\ PlainTypes'
    BY <1>1, <1>8 DEF LogInv, PlainTypes, logVars, searchVars
  <2> QED
    BY <1>3, <1>8, <2>1 DEF SearchInv
<1> QED
  BY <1>1, <1>5, <1>6, <1>7, <1>8 DEF AfterSeek

\* What reading a record does.
LEMMA RecordRead ==
    ASSUME SearchInv, at \in {"skip", "read"}, ReadNext,
           UNCHANGED <<timestamp, result, logVars, current>>
    PROVE  /\ LogInv' /\ Opened' /\ InOrder' /\ ReadsBackwards'
           /\ bufferStart' \in Nat /\ reads' \in Seq(Nat)
           /\ \E e \in 1..inLog : /\ reads' = Append(reads, e)
                                  /\ e + Len(reads) = FirstRead
                                  /\ Len(reads') = Len(reads) + 1 /\ reads'[Len(reads')] = e
<1>1. /\ LogInv /\ PlainTypes /\ Opened /\ InOrder /\ ReadsBackwards
      /\ IsFile(newlines) /\ base \in Nat /\ base + Len(newlines) <= inLog
  BY OpenedIs DEF SearchInv
<1>2. PICK e \in Nat : PositionOf(e) /\ e + Len(reads) = FirstRead
  BY <1>1 DEF InOrder
<1>3. /\ bufferStart' \in Nat
      /\ \E k \in 1..Len(newlines) : e = base + k
      /\ reads' = Append(reads, e)
      /\ \/ position' = 0 /\ e - 1 = base
         \/ \E k \in 1..Len(newlines) : position' = newlines[k] /\ e - 1 = base + k
  BY <1>1, <1>2, ReadStep DEF PlainTypes
<1>4. LogInv' /\ Opened' /\ newlines' = newlines /\ base' = base
  BY <1>1 DEF LogInv, Opened, ReadNext, logVars
<1>5. e \in 1..inLog /\ e - 1 \in Nat
  <2>1. PICK k \in 1..Len(newlines) : e = base + k
    BY <1>3
  <2>2. Len(newlines) \in Nat /\ inLog \in Nat
    BY <1>1, LineFacts, QLogSearchAssumption DEF LogInv
  <2>3. k \in Nat /\ k >= 1 /\ k <= Len(newlines)
    BY <2>2
  <2>4. base \in Nat /\ base + Len(newlines) <= inLog
    BY <1>1
  <2>5. base + k >= 1 /\ base + k <= inLog
    BY <2>2, <2>3, <2>4
  <2> QED
    BY <2>1, <2>2, <2>3, <2>4, <2>5
<1>6. /\ reads \in Seq(Nat) /\ Len(reads) \in Nat
      /\ reads' \in Seq(Nat) /\ Len(reads') = Len(reads) + 1
      /\ reads'[Len(reads) + 1] = e
      /\ \A i \in 1..Len(reads) : reads'[i] = reads[i]
  BY <1>1, <1>3, AppendProperties, LenProperties DEF PlainTypes
<1>7. FirstRead' = FirstRead /\ FirstRead \in Nat
  BY FirstReadNat DEF FirstRead, logVars
<1>8. PositionOf(e - 1)'
  BY <1>3, <1>4 DEF PositionOf
<1>9. InOrder'
  <2>1. /\ e \in Nat /\ Len(reads) \in Nat /\ e + Len(reads) = FirstRead
        /\ Len(reads') = Len(reads) + 1 /\ FirstRead' = FirstRead
    BY <1>2, <1>6, <1>7
  <2>2. (e - 1) + (Len(reads) + 1) = e + Len(reads)
    BY <2>1
  <2>3. e - 1 \in Nat /\ PositionOf(e - 1)' /\ (e - 1) + Len(reads') = FirstRead'
    BY <1>5, <1>8, <2>1, <2>2
  <2> QED
    BY <2>3 DEF InOrder
<1>10. ReadsBackwards'
  <2> SUFFICES ASSUME NEW i \in 1..Len(reads')
               PROVE  reads'[i] = FirstRead' + 1 - i /\ reads'[i] > 0
    BY DEF ReadsBackwards
  <2>1. CASE i = Len(reads) + 1
    BY <1>2, <1>5, <1>6, <1>7, <2>1
  <2>2. CASE i # Len(reads) + 1
    <3>1. i \in 1..Len(reads)
      BY <1>6, <2>2
    <3>2. reads[i] = FirstRead + 1 - i /\ reads[i] > 0
      BY <1>1, <3>1 DEF ReadsBackwards
    <3>3. reads'[i] = reads[i]
      BY <1>6, <3>1
    <3> QED
      BY <1>7, <3>2, <3>3
  <2> QED
    BY <2>1, <2>2
<1> QED
  BY <1>2, <1>3, <1>4, <1>5, <1>6, <1>9, <1>10

\* Reading past a record is a read.
LEMMA SkipKeeps ==
    ASSUME SearchInv, SkipRecord PROVE SearchInv'
<1>1. /\ at = "skip" /\ at' = "read" /\ ReadNext /\ PlainTypes
      /\ UNCHANGED <<timestamp, result, logVars, current>>
      /\ UNCHANGED <<searchVars, olderThan>>
  BY DEF SearchInv, SkipRecord
<1>2. /\ LogInv' /\ Opened' /\ InOrder' /\ ReadsBackwards'
      /\ bufferStart' \in Nat /\ reads' \in Seq(Nat)
  BY <1>1, RecordRead
<1>3. PlainTypes'
  BY <1>1, <1>2 DEF PlainTypes, searchVars
<1> QED
  BY <1>1, <1>2, <1>3 DEF SearchInv

\* At the start of a file, all its records and those of newer files are read.
LEMMA AtStart ==
    ASSUME SearchInv, at = "read", position = 0
    PROVE  base + Len(reads) = FirstRead
<1>1. IsFile(newlines) /\ InOrder
  BY OpenedIs DEF SearchInv
<1>2. PICK e \in Nat : PositionOf(e) /\ e + Len(reads) = FirstRead
  BY <1>1 DEF InOrder
<1>3. \A k \in 1..Len(newlines) : newlines[k] # 0
  <2> TAKE k \in 1..Len(newlines)
  <2>1. StartOf(k) \in Nat /\ StartOf(k) < newlines[k]
    BY <1>1, LineFacts
  <2> QED
    BY <2>1
<1> QED
  BY <1>2, <1>3 DEF PositionOf

\* The reader goes on with the older file.
LEMMA NextFileKeeps ==
    ASSUME SearchInv, NextFile PROVE SearchInv'
<1>1. /\ at = "read" /\ at' = "read" /\ PlainTypes /\ LogInv /\ Opened /\ InOrder
      /\ position = 0 /\ current > 1 /\ SeekStartOf(current - 1)
      /\ UNCHANGED <<timestamp, result, reads, logVars, searchVars, olderThan>>
  BY DEF SearchInv, NextFile, MayRead
<1>2. ReadsBackwards' /\ reads' \in Seq(Nat)
  BY <1>1, ReadsKept DEF logVars
<1>3. base \in Nat /\ base + Len(reads) = FirstRead
  BY <1>1, OpenedIs, AtStart
<1>4. PICK e \in Nat : e = base
  BY <1>3
<1>5. PICK i \in 1..Len(qFiles) : i = current - 1
  <2>1. Len(qFiles) \in Nat
    BY <1>1, LenProperties DEF LogInv
  <2> QED
    BY <1>1, <2>1 DEF Opened
<1>6. qFiles[i].before + Len(qFiles[i].file) = e
  <2>1. i # Len(qFiles) /\ i + 1 = current
    <3>1. Len(qFiles) \in Nat
      BY <1>1, LenProperties DEF LogInv
    <3> QED
      BY <1>1, <1>5, <3>1 DEF Opened
  <2> QED
    BY <1>1, <1>4, <2>1, FileAt DEF Opened
<1>7. LogInv' /\ Opened' /\ bufferStart' = -1 /\ PositionOf(e)'
  BY <1>1, <1>5, <1>6, SeekStartOpens
<1>8. InOrder'
  BY <1>1, <1>3, <1>4, <1>7 DEF InOrder, FirstRead, logVars
<1>9. PlainTypes'
  BY <1>1, <1>2, <1>7 DEF PlainTypes, searchVars
<1> QED
  BY <1>1, <1>2, <1>7, <1>8, <1>9 DEF SearchInv

\* Processing a record is a read, and its time is a number.
LEMMA EntryKeeps ==
    ASSUME SearchInv, ReadNextEntry PROVE SearchInv'
<1>1. /\ at = "read" /\ at' = "read" /\ ReadNext /\ PlainTypes /\ LogInv
      /\ UNCHANGED <<timestamp, result, logVars, current>>
      /\ UNCHANGED <<olderThan, memory>>
  BY DEF SearchInv, ReadNextEntry, MayRead
<1>2. /\ LogInv' /\ Opened' /\ InOrder' /\ ReadsBackwards'
      /\ bufferStart' \in Nat /\ reads' \in Seq(Nat)
      /\ \E e \in 1..inLog : reads'[Len(reads')] = e
  BY <1>1, RecordRead
<1>3. PICK e \in 1..inLog : reads'[Len(reads')] = e
  BY <1>2
<1>4. e \in Nat /\ e \in Entries /\ e # 0
  BY <1>1, QLogSearchAssumption DEF LogInv, Entries
<1>5. /\ oldest' = ProcessedTime(e)
      /\ fileEntries' = fileEntries \cup (IF Matches(e) THEN {e} ELSE {})
  BY <1>3, <1>4 DEF ReadNextEntry
<1>6. oldest' \in Nat /\ fileEntries' \subseteq Entries
  BY <1>1, <1>4, <1>5 DEF ProcessedTime, Timestamp, PlainTypes
<1>7. PlainTypes'
  BY <1>1, <1>2, <1>6 DEF PlainTypes
<1> QED
  BY <1>1, <1>2, <1>7 DEF SearchInv

\* Where reading stops, what was read stays.
LEMMA StopKeeps ==
    ASSUME SearchInv, EndOfFiles \/ StopReading PROVE SearchInv'
<1>1. /\ at' = "answer" /\ UNCHANGED <<fileVars, timestamp, reads, logVars, olderThan, current>>
      /\ UNCHANGED <<memory, fileEntries>>
      /\ oldest' = 0 \/ oldest' = oldest
  BY DEF EndOfFiles, StopReading, searchVars
<1>2. ReadsBackwards' /\ reads' \in Seq(Nat)
  BY <1>1, ReadsKept DEF logVars, fileVars
<1>3. LogInv' /\ PlainTypes'
  BY <1>1 DEF SearchInv, LogInv, PlainTypes, logVars, fileVars
<1> QED
  BY <1>1, <1>2, <1>3 DEF SearchInv

\* The least entry of a page.
LEMMA MinOfPage ==
    ASSUME NEW page, page \subseteq Entries, page # {}
    PROVE  Min(page) \in page /\ (\A e \in page : Min(page) <= e)
<1>1. page \subseteq Nat /\ page \subseteq Int
  BY QLogSearchAssumption DEF Entries
<1>2. PICK x \in page : \A y \in page : x <= y
  BY <1>1, LeastNat
<1> QED
  BY <1>1, <1>2, MinIs

\* An answer names a time, and moves nothing.
LEMMA AnswerKeeps ==
    ASSUME SearchInv, Answer PROVE SearchInv'
<1> DEFINE page == Cut(memory \cup fileEntries)
<1>1. /\ UNCHANGED <<fileVars, timestamp, reads, logVars, searchVars, current>>
      /\ olderThan' = OldestTime(page) /\ at' \in {"end", "ask"}
  BY DEF Answer
<1>2. page \subseteq Entries
  BY DEF SearchInv, PlainTypes, Cut
<1>3. olderThan' \in Nat
  <2>1. CASE page = {}
    BY <1>1, <2>1 DEF OldestTime, SearchInv, PlainTypes
  <2>2. CASE page # {}
    <3> HIDE DEF page
    <3>1. Min(page) \in Entries
      BY <1>2, <2>2, MinOfPage
    <3>2. Min(page) \in Nat
      BY <3>1, QLogSearchAssumption DEF Entries
    <3> QED
      BY <1>1, <2>2, <3>2 DEF OldestTime, Timestamp
  <2> QED
    BY <2>1, <2>2
<1>4. ReadsBackwards' /\ reads' \in Seq(Nat)
  BY <1>1, ReadsKept DEF logVars, fileVars
<1>5. LogInv' /\ PlainTypes'
  BY <1>1, <1>3, <1>4 DEF SearchInv, LogInv, PlainTypes, logVars, fileVars, searchVars
<1> QED
  BY <1>1, <1>4, <1>5 DEF SearchInv

\* Stuttering changes nothing.
LEMMA IdleKeeps ==
    ASSUME SearchInv, UNCHANGED vars PROVE SearchInv'
<1>1. UNCHANGED <<newlines, base, st, result, position, bufferStart, timestamp, at, reads>>
  BY DEF vars, fileVars
<1>2. UNCHANGED <<kind, inOld, inLog, qFiles, memory, fileEntries, oldest, olderThan, current>>
  BY DEF vars, logVars, searchVars
<1>3. LogInv' /\ PlainTypes'
  BY <1>1, <1>2 DEF SearchInv, LogInv, PlainTypes
<1>4. ReadsBackwards'
  BY <1>1, <1>2, ReadsKept
<1>5. at \in {"seek", "sought", "skip", "read"} => Opened'
  BY <1>1, <1>2 DEF SearchInv, Opened
<1>6. at = "seek" => ScopeInv'
  BY <1>1 DEF SearchInv, ScopeInv, ScopeOf, Boundary, TooEarlyBefore, TooLateFrom, ReadLast,
              FileSize, StartOf
<1>7. at = "sought" => SoughtAs(result, position)'
  BY <1>1 DEF SearchInv, SoughtAs
<1>8. at \in {"skip", "read"} => InOrder'
  BY <1>1, <1>2 DEF SearchInv, InOrder, PositionOf, FirstRead
<1> QED
  BY <1>1, <1>3, <1>4, <1>5, <1>6, <1>7, <1>8 DEF SearchInv

\* The invariant of a search.
LEMMA SearchInvariant == Spec => []SearchInv
<1>1. Init => SearchInv
  BY SearchInit
<1>2. SearchInv /\ [Next]_vars => SearchInv'
  BY MemoryKeeps, SeekKeeps, SoughtKeeps, SkipKeeps, NextFileKeeps, EntryKeeps, StopKeeps,
     AnswerKeeps, IdleKeeps DEF Next, End
<1> QED
  BY <1>1, <1>2, PTL DEF Spec

-----------------------------------------------------------------------------
(* The depth of the search.  A step halves the scope, and one that is left *)
(* empty is looked at once more, so a search of fewer than 2^n bytes ends  *)
(* after n + 1 steps that narrow it.                                       *)

\* The powers of two.
PowersOfTwo(pow) ==
    /\ pow \in [Nat -> Nat \ {0}]
    /\ pow[0] = 1
    /\ \A n \in Nat : pow[n + 1] = 2 * pow[n]

\* maxSearchDepth is enough for the files there may be.
DeepEnough(pow) ==
    /\ PowersOfTwo(pow)
    /\ MaxSearchDepth >= 2
    /\ Furthest + 1 < pow[MaxSearchDepth - 2]

\* The steps that are left are enough for the scope.
WithinDepth(pow, s) ==
    \/ /\ s.depth <= MaxSearchDepth - 2
       /\ s.end - s.start < pow[MaxSearchDepth - 2 - s.depth]
    \/ /\ s.depth = MaxSearchDepth - 1
       /\ s.start = s.end /\ s.last = s.end

\* Half of what is less than a power of two is less than the one before it.
LEMMA Halved ==
    ASSUME NEW pow, PowersOfTwo(pow), NEW n \in Nat, NEW w \in Nat, w > 0, w < pow[n]
    PROVE  n >= 1 /\ n - 1 \in Nat /\ w \div 2 < pow[n - 1]
<1>1. n # 0
  <2> SUFFICES ASSUME n = 0 PROVE FALSE
    OBVIOUS
  <2>1. w < 1
    BY DEF PowersOfTwo
  <2> QED
    BY <2>1
<1>2. PICK m \in Nat : m + 1 = n
  BY <1>1
<1>3. pow[n] = 2 * pow[m] /\ pow[m] \in Nat
  BY <1>2 DEF PowersOfTwo
<1>4. w < 2 * pow[m]
  BY <1>3
<1>5. w \div 2 < pow[m]
  BY <1>3, <1>4
<1>6. m = n - 1
  BY <1>2
<1> QED
  BY <1>2, <1>5, <1>6

\* A scope that is not empty is at least halved.
LEMMA HalfLeft ==
    ASSUME IsFile(newlines), ScopeInv, st.start < st.end, NEW k \in 1..Len(newlines),
           StartOf(k) <= st.probe, st.probe <= newlines[k]
    PROVE  /\ StartOf(k) - st.start <= (st.end - st.start) \div 2
           /\ st.end - (newlines[k] + 1) <= (st.end - st.start) \div 2
           /\ NextScope(k).end - NextScope(k).start <= (st.end - st.start) \div 2
<1>1. /\ st.start \in Nat /\ st.end \in Nat /\ st.probe = st.start + (st.end - st.start) \div 2
      /\ newlines[k] \in Nat /\ StartOf(k) \in Nat
  BY LineFacts DEF ScopeInv, ScopeOf
<1>2. StartOf(k) - st.start <= (st.end - st.start) \div 2
  BY <1>1
<1>3. st.end - (newlines[k] + 1) <= (st.end - st.start) \div 2
  BY <1>1
<1> QED
  BY <1>2, <1>3 DEF NextScope, ScopeAfter

\* An empty one stays, as the place that was looked at last.
LEMMA EmptyStays ==
    ASSUME IsFile(newlines), base \in Nat, timestamp \in Nat, ScopeInv, st.start = st.end,
           NEW k \in 1..Len(newlines), StartOf(k) <= st.probe, st.probe <= newlines[k]
    PROVE  /\ StartOf(k) = st.end
           /\ NextScope(k).start = NextScope(k).end /\ NextScope(k).last = NextScope(k).end
<1>1. st.probe = st.end /\ st.start \in Nat /\ st.end \in Nat /\ StartOf(k) \in Nat
  BY ProbeIn, LineFacts
<1>2. st.start <= StartOf(k)
  BY LineInScope
<1>3. StartOf(k) = st.end
  BY <1>1, <1>2
<1>4. timestamp < Timestamp(base + k) /\ Timestamp(base + k) \in Nat
  BY <1>1, <1>3, Times DEF ScopeInv, ScopeOf, TooLateFrom
<1>5. NextScope(k) = ScopeAfter(st.start, StartOf(k), k)
  BY <1>4 DEF NextScope
<1> QED
  BY <1>3, <1>5 DEF ScopeAfter

\* A step of the search never goes too deep.
LEMMA DepthStep ==
    ASSUME NEW pow, DeepEnough(pow), IsFile(newlines), base \in Nat, timestamp \in Nat,
           ScopeInv, WithinDepth(pow, st), SeekTSStep
    PROVE  \/ at' = "sought" /\ result' # "TooDeep"
           \/ at' = "seek" /\ WithinDepth(pow, st')
<1>1. CASE st.probe = FileSize
  BY <1>1, StepAtEnd
<1>2. CASE st.probe # FileSize
  <2>1. st.probe \in Nat /\ st.probe < FileSize
    BY <1>2, ProbeIn, FileFacts
  <2>2. PICK k \in 1..Len(newlines) : StartOf(k) <= st.probe /\ st.probe <= newlines[k]
    BY <2>1, LineOf
  <2>3. CASE LineIdxError(StartOf(k)) # "none"
    <3>1. at' = "sought" /\ result' = LineIdxError(StartOf(k))
      BY <2>2, <2>3, StepOnLine
    <3>2. LineIdxError(StartOf(k)) # "TooDeep"
      BY <2>2, <2>3, GivesUp
    <3> QED
      BY <3>1, <3>2
  <2>4. CASE LineIdxError(StartOf(k)) = "none" /\ Timestamp(base + k) = timestamp
    <3>1. at' = "sought" /\ result' = "found"
      BY <2>2, <2>4, StepOnLine
    <3> QED
      BY <3>1
  <2>5. CASE LineIdxError(StartOf(k)) = "none" /\ Timestamp(base + k) # timestamp
    <3>1. /\ st' = NextScope(k)
          /\ IF st.depth + 1 >= MaxSearchDepth
             THEN at' = "sought" /\ result' = "TooDeep"
             ELSE UNCHANGED <<at, result>>
      BY <2>2, <2>5, StepOnLine
    <3>2. at = "seek"
      BY DEF SeekTSStep
    <3>3. st.depth \in Nat /\ st.start \in Nat /\ st.end \in Nat /\ st.start <= st.end
      BY DEF ScopeInv, ScopeOf
    <3>4. MaxSearchDepth \in Nat /\ MaxSearchDepth >= 2
      BY QLogFileAssumption DEF DeepEnough
    <3>5. NextScope(k).depth = st.depth + 1
      BY DEF NextScope, ScopeAfter
    <3>6. st.depth <= MaxSearchDepth - 2
          /\ st.end - st.start < pow[MaxSearchDepth - 2 - st.depth]
      <4> SUFFICES ASSUME st.start = st.end, st.last = st.end PROVE FALSE
        BY DEF WithinDepth
      <4>1. StartOf(k) = st.last
        BY <2>2, EmptyStays
      <4> QED
        BY <2>5, <4>1 DEF LineIdxError
    <3>7. WithinDepth(pow, NextScope(k))
      <4>1. CASE st.start = st.end
        <5>1. NextScope(k).start = NextScope(k).end /\ NextScope(k).last = NextScope(k).end
          BY <2>2, <4>1, EmptyStays
        <5>2. NextScope(k).start \in Nat
          BY <3>3, <4>1, LineFacts DEF NextScope, ScopeAfter
        <5>3. CASE st.depth = MaxSearchDepth - 2
          BY <3>4, <3>5, <5>1, <5>3 DEF WithinDepth
        <5>4. CASE st.depth # MaxSearchDepth - 2
          <6>1. MaxSearchDepth - 2 - (st.depth + 1) \in Nat
                /\ st.depth + 1 <= MaxSearchDepth - 2
            BY <3>3, <3>4, <3>6, <5>4
          <6>2. pow[MaxSearchDepth - 2 - (st.depth + 1)] \in Nat \ {0}
            BY <6>1 DEF DeepEnough, PowersOfTwo
          <6>3. NextScope(k).end - NextScope(k).start = 0
            BY <5>1, <5>2
          <6>4. NextScope(k).end - NextScope(k).start
                  < pow[MaxSearchDepth - 2 - (st.depth + 1)]
            BY <6>2, <6>3
          <6> QED
            BY <3>5, <6>1, <6>4 DEF WithinDepth
        <5> QED
          BY <5>3, <5>4
      <4>2. CASE st.start < st.end
        <5> DEFINE w == st.end - st.start
                   n == MaxSearchDepth - 2 - st.depth
        <5>1. n \in Nat /\ w \in Nat /\ w > 0 /\ w < pow[n]
          BY <3>3, <3>4, <3>6, <4>2
        <5>2. n >= 1 /\ n - 1 \in Nat /\ w \div 2 < pow[n - 1]
          <6> HIDE DEF n, w
          <6> QED
            BY <5>1, Halved DEF DeepEnough
        <5>3. NextScope(k).end - NextScope(k).start <= w \div 2
          BY <2>2, <4>2, HalfLeft
        <5>4. n - 1 = MaxSearchDepth - 2 - (st.depth + 1) /\ st.depth + 1 <= MaxSearchDepth - 2
          BY <3>3, <3>4, <5>2
        <5>5. pow[n - 1] \in Nat /\ w \div 2 \in Nat
              /\ NextScope(k).end - NextScope(k).start \in Int
          <6>1. newlines[k] \in Nat /\ StartOf(k) \in Nat
            BY LineFacts
          <6>2. NextScope(k).end \in Nat /\ NextScope(k).start \in Nat
            BY <3>3, <6>1 DEF NextScope, ScopeAfter
          <6>3. pow[n - 1] \in Nat
            BY <5>2 DEF DeepEnough, PowersOfTwo
          <6>4. w \div 2 \in Nat
            BY <5>1
          <6> QED
            BY <6>2, <6>3, <6>4
        <5>6. NextScope(k).end - NextScope(k).start < pow[n - 1]
          <6> HIDE DEF n, w
          <6> QED
            BY <5>2, <5>3, <5>5
        <5> QED
          BY <3>5, <5>4, <5>6 DEF WithinDepth
      <4> QED
        BY <3>3, <4>1, <4>2
    <3>8. ~(st.depth + 1 >= MaxSearchDepth)
      BY <3>3, <3>4, <3>6
    <3> QED
      BY <3>1, <3>2, <3>7, <3>8
  <2> QED
    BY <2>3, <2>4, <2>5
<1> QED
  BY <1>1, <1>2

\* The search never ends by its depth.
DepthInv(pow) ==
    /\ at = "seek" => WithinDepth(pow, st)
    /\ at = "sought" => result # "TooDeep"

\* A file that is opened for a search is not too long for it.
LEMMA BeginsWithinDepth ==
    ASSUME NEW pow, DeepEnough(pow), LogInv, NEW i \in 1..Len(qFiles), BeginSeekTSOf(i)
    PROVE  WithinDepth(pow, st')
<1>1. IsFile(qFiles[i].file) /\ Len(qFiles[i].file) \in Nat
  BY FileAt
<1>2. PICK file : file = qFiles[i].file
  OBVIOUS
<1>3. EndOf(file) = file[Len(file)] + 1 /\ file[Len(file)] \in Nat /\ file[Len(file)] <= Furthest
  <2>1. file \in Seq(Nat) /\ file # <<>> /\ Len(file) \in 1..Len(file)
    BY <1>1, <1>2, EmptySeq DEF IsFile
  <2>2. file[Len(file)] \in Nat
    BY <2>1, ElementOfSeq
  <2> QED
    BY <1>1, <1>2, <2>1, <2>2 DEF EndOf, IsFile
<1>4. Furthest \in Nat /\ MaxSearchDepth \in Nat /\ pow[MaxSearchDepth - 2] \in Nat
      /\ MaxSearchDepth - 2 \in Nat
  <2>1. Furthest \in Nat /\ MaxSearchDepth \in Nat
    BY QLogFileAssumption, QLogSearchAssumption DEF Furthest
  <2>2. MaxSearchDepth - 2 \in Nat
    BY <2>1 DEF DeepEnough
  <2> QED
    BY <2>1, <2>2 DEF DeepEnough, PowersOfTwo
<1>5. EndOf(file) \in Nat /\ EndOf(file) < pow[MaxSearchDepth - 2]
  BY <1>3, <1>4 DEF DeepEnough
<1>6. st'.start = 0 /\ st'.end = EndOf(file) /\ st'.depth = 0
  BY <1>2 DEF BeginSeekTSOf, BeginSeekTS, SearchFrom
<1>7. /\ st'.depth <= MaxSearchDepth - 2 /\ MaxSearchDepth - 2 - st'.depth = MaxSearchDepth - 2
      /\ st'.end - st'.start = EndOf(file)
  BY <1>4, <1>5, <1>6
<1> QED
  BY <1>5, <1>7 DEF WithinDepth

\* Every step keeps it.
LEMMA DepthKeeps ==
    ASSUME NEW pow, DeepEnough(pow), SearchInv, DepthInv(pow), [Next]_vars
    PROVE  DepthInv(pow)'
<1>1. CASE SearchMemory
  <2>1. CASE at' = "seek"
    <3>1. BeginSeekTSOf(Newest) /\ Newest # 0 /\ LogInv
      BY <1>1, <2>1 DEF SearchMemory, SearchInv
    <3>2. Newest \in 1..Len(qFiles)
      <4>1. Len(qFiles) \in Nat
        BY <3>1, LenProperties DEF LogInv
      <4> QED
        BY <3>1, <4>1 DEF Newest
    <3>3. WithinDepth(pow, st')
      BY <3>1, <3>2, BeginsWithinDepth
    <3> QED
      BY <2>1, <3>3 DEF DepthInv, WithinDepth
  <2>2. CASE at' # "seek"
    BY <1>1, <2>2 DEF SearchMemory, DepthInv
  <2> QED
    BY <2>1, <2>2
<1>2. CASE SeekStep
  <2>1. /\ SeekTSStep /\ IsFile(newlines) /\ base \in Nat /\ timestamp \in Nat /\ ScopeInv
        /\ WithinDepth(pow, st)
    BY <1>2, OpenedIs DEF SearchInv, PlainTypes, SeekStep, SeekTSStep, DepthInv
  <2>2. \/ at' = "sought" /\ result' # "TooDeep"
        \/ at' = "seek" /\ WithinDepth(pow, st')
    BY <2>1, DepthStep
  <2> QED
    BY <2>2 DEF DepthInv, WithinDepth
<1>3. CASE SeekTS
  <2>1. CASE at' = "seek"
    <3>1. BeginSeekTSOf(current - 1) /\ current > 1 /\ LogInv /\ Opened
      BY <1>3, <2>1 DEF SeekTS, AfterSeek, SearchInv
    <3>2. current - 1 \in 1..Len(qFiles)
      <4>1. Len(qFiles) \in Nat
        BY <3>1, LenProperties DEF LogInv
      <4> QED
        BY <3>1, <4>1 DEF Opened
    <3>3. WithinDepth(pow, st')
      BY <3>1, <3>2, BeginsWithinDepth
    <3> QED
      BY <2>1, <3>3 DEF DepthInv, WithinDepth
  <2>2. CASE at' # "seek"
    BY <1>3, <2>2 DEF SeekTS, AfterSeek, DepthInv
  <2> QED
    BY <2>1, <2>2
<1>4. CASE SkipRecord \/ NextFile \/ ReadNextEntry \/ EndOfFiles \/ StopReading \/ Answer
  BY <1>4 DEF SkipRecord, NextFile, ReadNextEntry, EndOfFiles, StopReading, Answer, MayRead, DepthInv
<1>5. CASE UNCHANGED vars
  BY <1>5 DEF vars, fileVars, DepthInv, WithinDepth
<1> QED
  BY <1>1, <1>2, <1>3, <1>4, <1>5 DEF Next, End

-----------------------------------------------------------------------------
(* Theorems about a search of one file, and about reading.                 *)

\* Narrowing never cuts off the record that is looked for: seekTSStep moves
\* the scope past the line it has read, in files of any lines that fit an
\* entry.
THEOREM ScopeHoldsTheorem == Spec => []ScopeHolds
<1>1. SearchInv => ScopeHolds
  <2> SUFFICES ASSUME SearchInv, at = "seek", NEW k \in 1..Len(newlines),
                      Timestamp(base + k) = timestamp
               PROVE  st.start <= StartOf(k) /\ newlines[k] < st.end
    BY DEF ScopeHolds
  <2>1. IsFile(newlines) /\ base \in Nat /\ timestamp \in Nat /\ ScopeInv
    BY OpenedIs DEF SearchInv, PlainTypes
  <2> QED
    BY <2>1, ScopeKeeps
<1> QED
  BY <1>1, SearchInvariant, PTL

\* seekTS of a file ends the way a search over its records would: with the
\* record, on the right side of all records, or with none; and maxSearchDepth
\* is never reached.
THEOREM SeekCorrectTheorem ==
    ASSUME NEW pow, DeepEnough(pow) PROVE Spec => []SeekCorrect
<1>1. Init => DepthInv(pow)
  BY DEF Init, DepthInv
<1>2. SearchInv /\ DepthInv(pow) /\ [Next]_vars => DepthInv(pow)'
  BY DepthKeeps
<1>3. SearchInv /\ DepthInv(pow) => SeekCorrect
  <2> SUFFICES ASSUME SearchInv, DepthInv(pow), at = "sought" PROVE result = SeekResult
    BY DEF SeekCorrect
  <2>1. /\ IsFile(newlines) /\ base \in Nat /\ timestamp \in Nat
        /\ SoughtAs(result, position) /\ result # "TooDeep"
    BY OpenedIs DEF SearchInv, PlainTypes, DepthInv
  <2> QED
    BY <2>1, SoughtIsResult
<1> QED
  BY <1>1, <1>2, <1>3, SearchInvariant, PTL DEF Spec

\* ReadNext returns whole records, from the first to be read backwards through
\* both files, and leaves none out: no buffer it reads through cuts a line.
THEOREM ReadsBackwardsTheorem == Spec => []ReadsBackwards
<1>1. SearchInv => ReadsBackwards
  BY DEF SearchInv
<1> QED
  BY <1>1, SearchInvariant, PTL

-----------------------------------------------------------------------------
(* The pages.  Each has entries that are older than those of the earlier   *)
(* ones, because a search for the time of an entry never reads a record    *)
(* that is not older.                                                      *)

\* Between answers: olderThan is a time of an entry, and it divides the
\* entries of the pages from what comes.
AskedInv ==
    /\ kind \in [Entries -> Kinds] /\ asked \in Nat
    /\ olderThan = 0 \/ \E e \in Entries : Timestamp(e) = olderThan
    /\ at # "end" =>
         /\ asked # 0 => olderThan # 0 /\ olderThan <= asked
         /\ \A p \in pages : \A e \in p : olderThan # 0 /\ olderThan <= Timestamp(e)
    /\ UNION pages \subseteq Results
    /\ \A p, q \in pages : p # q => p \cap q = {}

\* While a place is looked for: it is not in a newer file.
SeekInv ==
    /\ at \in {"seek", "sought", "skip", "read"} => timestamp = olderThan
    /\ at \in {"seek", "sought", "skip"} => olderThan # 0
    /\ at \in {"seek", "sought"} /\ current # Len(qFiles) =>
         timestamp < Timestamp(base + Len(newlines) + 1)

\* What comes after it is older.
PlaceInv ==
    olderThan # 0 =>
      /\ at \in {"skip", "read"} => result = "found" \/ Timestamp(inLog) < olderThan
      /\ at = "read" => reads # <<>>

\* What has been found is what was asked for.
FoundInv ==
    at \notin {"ask", "end"} =>
      /\ \A e \in memory : e > inLog /\ MatchesInMemory(e)
      /\ \A e \in fileEntries : Matches(e)
      /\ oldest # 0 => \E e \in Entries : oldest = Timestamp(e) /\ IsOlder(e)

PageInv == AskedInv /\ SeekInv /\ PlaceInv /\ FoundInv

\* Before the answer, nothing is asked and nothing shown.
LEMMA AskedSame ==
    ASSUME AskedInv, UNCHANGED <<logVars, olderThan, pages>>, at # "end", at' # "end"
    PROVE  AskedInv'
  BY DEF AskedInv, Results, logVars

\* The same for what was found.
LEMMA FoundSame ==
    ASSUME FoundInv, UNCHANGED <<logVars, olderThan, memory, fileEntries, oldest>>,
           at \notin {"ask", "end"}
    PROVE  FoundInv'
  BY DEF FoundInv, MatchesInMemory, Matches, IsOlder, logVars

\* A time too late for a file is too late for all of them, if it is that of an
\* entry: there is none between two files.
LEMMA TooLateForAll ==
    ASSUME SearchInv, AskedInv, SeekInv, at = "sought", result = "TooLate"
    PROVE  Timestamp(inLog) < olderThan
<1>1. /\ IsFile(newlines) /\ base \in Nat /\ timestamp = olderThan /\ olderThan # 0
      /\ SoughtAs(result, position)
      /\ current = Len(qFiles) => base + Len(newlines) = inLog
  BY OpenedIs DEF SearchInv, SeekInv
<1>2. Len(newlines) \in Nat /\ Len(newlines) \in 1..Len(newlines)
  BY <1>1, FileFacts
<1>3. Timestamp(base + Len(newlines)) < timestamp
  BY <1>1, <1>2 DEF SoughtAs
<1>4. current = Len(qFiles)
  <2> SUFFICES ASSUME current # Len(qFiles) PROVE FALSE
    OBVIOUS
  <2>1. timestamp < Timestamp(base + Len(newlines) + 1)
    BY DEF SeekInv
  <2>2. PICK e \in Entries : Timestamp(e) = timestamp
    BY <1>1 DEF AskedInv
  <2>3. e \in Nat
    BY QLogSearchAssumption DEF Entries
  <2> QED
    BY <1>1, <1>2, <1>3, <2>1, <2>2, <2>3 DEF Timestamp
<1> QED
  BY <1>1, <1>3, <1>4

\* A record that is read after the place that was looked for is older.
LEMMA OlderIsRead ==
    ASSUME SearchInv, PageInv, at = "read", NEW e \in Nat, e + Len(reads) = FirstRead
    PROVE  IsOlder(e)
<1> SUFFICES ASSUME olderThan # 0 PROVE Timestamp(e) < olderThan
  BY DEF IsOlder
<1>1. Len(reads) \in Nat /\ Len(reads) # 0
  BY LenProperties, EmptySeq DEF SearchInv, PlainTypes, PageInv, PlaceInv
<1>2. PICK f \in Entries : Timestamp(f) = olderThan
  BY DEF PageInv, AskedInv
<1>3. f \in Nat /\ inLog \in Nat
  BY QLogSearchAssumption DEF Entries, SearchInv, LogInv
<1>4. CASE result = "found"
  <2>1. FirstRead = olderThan \div 2
    BY <1>4 DEF FirstRead, PageInv, SeekInv
  <2>2. FirstRead = f
    BY <1>2, <1>3, <2>1 DEF Timestamp
  <2> QED
    BY <1>1, <1>2, <1>3, <2>2 DEF Timestamp
<1>5. CASE result # "found"
  <2>1. FirstRead = inLog /\ Timestamp(inLog) < olderThan
    BY <1>5 DEF FirstRead, PageInv, PlaceInv
  <2> QED
    BY <1>1, <1>2, <1>3, <2>1 DEF Timestamp
<1> QED
  BY <1>4, <1>5

\* The first request.
LEMMA PageInit == Init /\ AsksForEntry => PageInv
<1> SUFFICES ASSUME Init, AsksForEntry PROVE PageInv
  OBVIOUS
<1>1. /\ asked \in Nat /\ olderThan = asked /\ pages = {} /\ at = "ask"
      /\ kind \in [Entries -> Kinds]
  BY QLogSearchAssumption DEF Init
<1> QED
  BY <1>1 DEF AsksForEntry, PageInv, AskedInv, SeekInv, PlaceInv, FoundInv

\* The search of the memory, and the opening of a file.
LEMMA MemoryKeepsPages ==
    ASSUME SearchInv, PageInv, SearchMemory PROVE PageInv'
<1>1. /\ at = "ask" /\ UNCHANGED logVars /\ UNCHANGED <<olderThan, pages>>
      /\ timestamp' = olderThan /\ result' = "none" /\ reads' = <<>>
      /\ memory' = {e \in (inLog + 1)..Size : MatchesInMemory(e)}
      /\ fileEntries' = {} /\ oldest' = 0 /\ at' \in {"answer", "read", "seek"}
      /\ at' = "read" => olderThan = 0
      /\ at' = "seek" => olderThan # 0 /\ current' = Newest
  BY DEF SearchMemory, BeginSeekTSOf
<1>2. inLog \in Nat /\ Size \in Nat
  BY QLogSearchAssumption DEF SearchInv, LogInv
<1>3. AskedInv'
  BY <1>1, AskedSame DEF PageInv
<1>4. SeekInv' /\ PlaceInv'
  BY <1>1 DEF SeekInv, PlaceInv, Newest, logVars
<1>5. FoundInv'
  <2>1. \A e \in memory' : e > inLog /\ MatchesInMemory(e)
    BY <1>1, <1>2
  <2> QED
    BY <1>1, <2>1 DEF FoundInv, MatchesInMemory, IsOlder, logVars
<1> QED
  BY <1>3, <1>4, <1>5 DEF PageInv

\* A step of the search of a file.
LEMMA SeekKeepsPages ==
    ASSUME PageInv, SeekStep PROVE PageInv'
<1>1. /\ at = "seek" /\ at' \in {"seek", "sought"}
      /\ UNCHANGED <<newlines, base, timestamp, logVars, olderThan, pages, current>>
      /\ UNCHANGED <<memory, fileEntries, oldest>>
  BY DEF SeekStep, SeekTSStep, EndSeekTS, searchVars
<1>2. AskedInv' /\ FoundInv'
  BY <1>1, AskedSame, FoundSame DEF PageInv
<1>3. SeekInv' /\ PlaceInv'
  BY <1>1 DEF PageInv, SeekInv, PlaceInv, logVars
<1> QED
  BY <1>2, <1>3 DEF PageInv

\* What is made of its end.
LEMMA SoughtKeepsPages ==
    ASSUME SearchInv, PageInv, SeekTS PROVE PageInv'
<1>1. /\ at = "sought" /\ AfterSeek /\ at' \in {"skip", "seek", "answer"}
      /\ UNCHANGED <<timestamp, result, logVars, olderThan, pages>>
      /\ UNCHANGED <<memory, fileEntries, oldest>>
      /\ olderThan # 0 /\ timestamp = olderThan
      /\ at' = "skip" => result \in {"found", "TooLate"}
      /\ at' = "seek" => result = "TooEarly" /\ current > 1 /\ BeginSeekTSOf(current - 1)
  BY DEF SeekTS, AfterSeek, searchVars, PageInv, SeekInv
<1>2. AskedInv' /\ FoundInv'
  BY <1>1, AskedSame, FoundSame DEF PageInv
<1>3. PlaceInv'
  <2>1. result = "TooLate" => Timestamp(inLog) < olderThan
    BY <1>1, TooLateForAll DEF PageInv
  <2> QED
    BY <1>1, <2>1 DEF PlaceInv, logVars
<1>4. SeekInv'
  <2>1. CASE at' # "seek"
    BY <1>1, <2>1 DEF SeekInv
  <2>2. CASE at' = "seek"
    <3>1. /\ LogInv /\ Opened /\ SoughtAs(result, position) /\ IsFile(newlines) /\ base \in Nat
      BY <1>1, OpenedIs DEF SearchInv
    <3>2. timestamp < Timestamp(base + 1)
      BY <1>1, <2>2, <3>1, FileFacts DEF SoughtAs
    <3>3. current \in Nat /\ Len(qFiles) \in Nat /\ current <= Len(qFiles) /\ current > 1
      BY <1>1, <2>2, <3>1, LenProperties DEF LogInv, Opened
    <3>4. PICK i \in 1..Len(qFiles) : i = current - 1
      BY <3>3
    <3>5. i # Len(qFiles) /\ i + 1 = current
      BY <3>3, <3>4
    <3>6. qFiles[i].before + Len(qFiles[i].file) = base
      BY <3>1, <3>5, FileAt DEF Opened
    <3>7. newlines' = qFiles[i].file /\ base' = qFiles[i].before
      BY <1>1, <2>2, <3>4 DEF BeginSeekTSOf, BeginSeekTS
    <3>8. timestamp' < Timestamp(base' + Len(newlines') + 1)
      BY <1>1, <3>2, <3>6, <3>7
    <3> QED
      BY <1>1, <2>2, <3>8 DEF SeekInv, Timestamp
  <2> QED
    BY <2>1, <2>2
<1> QED
  BY <1>2, <1>3, <1>4 DEF PageInv

\* The record that is read past.
LEMMA SkipKeepsPages ==
    ASSUME SearchInv, PageInv, SkipRecord PROVE PageInv'
<1>1. /\ at = "skip" /\ at' = "read" /\ ReadNext
      /\ UNCHANGED <<timestamp, result, logVars, current>>
      /\ UNCHANGED <<olderThan, pages, memory, fileEntries, oldest>>
  BY DEF SkipRecord, searchVars
<1>2. AskedInv' /\ FoundInv'
  BY <1>1, AskedSame, FoundSame DEF PageInv
<1>3. reads' # <<>>
  <2>1. Len(reads') = Len(reads) + 1 /\ reads' \in Seq(Nat)
    BY <1>1, RecordRead
  <2>2. Len(reads) \in Nat
    BY LenProperties DEF SearchInv, PlainTypes
  <2> QED
    BY <2>1, <2>2, EmptySeq
<1>4. SeekInv' /\ PlaceInv'
  BY <1>1, <1>3 DEF PageInv, SeekInv, PlaceInv, logVars
<1> QED
  BY <1>2, <1>4 DEF PageInv

\* A record that is processed.
LEMMA EntryKeepsPages ==
    ASSUME SearchInv, PageInv, ReadNextEntry PROVE PageInv'
<1>1. /\ at = "read" /\ at' = "read" /\ ReadNext
      /\ UNCHANGED <<timestamp, result, logVars, current>>
      /\ UNCHANGED <<olderThan, pages, memory>>
  BY DEF ReadNextEntry, MayRead
<1>2. PICK e \in 1..inLog : /\ e + Len(reads) = FirstRead /\ reads' = Append(reads, e)
                            /\ Len(reads') = Len(reads) + 1 /\ reads'[Len(reads')] = e
  BY <1>1, RecordRead
<1>3. e \in Nat /\ e \in Entries /\ e # 0
  BY QLogSearchAssumption DEF SearchInv, LogInv, Entries
<1>4. /\ oldest' = ProcessedTime(e)
      /\ fileEntries' = fileEntries \cup (IF Matches(e) THEN {e} ELSE {})
  BY <1>2, <1>3 DEF ReadNextEntry
<1>5. IsOlder(e)
  BY <1>1, <1>2, <1>3, OlderIsRead
<1>6. AskedInv'
  BY <1>1, AskedSame DEF PageInv
<1>7. reads' # <<>>
  <2>1. Len(reads) \in Nat
    BY LenProperties DEF SearchInv, PlainTypes
  <2> QED
    BY <1>2, <2>1
<1>8. SeekInv' /\ PlaceInv'
  BY <1>1, <1>7 DEF PageInv, SeekInv, PlaceInv, logVars
<1>9. \A f \in fileEntries' : Matches(f)
  BY <1>1, <1>4 DEF PageInv, FoundInv
<1>10. oldest' # 0 => oldest' = Timestamp(e)
  BY <1>4 DEF ProcessedTime
<1>11. FoundInv'
  BY <1>1, <1>3, <1>5, <1>9, <1>10 DEF PageInv, FoundInv, Matches, MatchesInMemory, IsOlder, logVars
<1> QED
  BY <1>6, <1>8, <1>11 DEF PageInv

\* The steps that read no record.
LEMMA OtherKeepsPages ==
    ASSUME PageInv, NextFile \/ EndOfFiles \/ StopReading PROVE PageInv'
<1>1. /\ at = "read" /\ at' \in {"read", "answer"}
      /\ UNCHANGED <<timestamp, reads, logVars, olderThan, pages, memory, fileEntries>>
      /\ at' = "read" => UNCHANGED result
      /\ oldest' = 0 \/ oldest' = oldest
  BY DEF NextFile, EndOfFiles, StopReading, MayRead, searchVars, fileVars
<1>2. AskedInv'
  BY <1>1, AskedSame DEF PageInv
<1>3. SeekInv' /\ PlaceInv'
  BY <1>1 DEF PageInv, SeekInv, PlaceInv, logVars
<1>4. FoundInv'
  BY <1>1 DEF PageInv, FoundInv, Matches, MatchesInMemory, IsOlder, logVars
<1> QED
  BY <1>2, <1>3, <1>4 DEF PageInv

\* An answer shows what was found, which are results.
LEMMA FoundAreResults ==
    ASSUME SearchInv, PageInv, at = "answer", NEW e \in memory \cup fileEntries
    PROVE  /\ e \in Results /\ IsOlder(e) /\ Timestamp(e) \in Nat
           /\ olderThan # 0 => Timestamp(e) < olderThan
<1>1. /\ e \in Entries /\ e \in Nat /\ olderThan \in Nat
  BY QLogSearchAssumption DEF SearchInv, PlainTypes, Entries
<1>2. kind[e] \in {"match", "other", "ignored"} /\ asked \in Nat
  BY <1>1, QLogSearchAssumption DEF PageInv, AskedInv
<1>3. IsOlder(e)
  BY DEF PageInv, FoundInv, Matches, MatchesInMemory
<1>4. kind[e] = "match" \/ (kind[e] = "ignored" /\ e > inLog)
  BY <1>2 DEF PageInv, FoundInv, Matches, MatchesInMemory
<1>5. Timestamp(e) \in Nat /\ (olderThan # 0 => Timestamp(e) < olderThan)
  BY <1>1, <1>3 DEF Timestamp, IsOlder
<1>6. asked = 0 \/ Timestamp(e) < asked
  <2>1. asked # 0 => olderThan # 0 /\ olderThan <= asked
    BY DEF PageInv, AskedInv
  <2> QED
    BY <1>1, <1>2, <1>5, <2>1
<1> QED
  BY <1>1, <1>3, <1>4, <1>5, <1>6 DEF Results

\* The time the next page is asked for is that of an entry, older than what
\* was asked for and not newer than the page.
LEMMA NextTime ==
    ASSUME SearchInv, PageInv, at = "answer",
           NEW page, page \subseteq memory \cup fileEntries
    PROVE  /\ OldestTime(page) # 0 =>
                \E f \in Entries : OldestTime(page) = Timestamp(f) /\ IsOlder(f)
           /\ \A e \in page : OldestTime(page) # 0 /\ OldestTime(page) <= Timestamp(e)
<1>1. page \subseteq Entries /\ (\A e \in page : IsOlder(e) /\ e \in Nat /\ e > 0)
  BY FoundAreResults, QLogSearchAssumption DEF SearchInv, PlainTypes, Entries
<1>2. CASE page = {}
  BY <1>2 DEF OldestTime, PageInv, FoundInv
<1>3. CASE page # {}
  <2>1. PICK m \in page : m = Min(page) /\ \A e \in page : m <= e
    BY <1>1, <1>3, MinOfPage
  <2>2. OldestTime(page) = Timestamp(m)
    BY <1>3, <2>1 DEF OldestTime
  <2> QED
    BY <1>1, <2>1, <2>2 DEF Timestamp
<1> QED
  BY <1>2, <1>3

\* An answer.
LEMMA AnswerKeepsPages ==
    ASSUME SearchInv, PageInv, Answer PROVE PageInv'
<1> DEFINE page == Cut(memory \cup fileEntries)
           time == OldestTime(page)
<1>1. /\ at = "answer" /\ UNCHANGED logVars
      /\ pages' = pages \cup {page} /\ olderThan' = time
      /\ at' = IF time = 0 THEN "end" ELSE "ask"
  BY DEF Answer
<1>2. page \subseteq memory \cup fileEntries
  BY DEF Cut
<1>3. page \subseteq Results
  BY <1>1, <1>2, FoundAreResults
<1>4. \A e \in page : Timestamp(e) \in Nat /\ (olderThan # 0 => Timestamp(e) < olderThan)
  BY <1>1, <1>2, FoundAreResults
<1> HIDE DEF page
<1>5. /\ time # 0 => \E f \in Entries : time = Timestamp(f) /\ IsOlder(f)
      /\ \A e \in page : time # 0 /\ time <= Timestamp(e)
  BY <1>1, <1>2, NextTime
<1> HIDE DEF time
<1>6. /\ asked \in Nat /\ olderThan \in Nat
      /\ asked # 0 => olderThan # 0 /\ olderThan <= asked
      /\ \A p \in pages : \A e \in p : olderThan # 0 /\ olderThan <= Timestamp(e)
      /\ UNION pages \subseteq Results
      /\ \A p, q \in pages : p # q => p \cap q = {}
  BY <1>1 DEF PageInv, AskedInv, SearchInv, PlainTypes
<1>7. time # 0 /\ olderThan # 0 => time \in Nat /\ time < olderThan
  <2> SUFFICES ASSUME time # 0, olderThan # 0 PROVE time \in Nat /\ time < olderThan
    OBVIOUS
  <2>1. PICK f \in Entries : time = Timestamp(f) /\ IsOlder(f)
    BY <1>5
  <2>2. f \in Nat
    BY QLogSearchAssumption DEF Entries
  <2> QED
    BY <2>1, <2>2 DEF IsOlder, Timestamp
<1>8. \A p \in pages : \A e \in p : Timestamp(e) \in Nat
  <2> TAKE p \in pages
  <2> TAKE e \in p
  <2>1. e \in Entries
    BY <1>6 DEF Results
  <2>2. e \in Nat
    BY <2>1, QLogSearchAssumption DEF Entries
  <2> QED
    BY <2>2 DEF Timestamp
<1>9. time # 0 => \A p \in pages : \A e \in p : time <= Timestamp(e)
  <2> SUFFICES ASSUME time # 0, NEW p \in pages, NEW e \in p PROVE time <= Timestamp(e)
    OBVIOUS
  <2> QED
    BY <1>6, <1>7, <1>8
<1>10. \A p \in pages : p \cap page = {}
  <2> SUFFICES ASSUME NEW p \in pages, NEW e \in p, e \in page PROVE FALSE
    OBVIOUS
  <2>1. olderThan <= Timestamp(e) /\ Timestamp(e) < olderThan /\ Timestamp(e) \in Nat
    BY <1>4, <1>6
  <2> QED
    BY <1>6, <2>1
<1>11. Results' = Results /\ kind' \in [Entries -> Kinds] /\ asked' \in Nat
  BY <1>1 DEF Results, logVars, PageInv, AskedInv
<1>12. olderThan' = 0 \/ \E e \in Entries : Timestamp(e) = olderThan'
  BY <1>1, <1>5
<1>13. UNION pages' \subseteq Results'
  BY <1>1, <1>3, <1>6, <1>11
<1>14. \A p, q \in pages' : p # q => p \cap q = {}
  BY <1>1, <1>6, <1>10
<1>15. at' # "end" => /\ asked' # 0 => olderThan' # 0 /\ olderThan' <= asked'
                      /\ \A p \in pages' : \A e \in p :
                           olderThan' # 0 /\ olderThan' <= Timestamp(e)
  <2> SUFFICES ASSUME at' # "end"
               PROVE  /\ asked' # 0 => olderThan' # 0 /\ olderThan' <= asked'
                      /\ \A p \in pages' : \A e \in p :
                           olderThan' # 0 /\ olderThan' <= Timestamp(e)
    OBVIOUS
  <2>1. time # 0 /\ olderThan' = time /\ asked' = asked
    BY <1>1 DEF logVars
  <2>2. asked # 0 => time <= asked
    BY <1>6, <1>7, <2>1
  <2>3. \A p \in pages' : \A e \in p : time <= Timestamp(e)
    BY <1>1, <1>5, <1>9, <2>1
  <2> QED
    BY <2>1, <2>2, <2>3
<1>16. AskedInv'
  BY <1>11, <1>12, <1>13, <1>14, <1>15 DEF AskedInv, Timestamp
<1>17. at' \in {"ask", "end"}
  BY <1>1
<1>18. SeekInv' /\ PlaceInv' /\ FoundInv'
  BY <1>17 DEF SeekInv, PlaceInv, FoundInv
<1> QED
  BY <1>16, <1>18 DEF PageInv

\* Stuttering changes nothing.
LEMMA IdleKeepsPages ==
    ASSUME PageInv, UNCHANGED vars PROVE PageInv'
<1>1. UNCHANGED <<newlines, base, result, timestamp, at, reads, pages>>
  BY DEF vars, fileVars
<1>2. UNCHANGED <<kind, asked, inLog, qFiles, memory, fileEntries, oldest, olderThan, current>>
  BY DEF vars, logVars, searchVars
<1>3. AskedInv'
  BY <1>1, <1>2 DEF PageInv, AskedInv, Results
<1>4. SeekInv' /\ PlaceInv'
  BY <1>1, <1>2 DEF PageInv, SeekInv, PlaceInv
<1>5. FoundInv'
  BY <1>1, <1>2 DEF PageInv, FoundInv, Matches, MatchesInMemory, IsOlder
<1> QED
  BY <1>3, <1>4, <1>5 DEF PageInv

\* Every step keeps the invariant of the pages.
LEMMA PagesKeep ==
    ASSUME SearchInv, PageInv, [Next]_vars PROVE PageInv'
  BY MemoryKeepsPages, SeekKeepsPages, SoughtKeepsPages, SkipKeepsPages, EntryKeepsPages,
     OtherKeepsPages, AnswerKeepsPages, IdleKeepsPages DEF Next, End

\* No step changes what was asked first.
LEMMA AskedKept ==
    ASSUME [Next]_vars PROVE UNCHANGED logVars
  BY DEF Next, vars, SearchMemory, SeekStep, SeekTS, SkipRecord, NextFile, ReadNextEntry, EndOfFiles,
         StopReading, Answer, End

\* It holds for a client that begins with no time or with that of an entry.
LEMMA PagesInvariant == Spec => [](AsksForEntry => PageInv)
<1>1. Init => (AsksForEntry => PageInv)
  BY PageInit
<1>2. SearchInv /\ (AsksForEntry => PageInv) /\ [Next]_vars => (AsksForEntry => PageInv)'
  <2> SUFFICES ASSUME SearchInv, AsksForEntry => PageInv, [Next]_vars, AsksForEntry'
               PROVE  PageInv'
    OBVIOUS
  <2>1. AsksForEntry
    BY AskedKept DEF AsksForEntry, logVars
  <2> QED
    BY <2>1, PagesKeep
<1> QED
  BY <1>1, <1>2, SearchInvariant, PTL DEF Spec

\* A client that begins with no time, or with that of an entry, gets no entry
\* on two pages, and none it did not ask for, however the entries lie in
\* memory and in the two files and whatever ends the reading of each page.
THEOREM PagesDisjointTheorem == Spec => []PagesDisjoint
<1>1. (AsksForEntry => PageInv) => PagesDisjoint
  BY DEF PageInv, AskedInv, PagesDisjoint
<1> QED
  BY <1>1, PagesInvariant, PTL

-----------------------------------------------------------------------------
(* Nothing is left out of the pages, if no host is ignored.                *)

\* What the pages must have.
Wanted == Results \ (IF inLog < Size THEN {inLog} ELSE {})

\* What is not older than olderThan has been shown.
ShownInv ==
    /\ at # "end" /\ olderThan # 0 =>
         \A e \in Wanted : olderThan <= Timestamp(e) => e \in UNION pages
    /\ at = "end" => Wanted \subseteq UNION pages

\* An entry has been returned by ReadNext.
IsRead(e) == e \in 1..inLog /\ FirstRead < e + Len(reads)

\* What was read and is wanted has been found, and reading stops at the end or
\* after a record whose time is known.
WholeInv ==
    /\ limit \in Nat \ {0} /\ maxScan \in Nat /\ total \in Nat
    /\ at \notin {"ask", "end"} =>
         \A e \in (inLog + 1)..Size : MatchesInMemory(e) => e \in memory
    /\ at \in {"seek", "sought", "skip"} => fileEntries = {} /\ oldest = 0 /\ total = 0
    /\ at \in {"read", "answer"} =>
         /\ \A e \in Entries : IsRead(e) /\ Matches(e) /\ (olderThan # 0 => e < FirstRead)
                                 => e \in fileEntries
         /\ \A e \in fileEntries : IsRead(e)
         /\ oldest # 0 => \E e \in Entries : oldest = Timestamp(e) /\ IsRead(e)
         /\ olderThan = 0 => result = "none"
    /\ at = "read" /\ total # 0 => oldest # 0
    /\ at = "answer" =>
         /\ oldest = 0 /\ fileEntries = {} => FirstRead = Len(reads)
         /\ olderThan # 0 => IF result = "found" THEN timestamp = olderThan
                                               ELSE Timestamp(inLog) < olderThan

CompleteInv == ShownInv /\ WholeInv

\* A place that is looked for is found, or all records are older.
LEMMA PlaceIsFound ==
    ASSUME NEW pow, SearchInv, PageInv, DepthInv(pow), at = "sought"
    PROVE  result \in {"found", "TooLate"} \/ (result = "TooEarly" /\ current # 1)
<1>1. /\ IsFile(newlines) /\ base \in Nat /\ timestamp = olderThan /\ olderThan # 0
      /\ SoughtAs(result, position) /\ result # "TooDeep" /\ LogInv /\ Opened
  BY OpenedIs DEF SearchInv, PageInv, SeekInv, DepthInv
<1>2. PICK f \in Entries : Timestamp(f) = timestamp
  BY <1>1 DEF PageInv, AskedInv
<1>3. f \in Nat /\ f >= 1 /\ Len(newlines) \in Nat /\ 1 \in 1..Len(newlines)
  BY <1>1, FileFacts, QLogSearchAssumption DEF Entries
<1>4. result # "NotFound"
  <2> SUFFICES ASSUME result = "NotFound" PROVE FALSE
    OBVIOUS
  <2>1. PICK k \in 1..Len(newlines) : Timestamp(base + k) < timestamp
    BY <1>1 DEF SoughtAs
  <2>2. PICK l \in 1..Len(newlines) : timestamp < Timestamp(base + l)
    BY <1>1 DEF SoughtAs
  <2>3. base + k < f /\ f < base + l
    BY <1>1, <1>2, <1>3, <2>1, <2>2 DEF Timestamp
  <2>4. PICK m \in 1..Len(newlines) : base + m = f
    <3>1. f - base \in 1..Len(newlines) /\ base + (f - base) = f
      BY <1>1, <1>3, <2>3
    <3> QED
      BY <3>1
  <2> QED
    BY <1>1, <1>2, <2>4 DEF SoughtAs
<1>5. ~(result = "TooEarly" /\ current = 1)
  <2> SUFFICES ASSUME result = "TooEarly", current = 1 PROVE FALSE
    OBVIOUS
  <2>1. base = 0
    BY <1>1, EmptySeq DEF LogInv, Opened
  <2>2. timestamp < Timestamp(base + 1)
    BY <1>1, <1>3 DEF SoughtAs
  <2> QED
    BY <1>2, <1>3, <2>1, <2>2 DEF Timestamp
<1> QED
  BY <1>1, <1>4, <1>5 DEF SoughtAs

\* The first request, again.
LEMMA WholeInit == Init => CompleteInv
<1> SUFFICES ASSUME Init PROVE CompleteInv
  OBVIOUS
<1>1. /\ limit \in Nat \ {0} /\ maxScan \in Nat /\ total \in Nat
      /\ at = "ask" /\ olderThan = asked /\ pages = {} /\ asked \in Nat
  BY QLogSearchAssumption DEF Init
<1>2. olderThan # 0 => \A e \in Wanted : ~(olderThan <= Timestamp(e))
  <2> SUFFICES ASSUME olderThan # 0, NEW e \in Wanted PROVE ~(olderThan <= Timestamp(e))
    OBVIOUS
  <2>1. e \in Nat /\ Timestamp(e) < asked
    BY <1>1, QLogSearchAssumption DEF Wanted, Results, Entries
  <2> QED
    BY <1>1, <2>1 DEF Timestamp
<1> QED
  BY <1>1, <1>2 DEF CompleteInv, ShownInv, WholeInv

\* Before the answer, nothing is shown.
LEMMA ShownSame ==
    ASSUME ShownInv, UNCHANGED <<logVars, olderThan, pages>>, at # "end", at' # "end"
    PROVE  ShownInv'
  BY DEF ShownInv, Wanted, Results, logVars

\* What stays as long as nothing is read.
LEMMA FirstReadSame ==
    ASSUME UNCHANGED <<timestamp, result, logVars>> PROVE FirstRead' = FirstRead
  BY DEF FirstRead, logVars

\* The search of the memory.
LEMMA MemoryIsWhole ==
    ASSUME SearchInv, PageInv, CompleteInv, SearchMemory PROVE CompleteInv'
<1>1. /\ at = "ask" /\ UNCHANGED logVars /\ UNCHANGED <<olderThan, pages>>
      /\ timestamp' = olderThan /\ result' = "none" /\ reads' = <<>>
      /\ memory' = {e \in (inLog + 1)..Size : MatchesInMemory(e)}
      /\ fileEntries' = {} /\ oldest' = 0 /\ total' = 0
      /\ at' \in {"answer", "read", "seek"}
      /\ at' = "answer" => Newest = 0
  BY DEF SearchMemory
<1>2. ShownInv'
  BY <1>1, ShownSame DEF CompleteInv
<1>3. /\ inLog \in Nat /\ olderThan \in Nat /\ LogInv
  BY QLogSearchAssumption DEF SearchInv, LogInv, PlainTypes
<1>4. FirstRead' = inLog /\ Len(reads') = 0 /\ inLog' = inLog
  BY <1>1 DEF FirstRead, logVars
<1>5. at' = "answer" => inLog = 0
  BY <1>1, <1>3, EmptySeq DEF LogInv, Newest
<1>6. \A e \in Entries : ~IsRead(e)'
  BY <1>3, <1>4 DEF IsRead
<1>7. /\ limit' \in Nat \ {0} /\ maxScan' \in Nat /\ total' \in Nat
  BY <1>1 DEF CompleteInv, WholeInv, logVars
<1>8. \A e \in (inLog' + 1)..Size : MatchesInMemory(e)' => e \in memory'
  BY <1>1 DEF MatchesInMemory, IsOlder, logVars
<1>9. at' = "answer" =>
        /\ FirstRead' = Len(reads')
        /\ olderThan' # 0 => Timestamp(inLog') < olderThan'
  BY <1>1, <1>3, <1>4, <1>5 DEF Timestamp
<1>10. WholeInv'
  BY <1>1, <1>6, <1>7, <1>8, <1>9 DEF WholeInv, Timestamp
<1> QED
  BY <1>2, <1>10 DEF CompleteInv

\* A step of the search of a file, and what is made of its end.
LEMMA SeekIsWhole ==
    ASSUME NEW pow, SearchInv, PageInv, DepthInv(pow), CompleteInv, SeekStep \/ SeekTS
    PROVE  CompleteInv'
<1>1. /\ at \in {"seek", "sought"}
      /\ UNCHANGED <<logVars, memory, fileEntries, total, oldest, olderThan, pages>>
  BY DEF SeekStep, SeekTSStep, SeekTS, searchVars
<1>2. at' \in {"seek", "sought", "skip"}
  <2>1. CASE SeekStep
    BY <2>1 DEF SeekStep, SeekTSStep, EndSeekTS
  <2>2. CASE SeekTS
    <3>1. at = "sought" /\ AfterSeek
      BY <2>2 DEF SeekTS
    <3>2. result \in {"found", "TooLate"} \/ (result = "TooEarly" /\ current # 1)
      BY <3>1, PlaceIsFound
    <3> QED
      BY <3>1, <3>2 DEF AfterSeek
  <2> QED
    BY <2>1, <2>2
<1>3. ShownInv'
  BY <1>1, <1>2, ShownSame DEF CompleteInv
<1>4. WholeInv'
  BY <1>1, <1>2 DEF CompleteInv, WholeInv, MatchesInMemory, IsOlder, logVars
<1> QED
  BY <1>3, <1>4 DEF CompleteInv

\* The record that is read past.
LEMMA SkipIsWhole ==
    ASSUME SearchInv, PageInv, CompleteInv, SkipRecord PROVE CompleteInv'
<1>1. /\ at = "skip" /\ at' = "read" /\ ReadNext
      /\ UNCHANGED <<timestamp, result, logVars, current>>
      /\ UNCHANGED <<olderThan, pages, memory, fileEntries, total, oldest>>
  BY DEF SkipRecord, searchVars
<1>2. ShownInv'
  BY <1>1, ShownSame DEF CompleteInv
<1>3. olderThan # 0 /\ reads = <<>> /\ FirstRead \in Nat
  BY <1>1, FirstReadNat DEF PageInv, SeekInv, SearchInv
<1>4. Len(reads') = 1
  <2>1. Len(reads') = Len(reads) + 1
    BY <1>1, RecordRead
  <2> QED
    BY <1>3, <2>1
<1>5. FirstRead' = FirstRead
  BY <1>1, FirstReadSame
<1>6. \A e \in Entries : IsRead(e)' => ~(e < FirstRead')
  <2> SUFFICES ASSUME NEW e \in Entries, IsRead(e)' PROVE ~(e < FirstRead')
    OBVIOUS
  <2>1. e \in Nat
    BY QLogSearchAssumption DEF Entries
  <2> QED
    BY <1>3, <1>4, <1>5, <2>1 DEF IsRead
<1>7. /\ limit' \in Nat \ {0} /\ maxScan' \in Nat /\ total' \in Nat
      /\ fileEntries' = {} /\ oldest' = 0 /\ total' = 0
  BY <1>1 DEF CompleteInv, WholeInv, logVars
<1>8. \A e \in (inLog' + 1)..Size : MatchesInMemory(e)' => e \in memory'
  BY <1>1 DEF CompleteInv, WholeInv, MatchesInMemory, IsOlder, logVars
<1>9. WholeInv'
  BY <1>1, <1>3, <1>6, <1>7, <1>8 DEF WholeInv
<1> QED
  BY <1>2, <1>9 DEF CompleteInv

\* A record that is processed; its host is not ignored.
LEMMA EntryIsWhole ==
    ASSUME "ignored" \notin Kinds, SearchInv, PageInv, CompleteInv, ReadNextEntry
    PROVE  CompleteInv'
<1>1. /\ at = "read" /\ at' = "read" /\ ReadNext
      /\ UNCHANGED <<timestamp, result, logVars, current>>
      /\ UNCHANGED <<olderThan, pages, memory>> /\ total' = total + 1
  BY DEF ReadNextEntry, MayRead
<1>2. ShownInv'
  BY <1>1, ShownSame DEF CompleteInv
<1>3. PICK e \in 1..inLog : /\ e + Len(reads) = FirstRead /\ reads' = Append(reads, e)
                            /\ Len(reads') = Len(reads) + 1 /\ reads'[Len(reads')] = e
  BY <1>1, RecordRead
<1>4. e \in Nat /\ e \in Entries /\ e # 0 /\ Len(reads) \in Nat /\ inLog \in Nat
  BY QLogSearchAssumption, LenProperties DEF SearchInv, LogInv, PlainTypes, Entries
<1>5. kind[e] # "ignored"
  BY <1>4 DEF PageInv, AskedInv
<1>6. /\ oldest' = Timestamp(e) /\ oldest' # 0
      /\ fileEntries' = fileEntries \cup (IF Matches(e) THEN {e} ELSE {})
  BY <1>3, <1>4, <1>5 DEF ReadNextEntry, ProcessedTime, Timestamp
<1>7. FirstRead' = FirstRead /\ inLog' = inLog
  BY <1>1, FirstReadSame DEF logVars
<1>8. \A x \in Entries : IsRead(x)' <=> IsRead(x) \/ x = e
  <2> TAKE x \in Entries
  <2>1. x \in Nat
    BY QLogSearchAssumption DEF Entries
  <2> QED
    BY <1>3, <1>4, <1>7, <2>1 DEF IsRead
<1>9. \A x \in Entries : Matches(x)' <=> Matches(x)
  BY <1>1 DEF Matches, IsOlder, logVars
<1>10. fileEntries \subseteq Entries
  BY DEF SearchInv, PlainTypes
<1>11. /\ \A x \in Entries : IsRead(x)' /\ Matches(x)' /\ (olderThan' # 0 => x < FirstRead')
                               => x \in fileEntries'
       /\ \A x \in fileEntries' : IsRead(x)'
       /\ \E x \in Entries : oldest' = Timestamp(x) /\ IsRead(x)'
  BY <1>1, <1>4, <1>6, <1>7, <1>8, <1>9, <1>10 DEF CompleteInv, WholeInv
<1>12. /\ limit' \in Nat \ {0} /\ maxScan' \in Nat /\ total' \in Nat
       /\ olderThan' = 0 => result' = "none"
  BY <1>1 DEF CompleteInv, WholeInv, logVars
<1>13. \A x \in (inLog' + 1)..Size : MatchesInMemory(x)' => x \in memory'
  BY <1>1 DEF CompleteInv, WholeInv, MatchesInMemory, IsOlder, logVars
<1>14. WholeInv'
  BY <1>1, <1>6, <1>11, <1>12, <1>13 DEF WholeInv, Timestamp
<1> QED
  BY <1>2, <1>14 DEF CompleteInv

\* The steps that read no record.
LEMMA OtherIsWhole ==
    ASSUME SearchInv, PageInv, CompleteInv, NextFile \/ EndOfFiles \/ StopReading
    PROVE  CompleteInv'
<1>1. /\ at = "read" /\ at' \in {"read", "answer"}
      /\ UNCHANGED <<timestamp, result, reads, logVars, olderThan, pages, memory, fileEntries, total>>
      /\ oldest' = oldest \/ (oldest' = 0 /\ at' = "answer")
  BY DEF NextFile, EndOfFiles, StopReading, MayRead, searchVars, fileVars
<1>2. ShownInv'
  BY <1>1, ShownSame DEF CompleteInv
<1>3. FirstRead' = FirstRead /\ Len(reads') = Len(reads) /\ inLog' = inLog
  BY <1>1, FirstReadSame DEF logVars
<1>4. \A e \in Entries : (IsRead(e)' <=> IsRead(e)) /\ (Matches(e)' <=> Matches(e))
  BY <1>1, <1>3 DEF IsRead, Matches, IsOlder, logVars
<1>5. fileEntries \subseteq Entries
  BY DEF SearchInv, PlainTypes
<1>6. /\ \A e \in Entries : IsRead(e)' /\ Matches(e)' /\ (olderThan' # 0 => e < FirstRead')
                              => e \in fileEntries'
      /\ \A e \in fileEntries' : IsRead(e)'
      /\ oldest' # 0 => \E e \in Entries : oldest' = Timestamp(e) /\ IsRead(e)'
  BY <1>1, <1>3, <1>4, <1>5 DEF CompleteInv, WholeInv
<1>7. /\ limit' \in Nat \ {0} /\ maxScan' \in Nat /\ total' \in Nat
      /\ olderThan' = 0 => result' = "none"
      /\ at' = "read" /\ total' # 0 => oldest' # 0
  BY <1>1 DEF CompleteInv, WholeInv, logVars
<1>8. \A e \in (inLog' + 1)..Size : MatchesInMemory(e)' => e \in memory'
  BY <1>1 DEF CompleteInv, WholeInv, MatchesInMemory, IsOlder, logVars
<1>9. olderThan' # 0 => IF result' = "found" THEN timestamp' = olderThan'
                                             ELSE Timestamp(inLog') < olderThan'
  BY <1>1, <1>3 DEF PageInv, PlaceInv, SeekInv
<1>10. at' = "answer" /\ oldest' = 0 /\ fileEntries' = {} => FirstRead' = Len(reads')
  <2>1. CASE NextFile
    BY <1>1, <2>1 DEF NextFile
  <2>2. CASE EndOfFiles
    <3>1. position = 0 /\ current = 1 /\ LogInv /\ Opened
      BY <1>1, <2>2 DEF EndOfFiles, SearchInv
    <3>2. base = 0
      BY <3>1, EmptySeq DEF LogInv, Opened
    <3>3. base + Len(reads) = FirstRead /\ Len(reads) \in Nat
      BY <1>1, <3>1, AtStart, LenProperties DEF SearchInv, PlainTypes
    <3> QED
      BY <1>3, <3>2, <3>3
  <2>3. CASE StopReading
    <3>1. oldest' = oldest /\ (ScanLimit \/ ~(Cardinality(fileEntries) < limit))
      BY <1>1, <2>3 DEF StopReading, MayRead, searchVars
    <3>2. limit \in Nat \ {0} /\ maxScan \in Nat /\ total \in Nat /\ (total # 0 => oldest # 0)
      BY <1>1 DEF CompleteInv, WholeInv
    <3>3. ScanLimit => oldest # 0
      BY <3>2 DEF ScanLimit
    <3>4. ~(Cardinality(fileEntries) < limit) => fileEntries # {}
      BY <3>2, FS_EmptySet
    <3> QED
      BY <1>1, <3>1, <3>3, <3>4
  <2> QED
    BY <2>1, <2>2, <2>3
<1>11. WholeInv'
  BY <1>1, <1>6, <1>7, <1>8, <1>9, <1>10 DEF WholeInv, Timestamp
<1> QED
  BY <1>2, <1>11 DEF CompleteInv

\* The first entries of what was found go down without a gap, and there is one
\* if anything was found.
LEMMA CutIsTop ==
    ASSUME NEW found, found \subseteq Entries, limit \in Nat \ {0}
    PROVE  /\ \A m \in Cut(found) : \A e \in found : m <= e => e \in Cut(found)
           /\ found # {} => Cut(found) # {}
<1>1. Size \in Nat /\ IsFiniteSet(Entries) /\ Entries \subseteq Nat
  BY QLogSearchAssumption, FS_Interval DEF Entries
<1>2. ASSUME NEW m \in Cut(found), NEW e \in found, m <= e PROVE e \in Cut(found)
  <2> DEFINE A == {x \in found : x > e}
             B == {x \in found : x > m}
  <2>1. m \in Nat /\ e \in Nat /\ Cardinality(B) < limit
    BY <1>1 DEF Cut
  <2>2. A \subseteq B
    <3> SUFFICES ASSUME NEW x \in found, x > e PROVE x > m
      OBVIOUS
    <3>1. x \in Nat
      BY <1>1
    <3> QED
      BY <1>2, <2>1, <3>1
  <2>3. IsFiniteSet(B)
    BY <1>1, FS_Subset
  <2>4. Cardinality(A) \in Nat /\ Cardinality(B) \in Nat /\ Cardinality(A) <= Cardinality(B)
    <3> HIDE DEF A, B
    <3> QED
      BY <2>2, <2>3, FS_Subset, FS_CardinalityType
  <2>5. Cardinality(A) < limit
    BY <2>1, <2>4
  <2> QED
    BY <2>5 DEF Cut
<1>3. ASSUME found # {} PROVE Cut(found) # {}
  <2>1. found \subseteq 0..Size
    BY <1>1 DEF Entries
  <2>2. PICK e \in found : \A y \in found : y <= e
    BY <1>1, <1>3, <2>1, GreatestNat
  <2>3. {x \in found : x > e} = {}
    <3> SUFFICES ASSUME NEW x \in found, x > e PROVE FALSE
      OBVIOUS
    <3>1. x \in Nat /\ e \in Nat /\ x <= e
      BY <1>1, <2>2
    <3> QED
      BY <3>1
  <2>4. Cardinality({x \in found : x > e}) < limit
    BY <2>3, FS_EmptySet
  <2> QED
    BY <2>4 DEF Cut
<1> QED
  BY <1>2, <1>3

\* What is wanted, and is in memory or not before what was read, has been
\* found now or was shown before.
LEMMA WantedIsFound ==
    ASSUME SearchInv, PageInv, CompleteInv, at = "answer", NEW e \in Wanted,
           e > inLog \/ FirstRead < e + Len(reads), e \notin UNION pages
    PROVE  e \in memory \cup fileEntries
<1>1. /\ e \in Entries /\ e \in Nat /\ inLog \in Nat /\ Size \in Nat /\ olderThan \in Nat
      /\ e <= Size /\ e >= 1 /\ FirstRead \in Nat
      /\ kind[e] = "match" \/ (kind[e] = "ignored" /\ e > inLog)
  BY FirstReadNat, QLogSearchAssumption
  DEF SearchInv, LogInv, PlainTypes, Wanted, Results, Entries
<1>2. IsOlder(e)
  <2>1. olderThan # 0 => ~(olderThan <= Timestamp(e))
    BY DEF CompleteInv, ShownInv
  <2> QED
    BY <1>1, <2>1 DEF IsOlder, Timestamp
<1>3. CASE e > inLog
  <2>1. e \in (inLog + 1)..Size /\ MatchesInMemory(e)
    BY <1>1, <1>2, <1>3 DEF MatchesInMemory
  <2> QED
    BY <2>1 DEF CompleteInv, WholeInv
<1>4. CASE ~(e > inLog)
  <2>1. IsRead(e) /\ Matches(e)
    BY <1>1, <1>2, <1>4 DEF IsRead, Matches
  <2>2. olderThan # 0 => e < FirstRead
    <3> SUFFICES ASSUME olderThan # 0 PROVE e < FirstRead
      OBVIOUS
    <3>1. PICK f \in Entries : Timestamp(f) = olderThan
      BY DEF PageInv, AskedInv
    <3>2. f \in Nat /\ f <= Size /\ Timestamp(e) < olderThan
      BY <1>1, <1>2, <3>1 DEF IsOlder, Entries
    <3>3. e < f
      BY <1>1, <3>1, <3>2 DEF Timestamp
    <3>4. CASE result = "found" /\ timestamp = olderThan
      <4>1. FirstRead = f
        BY <3>1, <3>2, <3>4 DEF FirstRead, Timestamp
      <4> QED
        BY <3>3, <4>1
    <3>5. CASE result # "found"
      <4>1. FirstRead = inLog /\ Timestamp(inLog) < olderThan
        BY <3>5 DEF FirstRead, CompleteInv, WholeInv
      <4>2. inLog < Size
        BY <1>1, <3>1, <3>2, <4>1 DEF Timestamp
      <4>3. e # inLog
        BY <4>2 DEF Wanted
      <4> QED
        BY <1>1, <1>4, <4>1, <4>3
    <3> QED
      BY <3>4, <3>5 DEF CompleteInv, WholeInv
  <2> QED
    BY <1>1, <2>1, <2>2 DEF CompleteInv, WholeInv
<1> QED
  BY <1>3, <1>4

\* An answer shows all that is wanted down to the time it ends with, or, if it
\* ends the search, all there is.
LEMMA AnswerIsWhole ==
    ASSUME SearchInv, PageInv, CompleteInv, Answer PROVE CompleteInv'
<1> DEFINE found == memory \cup fileEntries
           page  == Cut(found)
           time  == OldestTime(page)
<1>1. /\ at = "answer" /\ UNCHANGED logVars /\ UNCHANGED total
      /\ pages' = pages \cup {page} /\ olderThan' = time
      /\ at' = IF time = 0 THEN "end" ELSE "ask"
  BY DEF Answer, searchVars
<1>2. WholeInv'
  BY <1>1 DEF CompleteInv, WholeInv, logVars
<1>3. found \subseteq Entries /\ limit \in Nat \ {0}
  BY DEF SearchInv, PlainTypes, CompleteInv, WholeInv
<1>4. page \subseteq found
  BY DEF Cut
<1>5. /\ \A m \in page : \A e \in found : m <= e => e \in page
      /\ found # {} => page # {}
  <2> HIDE DEF found
  <2> QED
    BY <1>3, CutIsTop
<1>6. /\ inLog \in Nat /\ Len(reads) \in Nat /\ FirstRead \in Nat
      /\ Entries \subseteq Nat /\ \A e \in Entries : e >= 1
  BY FirstReadNat, LenProperties, QLogSearchAssumption DEF SearchInv, LogInv, PlainTypes, Entries
<1>7. \A e \in Wanted : e > inLog \/ FirstRead < e + Len(reads)
                          => e \in UNION pages \/ e \in found
  BY <1>1, WantedIsFound
<1>8. /\ Wanted \subseteq Entries /\ Wanted' = Wanted
      /\ \A e : e \in UNION pages \/ e \in page => e \in UNION pages'
  <2>1. Wanted \subseteq Entries
    BY DEF Wanted, Results
  <2>2. Wanted' = Wanted
    BY <1>1 DEF Wanted, Results, logVars
  <2>3. pages \subseteq pages' /\ page \in pages'
    BY <1>1
  <2>4. \A e : e \in UNION pages \/ e \in page => e \in UNION pages'
    <3> HIDE DEF page
    <3> QED
      BY <2>3
  <2> QED
    BY <2>1, <2>2, <2>4
<1>9. \A m \in found : m > inLog \/ FirstRead < m + Len(reads)
  BY <1>1 DEF PageInv, FoundInv, CompleteInv, WholeInv, IsRead
<1> HIDE DEF found
<1>10. CASE page # {}
  <2> HIDE DEF page
  <2>1. PICK m \in page : m = Min(page)
    BY <1>3, <1>4, <1>10, MinOfPage
  <2>2. m \in found /\ m \in Nat /\ m >= 1 /\ time = Timestamp(m)
    BY <1>3, <1>4, <1>6, <1>10, <2>1 DEF OldestTime
  <2>3. at' = "ask" /\ olderThan' = Timestamp(m)
    BY <1>1, <2>2 DEF Timestamp
  <2>4. ASSUME NEW e \in Wanted, Timestamp(m) <= Timestamp(e) PROVE e \in UNION pages'
    <3>1. e \in Nat /\ m <= e
      BY <1>6, <1>8, <2>2, <2>4 DEF Timestamp
    <3>2. e > inLog \/ FirstRead < e + Len(reads)
      BY <1>6, <1>9, <2>2, <3>1
    <3>3. e \in found => e \in page
      BY <1>5, <3>1
    <3> QED
      BY <1>7, <1>8, <3>2, <3>3
  <2>5. ShownInv'
    BY <1>8, <2>3, <2>4 DEF ShownInv, Timestamp
  <2> QED
    BY <1>2, <2>5 DEF CompleteInv
<1>11. CASE page = {}
  <2>1. found = {} /\ time = oldest
    BY <1>5, <1>11 DEF OldestTime
  <2>2. CASE oldest # 0
    <3>1. PICK m \in Entries : oldest = Timestamp(m) /\ IsRead(m)
      BY <1>1, <2>2 DEF CompleteInv, WholeInv
    <3>2. m \in Nat /\ FirstRead < m + Len(reads)
      BY <1>6, <3>1 DEF IsRead
    <3>3. ASSUME NEW e \in Wanted, Timestamp(m) <= Timestamp(e) PROVE e \in UNION pages'
      <4>1. e \in Nat /\ m <= e
        BY <1>6, <1>8, <3>2, <3>3 DEF Timestamp
      <4>2. FirstRead < e + Len(reads)
        BY <1>6, <3>2, <4>1
      <4> QED
        BY <1>7, <1>8, <2>1, <4>2
    <3>4. at' = "ask" /\ olderThan' = Timestamp(m)
      BY <1>1, <2>1, <2>2, <3>1
    <3>5. ShownInv'
      BY <1>8, <3>3, <3>4 DEF ShownInv, Timestamp
    <3> QED
      BY <1>2, <3>5 DEF CompleteInv
  <2>3. CASE oldest = 0
    <3>1. FirstRead = Len(reads)
      BY <1>1, <2>1, <2>3 DEF found, CompleteInv, WholeInv
    <3>2. ASSUME NEW e \in Wanted PROVE e \in UNION pages'
      <4>1. FirstRead < e + Len(reads)
        BY <1>6, <1>8, <3>1
      <4> QED
        BY <1>7, <1>8, <2>1, <4>1
    <3>3. at' = "end"
      BY <1>1, <2>1, <2>3
    <3>4. ShownInv'
      BY <1>8, <3>2, <3>3 DEF ShownInv
    <3> QED
      BY <1>2, <3>4 DEF CompleteInv
  <2> QED
    BY <2>2, <2>3
<1> QED
  BY <1>10, <1>11

\* Stuttering changes nothing.
LEMMA IdleIsWhole ==
    ASSUME CompleteInv, UNCHANGED vars PROVE CompleteInv'
<1>1. UNCHANGED <<result, timestamp, at, reads, pages, kind, asked, inLog>>
  BY DEF vars, fileVars, logVars
<1>2. UNCHANGED <<memory, fileEntries, oldest, total, olderThan, limit, maxScan>>
  BY DEF vars, logVars, searchVars
<1>3. ShownInv'
  BY <1>1, <1>2 DEF CompleteInv, ShownInv, Wanted, Results
<1>4. FirstRead' = FirstRead
  BY <1>1 DEF FirstRead
<1>5. WholeInv'
  BY <1>1, <1>2, <1>4 DEF CompleteInv, WholeInv, IsRead, Matches, MatchesInMemory, IsOlder
<1> QED
  BY <1>3, <1>5 DEF CompleteInv

\* Every step keeps the invariant that nothing is left out.
LEMMA WholeKeeps ==
    ASSUME NEW pow, "ignored" \notin Kinds, SearchInv, PageInv, DepthInv(pow), CompleteInv,
           [Next]_vars
    PROVE  CompleteInv'
  BY MemoryIsWhole, SeekIsWhole, SkipIsWhole, EntryIsWhole, OtherIsWhole, AnswerIsWhole,
     IdleIsWhole DEF Next, End

\* A client that asks for page after page gets every entry that matches, down
\* to the oldest record of the older file, whatever the limits of a page are;
\* but for the newest record of the files if it comes to it from memory, and
\* as long as no host of the log is ignored.
THEOREM PagesCompleteTheorem ==
    ASSUME NEW pow, DeepEnough(pow), "ignored" \notin Kinds PROVE Spec => []PagesComplete
<1>1. Init => DepthInv(pow) /\ CompleteInv
  BY WholeInit DEF Init, DepthInv
<1>2. SearchInv /\ DepthInv(pow) /\ [Next]_vars => DepthInv(pow)'
  BY DepthKeeps
<1>3. /\ SearchInv /\ DepthInv(pow) /\ (AsksForEntry => PageInv) /\ (AsksForEntry => CompleteInv)
      /\ [Next]_vars
      => (AsksForEntry => CompleteInv)'
  <2> SUFFICES ASSUME SearchInv, DepthInv(pow), AsksForEntry => PageInv,
                      AsksForEntry => CompleteInv, [Next]_vars, AsksForEntry'
               PROVE  CompleteInv'
    OBVIOUS
  <2>1. AsksForEntry
    BY AskedKept DEF AsksForEntry, logVars
  <2> QED
    BY <2>1, WholeKeeps
<1>4. (AsksForEntry => CompleteInv) => PagesComplete
  BY DEF CompleteInv, ShownInv, PagesComplete, Wanted
<1> QED
  BY <1>1, <1>2, <1>3, <1>4, SearchInvariant, PagesInvariant, PTL DEF Spec
=============================================================================
