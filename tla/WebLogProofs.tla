---------------------------- MODULE WebLogProofs ----------------------------
(***************************************************************************)
(* Theorems about WebLog, for logs of any length that grow at any time,    *)
(* every filter, every size of a page and of a scan, and any number of     *)
(* scrolls, changes of the filter and failures.                            *)
(***************************************************************************)
EXTENDS WebLog, SequenceTheorems, FiniteSetTheorems, TLAPS

\* The entries that a filter lets through, also those that will be logged.
Wanted(f) == IF f = "all" THEN Nat \ {0} ELSE Matching

\* s is the piece of the log from hi down to lo, seen through the filter f.
Piece(s, f, lo, hi) ==
    /\ s \in Seq(Nat)
    /\ IsNewestFirst(s)
    /\ \A k \in DOMAIN s : s[k] \in Wanted(f) /\ lo <= s[k] /\ s[k] <= hi
    /\ \A e \in Wanted(f) : lo <= e /\ e <= hi => \E k \in DOMAIN s : s[k] = e

Filters == {"all", "some"}

Ask == [kind: {"filter", "more"}, f: Filters, older: Nat, start: Nat, polls: BOOLEAN,
        total: Seq(Nat), back: Nat, phase: {"sent", "ok"}, page: Seq(Nat), next: Nat,
        again: BOOLEAN]

LogTypes ==
    /\ viewer \in {"v1", "v2"}
    /\ newest \in Nat /\ StartLen <= newest
    /\ url \in Filters /\ filter \in Filters
    /\ logs \in Seq(Nat)
    /\ oldest \in Nat /\ oldest <= newest + 1
    /\ entire \in BOOLEAN /\ fetching \in BOOLEAN /\ adding \in BOOLEAN
    /\ spoiled \in BOOLEAN
    /\ asks \in Seq(Ask)

\* The entries that a thunk may have started from: one that was the newest at
\* some time, or the one before the oldest that was shown.
Tops(a, n) == IF a.start = 0 THEN StartLen..n ELSE {a.start - 1}

\* What a thunk has gathered, from a log up to n, is a piece of the log that
\* ends where it goes on.
Gathers(a, n) ==
    /\ a.kind = "filter" => a.start = 0 /\ a.polls
    /\ a.older <= n + 1 /\ a.next <= n + 1 /\ a.back <= n + 1
    /\ ~a.again => a.total = <<>> /\ a.older = a.start /\ a.back = 0
    /\ a.again => a.older # 0 /\ a.back = a.older
    /\ a.phase = "sent" /\ a.again =>
          \E top \in Tops(a, n) : a.older <= top + 1 /\ Piece(a.total, a.f, a.older, top)
    /\ a.phase = "ok" =>
          /\ a.next = 0 => a.page = <<>>
          /\ \E top \in Tops(a, n) :
                /\ a.next <= top + 1 /\ Piece(a.total \o a.page, a.f, a.next, top)
                /\ a.again => a.older <= top + 1 /\ Piece(a.total, a.f, a.older, top)

AsksInv == \A i \in DOMAIN asks : Gathers(asks[i], newest)

\* The flags are up only while a thunk is at work that lowers them.
FlagsInv ==
    /\ viewer = "v1" /\ fetching => asks # <<>>
    /\ viewer = "v2" /\ fetching => \E i \in DOMAIN asks : asks[i].kind = "filter"
    /\ viewer = "v2" /\ adding => \E i \in DOMAIN asks : asks[i].kind = "more"

\* Unless two thunks collided, one that adds to the list is alone, and goes on
\* from where the list ends.
AloneInv ==
    ~spoiled => \A i \in DOMAIN asks : asks[i].kind = "more" =>
       /\ Len(asks) = 1
       /\ asks[i].start = oldest /\ asks[i].f = filter
       /\ logs # <<>>
       /\ viewer = "v1" => asks[i].polls
       /\ viewer = "v2" => oldest # 0

NoFilterAsked == \A i \in DOMAIN asks : asks[i].kind # "filter"

\* The list is the piece of the log from some entry down to the oldest; if the
\* page says so, down to the first.
Shows(top) ==
    /\ oldest <= top + 1
    /\ Piece(logs, filter, oldest, top)
    /\ entire => Piece(logs, filter, 0, top)
    /\ viewer = "v2" /\ oldest = 0 => entire
    /\ entire \/ logs # <<>>

ListInv == ~spoiled /\ NoFilterAsked => \E top \in StartLen..newest : Shows(top)

LogInv == LogTypes /\ AsksInv /\ FlagsInv /\ AloneInv /\ ListInv
-----------------------------------------------------------------------------
(* Sequences of entries, newest first.                                     *)

\* A set of numbers that is not empty has a least one (the argument is that of
\* the proofs about QLogSearch).
LEMMA LeastNumber ==
    ASSUME NEW A, A \subseteq Nat, A # {}
    PROVE  \E x \in A : \A y \in A : x <= y
<1> DEFINE R == StrictSubsetOrdering(Nat)
           F == FiniteSubsetsOf(Nat)
           T == {0..x : x \in A}
<1>1. IsWellFoundedOn(R, F)
  BY FS_StrictSubsetOrderingWellFounded
<1>2. T \subseteq F /\ T # {}
  <2>1. \A x \in Nat : IsFiniteSet(0..x) /\ 0..x \in SUBSET Nat
    BY FS_Interval
  <2> QED
    BY <2>1 DEF FiniteSubsetsOf
<1>3. \E t \in T : \A u \in T : ~(<<u, t>> \in R)
  <2> HIDE DEF R, F, T
  <2> QED
    BY <1>1, <1>2, WFMin
<1>4. PICK x \in A : \A u \in T : ~(<<u, 0..x>> \in R)
  BY <1>3
<1>5. ASSUME NEW y \in A, y < x PROVE FALSE
  <2>1. 0..y \subseteq 0..x /\ 0..y # 0..x /\ 0..y \in SUBSET Nat /\ 0..x \in SUBSET Nat
    BY <1>5
  <2>2. <<0..y, 0..x>> \in R
    BY <2>1 DEF StrictSubsetOrdering
  <2> QED
    BY <1>4, <2>2
<1> QED
  BY <1>5

\* The numbers of a set can be put in order, newest first.
Ordered(S) == \E s \in [1..Cardinality(S) -> S] : Range(s) = S /\ IsNewestFirst(s)

\* So can those of a set with one more number, newer than all others.
LEMMA OrderedStep ==
    ASSUME NEW n \in Nat, NEW S \in SUBSET (1..n), n > 0, n \in S,
           Ordered(S \ {n})
    PROVE  Ordered(S)
<1> DEFINE U == S \ {n}
           c == Cardinality(U)
<1>1. IsFiniteSet(S) /\ IsFiniteSet(U) /\ Cardinality(S) = c + 1 /\ c \in Nat
  <2>1. IsFiniteSet(1..n)
    BY FS_Interval
  <2>2. IsFiniteSet(S)
    BY <2>1, FS_Subset
  <2>3. IsFiniteSet(U) /\ Cardinality(U) = Cardinality(S) - 1
    BY <2>2, FS_RemoveElement
  <2> QED
    BY <2>2, <2>3, FS_CardinalityType
<1>2. PICK u \in [1..c -> U] : Range(u) = U /\ IsNewestFirst(u)
  BY DEF Ordered
<1>3. \A e \in U : e \in S /\ e \in Nat /\ e < n
  OBVIOUS
<1>4. \A e \in S : e # n => e \in U
  OBVIOUS
<1> HIDE DEF U, c
<1> DEFINE s == [i \in 1..(c + 1) |-> IF i = 1 THEN n ELSE u[i - 1]]
<1>5. \A i \in 1..(c + 1) : i # 1 => i - 1 \in 1..c /\ s[i] = u[i - 1] /\ u[i - 1] \in U
  BY <1>1, <1>2
<1>6. s \in [1..(c + 1) -> S] /\ s[1] = n
  BY <1>1, <1>3, <1>5
<1>7. IsNewestFirst(s)
  <2> SUFFICES ASSUME NEW i \in 1..(c + 1), NEW j \in 1..(c + 1), i < j
               PROVE  s[i] > s[j]
    BY DEF IsNewestFirst
  <2>1. j # 1 /\ s[j] = u[j - 1] /\ u[j - 1] \in U /\ j - 1 \in 1..c
    BY <1>1, <1>5
  <2>2. CASE i = 1
    BY <1>3, <1>6, <2>1, <2>2
  <2>3. CASE i # 1
    <3>1. i - 1 \in 1..c /\ s[i] = u[i - 1] /\ i - 1 < j - 1
      BY <1>1, <1>5, <2>3
    <3>2. u[i - 1] > u[j - 1]
      BY <1>2, <2>1, <3>1 DEF IsNewestFirst
    <3> QED
      BY <2>1, <3>1, <3>2
  <2> QED
    BY <2>2, <2>3
<1>8. Range(s) = S
  <2>1. ASSUME NEW e \in S PROVE \E i \in 1..(c + 1) : s[i] = e
    <3>1. CASE e = n
      BY <1>1, <1>6, <3>1
    <3>2. CASE e # n
      <4>1. PICK k \in 1..c : u[k] = e
        BY <1>2, <1>4, <3>2 DEF Range
      <4>2. k + 1 \in 1..(c + 1) /\ s[k + 1] = u[k]
        BY <1>1, <4>1
      <4> QED
        BY <4>1, <4>2
    <3> QED
      BY <3>1, <3>2
  <2> HIDE DEF s
  <2> QED
    BY <1>6, <2>1 DEF Range
<1> HIDE DEF s
<1> QED
  BY <1>1, <1>6, <1>7, <1>8 DEF Ordered

\* Every set of entries up to some entry can be ordered: a least bound of a set
\* that cannot would have a smaller one below it.
LEMMA AllOrdered ==
    ASSUME NEW n \in Nat, NEW S \in SUBSET (1..n)
    PROVE  Ordered(S)
<1> DEFINE Bad == {m \in Nat : \E X \in SUBSET (1..m) : ~Ordered(X)}
<1>1. ASSUME Bad # {} PROVE FALSE
  <2>1. PICK m \in Bad : \A y \in Bad : m <= y
    <3>1. Bad \subseteq Nat
      OBVIOUS
    <3> HIDE DEF Bad
    <3> QED
      BY <1>1, <3>1, LeastNumber
  <2>2. PICK X \in SUBSET (1..m) : ~Ordered(X)
    BY <2>1
  <2>3. CASE m = 0
    <3>1. X = {}
      BY <2>2, <2>3
    <3>2. Cardinality(X) = 0
      BY <3>1, FS_EmptySet
    <3> DEFINE s == [i \in 1..0 |-> 0]
    <3>3. s \in [1..0 -> X] /\ Range(s) = X /\ IsNewestFirst(s)
      BY <3>1 DEF Range, IsNewestFirst
    <3> QED
      BY <2>2, <3>2, <3>3 DEF Ordered
  <2>4. CASE m # 0
    <3>1. m - 1 \in Nat /\ m - 1 \notin Bad
      <4>1. m \in Nat /\ ~(m <= m - 1) /\ m - 1 \in Nat
        BY <2>1, <2>4
      <4> HIDE DEF Bad
      <4> QED
        BY <2>1, <4>1
    <3>2. \A Y \in SUBSET (1..(m - 1)) : Ordered(Y)
      BY <3>1
    <3>3. X \ {m} \in SUBSET (1..(m - 1))
      BY <2>1, <2>2
    <3>4. CASE m \in X
      <4>1. Ordered(X \ {m})
        BY <3>2, <3>3
      <4> QED
        BY <2>1, <2>2, <2>4, <3>4, <4>1, OrderedStep
    <3>5. CASE m \notin X
      <4>1. X \ {m} = X
        BY <3>5
      <4> QED
        BY <2>2, <3>2, <3>3, <4>1
    <3> QED
      BY <3>4, <3>5
  <2> QED
    BY <2>3, <2>4
<1> QED
  BY <1>1

\* What NewestFirst makes of a set of entries.
LEMMA NewestFirstOf ==
    ASSUME NEW n \in Nat, NEW S \in SUBSET (1..n)
    PROVE  LET s == NewestFirst(S)
           IN  /\ s \in Seq(Nat) /\ IsNewestFirst(s)
               /\ \A k \in DOMAIN s : s[k] \in S
               /\ \A e \in S : \E k \in DOMAIN s : s[k] = e
<1> DEFINE s == NewestFirst(S)
<1>1. Cardinality(S) \in Nat
  <2>1. IsFiniteSet(1..n)
    BY FS_Interval
  <2>2. IsFiniteSet(S)
    BY <2>1, FS_Subset
  <2> QED
    BY <2>2, FS_CardinalityType
<1>2. s \in [1..Cardinality(S) -> S] /\ Range(s) = S /\ IsNewestFirst(s)
  <2>1. Ordered(S)
    BY AllOrdered
  <2> QED
    BY <2>1, Zenon DEF Ordered, NewestFirst
<1> HIDE DEF s
<1>3. s \in Seq(Nat)
  <2>1. s \in [1..Cardinality(S) -> Nat]
    <3>1. S \subseteq Nat
      OBVIOUS
    <3> QED
      BY <1>2, <3>1
  <2> QED
    BY <1>1, <2>1
<1>4. \A k \in DOMAIN s : s[k] \in S
  BY <1>2
<1>5. \A e \in S : \E k \in DOMAIN s : s[k] = e
  BY <1>2 DEF Range
<1> QED
  BY <1>2, <1>3, <1>4, <1>5 DEF s

\* The first entries of a sequence.
LEMMA FirstOnes ==
    ASSUME NEW h \in Seq(Nat), NEW m \in 0..Len(h)
    PROVE  /\ SubSeq(h, 1, m) \in Seq(Nat) /\ Len(SubSeq(h, 1, m)) = m
           /\ DOMAIN SubSeq(h, 1, m) = 1..m
           /\ \A k \in 1..m : SubSeq(h, 1, m)[k] = h[k] /\ k \in DOMAIN h
<1> DEFINE x == SubSeq(h, 1, m)
<1>1. Len(h) \in Nat /\ DOMAIN h = 1..Len(h) /\ m \in Nat /\ m <= Len(h)
  OBVIOUS
<1>2. x \in Seq(Nat) /\ Len(x) = m /\ \A k \in 1..m : x[k] = h[k]
  <2>1. /\ x \in Seq(Nat)
        /\ Len(x) = IF 1 <= m THEN m - 1 + 1 ELSE 0
        /\ \A k \in 1..(m - 1 + 1) : x[k] = h[1 + k - 1]
    BY <1>1, SubSeqProperties
  <2> HIDE DEF x
  <2> QED
    BY <1>1, <2>1
<1> HIDE DEF x
<1>3. DOMAIN x = 1..m
  BY <1>2, LenProperties
<1> QED
  BY <1>1, <1>2, <1>3 DEF x

\* What a query scans of the entries that the filter lets through.
LEMMA Scanned ==
    ASSUME LogTypes, NEW f \in Filters, NEW from \in Nat, from <= newest
    PROVE  LET S == {e \in Through(f) : e <= from /\ e + Scan > from}
           IN  /\ S \in SUBSET (1..from)
               /\ \A e \in S : e \in Wanted(f) /\ e \in Nat \ {0} /\ e <= from
                               /\ e + Scan > from
               /\ \A e \in Wanted(f) : e <= from /\ e + Scan > from => e \in S
<1>1. newest \in Nat /\ Scan \in Nat \ {0} /\ Matching \subseteq Nat \ {0}
  BY LogAssumption DEF LogTypes
<1>2. CASE f = "all"
  BY <1>1, <1>2 DEF Through, Wanted
<1>3. CASE f = "some"
  <2>1. Through(f) = Matching /\ Wanted(f) = Matching
    BY <1>3 DEF Through, Wanted
  <2>2. \A e \in Matching : e \in Nat \ {0}
    BY <1>1
  <2> QED
    BY <2>1, <2>2
<1> QED
  BY <1>2, <1>3 DEF Filters

\* The newest Limit of the entries scanned are all there are from the last of
\* them on.
LEMMA NewestLimit ==
    ASSUME NEW h \in Seq(Nat), IsNewestFirst(h), NEW m \in 1..Len(h)
    PROVE  LET x == SubSeq(h, 1, m)
           IN  /\ IsNewestFirst(x)
               /\ Last(x) = h[m]
               /\ \A k \in DOMAIN x : h[m] <= x[k]
               /\ \A k \in DOMAIN h : h[m] <= h[k] => \E j \in DOMAIN x : x[j] = h[k]
<1> DEFINE x == SubSeq(h, 1, m)
<1>1. /\ Len(h) \in Nat /\ m \in Nat /\ m <= Len(h) /\ 1 <= m /\ DOMAIN h = 1..Len(h)
      /\ m \in DOMAIN h /\ m \in 1..m
  OBVIOUS
<1>2. /\ x \in Seq(Nat) /\ Len(x) = m /\ DOMAIN x = 1..m
      /\ \A k \in 1..m : x[k] = h[k] /\ k \in DOMAIN h
  BY <1>1, FirstOnes
<1>3. \A k \in DOMAIN h : h[k] \in Nat
  OBVIOUS
<1>4. \A i, j \in DOMAIN h : i < j => h[i] > h[j]
  BY DEF IsNewestFirst
<1> HIDE DEF x
<1>5. IsNewestFirst(x)
  BY <1>2, <1>4 DEF IsNewestFirst
<1>6. Last(x) = h[m]
  BY <1>1, <1>2 DEF Last
<1>7. \A k \in DOMAIN x : h[m] <= x[k]
  <2> TAKE k \in DOMAIN x
  <2>1. k \in DOMAIN h /\ x[k] = h[k] /\ h[k] \in Nat /\ h[m] \in Nat
    BY <1>1, <1>2, <1>3
  <2>2. k = m \/ k < m
    BY <1>1, <1>2
  <2> QED
    BY <1>1, <1>4, <2>1, <2>2
<1>8. ASSUME NEW k \in DOMAIN h, h[m] <= h[k]
      PROVE  \E j \in DOMAIN x : x[j] = h[k]
  <2>1. ~(m < k)
    BY <1>1, <1>3, <1>4, <1>8
  <2>2. k \in DOMAIN x
    BY <1>1, <1>2, <2>1
  <2> QED
    BY <1>2, <2>2
<1> QED
  BY <1>5, <1>6, <1>7, <1>8 DEF x

\* What a query finds, and where to go on from: the piece of the log between
\* them, all of it.
LEMMA FoundPiece ==
    ASSUME LogTypes, NEW older \in Nat, older <= newest + 1, NEW f \in Filters
    PROVE  LET from == ScanFrom(older)
               next == GoOnFrom(older, f)
           IN  /\ from \in Nat /\ from <= newest /\ next \in Nat /\ next <= from + 1
               /\ from = IF older = 0 THEN newest ELSE older - 1
               /\ Piece(Found(older, f), f, next, from)
               /\ next = 0 => Found(older, f) = <<>>
<1> DEFINE from == ScanFrom(older)
           next == GoOnFrom(older, f)
           S == {e \in Through(f) : e <= from /\ e + Scan > from}
           hits == NewestFirst(S)
           m == IF Len(hits) < Limit THEN Len(hits) ELSE Limit
           found == Found(older, f)
<1>1. /\ from \in Nat /\ from <= newest
      /\ from = IF older = 0 THEN newest ELSE older - 1
  BY DEF ScanFrom, LogTypes
<1>2. Limit \in Nat \ {0} /\ Scan \in Nat \ {0}
  BY LogAssumption
<1>3. found = SubSeq(hits, 1, m)
  BY DEF Found
<1>4. /\ found # <<>> => next = Last(found)
      /\ found = <<>> => next = IF from >= Scan THEN from + 1 - Scan ELSE 0
  <2>1. next = CASE found # <<>> -> Last(found)
                 [] found = <<>> /\ from >= Scan -> from + 1 - Scan
                 [] OTHER -> 0
    BY DEF GoOnFrom
  <2> HIDE DEF from, found, next
  <2> QED
    BY <2>1
<1> HIDE DEF from, found, next
<1>5. /\ S \in SUBSET (1..from)
      /\ \A e \in S : e \in Wanted(f) /\ e \in Nat \ {0} /\ e <= from /\ e + Scan > from
      /\ \A e \in Wanted(f) : e <= from /\ e + Scan > from => e \in S
  BY <1>1, Scanned
<1> HIDE DEF S
<1>6. /\ hits \in Seq(Nat) /\ IsNewestFirst(hits)
      /\ \A k \in DOMAIN hits : hits[k] \in S
      /\ \A e \in S : \E k \in DOMAIN hits : hits[k] = e
  BY <1>1, <1>5, NewestFirstOf
<1>7. \A e \in Wanted(f) : e \in Nat \ {0}
  BY LogAssumption DEF Wanted, Filters
<1> HIDE DEF hits
<1>8. Len(hits) \in Nat /\ DOMAIN hits = 1..Len(hits)
  BY <1>6
<1>9. m \in 0..Len(hits) /\ (m = 0 => Len(hits) = 0)
  BY <1>2, <1>8
<1> HIDE DEF m
<1>10. /\ found \in Seq(Nat) /\ Len(found) = m /\ DOMAIN found = 1..m
       /\ \A k \in 1..m : found[k] = hits[k] /\ k \in DOMAIN hits
  BY <1>3, <1>6, <1>9, FirstOnes
<1>11. \A k \in DOMAIN found : found[k] \in Wanted(f) /\ found[k] <= from
  BY <1>5, <1>6, <1>10
<1>12. CASE m = 0
  <2>1. found = <<>>
    BY <1>10, <1>12
  <2>2. \A e \in S : FALSE
    BY <1>6, <1>8, <1>9, <1>12
  <2>3. next = IF from >= Scan THEN from + 1 - Scan ELSE 0
    BY <1>4, <2>1
  <2>4. next \in Nat /\ next <= from + 1
    BY <1>1, <1>2, <2>3
  <2>5. \A e \in Wanted(f) : ~(next <= e /\ e <= from)
    BY <1>1, <1>2, <1>5, <1>7, <2>2, <2>3
  <2>6. IsNewestFirst(found) /\ DOMAIN found = {}
    BY <1>10, <1>12 DEF IsNewestFirst
  <2>7. Piece(found, f, next, from)
    BY <1>10, <2>5, <2>6 DEF Piece
  <2> QED
    BY <1>1, <2>1, <2>4, <2>7 DEF found, next, from
<1>13. CASE m # 0
  <2>1. m \in 1..Len(hits) /\ m \in 1..m /\ m \in DOMAIN hits
    BY <1>8, <1>9, <1>13
  <2>2. /\ IsNewestFirst(found)
        /\ Last(found) = hits[m]
        /\ \A k \in DOMAIN found : hits[m] <= found[k]
        /\ \A k \in DOMAIN hits : hits[m] <= hits[k] => \E j \in DOMAIN found : found[j] = hits[k]
    BY <1>3, <1>6, <2>1, NewestLimit
  <2>3. found # <<>>
    BY <1>10, <1>13
  <2>4. next = hits[m]
    BY <1>4, <2>2, <2>3
  <2>5. next \in S /\ next \in Nat /\ next # 0 /\ next <= from /\ next + Scan > from
    BY <1>5, <1>6, <2>1, <2>4
  <2>6. ASSUME NEW e \in Wanted(f), next <= e, e <= from
        PROVE  \E k \in DOMAIN found : found[k] = e
    <3>1. e + Scan > from
      BY <1>1, <1>2, <1>7, <2>5, <2>6
    <3>2. PICK k \in DOMAIN hits : hits[k] = e
      BY <1>5, <1>6, <2>6, <3>1
    <3> QED
      BY <2>2, <2>4, <2>6, <3>2
  <2>7. Piece(found, f, next, from)
    BY <1>10, <1>11, <2>2, <2>4, <2>6 DEF Piece
  <2>8. next <= from + 1
    BY <1>1, <2>5
  <2> QED
    BY <1>1, <2>5, <2>7, <2>8 DEF found, next, from
<1> QED
  BY <1>12, <1>13

\* Two pieces, the second of which goes on where the first one ends.
LEMMA PiecesMeet ==
    ASSUME NEW s, NEW t, NEW f \in Filters, NEW lo \in Nat, NEW mid \in Nat, NEW hi \in Nat,
           lo <= mid, mid <= hi + 1, mid # 0,
           Piece(s, f, mid, hi), Piece(t, f, lo, mid - 1)
    PROVE  Piece(s \o t, f, lo, hi)
<1> DEFINE c == s \o t
           n == Len(s)
<1>1. s \in Seq(Nat) /\ t \in Seq(Nat) /\ IsNewestFirst(s) /\ IsNewestFirst(t)
  BY DEF Piece
<1>2. /\ c \in Seq(Nat) /\ Len(c) = n + Len(t)
      /\ \A k \in 1..Len(c) : c[k] = IF k <= n THEN s[k] ELSE t[k - n]
  BY <1>1, ConcatProperties
<1>3. /\ n \in Nat /\ Len(t) \in Nat
      /\ DOMAIN s = 1..n /\ DOMAIN t = 1..Len(t) /\ DOMAIN c = 1..Len(c)
  BY <1>1, <1>2
<1>4. \A e \in Wanted(f) : e \in Nat
  BY LogAssumption DEF Wanted, Filters
<1>5. /\ \A k \in 1..n : s[k] \in Wanted(f) /\ mid <= s[k] /\ s[k] <= hi /\ s[k] \in Nat
      /\ \A k \in 1..Len(t) : t[k] \in Wanted(f) /\ lo <= t[k] /\ t[k] <= mid - 1 /\ t[k] \in Nat
  BY <1>3, <1>4 DEF Piece
<1> HIDE DEF c, n
<1>6. \A k \in 1..Len(c) : \/ k \in 1..n /\ c[k] = s[k]
                           \/ k - n \in 1..Len(t) /\ c[k] = t[k - n] /\ ~(k <= n)
  <2> TAKE k \in 1..Len(c)
  <2>1. c[k] = IF k <= n THEN s[k] ELSE t[k - n]
    BY <1>2
  <2>2. n \in Nat /\ Len(t) \in Nat /\ Len(c) = n + Len(t)
    BY <1>2, <1>3
  <2>3. k <= n => k \in 1..n
    BY <2>2
  <2>4. ~(k <= n) => k - n \in 1..Len(t)
    BY <2>2
  <2> QED
    BY <2>1, <2>3, <2>4
<1>7. IsNewestFirst(c)
  <2> SUFFICES ASSUME NEW i \in 1..Len(c), NEW j \in 1..Len(c), i < j
               PROVE  c[i] > c[j]
    BY <1>3 DEF IsNewestFirst
  <2>1. i \in Nat /\ j \in Nat
    BY <1>3
  <2>2. CASE i \in 1..n /\ j \in 1..n
    <3>1. c[i] = s[i] /\ c[j] = s[j]
      BY <1>2, <1>3, <2>2
    <3> QED
      BY <1>1, <1>3, <2>2, <3>1 DEF IsNewestFirst
  <2>3. CASE i \in 1..n /\ ~(j <= n)
    <3>1. c[i] = s[i] /\ c[j] = t[j - n] /\ j - n \in 1..Len(t)
      BY <1>2, <1>3, <1>6, <2>1, <2>3
    <3>2. /\ s[i] \in Nat /\ mid <= s[i]
          /\ t[j - n] \in Nat /\ t[j - n] <= mid - 1
      BY <1>5, <2>3, <3>1
    <3> QED
      BY <3>1, <3>2
  <2>4. CASE ~(i <= n) /\ ~(j <= n)
    <3>1. /\ c[i] = t[i - n] /\ i - n \in 1..Len(t)
          /\ c[j] = t[j - n] /\ j - n \in 1..Len(t) /\ i - n < j - n
      BY <1>2, <1>3, <1>6, <2>1, <2>4
    <3> QED
      BY <1>1, <1>3, <3>1 DEF IsNewestFirst
  <2> QED
    BY <1>3, <2>1, <2>2, <2>3, <2>4
<1>8. \A k \in DOMAIN c : c[k] \in Wanted(f) /\ lo <= c[k] /\ c[k] <= hi
  <2> TAKE k \in DOMAIN c
  <2>1. CASE k \in 1..n /\ c[k] = s[k]
    BY <1>5, <2>1
  <2>2. CASE k - n \in 1..Len(t) /\ c[k] = t[k - n]
    BY <1>5, <2>2
  <2> QED
    BY <1>3, <1>6, <2>1, <2>2
<1>9. ASSUME NEW e \in Wanted(f), lo <= e, e <= hi
      PROVE  \E k \in DOMAIN c : c[k] = e
  <2>1. e \in Nat
    BY <1>4
  <2>2. CASE mid <= e
    <3>1. PICK k \in DOMAIN s : s[k] = e
      BY <1>9, <2>2 DEF Piece
    <3>2. k \in 1..Len(c) /\ c[k] = s[k]
      BY <1>2, <1>3, <3>1
    <3> QED
      BY <1>3, <3>1, <3>2
  <2>3. CASE ~(mid <= e)
    <3>1. e <= mid - 1
      BY <2>1, <2>3
    <3>2. PICK k \in DOMAIN t : t[k] = e
      BY <1>9, <3>1 DEF Piece
    <3>3. n + k \in 1..Len(c) /\ ~(n + k <= n) /\ (n + k) - n = k
      <4>1. k \in Nat /\ 1 <= k /\ k <= Len(t)
        BY <1>3, <3>2
      <4>2. n \in Nat /\ Len(t) \in Nat /\ Len(c) = n + Len(t)
        BY <1>2, <1>3
      <4> QED
        BY <4>1, <4>2
    <3>4. c[n + k] = t[k]
      BY <1>2, <3>3
    <3> QED
      BY <1>3, <3>2, <3>3, <3>4
  <2> QED
    BY <2>2, <2>3
<1>10. Piece(c, f, lo, hi)
  BY <1>2, <1>7, <1>8, <1>9 DEF Piece
<1> QED
  BY <1>10 DEF c

\* A thunk that is done is taken out of the list of those at work.
LEMMA Removing ==
    ASSUME NEW S, NEW s \in Seq(S), NEW i \in DOMAIN s
    PROVE  LET r == RemoveAt(s, i)
           IN  /\ r \in Seq(S) /\ Len(r) = Len(s) - 1
               /\ \A k \in DOMAIN r : \E j \in DOMAIN s : j # i /\ r[k] = s[j]
               /\ \A j \in DOMAIN s : j # i => \E k \in DOMAIN r : r[k] = s[j]
<1> DEFINE x == SubSeq(s, 1, i - 1)
           y == SubSeq(s, i + 1, Len(s))
           r == RemoveAt(s, i)
           n == Len(s)
<1>1. n \in Nat /\ DOMAIN s = 1..n /\ i \in 1..n
  OBVIOUS
<1>2. /\ x \in Seq(S) /\ Len(x) = i - 1
      /\ \A k \in 1..(i - 1) : x[k] = s[k]
  BY <1>1, SubSeqProperties
<1>3. /\ y \in Seq(S) /\ Len(y) = n - i
      /\ \A k \in 1..(n - i) : y[k] = s[i + k]
  <2>1. /\ y \in Seq(S)
        /\ Len(y) = IF i + 1 <= n THEN n - (i + 1) + 1 ELSE 0
        /\ \A k \in 1..(n - (i + 1) + 1) : y[k] = s[(i + 1) + k - 1]
    BY <1>1, SubSeqProperties
  <2> HIDE DEF y, n
  <2>2. (IF i + 1 <= n THEN n - (i + 1) + 1 ELSE 0) = n - i /\ n - (i + 1) + 1 = n - i
    BY <1>1
  <2>3. \A k \in 1..(n - i) : (i + 1) + k - 1 = i + k
    BY <1>1
  <2> QED
    BY <2>1, <2>2, <2>3
<1>4. r = x \o y
  BY DEF RemoveAt
<1> HIDE DEF x, y, r
<1>5. /\ r \in Seq(S) /\ Len(r) = Len(x) + Len(y)
      /\ \A k \in 1..(Len(x) + Len(y)) :
           r[k] = IF k <= Len(x) THEN x[k] ELSE y[k - Len(x)]
  BY <1>2, <1>3, <1>4, ConcatProperties
<1> HIDE DEF n
<1>6. DOMAIN r = 1..(n - 1) /\ Len(r) = n - 1
  BY <1>1, <1>2, <1>3, <1>5, LenProperties
<1>7. \A k \in 1..(n - 1) : r[k] = IF k <= i - 1 THEN s[k] ELSE s[k + 1]
  <2> TAKE k \in 1..(n - 1)
  <2>1. CASE k <= i - 1
    BY <1>1, <1>2, <1>3, <1>5, <2>1
  <2>2. CASE ~(k <= i - 1)
    <3>1. k - (i - 1) \in 1..(n - i) /\ i + (k - (i - 1)) = k + 1
      BY <1>1, <2>2
    <3>2. r[k] = y[k - (i - 1)]
      BY <1>1, <1>2, <1>3, <1>5, <2>2
    <3> QED
      BY <1>3, <2>2, <3>1, <3>2
  <2> QED
    BY <2>1, <2>2
<1>8. \A k \in DOMAIN r : \E j \in DOMAIN s : j # i /\ r[k] = s[j]
  <2> TAKE k \in DOMAIN r
  <2>1. CASE k <= i - 1
    <3>1. k \in DOMAIN s /\ k # i
      BY <1>1, <1>6, <2>1
    <3> QED
      BY <1>6, <1>7, <2>1, <3>1
  <2>2. CASE ~(k <= i - 1)
    <3>1. k + 1 \in DOMAIN s /\ k + 1 # i
      BY <1>1, <1>6, <2>2
    <3> QED
      BY <1>6, <1>7, <2>2, <3>1
  <2> QED
    BY <2>1, <2>2
<1>9. ASSUME NEW j \in DOMAIN s, j # i
      PROVE  \E k \in DOMAIN r : r[k] = s[j]
  <2>1. CASE j < i
    <3>1. j \in 1..(n - 1) /\ j <= i - 1
      BY <1>1, <2>1
    <3> QED
      BY <1>6, <1>7, <3>1
  <2>2. CASE ~(j < i)
    <3>1. j - 1 \in 1..(n - 1) /\ ~(j - 1 <= i - 1) /\ (j - 1) + 1 = j
      BY <1>1, <1>9, <2>2
    <3>2. r[j - 1] = s[j]
      BY <1>7, <3>1
    <3> QED
      BY <1>6, <3>1, <3>2
  <2> QED
    BY <2>1, <2>2
<1>10. Len(r) = Len(s) - 1
  BY <1>6 DEF n
<1> QED
  BY <1>5, <1>8, <1>9, <1>10 DEF r

\* A thunk begins: it stands behind those at work.
LEMMA Adding ==
    ASSUME NEW S, NEW s \in Seq(S), NEW a \in S
    PROVE  LET r == Append(s, a)
           IN  /\ r \in Seq(S) /\ Len(r) = Len(s) + 1 /\ r # <<>>
               /\ \A k \in DOMAIN r : \/ k \in DOMAIN s /\ r[k] = s[k]
                                      \/ k = Len(s) + 1 /\ r[k] = a
               /\ \A k \in DOMAIN s : k \in DOMAIN r /\ r[k] = s[k]
               /\ Len(s) + 1 \in DOMAIN r /\ r[Len(s) + 1] = a
<1> DEFINE r == Append(s, a)
           n == Len(s)
<1>1. n \in Nat /\ DOMAIN s = 1..n
  OBVIOUS
<1>2. /\ r \in Seq(S) /\ Len(r) = n + 1
      /\ \A k \in 1..n : r[k] = s[k]
      /\ r[n + 1] = a
  BY AppendProperties
<1> HIDE DEF r, n
<1>3. DOMAIN r = 1..(n + 1)
  BY <1>1, <1>2, LenProperties
<1>4. r # <<>>
  BY <1>1, <1>2
<1>5. \A k \in DOMAIN r : \/ k \in DOMAIN s /\ r[k] = s[k]
                          \/ k = n + 1 /\ r[k] = a
  BY <1>1, <1>2, <1>3
<1>6. /\ \A k \in DOMAIN s : k \in DOMAIN r /\ r[k] = s[k]
      /\ n + 1 \in DOMAIN r
  BY <1>1, <1>2, <1>3
<1> QED
  BY <1>2, <1>4, <1>5, <1>6 DEF r, n

\* A thunk goes on: its record is replaced.
LEMMA Replacing ==
    ASSUME NEW S, NEW s \in Seq(S), NEW i \in DOMAIN s, NEW b \in S
    PROVE  LET r == [s EXCEPT ![i] = b]
           IN  /\ r \in Seq(S) /\ Len(r) = Len(s) /\ DOMAIN r = DOMAIN s
               /\ r[i] = b /\ \A k \in DOMAIN s : k # i => r[k] = s[k]
  OBVIOUS
-----------------------------------------------------------------------------
(* What a thunk gathers.                                                   *)

\* An entry logged meanwhile changes nothing for a thunk at work.
LEMMA GathersLater ==
    ASSUME NEW a \in Ask, NEW n \in Nat, NEW m \in Nat, n <= m, Gathers(a, n)
    PROVE  Gathers(a, m)
<1>1. \A top \in Tops(a, n) : top \in Tops(a, m)
  BY LogAssumption DEF Tops
<1>2. a.older \in Nat /\ a.next \in Nat /\ a.back \in Nat
  BY DEF Ask
<1>3. a.older <= m + 1 /\ a.next <= m + 1 /\ a.back <= m + 1
  BY <1>2 DEF Gathers
<1> QED
  BY <1>1, <1>3 DEF Gathers

\* A thunk that is to add to the list has gathered nothing when it begins.
LEMMA BeginGathers ==
    ASSUME NEW f \in Filters, NEW older \in Nat, NEW polls \in BOOLEAN, NEW n \in Nat,
           older <= n + 1
    PROVE  LET a == LogQuery("more", f, older, polls)
           IN  /\ a \in Ask /\ Gathers(a, n)
               /\ a.kind = "more" /\ a.f = f /\ a.start = older /\ a.polls = polls
<1> DEFINE a == LogQuery("more", f, older, polls)
           none == <<>>
<1>1. none \in Seq(Nat)
  OBVIOUS
<1>2. /\ a.kind = "more" /\ a.f = f /\ a.start = older /\ a.polls = polls
      /\ a.older = older /\ a.total = none /\ a.back = 0 /\ a.phase = "sent"
      /\ a.next = 0 /\ a.again = FALSE
  BY DEF LogQuery
<1>3. a \in Ask
  <2> HIDE DEF none
  <2> QED
    BY <1>1 DEF LogQuery, Ask, none
<1> HIDE DEF a
<1>4. Gathers(a, n)
  BY <1>2 DEF Gathers
<1> QED
  BY <1>2, <1>3, <1>4 DEF a

\* The server's answer continues what has been gathered.
LEMMA AnswerGathers ==
    ASSUME LogTypes, NEW a \in Ask, Gathers(a, newest), a.phase = "sent",
           NEW b, b = [a EXCEPT !.phase = "ok", !.page = Found(a.older, a.f),
                                !.next = GoOnFrom(a.older, a.f)]
    PROVE  /\ b \in Ask /\ Gathers(b, newest)
           /\ b.kind = a.kind /\ b.f = a.f /\ b.start = a.start /\ b.polls = a.polls
<1> DEFINE page == Found(a.older, a.f)
           next == GoOnFrom(a.older, a.f)
           from == ScanFrom(a.older)
<1>1. /\ a.older \in Nat /\ a.f \in Filters /\ a.total \in Seq(Nat) /\ a.start \in Nat
      /\ a.again \in BOOLEAN /\ newest \in Nat /\ StartLen \in Nat /\ StartLen <= newest
  BY LogAssumption DEF Ask, LogTypes
<1>2. a.older <= newest + 1
  BY DEF Gathers
<1>3. /\ from \in Nat /\ from <= newest /\ next \in Nat /\ next <= from + 1
      /\ from = IF a.older = 0 THEN newest ELSE a.older - 1
      /\ Piece(page, a.f, next, from)
      /\ next = 0 => page = <<>>
  BY <1>1, <1>2, FoundPiece
<1> HIDE DEF page, next, from
<1>4. page \in Seq(Nat)
  BY <1>3 DEF Piece
<1>5. b = [a EXCEPT !.phase = "ok", !.page = page, !.next = next]
  BY DEF page, next
<1>6. /\ b.kind = a.kind /\ b.f = a.f /\ b.start = a.start /\ b.polls = a.polls
      /\ b.older = a.older /\ b.total = a.total /\ b.back = a.back /\ b.again = a.again
      /\ b.phase = "ok" /\ b.page = page /\ b.next = next
  BY <1>5 DEF Ask
<1>7. b \in Ask
  BY <1>3, <1>4, <1>5 DEF Ask
<1>8. Tops(b, newest) = Tops(a, newest)
  BY <1>6 DEF Tops
<1>9. next <= newest + 1
  BY <1>1, <1>3
<1>10. \E top \in Tops(a, newest) :
          /\ next <= top + 1 /\ Piece(a.total \o page, a.f, next, top)
          /\ a.again => a.older <= top + 1 /\ Piece(a.total, a.f, a.older, top)
  <2>1. CASE a.again
    <3>1. a.older # 0 /\ from = a.older - 1 /\ next <= a.older
      BY <1>1, <1>3, <2>1 DEF Gathers
    <3>2. PICK top \in Tops(a, newest) :
             a.older <= top + 1 /\ Piece(a.total, a.f, a.older, top)
      BY <2>1 DEF Gathers
    <3>3. top \in Nat
      <4>1. CASE a.start = 0
        BY <1>1, <3>2, <4>1 DEF Tops
      <4>2. CASE a.start # 0
        BY <1>1, <3>2, <4>2 DEF Tops
      <4> QED
        BY <4>1, <4>2
    <3>4. next <= top + 1
      BY <1>1, <1>3, <3>1, <3>2, <3>3
    <3>5. Piece(a.total \o page, a.f, next, top)
      BY <1>1, <1>3, <3>1, <3>2, <3>3, PiecesMeet
    <3> QED
      BY <3>2, <3>4, <3>5
  <2>2. CASE ~a.again
    <3>1. a.total = <<>> /\ a.older = a.start
      BY <2>2 DEF Gathers
    <3>2. a.total \o page = page
      BY <1>4, <3>1, ConcatEmptySeq
    <3>3. from \in Tops(a, newest)
      BY <1>1, <1>3, <3>1 DEF Tops
    <3> QED
      BY <1>3, <2>2, <3>2, <3>3
  <2> QED
    BY <2>1, <2>2
<1>11. Gathers(b, newest)
  BY <1>3, <1>6, <1>8, <1>9, <1>10 DEF Gathers
<1> QED
  BY <1>6, <1>7, <1>11

\* Short polling goes on from where the last page ended.
LEMMA PollGathers ==
    ASSUME NEW a \in Ask, NEW n \in Nat, Gathers(a, n), a.phase = "ok", a.next # 0,
           NEW b, b = [a EXCEPT !.phase = "sent", !.older = a.next,
                                !.total = a.total \o a.page, !.back = a.next,
                                !.again = TRUE]
    PROVE  /\ b \in Ask /\ Gathers(b, n)
           /\ b.kind = a.kind /\ b.f = a.f /\ b.start = a.start /\ b.polls = a.polls
<1> DEFINE c == a.total \o a.page
<1>1. /\ a.next \in Nat /\ a.total \in Seq(Nat) /\ a.page \in Seq(Nat)
  BY DEF Ask
<1>2. c \in Seq(Nat)
  BY <1>1, ConcatProperties
<1>3. \E top \in Tops(a, n) : a.next <= top + 1 /\ Piece(c, a.f, a.next, top)
  BY DEF Gathers
<1> HIDE DEF c
<1>4. b = [a EXCEPT !.phase = "sent", !.older = a.next, !.total = c, !.back = a.next,
                    !.again = TRUE]
  BY DEF c
<1>5. /\ b.kind = a.kind /\ b.f = a.f /\ b.start = a.start /\ b.polls = a.polls
      /\ b.older = a.next /\ b.total = c /\ b.back = a.next /\ b.again = TRUE
      /\ b.phase = "sent" /\ b.next = a.next
  BY <1>4 DEF Ask
<1>6. b \in Ask
  BY <1>1, <1>2, <1>4 DEF Ask
<1>7. Tops(b, n) = Tops(a, n)
  BY <1>5 DEF Tops
<1>8. Gathers(b, n)
  BY <1>3, <1>5, <1>7 DEF Gathers
<1> QED
  BY <1>5, <1>6, <1>8

\* What a thunk brings when it is done, and the time that the store then goes
\* on from.
LEMMA Brings ==
    ASSUME NEW a \in Ask, NEW n \in Nat, Gathers(a, n), a.phase = "ok",
           NEW o, o = a.next \/ (a.next = 0 /\ o = a.back)
    PROVE  LET c == a.total \o a.page
           IN  /\ c \in Seq(Nat) /\ o \in Nat /\ o <= n + 1
               /\ \E top \in Tops(a, n) :
                     /\ o <= top + 1 /\ Piece(c, a.f, o, top)
                     /\ a.next <= top + 1 /\ Piece(c, a.f, a.next, top)
<1> DEFINE c == a.total \o a.page
<1>1. /\ a.next \in Nat /\ a.total \in Seq(Nat) /\ a.page \in Seq(Nat)
      /\ a.back \in Nat /\ a.again \in BOOLEAN
  BY DEF Ask
<1>2. c \in Seq(Nat)
  BY <1>1, ConcatProperties
<1>3. o \in Nat /\ o <= n + 1
  BY <1>1 DEF Gathers
<1>4. PICK top \in Tops(a, n) :
         /\ a.next <= top + 1 /\ Piece(c, a.f, a.next, top)
         /\ a.again => a.older <= top + 1 /\ Piece(a.total, a.f, a.older, top)
  BY DEF Gathers
<1>5. CASE o = a.next
  BY <1>2, <1>3, <1>4, <1>5
<1>6. CASE a.next = 0 /\ o = a.back /\ a.again
  <2>1. a.page = <<>> /\ o = a.older
    BY <1>6 DEF Gathers
  <2>2. c = a.total
    BY <1>1, <2>1, ConcatEmptySeq
  <2> QED
    BY <1>2, <1>3, <1>4, <1>6, <2>1, <2>2
<1>7. CASE a.next = 0 /\ o = a.back /\ ~a.again
  <2>1. a.back = 0
    BY <1>7 DEF Gathers
  <2> QED
    BY <1>5, <1>7, <2>1
<1> QED
  BY <1>1, <1>5, <1>6, <1>7-----------------------------------------------------------------------------
(* The steps of the page.                                                  *)

\* The thunks that the user starts.
LEMMA UsersThunks ==
    ASSUME LogTypes
    PROVE  /\ \A f \in Filters : LET a == setFilteredLogs(f)
                                 IN  a \in Ask /\ Gathers(a, newest) /\ a.kind = "filter"
           /\ getLogs \in Ask /\ Gathers(getLogs, newest)
           /\ getLogs.kind = "more" /\ getLogs.f = filter /\ getLogs.start = oldest
<1> DEFINE p == viewer = "v1" /\ filter = "all"
<1>1. newest \in Nat /\ filter \in Filters /\ oldest \in Nat /\ oldest <= newest + 1
  BY DEF LogTypes
<1>2. ASSUME NEW f \in Filters
      PROVE  LET a == setFilteredLogs(f)
             IN  a \in Ask /\ Gathers(a, newest) /\ a.kind = "filter"
  <2> DEFINE a == setFilteredLogs(f)
             none == <<>>
  <2>1. none \in Seq(Nat)
    OBVIOUS
  <2>2. /\ a.kind = "filter" /\ a.start = 0 /\ a.polls = TRUE
        /\ a.older = 0 /\ a.total = none /\ a.back = 0 /\ a.phase = "sent"
        /\ a.next = 0 /\ a.again = FALSE
    BY DEF setFilteredLogs, LogQuery
  <2>3. a \in Ask
    <3> HIDE DEF none
    <3> QED
      BY <2>1 DEF setFilteredLogs, LogQuery, Ask, none
  <2> HIDE DEF a
  <2>4. Gathers(a, newest)
    BY <1>1, <2>2 DEF Gathers
  <2> QED
    BY <2>2, <2>3, <2>4 DEF a
<1>3. /\ getLogs \in Ask /\ Gathers(getLogs, newest)
      /\ getLogs.kind = "more" /\ getLogs.f = filter /\ getLogs.start = oldest
  <2>1. p \in BOOLEAN
    OBVIOUS
  <2>2. getLogs = LogQuery("more", filter, oldest, p)
    BY DEF getLogs
  <2> HIDE DEF p
  <2> QED
    BY <1>1, <2>1, <2>2, BeginGathers
<1> QED
  BY <1>2, <1>3

\* Begin adds the thunk, and does not forget that something has gone wrong.
LEMMA Begun ==
    ASSUME asks \in Seq(Ask), spoiled \in BOOLEAN, NEW a \in Ask, Begin(a)
    PROVE  /\ asks' \in Seq(Ask) /\ Len(asks') = Len(asks) + 1 /\ asks' # <<>>
           /\ \A k \in DOMAIN asks' : \/ k \in DOMAIN asks /\ asks'[k] = asks[k]
                                      \/ k = Len(asks) + 1 /\ asks'[k] = a
           /\ \A k \in DOMAIN asks : k \in DOMAIN asks' /\ asks'[k] = asks[k]
           /\ Len(asks) + 1 \in DOMAIN asks' /\ asks'[Len(asks) + 1] = a
           /\ spoiled' \in BOOLEAN
           /\ ~spoiled' => ~spoiled /\ ~Collide(asks') /\ ~StaleQuery(a)
<1>1. asks' = Append(asks, a)
  BY DEF Begin
<1>2. spoiled' = (spoiled \/ Collide(asks') \/ StaleQuery(a))
  BY DEF Begin
<1>3. /\ spoiled' \in BOOLEAN
      /\ ~spoiled' => ~spoiled /\ ~Collide(asks') /\ ~StaleQuery(a)
  BY <1>2, Zenon
<1> QED
  BY <1>1, <1>3, Adding

\* AnswerQuery and PollAgain take one thunk a step further.
LEMMA GoneOn ==
    ASSUME LogTypes, AsksInv, NEW i \in DOMAIN asks, AnswerQuery(i) \/ PollAgain(i)
    PROVE  \E b \in Ask :
              /\ Gathers(b, newest)
              /\ b.kind = asks[i].kind /\ b.f = asks[i].f
              /\ b.start = asks[i].start /\ b.polls = asks[i].polls
              /\ asks' \in Seq(Ask) /\ Len(asks') = Len(asks) /\ DOMAIN asks' = DOMAIN asks
              /\ asks'[i] = b /\ \A k \in DOMAIN asks : k # i => asks'[k] = asks[k]
<1>1. /\ asks \in Seq(Ask) /\ asks[i] \in Ask /\ Gathers(asks[i], newest)
      /\ newest \in Nat
  BY DEF LogTypes, AsksInv
<1>2. CASE AnswerQuery(i)
  <2> DEFINE b == [asks[i] EXCEPT !.phase = "ok", !.page = Found(asks[i].older, asks[i].f),
                                  !.next = GoOnFrom(asks[i].older, asks[i].f)]
  <2>1. asks[i].phase = "sent" /\ asks' = [asks EXCEPT ![i] = b]
    BY <1>2 DEF AnswerQuery
  <2>2. /\ b \in Ask /\ Gathers(b, newest)
        /\ b.kind = asks[i].kind /\ b.f = asks[i].f
        /\ b.start = asks[i].start /\ b.polls = asks[i].polls
    BY <1>1, <2>1, AnswerGathers
  <2> HIDE DEF b
  <2> QED
    BY <1>1, <2>1, <2>2, Replacing
<1>3. CASE PollAgain(i)
  <2> DEFINE a == asks[i]
             b == [a EXCEPT !.phase = "sent", !.older = a.next, !.total = a.total \o a.page,
                            !.back = a.next, !.again = TRUE]
  <2>1. a.phase = "ok" /\ a.next # 0 /\ asks' = [asks EXCEPT ![i] = b]
    BY <1>3 DEF PollAgain, PollNeeded
  <2>2. /\ b \in Ask /\ Gathers(b, newest)
        /\ b.kind = asks[i].kind /\ b.f = asks[i].f
        /\ b.start = asks[i].start /\ b.polls = asks[i].polls
    BY <1>1, <2>1, PollGathers
  <2> HIDE DEF b
  <2> QED
    BY <1>1, <2>1, <2>2, Replacing
<1> QED
  BY <1>2, <1>3

\* LogArrives and LogFails take one thunk away.
LEMMA Gone ==
    ASSUME LogTypes, NEW i \in DOMAIN asks, LogArrives(i) \/ LogFails(i)
    PROVE  /\ asks' \in Seq(Ask) /\ Len(asks') = Len(asks) - 1
           /\ \A k \in DOMAIN asks' : \E j \in DOMAIN asks : j # i /\ asks'[k] = asks[j]
           /\ \A j \in DOMAIN asks : j # i => \E k \in DOMAIN asks' : asks'[k] = asks[j]
           /\ Lowered(asks[i]) /\ UNCHANGED <<viewer, newest, url>>
<1>1. asks' = RemoveAt(asks, i) /\ Lowered(asks[i]) /\ UNCHANGED <<viewer, newest, url>>
  BY DEF LogArrives, LogFails, Deliver
<1>2. asks \in Seq(Ask)
  BY DEF LogTypes
<1> QED
  BY <1>1, <1>2, Removing

\* What the success handler puts into the store has its type.
LEMMA DeliverTypes ==
    ASSUME LogTypes, AsksInv, NEW i \in DOMAIN asks, NEW total \in Seq(Nat),
           Deliver(i, total)
    PROVE  /\ logs' \in Seq(Nat) /\ oldest' \in Nat /\ oldest' <= newest + 1
           /\ entire' \in BOOLEAN /\ filter' \in Filters
<1>1. /\ asks[i] \in Ask /\ Gathers(asks[i], newest) /\ logs \in Seq(Nat)
      /\ filter \in Filters
  BY DEF LogTypes, AsksInv
<1>2. logs' = logs \o total \/ logs' = total
  BY DEF Deliver, NewLogs
<1>3. logs \o total \in Seq(Nat)
  BY <1>1, ConcatProperties
<1>4. oldest' = asks[i].back \/ oldest' = asks[i].next
  BY DEF Deliver
<1>5. /\ asks[i].back \in Nat /\ asks[i].next \in Nat
      /\ asks[i].back <= newest + 1 /\ asks[i].next <= newest + 1
  BY <1>1 DEF Ask, Gathers
<1>6. entire' \in BOOLEAN
  BY DEF Deliver, IsEnd
<1>7. filter' \in Filters
  BY <1>1 DEF Deliver, Ask
<1> QED
  BY <1>2, <1>3, <1>4, <1>5, <1>6, <1>7

\* Every step keeps the types.
LEMMA TypesStep ==
    ASSUME LogTypes, AsksInv, LogNext
    PROVE  LogTypes'
<1>1. /\ asks \in Seq(Ask) /\ newest \in Nat /\ StartLen <= newest /\ StartLen \in Nat
      /\ oldest \in Nat /\ oldest <= newest + 1 /\ spoiled \in BOOLEAN
      /\ url \in Filters /\ filter \in Filters
  BY LogAssumption DEF LogTypes
<1>2. CASE LogGrows
  BY <1>1, <1>2 DEF LogTypes, LogGrows
<1>3. CASE ChangeFilter
  <2>1. url' \in Filters
    BY <1>3 DEF ChangeFilter, Filters
  <2>2. asks' \in Seq(Ask) /\ spoiled' \in BOOLEAN
    BY <1>1, <1>3, <2>1, UsersThunks, Begun DEF ChangeFilter
  <2> QED
    BY <1>3, <2>1, <2>2 DEF LogTypes, ChangeFilter
<1>4. CASE Refresh
  <2>1. asks' \in Seq(Ask) /\ spoiled' \in BOOLEAN
    BY <1>1, <1>4, UsersThunks, Begun DEF Refresh
  <2> QED
    BY <1>4, <2>1 DEF LogTypes, Refresh
<1>5. CASE LoadMore
  <2>1. asks' \in Seq(Ask) /\ spoiled' \in BOOLEAN
    BY <1>1, <1>5, UsersThunks, Begun DEF LoadMore
  <2>2. fetching' \in BOOLEAN /\ adding' \in BOOLEAN
    BY <1>5 DEF LogTypes, LoadMore
  <2> QED
    BY <1>5, <2>1, <2>2 DEF LogTypes, LoadMore
<1>6. CASE updateLogs
  BY <1>6 DEF LogTypes, updateLogs
<1>7. ASSUME NEW i \in DOMAIN asks, AnswerQuery(i) \/ PollAgain(i)
      PROVE  LogTypes'
  <2>1. asks' \in Seq(Ask)
    BY <1>7, GoneOn
  <2>2. fetching' \in BOOLEAN /\ adding' \in BOOLEAN
    BY <1>7 DEF LogTypes, AnswerQuery, PollAgain
  <2>3. UNCHANGED <<viewer, newest, url, filter, logs, oldest, entire, spoiled>>
    BY <1>7 DEF AnswerQuery, PollAgain
  <2> QED
    BY <2>1, <2>2, <2>3 DEF LogTypes
<1>8. ASSUME NEW i \in DOMAIN asks, LogArrives(i) \/ LogFails(i)
      PROVE  LogTypes'
  <2>1. asks' \in Seq(Ask) /\ Lowered(asks[i]) /\ UNCHANGED <<viewer, newest, url>>
    BY <1>8, Gone
  <2>2. fetching' \in BOOLEAN /\ adding' \in BOOLEAN
    BY <2>1, Zenon DEF Lowered
  <2>3. spoiled' \in BOOLEAN
    BY <1>1, <1>8 DEF LogArrives, LogFails
  <2>4. /\ asks[i].total \in Seq(Nat) /\ asks[i].page \in Seq(Nat)
        /\ asks[i].total \o asks[i].page \in Seq(Nat)
    <3>1. asks[i] \in Ask
      BY <1>1
    <3>2. asks[i].total \in Seq(Nat) /\ asks[i].page \in Seq(Nat)
      BY <3>1 DEF Ask
    <3> QED
      BY <3>2, ConcatProperties
  <2>5. /\ logs' \in Seq(Nat) /\ oldest' \in Nat /\ oldest' <= newest + 1
        /\ entire' \in BOOLEAN /\ filter' \in Filters
    <3>1. CASE \E total \in Seq(Nat) : Deliver(i, total)
      BY <3>1, DeliverTypes
    <3>2. CASE UNCHANGED <<filter, logs, oldest, entire>>
      BY <3>2 DEF LogTypes
    <3>3. (\E total \in Seq(Nat) : Deliver(i, total))
             \/ UNCHANGED <<filter, logs, oldest, entire>>
      BY <1>8, <2>4 DEF LogArrives, LogFails
    <3> QED
      BY <3>1, <3>2, <3>3
  <2> QED
    BY <2>1, <2>2, <2>3, <2>5 DEF LogTypes
<1> QED
  BY <1>2, <1>3, <1>4, <1>5, <1>6, <1>7, <1>8 DEF LogNext

\* What each thunk has gathered stays a piece of the log.
LEMMA AsksStep ==
    ASSUME LogTypes, AsksInv, LogNext
    PROVE  AsksInv'
<1>1. asks \in Seq(Ask) /\ newest \in Nat /\ spoiled \in BOOLEAN /\ filter \in Filters
  BY DEF LogTypes
<1>2. \A k \in DOMAIN asks : asks[k] \in Ask /\ Gathers(asks[k], newest)
  BY <1>1 DEF AsksInv
<1>3. CASE LogGrows
  <2>1. newest' \in Nat /\ newest <= newest' /\ asks' = asks
    BY <1>1, <1>3 DEF LogGrows
  <2>2. \A k \in DOMAIN asks : Gathers(asks[k], newest')
    BY <1>1, <1>2, <2>1, GathersLater
  <2> QED
    BY <2>1, <2>2 DEF AsksInv
<1>4. ASSUME NEW a \in Ask, Gathers(a, newest), Begin(a), newest' = newest
      PROVE  AsksInv'
  <2>1. \A k \in DOMAIN asks' : \/ k \in DOMAIN asks /\ asks'[k] = asks[k]
                                \/ asks'[k] = a
    BY <1>1, <1>4, Begun
  <2>2. \A k \in DOMAIN asks' : Gathers(asks'[k], newest)
    BY <1>2, <1>4, <2>1
  <2> QED
    BY <1>4, <2>2 DEF AsksInv
<1>5. CASE ChangeFilter
  <2>1. url' \in Filters
    BY <1>5 DEF ChangeFilter, Filters
  <2>2. Begin(setFilteredLogs(url')) /\ newest' = newest
    BY <1>5 DEF ChangeFilter
  <2> QED
    BY <1>4, <2>1, <2>2, UsersThunks
<1>6. CASE Refresh
  <2>1. Begin(setFilteredLogs(filter)) /\ newest' = newest
    BY <1>6 DEF Refresh
  <2> QED
    BY <1>1, <1>4, <2>1, UsersThunks
<1>7. CASE LoadMore
  <2>1. Begin(getLogs) /\ newest' = newest
    BY <1>7 DEF LoadMore
  <2> QED
    BY <1>4, <2>1, UsersThunks
<1>8. CASE updateLogs
  BY <1>8 DEF updateLogs, AsksInv
<1>9. ASSUME NEW i \in DOMAIN asks, AnswerQuery(i) \/ PollAgain(i)
      PROVE  AsksInv'
  <2>1. PICK b \in Ask :
           /\ Gathers(b, newest) /\ DOMAIN asks' = DOMAIN asks
           /\ asks'[i] = b /\ \A k \in DOMAIN asks : k # i => asks'[k] = asks[k]
    BY <1>9, GoneOn
  <2>2. newest' = newest
    BY <1>9 DEF AnswerQuery, PollAgain
  <2>3. \A k \in DOMAIN asks' : Gathers(asks'[k], newest)
    BY <1>2, <2>1
  <2> QED
    BY <2>2, <2>3 DEF AsksInv
<1>10. ASSUME NEW i \in DOMAIN asks, LogArrives(i) \/ LogFails(i)
       PROVE  AsksInv'
  <2>1. /\ \A k \in DOMAIN asks' : \E j \in DOMAIN asks : asks'[k] = asks[j]
        /\ newest' = newest
    BY <1>10, Gone
  <2>2. \A k \in DOMAIN asks' : Gathers(asks'[k], newest)
    BY <1>2, <2>1
  <2> QED
    BY <2>1, <2>2 DEF AsksInv
<1> QED
  BY <1>3, <1>5, <1>6, <1>7, <1>8, <1>9, <1>10 DEF LogNext

\* A flag that is up has a thunk that will lower it.
LEMMA FlagsStep ==
    ASSUME LogTypes, AsksInv, FlagsInv, LogNext
    PROVE  FlagsInv'
<1>1. /\ asks \in Seq(Ask) /\ spoiled \in BOOLEAN /\ filter \in Filters
      /\ viewer \in {"v1", "v2"}
  BY DEF LogTypes
<1>2. CASE LogGrows
  BY <1>2 DEF LogGrows, FlagsInv
<1>3. ASSUME NEW a \in Ask, Begin(a), a.kind = "filter", UNCHANGED <<viewer, adding>>
      PROVE  FlagsInv'
  <2>1. /\ asks' # <<>>
        /\ \A k \in DOMAIN asks : k \in DOMAIN asks' /\ asks'[k] = asks[k]
        /\ Len(asks) + 1 \in DOMAIN asks' /\ asks'[Len(asks) + 1] = a
    BY <1>1, <1>3, Begun
  <2> QED
    BY <1>3, <2>1 DEF FlagsInv
<1>4. CASE ChangeFilter
  <2>1. url' \in Filters
    BY <1>4 DEF ChangeFilter, Filters
  <2>2. Begin(setFilteredLogs(url')) /\ UNCHANGED <<viewer, adding>>
    BY <1>4 DEF ChangeFilter
  <2> QED
    BY <1>3, <2>1, <2>2, UsersThunks
<1>5. CASE Refresh
  <2>1. Begin(setFilteredLogs(filter)) /\ UNCHANGED <<viewer, adding>>
    BY <1>5 DEF Refresh
  <2> QED
    BY <1>1, <1>3, <2>1, UsersThunks
<1>6. CASE LoadMore
  <2>1. getLogs \in Ask /\ getLogs.kind = "more" /\ Begin(getLogs) /\ viewer' = viewer
    BY <1>6, UsersThunks DEF LoadMore
  <2>2. /\ asks' # <<>>
        /\ \A k \in DOMAIN asks : k \in DOMAIN asks' /\ asks'[k] = asks[k]
        /\ Len(asks) + 1 \in DOMAIN asks' /\ asks'[Len(asks) + 1] = getLogs
    BY <1>1, <2>1, Begun
  <2>3. viewer = "v2" => fetching' = fetching
    BY <1>6 DEF LoadMore
  <2> QED
    BY <2>1, <2>2, <2>3 DEF FlagsInv
<1>7. CASE updateLogs
  BY <1>7 DEF updateLogs, FlagsInv
<1>8. ASSUME NEW i \in DOMAIN asks, AnswerQuery(i) \/ PollAgain(i)
      PROVE  FlagsInv'
  <2>1. PICK b \in Ask :
           /\ b.kind = asks[i].kind
           /\ asks' \in Seq(Ask) /\ DOMAIN asks' = DOMAIN asks
           /\ asks'[i] = b /\ \A k \in DOMAIN asks : k # i => asks'[k] = asks[k]
    BY <1>8, GoneOn
  <2>2. /\ asks' # <<>>
        /\ \A k \in DOMAIN asks : k \in DOMAIN asks' /\ asks'[k].kind = asks[k].kind
    BY <2>1
  <2>3. viewer' = viewer /\ (viewer = "v2" => UNCHANGED <<fetching, adding>>)
    BY <1>8 DEF AnswerQuery, PollAgain
  <2> QED
    BY <2>2, <2>3 DEF FlagsInv
<1>9. ASSUME NEW i \in DOMAIN asks, LogArrives(i) \/ LogFails(i)
      PROVE  FlagsInv'
  <2>1. /\ \A j \in DOMAIN asks : j # i => \E k \in DOMAIN asks' : asks'[k] = asks[j]
        /\ Lowered(asks[i]) /\ viewer' = viewer
    BY <1>9, Gone
  <2>2. /\ viewer = "v1" => ~fetching'
        /\ fetching' => fetching /\ asks[i].kind # "filter"
        /\ adding' => adding /\ asks[i].kind # "more"
    BY <2>1, Zenon DEF Lowered
  <2>3. ASSUME viewer = "v2", fetching'
        PROVE  \E k \in DOMAIN asks' : asks'[k].kind = "filter"
    <3>1. PICK j \in DOMAIN asks : asks[j].kind = "filter"
      BY <2>2, <2>3 DEF FlagsInv
    <3> QED
      BY <2>1, <2>2, <2>3, <3>1
  <2>4. ASSUME viewer = "v2", adding'
        PROVE  \E k \in DOMAIN asks' : asks'[k].kind = "more"
    <3>1. PICK j \in DOMAIN asks : asks[j].kind = "more"
      BY <2>2, <2>4 DEF FlagsInv
    <3> QED
      BY <2>1, <2>2, <2>4, <3>1
  <2> QED
    BY <2>1, <2>2, <2>3, <2>4 DEF FlagsInv
<1> QED
  BY <1>2, <1>4, <1>5, <1>6, <1>7, <1>8, <1>9 DEF LogNext

\* A thunk that adds to the list stays alone, with the list that it adds to.
LEMMA AloneStep ==
    ASSUME LogInv, LogNext
    PROVE  AloneInv'
<1>1. /\ LogTypes /\ AsksInv /\ AloneInv /\ ListInv
      /\ asks \in Seq(Ask) /\ spoiled \in BOOLEAN /\ filter \in Filters
      /\ viewer \in {"v1", "v2"} /\ Len(asks) \in Nat /\ DOMAIN asks = 1..Len(asks)
  BY DEF LogInv, LogTypes
<1>2. CASE LogGrows \/ updateLogs
  <2>1. UNCHANGED <<viewer, asks, oldest, filter, logs, spoiled>>
    BY <1>2 DEF LogGrows, updateLogs
  <2> QED
    BY <1>1, <2>1 DEF AloneInv
<1>3. ASSUME NEW a \in Ask, Begin(a), ~spoiled', NEW k \in DOMAIN asks',
             asks'[k].kind = "more"
      PROVE  asks = <<>> /\ Len(asks') = 1 /\ asks'[k] = a /\ ~spoiled /\ ~StaleQuery(a)
  <2>1. /\ asks' \in Seq(Ask) /\ Len(asks') = Len(asks) + 1
        /\ \A m \in DOMAIN asks' : \/ m \in DOMAIN asks /\ asks'[m] = asks[m]
                                   \/ m = Len(asks) + 1 /\ asks'[m] = a
        /\ ~spoiled /\ ~Collide(asks') /\ ~StaleQuery(a)
    BY <1>1, <1>3, Begun
  <2>2. ~(Len(asks') > 1)
    BY <1>3, <2>1 DEF Collide
  <2>3. Len(asks) = 0 /\ Len(asks') = 1
    BY <1>1, <2>1, <2>2
  <2>4. asks = <<>> /\ ~(k \in DOMAIN asks)
    BY <1>1, <2>3
  <2> QED
    BY <1>3, <2>1, <2>3, <2>4
<1>4. CASE ChangeFilter
  <2>1. url' \in Filters
    BY <1>4 DEF ChangeFilter, Filters
  <2>2. /\ setFilteredLogs(url') \in Ask /\ setFilteredLogs(url').kind = "filter"
        /\ Begin(setFilteredLogs(url'))
    BY <1>1, <1>4, <2>1, UsersThunks DEF ChangeFilter
  <2> QED
    BY <1>3, <2>2 DEF AloneInv
<1>5. CASE Refresh
  <2>1. /\ setFilteredLogs(filter) \in Ask /\ setFilteredLogs(filter).kind = "filter"
        /\ Begin(setFilteredLogs(filter))
    BY <1>1, <1>5, UsersThunks DEF Refresh
  <2> QED
    BY <1>3, <2>1 DEF AloneInv
<1>6. CASE LoadMore
  <2>1. /\ getLogs \in Ask /\ getLogs.kind = "more" /\ Begin(getLogs)
        /\ getLogs.start = oldest /\ getLogs.f = filter
    BY <1>1, <1>6, UsersThunks DEF LoadMore
  <2>2. logs # <<>> /\ ~entire /\ UNCHANGED <<viewer, oldest, filter, logs>>
    BY <1>6 DEF LoadMore, CanScroll
  <2> SUFFICES ASSUME ~spoiled', NEW k \in DOMAIN asks', asks'[k].kind = "more"
               PROVE  /\ Len(asks') = 1
                      /\ asks'[k].start = oldest' /\ asks'[k].f = filter'
                      /\ logs' # <<>>
                      /\ viewer' = "v1" => asks'[k].polls
                      /\ viewer' = "v2" => oldest' # 0
    BY DEF AloneInv
  <2>3. asks = <<>> /\ Len(asks') = 1 /\ asks'[k] = getLogs /\ ~spoiled /\ ~StaleQuery(getLogs)
    BY <1>3, <2>1
  <2>4. viewer = "v1" => getLogs.polls
    BY <2>1, <2>3 DEF StaleQuery
  <2>5. NoFilterAsked
    BY <2>3 DEF NoFilterAsked
  <2>6. viewer = "v2" => oldest # 0
    BY <1>1, <2>2, <2>3, <2>5 DEF ListInv, Shows
  <2> QED
    BY <2>1, <2>2, <2>3, <2>4, <2>6
<1>7. ASSUME NEW i \in DOMAIN asks, AnswerQuery(i) \/ PollAgain(i)
      PROVE  AloneInv'
  <2>1. PICK b \in Ask :
           /\ b.kind = asks[i].kind /\ b.f = asks[i].f
           /\ b.start = asks[i].start /\ b.polls = asks[i].polls
           /\ Len(asks') = Len(asks) /\ DOMAIN asks' = DOMAIN asks
           /\ asks'[i] = b /\ \A k \in DOMAIN asks : k # i => asks'[k] = asks[k]
    BY <1>1, <1>7, GoneOn
  <2>2. \A k \in DOMAIN asks' :
           /\ k \in DOMAIN asks /\ asks'[k].kind = asks[k].kind /\ asks'[k].f = asks[k].f
           /\ asks'[k].start = asks[k].start /\ asks'[k].polls = asks[k].polls
    BY <2>1
  <2>3. UNCHANGED <<viewer, oldest, filter, logs, spoiled>>
    BY <1>7 DEF AnswerQuery, PollAgain
  <2> QED
    BY <1>1, <2>1, <2>2, <2>3 DEF AloneInv
<1>8. ASSUME NEW i \in DOMAIN asks, LogArrives(i) \/ LogFails(i)
      PROVE  AloneInv'
  <2> SUFFICES ASSUME ~spoiled', NEW k \in DOMAIN asks', asks'[k].kind = "more"
               PROVE  FALSE
    BY DEF AloneInv
  <2>1. ~spoiled
    <3>1. LogArrives(i) => UNCHANGED spoiled
      BY DEF LogArrives
    <3>2. LogFails(i) => spoiled'
      BY Zenon DEF LogFails
    <3> QED
      BY <1>8, <3>1, <3>2, Zenon
  <2>2. PICK j \in DOMAIN asks : j # i /\ asks'[k] = asks[j]
    BY <1>1, <1>8, Gone
  <2>3. Len(asks) = 1
    BY <1>1, <2>1, <2>2 DEF AloneInv
  <2> QED
    BY <1>1, <1>8, <2>2, <2>3
<1> QED
  BY <1>2, <1>4, <1>5, <1>6, <1>7, <1>8 DEF LogNext

\* The list is replaced: what a thunk brings that started from the newest entry
\* is shown.  A thunk that polls does not end with an empty list unless there
\* is no more.
LEMMA ReplacedList ==
    ASSUME LogTypes, AsksInv, NEW i \in DOMAIN asks, LogArrives(i),
           asks[i].start = 0, asks[i].polls,
           logs' = asks[i].total \o asks[i].page, filter' = asks[i].f
    PROVE  \E top \in StartLen..newest' : Shows(top)'
<1> DEFINE a == asks[i]
           c == a.total \o a.page
           o == IF viewer = "v1" /\ a.next = 0 THEN a.back ELSE a.next
<1>1. /\ a \in Ask /\ Gathers(a, newest) /\ newest \in Nat /\ viewer \in {"v1", "v2"}
      /\ Limit \in Nat \ {0}
  BY LogAssumption DEF LogTypes, AsksInv
<1>2. a.phase = "ok" /\ ~PollNeeded(a, c)
  BY DEF LogArrives
<1>3. /\ oldest' = o /\ entire' = IsEnd(a, c) /\ viewer' = viewer /\ newest' = newest
      /\ logs' = c
  BY DEF LogArrives, Deliver
<1>4. o = a.next \/ (a.next = 0 /\ o = a.back)
  OBVIOUS
<1>5. viewer = "v2" => o = a.next
  OBVIOUS
<1> HIDE DEF o
<1>6. c \in Seq(Nat) /\ \E top \in Tops(a, newest) :
         /\ o <= top + 1 /\ Piece(c, a.f, o, top)
         /\ a.next <= top + 1 /\ Piece(c, a.f, a.next, top)
  BY <1>1, <1>2, <1>4, Brings
<1>7. Tops(a, newest) = StartLen..newest
  BY DEF Tops
<1>8. PICK top \in StartLen..newest : /\ o <= top + 1 /\ Piece(c, a.f, o, top)
                                      /\ Piece(c, a.f, a.next, top)
  BY <1>6, <1>7
<1>9. a.next # 0 => c # <<>>
  <2>1. a.next # 0 => ~(Len(c) < Limit)
    BY <1>2 DEF PollNeeded
  <2>2. c = <<>> => Len(c) = 0
    OBVIOUS
  <2> HIDE DEF a, c
  <2> QED
    BY <1>1, <2>1, <2>2
<1>10. (viewer = "v1" => (IsEnd(a, c) <=> c = <<>>)) /\ (viewer = "v2" => (IsEnd(a, c) <=> a.next = 0))
  BY DEF IsEnd
<1>11. a.f = filter'
  OBVIOUS
<1> HIDE DEF a, c
<1>12. IsEnd(a, c) => a.next = 0
  BY <1>1, <1>9, <1>10
<1>13. Shows(top)'
  <2>1. oldest' <= top + 1 /\ Piece(logs', filter', oldest', top)
    BY <1>3, <1>8, <1>11
  <2>2. entire' => Piece(logs', filter', 0, top)
    BY <1>3, <1>8, <1>11, <1>12
  <2>3. viewer' = "v2" /\ oldest' = 0 => entire'
    BY <1>3, <1>5, <1>10
  <2>4. entire' \/ logs' # <<>>
    BY <1>1, <1>3, <1>9, <1>10
  <2> QED
    BY <2>1, <2>2, <2>3, <2>4 DEF Shows
<1> QED
  BY <1>3, <1>13

\* The list is continued: what a thunk brings that started where the list ends
\* is added to it.
LEMMA ContinuedList ==
    ASSUME LogTypes, AsksInv, NEW i \in DOMAIN asks, LogArrives(i),
           asks[i].start = oldest, oldest # 0, asks[i].f = filter, filter' = filter,
           viewer = "v1" => asks[i].polls, logs # <<>>,
           logs' = logs \o (asks[i].total \o asks[i].page),
           NEW top \in StartLen..newest, Shows(top)
    PROVE  Shows(top)'
<1> DEFINE a == asks[i]
           c == a.total \o a.page
           o == IF viewer = "v1" /\ a.next = 0 THEN a.back ELSE a.next
<1>1. /\ a \in Ask /\ Gathers(a, newest) /\ newest \in Nat /\ viewer \in {"v1", "v2"}
      /\ Limit \in Nat \ {0} /\ oldest \in Nat /\ filter \in Filters /\ logs \in Seq(Nat)
      /\ top \in Nat /\ a.next \in Nat
  <2>1. /\ a \in Ask /\ Gathers(a, newest) /\ newest \in Nat /\ viewer \in {"v1", "v2"}
        /\ oldest \in Nat /\ filter \in Filters /\ logs \in Seq(Nat)
    BY DEF LogTypes, AsksInv
  <2>2. a.next \in Nat
    BY <2>1 DEF Ask
  <2> HIDE DEF a
  <2> QED
    BY <2>1, <2>2, LogAssumption
<1>2. a.phase = "ok" /\ ~PollNeeded(a, c)
  BY DEF LogArrives
<1>3. /\ oldest' = o /\ entire' = IsEnd(a, c) /\ viewer' = viewer /\ newest' = newest
      /\ logs' = logs \o c
  BY DEF LogArrives, Deliver
<1>4. o = a.next \/ (a.next = 0 /\ o = a.back)
  OBVIOUS
<1>5. viewer = "v2" => o = a.next
  OBVIOUS
<1> HIDE DEF o
<1>6. c \in Seq(Nat) /\ o \in Nat /\ \E t \in Tops(a, newest) :
         /\ o <= t + 1 /\ Piece(c, a.f, o, t)
         /\ a.next <= t + 1 /\ Piece(c, a.f, a.next, t)
  BY <1>1, <1>2, <1>4, Brings
<1>7. Tops(a, newest) = {oldest - 1}
  BY DEF Tops
<1>8. /\ o <= oldest /\ Piece(c, filter, o, oldest - 1)
      /\ a.next <= oldest /\ Piece(c, filter, a.next, oldest - 1)
  BY <1>1, <1>6, <1>7
<1>9. a.next # 0 /\ viewer = "v1" => c # <<>>
  <2>1. a.next # 0 /\ viewer = "v1" => ~(Len(c) < Limit)
    BY <1>2 DEF PollNeeded
  <2>2. c = <<>> => Len(c) = 0
    OBVIOUS
  <2> HIDE DEF a, c
  <2> QED
    BY <1>1, <2>1, <2>2
<1>10. (viewer = "v1" => (IsEnd(a, c) <=> c = <<>>)) /\ (viewer = "v2" => (IsEnd(a, c) <=> a.next = 0))
  BY DEF IsEnd
<1> HIDE DEF a, c
<1>11. IsEnd(a, c) => a.next = 0
  BY <1>1, <1>9, <1>10
<1>12. oldest <= top + 1 /\ Piece(logs, filter, oldest, top)
  BY DEF Shows
<1>13. /\ Piece(logs \o c, filter, o, top)
       /\ Piece(logs \o c, filter, a.next, top)
  BY <1>1, <1>6, <1>8, <1>12, PiecesMeet
<1>14. o <= top + 1
  BY <1>1, <1>6, <1>8, <1>12
<1>15. logs \o c # <<>>
  BY <1>1, <1>6, ConcatEqualIffEmpty
<1>16. entire' => Piece(logs', filter', 0, top)
  BY <1>3, <1>11, <1>13
<1>17. viewer' = "v2" /\ oldest' = 0 => entire'
  BY <1>3, <1>5, <1>10
<1> QED
  BY <1>3, <1>13, <1>14, <1>15, <1>16, <1>17 DEF Shows

\* The list stays a piece of the log.
LEMMA ListStep ==
    ASSUME LogInv, LogNext
    PROVE  ListInv'
<1>1. /\ LogTypes /\ AsksInv /\ AloneInv /\ ListInv
      /\ asks \in Seq(Ask) /\ spoiled \in BOOLEAN /\ filter \in Filters
      /\ viewer \in {"v1", "v2"} /\ Len(asks) \in Nat /\ DOMAIN asks = 1..Len(asks)
      /\ newest \in Nat /\ StartLen \in Nat
  BY LogAssumption DEF LogInv, LogTypes
<1> SUFFICES ASSUME ~spoiled', NoFilterAsked'
             PROVE  \E top \in StartLen..newest' : Shows(top)'
  BY DEF ListInv
<1>2. CASE LogGrows
  <2>1. UNCHANGED <<viewer, asks, oldest, entire, filter, logs, spoiled>>
    BY <1>2 DEF LogGrows
  <2>2. NoFilterAsked /\ ~spoiled
    BY <2>1 DEF NoFilterAsked
  <2>3. PICK top \in StartLen..newest : Shows(top)
    BY <1>1, <2>2 DEF ListInv
  <2>4. Shows(top)'
    BY <2>1, <2>3 DEF Shows
  <2>5. top \in StartLen..newest'
    BY <1>1, <1>2 DEF LogGrows
  <2> QED
    BY <2>4, <2>5
<1>3. ASSUME NEW a \in Ask, Begin(a)
      PROVE  a.kind # "filter" /\ NoFilterAsked /\ ~spoiled
  <2>1. /\ \A k \in DOMAIN asks : k \in DOMAIN asks' /\ asks'[k] = asks[k]
        /\ Len(asks) + 1 \in DOMAIN asks' /\ asks'[Len(asks) + 1] = a
        /\ ~spoiled
    BY <1>1, <1>3, Begun
  <2> QED
    BY <2>1 DEF NoFilterAsked
<1>4. CASE ChangeFilter
  <2>1. url' \in Filters
    BY <1>4 DEF ChangeFilter, Filters
  <2>2. /\ setFilteredLogs(url') \in Ask /\ setFilteredLogs(url').kind = "filter"
        /\ Begin(setFilteredLogs(url'))
    BY <1>1, <1>4, <2>1, UsersThunks DEF ChangeFilter
  <2> QED
    BY <1>3, <2>2
<1>5. CASE Refresh
  <2>1. /\ setFilteredLogs(filter) \in Ask /\ setFilteredLogs(filter).kind = "filter"
        /\ Begin(setFilteredLogs(filter))
    BY <1>1, <1>5, UsersThunks DEF Refresh
  <2> QED
    BY <1>3, <2>1
<1>6. ASSUME ~spoiled, NoFilterAsked,
             UNCHANGED <<viewer, newest, oldest, entire, filter, logs>>
      PROVE  \E top \in StartLen..newest' : Shows(top)'
  <2>1. PICK top \in StartLen..newest : Shows(top)
    BY <1>1, <1>6 DEF ListInv
  <2>2. Shows(top)'
    BY <1>6, <2>1 DEF Shows
  <2> QED
    BY <1>6, <2>2
<1>7. CASE LoadMore
  <2>1. /\ getLogs \in Ask /\ Begin(getLogs)
        /\ UNCHANGED <<viewer, newest, oldest, entire, filter, logs>>
    BY <1>1, <1>7, UsersThunks DEF LoadMore
  <2> QED
    BY <1>3, <1>6, <2>1
<1>8. CASE updateLogs
  <2>1. /\ UNCHANGED <<viewer, newest, asks, oldest, filter, logs, spoiled>>
        /\ viewer = "v1" /\ logs # <<>> /\ entire' = FALSE
    BY <1>8 DEF updateLogs
  <2>2. NoFilterAsked /\ ~spoiled
    BY <2>1 DEF NoFilterAsked
  <2>3. PICK top \in StartLen..newest : Shows(top)
    BY <1>1, <2>2 DEF ListInv
  <2>4. Shows(top)'
    BY <2>1, <2>3 DEF Shows
  <2> QED
    BY <2>1, <2>4
<1>9. ASSUME NEW i \in DOMAIN asks, AnswerQuery(i) \/ PollAgain(i)
      PROVE  \E top \in StartLen..newest' : Shows(top)'
  <2>1. PICK b \in Ask :
           /\ b.kind = asks[i].kind /\ DOMAIN asks' = DOMAIN asks
           /\ asks'[i] = b /\ \A k \in DOMAIN asks : k # i => asks'[k] = asks[k]
    BY <1>1, <1>9, GoneOn
  <2>2. UNCHANGED <<viewer, newest, oldest, entire, filter, logs, spoiled>>
    BY <1>9 DEF AnswerQuery, PollAgain
  <2>3. NoFilterAsked
    BY <2>1 DEF NoFilterAsked
  <2> QED
    BY <1>6, <2>2, <2>3
<1>10. ASSUME NEW i \in DOMAIN asks, LogArrives(i)
       PROVE  \E top \in StartLen..newest' : Shows(top)'
  <2> DEFINE a == asks[i]
             c == a.total \o a.page
  <2>1. a \in Ask /\ Gathers(a, newest) /\ ~spoiled
    BY <1>1, <1>10 DEF AsksInv, LogArrives
  <2>2. /\ logs' = NewLogs(a, c) /\ newest' = newest
        /\ filter' = IF a.kind = "filter" THEN a.f ELSE filter
    BY <1>10 DEF LogArrives, Deliver
  <2>3. CASE a.kind = "filter"
    <3>1. a.start = 0 /\ a.polls
      BY <2>1, <2>3 DEF Gathers
    <3>2. logs' = c /\ filter' = a.f
      BY <2>2, <2>3 DEF NewLogs
    <3> QED
      BY <1>1, <1>10, <3>1, <3>2, ReplacedList
  <2>4. CASE a.kind = "more"
    <3>1. /\ Len(asks) = 1 /\ a.start = oldest /\ a.f = filter /\ logs # <<>>
          /\ viewer = "v1" => a.polls
          /\ viewer = "v2" => oldest # 0
      BY <1>1, <2>1, <2>4 DEF AloneInv
    <3>2. filter' = filter
      BY <2>2, <2>4
    <3>3. CASE oldest = 0
      <4>1. viewer = "v1" /\ logs' = c
        BY <1>1, <2>2, <2>4, <3>1, <3>3 DEF NewLogs
      <4> QED
        BY <1>1, <1>10, <3>1, <3>2, <3>3, <4>1, ReplacedList
    <3>4. CASE oldest # 0
      <4>1. logs' = logs \o c
        BY <2>2, <2>4, <3>1, <3>4 DEF NewLogs
      <4>2. NoFilterAsked
        <5>1. \A k \in DOMAIN asks : k = i
          BY <1>1, <1>10, <3>1
        <5> QED
          BY <2>4, <5>1 DEF NoFilterAsked
      <4>3. PICK top \in StartLen..newest : Shows(top)
        BY <1>1, <2>1, <4>2 DEF ListInv
      <4>4. Shows(top)'
        BY <1>1, <1>10, <3>1, <3>2, <3>4, <4>1, <4>3, ContinuedList
      <4> QED
        BY <2>2, <4>4
    <3> QED
      BY <3>3, <3>4
  <2> QED
    BY <2>1, <2>3, <2>4 DEF Ask
<1>11. ASSUME NEW i \in DOMAIN asks, LogFails(i)
       PROVE  FALSE
  BY <1>11 DEF LogFails
<1> QED
  BY <1>2, <1>4, <1>5, <1>7, <1>8, <1>9, <1>10, <1>11 DEF LogNext-----------------------------------------------------------------------------
(* The theorems.                                                           *)

\* The page is opened with an empty list and one thunk at work.
LEMMA InitInv ==
    ASSUME LogInit
    PROVE  LogInv
<1> DEFINE a == setFilteredLogs("all")
           none == <<>>
<1>1. /\ viewer \in {"v1", "v2"} /\ newest = StartLen /\ StartLen \in Nat
      /\ url = "all" /\ filter = "all" /\ oldest = 0 /\ entire = FALSE
      /\ fetching = TRUE /\ adding = FALSE /\ spoiled = FALSE
      /\ logs = none /\ asks = <<a>>
  BY LogAssumption DEF LogInit
<1>2. /\ a.kind = "filter" /\ a.start = 0 /\ a.polls = TRUE
      /\ a.older = 0 /\ a.total = none /\ a.back = 0 /\ a.phase = "sent"
      /\ a.next = 0 /\ a.again = FALSE
  BY DEF setFilteredLogs, LogQuery
<1>3. none \in Seq(Nat)
  OBVIOUS
<1>4. a \in Ask
  <2> HIDE DEF none
  <2> QED
    BY <1>3 DEF setFilteredLogs, LogQuery, Ask, Filters, none
<1> HIDE DEF a
<1>5. /\ asks \in Seq(Ask) /\ DOMAIN asks = {1} /\ asks[1] = a /\ asks # <<>>
  BY <1>1, <1>4
<1>6. Gathers(a, newest)
  BY <1>1, <1>2 DEF Gathers
<1> HIDE DEF none
<1>7. LogTypes
  <2>1. /\ newest \in Nat /\ StartLen <= newest /\ oldest \in Nat /\ oldest <= newest + 1
    BY <1>1
  <2>2. url \in Filters /\ filter \in Filters
    BY <1>1 DEF Filters
  <2>3. entire \in BOOLEAN /\ fetching \in BOOLEAN /\ adding \in BOOLEAN /\ spoiled \in BOOLEAN
    BY <1>1, Zenon
  <2>4. logs \in Seq(Nat) /\ viewer \in {"v1", "v2"}
    BY <1>1, <1>3
  <2> QED
    BY <1>5, <2>1, <2>2, <2>3, <2>4 DEF LogTypes
<1>8. AsksInv
  BY <1>5, <1>6 DEF AsksInv
<1>9. FlagsInv
  BY <1>1, <1>2, <1>5 DEF FlagsInv
<1>10. AloneInv
  BY <1>2, <1>5 DEF AloneInv
<1>11. ListInv
  BY <1>2, <1>5 DEF ListInv, NoFilterAsked
<1> QED
  BY <1>7, <1>8, <1>9, <1>10, <1>11 DEF LogInv

\* The invariant is inductive.
LEMMA StepInv ==
    ASSUME LogInv, [LogNext]_logVars
    PROVE  LogInv'
<1>1. CASE LogNext
  <2>1. LogTypes /\ AsksInv /\ FlagsInv
    BY DEF LogInv
  <2> QED
    BY <1>1, <2>1, TypesStep, AsksStep, FlagsStep, AloneStep, ListStep DEF LogInv
<1>2. CASE UNCHANGED logVars
  <2>1. UNCHANGED <<viewer, newest, url, filter, logs, oldest, entire, fetching, adding,
                    asks, spoiled>>
    BY <1>2 DEF logVars
  <2>2. LogTypes' /\ AsksInv'
    BY <2>1 DEF LogInv, LogTypes, AsksInv
  <2>3. FlagsInv' /\ AloneInv'
    BY <2>1 DEF LogInv, FlagsInv, AloneInv
  <2>4. ListInv'
    BY <2>1 DEF LogInv, ListInv, NoFilterAsked, Shows
  <2> QED
    BY <2>2, <2>3, <2>4 DEF LogInv
<1> QED
  BY <1>1, <1>2

\* What the server lets through is what is wanted of the entries logged so far.
LEMMA ThroughWanted ==
    ASSUME LogTypes, NEW e
    PROVE  /\ e \in Through(filter) => e \in Wanted(filter) /\ e \in Nat
           /\ e \in Wanted(filter) /\ e <= newest => e \in Through(filter)
<1>1. newest \in Nat /\ \A m \in Matching : m \in Nat \ {0}
  BY LogAssumption DEF LogTypes
<1> QED
  BY <1>1 DEF Through, Wanted

\* A list that is a piece of the log has no gap.
LEMMA InvCoherent ==
    ASSUME LogInv
    PROVE  LogCoherent
<1> SUFFICES ASSUME ~spoiled, NoFilterAsked, logs # <<>>
             PROVE  /\ IsNewestFirst(logs)
                    /\ Range(logs) = {e \in Through(filter) : e <= logs[1] /\ e >= Last(logs)}
  BY DEF LogCoherent, NoFilterAsked
<1>1. LogTypes /\ logs \in Seq(Nat) /\ newest \in Nat /\ oldest \in Nat /\ StartLen \in Nat
  BY LogAssumption DEF LogInv, LogTypes
<1>2. PICK top \in StartLen..newest : Shows(top)
  BY DEF LogInv, ListInv
<1>3. /\ IsNewestFirst(logs)
      /\ \A k \in DOMAIN logs : logs[k] \in Wanted(filter) /\ oldest <= logs[k] /\ logs[k] <= top
      /\ \A e \in Wanted(filter) : oldest <= e /\ e <= top => \E k \in DOMAIN logs : logs[k] = e
  BY <1>2 DEF Shows, Piece
<1> DEFINE n == Len(logs)
<1>4. n \in Nat \ {0} /\ DOMAIN logs = 1..n /\ Last(logs) = logs[n]
  BY <1>1 DEF Last
<1>5. \A k \in DOMAIN logs : logs[k] \in Nat
  BY <1>1
<1>6. top \in Nat /\ top <= newest
  BY <1>1
<1> HIDE DEF n
<1>7. 1 \in DOMAIN logs /\ n \in DOMAIN logs
  BY <1>4
<1>8. \A i, j \in DOMAIN logs : i < j => logs[i] > logs[j]
  BY <1>3 DEF IsNewestFirst
<1>9. ASSUME NEW k \in DOMAIN logs
      PROVE  logs[k] \in Through(filter) /\ logs[k] <= logs[1] /\ logs[k] >= logs[n]
  <2>1. logs[k] \in Wanted(filter) /\ logs[k] <= newest
    BY <1>1, <1>3, <1>5, <1>6
  <2>2. logs[k] \in Through(filter)
    BY <1>1, <2>1, ThroughWanted
  <2>3. (k = 1 \/ 1 < k) /\ (k = n \/ k < n)
    BY <1>4
  <2> QED
    BY <1>5, <1>7, <1>8, <2>2, <2>3
<1>10. ASSUME NEW e \in Through(filter), e <= logs[1], e >= logs[n]
       PROVE  \E k \in DOMAIN logs : logs[k] = e
  <2>1. e \in Wanted(filter) /\ e \in Nat
    BY <1>1, ThroughWanted
  <2>2. oldest <= e /\ e <= top
    BY <1>1, <1>3, <1>5, <1>6, <1>7, <1>10, <2>1
  <2> QED
    BY <1>3, <2>1, <2>2
<1>11. Range(logs) = {e \in Through(filter) : e <= logs[1] /\ e >= logs[n]}
  BY <1>9, <1>10 DEF Range
<1> QED
  BY <1>3, <1>4, <1>11

\* A list that the page calls whole reaches down to the first entry.
LEMMA InvWhole ==
    ASSUME LogInv
    PROVE  LogWhole
<1> SUFFICES ASSUME ~spoiled, entire, asks = <<>>, NEW e \in Through(filter), e <= StartLen
             PROVE  e \in Range(logs)
  BY DEF LogWhole
<1>1. LogTypes /\ newest \in Nat /\ StartLen \in Nat
  BY LogAssumption DEF LogInv, LogTypes
<1>2. NoFilterAsked
  BY DEF NoFilterAsked
<1>3. PICK top \in StartLen..newest : Shows(top)
  BY <1>2 DEF LogInv, ListInv
<1>4. Piece(logs, filter, 0, top)
  BY <1>3 DEF Shows
<1>5. e \in Wanted(filter) /\ e \in Nat
  BY <1>1, ThroughWanted
<1>6. 0 <= e /\ e <= top
  BY <1>1, <1>3, <1>5
<1> QED
  BY <1>4, <1>5, <1>6 DEF Piece, Range

\* When nothing is under way no flag is up, and the list is not empty unless it
\* is whole.
LEMMA InvGoesOn ==
    ASSUME LogInv
    PROVE  LogGoesOn
<1> SUFFICES ASSUME asks = <<>>, ~spoiled, ~entire
             PROVE  CanScroll
  BY DEF LogGoesOn
<1>1. viewer \in {"v1", "v2"} /\ DOMAIN asks = {}
  BY DEF LogInv, LogTypes
<1>2. NoFilterAsked
  BY <1>1 DEF NoFilterAsked
<1>3. logs # <<>>
  BY <1>2 DEF LogInv, ListInv, Shows
<1>4. ~fetching /\ (viewer = "v2" => ~adding)
  BY <1>1 DEF LogInv, FlagsInv
<1> QED
  BY <1>3, <1>4 DEF CanScroll

\* The list on the query-log page of either client has no gaps, duplicates or
\* entries of another filter, however long the log is and however it grows,
\* whatever the sizes of a page and of a scan are, and in whatever order the
\* answers come: for every execution without a failed request or a collision.
THEOREM LogCoherentTheorem == LogSpec => []LogCoherent
<1>1. LogInit => LogInv
  BY InitInv
<1>2. LogInv /\ [LogNext]_logVars => LogInv'
  BY StepInv
<1>3. LogInv => LogCoherent
  BY InvCoherent
<1> QED
  BY <1>1, <1>2, <1>3, PTL DEF LogSpec

\* When the page of either client says that there is no more (isEntireLog), no
\* older entry that passes the filter is left on the server.
THEOREM LogWholeTheorem == LogSpec => []LogWhole
<1>1. LogInit => LogInv
  BY InitInv
<1>2. LogInv /\ [LogNext]_logVars => LogInv'
  BY StepInv
<1>3. LogInv => LogWhole
  BY InvWhole
<1> QED
  BY <1>1, <1>2, <1>3, PTL DEF LogSpec

\* The page never stops half way: with nothing under way, the list is whole or
\* scrolling to its end asks for more; no flag stays up and hides the mark.
THEOREM LogGoesOnTheorem == LogSpec => []LogGoesOn
<1>1. LogInit => LogInv
  BY InitInv
<1>2. LogInv /\ [LogNext]_logVars => LogInv'
  BY StepInv
<1>3. LogInv => LogGoesOn
  BY InvGoesOn
<1> QED
  BY <1>1, <1>2, <1>3, PTL DEF LogSpec
=============================================================================
