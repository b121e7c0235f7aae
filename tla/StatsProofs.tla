---------------------------- MODULE StatsProofs ----------------------------
(***************************************************************************)
(* Proofs about Stats, for every limit, every number of queries, hours and *)
(* restarts.  The theorems on what a unit counts assume that the clock is  *)
(* not set back; the others do not.                                        *)
(***************************************************************************)
EXTENDS Stats, TLAPS

-----------------------------------------------------------------------------
(* The operators. *)

\* flushUnitToDB changes the unit of its hour and no other.
LEMMA StoredFacts ==
    ASSUME units' = Stored(curr)
    PROVE  /\ DOMAIN units' = DOMAIN units \cup {curr.id}
           /\ \A h \in DOMAIN units' :
                units'[h] = IF h = curr.id THEN curr.queries ELSE units[h]
  BY DEF Stored

\* The transaction of flushDB does the same, and deletes one unit as a whole.
LEMMA FlushedFacts ==
    ASSUME units' = Flushed(curr, flusher)
    PROVE  /\ DOMAIN units' = (DOMAIN units \cup {curr.id}) \ {flusher - limit}
           /\ \A h \in DOMAIN units' :
                units'[h] = IF h = curr.id THEN curr.queries ELSE units[h]
<1> DEFINE st == Stored(curr)
<1>1. /\ DOMAIN st = DOMAIN units \cup {curr.id}
      /\ \A h \in DOMAIN st : st[h] = IF h = curr.id THEN curr.queries ELSE units[h]
  BY DEF Stored
<1>2. units' = [h \in DOMAIN st \ {flusher - limit} |-> st[h]]
  BY DEF Flushed
<1> HIDE DEF st
<1> QED
  BY <1>1, <1>2

\* Either way a unit is the current one or is as before.
LEMMA StoredOrCurrent ==
    ASSUME units' = Stored(curr) \/ units' = Flushed(curr, flusher)
    PROVE  \A h \in DOMAIN units' :
             \/ h = curr.id /\ units'[h] = curr.queries
             \/ h # curr.id /\ h \in DOMAIN units /\ units'[h] = units[h]
<1>1. /\ DOMAIN units' \subseteq DOMAIN units \cup {curr.id}
      /\ \A h \in DOMAIN units' : units'[h] = IF h = curr.id THEN curr.queries ELSE units[h]
  BY StoredFacts, FlushedFacts, Zenon
<1> TAKE h \in DOMAIN units'
<1>2. CASE h = curr.id
  BY <1>1, <1>2
<1>3. CASE h # curr.id
  BY <1>1, <1>3
<1> QED
  BY <1>2, <1>3

\* What is known of the queries once only the database is left.
LEMMA StoredInFacts ==
    /\ DOMAIN StoredIn(units) =
         {q \in DOMAIN counted : counted[q] \in DOMAIN units /\ q \in units[counted[q]]}
    /\ \A q \in DOMAIN StoredIn(units) : StoredIn(units)[q] = counted[q]
  BY DEF StoredIn

-----------------------------------------------------------------------------
(* Types. *)

\* New makes a state of the right types.
LEMMA TypeInit == Init => TypeOK
<1> SUFFICES ASSUME Init PROVE TypeOK
  OBVIOUS
<1>1. 1 \in Hours /\ 0 \in 0..MaxQueries
  BY StatsAssumption DEF Hours
<1>2. clear \in [at : {"idle", "remove", "open", "swap"},
                 by : {"reset", "disable"}, upto : 0..MaxQueries,
                 clean : BOOLEAN]
  BY <1>1 DEF Init, NotClearing
<1>3. cleared \in [upto : 0..MaxQueries, clean : BOOLEAN]
  BY <1>1 DEF Init
<1>4. curr \in [id : Hours, queries : SUBSET Queries]
  BY <1>1 DEF Init, NewUnit
<1>5. DOMAIN units = {} /\ DOMAIN counted = {}
  BY DEF Init, Nothing
<1> QED
  BY <1>1, <1>2, <1>3, <1>4, <1>5, StatsAssumption DEF Init, TypeOK

\* The types of the parts of the state that few steps change, named for the
\* proof.
ClearType == [at : {"idle", "remove", "open", "swap"}, by : {"reset", "disable"},
              upto : 0..MaxQueries, clean : BOOLEAN]
UnitType  == [id : Hours, queries : SUBSET Queries]

\* Every step keeps the types.
LEMMA TypeNext == TypeOK /\ [Next]_vars => TypeOK'
<1> SUFFICES ASSUME TypeOK, [Next]_vars PROVE TypeOK'
  OBVIOUS
<1> USE DEF TypeOK
<1>1. \A id \in Hours : NewUnit(id) \in UnitType
  BY DEF NewUnit, UnitType
<1>2. NotClearing \in ClearType
  BY StatsAssumption DEF NotClearing, ClearType
<1>3. curr \in UnitType /\ clear \in ClearType
  BY DEF UnitType, ClearType
<1>4. /\ DOMAIN Nothing = {}
      /\ DOMAIN StoredIn(units) \subseteq DOMAIN counted
      /\ \A q \in DOMAIN StoredIn(units) : StoredIn(units)[q] \in Hours
  BY StoredInFacts DEF Nothing
<1>5. CASE Update
  <2>1. asked + 1 \in Queries /\ asked + 1 \in 0..MaxQueries
    BY <1>5, StatsAssumption DEF Update, Queries
  <2>2. curr' \in UnitType
    BY <1>3, <1>5, <2>1 DEF Update, UnitType
  <2>3. DOMAIN counted' \subseteq Queries /\ \A q \in DOMAIN counted' : counted'[q] \in Hours
    BY <1>5, <2>1 DEF Update
  <2> QED
    BY <1>5, <2>1, <2>2, <2>3 DEF Update, UnitType
<1>6. CASE ReadUnitID
  BY <1>6 DEF ReadUnitID
<1>7. CASE Flush
  <2>1. curr' \in UnitType
    BY <1>1, <1>3, <1>7 DEF Flush
  <2>2. DOMAIN counted' \subseteq Queries /\ \A q \in DOMAIN counted' : counted'[q] \in Hours
    BY <1>4, <1>7 DEF Flush
  <2>3. DOMAIN units' \subseteq Hours /\ \A h \in DOMAIN units' : units'[h] \subseteq Queries
    <3>1. CASE units' = Flushed(curr, flusher)
      BY <3>1, FlushedFacts
    <3>2. CASE UNCHANGED units
      BY <3>2
    <3> QED
      BY <1>7, <3>1, <3>2 DEF Flush
  <2>4. clear' \in ClearType
    BY <1>3, <1>7 DEF Flush, ClearType
  <2> QED
    BY <1>7, <2>1, <2>2, <2>3, <2>4 DEF Flush, UnitType, ClearType
<1>8. CASE SetConfig
  BY <1>8, StatsAssumption DEF SetConfig
<1>9. CASE ClearBegin
  <2>1. clear' \in ClearType
    BY <1>9, StatsAssumption DEF ClearBegin, ClearType
  <2> QED
    BY <1>9, <2>1 DEF ClearBegin, ClearType
<1>10. CASE ClearRemove
  <2>1. clear' \in ClearType
    BY <1>2, <1>3, <1>10 DEF ClearRemove, ClearType
  <2> QED
    BY <1>4, <1>10, <2>1 DEF ClearRemove, ClearType
<1>11. CASE ClearOpen
  <2>1. clear' \in ClearType
    BY <1>3, <1>11 DEF ClearOpen, ClearType
  <2> QED
    BY <1>11, <2>1 DEF ClearOpen, ClearType
<1>12. CASE ClearSwap
  <2>1. curr' \in UnitType /\ clear' \in ClearType
    BY <1>1, <1>2, <1>12 DEF ClearSwap
  <2>2. cleared' \in [upto : 0..MaxQueries, clean : BOOLEAN]
    BY <1>3, <1>12 DEF ClearSwap, ClearType
  <2> QED
    BY <1>4, <1>12, <2>1, <2>2 DEF ClearSwap, ClearType, UnitType
<1>13. CASE CloseBegin
  BY <1>13 DEF CloseBegin
<1>14. CASE CloseStore
  <2>1. DOMAIN units' \subseteq Hours /\ \A h \in DOMAIN units' : units'[h] \subseteq Queries
    BY <1>14, StoredFacts DEF CloseStore
  <2> QED
    BY <1>14, <2>1 DEF CloseStore
<1>15. CASE Crash
  BY <1>2, <1>15 DEF Crash, ClearType
<1>16. CASE Start
  <2>1. curr' \in UnitType
    BY <1>16 DEF Start, Resumed, UnitType
  <2> QED
    BY <1>4, <1>16, <2>1 DEF Start, UnitType
<1>17. CASE Tick
  BY <1>17, StatsAssumption DEF Tick, Hours
<1>18. CASE UNCHANGED vars
  BY <1>18 DEF vars
<1> QED
  BY <1>5, <1>6, <1>7, <1>8, <1>9, <1>10, <1>11, <1>12, <1>13, <1>14, <1>15,
     <1>16, <1>17, <1>18 DEF Next, Clearing

\* The state always has its types: in particular the current unit and the unit
\* a flush is about to begin are hours of the clock, whatever flushes, clears,
\* crashes and restarts do.
THEOREM TypeCorrect == Spec => []TypeOK
  BY TypeInit, TypeNext, PTL DEF Spec

-----------------------------------------------------------------------------
(* Clearing.  Between the removal of the file and the new current unit the *)
(* database must stay empty for a clear to be clean: no flush can get at   *)
(* it before it is open again, and one that does afterwards is what makes  *)
(* the clear not clean.                                                    *)

ClearInv ==
    /\ process # "up" => clear.at = "idle"
    /\ clear.at \in {"remove", "open"} => db = "nil"
    /\ clear.at \in {"open", "swap"} /\ clear.clean => DOMAIN units = {}

\* Every step keeps it, from states of the right types.
LEMMA ClearInvNext == TypeOK /\ ClearInv /\ [Next]_vars => ClearInv'
<1> SUFFICES ASSUME TypeOK, ClearInv, [Next]_vars PROVE ClearInv'
  OBVIOUS
<1> USE DEF ClearInv
<1>1. clear \in ClearType /\ DOMAIN Nothing = {}
  BY DEF TypeOK, ClearType, Nothing
<1>2. CASE Flush
  <2>1. CASE curr.id # flusher /\ db = "open"
    <3>1. clear.at = "idle" \/ clear.at = "swap"
      BY <1>1, <2>1 DEF ClearType
    <3>2. clear.at = "swap" => ~clear'.clean
      BY <1>1, <1>2, <2>1 DEF Flush, ConfMuFree, ClearType
    <3>3. clear'.at = clear.at /\ db' = db /\ process' = process
      BY <1>1, <1>2, <2>1 DEF Flush, ClearType
    <3> QED
      BY <3>1, <3>2, <3>3, <2>1
  <2>2. CASE ~(curr.id # flusher /\ db = "open")
    BY <1>2, <2>2 DEF Flush
  <2> QED
    BY <2>1, <2>2
<1>3. CASE ClearBegin
  BY <1>3 DEF ClearBegin
<1>4. CASE ClearRemove
  <2>1. CASE units' = Nothing
    BY <1>1, <1>4, <2>1 DEF ClearRemove, ClearType
  <2>2. CASE clear' = [clear EXCEPT !.at = "open", !.clean = FALSE]
    BY <1>1, <1>4, <2>2 DEF ClearRemove, ClearType
  <2>3. CASE clear' = NotClearing
    BY <1>4, <2>3 DEF ClearRemove, NotClearing
  <2> QED
    BY <1>4, <2>1, <2>2, <2>3 DEF ClearRemove
<1>5. CASE ClearOpen
  BY <1>1, <1>5 DEF ClearOpen, ClearType
<1>6. CASE ClearSwap
  BY <1>6 DEF ClearSwap, NotClearing
<1>7. CASE CloseStore
  BY <1>7 DEF CloseStore
<1>8. CASE Crash
  BY <1>8 DEF Crash, NotClearing
<1>9. CASE Start
  BY <1>9 DEF Start
<1>10. CASE Update \/ ReadUnitID \/ SetConfig \/ CloseBegin \/ Tick \/ UNCHANGED vars
  BY <1>10 DEF Update, ReadUnitID, SetConfig, CloseBegin, Tick, vars
<1> QED
  BY <1>2, <1>3, <1>4, <1>5, <1>6, <1>7, <1>8, <1>9, <1>10 DEF Next, Clearing

\* New queries have larger numbers than the ones a clear has to forget.
ForgetInv ==
    /\ cleared.upto <= asked /\ clear.upto <= asked
    /\ cleared.clean => ForgottenUpTo(cleared.upto)

\* Every step keeps it: what a flush, a restart and Close store or take up
\* again is what the current unit and the database have.
LEMMA ForgetInvNext ==
    TypeOK /\ ClearInv /\ ForgetInv /\ [Next]_vars => ForgetInv'
<1> SUFFICES ASSUME TypeOK, ClearInv, ForgetInv, [Next]_vars PROVE ForgetInv'
  OBVIOUS
<1> USE DEF ForgetInv
<1>1. clear \in ClearType /\ curr \in UnitType /\ asked \in Nat /\ cleared.upto \in Nat
  BY StatsAssumption DEF TypeOK, ClearType, UnitType
<1>2. CASE Update
  <2>1. curr'.queries \subseteq curr.queries \cup {asked + 1}
    BY <1>1, <1>2 DEF Update, UnitType
  <2> QED
    BY <1>1, <1>2, <2>1 DEF Update, ForgottenUpTo, ClearType
<1>3. CASE Flush
  <2>1. clear'.upto = clear.upto
    BY <1>1, <1>3 DEF Flush, ClearType
  <2>2. curr' = curr \/ curr'.queries = {}
    BY <1>3 DEF Flush, NewUnit
  <2>3. UNCHANGED <<asked, cleared>>
    BY <1>3 DEF Flush
  <2>4. ForgottenUpTo(cleared.upto) => ForgottenUpTo(cleared.upto)'
    <3>1. CASE UNCHANGED units
      BY <2>2, <2>3, <3>1 DEF ForgottenUpTo
    <3>2. CASE units' = Flushed(curr, flusher)
      BY <2>2, <2>3, <3>2, StoredOrCurrent DEF ForgottenUpTo
    <3> QED
      BY <1>3, <3>1, <3>2 DEF Flush
  <2> QED
    BY <2>1, <2>3, <2>4
<1>4. CASE ClearBegin
  BY <1>1, <1>4 DEF ClearBegin, ForgottenUpTo
<1>5. CASE ClearRemove
  <2>1. clear'.upto = clear.upto \/ clear'.upto = 0
    <3>1. \/ clear' = [clear EXCEPT !.at = "open"]
          \/ clear' = [clear EXCEPT !.at = "open", !.clean = FALSE]
          \/ clear' = NotClearing
      BY <1>5 DEF ClearRemove
    <3>2. [clear EXCEPT !.at = "open"].upto = clear.upto
      BY <1>1 DEF ClearType
    <3>3. [clear EXCEPT !.at = "open", !.clean = FALSE].upto = clear.upto
      BY <1>1 DEF ClearType
    <3>4. NotClearing.upto = 0
      BY DEF NotClearing
    <3> QED
      BY <3>1, <3>2, <3>3, <3>4
  <2>2. UNCHANGED <<asked, cleared, curr>> /\ (UNCHANGED units \/ DOMAIN units' = {})
    BY <1>5 DEF ClearRemove, Nothing
  <2> QED
    BY <1>1, <2>1, <2>2 DEF ForgottenUpTo
<1>6. CASE ClearSwap
  <2>1. cleared'.upto = clear.upto /\ clear'.upto = 0 /\ asked' = asked
    BY <1>6 DEF ClearSwap, NotClearing
  <2>2. cleared'.clean => DOMAIN units' = {}
    <3>1. clear.at = "swap" /\ UNCHANGED units /\ (cleared'.clean => clear.clean)
      BY <1>6, Zenon DEF ClearSwap
    <3> QED
      BY <3>1, Zenon DEF ClearInv
  <2>3. curr'.queries = {}
    BY <1>6 DEF ClearSwap, NewUnit
  <2> QED
    BY <1>1, <2>1, <2>2, <2>3 DEF ForgottenUpTo
<1>7. CASE CloseStore
  <2>1. UNCHANGED <<asked, cleared, clear, curr>>
    BY <1>7 DEF CloseStore
  <2>2. CASE units' = Stored(curr)
    BY <2>1, <2>2, StoredOrCurrent DEF ForgottenUpTo
  <2>3. CASE UNCHANGED units
    BY <2>1, <2>3 DEF ForgottenUpTo
  <2> QED
    BY <1>7, <2>2, <2>3 DEF CloseStore
<1>8. CASE Start
  <2>1. UNCHANGED <<asked, cleared, clear>>
    BY <1>8 DEF Start
  <2>2. \A h \in DOMAIN units' : h \in DOMAIN units /\ units'[h] = units[h]
    BY <1>8 DEF Start
  <2>3. curr'.queries = {} \/ \E h \in DOMAIN units : curr'.queries = units[h]
    BY <1>8 DEF Start, Resumed
  <2> QED
    BY <2>1, <2>2, <2>3 DEF ForgottenUpTo
<1>9. CASE Crash
  BY <1>1, <1>9 DEF Crash, NotClearing, ForgottenUpTo
<1>10. CASE ReadUnitID \/ SetConfig \/ ClearOpen \/ CloseBegin \/ Tick \/ UNCHANGED vars
  <2>1. UNCHANGED <<asked, cleared, curr, units>> /\ clear'.upto = clear.upto
    BY <1>1, <1>10 DEF ReadUnitID, SetConfig, ClearOpen, CloseBegin, Tick, vars, ClearType
  <2> QED
    BY <2>1 DEF ForgottenUpTo
<1> QED
  BY <1>2, <1>3, <1>4, <1>5, <1>6, <1>7, <1>8, <1>9, <1>10 DEF Next, Clearing

\* At start there is nothing to forget.
LEMMA ForgetInit == Init => ClearInv /\ ForgetInv
  BY DEF Init, ClearInv, ForgetInv, ForgottenUpTo, NotClearing, NewUnit, Nothing

\* Statistics that have been cleared stay cleared: no flush, Close or start
\* brings a query from before the clear back, unless that clear was not clean.
THEOREM ClearForgetsTheorem == Spec => []ClearForgets
<1>1. ForgetInv => ClearForgets
  BY DEF ForgetInv, ClearForgets
<1> QED
  BY <1>1, TypeInit, TypeNext, ForgetInit, ClearInvNext, ForgetInvNext, PTL DEF Spec

-----------------------------------------------------------------------------
(* Units.  While the last clear was clean, hours only grow: those of the   *)
(* stored units and of the queries are at most that of the current unit,   *)
(* and a flush that has read the clock is not behind it.  So the unit a    *)
(* flush begins is of an hour in which nothing has been counted.           *)

HoursInv ==
    /\ curr.id <= hour /\ flusher <= hour
    /\ cleared.clean =>
         /\ flusher # 0 => curr.id <= flusher
         /\ \A h \in DOMAIN units : h <= curr.id
         /\ \A q \in DOMAIN counted : counted[q] <= curr.id

\* Every step keeps it if the clock is not set back.
LEMMA HoursNext ==
    ASSUME ~ClockBack
    PROVE  TypeOK /\ ClearInv /\ HoursInv /\ [Next]_vars => HoursInv'
<1> SUFFICES ASSUME TypeOK, ClearInv, HoursInv, [Next]_vars PROVE HoursInv'
  OBVIOUS
<1> USE DEF HoursInv
<1>1. /\ curr \in UnitType /\ curr.id \in Nat /\ hour \in Nat /\ flusher \in Nat
      /\ DOMAIN units \subseteq Nat /\ \A q \in DOMAIN counted : counted[q] \in Nat
  BY DEF TypeOK, UnitType, Hours
<1>2. CASE Update
  <2>1. curr'.id = curr.id /\ UNCHANGED <<hour, flusher, cleared, units>>
    BY <1>1, <1>2 DEF Update, UnitType
  <2>2. \A q \in DOMAIN counted' : (q \in DOMAIN counted /\ counted'[q] = counted[q]) \/ counted'[q] = curr.id
    BY <1>2 DEF Update
  <2> QED
    BY <1>1, <2>1, <2>2
<1>3. CASE ReadUnitID
  BY <1>1, <1>3 DEF ReadUnitID
<1>4. CASE Flush
  <2>1. UNCHANGED <<hour, cleared>> /\ flusher' = 0
    BY <1>4 DEF Flush
  <2>2. CASE curr.id # flusher /\ db = "open"
    <3>1. curr'.id = flusher /\ flusher # 0
      BY <1>4, <2>2 DEF Flush, NewUnit
    <3>2. DOMAIN units' \subseteq DOMAIN units \cup {curr.id}
      BY <1>4, <2>2, FlushedFacts DEF Flush
    <3>3. \A q \in DOMAIN counted' : q \in DOMAIN counted /\ counted'[q] = counted[q]
      BY <1>4, <2>2, StoredInFacts DEF Flush
    <3> QED
      BY <1>1, <2>1, <3>1, <3>2, <3>3
  <2>3. CASE ~(curr.id # flusher /\ db = "open")
    BY <1>1, <1>4, <2>1, <2>3 DEF Flush
  <2> QED
    BY <2>2, <2>3
<1>5. CASE ClearRemove
  <2>1. UNCHANGED <<hour, flusher, cleared, curr, counted>> /\ DOMAIN units' \subseteq DOMAIN units
    BY <1>5 DEF ClearRemove, Nothing
  <2> QED
    BY <1>1, <2>1
<1>6. CASE ClearSwap
  <2>1. clear.at = "swap" /\ UNCHANGED <<units, hour, flusher>>
        /\ (cleared'.clean => clear.clean /\ flusher \in {0, hour})
    BY <1>6, Zenon DEF ClearSwap
  <2>2. cleared'.clean => DOMAIN units = {}
    BY <2>1, Zenon DEF ClearInv
  <2>3. curr'.id = hour /\ DOMAIN counted' = {}
    BY <1>6 DEF ClearSwap, NewUnit, Nothing
  <2> QED
    BY <1>1, <2>1, <2>2, <2>3
<1>7. CASE CloseStore
  <2>1. UNCHANGED <<hour, flusher, cleared, curr, counted>> /\ DOMAIN units' \subseteq DOMAIN units \cup {curr.id}
    BY <1>7, StoredFacts DEF CloseStore
  <2> QED
    BY <1>1, <2>1
<1>8. CASE Start
  <2>1. UNCHANGED <<hour, cleared>> /\ flusher' = 0 /\ curr'.id = hour
    BY <1>8 DEF Start, Resumed
  <2>2. DOMAIN units' \subseteq DOMAIN units
    BY <1>8 DEF Start
  <2>3. \A q \in DOMAIN counted' : q \in DOMAIN counted /\ counted'[q] = counted[q]
    BY <1>8, StoredInFacts DEF Start
  <2> QED
    BY <1>1, <2>1, <2>2, <2>3
<1>9. CASE Tick
  <2>1. hour' = hour + 1 /\ UNCHANGED <<flusher, cleared, curr, counted, units>>
    BY <1>9 DEF Tick
  <2> QED
    BY <1>1, <2>1
<1>10. CASE SetConfig \/ ClearBegin \/ ClearOpen \/ CloseBegin \/ Crash \/ UNCHANGED vars
  <2>1. UNCHANGED <<hour, flusher, cleared, curr, counted, units>>
    BY <1>10 DEF SetConfig, ClearBegin, ClearOpen, CloseBegin, Crash, vars
  <2> QED
    BY <2>1
<1> QED
  BY <1>2, <1>3, <1>4, <1>5, <1>6, <1>7, <1>8, <1>9, <1>10 DEF Next, Clearing

WholeInv ==
    /\ DOMAIN counted \subseteq 1..asked
    /\ cleared.clean =>
         /\ curr.queries = Counted(curr.id)
         /\ \A h \in DOMAIN units :
              /\ units[h] \subseteq Counted(h)
              /\ h # curr.id => Counted(h) \subseteq units[h]

\* Once only the database is left, a stored unit has exactly the queries of its
\* hour, and there are no others.
LEMMA OnlyStored ==
    ASSUME counted' = StoredIn(units), NEW h
    PROVE  /\ h \in DOMAIN units => Counted(h)' = Counted(h) \cap units[h]
           /\ h \notin DOMAIN units => Counted(h)' = {}
  BY StoredInFacts DEF Counted

\* Every step keeps it: a flush begins an empty unit of an hour without queries,
\* and a start takes up again what is stored of its hour.
LEMMA WholeNext ==
    TypeOK /\ ClearInv /\ HoursInv /\ WholeInv /\ [Next]_vars => WholeInv'
<1> SUFFICES ASSUME TypeOK, ClearInv, HoursInv, WholeInv, [Next]_vars PROVE WholeInv'
  OBVIOUS
<1> USE DEF WholeInv
<1>1. /\ curr \in UnitType /\ curr.id \in Nat /\ hour \in Nat /\ flusher \in Nat
      /\ DOMAIN units \subseteq Nat /\ \A q \in DOMAIN counted : counted[q] \in Nat
      /\ asked \in Nat
  BY StatsAssumption DEF TypeOK, UnitType, Hours
<1>2. CASE Update
  <2>1. CASE enabled
    <3>1. asked' = asked + 1 /\ UNCHANGED <<cleared, units>>
      BY <1>2 DEF Update
    <3>2. curr'.id = curr.id /\ curr'.queries = curr.queries \cup {asked + 1}
      BY <1>1, <1>2, <2>1 DEF Update, UnitType
    <3>3. asked + 1 \notin DOMAIN counted
      BY <1>1
    <3>4. /\ DOMAIN counted' = DOMAIN counted \cup {asked + 1}
          /\ \A q \in DOMAIN counted : counted'[q] = counted[q]
          /\ counted'[asked + 1] = curr.id
      BY <1>2, <2>1, <3>3 DEF Update
    <3>5. /\ Counted(curr.id)' = Counted(curr.id) \cup {asked + 1}
          /\ \A h : h # curr.id => Counted(h)' = Counted(h)
      BY <3>2, <3>3, <3>4 DEF Counted
    <3>6. DOMAIN counted' \subseteq 1..asked'
      BY <1>1, <3>1, <3>4
    <3> QED
      BY <3>1, <3>2, <3>5, <3>6
  <2>2. CASE ~enabled
    BY <1>1, <1>2, <2>2 DEF Update, Counted
  <2> QED
    BY <2>1, <2>2
<1>3. CASE Flush
  <2>1. UNCHANGED <<asked, cleared>>
    BY <1>3 DEF Flush
  <2>2. CASE (curr.id # flusher /\ db = "open") /\ cleared.clean
    <3>1. curr'.id = flusher /\ curr'.queries = {} /\ flusher > curr.id
      BY <1>1, <1>3, <2>2 DEF Flush, NewUnit, HoursInv
    <3>2. Counted(flusher) = {}
      BY <1>1, <2>2, <3>1 DEF Counted, HoursInv
    <3>3. CASE units' = Flushed(curr, flusher) /\ UNCHANGED counted
      <4>1. \A h : Counted(h)' = Counted(h)
        BY <3>3 DEF Counted
      <4> QED
        BY <2>1, <2>2, <3>1, <3>2, <3>3, <4>1, StoredOrCurrent
    <3>4. CASE counted' = StoredIn(units) /\ UNCHANGED units
      <4>1. \A h : /\ h \in DOMAIN units => Counted(h)' = Counted(h) \cap units[h]
                   /\ h \notin DOMAIN units => Counted(h)' = {}
        BY <3>4, OnlyStored
      <4>2. flusher \notin DOMAIN units
        BY <1>1, <2>2, <3>1 DEF HoursInv
      <4>3. DOMAIN counted' \subseteq 1..asked
        BY <3>4, StoredInFacts
      <4> QED
        BY <2>1, <2>2, <3>1, <3>4, <4>1, <4>2, <4>3
    <3> QED
      BY <1>3, <2>2, <3>3, <3>4 DEF Flush
  <2>3. CASE ~cleared.clean
    BY <1>3, <2>1, <2>3, StoredInFacts DEF Flush
  <2>4. CASE ~(curr.id # flusher /\ db = "open")
    BY <1>3, <2>1, <2>4 DEF Flush, Counted
  <2> QED
    BY <2>2, <2>3, <2>4
<1>4. CASE ClearRemove
  BY <1>4 DEF ClearRemove, Nothing, Counted
<1>5. CASE ClearSwap
  <2>1. clear.at = "swap" /\ UNCHANGED <<units, asked>> /\ (cleared'.clean => clear.clean)
    BY <1>5, Zenon DEF ClearSwap
  <2>2. cleared'.clean => DOMAIN units = {}
    BY <2>1, Zenon DEF ClearInv
  <2>3. curr'.queries = {} /\ DOMAIN counted' = {}
    BY <1>5 DEF ClearSwap, NewUnit, Nothing
  <2> QED
    BY <2>1, <2>2, <2>3 DEF Counted
<1>6. CASE CloseStore
  <2>1. UNCHANGED <<asked, cleared, curr, counted>>
    BY <1>6 DEF CloseStore
  <2>2. \A h : Counted(h)' = Counted(h)
    BY <2>1 DEF Counted
  <2>3. CASE units' = Stored(curr)
    BY <2>1, <2>2, <2>3, StoredOrCurrent
  <2>4. CASE UNCHANGED units
    BY <2>1, <2>2, <2>4
  <2> QED
    BY <1>6, <2>3, <2>4 DEF CloseStore
<1>7. CASE Start
  <2>1. UNCHANGED <<asked, cleared>> /\ counted' = StoredIn(units)
    BY <1>7 DEF Start
  <2>2. \A h : /\ h \in DOMAIN units => Counted(h)' = Counted(h) \cap units[h]
               /\ h \notin DOMAIN units => Counted(h)' = {}
    BY <2>1, OnlyStored
  <2>3. \A h \in DOMAIN units' : h \in DOMAIN units /\ units'[h] = units[h]
    BY <1>7 DEF Start
  <2>4. curr'.id = hour /\ curr'.queries = IF hour \in DOMAIN units THEN units[hour] ELSE {}
    BY <1>7 DEF Start, Resumed
  <2>5. DOMAIN counted' \subseteq 1..asked
    BY <2>1, StoredInFacts
  <2>6. PICK k : k = hour
    OBVIOUS
  <2>7. ASSUME cleared.clean
        PROVE  /\ curr'.queries = Counted(k)'
               /\ \A h \in DOMAIN units' : units'[h] = Counted(h)'
    <3>1. \A h \in DOMAIN units : Counted(h) \cap units[h] = units[h]
      BY <2>7
    <3>2. \A h \in DOMAIN units : Counted(h)' = units[h]
      BY <2>2, <3>1
    <3> QED
      BY <2>2, <2>3, <2>4, <2>6, <3>2
  <2> QED
    BY <2>1, <2>4, <2>5, <2>6, <2>7
<1>8. CASE ReadUnitID \/ SetConfig \/ ClearBegin \/ ClearOpen \/ CloseBegin \/ Crash \/ Tick
             \/ UNCHANGED vars
  <2>1. UNCHANGED <<asked, cleared, curr, counted, units>>
    BY <1>8 DEF ReadUnitID, SetConfig, ClearBegin, ClearOpen, CloseBegin, Crash, Tick, vars
  <2> QED
    BY <2>1 DEF Counted
<1> QED
  BY <1>2, <1>3, <1>4, <1>5, <1>6, <1>7, <1>8 DEF Next, Clearing

\* The units that a report over the smallest limit needs are all there, until
\* a clear removes them or the process ends.
ReportInv ==
    /\ least <= limit
    /\ cleared.clean /\ process # "down" /\ clear.at \in {"idle", "remove"} =>
         \A q \in DOMAIN counted :
            counted[q] > curr.id - least /\ counted[q] # curr.id =>
              counted[q] \in DOMAIN units

\* Every step keeps it: a flush deletes the unit just beyond the limit, a start
\* only ones beyond it.
LEMMA ReportNext ==
    TypeOK /\ ClearInv /\ HoursInv /\ WholeInv /\ ReportInv /\ [Next]_vars => ReportInv'
<1> SUFFICES ASSUME TypeOK, ClearInv, HoursInv, WholeInv, ReportInv, [Next]_vars
             PROVE  ReportInv'
  OBVIOUS
<1> USE DEF ReportInv
<1>1. /\ curr \in UnitType /\ curr.id \in Nat /\ hour \in Nat /\ flusher \in Nat
      /\ DOMAIN units \subseteq Nat /\ \A q \in DOMAIN counted : counted[q] \in Nat
      /\ least \in Nat /\ limit \in Nat /\ clear \in ClearType
  BY DEF TypeOK, UnitType, ClearType, Hours
<1>2. CASE Update
  <2>1. curr'.id = curr.id /\ UNCHANGED <<least, limit, process, clear, cleared, units>>
    BY <1>1, <1>2 DEF Update, UnitType
  <2>2. \A q \in DOMAIN counted' : (q \in DOMAIN counted /\ counted'[q] = counted[q]) \/ counted'[q] = curr.id
    BY <1>2 DEF Update
  <2> QED
    BY <1>1, <2>1, <2>2
<1>3. CASE Flush
  <2>1. UNCHANGED <<least, limit, process, cleared>> /\ clear'.at = clear.at
    BY <1>1, <1>3 DEF Flush, ClearType
  <2>2. CASE (curr.id # flusher /\ db = "open") /\ cleared.clean
    <3>1. curr'.id = flusher /\ flusher > curr.id
      BY <1>1, <1>3, <2>2 DEF Flush, NewUnit, HoursInv
    <3>2. \A q \in DOMAIN counted : counted[q] <= curr.id
      BY <2>2 DEF HoursInv
    <3>3. CASE units' = Flushed(curr, flusher) /\ UNCHANGED counted
      <4>1. DOMAIN units' = (DOMAIN units \cup {curr.id}) \ {flusher - limit}
        BY <3>3, FlushedFacts
      <4> QED
        BY <1>1, <2>1, <3>1, <3>2, <3>3, <4>1
    <3>4. CASE counted' = StoredIn(units) /\ UNCHANGED units
      BY <1>1, <2>1, <3>4, StoredInFacts
    <3> QED
      BY <1>3, <2>2, <3>3, <3>4 DEF Flush
  <2>3. CASE ~cleared.clean
    BY <2>1, <2>3
  <2>4. CASE ~(curr.id # flusher /\ db = "open")
    BY <1>3, <2>1, <2>4 DEF Flush
  <2> QED
    BY <2>2, <2>3, <2>4
<1>4. CASE SetConfig
  <2>1. UNCHANGED <<process, clear, cleared, units, curr, counted>>
    BY <1>4 DEF SetConfig
  <2>2. limit' \in Nat /\ least' \in Nat /\ least' <= limit' /\ least' <= least
    BY <1>1, <1>4, StatsAssumption DEF SetConfig
  <2> QED
    BY <1>1, <2>1, <2>2
<1>5. CASE ClearRemove
  <2>1. UNCHANGED <<least, limit, process, cleared, curr, counted>> /\ clear.at = "remove"
    BY <1>5 DEF ClearRemove
  <2>2. CASE UNCHANGED units
    BY <2>1, <2>2
  <2>3. CASE clear' = [clear EXCEPT !.at = "open"]
    BY <1>1, <2>1, <2>3 DEF ClearType
  <2> QED
    BY <1>5, <2>2, <2>3 DEF ClearRemove
<1>6. CASE ClearSwap
  BY <1>6 DEF ClearSwap, Nothing
<1>7. CASE CloseStore
  BY <1>7 DEF CloseStore
<1>8. CASE Start
  <2>1. UNCHANGED <<least, limit, cleared>> /\ curr'.id = hour
    BY <1>8 DEF Start, Resumed
  <2>2. DOMAIN units' = {h \in DOMAIN units : h >= hour - limit - 1}
    BY <1>8 DEF Start
  <2>3. \A q \in DOMAIN counted' : q \in DOMAIN counted /\ counted'[q] = counted[q] /\ counted[q] \in DOMAIN units
    BY <1>8, StoredInFacts DEF Start
  <2> QED
    BY <1>1, <2>1, <2>2, <2>3
<1>9. CASE ClearBegin
  <2>1. UNCHANGED <<least, limit, process, cleared, units, curr, counted>> /\ clear.at = "idle"
    BY <1>9 DEF ClearBegin
  <2> QED
    BY <2>1
<1>10. CASE ClearOpen
  BY <1>1, <1>10 DEF ClearOpen, ClearType
<1>11. CASE CloseBegin \/ Crash
  <2>1. UNCHANGED <<least, limit, cleared, units, curr, counted>>
    BY <1>11 DEF CloseBegin, Crash
  <2>2. (process' # "down") => (process # "down" /\ clear' = clear)
    BY <1>11 DEF CloseBegin, Crash
  <2> QED
    BY <2>1, <2>2
<1>12. CASE ReadUnitID \/ Tick \/ UNCHANGED vars
  BY <1>12 DEF ReadUnitID, Tick, vars
<1> QED
  BY <1>2, <1>3, <1>4, <1>5, <1>6, <1>7, <1>8, <1>9, <1>10, <1>11, <1>12 DEF Next, Clearing

-----------------------------------------------------------------------------
(* The theorems on units. *)

UnitsInv == TypeOK /\ ClearInv /\ HoursInv /\ WholeInv /\ ReportInv

\* New establishes the whole invariant.
LEMMA UnitsInit == Init => UnitsInv
<1> SUFFICES ASSUME Init PROVE UnitsInv
  OBVIOUS
<1>1. curr.id = 1 /\ curr.queries = {} /\ DOMAIN counted = {} /\ DOMAIN units = {}
  BY DEF Init, NewUnit, Nothing
<1>2. HoursInv
  BY <1>1 DEF Init, HoursInv
<1>3. WholeInv
  BY <1>1 DEF Init, WholeInv, Counted
<1>4. ReportInv
  BY <1>1, StatsAssumption DEF Init, ReportInv
<1> QED
  BY <1>2, <1>3, <1>4, TypeInit, ForgetInit DEF UnitsInv

\* With a clock that is not set back it is an invariant.
LEMMA UnitsInvariant == ASSUME ~ClockBack PROVE Spec => []UnitsInv
<1>1. UnitsInv /\ [Next]_vars => UnitsInv'
  BY TypeNext, ClearInvNext, HoursNext, WholeNext, ReportNext DEF UnitsInv
<1> QED
  BY <1>1, UnitsInit, PTL DEF Spec

\* A unit counts exactly the queries of its hour: no flush, crash, restart or
\* change of the limit loses a query between two units or counts it in two,
\* as long as the clock is not set back and the last clear was clean.
THEOREM UnitsWholeTheorem == ASSUME ~ClockBack PROVE Spec => []UnitsWhole
<1>1. UnitsInv => UnitsWhole
  BY DEF UnitsInv, WholeInv, UnitsWhole, Settled
<1> QED
  BY <1>1, UnitsInvariant, PTL

\* The report over the configured time misses no query that is counted in it,
\* as far back as the limit has always reached: the deletion of old units in a
\* flush and at start is off by no hour.
THEOREM ReportCompleteTheorem == ASSUME ~ClockBack PROVE Spec => []ReportComplete
<1>1. UnitsInv => ReportComplete
  <2> SUFFICES ASSUME UnitsInv, Settled, NEW h \in Window(curr.id, least), NEW q \in Counted(h)
               PROVE  q \in Report(limit)
    BY DEF ReportComplete
  <2> USE DEF UnitsInv
  <2>1. curr.id \in Nat /\ h \in Nat /\ least \in Nat /\ limit \in Nat /\ least <= limit
    BY DEF TypeOK, Window, Hours, ReportInv
  <2>2. h > curr.id - least /\ h <= curr.id /\ h \in Hours
    BY DEF Window
  <2>3. CASE h = curr.id
    BY <2>3 DEF WholeInv, Settled, Report
  <2>4. CASE h # curr.id
    <3>1. h \in DOMAIN units
      BY <2>1, <2>2, <2>4 DEF ReportInv, Settled, Counted
    <3>2. q \in units[h]
      BY <2>4, <3>1 DEF WholeInv, Settled
    <3>3. h \in Window(curr.id - 1, limit - 1)
      BY <2>1, <2>2, <2>4 DEF Window
    <3> QED
      BY <3>1, <3>2, <3>3 DEF Report
  <2> QED
    BY <2>3, <2>4
<1> QED
  BY <1>1, UnitsInvariant, PTL

\* A stored unit is never overwritten by one that counts less, by a flush that
\* comes back to its hour, by Close or after a restart in the same hour.
THEOREM StoredUnitsKeptTheorem == ASSUME ~ClockBack PROVE Spec => StoredUnitsKept
<1>1. UnitsInv /\ [Next]_vars =>
        [cleared.clean => \A h \in DOMAIN units \cap DOMAIN units' : units[h] \subseteq units'[h]]_vars
  <2> SUFFICES ASSUME UnitsInv, Next, cleared.clean, NEW h \in DOMAIN units \cap DOMAIN units'
               PROVE  units[h] \subseteq units'[h]
    OBVIOUS
  <2>1. units[h] \subseteq Counted(h) /\ curr.queries = Counted(curr.id)
    BY DEF UnitsInv, WholeInv
  <2>2. \/ units' = Stored(curr) \/ units' = Flushed(curr, flusher)
        \/ UNCHANGED units \/ units' = Nothing
        \/ units' = [k \in {j \in DOMAIN units : j >= hour - limit - 1} |-> units[k]]
    BY DEF Next, Clearing, Update, ReadUnitID, Flush, SetConfig, ClearBegin, ClearRemove,
       ClearOpen, ClearSwap, CloseBegin, CloseStore, Crash, Start, Tick
  <2>3. CASE units' = Stored(curr) \/ units' = Flushed(curr, flusher)
    BY <2>1, <2>3, StoredOrCurrent
  <2>4. CASE UNCHANGED units \/ units' = Nothing
    BY <2>4 DEF Nothing
  <2>5. CASE units' = [k \in {j \in DOMAIN units : j >= hour - limit - 1} |-> units[k]]
    BY <2>5
  <2> QED
    BY <2>2, <2>3, <2>4, <2>5
<1> QED
  BY <1>1, UnitsInvariant, PTL DEF Spec, StoredUnitsKept
=============================================================================
