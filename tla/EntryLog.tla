------------------------------ MODULE EntryLog ------------------------------
(***************************************************************************)
(* What the query log promises whoever reads it: one sequence of entries,  *)
(* numbered in the order in which they were added.  Entries are added at   *)
(* its end.  They are forgotten for reasons that are all listed here, and  *)
(* never moved, repeated or brought back.  There are no buffers, files and *)
(* flushes.                                                                *)
(***************************************************************************)
EXTENDS Naturals, Sequences

CONSTANT MayFail    \* TRUE if the disk may refuse what is written to it

VARIABLES added,    \* how many entries have been added
          entries,  \* the ones that the log holds
          writing,  \* some of them are being written to the disk
          clearing, \* the log is being cleared
          up        \* the process runs

logVars == <<added, entries, writing, clearing, up>>

(* The log without the entries that follow the i-th, up to the j-th. *)
Without(i, j) == SubSeq(entries, 1, i) \o SubSeq(entries, j + 1, Len(entries))

Init ==
    /\ added = 0 /\ entries = <<>>
    /\ writing = FALSE /\ clearing = FALSE /\ up = TRUE

(* An entry is added.  If the disk is too slow, that costs an older one. *)
Log ==
    /\ added' = added + 1
    /\ \E i \in 0..Len(entries) :
         \E j \in {i, i + 1} : entries' = Append(Without(i, j), added + 1)
    /\ UNCHANGED <<writing, clearing, up>>

(* The oldest entries expire. *)
Expire ==
    /\ \E j \in 1..Len(entries) : entries' = Without(0, j)
    /\ UNCHANGED <<added, writing, clearing, up>>

(* Some entries go to the disk; nothing is to be seen of it. *)
StartWriting ==
    /\ ~writing /\ writing'
    /\ UNCHANGED <<added, entries, clearing, up>>

(* They have arrived there or, if the disk fails, they are lost.  It may be
   the last thing that the process does. *)
EndWriting ==
    /\ writing /\ ~writing'
    /\ \/ UNCHANGED entries
       \/ MayFail /\ \E i, j \in 0..Len(entries) : i <= j /\ entries' = Without(i, j)
    /\ up' \in {up, FALSE}
    /\ UNCHANGED <<added, clearing>>

(* The log is cleared, piece by piece. *)
Clear ==
    /\ ~writing
    /\ clearing \/ clearing'
    /\ \E i, j \in 0..Len(entries) : i <= j /\ entries' = Without(i, j)
    /\ clearing' \in BOOLEAN
    /\ UNCHANGED <<added, writing, up>>

Stop ==
    /\ up /\ ~up'
    /\ UNCHANGED <<added, entries, writing, clearing>>

(* What has not been written by then is gone. *)
Restart ==
    /\ ~up /\ up'
    /\ \E i \in 0..Len(entries) : entries' = SubSeq(entries, 1, i)
    /\ ~writing' /\ ~clearing'
    /\ UNCHANGED added

Next ==
    \/ Log \/ Expire \/ StartWriting \/ EndWriting \/ Clear \/ Stop \/ Restart

Spec == Init /\ [][Next]_logVars
=============================================================================
