-------------------------------- MODULE MCWeb --------------------------------
(***************************************************************************)
(* The parts of a browser tab for model checking.  A page, the status that *)
(* every page polls, the query log's list and the installation wizard      *)
(* share no state, so they are explored one at a time, while the others    *)
(* rest.  The pages and thunks of WebPages are those of WebClients.        *)
(***************************************************************************)
EXTENDS WebClients, WebPages, WebStatus, WebLog, WebInstall

VARIABLE scene     \* the part that is explored

(* The pages of both clients and their thunks, evaluated once. *)
MCPages == LET pages == ClientPages IN pages
MCThunks == LET thunks == ClientThunks IN thunks

(* Every flag of the two clients is lowered by whoever raises it. *)
ASSUME ClientsBracketed == Bracketed

(* Every thunk of the two clients writes or reloads what it has changed. *)
ASSUME ClientsRefreshing == Refreshing

(* Every document that they send back whole is loaded before the page can be
   seen, and locked while it changes, except on the pages of Clobbering. *)
ASSUME ClientsGuarded == Guarded

vars == <<scene, pageVars, statusVars, logVars, installVars>>

(* The state in which the parts that are not explored stand still. *)
Resting ==
    /\ scene # "page" => page = CHOOSE p \in Shown : TRUE
    /\ scene # "status" => /\ client = CHOOSE c \in Watchers : TRUE
                           /\ protection = Protected
    /\ scene # "log" => viewer = CHOOSE v \in Viewers : TRUE
    /\ scene # "install" => wizard = CHOOSE w \in Wizards : TRUE

Init ==
    /\ scene \in {"page", "status", "log", "install"}
    /\ PageInit /\ StatusInit /\ LogInit /\ InstallInit
    /\ Resting

Next ==
    \/ /\ scene = "page" /\ PageNext
       /\ UNCHANGED <<scene, statusVars, logVars, installVars>>
    \/ /\ scene = "status" /\ StatusNext
       /\ UNCHANGED <<scene, pageVars, logVars, installVars>>
    \/ /\ scene = "log" /\ LogNext
       /\ UNCHANGED <<scene, pageVars, statusVars, installVars>>
    \/ /\ scene = "install" /\ InstallNext
       /\ UNCHANGED <<scene, pageVars, statusVars, logVars>>

Spec == Init /\ [][Next]_vars

=============================================================================
