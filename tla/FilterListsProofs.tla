------------------------- MODULE FilterListsProofs -------------------------
(***************************************************************************)
(* Theorems about FilterLists, for every set of lists, URLs, bodies, rules *)
(* and requests.                                                           *)
(***************************************************************************)
EXTENDS FilterLists, TLAPS

-----------------------------------------------------------------------------
(* setFilters never blocks. *)

\* Whoever is sending holds filtersInitializerLock and finds the channel
\* empty.
SendInv ==
    /\ pc \in [Actors -> Labels]
    /\ \A a \in Actors : pc[a] = "send" => initLock = a /\ chan = None

\* A step of a handler that does not touch the lock and the channel and does
\* not start to send.
LEMMA StepKeepsSendInv ==
    ASSUME SendInv, NEW a \in Actors, NEW label \in Labels \ {"send"},
           pc' = [pc EXCEPT ![a] = label],
           UNCHANGED <<chan, initLock>>
    PROVE  SendInv'
BY DEF SendInv, Actors, Labels

\* SendInv holds initially.
LEMMA SendInvInit == Init => SendInv
BY DEF Init, SendInv, Actors, Labels

\* Every step keeps SendInv: only the holder of the lock fills the channel,
\* and it stops sending as it does.
LEMMA SendInvNext == SendInv /\ [Next]_vars => SendInv'
<1> SUFFICES ASSUME SendInv, [Next]_vars PROVE SendInv'
    OBVIOUS
<1>1. ASSUME HandleRequest PROVE SendInv'
  <2>1. PICK label \in Labels \ {"send"} :
          pc' = [pc EXCEPT !["http"] = label] /\ UNCHANGED <<chan, initLock>>
    BY <1>1 DEF HandleRequest, HandleAdd, HandleRemove, HandleSet,
         SetDisabled, SetUpdated, HandleSetRules, HandleConfig,
         HandleRefresh, StartRefresh, Begin, Goto, taskVars, Labels
  <2> QED BY <2>1, StepKeepsSendInv DEF Actors
<1>2. ASSUME AddFetch \/ FilterAdd PROVE SendInv'
  <2>1. PICK label \in Labels \ {"send"} :
          pc' = [pc EXCEPT !["http"] = label] /\ UNCHANGED <<chan, initLock>>
    BY <1>2 DEF AddFetch, FilterAdd, Goto, taskVars, Labels
  <2> QED BY <2>1, StepKeepsSendInv DEF Actors
<1>3. ASSUME AddUserRule \/ RemoveUserRules \/ BotStore PROVE SendInv'
  <2>1. PICK label \in Labels \ {"send"} :
          pc' = [pc EXCEPT !["bot"] = label] /\ UNCHANGED <<chan, initLock>>
    BY <1>3 DEF AddUserRule, RemoveUserRules, BotStore, BotRead, Begin,
         Goto, taskVars, Labels
  <2> QED BY <2>1, StepKeepsSendInv DEF Actors
<1>4. ASSUME NEW a \in Actors, EnableFilters(a) PROVE SendInv'
  BY <1>4, StepKeepsSendInv DEF EnableFilters, Goto, Labels
<1>5. ASSUME NEW a \in Actors, SetFilters(a) PROVE SendInv'
  BY <1>5 DEF SetFilters, LockInitializer, Goto, SendInv, Actors, Labels
<1>6. ASSUME NEW a \in Actors, SendTask(a) PROVE SendInv'
  BY <1>6 DEF SendTask, Goto, SendInv, Actors, Labels
<1>7. ASSUME LoopCompile \/ LoopInstall \/ LoopRefresh PROVE SendInv'
  BY <1>7 DEF LoopCompile, LoopInstall, LoopRefresh, SendInv, taskVars
<1>8. ASSUME Refreshing PROVE SendInv'
  <2>1. ASSUME ListsToUpdate \/ RefreshFetch \/ FinalizeUpdate
                 \/ SyncUpdatedFilters
        PROVE  SendInv'
    BY <2>1 DEF ListsToUpdate, RefreshFetch, FinalizeUpdate,
         SyncUpdatedFilters, SendInv, taskVars
  <2>2. ASSUME FinishRefresh PROVE SendInv'
    BY <2>2, StepKeepsSendInv
    DEF FinishRefresh, Goto, SendInv, Actors, Labels
  <2> QED BY <1>8, <2>1, <2>2 DEF Refreshing
<1>9. ASSUME RemoteChange PROVE SendInv'
  BY <1>9 DEF RemoteChange, SendInv, taskVars
<1>10. ASSUME UNCHANGED vars PROVE SendInv'
  BY <1>10 DEF vars, SendInv
<1> QED
  BY <1>1, <1>2, <1>3, <1>4, <1>5, <1>6, <1>7, <1>8, <1>9, <1>10 DEF Next

\* setFilters never blocks in its send: the channel is empty whenever a
\* handler that holds filtersMu is about to send its task.
THEOREM SendNeverBlocksTheorem == Spec => []SendNeverBlocks
<1>1. SendInv => SendNeverBlocks
  BY DEF SendInv, SendNeverBlocks
<1> QED BY SendInvInit, SendInvNext, <1>1, PTL DEF Spec

-----------------------------------------------------------------------------
(* Type correctness. *)

\* A gathered task is a task, and the engine compiled from it an engine.
LEMMA GatheredTask ==
    ASSUME ConfOK PROVE CurrentTask \in Tasks
BY DEF ConfOK, CurrentTask, Tasks

LEMMA CompiledEngine ==
    ASSUME FilesOK, NEW task \in Tasks PROVE InitFiltering(task) \in Engines
BY DEF FilesOK, InitFiltering, Tasks, Engines

\* The initial state has its types, by the assumptions about the constants.
LEMMA TypeInit == Init => TypeOK
<1> SUFFICES ASSUME Init PROVE TypeOK
    OBVIOUS
<1>1. ConfOK
  BY InitAssumption, EnvironmentAssumption DEF Init, ConfOK
<1>2. FilesOK
  BY InitAssumption DEF Init, FilesOK
<1>3. TasksOK /\ HandlersOK /\ AddingOK
  BY EnvironmentAssumption DEF Init, TasksOK, HandlersOK, AddingOK, Actors, Labels
<1>4. LoopOK
  BY <1>1, <1>2, GatheredTask, CompiledEngine DEF Init, LoopOK
<1>5. RefreshOK
  BY DEF Init, RefreshOK, NoRefresh, Slices
<1> QED BY <1>1, <1>2, <1>3, <1>4, <1>5 DEF TypeOK

\* The administrator's requests keep the types.
LEMMA TypeRequest ==
    ASSUME TypeOK, NEW r \in Requests,
           \/ HandleAdd(r) \/ HandleRemove(r) \/ HandleSet(r)
           \/ HandleSetRules(r) \/ HandleConfig(r) \/ HandleRefresh(r)
    PROVE  TypeOK'
<1> USE DEF TypeOK
<1>1. ASSUME HandleAdd(r) PROVE TypeOK'
  <2> USE <1>1 DEF HandleAdd, AddRequests
  <2>1. ConfOK'
    BY DEF ConfOK, Lists, InConf, Slices, flagVars
  <2>2. TasksOK' /\ HandlersOK'
    BY EnvironmentAssumption
    DEF TasksOK, HandlersOK, Begin, Goto, Actors, Labels, taskVars
  <2>3. AddingOK'
    BY DEF AddingOK, HandlersOK, Begin, Goto, Actors, Slices
  <2>4. FilesOK' /\ LoopOK' /\ RefreshOK'
    BY DEF FilesOK, LoopOK, RefreshOK, taskVars
  <2> QED BY <2>1, <2>2, <2>3, <2>4
<1>2. ASSUME HandleRemove(r) PROVE TypeOK'
  <2> USE <1>2 DEF HandleRemove, RemoveRequests
  <2>1. ConfOK' /\ FilesOK'
    BY DEF ConfOK, FilesOK, Lists, InConf, Slices, flagVars
  <2>2. TasksOK' /\ HandlersOK' /\ AddingOK'
    BY EnvironmentAssumption
    DEF TasksOK, HandlersOK, AddingOK, Begin, Goto, Actors, Labels, taskVars
  <2>3. LoopOK' /\ RefreshOK'
    BY DEF LoopOK, RefreshOK, taskVars
  <2> QED BY <2>1, <2>2, <2>3
<1>3. ASSUME HandleSet(r) PROVE TypeOK'
  <2>1. PICK i \in Ids : /\ lists[i].where = r.where
                         /\ SetDisabled(i, r) \/ SetUpdated(i, r)
    BY <1>3 DEF HandleSet
  <2>2. r \in SetRequests /\ lists[i].where \in Slices
    BY <1>3, <2>1 DEF HandleSet, SetRequests
  <2>3. Unloaded(lists[i], r) \in Lists
    BY <2>2 DEF Unloaded, ConfOK, Lists, SetRequests, Data
  <2>4. /\ UNCHANGED <<userRules, flagVars, taskVars, remote, adding, edited,
                       loop, refresh>>
        /\ \E label \in {"enable", "idle"} : Begin("http", label)
    BY <1>3, <2>1 DEF HandleSet, SetDisabled, SetUpdated
  <2>5. TasksOK' /\ HandlersOK' /\ AddingOK'
    BY <2>4, EnvironmentAssumption
    DEF TasksOK, HandlersOK, AddingOK, Begin, Goto, Actors, Labels, taskVars
  <2>6. PICK l \in Lists : lists' = [lists EXCEPT ![i] = l] /\ l.url \in Urls
    <3>1. CASE SetDisabled(i, r)
      <4> DEFINE l == [Unloaded(lists[i], r) EXCEPT !.enabled = FALSE,
                                                     !.checksum = Blank]
      <4>1. l \in Lists /\ l.url \in Urls
        BY <2>2, <2>3 DEF SetRequests, Lists, Data, Unloaded
      <4>2. lists' = [lists EXCEPT ![i] = l]
        BY <3>1 DEF SetDisabled, Disabled
      <4> QED BY <4>1, <4>2
    <3>2. CASE SetUpdated(i, r)
      <4> DEFINE l == Unloaded(lists[i], r)
      <4>1. l.url \in Urls /\ lists[i].url \in Urls /\ lists[i] \in Lists
        BY <2>2 DEF Unloaded, SetRequests, ConfOK, InConf, Lists
      <4>2. remote[r.newUrl] \in Data \cup {Down}
        BY <2>2 DEF SetRequests, FilesOK
      <4>3. \/ Changed(remote[r.newUrl], l.checksum)
               /\ lists' = [lists EXCEPT ![i] = [l EXCEPT !.enabled = TRUE,
                                          !.checksum = remote[r.newUrl]]]
            \/ lists' = [lists EXCEPT ![i] = [l EXCEPT !.enabled = TRUE]]
            \/ lists' = [lists EXCEPT ![i] = Restored(lists[i], l)]
        BY <3>2 DEF SetUpdated
      <4>4. /\ Restored(lists[i], l) \in Lists
            /\ Restored(lists[i], l).url \in Urls
        BY <2>3, <4>1 DEF Restored, Lists
      <4>5. /\ [l EXCEPT !.enabled = TRUE] \in Lists
            /\ [l EXCEPT !.enabled = TRUE].url \in Urls
        BY <2>3, <4>1 DEF Lists
      <4>6. Changed(remote[r.newUrl], l.checksum) =>
            /\ [l EXCEPT !.enabled = TRUE, !.checksum = remote[r.newUrl]] \in Lists
            /\ [l EXCEPT !.enabled = TRUE, !.checksum = remote[r.newUrl]].url \in Urls
        BY <2>3, <4>1, <4>2 DEF Lists, Changed
      <4> QED BY <4>3, <4>4, <4>5, <4>6
    <3> QED BY <2>1, <3>1, <3>2
  <2>7. ConfOK'
    BY <2>4, <2>6 DEF ConfOK, InConf, flagVars
  <2>8. FilesOK'
    <3>1. file' = file \/ \E f \in Files : file' = [file EXCEPT ![i] = f]
      BY <2>1, <2>2 DEF SetDisabled, SetUpdated, SetRequests, Changed,
                        FilesOK, Files, Data
    <3> QED BY <2>4, <3>1 DEF FilesOK
  <2>9. LoopOK' /\ RefreshOK'
    BY <2>4 DEF LoopOK, RefreshOK, taskVars
  <2> QED BY <2>5, <2>7, <2>8, <2>9
<1>4. ASSUME HandleSetRules(r) PROVE TypeOK'
  <2> USE <1>4 DEF HandleSetRules, RulesRequests
  <2>1. ConfOK' /\ FilesOK' /\ LoopOK' /\ RefreshOK'
    BY DEF ConfOK, FilesOK, LoopOK, RefreshOK, InConf, flagVars, taskVars
  <2>2. TasksOK' /\ HandlersOK' /\ AddingOK'
    BY EnvironmentAssumption
    DEF TasksOK, HandlersOK, AddingOK, Begin, Goto, Actors, Labels, taskVars
  <2> QED BY <2>1, <2>2
<1>5. ASSUME HandleConfig(r) PROVE TypeOK'
  <2> USE <1>5 DEF HandleConfig, ConfigRequests
  <2>1. ConfOK' /\ FilesOK' /\ LoopOK' /\ RefreshOK'
    BY DEF ConfOK, FilesOK, LoopOK, RefreshOK, InConf, taskVars
  <2>2. TasksOK' /\ HandlersOK' /\ AddingOK'
    BY EnvironmentAssumption
    DEF TasksOK, HandlersOK, AddingOK, Begin, Goto, Actors, Labels, taskVars
  <2> QED BY <2>1, <2>2
<1>6. ASSUME HandleRefresh(r) PROVE TypeOK'
  <2> USE <1>6 DEF HandleRefresh, RefreshRequests
  <2>1. ConfOK' /\ FilesOK' /\ LoopOK'
    BY DEF ConfOK, FilesOK, LoopOK, InConf, confVars, flagVars, taskVars
  <2>2. TasksOK' /\ HandlersOK' /\ AddingOK'
    BY EnvironmentAssumption
    DEF TasksOK, HandlersOK, AddingOK, Begin, Goto, Actors, Labels, taskVars
  <2>3. RefreshOK'
    BY DEF StartRefresh, NoRefresh, RefreshOK, Slices
  <2> QED BY <2>1, <2>2, <2>3
<1> QED BY <1>1, <1>2, <1>3, <1>4, <1>5, <1>6

\* The rest of an add, and the bot's calls, keep the types.
LEMMA TypeAddAndBot ==
    ASSUME TypeOK,
           AddFetch \/ FilterAdd \/ AddUserRule \/ RemoveUserRules \/ BotStore
    PROVE  TypeOK'
<1> USE DEF TypeOK
<1>1. ASSUME AddFetch PROVE TypeOK'
  <2>0. adding \in [id : Ids, url : Urls, where : Slices]
    BY <1>1 DEF AddFetch, AddingOK
  <2> USE <1>1, <2>0 DEF AddFetch
  <2>1. ConfOK' /\ FilesOK'
    BY DEF ConfOK, FilesOK, Lists, Files, Data, InConf, Slices, flagVars, Changed
  <2>2. TasksOK' /\ HandlersOK'
    BY DEF TasksOK, HandlersOK, Goto, Actors, Labels, taskVars
  <2>3. AddingOK'
    BY DEF AddingOK, HandlersOK, FilesOK, Files, Data, Changed, Goto, Actors, Labels
  <2>4. LoopOK' /\ RefreshOK'
    BY DEF LoopOK, RefreshOK, taskVars
  <2> QED BY <2>1, <2>2, <2>3, <2>4
<1>2. ASSUME FilterAdd PROVE TypeOK'
  <2>0. /\ adding \in [id : Ids, url : Urls, where : Slices]
        /\ file[adding.id] \in Files
    BY <1>2 DEF FilterAdd, AddingOK
  <2> USE <1>2, <2>0 DEF FilterAdd
  <2>1. ConfOK'
    <3>1. CASE FilterExists(adding.url)
      BY <3>1 DEF ConfOK, Lists, InConf, Slices, flagVars
    <3>2. CASE ~FilterExists(adding.url)
      <4> DEFINE l == [where |-> adding.where, url |-> adding.url,
                       enabled |-> TRUE, checksum |-> file[adding.id].body]
      <4>1. l \in Lists /\ l.url \in Urls
        BY DEF Lists, Files
      <4>2. lists' = [lists EXCEPT ![adding.id] = l]
        BY <3>2
      <4> HIDE DEF l
      <4> QED BY <4>1, <4>2 DEF ConfOK, InConf, flagVars
    <3> QED BY <3>1, <3>2
  <2>2. TasksOK' /\ HandlersOK' /\ AddingOK'
    BY DEF TasksOK, HandlersOK, AddingOK, Goto, Actors, Labels, taskVars
  <2>3. FilesOK' /\ LoopOK' /\ RefreshOK'
    BY DEF FilesOK, LoopOK, RefreshOK, taskVars
  <2> QED BY <2>1, <2>2, <2>3
<1>3. ASSUME NEW label \in {"append", "drop"}, NEW rules \in SUBSET Rules,
             BotRead(label, rules)
      PROVE  TypeOK'
  <2> USE <1>3 DEF BotRead
  <2>1. ConfOK' /\ FilesOK' /\ LoopOK' /\ RefreshOK'
    BY DEF ConfOK, FilesOK, LoopOK, RefreshOK, InConf, confVars, flagVars, taskVars
  <2>2. TasksOK' /\ HandlersOK' /\ AddingOK'
    BY EnvironmentAssumption
    DEF TasksOK, HandlersOK, AddingOK, Begin, Goto, Actors, Labels, taskVars
  <2> QED BY <2>1, <2>2
<1>4. ASSUME AddUserRule PROVE TypeOK'
  <2>1. PICK r \in BotAdds :
          \/ BotRead("append", userRules \cup {r})
          \/ /\ Begin("bot", "enable")
             /\ UNCHANGED <<confVars, taskVars, file, remote, adding, edited,
                            loop, refresh>>
    BY <1>4 DEF AddUserRule
  <2>2. CASE BotRead("append", userRules \cup {r})
    BY <2>2, <1>3, EnvironmentAssumption DEF ConfOK
  <2>3. CASE /\ Begin("bot", "enable")
             /\ UNCHANGED <<confVars, taskVars, file, remote, adding, edited,
                            loop, refresh>>
    <3>1. ConfOK' /\ FilesOK' /\ LoopOK' /\ RefreshOK'
      BY <2>3 DEF ConfOK, FilesOK, LoopOK, RefreshOK, InConf, confVars,
                  flagVars, taskVars
    <3>2. TasksOK' /\ HandlersOK' /\ AddingOK'
      BY <2>3, EnvironmentAssumption
      DEF TasksOK, HandlersOK, AddingOK, Begin, Goto, Actors, Labels, taskVars
    <3> QED BY <3>1, <3>2
  <2> QED BY <2>1, <2>2, <2>3
<1>5. ASSUME RemoveUserRules PROVE TypeOK'
  BY <1>3, <1>5 DEF RemoveUserRules, ConfOK
<1>6. ASSUME BotStore PROVE TypeOK'
  <2> USE <1>6 DEF BotStore
  <2>1. ConfOK' /\ FilesOK' /\ LoopOK' /\ RefreshOK'
    BY DEF ConfOK, HandlersOK, FilesOK, LoopOK, RefreshOK, InConf, flagVars, taskVars
  <2>2. TasksOK' /\ HandlersOK' /\ AddingOK'
    BY DEF TasksOK, HandlersOK, AddingOK, Goto, Actors, Labels, taskVars
  <2> QED BY <2>1, <2>2
<1> QED BY <1>1, <1>2, <1>4, <1>5, <1>6

\* Handing a task over to the loop, and the loop's own steps, keep the types.
LEMMA TypeTasks ==
    ASSUME TypeOK,
           \/ \E a \in Actors : EnableFilters(a) \/ SetFilters(a) \/ SendTask(a)
           \/ LoopCompile \/ LoopInstall \/ LoopRefresh
    PROVE  TypeOK'
<1> USE DEF TypeOK
<1>1. ASSUME NEW a \in Actors, EnableFilters(a) PROVE TypeOK'
  <2> USE <1>1 DEF EnableFilters
  <2>1. TasksOK' /\ HandlersOK' /\ AddingOK'
    BY GatheredTask
    DEF TasksOK, HandlersOK, AddingOK, Goto, Actors, Labels
  <2>2. ConfOK' /\ FilesOK' /\ LoopOK' /\ RefreshOK'
    BY DEF ConfOK, FilesOK, LoopOK, RefreshOK, InConf, confVars, flagVars
  <2> QED BY <2>1, <2>2
<1>2. ASSUME NEW a \in Actors, SetFilters(a) PROVE TypeOK'
  <2> USE <1>2 DEF SetFilters, LockInitializer
  <2>1. TasksOK' /\ HandlersOK' /\ AddingOK'
    BY DEF TasksOK, HandlersOK, AddingOK, Goto, Actors, Labels
  <2>2. ConfOK' /\ FilesOK' /\ LoopOK' /\ RefreshOK'
    BY DEF ConfOK, FilesOK, LoopOK, RefreshOK, InConf, confVars, flagVars
  <2> QED BY <2>1, <2>2
<1>3. ASSUME NEW a \in Actors, SendTask(a) PROVE TypeOK'
  <2> USE <1>3 DEF SendTask
  <2>1. TasksOK' /\ HandlersOK' /\ AddingOK'
    BY DEF TasksOK, HandlersOK, AddingOK, ConfOK, Goto, Actors, Labels
  <2>2. ConfOK' /\ FilesOK' /\ LoopOK' /\ RefreshOK'
    BY DEF ConfOK, FilesOK, LoopOK, RefreshOK, InConf, confVars, flagVars
  <2> QED BY <2>1, <2>2
<1>4. ASSUME LoopCompile PROVE TypeOK'
  <2> USE <1>4 DEF LoopCompile
  <2>1. chan \in Tasks /\ InitFiltering(chan) \in Engines
    BY CompiledEngine DEF TasksOK
  <2>2. TasksOK' /\ HandlersOK' /\ AddingOK' /\ LoopOK'
    BY <2>1 DEF TasksOK, HandlersOK, AddingOK, LoopOK
  <2>3. ConfOK' /\ FilesOK' /\ RefreshOK'
    BY DEF ConfOK, FilesOK, RefreshOK, InConf, confVars, flagVars
  <2> QED BY <2>2, <2>3
<1>5. ASSUME LoopInstall \/ LoopRefresh PROVE TypeOK'
  <2> USE <1>5 DEF LoopInstall, LoopRefresh
  <2>1. TasksOK' /\ HandlersOK' /\ AddingOK' /\ LoopOK'
    BY DEF TasksOK, HandlersOK, AddingOK, LoopOK, taskVars
  <2>2. ConfOK' /\ FilesOK'
    BY DEF ConfOK, FilesOK, InConf, confVars, flagVars
  <2>3. RefreshOK'
    BY DEF RefreshOK, StartRefresh, NoRefresh, Slices
  <2> QED BY <2>1, <2>2, <2>3
<1> QED BY <1>1, <1>2, <1>3, <1>4, <1>5

\* Every step of a refresh keeps the types.
LEMMA TypeRefreshing == ASSUME TypeOK, Refreshing PROVE TypeOK'
<1> USE DEF TypeOK
<1>1. ASSUME ListsToUpdate PROVE TypeOK'
  <2> USE <1>1 DEF ListsToUpdate
  <2>1. PICK S \in SUBSET {i \in Ids : /\ lists[i].where = refresh.array
                                      /\ lists[i].enabled} :
          refresh' = [refresh EXCEPT
              !.step = "fetch", !.done = {}, !.allFailed = TRUE,
              !.todo = {[id |-> i, url |-> lists[i].url,
                         checksum |-> lists[i].checksum,
                         updated |-> FALSE] : i \in S}]
    OBVIOUS
  <2>2. \A i \in S : lists[i].url \in Urls /\ lists[i].checksum \in Data
    BY DEF RefreshOK, ConfOK, InConf, Lists
  <2>3. {[id |-> i, url |-> lists[i].url, checksum |-> lists[i].checksum,
          updated |-> FALSE] : i \in S} \in SUBSET Copies
    <3>1. \A i \in S : [id |-> i, url |-> lists[i].url,
                        checksum |-> lists[i].checksum,
                        updated |-> FALSE] \in Copies
      BY <2>2 DEF Copies
    <3> QED BY <3>1
  <2>4. RefreshOK'
    BY <2>1, <2>3 DEF RefreshOK
  <2>5. ConfOK' /\ FilesOK' /\ TasksOK' /\ HandlersOK' /\ AddingOK' /\ LoopOK'
    BY DEF ConfOK, FilesOK, TasksOK, HandlersOK, AddingOK, LoopOK, InConf,
           refreshFrame, flagVars, taskVars
  <2> QED BY <2>4, <2>5
<1>2. ASSUME RefreshFetch PROVE TypeOK'
  <2> USE <1>2 DEF RefreshFetch
  <2>1. PICK c \in refresh.todo, body \in Data \cup {Down} :
          refresh' =
            IF Changed(body, c.checksum)
            THEN [refresh EXCEPT !.todo = @ \ {c}, !.cur = c, !.body = body,
                                 !.step = "replace"]
            ELSE [refresh EXCEPT !.todo = @ \ {c}, !.done = @ \cup {c},
                                 !.allFailed = @ /\ body = Down]
    <3>1. \A c \in refresh.todo : remote[c.url] \in Data \cup {Down}
      BY DEF RefreshOK, FilesOK, Copies
    <3> QED BY <3>1
  <2>2. c \in Copies
    BY DEF RefreshOK
  <2>3. RefreshOK'
    BY <2>1, <2>2 DEF RefreshOK, Changed
  <2>4. ConfOK' /\ FilesOK' /\ TasksOK' /\ HandlersOK' /\ AddingOK' /\ LoopOK'
    BY DEF ConfOK, FilesOK, TasksOK, HandlersOK, AddingOK, LoopOK, InConf,
           refreshFrame, flagVars, taskVars
  <2> QED BY <2>3, <2>4
<1>3. ASSUME FinalizeUpdate PROVE TypeOK'
  <2> USE <1>3 DEF FinalizeUpdate
  <2>1. PICK replaced \in BOOLEAN :
         /\ file' = IF replaced
                    THEN [file EXCEPT ![refresh.cur.id] =
                            [body |-> refresh.body, from |-> refresh.cur.url]]
                    ELSE file
         /\ refresh' = [refresh EXCEPT
              !.done = @ \cup {Finalized(refresh.cur, refresh.body, replaced)},
              !.allFailed = @ /\ ~replaced,
              !.cur = None, !.body = Down, !.step = "fetch"]
    OBVIOUS
  <2>2. refresh.cur \in Copies /\ refresh.body \in Data
    BY DEF RefreshOK
  <2>3. Finalized(refresh.cur, refresh.body, replaced) \in Copies
    BY <2>2 DEF Finalized, Copies
  <2>4. RefreshOK'
    BY <2>1, <2>3 DEF RefreshOK
  <2>5. FilesOK' /\ AddingOK'
    BY <2>1, <2>2 DEF FilesOK, AddingOK, Files, Copies, refreshFrame
  <2>6. ConfOK' /\ TasksOK' /\ HandlersOK' /\ LoopOK'
    BY DEF ConfOK, TasksOK, HandlersOK, LoopOK, InConf, refreshFrame,
           flagVars, taskVars
  <2> QED BY <2>4, <2>5, <2>6
<1>4. ASSUME SyncUpdatedFilters PROVE TypeOK'
  <2> USE <1>4 DEF SyncUpdatedFilters
  <2>1. \A i \in Ids : Merged(i) # {} =>
          (CHOOSE c \in Merged(i) : TRUE).checksum \in Data
    BY DEF Merged, RefreshOK, Copies
  <2>2. PICK merge \in [Ids -> BOOLEAN] :
          /\ \A i \in Ids : merge[i] => Merged(i) # {}
          /\ lists' = [i \in Ids |->
                IF merge[i]
                THEN [lists[i] EXCEPT
                        !.checksum = (CHOOSE c \in Merged(i) : TRUE).checksum]
                ELSE lists[i]]
    <3> DEFINE merge == [i \in Ids |->
                 ~(refresh.done # {} /\ refresh.allFailed) /\ Merged(i) # {}]
    <3> WITNESS merge \in [Ids -> BOOLEAN]
    <3> QED OBVIOUS
  <2>3. ConfOK'
    BY <2>1, <2>2 DEF ConfOK, Lists, InConf, refreshFrame, flagVars
  <2>4. RefreshOK'
    <3>1. PICK netErr \in BOOLEAN, updated \in BOOLEAN,
               step \in {"list", "finish"}, array \in Slices :
            refresh' = [refresh EXCEPT !.netErr = netErr, !.updated = updated,
                          !.done = {}, !.step = step, !.array = array]
      BY DEF RefreshOK, Slices
    <3> QED BY <3>1 DEF RefreshOK
  <2>5. FilesOK' /\ TasksOK' /\ HandlersOK' /\ AddingOK' /\ LoopOK'
    BY DEF FilesOK, TasksOK, HandlersOK, AddingOK, LoopOK, refreshFrame, taskVars
  <2> QED BY <2>3, <2>4, <2>5
<1>5. ASSUME FinishRefresh PROVE TypeOK'
  <2> USE <1>5 DEF FinishRefresh
  <2>1. InitFiltering(CurrentTask) \in Engines
    BY GatheredTask, CompiledEngine
  <2>2. LoopOK'
    BY <2>1 DEF LoopOK
  <2>3. TasksOK' /\ HandlersOK' /\ AddingOK'
    BY DEF TasksOK, HandlersOK, AddingOK, ConfOK, Goto, Actors, Labels, refreshFrame
  <2>4. RefreshOK'
    BY DEF RefreshOK, NoRefresh, Slices
  <2>5. ConfOK' /\ FilesOK'
    BY DEF ConfOK, FilesOK, InConf, refreshFrame, flagVars
  <2> QED BY <2>2, <2>3, <2>4, <2>5
<1> QED BY <1>1, <1>2, <1>3, <1>4, <1>5 DEF Refreshing

\* Every step keeps the types.
LEMMA TypeNext == TypeOK /\ [Next]_vars => TypeOK'
<1> SUFFICES ASSUME TypeOK, [Next]_vars PROVE TypeOK'
    OBVIOUS
<1>1. ASSUME HandleRequest PROVE TypeOK'
  BY <1>1, TypeRequest DEF HandleRequest
<1>2. ASSUME RemoteChange PROVE TypeOK'
  <2>1. FilesOK'
    BY <1>2, EnvironmentAssumption DEF RemoteChange, TypeOK, FilesOK
  <2>2. ConfOK' /\ TasksOK' /\ HandlersOK' /\ AddingOK' /\ LoopOK' /\ RefreshOK'
    BY <1>2
    DEF RemoteChange, TypeOK, ConfOK, TasksOK, HandlersOK, AddingOK, LoopOK,
        RefreshOK, InConf, confVars, flagVars, taskVars
  <2> QED BY <2>1, <2>2 DEF TypeOK
<1>3. ASSUME UNCHANGED vars PROVE TypeOK'
  BY <1>3 DEF vars, TypeOK, ConfOK, FilesOK, TasksOK, HandlersOK, AddingOK,
      LoopOK, RefreshOK, InConf
<1> QED
  BY <1>1, <1>2, <1>3, TypeAddAndBot, TypeTasks, TypeRefreshing DEF Next

\* The state of the filter lists keeps its types in every execution.
THEOREM TypeCorrect == Spec => []TypeOK
BY TypeInit, TypeNext, PTL DEF Spec

-----------------------------------------------------------------------------
(* One list for each URL. *)

\* Lists that keep their slice and URL, or leave the configuration, stay
\* unique.
LEMMA StepKeepsURLs ==
    ASSUME UniqueURLs,
           \A i \in Ids : \/ ~InConf(lists'[i])
                          \/ /\ lists'[i].where = lists[i].where
                             /\ lists'[i].url = lists[i].url
    PROVE  UniqueURLs'
BY DEF UniqueURLs, InConf

\* A list that is new, or gets a new URL, stays unique if no list had that
\* URL: the check of filterExistsLocked.
LEMMA NewURLIsUnique ==
    ASSUME UniqueURLs, NEW k \in Ids, ~FilterExists(lists'[k].url),
           \A i \in Ids \ {k} : lists'[i] = lists[i]
    PROVE  UniqueURLs'
BY DEF UniqueURLs, FilterExists, InConf

\* Every step keeps the URLs of a slice unique.
LEMMA UniqueNext == TypeOK /\ UniqueURLs /\ [Next]_vars => UniqueURLs'
<1> SUFFICES ASSUME TypeOK, UniqueURLs, [Next]_vars PROVE UniqueURLs'
    OBVIOUS
<1>0. lists \in [Ids -> Lists]
  BY DEF TypeOK, ConfOK
<1>1. ASSUME NEW r \in Requests, HandleAdd(r) \/ HandleRemove(r)
      PROVE  UniqueURLs'
  BY <1>0, <1>1, StepKeepsURLs
  DEF HandleAdd, HandleRemove, InConf, Slices, Lists
<1>2. ASSUME NEW r \in Requests, HandleSet(r) PROVE UniqueURLs'
  <2>1. PICK i \in Ids : /\ lists[i].where = r.where
                         /\ lists[i].url = r.url
                         /\ r.newUrl = r.url \/ ~FilterExists(r.newUrl)
                         /\ SetDisabled(i, r) \/ SetUpdated(i, r)
    BY <1>2 DEF HandleSet
  <2>2. \A j \in Ids \ {i} : lists'[j] = lists[j]
    BY <1>0, <2>1 DEF SetDisabled, SetUpdated
  <2>3. /\ lists'[i].where = lists[i].where
        /\ lists'[i].url \in {r.url, r.newUrl}
    <3> DEFINE l == Unloaded(lists[i], r)
    <3>0. r \in SetRequests
      BY <1>2 DEF HandleSet
    <3>1. l \in Lists /\ l.where = lists[i].where /\ l.url = r.newUrl
      BY <1>0, <3>0 DEF Unloaded, Lists, SetRequests, Data
    <3>2. \/ lists' = [lists EXCEPT ![i] = [l EXCEPT !.enabled = FALSE,
                                                    !.checksum = Blank]]
          \/ lists' = [lists EXCEPT ![i] = [l EXCEPT !.enabled = TRUE,
                                        !.checksum = remote[r.newUrl]]]
          \/ lists' = [lists EXCEPT ![i] = [l EXCEPT !.enabled = TRUE]]
          \/ lists' = [lists EXCEPT ![i] = Restored(lists[i], l)]
      BY <2>1 DEF SetDisabled, Disabled, SetUpdated
    <3> HIDE DEF l
    <3>3. CASE lists' = [lists EXCEPT ![i] = Restored(lists[i], l)]
      <4>1. lists'[i] = Restored(lists[i], l)
        BY <1>0, <3>3
      <4> QED BY <2>1, <3>1, <4>1 DEF Restored, Lists
    <3>4. CASE lists' = [lists EXCEPT ![i] = [l EXCEPT !.enabled = TRUE]]
      <4>1. lists'[i] = [l EXCEPT !.enabled = TRUE]
        BY <1>0, <3>4
      <4> QED BY <2>1, <3>1, <4>1 DEF Lists
    <3>5. ASSUME NEW b, NEW c,
                 lists' = [lists EXCEPT ![i] = [l EXCEPT !.enabled = b,
                                                         !.checksum = c]]
          PROVE  /\ lists'[i].where = lists[i].where
                 /\ lists'[i].url \in {r.url, r.newUrl}
      <4>1. lists'[i] = [l EXCEPT !.enabled = b, !.checksum = c]
        BY <1>0, <3>5
      <4> QED BY <2>1, <3>1, <4>1 DEF Lists
    <3> QED BY <3>2, <3>3, <3>4, <3>5
  <2>4. CASE lists'[i].url = r.url
    BY <2>1, <2>2, <2>3, <2>4, StepKeepsURLs
  <2>5. CASE lists'[i].url = r.newUrl /\ r.newUrl # r.url
    BY <2>1, <2>2, <2>5, NewURLIsUnique
  <2> QED BY <2>3, <2>4, <2>5
<1>3. ASSUME AddFetch PROVE UniqueURLs'
  BY <1>0, <1>3, StepKeepsURLs
  DEF AddFetch, TypeOK, AddingOK, InConf, Slices, Lists
<1>4. ASSUME FilterAdd PROVE UniqueURLs'
  <2>1. adding.id \in Ids
    BY <1>4 DEF FilterAdd, TypeOK, AddingOK
  <2>2. CASE FilterExists(adding.url)
    BY <1>0, <1>4, <2>1, <2>2, StepKeepsURLs DEF FilterAdd, InConf, Slices, Lists
  <2>3. CASE ~FilterExists(adding.url)
    BY <1>0, <1>4, <2>1, <2>3, NewURLIsUnique DEF FilterAdd
  <2> QED BY <2>2, <2>3
<1>5. ASSUME SyncUpdatedFilters PROVE UniqueURLs'
  BY <1>0, <1>5, StepKeepsURLs DEF SyncUpdatedFilters, Lists
<1>6. ASSUME UNCHANGED lists PROVE UniqueURLs'
  BY <1>6 DEF UniqueURLs, InConf
<1>7. \/ \E r \in Requests : HandleAdd(r) \/ HandleRemove(r) \/ HandleSet(r)
      \/ AddFetch \/ FilterAdd \/ SyncUpdatedFilters
      \/ UNCHANGED lists
  BY DEF Next, vars, HandleRequest, HandleSetRules, HandleConfig,
         HandleRefresh, AddUserRule, RemoveUserRules, BotRead, BotStore,
         EnableFilters, SetFilters, SendTask, LoopCompile, LoopInstall,
         LoopRefresh, Refreshing, ListsToUpdate, RefreshFetch,
         FinalizeUpdate, FinishRefresh, RemoteChange, confVars
<1> QED BY <1>1, <1>2, <1>3, <1>4, <1>5, <1>6, <1>7

\* No two lists of a slice ever have one URL, whatever is added, redirected,
\* removed or refreshed.
THEOREM UniqueURLsTheorem == Spec => []UniqueURLs
<1>1. Init => UniqueURLs
  BY InitAssumption DEF Init, UniqueURLs
<1> QED BY <1>1, TypeInit, TypeNext, UniqueNext, PTL DEF Spec

-----------------------------------------------------------------------------
(***************************************************************************)
(* Theorems about the files and the engine of FilterLists, for every set   *)
(* of lists, URLs, bodies, rules and requests.  The known races of a       *)
(* refresh with a list that is redirected or enabled, and of the bot with  *)
(* handleFilteringSetRules, are excluded by hypotheses about which         *)
(* requests are sent; what remains is shown to be free of races.           *)
(***************************************************************************)

\* Nobody enables a list or gives it another URL.
SetsOnlyDisable ==
    \A r \in Requests \cap SetRequests : ~r.enabled /\ r.newUrl = r.url

\* Lists are not refreshed: neither by the clock nor on request.
NoRefreshes ==
    /\ ~Periodic
    /\ Requests \cap RefreshRequests = {}
    /\ \A r \in Requests \cap ConfigRequests : ~r.periodic

\* No list is ever without rules.
NoBlankPages == \A u \in Urls : Blank \notin Served[u]

\* The files of the lists at start come from their URLs.
FilesAtStart ==
    \A i \in Ids : InConf(InitLists[i]) /\ InitLists[i].enabled /\ InitFiles[i] # None =>
                     InitFiles[i].from = InitLists[i].url

\* Rules are set over the API, or by the bot, and not both.
OneSourceOfRules ==
    \/ BotAdds = {} /\ BotRemoves = {}
    \/ Requests \cap RulesRequests = {}

-----------------------------------------------------------------------------
(* What a refresh knows of its lists.                                      *)

\* The copies of the running refresh.
Copied == refresh.todo \cup refresh.done \cup ({refresh.cur} \ {None})

RefreshInv ==
    /\ NoRefreshes => refresh = NoRefresh /\ ~periodic
    /\ refresh.owner = "none" => refresh.step = "idle"
    /\ refresh.step # "replace" => refresh.cur = None
    /\ refresh.step \notin {"fetch", "replace"} => refresh.todo = {} /\ refresh.done = {}
    /\ \A c, d \in Copied : c.id = d.id => c = d
    /\ refresh.todo \cap refresh.done = {} /\ refresh.cur \notin refresh.todo \cup refresh.done
    /\ \A c \in Copied : lists[c.id].where \in {refresh.array, "gone"}

\* A list that is being added is not in the configuration.
DrawnInv ==
    pc["http"] \in {"fetch", "add"} => lists[adding.id].where = "drawn"

HasBody(i, checksum) ==
    checksum # Blank => file[i] # None /\ file[i].body = checksum

\* The copies, as long as their list is configured: they differ from it only in
\* what has been downloaded for them, and they know what is in the file.
CopyInv ==
    \A c \in Copied : InConf(lists[c.id]) =>
        /\ c.url = lists[c.id].url
        /\ HasBody(c.id, c.checksum)
        /\ ~c.updated \/ refresh.allFailed => lists[c.id].checksum \in {Blank, c.checksum}

FileInv == RefreshInv /\ DrawnInv /\ CopyInv /\ ChecksumOfFile

\* The identifiers of the copies.
LEMMA InFlightCopied == ASSUME NEW i PROVE i \in InFlight <=> \E c \in Copied : c.id = i
  BY DEF InFlight, Copied

\* Copies have the identifier of a list.
LEMMA CopiedType == TypeOK => Copied \subseteq Copies
  BY SentinelAssumption DEF TypeOK, RefreshOK, Copied

\* What a handler may do to a list that a refresh is working on.
Calm(i) ==
    \/ lists'[i].where = "gone"
    \/ /\ lists'[i].where = lists[i].where /\ lists'[i].url = lists[i].url
       /\ lists'[i].checksum \in {lists[i].checksum, Blank}
       /\ lists'[i].enabled => lists[i].enabled
       /\ file'[i] = file[i]

\* What it may do to others.
Right(i) == /\ i \notin InFlight
            /\ InConf(lists'[i]) => HasBody(i, lists[i].checksum)'

\* A step that is none of the refresh's and treats every list in this way.
LEMMA HandlerStep ==
    ASSUME TypeOK, RefreshInv, CopyInv, ChecksumOfFile, refresh' = refresh,
           NoRefreshes => ~periodic',
           \A i \in Ids : Calm(i) \/ Right(i)
    PROVE  RefreshInv' /\ CopyInv' /\ ChecksumOfFile'
<1>1. Copied' = Copied /\ Copied \subseteq Copies /\ InFlight' = InFlight
  BY CopiedType DEF Copied, InFlight
<1>2. \A c \in Copied : c.id \in Ids /\ c.id \in InFlight
  BY <1>1, InFlightCopied DEF Copies
<1>3. \A c \in Copied : Calm(c.id)
  BY <1>2 DEF Right
<1>4. RefreshInv'
  <2>1. \A c \in Copied : lists'[c.id].where \in {refresh.array, "gone"}
    BY <1>3 DEF RefreshInv, Calm
  <2> QED
    BY <1>1, <2>1 DEF RefreshInv
<1>5. CopyInv'
  <2> SUFFICES ASSUME NEW c \in Copied, InConf(lists'[c.id])
               PROVE  /\ c.url = lists'[c.id].url
                      /\ HasBody(c.id, c.checksum)'
                      /\ ~c.updated \/ refresh.allFailed =>
                           lists'[c.id].checksum \in {Blank, c.checksum}
    BY <1>1 DEF CopyInv
  <2>1. /\ lists'[c.id].where = lists[c.id].where /\ lists'[c.id].url = lists[c.id].url
        /\ lists'[c.id].checksum \in {lists[c.id].checksum, Blank}
        /\ file'[c.id] = file[c.id]
    BY <1>3 DEF Calm, InConf, Slices
  <2> QED
    BY <2>1 DEF CopyInv, HasBody, InConf
<1>6. ChecksumOfFile'
  <2> SUFFICES ASSUME NEW i \in Ids, i \notin InFlight, InConf(lists'[i]),
                      lists'[i].checksum # Blank
               PROVE  file'[i] # None /\ file'[i].body = lists'[i].checksum
    BY <1>1 DEF ChecksumOfFile
  <2>1. CASE Calm(i)
    BY <2>1 DEF ChecksumOfFile, Calm, InConf, Slices
  <2>2. CASE Right(i)
    BY <2>2 DEF Right, HasBody
  <2> QED
    BY <2>1, <2>2
<1> QED
  BY <1>4, <1>5, <1>6

-----------------------------------------------------------------------------
(* What the handlers do to the lists and the files.                        *)

\* handleFilteringSetURL changes one list: it disables it, puts a download into
\* its file, finds that nothing has changed, or restores it.
SetOne(i, r) ==
    /\ lists[i].where = r.where /\ InConf(lists[i]) /\ lists[i].url = r.url
    /\ \A j \in Ids \ {i} : lists'[j] = lists[j] /\ file'[j] = file[j]
    /\ lists'[i].where = lists[i].where
    /\ \/ /\ ~r.enabled /\ file' = file
          /\ lists'[i].url = r.newUrl /\ lists'[i].enabled = FALSE
          /\ lists'[i].checksum = Blank
          /\ pc'["http"] = "enable" \/ ~lists[i].enabled
       \/ /\ r.enabled
          /\ lists'[i].url = r.newUrl /\ lists'[i].enabled = TRUE
          /\ lists'[i].checksum = remote[r.newUrl]
          /\ file'[i] = [body |-> remote[r.newUrl], from |-> r.newUrl]
          /\ pc'["http"] = "enable"
       \/ /\ r.enabled /\ file' = file
          /\ lists'[i].url = r.newUrl /\ lists'[i].enabled = TRUE
          /\ lists'[i].checksum = remote[r.newUrl]
          /\ \/ remote[r.newUrl] = Blank
             \/ /\ r.newUrl = r.url /\ lists[i].checksum = remote[r.newUrl]
                /\ ~lists[i].enabled
       \/ /\ r.enabled /\ file' = file
          /\ lists'[i].url = lists[i].url /\ lists'[i].enabled = lists[i].enabled
          /\ lists'[i].checksum \in {lists[i].checksum, Blank}

\* Nothing else is changed.
LEMMA SetEffect ==
    ASSUME TypeOK, NEW r \in Requests, HandleSet(r)
    PROVE  \E i \in Ids : SetOne(i, r)
<1>1. /\ lists \in [Ids -> Lists] /\ file \in [Ids -> Files \cup {None}]
      /\ r \in SetRequests /\ remote \in [Urls -> Data \cup {Down}]
      /\ pc \in [Actors -> Labels]
  BY DEF TypeOK, ConfOK, FilesOK, HandlersOK, HandleSet
<1>2. PICK i \in Ids : /\ lists[i].where = r.where /\ lists[i].url = r.url
                       /\ SetDisabled(i, r) \/ SetUpdated(i, r)
  BY DEF HandleSet
<1>3. InConf(lists[i]) /\ lists[i] \in Lists /\ r.newUrl \in Urls
  BY <1>1, <1>2 DEF InConf, SetRequests
<1> DEFINE l == Unloaded(lists[i], r)
           b == remote[r.newUrl]
<1>4. /\ l \in Lists /\ l.where = lists[i].where /\ l.url = r.newUrl
      /\ l.enabled = lists[i].enabled
      /\ r.newUrl = r.url => l.checksum = lists[i].checksum
      /\ r.newUrl # r.url => l.checksum = Blank
  BY <1>1, <1>2, <1>3 DEF Unloaded, Lists, Data
<1>5. CASE SetDisabled(i, r)
  <2>1. lists' = [lists EXCEPT ![i] = Disabled(l)] /\ file' = file /\ ~r.enabled
    BY <1>5 DEF SetDisabled
  <2>2. lists'[i] = [l EXCEPT !.enabled = FALSE, !.checksum = Blank]
    BY <1>1, <2>1 DEF Disabled
  <2>3. \A j \in Ids \ {i} : lists'[j] = lists[j]
    BY <1>1, <2>1
  <2>4. pc'["http"] = "enable" \/ ~lists[i].enabled
    BY <1>1, <1>5 DEF SetDisabled, Begin, Goto, Actors
  <2> HIDE DEF l
  <2>5. /\ lists'[i].where = lists[i].where /\ lists'[i].url = r.newUrl
        /\ lists'[i].enabled = FALSE /\ lists'[i].checksum = Blank
    BY <1>4, <2>2 DEF Lists
  <2> QED
    BY <1>2, <1>3, <2>1, <2>3, <2>4, <2>5 DEF SetOne
<1>6. CASE SetUpdated(i, r)
  <2>1. /\ r.enabled /\ (~lists[i].enabled \/ r.url # r.newUrl)
        /\ \/ /\ file' = [file EXCEPT ![i] = [body |-> b, from |-> r.newUrl]]
              /\ lists' = [lists EXCEPT ![i] = [l EXCEPT !.enabled = TRUE, !.checksum = b]]
              /\ Begin("http", "enable")
           \/ /\ b = l.checksum /\ lists' = [lists EXCEPT ![i] = [l EXCEPT !.enabled = TRUE]]
              /\ file' = file
           \/ /\ lists' = [lists EXCEPT ![i] = Restored(lists[i], l)] /\ file' = file
    BY <1>2, <1>6 DEF SetUpdated
  <2> HIDE DEF l, b
  <2>2. CASE /\ file' = [file EXCEPT ![i] = [body |-> b, from |-> r.newUrl]]
             /\ lists' = [lists EXCEPT ![i] = [l EXCEPT !.enabled = TRUE, !.checksum = b]]
             /\ Begin("http", "enable")
    <3>1. /\ lists'[i] = [l EXCEPT !.enabled = TRUE, !.checksum = b]
          /\ file'[i] = [body |-> b, from |-> r.newUrl]
          /\ \A j \in Ids \ {i} : lists'[j] = lists[j] /\ file'[j] = file[j]
      BY <1>1, <2>2
    <3>2. /\ lists'[i].where = lists[i].where /\ lists'[i].url = r.newUrl
          /\ lists'[i].enabled = TRUE /\ lists'[i].checksum = b
      BY <1>4, <3>1 DEF Lists
    <3>3. pc'["http"] = "enable"
      BY <1>1, <2>2 DEF Begin, Goto, Actors
    <3> QED
      BY <1>2, <1>3, <2>1, <3>1, <3>2, <3>3 DEF b, SetOne
  <2>3. CASE /\ b = l.checksum /\ lists' = [lists EXCEPT ![i] = [l EXCEPT !.enabled = TRUE]]
             /\ file' = file
    <3>1. /\ lists'[i] = [l EXCEPT !.enabled = TRUE]
          /\ \A j \in Ids \ {i} : lists'[j] = lists[j]
      BY <1>1, <2>3
    <3>2. /\ lists'[i].where = lists[i].where /\ lists'[i].url = r.newUrl
          /\ lists'[i].enabled = TRUE /\ lists'[i].checksum = b
      BY <1>4, <2>3, <3>1 DEF Lists
    <3>3. \/ b = Blank
          \/ r.newUrl = r.url /\ lists[i].checksum = b /\ ~lists[i].enabled
      BY <1>4, <2>1, <2>3
    <3> QED
      BY <1>2, <1>3, <2>1, <2>3, <3>1, <3>2, <3>3 DEF b, SetOne
  <2>4. CASE lists' = [lists EXCEPT ![i] = Restored(lists[i], l)] /\ file' = file
    <3>1. /\ lists'[i] = [l EXCEPT !.url = lists[i].url, !.enabled = lists[i].enabled]
          /\ \A j \in Ids \ {i} : lists'[j] = lists[j]
      BY <1>1, <2>4 DEF Restored
    <3>2. /\ lists'[i].where = lists[i].where /\ lists'[i].url = lists[i].url
          /\ lists'[i].enabled = lists[i].enabled
          /\ lists'[i].checksum \in {lists[i].checksum, Blank}
      BY <1>4, <3>1 DEF Lists
    <3> QED
      BY <1>2, <1>3, <2>1, <2>4, <3>1, <3>2 DEF SetOne
  <2> QED
    BY <2>1, <2>2, <2>3, <2>4
<1> QED
  BY <1>2, <1>5, <1>6

\* A handler that is not adding a list does not begin to.
LEMMA DrawnKept ==
    ASSUME DrawnInv, adding' = adding,
           pc'["http"] \in {"fetch", "add"} => pc["http"] \in {"fetch", "add"},
           \A i : lists[i].where = "drawn" => lists'[i].where = "drawn"
    PROVE  DrawnInv'
  BY DEF DrawnInv

\* Lists and files stay as they are.
LEMMA NothingMoves ==
    ASSUME TypeOK, FileInv, UNCHANGED <<lists, file, refresh, adding>>,
           NoRefreshes => ~periodic',
           pc'["http"] \in {"fetch", "add"} => pc["http"] \in {"fetch", "add"}
    PROVE  FileInv'
<1>1. \A i \in Ids : Calm(i)
  BY DEF Calm
<1>2. RefreshInv' /\ CopyInv' /\ ChecksumOfFile'
  BY <1>1, HandlerStep DEF FileInv
<1>3. DrawnInv'
  BY DrawnKept DEF FileInv
<1> QED
  BY <1>2, <1>3 DEF FileInv

\* A list that is new or being added is not in flight.
LEMMA NotInFlight ==
    ASSUME TypeOK, RefreshInv, NEW i \in Ids, lists[i].where \in {"unused", "drawn"}
    PROVE  i \notin InFlight
<1> SUFFICES ASSUME NEW c \in Copied, c.id = i PROVE FALSE
  BY InFlightCopied
<1>1. refresh.array \in Slices
  BY DEF TypeOK, RefreshOK
<1>2. lists[i].where \in {refresh.array, "gone"}
  BY DEF RefreshInv
<1> QED
  BY <1>1, <1>2 DEF Slices

\* Adding a list draws a new one, removing one forgets it.
LEMMA AddRemoveEffect ==
    ASSUME TypeOK, RefreshInv, NEW r \in Requests, HandleAdd(r) \/ HandleRemove(r)
    PROVE  /\ UNCHANGED <<refresh, periodic, remote>>
           /\ \A j \in Ids : Calm(j) \/ (j \notin InFlight /\ lists'[j].where = "drawn")
           /\ \/ pc'["http"] = "enable"
              \/ pc'["http"] = "fetch" /\ lists'[adding'.id].where = "drawn"
<1>0. lists \in [Ids -> Lists] /\ file \in [Ids -> Files \cup {None}] /\ pc \in [Actors -> Labels]
  BY DEF TypeOK, ConfOK, FilesOK, HandlersOK
<1>1. CASE HandleAdd(r)
  <2>1. PICK i \in Ids : /\ lists[i].where = "unused"
                         /\ lists' = [lists EXCEPT ![i].where = "drawn"]
                         /\ adding' = [id |-> i, url |-> r.url, where |-> r.where]
    BY <1>1 DEF HandleAdd
  <2>2. UNCHANGED <<file, refresh, periodic, remote>> /\ pc'["http"] = "fetch"
    BY <1>0, <1>1 DEF HandleAdd, flagVars, Begin, Goto, Actors
  <2>3. lists'[i].where = "drawn" /\ \A j \in Ids \ {i} : lists'[j] = lists[j]
    <3>1. lists[i] \in Lists /\ lists'[i] = [lists[i] EXCEPT !.where = "drawn"]
      BY <1>0, <2>1
    <3>2. lists'[i].where = "drawn"
      BY <3>1 DEF Lists
    <3> QED
      BY <1>0, <2>1, <3>2
  <2>4. i \notin InFlight
    BY <2>1, NotInFlight
  <2> QED
    BY <2>1, <2>2, <2>3, <2>4 DEF Calm
<1>2. CASE HandleRemove(r)
  <2>1. PICK found :
          /\ lists' = [i \in Ids |-> IF i \in found THEN [lists[i] EXCEPT !.where = "gone"]
                                                    ELSE lists[i]]
          /\ file' = [i \in Ids |-> IF i \in found THEN None ELSE file[i]]
    BY <1>2 DEF HandleRemove
  <2>2. UNCHANGED <<refresh, periodic, remote>> /\ pc'["http"] = "enable"
    BY <1>0, <1>2 DEF HandleRemove, flagVars, Begin, Goto, Actors
  <2>3. \A j \in Ids : Calm(j)
    <3> SUFFICES ASSUME NEW j \in Ids PROVE Calm(j)
      OBVIOUS
    <3>1. CASE j \in found
      <4>1. lists[j] \in Lists /\ lists'[j] = [lists[j] EXCEPT !.where = "gone"]
        BY <1>0, <2>1, <3>1
      <4>2. lists'[j].where = "gone"
        BY <4>1 DEF Lists
      <4> QED
        BY <4>2 DEF Calm
    <3>2. CASE j \notin found
      BY <2>1, <3>2 DEF Calm
    <3> QED
      BY <3>1, <3>2
  <2> QED
    BY <2>2, <2>3
<1> QED
  BY <1>1, <1>2

\* Adding and removing a list.
LEMMA FilesAddRemove ==
    ASSUME TypeOK, FileInv, NEW r \in Requests, HandleAdd(r) \/ HandleRemove(r)
    PROVE  FileInv'
<1>1. /\ UNCHANGED <<refresh, periodic, remote>>
      /\ \A j \in Ids : Calm(j) \/ (j \notin InFlight /\ lists'[j].where = "drawn")
      /\ \/ pc'["http"] = "enable"
         \/ pc'["http"] = "fetch" /\ lists'[adding'.id].where = "drawn"
  BY AddRemoveEffect DEF FileInv
<1>2. \A j \in Ids : Calm(j) \/ Right(j)
  BY <1>1 DEF Right, InConf, Slices
<1>3. RefreshInv' /\ CopyInv' /\ ChecksumOfFile'
  BY <1>1, <1>2, HandlerStep DEF FileInv, RefreshInv
<1>4. DrawnInv'
  BY <1>1 DEF DrawnInv
<1> QED
  BY <1>3, <1>4 DEF FileInv

\* Without refreshes, nothing is in flight.
LEMMA NoFlight == NoRefreshes /\ RefreshInv => InFlight = {}
  BY DEF RefreshInv, InFlight, NoRefresh

\* Setting a list.
LEMMA FilesSet ==
    ASSUME TypeOK, FileInv, SetsOnlyDisable \/ NoRefreshes,
           NEW r \in Requests, HandleSet(r)
    PROVE  FileInv'
<1>0. pc \in [Actors -> Labels] /\ RefreshInv /\ ChecksumOfFile /\ r \in SetRequests
  BY DEF TypeOK, HandlersOK, FileInv, HandleSet
<1>1. UNCHANGED <<refresh, periodic, adding>> /\ pc'["http"] \in {"enable", "idle"}
  <2>1. Begin("http", "enable") \/ Begin("http", "idle")
    BY DEF HandleSet, SetDisabled, SetUpdated
  <2> QED
    BY <1>0, <2>1 DEF HandleSet, flagVars, Begin, Goto, Actors
<1>2. PICK i \in Ids : SetOne(i, r)
  BY SetEffect
<1>3. Calm(i) \/ Right(i)
  <2>1. CASE SetsOnlyDisable
    <3>1. ~r.enabled /\ r.newUrl = r.url
      BY <1>0, <2>1 DEF SetsOnlyDisable
    <3> QED
      BY <1>2, <3>1 DEF Calm, SetOne
  <2>2. CASE NoRefreshes
    <3>1. InFlight = {}
      BY <1>0, <2>2, NoFlight
    <3>2. HasBody(i, lists[i].checksum)
      BY <1>0, <1>2, <3>1 DEF ChecksumOfFile, HasBody, SetOne
    <3>3. HasBody(i, lists[i].checksum)'
      <4>1. CASE lists'[i].checksum = remote[r.newUrl]
                 /\ file'[i] = [body |-> remote[r.newUrl], from |-> r.newUrl]
        <5>1. file'[i] \in Files \/ remote[r.newUrl] = Down
          <6>1. remote[r.newUrl] \in Data \cup {Down} /\ r.newUrl \in Urls
            BY <1>0 DEF TypeOK, FilesOK, SetRequests
          <6> QED
            BY <4>1, <6>1 DEF Files
        <5>2. remote[r.newUrl] # Down \/ file'[i] # None
          <6>1. TypeOK'
            BY TypeNext DEF Next, HandleRequest
          <6>2. lists'[i].checksum \in Data
            BY <6>1 DEF TypeOK, ConfOK, Lists
          <6> QED
            BY <4>1, <6>2, SentinelAssumption
        <5>3. file'[i] # None
          BY <5>1, <5>2, SentinelAssumption
        <5> QED
          BY <4>1, <5>3 DEF HasBody
      <4>2. CASE file' = file /\ lists'[i].checksum \in {lists[i].checksum, Blank}
        BY <3>2, <4>2 DEF HasBody
      <4> QED
        BY <1>2, <4>1, <4>2 DEF SetOne
    <3> QED
      BY <3>1, <3>3 DEF Right
  <2> QED
    BY <2>1, <2>2
<1>4. \A j \in Ids : Calm(j) \/ Right(j)
  BY <1>2, <1>3 DEF Calm, SetOne
<1>5. RefreshInv' /\ CopyInv' /\ ChecksumOfFile'
  BY <1>1, <1>4, HandlerStep DEF FileInv, RefreshInv
<1>6. DrawnInv'
  BY <1>1 DEF DrawnInv
<1> QED
  BY <1>5, <1>6 DEF FileInv

\* A list is being added: it gets its file, then its place, or it is given up.
LEMMA AddingEffect ==
    ASSUME TypeOK, RefreshInv, DrawnInv, AddFetch \/ FilterAdd
    PROVE  /\ UNCHANGED <<refresh, periodic, remote>>
           /\ \E k \in Ids :
                /\ k = adding.id /\ k \notin InFlight
                /\ \A j \in Ids \ {k} : lists'[j] = lists[j] /\ file'[j] = file[j]
                /\ pc["http"] \in {"fetch", "add"} /\ ~InConf(lists[k])
                /\ \/ /\ pc'["http"] = "add" /\ adding' = adding
                      /\ lists'[k].where = "drawn" /\ file'[k].from = adding.url
                   \/ pc'["http"] = "idle" /\ lists'[k].where = "gone"
                   \/ /\ pc["http"] = "add" /\ pc'["http"] = "enable"
                      /\ file'[k] = file[k] /\ file[k] # None
                      /\ lists'[k].checksum = file[k].body /\ lists'[k].url = adding.url
<1>0. /\ lists \in [Ids -> Lists] /\ file \in [Ids -> Files \cup {None}]
      /\ pc \in [Actors -> Labels] /\ "http" \in Actors
      /\ adding.id \in Ids
      /\ pc["http"] = "add" => file[adding.id] \in Files
      /\ pc["http"] \in {"fetch", "add"}
  BY DEF TypeOK, ConfOK, FilesOK, HandlersOK, AddingOK, AddFetch, FilterAdd, Actors
<1>k. PICK k \in Ids : k = adding.id
  BY <1>0
<1>1. lists[k].where = "drawn" /\ lists[k] \in Lists /\ ~InConf(lists[k])
  BY <1>0, <1>k DEF DrawnInv, InConf, Slices
<1>2. k \notin InFlight
  BY <1>k, <1>0, <1>1, NotInFlight
<1>3. UNCHANGED <<refresh, periodic, remote>>
  BY DEF AddFetch, FilterAdd, flagVars
<1>4. \A j \in Ids \ {k} : lists'[j] = lists[j] /\ file'[j] = file[j]
  BY <1>k, <1>0 DEF AddFetch, FilterAdd
<1>5. ASSUME lists' = [lists EXCEPT ![k].where = "gone"], Goto("http", "idle")
      PROVE  pc'["http"] = "idle" /\ lists'[k].where = "gone"
  <2>1. lists'[k] = [lists[k] EXCEPT !.where = "gone"] /\ pc'["http"] = "idle"
    BY <1>0, <1>5 DEF Goto
  <2> QED
    BY <1>1, <2>1 DEF Lists
<1>6. CASE AddFetch
  <2>1. ASSUME file' = [file EXCEPT ![k] = [body |-> remote[adding.url], from |-> adding.url]],
               lists' = lists, adding' = adding, Goto("http", "add")
        PROVE  /\ pc'["http"] = "add" /\ adding' = adding
               /\ lists'[k].where = "drawn" /\ file'[k].from = adding.url
    BY <1>0, <1>1, <2>1 DEF Goto
  <2> QED
    BY <1>0, <1>k, <1>1, <1>2, <1>3, <1>4, <1>5, <1>6, <2>1 DEF AddFetch
<1>7. CASE FilterAdd
  <2>1. ASSUME lists' = [lists EXCEPT ![k] =
                           [where |-> adding.where, url |-> adding.url,
                            enabled |-> TRUE, checksum |-> file[k].body]],
               Goto("http", "enable")
        PROVE  /\ pc["http"] = "add" /\ pc'["http"] = "enable"
               /\ file'[k] = file[k] /\ file[k] # None
               /\ lists'[k].checksum = file[k].body /\ lists'[k].url = adding.url
    BY <1>0, <1>k, <1>7, <2>1, SentinelAssumption DEF FilterAdd, Goto
  <2> QED
    BY <1>0, <1>k, <1>1, <1>2, <1>3, <1>4, <1>5, <1>7, <2>1 DEF FilterAdd
<1> QED
  BY <1>6, <1>7

\* Its checksum is that of its file.
LEMMA FilesAdding ==
    ASSUME TypeOK, FileInv, AddFetch \/ FilterAdd
    PROVE  FileInv'
<1>0. RefreshInv /\ DrawnInv
  BY DEF FileInv
<1>1. UNCHANGED <<refresh, periodic, remote>>
  BY <1>0, AddingEffect
<1>2. PICK k \in Ids :
        /\ k = adding.id /\ k \notin InFlight
        /\ \A j \in Ids \ {k} : lists'[j] = lists[j] /\ file'[j] = file[j]
        /\ \/ pc'["http"] = "add" /\ adding' = adding /\ lists'[k].where = "drawn"
           \/ pc'["http"] = "idle" /\ lists'[k].where = "gone"
           \/ /\ pc'["http"] = "enable" /\ file'[k] = file[k] /\ file[k] # None
              /\ lists'[k].checksum = file[k].body
  BY <1>0, AddingEffect
<1>3. \A j \in Ids : Calm(j) \/ Right(j)
  BY <1>2 DEF Calm, Right, HasBody, InConf, Slices
<1>4. RefreshInv' /\ CopyInv' /\ ChecksumOfFile'
  BY <1>1, <1>3, HandlerStep DEF FileInv, RefreshInv
<1>5. DrawnInv'
  BY <1>2 DEF DrawnInv
<1> QED
  BY <1>4, <1>5 DEF FileInv

-----------------------------------------------------------------------------
(* The steps of a refresh.                                                 *)

Refreshes == [owner : {"none", "http", "loop"},
              step : {"idle", "list", "fetch", "replace", "finish"},
              array : Slices, todo : SUBSET Copies,
              cur : Copies \cup {None}, body : Data \cup {Down},
              done : SUBSET Copies, allFailed : BOOLEAN,
              updated : BOOLEAN, netErr : BOOLEAN]

\* A refresh starts.
LEMMA FilesStart ==
    ASSUME TypeOK, FileInv, NEW o \in {"http", "loop"}, NEW a, StartRefresh(o, a),
           UNCHANGED <<lists, file, adding>>, ~NoRefreshes,
           pc'["http"] \in {"fetch", "add"} => pc["http"] \in {"fetch", "add"}
    PROVE  FileInv'
<1>1. refresh' = [NoRefresh EXCEPT !.owner = o, !.step = "list", !.array = a]
      /\ refresh.owner = "none"
  BY DEF StartRefresh
<1>2. /\ refresh'.owner = o /\ refresh'.step = "list" /\ refresh'.todo = {}
      /\ refresh'.done = {} /\ refresh'.cur = None
  BY <1>1 DEF NoRefresh
<1>3. Copied' = {} /\ InFlight' = {}
  BY <1>2 DEF Copied, InFlight
<1>4. Copied = {} /\ InFlight = {}
  BY <1>1 DEF FileInv, RefreshInv, Copied, InFlight
<1>5. RefreshInv'
  BY <1>2, <1>3 DEF RefreshInv
<1>6. CopyInv'
  BY <1>3 DEF CopyInv
<1>7. ChecksumOfFile'
  BY <1>3, <1>4 DEF FileInv, ChecksumOfFile
<1>8. DrawnInv'
  BY DrawnKept DEF FileInv
<1> QED
  BY <1>5, <1>6, <1>7, <1>8 DEF FileInv

\* While one runs, refreshes are not excluded.
LEMMA Runs == RefreshInv /\ Refreshing => ~NoRefreshes
<1>1. /\ ListsToUpdate => refresh.step = "list"
      /\ RefreshFetch => refresh.step = "fetch"
      /\ FinalizeUpdate => refresh.step = "replace"
      /\ FinishRefresh => refresh.step = "finish"
  BY DEF ListsToUpdate, RefreshFetch, FinalizeUpdate, FinishRefresh
<1>2. SyncUpdatedFilters => refresh.step = "fetch"
  BY Zenon DEF SyncUpdatedFilters
<1>3. NoRefresh.step = "idle"
  BY DEF NoRefresh
<1> QED
  BY <1>1, <1>2, <1>3 DEF RefreshInv, Refreshing

\* The lists that are due are copied: a copy knows what its list knows.
LEMMA FilesListed == ASSUME TypeOK, FileInv, ListsToUpdate PROVE FileInv'
<1>0. /\ lists \in [Ids -> Lists] /\ refresh \in Refreshes /\ RefreshInv
      /\ UNCHANGED <<lists, file, adding, pc>> /\ ~NoRefreshes
  BY Runs DEF TypeOK, ConfOK, RefreshOK, Refreshes, FileInv, ListsToUpdate, refreshFrame,
              Refreshing
<1>1. Copied = {} /\ InFlight = {} /\ refresh.cur = None /\ refresh.owner # "none"
  BY DEF FileInv, RefreshInv, Copied, InFlight, ListsToUpdate
<1>2. PICK S \in SUBSET {i \in Ids : lists[i].where = refresh.array /\ lists[i].enabled} :
        refresh' = [refresh EXCEPT
              !.step = "fetch", !.done = {}, !.allFailed = TRUE,
              !.todo = {[id |-> i, url |-> lists[i].url,
                         checksum |-> lists[i].checksum, updated |-> FALSE] : i \in S}]
  BY DEF ListsToUpdate
<1> DEFINE C == {[id |-> i, url |-> lists[i].url,
                  checksum |-> lists[i].checksum, updated |-> FALSE] : i \in S}
<1>3. /\ refresh'.owner = refresh.owner /\ refresh'.step = "fetch" /\ refresh'.done = {}
      /\ refresh'.todo = C /\ refresh'.cur = refresh.cur /\ refresh'.array = refresh.array
  BY <1>0, <1>2 DEF Refreshes
<1>4. \A c \in C : /\ c.id \in S /\ c.url = lists[c.id].url
                   /\ c.checksum = lists[c.id].checksum
                   /\ c = [id |-> c.id, url |-> lists[c.id].url,
                           checksum |-> lists[c.id].checksum, updated |-> FALSE]
  OBVIOUS
<1>5. C \subseteq Copies
  <2>1. TypeOK'
    BY TypeNext DEF Next, Refreshing
  <2> QED
    BY <1>3, <2>1 DEF TypeOK, RefreshOK
<1> HIDE DEF C
<1>6. Copied' = C
  BY <1>1, <1>3 DEF Copied
<1>7. RefreshInv'
  <2>1. \A c, d \in C : c.id = d.id => c = d
    BY <1>4
  <2>2. None \notin C
    BY <1>5, SentinelAssumption
  <2>3. \A c \in C : lists[c.id].where = refresh.array
    BY <1>4
  <2> QED
    BY <1>0, <1>1, <1>3, <1>6, <2>1, <2>2, <2>3 DEF RefreshInv
<1>8. CopyInv'
  <2> SUFFICES ASSUME NEW c \in C, InConf(lists[c.id])
               PROVE  /\ c.url = lists[c.id].url
                      /\ HasBody(c.id, c.checksum)
                      /\ lists[c.id].checksum \in {Blank, c.checksum}
    BY <1>0, <1>6 DEF CopyInv, HasBody
  <2>1. c.id \in Ids
    BY <1>4
  <2>2. HasBody(c.id, lists[c.id].checksum)
    BY <1>1, <2>1 DEF FileInv, ChecksumOfFile, HasBody
  <2> QED
    BY <1>4, <2>2
<1>9. ChecksumOfFile'
  BY <1>0, <1>1 DEF FileInv, ChecksumOfFile
<1>10. DrawnInv'
  BY <1>0, DrawnKept DEF FileInv
<1> QED
  BY <1>7, <1>8, <1>9, <1>10 DEF FileInv

\* A download puts a copy aside, and changes nothing about it.
LEMMA FilesFetched ==
    ASSUME TypeOK, FileInv, RefreshFetch
    PROVE  FileInv' /\ Copied' = Copied /\ InFlight' = InFlight
<1>0. /\ refresh \in Refreshes /\ RefreshInv /\ CopyInv /\ refresh.step = "fetch"
      /\ UNCHANGED <<lists, file, adding, pc>> /\ ~NoRefreshes
  BY Runs DEF TypeOK, RefreshOK, Refreshes, FileInv, RefreshFetch, refreshFrame, Refreshing
<1>1. refresh.cur = None /\ refresh.owner # "none"
  BY <1>0 DEF RefreshInv
<1>2. PICK c \in refresh.todo :
        \E body : refresh' = IF Changed(body, c.checksum)
           THEN [refresh EXCEPT !.todo = @ \ {c}, !.cur = c, !.body = body, !.step = "replace"]
           ELSE [refresh EXCEPT !.todo = @ \ {c}, !.done = @ \cup {c},
                                !.allFailed = @ /\ body = Down]
  BY DEF RefreshFetch
<1>3. c \in Copies /\ c # None
  BY <1>0, SentinelAssumption DEF Refreshes
<1>4. /\ refresh'.owner = refresh.owner /\ refresh'.array = refresh.array
      /\ refresh'.todo = refresh.todo \ {c}
      /\ refresh'.allFailed => refresh.allFailed
      /\ \/ refresh'.cur = c /\ refresh'.done = refresh.done /\ refresh'.step = "replace"
         \/ /\ refresh'.cur = None /\ refresh'.done = refresh.done \cup {c}
            /\ refresh'.step = "fetch"
  BY <1>0, <1>1, <1>2 DEF Refreshes
<1>5. Copied' = Copied /\ InFlight' = InFlight
  <2>1. Copied' = Copied
    BY <1>1, <1>3, <1>4 DEF Copied
  <2>2. \A i : i \in InFlight' <=> \E d \in Copied' : d.id = i
    BY DEF InFlight, Copied
  <2> QED
    BY <2>1, <2>2, InFlightCopied
<1>6. RefreshInv'
  <2>1. None \notin refresh.todo \cup refresh.done
    BY <1>0, SentinelAssumption DEF Refreshes
  <2> QED
    BY <1>0, <1>1, <1>3, <1>4, <1>5, <2>1 DEF RefreshInv
<1>7. CopyInv'
  BY <1>0, <1>4, <1>5 DEF CopyInv, HasBody
<1>8. ChecksumOfFile'
  BY <1>0, <1>5 DEF FileInv, ChecksumOfFile
<1>9. DrawnInv'
  BY <1>0, DrawnKept DEF FileInv
<1> QED
  BY <1>5, <1>6, <1>7, <1>8, <1>9 DEF FileInv

\* The copy of which the file is replaced.
LEMMA FinalizedCopy ==
    ASSUME NEW k \in Copies, NEW b \in Data, NEW replaced
    PROVE  /\ Finalized(k, b, replaced) \in Copies
           /\ Finalized(k, b, replaced).id = k.id /\ Finalized(k, b, replaced).url = k.url
           /\ Finalized(k, b, replaced).updated
           /\ Finalized(k, b, replaced).checksum = IF replaced THEN b ELSE k.checksum
  BY DEF Finalized, Copies

\* A file is replaced together with the checksum of the copy.
LEMMA FilesReplaced ==
    ASSUME TypeOK, FileInv, FinalizeUpdate
    PROVE  /\ FileInv' /\ InFlight' = InFlight
           /\ \E k \in Copied :
                /\ k.id \in Ids /\ \A i \in Ids \ {k.id} : file'[i] = file[i]
                /\ file'[k.id] = file[k.id] \/ file'[k.id].from = k.url
<1>0. /\ refresh \in Refreshes /\ RefreshInv /\ CopyInv /\ refresh.step = "replace"
      /\ UNCHANGED <<lists, adding, pc>> /\ ~NoRefreshes /\ refresh.owner # "none"
      /\ refresh.cur \in Copies /\ refresh.body \in Data
      /\ file \in [Ids -> Files \cup {None}]
  BY Runs DEF TypeOK, FilesOK, RefreshOK, Refreshes, FileInv, RefreshInv, FinalizeUpdate,
              refreshFrame, Refreshing
<1> DEFINE k == refresh.cur
           b == refresh.body
<1>1. PICK replaced \in BOOLEAN :
        /\ file' = IF replaced THEN [file EXCEPT ![k.id] = [body |-> b, from |-> k.url]]
                               ELSE file
        /\ refresh' = [refresh EXCEPT
              !.done = @ \cup {Finalized(k, b, replaced)},
              !.allFailed = @ /\ ~replaced,
              !.cur = None, !.body = Down, !.step = "fetch"]
  BY DEF FinalizeUpdate
<1> DEFINE n == Finalized(k, b, replaced)
<1>2. /\ n \in Copies /\ n.id = k.id /\ n.url = k.url /\ n.updated
      /\ n.checksum = IF replaced THEN b ELSE k.checksum
  BY <1>0, FinalizedCopy
<1>3. /\ refresh'.owner = refresh.owner /\ refresh'.array = refresh.array
      /\ refresh'.todo = refresh.todo /\ refresh'.done = refresh.done \cup {n}
      /\ refresh'.cur = None /\ refresh'.step = "fetch"
      /\ refresh'.allFailed <=> refresh.allFailed /\ ~replaced
  BY <1>0, <1>1 DEF Refreshes
<1> HIDE DEF n
<1>4. k # None /\ n # None /\ k.id \in Ids /\ None \notin refresh.todo \cup refresh.done
  <2>1. k.id \in Ids
    BY <1>0 DEF Copies
  <2>2. refresh.todo \subseteq Copies /\ refresh.done \subseteq Copies
    BY <1>0 DEF Refreshes
  <2> QED
    BY <1>0, <1>2, <2>1, <2>2, SentinelAssumption
<1>5. \A c \in refresh.todo \cup refresh.done : c.id # k.id /\ c \in Copied
  BY <1>0, <1>4 DEF RefreshInv, Copied
<1>6. k \in Copied
  BY <1>4 DEF Copied
<1>7. Copied' = refresh.todo \cup refresh.done \cup {n}
  BY <1>3 DEF Copied
<1>8. /\ \A i \in Ids \ {k.id} : file'[i] = file[i]
      /\ replaced => file'[k.id] = [body |-> b, from |-> k.url]
      /\ ~replaced => file' = file
  BY <1>0, <1>1, <1>4
<1>9. RefreshInv'
  <2>1. \A c, d \in Copied' : c.id = d.id => c = d
    BY <1>0, <1>2, <1>5, <1>7 DEF RefreshInv
  <2>2. \A c \in Copied' : lists[c.id].where \in {refresh.array, "gone"}
    BY <1>0, <1>2, <1>5, <1>6, <1>7 DEF RefreshInv
  <2>3. n \notin refresh.todo
    BY <1>2, <1>5
  <2> QED
    BY <1>0, <1>3, <1>4, <2>1, <2>2, <2>3 DEF RefreshInv
<1>10. CopyInv'
  <2> SUFFICES ASSUME NEW c \in Copied', InConf(lists[c.id])
               PROVE  /\ c.url = lists[c.id].url
                      /\ c.checksum # Blank =>
                           file'[c.id] # None /\ file'[c.id].body = c.checksum
                      /\ ~c.updated \/ refresh'.allFailed =>
                           lists[c.id].checksum \in {Blank, c.checksum}
    BY <1>0 DEF CopyInv, HasBody
  <2>1. CASE c = n
    <3>1. /\ k.url = lists[k.id].url /\ HasBody(k.id, k.checksum)
          /\ refresh.allFailed => lists[k.id].checksum \in {Blank, k.checksum}
      BY <1>0, <1>2, <1>6, <2>1 DEF CopyInv
    <3>2. CASE replaced
      <4>1. file'[k.id] = [body |-> b, from |-> k.url] /\ k.url \in Urls /\ b \in Data
        BY <1>0, <1>8, <3>2 DEF Copies
      <4>2. file'[k.id] # None
        BY <4>1, SentinelAssumption DEF Files
      <4> QED
        BY <1>2, <1>3, <2>1, <3>1, <3>2, <4>1, <4>2
    <3>3. CASE ~replaced
      BY <1>2, <1>3, <1>8, <2>1, <3>1, <3>3 DEF HasBody
    <3> QED
      BY <3>2, <3>3
  <2>2. CASE c # n
    <3>1. c \in refresh.todo \cup refresh.done /\ c \in Copied /\ c.id # k.id
      BY <1>5, <1>7, <2>2
    <3>2. c.id \in Ids
      BY <3>1, CopiedType DEF Copies
    <3>3. file'[c.id] = file[c.id]
      BY <1>8, <3>1, <3>2
    <3> QED
      BY <1>0, <1>3, <3>1, <3>3 DEF CopyInv, HasBody
  <2> QED
    BY <2>1, <2>2
<1>f. InFlight' = InFlight
  <2>1. \A i : i \in InFlight' <=> \E d \in Copied' : d.id = i
    BY DEF InFlight, Copied
  <2>2. \A c \in Copied : \E d \in Copied' : d.id = c.id
    BY <1>2, <1>7 DEF Copied
  <2>3. \A d \in Copied' : \E c \in Copied : d.id = c.id
    BY <1>2, <1>5, <1>6, <1>7
  <2> QED
    BY <2>1, <2>2, <2>3, InFlightCopied
<1>11. ChecksumOfFile'
  <2>1. k.id \in InFlight
    BY <1>6, InFlightCopied
  <2> QED
    BY <1>0, <1>8, <1>f, <2>1 DEF FileInv, ChecksumOfFile
<1>12. DrawnInv'
  BY <1>0, DrawnKept DEF FileInv
<1> QED
  BY <1>4, <1>6, <1>8, <1>9, <1>10, <1>11, <1>12, <1>f DEF FileInv

\* What the end of a slice does to its lists.
LEMMA SyncEffect ==
    ASSUME TypeOK, RefreshInv, SyncUpdatedFilters
    PROVE  /\ UNCHANGED <<file, adding, pc>> /\ Copied = refresh.done
           /\ refresh'.owner = refresh.owner /\ refresh'.todo = {} /\ refresh'.done = {}
           /\ refresh'.cur = None /\ refresh'.step \in {"list", "finish"}
           /\ \A i \in Ids :
                /\ lists'[i].where = lists[i].where /\ lists'[i].url = lists[i].url
                /\ lists'[i].enabled = lists[i].enabled
                /\ \/ /\ lists'[i] = lists[i]
                      /\ \/ Merged(i) = {}
                         \/ refresh.allFailed
                   \/ \E c \in Merged(i) : lists'[i].checksum = c.checksum
<1>0. /\ refresh \in Refreshes /\ lists \in [Ids -> Lists] /\ refresh.step = "fetch"
      /\ refresh.todo = {} /\ UNCHANGED <<file, adding, pc>>
  BY DEF TypeOK, ConfOK, RefreshOK, Refreshes, SyncUpdatedFilters, refreshFrame
<1>1. refresh.cur = None /\ Copied = refresh.done
  BY <1>0 DEF RefreshInv, Copied
<1> DEFINE failed == refresh.done # {} /\ refresh.allFailed
           merge(i) == ~failed /\ Merged(i) # {}
<1>2. lists' = [i \in Ids |->
                IF merge(i)
                THEN [lists[i] EXCEPT !.checksum = (CHOOSE c \in Merged(i) : TRUE).checksum]
                ELSE lists[i]]
  BY DEF SyncUpdatedFilters
<1>3. refresh' = [refresh EXCEPT
                !.netErr = @ \/ failed,
                !.updated = @ \/ \E i \in Ids : merge(i),
                !.done = {},
                !.step = IF refresh.owner = "loop" /\ refresh.array = "block"
                         THEN "list" ELSE "finish",
                !.array = IF refresh.owner = "loop" THEN "allow" ELSE @]
  BY DEF SyncUpdatedFilters
<1>4. /\ refresh'.owner = refresh.owner /\ refresh'.todo = {} /\ refresh'.done = {}
      /\ refresh'.cur = None /\ refresh'.step \in {"list", "finish"}
  BY <1>0, <1>1, <1>3 DEF Refreshes
<1>5. ASSUME NEW i \in Ids
      PROVE  /\ lists'[i].where = lists[i].where /\ lists'[i].url = lists[i].url
             /\ lists'[i].enabled = lists[i].enabled
             /\ \/ /\ lists'[i] = lists[i]
                   /\ \/ Merged(i) = {}
                      \/ refresh.allFailed
                \/ \E c \in Merged(i) : lists'[i].checksum = c.checksum
  <2>1. CASE merge(i)
    <3> DEFINE c == CHOOSE c \in Merged(i) : TRUE
    <3>1. c \in Merged(i)
      BY <2>1
    <3>2. lists'[i] = [lists[i] EXCEPT !.checksum = c.checksum] /\ lists[i] \in Lists
      BY <1>0, <1>2, <2>1
    <3> HIDE DEF c
    <3>3. /\ lists'[i].where = lists[i].where /\ lists'[i].url = lists[i].url
          /\ lists'[i].enabled = lists[i].enabled /\ lists'[i].checksum = c.checksum
      BY <3>2 DEF Lists
    <3> QED
      BY <3>1, <3>3
  <2>2. CASE ~merge(i)
    BY <1>2, <2>2
  <2> QED
    BY <2>1, <2>2
<1> QED
  BY <1>0, <1>1, <1>4, <1>5

\* The copies that were updated are merged, and a list without one is as it was
\* copied: with its copy it leaves the refresh with the checksum of its file.
LEMMA FilesSynced == ASSUME TypeOK, FileInv, SyncUpdatedFilters PROVE FileInv'
<1>0. RefreshInv /\ CopyInv /\ ~NoRefreshes /\ refresh.step = "fetch"
  BY Runs, Zenon DEF FileInv, Refreshing, SyncUpdatedFilters
<1>1. /\ UNCHANGED <<file, adding, pc>> /\ Copied = refresh.done
      /\ refresh'.owner = refresh.owner /\ refresh'.todo = {} /\ refresh'.done = {}
      /\ refresh'.cur = None /\ refresh'.step \in {"list", "finish"}
      /\ \A i \in Ids :
           /\ lists'[i].where = lists[i].where /\ lists'[i].url = lists[i].url
           /\ \/ /\ lists'[i] = lists[i]
                 /\ \/ Merged(i) = {}
                    \/ refresh.allFailed
              \/ \E c \in Merged(i) : lists'[i].checksum = c.checksum
  BY <1>0, SyncEffect
<1>2. Copied' = {} /\ InFlight' = {}
  BY <1>1 DEF Copied, InFlight
<1>3. RefreshInv'
  BY <1>0, <1>1, <1>2 DEF RefreshInv
<1>4. CopyInv'
  BY <1>2 DEF CopyInv
<1>5. ChecksumOfFile'
  <2> SUFFICES ASSUME NEW i \in Ids, InConf(lists'[i])
               PROVE  lists'[i].checksum # Blank =>
                        file[i] # None /\ file[i].body = lists'[i].checksum
    BY <1>1 DEF ChecksumOfFile
  <2>1. InConf(lists[i])
    BY <1>1 DEF InConf
  <2>2. ASSUME NEW c \in Merged(i), lists'[i].checksum = c.checksum
        PROVE  lists'[i].checksum # Blank => file[i] # None /\ file[i].body = lists'[i].checksum
    BY <1>0, <1>1, <2>1, <2>2 DEF Merged, CopyInv, HasBody
  <2>3. CASE lists'[i] = lists[i] /\ i \notin InFlight
    BY <2>1, <2>3 DEF FileInv, ChecksumOfFile
  <2>4. ASSUME lists'[i] = lists[i], NEW c \in Copied, c.id = i,
               Merged(i) = {} \/ refresh.allFailed
        PROVE  lists'[i].checksum # Blank => file[i] # None /\ file[i].body = lists'[i].checksum
    <3>1. c.url = lists[i].url /\ HasBody(i, c.checksum)
      BY <1>0, <2>1, <2>4 DEF CopyInv
    <3>2. lists[i].where = refresh.array
      BY <1>0, <2>1, <2>4 DEF RefreshInv, InConf, Slices
    <3>3. ~c.updated \/ refresh.allFailed
      BY <1>1, <2>4, <3>1, <3>2 DEF Merged
    <3>4. lists[i].checksum \in {Blank, c.checksum}
      BY <1>0, <2>1, <2>4, <3>3 DEF CopyInv
    <3> QED
      BY <2>4, <3>1, <3>4 DEF HasBody
  <2> QED
    BY <1>1, <2>2, <2>3, <2>4, InFlightCopied
<1>6. DrawnInv'
  <2>1. pc["http"] \in {"fetch", "add"} => adding.id \in Ids
    BY DEF TypeOK, AddingOK
  <2> QED
    BY <1>1, <2>1 DEF FileInv, DrawnInv
<1> QED
  BY <1>3, <1>4, <1>5, <1>6 DEF FileInv

\* A refresh ends with nothing in flight.
LEMMA FilesFinished == ASSUME TypeOK, FileInv, FinishRefresh PROVE FileInv'
<1>0. /\ RefreshInv /\ refresh.step = "finish" /\ refresh' = NoRefresh /\ ~NoRefreshes
      /\ UNCHANGED <<lists, file, adding>> /\ pc \in [Actors -> Labels]
  BY Runs DEF TypeOK, HandlersOK, FileInv, FinishRefresh, refreshFrame, Refreshing
<1>1. pc'["http"] \in {"fetch", "add"} => pc["http"] \in {"fetch", "add"}
  BY <1>0 DEF FinishRefresh, Goto, Actors
<1>2. Copied = {} /\ InFlight = {}
  BY <1>0 DEF RefreshInv, Copied, InFlight
<1>3. /\ refresh'.owner = "none" /\ refresh'.step = "idle" /\ refresh'.todo = {}
      /\ refresh'.done = {} /\ refresh'.cur = None
  BY <1>0 DEF NoRefresh
<1>4. Copied' = {} /\ InFlight' = {}
  BY <1>3 DEF Copied, InFlight
<1>5. RefreshInv'
  BY <1>0, <1>3, <1>4 DEF RefreshInv
<1>6. CopyInv' /\ ChecksumOfFile'
  BY <1>0, <1>2, <1>4 DEF FileInv, CopyInv, ChecksumOfFile
<1>7. DrawnInv'
  BY <1>0, <1>1, DrawnKept DEF FileInv
<1> QED
  BY <1>5, <1>6, <1>7 DEF FileInv

-----------------------------------------------------------------------------
(* The checksum.                                                           *)

\* The steps that touch neither lists nor files nor the refresh.
LEMMA Idle ==
    ASSUME TypeOK,
           \/ \E r \in Requests : HandleSetRules(r) \/ HandleConfig(r)
           \/ AddUserRule \/ RemoveUserRules \/ BotStore
           \/ \E a \in Actors : EnableFilters(a) \/ SetFilters(a) \/ SendTask(a)
           \/ LoopCompile \/ LoopInstall \/ RemoteChange \/ UNCHANGED vars
    PROVE  /\ UNCHANGED <<lists, file, refresh, adding>>
           /\ pc'["http"] = pc["http"] \/ pc'["http"] \in {"enable", "lock", "send", "idle"}
           /\ \/ periodic' = periodic
              \/ \E r \in Requests : r \in ConfigRequests /\ periodic' = r.periodic
<1>0. pc \in [Actors -> Labels] /\ "http" \in Actors
  BY DEF TypeOK, HandlersOK, Actors
<1>1. ASSUME NEW r \in Requests, HandleSetRules(r) \/ HandleConfig(r)
      PROVE  /\ UNCHANGED <<lists, file, refresh, adding>> /\ pc'["http"] = "enable"
             /\ \/ periodic' = periodic
                \/ r \in ConfigRequests /\ periodic' = r.periodic
  BY <1>0, <1>1 DEF HandleSetRules, HandleConfig, Begin, Goto, flagVars
<1>2. CASE AddUserRule \/ RemoveUserRules \/ BotStore
  <2>1. UNCHANGED <<lists, file, refresh, adding, periodic>> /\ pc'["http"] = pc["http"]
    BY <1>0, <1>2 DEF AddUserRule, RemoveUserRules, BotStore, BotRead, Begin, Goto,
                      confVars, flagVars
  <2> QED
    BY <2>1
<1>3. ASSUME NEW a \in Actors, EnableFilters(a) \/ SetFilters(a) \/ SendTask(a)
      PROVE  /\ UNCHANGED <<lists, file, refresh, adding, periodic>>
             /\ pc'["http"] \in {pc["http"], "lock", "send", "idle"}
  BY <1>0, <1>3 DEF EnableFilters, SetFilters, SendTask, Goto, confVars, flagVars
<1>4. CASE LoopCompile \/ LoopInstall \/ RemoteChange \/ UNCHANGED vars
  <2>1. UNCHANGED <<lists, file, refresh, adding, periodic, pc>>
    BY <1>4 DEF LoopCompile, LoopInstall, RemoteChange, confVars, flagVars, vars
  <2> QED
    BY <2>1
<1> QED
  BY <1>1, <1>2, <1>3, <1>4

\* Every step keeps the invariant.
LEMMA FileNext ==
    ASSUME SetsOnlyDisable \/ NoRefreshes
    PROVE  TypeOK /\ FileInv /\ [Next]_vars => FileInv'
<1> SUFFICES ASSUME TypeOK, FileInv, [Next]_vars PROVE FileInv'
  OBVIOUS
<1>0. pc \in [Actors -> Labels] /\ "http" \in Actors
  BY DEF TypeOK, HandlersOK, Actors
<1>1. CASE \/ \E r \in Requests : HandleSetRules(r) \/ HandleConfig(r)
           \/ AddUserRule \/ RemoveUserRules \/ BotStore
           \/ \E a \in Actors : EnableFilters(a) \/ SetFilters(a) \/ SendTask(a)
           \/ LoopCompile \/ LoopInstall \/ RemoteChange \/ UNCHANGED vars
  <2>1. NoRefreshes => ~periodic'
    BY <1>1, Idle DEF FileInv, RefreshInv, NoRefreshes
  <2> QED
    BY <1>1, <2>1, Idle, NothingMoves
<1>2. ASSUME NEW r \in Requests, HandleRefresh(r) PROVE FileInv'
  <2>1. r \in RefreshRequests /\ StartRefresh("http", r.where) /\ pc'["http"] = "refresh"
        /\ UNCHANGED <<lists, file, adding>>
    BY <1>0, <1>2 DEF HandleRefresh, Begin, Goto, confVars
  <2>2. ~NoRefreshes
    BY <2>1 DEF NoRefreshes
  <2> QED
    BY <2>1, <2>2, FilesStart
<1>3. CASE LoopRefresh
  <2>1. periodic /\ StartRefresh("loop", "block") /\ UNCHANGED <<lists, file, adding, pc>>
    BY <1>3 DEF LoopRefresh, confVars
  <2>2. ~NoRefreshes
    BY <2>1 DEF FileInv, RefreshInv
  <2> QED
    BY <2>1, <2>2, FilesStart
<1>4. CASE Refreshing
  BY <1>4, FilesListed, FilesFetched, FilesReplaced, FilesSynced, FilesFinished DEF Refreshing
<1> QED
  BY <1>1, <1>2, <1>3, <1>4, FilesAddRemove, FilesSet, FilesAdding DEF Next, HandleRequest

\* It holds at the start.
LEMMA FileInit == Init => FileInv
<1> SUFFICES ASSUME Init PROVE FileInv
  OBVIOUS
<1>1. /\ refresh = NoRefresh /\ periodic = Periodic /\ lists = InitLists /\ file = InitFiles
      /\ pc["http"] = "idle"
  BY DEF Init, Actors
<1>2. /\ refresh.owner = "none" /\ refresh.step = "idle" /\ refresh.todo = {}
      /\ refresh.done = {} /\ refresh.cur = None
  BY <1>1 DEF NoRefresh
<1>3. Copied = {} /\ InFlight = {}
  BY <1>2 DEF Copied, InFlight
<1>4. RefreshInv
  BY <1>1, <1>2, <1>3 DEF RefreshInv, NoRefreshes
<1>5. ChecksumOfFile
  BY <1>1, InitAssumption DEF ChecksumOfFile
<1> QED
  BY <1>1, <1>3, <1>4, <1>5 DEF FileInv, CopyInv, DrawnInv

\* The invariant of all that follows.
LEMMA FileInvariant ==
    ASSUME SetsOnlyDisable \/ NoRefreshes PROVE Spec => [](TypeOK /\ FileInv)
<1>1. TypeOK /\ FileInv /\ [Next]_vars => TypeOK' /\ FileInv'
  BY TypeNext, FileNext
<1> QED
  BY <1>1, TypeInit, FileInit, PTL DEF Spec

\* If lists are not enabled or redirected, or not refreshed, the checksum of a
\* list is that of its file, whatever is added, removed, disabled, downloaded or
\* fails meanwhile.
THEOREM ChecksumOfFileTheorem ==
    ASSUME SetsOnlyDisable \/ NoRefreshes PROVE Spec => []ChecksumOfFile
<1>1. FileInv => ChecksumOfFile
  BY DEF FileInv
<1> QED
  BY <1>1, FileInvariant, PTL

-----------------------------------------------------------------------------
(* The URL a file comes from.                                              *)

\* The file of a list, if there is one, was downloaded from its URL.
Sourced(i) == file[i] # None => file[i].from = lists[i].url

\* The lists whose file is used, or will be taken for theirs.
Loaded(i) == InConf(lists[i]) /\ (lists[i].enabled \/ lists[i].checksum # Blank)

RemoteInv == \A u \in Urls : remote[u] \in Served[u]

NewSourced == pc["http"] = "add" => file[adding.id].from = adding.url

\* FileFromURL does not say enough: a list that is enabled again keeps its file
\* if the download has the checksum it knows, a copy may replace the file of
\* its list, and a list that is added comes with a file.
SourceInv ==
    /\ RemoteInv /\ NewSourced
    /\ \A i \in Ids \ InFlight : Loaded(i) => Sourced(i)
    /\ \A c \in Copied : InConf(lists[c.id]) => Sourced(c.id)

\* What a handler may do to a list that no refresh is working on.
Named(i) == i \notin InFlight /\ (Loaded(i)' => Sourced(i)')

\* A step that is none of the refresh's and treats every list in this way.
LEMMA SourceStep ==
    ASSUME TypeOK, RefreshInv, SourceInv, refresh' = refresh,
           RemoteInv', NewSourced', \A i \in Ids : Calm(i) \/ Named(i)
    PROVE  SourceInv'
<1>1. Copied' = Copied /\ InFlight' = InFlight
  BY DEF Copied, InFlight
<1>2. ASSUME NEW i \in Ids \ InFlight, Loaded(i)' PROVE Sourced(i)'
  <2>1. CASE Calm(i)
    <3>1. /\ lists'[i].where = lists[i].where /\ lists'[i].url = lists[i].url
          /\ file'[i] = file[i] /\ Loaded(i)
      BY <1>2, <2>1 DEF Calm, Loaded, InConf, Slices
    <3> QED
      BY <3>1 DEF SourceInv, Sourced
  <2>2. CASE Named(i)
    BY <1>2, <2>2 DEF Named
  <2> QED
    BY <2>1, <2>2
<1>3. ASSUME NEW c \in Copied, InConf(lists'[c.id])
      PROVE  file'[c.id] # None => file'[c.id].from = lists'[c.id].url
  <2>1. c.id \in Ids /\ c.id \in InFlight
    BY CopiedType, InFlightCopied DEF Copies
  <2>2. Calm(c.id)
    BY <2>1 DEF Named
  <2>3. /\ lists'[c.id].where = lists[c.id].where /\ lists'[c.id].url = lists[c.id].url
        /\ file'[c.id] = file[c.id]
    BY <1>3, <2>2 DEF Calm, InConf, Slices
  <2> QED
    BY <1>3, <2>3 DEF SourceInv, Sourced, InConf
<1> QED
  BY <1>1, <1>2, <1>3 DEF SourceInv, Sourced

\* The list that is being added keeps its file.
LEMMA NewKept ==
    ASSUME NewSourced, adding' = adding, pc'["http"] = "add" => pc["http"] = "add",
           pc["http"] = "add" => file'[adding.id] = file[adding.id]
    PROVE  NewSourced'
  BY DEF NewSourced

\* Setting a list.
LEMMA SourceSet ==
    ASSUME TypeOK, FileInv, SourceInv, SetsOnlyDisable \/ (NoRefreshes /\ NoBlankPages),
           NEW r \in Requests, HandleSet(r)
    PROVE  SourceInv'
<1>0. /\ RefreshInv /\ r \in SetRequests /\ UNCHANGED <<refresh, remote>>
      /\ pc \in [Actors -> Labels] /\ "http" \in Actors
  BY DEF FileInv, HandleSet, TypeOK, HandlersOK, Actors
<1>1. NewSourced' /\ RemoteInv'
  <2>1. Begin("http", "enable") \/ Begin("http", "idle")
    BY DEF HandleSet, SetDisabled, SetUpdated
  <2>2. pc'["http"] # "add"
    BY <1>0, <2>1 DEF Begin, Goto
  <2> QED
    BY <1>0, <2>2 DEF NewSourced, SourceInv, RemoteInv
<1>2. PICK i \in Ids : SetOne(i, r)
  BY SetEffect
<1>3. Calm(i) \/ Named(i)
  <2>1. CASE SetsOnlyDisable
    <3>1. ~r.enabled /\ r.newUrl = r.url
      BY <1>0, <2>1 DEF SetsOnlyDisable
    <3> QED
      BY <1>2, <3>1 DEF Calm, SetOne
  <2>2. CASE NoRefreshes /\ NoBlankPages
    <3>1. InFlight = {}
      BY <1>0, <2>2, NoFlight
    <3>2. remote[r.newUrl] # Blank
      BY <1>0, <2>2 DEF NoBlankPages, SourceInv, RemoteInv, SetRequests
    <3>3. Loaded(i) => Sourced(i)
      BY <3>1 DEF SourceInv
    <3>4. ASSUME Loaded(i)' PROVE Sourced(i)'
      <4>1. CASE file'[i] = [body |-> remote[r.newUrl], from |-> r.newUrl]
                 /\ lists'[i].url = r.newUrl
        BY <4>1 DEF Sourced
      <4>2. CASE lists'[i].enabled = FALSE /\ lists'[i].checksum = Blank
        BY <3>4, <4>2 DEF Loaded
      <4>3. CASE file' = file /\ lists'[i].url = lists[i].url /\ Loaded(i)
        BY <3>3, <4>3 DEF Sourced
      <4>4. lists'[i].enabled \/ lists'[i].checksum # Blank
        BY <3>4 DEF Loaded
      <4> QED
        BY <1>2, <3>2, <4>1, <4>2, <4>3, <4>4 DEF SetOne, Loaded
    <3> QED
      BY <3>1, <3>4 DEF Named
  <2> QED
    BY <2>1, <2>2
<1>4. \A j \in Ids : Calm(j) \/ Named(j)
  BY <1>2, <1>3 DEF Calm, SetOne
<1> QED
  BY <1>0, <1>1, <1>4, SourceStep

\* Adding and removing one, with the file of a new list.
LEMMA SourceAddRemove ==
    ASSUME TypeOK, FileInv, SourceInv,
           \/ AddFetch \/ FilterAdd
           \/ \E r \in Requests : HandleAdd(r) \/ HandleRemove(r)
    PROVE  SourceInv'
<1>0. RefreshInv /\ DrawnInv
  BY DEF FileInv
<1>1. CASE \E r \in Requests : HandleAdd(r) \/ HandleRemove(r)
  <2>1. /\ UNCHANGED <<refresh, remote>> /\ pc'["http"] \in {"enable", "fetch"}
        /\ \A j \in Ids : Calm(j) \/ (j \notin InFlight /\ lists'[j].where = "drawn")
    BY <1>0, <1>1, AddRemoveEffect
  <2>2. \A j \in Ids : Calm(j) \/ Named(j)
    BY <2>1 DEF Named, Loaded, InConf, Slices
  <2>3. RemoteInv' /\ NewSourced'
    BY <2>1 DEF SourceInv, RemoteInv, NewSourced
  <2> QED
    BY <1>0, <2>1, <2>2, <2>3, SourceStep
<1>2. CASE AddFetch \/ FilterAdd
  <2>1. UNCHANGED <<refresh, remote>>
    BY <1>0, <1>2, AddingEffect
  <2>2. PICK k \in Ids :
          /\ k = adding.id /\ k \notin InFlight
          /\ \A j \in Ids \ {k} : lists'[j] = lists[j] /\ file'[j] = file[j]
          /\ \/ /\ pc'["http"] = "add" /\ adding' = adding
                /\ lists'[k].where = "drawn" /\ file'[k].from = adding.url
             \/ pc'["http"] = "idle" /\ lists'[k].where = "gone"
             \/ /\ pc["http"] = "add" /\ pc'["http"] = "enable"
                /\ file'[k] = file[k] /\ lists'[k].url = adding.url
    BY <1>0, <1>2, AddingEffect
  <2>3. RemoteInv' /\ NewSourced'
    BY <2>1, <2>2 DEF SourceInv, RemoteInv, NewSourced
  <2>4. Named(k)
    BY <2>2 DEF Named, Loaded, Sourced, InConf, Slices, SourceInv, NewSourced
  <2>5. \A j \in Ids : Calm(j) \/ Named(j)
    BY <2>2, <2>4 DEF Calm
  <2> QED
    BY <1>0, <2>1, <2>3, <2>5, SourceStep
<1> QED
  BY <1>1, <1>2

\* The lists that are due have their files, and a copy of a list has them too.
LEMMA SourceListed == ASSUME TypeOK, FileInv, SourceInv, ListsToUpdate PROVE SourceInv'
<1>0. /\ refresh \in Refreshes /\ UNCHANGED <<lists, file, adding, pc, remote>>
  BY DEF TypeOK, RefreshOK, Refreshes, ListsToUpdate, refreshFrame
<1>1. InFlight = {} /\ refresh.cur = None
  BY DEF FileInv, RefreshInv, InFlight, ListsToUpdate
<1>2. PICK S \in SUBSET {i \in Ids : lists[i].where = refresh.array /\ lists[i].enabled} :
        refresh' = [refresh EXCEPT
              !.step = "fetch", !.done = {}, !.allFailed = TRUE,
              !.todo = {[id |-> i, url |-> lists[i].url,
                         checksum |-> lists[i].checksum, updated |-> FALSE] : i \in S}]
  BY DEF ListsToUpdate
<1>3. /\ refresh'.done = {} /\ refresh'.cur = None
      /\ \A c \in refresh'.todo : c.id \in Ids /\ lists[c.id].enabled
  BY <1>0, <1>1, <1>2 DEF Refreshes
<1>4. \A c \in Copied' : c.id \in Ids /\ lists[c.id].enabled
  BY <1>3 DEF Copied
<1> QED
  BY <1>0, <1>1, <1>4 DEF SourceInv, RemoteInv, NewSourced, Loaded, Sourced

\* The end of a slice takes the checksums of the copies, whose lists have their
\* files.
LEMMA SourceSynced == ASSUME TypeOK, FileInv, SourceInv, SyncUpdatedFilters PROVE SourceInv'
<1>1. /\ UNCHANGED <<file, adding, pc>> /\ Copied = refresh.done
      /\ refresh'.todo = {} /\ refresh'.done = {} /\ refresh'.cur = None
      /\ \A i \in Ids :
           /\ lists'[i].where = lists[i].where /\ lists'[i].url = lists[i].url
           /\ lists'[i] = lists[i] \/ \E c \in Merged(i) : TRUE
  BY SyncEffect DEF FileInv
<1>2. Copied' = {} /\ InFlight' = {} /\ remote' = remote
  BY <1>1 DEF Copied, InFlight, SyncUpdatedFilters, refreshFrame
<1>3. ASSUME NEW i \in Ids, Loaded(i)' PROVE Sourced(i)'
  <2>1. InConf(lists[i])
    BY <1>1, <1>3 DEF Loaded, InConf
  <2>2. CASE i \in InFlight
    BY <1>1, <2>1, <2>2, InFlightCopied DEF SourceInv, Sourced
  <2>3. CASE i \notin InFlight
    <3>1. Merged(i) = {}
      BY <1>1, <2>3, InFlightCopied DEF Merged
    <3> QED
      BY <1>1, <1>3, <2>3, <3>1 DEF SourceInv, Sourced, Loaded
  <2> QED
    BY <2>2, <2>3
<1> QED
  BY <1>1, <1>2, <1>3 DEF SourceInv, RemoteInv, NewSourced

\* A download leaves the files alone, a replacement comes from the copy's URL.
LEMMA SourceReplaced ==
    ASSUME TypeOK, FileInv, SourceInv, RefreshFetch \/ FinalizeUpdate
    PROVE  SourceInv'
<1>0. UNCHANGED <<lists, adding, pc, remote>>
  BY DEF RefreshFetch, FinalizeUpdate, refreshFrame
<1>1. CASE RefreshFetch
  <2>1. Copied' = Copied /\ InFlight' = InFlight /\ file' = file
    BY <1>1, FilesFetched DEF RefreshFetch
  <2> QED
    BY <1>0, <2>1 DEF SourceInv, RemoteInv, NewSourced, Loaded, Sourced
<1>2. CASE FinalizeUpdate
  <2>1. FileInv' /\ InFlight' = InFlight
    BY <1>2, FilesReplaced
  <2>2. PICK k \in Copied : /\ k.id \in Ids /\ \A i \in Ids \ {k.id} : file'[i] = file[i]
                            /\ file'[k.id] = file[k.id] \/ file'[k.id].from = k.url
    BY <1>2, FilesReplaced
  <2>3. k.id \in InFlight
    BY <2>2, InFlightCopied
  <2>4. \A i \in Ids \ InFlight : Loaded(i)' => Sourced(i)'
    BY <1>0, <2>2, <2>3 DEF SourceInv, Loaded, Sourced
  <2>5. ASSUME NEW i \in InFlight, i \in Ids, InConf(lists[i])
        PROVE  file'[i] # None => file'[i].from = lists[i].url
    <3>1. PICK c \in Copied : c.id = i
      BY <2>5, InFlightCopied
    <3>2. Sourced(i)
      BY <2>5, <3>1 DEF SourceInv
    <3>3. CASE i = k.id
      <4>1. k.url = lists[i].url
        BY <2>2, <2>5, <3>3 DEF FileInv, CopyInv
      <4> QED
        BY <2>2, <3>2, <3>3, <4>1 DEF Sourced
    <3>4. CASE i # k.id
      BY <2>2, <2>5, <3>2, <3>4 DEF Sourced
    <3> QED
      BY <3>3, <3>4
  <2>6. \A c \in Copied' : InConf(lists[c.id]) => Sourced(c.id)'
    <3>1. \A c \in Copied' : c.id \in InFlight'
      BY DEF Copied, InFlight
    <3>2. \A c \in Copied' : c.id \in Ids
      <4>1. TypeOK'
        BY <1>2, TypeNext DEF Next, Refreshing
      <4> QED
        BY <4>1, SentinelAssumption DEF TypeOK, RefreshOK, Copied, Copies
    <3> QED
      BY <1>0, <2>1, <2>5, <3>1, <3>2 DEF Sourced
  <2>7. NewSourced'
    <3>1. pc["http"] = "add" => adding.id \in Ids /\ lists[adding.id].where = "drawn"
      BY DEF TypeOK, AddingOK, FileInv, DrawnInv
    <3>2. pc["http"] = "add" => adding.id \notin InFlight
      BY <3>1, NotInFlight DEF FileInv
    <3> QED
      BY <1>0, <2>2, <2>3, <3>1, <3>2, NewKept DEF SourceInv
  <2> QED
    BY <1>0, <2>1, <2>4, <2>6, <2>7 DEF SourceInv, RemoteInv
<1> QED
  BY <1>1, <1>2

\* A refresh starts and ends with nothing in flight.
LEMMA SourceEnds ==
    ASSUME TypeOK, FileInv, SourceInv,
           \/ FinishRefresh \/ LoopRefresh
           \/ \E r \in Requests : HandleRefresh(r)
    PROVE  SourceInv'
<1>1. InFlight = {}
  BY DEF FileInv, RefreshInv, InFlight, FinishRefresh, LoopRefresh, HandleRefresh, StartRefresh
<1>2. refresh'.todo = {} /\ refresh'.done = {} /\ refresh'.cur = None
  <2>1. \/ refresh' = NoRefresh
        \/ \E o, a : StartRefresh(o, a)
    BY DEF FinishRefresh, LoopRefresh, HandleRefresh
  <2>2. NoRefresh.todo = {} /\ NoRefresh.done = {} /\ NoRefresh.cur = None
    BY DEF NoRefresh
  <2>3. ASSUME NEW o, NEW a, StartRefresh(o, a)
        PROVE  refresh'.todo = {} /\ refresh'.done = {} /\ refresh'.cur = None
    BY <2>3 DEF StartRefresh, NoRefresh
  <2> QED
    BY <2>1, <2>2, <2>3
<1>3. Copied' = {}
  BY <1>2 DEF Copied
<1>4. UNCHANGED <<lists, file, adding, remote>>
  BY DEF FinishRefresh, LoopRefresh, HandleRefresh, refreshFrame, confVars
<1>5. pc'["http"] = "add" => pc["http"] = "add"
  <2>1. pc \in [Actors -> Labels] /\ "http" \in Actors
    BY DEF TypeOK, HandlersOK, Actors
  <2> QED
    BY <2>1 DEF FinishRefresh, LoopRefresh, HandleRefresh, Begin, Goto
<1>6. NewSourced'
  BY <1>4, <1>5, NewKept DEF SourceInv
<1> QED
  BY <1>1, <1>3, <1>4, <1>6 DEF SourceInv, RemoteInv, Loaded, Sourced

\* What a URL serves stays within what it may serve.
LEMMA RemoteNext == TypeOK /\ RemoteInv /\ [Next]_vars => RemoteInv'
<1> SUFFICES ASSUME TypeOK, RemoteInv, [Next]_vars PROVE RemoteInv'
  OBVIOUS
<1>1. CASE RemoteChange
  BY <1>1 DEF RemoteChange, RemoteInv, TypeOK, FilesOK
<1>2. CASE UNCHANGED remote
  BY <1>2 DEF RemoteInv
<1>3. HandleRequest => UNCHANGED remote
  BY DEF HandleRequest, HandleAdd, HandleRemove, HandleSet, HandleSetRules, HandleConfig,
         HandleRefresh
<1>4. AddFetch \/ FilterAdd \/ AddUserRule \/ RemoveUserRules \/ BotStore => UNCHANGED remote
  BY DEF AddFetch, FilterAdd, AddUserRule, RemoveUserRules, BotRead, BotStore
<1>5. (\E a \in Actors : EnableFilters(a) \/ SetFilters(a) \/ SendTask(a)) => UNCHANGED remote
  BY DEF EnableFilters, SetFilters, SendTask
<1>6. LoopCompile \/ LoopInstall \/ LoopRefresh => UNCHANGED remote
  BY DEF LoopCompile, LoopInstall, LoopRefresh
<1>7. Refreshing => UNCHANGED remote
  BY DEF Refreshing, ListsToUpdate, RefreshFetch, FinalizeUpdate, SyncUpdatedFilters,
         FinishRefresh, refreshFrame
<1>8. UNCHANGED vars => UNCHANGED remote
  BY DEF vars
<1> QED
  BY <1>1, <1>2, <1>3, <1>4, <1>5, <1>6, <1>7, <1>8 DEF Next

\* Every step keeps the invariant.
LEMMA SourceNext ==
    ASSUME SetsOnlyDisable \/ (NoRefreshes /\ NoBlankPages)
    PROVE  TypeOK /\ FileInv /\ SourceInv /\ [Next]_vars => SourceInv'
<1> SUFFICES ASSUME TypeOK, FileInv, SourceInv, [Next]_vars PROVE SourceInv'
  OBVIOUS
<1>0. RefreshInv
  BY DEF FileInv
<1>1. CASE \/ \E r \in Requests : HandleSetRules(r) \/ HandleConfig(r)
           \/ AddUserRule \/ RemoveUserRules \/ BotStore
           \/ \E a \in Actors : EnableFilters(a) \/ SetFilters(a) \/ SendTask(a)
           \/ LoopCompile \/ LoopInstall \/ RemoteChange \/ UNCHANGED vars
  <2>1. UNCHANGED <<lists, file, refresh, adding>>
        /\ (pc'["http"] = "add" => pc["http"] = "add")
    BY <1>1, Idle
  <2>2. \A i \in Ids : Calm(i)
    BY <2>1 DEF Calm
  <2>3. RemoteInv'
    BY RemoteNext DEF SourceInv
  <2>4. NewSourced'
    BY <2>1, NewKept DEF SourceInv
  <2> QED
    BY <1>0, <2>1, <2>2, <2>3, <2>4, SourceStep
<1> QED
  BY <1>1, SourceSet, SourceAddRemove, SourceListed, SourceReplaced, SourceSynced, SourceEnds
  DEF Next, HandleRequest, Refreshing

\* It holds at the start.
LEMMA SourceInit == FilesAtStart /\ Init => SourceInv
<1> SUFFICES ASSUME FilesAtStart, Init PROVE SourceInv
  OBVIOUS
<1>1. /\ refresh = NoRefresh /\ lists = InitLists /\ file = InitFiles
      /\ pc["http"] = "idle" /\ RemoteInv
  BY DEF Init, Actors, RemoteInv
<1>2. Copied = {}
  BY <1>1 DEF NoRefresh, Copied
<1>3. \A i \in Ids : Loaded(i) => Sourced(i)
  BY <1>1, InitAssumption DEF FilesAtStart, Loaded, Sourced
<1> QED
  BY <1>1, <1>2, <1>3 DEF SourceInv, NewSourced

\* If lists are not enabled or redirected, or neither refreshed nor without
\* rules, the rules of an enabled list come from its URL: an edit downloads, or
\* is undone, and what a refresh puts into a file belongs to the list it is of.
THEOREM FileFromURLTheorem ==
    ASSUME SetsOnlyDisable \/ (NoRefreshes /\ NoBlankPages), FilesAtStart
    PROVE  Spec => []FileFromURL
<1>1. TypeOK /\ FileInv /\ SourceInv /\ [Next]_vars => SourceInv'
  BY SourceNext
<1>2. Spec => [](TypeOK /\ FileInv)
  BY FileInvariant
<1>3. Init => SourceInv
  BY SourceInit
<1>4. SourceInv => FileFromURL
  BY DEF SourceInv, FileFromURL, Loaded, Sourced
<1> QED
  BY <1>1, <1>2, <1>3, <1>4, PTL DEF Spec

-----------------------------------------------------------------------------
(* The engine.                                                             *)

\* Somebody will hand over a task.
Pending == \E a \in Actors : pc[a] \in {"enable", "lock", "send"}

\* If nobody will, the task on its way, the compiled engine or else the engine
\* in use is that of the configuration.
Settled ==
    /\ enabled = filteringEnabled
    /\ chan # None => chan = CurrentTask
    /\ chan = None /\ loop.at = "install" => loop.engine = InitFiltering(CurrentTask)
    /\ chan = None /\ loop.at = "select" => engine = InitFiltering(CurrentTask)

\* A task is not overtaken by a change of the configuration: gathering it and
\* handing it over are done with filtersMu held.
LockInv ==
    /\ pc["bot"] \in {"append", "drop"} => pc["http"] \notin {"lock", "send"}
    /\ BotAdds = {} /\ BotRemoves = {} => pc["bot"] = "idle"
    /\ \A a \in Actors : pc[a] \in {"lock", "send"} => tasks[a] = CurrentTask

\* A list that is not enabled has nothing loaded, so enabling it downloads.
DisabledInv == \A i \in Ids : InConf(lists[i]) /\ ~lists[i].enabled => lists[i].checksum = Blank

EngineInv ==
    /\ loop.at # "refresh" /\ RemoteInv
    /\ LockInv /\ DisabledInv /\ (~Pending => Settled)

\* An engine depends on the rules, the enabled lists and their files.
LEMMA SameEngine ==
    ASSUME CurrentTask' = CurrentTask, \A i \in CurrentTask.ids : file'[i] = file[i]
    PROVE  InitFiltering(CurrentTask)' = InitFiltering(CurrentTask)
  BY DEF InitFiltering

\* Which lists are enabled.
LEMMA SameTask ==
    ASSUME \A i \in Ids : InConf(lists'[i]) /\ lists'[i].enabled <=>
                            InConf(lists[i]) /\ lists[i].enabled,
           userRules' = userRules
    PROVE  CurrentTask' = CurrentTask
<1>1. {i \in Ids : InConf(lists'[i]) /\ lists'[i].enabled} =
        {i \in Ids : InConf(lists[i]) /\ lists[i].enabled}
  OBVIOUS
<1> QED
  BY <1>1 DEF CurrentTask

\* A handler's step after which it will enable the filters: nobody may be
\* handing over a task meanwhile.
LEMMA EngineEdited ==
    ASSUME EngineInv, RemoteInv', DisabledInv', pc \in [Actors -> Labels],
           NEW a \in Actors, pc' = [pc EXCEPT ![a] = "enable"],
           \A b \in Actors \ {a} : pc[b] \notin {"lock", "send"},
           a = "bot" => ~(BotAdds = {} /\ BotRemoves = {}),
           UNCHANGED <<loop, tasks>>
    PROVE  EngineInv'
<1>1. Pending' /\ pc'[a] = "enable"
  BY DEF Pending
<1>2. LockInv'
  BY DEF EngineInv, LockInv, Actors
<1> QED
  BY <1>1, <1>2 DEF EngineInv

\* A step of a handler that changes neither the task nor the engine.
LEMMA EngineSame ==
    ASSUME EngineInv, RemoteInv', DisabledInv',
           pc \in [Actors -> Labels], NEW a \in Actors, NEW label,
           label \in {"idle", "fetch", "add", "append", "drop"},
           pc' = [pc EXCEPT ![a] = label], pc[a] \notin {"enable", "lock", "send"},
           label \in {"append", "drop"} => pc["http"] \notin {"lock", "send"},
           a = "bot" => ~(BotAdds = {} /\ BotRemoves = {}),
           CurrentTask' = CurrentTask, \A i \in CurrentTask.ids : file'[i] = file[i],
           a = "http" => label \notin {"append", "drop"},
           UNCHANGED <<loop, tasks, chan, enabled, filteringEnabled, engine>>
    PROVE  EngineInv'
<1>1. InitFiltering(CurrentTask)' = InitFiltering(CurrentTask)
  BY SameEngine
<1>2. LockInv'
  BY DEF EngineInv, LockInv, Actors
<1>3. Pending' <=> Pending
  BY DEF Pending
<1>4. ~Pending' => Settled'
  BY <1>1, <1>3 DEF EngineInv, Settled
<1> QED
  BY <1>2, <1>4 DEF EngineInv

\* The requests of the administrator.
LEMMA EngineRequest ==
    ASSUME NoRefreshes, NoBlankPages, OneSourceOfRules,
           TypeOK, EngineInv, RemoteInv', HandleRequest
    PROVE  EngineInv'
<1>0. /\ pc \in [Actors -> Labels] /\ Actors = {"http", "bot"}
      /\ lists \in [Ids -> Lists] /\ file \in [Ids -> Files \cup {None}]
  BY DEF TypeOK, ConfOK, FilesOK, HandlersOK, Actors
<1>1. PICK r \in Requests : \/ HandleAdd(r) \/ HandleRemove(r) \/ HandleSet(r)
                            \/ HandleSetRules(r) \/ HandleConfig(r)
  <2>1. \A r \in Requests : ~HandleRefresh(r)
    BY DEF NoRefreshes, HandleRefresh
  <2> QED
    BY <2>1 DEF HandleRequest
<1>2. /\ CanWrite => \A b \in Actors \ {"http"} : pc[b] \notin {"lock", "send"}
      /\ \A label : Begin("http", label) =>
           pc' = [pc EXCEPT !["http"] = label] /\ pc["http"] = "idle"
      /\ UNCHANGED <<loop, tasks, chan, enabled, engine>>
  BY <1>1 DEF CanWrite, Begin, Goto, HandleAdd, HandleRemove, HandleSet, HandleSetRules,
              HandleConfig, taskVars
<1>3. CASE HandleAdd(r)
  <2>1. PICK i \in Ids : lists[i].where = "unused" /\ lists' = [lists EXCEPT ![i].where = "drawn"]
    BY <1>3 DEF HandleAdd
  <2>2. /\ lists'[i].where = "drawn" /\ \A j \in Ids \ {i} : lists'[j] = lists[j]
    <3>1. lists[i] \in Lists /\ lists'[i] = [lists[i] EXCEPT !.where = "drawn"]
      BY <1>0, <2>1
    <3>2. lists'[i].where = "drawn"
      BY <3>1 DEF Lists
    <3> QED
      BY <1>0, <2>1, <3>2
  <2>3. ~InConf(lists[i]) /\ ~InConf(lists'[i])
    BY <2>1, <2>2 DEF InConf, Slices
  <2>4. CurrentTask' = CurrentTask
    BY <1>3, <2>2, <2>3, SameTask DEF HandleAdd
  <2>5. DisabledInv'
    BY <2>2, <2>3 DEF EngineInv, DisabledInv
  <2>6. UNCHANGED <<file, filteringEnabled>> /\ Begin("http", "fetch")
    BY <1>3 DEF HandleAdd, flagVars
  <2> QED
    BY <1>0, <1>2, <2>4, <2>5, <2>6, EngineSame
<1>4. CASE HandleRemove(r)
  <2>1. PICK found :
          lists' = [i \in Ids |-> IF i \in found THEN [lists[i] EXCEPT !.where = "gone"]
                                                 ELSE lists[i]]
    BY <1>4 DEF HandleRemove
  <2>2. ASSUME NEW i \in Ids PROVE lists'[i] = lists[i] \/ lists'[i].where = "gone"
    <3>1. lists[i] \in Lists
      BY <1>0
    <3>2. lists'[i] = lists[i] \/ lists'[i] = [lists[i] EXCEPT !.where = "gone"]
      BY <2>1
    <3> QED
      BY <3>1, <3>2 DEF Lists
  <2>3. DisabledInv'
    BY <2>2 DEF EngineInv, DisabledInv, InConf, Slices
  <2>4. CanWrite /\ Begin("http", "enable")
    BY <1>4 DEF HandleRemove
  <2> QED
    BY <1>0, <1>2, <2>3, <2>4, EngineEdited
<1>5. CASE HandleSet(r)
  <2>1. PICK i \in Ids : SetOne(i, r)
    BY <1>5, SetEffect
  <2>2. /\ CanWrite /\ r \in SetRequests /\ UNCHANGED <<userRules, filteringEnabled>>
        /\ Begin("http", "enable") \/ Begin("http", "idle")
    BY <1>5 DEF HandleSet, SetDisabled, SetUpdated, flagVars
  <2>3. remote[r.newUrl] # Blank
    BY <2>2 DEF NoBlankPages, EngineInv, RemoteInv, SetRequests
  <2>4. InConf(lists[i]) /\ (~lists[i].enabled => lists[i].checksum = Blank)
    BY <2>1 DEF EngineInv, DisabledInv, SetOne
  <2>5. ~(lists[i].checksum = remote[r.newUrl] /\ ~lists[i].enabled)
    BY <2>3, <2>4
  <2>6. \A j \in Ids \ {i} : lists'[j] = lists[j]
    BY <2>1 DEF SetOne
  <2>7. ~lists'[i].enabled => lists'[i].checksum = Blank
    BY <2>1, <2>3, <2>4 DEF SetOne
  <2>8. DisabledInv'
    BY <2>6, <2>7 DEF EngineInv, DisabledInv
  <2>9. CASE Begin("http", "enable")
    BY <1>0, <1>2, <2>2, <2>8, <2>9, EngineEdited
  <2>10. CASE Begin("http", "idle")
    <3>1. pc'["http"] = "idle"
      BY <1>0, <1>2, <2>10
    <3>2. /\ file' = file /\ lists'[i].where = lists[i].where
          /\ lists'[i].enabled <=> lists[i].enabled
      BY <2>1, <2>3, <2>5, <3>1 DEF SetOne
    <3>3. \A j \in Ids : InConf(lists'[j]) /\ lists'[j].enabled <=>
                           InConf(lists[j]) /\ lists[j].enabled
      BY <2>6, <3>2 DEF InConf
    <3>4. CurrentTask' = CurrentTask
      BY <2>2, <3>3, SameTask
    <3> QED
      BY <1>0, <1>2, <2>2, <2>8, <2>10, <3>2, <3>4, EngineSame
  <2> QED
    BY <2>2, <2>9, <2>10
<1>6. CASE HandleSetRules(r)
  <2>1. pc["bot"] = "idle"
    BY <1>6 DEF OneSourceOfRules, HandleSetRules, EngineInv, LockInv
  <2>2. Begin("http", "enable") /\ DisabledInv'
    BY <1>6 DEF HandleSetRules, EngineInv, DisabledInv
  <2> QED
    BY <1>0, <1>2, <2>1, <2>2, EngineEdited
<1>7. CASE HandleConfig(r)
  <2>1. CanWrite /\ Begin("http", "enable") /\ DisabledInv'
    BY <1>7 DEF HandleConfig, EngineInv, DisabledInv
  <2> QED
    BY <1>0, <1>2, <2>1, EngineEdited
<1> QED
  BY <1>1, <1>3, <1>4, <1>5, <1>6, <1>7

\* A list is being added.
LEMMA EngineAdding ==
    ASSUME TypeOK, FileInv, EngineInv, RemoteInv', AddFetch \/ FilterAdd
    PROVE  EngineInv'
<1>0. /\ pc \in [Actors -> Labels] /\ Actors = {"http", "bot"}
      /\ UNCHANGED <<userRules, filteringEnabled, loop, tasks, chan, enabled, engine>>
  BY DEF TypeOK, HandlersOK, Actors, AddFetch, FilterAdd, flagVars, taskVars
<1>1. PICK k \in Ids :
        /\ k = adding.id
        /\ \A j \in Ids \ {k} : lists'[j] = lists[j] /\ file'[j] = file[j]
        /\ pc["http"] \in {"fetch", "add"} /\ ~InConf(lists[k])
        /\ \/ pc'["http"] = "add" /\ lists'[k].where = "drawn"
           \/ pc'["http"] = "idle" /\ lists'[k].where = "gone"
           \/ pc["http"] = "add" /\ pc'["http"] = "enable"
  BY AddingEffect DEF FileInv
<1>2. \E label : pc' = [pc EXCEPT !["http"] = label]
  BY DEF AddFetch, FilterAdd, Goto
<1>3. CASE pc'["http"] = "enable"
  <2>1. FilterAdd /\ CanWrite
    BY <1>0, <1>3 DEF AddFetch, FilterAdd, Goto
  <2>2. lists'[k].enabled \/ ~InConf(lists'[k])
    <3>1. lists \in [Ids -> Lists]
      BY DEF TypeOK, ConfOK
    <3>2. CASE lists' = [lists EXCEPT ![k] = [where |-> adding.where, url |-> adding.url,
                                              enabled |-> TRUE, checksum |-> file[k].body]]
      BY <3>1, <3>2
    <3>3. CASE Goto("http", "idle")
      BY <1>0, <1>3, <3>3 DEF Goto
    <3> QED
      BY <1>1, <2>1, <3>2, <3>3 DEF FilterAdd
  <2>3. DisabledInv'
    BY <1>1, <2>2 DEF EngineInv, DisabledInv
  <2>4. pc' = [pc EXCEPT !["http"] = "enable"]
    BY <1>0, <1>2, <1>3
  <2> QED
    BY <1>0, <2>1, <2>3, <2>4, EngineEdited DEF CanWrite
<1>4. CASE pc'["http"] # "enable"
  <2>1. ~InConf(lists'[k]) /\ pc'["http"] \in {"add", "idle"}
    BY <1>1, <1>4 DEF InConf, Slices
  <2>2. CurrentTask' = CurrentTask
    BY <1>0, <1>1, <2>1, SameTask
  <2>3. \A i \in CurrentTask.ids : file'[i] = file[i]
    BY <1>1 DEF CurrentTask
  <2>4. DisabledInv'
    BY <1>1, <2>1 DEF EngineInv, DisabledInv
  <2>5. PICK label : pc' = [pc EXCEPT !["http"] = label]
    BY <1>2
  <2>6. label \in {"add", "idle"}
    BY <1>0, <2>1, <2>5
  <2> QED
    BY <1>0, <1>1, <2>2, <2>3, <2>4, <2>5, <2>6, EngineSame
<1> QED
  BY <1>3, <1>4

\* The bot's requests: it stores its rules when nobody is handing over a task.
LEMMA EngineBot ==
    ASSUME TypeOK, EngineInv, RemoteInv', AddUserRule \/ RemoveUserRules \/ BotStore
    PROVE  EngineInv'
<1>0. /\ pc \in [Actors -> Labels] /\ Actors = {"http", "bot"}
      /\ UNCHANGED <<lists, filteringEnabled, loop, tasks, chan, enabled, engine, file>>
  BY DEF TypeOK, HandlersOK, Actors, AddUserRule, RemoveUserRules, BotStore, BotRead,
         confVars, flagVars, taskVars
<1>1. DisabledInv'
  BY <1>0 DEF EngineInv, DisabledInv
<1>2. CASE BotStore
  <2>1. pc["bot"] \in {"append", "drop"} /\ pc' = [pc EXCEPT !["bot"] = "enable"]
    BY <1>2 DEF BotStore, Goto
  <2>2. pc["http"] \notin {"lock", "send"} /\ ~(BotAdds = {} /\ BotRemoves = {})
    BY <2>1 DEF EngineInv, LockInv
  <2> QED
    BY <1>0, <1>1, <2>1, <2>2, EngineEdited
<1>3. CASE AddUserRule \/ RemoveUserRules
  <2>1. /\ userRules' = userRules /\ CanWrite /\ pc["bot"] = "idle"
        /\ ~(BotAdds = {} /\ BotRemoves = {})
        /\ \E label \in {"append", "drop", "enable"} : pc' = [pc EXCEPT !["bot"] = label]
    BY <1>3 DEF AddUserRule, RemoveUserRules, BotRead, Begin, Goto, confVars
  <2>2. pc["http"] \notin {"lock", "send"}
    BY <1>0, <2>1 DEF CanWrite
  <2>3. CurrentTask' = CurrentTask
    BY <1>0, <2>1, SameTask
  <2>4. PICK label \in {"append", "drop", "enable"} : pc' = [pc EXCEPT !["bot"] = label]
    BY <2>1
  <2>5. CASE label = "enable"
    BY <1>0, <1>1, <2>1, <2>2, <2>4, <2>5, EngineEdited
  <2>6. CASE label \in {"append", "drop"}
    BY <1>0, <1>1, <2>1, <2>2, <2>3, <2>4, <2>6, EngineSame
  <2> QED
    BY <2>5, <2>6
<1> QED
  BY <1>2, <1>3

\* A task is gathered, and handed over unchanged.
LEMMA EngineTasks ==
    ASSUME TypeOK, EngineInv, RemoteInv',
           NEW a \in Actors, EnableFilters(a) \/ SetFilters(a) \/ SendTask(a)
    PROVE  EngineInv'
<1>0. /\ pc \in [Actors -> Labels] /\ Actors = {"http", "bot"}
      /\ tasks \in [Actors -> Tasks \cup {None}]
      /\ UNCHANGED <<lists, userRules, filteringEnabled, loop, engine, file>>
      /\ a = "bot" => ~(BotAdds = {} /\ BotRemoves = {})
  BY DEF TypeOK, TasksOK, HandlersOK, Actors, EnableFilters, SetFilters, SendTask,
         confVars, flagVars, EngineInv, LockInv
<1>1. DisabledInv' /\ CurrentTask' = CurrentTask
  BY <1>0, SameTask DEF EngineInv, DisabledInv
<1>2. InitFiltering(CurrentTask)' = InitFiltering(CurrentTask)
  BY <1>0, <1>1, SameEngine
<1>3. CASE EnableFilters(a)
  <2>1. /\ pc' = [pc EXCEPT ![a] = "lock"] /\ tasks' = [tasks EXCEPT ![a] = CurrentTask]
        /\ pc["bot"] \notin {"append", "drop"}
    BY <1>3 DEF EnableFilters, Goto, CanRead
  <2>2. LockInv'
    BY <1>0, <1>1, <2>1 DEF EngineInv, LockInv
  <2>3. Pending'
    BY <1>0, <2>1 DEF Pending
  <2> QED
    BY <1>0, <1>1, <2>2, <2>3 DEF EngineInv
<1>4. CASE SetFilters(a)
  <2>1. pc' = [pc EXCEPT ![a] = "send"] /\ tasks' = tasks /\ pc[a] = "lock"
    BY <1>4 DEF SetFilters, Goto
  <2>2. LockInv'
    BY <1>0, <1>1, <2>1 DEF EngineInv, LockInv
  <2>3. Pending'
    BY <1>0, <2>1 DEF Pending
  <2> QED
    BY <1>0, <1>1, <2>2, <2>3 DEF EngineInv
<1>5. CASE SendTask(a)
  <2>1. /\ pc' = [pc EXCEPT ![a] = "idle"] /\ tasks' = [tasks EXCEPT ![a] = None]
        /\ pc[a] = "send" /\ chan' = tasks[a] /\ enabled' = filteringEnabled
    BY <1>5 DEF SendTask, Goto
  <2>2. LockInv'
    BY <1>0, <1>1, <2>1 DEF EngineInv, LockInv
  <2>3. tasks[a] = CurrentTask /\ tasks[a] # None
    BY <2>1, SentinelAssumption DEF EngineInv, LockInv, TypeOK, TasksOK
  <2>4. Settled'
    BY <1>0, <1>1, <2>1, <2>3 DEF Settled
  <2> QED
    BY <1>0, <1>1, <2>2, <2>4 DEF EngineInv
<1> QED
  BY <1>3, <1>4, <1>5

\* updatesLoop compiles the task it receives and installs the engine.
LEMMA EngineLoop ==
    ASSUME TypeOK, EngineInv, RemoteInv',
           LoopCompile \/ LoopInstall \/ RemoteChange \/ UNCHANGED vars
    PROVE  EngineInv'
<1>0. UNCHANGED <<lists, userRules, filteringEnabled, file, pc, tasks, enabled>>
  BY DEF LoopCompile, LoopInstall, RemoteChange, vars, confVars, flagVars, taskVars
<1>1. DisabledInv' /\ CurrentTask' = CurrentTask
  BY <1>0, SameTask DEF EngineInv, DisabledInv
<1>2. InitFiltering(CurrentTask)' = InitFiltering(CurrentTask)
  BY <1>0, <1>1, SameEngine
<1>3. LockInv' /\ (Pending' <=> Pending)
  BY <1>0, <1>1 DEF EngineInv, LockInv, Pending
<1>4. CASE LoopCompile
  <2>1. /\ chan # None /\ chan' = None /\ loop' = [at |-> "install", engine |-> InitFiltering(chan)]
    BY <1>4 DEF LoopCompile
  <2>2. loop'.at = "install" /\ loop'.engine = InitFiltering(chan)
    BY <2>1
  <2> QED
    BY <1>0, <1>1, <1>2, <1>3, <2>1, <2>2 DEF EngineInv, Settled
<1>5. CASE LoopInstall
  <2>1. /\ loop.at = "install" /\ engine' = loop.engine /\ chan' = chan
        /\ loop' = [at |-> "select", engine |-> None]
    BY <1>5 DEF LoopInstall
  <2>2. loop'.at = "select"
    BY <2>1
  <2> QED
    BY <1>0, <1>1, <1>2, <1>3, <2>1, <2>2 DEF EngineInv, Settled
<1>6. CASE RemoteChange \/ UNCHANGED vars
  <2>1. UNCHANGED <<chan, loop, engine>>
    BY <1>6 DEF RemoteChange, vars, taskVars
  <2> QED
    BY <1>0, <1>1, <1>2, <1>3, <2>1 DEF EngineInv, Settled
<1> QED
  BY <1>4, <1>5, <1>6

\* Every step keeps the invariant.
LEMMA EngineNext ==
    ASSUME NoRefreshes, NoBlankPages, OneSourceOfRules
    PROVE  TypeOK /\ FileInv /\ EngineInv /\ [Next]_vars => EngineInv'
<1> SUFFICES ASSUME TypeOK, FileInv, EngineInv, [Next]_vars PROVE EngineInv'
  OBVIOUS
<1>1. RemoteInv'
  BY RemoteNext DEF EngineInv
<1>2. ~Refreshing /\ ~LoopRefresh
  BY Runs DEF FileInv, RefreshInv, LoopRefresh
<1> QED
  BY <1>1, <1>2, EngineRequest, EngineAdding, EngineBot, EngineTasks, EngineLoop DEF Next

\* It holds at the start.
LEMMA EngineInit == Init => EngineInv
<1> SUFFICES ASSUME Init PROVE EngineInv
  OBVIOUS
<1>1. /\ lists = InitLists /\ chan = None /\ pc = [a \in Actors |-> "idle"] /\ RemoteInv
      /\ loop.at = "select" /\ enabled = filteringEnabled
      /\ engine = InitFiltering(CurrentTask)
  BY DEF Init, RemoteInv
<1>2. LockInv /\ ~Pending
  BY <1>1 DEF LockInv, Pending, Actors
<1>3. DisabledInv
  BY <1>1, InitAssumption DEF DisabledInv
<1> QED
  BY <1>1, <1>2, <1>3 DEF EngineInv, Settled

\* If lists are not refreshed, none is without rules and rules are set by one
\* side only, then the engine that answers queries is that of the
\* configuration whenever everybody is done: no request overtakes another on
\* its way through filtersInitializerChan and updatesLoop.
THEOREM QuietMeansConvergedTheorem ==
    ASSUME NoRefreshes, NoBlankPages, OneSourceOfRules
    PROVE  Spec => []QuietMeansConverged
<1>1. TypeOK /\ FileInv /\ EngineInv /\ [Next]_vars => EngineInv'
  BY EngineNext
<1>2. Spec => [](TypeOK /\ FileInv)
  BY FileInvariant
<1>3. EngineInv => QuietMeansConverged
  BY DEF EngineInv, Settled, Pending, QuietMeansConverged, Quiet, Converged
<1> QED
  BY <1>1, <1>2, <1>3, EngineInit, PTL DEF Spec
=============================================================================
