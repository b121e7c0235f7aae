----------------------------- MODULE ReducersV1 -----------------------------
(***************************************************************************)
(* The reducers of client, client/src/reducers: for every thunk, the flags *)
(* its request, success and failure actions raise and lower, and what the  *)
(* success leaves in the store.                                            *)
(***************************************************************************)
EXTENDS WebRows, TLC

(* One flag, raised by the request and lowered by both outcomes. *)
Spin(flag) ==
    [set |-> {flag}, done |-> {flag}, fail |-> {flag}, keeps |-> "nothing"]

(* The success also writes into the store. *)
Spins(flag, keeps) == [Spin(flag) EXCEPT !.keeps = keeps]

(* Two requests in a row under one flag. *)
Begins(flag) == [Spin(flag) EXCEPT !.done = {}]
Ends(flag, keeps) == [Spin(flag) EXCEPT !.set = {}, !.keeps = keeps]

(* No flag at all. *)
Quiet(keeps) == [set |-> {}, done |-> {}, fail |-> {}, keeps |-> keeps]

-----------------------------------------------------------------------------
(* The text of the rules in the store is the one in the editor. *)
filtering ==
    [getFilteringStatus |-> Spins("processingFilters", "answer"),
     setRules |-> Spins("processingRules", "put"),
     toggleBlocking |-> Spin("processingRules"),
     toggleBlockingForClient |-> Spin("processingRules"),
     addFilter |-> Spin("processingAddFilter"),
     toggleFilterStatus |-> Spin("processingConfigFilter"),
     editFilter |-> Spin("processingConfigFilter"),
     refreshFilters |-> Spin("processingRefreshFilters"),
     removeFilter |-> Spin("processingRemoveFilter"),
     setFiltersConfig |-> Spins("processingSetConfig", "put"),
     checkHost |-> Spin("processingCheck")]

(* The list and the settings are loaded under one flag. *)
rewrites ==
    [getRewritesList |-> Spins("rewrites.processing", "answer"),
     addRewrite |-> Spins("rewrites.processingAdd", "patch"),
     deleteRewrite |-> Spin("rewrites.processingDelete"),
     updateRewrite |-> Spin("rewrites.processingUpdate"),
     getRewriteSettings |-> Spins("rewrites.processing", "answer"),
     updateRewriteSettings |-> Spins("rewrites.processingUpdate", "patch")]

dnsConfig ==
    [getDnsConfig |-> Spins("processingGetConfig", "answer"),
     setDnsUpstreams |-> Spins("dns.processingSetConfig", "put"),
     setDnsServer |-> Spins("dns.processingSetConfig", "put"),
     setDnsCache |-> Spins("dns.processingSetConfig", "put")]

(* The form keeps what it has sent, and is what the page shows. *)
access ==
    LET flag == "access.processingSet"
    IN  [getAccessList |-> Spins("access.processing", "answer"),
         setAccessList |-> Spins(flag, "put"),
         toggleClientBlock |-> Begins(flag),
         toggleClientBlockSet |-> Ends(flag, "put"),
         blockTopClient |-> Begins(flag),
         blockTopClientSet |-> Ends(flag, "put")]

(* Before the first list there is nothing to show. *)
services ==
    [getBlockedServices |->
       [Spins("services.processing", "answer")
        EXCEPT !.done = {"services.processing", "services.missing"}],
     getAllBlockedServices |-> Spins("processingAll", "answer"),
     updateBlockedServices |-> Spin("services.processingSet")]

clients ==
    [addClient |-> Spin("processingAdding"),
     deleteClient |-> Spin("processingDeleting"),
     updateClient |-> Spin("processingUpdating")]

(* A switch is turned over when the answer has come, whatever it shows by
   then. *)
settings ==
    [initSettings |-> Spins("settings.processing", "answer"),
     toggleSafebrowsing |-> Quiet("flip"), toggleParental |-> Quiet("flip"),
     toggleSafesearch |-> Quiet("put"),
     testUpstream |-> Spin("processingTestUpstream")]

(* The reset raises the flag of getStats and lowers its own. *)
stats ==
    [getStats |-> Begins("processingStats"),
     searchClients |-> Ends("processingStats", "put"),
     getStatsConfig |-> Spins("stats.processingGetConfig", "answer"),
     setStatsConfig |-> Spins("stats.processingSetConfig", "put"),
     resetStats |-> [set |-> {"processingStats"}, done |-> {"processingReset"},
                     fail |-> {"processingReset"}, keeps |-> "patch"]]

(* Apart from the pages of the log. *)
queryLogs ==
    [getLogsConfig |-> Spins("logs.processingGetConfig", "answer"),
     setLogsConfig |-> Spins("logs.processingSetConfig", "put"),
     clearLogs |-> Spin("processingClear")]

encryption ==
    [getTlsStatus |-> Spins("tls.processing", "answer"),
     setTlsConfig |-> Begins("processingConfig"),
     tlsGlobalStatus |-> Ends("processingConfig", "put"),
     validateTlsConfig |-> Spins("processingValidate", "put")]

dhcp ==
    [getDhcpStatus |-> Begins("dhcp.processing"),
     dhcpStatus |-> Ends("dhcp.processing", "answer"),
     loadDhcpPage |-> Begins("dhcp.processing"),
     loadDhcpPageStatus |-> Ends("dhcp.processing", "answer"),
     getDhcpInterfaces |-> Spins("processingInterfaces", "answer"),
     findActiveDhcp |-> Spin("processingStatus"),
     toggleDhcp |-> Spins("processingDhcp", "flip"),
     setDhcpConfig |-> Spins("dhcp.processingConfig", "patch"),
     resetDhcp |-> Spins("dhcp.processingReset", "patch"),
     resetDhcpLeases |-> Quiet("patch"),
     addStaticLease |-> Spins("dhcp.processingAdding", "patch"),
     removeStaticLease |-> Spins("dhcp.processingDeleting", "patch"),
     updateStaticLease |-> Spin("dhcp.processingUpdating")]

(* Apart from the status and the protection switch. *)
dashboard ==
    [getVersion |-> Spin("processingVersion"),
     getClients |-> Spins("processingClients", "answer"),
     setProfile |-> Quiet("patch")]

login == [processLogin |-> Spin("processingLogin")]

(* The component's own flag. *)
account == [changePassword |-> Spin("account.processing")]

Reducers ==
    filtering @@ rewrites @@ dnsConfig @@ access @@ services @@ clients
       @@ settings @@ stats @@ queryLogs @@ encryption @@ dhcp @@ dashboard
       @@ login @@ account

(* The thunk named op with what the reducers make of it. *)
Reduced(op, row) ==
    LET red == IF op \in DOMAIN Reducers THEN Reducers[op] ELSE Quiet("nothing")
    IN  [row EXCEPT !.set = red.set, !.done = red.done, !.fail = red.fail,
                    !.keeps = red.keeps]
=============================================================================
