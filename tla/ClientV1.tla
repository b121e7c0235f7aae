------------------------------ MODULE ClientV1 ------------------------------
(***************************************************************************)
(* The thunks of client (React and Redux), client/src/actions: what each   *)
(* one requests and which thunks it dispatches afterwards.  What becomes   *)
(* of the store is in ReducersV1.  The status polling, the protection      *)
(* switch, the pages of the query log and the installation wizard have     *)
(* modules of their own.                                                   *)
(***************************************************************************)
EXTENDS ReducersV1, TLC

-----------------------------------------------------------------------------
(* actions/filtering.ts *)

getFilteringStatus == Get({{"lists", "rules", "filtering"}})

addFilter == Then(Change("lists", "on"), <<"getFilteringStatus">>)

removeFilter == Then(Change("lists", "off"), <<"getFilteringStatus">>)

toggleFilterStatus == Then(Change("lists", "flip"), <<"getFilteringStatus">>)

editFilter == Then(Change("lists", "on"), <<"getFilteringStatus">>)

refreshFilters == Then(Row, <<"getFilteringStatus">>)

setFiltersConfig == Replace("filtering", "flip")

checkHost == Row

setRules == Replace("rules", "flip")

(* actions/index.tsx: the store's text with one line added or taken away is
   saved, and the text is loaded again even if it could not be saved. *)
toggleBlocking ==
    [Replace("rules", "flip") EXCEPT !.next = <<"getFilteringStatus">>,
                                     !.anyway = TRUE]

toggleBlockingForClient == toggleBlocking

-----------------------------------------------------------------------------
(* actions/rewrites.ts *)

getRewritesList == Get({{"rewrites"}})

addRewrite == Then(Change("rewrites", "on"), <<"getRewritesList">>)

updateRewrite == Then(Change("rewrites", "flip"), <<"getRewritesList">>)

deleteRewrite == Then(Change("rewrites", "off"), <<"getRewritesList">>)

getRewriteSettings == Get({{"rewriteSettings"}})

updateRewriteSettings == Then(Change("rewriteSettings", "flip"),
                              <<"getRewriteSettings">>)

-----------------------------------------------------------------------------
(* actions/dnsConfig.ts.  Each form of the page owns some fields, sends all
   of them, and leaves the others alone. *)

getDnsConfig == Get({{"dnsUpstreams", "dnsServer", "dnsCache"}})

setDnsConfig(form) == Replace(form, "flip")

clearDnsCache == Row

testUpstream == Row

-----------------------------------------------------------------------------
(* actions/access.ts *)

getAccessList == Get({{"access"}})

(* The three lists are sent together. *)
setAccessList == Replace("access", "flip")

(* The lists are read afresh and sent back changed. *)
toggleClientBlock == [Get({{"access"}}) EXCEPT !.next = <<"toggleClientBlockSet">>]

toggleClientBlockSet == [Row EXCEPT !.doc = "access", !.sends = "putAnswer"]

(* Dashboard/Clients.tsx: the statistics are loaded again afterwards. *)
blockTopClient == [toggleClientBlock EXCEPT !.next = <<"blockTopClientSet">>]

blockTopClientSet ==
    [toggleClientBlockSet EXCEPT !.next = <<"getStats">>, !.anyway = TRUE]

-----------------------------------------------------------------------------
(* actions/services.ts *)

getBlockedServices == Get({{"services"}})

getAllBlockedServices == Get({{"catalogue"}})

updateBlockedServices == Then(Replace("services", "flip"),
                              <<"getBlockedServices">>)

-----------------------------------------------------------------------------
(* actions/clients.ts, getClients of actions/index.tsx *)

getClients == Get({{"clients"}})

addClient == Then(Change("clients", "on"), <<"getClients">>)

deleteClient == Then(Change("clients", "off"), <<"getClients">>)

updateClient == Then(Change("clients", "flip"), <<"getClients">>)

-----------------------------------------------------------------------------
(* Settings of actions/index.tsx *)

(* Three requests one after the other; their order is left open. *)
initSettings == Get({{"safebrowsing"}, {"parental"}, {"safesearch"}})

(* Safe search is sent whole, the two others are switched on or off. *)
toggleSetting(doc) ==
    IF doc = "safesearch" THEN Replace(doc, "flip") ELSE Change(doc, "flip")

-----------------------------------------------------------------------------
(* actions/stats.ts, settings of actions/queryLogs.ts *)

(* Statistics first, then the names of the clients in them. *)
getStats == [Get({{"stats"}}) EXCEPT !.next = <<"searchClients">>]

searchClients == [Row EXCEPT !.doc = "stats", !.sends = "hold"]

getStatsConfig == Get({{"statsConfig"}})

setStatsConfig == Replace("statsConfig", "flip")

resetStats == Change("stats", "off")

getLogsConfig == Get({{"logsConfig"}})

setLogsConfig == Replace("logsConfig", "flip")

clearLogs == Row

-----------------------------------------------------------------------------
(* actions/encryption.ts *)

getTlsStatus == Get({{"tls"}})

(* The answer is held while the global status is asked for. *)
setTlsConfig ==
    [Replace("tls", "flip") EXCEPT !.parts = {{"tls"}},
                                   !.next = <<"tlsGlobalStatus">>]

tlsGlobalStatus == [Row EXCEPT !.doc = "tls", !.sends = "hold"]

validateTlsConfig == [Replace("tls", "flip") EXCEPT !.sends = "draft"]

-----------------------------------------------------------------------------
(* DHCP of actions/index.tsx *)

(* The global status tells whether there is DHCP at all. *)
getDhcpStatus == [Row EXCEPT !.stops = TRUE, !.next = <<"dhcpStatus">>]

dhcpStatus == Get({{"dhcp", "leases"}})

(* Dhcp/index.tsx asks for the interfaces once it knows there is DHCP. *)
loadDhcpPage == [getDhcpStatus EXCEPT !.next = <<"loadDhcpPageStatus">>]

loadDhcpPageStatus == Then(dhcpStatus, <<"getDhcpInterfaces">>)

getDhcpInterfaces == Get({{"interfaces"}})

findActiveDhcp == Row

setDhcpConfig == Change("dhcp", "on")

toggleDhcp == Change("dhcp", "flip")

resetDhcp == Change("dhcp", "off")

resetDhcpLeases == Change("leases", "off")

addStaticLease == Then(Change("leases", "on"), <<"getDhcpStatus">>)

removeStaticLease == Change("leases", "off")

updateStaticLease == Then(Change("leases", "flip"), <<"getDhcpStatus">>)

-----------------------------------------------------------------------------
(* changeLanguage and changeTheme: api/Api.ts reads the profile, changes one
   field and sends it back whole. *)
changeProfile == [Row EXCEPT !.parts = {{"profile"}}, !.next = <<"setProfile">>]

setProfile == [Row EXCEPT !.doc = "profile", !.sends = "putAnswer"]

getVersion == Row

-----------------------------------------------------------------------------
(* actions/login.ts, Settings/AccountConfig.tsx *)

processLogin == Row

changePassword == Row

Requested ==
    [getFilteringStatus |-> getFilteringStatus, addFilter |-> addFilter,
     removeFilter |-> removeFilter, toggleFilterStatus |-> toggleFilterStatus,
     editFilter |-> editFilter, refreshFilters |-> refreshFilters,
     setFiltersConfig |-> setFiltersConfig, checkHost |-> checkHost,
     setRules |-> setRules, toggleBlocking |-> toggleBlocking,
     toggleBlockingForClient |-> toggleBlockingForClient,
     getRewritesList |-> getRewritesList, addRewrite |-> addRewrite,
     updateRewrite |-> updateRewrite, deleteRewrite |-> deleteRewrite,
     getRewriteSettings |-> getRewriteSettings,
     updateRewriteSettings |-> updateRewriteSettings,
     getDnsConfig |-> getDnsConfig, clearDnsCache |-> clearDnsCache,
     testUpstream |-> testUpstream, getAccessList |-> getAccessList,
     setAccessList |-> setAccessList, toggleClientBlock |-> toggleClientBlock,
     toggleClientBlockSet |-> toggleClientBlockSet,
     blockTopClient |-> blockTopClient,
     blockTopClientSet |-> blockTopClientSet,
     getBlockedServices |-> getBlockedServices,
     getAllBlockedServices |-> getAllBlockedServices,
     updateBlockedServices |-> updateBlockedServices,
     getClients |-> getClients, addClient |-> addClient,
     deleteClient |-> deleteClient, updateClient |-> updateClient,
     initSettings |-> initSettings, getStats |-> getStats,
     searchClients |-> searchClients, getStatsConfig |-> getStatsConfig,
     setStatsConfig |-> setStatsConfig, resetStats |-> resetStats,
     getLogsConfig |-> getLogsConfig, setLogsConfig |-> setLogsConfig,
     clearLogs |-> clearLogs, getTlsStatus |-> getTlsStatus,
     setTlsConfig |-> setTlsConfig, tlsGlobalStatus |-> tlsGlobalStatus,
     validateTlsConfig |-> validateTlsConfig, getDhcpStatus |-> getDhcpStatus,
     dhcpStatus |-> dhcpStatus, loadDhcpPage |-> loadDhcpPage,
     loadDhcpPageStatus |-> loadDhcpPageStatus,
     getDhcpInterfaces |-> getDhcpInterfaces,
     findActiveDhcp |-> findActiveDhcp, setDhcpConfig |-> setDhcpConfig,
     toggleDhcp |-> toggleDhcp, resetDhcp |-> resetDhcp,
     resetDhcpLeases |-> resetDhcpLeases, addStaticLease |-> addStaticLease,
     removeStaticLease |-> removeStaticLease,
     updateStaticLease |-> updateStaticLease, changeProfile |-> changeProfile,
     setProfile |-> setProfile, getVersion |-> getVersion,
     processLogin |-> processLogin,
     changePassword |-> changePassword,
     setDnsUpstreams |-> setDnsConfig("dnsUpstreams"),
     setDnsServer |-> setDnsConfig("dnsServer"),
     setDnsCache |-> setDnsConfig("dnsCache"),
     toggleSafebrowsing |-> toggleSetting("safebrowsing"),
     toggleParental |-> toggleSetting("parental"),
     toggleSafesearch |-> toggleSetting("safesearch")]

Thunks == [op \in DOMAIN Requested |-> Reduced(op, Requested[op])]
=============================================================================
