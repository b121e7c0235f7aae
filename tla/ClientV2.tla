------------------------------ MODULE ClientV2 ------------------------------
(***************************************************************************)
(* The stores of client_v2 (SolidJS): one row per exported operation of    *)
(* client_v2/src/stores and per request that a component makes itself.     *)
(* The pages are in PagesV2; the status polling, the query log's list and  *)
(* the installation wizard have modules of their own.                      *)
(***************************************************************************)
EXTENDS WebRows, TLC

-----------------------------------------------------------------------------
(* stores/filtering.ts *)

(* GET filtering/status answers with the lists, the rules and the settings
   at once. *)
getFilteringStatus ==
    Fetch("processingFilters", {{"lists", "rules", "filtering"}})

addFilter == Then(Patch("processingAddFilter", "lists", "on"),
                  <<"getFilteringStatus">>)

removeFilter == Then(Patch("processingRemoveFilter", "lists", "off"),
                     <<"getFilteringStatus">>)

toggleFilterStatus == Then(Patch("processingConfigFilter", "lists", "flip"),
                           <<"getFilteringStatus">>)

editFilter == [toggleFilterStatus EXCEPT !.to = "on"]

refreshFilters == Then(Ask("processingRefreshFilters"),
                       <<"getFilteringStatus">>)

setFiltersConfig == Keeping(Put("processingSetConfig", "filtering", "flip"))

(* The flag of a batch is lowered after the refetch; a batch in which every
   address failed is not followed by one. *)
addFiltersBatch ==
    [addFilter EXCEPT !.done = {}, !.owes = {"processingAddFilter"}]

checkHost == Ask("processingCheck")

(* The user rules are one text.  The editor replaces it; the block and
   unblock actions send the lines that the store holds, one of them changed,
   and load the text again. *)
setRules == Keeping(Put("processingRules", "rules", "flip"))

toggleBlocking == Then(setRules, <<"getFilteringStatus">>)

blockDomain == [toggleBlocking EXCEPT !.to = "on"]

unblockDomain == [toggleBlocking EXCEPT !.to = "on"]

blockDomainForClient == [toggleBlocking EXCEPT !.to = "on"]

(* FiltersConfig.tsx: an effect sends the settings that the store holds as
   soon as the switch is rendered, before anybody has touched it. *)
filtersConfigEffect == [setFiltersConfig EXCEPT !.to = "same"]

-----------------------------------------------------------------------------
(* stores/rewrites.ts *)

getRewritesList == Fetch("rewrites.processing", {{"rewrites"}})

addRewrite == Then(Patch("rewrites.processingAdd", "rewrites", "on"),
                   <<"getRewritesList">>)

updateRewrite == Then(Patch("rewrites.processingUpdate", "rewrites", "flip"),
                      <<"getRewritesList">>)

deleteRewrite == Then(Patch("rewrites.processingDelete", "rewrites", "off"),
                      <<"getRewritesList">>)

getRewriteSettings == Fetch("processingSettings", {{"rewriteSettings"}})

updateRewriteSettings ==
    Keeping(Patch("processingSettings", "rewriteSettings", "flip"))

-----------------------------------------------------------------------------
(* stores/dnsConfig.ts, the upstream test of stores/settings.ts *)

getDnsConfig == Fetch("processingGetConfig", {{"dns", "upstreams"}})

(* The body carries the given fields only; the server keeps the others. *)
setDnsConfig == Keeping(Patch("dns.processingSetConfig", "dns", "on"))

(* togglePrivatePtrResolvers, toggleResolveClients and the other switches:
   the opposite of what the store shows when the switch is clicked. *)
toggleDnsConfig == [setDnsConfig EXCEPT !.to = "flip"]

(* The upstream servers are one field, a text that the form replaces whole. *)
setUpstreams == Keeping(Put("dns.processingSetConfig", "upstreams", "flip"))

clearDnsCache == Row

testUpstreamWithFormValues == Ask("processingTestUpstream")

-----------------------------------------------------------------------------
(* stores/access.ts.  POST access/set replaces all three lists. *)

getAccessList == Fetch("access.processing", {{"access"}})

(* The lists that are not given are left out of the body, which empties
   them on the server, while the store keeps them. *)
setAccessList ==
    Keeping([Patch("access.processingSet", "access", "flip")
             EXCEPT !.sends = "wipe"])

(* Reads the lists afresh, then replaces them. *)
toggleClientBlock ==
    [Row EXCEPT !.set = {"access.processingSet"}, !.parts = {{"access"}},
                !.fail = {"access.processingSet"},
                !.next = <<"toggleClientBlockSet">>]

toggleClientBlockSet ==
    Keeping([Row EXCEPT !.doc = "access", !.sends = "putAnswer",
                        !.done = {"access.processingSet"},
                        !.fail = {"access.processingSet"}])

-----------------------------------------------------------------------------
(* stores/services.ts *)

getBlockedServices == Fetch("services.processing", {{"services"}})

getAllBlockedServices == Fetch("processingAll", {{"catalogue"}})

updateBlockedServices == Then(Put("services.processingSet", "services", "flip"),
                              <<"getBlockedServices">>)

-----------------------------------------------------------------------------
(* stores/clients.ts, stores/clientForm.ts, getClients of stores/dashboard.ts *)

getClients == Fetch("processingClients", {{"clients"}})

addClient == Then(Patch("processingAdding", "clients", "on"), <<"getClients">>)

deleteClient == Then(Patch("processingDeleting", "clients", "off"),
                     <<"getClients">>)

updateClient == Then(Patch("processingUpdating", "clients", "flip"),
                     <<"getClients">>)

(* The flag is lowered in a finally block, after the refetch. *)
saveClient ==
    [Then(Patch("processingSave", "clients", "on"), <<"getClients">>)
     EXCEPT !.done = {}, !.owes = {"processingSave"}]

-----------------------------------------------------------------------------
(* stores/settings.ts *)

(* Three requests under one Promise.all. *)
initSettings ==
    Fetch("settings.processing", {{"safebrowsing"}, {"parental"}, {"safesearch"}})

(* No flag is raised; the store is updated once the server has agreed. *)
toggleSetting(doc) ==
    Keeping([Row EXCEPT !.doc = doc, !.sends = "patch"])

(* Safe search is a document with a switch per search engine, sent whole. *)
toggleSafesearch == [toggleSetting("safesearch") EXCEPT !.sends = "put",
                                                        !.keeps = "put"]

-----------------------------------------------------------------------------
(* stores/stats.ts and the settings of stores/queryLogs.ts *)

(* Statistics first, then the names of the clients in them. *)
getStats ==
    [Row EXCEPT !.set = {"processingStats"}, !.parts = {{"stats"}},
                !.fail = {"processingStats"}, !.next = <<"clientsSearch">>]

clientsSearch ==
    [Row EXCEPT !.doc = "stats", !.keeps = "put", !.sends = "hold",
                !.done = {"processingStats"}, !.fail = {"processingStats"}]

getStatsConfig == Fetch("stats.processingGetConfig", {{"statsConfig"}})

setStatsConfig == Keeping(Put("stats.processingSetConfig", "statsConfig", "flip"))

resetStats == Then(Patch("processingReset", "stats", "off"), <<"getStats">>)

getLogsConfig == Fetch("logs.processingGetConfig", {{"logsConfig"}})

setLogsConfig == Keeping(Put("logs.processingSetConfig", "logsConfig", "flip"))

clearLogs == Ask("processingClear")

-----------------------------------------------------------------------------
(* stores/encryption.ts *)

getTlsStatus == Fetch("tls.processing", {{"tls"}})

(* The store's copy, overridden by the caller's fields, is sent whole, and
   the answer is the configuration as the server now holds it. *)
setTlsConfig ==
    [Put("processingConfig", "tls", "flip")
     EXCEPT !.parts = {{"tls"}}, !.keeps = "answer"]

(* The values being typed are checked; the answer echoes them, and the
   store takes them over although nothing was saved. *)
validateTlsConfig ==
    [Put("processingValidate", "tls", "flip")
     EXCEPT !.sends = "draft", !.keeps = "put"]

(* removeCert: the certificate disappears from the store at once, and does
   not come back if the server refuses. *)
removeCert == [setTlsConfig EXCEPT !.to = "off", !.early = TRUE]

-----------------------------------------------------------------------------
(* stores/dhcp.ts *)

(* GET status tells whether the platform has DHCP at all. *)
getDhcpStatus ==
    [Row EXCEPT !.set = {"processingStatus"}, !.stops = TRUE,
                !.fail = {"processingStatus", "dhcp.processing"},
                !.next = <<"dhcpStatus">>]

dhcpStatus ==
    [Row EXCEPT !.parts = {{"dhcp", "leases"}}, !.keeps = "answer",
                !.done = {"processingStatus", "dhcp.processing"},
                !.fail = {"processingStatus", "dhcp.processing"}]

(* Dhcp.tsx asks for the interfaces once it knows that there is DHCP. *)
loadDhcpPage == [getDhcpStatus EXCEPT !.next = <<"loadDhcpPageStatus">>]

loadDhcpPageStatus == Then(dhcpStatus, <<"getDhcpInterfaces">>)

getDhcpInterfaces == Fetch("processingInterfaces", {{"interfaces"}})

findActiveDhcp == Ask("processingDhcp")

setDhcpConfig == Keeping(Patch("dhcp.processingConfig", "dhcp", "on"))

toggleDhcp == Keeping(Patch("dhcp.processingConfig", "dhcp", "flip"))

resetDhcp ==
    [Then(Patch("dhcp.processingReset", "dhcp", "off"), <<"getDhcpStatus">>)
     EXCEPT !.done = {}, !.owes = {"dhcp.processingReset"}]

resetDhcpLeases == [resetDhcp EXCEPT !.doc = "leases"]

addStaticLease == Then(Patch("dhcp.processingAdding", "leases", "on"),
                       <<"getDhcpStatus">>)

removeStaticLease == Then(Patch("dhcp.processingDeleting", "leases", "off"),
                          <<"getDhcpStatus">>)

updateStaticLease == Then(Patch("dhcp.processingUpdating", "leases", "flip"),
                          <<"getDhcpStatus">>)

-----------------------------------------------------------------------------
(* changeLanguage and changeTheme of stores/dashboard.ts: the profile is
   read, one field of it changed, and the whole of it sent back. *)
changeProfile == [Row EXCEPT !.parts = {{"profile"}}, !.next = <<"updateProfile">>]

updateProfile ==
    [Row EXCEPT !.doc = "profile", !.sends = "putAnswer", !.keeps = "patch"]

-----------------------------------------------------------------------------
(* The settings cards that keep their state to themselves and talk to the
   server through customFetch. *)

(* A card's onMount; the catch block keeps the defaults without a word. *)
loadCard(doc) == [Row EXCEPT !.parts = {{doc}}, !.keeps = "answer"]

loadRebind == loadCard("rebind")

saveRebind ==
    [Then(Put("rebind.saving", "rebind", "flip"), <<"loadRebind">>)
     EXCEPT !.done = {}, !.owes = {"rebind.saving"}]

clearRebindStats == Row

loadODoH == loadCard("odoh")

saveODoH == Keeping(Put("odoh.saving", "odoh", "flip"))

loadTelegram == loadCard("telegram")

(* The status holds neither the token nor the daily report's switch: the
   card sends its own initial values for what it was not told. *)
saveTelegram ==
    [Then(Put("telegram.saving", "telegram", "flip"), <<"loadTelegram">>)
     EXCEPT !.sends = "wipe", !.done = {}, !.owes = {"telegram.saving"}]

testTelegram == Ask("telegram.testing")

loadDoHInfo == loadCard("doh")

testDoH == Ask("doh.testing")

optimize == Ask("maintenance.processing")

changePassword == Ask("account.processing")

loadUnblockRequests == loadCard("unblockRequests")

(* Approving or deleting a request is followed by a reload. *)
approveRequest == Then([Row EXCEPT !.doc = "unblockRequests", !.to = "on",
                                   !.sends = "patch"], <<"loadUnblockRequests">>)

deleteRequest == [approveRequest EXCEPT !.to = "off"]

loadDevices == Fetch("devices.loading", {{"devices"}})

clearDevices == Then([Row EXCEPT !.doc = "devices", !.to = "off",
                                 !.sends = "patch"], <<"loadDevices">>)

(* A detected device becomes a persistent client. *)
convertDevice == Then([Row EXCEPT !.doc = "clients", !.to = "on",
                                  !.sends = "patch"], <<"getClients">>)

-----------------------------------------------------------------------------
(* stores/login.ts *)

processLogin == Ask("processingLogin")

Thunks ==
    [getFilteringStatus |-> getFilteringStatus, addFilter |-> addFilter,
     removeFilter |-> removeFilter, toggleFilterStatus |-> toggleFilterStatus,
     editFilter |-> editFilter, refreshFilters |-> refreshFilters,
     setFiltersConfig |-> setFiltersConfig, addFiltersBatch |-> addFiltersBatch,
     checkHost |-> checkHost, getRewritesList |-> getRewritesList,
     addRewrite |-> addRewrite, updateRewrite |-> updateRewrite,
     deleteRewrite |-> deleteRewrite, getRewriteSettings |-> getRewriteSettings,
     updateRewriteSettings |-> updateRewriteSettings,
     getDnsConfig |-> getDnsConfig, setDnsConfig |-> setDnsConfig,
     toggleDnsConfig |-> toggleDnsConfig, clearDnsCache |-> clearDnsCache,
     testUpstreamWithFormValues |-> testUpstreamWithFormValues,
     getAccessList |-> getAccessList, setAccessList |-> setAccessList,
     toggleClientBlock |-> toggleClientBlock,
     toggleClientBlockSet |-> toggleClientBlockSet,
     getBlockedServices |-> getBlockedServices,
     getAllBlockedServices |-> getAllBlockedServices,
     updateBlockedServices |-> updateBlockedServices,
     getClients |-> getClients,
     addClient |-> addClient, deleteClient |-> deleteClient,
     updateClient |-> updateClient, saveClient |-> saveClient,
     initSettings |-> initSettings,
     toggleSafebrowsing |-> toggleSetting("safebrowsing"),
     toggleParental |-> toggleSetting("parental"),
     toggleSafesearch |-> toggleSafesearch, getStats |-> getStats,
     clientsSearch |-> clientsSearch, getStatsConfig |-> getStatsConfig,
     setStatsConfig |-> setStatsConfig, resetStats |-> resetStats,
     getLogsConfig |-> getLogsConfig, setLogsConfig |-> setLogsConfig,
     clearLogs |-> clearLogs, getTlsStatus |-> getTlsStatus,
     setTlsConfig |-> setTlsConfig, validateTlsConfig |-> validateTlsConfig,
     removeCert |-> removeCert, getDhcpStatus |-> getDhcpStatus,
     dhcpStatus |-> dhcpStatus, getDhcpInterfaces |-> getDhcpInterfaces,
     findActiveDhcp |-> findActiveDhcp, setDhcpConfig |-> setDhcpConfig,
     toggleDhcp |-> toggleDhcp, resetDhcp |-> resetDhcp,
     resetDhcpLeases |-> resetDhcpLeases, addStaticLease |-> addStaticLease,
     removeStaticLease |-> removeStaticLease,
     updateStaticLease |-> updateStaticLease, changeProfile |-> changeProfile,
     updateProfile |-> updateProfile,
     processLogin |-> processLogin,
     setRules |-> setRules, toggleBlocking |-> toggleBlocking,
     blockDomain |-> blockDomain, unblockDomain |-> unblockDomain,
     blockDomainForClient |-> blockDomainForClient,
     loadDhcpPage |-> loadDhcpPage, loadDhcpPageStatus |-> loadDhcpPageStatus,
     filtersConfigEffect |-> filtersConfigEffect, setUpstreams |-> setUpstreams,
     loadRebind |-> loadRebind,
     saveRebind |-> saveRebind, clearRebindStats |-> clearRebindStats,
     loadODoH |-> loadODoH, saveODoH |-> saveODoH,
     loadTelegram |-> loadTelegram, saveTelegram |-> saveTelegram,
     testTelegram |-> testTelegram, loadDoHInfo |-> loadDoHInfo,
     testDoH |-> testDoH, optimize |-> optimize,
     changePassword |-> changePassword,
     loadUnblockRequests |-> loadUnblockRequests,
     approveRequest |-> approveRequest, deleteRequest |-> deleteRequest,
     loadDevices |-> loadDevices, clearDevices |-> clearDevices,
     convertDevice |-> convertDevice]
=============================================================================
