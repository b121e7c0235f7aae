------------------------------ MODULE PagesV2 -------------------------------
(***************************************************************************)
(* The pages of client_v2/src/components: for each component the controls  *)
(* it offers (which store operation, disabled by which flags), and for     *)
(* each routed page what it requests, what hides it and what it shows.     *)
(* Layout, wording, sorting and paging of tables are left out; a dialog    *)
(* and the button that opens it are one control, disabled by the flags of  *)
(* the dialog's own button.                                                *)
(***************************************************************************)
EXTENDS WebRows

-----------------------------------------------------------------------------
(* components/FilterLists *)

ListsTable == {On("toggleFilterStatus", {"processingConfigFilter"})}

(* Adds the chosen lists of the catalogue in one batch, takes the deselected
   ones away, or adds or edits a list by its address. *)
ConfigureBlocklistModal ==
    {On(op, {"processingAddFilter"}) :
       op \in {"addFilter", "addFiltersBatch", "removeFilter", "editFilter"}}

ConfigureAllowlistModal ==
    {On(op, {"processingAddFilter"}) : op \in {"addFilter", "editFilter"}}

DeleteBlocklistModal == {On("removeFilter", {"processingRemoveFilter"})}

DeleteAllowlistModal == {On("removeFilter", {"processingRemoveFilter"})}

FilterUpdateModal == {On("setFiltersConfig", {"processingSetConfig"})}

(* Once loaded, the page stays on screen while it is reloaded. *)
Blocklists ==
    Page({"lists", "rules", "filtering"}, {}, <<"getFilteringStatus">>,
         {"processingFilters"},
         {On("refreshFilters", {"processingRefreshFilters"})} \union ListsTable
            \union ConfigureBlocklistModal \union DeleteBlocklistModal
            \union FilterUpdateModal)

Allowlists ==
    Page({"lists", "rules", "filtering"}, {}, <<"getFilteringStatus">>,
         {"processingFilters"},
         {On("refreshFilters", {"processingRefreshFilters"})} \union ListsTable
            \union ConfigureAllowlistModal \union DeleteAllowlistModal
            \union FilterUpdateModal)

RewritesTable == {On("updateRewrite", {"rewrites.processingUpdate"})}

ConfigureRewritesModal ==
    {On(op, {"rewrites.processing", "rewrites.processingAdd",
             "rewrites.processingUpdate"}) :
       op \in {"addRewrite", "updateRewrite"}}

DeleteRewriteModal == {On("deleteRewrite", {"rewrites.processingDelete"})}

(* The switch of all rewrites waits for its own first request only. *)
DNSRewrites ==
    Page({"rewrites", "rewriteSettings"}, {"rewrites.processing"},
         <<"getRewritesList", "getRewriteSettings">>, {"processingSettings"},
         {On("updateRewriteSettings", {})} \union RewritesTable
            \union ConfigureRewritesModal \union DeleteRewriteModal)

-----------------------------------------------------------------------------
(* components/DnsSettings.  A dialog of these pages submits one field. *)

FieldDialog == {On("setDnsConfig", {"dns.processingSetConfig"})}

UpstreamModeDialog == FieldDialog
FallbackDnsDialog == FieldDialog
BootstrapDnsDialog == FieldDialog
TimeoutDialog == FieldDialog
PrivateReverseServersDialog == FieldDialog
BlockingModeDialog == FieldDialog
EdnsDialog == FieldDialog
RateLimitDialog == FieldDialog
RateLimitAllowlistDialog == FieldDialog
SubnetPrefixV4Dialog == FieldDialog
SubnetPrefixV6Dialog == FieldDialog
CacheInputDialog == FieldDialog

ServerAddressesDialog == {On("setUpstreams", {"dns.processingSetConfig"})}

(* A preset or a rule is added to or taken from the lines that the store
   holds; the card waits for its own requests only. *)
SmartRoutingCard == {OnHolding("setUpstreams", {}, {"isSubmitting"})}

Upstream ==
    {On("toggleDnsConfig", {}),
     On("testUpstreamWithFormValues", {"processingTestUpstream"})}
       \union UpstreamModeDialog \union FallbackDnsDialog
       \union BootstrapDnsDialog \union TimeoutDialog

PrivateReverse == {On("toggleDnsConfig", {})} \union PrivateReverseServersDialog

ServerConfig ==
    {On("toggleDnsConfig", {})} \union BlockingModeDialog \union EdnsDialog
       \union RateLimitDialog \union RateLimitAllowlistDialog
       \union SubnetPrefixV4Dialog \union SubnetPrefixV6Dialog

Cache == {On("toggleDnsConfig", {}), On("clearDnsCache", {})}
            \union CacheInputDialog

(* Without the fields that two forms of the page share. *)
DnsSettings ==
    LET waiting == {"access.processing", "processingGetConfig"}
    IN  Page({"dns"}, waiting, <<"getAccessList", "getDnsConfig">>, waiting,
             Upstream \union PrivateReverse \union ServerConfig \union Cache)

UpstreamServers ==
    [DnsSettings EXCEPT !.docs = {"upstreams"},
                        !.ctl = ServerAddressesDialog \union SmartRoutingCard]

(* Three dialogs; each submits its own list, and only that. *)
AllowedClientsDialog == {On("setAccessList", {"access.processingSet"})}
DisallowedClientsDialog == {On("setAccessList", {"access.processingSet"})}
DisallowedDomainsDialog == {On("setAccessList", {"access.processingSet"})}

Access ==
    [DnsSettings EXCEPT !.docs = {"access"},
                        !.ctl = AllowedClientsDialog \union DisallowedClientsDialog
                                   \union DisallowedDomainsDialog]

-----------------------------------------------------------------------------
(* components/BlockedServices.  The page appears as soon as the catalogue
   has arrived; only the switch that was just turned is disabled. *)

InactivitySchedule == {On("updateBlockedServices", {})}

ServiceRow == {On("updateBlockedServices", {})}

BlockedServices ==
    Page({"services", "catalogue"}, {"services.processing", "processingAll"},
         <<"getBlockedServices", "getAllBlockedServices">>, {"processingAll"},
         ServiceRow \union InactivitySchedule)

-----------------------------------------------------------------------------
(* components/Clients *)

PersistentClientsTable ==
    {On("deleteClient", {"processingDeleting", "processingClients",
                         "processingStats"})}

AddClient == {On("saveClient", {"processingSave"})}

DeviceDiscovery == {On("convertDevice", {}), On("clearDevices", {}),
                    On("loadDevices", {})}

Clients ==
    Page({"clients", "catalogue"}, {"processingClients", "processingStats"},
         <<"getClients", "getStats", "getAllBlockedServices">>,
         {"processingClients", "processingStats"},
         PersistentClientsTable \union AddClient)

(* The discovery tab of the same page. *)
Discovery ==
    Page({"clients", "devices"}, {}, <<"getClients", "loadDevices">>, {},
         DeviceDiscovery)

-----------------------------------------------------------------------------
(* components/Settings *)

(* Sends what the store holds as soon as it is rendered. *)
FiltersConfig == {On("setFiltersConfig", {})}

LogsConfig == {On("setLogsConfig", {"logs.processingSetConfig"})}

StatsConfig == {On("setStatsConfig", {"stats.processingSetConfig"})}

IgnoredDomainsModal == LogsConfig \union StatsConfig

SafeSearchModal == {OnHolding("toggleSafesearch", {}, {"safesearchProcessing"})}

(* The switches of the page itself are disabled by no flag. *)
SettingsSwitches ==
    {On(op, {}) : op \in {"toggleSafebrowsing", "toggleParental",
                          "toggleSafesearch", "setLogsConfig", "setStatsConfig",
                          "clearLogs", "resetStats"}}

Settings ==
    Showing(
      Page({"safebrowsing", "parental", "safesearch", "statsConfig",
            "logsConfig", "filtering"}, {"settings.processing"},
           <<"initSettings", "getStatsConfig", "getFilteringStatus",
             "getLogsConfig">>,
           {"settings.processing", "stats.processingGetConfig",
            "logs.processingGetConfig"},
           SettingsSwitches \union FiltersConfig \union LogsConfig
              \union StatsConfig \union IgnoredDomainsModal \union SafeSearchModal),
      <<"filtersConfigEffect">>)

AntiRebindConfig == {On("saveRebind", {"rebind.saving"}), On("clearRebindStats", {})}

ODoHConfig == {On("saveODoH", {"odoh.saving"})}

TelegramBotConfig == {On("saveTelegram", {"telegram.saving"}),
                      On("testTelegram", {"telegram.testing"})}

DoHHubConfig == {On("testDoH", {"doh.testing"})}

MaintenanceConfig == {On("optimize", {"maintenance.processing"})}

AccountConfig == {On("changePassword", {"account.processing"})}

UnblockRequests == {On("approveRequest", {}), On("deleteRequest", {})}

(* The cards of the settings page, each loading for itself. *)
RelayCards == Page({"rebind", "odoh"}, {}, <<"loadRebind", "loadODoH">>, {},
                   AntiRebindConfig \union ODoHConfig)

ToolCards ==
    Page({"unblockRequests", "doh"}, {}, <<"loadUnblockRequests", "loadDoHInfo">>,
         {}, UnblockRequests \union DoHHubConfig \union MaintenanceConfig
                \union AccountConfig)

TelegramCard == Page({"telegram"}, {}, <<"loadTelegram">>, {}, TelegramBotConfig)

-----------------------------------------------------------------------------
(* components/Encryption *)

(* While the store is being saved, the forms' buttons are disabled. *)
tlsBusy == {"processingConfig", "processingValidate"}

AddTlsCertModal == {On("setTlsConfig", tlsBusy), On("validateTlsConfig", {})}

ServerSettingsModal == {On("setTlsConfig", tlsBusy)}

(* Saves the defaults and validates them at the same time. *)
ResetDnsModal == {OnAll("setTlsConfig", {}, <<"validateTlsConfig">>)}

TlsCertSection == {On("removeCert", {})}

RedirectToggle == {On("setTlsConfig", {})}

PlainDnsToggle == {On("setTlsConfig", {})}

Encryption ==
    Page({"tls"}, {"tls.processing"}, <<"getTlsStatus">>, {"tls.processing"},
         {On("setTlsConfig", {"processingConfig"})} \union AddTlsCertModal
            \union ServerSettingsModal \union ResetDnsModal \union TlsCertSection
            \union RedirectToggle \union PlainDnsToggle)

-----------------------------------------------------------------------------
(* components/Dhcp *)

DhcpToggle == {On("toggleDhcp", {"processingDhcp", "dhcp.processingConfig"})}

DhcpV4Modal == {On("setDhcpConfig", {"dhcp.processingConfig"})}

DhcpV6Modal == {On("setDhcpConfig", {"dhcp.processingConfig"})}

InterfaceSelector == {On("findActiveDhcp", {"processingDhcp"})}

(* The reset's confirmation starts the reset and a reload together. *)
Dhcp ==
    Page({"dhcp", "leases"}, {"dhcp.processing"}, <<"loadDhcpPage">>,
         {"dhcp.processing", "processingInterfaces"},
         {OnAll("resetDhcp", {"dhcp.processingReset"}, <<"getDhcpStatus">>)}
            \union DhcpToggle \union DhcpV4Modal \union DhcpV6Modal
            \union InterfaceSelector)

StaticLeaseModal ==
    {On(op, {"dhcp.processingAdding", "dhcp.processingUpdating"}) :
       op \in {"addStaticLease", "updateStaticLease"}}

StaticLeasesTab == {On("removeStaticLease", {"dhcp.processingDeleting"}),
                    On("getDhcpStatus", {})}

DynamicLeasesTab == {On("removeStaticLease", {"dhcp.processingDeleting"}),
                     On("getDhcpStatus", {})}

LeasesPage ==
    Page({"dhcp", "leases"}, {"dhcp.processing"}, <<"getDhcpStatus">>, {},
         {On("resetDhcpLeases", {})} \union StaticLeaseModal
            \union StaticLeasesTab \union DynamicLeasesTab)

-----------------------------------------------------------------------------
(* components/Dashboard, its status polling and countdown apart *)

TopClients == {On("toggleClientBlock", {})}

Dashboard ==
    LET loading == {"processingStats", "stats.processingGetConfig",
                    "access.processing"}
    IN  Page({"stats", "clients", "access"},
             {"processingStats", "access.processing", "processingClients"},
             <<"getStats", "getStatsConfig", "getClients", "getAccessList">>,
             loading,
             {OnAll("getStats", loading,
                    <<"getStatsConfig", "getClients", "getAccessList">>)}
                \union TopClients)

(* common/ui/Footer, on every page. *)
Footer == Page({"profile"}, {}, <<>>, {}, {On("changeProfile", {})})

-----------------------------------------------------------------------------
(* components/UserRules *)

RulesEditor == {On("setRules", {"processingRules"})}

CheckForm == {OnHolding("checkHost", {"processingCheck"}, {"isResultRefreshing"})}

(* The flags of UserRules.tsx that disable the actions offered for what a
   check has found. *)
isActionProcessing ==
    {"processingRules", "processingCheck", "processingUpdating",
     "rewrites.processingDelete", "rewrites.processingUpdate",
     "services.processingSet"}

(* The result, and with it every action on it, is hidden before the request
   of an action is sent and shown again by the check that follows it
   (runWithClosedResult, recheckCurrentTarget); that check, and undoing the
   action from its toast, are left out. *)
performWithUndo(ops) ==
    {OnHolding(op, isActionProcessing, {"resultClosed"}) : op \in ops}

handleRuleToggle == performWithUndo({"toggleBlocking", "blockDomainForClient"})

(* If the check was made for a persistent client, its own copy of the
   setting is changed. *)
handleDisableSafeBrowsing ==
    performWithUndo({"updateClient", "toggleSafebrowsing"})

handleDisableParental == performWithUndo({"updateClient", "toggleParental"})

handleDisableSafeSearch == performWithUndo({"updateClient", "toggleSafesearch"})

handleDisableFilter == performWithUndo({"toggleFilterStatus"})

handleAllowBlockedService ==
    performWithUndo({"updateClient", "updateBlockedServices"})

handleRewriteUpdate == performWithUndo({"updateRewrite"})

handleRewriteDelete == performWithUndo({"deleteRewrite"})

handleRemoveRewriteRule == performWithUndo({"setRules"})

handleAction ==
    handleRuleToggle \union handleDisableParental
       \union handleDisableSafeBrowsing \union handleDisableSafeSearch
       \union handleAllowBlockedService \union handleDisableFilter
       \union handleRemoveRewriteRule

(* The page waits for everything that it may act on. *)
UserRules ==
    Page({"rules", "lists", "clients", "rewrites", "services", "safebrowsing",
          "parental", "safesearch"},
         {"rewrites.processing", "processingClients", "services.processing"},
         <<"getFilteringStatus", "initSettings", "getClients",
           "getRewritesList", "getBlockedServices", "getAllBlockedServices">>,
         {"processingFilters", "settings.processing", "processingClients",
          "rewrites.processing", "services.processing", "processingAll"},
         RulesEditor \union CheckForm \union handleAction
            \union handleRewriteUpdate \union handleRewriteDelete)

-----------------------------------------------------------------------------
(* components/QueryLog, its paging apart: the menus of its rows *)

ActionsMenu == {On("blockDomain", {}), On("unblockDomain", {}),
                On("blockDomainForClient", {})}

(* Allowing a blocked service again is left out. *)
DetailModal == {On("blockDomain", {}), On("unblockDomain", {})}

DisallowDialog == {On("toggleClientBlock", {})}

QueryLogRows ==
    Page({"rules", "access"}, {"access.processing"},
         <<"getFilteringStatus", "getAccessList">>, {},
         ActionsMenu \union DetailModal \union DisallowDialog)

-----------------------------------------------------------------------------
(* login *)

LoginForm == {On("processLogin", {"processingLogin"})}

Login == Page({}, {}, <<>>, {}, LoginForm)
=============================================================================
