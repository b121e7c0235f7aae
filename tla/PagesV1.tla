------------------------------ MODULE PagesV1 -------------------------------
(***************************************************************************)
(* The pages of client/src/components, in the way of PagesV2: for each     *)
(* component the controls it offers and the flags that disable them, and   *)
(* for each routed page what it requests, what hides it and what it shows. *)
(***************************************************************************)
EXTENDS WebRows

-----------------------------------------------------------------------------
(* components/Filters *)

(* Any of these flags lays the table's loading overlay over its rows. *)
listsLoading == {"processingConfigFilter", "processingFilters",
                 "processingAddFilter", "processingRemoveFilter",
                 "processingRefreshFilters"}

FiltersTable == {On("toggleFilterStatus", listsLoading),
                 On("removeFilter", listsLoading)}

FiltersActions == {On("refreshFilters", {"processingRefreshFilters"})}

(* The dialog that adds a list, or edits the one it was opened for. *)
FiltersForm == {On("addFilter", {"processingAddFilter", "processingConfigFilter"}),
                On("editFilter", {"processingAddFilter", "processingConfigFilter"})}

FiltersModal == FiltersForm

DnsBlocklist ==
    Page({"lists", "rules", "filtering"}, {}, <<"getFilteringStatus">>, {},
         FiltersTable \union FiltersActions \union FiltersModal)

DnsAllowlist ==
    Page({"lists", "rules", "filtering"}, {}, <<"getFilteringStatus">>, {},
         FiltersTable \union FiltersActions \union FiltersModal)

Check == {On("checkHost", {"processingCheck"})}

(* Blocks or unblocks the name that was looked up. *)
CheckInfo == {On("toggleBlocking", {"processingRules"})}

(* The editor can be used and its text applied at any time, before the
   rules have arrived, too. *)
CustomRules ==
    Page({"rules"}, {}, <<"getFilteringStatus">>, {},
         {On("setRules", {})} \union Check \union CheckInfo)

RewritesTable ==
    LET loading == {"rewrites.processing", "rewrites.processingAdd",
                    "rewrites.processingDelete"}
    IN  {On("updateRewrite", loading), On("deleteRewrite", loading)}

RewritesForm == {On(op, {"rewrites.processingAdd"}) :
                   op \in {"addRewrite", "updateRewrite"}}

RewritesModal == RewritesForm

Rewrites ==
    Page({"rewrites", "rewriteSettings"}, {"rewrites.processing"},
         <<"getRewritesList", "getRewriteSettings">>, {},
         {On("updateRewriteSettings", {"rewrites.processingUpdate"})}
            \union RewritesTable \union RewritesModal)

ServicesForm ==
    {On("updateBlockedServices", {"services.processing", "services.processingSet"})}

(* The schedule is saved together with the services that the store holds. *)
ScheduleForm == {On("updateBlockedServices", {})}

(* Nothing is shown before the first list has arrived. *)
Services ==
    Page({"services", "catalogue"},
         {"services.processing", "processingAll", "services.missing"},
         <<"getBlockedServices", "getAllBlockedServices">>, {"services.missing"},
         ServicesForm \union ScheduleForm)

-----------------------------------------------------------------------------
(* components/Settings *)

FiltersConfig == {On("setFiltersConfig", {"processingSetConfig"})}

LogsForm == {On("setLogsConfig", {"logs.processingSetConfig"}),
             On("clearLogs", {"processingClear"})}

LogsConfig == LogsForm

StatsForm == {On("setStatsConfig", {"stats.processingSetConfig"}),
              On("resetStats", {"processingReset"})}

StatsConfig == StatsForm

AccountConfig == {On("changePassword", {"account.processing"})}

(* The page does not wait for the answer of getFilteringStatus, and the form
   of FiltersConfig does not follow it. *)
Settings ==
    LET loading == {"settings.processing", "stats.processingGetConfig",
                    "logs.processingGetConfig"}
    IN  Copying(
          Hiding(
            Page({"safebrowsing", "parental", "safesearch", "statsConfig",
                  "logsConfig"},
                 loading, <<"initSettings", "getStatsConfig", "getLogsConfig",
                            "getFilteringStatus">>, loading,
                 {On("toggleSafebrowsing", {}), On("toggleParental", {}),
                  On("toggleSafesearch", {})}
                    \union FiltersConfig \union LogsConfig \union StatsConfig
                    \union AccountConfig)),
          {"filtering"})

-----------------------------------------------------------------------------
(* components/Settings/Dns *)

(* One form for the three lists. *)
AccessForm == {On("setAccessList", {"access.processingSet"})}

Access == AccessForm

CacheForm == {On("setDnsCache", {"dns.processingSetConfig"}),
              On("clearDnsCache", {})}

CacheConfig == CacheForm

ConfigForm == {On("setDnsServer", {"dns.processingSetConfig"})}

Config == ConfigForm

UpstreamForm ==
    {On("testUpstream", {"processingTestUpstream"}),
     On("setDnsUpstreams", {"dns.processingSetConfig", "processingTestUpstream"})}

Upstream == UpstreamForm

Dns ==
    LET loading == {"access.processing", "processingGetConfig"}
    IN  Hiding(
          Page({"access", "dnsUpstreams", "dnsServer", "dnsCache"}, loading,
               <<"getAccessList", "getDnsConfig">>, loading,
               Upstream \union Config \union CacheConfig \union Access))

-----------------------------------------------------------------------------
(* components/Settings/Clients *)

(* A deleted client's statistics are loaded again. *)
ClientsTable ==
    {OnAll("deleteClient", {"processingDeleting"}, <<"getStats">>)}

ClientForm == {On(op, {"processingAdding", "processingUpdating"}) :
                 op \in {"addClient", "updateClient"}}

ClientsModal == ClientForm

(* The tables also ask for services and settings that this page does not
   change; that is left out. *)
Clients ==
    LET loading == {"processingStats", "processingClients"}
    IN  Hiding(Page({"clients", "stats"}, loading, <<"getClients", "getStats">>,
                    loading, ClientsTable \union ClientsModal))

-----------------------------------------------------------------------------
(* components/Settings/Dhcp *)

dhcpBusy == {"dhcp.processingConfig"}

FormDHCPv4 == {On("setDhcpConfig", dhcpBusy)}

FormDHCPv6 == {On("setDhcpConfig", dhcpBusy)}

StaticLeases == {On("removeStaticLease", {"dhcp.processingDeleting"})}

StaticLeasesForm == {On("addStaticLease", {"dhcp.processingAdding"}),
                     On("updateStaticLease", {"dhcp.processingAdding"})}

StaticLeasesModal == StaticLeasesForm

(* The reset's confirmation starts the reset and a reload together. *)
Dhcp ==
    LET loading == {"dhcp.processing", "processingInterfaces"}
    IN  Hiding(
          Page({"dhcp", "leases"}, {"dhcp.processing"}, <<"loadDhcpPage">>, loading,
               {On("toggleDhcp", {"processingDhcp"} \union dhcpBusy),
                On("findActiveDhcp", {"processingStatus"} \union dhcpBusy),
                OnAll("resetDhcp", dhcpBusy, <<"getDhcpStatus">>),
                On("resetDhcpLeases", dhcpBusy)}
                  \union FormDHCPv4 \union FormDHCPv6 \union StaticLeases
                  \union StaticLeasesModal))

-----------------------------------------------------------------------------
(* components/Settings/Encryption.  The form is validated whenever a field
   is left; clearing it saves and validates at the same time. *)

EncryptionForm ==
    {On("setTlsConfig", {"processingConfig", "processingValidate"}),
     OnAll("setTlsConfig", {"processingConfig"}, <<"validateTlsConfig">>),
     On("validateTlsConfig", {})}

Encryption ==
    Page({"tls"}, {"tls.processing"}, <<"getTlsStatus">>, {"tls.processing"},
         EncryptionForm)

-----------------------------------------------------------------------------
(* components/Dashboard, its status polling and countdown apart *)

TopClients == {On("blockTopClient", {"access.processingSet"})}

Dashboard ==
    LET loading == {"processingStats", "stats.processingGetConfig",
                    "access.processing"}
    IN  Hiding(
          Page({"stats", "access"}, loading,
               <<"getAccessList", "getStats", "getStatsConfig">>, loading,
               {OnAll("getStats", {}, <<"getStatsConfig", "getAccessList">>)}
                  \union TopClients))

(* components/ui/Footer and Version, on every page *)

Version == {On("getVersion", {"processingVersion"})}

Footer == Page({"profile"}, {}, <<>>, {}, {On("changeProfile", {})} \union Version)

-----------------------------------------------------------------------------
(* components/Logs, its paging apart: the menus of its rows *)

LogsRow == {On("toggleBlocking", {}), On("toggleBlockingForClient", {}),
            On("toggleClientBlock", {"access.processingSet"})}

ClientCell == {On("toggleBlocking", {}), On("toggleBlockingForClient", {}),
               On("toggleClientBlock", {})}

LogRows ==
    Page({"rules", "access"}, {"logs.processingGetConfig"},
         <<"getFilteringStatus", "getLogsConfig", "getAccessList">>,
         {"logs.processingGetConfig"}, LogsRow \union ClientCell)

-----------------------------------------------------------------------------
(* login *)

LoginForm == {On("processLogin", {"processingLogin"})}

Login == Page({}, {}, <<>>, {}, LoginForm)
=============================================================================
