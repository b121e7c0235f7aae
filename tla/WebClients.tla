----------------------------- MODULE WebClients -----------------------------
(***************************************************************************)
(* The two web clients as tables: the pages that their routers know, and   *)
(* for each page the thunks of the client that it belongs to.              *)
(***************************************************************************)
EXTENDS TLC

V1 == INSTANCE ClientV1
P1 == INSTANCE PagesV1
V2 == INSTANCE ClientV2
P2 == INSTANCE PagesV2

(* The pages of client. *)
Pages1 ==
    [blocklists1 |-> P1!DnsBlocklist, allowlists1 |-> P1!DnsAllowlist,
     userRules1 |-> P1!CustomRules, rewrites1 |-> P1!Rewrites,
     services1 |-> P1!Services, settings1 |-> P1!Settings, dns1 |-> P1!Dns,
     clients1 |-> P1!Clients, dhcp1 |-> P1!Dhcp, encryption1 |-> P1!Encryption,
     dashboard1 |-> P1!Dashboard, logRows1 |-> P1!LogRows,
     footer1 |-> P1!Footer, login1 |-> P1!Login]

(* The pages of client_v2. *)
Pages2 ==
    [blocklists |-> P2!Blocklists, allowlists |-> P2!Allowlists,
     rewrites |-> P2!DNSRewrites, dns |-> P2!DnsSettings,
     upstreams |-> P2!UpstreamServers, access |-> P2!Access,
     services |-> P2!BlockedServices, clients |-> P2!Clients,
     discovery |-> P2!Discovery, settings |-> P2!Settings,
     relayCards |-> P2!RelayCards, toolCards |-> P2!ToolCards,
     telegram |-> P2!TelegramCard, encryption |-> P2!Encryption,
     dhcp |-> P2!Dhcp, leases |-> P2!LeasesPage, dashboard |-> P2!Dashboard,
     footer |-> P2!Footer, userRules |-> P2!UserRules,
     logRows |-> P2!QueryLogRows, login |-> P2!Login]

ClientPages == Pages1 @@ Pages2

ClientThunks ==
    [p \in DOMAIN ClientPages |->
       IF p \in DOMAIN Pages1 THEN V1!Thunks ELSE V2!Thunks]
=============================================================================
