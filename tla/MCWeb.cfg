SPECIFICATION Spec
CONSTANTS
    AllPages <- MCPages
    ThunksOf <- MCThunks
    Shown = {"blocklists", "allowlists", "rewrites", "dns", "upstreams", "access",
             "services", "clients", "discovery", "settings", "relayCards",
             "toolCards", "telegram", "encryption", "dhcp", "leases", "dashboard",
             "footer", "userRules", "logRows", "login",
             "blocklists1", "allowlists1", "userRules1", "rewrites1", "services1",
             "settings1", "dns1", "clients1", "dhcp1", "encryption1", "dashboard1",
             "logRows1", "footer1", "login1"}
    MaxClicks = 2
    MaxTrouble = 1
    Watchers = {"v1", "v2"}
    Pause = 2
    MaxSwitches = 2
    MaxViews = 1
    MaxAttempts = 2
    Viewers = {"v1", "v2"}
    Matching = {1, 3}
    Limit = 2
    Scan = 2
    StartLen = 4
    MaxLen = 5
    MaxFilters = 2
    MaxScrolls = 2
    MaxRefused = 1
    Wizards = {"v1", "v2"}
    Addresses = {2}
    MaxTyped = 1
    MaxTurns = 3
    MaxChecks = 2
    MaxFaults = 1
CHECK_DEADLOCK FALSE
INVARIANTS
    SpinnersEnd Converged EditsSurvive
    SwitchIsTrue StatusComes
    LogCoherent LogWhole LogGoesOn
    WizardOnPage InstalledAsTyped
