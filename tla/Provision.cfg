SPECIFICATION ProvisionSpec
CONSTANTS
    NoGpu = FALSE
    BuildBox = TRUE
    Beside = FALSE
    Picked = {"firewall"}
    Editable = {"mounted", "daemon.json"}
    MaxTroubles = 1
    Conditions = {"other platform", "stray entry", "foreign mount",
        "token", "co-tenant", "relay refuses"}
PROPERTIES BoxKept ProvisionSettles
CHECK_DEADLOCK FALSE
