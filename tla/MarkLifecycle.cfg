\* Every configuration, on hosts in UTC and ahead of it.
SPECIFICATION FairMarkSpec
CONSTANTS
    Resources = {r1}
    HoursPerDay = 3
    Configs <- MCConfigs
    Hosts = {0, 1}
    None = None
    Unread = Unread
    Cap = 6
INVARIANTS
    GraceKept
PROPERTIES
    BadIsOperated
