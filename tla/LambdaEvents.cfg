\* A warm lambda that serves events of several accounts, or only its own, and
\* security hub findings about regional resources.
SPECIFICATION Spec
CONSTANTS
    home = home
    a1 = a1
    a2 = a2
    r1 = r1
    r2 = r2
    Accounts <- MCAccounts
    Regions <- MCRegions
    Home = home
    HomeRegion = r1
    NoRegion = NoRegion
    NoSession = NoSession
    Cold = Cold
    Modes = {"event", "guard-duty", "hub"}
    MemberRoles = {TRUE, FALSE}
    HubPlaces <- RegionalPlaces
    MaxEvents = 3
INVARIANTS
    ActsAtEventPlace
