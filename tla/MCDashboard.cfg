SPECIFICATION MCSpec
CONSTANTS
    Hosts = {"h1", "h2"}
    Names <- MCNames
    Texts = {"", "a"}
    NamesWith <- MCNamesWith
    Usages <- MCUsages
    Containers <- MCContainers
    Table <- MCTable
    Limit = 1
    MaxInflight = 2
    MaxClicks = 3
    MaxChanges = 1
INVARIANT DashboardInv
PROPERTY SettlesOnTheUrl
