SPECIFICATION MCSpec
CONSTANTS
    None = None
    Port = {"a", "b"}
    Slave = {"s"}
    OwnerOf <- Owners
    Virtual = {"a"}
    Room = 1
    Names = {"m", "s"}
    Hidden = {"offline ports", "offline devices", "disabled ports", "offline in table", "disabled in table"}
    MaxUses = 2
    MaxFails = 1
    Id = {a, b}
    Config = {x, y}
    MaxCalls = 2
    MaxGets = 1
    MaxForms = 1
    Device = {d}
    MaxLoads = 2
    MaxEdits = 2
    MaxChanges = 1
    MaxExpected = 1
    Endpoints = 3
    MaxSelections = 2
    MaxRuns = 2
    Password = {p, q}
    Empty = Empty
    Path = {Home, z}
    Home = Home
    Login = Login
    MaxTries = 1
    MaxReloads = 1
    MaxVisits = 1
INVARIANTS  PeripheralsSettle DiscoveryTells  BackupTells AccessHolds
SYMMETRY Symmetry
CHECK_DEADLOCK FALSE
