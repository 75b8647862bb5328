SPECIFICATION Spec
CONSTANTS
    None = None
    u1 = u1
    u2 = u2
    verwaltung = verwaltung
    lesen = lesen
    frei = frei
    bad = bad
    Users = {u1, u2}
    Groups = {verwaltung, lesen, frei}
    Zones = {bad}
    Codes = {"user.manage", "group.manage", "token.self", "zone.read"}
    ZoneScoped = {"zone.read"}
    Administrators = verwaltung
    ExampleGroups <- MCExampleGroups
    WantedGrants <- MCWantedGrants
    Owner = u1
    Callers = {k1, k2}
    Selections <- MCSelections
    MaxPairs = 3
    MaxUnused = 1
    MaxPending = 1
    Browsers = {b1, b2}
    MaxSessions = 2
    MaxPasswords = 1
    MaxFailures = 1
    MaxCount = 1
    Challenges = {h1}
    SnapshotIsolation = TRUE
    MaxLater = 1
SYMMETRY Symmetric
INVARIANTS
    StillManaged
    OneLiveRefresh
    ChallengeOpensOne
PROPERTIES
    DeadStaysDead
CHECK_DEADLOCK FALSE
