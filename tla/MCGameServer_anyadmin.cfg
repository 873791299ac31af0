CONSTANTS
    c1 = c1
    c2 = c2
    c3 = c3
    p = p
    q = q
    guest = guest
    admin = admin
    t1 = t1
    t2 = t2
    None = None
    GuestLogin = guest
    AdminLogin = admin
    Players = {p}
    Ids = {c1, c2, c3}
    Tables = {t1}
    Registered = {p}
    Staff = {p}
    MAX_PLAYERS = 2
    START_UP_CAPITAL = 1
    ADMIN_CAPITAL = 1
    INT_MAX = 127
    Offers <- UnitBets
    Outcomes <- BlackOnly
    Grants <- UserOnly
    SettableLogins = {p, guest, admin}
    CarefulAdmin = FALSE
    MaxBets = 1
    MinBalance = 1
    MaxBalance = 1
SYMMETRY ThreeConnections
SPECIFICATION Spec
INVARIANTS
    LoginMapped
    BalanceCached
    CroupierKeepsTable
    TableCapacity
    ClientInSync
PROPERTIES SeatingKept
