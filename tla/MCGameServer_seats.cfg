CONSTANTS
    c1 = c1
    c2 = c2
    c3 = c3
    p = p
    q = q
    guest = guest
    admin = admin
    t1 = t1
    t2 = t2
    None = None
    GuestLogin = guest
    AdminLogin = admin
    Players = {p, q}
    Ids = {c1, c2, c3}
    Tables = {t1, t2}
    Registered = {p}
    Staff = {p}
    MAX_PLAYERS = 2
    START_UP_CAPITAL = 2
    ADMIN_CAPITAL = 2
    INT_MAX = 127
    Offers <- NoOffers
    Outcomes <- RedOrBlack
    Grants <- UserGrant
    SettableLogins = {p, q, admin}
    CarefulAdmin = TRUE
    MaxBets = 0
    MinBalance = 0
    MaxBalance = 2
SYMMETRY ThreeConnections
SPECIFICATION Spec
INVARIANTS
    TypeOK
    SeatsMatch
    NeverTerminated
    TableCapacity
    TalkStaysAtTable
    RolesShown
    TablesShown
