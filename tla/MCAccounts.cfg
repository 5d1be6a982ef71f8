SPECIFICATION Spec
CONSTANTS
    p1 = p1
    p2 = p2
    h0 = h0
    h1 = h1
    h2 = h2
    e1 = e1
    e2 = e2
    w1 = w1
    w2 = w2
    f1 = f1
    f2 = f2
    on = on
    off = off
    None = None
    Procs = {p1, p2}
    Owner = h0
    Handles = {h0, h1, h2}
    Subs = {e1, e2}
    Bosses = {e2}
    Passwords = {w1, w2}
    Initial = w1
    Fields = {f1, f2}
    Values = {on, off}
    EnvOf <- MCEnvOf
    Ttl = 3
    Throttle = 1
    TxTtl = 1
    Mixes <- MCMixes
SYMMETRY Same
INVARIANTS
    TypeOK
    SessionsEnd
    AnAdminRemains
    TenantsArePersons
    ConfigIsCurrent
    AccessHolds
CHECK_DEADLOCK FALSE
