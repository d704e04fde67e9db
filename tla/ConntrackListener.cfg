SPECIFICATION MCSpecZeroed
CONSTANTS
    c1 = c1
    c2 = c2
    c3 = c3
    c4 = c4
    a = a
    n = n
    t = t
    u = u
    v = v
    p = p
    q = q
    h1 = h1
    h2 = h2
    m1 = m1
    m2 = m2
    NoConn = NoConn
    NoAddr = NoAddr
    NoId = NoId
    Conn = {c1, c3}
    Addr = {a, n, t, u, p, q}
    PubIp = {p, q}
    NatAddr = {a, t}
    Private = {a, n}
    StaSubnet = {t, u}
    Priv <- MCPrivOf
    Tgt <- MCTgtOf
    Alg = {}
    DL = {}
    MaxEntries = 1
    MaxTemp = 1
    MaxPwr = 0
    MaxIface = 1
    MaxSta = 2
    Handle = {h1}
    RuleId = {}
    Faults = {}
SYMMETRY MCSymmetry
INVARIANTS
    WanMatchesTable
    ClosedNatAreForgotten
