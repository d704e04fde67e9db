SPECIFICATION Spec
CONSTANTS
    c1 = c1
    c2 = c2
    c3 = c3
    a = a
    b = b
    t = t
    p = p
    q = q
    h1 = h1
    h2 = h2
    m1 = m1
    m2 = m2
    NoConn = NoConn
    NoAddr = NoAddr
    NoId = NoId
    Conn = {c1, c2}
    Addr = {a, t, p}
    PubIp = {p}
    Priv <- MCOnePriv
    Tgt <- MCOneTgt
    Alg = {}
    DL = {}
    MaxEntries = 2
    MaxTemp = 1
    MaxPwr = 1
    Handle = {h1, h2}
    RuleId = {m1}
    Faults = {"add", "delete", "addTable", "deleteTable"}
SYMMETRY MCSymmetry
INVARIANTS
    CacheSound
