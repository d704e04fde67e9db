SPECIFICATION Spec
CONSTANTS
    c1 = c1
    c2 = c2
    c3 = c3
    c4 = c4
    NoConn = NoConn
    N = 4
    E = 2
    DmaMayFail = TRUE
    Conn <- MCConn
    DstHash <- MCFillDstHash
    SrcHash <- MCFillSrcHash
INVARIANTS
    HandlesSound
PROPERTIES
    HandlesKeepMeaning
