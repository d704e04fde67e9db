SPECIFICATION Spec
CONSTANTS
    c1 = c1
    c2 = c2
    c3 = c3
    c4 = c4
    NoConn = NoConn
    N = 4
    E = 4
    DmaMayFail = FALSE
    Conn <- MCConn
    DstHash <- MCDstHash
    SrcHash <- MCSrcHash
SYMMETRY MCSymmetry
INVARIANTS
    TypeOK
    HardwareSeesHeld
    LinksAgree
PROPERTIES
    ImplementsNatTable
