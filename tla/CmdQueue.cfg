SPECIFICATION Spec
CONSTANTS
    link = link
    route = route
    delself = delself
    NoEvent = NoEvent
    NoNode = NoNode
    Event <- MCEvent
    Internal = {delself}
    Node = {n1, n2, n3}
INVARIANTS
    TypeOK
PROPERTIES
    ImplementsEventQueue
