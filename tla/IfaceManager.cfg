SPECIFICATION Spec
CONSTANTS
    usb = usb
    rmnet = rmnet
    wlan = wlan
    o1 = o1
    o2 = o2
    o3 = o3
    Iface = {usb, rmnet, wlan}
    InitialCat <- MCCategory
    Obj = {o1, o2, o3}
    Manager = Manager
    NoIface = NoIface
    NoMessage = NoMessage
    MaxPosted = 1
INVARIANTS
    LifeTypeOK
    ListMatchesInstances
    ClosingIsDeletedOnce
    SettlesAsAsked
PROPERTIES
    ClosingEnds
