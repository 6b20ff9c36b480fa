SPECIFICATION MCSpec
CONSTANTS
    IntWidth = 10
    o1 = o1
    o2 = o2
    o3 = o3
    p1 = p1
    p2 = p2
    usb = usb
    NoPort = NoPort
    Nobody = Nobody
    Objects = {o1, o2, o3}
    Processes = {p1, p2}
    Ports = {usb}
    Descriptors = {0, 1}
    Host <- MCHost
    Attributes <- MCAttributes
    Settable <- MCSettable
    Dsrdtr = {FALSE}
    States = {TRUE}
    OneOpener = FALSE
    MaxIn = 3
    MaxOut = 4
    Room = 2
    Endings <- MCEndings
SYMMETRY MCSymmetry
INVARIANTS
    ExclusiveIsHeld
CHECK_DEADLOCK FALSE
