SPECIFICATION LibrarySpec
CONSTANTS
    o1 = o1
    o2 = o2
    o3 = o3
    p1 = p1
    p2 = p2
    usb = usb
    NoPort = NoPort
    Nobody = Nobody
    Objects = {o1, o2, o3}
    Processes = {p1, p2}
    Ports = {usb}
    Descriptors = {0, 1}
    Host <- MCHost
    Attributes <- MCAttributes
    Settable <- MCSettable
    Dsrdtr = {FALSE}
    States = {TRUE}
    OneOpener = TRUE
    MaxIn = 3
    MaxOut = 4
    Room = 2
    Endings <- MCEndings
    u1 = u1
    u2 = u2
    u3 = u3
    la = la
    lb = lb
    n1 = n1
    n2 = n2
    n3 = n3
    n4 = n4
    NULL = NULL
    ma = ma
    mb = mb
    na = na
    acm = acm
    ftdi = ftdi
    pnp = pnp
    soc = soc
    bare = bare
    Nothing = Nothing
    None = None
    Bad = Bad
    IntWidth = 10
    PromotedWidth = 3
    SizeWidth = 5
    PerLine = 2
    MicroTicks = 2
    Micros = 2
    Calls <- MCCalls
    Initially <- MCInitially
    Requests <- MCRequests
    Users = {u1, u2, u3}
    MaxRuns = 4
    Threads = {u1, u2, u3}
    MaxPuts = 4
    Modules = {ma, mb}
    Names = {na}
    NameOf <- MCNameOf
    Levels = {10, 30, 60}
    Entries = {1, 2, 3}
    Families <- MCFamilies
    FamilyOf <- MCFamilyOf
    Devices = {acm, ftdi, pnp, soc, bare}
    SubsystemOf <- MCSubsystemOf
    NoLink = "no link"
    MaxChanges = 2
    Lists = {la, lb}
    Nodes = {n1, n2, n3, n4}
SYMMETRY MCSymmetry
INVARIANTS
    HandlesAreOwned
    ExclusiveIsHeld
    SettingsFollow
    BytesInOrder
    CallsDeliver
    StateIsTrue
    GettersAreServed
    ListsAgree
    LevelsAgree
    RestoreGivesBack
    ScanIsTrue
    SettingsApplied
    ReadBack
CHECK_DEADLOCK FALSE
