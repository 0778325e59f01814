SPECIFICATION FairSpec
CONSTANTS
    p1 = p1
    p2 = p2
    Nobody = Nobody
    Listener = Listener
    Peers = {p1, p2}
    Fds = {3, 4, 5}
    MaxHandlers = 2
    MaxFrames = 2
INVARIANTS TypeOK DescriptorsOwned Attended
PROPERTY ConnectionsEnd
