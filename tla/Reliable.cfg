SPECIFICATION FairSpec
CONSTANTS
    Client = client
    Server = server
    ClientSends = 3
    ServerSends = 1
    SendWindow = 2
    RecvWindow = 2
    MaxAcksPerPacket = 2
    RecentAcks = 1
    MaxPending = 2
    MaxOdd = 1
INVARIANT LayerInv
PROPERTIES ImplementsInOrderDelivery AllDelivered
