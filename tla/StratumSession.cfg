SPECIFICATION FairSpec
CONSTANTS
    Pools = {0, 1}
    Files = {3, 4}
    Keepalive = {0}
    MaxShares = 2
    MaxFaults = 2
    MaxWire = 2
    None = None
INVARIANTS TypeOK OwnPoolWhileConnected SteadyShareHasItsId SessionIsMutual
           
PROPERTY SessionRegained
